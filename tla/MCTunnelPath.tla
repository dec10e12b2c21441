---------------------------- MODULE MCTunnelPath ----------------------------
EXTENDS TunnelPath

MCPackets == 1 .. MaxMessages

\* Lengths of both parities, longer and not longer than the atomic size.
MCSizes == <<3, 6, 2, 5, 4>>

\* The middle of packet 4 spells the head.
MCSpelled == {<<4, 6>>}
=============================================================================
