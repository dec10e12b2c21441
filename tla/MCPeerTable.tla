---------------------------- MODULE MCPeerTable ----------------------------
EXTENDS PeerTable

CONSTANTS a, b, s1, s2, s3

MCHome == [e \in Edges |-> IF e = a THEN s1 ELSE s2]
MCOneWay == {<<a, b>>}
=============================================================================
