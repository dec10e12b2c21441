-------------------------- MODULE MCEthernetBridge --------------------------
EXTENDS EthernetBridge

CONSTANTS g, a, h, m1, m2
=============================================================================
