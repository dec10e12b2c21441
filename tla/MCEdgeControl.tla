--------------------------- MODULE MCEdgeControl ---------------------------
(* EdgeControl with two presses of start.  Two descriptors are enough for  *)
(* reuse of a closed one, and let pipe() fail when both are open.          *)
EXTENDS EdgeControl

MCFds == 1..2
=============================================================================
