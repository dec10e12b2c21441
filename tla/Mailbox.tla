------------------------------ MODULE Mailbox ------------------------------
(***************************************************************************)
(* What one direction of the channel between the app and its packet tunnel *)
(* extension promises.  Messages are numbered in the order in which they   *)
(* are passed.  The channel keeps the newest message only: one may never   *)
(* arrive, or arrive twice, but none arrives after a newer one.            *)
(***************************************************************************)
EXTENDS Naturals

CONSTANT MaxMessages     \* bound: messages passed

VARIABLES
    passed,     \* how many messages were passed
    latest      \* the message that arrived last, 0 before the first one

vars == <<passed, latest>>

Init == passed = 0 /\ latest = 0

Pass == passed < MaxMessages /\ passed' = passed + 1 /\ latest' = latest

Arrive ==
    /\ latest' \in {i \in 1 .. passed : latest <= i}
    /\ passed' = passed

Next == Pass \/ Arrive

Spec == Init /\ [][Next]_vars
=============================================================================
