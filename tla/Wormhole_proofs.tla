-------------------------- MODULE Wormhole_proofs --------------------------
(***************************************************************************)
(* For any number of messages, notifications and restarts of the receiver: *)
(* the wormhole keeps its types and implements the mailbox.                *)
(***************************************************************************)
EXTENDS Wormhole, TLAPS

\* Notifications on their way never outnumber the messages, and each of them was
\* posted after a message was written.
Notified ==
    /\ posted + (IF posting THEN 1 ELSE 0) <= passed
    /\ posting \/ posted > 0 => file >= 1
    /\ file <= passed

\* From the listener's last message over its main queue to the file, messages only
\* get newer.
Ordered ==
    /\ latest <= file
    /\ \A i \in 1 .. Len(blocks) : latest <= blocks[i] /\ blocks[i] <= file
    /\ \A i, j \in 1 .. Len(blocks) : i <= j => blocks[i] <= blocks[j]

WormholeInv == WormholeTypeOK /\ Notified /\ Ordered

LEMMA Bounds == MaxMessages \in Nat /\ MaxQuits \in Nat
  BY WormholeAssumption

LEMMA InitWormholeInv == WormholeInit => WormholeInv
  <1> SUFFICES ASSUME WormholeInit PROVE WormholeInv
      OBVIOUS
  <1>1. blocks \in Seq(1 .. MaxMessages) /\ Len(blocks) = 0
      BY DEF WormholeInit
  <1>2. WormholeTypeOK
    <2>1. 0 \in 0 .. MaxMessages /\ 0 \in 0 .. MaxQuits
        BY Bounds
    <2>2. posting \in BOOLEAN /\ listening \in BOOLEAN
        BY DEF WormholeInit
    <2> QED BY <1>1, <2>1, <2>2 DEF WormholeInit, WormholeTypeOK
  <1>3. Notified /\ Ordered
      BY <1>1 DEF WormholeInit, Notified, Ordered
  <1> QED BY <1>2, <1>3 DEF WormholeInv

LEMMA WriteWormholeInv == WormholeInv /\ Write => WormholeInv'
  <1> SUFFICES ASSUME WormholeInv, Write PROVE WormholeInv'
      OBVIOUS
  <1> USE Bounds DEF WormholeInv, Write, receiver
  <1>1. WormholeTypeOK'
    <2>1. passed' \in 0 .. MaxMessages /\ file' \in 0 .. MaxMessages
        BY DEF WormholeTypeOK
    <2>2. posting' \in BOOLEAN
        BY DEF WormholeTypeOK
    <2> QED BY <2>1, <2>2 DEF WormholeTypeOK
  <1>2. Notified'
      BY DEF WormholeTypeOK, Notified
  <1>3. Ordered'
      BY DEF WormholeTypeOK, Notified, Ordered
  <1> QED BY <1>1, <1>2, <1>3

LEMMA PostWormholeInv == WormholeInv /\ Post => WormholeInv'
  <1> SUFFICES ASSUME WormholeInv, Post PROVE WormholeInv'
      OBVIOUS
  <1> USE Bounds DEF WormholeInv, Post, receiver
  <1>1. WormholeTypeOK'
    <2>1. posted' \in 0 .. MaxMessages
        BY DEF WormholeTypeOK, Notified
    <2>2. posting' \in BOOLEAN
        OBVIOUS
    <2> QED BY <2>1, <2>2 DEF WormholeTypeOK
  <1>2. Notified'
      BY DEF WormholeTypeOK, Notified
  <1>3. Ordered'
      BY DEF WormholeTypeOK, Ordered
  <1> QED BY <1>1, <1>2, <1>3

LEMMA ReceiveWormholeInv == WormholeInv /\ Receive => WormholeInv'
  <1> SUFFICES ASSUME WormholeInv, Receive PROVE WormholeInv'
      OBVIOUS
  <1> USE Bounds DEF WormholeInv, Receive, sender
  <1>1. file \in 1 .. MaxMessages
      BY DEF WormholeTypeOK, Notified
  <1>2. /\ Len(blocks') = Len(blocks) + 1
        /\ \A i \in 1 .. Len(blocks) : blocks'[i] = blocks[i]
        /\ blocks'[Len(blocks) + 1] = file
      BY DEF WormholeTypeOK
  <1>3. WormholeTypeOK'
      BY <1>1 DEF WormholeTypeOK
  <1>4. Notified'
      BY DEF WormholeTypeOK, Notified
  <1>5. Ordered'
    <2>1. \A i \in 1 .. Len(blocks') : latest <= blocks'[i] /\ blocks'[i] <= file
        BY <1>1, <1>2 DEF WormholeTypeOK, Ordered
    <2>2. \A i, j \in 1 .. Len(blocks') : i <= j => blocks'[i] <= blocks'[j]
        BY <1>1, <1>2 DEF WormholeTypeOK, Ordered
    <2> QED BY <2>1, <2>2 DEF Ordered
  <1> QED BY <1>3, <1>4, <1>5

LEMMA RunListenerWormholeInv == WormholeInv /\ RunListener => WormholeInv'
  <1> SUFFICES ASSUME WormholeInv, RunListener PROVE WormholeInv'
      OBVIOUS
  <1> USE Bounds DEF WormholeInv, RunListener, sender
  <1>1. /\ Head(blocks) = blocks[1] /\ Head(blocks) \in 1 .. MaxMessages
        /\ 1 \in 1 .. Len(blocks)
        /\ Len(blocks') = Len(blocks) - 1
        /\ \A i \in 1 .. Len(blocks') : blocks'[i] = blocks[i + 1]
      BY DEF WormholeTypeOK
  <1>2. WormholeTypeOK'
    <2>1. blocks' \in Seq(1 .. MaxMessages)
        BY DEF WormholeTypeOK
    <2>2. latest' \in 0 .. MaxMessages
        BY <1>1 DEF WormholeTypeOK
    <2> QED BY <2>1, <2>2 DEF WormholeTypeOK
  <1>3. Notified'
      BY DEF WormholeTypeOK, Notified
  <1>4. Ordered'
    <2>1. latest' <= file'
        BY <1>1 DEF Ordered
    <2>2. \A i \in 1 .. Len(blocks') : i + 1 \in 1 .. Len(blocks)
        BY <1>1 DEF WormholeTypeOK
    <2>3. \A i \in 1 .. Len(blocks') : latest' <= blocks'[i] /\ blocks'[i] <= file'
        BY <1>1, <2>2 DEF WormholeTypeOK, Ordered
    <2>4. \A i, j \in 1 .. Len(blocks') : i <= j => blocks'[i] <= blocks'[j]
        BY <1>1, <2>2 DEF WormholeTypeOK, Ordered
    <2> QED BY <2>1, <2>3, <2>4 DEF Ordered
  <1> QED BY <1>2, <1>3, <1>4

LEMMA OthersWormholeInv == WormholeInv /\ (Listen \/ Quit \/ UNCHANGED wormholeVars) => WormholeInv'
  <1> SUFFICES ASSUME WormholeInv, Listen \/ Quit \/ UNCHANGED wormholeVars PROVE WormholeInv'
      OBVIOUS
  <1> USE Bounds DEF WormholeInv, WormholeTypeOK, Notified, Ordered, sender, receiver
  <1>1. CASE Listen
      BY <1>1 DEF Listen
  <1>2. CASE Quit
    <2>1. blocks' \in Seq(1 .. MaxMessages) /\ Len(blocks') = 0
        BY <1>2 DEF Quit
    <2>2. quits' \in 0 .. MaxQuits
        BY <1>2 DEF Quit
    <2>3. WormholeTypeOK'
      <3>1. posted' \in 0 .. MaxMessages
          BY <1>2 DEF Quit
      <3>2. listening' \in BOOLEAN
          BY <1>2 DEF Quit
      <3> QED BY <1>2, <2>1, <2>2, <3>1, <3>2 DEF Quit
    <2>4. Notified'
        BY <1>2 DEF Quit
    <2>5. Ordered'
        BY <1>2, <2>1 DEF Quit
    <2> QED BY <2>3, <2>4, <2>5
  <1>3. CASE UNCHANGED wormholeVars
      BY <1>3 DEF wormholeVars
  <1> QED BY <1>1, <1>2, <1>3

LEMMA StepWormholeInv == WormholeInv /\ [WormholeNext]_wormholeVars => WormholeInv'
  BY WriteWormholeInv, PostWormholeInv, ReceiveWormholeInv, RunListenerWormholeInv, OthersWormholeInv DEF WormholeNext

THEOREM WormholeInductive == WormholeSpec => []WormholeInv
  <1>1. WormholeInit => WormholeInv
      BY InitWormholeInv
  <1>2. WormholeInv /\ [WormholeNext]_wormholeVars => WormholeInv'
      BY StepWormholeInv
  <1> QED BY <1>1, <1>2, PTL DEF WormholeSpec

\* A step of the wormhole is a step of the mailbox or changes nothing there.
LEMMA StepSimulates == WormholeInv /\ [WormholeNext]_wormholeVars => [Channel!Next]_(Channel!vars)
  <1> SUFFICES ASSUME WormholeInv, [WormholeNext]_wormholeVars PROVE [Channel!Next]_(Channel!vars)
      OBVIOUS
  <1> USE DEF Channel!Next, Channel!vars
  <1>1. CASE Write
      BY <1>1 DEF Write, Channel!Pass
  <1>2. CASE RunListener
    <2>1. Head(blocks) = blocks[1] /\ 1 \in 1 .. Len(blocks)
        BY <1>2 DEF RunListener, WormholeInv, WormholeTypeOK
    <2>2. latest' \in 1 .. passed /\ latest <= latest'
        BY <1>2, <2>1, Bounds DEF RunListener, WormholeInv, WormholeTypeOK, Notified, Ordered
    <2>3. passed' = passed
        BY <1>2 DEF RunListener, sender
    <2> QED BY <2>2, <2>3 DEF Channel!Arrive
  <1>3. CASE Post \/ Listen \/ Receive \/ Quit \/ UNCHANGED wormholeVars
      BY <1>3 DEF Post, Listen, Receive, Quit, wormholeVars, sender, receiver
  <1> QED BY <1>1, <1>2, <1>3 DEF WormholeNext

\* The wormhole implements the mailbox: its listener gets nothing that was not passed
\* and nothing older than what it got before.
THEOREM ImplementsMailbox == WormholeSpec => MailboxSpec
  <1>1. WormholeInit => Channel!Init
      BY DEF WormholeInit, Channel!Init
  <1>2. WormholeInv /\ [WormholeNext]_wormholeVars => [Channel!Next]_(Channel!vars)
      BY StepSimulates
  <1> QED BY <1>1, <1>2, WormholeInductive, PTL DEF WormholeSpec, MailboxSpec, Channel!Spec
=============================================================================
