------------------------------ MODULE Wormhole ------------------------------
(***************************************************************************)
(* One direction of the MMWormhole between the app and its packet tunnel   *)
(* extension: "readPackets" carries what the system sends from the         *)
(* extension to the app, "writePacket" what the edge received from the app *)
(* to the extension.                                                       *)
(*                                                                         *)
(* The sender writes the message into the file of its identifier and posts *)
(* a notification that carries nothing.  A notification makes the receiver *)
(* read the file, whatever it holds by then, and put a block on its main   *)
(* queue that hands what was read to the listener.  Nobody ever deletes    *)
(* the file.  There is one sending thread at a time.                       *)
(***************************************************************************)
EXTENDS Naturals, Sequences

CONSTANTS
    MaxMessages,   \* bound: messages passed
    MaxQuits,      \* bound: how often the receiving process ends
    Fails          \* whether writing the file may fail

ASSUME WormholeAssumption ==
    /\ {MaxMessages, MaxQuits} \subseteq Nat
    /\ Fails \in BOOLEAN

VARIABLES
    \* of the sender
    passed,        \* how many messages were passed; the last one has this number
    posting,       \* the file was written, the notification is not posted yet
    \* of the system
    file,          \* the message in the file, 0 if none was written
    posted,        \* notifications on their way to the receiver
    \* of the receiver
    listening,     \* it has registered its listener
    blocks,        \* its main queue: the messages to hand to the listener
    quits,
    \* what the properties refer to
    latest         \* the message the listener got last, 0 before the first one

sender == <<passed, posting>>
receiver == <<listening, blocks, quits>>
wormholeVars == <<sender, file, posted, receiver, latest>>

WormholeTypeOK ==
    /\ passed \in 0 .. MaxMessages /\ posting \in BOOLEAN
    /\ file \in 0 .. MaxMessages /\ posted \in 0 .. MaxMessages
    /\ listening \in BOOLEAN /\ blocks \in Seq(1 .. MaxMessages)
    /\ quits \in 0 .. MaxQuits
    /\ latest \in 0 .. MaxMessages

WormholeInit ==
    /\ passed = 0 /\ posting = FALSE
    /\ file = 0 /\ posted = 0
    /\ listening = FALSE /\ blocks = <<>> /\ quits = 0
    /\ latest = 0

\* writeMessageObject replaces the file; if it fails there is no notification.
Write ==
    /\ ~posting /\ passed < MaxMessages
    /\ passed' = passed + 1
    /\ \/ file' = passed' /\ posting' = TRUE
       \/ Fails /\ UNCHANGED <<file, posting>>
    /\ UNCHANGED <<posted, receiver, latest>>

\* The system may merge a notification with one that is on its way already,
\* and forgets one that nobody has registered for.
Post ==
    /\ posting /\ posting' = FALSE
    /\ \/ posted' = posted + (IF listening THEN 1 ELSE 0)
       \/ posted > 0 /\ posted' = posted
    /\ UNCHANGED <<passed, file, receiver, latest>>

Listen ==
    /\ ~listening /\ listening' = TRUE
    /\ UNCHANGED <<sender, file, posted, blocks, quits, latest>>

\* Mutant: no second block is queued while one waits.
Receive_throttled ==
    /\ posted > 0 /\ posted' = posted - 1
    /\ blocks' = IF blocks = <<>> THEN <<file>> ELSE blocks
    /\ UNCHANGED <<sender, file, listening, quits, latest>>

\* A notification arrives: the file is read, the block is put on the queue.
Receive ==
    /\ posted > 0 /\ posted' = posted - 1
    /\ blocks' = Append(blocks, file)
    /\ UNCHANGED <<sender, file, listening, quits, latest>>

\* Mutant: the blocks of the listener run on a concurrent queue.
RunListener_anyOrder ==
    /\ \E i \in DOMAIN blocks :
          /\ blocks' = [j \in 1 .. Len(blocks) - 1 |-> blocks[IF j < i THEN j ELSE j + 1]]
          /\ latest' = blocks[i]
    /\ UNCHANGED <<sender, file, posted, listening, quits>>

\* The main queue runs the block of the listener.
RunListener ==
    /\ blocks # <<>>
    /\ blocks' = Tail(blocks)
    /\ latest' = Head(blocks)
    /\ UNCHANGED <<sender, file, posted, listening, quits>>

\* The process of the receiver ends; another one may come and listen.
Quit ==
    /\ listening /\ quits < MaxQuits
    /\ quits' = quits + 1
    /\ listening' = FALSE /\ posted' = 0 /\ blocks' = <<>>
    /\ UNCHANGED <<sender, file, latest>>

WormholeNext == Write \/ Post \/ Listen \/ Receive \/ RunListener \/ Quit

\* The thread that passes a message goes on, the system delivers notifications,
\* and the main queue of the receiver is served.
WormholeSpec ==
    /\ WormholeInit /\ [][WormholeNext]_wormholeVars
    /\ WF_wormholeVars(Post) /\ WF_wormholeVars(Receive) /\ WF_wormholeVars(RunListener)

----------------------------------------------------------------------------
(* Properties.                                                             *)

Channel == INSTANCE Mailbox

\* The channel is a mailbox: what reaches the listener was passed, and nothing
\* reaches it after a newer message, however notifications are merged and blocks
\* wait on the main queue.
MailboxSpec == Channel!Spec
=============================================================================
