----------------------------- MODULE TunnelPath -----------------------------
(***************************************************************************)
(* The way of a packet that the system sends, from the packet tunnel       *)
(* extension to the edge thread: the wormhole "readPackets", whose         *)
(* listener runs on the app's main thread and calls writePackets, the      *)
(* pipe, and tuntap_read.  While the main thread waits for room in the     *)
(* pipe it neither reads the file of the wormhole nor runs another block.  *)
(* A message of the wormhole stands for one packet.                        *)
(***************************************************************************)
EXTENDS PacketPipe, Wormhole

ASSUME PathAssumption == Packets = 1 .. MaxMessages /\ MaxPackets = MaxMessages

pathVars == <<wormholeVars, vars>>

PathTypeOK == WormholeTypeOK /\ TypeOK

PathInit == WormholeInit /\ Init

MainFree == main = Idle

\* The extension passes packets; the app registers its listener on the main thread.
Extension == (Write \/ Post) /\ UNCHANGED vars
AppListens == MainFree /\ Listen /\ UNCHANGED vars

\* The main thread gets a notification.
AppNotified == MainFree /\ Receive /\ UNCHANGED vars

\* The main thread runs the listener's block, which writes the packet.
HandOver == RunListener /\ Submit(latest')

InPipe == (MainStep \/ Close \/ ReaderStep \/ EdgeEnd) /\ UNCHANGED wormholeVars

\* The process of the app ends; the one that may come next has no edge yet.
AppEnds == Quit /\ ProcessEnds

PathNext == Extension \/ AppListens \/ AppNotified \/ HandOver \/ InPipe \/ AppEnds

\* Both threads run whenever the pipe lets them, the extension posts what it has
\* written, and the main queue is served while the main thread is free.
PathSpec ==
    /\ PathInit /\ [][PathNext]_pathVars
    /\ WF_pathVars(Post /\ UNCHANGED vars)
    /\ WF_pathVars(AppNotified) /\ WF_pathVars(HandOver)
    /\ WF_pathVars(MainStep /\ UNCHANGED wormholeVars)
    /\ WF_pathVars(ReaderStep /\ UNCHANGED wormholeVars)

----------------------------------------------------------------------------
(* Properties.                                                             *)

\* The packet that the edge read last, or the beginning of it.
LastRead == IF frames = <<>> THEN 0 ELSE given[frames[Len(frames)][1][1]]

Edge == INSTANCE Mailbox WITH latest <- LastRead

\* The whole way is a mailbox again: what the edge reads was sent by the system, and
\* nothing reaches it after something newer.
PathIsMailbox == Edge!Spec

\* A packet whose file the extension writes while the app listens reaches the
\* listener, or a newer one does, unless the process of the app ends or its main
\* thread waits for ever in a write to a full pipe that nobody reads.
NewestArrives ==
    \A i \in 1 .. MaxMessages :
        (posting /\ listening /\ file = i) ~> (latest >= i \/ ~listening \/ Jammed)

\* Such a packet, or a newer one, is also read by the edge, unless the edge ends, the
\* pipe is closed, or a packet longer than PIPE_BUF was cut.
NewestRead ==
    \A i \in 1 .. MaxMessages :
        (posting /\ listening /\ file = i)
            ~> (LastRead >= i \/ reader.doing = "ended" \/ ~open \/ FrameCut)
=============================================================================
