----------------------------- MODULE PacketPipe -----------------------------
(***************************************************************************)
(* The pipe through which the app's main thread hands IP packets to the    *)
(* edge thread: writePackets of PacketDataManager.c and tuntap_read of     *)
(* ios_tuntap.c, over the bytes in the pipe.                               *)
(*                                                                         *)
(* A packet is written as a head of two bytes, its length in two bytes,    *)
(* and its payload.  Byte k of the n-th packet written is <<n, k>>.  The   *)
(* pipe blocks: a write waits for room and a read waits for a first byte.  *)
(* A write of at most Atomic bytes is whole, a larger one fills what room  *)
(* there is; a read takes what there is.                                   *)
(***************************************************************************)
EXTENDS Integers, Sequences

CONSTANTS
    Packets,     \* the numbers of the packets, in the order in which the system sends them
    Size,        \* the length of each packet's payload
    Spelled,     \* the payload bytes at which a payload spells the head 0x1234
    Misread,     \* the length that other bytes than a length stand for
    Capacity,    \* bytes that the pipe holds
    Atomic,      \* PIPE_BUF
    MaxPackets,  \* bound: packets written
    EdgeEnds     \* whether the edge may end

ASSUME PipeAssumption ==
    /\ Packets \subseteq Nat /\ Size \in [Packets -> Nat \ {0}]
    /\ Spelled \subseteq {b \in Packets \X Nat : b[2] \in 5 .. 3 + Size[b[1]]}
    /\ Misread \in Nat \ {0}
    /\ {Capacity, Atomic, MaxPackets} \subseteq Nat
    /\ 2 <= Atomic /\ Atomic <= Capacity
    /\ EdgeEnds \in BOOLEAN

VARIABLES
    pipe,      \* the bytes in it
    open,      \* closePipe was not called
    main,      \* writePackets on the main thread
    reader,    \* tuntap_read on the edge thread
    \* what the properties refer to
    given,     \* the packets given to writePackets
    frames     \* what tuntap_read returned

vars == <<pipe, open, main, reader, given, frames>>

\* The bytes of the packets that were given.
FrameBytes == {b \in (DOMAIN given) \X Nat : b[2] \in 1 .. 4 + Size[given[b[1]]]}

TypeOK ==
    /\ pipe \in Seq(FrameBytes) /\ Len(pipe) <= Capacity
    /\ open \in BOOLEAN
    /\ main \in [doing : {"idle", "head", "length", "payload"}, written : Nat]
    /\ main.doing # "idle" => given # <<>> /\ main.written <= Size[given[Len(given)]]
    /\ reader \in [doing : {"select", "head", "length", "payload", "ended"}, want : Nat]
    /\ reader.doing = "payload" => reader.want > 0
    /\ given \in Seq(Packets) /\ Len(given) <= MaxPackets
    /\ frames \in Seq(Seq(FrameBytes))

Idle == [doing |-> "idle", written |-> 0]
Waits(doing) == [doing |-> doing, want |-> 0]
Select == Waits("select")

Init ==
    /\ pipe = <<>> /\ open = TRUE
    /\ main = Idle /\ reader = Select
    /\ given = <<>> /\ frames = <<>>

Least(m, n) == IF m < n THEN m ELSE n
Room == Capacity - Len(pipe)
Length(n) == Size[given[n]]
Payload(n) == [k \in 1 .. Length(n) |-> <<n, 4 + k>>]

----------------------------------------------------------------------------
(* The main thread: writePackets.                                          *)

Submit(p) ==
    /\ main = Idle /\ Len(given) < MaxPackets
    /\ main' = [doing |-> "head", written |-> 0]
    /\ given' = Append(given, p)
    /\ UNCHANGED <<pipe, open, reader, frames>>

\* The head or the length of the packet: a whole word or nothing.
Word(doing, next, k) ==
    /\ open /\ main.doing = doing /\ Room >= 2
    /\ pipe' = pipe \o << <<Len(given), k>>, <<Len(given), k + 1>> >>
    /\ main' = [main EXCEPT !.doing = next]
    /\ UNCHANGED <<open, reader, given, frames>>

WriteHead == Word("head", "length", 1)
WriteLength == Word("length", "payload", 3)

\* Mutant: a closed pipe is waited for.
WriteFails_never == FALSE

\* The write fails: the packet is dropped.
WriteFails ==
    /\ ~open /\ main.doing = "head"
    /\ main' = Idle
    /\ UNCHANGED <<pipe, open, reader, given, frames>>

WritePayload ==
    LET packet == Len(given)
        rest == SubSeq(Payload(packet), main.written + 1, Length(packet))
        n == IF Length(packet) <= Atomic THEN Length(packet) ELSE Least(Len(rest), Room)
    IN  /\ main.doing = "payload" /\ open
        /\ 0 < n /\ n <= Room
        /\ pipe' = pipe \o SubSeq(rest, 1, n)
        /\ main' = IF n = Len(rest) THEN Idle ELSE [main EXCEPT !.written = @ + n]
        /\ UNCHANGED <<open, reader, given, frames>>

MainStep == WriteHead \/ WriteLength \/ WriteFails \/ WritePayload

\* closePipe, which the main thread calls to stop the edge, when a refused edge asks
\* for it, and when the app is about to end: the edge may be in tuntap_read.
Close ==
    /\ main = Idle /\ open
    /\ open' = FALSE /\ pipe' = <<>>
    /\ UNCHANGED <<main, reader, given, frames>>

----------------------------------------------------------------------------
(* The edge thread: tuntap_read, called when select() finds the pipe       *)
(* readable.                                                               *)

\* read() of n bytes takes at most that many and leaves the rest.
Taken(n) == SubSeq(pipe, 1, Least(n, Len(pipe)))
Read(n) == pipe # <<>> /\ pipe' = SubSeq(pipe, Len(Taken(n)) + 1, Len(pipe))

SelectReturns ==
    /\ reader = Select /\ pipe # <<>>
    /\ reader' = Waits("head")
    /\ UNCHANGED <<pipe, open, main, given, frames>>

\* Mutant: the head is not looked for.
IsHead_any(w) == w[1] # w[2]

IsHead(w) ==
    /\ w[1][1] = w[2][1] /\ w[2][2] = w[1][2] + 1
    /\ w[1][2] = 1 \/ <<given[w[1][1]], w[1][2]>> \in Spelled

\* Words are skipped until one is the head; half a word ends the call with -1.
ReadHead ==
    /\ reader.doing = "head" /\ Read(2)
    /\ reader' = CASE Len(pipe) = 1 -> Select
                   [] Len(pipe) > 1 /\ IsHead(pipe) -> Waits("length")
                   [] OTHER -> reader
    /\ UNCHANGED <<open, main, given, frames>>

\* Mutant: the length counts the head as well.
LengthOf_frame(w) == IF w[1][2] = 3 THEN Length(w[1][1]) + 4 ELSE Misread

\* Mutant: the length is taken to count head and length, too.
LengthOf_lessHead(w) == IF w[1][2] = 3 THEN Length(w[1][1]) - 4 ELSE Misread

LengthOf(w) == IF w[1][2] = 3 THEN Length(w[1][1]) ELSE Misread

ReadLength ==
    /\ reader.doing = "length" /\ Read(2)
    /\ reader' = IF Len(pipe) = 1 THEN Select
                 ELSE [doing |-> "payload", want |-> LengthOf(pipe)]
    /\ UNCHANGED <<open, main, given, frames>>

\* One read() for the payload: it may return less.
ReadPayload ==
    /\ reader.doing = "payload" /\ Read(reader.want)
    /\ frames' = Append(frames, Taken(reader.want))
    /\ reader' = Select
    /\ UNCHANGED <<open, main, given>>

\* Mutant: a read() that fails is tried again.
ReadFails_retried == FALSE

\* The pipe was closed: read() fails at once, and so does the call.
ReadFails ==
    /\ ~open /\ reader.doing \in {"head", "length", "payload"}
    /\ reader' = Select
    /\ UNCHANGED <<pipe, open, main, given, frames>>

\* run_edge_loop ends: the edge was refused or stopped.
EdgeEnd ==
    /\ EdgeEnds /\ reader = Select
    /\ reader' = Waits("ended")
    /\ UNCHANGED <<pipe, open, main, given, frames>>

ReaderStep == SelectReturns \/ ReadHead \/ ReadLength \/ ReadPayload \/ ReadFails

\* The process of the app ends, with both its threads and the pipe.
ProcessEnds ==
    /\ main' = Idle /\ reader' = Waits("ended")
    /\ open' = FALSE /\ pipe' = <<>>
    /\ UNCHANGED <<given, frames>>

----------------------------------------------------------------------------
(* Properties.                                                             *)

Whole(i) == i <= Len(given) /\ frames[i] = Payload(i)
Beginning(frame, n) == \E m \in 1 .. Length(n) : frame = SubSeq(Payload(n), 1, m)
Cut(i) == i <= Len(given) /\ Length(i) > Atomic /\ ~Whole(i) /\ Beginning(frames[i], i)

\* As long as the framing holds, the edge reads the packets that writePackets was
\* given, all of them, whole and in order.  The first frame that is not is the
\* beginning of a packet longer than PIPE_BUF that found the pipe full.
FramingKept ==
    \A i \in DOMAIN frames : (\A j \in 1 .. i - 1 : Whole(j)) => Whole(i) \/ Cut(i)

\* Also after a cut frame the edge takes nothing else for a packet than the
\* beginning of one, each of them once and in the order of writing (where no payload
\* that was written spells the head).
FramesInOrder ==
    (\A b \in Spelled, n \in DOMAIN given : given[n] # b[1]) =>
        /\ \A i \in DOMAIN frames : Beginning(frames[i], frames[i][1][1])
        /\ \A i, j \in DOMAIN frames : i < j => frames[i][1][1] < frames[j][1][1]

\* The main thread, which writes to a pipe that blocks, comes back, unless the edge
\* has ended and the pipe is full: then nobody ever reads or closes it.
Jammed == main # Idle /\ reader.doing = "ended" /\ open /\ Room < Length(Len(given)) + 4
MainReturns == main # Idle ~> main = Idle \/ Jammed

\* The main loop of the edge waits in select() only: once tuntap_read is called it
\* returns, and registration, timers and the management port are served again,
\* unless a read() has cut a packet: the rest of it is taken for a head, and
\* tuntap_read may wait for ever for one that does not come.
FrameCut == \E i \in DOMAIN frames : Cut(i)
ReaderReturns ==
    reader.doing # "select" ~> reader.doing \in {"select", "ended"} \/ FrameCut
=============================================================================
