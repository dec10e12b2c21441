----------------------------- MODULE TimeStamp -----------------------------
(***************************************************************************)
(* The time stamps of n2n.c that protect messages with an encrypted header *)
(* against replay, between a node that sends and one that receives.        *)
(*                                                                         *)
(* A stamp is a number: the seconds, the microseconds, a counter and some  *)
(* flags, each in bits of its own.  The lowest flag says that microseconds *)
(* and counter together are one counter; it is set when the short counter  *)
(* overflows, and stays.  A clock is a number, too: seconds and            *)
(* microseconds, Subs values to a second.                                  *)
(*                                                                         *)
(* Messages stay in flight for ever: they may be lost, late, repeated and  *)
(* in any order.  One that is never received also stands for a stamp that  *)
(* the sender issues for itself, in its own checks.                        *)
(***************************************************************************)
EXTENDS Integers, FiniteSets

CONSTANTS
    Subs,        \* 2^20: values of the microseconds
    Usecs,       \* 10^6: those that a clock shows
    Counters,    \* 2^8: values of the short counter
    Flags,       \* 2^4: values of the flags
    Frame,       \* 16: seconds that a clock may be off
    Jitter,      \* 160000: microseconds that a message may be late
    CoShift,     \* 2^8: how much more jitter is allowed to a counter
    MaxSkew,     \* bound: how far the clocks are apart
    MaxTime,     \* bound: the last value of a clock
    MaxSent,     \* bound: stamps issued by the sender
    MaxForgets,  \* bound: how often the receiver drops the sender's entry
    StepsBack    \* whether the clock of the sender may be set back

Low == Counters * Flags
Second == Subs * Low

TIME_STAMP_FRAME == Frame * Second
TIME_STAMP_JITTER == Jitter * Low

ASSUME StampAssumption ==
    /\ {Subs, Usecs, Counters, Flags, Frame, Jitter, CoShift} \subseteq Nat \ {0}
    /\ Usecs <= Subs /\ Subs > 1
    /\ Flags % 2 = 0               \* one of the flags tells the counter
    /\ Jitter * CoShift >= Subs    \* the jitter of a counter is a second at least
    /\ {MaxSkew, MaxTime, MaxSent, MaxForgets} \subseteq Nat
    /\ MaxTime > (Frame + 1) * Subs
    /\ StepsBack \in BOOLEAN

Unknown == -1    \* there is no entry of the sender

VARIABLES
    \* of the sender
    sender_clock,
    sender_issued,    \* previously_issued_time_stamp
    \* of the receiver
    clock,
    issued,           \* previously_issued_time_stamp
    last_valid,       \* last_valid_time_stamp of the sender's entry, or Unknown
    forgets,
    \* the network
    net,
    \* what the properties refer to
    newest,           \* the greatest stamp accepted with this entry, -1 if none
    newest_sent       \* the greatest number among the messages accepted with it

senderVars == <<sender_clock, sender_issued>>
entryVars == <<last_valid, forgets, newest, newest_sent>>
vars == <<senderVars, clock, issued, entryVars, net>>

\* What a message carries, and when it was sent: the how manyth, and the clock.
Messages == [stamp : Nat, jitter : BOOLEAN, n : 1 .. MaxSent, clock : Nat]

TypeOK ==
    /\ sender_clock \in Nat /\ clock \in Nat
    /\ sender_issued \in Nat /\ issued \in Nat
    /\ last_valid \in Int /\ forgets \in 0 .. MaxForgets
    /\ net \subseteq Messages /\ Cardinality(net) <= MaxSent
    /\ newest \in Nat \cup {-1} /\ newest_sent \in 0 .. MaxSent

----------------------------------------------------------------------------
(* Issuing and verifying.                                                  *)

Co(stamp) == stamp % 2

\* The part of a stamp below what is taken from the clock.
Unit(co) == IF co = 1 THEN Second ELSE Low

Floor(x, unit) == x - (x % unit)

\* Mutant: the overflow of the short counter is not noticed.
time_stamp_carries(previous, now) ==
    LET unit == Unit(Co(previous))
        unchanged == Floor(previous, unit) = Floor(now * Low, unit)
        counter == IF unchanged THEN ((previous % unit) \div Flags) + 1 ELSE 0
    IN  Floor(now * Low, unit) + counter * Flags + Co(previous)

\* The stamp after the one issued previously.
time_stamp(previous, now) ==
    LET unit == Unit(Co(previous))
        unchanged == Floor(previous, unit) = Floor(now * Low, unit)
        counter == IF unchanged THEN ((previous % unit) \div Flags) + 1 ELSE 0
        overflow == unchanged /\ (counter * Flags) % unit = 0
        co == IF overflow THEN 1 ELSE Co(previous)
    IN  Floor(now * Low, Unit(co)) + counter * Flags + co

\* Bound: the long counter does not overflow, that is 2^28 stamps within a second.
Room(stamp, now) == Floor(stamp, Second) = Floor(now * Low, Second)

initial_time_stamp(stamp) == stamp - TIME_STAMP_FRAME

Abs(x) == IF x < 0 THEN -x ELSE x

\* Mutant: a counter gets no more jitter than a time.
JitterOf_plain(m) == IF m.jitter THEN TIME_STAMP_JITTER ELSE 0

JitterOf(m) ==
    IF ~m.jitter THEN 0
    ELSE TIME_STAMP_JITTER * (IF Co(m.stamp) = 1 THEN CoShift ELSE 1)

InFrame(stamp, own) == Abs(stamp - own) < TIME_STAMP_FRAME

Later(m, previous) == m.stamp - previous + JitterOf(m) > 0

\* Whether the receiver accepts the message, given the stamp it issues for it.
Valid(m, own) ==
    /\ InFrame(m.stamp, own)
    /\ last_valid # Unknown => Later(m, last_valid)

----------------------------------------------------------------------------

\* The clocks start late enough for a stamp a frame earlier.
Start == (Frame + 1) * Subs

Init ==
    /\ sender_clock = Start /\ clock = Start
    /\ sender_issued = 0 /\ issued = 0
    /\ last_valid = Unknown /\ forgets = 0
    /\ net = {}
    /\ newest = -1 /\ newest_sent = 0

\* A clock shows the next microsecond.
NextTime(t) == IF (t % Subs) + 1 < Usecs THEN t + 1 ELSE Floor(t, Subs) + Subs

SenderTick ==
    /\ sender_clock' = NextTime(sender_clock)
    /\ sender_clock' <= MaxTime /\ sender_clock' - clock <= MaxSkew
    /\ UNCHANGED <<sender_issued, clock, issued, entryVars, net>>

Tick ==
    /\ clock' = NextTime(clock)
    /\ clock' <= MaxTime /\ clock' - sender_clock <= MaxSkew
    /\ UNCHANGED <<senderVars, issued, entryVars, net>>

StepBack ==
    /\ StepsBack /\ sender_clock > Start
    /\ sender_clock' = Start /\ clock - sender_clock' <= MaxSkew
    /\ UNCHANGED <<sender_issued, clock, issued, entryVars, net>>

Send(jitter) ==
    /\ Cardinality(net) < MaxSent
    /\ sender_issued' = time_stamp(sender_issued, sender_clock)
    /\ Room(sender_issued', sender_clock)
    /\ net' = net \cup {[stamp |-> sender_issued', jitter |-> jitter,
                         n |-> Cardinality(net) + 1, clock |-> sender_clock]}
    /\ UNCHANGED <<sender_clock, clock, issued, entryVars>>

\* The receiver makes an entry for the sender.
Enter ==
    /\ last_valid = Unknown
    /\ issued' = time_stamp(issued, clock) /\ Room(issued', clock)
    /\ last_valid' = initial_time_stamp(issued')
    /\ UNCHANGED <<senderVars, clock, forgets, net, newest, newest_sent>>

\* The entry is dropped.
Forget ==
    /\ last_valid # Unknown /\ forgets < MaxForgets
    /\ last_valid' = Unknown /\ forgets' = forgets + 1
    /\ newest' = -1 /\ newest_sent' = 0
    /\ UNCHANGED <<senderVars, clock, issued, net>>

Greater(x, y) == IF x > y THEN x ELSE y

\* Mutant: what was accepted last is kept, not the greatest.
Kept_last(stamp) == stamp

Kept(stamp) == Greater(stamp, last_valid)

Accept(m) ==
    /\ issued' = time_stamp(issued, clock) /\ Room(issued', clock)
    /\ Valid(m, issued')
    /\ IF last_valid = Unknown THEN UNCHANGED entryVars
       ELSE /\ last_valid' = Kept(m.stamp)
            /\ newest' = Greater(newest, m.stamp)
            /\ newest_sent' = Greater(newest_sent, m.n)
            /\ UNCHANGED forgets
    /\ UNCHANGED <<senderVars, clock, net>>

Reject(m) ==
    /\ issued' = time_stamp(issued, clock) /\ Room(issued', clock)
    /\ ~Valid(m, issued')
    /\ UNCHANGED <<senderVars, clock, entryVars, net>>

Next ==
    \/ SenderTick \/ Tick \/ StepBack
    \/ \E jitter \in BOOLEAN : Send(jitter)
    \/ Enter \/ Forget
    \/ \E m \in net : Accept(m) \/ Reject(m)

Spec == Init /\ [][Next]_vars

----------------------------------------------------------------------------
(* Properties.                                                             *)

\* A stamp tells the sender's clock as exactly as its flag says: to the microsecond, or
\* to the second once more stamps were issued within a microsecond than the short
\* counter can count ("self-detected accuracy").
AsAccurateAsFlagged == \A m \in net : Floor(m.stamp, Unit(Co(m.stamp))) = Floor(m.clock * Low, Unit(Co(m.stamp)))

\* The stamp that the receiver would issue now.
Own == time_stamp(issued, clock)

\* A message that allows no jitter is accepted only if it is newer than all that were
\* accepted with this entry, so none is accepted twice or after a newer one; and what
\* is accepted with jitter is not older than the newest one by more than the jitter,
\* however often jitter was granted before ("not allowing to exploit the allowed
\* TIME_STAMP_JITTER to turn the clock backwards").
NeverBack ==
    \A m \in net : last_valid # Unknown /\ Valid(m, Own) => m.stamp > newest - JitterOf(m)

\* The sender's clock was set back, and has not gone past where it was before.
SentBehind(m) ==
    \E j, k \in net : /\ k.n < j.n /\ k.clock > j.clock
                     /\ j.n <= m.n /\ m.clock <= k.clock

\* The sender counts all stamps of a second together, and this counter began anew in the
\* second in which the message was sent: the short one overflowed, or the sender, whose
\* clock was set back, issued a stamp of another second in between.
CounterRestarted(m) ==
    /\ Co(m.stamp) = 1
    /\ \E k \in net :
          /\ k.n < m.n /\ Floor(k.clock, Subs) = Floor(m.clock, Subs)
          /\ \/ Co(k.stamp) = 0
             \/ \E j \in net : k.n < j.n /\ j.n < m.n /\ Floor(j.clock, Subs) # Floor(m.clock, Subs)

\* It arrives while the clocks tell less than a frame less one second.
Timely(m) == Abs(m.clock - clock) < (Frame - 1) * Subs

\* Nothing that should pass is dropped: a message that arrives in time, and before any
\* message that was sent after it, is accepted.  The excuses are a clock that was set
\* back and has not caught up and, where no jitter is allowed, a counter that began anew
\* in a second that had stamps: the stamp then falls behind these.
InOrderAccepted ==
    \A m \in net :
        /\ Timely(m) /\ m.n > newest_sent /\ ~SentBehind(m)
        /\ m.jitter \/ ~CounterRestarted(m)
        /\ Room(Own, clock)
        => Valid(m, Own)
=============================================================================
