-------------------------- MODULE TimeStamp_proofs --------------------------
(***************************************************************************)
(* Replay protection for any layout of the stamps, any frame and jitter,   *)
(* any clocks and any number of messages.                                  *)
(*                                                                         *)
(* NeverBack speaks of the newest stamp that was accepted, the code keeps  *)
(* last_valid_time_stamp; IInv says how the two are related.               *)
(* InOrderAccepted speaks of single messages; SentInv says how the stamps  *)
(* of all messages sent so far are ordered, and Remembered which of them   *)
(* the receiver keeps.                                                     *)
(***************************************************************************)
EXTENDS TimeStamp, FiniteSetTheorems, TLAPS

\* No entry, nothing accepted; and nothing accepted is newer than what is kept.
LastCoversNewest ==
    newest # -1 => last_valid # Unknown /\ last_valid >= newest

IInv == TypeOK /\ IsFiniteSet(net) /\ LastCoversNewest

\* The layout of a stamp is made of positive numbers.
LEMMA LayoutPositive ==
    /\ Low \in Nat \ {0} /\ Second \in Nat \ {0}
    /\ TIME_STAMP_FRAME \in Nat /\ TIME_STAMP_JITTER \in Nat
<1>1. \A i, j \in Nat \ {0} : i * j \in Nat \ {0}
  OBVIOUS
<1> QED BY <1>1, StampAssumption DEF Low, Second, TIME_STAMP_FRAME, TIME_STAMP_JITTER

\* Floor cuts a natural number down to a natural number.
LEMMA FloorNat ==
    ASSUME NEW x \in Nat, NEW unit \in Nat \ {0}
    PROVE  Floor(x, unit) \in Nat
<1>1. x = unit * (x \div unit) + (x % unit)
  OBVIOUS
<1>2. x \div unit \in Nat /\ x % unit \in Nat
  OBVIOUS
<1>3. unit * (x \div unit) \in Nat
  BY <1>2
<1> QED BY <1>1, <1>2, <1>3 DEF Floor

\* A stamp is a natural number.
LEMMA StampNat ==
    ASSUME NEW previous \in Nat, NEW now \in Nat
    PROVE  time_stamp(previous, now) \in Nat
<1>1. Co(previous) \in {0, 1}
  BY DEF Co
<1>2. \A co \in {0, 1} : Unit(co) \in Nat \ {0}
  BY LayoutPositive DEF Unit
<1>3. now * Low \in Nat
  BY LayoutPositive
<1>4. \A co \in {0, 1} : Floor(now * Low, Unit(co)) \in Nat
  BY <1>2, <1>3, FloorNat
<1>5. previous % Unit(Co(previous)) \in Nat
  BY <1>1, <1>2
<1>6. (previous % Unit(Co(previous))) \div Flags \in Nat
  BY <1>5, StampAssumption
<1> DEFINE unit == Unit(Co(previous))
           unchanged == Floor(previous, unit) = Floor(now * Low, unit)
           counter == IF unchanged THEN ((previous % unit) \div Flags) + 1 ELSE 0
           overflow == unchanged /\ (counter * Flags) % unit = 0
           co == IF overflow THEN 1 ELSE Co(previous)
<1>7. counter \in Nat
  BY <1>6
<1>8. counter * Flags \in Nat
  BY <1>7, StampAssumption
<1>9. co \in {0, 1}
  BY <1>1
<1> HIDE DEF counter, co
<1>10. Floor(now * Low, Unit(co)) + counter * Flags + co \in Nat
  BY <1>4, <1>8, <1>9
<1> QED BY <1>10 DEF time_stamp, counter, co

\* The jitter of a message is a natural number.
LEMMA JitterNat ==
    ASSUME NEW m \in Messages
    PROVE  JitterOf(m) \in Nat
BY LayoutPositive, StampAssumption DEF JitterOf

LEMMA InitInvariant == Init => IInv
<1>1. Start \in Nat
  BY StampAssumption DEF Start
<1> QED BY <1>1, FS_EmptySet, StampAssumption
        DEF Init, IInv, TypeOK, LastCoversNewest, Unknown

\* A clock only shows natural numbers.
LEMMA ClockNat ==
    ASSUME NEW t \in Nat
    PROVE  NextTime(t) \in Nat
<1>1. Subs \in Nat \ {0}
  BY StampAssumption
<1>2. Floor(t, Subs) \in Nat
  BY <1>1, FloorNat
<1> QED BY <1>1, <1>2 DEF NextTime

LEMMA StepInvariant == IInv /\ [Next]_vars => IInv'
<1> SUFFICES ASSUME IInv, [Next]_vars PROVE IInv'
  OBVIOUS
<1> USE DEF IInv, senderVars, entryVars
<1>1. CASE SenderTick
  BY <1>1, ClockNat DEF SenderTick, TypeOK, LastCoversNewest
<1>2. CASE Tick
  BY <1>2, ClockNat DEF Tick, TypeOK, LastCoversNewest
<1>3. CASE StepBack
  <2>1. Start \in Nat
    BY StampAssumption DEF Start
  <2> QED BY <1>3, <2>1 DEF StepBack, TypeOK, LastCoversNewest
<1>4. ASSUME NEW jitter \in BOOLEAN, Send(jitter) PROVE IInv'
  <2> DEFINE m == [stamp |-> sender_issued', jitter |-> jitter,
                   n |-> Cardinality(net) + 1, clock |-> sender_clock]
  <2>1. sender_issued' \in Nat
    BY <1>4, StampNat DEF Send, TypeOK
  <2>2. Cardinality(net) \in Nat /\ Cardinality(net) + 1 \in 1 .. MaxSent
    <3>1. Cardinality(net) \in Nat
      BY FS_CardinalityType
    <3>2. Cardinality(net) < MaxSent /\ MaxSent \in Nat
      BY <1>4, StampAssumption DEF Send
    <3> QED BY <3>1, <3>2
  <2>3. m \in Messages
    BY <2>1, <2>2 DEF Messages, TypeOK
  <2>4. net' = net \cup {m}
    BY <1>4 DEF Send
  <2> HIDE DEF m
  <2>5. IsFiniteSet(net') /\ Cardinality(net') <= MaxSent
    <3>1. IsFiniteSet(net \cup {m})
      BY FS_AddElement
    <3>2. Cardinality(net \cup {m}) \in {Cardinality(net), Cardinality(net) + 1}
      BY FS_AddElement
    <3> QED BY <2>2, <2>4, <3>1, <3>2, StampAssumption
  <2> QED BY <1>4, <2>1, <2>3, <2>4, <2>5 DEF Send, TypeOK, LastCoversNewest
<1>5. CASE Enter
  <2>1. issued' \in Nat
    BY <1>5, StampNat DEF Enter, TypeOK
  <2>2. last_valid' \in Int
    BY <1>5, <2>1, LayoutPositive DEF Enter, initial_time_stamp
  <2> QED BY <1>5, <2>1, <2>2 DEF Enter, TypeOK, LastCoversNewest
<1>6. CASE Forget
  BY <1>6, StampAssumption DEF Forget, TypeOK, LastCoversNewest, Unknown
<1>7. ASSUME NEW m \in net, Accept(m) PROVE IInv'
  <2>1. issued' \in Nat
    BY <1>7, StampNat DEF Accept, TypeOK
  <2>2. m.stamp \in Nat /\ m.n \in 1 .. MaxSent
    BY DEF TypeOK, Messages
  <2>3. CASE last_valid = Unknown
    BY <1>7, <2>1, <2>3 DEF Accept, TypeOK, LastCoversNewest
  <2>4. CASE last_valid # Unknown
    <3>1. /\ last_valid' = Kept(m.stamp) /\ newest' = Greater(newest, m.stamp)
          /\ newest_sent' = Greater(newest_sent, m.n)
          /\ UNCHANGED <<senderVars, clock, net, forgets>>
      BY <1>7, <2>4 DEF Accept
    <3>2. last_valid' \in Int /\ last_valid' >= m.stamp /\ last_valid' >= last_valid
      BY <2>2, <3>1 DEF Kept, Greater, TypeOK
    <3>3. newest' \in Nat /\ (newest' = m.stamp \/ newest' = newest)
      BY <2>2, <3>1 DEF Greater, TypeOK
    <3>4. newest_sent' \in 0 .. MaxSent
      BY <2>2, <3>1, StampAssumption DEF Greater, TypeOK
    <3>5. LastCoversNewest'
      BY <2>2, <3>2, <3>3 DEF LastCoversNewest, Unknown, TypeOK
    <3> QED BY <2>1, <3>1, <3>2, <3>3, <3>4, <3>5 DEF TypeOK
  <2> QED BY <2>3, <2>4
<1>8. ASSUME NEW m \in net, Reject(m) PROVE IInv'
  <2>1. issued' \in Nat
    BY <1>8, StampNat DEF Reject, TypeOK
  <2> QED BY <1>8, <2>1 DEF Reject, TypeOK, LastCoversNewest
<1>9. CASE UNCHANGED vars
  BY <1>9 DEF vars, TypeOK, LastCoversNewest
<1> QED BY <1>1, <1>2, <1>3, <1>4, <1>5, <1>6, <1>7, <1>8, <1>9 DEF Next

\* What is kept covers what was accepted, so comparing with it is comparing with that.
LEMMA InvariantNeverBack == IInv => NeverBack
<1> SUFFICES ASSUME IInv, NEW m \in net, last_valid # Unknown, Valid(m, Own)
             PROVE  m.stamp > newest - JitterOf(m)
  BY DEF NeverBack
<1>1. m \in Messages /\ m.stamp \in Nat
  BY DEF IInv, TypeOK, Messages
<1>2. JitterOf(m) \in Nat
  BY <1>1, JitterNat
<1>3. m.stamp - last_valid + JitterOf(m) > 0
  BY DEF Valid, Later
<1>4. CASE newest = -1
  BY <1>1, <1>2, <1>4
<1>5. CASE newest # -1
  <2>1. last_valid >= newest /\ last_valid \in Int /\ newest \in Nat
    BY <1>5 DEF IInv, LastCoversNewest, TypeOK
  <2> QED BY <1>1, <1>2, <1>3, <2>1
<1> QED BY <1>4, <1>5

----------------------------------------------------------------------------
(* What a stamp tells: arithmetic of its fields.                           *)

\* A multiple that is less than another is less by one unit at least.
LEMMA LessByAUnit ==
    ASSUME NEW p \in Nat, NEW q \in Nat, NEW unit \in Nat \ {0}, unit * p < unit * q
    PROVE  unit * p + unit <= unit * q
<1>1. p < q
  <2> SUFFICES ASSUME q <= p PROVE FALSE
    OBVIOUS
  <2>1. PICK d \in Nat : p = q + d
    <3>1. p - q \in Nat /\ p = q + (p - q)
      OBVIOUS
    <3> QED BY <3>1
  <2>2. unit * p = unit * q + unit * d /\ unit * d \in Nat
    BY <2>1
  <2> QED BY <2>2
<1>2. PICK d \in Nat : q = p + 1 + d
  <2>1. q - p - 1 \in Nat /\ q = p + 1 + (q - p - 1)
    BY <1>1
  <2> QED BY <2>1
<1>3. unit * q = unit * p + unit + unit * d /\ unit * d \in Nat
  BY <1>2
<1> QED BY <1>3

\* A product with a natural number keeps the order.
LEMMA TimesKeepsOrder ==
    ASSUME NEW x \in Nat, NEW y \in Nat, NEW z \in Nat, x <= y
    PROVE  x * z \in Nat /\ y * z \in Nat /\ x * z <= y * z
<1>1. PICK d \in Nat : y = x + d
  <2>1. y - x \in Nat /\ y = x + (y - x)
    OBVIOUS
  <2> QED BY <2>1
<1>2. y * z = x * z + d * z /\ d * z \in Nat /\ x * z \in Nat
  BY <1>1
<1> QED BY <1>2

\* A factor can be cancelled.
LEMMA SameFactor ==
    ASSUME NEW x \in Nat, NEW y \in Nat, NEW z \in Nat \ {0}, z * x = z * y
    PROVE  x = y
<1>1. ASSUME NEW p \in Nat, NEW q \in Nat, p < q PROVE z * p < z * q
  <2>1. (p + 1) * z <= q * z /\ (p + 1) * z \in Nat /\ q * z \in Nat
    BY <1>1, TimesKeepsOrder
  <2>2. (p + 1) * z = z * p + z /\ q * z = z * q /\ z * p \in Nat
    OBVIOUS
  <2> QED BY <2>1, <2>2
<1>2. z * x \in Nat /\ ~(z * x < z * y) /\ ~(z * y < z * x)
  OBVIOUS
<1> QED BY <1>1, <1>2

\* Floor cuts down to a multiple of the unit, by less than the unit.
LEMMA FloorIsMultiple ==
    ASSUME NEW x \in Nat, NEW unit \in Nat \ {0}
    PROVE  /\ \E q \in Nat : Floor(x, unit) = unit * q
           /\ Floor(x, unit) <= x /\ x < Floor(x, unit) + unit
<1>1. x = unit * (x \div unit) + (x % unit)
  OBVIOUS
<1>2. x \div unit \in Nat /\ x % unit \in 0 .. unit - 1
  OBVIOUS
<1>3. unit * (x \div unit) \in Nat
  BY <1>2
<1>4. Floor(x, unit) = unit * (x \div unit)
  BY <1>1, <1>2, <1>3 DEF Floor
<1> QED BY <1>1, <1>2, <1>3, <1>4

\* There is one such multiple.
LEMMA FloorUnique ==
    ASSUME NEW x \in Nat, NEW unit \in Nat \ {0}, NEW q \in Nat,
           unit * q <= x, x < unit * q + unit
    PROVE  Floor(x, unit) = unit * q
<1>1. PICK p \in Nat : Floor(x, unit) = unit * p
  BY FloorIsMultiple
<1>2. unit * p <= x /\ x < unit * p + unit
  BY <1>1, FloorIsMultiple
<1>3. unit * p \in Nat /\ unit * q \in Nat
  OBVIOUS
<1>4. ~(unit * p < unit * q)
  <2> SUFFICES ASSUME unit * p < unit * q PROVE FALSE
    OBVIOUS
  <2>1. unit * p + unit <= unit * q
    BY LessByAUnit
  <2> QED BY <1>2, <1>3, <2>1
<1>5. ~(unit * q < unit * p)
  <2> SUFFICES ASSUME unit * q < unit * p PROVE FALSE
    OBVIOUS
  <2>1. unit * q + unit <= unit * p
    BY LessByAUnit
  <2> QED BY <1>2, <1>3, <2>1
<1> QED BY <1>1, <1>3, <1>4, <1>5

\* Floor keeps the order, and two floors are equal or a unit apart.
LEMMA FloorMonotone ==
    ASSUME NEW x \in Nat, NEW y \in Nat, NEW unit \in Nat \ {0}
    PROVE  /\ x <= y => Floor(x, unit) <= Floor(y, unit)
           /\ Floor(x, unit) < Floor(y, unit) => Floor(x, unit) + unit <= Floor(y, unit)
<1>1. PICK p \in Nat : Floor(x, unit) = unit * p
  BY FloorIsMultiple
<1>2. PICK q \in Nat : Floor(y, unit) = unit * q
  BY FloorIsMultiple
<1>3. unit * p \in Nat /\ unit * q \in Nat
  OBVIOUS
<1>4. unit * p <= x /\ y < unit * q + unit
  BY <1>1, <1>2, FloorIsMultiple
<1>5. ASSUME Floor(x, unit) < Floor(y, unit)
      PROVE  Floor(x, unit) + unit <= Floor(y, unit)
  BY <1>1, <1>2, <1>5, LessByAUnit
<1>6. ASSUME x <= y PROVE Floor(x, unit) <= Floor(y, unit)
  <2> SUFFICES ASSUME unit * q < unit * p PROVE FALSE
    BY <1>1, <1>2, <1>3
  <2>1. unit * q + unit <= unit * p
    BY LessByAUnit
  <2> QED BY <1>3, <1>4, <1>6, <2>1
<1> QED BY <1>5, <1>6

\* A clock is a multiple of the part of a stamp below it.
LEMMA FloorOfClock ==
    ASSUME NEW now \in Nat
    PROVE  /\ now * Low \in Nat
           /\ Floor(now * Low, Low) = now * Low
<1>1. Low \in Nat \ {0}
  BY LayoutPositive
<1>2. now * Low \in Nat /\ now * Low = Low * now
  BY <1>1
<1> QED BY <1>1, <1>2, FloorUnique

\* The seconds of a clock are the seconds of its stamps.
LEMMA SecondOfClock ==
    ASSUME NEW now \in Nat
    PROVE  /\ Floor(now, Subs) \in Nat
           /\ Floor(now * Low, Second) = Floor(now, Subs) * Low
<1>1. Low \in Nat \ {0} /\ Second \in Nat \ {0} /\ Subs \in Nat \ {0}
  BY LayoutPositive, StampAssumption
<1>2. PICK q \in Nat : Floor(now, Subs) = Subs * q
  BY <1>1, FloorIsMultiple
<1>3. Floor(now, Subs) <= now /\ now + 1 <= Floor(now, Subs) + Subs /\ Floor(now, Subs) \in Nat
  BY <1>1, FloorIsMultiple, FloorNat
<1>4. Floor(now, Subs) * Low = Second * q
  BY <1>1, <1>2 DEF Second
<1>5. Floor(now, Subs) * Low <= now * Low
  BY <1>1, <1>3
<1>6. (now + 1) * Low <= (Floor(now, Subs) + Subs) * Low
  BY <1>1, <1>3
<1>7. now * Low + Low <= Floor(now, Subs) * Low + Second
  BY <1>1, <1>3, <1>6 DEF Second
<1>8. now * Low \in Nat /\ Second * q \in Nat
  BY <1>1
<1>9. Second * q <= now * Low /\ now * Low < Second * q + Second
  BY <1>1, <1>4, <1>5, <1>7, <1>8
<1>10. Floor(now * Low, Second) = Second * q
  BY <1>1, <1>8, <1>9, FloorUnique
<1> QED BY <1>3, <1>4, <1>10

\* The flag of a stamp: nothing else in it is odd.
LEMMA CoOfStamp ==
    ASSUME NEW now \in Nat, NEW counter \in Nat, NEW co \in {0, 1}
    PROVE  Co(Floor(now * Low, Unit(co)) + counter * Flags + co) = co
<1>1. PICK f \in Nat : Flags = 2 * f
  <2>1. Flags = 2 * (Flags \div 2) /\ Flags \div 2 \in Nat
    BY StampAssumption
  <2> QED BY <2>1
<1>2. PICK q \in Nat : Floor(now * Low, Unit(co)) = Unit(co) * q
  <2> DEFINE x == now * Low
             unit == Unit(co)
  <2>1. x \in Nat
    BY FloorOfClock
  <2>2. unit \in Nat \ {0}
    BY LayoutPositive DEF Unit
  <2> HIDE DEF x, unit
  <2>3. \E q \in Nat : Floor(x, unit) = unit * q
    BY <2>1, <2>2, FloorIsMultiple
  <2> QED BY <2>3 DEF x, unit
<1>3. \E h \in Nat : Unit(co) * q = 2 * h
  <2>1. Counters \in Nat /\ Subs \in Nat
    BY StampAssumption
  <2>2. CASE co = 0
    <3>1. Unit(co) * q = 2 * (Counters * f * q) /\ Counters * f * q \in Nat
      BY <1>1, <2>1, <2>2 DEF Unit, Low
    <3> QED BY <3>1
  <2>3. CASE co = 1
    <3>1. Unit(co) * q = 2 * (Subs * (Counters * f) * q) /\ Subs * (Counters * f) * q \in Nat
      BY <1>1, <2>1, <2>3 DEF Unit, Second, Low
    <3> QED BY <3>1
  <2> QED BY <2>2, <2>3
<1>4. PICK h \in Nat : Unit(co) * q = 2 * h
  BY <1>3
<1>5. counter * Flags = 2 * (counter * f) /\ counter * f \in Nat
  BY <1>1
<1>6. PICK g \in Nat : counter * Flags = 2 * g
  BY <1>5
<1>7. (2 * h + 2 * g + co) % 2 = co
  OBVIOUS
<1> QED BY <1>2, <1>4, <1>6, <1>7 DEF Co

\* Counting on from a counter in units of the flags.
LEMMA CountedOn ==
    ASSUME NEW low \in Nat
    PROVE  LET next == ((low \div Flags) + 1) * Flags
           IN  next \in Nat /\ low < next /\ (low < Low => next <= Low)
<1> DEFINE c == low \div Flags
<1>1. Flags \in Nat \ {0} /\ Counters \in Nat
  BY StampAssumption
<1>2. low = Flags * c + (low % Flags) /\ c \in Nat /\ low % Flags \in 0 .. Flags - 1
  BY <1>1
<1> HIDE DEF c
<1>3. (c + 1) * Flags = Flags * c + Flags /\ Flags * c \in Nat
  BY <1>1, <1>2
<1>4. low < (c + 1) * Flags /\ (c + 1) * Flags \in Nat
  BY <1>1, <1>2, <1>3
<1>5. ASSUME low < Low PROVE (c + 1) * Flags <= Low
  <2>1. Flags * Counters = Low /\ Low \in Nat
    BY <1>1 DEF Low
  <2>2. Flags * c < Flags * Counters
    BY <1>1, <1>2, <1>3, <1>5, <2>1
  <2>3. Flags * c + Flags <= Flags * Counters
    BY <1>1, <1>2, <2>2, LessByAUnit
  <2> QED BY <1>3, <2>1, <2>3
<1> QED BY <1>4, <1>5 DEF c

\* What a stamp that is issued says, relative to the one before.
IsNext(previous, now, stamp) ==
    /\ Co(stamp) \in {0, 1}
    /\ Co(previous) = 1 => Co(stamp) = 1
    /\ Floor(stamp, Unit(Co(stamp))) = Floor(now * Low, Unit(Co(stamp)))
    /\ Co(stamp) = Co(previous) /\ Floor(previous, Unit(Co(stamp))) = Floor(now * Low, Unit(Co(stamp)))
       => previous < stamp

LEMMA StampIsNext ==
    ASSUME NEW previous \in Nat, NEW now \in Nat, Room(time_stamp(previous, now), now)
    PROVE  IsNext(previous, now, time_stamp(previous, now))
<1> DEFINE unit == Unit(Co(previous))
           low == previous % unit
           unchanged == Floor(previous, unit) = Floor(now * Low, unit)
           counter == IF unchanged THEN (low \div Flags) + 1 ELSE 0
           overflow == unchanged /\ (counter * Flags) % unit = 0
           co == IF overflow THEN 1 ELSE Co(previous)
           stamp == Floor(now * Low, Unit(co)) + counter * Flags + co
<1>1. stamp = time_stamp(previous, now)
  BY DEF time_stamp
<1>2. Co(previous) \in {0, 1} /\ Low \in Nat \ {0} /\ Second \in Nat \ {0}
  BY LayoutPositive DEF Co
<1>3. co \in {0, 1} /\ (Co(previous) = 1 => co = 1)
  BY <1>2
<1>4. unit \in Nat \ {0}
  BY <1>2 DEF Unit
<1>5. low \in Nat /\ low < unit /\ previous = Floor(previous, unit) + low
  <2>1. previous % unit \in Nat /\ previous % unit < unit
    BY <1>4
  <2> QED BY <2>1, <1>4 DEF Floor
<1>6. low \div Flags \in Nat /\ counter \in Nat
  BY <1>5, StampAssumption
<1>7. counter * Flags \in Nat
  BY <1>6, StampAssumption
<1>8. Co(stamp) = co
  BY <1>3, <1>6, CoOfStamp
<1>9. unchanged => low < counter * Flags
  BY <1>5, CountedOn
<1>10. ASSUME co = 0 PROVE counter * Flags < Low
  <2>1. unit = Low /\ ~overflow
    BY <1>2, <1>10 DEF Unit
  <2>2. CASE unchanged
    <3>1. counter * Flags <= Low
      BY <1>5, <2>1, <2>2, CountedOn
    <3>2. counter * Flags # Low
      <4> SUFFICES ASSUME counter * Flags = Low PROVE FALSE
        OBVIOUS
      <4>1. Low % Low = 0
        BY <1>2
      <4> QED BY <2>1, <2>2, <4>1
    <3> QED BY <1>2, <1>7, <3>1, <3>2
  <2>3. CASE ~unchanged
    BY <1>2, <2>3, StampAssumption
  <2> QED BY <2>2, <2>3
<1>11. Floor(stamp, Unit(co)) = Floor(now * Low, Unit(co))
  <2>1. CASE co = 1
    BY <1>1, <2>1 DEF Room, Unit
  <2>2. CASE co = 0
    <3>1. Unit(co) = Low /\ Floor(now * Low, Low) = now * Low /\ now * Low \in Nat
      BY <2>2, FloorOfClock DEF Unit
    <3>2. stamp = now * Low + counter * Flags
      <4> HIDE DEF counter, co
      <4> QED BY <1>7, <2>2, <3>1
    <3>3. stamp \in Nat /\ now * Low <= stamp /\ stamp < now * Low + Low
      <4> HIDE DEF counter, co, stamp
      <4> QED BY <1>2, <1>7, <1>10, <2>2, <3>1, <3>2
    <3>4. Low * now = now * Low
      BY <1>2
    <3>5. Floor(stamp, Low) = Low * now
      <4> HIDE DEF stamp
      <4> QED BY <1>2, <3>3, <3>4, FloorUnique
    <3> QED BY <3>1, <3>4, <3>5
  <2> QED BY <1>3, <2>1, <2>2
<1>12. ASSUME co = Co(previous), Floor(previous, Unit(co)) = Floor(now * Low, Unit(co))
       PROVE  previous < stamp
  <2>1. unchanged /\ Unit(co) = unit
    BY <1>12
  <2>2. stamp = Floor(previous, unit) + counter * Flags + co
    BY <1>12, <2>1
  <2>3. low < counter * Flags
    BY <1>9, <2>1
  <2>4. Floor(previous, unit) \in Nat
    BY <1>4, FloorNat
  <2> HIDE DEF low, counter, co, stamp, unit
  <2> QED BY <1>3, <1>5, <1>7, <2>2, <2>3, <2>4
<1> HIDE DEF co, stamp
<1> QED BY <1>1, <1>3, <1>8, <1>11, <1>12 DEF IsNext

----------------------------------------------------------------------------
(* What was sent, and what the receiver keeps of it.                       *)

\* The messages are numbered as they are sent, and the last one has the last stamp.
Numbered ==
    /\ \A m \in net : /\ m.n <= Cardinality(net)
                      /\ m.n = Cardinality(net) => m.stamp = sender_issued
    /\ net # {} => \E m \in net : m.n = Cardinality(net)
    /\ \A k, m \in net : k.n = m.n => k = m

\* Every stamp is of the second in which it was issued.
OfItsSecond == \A m \in net : Room(m.stamp, m.clock)

\* The sender never goes back to the short counter.
CountsOn == \A k, m \in net : k.n < m.n /\ Co(k.stamp) = 1 => Co(m.stamp) = 1

\* Two messages were sent at times that the stamp of the second one does not tell apart.
SameTime(k, m) == Floor(k.clock * Low, Unit(Co(m.stamp))) = Floor(m.clock * Low, Unit(Co(m.stamp)))

\* Stamps rise as long as the time that they tell is the same.
Rising ==
    \A k, m \in net :
        /\ k.n < m.n /\ Co(k.stamp) = Co(m.stamp)
        /\ \A j \in net : k.n <= j.n /\ j.n < m.n => SameTime(j, m)
        => k.stamp < m.stamp

\* What the receiver keeps is from before its frame, or it accepted it from the sender.
Remembered ==
    last_valid # Unknown =>
        \/ last_valid < Floor(clock * Low, Second) + Second - TIME_STAMP_FRAME
        \/ \E k \in net : k.n <= newest_sent /\ k.stamp = last_valid

SentInv == Numbered /\ OfItsSecond /\ AsAccurateAsFlagged /\ CountsOn /\ Rising

\* A message that is sent has the next number and the next stamp.
LEMMA SendInvariant ==
    ASSUME IInv, SentInv, NEW jitter \in BOOLEAN, Send(jitter)
    PROVE  SentInv'
<1> DEFINE m == [stamp |-> sender_issued', jitter |-> jitter,
                 n |-> Cardinality(net) + 1, clock |-> sender_clock]
<1>1. /\ m.stamp = sender_issued' /\ m.n = Cardinality(net) + 1 /\ m.clock = sender_clock
      /\ net' = net \cup {m}
  BY DEF Send
<1> HIDE DEF m
<1>2. /\ sender_issued \in Nat /\ sender_clock \in Nat /\ Cardinality(net) \in Nat
      /\ \A k \in net : k.stamp \in Nat /\ k.clock \in Nat /\ k.n \in Nat
  <2>1. Cardinality(net) \in Nat
    BY FS_CardinalityType DEF IInv
  <2> QED BY <2>1 DEF IInv, TypeOK, Messages
<1>3. Room(m.stamp, m.clock) /\ IsNext(sender_issued, m.clock, m.stamp)
  BY <1>1, <1>2, StampIsNext DEF Send
<1>4. \A k \in net : k.n < m.n /\ k.n <= Cardinality(net) /\ k # m
  BY <1>1, <1>2 DEF SentInv, Numbered
<1>5. Cardinality(net') = m.n
  BY <1>1, <1>4, FS_AddElement DEF IInv
<1>6. \A k \in net : \E l \in net : k.n <= l.n /\ l.n = Cardinality(net) /\ l.stamp = sender_issued
  BY <1>4 DEF SentInv, Numbered
<1>7. Numbered'
  <2>1. \A k \in net' : k.n <= m.n /\ (k.n = m.n => k.stamp = sender_issued')
    <3> SUFFICES ASSUME NEW k \in net' PROVE k.n <= m.n /\ (k.n = m.n => k.stamp = sender_issued')
      OBVIOUS
    <3>1. CASE k \in net
      BY <1>1, <1>2, <1>4, <3>1
    <3>2. CASE k = m
      BY <1>1, <1>2, <3>2
    <3> QED BY <1>1, <3>1, <3>2
  <2>2. \E k \in net' : k.n = m.n
    BY <1>1
  <2>3. \A j, k \in net' : j.n = k.n => j = k
    <3> SUFFICES ASSUME NEW j \in net', NEW k \in net', j.n = k.n PROVE j = k
      OBVIOUS
    <3>1. CASE j \in net /\ k \in net
      BY <3>1 DEF SentInv, Numbered
    <3>2. CASE j = m \/ k = m
      BY <1>1, <1>2, <1>4, <3>2
    <3> QED BY <1>1, <3>1, <3>2
  <2> QED BY <1>5, <2>1, <2>2, <2>3 DEF Numbered
<1>8. OfItsSecond'
  BY <1>1, <1>3 DEF SentInv, OfItsSecond, Room
<1>9. AsAccurateAsFlagged'
  BY <1>1, <1>3 DEF SentInv, AsAccurateAsFlagged, IsNext
<1>10. CountsOn'
  <2> SUFFICES ASSUME NEW k \in net', NEW j \in net', k.n < j.n, Co(k.stamp) = 1
               PROVE  Co(j.stamp) = 1
    BY DEF CountsOn
  <2>1. k \in net
    <3> SUFFICES ASSUME k = m PROVE FALSE
      BY <1>1
    <3>1. CASE j = m
      BY <1>1, <1>2, <3>1
    <3>2. CASE j \in net
      BY <1>1, <1>2, <1>4, <3>2
    <3> QED BY <1>1, <3>1, <3>2
  <2>2. CASE j \in net
    BY <2>1, <2>2 DEF SentInv, CountsOn
  <2>3. CASE j = m
    <3>1. PICK l \in net : k.n <= l.n /\ l.n = Cardinality(net) /\ l.stamp = sender_issued
      BY <1>6, <2>1
    <3>2. Co(l.stamp) = 1
      <4>1. CASE k.n < l.n
        BY <2>1, <4>1 DEF SentInv, CountsOn
      <4>2. CASE k.n = Cardinality(net)
        BY <2>1, <3>1, <4>2 DEF SentInv, Numbered
      <4> QED BY <1>2, <2>1, <3>1, <4>1, <4>2
    <3> QED BY <1>3, <2>3, <3>1, <3>2 DEF IsNext
  <2> QED BY <1>1, <2>2, <2>3
<1>11. Rising'
  <2> SUFFICES ASSUME NEW k \in net', NEW j \in net', k.n < j.n, Co(k.stamp) = Co(j.stamp),
                      \A i \in net' : k.n <= i.n /\ i.n < j.n => SameTime(i, j)
               PROVE  k.stamp < j.stamp
    BY DEF Rising, SameTime
  <2>1. k \in net
    <3> SUFFICES ASSUME k = m PROVE FALSE
      BY <1>1
    <3>1. CASE j = m
      BY <1>1, <1>2, <3>1
    <3>2. CASE j \in net
      BY <1>1, <1>2, <1>4, <3>2
    <3> QED BY <1>1, <3>1, <3>2
  <2>2. CASE j \in net
    BY <1>1, <2>1, <2>2 DEF SentInv, Rising
  <2>3. CASE j = m
    <3>1. PICK l \in net : k.n <= l.n /\ l.n = Cardinality(net) /\ l.stamp = sender_issued
      BY <1>6, <2>1
    <3>2. SameTime(l, m)
      BY <1>1, <1>4, <2>3, <3>1
    <3>3. Co(l.stamp) = Co(k.stamp)
      <4>1. CASE k.n = Cardinality(net)
        BY <2>1, <3>1, <4>1 DEF SentInv, Numbered
      <4>2. CASE k.n < l.n
        <5>1. Co(k.stamp) = 1 => Co(l.stamp) = 1
          BY <2>1, <4>2 DEF SentInv, CountsOn
        <5>2. Co(l.stamp) = 1 => Co(m.stamp) = 1
          BY <1>3, <3>1 DEF IsNext
        <5>3. Co(k.stamp) \in {0, 1} /\ Co(l.stamp) \in {0, 1}
          BY <1>2, <2>1 DEF Co
        <5> QED BY <2>3, <5>1, <5>2, <5>3
      <4> QED BY <1>2, <2>1, <3>1, <4>1, <4>2
    <3>4. l.stamp < m.stamp
      <4>1. Floor(l.stamp, Unit(Co(l.stamp))) = Floor(l.clock * Low, Unit(Co(l.stamp)))
        BY DEF SentInv, AsAccurateAsFlagged
      <4>2. Floor(l.stamp, Unit(Co(m.stamp))) = Floor(m.clock * Low, Unit(Co(m.stamp)))
        BY <2>3, <3>2, <3>3, <4>1 DEF SameTime
      <4> QED BY <1>3, <2>3, <3>1, <3>3, <4>2 DEF IsNext
    <3>5. CASE k.n = Cardinality(net)
      BY <2>1, <2>3, <3>1, <3>4, <3>5 DEF SentInv, Numbered
    <3>6. CASE k.n < l.n
      <4>1. \A i \in net : k.n <= i.n /\ i.n < l.n => SameTime(i, l)
        <5> SUFFICES ASSUME NEW i \in net, k.n <= i.n PROVE SameTime(i, l)
          OBVIOUS
        <5>1. SameTime(i, m)
          BY <1>1, <1>4, <2>3
        <5> QED BY <2>3, <3>2, <3>3, <5>1 DEF SameTime
      <4>2. k.stamp < l.stamp
        BY <2>1, <3>3, <3>6, <4>1 DEF SentInv, Rising
      <4>3. m.stamp \in Nat /\ k.stamp \in Nat /\ l.stamp \in Nat
        BY <1>1, <1>2, <2>1, StampNat DEF Send
      <4> QED BY <2>3, <3>4, <4>2, <4>3
    <3> QED BY <1>2, <2>1, <3>1, <3>5, <3>6
  <2> QED BY <1>1, <2>2, <2>3
<1> QED BY <1>7, <1>8, <1>9, <1>10, <1>11 DEF SentInv

\* A clock that ticks goes on.
LEMMA TimePasses ==
    ASSUME NEW t \in Nat
    PROVE  t <= NextTime(t)
<1>1. Subs \in Nat \ {0}
  BY StampAssumption
<1>2. Floor(t, Subs) \in Nat /\ t < Floor(t, Subs) + Subs
  BY <1>1, FloorNat, FloorIsMultiple
<1> QED BY <1>1, <1>2 DEF NextTime

\* What is kept is still old, or was still accepted, after every step.
LEMMA StepRemembered ==
    ASSUME IInv, Remembered, [Next]_vars
    PROVE  Remembered'
<1> USE DEF senderVars, entryVars
<1>1. Low \in Nat \ {0} /\ Second \in Nat \ {0} /\ TIME_STAMP_FRAME \in Nat
  BY LayoutPositive
<1>2. clock \in Nat /\ issued \in Nat /\ last_valid \in Int /\ newest_sent \in Nat
  BY DEF IInv, TypeOK
<1>3. \A m \in net : m.stamp \in Nat /\ m.n \in Nat
  BY DEF IInv, TypeOK, Messages
<1>4. CASE SenderTick
  BY <1>4 DEF SenderTick, Remembered
<1>5. CASE Tick
  <2>1. clock' \in Nat /\ clock <= clock'
    BY <1>2, <1>5, ClockNat, TimePasses DEF Tick
  <2>2. clock * Low \in Nat /\ clock' * Low \in Nat /\ clock * Low <= clock' * Low
    BY <1>1, <1>2, <2>1, TimesKeepsOrder
  <2>3. /\ Floor(clock * Low, Second) <= Floor(clock' * Low, Second)
        /\ Floor(clock * Low, Second) \in Nat /\ Floor(clock' * Low, Second) \in Nat
    BY <1>1, <2>2, FloorMonotone, FloorNat
  <2>4. UNCHANGED <<last_valid, net, newest_sent>>
    BY <1>5 DEF Tick
  <2> QED BY <1>1, <1>2, <2>3, <2>4 DEF Remembered
<1>6. CASE StepBack
  BY <1>6 DEF StepBack, Remembered
<1>7. ASSUME NEW jitter \in BOOLEAN, Send(jitter) PROVE Remembered'
  <2>1. UNCHANGED <<last_valid, clock, newest_sent>> /\ net \subseteq net'
    BY <1>7 DEF Send
  <2> QED BY <2>1 DEF Remembered
<1>8. CASE Enter
  <2>1. issued' \in Nat
    BY <1>2, <1>8, StampNat DEF Enter
  <2>2. issued' < Floor(clock * Low, Second) + Second
    <3>1. Floor(issued', Second) = Floor(clock * Low, Second)
      BY <1>8 DEF Enter, Room
    <3>2. issued' < Floor(issued', Second) + Second
      BY <1>1, <2>1, FloorIsMultiple
    <3> QED BY <3>1, <3>2
  <2>3. clock * Low \in Nat
    BY <1>1, <1>2
  <2>4. Floor(clock * Low, Second) \in Nat
    BY <1>1, <2>3, FloorNat
  <2>5. last_valid' = issued' - TIME_STAMP_FRAME /\ clock' = clock
    BY <1>8 DEF Enter, initial_time_stamp
  <2> QED BY <1>1, <2>1, <2>2, <2>4, <2>5 DEF Remembered
<1>9. CASE Forget
  BY <1>9 DEF Forget, Remembered
<1>10. ASSUME NEW m \in net, Accept(m) PROVE Remembered'
  <2>1. CASE last_valid = Unknown
    BY <1>10, <2>1 DEF Accept, Remembered
  <2>2. CASE last_valid # Unknown
    <3>1. /\ last_valid' = Greater(m.stamp, last_valid)
          /\ newest_sent' = Greater(newest_sent, m.n)
          /\ net' = net /\ clock' = clock
      BY <1>10, <2>2 DEF Accept, Kept
    <3>2. newest_sent <= newest_sent' /\ m.n <= newest_sent' /\ newest_sent' \in Nat
      BY <1>2, <1>3, <3>1 DEF Greater
    <3>3. CASE last_valid' = m.stamp
      BY <3>1, <3>2, <3>3 DEF Remembered
    <3>4. CASE last_valid' = last_valid
      <4>1. CASE last_valid < Floor(clock * Low, Second) + Second - TIME_STAMP_FRAME
        BY <3>1, <3>4, <4>1 DEF Remembered
      <4>2. ASSUME NEW k \in net, k.n <= newest_sent, k.stamp = last_valid PROVE Remembered'
        <5>1. k.n <= newest_sent'
          BY <1>2, <1>3, <3>2, <4>2
        <5> QED BY <3>1, <3>4, <4>2, <5>1 DEF Remembered
      <4> QED BY <2>2, <4>1, <4>2 DEF Remembered
    <3> QED BY <3>1, <3>3, <3>4 DEF Greater
  <2> QED BY <2>1, <2>2
<1>11. ASSUME NEW m \in net, Reject(m) PROVE Remembered'
  BY <1>11 DEF Reject, Remembered
<1>12. CASE UNCHANGED vars
  BY <1>12 DEF vars, Remembered
<1> QED BY <1>4, <1>5, <1>6, <1>7, <1>8, <1>9, <1>10, <1>11, <1>12 DEF Next

\* Only sending disturbs what is said of the messages.
LEMMA StepSent ==
    ASSUME IInv, SentInv, [Next]_vars
    PROVE  SentInv'
<1>1. ASSUME NEW jitter \in BOOLEAN, Send(jitter) PROVE SentInv'
  BY <1>1, SendInvariant
<1>2. CASE UNCHANGED <<net, sender_issued>>
  BY <1>2 DEF SentInv, Numbered, OfItsSecond, AsAccurateAsFlagged, CountsOn, Rising, SameTime
<1>3. \A m \in net : Accept(m) \/ Reject(m) => UNCHANGED <<net, sender_issued>>
  BY DEF Accept, Reject, senderVars
<1> QED BY <1>1, <1>2, <1>3
        DEF Next, SenderTick, Tick, StepBack, Enter, Forget, senderVars, vars

AllInv == IInv /\ SentInv /\ Remembered

LEMMA InitAll == Init => AllInv
BY InitInvariant
DEF AllInv, Init, SentInv, Numbered, OfItsSecond, AsAccurateAsFlagged, CountsOn, Rising, Remembered

LEMMA StepAll == AllInv /\ [Next]_vars => AllInv'
BY StepInvariant, StepSent, StepRemembered DEF AllInv

\* Clocks that are less than some seconds apart show seconds that are at most so far apart.
LEMMA NearSeconds ==
    ASSUME NEW x \in Nat, NEW y \in Nat, NEW d \in Nat, x < y + d * Subs
    PROVE  Floor(x * Low, Second) <= Floor(y * Low, Second) + d * Second
<1>1. Low \in Nat \ {0} /\ Second \in Nat \ {0} /\ Subs \in Nat
  BY LayoutPositive, StampAssumption
<1>2. d * Subs \in Nat /\ d * Second \in Nat
  BY <1>1
<1>3. x * Low \in Nat /\ y * Low \in Nat /\ x * Low <= (y + d * Subs) * Low
  BY <1>1, <1>2, TimesKeepsOrder
<1>4. (y + d * Subs) * Low = y * Low + d * Second
  BY <1>1 DEF Second
<1> DEFINE z == y * Low
<1>5. z \in Nat /\ z + d * Second \in Nat
  BY <1>2, <1>3
<1>6. PICK q \in Nat : Floor(z, Second) = Second * q
  BY <1>1, <1>5, FloorIsMultiple
<1>7. Second * q <= z /\ z < Second * q + Second /\ Second * q \in Nat
  BY <1>1, <1>5, <1>6, FloorIsMultiple
<1>8. Second * (q + d) = Second * q + d * Second
  BY <1>1
<1> HIDE DEF z
<1>9. Second * (q + d) <= z + d * Second /\ z + d * Second < Second * (q + d) + Second
  BY <1>1, <1>2, <1>5, <1>7, <1>8
<1>10. Floor(z + d * Second, Second) = Second * (q + d)
  BY <1>1, <1>5, <1>9, FloorUnique
<1>11. Floor(x * Low, Second) <= Floor(z + d * Second, Second)
  BY <1>1, <1>3, <1>4, <1>5, FloorMonotone DEF z
<1> QED BY <1>6, <1>8, <1>10, <1>11 DEF z

\* The jitter that is allowed to a counter is a second at least.
LEMMA JitterOfCounter == TIME_STAMP_JITTER * CoShift >= Second
<1>1. Jitter \in Nat /\ CoShift \in Nat /\ Subs \in Nat /\ Low \in Nat
  BY LayoutPositive, StampAssumption
<1>2. Jitter * CoShift \in Nat /\ Subs <= Jitter * CoShift
  BY <1>1, StampAssumption
<1>3. Subs * Low <= (Jitter * CoShift) * Low
  BY <1>1, <1>2, TimesKeepsOrder
<1>4. (Jitter * CoShift) * Low = TIME_STAMP_JITTER * CoShift
  BY <1>1 DEF TIME_STAMP_JITTER
<1> QED BY <1>1, <1>3, <1>4 DEF Second, TIME_STAMP_JITTER

\* A message of a sender that is not behind, sent after another one, was sent later.
LEMMA SentLater ==
    ASSUME IInv, NEW k \in net, NEW m \in net, k.n < m.n, ~SentBehind(m)
    PROVE  /\ k.clock <= m.clock
           /\ \A j \in net : k.n < j.n /\ j.n < m.n => k.clock <= j.clock \/ k.clock < m.clock
<1>1. \A j \in net : j.n \in Nat /\ j.clock \in Nat
  BY DEF IInv, TypeOK, Messages
<1> QED BY <1>1 DEF SentBehind

\* Its stamp is newer than the other's, or not older than the jitter allows.
LEMMA SentAfterIsLater ==
    ASSUME AllInv, NEW k \in net, NEW m \in net, k.n < m.n, ~SentBehind(m),
           m.jitter \/ ~CounterRestarted(m)
    PROVE  Later(m, k.stamp)
<1> USE DEF AllInv
<1>1. \A j \in net : j.n \in Nat /\ j.clock \in Nat /\ j.stamp \in Nat /\ j \in Messages
  BY DEF IInv, TypeOK, Messages
<1>2. Low \in Nat \ {0} /\ Second \in Nat \ {0}
  BY LayoutPositive
<1>3. JitterOf(m) \in Nat
  BY <1>1, JitterNat
<1>4. k.clock <= m.clock
  BY SentLater
<1> DEFINE kSecond == Floor(k.clock * Low, Second)
           mSecond == Floor(m.clock * Low, Second)
<1>5. k.clock * Low \in Nat /\ m.clock * Low \in Nat /\ k.clock * Low <= m.clock * Low
  BY <1>1, <1>2, <1>4, TimesKeepsOrder
<1>6. /\ kSecond \in Nat /\ mSecond \in Nat /\ kSecond <= mSecond
      /\ kSecond < mSecond => kSecond + Second <= mSecond
  BY <1>2, <1>5, FloorMonotone, FloorNat
<1>7. k.stamp < kSecond + Second /\ mSecond <= m.stamp
  <2>1. Floor(k.stamp, Second) = kSecond /\ Floor(m.stamp, Second) = mSecond
    BY DEF SentInv, OfItsSecond, Room
  <2> QED BY <1>1, <1>2, <2>1, FloorIsMultiple
<1>8. SUFFICES m.stamp + JitterOf(m) > k.stamp
  BY <1>1, <1>3 DEF Later
<1>9. Co(m.stamp) \in {0, 1} /\ Co(k.stamp) \in {0, 1}
  BY <1>1 DEF Co
<1>10. CASE kSecond < mSecond
  <2> HIDE DEF kSecond, mSecond
  <2> QED BY <1>1, <1>2, <1>3, <1>6, <1>7, <1>10
<1>11. CASE kSecond = mSecond /\ Co(m.stamp) = 0
  <2>1. Co(k.stamp) = 0
    BY <1>9, <1>11 DEF SentInv, CountsOn
  <2>2. CASE k.clock < m.clock
    <3>1. /\ Floor(k.stamp, Low) = k.clock * Low /\ Floor(m.stamp, Low) = m.clock * Low
      BY <1>1, <1>11, <2>1, FloorOfClock DEF SentInv, AsAccurateAsFlagged, Unit
    <3>2. k.stamp < k.clock * Low + Low /\ m.clock * Low <= m.stamp
      BY <1>1, <1>2, <3>1, FloorIsMultiple
    <3>3. (k.clock + 1) * Low <= m.clock * Low
      BY <1>1, <1>2, <2>2, TimesKeepsOrder
    <3>4. (k.clock + 1) * Low = k.clock * Low + Low
      BY <1>1, <1>2
    <3> QED BY <1>1, <1>2, <1>3, <1>5, <3>2, <3>3, <3>4
  <2>3. CASE k.clock = m.clock
    <3>1. \A j \in net : k.n <= j.n /\ j.n < m.n => j.clock = m.clock
      <4> SUFFICES ASSUME NEW j \in net, k.n <= j.n, j.n < m.n PROVE j.clock = m.clock
        OBVIOUS
      <4>1. CASE j.n = k.n
        BY <2>3, <4>1 DEF SentInv, Numbered
      <4>2. CASE k.n < j.n
        <5>1. k.clock <= j.clock
          BY <1>1, <2>3, <4>2, SentLater
        <5>2. j.clock <= m.clock
          BY SentLater
        <5> QED BY <1>1, <2>3, <5>1, <5>2
      <4> QED BY <1>1, <4>1, <4>2
    <3>2. k.stamp < m.stamp
      BY <1>11, <2>1, <3>1 DEF SentInv, Rising, SameTime
    <3> QED BY <1>1, <1>3, <3>2
  <2> QED BY <1>1, <1>4, <2>2, <2>3
<1>12. CASE kSecond = mSecond /\ Co(m.stamp) = 1 /\ m.jitter
  <2>1. JitterOf(m) >= Second
    BY <1>12, JitterOfCounter DEF JitterOf
  <2> HIDE DEF kSecond, mSecond
  <2> QED BY <1>1, <1>2, <1>3, <1>6, <1>7, <1>12, <2>1
<1>13. CASE kSecond = mSecond /\ Co(m.stamp) = 1 /\ ~CounterRestarted(m)
  <2>1. Floor(k.clock, Subs) = Floor(m.clock, Subs)
    <3> DEFINE x == Floor(k.clock, Subs)
               y == Floor(m.clock, Subs)
    <3>1. x \in Nat /\ y \in Nat /\ x * Low = y * Low
      BY <1>1, <1>13, SecondOfClock
    <3> HIDE DEF x, y
    <3>2. Low * x = Low * y
      BY <1>2, <3>1
    <3>3. x = y
      BY <1>2, <3>1, <3>2, SameFactor
    <3> QED BY <3>3 DEF x, y
  <2>2. /\ Co(k.stamp) # 0
        /\ \A j \in net : k.n < j.n /\ j.n < m.n => Floor(j.clock, Subs) = Floor(m.clock, Subs)
    BY <1>13, <2>1 DEF CounterRestarted
  <2>3. \A j \in net : k.n <= j.n /\ j.n < m.n => SameTime(j, m)
    <3> SUFFICES ASSUME NEW j \in net, k.n <= j.n, j.n < m.n PROVE SameTime(j, m)
      OBVIOUS
    <3>1. Floor(j.clock, Subs) = Floor(m.clock, Subs)
      <4>1. CASE j.n = k.n
        BY <2>1, <4>1 DEF SentInv, Numbered
      <4>2. CASE k.n < j.n
        BY <2>2, <4>2
      <4> QED BY <1>1, <4>1, <4>2
    <3>2. Floor(j.clock * Low, Second) = Floor(m.clock * Low, Second)
      BY <1>1, <3>1, SecondOfClock
    <3> QED BY <1>13, <3>2 DEF SameTime, Unit
  <2>4. k.stamp < m.stamp
    BY <1>9, <1>13, <2>2, <2>3 DEF SentInv, Rising
  <2> QED BY <1>1, <1>3, <2>4
<1> QED BY <1>6, <1>9, <1>10, <1>11, <1>12, <1>13

\* What is in time is in the frame, and what is in order is not too old.
LEMMA InvariantInOrder == AllInv => InOrderAccepted
<1> SUFFICES ASSUME AllInv, NEW m \in net, Timely(m), m.n > newest_sent, ~SentBehind(m),
                    m.jitter \/ ~CounterRestarted(m), Room(Own, clock)
             PROVE  Valid(m, Own)
  BY DEF InOrderAccepted
<1> USE DEF AllInv
<1> DEFINE sent == Floor(m.clock * Low, Second)
           here == Floor(clock * Low, Second)
           d == Frame - 1
<1>1. /\ m.stamp \in Nat /\ m.n \in Nat /\ m.clock \in Nat /\ m \in Messages
      /\ \A k \in net : k.n \in Nat
      /\ clock \in Nat /\ issued \in Nat /\ last_valid \in Int /\ newest_sent \in Nat
  BY DEF IInv, TypeOK, Messages
<1>2. Low \in Nat \ {0} /\ Second \in Nat \ {0} /\ Subs \in Nat /\ d \in Nat
  BY LayoutPositive, StampAssumption
<1>3. Own \in Nat
  BY <1>1, StampNat DEF Own
<1>4. sent \in Nat /\ here \in Nat
  BY <1>1, <1>2, FloorOfClock, FloorNat
<1>5. sent <= m.stamp /\ m.stamp < sent + Second
  <2>1. Floor(m.stamp, Second) = sent
    BY DEF SentInv, OfItsSecond, Room
  <2> QED BY <1>1, <1>2, <2>1, FloorIsMultiple
<1>6. here <= Own /\ Own < here + Second
  <2>1. Floor(Own, Second) = here
    BY DEF Room
  <2> QED BY <1>2, <1>3, <2>1, FloorIsMultiple
<1>7. sent <= here + d * Second /\ here <= sent + d * Second
  <2> DEFINE e == d * Subs
  <2>1. e \in Nat
    BY <1>2
  <2>2. Abs(m.clock - clock) < e
    BY DEF Timely
  <2>3. m.clock < clock + e /\ clock < m.clock + e
    <3> HIDE DEF e, d
    <3> QED BY <1>1, <2>1, <2>2 DEF Abs
  <2> HIDE DEF d
  <2> QED BY <1>1, <1>2, <2>3, NearSeconds
<1>8. d * Second + Second = TIME_STAMP_FRAME /\ d * Second \in Nat
  <2>1. Frame = d + 1
    BY <1>2, StampAssumption
  <2> HIDE DEF d
  <2> QED BY <1>2, <2>1 DEF TIME_STAMP_FRAME
<1>9. JitterOf(m) \in Nat
  BY <1>1, JitterNat
<1> HIDE DEF sent, here, d
<1>10. InFrame(m.stamp, Own)
  BY <1>1, <1>2, <1>3, <1>4, <1>5, <1>6, <1>7, <1>8 DEF InFrame, Abs
<1>11. ASSUME last_valid # Unknown PROVE Later(m, last_valid)
  <2>1. CASE last_valid < here + Second - TIME_STAMP_FRAME
    BY <1>1, <1>2, <1>4, <1>5, <1>7, <1>8, <1>9, <2>1 DEF Later
  <2>2. ASSUME NEW k \in net, k.n <= newest_sent, k.stamp = last_valid
        PROVE  Later(m, last_valid)
    <3>1. k.n < m.n
      BY <1>1, <2>2
    <3> QED BY <2>2, <3>1, SentAfterIsLater
  <2> QED BY <1>11, <2>1, <2>2 DEF Remembered, here
<1> QED BY <1>10, <1>11 DEF Valid

\* The state stays well typed.
THEOREM TypeCorrect == Spec => []TypeOK
<1>1. IInv => TypeOK
  BY DEF IInv
<1> QED BY <1>1, InitInvariant, StepInvariant, PTL DEF Spec

\* Messages without jitter are accepted in the order of their stamps, each at most once;
\* jitter is never granted against anything but the newest accepted stamp.
THEOREM NoReplay == Spec => []NeverBack
BY InitInvariant, StepInvariant, InvariantNeverBack, PTL DEF Spec

\* A stamp tells the time at which it was issued as exactly as its flag says: to the
\* microsecond, or to the second once the short counter overflowed.
THEOREM StampsAreAccurate == Spec => []AsAccurateAsFlagged
<1>1. AllInv => AsAccurateAsFlagged
  BY DEF AllInv, SentInv
<1> QED BY <1>1, InitAll, StepAll, PTL DEF Spec

\* What arrives in time and before anything that was sent after it is accepted, unless the
\* clock of its sender was set back or, without jitter, its counter began anew.
THEOREM InOrderIsAccepted == Spec => []InOrderAccepted
BY InitAll, StepAll, InvariantInOrder, PTL DEF Spec
=============================================================================
