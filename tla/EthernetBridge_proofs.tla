------------------------ MODULE EthernetBridge_proofs ------------------------
(***************************************************************************)
(* Theorems about EthernetBridge, for any hosts and MAC addresses, any     *)
(* size of the table, and any clock that runs longer than an entry lives.  *)
(***************************************************************************)
EXTENDS EthernetBridge, WellFoundedInduction, FiniteSetTheorems, TLAPS

(* An entry that an address is looked up in has what its host gave last;   *)
(* age is the difference of the times unless the clock wrapped in between; *)
(* and what was not given up holds no MAC address for 0.0.0.0.             *)
AgeIsDifference ==
    \A s \in Slot : InUse(s) =>
        \/ age[s] = MaxAge
        \/ age[s] < MaxAge /\ arptime - arp_table[s].time \in {age[s], age[s] - Wrap}

RoutesEmpty == ~freed => \A s \in With(NoAddr) : arp_table[s].ethaddr = NullMac

IInv == TypeOK /\ NewestClaimUsed /\ OldEntriesFlushed /\ AgeIsDifference /\ RoutesEmpty

----------------------------------------------------------------------------
(* Slots are a finite set of numbers: some set of them has a least one and *)
(* one of the greatest age.                                                *)

LEMMA LeastSlot ==
    ASSUME NEW S \in SUBSET Slot, S # {}
    PROVE  \E s \in S : \A r \in S : s <= r
<1>1. Slots \in Nat /\ S \subseteq Nat
    BY BridgeAssumption DEF Slot
<1>2. PICK s \in S : \A r \in S : <<r, s>> \notin OpToRel(<, Nat)
    BY <1>1, NatLessThanWellFounded, WFMin
<1>3. \A r \in S : ~(r < s)
    BY <1>1, <1>2 DEF OpToRel
<1> QED
    BY <1>1, <1>3

LEMMA FirstIn ==
    ASSUME NEW S \in SUBSET Slot, S # {}
    PROVE  First(S) \in S
BY LeastSlot DEF First

LEMMA OldestIn ==
    ASSUME TypeOK
    PROVE  Oldest \in Slot
<1> DEFINE positive == {s \in Slot : Age(s) > 0}
           Left(s) == Wrap - Age(s)
           greatest == {s \in positive : \A r \in positive : Age(r) <= Age(s)}
<1>1. 1 \in Slot
    BY BridgeAssumption DEF Slot
<1>2. \A s \in Slot : Age(s) \in Int /\ Left(s) \in Nat
    BY BridgeAssumption DEF TypeOK, Entries, Age
<1>3. ASSUME positive # {} PROVE greatest # {}
    <2> DEFINE lefts == {Left(s) : s \in positive}
    <2>1. lefts # {} /\ lefts \subseteq Nat
        BY <1>2, <1>3
    <2>2. PICK n \in lefts : \A m \in lefts : <<m, n>> \notin OpToRel(<, Nat)
        BY <2>1, NatLessThanWellFounded, WFMin
    <2>3. PICK s \in positive : n = Left(s)
        BY <2>2
    <2>4. \A r \in positive : ~(Left(r) < Left(s))
        BY <1>2, <2>2, <2>3 DEF OpToRel
    <2>5. \A r \in positive : Age(r) <= Age(s)
        BY <1>2, <2>4, BridgeAssumption
    <2> QED
        BY <2>5
<1>4. positive # {} => First(greatest) \in Slot
    BY <1>3, FirstIn
<1> QED
    BY <1>1, <1>4 DEF Oldest

(* uip_arp_update writes a slot of the table: one that holds the address,  *)
(* if it is taken for an address "actually in use".                        *)
LEMMA TargetIn ==
    ASSUME TypeOK, NEW ip \in Addrs
    PROVE  /\ Target(ip) \in Slot
           /\ Refreshable(ip) # {} => Target(ip) \in Refreshable(ip)
<1>1. Refreshable(ip) \in SUBSET Slot /\ With(NoAddr) \in SUBSET Slot
    BY DEF Refreshable, With
<1>2. CASE Refreshable(ip) # {}
    BY <1>1, <1>2, FirstIn DEF Target
<1>3. CASE Refreshable(ip) = {} /\ With(NoAddr) # {}
    BY <1>1, <1>3, FirstIn DEF Target
<1>4. CASE Refreshable(ip) = {} /\ With(NoAddr) = {}
    BY <1>4, OldestIn DEF Target
<1> QED
    BY <1>2, <1>3, <1>4

----------------------------------------------------------------------------
(* The invariant.                                                          *)

LEMMA InitIInv == Init => IInv
<1> SUFFICES ASSUME Init PROVE IInv
    OBVIOUS
<1>1. TypeOK
    <2>1. arp_table \in [Slot -> Entries]
        BY BridgeAssumption DEF Init, Entries, Addrs
    <2>2. age \in [Slot -> 0 .. MaxAge] /\ arptime \in 0 .. Wrap - 1
        BY BridgeAssumption DEF Init
    <2>3. claimed \in [Hosts \ HalfZero -> Macs \cup {NullMac}]
        BY DEF Init
    <2> QED
        BY <2>1, <2>2, <2>3 DEF Init, TypeOK, Frames
<1>2. \A s \in Slot : arp_table[s].ipaddr = NoAddr /\ arp_table[s].ethaddr = NullMac
    BY DEF Init
<1> QED
    BY <1>1, <1>2, BridgeAssumption
    DEF IInv, NewestClaimUsed, OldEntriesFlushed, AgeIsDifference, RoutesEmpty, InUse, With

(* A claim that is written: the entry of the address, or another one that  *)
(* is free or thrown away.                                                 *)
LEMMA UpdateKeeps ==
    ASSUME IInv, NEW ip \in Addrs, NEW mac \in Macs, uip_arp_update(ip, mac),
           arptime' = arptime
    PROVE  /\ arp_table' \in [Slot -> Entries]
           /\ claimed' \in [Hosts \ HalfZero -> Macs \cup {NullMac}]
           /\ age' \in [Slot -> 0 .. MaxAge] /\ freed' \in BOOLEAN
           /\ NewestClaimUsed' /\ OldEntriesFlushed' /\ AgeIsDifference' /\ RoutesEmpty'
<1> DEFINE t == Target(ip)
           new == [ipaddr |-> ip, ethaddr |-> mac, time |-> arptime]
<1>1. t \in Slot /\ (Refreshable(ip) # {} => t \in Refreshable(ip))
    BY TargetIn DEF IInv
<1>2. /\ arp_table'[t] = new /\ age'[t] = 0
      /\ \A s \in Slot \ {t} : arp_table'[s] = arp_table[s] /\ age'[s] = age[s]
    BY <1>1 DEF IInv, TypeOK, uip_arp_update
<1>3. /\ arp_table' \in [Slot -> Entries]
      /\ claimed' \in [Hosts \ HalfZero -> Macs \cup {NullMac}]
      /\ age' \in [Slot -> 0 .. MaxAge] /\ freed' \in BOOLEAN
    BY <1>1, BridgeAssumption DEF IInv, TypeOK, uip_arp_update, Entries
<1>4. OldEntriesFlushed' /\ AgeIsDifference'
    BY <1>1, <1>2, BridgeAssumption
    DEF IInv, TypeOK, OldEntriesFlushed, AgeIsDifference, InUse
<1>5. RoutesEmpty'
    <2> SUFFICES ASSUME ~freed', NEW s \in Slot, arp_table'[s].ipaddr = NoAddr
                 PROVE  arp_table'[s].ethaddr = NullMac
        BY DEF RoutesEmpty, With
    <2>1. ip # NoAddr /\ ~freed
        BY DEF uip_arp_update
    <2>2. s # t
        BY <1>2, <2>1
    <2> QED
        BY <1>2, <2>1, <2>2 DEF IInv, RoutesEmpty, With
<1>6. NewestClaimUsed'
    <2> SUFFICES ASSUME NEW s \in Slot, arp_table'[s].ipaddr \in Hosts \ HalfZero
                 PROVE  /\ arp_table'[s].ethaddr = claimed'[arp_table'[s].ipaddr]
                        /\ \A r \in Slot : arp_table'[r].ipaddr = arp_table'[s].ipaddr => r = s
        BY DEF NewestClaimUsed, With
    <2>1. CASE s = t
        <3>1. ip \in Hosts \ HalfZero /\ ip # NoAddr
            BY <1>2, <2>1, BridgeAssumption
        <3>2. claimed'[ip] = mac
            BY <3>1 DEF uip_arp_update, IInv, TypeOK
        <3>3. With(ip) \in {{}, {t}}
            BY <1>1, <3>1 DEF Refreshable, With, IInv, NewestClaimUsed
        <3>4. \A r \in Slot : arp_table'[r].ipaddr = ip => r = t
            BY <1>1, <1>2, <3>3 DEF With
        <3> QED
            BY <1>2, <2>1, <3>2, <3>4
    <2>2. CASE s # t
        <3> DEFINE other == arp_table[s].ipaddr
        <3>1. arp_table'[s] = arp_table[s]
            BY <1>2, <2>2
        <3>2. With(other) = {s} /\ arp_table[s].ethaddr = claimed[other]
            BY <3>1 DEF IInv, NewestClaimUsed
        <3>3. ip # other
            <4> SUFFICES ASSUME ip = other PROVE FALSE
                OBVIOUS
            <4>1. Refreshable(ip) = {s}
                BY <3>1, <3>2, BridgeAssumption DEF Refreshable
            <4> QED
                BY <1>1, <2>2, <4>1
        <3>4. claimed'[other] = claimed[other]
            BY <3>1, <3>3 DEF uip_arp_update, IInv, TypeOK
        <3>5. \A r \in Slot : arp_table'[r].ipaddr = other => r = s
            BY <1>1, <1>2, <3>2, <3>3 DEF With
        <3> QED
            BY <3>1, <3>2, <3>4, <3>5
    <2> QED
        BY <2>1, <2>2
<1> QED
    BY <1>3, <1>4, <1>5, <1>6

LEMMA FrameTypes ==
    /\ Nothing \in Frames
    /\ \A ip \in Addrs : Request(ip) \in Frames
    /\ \A ip \in Addrs, mac \in Macs \cup {NullMac} :
          Reply(ip, mac) \in Frames /\ Packet(ip, mac) \in Frames
BY DEF Frames, Nothing, Request, Reply, Packet

LEMMA StartIInv == ASSUME IInv, StartEdge PROVE IInv'
<1>1. \A s \in Slot : arp_table'[s].ipaddr = NoAddr
                      /\ arp_table'[s].ethaddr = arp_table[s].ethaddr
    BY DEF StartEdge, uip_arp_init, IInv, TypeOK, Entries
<1>2. TypeOK'
    <2>1. arp_table' \in [Slot -> Entries]
        BY DEF StartEdge, uip_arp_init, IInv, TypeOK, Entries, Addrs
    <2>2. claimed' \in [Hosts \ HalfZero -> Macs \cup {NullMac}]
        BY DEF StartEdge
    <2> QED
        BY <2>1, <2>2, FrameTypes DEF StartEdge, uip_arp_init, IInv, TypeOK
<1>3. RoutesEmpty'
    <2> SUFFICES ASSUME ~freed', NEW s \in Slot
                 PROVE  arp_table'[s].ethaddr = NullMac
        BY DEF RoutesEmpty, With
    <2>1. ~freed /\ arp_table[s].ipaddr = NoAddr
        BY DEF StartEdge, uip_arp_init, InUse
    <2> QED
        BY <1>1, <2>1 DEF IInv, RoutesEmpty, With
<1> QED
    BY <1>1, <1>2, <1>3, BridgeAssumption
    DEF IInv, NewestClaimUsed, OldEntriesFlushed, AgeIsDifference, InUse

LEMMA ArpIInv ==
    ASSUME IInv, NEW op \in {"request", "reply"}, NEW ip \in Addrs, NEW mac \in Macs,
           NEW forUs \in BOOLEAN, ArpFromPeer(op, ip, mac, forUs)
    PROVE  IInv'
<1>1. gateway_mac' \in Macs \cup {NullMac} /\ sent' \in Frames /\ arptime' = arptime
    BY FrameTypes DEF ArpFromPeer, uip_arp_arpin, IInv, TypeOK
<1>2. CASE forUs
    <2>1. uip_arp_update(ip, mac)
        BY <1>2 DEF ArpFromPeer, uip_arp_arpin
    <2> QED
        BY <1>1, <2>1, UpdateKeeps DEF IInv, TypeOK
<1>3. CASE ~forUs
    BY <1>1, <1>3
    DEF ArpFromPeer, IInv, TypeOK, NewestClaimUsed, OldEntriesFlushed, AgeIsDifference,
        RoutesEmpty, InUse, With
<1> QED
    BY <1>2, <1>3

(* What the timer does to an entry: either it is given up, or its age is   *)
(* one more and it is not old, unless the clock wraps before it is.        *)
LEMMA TimerIInv == ASSUME IInv, Timer PROVE IInv'
<1>1. /\ Wrap \in Nat /\ MaxAge \in Nat /\ MaxAge > 0 /\ MaxAge < Wrap
      /\ arptime \in 0 .. Wrap - 1
    BY BridgeAssumption DEF IInv, TypeOK
<1>2. /\ arptime' \in 0 .. Wrap - 1
      /\ arptime' = IF arptime = Wrap - 1 THEN 0 ELSE arptime + 1
    BY <1>1 DEF Timer, uip_arp_timer, Advanced
<1>3. ASSUME NEW s \in Slot
      PROVE  /\ arp_table'[s].ethaddr = arp_table[s].ethaddr
             /\ arp_table'[s].time = arp_table[s].time
             /\ arp_table[s].time \in 0 .. Wrap - 1
             /\ age[s] \in 0 .. MaxAge
             /\ age'[s] = IF age[s] < MaxAge THEN age[s] + 1 ELSE MaxAge
             /\ arp_table'[s].ipaddr # NoAddr =>
                   /\ InUse(s) /\ ~Expired(s, arptime')
                   /\ arp_table'[s].ipaddr = arp_table[s].ipaddr
             /\ ~Expired(s, arptime') => arp_table'[s].ipaddr = arp_table[s].ipaddr
    BY DEF Timer, uip_arp_timer, IInv, TypeOK, Entries, InUse, Expired
<1>4. TypeOK'
    <2>1. arp_table' \in [Slot -> Entries]
        BY DEF Timer, uip_arp_timer, IInv, TypeOK, Entries, Addrs
    <2>2. age' \in [Slot -> 0 .. MaxAge]
        BY <1>1 DEF Timer, uip_arp_timer, IInv, TypeOK
    <2> QED
        BY <1>2, <2>1, <2>2, FrameTypes DEF Timer, uip_arp_timer, IInv, TypeOK
<1>5. OldEntriesFlushed' /\ AgeIsDifference'
    <2> SUFFICES ASSUME NEW s \in Slot, arp_table'[s].ipaddr # NoAddr
                 PROVE  /\ age'[s] >= MaxAge => arp_table'[s].time + MaxAge >= Wrap
                        /\ \/ age'[s] = MaxAge
                           \/ /\ age'[s] < MaxAge
                              /\ arptime' - arp_table'[s].time \in {age'[s], age'[s] - Wrap}
        BY DEF OldEntriesFlushed, AgeIsDifference, InUse
    <2>1. InUse(s) /\ arptime' - arp_table[s].time < MaxAge
        BY <1>1, <1>2, <1>3 DEF Expired
    <2>2. CASE age[s] = MaxAge
        BY <1>1, <1>3, <2>1, <2>2 DEF IInv, OldEntriesFlushed
    <2>3. CASE age[s] < MaxAge /\ arptime - arp_table[s].time = age[s]
        BY <1>1, <1>2, <1>3, <2>1, <2>3
    <2>4. CASE age[s] < MaxAge /\ arptime - arp_table[s].time = age[s] - Wrap
        BY <1>1, <1>2, <1>3, <2>1, <2>4
    <2> QED
        BY <2>1, <2>2, <2>3, <2>4 DEF IInv, AgeIsDifference
<1>6. RoutesEmpty'
    <2> SUFFICES ASSUME ~freed', NEW s \in Slot, arp_table'[s].ipaddr = NoAddr
                 PROVE  arp_table'[s].ethaddr = NullMac
        BY DEF RoutesEmpty, With
    <2>1. ~freed /\ ~Expired(s, arptime')
        BY DEF Timer, uip_arp_timer
    <2> QED
        BY <1>3, <2>1 DEF IInv, RoutesEmpty, With
<1>7. NewestClaimUsed'
    <2> SUFFICES ASSUME NEW s \in Slot, arp_table'[s].ipaddr \in Hosts \ HalfZero
                 PROVE  /\ arp_table'[s].ethaddr = claimed'[arp_table'[s].ipaddr]
                        /\ \A r \in Slot : arp_table'[r].ipaddr = arp_table'[s].ipaddr => r = s
        BY DEF NewestClaimUsed, With
    <2>1. arp_table'[s].ipaddr # NoAddr /\ claimed' = claimed
        BY BridgeAssumption DEF Timer
    <2>2. \A r \in Slot : arp_table'[r].ipaddr = arp_table'[s].ipaddr
                            => arp_table[r].ipaddr = arp_table[s].ipaddr
        BY <1>3, <2>1
    <2> QED
        BY <1>3, <2>1, <2>2 DEF IInv, NewestClaimUsed, With
<1> QED
    BY <1>4, <1>5, <1>6, <1>7 DEF IInv

LEMMA FrameType ==
    ASSUME IInv, NEW ip \in Addrs
    PROVE  Frame(ip) \in Frames
<1>1. With(ip) # {} => First(With(ip)) \in Slot
    BY FirstIn DEF With
<1>2. uip_arp_out(ip) \in Frames
    BY <1>1, FrameTypes DEF uip_arp_out, IInv, TypeOK, Entries
<1> QED
    BY <1>2, FrameTypes DEF Frame, IInv, TypeOK

LEMMA StepIInv == IInv /\ [Next]_vars => IInv'
<1> SUFFICES ASSUME IInv, [Next]_vars PROVE IInv'
    OBVIOUS
<1>1. CASE StartEdge
    BY <1>1, StartIInv
<1>2. CASE Registered
    <2>1. sent' \in Frames
        BY <1>2, FrameTypes, BridgeAssumption DEF Registered, Addrs
    <2> QED
        BY <1>2, <2>1
        DEF Registered, IInv, TypeOK, NewestClaimUsed, OldEntriesFlushed, AgeIsDifference,
            RoutesEmpty, InUse, With
<1>3. CASE Timer
    BY <1>3, TimerIInv
<1>4. CASE \E op \in {"request", "reply"}, ip \in Addrs, mac \in Macs, forUs \in BOOLEAN :
              ArpFromPeer(op, ip, mac, forUs)
    BY <1>4, ArpIInv
<1>5. CASE \E ip \in Addrs : PacketFromTap(ip)
    BY <1>5, FrameType
    DEF PacketFromTap, IInv, TypeOK, NewestClaimUsed, OldEntriesFlushed, AgeIsDifference,
        RoutesEmpty, InUse, With
<1>6. CASE UNCHANGED vars
    BY <1>6
    DEF vars, IInv, TypeOK, NewestClaimUsed, OldEntriesFlushed, AgeIsDifference,
        RoutesEmpty, InUse, With
<1> QED
    BY <1>1, <1>2, <1>3, <1>4, <1>5, <1>6 DEF Next

LEMMA Always == Spec => []IInv
BY InitIInv, StepIInv, PTL DEF Spec

----------------------------------------------------------------------------
(* The theorems.                                                           *)

(* Every variable keeps its type; in particular the entry to be thrown     *)
(* away is one of the table's.                                             *)
THEOREM TypeCorrect == Spec => []TypeOK
<1>1. IInv => TypeOK
    BY DEF IInv
<1> QED
    BY <1>1, Always, PTL

(* An address has one entry, with what its host gave last.                 *)
THEOREM NewestClaim == Spec => []NewestClaimUsed
<1>1. IInv => NewestClaimUsed
    BY DEF IInv
<1> QED
    BY <1>1, Always, PTL

(* No entry outlives its age, unless the clock wraps first.                *)
THEOREM OldFlushed == Spec => []OldEntriesFlushed
<1>1. IInv => OldEntriesFlushed
    BY DEF IInv
<1> QED
    BY <1>1, Always, PTL

(* No entry is flushed before its age, also when the clock wraps.          *)
THEOREM YoungKept == Spec => YoungEntriesKept
<1>1. ASSUME IInv, [Next]_vars,
             NEW s \in Slot, arptime' # arptime, InUse(s), ~InUse(s)'
      PROVE  age[s] + 1 >= MaxAge
    <2>1. Timer
        BY <1>1 DEF Next, vars, StartEdge, uip_arp_init, Registered, ArpFromPeer, PacketFromTap
    <2>2. Expired(s, arptime')
        BY <1>1, <2>1 DEF Timer, uip_arp_timer, IInv, TypeOK, InUse
    <2>3. /\ Wrap \in Nat /\ MaxAge \in Nat /\ MaxAge > 0 /\ MaxAge < Wrap
          /\ arptime \in 0 .. Wrap - 1 /\ arp_table[s].time \in 0 .. Wrap - 1
          /\ age[s] \in 0 .. MaxAge
        BY <1>1, BridgeAssumption DEF IInv, TypeOK, Entries
    <2>4. arptime' = IF arptime = Wrap - 1 THEN 0 ELSE arptime + 1
        BY <2>1, <2>3 DEF Timer, uip_arp_timer, Advanced
    <2>5. arptime' - arp_table[s].time >= MaxAge
        BY <2>2 DEF Expired
    <2> QED
        BY <1>1, <2>3, <2>4, <2>5 DEF IInv, AgeIsDifference
<1>2. IInv /\ [Next]_vars =>
         [\A s \in Slot : arptime' # arptime /\ InUse(s) /\ ~InUse(s)' => age[s] + 1 >= MaxAge]_vars
    BY <1>1
<1> QED
    BY <1>2, Always, PTL DEF Spec, YoungEntriesKept

(* As long as no entry was given up, a packet for outside has the MAC      *)
(* address of the gateway.                                                 *)
THEOREM OutsideThroughGateway == Spec => OutsideToGateway
<1>1. ASSUME IInv, [Next]_vars, NEW mac \in Macs \cup {NullMac},
             sent # sent', sent' = Packet(NoAddr, mac), ~freed
      PROVE  mac = gateway_mac
    <2>1. sent'.kind = "packet" /\ sent'.ip = NoAddr /\ sent'.mac = mac
        BY <1>1 DEF Packet
    <2>2. PICK ip \in Addrs : PacketFromTap(ip)
        BY <1>1, <2>1
        DEF Next, vars, StartEdge, Registered, Timer, ArpFromPeer, uip_arp_arpin, PacketFromTap,
            Nothing, Request, Reply
    <2>3. With(ip) # {} /\ ip = NoAddr
        BY <2>1, <2>2 DEF PacketFromTap, Frame, uip_arp_out, Request, Packet
    <2>4. First(With(ip)) \in With(NoAddr)
        BY <2>3, FirstIn DEF With
    <2>5. uip_arp_out(ip) = Packet(ip, NullMac)
        BY <1>1, <2>3, <2>4 DEF uip_arp_out, IInv, RoutesEmpty
    <2>6. sent' = Packet(ip, gateway_mac)
        BY <2>2, <2>5 DEF PacketFromTap, Frame
    <2> QED
        BY <2>1, <2>6 DEF Packet
<1>2. IInv /\ [Next]_vars =>
         [\A mac \in Macs \cup {NullMac} :
             sent # sent' /\ sent' = Packet(NoAddr, mac) /\ ~freed => mac = gateway_mac]_vars
    BY <1>1
<1> QED
    BY <1>2, Always, PTL DEF Spec, OutsideToGateway

=============================================================================
