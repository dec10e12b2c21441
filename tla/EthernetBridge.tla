--------------------------- MODULE EthernetBridge ---------------------------
(***************************************************************************)
(* How the edge of version 3 makes Ethernet frames of the IP packets of    *)
(* the tunnel: the ARP table of uip_arp.c, and the callbacks of            *)
(* edge_ios_v3.c that use it for each packet from the tunnel, each frame   *)
(* from a peer, and about every ten seconds.                               *)
(*                                                                         *)
(* All of it runs on the edge thread, but its table and its clock are      *)
(* static: they outlive the edge and are used by the next one.  The clock  *)
(* has eight bits, and the times it is compared with are subtracted as     *)
(* integers.  Nothing sets the default router of uip: it is 0.0.0.0.       *)
(***************************************************************************)
EXTENDS Integers

CONSTANTS
    Hosts,      \* the addresses of the n2n network but the edge's own
    HalfZero,   \* those with a half that is zero, such as 10.1.0.0
    NoAddr,     \* 0.0.0.0
    Gateway,    \* the gateway of the settings, or NoAddr
    Macs,
    NullMac,
    Slots,      \* UIP_ARPTAB_SIZE
    MaxAge,     \* UIP_ARP_MAXAGE
    Wrap        \* how many values arptime has

ASSUME BridgeAssumption ==
    /\ HalfZero \subseteq Hosts /\ NoAddr \notin Hosts
    /\ Gateway \in Hosts \cup {NoAddr}
    /\ NullMac \notin Macs
    /\ {Slots, MaxAge, Wrap} \subseteq Nat \ {0}
    /\ MaxAge < Wrap

VARIABLES
    arp_table,
    arptime,
    gateway_mac,   \* of the edge
    sent,          \* the frame that the last step made, if any
    \* what the properties refer to
    claimed,       \* the MAC address each host gave last, to this edge
    age,           \* ticks since the entry was written, MaxAge for more
    freed          \* an entry was given up, or written for 0.0.0.0

vars == <<arp_table, arptime, gateway_mac, sent, claimed, age, freed>>

Slot == 1 .. Slots
Addrs == Hosts \cup {NoAddr}
Entries == [ipaddr : Addrs, ethaddr : Macs \cup {NullMac}, time : 0 .. Wrap - 1]

\* A request or a reply names the address it asks for, a packet where it goes.
Nothing == [kind |-> "nothing"]
Request(ip) == [kind |-> "request", ip |-> ip]
Reply(ip, mac) == [kind |-> "reply", ip |-> ip, mac |-> mac]
Packet(ip, mac) == [kind |-> "packet", ip |-> ip, mac |-> mac]
Frames == {Nothing} \cup [kind : {"request"}, ip : Addrs]
          \cup [kind : {"reply", "packet"}, ip : Addrs, mac : Macs \cup {NullMac}]

TypeOK ==
    /\ arp_table \in [Slot -> Entries]
    /\ arptime \in 0 .. Wrap - 1
    /\ gateway_mac \in Macs \cup {NullMac}
    /\ sent \in Frames
    /\ claimed \in [Hosts \ HalfZero -> Macs \cup {NullMac}]
    /\ age \in [Slot -> 0 .. MaxAge]
    /\ freed \in BOOLEAN

Init ==
    /\ arp_table = [s \in Slot |-> [ipaddr |-> NoAddr, ethaddr |-> NullMac, time |-> 0]]
    /\ arptime = 0
    /\ gateway_mac = NullMac
    /\ sent = Nothing
    /\ claimed = [h \in Hosts \ HalfZero |-> NullMac]
    /\ age = [s \in Slot |-> 0]
    /\ freed = FALSE

----------------------------------------------------------------------------
(* The table.                                                              *)

First(S) == CHOOSE s \in S : \A r \in S : s <= r

With(ip) == {s \in Slot : arp_table[s].ipaddr = ip}

\* An entry that the timer looks at, and one that uip_arp_update may refresh.
InUse(s) == arp_table[s].ipaddr # NoAddr
Refreshable(ip) == IF ip \in HalfZero \cup {NoAddr} THEN {} ELSE With(ip)

Age(s) == arptime - arp_table[s].time

\* The first of the entries of the greatest age; an age counts if it is positive.
Oldest ==
    LET positive == {s \in Slot : Age(s) > 0}
    IN  IF positive = {} THEN 1
        ELSE First({s \in positive : \A r \in positive : Age(r) <= Age(s)})

\* Mutant: an unused entry is taken before the entry of the address is looked for.
Target_free(ip) ==
    CASE With(NoAddr) # {} -> First(With(NoAddr))
      [] With(NoAddr) = {} /\ Refreshable(ip) # {} -> First(Refreshable(ip))
      [] OTHER -> Oldest

\* The entry that uip_arp_update writes.
Target(ip) ==
    CASE Refreshable(ip) # {} -> First(Refreshable(ip))
      [] Refreshable(ip) = {} /\ With(NoAddr) # {} -> First(With(NoAddr))
      [] OTHER -> Oldest

\* Mutant: the time of a known address is not refreshed.
uip_arp_update_keepsTime(ip, mac) ==
    /\ arp_table' = IF Refreshable(ip) # {}
                    THEN [arp_table EXCEPT ![Target(ip)].ethaddr = mac]
                    ELSE [arp_table EXCEPT ![Target(ip)] =
                             [ipaddr |-> ip, ethaddr |-> mac, time |-> arptime]]
    /\ age' = [age EXCEPT ![Target(ip)] = 0]
    /\ claimed' = IF ip \in DOMAIN claimed THEN [claimed EXCEPT ![ip] = mac] ELSE claimed
    /\ freed' = (freed \/ ip = NoAddr)

uip_arp_update(ip, mac) ==
    /\ arp_table' = [arp_table EXCEPT ![Target(ip)] =
                        [ipaddr |-> ip, ethaddr |-> mac, time |-> arptime]]
    /\ age' = [age EXCEPT ![Target(ip)] = 0]
    /\ claimed' = IF ip \in DOMAIN claimed THEN [claimed EXCEPT ![ip] = mac] ELSE claimed
    /\ freed' = (freed \/ ip = NoAddr)

----------------------------------------------------------------------------
(* The steps of the edge thread.                                           *)

uip_arp_init ==
    /\ arp_table' = [s \in Slot |-> [arp_table[s] EXCEPT !.ipaddr = NoAddr]]
    /\ freed' = (freed \/ \E s \in Slot : InUse(s))
    /\ UNCHANGED <<arptime, age>>

\* start_edge_v3 clears its own status; uip_arp_init clears the addresses only.
StartEdge ==
    /\ uip_arp_init
    /\ gateway_mac' = NullMac
    /\ sent' = Nothing
    /\ claimed' = [h \in Hosts \ HalfZero |-> NullMac]

\* on_sn_registration_updated: update_gateway_mac
Registered ==
    /\ sent' = IF Gateway = NoAddr THEN Nothing ELSE Request(Gateway)
    /\ UNCHANGED <<arp_table, arptime, gateway_mac, claimed, age, freed>>

\* An ARP frame for this edge; a request is answered in its place.
uip_arp_arpin(op, ip, mac) ==
    /\ uip_arp_update(ip, mac)
    /\ sent' = IF op = "request" THEN Reply(ip, mac) ELSE Nothing

\* on_packet_from_peer, with an ARP frame of the given operation, sender and target:
\* what is not for this edge only tells the gateway's MAC address.
ArpFromPeer(op, ip, mac, forUs) ==
    /\ gateway_mac' = IF op = "reply" /\ ip = Gateway THEN mac ELSE gateway_mac
    /\ IF forUs THEN uip_arp_arpin(op, ip, mac)
       ELSE sent' = Nothing /\ UNCHANGED <<arp_table, claimed, age, freed>>
    /\ UNCHANGED arptime

\* A packet for ip, NoAddr for one outside the network: the router is looked up.
uip_arp_out(ip) ==
    IF With(ip) = {} THEN Request(ip)
    ELSE Packet(ip, arp_table[First(With(ip))].ethaddr)

\* Mutant: the MAC address is sent as it was found.
Frame_asFound(ip) == uip_arp_out(ip)

\* An entry without MAC address means the gateway.
Frame(ip) ==
    IF uip_arp_out(ip) = Packet(ip, NullMac) THEN Packet(ip, gateway_mac) ELSE uip_arp_out(ip)

\* on_packet_from_tap
PacketFromTap(ip) ==
    /\ sent' = Frame(ip)
    /\ UNCHANGED <<arp_table, arptime, gateway_mac, claimed, age, freed>>

\* Mutant: an entry is kept up to its greatest age.
Expired_late(s, now) == InUse(s) /\ now - arp_table[s].time > MaxAge

Expired(s, now) == InUse(s) /\ now - arp_table[s].time >= MaxAge

\* Mutant: the clock has more bits than the times.
Advanced_wide == arptime + 1

Advanced == (arptime + 1) % Wrap

uip_arp_timer ==
    /\ arptime' = Advanced
    /\ arp_table' = [s \in Slot |-> IF Expired(s, arptime')
                                    THEN [arp_table[s] EXCEPT !.ipaddr = NoAddr]
                                    ELSE arp_table[s]]
    /\ age' = [s \in Slot |-> IF age[s] < MaxAge THEN age[s] + 1 ELSE MaxAge]
    /\ freed' = (freed \/ \E s \in Slot : Expired(s, arptime'))

\* on_main_loop_period, ARP_PERIOD_INTERVAL after the last time.
Timer ==
    /\ uip_arp_timer
    /\ sent' = Nothing
    /\ UNCHANGED <<gateway_mac, claimed>>

Next ==
    \/ StartEdge \/ Registered \/ Timer
    \/ \E op \in {"request", "reply"}, ip \in Addrs, mac \in Macs, forUs \in BOOLEAN :
          ArpFromPeer(op, ip, mac, forUs)
    \/ \E ip \in Addrs : PacketFromTap(ip)

Spec == Init /\ [][Next]_vars

----------------------------------------------------------------------------
(* Properties.                                                             *)

\* An address has one entry, with the MAC address that its host gave last, and
\* packets go there: a reply and a request of the host refresh the entry that is
\* there (uip_arp_update).  Not so for an address with a half that is zero: its
\* entry is not taken for one "actually in use", and the older one is found.
NewestClaimUsed ==
    \A s \in Slot : arp_table[s].ipaddr \in Hosts \ HalfZero =>
        /\ arp_table[s].ethaddr = claimed[arp_table[s].ipaddr]
        /\ With(arp_table[s].ipaddr) = {s}

\* "It is responsible for flushing old entries": an entry that no host refreshed for
\* MaxAge ticks is gone, unless the clock of eight bits wraps before it is that old:
\* then its age is negative and it stays.
OldEntriesFlushed ==
    \A s \in Slot : InUse(s) /\ age[s] >= MaxAge => arp_table[s].time + MaxAge >= Wrap

\* The timer never takes an entry that is younger, also not when the clock wraps.
YoungEntriesKept ==
    [][\A s \in Slot :
          arptime' # arptime /\ InUse(s) /\ ~InUse(s)' => age[s] + 1 >= MaxAge]_vars

\* "A NULL MAC as destination means that the packet is directed to the default
\* gateway": a packet for outside the n2n network goes to the gateway, or is
\* replaced by a request when the table is full, as long as no entry was given up.
\* The MAC address of an entry given up stays in it, and packets for outside find
\* it under 0.0.0.0.
OutsideToGateway ==
    [][\A mac \in Macs \cup {NullMac} :
          sent # sent' /\ sent' = Packet(NoAddr, mac) /\ ~freed => mac = gateway_mac]_vars
=============================================================================
