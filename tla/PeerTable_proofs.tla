--------------------------- MODULE PeerTable_proofs ---------------------------
(***************************************************************************)
(* Theorems about PeerTable, for any number of edges and sockets, any      *)
(* time-outs, and whatever becomes of the messages.                        *)
(***************************************************************************)
EXTENDS PeerTable, FiniteSetTheorems, TLAPS

(* What an edge is told of a socket is that somebody is or was there: the  *)
(* sockets in messages, tables and acknowledgements are places where the   *)
(* edge that they are told of has been.  So if no two edges have been at   *)
(* one socket, a socket identifies an edge, and looking for a peer by its  *)
(* socket finds the same one as looking for its MAC address.               *)
Whereabouts ==
    /\ \A e \in Edges : at[e] \in past[e] /\ registered[e] \in past[e]
    /\ \A n \in net : n.sock \in past[n.from]
    /\ \A e \in Edges : \A x \in answered[e] : x[2] \in past[x[1]]

(* The tables t of an edge that got the acknowledgements ans.              *)
TablesType(t) ==
    /\ t \in [pending : SUBSET Pending, known : SUBSET Known, out : SUBSET Messages]
    /\ IsFiniteSet(t.out)
Placed(t) ==
    /\ \A p \in t.pending : p.sock = NoSock \/ p.sock \in past[p.mac]
    /\ \A n \in t.out : n.sock \in past[n.from]
SocksDiffer(t) == \A k, l \in t.known : k.sock = l.sock => k = l
AllAnswered(t, ans) ==
    \A k \in t.known :
        /\ \E m \in Edges : <<m, k.sock>> \in ans
        /\ SocketTaken \/ <<k.mac, k.sock>> \in ans
PeersDiffer(t) ==
    /\ \A p \in t.pending : \A k \in t.known : p.mac # k.mac
    /\ \A k, l \in t.known : k.mac = l.mac => k = l
    /\ \A p, q \in t.pending : p.mac = q.mac => p = q

Fine(t, ans) ==
    /\ TablesType(t) /\ Placed(t) /\ SocksDiffer(t) /\ AllAnswered(t, ans)
    /\ SocketTaken \/ PeersDiffer(t)

IInv ==
    /\ TypeOK /\ IsFiniteSet(net) /\ Whereabouts
    /\ \A e \in Edges : Fine(TablesOf(e), answered[e])

USE DEF Named, AtSock

----------------------------------------------------------------------------
(* The functions on tables.                                                *)

(* A message that is sent names its sender and a place where that one is.  *)
LEMMA MessageFine ==
    ASSUME IInv, NEW type \in {"PACKET", "REGISTER", "ACK"}, NEW e \in Edges, NEW m \in Edges,
           NEW s \in Sockets
    PROVE  /\ Direct(type, e, m, s) \in Messages /\ Relayed(type, e, m) \in Messages
           /\ PeerInfo(e, m) \in Messages
           /\ Direct(type, e, m, s).sock \in past[e] /\ Direct(type, e, m, s).from = e
           /\ Relayed(type, e, m).sock \in past[e] /\ Relayed(type, e, m).from = e
           /\ PeerInfo(e, m).sock \in past[m] /\ PeerInfo(e, m).from = m
BY DEF IInv, TypeOK, Whereabouts, Direct, Relayed, PeerInfo, Messages

LEMMA SentFine ==
    ASSUME NEW out \in SUBSET Messages, IsFiniteSet(out), NEW n \in Messages, NEW r \in Messages
    PROVE  /\ IsFiniteSet(out \cup {n}) /\ out \cup {n} \in SUBSET Messages
           /\ IsFiniteSet(out \cup {n, r}) /\ out \cup {n, r} \in SUBSET Messages
<1>1. IsFiniteSet(out \cup {n})
    BY FS_AddElement
<1>2. out \cup {n, r} = (out \cup {n}) \cup {r}
    OBVIOUS
<1> QED
    BY <1>1, <1>2, FS_AddElement

LEMMA TablesFine ==
    ASSUME IInv, NEW e \in Edges
    PROVE  Fine(TablesOf(e), answered[e]) /\ TablesOf(e).out = {}
BY DEF IInv, TablesOf

LEMMA RemovePendingFine ==
    ASSUME IInv, NEW t, NEW ans, Fine(t, ans), NEW m \in Edges
    PROVE  LET r == find_and_remove_pending(t, m) IN
           /\ Fine(r, ans) /\ r.out = t.out /\ r.known = t.known
           /\ r.pending = {p \in t.pending : p.mac # m}
<1> DEFINE r == find_and_remove_pending(t, m)
<1>1. /\ r \in [pending : SUBSET Pending, known : SUBSET Known, out : SUBSET Messages]
      /\ r.pending = {p \in t.pending : p.mac # m} /\ r.known = t.known /\ r.out = t.out
    BY DEF find_and_remove_pending, Fine, TablesType
<1> QED
    BY <1>1 DEF Fine, TablesType, Placed, SocksDiffer, AllAnswered, PeersDiffer

LEMMA AgesAreNat == IdleAge \in Nat /\ QueryAge \in Nat /\ ExpireAge \in Nat
BY PeerAssumption

(* A pending peer that was heard at s.                                     *)
LEMMA HeardPending ==
    ASSUME NEW p \in Pending, NEW s \in Sockets
    PROVE  /\ [p EXCEPT !.sock = s, !.seen = 0] \in Pending
           /\ [p EXCEPT !.sock = s, !.seen = 0].mac = p.mac
           /\ [p EXCEPT !.sock = s, !.seen = 0].sock = s
<1>1. [p EXCEPT !.sock = s, !.seen = 0] \in Pending
    <2>1. 0 \in 0 .. ExpireAge /\ s \in Sockets \cup {NoSock}
        BY AgesAreNat
    <2> QED
        BY <2>1, Zenon DEF Pending
<1>2. [p EXCEPT !.sock = s, !.seen = 0].mac = p.mac
    BY DEF Pending
<1>3. [p EXCEPT !.sock = s, !.seen = 0].sock = s
    BY DEF Pending
<1> QED
    BY <1>1, <1>2, <1>3

(* Registering with a peer that is not known at any place where it was.    *)
LEMMA RegisterFine ==
    ASSUME IInv, NEW e \in Edges, NEW t, NEW ans, Fine(t, ans), NEW sn \in BOOLEAN,
           NEW m \in Edges, NEW s \in Sockets, s \in past[m],
           SocketTaken \/ \A k \in t.known : k.mac # m
    PROVE  Fine(register_with_new_peer(e, t, sn, m, s), ans)
<1> DEFINE r == register_with_new_peer(e, t, sn, m, s)
           fresh == [mac |-> m, sock |-> s, seen |-> 0, asked |-> QueryAge]
<1> USE DEF Fine, TablesType
<1>1. fresh \in Pending
    BY PeerAssumption DEF Pending
<1>2. CASE Named(t.pending, m) = {}
    <2>1. /\ r.pending = t.pending \cup {fresh} /\ r.known = t.known
          /\ r.out = t.out \cup {Direct("REGISTER", e, m, s)}
                           \cup (IF sn THEN {Relayed("REGISTER", e, m)} ELSE {})
          /\ r = [pending |-> r.pending, known |-> r.known, out |-> r.out]
        BY <1>2 DEF register_with_new_peer
    <2>2. r.out = IF sn THEN t.out \cup {Direct("REGISTER", e, m, s), Relayed("REGISTER", e, m)}
                  ELSE t.out \cup {Direct("REGISTER", e, m, s)}
        BY <2>1
    <2>3. r.out \in SUBSET Messages /\ IsFiniteSet(r.out)
        <3>1. Direct("REGISTER", e, m, s) \in Messages /\ Relayed("REGISTER", e, m) \in Messages
            BY MessageFine
        <3>2. t.out \in SUBSET Messages /\ IsFiniteSet(t.out)
            OBVIOUS
        <3> QED
            BY <2>2, <3>1, <3>2, SentFine DEF register_with_new_peer
    <2>4. \A n \in r.out : n.sock \in past[n.from]
        BY <2>2, MessageFine DEF Placed
    <2>5. TablesType(r)
        BY <1>1, <2>1, <2>3
    <2>6. Placed(r)
        BY <2>1, <2>4 DEF Placed
    <2> QED
        BY <1>2, <2>1, <2>5, <2>6 DEF SocksDiffer, AllAnswered, PeersDiffer
<1>3. CASE Named(t.pending, m) # {}
    <2> DEFINE moved(p) == IF p.mac = m THEN [p EXCEPT !.sock = s, !.seen = 0] ELSE p
    <2>1. /\ r.pending = {moved(p) : p \in t.pending} /\ r.known = t.known /\ r.out = t.out
          /\ r = [pending |-> r.pending, known |-> r.known, out |-> r.out]
        BY <1>3 DEF register_with_new_peer
    <2>2. \A p \in t.pending : /\ moved(p) \in Pending /\ moved(p).mac = p.mac
                               /\ moved(p).sock = IF p.mac = m THEN s ELSE p.sock
        <3> SUFFICES ASSUME NEW p \in t.pending
                     PROVE  /\ moved(p) \in Pending /\ moved(p).mac = p.mac
                            /\ moved(p).sock = IF p.mac = m THEN s ELSE p.sock
            OBVIOUS
        <3>1. p \in Pending
            OBVIOUS
        <3>2. /\ [p EXCEPT !.sock = s, !.seen = 0] \in Pending
              /\ [p EXCEPT !.sock = s, !.seen = 0].mac = p.mac
              /\ [p EXCEPT !.sock = s, !.seen = 0].sock = s
            BY <3>1, HeardPending
        <3>3. CASE p.mac = m
            BY <3>2, <3>3
        <3>4. CASE p.mac # m
            BY <3>1, <3>4
        <3> QED
            BY <3>3, <3>4
    <2>3. TablesType(r)
        BY <2>1, <2>2
    <2>4. Placed(r)
        BY <2>1, <2>2 DEF Placed
    <2>5. SocketTaken \/ PeersDiffer(r)
        <3> SUFFICES ASSUME PeersDiffer(t), \A k \in t.known : k.mac # m
                     PROVE  PeersDiffer(r)
            OBVIOUS
        <3>1. \A p, q \in t.pending : moved(p).mac = moved(q).mac => moved(p) = moved(q)
            BY <2>2 DEF PeersDiffer
        <3>2. \A p \in t.pending, k \in t.known : moved(p).mac # k.mac
            BY <2>2 DEF PeersDiffer
        <3> HIDE DEF r, moved
        <3> QED
            BY <2>1, <3>1, <3>2 DEF PeersDiffer
    <2> QED
        BY <2>1, <2>3, <2>4, <2>5 DEF SocksDiffer, AllAnswered
<1> QED
    BY <1>2, <1>3

(* A known peer was heard again, at its socket or at another one.          *)
LEMMA SockChangeFine ==
    ASSUME IInv, NEW e \in Edges, NEW t, NEW ans, Fine(t, ans), NEW k \in t.known,
           NEW sn \in BOOLEAN, NEW s \in Sockets, s \in past[k.mac]
    PROVE  Fine(check_known_peer_sock_change(e, t, k, sn, s), ans)
<1> USE DEF Fine, TablesType
<1>1. CASE k.sock = s
    <2> DEFINE r == check_known_peer_sock_change(e, t, k, sn, s)
               l == [k EXCEPT !.seen = 0]
    <2>1. r.pending = t.pending /\ r.known = (t.known \ {k}) \cup {l} /\ r.out = t.out
          /\ r = [pending |-> r.pending, known |-> r.known, out |-> r.out]
        BY <1>1 DEF check_known_peer_sock_change
    <2>2. k \in Known
        OBVIOUS
    <2>3. l \in Known /\ l.mac = k.mac /\ l.sock = k.sock
        BY <2>2, AgesAreNat DEF Known
    <2> HIDE DEF r, l
    <2>4. Fine(r, ans)
        BY <2>1, <2>3 DEF Placed, SocksDiffer, AllAnswered, PeersDiffer
    <2> HIDE DEF Fine
    <2> QED
        BY <2>4 DEF r
<1>2. CASE k.sock # s /\ sn
    BY <1>2 DEF check_known_peer_sock_change
<1>3. CASE k.sock # s /\ ~sn
    <2> DEFINE r == [t EXCEPT !.known = @ \ {k}]
    <2>1. /\ r.pending = t.pending /\ r.known = t.known \ {k} /\ r.out = t.out
          /\ r = [pending |-> r.pending, known |-> r.known, out |-> r.out]
        OBVIOUS
    <2> HIDE DEF r
    <2>2. Fine(r, ans)
        BY <2>1 DEF Placed, SocksDiffer, AllAnswered, PeersDiffer
    <2>3. SocketTaken \/ \A l \in r.known : l.mac # k.mac
        BY <2>1 DEF PeersDiffer
    <2>4. k.mac \in Edges
        BY DEF Known
    <2> HIDE DEF Fine
    <2>5. Fine(register_with_new_peer(e, r, sn, k.mac, s), ans)
        BY <2>2, <2>3, <2>4, RegisterFine
    <2>6. check_known_peer_sock_change(e, t, k, sn, s) = register_with_new_peer(e, r, sn, k.mac, s)
        BY <1>3, Zenon DEF check_known_peer_sock_change, r
    <2> QED
        BY <2>5, <2>6, Zenon
<1> QED
    BY <1>1, <1>2, <1>3

Refreshed(k, m, sn) == [k EXCEPT !.mac = m, !.p2p = IF sn THEN @ ELSE 0]
Replaced(t, k, l) == [t EXCEPT !.known = (@ \ {k}) \cup {l}]

LEMMA RefreshedKnown ==
    ASSUME NEW k \in Known, NEW m \in Edges, NEW sn \in BOOLEAN
    PROVE  /\ Refreshed(k, m, sn) \in Known
           /\ Refreshed(k, m, sn).mac = m /\ Refreshed(k, m, sn).sock = k.sock
<1> DEFINE l == Refreshed(k, m, sn)
<1> USE DEF Refreshed
<1>1. l \in Known
    <2>1. (IF sn THEN k.p2p ELSE 0) \in 0 .. IdleAge
        BY AgesAreNat DEF Known
    <2> QED
        BY <2>1, Zenon DEF Known
<1>2. l.mac = m
    BY DEF Known
<1>3. l.sock = k.sock
    BY DEF Known
<1> QED
    BY <1>1, <1>2, <1>3

LEMMA ReplacedTables ==
    ASSUME NEW t, NEW ans, Fine(t, ans), NEW k, NEW l
    PROVE  /\ Replaced(t, k, l).pending = t.pending /\ Replaced(t, k, l).out = t.out
           /\ Replaced(t, k, l).known = (t.known \ {k}) \cup {l}
           /\ Replaced(t, k, l) = [pending |-> t.pending, out |-> t.out,
                                   known |-> (t.known \ {k}) \cup {l}]
BY DEF Fine, TablesType, Replaced

(* Something came from m at a place where it was.                          *)
LEMMA CheckFine ==
    ASSUME IInv, NEW e \in Edges, NEW t, NEW ans, Fine(t, ans), NEW sn \in BOOLEAN,
           NEW m \in Edges, NEW s \in Sockets, s \in past[m],
           \A x \in ans : x[2] \in past[x[1]],
           NEW r \in check_peer_registration_needed(e, t, sn, m, s)
    PROVE  Fine(r, ans)
<1> USE DEF Fine, TablesType
<1> DEFINE found == Found(t.known, m, s)
           refreshed(k) == Refreshed(k, m, sn)
           with(k) == Replaced(t, k, refreshed(k))
<1>1. found = {} => Fine(register_with_new_peer(e, t, sn, m, s), ans)
    BY RegisterFine DEF Found
<1>2. ASSUME NEW k \in found PROVE Fine(with(k), ans) /\ refreshed(k) \in with(k).known
                                   /\ refreshed(k).mac = m
    <2>1. k \in Known /\ k \in t.known /\ (k.mac = m \/ k.sock = s)
        BY DEF Found
    <2>2. refreshed(k) \in Known /\ refreshed(k).mac = m /\ refreshed(k).sock = k.sock
        BY <2>1, RefreshedKnown
    <2>3. /\ with(k).pending = t.pending /\ with(k).out = t.out
          /\ with(k).known = (t.known \ {k}) \cup {refreshed(k)}
          /\ with(k) = [pending |-> t.pending, out |-> t.out,
                        known |-> (t.known \ {k}) \cup {refreshed(k)}]
        BY ReplacedTables
    <2>4. SocketTaken \/ k.mac = m
        <3> SUFFICES ASSUME ~SocketTaken, k.mac # m PROVE FALSE
            OBVIOUS
        <3>1. k.sock = s /\ k.mac \in Edges
            BY <2>1 DEF Known
        <3>2. <<k.mac, k.sock>> \in ans
            BY <2>1 DEF AllAnswered
        <3>3. k.sock \in past[k.mac]
            BY <3>2
        <3> QED
            BY <3>1, <3>3 DEF SocketTaken
    <2> HIDE DEF refreshed, with
    <2>5. TablesType(with(k)) /\ Placed(with(k)) /\ SocksDiffer(with(k))
        BY <2>1, <2>2, <2>3 DEF Placed, SocksDiffer
    <2>6. AllAnswered(with(k), ans)
        BY <2>1, <2>2, <2>3, <2>4 DEF AllAnswered
    <2>7. SocketTaken \/ PeersDiffer(with(k))
        BY <2>1, <2>2, <2>3, <2>4 DEF PeersDiffer
    <2> QED
        BY <2>2, <2>3, <2>5, <2>6, <2>7
<1>3. \/ found = {} /\ r = register_with_new_peer(e, t, sn, m, s)
      \/ \E k \in found : r = with(k) \/ r = check_known_peer_sock_change(e, with(k), refreshed(k), sn, s)
    BY Zenon DEF check_peer_registration_needed, Refreshed, Replaced
<1> HIDE DEF found, refreshed, with
<1>4. ASSUME NEW k \in found
      PROVE  Fine(check_known_peer_sock_change(e, with(k), refreshed(k), sn, s), ans)
    BY <1>2, SockChangeFine
<1> QED
    BY <1>1, <1>2, <1>3, <1>4

Moved(t, p, K) == [t EXCEPT !.pending = @ \ {p}, !.known = K]

LEMMA MovedTables ==
    ASSUME NEW t, NEW ans, Fine(t, ans), NEW p, NEW K \in SUBSET Known
    PROVE  /\ Moved(t, p, K).pending = t.pending \ {p} /\ Moved(t, p, K).known = K
           /\ Moved(t, p, K).out = t.out
           /\ Moved(t, p, K) \in [pending : SUBSET Pending, known : SUBSET Known,
                                  out : SUBSET Messages]
<1> USE DEF Fine, TablesType, Moved
<1>1. Moved(t, p, K).pending = t.pending \ {p}
    OBVIOUS
<1>2. Moved(t, p, K).known = K
    OBVIOUS
<1>3. Moved(t, p, K).out = t.out
    OBVIOUS
<1>4. Moved(t, p, K) \in [pending : SUBSET Pending, known : SUBSET Known,
                          out : SUBSET Messages]
    <2>1. t.pending \ {p} \in SUBSET Pending
        OBVIOUS
    <2> QED
        BY <2>1, Zenon
<1> QED
    BY <1>1, <1>2, <1>3, <1>4

(* An acknowledgement from m at a place where it was.                      *)
LEMMA ConfirmedFine ==
    ASSUME IInv, NEW t, NEW ans, Fine(t, ans), NEW m \in Edges, NEW s \in Sockets,
           s \in past[m], <<m, s>> \in ans, \A x \in ans : x[2] \in past[x[1]],
           NEW r \in peer_set_p2p_confirmed(t, m, s)
    PROVE  Fine(r, ans)
<1> DEFINE found == Found(t.pending, m, s)
           same == AtSock(t.known, s)
           confirmed(mac) == [mac |-> mac, sock |-> s, seen |-> 0, p2p |-> 0]
<1>1. CASE found = {}
    BY <1>1 DEF peer_set_p2p_confirmed
<1>8. ASSUME found # {}, same = {}
      PROVE  \E p \in found : r = Moved(t, p, t.known \cup {confirmed(p.mac)})
    BY <1>8 DEF peer_set_p2p_confirmed, Moved
<1>9. ASSUME found # {}, same # {}
      PROVE  \E p \in found, k \in same : r = Moved(t, p, (t.known \ {k}) \cup {confirmed(m)})
    <2>1. PICK x \in found \X same : r = Moved(t, x[1], (t.known \ {x[2]}) \cup {confirmed(m)})
        BY <1>9 DEF peer_set_p2p_confirmed, Moved
    <2> QED
        BY <2>1
<1> USE DEF Fine, TablesType
<1>2. ASSUME NEW p \in found
      PROVE  /\ p \in t.pending /\ p.mac \in Edges
             /\ SocketTaken \/ p.mac = m
    <2>1. p \in t.pending /\ p.mac \in Edges /\ (p.mac = m \/ p.sock = s)
        BY DEF Pending, Found
    <2>2. ASSUME ~SocketTaken, p.mac # m PROVE FALSE
        <3>1. p.sock = s /\ s # NoSock
            BY <2>1, <2>2, PeerAssumption
        <3>2. s \in past[p.mac]
            BY <2>1, <3>1 DEF Placed
        <3> QED
            BY <2>1, <2>2, <3>2 DEF SocketTaken
    <2> QED
        BY <2>1, <2>2
<1>3. ASSUME NEW k \in same
      PROVE  k \in t.known /\ k.sock = s /\ (SocketTaken \/ k.mac = m)
    <2>1. k \in t.known /\ k.sock = s /\ k.mac \in Edges
        BY DEF Known
    <2>2. ASSUME ~SocketTaken PROVE s \in past[k.mac]
        BY <2>1, <2>2 DEF AllAnswered
    <2> QED
        BY <2>1, <2>2 DEF SocketTaken
<1>4. \A p : \A K \in SUBSET Known :
         /\ Moved(t, p, K).pending = t.pending \ {p} /\ Moved(t, p, K).known = K
         /\ Moved(t, p, K).out = t.out
         /\ Moved(t, p, K) \in [pending : SUBSET Pending, known : SUBSET Known,
                                out : SUBSET Messages]
    BY MovedTables
<1>5. \A mac \in Edges : confirmed(mac) \in Known /\ confirmed(mac).mac = mac
                          /\ confirmed(mac).sock = s
    BY AgesAreNat DEF Known
<1> HIDE DEF found, same, confirmed
<1>6. ASSUME same = {}, NEW p \in found, r = Moved(t, p, t.known \cup {confirmed(p.mac)})
      PROVE  Fine(r, ans)
    <2>1. TablesType(r) /\ Placed(r)
        BY <1>2, <1>4, <1>5, <1>6 DEF Placed
    <2>2. SocksDiffer(r)
        BY <1>2, <1>4, <1>5, <1>6 DEF SocksDiffer, same
    <2>3. AllAnswered(r, ans)
        <3>1. \A l \in r.known : l \in t.known \/ (l.sock = s /\ l.mac = p.mac)
            BY <1>2, <1>4, <1>5, <1>6
        <3> QED
            BY <1>2, <3>1 DEF AllAnswered
    <2>4. SocketTaken \/ PeersDiffer(r)
        BY <1>2, <1>4, <1>5, <1>6 DEF PeersDiffer
    <2> QED
        BY <2>1, <2>2, <2>3, <2>4
<1>7. ASSUME NEW p \in found, NEW k \in same,
             r = Moved(t, p, (t.known \ {k}) \cup {confirmed(m)})
      PROVE  Fine(r, ans)
    <2>1. TablesType(r) /\ Placed(r)
        BY <1>2, <1>3, <1>4, <1>5, <1>7 DEF Placed
    <2>2. SocksDiffer(r)
        BY <1>2, <1>3, <1>4, <1>5, <1>7 DEF SocksDiffer
    <2>3. AllAnswered(r, ans)
        <3>1. \A l \in r.known : l \in t.known \/ (l.sock = s /\ l.mac = m)
            BY <1>4, <1>5, <1>7
        <3> QED
            BY <3>1 DEF AllAnswered
    <2>4. SocketTaken \/ PeersDiffer(r)
        BY <1>2, <1>3, <1>4, <1>5, <1>7 DEF PeersDiffer
    <2> QED
        BY <2>1, <2>2, <2>3, <2>4
<1> QED
    BY <1>1, <1>6, <1>7, <1>8, <1>9

(* The supernode is asked for a peer that is not known.                    *)
LEMMA QueryFine ==
    ASSUME IInv, NEW e \in Edges, NEW t, NEW ans, Fine(t, ans), NEW m \in Edges,
           SocketTaken \/ \A k \in t.known : k.mac # m
    PROVE  Fine(check_query_peer_info(e, t, m), ans)
<1> DEFINE r == check_query_peer_info(e, t, m)
           fresh == [mac |-> m, sock |-> NoSock, seen |-> 0, asked |-> QueryAge]
           peers == IF Named(t.pending, m) = {} THEN t.pending \cup {fresh} ELSE t.pending
           due == \E p \in Named(peers, m) : p.asked >= QueryAge
           asked(p) == IF p.mac = m /\ due THEN [p EXCEPT !.asked = 0] ELSE p
           out == IF due THEN t.out \cup {Relayed("REGISTER", e, m), PeerInfo(e, m)} ELSE t.out
<1> USE DEF Fine, TablesType
<1>1. /\ r.pending = {asked(p) : p \in peers} /\ r.known = t.known /\ r.out = out
      /\ r = [t EXCEPT !.pending = {asked(p) : p \in peers}, !.out = out]
    <2>1. r = [t EXCEPT !.pending = {asked(p) : p \in peers}, !.out = out]
        BY Zenon DEF check_query_peer_info
    <2> HIDE DEF r, peers, asked, out
    <2>2. r.pending = {asked(p) : p \in peers}
        BY <2>1
    <2>3. r.known = t.known
        BY <2>1
    <2>4. r.out = out
        BY <2>1
    <2> QED
        BY <2>1, <2>2, <2>3, <2>4
<1>2. /\ peers \in SUBSET Pending
      /\ \A p \in peers : p \in t.pending \/ (p.mac = m /\ p.sock = NoSock)
      /\ \A p, q \in peers : p.mac = q.mac => p = q \/ (p \in t.pending /\ q \in t.pending)
    BY AgesAreNat DEF Pending
<1>3. \A p \in Pending : asked(p) \in Pending /\ asked(p).mac = p.mac /\ asked(p).sock = p.sock
    <2> SUFFICES ASSUME NEW p \in Pending
                 PROVE  /\ [p EXCEPT !.asked = 0] \in Pending
                        /\ [p EXCEPT !.asked = 0].mac = p.mac
                        /\ [p EXCEPT !.asked = 0].sock = p.sock
        OBVIOUS
    <2> QED
        BY AgesAreNat DEF Pending
<1>4. out \in SUBSET Messages /\ IsFiniteSet(out) /\ \A n \in out : n.sock \in past[n.from]
    <2>1. /\ Relayed("REGISTER", e, m) \in Messages /\ PeerInfo(e, m) \in Messages
          /\ \A n \in {Relayed("REGISTER", e, m), PeerInfo(e, m)} : n.sock \in past[n.from]
        <3> Sockets # {}
            BY DEF IInv, TypeOK
        <3> QED
            BY MessageFine
    <2>2. t.out \in SUBSET Messages /\ IsFiniteSet(t.out) /\ \A n \in t.out : n.sock \in past[n.from]
        BY DEF Placed
    <2> QED
        BY <2>1, <2>2, SentFine
<1> HIDE DEF r, peers, due, asked, out
<1>8. r \in [pending : SUBSET Pending, known : SUBSET Known, out : SUBSET Messages]
    <2> DEFINE P == {asked(p) : p \in peers}
    <2>1. P \in SUBSET Pending
        BY <1>2, <1>3
    <2>2. t \in [pending : SUBSET Pending, known : SUBSET Known, out : SUBSET Messages]
        OBVIOUS
    <2>3. r = [t EXCEPT !.pending = P, !.out = out]
        BY <1>1
    <2> HIDE DEF P, Fine, TablesType
    <2> QED
        BY <1>4, <2>1, <2>2, <2>3
<1>5. TablesType(r) /\ Placed(r)
    <2>1. TablesType(r)
        BY <1>1, <1>4, <1>8
    <2>2. \A n \in r.out : n.sock \in past[n.from]
        BY <1>1, <1>4
    <2>3. ASSUME NEW p \in peers
          PROVE  asked(p).sock = NoSock \/ asked(p).sock \in past[asked(p).mac]
        <3>1. asked(p).mac = p.mac /\ asked(p).sock = p.sock
            BY <1>2, <1>3
        <3>2. p.sock = NoSock \/ p.sock \in past[p.mac]
            BY <1>2 DEF Placed
        <3> QED
            BY <3>1, <3>2
    <2> HIDE DEF Fine, TablesType
    <2>4. \A q \in r.pending : q.sock = NoSock \/ q.sock \in past[q.mac]
        BY <1>1, <2>3, Zenon
    <2> QED
        BY <2>1, <2>2, <2>4 DEF Placed
<1>6. SocketTaken \/ PeersDiffer(r)
    BY <1>1, <1>2, <1>3 DEF PeersDiffer
<1>7. Fine(r, ans)
    BY <1>1, <1>5, <1>6 DEF SocksDiffer, AllAnswered
<1> HIDE DEF Fine
<1> QED
    BY <1>7 DEF r

Sending(t, n) == [t EXCEPT !.out = @ \cup {n}]
Dropping(t, k) == [t EXCEPT !.known = @ \ {k}]

(* A message is sent.                                                      *)
LEMMA SendingFine ==
    ASSUME NEW t, NEW ans, Fine(t, ans), NEW n \in Messages, n.sock \in past[n.from]
    PROVE  Fine(Sending(t, n), ans) /\ Sending(t, n).known = t.known
<1> DEFINE r == Sending(t, n)
<1> USE DEF Fine, TablesType
<1>1. /\ r.pending = t.pending /\ r.known = t.known /\ r.out = t.out \cup {n}
      /\ r \in [pending : SUBSET Pending, known : SUBSET Known, out : SUBSET Messages]
    BY DEF Sending
<1>2. IsFiniteSet(r.out)
    BY <1>1, FS_AddElement
<1> HIDE DEF r
<1>3. Fine(r, ans)
    BY <1>1, <1>2 DEF Placed, SocksDiffer, AllAnswered, PeersDiffer
<1> HIDE DEF Fine
<1> QED
    BY <1>1, <1>3 DEF r

(* A known peer is dropped.                                                *)
LEMMA DroppingFine ==
    ASSUME NEW t, NEW ans, Fine(t, ans), NEW k
    PROVE  Fine(Dropping(t, k), ans) /\ Dropping(t, k).known = t.known \ {k}
<1> DEFINE r == Dropping(t, k)
<1> USE DEF Fine, TablesType
<1>1. /\ r.pending = t.pending /\ r.known = t.known \ {k} /\ r.out = t.out
      /\ r \in [pending : SUBSET Pending, known : SUBSET Known, out : SUBSET Messages]
    BY DEF Dropping
<1> HIDE DEF r
<1>3. Fine(r, ans)
    BY <1>1 DEF Placed, SocksDiffer, AllAnswered, PeersDiffer
<1> HIDE DEF Fine
<1> QED
    BY <1>1, <1>3 DEF r

(* A packet goes out.                                                      *)
LEMMA DestinationFine ==
    ASSUME IInv, NEW e \in Edges, NEW t, NEW ans, Fine(t, ans), NEW m \in Edges,
           NEW r \in find_peer_destination(e, t, m)
    PROVE  Fine(r, ans)
<1> DEFINE viaSn == Sending(t, Relayed("PACKET", e, m))
<1>1. /\ Relayed("PACKET", e, m) \in Messages
      /\ Relayed("PACKET", e, m).sock \in past[Relayed("PACKET", e, m).from]
    <2> Sockets # {}
        BY DEF IInv, TypeOK
    <2> QED
        BY MessageFine
<1>4. Fine(viaSn, ans) /\ viaSn.known = t.known
    BY <1>1, SendingFine
<1>2. CASE Named(t.known, m) = {}
    <2>1. r = check_query_peer_info(e, viaSn, m)
        BY <1>2 DEF find_peer_destination, Sending
    <2> HIDE DEF viaSn
    <2> QED
        BY <1>2, <1>4, <2>1, QueryFine
<1>3. CASE Named(t.known, m) # {}
    <2>1. PICK k \in Named(t.known, m) :
             r = IF k.p2p < IdleAge THEN Sending(t, Direct("PACKET", e, m, k.sock))
                 ELSE check_query_peer_info(e, Dropping(viaSn, k), m)
        BY <1>3 DEF find_peer_destination, Sending, Dropping
    <2>2. k.sock \in Sockets
        BY DEF Fine, TablesType, Known
    <2>3. CASE k.p2p < IdleAge
        <3>1. /\ Direct("PACKET", e, m, k.sock) \in Messages
              /\ Direct("PACKET", e, m, k.sock).sock \in past[e]
              /\ Direct("PACKET", e, m, k.sock).from = e
            BY <2>2, MessageFine
        <3> QED
            BY <2>1, <2>3, <3>1, SendingFine
    <2>4. CASE ~(k.p2p < IdleAge)
        <3> DEFINE q == Dropping(viaSn, k)
        <3> HIDE DEF viaSn
        <3>1. Fine(q, ans) /\ q.known = t.known \ {k}
            BY <1>4, DroppingFine
        <3>2. SocketTaken \/ \A l \in q.known : l.mac # m
            BY <3>1 DEF Fine, PeersDiffer
        <3>3. r = check_query_peer_info(e, q, m)
            BY <2>1, <2>4
        <3> HIDE DEF q
        <3> QED
            BY <3>1, <3>2, <3>3, QueryFine
    <2> QED
        BY <2>3, <2>4
<1> QED
    BY <1>2, <1>3

----------------------------------------------------------------------------
(* The steps.                                                              *)

(* What is in flight after a step was in flight before, or was sent.       *)
LEMMA NetFine ==
    ASSUME IInv, NEW before \in SUBSET net, NEW out \in SUBSET Messages, IsFiniteSet(out),
           InFlight(before, out)
    PROVE  /\ net' \subseteq net \cup out /\ net' \subseteq Messages /\ IsFiniteSet(net')
           /\ Cardinality(Bounded(net')) <= MaxNet
<1>1. net' \subseteq net \cup out
    BY DEF InFlight
<1>2. IsFiniteSet(net \cup out) /\ net \subseteq Messages
    BY FS_Union DEF IInv, TypeOK
<1>3. IsFiniteSet(net')
    BY <1>1, <1>2, FS_Subset
<1>4. IsFiniteSet(Bounded(net'))
    BY <1>3, FS_Subset DEF Bounded
<1>5. Cardinality(Bounded(net')) \in Nat
    BY <1>4, FS_CardinalityType
<1>6. Cardinality(Bounded(net')) = MaxNet \/ Cardinality(Bounded(net')) < MaxNet
    BY DEF InFlight
<1> QED
    BY <1>1, <1>2, <1>3, <1>5, <1>6, PeerAssumption

(* An edge e changes its tables to fine ones, and may be acknowledged.     *)
LEMMA BecomesFine ==
    ASSUME IInv, NEW e \in Edges, NEW t, NEW before \in SUBSET net, Becomes(e, t, before),
           UNCHANGED <<sn_wait, at, registered, moves, past>>,
           answered' \in [Edges -> SUBSET (Edges \X Sockets)],
           \A m \in Edges \ {e} : answered'[m] = answered[m],
           \A x \in answered'[e] : x[2] \in past[x[1]],
           Fine(t, answered'[e])
    PROVE  IInv'
<1>1. /\ pending' = [pending EXCEPT ![e] = t.pending]
      /\ known' = [known EXCEPT ![e] = t.known] /\ InFlight(before, t.out)
    BY DEF Becomes
<1>2. /\ t.pending \in SUBSET Pending /\ t.known \in SUBSET Known
      /\ t.out \in SUBSET Messages /\ IsFiniteSet(t.out)
    BY DEF Fine, TablesType
<1>3. /\ net' \subseteq net \cup t.out /\ net' \subseteq Messages /\ IsFiniteSet(net')
      /\ Cardinality(Bounded(net')) <= MaxNet
    BY <1>1, <1>2, NetFine
<1>4. TypeOK'
    BY <1>1, <1>2, <1>3 DEF IInv, TypeOK
<1>5. Whereabouts'
    <2>1. \A n \in net' : n.sock \in past[n.from]
        BY <1>3 DEF IInv, Whereabouts, Fine, Placed
    <2> QED
        BY <2>1 DEF IInv, Whereabouts
<1>6. ASSUME NEW m \in Edges PROVE Fine(TablesOf(m), answered[m])'
    <2>1. \E u : /\ Fine(u, answered'[m]) /\ u.pending = pending'[m] /\ u.known = known'[m]
        <3>1. CASE m = e
            BY <1>1, <3>1 DEF IInv, TypeOK
        <3>2. CASE m # e
            <4> DEFINE u == TablesOf(m)
            <4>1. Fine(u, answered[m])
                BY DEF IInv
            <4>2. u.pending = pending[m] /\ u.known = known[m]
                BY DEF TablesOf
            <4>3. pending'[m] = pending[m] /\ known'[m] = known[m]
                BY <1>1, <3>2 DEF IInv, TypeOK
            <4>4. answered'[m] = answered[m]
                BY <3>2
            <4> HIDE DEF u
            <4> QED
                BY <4>1, <4>2, <4>3, <4>4
        <3> QED
            BY <3>1, <3>2
    <2>2. PICK u : /\ Fine(u, answered'[m]) /\ u.pending = pending'[m] /\ u.known = known'[m]
        BY <2>1
    <2>3. TablesType(TablesOf(m))'
        BY <1>4, FS_EmptySet DEF TablesType, TablesOf, TypeOK
    <2>4. Placed(TablesOf(m))' /\ SocksDiffer(TablesOf(m))'
        BY <2>2 DEF Fine, Placed, SocksDiffer, TablesOf
    <2>5. AllAnswered(TablesOf(m), answered[m])'
        BY <2>2 DEF Fine, AllAnswered, TablesOf, SocketTaken
    <2>6. (SocketTaken \/ PeersDiffer(TablesOf(m)))'
        BY <2>2 DEF Fine, PeersDiffer, TablesOf, SocketTaken
    <2> QED
        BY <2>3, <2>4, <2>5, <2>6 DEF Fine
<1> QED
    BY <1>3, <1>4, <1>5, <1>6 DEF IInv

(* The initial state.                                                      *)
LEMMA InitFine == Init => IInv
<1> SUFFICES ASSUME Init PROVE IInv
    OBVIOUS
<1>1. TypeOK
    <2>1. Bounded(net) = {}
        BY DEF Init, Bounded
    <2>2. Cardinality(Bounded(net)) <= MaxNet
        BY <2>1, FS_EmptySet, PeerAssumption
    <2> QED
        BY <2>2, PeerAssumption DEF Init, TypeOK
<1>2. IsFiniteSet(net) /\ Whereabouts
    BY FS_EmptySet, PeerAssumption DEF Init, Whereabouts
<1>3. ASSUME NEW e \in Edges PROVE Fine(TablesOf(e), answered[e])
    BY FS_EmptySet DEF Init, Fine, TablesType, TablesOf, Placed, SocksDiffer, AllAnswered, PeersDiffer
<1> QED
    BY <1>1, <1>2, <1>3 DEF IInv

(* What is true of the acknowledgements when there are no more of them.    *)
LEMMA AnswersKept ==
    ASSUME IInv, NEW e \in Edges, UNCHANGED answered
    PROVE  /\ answered' \in [Edges -> SUBSET (Edges \X Sockets)]
           /\ \A m \in Edges \ {e} : answered'[m] = answered[m]
           /\ \A x \in answered'[e] : x[2] \in past[x[1]]
           /\ answered'[e] = answered[e]
BY DEF IInv, TypeOK, Whereabouts

LEMMA SendPacketFine ==
    ASSUME IInv, NEW e \in Edges, NEW m \in Edges, SendPacket(e, m)
    PROVE  IInv'
<1>1. PICK t \in find_peer_destination(e, TablesOf(e), m) : Becomes(e, t, net)
    BY DEF SendPacket
<1>2. Fine(t, answered[e])
    BY TablesFine, DestinationFine
<1>3. UNCHANGED <<sn_wait, at, registered, moves, past>> /\ UNCHANGED answered
    BY DEF SendPacket
<1>4. /\ answered' \in [Edges -> SUBSET (Edges \X Sockets)] /\ answered'[e] = answered[e]
      /\ \A l \in Edges \ {e} : answered'[l] = answered[l]
      /\ \A x \in answered'[e] : x[2] \in past[x[1]]
    BY <1>3, AnswersKept
<1>5. Fine(t, answered'[e]) /\ net \in SUBSET net
    BY <1>2, <1>4
<1> QED
    BY <1>1, <1>3, <1>4, <1>5, BecomesFine, Zenon

(* A message of the network.                                               *)
LEMMA InNetFine ==
    ASSUME IInv, NEW n \in net
    PROVE  /\ n.from \in Edges /\ n.to \in Edges /\ n.sock \in Sockets /\ n.dst \in Sockets
           /\ n.sn \in BOOLEAN /\ n.sock \in past[n.from] /\ Remaining(n) \subseteq SUBSET net
BY DEF IInv, TypeOK, Messages, Whereabouts, Remaining

LEMMA ReceivePacketFine ==
    ASSUME IInv, NEW e \in Edges, NEW n \in net, ReceivePacket(e, n)
    PROVE  IInv'
<1> DEFINE t == IF n.sn THEN TablesOf(e) ELSE find_and_remove_pending(TablesOf(e), n.from)
<1>1. PICK r \in check_peer_registration_needed(e, t, n.sn, n.from, n.sock), before \in Remaining(n) :
         Becomes(e, r, before)
    BY DEF ReceivePacket
<1>2. UNCHANGED <<sn_wait, at, registered, moves, past>> /\ UNCHANGED answered
    BY DEF ReceivePacket
<1>3. /\ answered' \in [Edges -> SUBSET (Edges \X Sockets)] /\ answered'[e] = answered[e]
      /\ \A l \in Edges \ {e} : answered'[l] = answered[l]
      /\ \A x \in answered'[e] : x[2] \in past[x[1]]
    BY <1>2, AnswersKept
<1>4. Fine(t, answered[e])
    BY TablesFine, RemovePendingFine, InNetFine
<1> HIDE DEF t
<1>5. Fine(r, answered'[e])
    <2>1. /\ n.sn \in BOOLEAN /\ n.from \in Edges /\ n.sock \in Sockets
          /\ n.sock \in past[n.from]
        BY InNetFine
    <2>2. Fine(t, answered'[e])
        BY <1>3, <1>4
    <2> QED
        BY <1>1, <1>3, <2>1, <2>2, CheckFine, Zenon
<1> QED
    <2>1. before \in SUBSET net
        BY InNetFine
    <2> QED
        BY <1>1, <1>2, <1>3, <1>5, <2>1, BecomesFine, Zenon

LEMMA ReceiveRegisterFine ==
    ASSUME IInv, NEW e \in Edges, NEW n \in net, ReceiveRegister(e, n)
    PROVE  IInv'
<1> DEFINE t == find_and_remove_pending(TablesOf(e), n.from)
           ack == Direct("ACK", e, n.from, n.sock)
           acked == [t EXCEPT !.out = {ack}]
           u == IF n.sn THEN TablesOf(e) ELSE acked
<1>1. PICK r \in check_peer_registration_needed(e, u, n.sn, n.from, n.sock), before \in Remaining(n) :
         Becomes(e, r, before)
    BY DEF ReceiveRegister
<1>2. UNCHANGED <<sn_wait, at, registered, moves, past>> /\ UNCHANGED answered
    BY DEF ReceiveRegister
<1>3. /\ answered' \in [Edges -> SUBSET (Edges \X Sockets)] /\ answered'[e] = answered[e]
      /\ \A l \in Edges \ {e} : answered'[l] = answered[l]
      /\ \A x \in answered'[e] : x[2] \in past[x[1]]
    BY <1>2, AnswersKept
<1>4. Fine(t, answered[e]) /\ t.out = {}
    BY TablesFine, RemovePendingFine, InNetFine
<1>5. ack \in Messages /\ ack.sock \in past[ack.from]
    BY InNetFine, MessageFine
<1> HIDE DEF t, ack
<1>6. acked = Sending(t, ack)
    BY <1>4 DEF Sending
<1> HIDE DEF acked
<1>7. Fine(u, answered[e])
    BY <1>4, <1>5, <1>6, SendingFine, TablesFine
<1> HIDE DEF u
<1>8. Fine(r, answered'[e])
    <2>1. /\ n.sn \in BOOLEAN /\ n.from \in Edges /\ n.sock \in Sockets
          /\ n.sock \in past[n.from]
        BY InNetFine
    <2>2. Fine(u, answered'[e])
        BY <1>3, <1>7
    <2> QED
        BY <1>1, <1>3, <2>1, <2>2, CheckFine, Zenon
<1> QED
    <2>1. before \in SUBSET net
        BY InNetFine
    <2> QED
        BY <1>1, <1>2, <1>3, <1>8, <2>1, BecomesFine, Zenon

LEMMA SkipRegisterFine ==
    ASSUME IInv, NEW e \in Edges, NEW n \in net, SkipRegister(e, n)
    PROVE  IInv'
<1>1. PICK before \in Remaining(n) : InFlight(before, {})
    BY DEF SkipRegister
<1>2. UNCHANGED <<sn_wait, at, registered, moves, past>> /\ UNCHANGED answered
      /\ UNCHANGED <<pending, known>>
    BY DEF SkipRegister, tables
<1>3. /\ answered' \in [Edges -> SUBSET (Edges \X Sockets)] /\ answered'[e] = answered[e]
      /\ \A l \in Edges \ {e} : answered'[l] = answered[l]
      /\ \A x \in answered'[e] : x[2] \in past[x[1]]
    BY <1>2, AnswersKept
<1>4. Becomes(e, TablesOf(e), before)
    BY <1>1, <1>2 DEF Becomes, TablesOf, IInv, TypeOK
<1>5. Fine(TablesOf(e), answered'[e]) /\ before \in SUBSET net
    BY <1>3, TablesFine, InNetFine
<1> QED
    BY <1>2, <1>3, <1>4, <1>5, BecomesFine

(* Only messages are sent.                                                 *)
LEMMA SafeguardFine ==
    ASSUME IInv, NEW e \in Edges, Safeguard(e)
    PROVE  IInv'
<1> DEFINE register == [x \in Edges \X Sockets |-> Direct("REGISTER", e, x[1], x[2])]
           all == {register[x] : x \in Edges \X Sockets}
           out == {Direct("REGISTER", e, k.mac, k.sock) : k \in {l \in known[e] : l.seen >= QueryAge}}
           t == [TablesOf(e) EXCEPT !.out = out]
<1>1. /\ UNCHANGED <<sn_wait, at, registered, moves, past>> /\ UNCHANGED answered
      /\ UNCHANGED <<pending, known>> /\ InFlight(net, out)
    BY DEF Safeguard, tables
<1>2. known[e] \subseteq Known
    BY DEF IInv, TypeOK
<1>3. \A k \in known[e] : k.mac \in Edges /\ k.sock \in Sockets
    BY <1>2 DEF Known
<1>9. \A k \in known[e] : /\ Direct("REGISTER", e, k.mac, k.sock) = register[<<k.mac, k.sock>>]
                          /\ <<k.mac, k.sock>> \in Edges \X Sockets
    BY <1>3
<1>4. IsFiniteSet(out)
    <2>1. IsFiniteSet(Edges \X Sockets)
        BY FS_Product, PeerAssumption
    <2>2. IsFiniteSet(all)
        <3>1. register \in Surjection(Edges \X Sockets, all)
            BY DEF Surjection
        <3> HIDE DEF register, all
        <3> QED
            BY <2>1, <3>1, FS_Surjection
    <2>3. out \subseteq all
        <3> HIDE DEF register
        <3> QED
            BY <1>9
    <2> HIDE DEF out, all
    <2> QED
        BY <2>2, <2>3, FS_Subset
<1>5. \A n \in out : n \in Messages /\ n.sock \in past[n.from]
    <2>1. ASSUME NEW k \in known[e]
          PROVE  /\ Direct("REGISTER", e, k.mac, k.sock) \in Messages
                 /\ Direct("REGISTER", e, k.mac, k.sock).sock \in past[e]
                 /\ Direct("REGISTER", e, k.mac, k.sock).from = e
        <3> HIDE DEF register, all, out, t
        <3> QED
            BY <1>3, MessageFine
    <2> QED
        BY <2>1
<1> HIDE DEF out
<1>6. Fine(t, answered[e])
    <2>1. Fine(TablesOf(e), answered[e])
        BY TablesFine
    <2>2. /\ t \in [pending : SUBSET Pending, known : SUBSET Known, out : SUBSET Messages]
          /\ t.pending = TablesOf(e).pending /\ t.known = TablesOf(e).known /\ t.out = out
        BY <1>5, <2>1 DEF Fine, TablesType
    <2> HIDE DEF t
    <2> QED
        BY <1>4, <1>5, <2>1, <2>2 DEF Fine, TablesType, Placed, SocksDiffer, AllAnswered, PeersDiffer
<1>7. Becomes(e, t, net)
    BY <1>1 DEF Becomes, TablesOf, IInv, TypeOK
<1>8. /\ answered' \in [Edges -> SUBSET (Edges \X Sockets)] /\ answered'[e] = answered[e]
      /\ \A l \in Edges \ {e} : answered'[l] = answered[l]
      /\ \A x \in answered'[e] : x[2] \in past[x[1]]
    BY <1>1, AnswersKept
<1> HIDE DEF t
<1> QED
    BY <1>1, <1>6, <1>7, <1>8, BecomesFine

(* More acknowledgements do no harm.                                       *)
LEMMA MoreAnswersFine ==
    ASSUME NEW t, NEW ans, Fine(t, ans), NEW more
    PROVE  Fine(t, ans \cup more)
BY DEF Fine, AllAnswered

LEMMA ReceiveAckFine ==
    ASSUME IInv, NEW e \in Edges, NEW n \in net, ReceiveAck(e, n)
    PROVE  IInv'
<1>1. PICK t \in peer_set_p2p_confirmed(TablesOf(e), n.from, n.sock), before \in Remaining(n) :
         Becomes(e, t, before)
    BY DEF ReceiveAck
<1>2. UNCHANGED <<sn_wait, at, registered, moves, past>>
    BY DEF ReceiveAck
<1>3. answered' = [answered EXCEPT ![e] = @ \cup {<<n.from, n.sock>>}]
    BY DEF ReceiveAck
<1>4. /\ n.from \in Edges /\ n.sock \in Sockets /\ n.sock \in past[n.from]
      /\ before \in SUBSET net
    BY InNetFine
<1>5. /\ answered' \in [Edges -> SUBSET (Edges \X Sockets)]
      /\ \A m \in Edges \ {e} : answered'[m] = answered[m]
      /\ answered'[e] = answered[e] \cup {<<n.from, n.sock>>}
    BY <1>3, <1>4 DEF IInv, TypeOK
<1>6. \A x \in answered'[e] : x[2] \in past[x[1]]
    BY <1>4, <1>5 DEF IInv, Whereabouts
<1>7. Fine(TablesOf(e), answered'[e])
    <2>1. Fine(TablesOf(e), answered[e] \cup {<<n.from, n.sock>>})
        BY TablesFine, MoreAnswersFine
    <2> QED
        BY <1>5, <2>1, Zenon
<1>8. Fine(t, answered'[e])
    <2>1. <<n.from, n.sock>> \in answered'[e]
        BY <1>5
    <2> QED
        BY <1>1, <1>4, <1>6, <1>7, <2>1, ConfirmedFine
<1> QED
    BY <1>1, <1>2, <1>4, <1>5, <1>6, <1>8, BecomesFine

LEMMA ReceivePeerInfoFine ==
    ASSUME IInv, NEW e \in Edges, NEW n \in net, ReceivePeerInfo(e, n)
    PROVE  IInv'
<1> DEFINE t == TablesOf(e)
           moved(p) == IF p.mac = n.from THEN [p EXCEPT !.sock = n.sock] ELSE p
           P == {moved(p) : p \in t.pending}
           ask == Direct("REGISTER", e, n.from, n.sock)
           out == IF Named(t.pending, n.from) = {} THEN {} ELSE {ask}
           told == [t EXCEPT !.pending = P, !.out = out]
<1>1. PICK before \in Remaining(n) : Becomes(e, told, before)
    BY DEF ReceivePeerInfo
<1>2. UNCHANGED <<sn_wait, at, registered, moves, past>> /\ UNCHANGED answered
    BY DEF ReceivePeerInfo
<1>3. /\ answered' \in [Edges -> SUBSET (Edges \X Sockets)] /\ answered'[e] = answered[e]
      /\ \A l \in Edges \ {e} : answered'[l] = answered[l]
      /\ \A x \in answered'[e] : x[2] \in past[x[1]]
    BY <1>2, AnswersKept
<1>4. /\ n.from \in Edges /\ n.sock \in Sockets /\ n.sock \in past[n.from]
      /\ before \in SUBSET net
    BY InNetFine
<1>5. Fine(t, answered[e])
    BY TablesFine
<1> HIDE DEF t
<1>6. /\ t \in [pending : SUBSET Pending, known : SUBSET Known, out : SUBSET Messages]
      /\ Placed(t) /\ SocksDiffer(t) /\ AllAnswered(t, answered[e])
      /\ SocketTaken \/ PeersDiffer(t)
    BY <1>5 DEF Fine, TablesType
<1>7. \A p \in Pending : /\ moved(p) \in Pending /\ moved(p).mac = p.mac
                         /\ moved(p).sock = IF p.mac = n.from THEN n.sock ELSE p.sock
    <2> SUFFICES ASSUME NEW p \in Pending
                 PROVE  /\ [p EXCEPT !.sock = n.sock] \in Pending
                        /\ [p EXCEPT !.sock = n.sock].mac = p.mac
                        /\ [p EXCEPT !.sock = n.sock].sock = n.sock
        OBVIOUS
    <2> QED
        BY <1>4 DEF Pending
<1>8. out \in SUBSET Messages /\ IsFiniteSet(out) /\ \A x \in out : x.sock \in past[x.from]
    <2>1. ask \in Messages /\ ask.sock \in past[ask.from]
        BY <1>4, MessageFine
    <2> HIDE DEF ask
    <2>2. IsFiniteSet({ask}) /\ IsFiniteSet({})
        BY FS_Singleton, FS_EmptySet
    <2> QED
        BY <2>1, <2>2
<1> HIDE DEF out, moved
<1>9. P \in SUBSET Pending
    BY <1>6, <1>7
<1>10. /\ told.pending = P /\ told.out = out /\ told.known = t.known
       /\ told \in [pending : SUBSET Pending, known : SUBSET Known, out : SUBSET Messages]
    <2> HIDE DEF P
    <2>1. told.pending = P
        BY <1>6
    <2>2. told.out = out
        BY <1>6
    <2>3. told.known = t.known
        BY <1>6
    <2>4. told \in [pending : SUBSET Pending, known : SUBSET Known, out : SUBSET Messages]
        BY <1>6, <1>8, <1>9
    <2> QED
        BY <2>1, <2>2, <2>3, <2>4
<1> HIDE DEF told
<1>11. TablesType(told)
    BY <1>8, <1>10 DEF TablesType
<1>12. Placed(told)
    <2>1. \A q \in told.pending : \E p \in t.pending : q = moved(p)
        BY <1>10
    <2>2. \A q \in told.pending : q.sock = NoSock \/ q.sock \in past[q.mac]
        BY <1>4, <1>6, <1>7, <2>1 DEF Placed
    <2> QED
        BY <1>8, <1>10, <2>2 DEF Placed
<1>13. SocketTaken \/ PeersDiffer(told)
    <2> SUFFICES ASSUME PeersDiffer(t) PROVE PeersDiffer(told)
        BY <1>6
    <2>1. \A p, q \in t.pending : moved(p).mac = moved(q).mac => moved(p) = moved(q)
        BY <1>6, <1>7 DEF PeersDiffer
    <2>2. \A p \in t.pending, k \in t.known : moved(p).mac # k.mac
        BY <1>6, <1>7 DEF PeersDiffer
    <2> QED
        BY <1>10, <2>1, <2>2 DEF PeersDiffer
<1>14. Fine(told, answered'[e])
    BY <1>3, <1>6, <1>10, <1>11, <1>12, <1>13 DEF Fine, SocksDiffer, AllAnswered
<1> QED
    BY <1>1, <1>2, <1>3, <1>4, <1>14, BecomesFine

(* Entries are purged, or grow older: none appears, none changes its MAC   *)
(* address or its socket.                                                  *)
LEMMA SameEntriesFine ==
    ASSUME IInv, UNCHANGED <<sn_wait, at, registered, net, moves, past, answered>>,
           pending' \in [Edges -> SUBSET Pending], known' \in [Edges -> SUBSET Known],
           NEW P \in [Pending -> Pending], NEW K \in [Known -> Known],
           \A p \in Pending : P[p].mac = p.mac /\ P[p].sock = p.sock,
           \A k \in Known : K[k].mac = k.mac /\ K[k].sock = k.sock,
           \A e \in Edges : \A q \in pending'[e] : \E p \in pending[e] : q = P[p],
           \A e \in Edges : \A l \in known'[e] : \E k \in known[e] : l = K[k]
    PROVE  IInv'
<1>1. TypeOK' /\ IsFiniteSet(net)' /\ Whereabouts'
    BY DEF IInv, TypeOK, Whereabouts, Bounded
<1>2. ASSUME NEW e \in Edges PROVE Fine(TablesOf(e), answered[e])'
    <2>1. Fine(TablesOf(e), answered[e])
        BY DEF IInv
    <2>2. pending[e] \subseteq Pending /\ known[e] \subseteq Known
        BY DEF IInv, TypeOK
    <2>3. TablesType(TablesOf(e))'
        BY FS_EmptySet DEF TablesType, TablesOf
    <2>4. Placed(TablesOf(e))'
        BY <2>1, <2>2 DEF Fine, Placed, TablesOf
    <2>5. SocksDiffer(TablesOf(e))'
        BY <2>1, <2>2 DEF Fine, SocksDiffer, TablesOf
    <2>6. AllAnswered(TablesOf(e), answered[e])'
        <3>1. ASSUME NEW l \in known'[e]
              PROVE  /\ \E m \in Edges : <<m, l.sock>> \in answered[e]
                     /\ SocketTaken \/ <<l.mac, l.sock>> \in answered[e]
            <4>1. PICK k \in known[e] : l = K[k]
                OBVIOUS
            <4>2. l.mac = k.mac /\ l.sock = k.sock
                BY <2>2, <4>1
            <4> QED
                BY <2>1, <4>2 DEF Fine, AllAnswered, TablesOf
        <3> QED
            BY <3>1 DEF AllAnswered, TablesOf, SocketTaken
    <2>7. (SocketTaken \/ PeersDiffer(TablesOf(e)))'
        <3> SUFFICES ASSUME PeersDiffer(TablesOf(e)) PROVE PeersDiffer(TablesOf(e))'
            BY <2>1 DEF Fine, SocketTaken
        <3>1. /\ \A p \in pending[e] : P[p].mac = p.mac
              /\ \A k \in known[e] : K[k].mac = k.mac
            BY <2>2
        <3> QED
            BY <3>1 DEF PeersDiffer, TablesOf
    <2> QED
        BY <2>3, <2>4, <2>5, <2>6, <2>7 DEF Fine
<1> QED
    BY <1>1, <1>2 DEF IInv

LEMMA PurgeFine ==
    ASSUME IInv, NEW e \in Edges,
           PurgePending(e) \/ PurgeKnown(e) \/ \E m \in Edges : ReceiveNak(e, m)
    PROVE  IInv'
<1> DEFINE P == [p \in Pending |-> p]
           K == [k \in Known |-> k]
<1>1. UNCHANGED <<sn_wait, at, registered, net, moves, past, answered>>
    BY DEF PurgePending, PurgeKnown, ReceiveNak
<1>6. pending \in [Edges -> SUBSET Pending] /\ known \in [Edges -> SUBSET Known]
    BY DEF IInv, TypeOK
<1>2. /\ pending' \in [Edges -> SUBSET Pending] /\ known' \in [Edges -> SUBSET Known]
      /\ \A m \in Edges : pending'[m] \subseteq pending[m] /\ known'[m] \subseteq known[m]
    <2>1. CASE PurgePending(e) \/ PurgeKnown(e)
        BY <1>6, <2>1 DEF PurgePending, PurgeKnown
    <2>2. ASSUME NEW m \in Edges, ReceiveNak(e, m)
          PROVE  \E k, p : /\ k \subseteq known[e] /\ p \subseteq pending[e]
                           /\ known' = [known EXCEPT ![e] = k]
                           /\ pending' = [pending EXCEPT ![e] = p]
        <3>1. PICK k \in Dropped(known[e], m) : known' = [known EXCEPT ![e] = k]
            BY <2>2 DEF ReceiveNak
        <3>2. PICK p \in Dropped(pending[e], m) : pending' = [pending EXCEPT ![e] = p]
            BY <2>2 DEF ReceiveNak
        <3>3. k \subseteq known[e]
            BY <3>1 DEF Dropped
        <3>4. p \subseteq pending[e]
            BY <3>2 DEF Dropped
        <3> QED
            BY <3>1, <3>2, <3>3, <3>4
    <2> QED
        BY <1>6, <2>1, <2>2
<1>3. \A m \in Edges : pending[m] \subseteq Pending /\ known[m] \subseteq Known
    BY DEF IInv, TypeOK
<1>4. /\ \A m \in Edges : \A q \in pending'[m] : \E p \in pending[m] : q = P[p]
      /\ \A m \in Edges : \A l \in known'[m] : \E k \in known[m] : l = K[k]
    BY <1>2, <1>3
<1>5. /\ P \in [Pending -> Pending] /\ K \in [Known -> Known]
      /\ \A p \in Pending : P[p].mac = p.mac /\ P[p].sock = p.sock
      /\ \A k \in Known : K[k].mac = k.mac /\ K[k].sock = k.sock
    OBVIOUS
<1> HIDE DEF P, K
<1> QED
    BY <1>1, <1>2, <1>4, <1>5, SameEntriesFine

LEMMA TickFine ==
    ASSUME IInv, Tick
    PROVE  IInv'
<1> DEFINE olderP(p) == [p EXCEPT !.seen = Older(@, ExpireAge), !.asked = Older(@, QueryAge)]
           olderK(k) == [k EXCEPT !.seen = Older(@, ExpireAge), !.p2p = Older(@, IdleAge)]
           P == [p \in Pending |-> olderP(p)]
           K == [k \in Known |-> olderK(k)]
<1>1. /\ UNCHANGED <<sn_wait, at, registered, net, moves, past, answered>>
      /\ pending' = [e \in Edges |-> {olderP(p) : p \in pending[e]}]
      /\ known' = [e \in Edges |-> {olderK(k) : k \in known[e]}]
    BY DEF Tick
<1>2. \A p \in Pending : olderP(p) \in Pending /\ olderP(p).mac = p.mac /\ olderP(p).sock = p.sock
    <2> SUFFICES ASSUME NEW p \in Pending
                 PROVE  olderP(p) \in Pending /\ olderP(p).mac = p.mac /\ olderP(p).sock = p.sock
        OBVIOUS
    <2>1. Older(p.seen, ExpireAge) \in 0 .. ExpireAge /\ Older(p.asked, QueryAge) \in 0 .. QueryAge
        BY AgesAreNat DEF Pending, Older
    <2>2. olderP(p) \in Pending
        BY <2>1, Zenon DEF Pending
    <2>3. olderP(p).mac = p.mac
        BY DEF Pending
    <2>4. olderP(p).sock = p.sock
        BY DEF Pending
    <2> QED
        BY <2>2, <2>3, <2>4
<1>3. \A k \in Known : olderK(k) \in Known /\ olderK(k).mac = k.mac /\ olderK(k).sock = k.sock
    <2> SUFFICES ASSUME NEW k \in Known
                 PROVE  olderK(k) \in Known /\ olderK(k).mac = k.mac /\ olderK(k).sock = k.sock
        OBVIOUS
    <2>1. Older(k.seen, ExpireAge) \in 0 .. ExpireAge /\ Older(k.p2p, IdleAge) \in 0 .. IdleAge
        BY AgesAreNat DEF Known, Older
    <2>2. olderK(k) \in Known
        BY <2>1, Zenon DEF Known
    <2>3. olderK(k).mac = k.mac
        BY DEF Known
    <2>4. olderK(k).sock = k.sock
        BY DEF Known
    <2> QED
        BY <2>2, <2>3, <2>4
<1>4. \A e \in Edges : pending[e] \subseteq Pending /\ known[e] \subseteq Known
    BY DEF IInv, TypeOK
<1> HIDE DEF olderP, olderK
<1>5. /\ P \in [Pending -> Pending] /\ K \in [Known -> Known]
      /\ \A p \in Pending : P[p].mac = p.mac /\ P[p].sock = p.sock
      /\ \A k \in Known : K[k].mac = k.mac /\ K[k].sock = k.sock
    BY <1>2, <1>3
<1>6. pending' \in [Edges -> SUBSET Pending] /\ known' \in [Edges -> SUBSET Known]
    BY <1>1, <1>2, <1>3, <1>4
<1>7. /\ \A e \in Edges : \A q \in pending'[e] : \E p \in pending[e] : q = P[p]
      /\ \A e \in Edges : \A l \in known'[e] : \E k \in known[e] : l = K[k]
    BY <1>1, <1>4
<1> HIDE DEF P, K
<1> QED
    BY <1>1, <1>5, <1>6, <1>7, SameEntriesFine

(* What was answered is answered, and where an edge was it was, ever after.*)
LEMMA MoveFine ==
    ASSUME IInv, NEW e \in Edges, NEW s \in Sockets, Move(e, s)
    PROVE  IInv'
<1>1. /\ at' = [at EXCEPT ![e] = s] /\ past' = [past EXCEPT ![e] = @ \cup {s}]
      /\ net' \subseteq net /\ moves' = moves + 1 /\ moves < MaxMoves
      /\ UNCHANGED <<pending, known, sn_wait, registered, answered>>
    BY DEF Move, tables
<1>2. /\ past' \in [Edges -> SUBSET Sockets] /\ at' \in [Edges -> Sockets]
      /\ \A m \in Edges : past[m] \subseteq past'[m] /\ at'[m] \in past'[m]
    BY <1>1 DEF IInv, TypeOK, Whereabouts
<1>3. IsFiniteSet(net') /\ IsFiniteSet(net)
    BY <1>1, FS_Subset DEF IInv
<1>4. Cardinality(Bounded(net')) <= MaxNet
    <2>1. IsFiniteSet(Bounded(net)) /\ Bounded(net') \subseteq Bounded(net)
        BY <1>1, <1>3, FS_Subset DEF Bounded
    <2>2. Cardinality(Bounded(net')) <= Cardinality(Bounded(net))
        BY <2>1, FS_Subset
    <2>3. /\ Cardinality(Bounded(net')) \in Nat /\ Cardinality(Bounded(net)) \in Nat
        BY <2>1, FS_Subset, FS_CardinalityType
    <2>4. Cardinality(Bounded(net)) <= MaxNet
        BY DEF IInv, TypeOK
    <2> QED
        BY <2>2, <2>3, <2>4, PeerAssumption
<1>5. moves' \in 0 .. MaxMoves
    BY <1>1, PeerAssumption DEF IInv, TypeOK
<1>6. TypeOK'
    BY <1>1, <1>2, <1>4, <1>5 DEF IInv, TypeOK
<1>7. Whereabouts'
    <2>1. \A n \in net' : n.sock \in past'[n.from]
        BY <1>1, <1>2 DEF IInv, TypeOK, Messages, Whereabouts
    <2>2. \A m \in Edges : registered'[m] \in past'[m]
        BY <1>1, <1>2 DEF IInv, Whereabouts
    <2>3. \A m \in Edges : \A x \in answered'[m] : x[2] \in past'[x[1]]
        BY <1>1, <1>2 DEF IInv, TypeOK, Whereabouts
    <2> QED
        BY <1>2, <2>1, <2>2, <2>3 DEF Whereabouts
<1>8. SocketTaken => SocketTaken'
    BY <1>2 DEF SocketTaken
<1>9. ASSUME NEW m \in Edges PROVE Fine(TablesOf(m), answered[m])'
    <2>1. Fine(TablesOf(m), answered[m])
        BY DEF IInv
    <2>2. TablesType(TablesOf(m))'
        BY <1>6, FS_EmptySet DEF TablesType, TablesOf, TypeOK
    <2>3. Placed(TablesOf(m))'
        <3>1. pending[m] \subseteq Pending
            BY DEF IInv, TypeOK
        <3>2. \A p \in pending[m] : p.mac \in Edges /\ (p.sock = NoSock \/ p.sock \in past[p.mac])
            BY <2>1, <3>1 DEF Fine, Placed, TablesOf, Pending
        <3> QED
            BY <1>1, <1>2, <3>2 DEF Placed, TablesOf
    <2>4. SocksDiffer(TablesOf(m))'
        BY <1>1, <2>1 DEF Fine, SocksDiffer, TablesOf
    <2>5. AllAnswered(TablesOf(m), answered[m])'
        BY <1>1, <1>8, <2>1 DEF Fine, AllAnswered, TablesOf
    <2>6. (SocketTaken \/ PeersDiffer(TablesOf(m)))'
        BY <1>1, <1>8, <2>1 DEF Fine, PeersDiffer, TablesOf
    <2> QED
        BY <2>2, <2>3, <2>4, <2>5, <2>6 DEF Fine
<1> QED
    BY <1>3, <1>6, <1>7, <1>9 DEF IInv

(* Registering again, and losing or finding the supernode.                 *)
LEMMA SupernodeFine ==
    ASSUME IInv, NEW e \in Edges, Reregister(e) \/ Outage(e)
    PROVE  IInv'
<1>1. /\ UNCHANGED <<pending, known, at, net, moves, past, answered>>
      /\ registered' \in [Edges -> Sockets] /\ sn_wait' \in [Edges -> BOOLEAN]
      /\ \A m \in Edges : registered'[m] \in past[m]
    BY DEF Reregister, Outage, tables, IInv, TypeOK, Whereabouts
<1>2. TypeOK' /\ IsFiniteSet(net)' /\ Whereabouts'
    BY <1>1 DEF IInv, TypeOK, Whereabouts, Bounded
<1>3. ASSUME NEW m \in Edges PROVE Fine(TablesOf(m), answered[m])'
    <2>1. Fine(TablesOf(m), answered[m])
        BY DEF IInv
    <2>2. TablesOf(m)' = TablesOf(m) /\ answered'[m] = answered[m] /\ past' = past
        BY <1>1 DEF TablesOf
    <2>3. TablesType(TablesOf(m))' /\ Placed(TablesOf(m))' /\ SocksDiffer(TablesOf(m))'
        BY <2>1, <2>2 DEF Fine, TablesType, Placed, SocksDiffer
    <2>4. SocketTaken' = SocketTaken
        BY <2>2 DEF SocketTaken
    <2>5. AllAnswered(TablesOf(m), answered[m])' /\ (SocketTaken \/ PeersDiffer(TablesOf(m)))'
        BY <2>1, <2>2, <2>4 DEF Fine, AllAnswered, PeersDiffer
    <2> QED
        BY <2>3, <2>5 DEF Fine
<1> QED
    BY <1>2, <1>3 DEF IInv

LEMMA StepFine == IInv /\ [Next]_vars => IInv'
<1> SUFFICES ASSUME IInv, [Next]_vars PROVE IInv'
    OBVIOUS
<1>1. CASE Tick
    BY <1>1, TickFine
<1>2. ASSUME NEW e \in Edges, NEW m \in Edges, SendPacket(e, m) PROVE IInv'
    BY <1>2, SendPacketFine
<1>3. ASSUME NEW e \in Edges, NEW n \in net, Receive(e, n) PROVE IInv'
    BY <1>3, ReceivePacketFine, ReceiveRegisterFine, SkipRegisterFine, ReceiveAckFine,
       ReceivePeerInfoFine DEF Receive
<1>4. ASSUME NEW e \in Edges,
             PurgePending(e) \/ PurgeKnown(e) \/ \E m \in Edges : ReceiveNak(e, m)
      PROVE  IInv'
    BY <1>4, PurgeFine
<1>8. ASSUME NEW e \in Edges, Safeguard(e) PROVE IInv'
    BY <1>8, SafeguardFine
<1>5. ASSUME NEW e \in Edges, NEW s \in Sockets, Move(e, s) PROVE IInv'
    BY <1>5, MoveFine
<1>6. ASSUME NEW e \in Edges, Reregister(e) \/ Outage(e) PROVE IInv'
    BY <1>6, SupernodeFine
<1>7. CASE UNCHANGED vars
    <2>1. /\ TypeOK' /\ IsFiniteSet(net)' /\ Whereabouts'
        BY <1>7 DEF vars, tables, IInv, TypeOK, Whereabouts, Bounded
    <2>2. ASSUME NEW e \in Edges PROVE Fine(TablesOf(e), answered[e])'
        <3>1. Fine(TablesOf(e), answered[e])
            BY DEF IInv
        <3> QED
            BY <1>7, <3>1 DEF vars, tables, Fine, TablesType, TablesOf, Placed, SocksDiffer,
               AllAnswered, PeersDiffer, SocketTaken
    <2> QED
        BY <2>1, <2>2 DEF IInv
<1> QED
    BY <1>1, <1>2, <1>3, <1>4, <1>5, <1>6, <1>7, <1>8 DEF Next

(* The type invariant, which says among the rest that at most MaxNet       *)
(* messages, of those that may be lost, are in flight.                     *)
THEOREM TypeCorrect == Spec => []TypeOK
<1>1. IInv => TypeOK
    BY DEF IInv
<1> QED
    BY <1>1, InitFine, StepFine, PTL DEF Spec

(* No edge has two entries of known_peers for one socket, whatever the     *)
(* other edges and the network do.                                         *)
THEOREM SocketsUnique == Spec => []OneEntryPerSocket
<1>1. IInv => OneEntryPerSocket
    <2> SUFFICES ASSUME IInv, NEW e \in Edges
                 PROVE  \A k, l \in known[e] : k.sock = l.sock => k = l
        BY DEF OneEntryPerSocket
    <2> QED
        BY TablesFine DEF Fine, SocksDiffer, TablesOf
<1> QED
    BY <1>1, InitFine, StepFine, PTL DEF Spec

(* As long as no edge comes to a socket of another one, an edge has one    *)
(* entry for a MAC address in pending_peers and known_peers together.      *)
THEOREM PeersUnique == Spec => []OneEntryPerPeer
<1>1. IInv => OneEntryPerPeer
    <2> SUFFICES ASSUME IInv, ~SocketTaken, NEW e \in Edges
                 PROVE  /\ \A p \in pending[e] : \A k \in known[e] : p.mac # k.mac
                        /\ \A k, l \in known[e] : k.mac = l.mac => k = l
                        /\ \A p, q \in pending[e] : p.mac = q.mac => p = q
        BY DEF OneEntryPerPeer
    <2>1. Fine(TablesOf(e), answered[e])
        BY TablesFine
    <2>2. PeersDiffer(TablesOf(e))
        BY <2>1 DEF Fine
    <2> QED
        BY <2>2 DEF PeersDiffer, TablesOf
<1> QED
    BY <1>1, InitFine, StepFine, PTL DEF Spec

(* A known peer is at a socket from which an acknowledgement came, of that *)
(* very peer unless sockets change hands.                                  *)
THEOREM DirectIsConfirmed == Spec => []DirectOnlyWhereAnswered
<1>1. IInv => DirectOnlyWhereAnswered
    <2> SUFFICES ASSUME IInv, NEW e \in Edges, NEW k \in known[e]
                 PROVE  /\ \E m \in Edges : <<m, k.sock>> \in answered[e]
                        /\ SocketTaken \/ <<k.mac, k.sock>> \in answered[e]
        BY DEF DirectOnlyWhereAnswered
    <2>1. AllAnswered(TablesOf(e), answered[e])
        BY TablesFine DEF Fine
    <2> QED
        BY <2>1 DEF AllAnswered, TablesOf
<1> QED
    BY <1>1, InitFine, StepFine, PTL DEF Spec

=============================================================================
