-------------------------- MODULE Supernode_proofs --------------------------
(***************************************************************************)
(* A federation of any size, any number of edges and addresses, and any    *)
(* number of messages in flight: TypeOK and OwnersOnly are invariants of   *)
(* Supernode, and so is AddressesDiffer.                                   *)
(***************************************************************************)
EXTENDS Supernode, SequenceTheorems, WellFoundedInduction, TLAPS

\* What an edge has is its own.
OwnThings == \A e \in Edges : edge[e].sock \in {e} \X Nat /\ edge[e].auth \in {e} \X Nat

\* A table has at most one entry for each MAC address, and for each IP address.
Keyed(es) == \A x, y \in es : x.mac = y.mac \/ x.addr = y.addr => x = y

OneEntryPerKey == \A s \in Sns : Keyed(edges[s])

IInv == TypeOK /\ OwnThings /\ OwnersOnly /\ OneEntryPerKey

\* A set of natural numbers has a least element.
LEMMA Least ==
    ASSUME NEW T, T \subseteq Nat, T # {}
    PROVE  \E i \in T : \A j \in T : i <= j
<1>1. PICK i \in T : \A j \in T : <<j, i>> \notin OpToRel(<, Nat)
  BY NatLessThanWellFounded, WFMin
<1>2. \A j \in T : ~ (j < i)
  BY <1>1 DEF OpToRel
<1> QED BY <1>2

\* What a message of each type carries.
LEMMA MessageFields ==
    ASSUME NEW m \in Messages
    PROVE  /\ m.from \in Sns /\ m.to \in Sns /\ m.mac \in Edges
           /\ m.type = "REGISTER_SUPER" => m.addr \in Hosts /\ m.auth \in Numbered
           /\ m.type \in {"QUERY_PEER", "PEER_INFO"} => m.asker \in Edges
BY DEF Messages

\* An entry that is refreshed is an entry, and one that its owner registered.
LEMMA RefreshedEntry ==
    ASSUME NEW x \in Entry, NEW r, r.mac \in Edges, NEW sock \in Numbered \cup Sns
    PROVE  Refreshed(x, r, sock) \in Entry
BY DEF Refreshed, Entry

\* What update_edge makes of a table is a table.
LEMMA UpdatedTable ==
    ASSUME NEW es \in SUBSET Entry, NEW r, NEW sock \in Numbered \cup Sns,
           NEW skip_add \in BOOLEAN, NEW u \in update_edge(es, r, sock, skip_add),
           r.mac \in Edges, r.addr \in Hosts, r.auth \in Numbered
    PROVE  u.edges \in SUBSET Entry
<1>1. NewEntry(r, sock) \in Entry
  BY DEF NewEntry, Entry
<1>2. Known(es, r) \subseteq es
  BY DEF Known, WithMac, WithAddr
<1>3. CASE Known(es, r) = {}
  BY <1>1, <1>3 DEF update_edge
<1>4. CASE Known(es, r) # {}
  <2>1. PICK x \in Known(es, r) : u.edges = (es \ {x}) \cup {Refreshed(x, r, sock)}
    BY <1>4 DEF update_edge
  <2>2. Refreshed(x, r, sock) \in Entry
    BY <1>2, RefreshedEntry
  <2> QED BY <2>1, <2>2
<1> QED BY <1>3, <1>4

\* It keeps the table keyed: an entry is added only if neither of its addresses is there,
\* and one that is found by its IP address gets the MAC address only if no entry has it.
LEMMA UpdatedKeys ==
    ASSUME NEW es \in SUBSET Entry, Keyed(es), NEW r, NEW sock,
           NEW skip_add \in BOOLEAN, NEW u \in update_edge(es, r, sock, skip_add)
    PROVE  Keyed(u.edges)
<1>1. CASE Known(es, r) = {}
  <2>1. NewEntry(r, sock).mac = r.mac /\ NewEntry(r, sock).addr = r.addr
    BY DEF NewEntry
  <2>2. \A x \in es : x.mac # r.mac /\ x.addr # r.addr
    BY <1>1 DEF Known, WithMac, WithAddr
  <2>3. u.edges = es \/ u.edges = es \cup {NewEntry(r, sock)}
    BY <1>1 DEF update_edge
  <2> QED BY <2>1, <2>2, <2>3 DEF Keyed
<1>2. CASE Known(es, r) # {}
  <2>1. PICK x \in Known(es, r) : u.edges = (es \ {x}) \cup {Refreshed(x, r, sock)}
    BY <1>2 DEF update_edge
  <2>2. /\ x \in es
        /\ x.mac = r.mac \/ \A y \in es : y.mac # r.mac
    BY DEF Known, WithMac, WithAddr
  <2>3. Refreshed(x, r, sock).mac = r.mac /\ Refreshed(x, r, sock).addr = x.addr
    BY <2>2 DEF Refreshed, Entry
  <2>4. \A y \in es \ {x} : y.mac # r.mac /\ y.addr # x.addr
    BY <2>2 DEF Keyed
  <2> QED BY <2>1, <2>3, <2>4 DEF Keyed
<1> QED BY <1>1, <1>2

\* The associations with one more are a list of associations.
LEMMA UpdatedAssociations ==
    ASSUME NEW q \in Seq(Assoc), NEW mac \in Edges, NEW s \in Sns
    PROVE  update_node_supernode_association(q, mac, s) \in Seq(Assoc)
<1> DEFINE a == [mac |-> mac, sn |-> s, seen |-> 0]
<1>1. a \in Assoc
  BY DEF Assoc
<1> HIDE DEF a
<1>2. Append(q, a) \in Seq(Assoc)
  BY <1>1
<1> QED BY <1>2 DEF update_node_supernode_association, a

\* What a purge leaves of the associations is a list of associations.
LEMMA PurgedAssociations == ASSUME NEW q \in Seq(Assoc) PROVE Remaining(q) \in Seq(Assoc)
<1> DEFINE kept == {i \in DOMAIN q : q[i].seen <= AssocAge}
           k == CHOOSE i \in kept : \A j \in kept : i <= j
<1>1. CASE kept = {}
  BY <1>1 DEF Remaining
<1>2. CASE kept # {}
  <2>1. k \in kept
    <3>1. kept \subseteq Nat
      <4>1. DOMAIN q = 1 .. Len(q)
        OBVIOUS
      <4> QED BY <4>1
    <3> HIDE DEF kept
    <3> QED BY <3>1, <1>2, Least
  <2>2. Remaining(q) = SubSeq(q, k, Len(q))
    BY <1>2 DEF Remaining
  <2>3. k \in 1 .. Len(q)
    BY <2>1
  <2> HIDE DEF kept, k
  <2> QED BY <2>2, <2>3, SubSeqProperties
<1> QED BY <1>1, <1>2

\* The token and the socket of an entry belong to one edge.
Owned(x) == \E e \in Edges : x.sock \in {e} \X Nat /\ x.auth \in {e} \X Nat

\* A registration of an edge with its own socket and token leaves entries with an owner.
LEMMA OwnerRegisters ==
    ASSUME NEW es \in SUBSET Entry, \A x \in es : Owned(x),
           NEW r, NEW sock, r.mac \in Edges,
           sock \in {r.mac} \X Nat, r.auth \in {r.mac} \X Nat,
           NEW skip_add \in BOOLEAN, NEW u \in update_edge(es, r, sock, skip_add)
    PROVE  \A x \in u.edges : Owned(x)
<1>1. Owned(NewEntry(r, sock))
  BY DEF Owned, NewEntry
<1>2. Known(es, r) \subseteq es
  BY DEF Known, WithMac, WithAddr
<1>3. ASSUME NEW x \in es PROVE Owned(Refreshed(x, r, sock))
  <2>1. PICK e \in Edges : x.sock \in {e} \X Nat /\ x.auth \in {e} \X Nat
    BY <1>3 DEF Owned
  <2>2. Refreshed(x, r, sock).auth = x.auth
    BY DEF Refreshed, Entry
  <2>3. CASE Authentic(x, r, sock)
    <3>1. Refreshed(x, r, sock).sock = sock
      BY <2>3 DEF Refreshed, Entry
    <3>2. e = r.mac
      BY <2>1, <2>3 DEF Authentic
    <3> QED BY <2>1, <2>2, <3>1, <3>2 DEF Owned
  <2>4. CASE ~Authentic(x, r, sock)
    <3>1. Refreshed(x, r, sock).sock = x.sock
      BY <2>4 DEF Refreshed, Entry
    <3> QED BY <2>1, <2>2, <3>1 DEF Owned
  <2> QED BY <2>3, <2>4
<1>4. CASE Known(es, r) = {}
  BY <1>1, <1>4 DEF update_edge
<1>5. CASE Known(es, r) # {}
  BY <1>2, <1>3, <1>5 DEF update_edge
<1> QED BY <1>4, <1>5

\* A registration that another supernode forwards changes the socket of an entry only if
\* the entry is dropped thereupon.
LEMMA SupernodeRegisters ==
    ASSUME NEW es \in SUBSET Entry, \A x \in es : Owned(x),
           NEW r, NEW sock, r.mac \in Edges, NEW u \in update_edge(es, r, sock, TRUE)
    PROVE  /\ u.fail => \A x \in u.edges : Owned(x)
           /\ \A x \in Without(u.edges, r.mac) : Owned(x)
<1>1. Known(es, r) \subseteq es
  BY DEF Known, WithMac, WithAddr
<1>2. CASE Known(es, r) = {}
  BY <1>2 DEF update_edge, Without
<1>3. CASE Known(es, r) # {}
  <2>1. PICK x \in Known(es, r) :
           u = [edges |-> (es \ {x}) \cup {Refreshed(x, r, sock)},
                fail |-> ~Authentic(x, r, sock)]
    BY <1>3 DEF update_edge
  <2>2. /\ Refreshed(x, r, sock).mac = r.mac
        /\ Refreshed(x, r, sock).auth = x.auth
        /\ ~Authentic(x, r, sock) => Refreshed(x, r, sock).sock = x.sock
    BY <1>1 DEF Refreshed, Entry
  <2>3. ~Authentic(x, r, sock) => Owned(Refreshed(x, r, sock))
    BY <1>1, <2>2 DEF Owned
  <2>4. \A y \in Without(u.edges, r.mac) : y \in es
    BY <2>1, <2>2 DEF Without
  <2> QED BY <2>1, <2>3, <2>4
<1> QED BY <1>2, <1>3

\* What is in flight after messages are sent are messages.
LEMMA SentMessages ==
    ASSUME net \subseteq Messages, NEW ms \in SUBSET Messages, NEW n \in Sent(ms)
    PROVE  n \subseteq Messages
BY DEF Sent

LEMMA InitIInv == Init => IInv
<1> SUFFICES ASSUME Init PROVE IInv
  OBVIOUS
<1>1. PICK m \in Moves :
         edge = [e \in Edges |-> [home |-> NoSn, addr |-> NoAddr, sock |-> <<e, m[e]>>,
                                  auth |-> <<e, m[e]>>, left |-> m[e]]]
  BY DEF Init
<1>2. \A e \in Edges : m[e] \in Nat
  BY SupernodeAssumption
<1>3. TypeOK
  BY <1>1, <1>2 DEF Init, TypeOK, Numbered
<1>4. OwnThings
  BY <1>1, <1>2 DEF OwnThings
<1>5. OwnersOnly
  BY DEF Init, OwnersOnly
<1>7. OneEntryPerKey
  BY DEF Init, OneEntryPerKey, Keyed
<1> QED BY <1>3, <1>4, <1>5, <1>7 DEF IInv

\* A supernode that hears of an edge has a list of associations afterwards.
LEMMA AssociationsKept ==
    ASSUME IInv, NEW s \in Sns, NEW mac \in Edges, NEW from \in Sns,
           assoc' = [assoc EXCEPT ![s] = update_node_supernode_association(@, mac, from)]
    PROVE  assoc' \in [Sns -> Seq(Assoc)]
<1> DEFINE new == update_node_supernode_association(assoc[s], mac, from)
<1>1. assoc \in [Sns -> Seq(Assoc)]
  BY DEF IInv, TypeOK
<1>2. new \in Seq(Assoc)
  BY <1>1, UpdatedAssociations
<1>3. assoc' = [assoc EXCEPT ![s] = new]
  OBVIOUS
<1> HIDE DEF new
<1> QED BY <1>1, <1>2, <1>3

\* So it has after a purge.
LEMMA PurgedTable ==
    ASSUME IInv, NEW s \in Sns, purge_expired_communities(s)
    PROVE  assoc' \in [Sns -> Seq(Assoc)]
<1> DEFINE aged == [i \in DOMAIN assoc[s] |-> Older(assoc[s][i])]
           new == assoc'[s]
<1>1. assoc \in [Sns -> Seq(Assoc)]
  BY DEF IInv, TypeOK
<1>2. assoc[s] \in Seq(Assoc)
  BY <1>1
<1>3. aged \in Seq(Assoc)
  <2>1. DOMAIN assoc[s] = 1 .. Len(assoc[s]) /\ Len(assoc[s]) \in Nat
    BY <1>2
  <2>2. \A i \in DOMAIN assoc[s] : assoc[s][i] \in Assoc
    BY <1>2
  <2>3. \A a \in Assoc : Older(a) \in Assoc
    BY DEF Older, Assoc
  <2>4. aged \in [1 .. Len(assoc[s]) -> Assoc]
    BY <2>1, <2>2, <2>3
  <2> HIDE DEF aged
  <2> QED BY <2>1, <2>4, SeqDef
<1>4. assoc' = [assoc EXCEPT ![s] = new] /\ new \in {<<>>, Remaining(aged)}
  BY <1>1 DEF purge_expired_communities
<1> HIDE DEF aged
<1>5. new \in Seq(Assoc)
  <2> HIDE DEF new
  <2>1. <<>> \in Seq(Assoc) /\ Remaining(aged) \in Seq(Assoc)
    BY <1>3, PurgedAssociations
  <2> QED BY <1>4, <2>1
<1> HIDE DEF new
<1> QED BY <1>1, <1>4, <1>5

\* A supernode whose table is replaced by one that is keyed and whose entries have owners.
LEMMA TableReplaced ==
    ASSUME IInv, NEW s \in Sns, NEW new \in SUBSET Entry, \A x \in new : Owned(x),
           Keyed(new), edges' = [edges EXCEPT ![s] = new]
    PROVE  edges' \in [Sns -> SUBSET Entry] /\ OwnersOnly' /\ OneEntryPerKey'
<1>1. edges \in [Sns -> SUBSET Entry]
  BY DEF IInv, TypeOK
<1>2. edges' \in [Sns -> SUBSET Entry]
  BY <1>1
<1>3. ASSUME NEW t \in Sns, NEW x \in edges'[t] PROVE Owned(x)
  <2>1. CASE t = s
    BY <1>1, <1>3, <2>1
  <2>2. CASE t # s
    <3>1. x \in edges[t]
      BY <1>1, <1>3, <2>2
    <3> QED BY <3>1 DEF IInv, OwnersOnly, Owned
  <2> QED BY <2>1, <2>2
<1>4. ASSUME NEW t \in Sns PROVE Keyed(edges'[t])
  <2>1. CASE t = s
    <3>1. edges'[t] = new
      BY <1>1, <2>1
    <3> QED BY <3>1
  <2>2. CASE t # s
    <3>1. edges'[t] = edges[t]
      BY <1>1, <2>2
    <3> QED BY <3>1 DEF IInv, OneEntryPerKey
  <2> QED BY <2>1, <2>2
<1> QED BY <1>2, <1>3, <1>4 DEF OwnersOnly, Owned, OneEntryPerKey

\* A table is keyed, and its entries have owners.
LEMMA TableOwned ==
    ASSUME IInv, NEW s \in Sns
    PROVE  edges[s] \in SUBSET Entry /\ (\A x \in edges[s] : Owned(x)) /\ Keyed(edges[s])
BY DEF IInv, TypeOK, OwnersOnly, Owned, OneEntryPerKey

\* So is what is left of it.
LEMMA KeyedPart ==
    ASSUME NEW es, Keyed(es), NEW left \in SUBSET es
    PROVE  Keyed(left)
BY DEF Keyed

\* An edge that leaves a supernode takes at most its entries away.
LEMMA Unregistered ==
    ASSUME IInv, NEW e \in Edges, Running(e), edges' \in AfterUnregister(e)
    PROVE  edges' \in [Sns -> SUBSET Entry] /\ OwnersOnly' /\ OneEntryPerKey'
<1> DEFINE s == edge[e].home
           own == {x \in edges[s] : x.mac = e /\ x.auth = edge[e].auth}
<1>1. s \in Sns
  BY DEF IInv, TypeOK, Running
<1>2. CASE edges' = edges
  BY <1>2 DEF IInv, TypeOK, OwnersOnly, OneEntryPerKey
<1>3. CASE edges' = [edges EXCEPT ![s] = @ \ own]
  <2>1. edges' = [edges EXCEPT ![s] = edges[s] \ own]
    BY <1>3
  <2>2. edges[s] \ own \in SUBSET Entry /\ \A x \in edges[s] \ own : Owned(x)
    BY <1>1, TableOwned
  <2>3. Keyed(edges[s] \ own)
    BY <1>1, TableOwned, KeyedPart
  <2> HIDE DEF s, own
  <2> QED BY <1>1, <2>1, <2>2, <2>3, TableReplaced
<1> QED BY <1>2, <1>3 DEF AfterUnregister

\* What an edge is, apart from where it is.
LEMMA EdgeFields ==
    ASSUME IInv, NEW e \in Edges
    PROVE  /\ edge[e] \in [home : Sns \cup {NoSn}, addr : Hosts \cup {NoAddr},
                           sock : Numbered, auth : Numbered, left : Nat]
           /\ edge[e].sock \in {e} \X Nat /\ edge[e].auth \in {e} \X Nat
BY DEF IInv, TypeOK, OwnThings

\* An edge that becomes another one keeps to its own.
LEMMA EdgeReplaced ==
    ASSUME IInv, NEW e \in Edges, NEW new,
           new \in [home : Sns \cup {NoSn}, addr : Hosts \cup {NoAddr},
                    sock : {e} \X Nat, auth : {e} \X Nat, left : Nat],
           edge' = [edge EXCEPT ![e] = new]
    PROVE  /\ edge' \in [Edges -> [home : Sns \cup {NoSn}, addr : Hosts \cup {NoAddr},
                                   sock : Numbered, auth : Numbered, left : Nat]]
           /\ OwnThings'
<1>1. new \in [home : Sns \cup {NoSn}, addr : Hosts \cup {NoAddr},
              sock : Numbered, auth : Numbered, left : Nat]
  BY DEF Numbered
<1>2. /\ edge \in [Edges -> [home : Sns \cup {NoSn}, addr : Hosts \cup {NoAddr},
                             sock : Numbered, auth : Numbered, left : Nat]]
      /\ OwnThings
  BY DEF IInv, TypeOK
<1>3. \A m \in Edges : edge'[m] = IF m = e THEN new ELSE edge[m]
  BY <1>2
<1>4. OwnThings'
  BY <1>2, <1>3 DEF OwnThings
<1> QED BY <1>1, <1>2, <1>4

\* An edge that ends or changes its supernode keeps the rest.
LEMMA EdgeLeaves ==
    ASSUME IInv, NEW e \in Edges, NEW home \in Sns \cup {NoSn}, NEW left \in Nat,
           edge' = [edge EXCEPT ![e].home = home, ![e].left = left]
    PROVE  /\ edge' \in [Edges -> [home : Sns \cup {NoSn}, addr : Hosts \cup {NoAddr},
                                   sock : Numbered, auth : Numbered, left : Nat]]
           /\ OwnThings'
<1> DEFINE new == [edge[e] EXCEPT !.home = home, !.left = left]
<1>1. new \in [home : Sns \cup {NoSn}, addr : Hosts \cup {NoAddr},
              sock : {e} \X Nat, auth : {e} \X Nat, left : Nat]
  <2> DEFINE old == edge[e]
  <2>1. old \in [home : Sns \cup {NoSn}, addr : Hosts \cup {NoAddr},
                 sock : {e} \X Nat, auth : {e} \X Nat, left : Nat]
    BY EdgeFields
  <2> HIDE DEF old
  <2>2. new = [old EXCEPT !.home = home, !.left = left]
    BY DEF old
  <2> QED BY <2>1, <2>2
<1>2. edge' = [edge EXCEPT ![e] = new]
  BY DEF IInv, TypeOK
<1> HIDE DEF new
<1> QED BY <1>1, <1>2, EdgeReplaced

\* The four parts of the state, which most actions change one or two of.
EdgesFine == edges \in [Sns -> SUBSET Entry] /\ OwnersOnly /\ OneEntryPerKey
AssocFine == assoc \in [Sns -> Seq(Assoc)]
EdgeFine ==
    /\ edge \in [Edges -> [home : Sns \cup {NoSn}, addr : Hosts \cup {NoAddr},
                           sock : Numbered, auth : Numbered, left : Nat]]
    /\ OwnThings
NetFine == net \subseteq Messages

LEMMA Parts ==
    /\ IInv <=> EdgesFine /\ AssocFine /\ EdgeFine /\ NetFine
    /\ IInv' <=> EdgesFine' /\ AssocFine' /\ EdgeFine' /\ NetFine'
    /\ edges' = edges /\ EdgesFine => EdgesFine'
    /\ assoc' = assoc /\ AssocFine => AssocFine'
    /\ edge' = edge /\ EdgeFine => EdgeFine'
    /\ net' = net /\ NetFine => NetFine'
BY DEF IInv, TypeOK, EdgesFine, AssocFine, EdgeFine, NetFine, OwnersOnly, OwnThings,
       OneEntryPerKey

\* What edges do by themselves keeps the invariant.
LEMMA EdgeSteps ==
    ASSUME IInv, NEW e \in Edges,
           (\E s \in Sns : Start(e, s) \/ Select(e, s)) \/ Stop(e) \/ Rebind(e) \/ Draw(e)
    PROVE  IInv'
<1> DEFINE Own == [home : Sns \cup {NoSn}, addr : Hosts \cup {NoAddr},
                   sock : {e} \X Nat, auth : {e} \X Nat, left : Nat]
<1> DEFINE old == edge[e]
<1>1. old \in Own /\ edge \in [Edges -> [home : Sns \cup {NoSn}, addr : Hosts \cup {NoAddr},
                                        sock : Numbered, auth : Numbered, left : Nat]]
  <2>1. old \in Own
    BY EdgeFields
  <2> QED BY <2>1 DEF IInv, TypeOK
<1>2. CanMove(e) => old.left - 1 \in Nat
  BY <1>1 DEF CanMove
<1>3. ASSUME NEW s \in Sns, Start(e, s) PROVE IInv'
  <2>1. PICK sock \in {old.sock, <<e, old.left - 1>>} :
           edge' = [edge EXCEPT ![e] = [home |-> s, addr |-> NoAddr, sock |-> sock,
                                        auth |-> <<e, old.left - 1>>, left |-> old.left - 1]]
    BY <1>3 DEF Start
  <2>2. [home |-> s, addr |-> NoAddr, sock |-> sock, auth |-> <<e, old.left - 1>>,
         left |-> old.left - 1] \in Own
    <3>1. old.left - 1 \in Nat /\ sock \in {e} \X Nat
      BY <1>1, <1>2, <1>3 DEF Start
    <3> HIDE DEF old
    <3> QED BY <3>1
  <2>3. EdgeFine'
    <3> HIDE DEF old
    <3> QED BY <2>1, <2>2, EdgeReplaced DEF EdgeFine
  <2> QED BY <1>3, <2>3, Parts DEF Start, sn
<1>4. ASSUME NEW s \in Sns, Select(e, s) PROVE IInv'
  <2>1. edge' = [edge EXCEPT ![e].home = s, ![e].left = old.left - 1]
    BY <1>1, <1>4 DEF Select
  <2>2. EdgeFine'
    BY <1>2, <1>4, <2>1, EdgeLeaves DEF EdgeFine, Select
  <2>3. EdgesFine'
    BY <1>4, Unregistered DEF EdgesFine, Select
  <2> QED BY <1>4, <2>2, <2>3, Parts DEF Select
<1>5. ASSUME Stop(e) PROVE IInv'
  <2>1. edge' = [edge EXCEPT ![e].home = NoSn, ![e].left = old.left]
    BY <1>1, <1>5 DEF Stop
  <2>2. EdgeFine'
    BY <1>1, <2>1, EdgeLeaves DEF EdgeFine
  <2>3. EdgesFine'
    BY <1>5, Unregistered DEF EdgesFine, Stop
  <2> QED BY <1>5, <2>2, <2>3, Parts DEF Stop
<1>6. ASSUME Rebind(e) PROVE IInv'
  <2> DEFINE new == [old EXCEPT !.sock = <<e, old.left - 1>>, !.left = old.left - 1]
  <2>1. edge' = [edge EXCEPT ![e] = new]
    BY <1>1, <1>6 DEF Rebind
  <2>2. new \in Own
    <3>1. old.left - 1 \in Nat
      BY <1>2, <1>6 DEF Rebind
    <3> HIDE DEF old
    <3> QED BY <1>1, <3>1
  <2>3. EdgeFine'
    <3> HIDE DEF new
    <3> QED BY <2>1, <2>2, EdgeReplaced DEF EdgeFine
  <2> QED BY <1>6, <2>3, Parts DEF Rebind, sn
<1>7. ASSUME Draw(e) PROVE IInv'
  <2>1. PICK a \in Assignable(edges[old.home]) : edge' = [edge EXCEPT ![e].addr = a]
    BY <1>7 DEF Draw
  <2>2. a \in Hosts
    BY DEF Assignable
  <2> DEFINE new == [old EXCEPT !.addr = a]
  <2>3. edge' = [edge EXCEPT ![e] = new]
    BY <1>1, <2>1
  <2>4. new \in Own
    <3> HIDE DEF old
    <3> QED BY <1>1, <2>2
  <2>5. EdgeFine'
    <3> HIDE DEF new
    <3> QED BY <2>3, <2>4, EdgeReplaced DEF EdgeFine
  <2> QED BY <1>7, <2>5, Parts DEF Draw
<1> QED BY <1>3, <1>4, <1>5, <1>6, <1>7

\* So does a registration.
LEMMA RegisterStep ==
    ASSUME IInv, NEW e \in Edges, Register(e)
    PROVE  IInv'
<1> DEFINE s == edge[e].home
           r == [mac |-> e, addr |-> edge[e].addr, auth |-> edge[e].auth]
           ms == {[type |-> "REGISTER_SUPER", from |-> s, to |-> t, mac |-> e,
                   addr |-> r.addr, auth |-> r.auth] : t \in Sns \ {s}}
<1>1. /\ s \in Sns /\ edge[e].addr \in Hosts
      /\ edge[e].sock \in {e} \X Nat /\ edge[e].auth \in {e} \X Nat
  BY EdgeFields DEF Register, Running
<1>2. edge[e].sock \in Numbered /\ edge[e].auth \in Numbered
  BY <1>1 DEF Numbered
<1>3. PICK u \in update_edge(edges[s], r, edge[e].sock, FALSE) :
         /\ edges' = [edges EXCEPT ![s] = u.edges]
         /\ IF u.fail
            THEN edge' \in {edge, [edge EXCEPT ![e].home = NoSn]} /\ net' = net
            ELSE net' \in Sent(ms) /\ edge' = edge
  BY DEF Register
<1>4. edges[s] \in SUBSET Entry /\ (\A x \in edges[s] : Owned(x)) /\ Keyed(edges[s])
  BY <1>1, TableOwned
<1>5. r.mac = e /\ r.addr = edge[e].addr /\ r.auth = edge[e].auth
  OBVIOUS
<1>6. ms \in SUBSET Messages
  BY <1>1, <1>2 DEF Messages
<1> HIDE DEF s, r, ms
<1>7. u.edges \in SUBSET Entry
  BY <1>1, <1>2, <1>4, <1>5, UpdatedTable
<1>8. \A x \in u.edges : Owned(x)
  BY <1>1, <1>4, <1>5, OwnerRegisters
<1>9. EdgesFine'
  <2>1. Keyed(u.edges)
    BY <1>4, UpdatedKeys
  <2> QED BY <1>1, <1>3, <1>7, <1>8, <2>1, TableReplaced DEF EdgesFine
<1>10. EdgeFine'
  <2>1. CASE edge' = edge
    BY <2>1, Parts
  <2>2. CASE edge' = [edge EXCEPT ![e].home = NoSn]
    <3>1. edge[e].left \in Nat /\ edge' = [edge EXCEPT ![e].home = NoSn, ![e].left = edge[e].left]
      BY <2>2 DEF IInv, TypeOK
    <3> QED BY <3>1, EdgeLeaves DEF EdgeFine
  <2> QED BY <1>3, <2>1, <2>2
<1>11. NetFine'
  <2>1. net \subseteq Messages
    BY DEF IInv, TypeOK
  <2> QED BY <1>3, <1>6, <2>1, SentMessages DEF NetFine
<1> QED BY <1>9, <1>10, <1>11, Parts DEF Register

LEMMA QueryStep ==
    ASSUME IInv, NEW e \in Edges, NEW m \in Edges, QueryPeer(e, m)
    PROVE  IInv'
<1> DEFINE s == edge[e].home
           ms == {[type |-> "QUERY_PEER", from |-> s, to |-> t, mac |-> m, asker |-> e] :
                     t \in Sns \ {s}}
<1>1. s \in Sns
  BY EdgeFields DEF QueryPeer, Running
<1>2. ms \in SUBSET Messages
  BY <1>1 DEF Messages
<1>3. net' \in Sent(ms) /\ net \subseteq Messages
  BY DEF QueryPeer, IInv, TypeOK
<1> HIDE DEF ms
<1>4. NetFine'
  BY <1>2, <1>3, SentMessages DEF NetFine
<1> QED BY <1>4, Parts DEF QueryPeer, sn

\* What a supernode is told by another one keeps the invariant.
LEMMA ReceiveStep ==
    ASSUME IInv, NEW m \in net, Receive(m)
    PROVE  IInv'
<1>1. m \in Messages /\ net \subseteq Messages
  BY DEF IInv, TypeOK
<1>2. m.from \in Sns /\ m.to \in Sns /\ m.mac \in Edges
  BY <1>1, MessageFields
<1>3. /\ edges[m.to] \in SUBSET Entry
      /\ \A x \in edges[m.to] : Owned(x)
      /\ Keyed(edges[m.to])
  BY <1>2, TableOwned
<1>4. ASSUME ReceiveRegister(m) PROVE IInv'
  <2>1. PICK u \in update_edge(edges[m.to], m, m.from, TRUE) :
           IF u.fail
           THEN /\ edges' = [edges EXCEPT ![m.to] = u.edges]
                /\ net' = (net \ {m}) \cup
                       {[type |-> "NAK", from |-> m.to, to |-> m.from, mac |-> m.mac]}
                /\ assoc' = assoc
           ELSE /\ edges' = [edges EXCEPT ![m.to] = Without(u.edges, m.mac)]
                /\ assoc' = [assoc EXCEPT ![m.to] =
                                update_node_supernode_association(@, m.mac, m.from)]
                /\ net' = net \ {m}
    BY <1>4 DEF ReceiveRegister
  <2>2. u.edges \in SUBSET Entry
    <3>1. m.addr \in Hosts /\ m.auth \in Numbered
      BY <1>1, <1>4, MessageFields DEF ReceiveRegister
    <3> QED BY <1>2, <1>3, <3>1, UpdatedTable
  <2>3. /\ u.fail => \A x \in u.edges : Owned(x)
        /\ \A x \in Without(u.edges, m.mac) : Owned(x)
    BY <1>2, <1>3, SupernodeRegisters
  <2>6. Keyed(u.edges) /\ Keyed(Without(u.edges, m.mac))
    <3>1. Keyed(u.edges)
      BY <1>3, UpdatedKeys
    <3> QED BY <3>1, KeyedPart DEF Without
  <2>4. CASE u.fail
    <3>1. EdgesFine'
      BY <1>2, <2>1, <2>2, <2>3, <2>4, <2>6, TableReplaced DEF EdgesFine
    <3>2. [type |-> "NAK", from |-> m.to, to |-> m.from, mac |-> m.mac] \in Messages
      BY <1>2 DEF Messages
    <3>3. NetFine'
      BY <1>1, <2>1, <2>4, <3>2 DEF NetFine
    <3> QED BY <1>4, <2>1, <2>4, <3>1, <3>3, Parts DEF ReceiveRegister
  <2>5. CASE ~u.fail
    <3>1. Without(u.edges, m.mac) \in SUBSET Entry
      BY <2>2 DEF Without
    <3>2. EdgesFine'
      BY <1>2, <2>1, <2>3, <2>5, <2>6, <3>1, TableReplaced DEF EdgesFine
    <3>3. AssocFine'
      BY <1>2, <2>1, <2>5, AssociationsKept DEF AssocFine
    <3>4. NetFine'
      BY <1>1, <2>1, <2>5 DEF NetFine
    <3> QED BY <1>4, <3>2, <3>3, <3>4, Parts DEF ReceiveRegister
  <2> QED BY <2>4, <2>5
<1>5. ASSUME ReceiveNak(m) PROVE IInv'
  <2>1. EdgesFine'
    <3>1. edges' = [edges EXCEPT ![m.to] = Without(edges[m.to], m.mac)]
      BY <1>5 DEF ReceiveNak
    <3>2. /\ Without(edges[m.to], m.mac) \in SUBSET Entry
          /\ \A x \in Without(edges[m.to], m.mac) : Owned(x)
          /\ Keyed(Without(edges[m.to], m.mac))
      BY <1>3, KeyedPart DEF Without
    <3> QED BY <1>2, <3>1, <3>2, TableReplaced DEF EdgesFine
  <2>2. EdgeFine'
    <3>1. CASE edge' = edge
      BY <3>1, Parts
    <3>2. CASE edge' = [edge EXCEPT ![m.mac].home = NoSn]
      <4>1. /\ edge[m.mac].left \in Nat
            /\ edge' = [edge EXCEPT ![m.mac].home = NoSn, ![m.mac].left = edge[m.mac].left]
        BY <1>2, <3>2 DEF IInv, TypeOK
      <4> QED BY <1>2, <4>1, EdgeLeaves DEF EdgeFine
    <3> QED BY <1>5, <3>1, <3>2 DEF ReceiveNak
  <2>3. NetFine'
    BY <1>1, <1>5 DEF NetFine, ReceiveNak
  <2> QED BY <1>5, <2>1, <2>2, <2>3, Parts DEF ReceiveNak
<1>6. ASSUME ReceiveQuery(m) PROVE IInv'
  <2>1. [m EXCEPT !.type = "PEER_INFO", !.from = m.to, !.to = m.from] \in Messages
    BY <1>1, <1>6 DEF Messages, ReceiveQuery
  <2>2. NetFine'
    BY <1>1, <1>6, <2>1 DEF NetFine, ReceiveQuery
  <2> QED BY <1>6, <2>2, Parts DEF ReceiveQuery
<1>7. ASSUME ReceivePeerInfo(m) PROVE IInv'
  <2>1. AssocFine'
    <3>1. CASE assoc' = assoc
      BY <3>1, Parts
    <3>2. CASE assoc' = [assoc EXCEPT ![m.to] =
                            update_node_supernode_association(@, m.mac, m.from)]
      BY <1>2, <3>2, AssociationsKept DEF AssocFine
    <3> QED BY <1>7, <3>1, <3>2 DEF ReceivePeerInfo
  <2>2. NetFine'
    BY <1>1, <1>7 DEF NetFine, ReceivePeerInfo
  <2> QED BY <1>7, <2>1, <2>2, Parts DEF ReceivePeerInfo
<1> QED BY <1>4, <1>5, <1>6, <1>7 DEF Receive

LEMMA PurgeStep ==
    ASSUME IInv, NEW s \in Sns, purge_expired_communities(s)
    PROVE  IInv'
<1> DEFINE new == {x \in {Older(y) : y \in edges[s]} : x.seen <= ExpireAge}
<1>1. edges' = [edges EXCEPT ![s] = new]
  BY DEF purge_expired_communities
<1>2. new \in SUBSET Entry /\ (\A x \in new : Owned(x)) /\ Keyed(new)
  <2>1. ASSUME NEW y \in edges[s] PROVE Older(y) \in Entry /\ Owned(Older(y))
    <3>1. y \in Entry /\ Owned(y)
      BY TableOwned
    <3>2. /\ Older(y) \in Entry
          /\ Older(y).sock = y.sock /\ Older(y).auth = y.auth
      BY <3>1 DEF Older, Entry
    <3> QED BY <3>1, <3>2 DEF Owned
  <2>2. \A y \in edges[s] : Older(y).mac = y.mac /\ Older(y).addr = y.addr
    BY TableOwned DEF Older, Entry
  <2>3. Keyed(edges[s])
    BY TableOwned
  <2> QED BY <2>1, <2>2, <2>3 DEF Keyed
<1> HIDE DEF new
<1>3. EdgesFine'
  BY <1>1, <1>2, TableReplaced DEF EdgesFine
<1>4. AssocFine'
  BY PurgedTable DEF AssocFine
<1> QED BY <1>3, <1>4, Parts DEF purge_expired_communities

LEMMA Step == IInv /\ [Next]_vars => IInv'
<1> SUFFICES ASSUME IInv, [Next]_vars PROVE IInv'
  OBVIOUS
<1>1. CASE UNCHANGED vars
  BY <1>1, Parts DEF vars, sn
<1>2. ASSUME NEW m \in net, Lose(m) PROVE IInv'
  <2>1. NetFine'
    BY <1>2 DEF Lose, NetFine, IInv, TypeOK
  <2> QED BY <1>2, <2>1, Parts DEF Lose, sn
<1> QED BY <1>1, <1>2, EdgeSteps, RegisterStep, QueryStep, ReceiveStep, PurgeStep DEF Next

LEMMA Inductive == Spec => []IInv
<1> QED BY InitIInv, Step, PTL DEF Spec

----------------------------------------------------------------------------

\* Every variable keeps its type.
THEOREM TypeCorrect == Spec => []TypeOK
<1>1. IInv => TypeOK
  BY DEF IInv
<1> QED BY <1>1, Inductive, PTL

\* Whoever registers, and whatever the supernodes tell each other, a registration is never
\* redirected but by the edge whose token it has.
THEOREM NobodyElseRedirects == Spec => []OwnersOnly
<1>1. IInv => OwnersOnly
  BY DEF IInv
<1> QED BY <1>1, Inductive, PTL

\* Two edges that are registered with one supernode as they are never have one address.
THEOREM AddressesUnique == Spec => []AddressesDiffer
<1>1. ASSUME OneEntryPerKey PROVE AddressesDiffer
  <2>1. ASSUME NEW s \in Sns, NEW e \in Edges, NEW m \in Edges, e # m,
               Registered(e, s), Registered(m, s), ~Readdressed(e, s), ~Readdressed(m, s)
        PROVE  edge[e].addr # edge[m].addr
    <3>1. PICK x \in edges[s] : x.mac = e /\ x.addr = edge[e].addr
      BY <2>1 DEF Registered, Readdressed, WithMac
    <3>2. PICK y \in edges[s] : y.mac = m /\ y.addr = edge[m].addr
      BY <2>1 DEF Registered, Readdressed, WithMac
    <3> QED BY <1>1, <2>1, <3>1, <3>2 DEF OneEntryPerKey, Keyed
  <2> QED BY <2>1 DEF AddressesDiffer
<1>2. IInv => AddressesDiffer
  BY <1>1 DEF IInv
<1> QED BY <1>2, Inductive, PTL
=============================================================================
