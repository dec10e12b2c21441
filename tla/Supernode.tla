----------------------------- MODULE Supernode -----------------------------
(***************************************************************************)
(* What a federation of supernodes knows of the edges of one community     *)
(* (sn_utils.c): the edges registered with each supernode, and with which  *)
(* other supernode an edge is associated, to which packets for it go then. *)
(*                                                                         *)
(* The supernodes know each other.  Between an edge and the supernode it   *)
(* uses a message is delivered at once or lost; between supernodes it is   *)
(* in flight, in any order, or lost.  Headers are not encrypted, all is    *)
(* UDP, and every edge draws its address from the net of the community.    *)
(*                                                                         *)
(* A supernode that forgets the community forgets what the tables here     *)
(* hold, and they are empty then: whether it knows it is not kept apart.   *)
(*                                                                         *)
(* An edge is identified with its MAC address.  It draws a new token when  *)
(* it starts; its public socket may change when it does, or with its NAT.  *)
(***************************************************************************)
EXTENDS Integers, Sequences, FiniteSets

CONSTANTS
    Sns, Edges,
    NoSn,        \* where an edge is that does not run
    Uses,        \* the supernodes that each edge has in its list
    Hosts,       \* the addresses of the community's net
    NoAddr,      \* of an edge that has not drawn one
    ExpireAge,   \* REGISTRATION_TIMEOUT
    AssocAge,    \* 3 * REGISTRATION_TIMEOUT
    Listed,      \* the supernodes whose community file lists the community
    Moves,       \* bounds: how often each edge starts, or changes supernode or socket
    MaxNet       \* bound: how many messages are in flight; others are lost

ASSUME SupernodeAssumption ==
    /\ IsFiniteSet(Sns) /\ NoSn \notin Sns /\ IsFiniteSet(Edges)
    /\ Uses \in [Edges -> SUBSET Sns]
    /\ Hosts # {} /\ IsFiniteSet(Hosts) /\ NoAddr \notin Hosts
    /\ {ExpireAge, AssocAge} \subseteq Nat \ {0} /\ ExpireAge < AssocAge
    /\ Listed \subseteq Sns
    /\ Moves \subseteq [Edges -> Nat] /\ MaxNet \in Nat

VARIABLES
    \* of each supernode
    edges,       \* comm->edges
    assoc,       \* comm->assoc, in the order in which the associations were made
    \* of the edges, and between the supernodes
    edge,        \* where each edge is, what it has, and how often it may still move
    net          \* messages in flight between supernodes

sn == <<edges, assoc>>
vars == <<sn, edge, net>>

\* Sockets and tokens of an edge are numbered downwards.
Numbered == Edges \X Nat

Entry == [mac : Edges, addr : Hosts, sock : Numbered \cup Sns, auth : Numbered,
          seen : Nat]
Assoc == [mac : Edges, sn : Sns, seen : Nat]
Messages ==
    [type : {"REGISTER_SUPER"}, from : Sns, to : Sns, mac : Edges, addr : Hosts,
     auth : Numbered]
    \cup [type : {"NAK"}, from : Sns, to : Sns, mac : Edges]
    \cup [type : {"QUERY_PEER", "PEER_INFO"}, from : Sns, to : Sns, mac : Edges,
          asker : Edges]

TypeOK ==
    /\ edges \in [Sns -> SUBSET Entry]
    /\ assoc \in [Sns -> Seq(Assoc)]
    /\ edge \in [Edges -> [home : Sns \cup {NoSn}, addr : Hosts \cup {NoAddr},
                           sock : Numbered, auth : Numbered, left : Nat]]
    /\ net \subseteq Messages

Init ==
    /\ edges = [s \in Sns |-> {}] /\ assoc = [s \in Sns |-> <<>>]
    /\ \E m \in Moves :
          edge = [e \in Edges |-> [home |-> NoSn, addr |-> NoAddr, sock |-> <<e, m[e]>>,
                                   auth |-> <<e, m[e]>>, left |-> m[e]]]
    /\ net = {}

\* What may be in flight when the messages ms are sent: as many as there is room for.
Sent(ms) ==
    LET sent == {net \cup n : n \in SUBSET ms}
        room == {n \in sent : Cardinality(n) <= MaxNet}
    IN  {n \in room : \A o \in room : Cardinality(o) <= Cardinality(n)}

----------------------------------------------------------------------------
(* The tables of a supernode.                                              *)

WithMac(es, mac) == {x \in es : x.mac = mac}
WithAddr(es, addr) == {x \in es : x.addr = addr}
Associated(list, mac) == {list[i].sn : i \in {j \in DOMAIN list : list[j].mac = mac}}
Without(es, mac) == {x \in es : x.mac # mac}

\* The registration r as a new entry.
NewEntry(r, sock) ==
    [mac |-> r.mac, addr |-> r.addr, sock |-> sock, auth |-> r.auth, seen |-> 0]

\* Mutant: an address that is in use is not looked for.
Known_byMac(es, r) == WithMac(es, r.mac)

\* The entry that a registration is about: that of its MAC address, else one of its IP
\* address, which gets the MAC address.
Known(es, r) ==
    IF WithMac(es, r.mac) # {} THEN WithMac(es, r.mac) ELSE WithAddr(es, r.addr)

\* Mutant: the token is not compared.
Authentic_always(x, r, sock) == TRUE

\* auth_edge is asked only if the socket is another one.
Authentic(x, r, sock) == x.sock = sock \/ x.auth = r.auth

Refreshed(x, r, sock) ==
    [x EXCEPT !.mac = r.mac, !.seen = 0, !.sock = IF Authentic(x, r, sock) THEN sock ELSE @]

\* What may become of the entries, and whether the registration is refused.
update_edge(es, r, sock, skip_add) ==
    IF Known(es, r) = {}
    THEN {[edges |-> IF skip_add THEN es ELSE es \cup {NewEntry(r, sock)}, fail |-> FALSE]}
    ELSE {[edges |-> (es \ {x}) \cup {Refreshed(x, r, sock)},
           fail |-> ~Authentic(x, r, sock)] : x \in Known(es, r)}

\* An association that exists is left as it is.
update_node_supernode_association(list, mac, s) ==
    IF Associated(list, mac) # {} THEN list ELSE Append(list, [mac |-> mac, sn |-> s, seen |-> 0])

----------------------------------------------------------------------------
(* An edge, and the supernode that answers it.                             *)

Running(e) == edge[e].home # NoSn
CanMove(e) == edge[e].left > 0

\* An edge starts: it draws a token, and has the same public socket or another one.
Start(e, s) ==
    /\ ~Running(e) /\ s \in Uses[e] /\ CanMove(e)
    /\ LET n == edge[e].left - 1
       IN  \E sock \in {edge[e].sock, <<e, n>>} :
              edge' = [edge EXCEPT ![e] = [home |-> s, addr |-> NoAddr, sock |-> sock,
                                           auth |-> <<e, n>>, left |-> n]]
    /\ UNCHANGED <<sn, net>>

\* The entries after UNREGISTER_SUPER of e has reached the supernode or got lost.
AfterUnregister(e) ==
    LET s == edge[e].home
        own == {x \in edges[s] : x.mac = e /\ x.auth = edge[e].auth}
    IN  {edges, [edges EXCEPT ![s] = @ \ own]}

\* It ends; or it crashes, and UNREGISTER_SUPER is not sent.
Stop(e) ==
    /\ Running(e)
    /\ edges' \in AfterUnregister(e)
    /\ edge' = [edge EXCEPT ![e].home = NoSn]
    /\ UNCHANGED <<assoc, net>>

\* It prefers another supernode and leaves its old one.
Select(e, s) ==
    /\ Running(e) /\ s \in Uses[e] \ {edge[e].home} /\ CanMove(e)
    /\ edges' \in AfterUnregister(e)
    /\ edge' = [edge EXCEPT ![e].home = s, ![e].left = @ - 1]
    /\ UNCHANGED <<assoc, net>>

\* Its NAT gives it another public socket.
Rebind(e) ==
    /\ Running(e) /\ CanMove(e)
    /\ edge' = [edge EXCEPT ![e].sock = <<e, edge[e].left - 1>>, ![e].left = @ - 1]
    /\ UNCHANGED <<sn, net>>

\* Addresses that no entry has; if there is none the last one that was tried is
\* answered all the same.
Assignable(es) ==
    LET free == {a \in Hosts : WithAddr(es, a) = {}}
    IN  IF free = {} THEN Hosts ELSE free

\* The edge registers without MAC address, and is answered with an address.
Draw(e) ==
    /\ Running(e) /\ edge[e].addr = NoAddr
    /\ \E a \in Assignable(edges[edge[e].home]) : edge' = [edge EXCEPT ![e].addr = a]
    /\ UNCHANGED <<edges, assoc, net>>

\* It registers.  It is refused, and ends if it hears of that; or the other supernodes
\* are told.
Register(e) ==
    /\ Running(e) /\ edge[e].addr # NoAddr
    /\ LET s == edge[e].home
           r == [mac |-> e, addr |-> edge[e].addr, auth |-> edge[e].auth]
       IN  \E u \in update_edge(edges[s], r, edge[e].sock, FALSE) :
              /\ edges' = [edges EXCEPT ![s] = u.edges]
              /\ IF u.fail
                 THEN edge' \in {edge, [edge EXCEPT ![e].home = NoSn]} /\ net' = net
                 ELSE /\ net' \in Sent(
                             {[type |-> "REGISTER_SUPER", from |-> s, to |-> t, mac |-> e,
                               addr |-> r.addr, auth |-> r.auth] : t \in Sns \ {s}})
                      /\ edge' = edge
    /\ UNCHANGED assoc

\* The edge e asks for the socket of m; its supernode asks the others, if need be.  (Of one
\* that is not registered it would drop the answer.)
QueryPeer(e, m) ==
    /\ Running(e) /\ e # m
    /\ LET s == edge[e].home
       IN  /\ WithMac(edges[s], e) # {} /\ WithMac(edges[s], m) = {}
           /\ net' \in Sent({[type |-> "QUERY_PEER", from |-> s, to |-> t, mac |-> m,
                             asker |-> e] : t \in Sns \ {s}})
    /\ UNCHANGED <<sn, edge>>

----------------------------------------------------------------------------
(* Messages between supernodes.                                            *)

\* An edge of another supernode: it is refused; or it is associated with that supernode,
\* and no longer an edge of this one.
ReceiveRegister(m) ==
    /\ m.type = "REGISTER_SUPER"
    /\ \E u \in update_edge(edges[m.to], m, m.from, TRUE) :
          IF u.fail
          THEN /\ edges' = [edges EXCEPT ![m.to] = u.edges]
               /\ net' = (net \ {m}) \cup
                      {[type |-> "NAK", from |-> m.to, to |-> m.from, mac |-> m.mac]}
               /\ assoc' = assoc
          ELSE /\ edges' = [edges EXCEPT ![m.to] = Without(u.edges, m.mac)]
               /\ assoc' = [assoc EXCEPT ![m.to] =
                               update_node_supernode_association(@, m.mac, m.from)]
               /\ net' = net \ {m}
    /\ UNCHANGED edge

\* The supernode of an edge that another one refused forwards this to the edge, which
\* ends if it hears of that, and drops its entry.
ReceiveNak(m) ==
    /\ m.type = "NAK"
    /\ edges' = [edges EXCEPT ![m.to] = Without(@, m.mac)]
    /\ \/ edge' = edge
       \/ /\ \E x \in WithMac(edges[m.to], m.mac) : x.sock = edge[m.mac].sock
          /\ edge' = [edge EXCEPT ![m.mac].home = NoSn]
    /\ net' = net \ {m}
    /\ UNCHANGED assoc

\* A supernode is asked for an edge.  Without the community it follows a null pointer;
\* started again it knows of the community what it knew, nothing.
ReceiveQuery(m) ==
    /\ m.type = "QUERY_PEER"
    /\ net' = (net \ {m}) \cup
                 IF WithMac(edges[m.to], m.mac) = {} THEN {}
                 ELSE {[m EXCEPT !.type = "PEER_INFO", !.from = m.to, !.to = m.from]}
    /\ UNCHANGED <<edges, assoc, edge>>

\* The answer is for one of its edges, and tells where the other one is.
ReceivePeerInfo(m) ==
    /\ m.type = "PEER_INFO"
    /\ assoc' = IF WithMac(edges[m.to], m.asker) = {} THEN assoc
                ELSE [assoc EXCEPT ![m.to] =
                         update_node_supernode_association(@, m.mac, m.from)]
    /\ net' = net \ {m}
    /\ UNCHANGED <<edges, edge>>

Receive(m) == ReceiveRegister(m) \/ ReceiveNak(m) \/ ReceiveQuery(m) \/ ReceivePeerInfo(m)

Lose(m) == net' = net \ {m} /\ UNCHANGED <<sn, edge>>

----------------------------------------------------------------------------
(* Time passes for each supernode from one purge to the next.  Ages count   *)
(* the purges.                                                             *)

Older(x) == [x EXCEPT !.seen = @ + 1]

\* The loop over the associations asks the age of the first one that is left, and
\* drops the one where it is: it stops dropping at the first that is not old.
Remaining(list) ==
    LET kept == {i \in DOMAIN list : list[i].seen <= AssocAge}
    IN  IF kept = {} THEN <<>>
        ELSE SubSeq(list, CHOOSE i \in kept : \A j \in kept : i <= j, Len(list))

\* A community without edges of this supernode is given up, with its associations, if it
\* came up with a registration.
purge_expired_communities(s) ==
    LET left == {x \in {Older(y) : y \in edges[s]} : x.seen <= ExpireAge}
        list == [i \in DOMAIN assoc[s] |-> Older(assoc[s][i])]
    IN  /\ edges' = [edges EXCEPT ![s] = left]
        /\ assoc' = [assoc EXCEPT ![s] = IF left = {} /\ s \notin Listed THEN <<>>
                                         ELSE Remaining(list)]
        /\ UNCHANGED <<edge, net>>

Next ==
    \/ \E e \in Edges :
          \/ \E s \in Sns : Start(e, s) \/ Select(e, s)
          \/ Stop(e) \/ Rebind(e) \/ Draw(e) \/ Register(e)
          \/ \E m \in Edges : QueryPeer(e, m)
    \/ \E m \in net : Receive(m) \/ Lose(m)
    \/ \E s \in Sns : purge_expired_communities(s)

Spec == Init /\ [][Next]_vars

\* Edges register again and again, supernodes purge and read what they are sent.
Fairness ==
    /\ \A e \in Edges : WF_vars(Draw(e)) /\ WF_vars(Register(e))
    /\ \A s \in Sns :
          /\ WF_vars(purge_expired_communities(s))
          /\ WF_vars(\E m \in net : m.to = s /\ Receive(m))

FairSpec == Spec /\ Fairness

----------------------------------------------------------------------------
(* Properties.                                                             *)

\* Mutant: without an association no other supernode is asked.
Asked_associated(s, e) ==
    IF WithMac(edges[s], e) # {} THEN {s} ELSE Associated(assoc[s], e)

\* Where try_forward sends a packet for the edge e that an edge of s has sent: to its
\* socket, or to the supernodes to ask, which do not ask any further.
Asked(s, e) ==
    IF WithMac(edges[s], e) # {} THEN {s}
    ELSE IF Associated(assoc[s], e) # {} THEN Associated(assoc[s], e)
    ELSE Sns \ {s}

Forwarded(s, e) == {x.sock : x \in UNION {WithMac(edges[t], e) : t \in Asked(s, e)}}

\* Some supernode has another token for the edge: it refuses every registration of the
\* edge, and does not forget the entry as long as there are any.
Refused(e) == \E s \in Sns : \E x \in WithMac(edges[s], e) : x.auth # edge[e].auth

\* From every supernode packets find an edge that runs again and again, wherever it
\* was before and whatever the supernodes remember of that, unless one refuses it.
RouteRepaired ==
    \A s \in Sns, e \in Edges :
        []<>(Running(e) => edge[e].sock \in Forwarded(s, e) \/ Refused(e))

\* A registration is redirected only by the one who made it: the socket of an entry is
\* one of the edge whose token it has, never that of a supernode.
OwnersOnly == \A s \in Sns : \A x \in edges[s] : \E e \in Edges :
                 x.sock \in {e} \X Nat /\ x.auth \in {e} \X Nat

\* The edge is registered with s as it is.
Registered(e, s) == \E x \in WithMac(edges[s], e) : x.sock = edge[e].sock /\ edge[e].home = s

\* Its entry has an address that it no longer has.
Readdressed(e, s) == \E x \in WithMac(edges[s], e) : x.addr # edge[e].addr

\* Two edges of a supernode never have one address, though an address is not reserved when
\* it is drawn; unless one has started again and drawn another address while its entry
\* was kept.
AddressesDiffer ==
    \A s \in Sns : \A e, m \in Edges :
        /\ Registered(e, s) /\ Registered(m, s) /\ e # m
        /\ ~Readdressed(e, s) /\ ~Readdressed(m, s)
        => edge[e].addr # edge[m].addr

\* A supernode that is told of an edge again has it associated with the one that told it,
\* and the association is a new one: "already there, update socket and time only".
AssociationsRefreshed ==
    [][\A m \in net :
          ReceiveRegister(m) /\ WithMac(edges'[m.to], m.mac) = {}
          => \E i \in DOMAIN assoc'[m.to] :
                assoc'[m.to][i] = [mac |-> m.mac, sn |-> m.from, seen |-> 0]]_vars
=============================================================================
