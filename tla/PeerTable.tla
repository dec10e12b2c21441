----------------------------- MODULE PeerTable -----------------------------
(***************************************************************************)
(* How edges find a direct way to each other: the tables pending_peers and *)
(* known_peers of edge_utils.c, and the messages that move a peer between  *)
(* them.  Every edge runs the same code; all of them are registered with   *)
(* one supernode, which relays what is not sent directly.                  *)
(*                                                                         *)
(* An edge is identified with its MAC address.  It is reached at a public  *)
(* socket, which its NAT may change.  A message sent to a socket is        *)
(* received by whoever is there when it arrives.                           *)
(*                                                                         *)
(* A tick of the clock is half a registration interval.  Ages count ticks; *)
(* an entry of age 0 may or may not be of the present second.              *)
(***************************************************************************)
EXTENDS Integers, FiniteSets

CONSTANTS
    Edges, Sockets,
    NoSock,      \* the socket of an entry that has none yet
    Home,        \* where each edge is at first
    Traffic,     \* the pairs <<e, m>> where e sends packets to m
    IdleAge,     \* timeout / 2: after it a silent peer is asked again
    QueryAge,    \* register_interval: how often a peer is asked for
    ExpireAge,   \* REGISTRATION_TIMEOUT
    Reuse,       \* whether an edge may come to a socket where another one was
    Outages,     \* the edges that may lose their supernode
    Losses,      \* whether other messages than packets may be lost
    Duplicates,  \* whether a message may be delivered twice
    Prompt,      \* whether they arrive within a tick
    Timed,       \* bound: whether there is more than one tick
    MaxMoves,    \* bound: how often sockets change
    MaxNet       \* bound: messages in flight; the network loses the rest

ASSUME PeerAssumption ==
    /\ IsFiniteSet(Edges) /\ IsFiniteSet(Sockets) /\ NoSock \notin Sockets
    /\ Home \in [Edges -> Sockets]
    /\ \A e, m \in Edges : Home[e] = Home[m] => e = m
    /\ Traffic \subseteq Edges \X Edges
    /\ {IdleAge, QueryAge, ExpireAge} \subseteq Nat \ {0} /\ MaxNet \in Nat
    /\ IdleAge < ExpireAge
    /\ MaxMoves \in Nat
    /\ Outages \subseteq Edges
    /\ {Reuse, Losses, Duplicates, Prompt, Timed} \subseteq BOOLEAN

VARIABLES
    \* of each edge
    pending,     \* pending_peers
    known,       \* known_peers
    sn_wait,     \* the supernode does not answer
    \* the world
    at,          \* the public socket of each edge
    registered,  \* the socket of each edge, as the supernode knows it
    net,         \* messages in flight
    moves,
    \* what the properties refer to
    past,        \* the sockets where each edge has been
    answered     \* the pairs <<m, s>> such that m acknowledged from s, of each edge

tables == <<pending, known>>
vars == <<tables, sn_wait, at, registered, net, moves, past, answered>>

Pending == [mac : Edges, sock : Sockets \cup {NoSock}, seen : 0 .. ExpireAge,
            asked : 0 .. QueryAge]
Known == [mac : Edges, sock : Sockets, seen : 0 .. ExpireAge, p2p : 0 .. IdleAge]
Messages == [type : {"PACKET", "REGISTER", "ACK", "INFO"}, sn : BOOLEAN,
             from : Edges, to : Edges, dst : Sockets, sock : Sockets]

\* The messages of which at most MaxNet are in flight: without losses, the packets.
Bounded(n) == IF Losses THEN n ELSE {x \in n : x.type = "PACKET"}

TypeOK ==
    /\ pending \in [Edges -> SUBSET Pending]
    /\ known \in [Edges -> SUBSET Known]
    /\ sn_wait \in [Edges -> BOOLEAN]
    /\ at \in [Edges -> Sockets] /\ registered \in [Edges -> Sockets]
    /\ net \subseteq Messages /\ Cardinality(Bounded(net)) <= MaxNet
    /\ moves \in 0 .. MaxMoves
    /\ past \in [Edges -> SUBSET Sockets]
    /\ answered \in [Edges -> SUBSET (Edges \X Sockets)]

Init ==
    /\ pending = [e \in Edges |-> {}]
    /\ known = [e \in Edges |-> {}]
    /\ sn_wait = [e \in Edges |-> FALSE]
    /\ at = Home /\ registered = Home
    /\ net = {}
    /\ moves = 0
    /\ past = [e \in Edges |-> {Home[e]}]
    /\ answered = [e \in Edges |-> {}]

----------------------------------------------------------------------------
(* Messages.                                                               *)

\* The receiver of a direct message sees the socket of its sender.
Direct(type, e, m, s) ==
    [type |-> type, sn |-> FALSE, from |-> e, to |-> m, dst |-> s, sock |-> at[e]]

\* The supernode writes the socket of the sender into what it relays.
Relayed(type, e, m) ==
    [type |-> type, sn |-> TRUE, from |-> e, to |-> m, dst |-> registered[m],
     sock |-> at[e]]

\* The answer to a QUERY_PEER of e for m.
PeerInfo(e, m) ==
    [type |-> "INFO", sn |-> TRUE, from |-> m, to |-> e, dst |-> at[e],
     sock |-> registered[m]]

\* New messages are sent.  One that stays in flight for ever is a lost one; when
\* there are more than MaxNet some are dropped.  Unless sockets change hands, what
\* is sent to a socket that an edge has left is lost at once.
InFlight(before, out) ==
    LET all == before \cup {n \in out : Reuse \/ \E e \in Edges : n.dst = at[e]}
    IN  net' \in {n \in SUBSET all :
                     /\ all \ n \subseteq Bounded(all)
                     /\ \/ Cardinality(Bounded(n)) = MaxNet
                        \/ n = all /\ Cardinality(Bounded(n)) < MaxNet}

----------------------------------------------------------------------------
(* The functions of edge_utils.c, on the tables of one edge: a record t of *)
(* its pending and known peers and the messages sent so far.               *)

Named(peers, m) == {k \in peers : k.mac = m}
AtSock(peers, s) == {k \in peers : k.sock = s}

\* A peer is looked for by its MAC address, then by its socket.
Found(peers, m, s) ==
    IF Named(peers, m) # {} THEN Named(peers, m) ELSE AtSock(peers, s)

TablesOf(e) == [pending |-> pending[e], known |-> known[e], out |-> {}]

find_and_remove_pending(t, m) == [t EXCEPT !.pending = @ \ Named(@, m)]

\* A pending peer is told its new socket, but not asked again.
register_with_new_peer(e, t, sn, m, s) ==
    IF Named(t.pending, m) = {}
    THEN [t EXCEPT
             !.pending = @ \cup {[mac |-> m, sock |-> s, seen |-> 0, asked |-> QueryAge]},
             !.out = @ \cup {Direct("REGISTER", e, m, s)}
                       \cup (IF sn THEN {Relayed("REGISTER", e, m)} ELSE {})]
    ELSE [t EXCEPT !.pending = {IF p.mac = m THEN [p EXCEPT !.sock = s, !.seen = 0] ELSE p :
                                   p \in @}]

\* The peer of the known entry k was heard at s, not in the same second as before.
check_known_peer_sock_change(e, t, k, sn, s) ==
    IF k.sock = s THEN [t EXCEPT !.known = (@ \ {k}) \cup {[k EXCEPT !.seen = 0]}]
    ELSE IF sn THEN t
    ELSE register_with_new_peer(e, [t EXCEPT !.known = @ \ {k}], sn, k.mac, s)

\* Something came from m at s.  A known peer that is found takes the MAC address.  The
\* possible outcomes.
check_peer_registration_needed(e, t, sn, m, s) ==
    LET found == Found(t.known, m, s)
        refreshed(k) == [k EXCEPT !.mac = m, !.p2p = IF sn THEN @ ELSE 0]
        with(k) == [t EXCEPT !.known = (@ \ {k}) \cup {refreshed(k)}]
    IN  IF found = {} THEN {register_with_new_peer(e, t, sn, m, s)}
        ELSE {check_known_peer_sock_change(e, with(k), refreshed(k), sn, s) : k \in found}
             \cup {with(k) : k \in {x \in found : x.seen = 0}}

\* Mutant: the socket the supernode reported is kept.
peer_set_p2p_confirmed_keepsSock(t, m, s) ==
    IF Named(t.pending, m) = {} THEN {t}
    ELSE {[t EXCEPT !.pending = @ \ {p},
                    !.known = @ \cup {[mac |-> m, sock |-> p.sock, seen |-> 0, p2p |-> 0]}] :
             p \in Named(t.pending, m)}

\* Mutant: a known entry of the same socket stays.
peer_set_p2p_confirmed_addsOnly(t, m, s) ==
    LET found == Found(t.pending, m, s)
    IN  IF found = {} THEN {t}
        ELSE {[t EXCEPT !.pending = @ \ {p},
                        !.known = @ \cup {[mac |-> m, sock |-> s, seen |-> 0, p2p |-> 0]}] :
                 p \in found}

\* Mutant: the peer stays pending.
peer_set_p2p_confirmed_staysPending(t, m, s) ==
    IF Named(t.pending, m) = {} THEN {t}
    ELSE {[t EXCEPT !.known = (@ \ AtSock(@, s))
                              \cup {[mac |-> m, sock |-> s, seen |-> 0, p2p |-> 0]}]}

\* An acknowledgement came from m at s: a pending peer that is found becomes a known
\* one.  A known entry with that socket takes its place and the MAC address m;
\* otherwise the entry keeps its own.
peer_set_p2p_confirmed(t, m, s) ==
    LET found == Found(t.pending, m, s)
        same == AtSock(t.known, s)
        confirmed(mac) == [mac |-> mac, sock |-> s, seen |-> 0, p2p |-> 0]
    IN  IF found = {} THEN {t}
        ELSE IF same = {}
        THEN {[t EXCEPT !.pending = @ \ {p}, !.known = @ \cup {confirmed(p.mac)}] : p \in found}
        ELSE {[t EXCEPT !.pending = @ \ {x[1]}, !.known = (@ \ {x[2]}) \cup {confirmed(m)}] :
                 x \in found \X same}

\* The supernode is asked for m, once in a registration interval for each entry.
check_query_peer_info(e, t, m) ==
    LET fresh == [mac |-> m, sock |-> NoSock, seen |-> 0, asked |-> QueryAge]
        peers == IF Named(t.pending, m) = {} THEN t.pending \cup {fresh} ELSE t.pending
        due == \E p \in Named(peers, m) : p.asked >= QueryAge
    IN  [t EXCEPT
            !.pending = {IF p.mac = m /\ due THEN [p EXCEPT !.asked = 0] ELSE p : p \in peers},
            !.out = IF due THEN @ \cup {Relayed("REGISTER", e, m), PeerInfo(e, m)} ELSE @]

\* Mutant: a silent peer is still sent to directly.
find_peer_destination_never_idle(e, t, m) ==
    LET found == Named(t.known, m)
    IN  IF found # {}
        THEN {[t EXCEPT !.out = @ \cup {Direct("PACKET", e, m, k.sock)}] : k \in found}
        ELSE {check_query_peer_info(e, [t EXCEPT !.out = @ \cup {Relayed("PACKET", e, m)}], m)}

\* Where a packet for m goes, and the possible tables after it: a known peer that
\* was silent is dropped, and asked for again.
find_peer_destination(e, t, m) ==
    LET found == Named(t.known, m)
        viaSn == [t EXCEPT !.out = @ \cup {Relayed("PACKET", e, m)}]
    IN  IF found = {} THEN {check_query_peer_info(e, viaSn, m)}
        ELSE {IF k.p2p < IdleAge
              THEN [t EXCEPT !.out = @ \cup {Direct("PACKET", e, m, k.sock)}]
              ELSE check_query_peer_info(e, [viaSn EXCEPT !.known = @ \ {k}], m) :
                 k \in found}

----------------------------------------------------------------------------
(* The steps of an edge.                                                   *)

\* The tables of e become those of t, and what t holds is sent.
Becomes(e, t, before) ==
    /\ pending' = [pending EXCEPT ![e] = t.pending]
    /\ known' = [known EXCEPT ![e] = t.known]
    /\ InFlight(before, t.out)

\* edge_send_packet2net, send_packet
SendPacket(e, m) ==
    /\ <<e, m>> \in Traffic
    /\ \E t \in find_peer_destination(e, TablesOf(e), m) : Becomes(e, t, net)
    /\ UNCHANGED <<sn_wait, at, registered, moves, past, answered>>

\* recvfrom: what remains in flight.
Remaining(n) == {net \ {n}} \cup (IF Duplicates THEN {net} ELSE {})

\* A packet need not be for this edge: only its payload tells.
ReceivePacket(e, n) ==
    /\ n.type = "PACKET" /\ n.dst = at[e]
    /\ LET t == IF n.sn THEN TablesOf(e) ELSE find_and_remove_pending(TablesOf(e), n.from)
       IN  \E r \in check_peer_registration_needed(e, t, n.sn, n.from, n.sock),
              before \in Remaining(n) : Becomes(e, r, before)
    /\ UNCHANGED <<sn_wait, at, registered, moves, past, answered>>

\* Only a direct REGISTER is acknowledged.
ReceiveRegister(e, n) ==
    /\ n.type = "REGISTER" /\ n.dst = at[e] /\ n.to = e
    /\ LET t == find_and_remove_pending(TablesOf(e), n.from)
           acked == [t EXCEPT !.out = {Direct("ACK", e, n.from, n.sock)}]
       IN  \E r \in check_peer_registration_needed(
                        e, IF n.sn THEN TablesOf(e) ELSE acked, n.sn, n.from, n.sock),
              before \in Remaining(n) : Becomes(e, r, before)
    /\ UNCHANGED <<sn_wait, at, registered, moves, past, answered>>

SkipRegister(e, n) ==
    /\ n.type = "REGISTER" /\ n.dst = at[e] /\ n.to # e
    /\ \E before \in Remaining(n) : InFlight(before, {})
    /\ UNCHANGED <<tables, sn_wait, at, registered, moves, past, answered>>

ReceiveAck(e, n) ==
    /\ n.type = "ACK" /\ n.dst = at[e]
    /\ \E t \in peer_set_p2p_confirmed(TablesOf(e), n.from, n.sock),
          before \in Remaining(n) : Becomes(e, t, before)
    /\ answered' = [answered EXCEPT ![e] = @ \cup {<<n.from, n.sock>>}]
    /\ UNCHANGED <<sn_wait, at, registered, moves, past>>

\* A PEER_INFO about a pending peer tells its socket, and it is asked there.
ReceivePeerInfo(e, n) ==
    /\ n.type = "INFO" /\ n.dst = at[e]
    /\ LET t == TablesOf(e)
           told == [t EXCEPT
               !.pending = {IF p.mac = n.from THEN [p EXCEPT !.sock = n.sock] ELSE p : p \in @},
               !.out = IF Named(t.pending, n.from) = {} THEN {}
                       ELSE {Direct("REGISTER", e, n.from, n.sock)}]
       IN  \E before \in Remaining(n) : Becomes(e, told, before)
    /\ UNCHANGED <<sn_wait, at, registered, moves, past, answered>>

\* The peers without one of the entries of m.
Dropped(peers, m) ==
    IF Named(peers, m) = {} THEN {peers} ELSE {peers \ {k} : k \in Named(peers, m)}

\* A REGISTER_SUPER_NAK for m, sent to a socket of m that e has now.
ReceiveNak(e, m) ==
    /\ e # m /\ at[e] \in past[m]
    /\ \E k \in Dropped(known[e], m) : known' = [known EXCEPT ![e] = k]
    /\ \E p \in Dropped(pending[e], m) : pending' = [pending EXCEPT ![e] = p]
    /\ UNCHANGED <<sn_wait, at, registered, net, moves, past, answered>>

\* While there is no supernode, known peers that are silent are told that e is there.
Safeguard(e) ==
    LET silent == {k \in known[e] : k.seen >= QueryAge}
    IN  /\ sn_wait[e] /\ silent # {}
        /\ InFlight(net, {Direct("REGISTER", e, k.mac, k.sock) : k \in silent})
        /\ UNCHANGED <<tables, sn_wait, at, registered, moves, past, answered>>

\* purge_expired_nodes; the known peers are kept while there is no supernode.
PurgePending(e) ==
    /\ \E p \in pending[e] : p.seen >= ExpireAge
    /\ pending' = [pending EXCEPT ![e] = {p \in @ : p.seen < ExpireAge}]
    /\ UNCHANGED <<known, sn_wait, at, registered, net, moves, past, answered>>

PurgeKnown(e) ==
    /\ ~sn_wait[e]
    /\ \E k \in known[e] : k.seen >= ExpireAge
    /\ known' = [known EXCEPT ![e] = {k \in @ : k.seen < ExpireAge}]
    /\ UNCHANGED <<pending, sn_wait, at, registered, net, moves, past, answered>>

----------------------------------------------------------------------------
(* The world.                                                              *)

Older(age, bound) == IF age < bound THEN age + 1 ELSE age

\* Other than a packet, and to where e is now.
OnItsWay(e, n) == n.type # "PACKET" /\ n.dst = at[e]

Tick ==
    /\ Timed
    /\ Prompt => \A e \in Edges, n \in net : ~OnItsWay(e, n)
    /\ pending' = [e \in Edges |->
          {[p EXCEPT !.seen = Older(@, ExpireAge), !.asked = Older(@, QueryAge)] :
              p \in pending[e]}]
    /\ known' = [e \in Edges |->
          {[k EXCEPT !.seen = Older(@, ExpireAge), !.p2p = Older(@, IdleAge)] :
              k \in known[e]}]
    /\ UNCHANGED <<sn_wait, at, registered, net, moves, past, answered>>

\* An edge gets another public socket.
Move(e, s) ==
    /\ moves < MaxMoves
    /\ \A m \in Edges : at[m] # s
    /\ Reuse \/ \A m \in Edges : s \notin past[m]
    /\ at' = [at EXCEPT ![e] = s]
    /\ past' = [past EXCEPT ![e] = @ \cup {s}]
    /\ net' = {n \in net : Reuse \/ n.dst # at[e]}
    /\ moves' = moves + 1
    /\ UNCHANGED <<tables, sn_wait, registered, answered>>

\* The edge registers with the supernode from where it is.
Reregister(e) ==
    /\ ~sn_wait[e]
    /\ registered' = [registered EXCEPT ![e] = at[e]]
    /\ UNCHANGED <<tables, sn_wait, at, net, moves, past, answered>>

Outage(e) ==
    /\ e \in Outages
    /\ sn_wait' = [sn_wait EXCEPT ![e] = ~@]
    /\ UNCHANGED <<tables, at, registered, net, moves, past, answered>>

Receive(e, n) == \/ ReceivePacket(e, n) \/ ReceiveRegister(e, n) \/ SkipRegister(e, n)
                 \/ ReceiveAck(e, n) \/ ReceivePeerInfo(e, n)

Next ==
    \/ \E e \in Edges :
          \/ \E m \in Edges : SendPacket(e, m) \/ ReceiveNak(e, m)
          \/ \E n \in net : Receive(e, n)
          \/ PurgePending(e) \/ PurgeKnown(e) \/ Safeguard(e)
          \/ \E s \in Sockets : Move(e, s)
          \/ Reregister(e) \/ Outage(e)
    \/ Tick

Spec == Init /\ [][Next]_vars

\* Edges keep sending, an edge registers again and again, and messages other than
\* packets arrive, one of each kind, if the receiver stays where it is.
Fairness ==
    /\ WF_vars(Tick)
    /\ \A e \in Edges : WF_vars(Reregister(e))
    /\ \A e \in Edges, type \in {"REGISTER", "ACK", "INFO"}, sn \in BOOLEAN :
          WF_vars(\E n \in net : /\ n.type = type /\ n.sn = sn
                                 /\ OnItsWay(e, n) /\ Receive(e, n))
    /\ \A e, m \in Edges : <<e, m>> \in Traffic => WF_vars(SendPacket(e, m))

FairSpec == Spec /\ Fairness
----------------------------------------------------------------------------
(* Properties.                                                             *)

\* An edge never has two known peers at one socket: find_peer_by_sock is asked
\* before an entry enters known_peers, and both ways of changing an entry's MAC
\* address (check_peer_registration_needed, peer_set_p2p_confirmed) reuse the
\* entry of that socket.
OneEntryPerSocket ==
    \A e \in Edges : \A k, l \in known[e] : k.sock = l.sock => k = l

\* An edge is or was where another one was before.
SocketTaken == \E e, m \in Edges : e # m /\ past[e] \cap past[m] # {}

\* A MAC address is in one table at most, and once: else a stale entry comes to
\* light when the newer one is dropped.  peer_set_p2p_confirmed looks into
\* known_peers by socket alone, so this needs that no edge takes over a socket.
OneEntryPerPeer ==
    ~SocketTaken => \A e \in Edges :
        /\ \A p \in pending[e] : \A k \in known[e] : p.mac # k.mac
        /\ \A k, l \in known[e] : k.mac = l.mac => k = l
        /\ \A p, q \in pending[e] : p.mac = q.mac => p = q

\* Packets go directly only to a socket from which an acknowledgement came
\* ("Confirm that a pending peer is reachable directly via P2P"), whatever the
\* supernode reports; unless sockets change hands, one of that very peer.
DirectOnlyWhereAnswered ==
    \A e \in Edges : \A k \in known[e] :
        /\ \E m \in Edges : <<m, k.sock>> \in answered[e]
        /\ SocketTaken \/ <<k.mac, k.sock>> \in answered[e]

\* When sockets no longer change, an edge that keeps sending to another one has
\* again and again a direct way to where that one is.
DirectAgain ==
    \A e, m \in Edges : <<e, m>> \in Traffic =>
        []<>(\E k \in known[e] : k.mac = m /\ k.sock = at[m])
=============================================================================
