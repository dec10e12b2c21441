-------------------------- MODULE SupernodeSession --------------------------
(***************************************************************************)
(* How an edge finds a supernode, registers with it, keeps the             *)
(* registration alive and fails over to another one: the bootstrap loop of *)
(* start_edge_v3, then the part of run_edge_loop and process_udp that      *)
(* deals with supernodes, over UDP.                                        *)
(*                                                                         *)
(* One edge thread runs; the network and the supernodes run beside it.     *)
(* What a supernode answers depends on nothing but the request and whether *)
(* it is up, so a request and its answer are one step here: the answer is  *)
(* put in flight when the request is sent, and may be lost, delayed,       *)
(* overtaken or delivered twice.                                           *)
(*                                                                         *)
(* A tick of the clock is the three seconds of BOOTSTRAP_TIMEOUT and of a  *)
(* fast retry.                                                             *)
(***************************************************************************)
EXTENDS SupernodeList, Integers

CONSTANTS
    Configured,   \* the supernodes of the settings, in order
    Payloads,     \* the lists of other supernodes an acknowledgement may carry
    IpMode,       \* "static" or "assign" (TUNTAP_IP_MODE_SN_ASSIGN)
    Loads,        \* the loads a supernode may report
    SupAttempts,  \* N2N_EDGE_SUP_ATTEMPTS
    RegisterInterval, SweepTime,  \* register_interval and SWEEP_TIME, in ticks
    CloseSocketMax,   \* N2N_CLOSE_SOCKET_COUNTER_MAX
    Peers,        \* how many peers the edge knows, all external
    Reboots,      \* the supernodes that go down and come up
    Naks,         \* whether a supernode may refuse a registration
    Losses,       \* whether answers may be lost
    Duplicates,   \* whether an answer may be delivered twice
    ResolveFails, \* whether getaddrinfo may fail
    MaxNet        \* bound: answers in flight; the network loses the rest

\* An acknowledgement names the entries of a supernode's table, and
\* edge_conf_add_supernode adds only what it does not find.
ASSUME SessionAssumption ==
    /\ Configured \in Seq(Sns) /\ Len(Configured) > 0
    /\ \A w \in Payloads : w \in Seq(Sns)
    /\ \A w \in Payloads \cup {Configured} : \A i, j \in DOMAIN w : w[i] = w[j] => i = j
    /\ IpMode \in {"static", "assign"}
    /\ Loads \subseteq Nat /\ \A x \in Loads : x < 100
    /\ {SupAttempts, RegisterInterval, SweepTime, CloseSocketMax, MaxNet} \subseteq Nat \ {0}
    /\ Peers \in Nat
    /\ Reboots \subseteq Sns
    /\ {Naks, Losses, Duplicates, ResolveFails} \subseteq BOOLEAN

\* selection_criterion: a load, or one of the three values next to UINT32_MAX >> 1.
CriterionGood == 100
CriterionDefault == 101
CriterionBad == 102
Criteria == 0 .. CriterionBad

\* last_cookie is drawn at random: never one that is still around.
NoCookie == 0
Cookies == 0 .. Cardinality(Sns) + MaxNet + 1

VARIABLES
    \* the thread
    runlevel,     \* 0..4 in the bootstrap loop, 5 in run_edge_loop, 6 after a NAK
    pc,           \* in run_edge_loop: "select", "update" or "sweep"
    late,         \* last_action is a BOOTSTRAP_TIMEOUT or more ago
    reqAge,       \* now - last_register_req, in ticks
    sweepAge,     \* now - last_sweep, in ticks
    \* n2n_edge_t
    supernodes,   \* conf.supernodes
    mac,          \* the supernodes whose mac_addr is known
    criterion,    \* selection_criterion of each
    last_cookie,  \* of each
    curr_sn, sup_attempts, sn_wait, sn_pong, close_socket_counter,
    last_sup,     \* whether it is not 0
    \* the world
    net,          \* answers in flight
    up,           \* the supernodes that answer
    \* what the properties refer to
    holder,       \* the supernode whose acknowledgement was accepted last
    realAck,      \* one for a REGISTER_SUPER with a MAC address was, or
                  \* run_edge_loop could not send one
    tries         \* registrations tried with curr_sn since it answered or was chosen

timers == <<late, reqAge, sweepAge>>
thread == <<runlevel, pc>>
list   == <<supernodes, mac, criterion>>
session == <<curr_sn, last_cookie, sup_attempts, sn_wait, close_socket_counter>>
ghosts == <<holder, realAck, tries>>
vars == <<thread, timers, list, session, sn_pong, last_sup, net, up, ghosts>>

Ack(s, cookie, real, others) ==
    [type |-> "ACK", sn |-> s, cookie |-> cookie, real |-> real, others |-> others]
Pong(s, load) == [type |-> "PONG", sn |-> s, load |-> load]
Nak(s) == [type |-> "NAK", sn |-> s]

Answers == [type : {"ACK"}, sn : Sns, cookie : Cookies, real : BOOLEAN, others : Payloads]
           \cup [type : {"PONG"}, sn : Sns, load : Loads]
           \cup [type : {"NAK"}, sn : Sns]

TypeOK ==
    /\ runlevel \in 0 .. 6 /\ pc \in {"select", "update", "sweep"}
    /\ late \in BOOLEAN
    /\ reqAge \in 0 .. RegisterInterval /\ sweepAge \in 0 .. SweepTime + 1
    /\ supernodes \in Lists /\ mac \subseteq Sns
    /\ criterion \in [Sns -> Criteria]
    /\ last_cookie \in [Sns -> Cookies]
    /\ curr_sn \in Sns
    /\ sup_attempts \in 0 .. SupAttempts
    /\ {sn_wait, sn_pong, last_sup, realAck} \subseteq BOOLEAN
    /\ close_socket_counter \in 0 .. CloseSocketMax - 1
    /\ net \subseteq Answers /\ Cardinality(net) <= MaxNet
    /\ up \subseteq Sns
    /\ holder \in Sns \cup {Nil}
    /\ tries \in 0 .. SupAttempts + 1

Init ==
    /\ runlevel = IF Len(Configured) = 1 THEN 2 ELSE 0
    /\ pc = "select"
    /\ late = FALSE /\ reqAge = RegisterInterval /\ sweepAge = 0
    /\ supernodes = ListOf(Configured)
    /\ mac = {}
    /\ criterion = [s \in Sns |-> CriterionDefault]
    /\ last_cookie = [s \in Sns |-> NoCookie]
    /\ curr_sn = Configured[1]
    /\ sup_attempts = SupAttempts
    /\ sn_wait = FALSE /\ sn_pong = FALSE /\ last_sup = FALSE
    /\ close_socket_counter = 0
    /\ net = {}
    /\ up \in {Sns \ down : down \in SUBSET Reboots}
    /\ holder = Nil /\ realAck = FALSE /\ tries = 0

----------------------------------------------------------------------------
(* The network.                                                            *)

\* The edge sent requests that have these answers.  An answer that stays in flight
\* for ever is a lost one; when there are more than MaxNet, some are dropped.
\* Without losses these are not the acknowledgement or, in the bootstrap, the
\* only PONG.
InFlight(before, answers) ==
    /\ net' \in {n \in SUBSET (before \cup answers) :
                    \/ Cardinality(n) = MaxNet
                    \/ n = before \cup answers /\ Cardinality(n) < MaxNet}
    /\ Losses \/ {a \in answers : a.type = "ACK"} \subseteq net'
    /\ Losses \/ runlevel = 5 \/ answers = {} \/ answers \cap net' # {}

PongsTo(pinged) == {w \in [pinged \cap up -> Loads] : TRUE}

\* send_query_peer(null_mac), to at most as many supernodes as there are here.
PongsOf(loads) == {Pong(s, loads[s]) : s \in DOMAIN loads}

\* The old answers to s are still about, and so may be the cookies of others.
FreshCookie ==
    CHOOSE c \in Cookies \ {NoCookie} :
        /\ \A a \in net : a.type = "ACK" => a.cookie # c
        /\ \A s \in Sns : last_cookie[s] # c

\* The answers to send_register_super(s): it carries the MAC address once
\* tuntap_open has set it, at the end of the bootstrap.
RegisterAnswers(s) ==
    IF s \notin up THEN {{}}
    ELSE {{Ack(s, FreshCookie, runlevel = 5, others)} : others \in Payloads}
         \cup (IF Naks THEN {{Nak(s)}} ELSE {})

send_register_super(s) == last_cookie' = [last_cookie EXCEPT ![s] = FreshCookie]

----------------------------------------------------------------------------
(* The bootstrap loop, one level at a time: the conditions exclude each    *)
(* other, and the loop waits in select() when none of them holds.          *)

Ping ==
    /\ runlevel = 0
    /\ runlevel' = 1
    /\ late' = FALSE
    /\ sn_pong' = FALSE
    /\ \E loads \in PongsTo(Listed(supernodes)) : InFlight(net, PongsOf(loads))
    /\ UNCHANGED <<pc, reqAge, sweepAge, list, session, last_sup, up, ghosts>>

FirstPong ==
    /\ runlevel = 1 /\ sn_pong
    /\ runlevel' = 2
    /\ sn_pong' = FALSE
    /\ supernodes' = SelectionSort(supernodes, criterion)
    /\ curr_sn' = supernodes'.head
    /\ UNCHANGED <<pc, timers, mac, criterion, last_cookie, sup_attempts, sn_wait,
                   close_socket_counter, last_sup, net, up, ghosts>>

PongTimeout ==
    /\ runlevel = 1 /\ ~sn_pong /\ late
    /\ runlevel' = 0
    /\ UNCHANGED <<pc, timers, list, session, sn_pong, last_sup, net, up, ghosts>>

\* "have every later PONG cause the remaining (!) list to be sorted"
LaterPong ==
    /\ runlevel \in {2, 3} /\ sn_pong
    /\ sn_pong' = FALSE
    /\ supernodes' = IF supernodes.next[curr_sn] = Nil THEN supernodes
                     ELSE SortRemaining(supernodes, curr_sn, criterion)
    /\ UNCHANGED <<thread, timers, mac, criterion, session, last_sup, net, up, ghosts>>

AskForAddress ==
    /\ runlevel = 2 /\ ~sn_pong /\ IpMode = "assign"
    /\ runlevel' = 3
    /\ late' = FALSE
    /\ sn_wait' = TRUE
    /\ send_register_super(curr_sn)
    /\ \E answers \in RegisterAnswers(curr_sn) : InFlight(net, answers)
    /\ UNCHANGED <<pc, reqAge, sweepAge, list, curr_sn, sup_attempts,
                   close_socket_counter, sn_pong, last_sup, up, ghosts>>

AddressTimeout ==
    /\ runlevel = 3 /\ ~sn_pong /\ sn_wait /\ late
    /\ runlevel' = 2
    /\ curr_sn' = IF supernodes.next[curr_sn] # Nil THEN supernodes.next[curr_sn]
                  ELSE supernodes.head
    /\ UNCHANGED <<pc, timers, list, last_cookie, sup_attempts, sn_wait,
                   close_socket_counter, sn_pong, last_sup, net, up, ghosts>>

\* The shape the bootstrap leaves: the supernodes listed are reset, the current
\* one made good, and the whole list sorted.
Reshaped(l, crit) ==
    [s \in Sns |-> IF s \notin Listed(l) THEN crit[s]
                   ELSE IF s = curr_sn THEN CriterionGood ELSE CriterionDefault]

\* Runlevel 4 and what follows the loop.
Bootstrapped ==
    /\ \/ runlevel = 2 /\ ~sn_pong /\ IpMode = "static"
       \/ runlevel = 3 /\ ~sn_pong /\ ~sn_wait
    /\ runlevel' = 5
    /\ criterion' = Reshaped(supernodes, criterion)
    /\ supernodes' = SelectionSort(supernodes, criterion')
    /\ sweepAge' = IF SweepTime > 2 THEN SweepTime - 2 ELSE 0
    /\ reqAge' = RegisterInterval
    /\ sn_wait' = TRUE
    /\ pc' = "update"
    /\ tries' = 0
    /\ late' = FALSE
    /\ UNCHANGED <<mac, curr_sn, last_cookie, sup_attempts,
                   close_socket_counter, sn_pong, last_sup, net, up, holder, realAck>>

----------------------------------------------------------------------------
(* select() and process_udp, in the bootstrap loop and in the main loop.   *)

Waiting == \/ runlevel = 1 /\ ~sn_pong /\ ~late
           \/ runlevel = 3 /\ ~sn_pong /\ ~late /\ sn_wait
           \/ runlevel = 5 /\ pc = "select"

AtMost(n, bound) == IF n > bound THEN bound ELSE n

\* select() returned after so many ticks; the bootstrap loop looks at its last
\* action, the main loop goes on to update_supernode_reg.
Elapse(ticks) ==
    IF runlevel < 5
    THEN /\ late' = (late \/ ticks > 0)
         /\ UNCHANGED <<pc, reqAge, sweepAge>>
    ELSE /\ pc' = "update"
         /\ reqAge' = AtMost(reqAge + ticks, RegisterInterval)
         /\ sweepAge' = AtMost(sweepAge + ticks, SweepTime + 1)
         /\ UNCHANGED late

NothingCame ==
    /\ Waiting
    /\ Elapse(1)
    /\ UNCHANGED <<runlevel, list, session, sn_pong, last_sup, net, up, ghosts>>

Receive(a) ==
    /\ Waiting
    /\ \E ticks \in {0, 1} : Elapse(ticks)
    /\ \/ net' = net \ {a}
       \/ Duplicates /\ UNCHANGED net
    /\ UNCHANGED up

\* Packets of a supernode that is not listed are dropped (but for a NAK).
FromUnknown(a) ==
    /\ a.type # "NAK" /\ a.sn \notin Listed(supernodes)
    /\ Receive(a)
    /\ UNCHANGED <<runlevel, list, session, sn_pong, last_sup, ghosts>>

\* An entry is deleted and added again when its key, the MAC address, is set.
WithMac(l, s) == IF s \in mac THEN l ELSE HASH_ADD_PEER(HASH_DEL(l, s), s)

\* add_sn_to_list_by_mac_or_sock for each supernode the payload names.
WithPayload(l, known, w) ==
    LET add[n \in 0 .. Len(w)] ==
            IF n = 0 THEN l
            ELSE IF w[n] \in known THEN add[n - 1]
            ELSE IF w[n] \in Listed(add[n - 1])
                 THEN HASH_ADD_PEER(HASH_DEL(add[n - 1], w[n]), w[n])
                 ELSE HASH_ADD_PEER(add[n - 1], w[n])
    IN  add[Len(w)]

\* Mutant: the cookie is not compared.
ReceiveAck_anyCookie(a) ==
    /\ a.type = "ACK" /\ a.sn \in Listed(supernodes) /\ sn_wait
    /\ Receive(a)
    /\ sn_wait' = FALSE
    /\ sup_attempts' = SupAttempts
    /\ last_sup' = (last_sup \/ runlevel = 5)
    /\ holder' = a.sn
    /\ realAck' = (realAck \/ a.real)
    /\ tries' = 0
    /\ UNCHANGED <<runlevel, list, curr_sn, last_cookie, close_socket_counter, sn_pong>>

\* Mutant: sup_attempts is not refreshed.
ReceiveAck_keepsAttempts(a) ==
    /\ a.type = "ACK" /\ a.sn \in Listed(supernodes) /\ sn_wait
    /\ a.cookie = last_cookie[curr_sn]
    /\ Receive(a)
    /\ sn_wait' = FALSE
    /\ holder' = a.sn
    /\ realAck' = (realAck \/ a.real)
    /\ tries' = 0
    /\ UNCHANGED <<runlevel, list, curr_sn, last_cookie, sup_attempts,
                   last_sup, close_socket_counter, sn_pong>>

\* Mutant: bootstrap acknowledgements count as registrations.
ReceiveAck_bootstrapCounts(a) ==
    /\ a.type = "ACK" /\ a.sn \in Listed(supernodes) /\ sn_wait
    /\ a.cookie = last_cookie[curr_sn]
    /\ Receive(a)
    /\ last_sup' = TRUE
    /\ sn_wait' = FALSE
    /\ sup_attempts' = SupAttempts
    /\ holder' = a.sn
    /\ realAck' = (realAck \/ a.real)
    /\ tries' = 0
    /\ UNCHANGED <<runlevel, list, curr_sn, last_cookie, close_socket_counter, sn_pong>>

\* A REGISTER_SUPER_ACK is accepted while one is awaited and if it carries the
\* last cookie of the current supernode, whoever sent it.
ReceiveAck(a) ==
    /\ a.type = "ACK" /\ a.sn \in Listed(supernodes)
    /\ Receive(a)
    /\ IF sn_wait /\ a.cookie = last_cookie[curr_sn]
       THEN LET known == mac \cup {curr_sn}
                l == WithPayload(WithMac(supernodes, curr_sn), known, a.others)
                others == {a.others[i] : i \in DOMAIN a.others}
            IN  /\ supernodes' = l
                /\ mac' = known \cup others
                /\ criterion' = [s \in Sns |->
                       IF s \in others \ (known \cup Listed(supernodes))
                       THEN CriterionDefault ELSE criterion[s]]
                /\ last_sup' = (last_sup \/ runlevel = 5)
                /\ sn_wait' = FALSE
                /\ sup_attempts' = SupAttempts
                /\ holder' = a.sn
                /\ realAck' = (realAck \/ a.real)
                /\ tries' = 0
       ELSE UNCHANGED <<list, last_sup, sn_wait, sup_attempts, ghosts>>
    /\ UNCHANGED <<runlevel, curr_sn, last_cookie, close_socket_counter, sn_pong>>

\* A PONG: the load counts less for the current supernode (stickyness).
ReceivePong(a) ==
    /\ a.type = "PONG" /\ a.sn \in Listed(supernodes)
    /\ Receive(a)
    /\ supernodes' = WithMac(supernodes, a.sn)
    /\ mac' = mac \cup {a.sn}
    /\ sn_pong' = TRUE
    /\ criterion' = [criterion EXCEPT ![a.sn] =
           IF a.sn = curr_sn THEN (a.load * Peers) \div (Peers + 1) ELSE a.load]
    /\ UNCHANGED <<runlevel, session, last_sup, ghosts>>

\* A REGISTER_SUPER_NAK for this edge ends the thread.
ReceiveNak(a) ==
    /\ a.type = "NAK"
    /\ Receive(a)
    /\ runlevel' = 6
    /\ UNCHANGED <<list, session, sn_pong, last_sup, ghosts>>

----------------------------------------------------------------------------
(* The rest of an iteration of run_edge_loop.                              *)

RegistrationDue == (sn_wait /\ reqAge > 0) \/ reqAge >= RegisterInterval

NotDue ==
    /\ runlevel = 5 /\ pc = "update" /\ ~RegistrationDue
    /\ pc' = "sweep"
    /\ UNCHANGED <<runlevel, timers, list, session, sn_pong, last_sup, net, up, ghosts>>

\* Mutant: the supernode that failed is not marked bad.
FailOver_notBad ==
    /\ LET l == SelectionSort(supernodes, criterion)
       IN  /\ supernodes' = l /\ curr_sn' = l.head /\ UNCHANGED criterion
    /\ sup_attempts' = SupAttempts
    /\ tries' = 1
    /\ UNCHANGED close_socket_counter

\* "Give up on that supernode and try the next one": without known peers the
\* socket is closed and opened again every so often, and what was in flight to
\* the old one is lost.
FailOver ==
    /\ criterion' = [criterion EXCEPT ![curr_sn] = CriterionBad]
    /\ supernodes' = SelectionSort(supernodes, criterion')
    /\ curr_sn' = supernodes'.head
    /\ sup_attempts' = SupAttempts
    /\ close_socket_counter' = IF Peers > 0 THEN close_socket_counter
                               ELSE (close_socket_counter + 1) % CloseSocketMax
    /\ tries' = 1

SocketReopened ==
    sup_attempts = 0 /\ Peers = 0 /\ close_socket_counter = CloseSocketMax - 1

\* Mutant: one attempt more than there are.
OutOfAttempts_late == sup_attempts + 1 = 0

OutOfAttempts == sup_attempts = 0

TryAgain ==
    /\ sup_attempts' = sup_attempts - 1
    /\ tries' = AtMost(tries + 1, SupAttempts + 1)
    /\ UNCHANGED <<supernodes, criterion, curr_sn, close_socket_counter>>

\* update_supernode_reg, when it is not too early.
Register ==
    /\ runlevel = 5 /\ pc = "update" /\ RegistrationDue
    /\ IF OutOfAttempts THEN FailOver ELSE TryAgain
    /\ \/ /\ send_register_super(curr_sn')
          /\ \E answers \in RegisterAnswers(curr_sn') :
                InFlight(IF SocketReopened THEN {} ELSE net, answers)
          /\ UNCHANGED realAck
       \/ /\ ResolveFails
          /\ realAck' = TRUE
          /\ UNCHANGED last_cookie
          /\ InFlight(IF SocketReopened THEN {} ELSE net, {})
    /\ sn_wait' = TRUE
    /\ reqAge' = 0
    /\ pc' = "sweep"
    /\ UNCHANGED <<runlevel, late, sweepAge, mac, sn_pong, last_sup, up, holder>>

NoSweep ==
    /\ runlevel = 5 /\ pc = "sweep" /\ sweepAge <= SweepTime
    /\ pc' = "select"
    /\ UNCHANGED <<runlevel, timers, list, session, sn_pong, last_sup, net, up, ghosts>>

\* "we have not been connected to the best/top one"
Switch(to) ==
    /\ curr_sn' = to
    /\ sup_attempts' = SupAttempts
    /\ tries' = 1
    /\ send_register_super(to)
    /\ sn_wait' = TRUE

\* sort_supernodes.  The supernode left gets an UNREGISTER_SUPER.
Sweep ==
    /\ runlevel = 5 /\ pc = "sweep" /\ sweepAge > SweepTime
    /\ supernodes' = IF sn_wait THEN supernodes ELSE SelectionSort(supernodes, criterion)
    /\ IF curr_sn # supernodes'.head
       THEN Switch(supernodes'.head)
       ELSE UNCHANGED <<curr_sn, sup_attempts, tries, last_cookie, sn_wait>>
    /\ \E answers \in IF curr_sn # supernodes'.head
                      THEN RegisterAnswers(supernodes'.head) ELSE {{}},
          loads \in PongsTo(Listed(supernodes)) :
              InFlight(net, answers \cup PongsOf(loads))
    /\ criterion' = [s \in Sns |->
           IF s \notin Listed(supernodes) THEN criterion[s]
           ELSE IF s = curr_sn' THEN CriterionGood ELSE CriterionDefault]
    /\ sweepAge' = 0
    /\ sn_pong' = FALSE
    /\ pc' = "select"
    /\ UNCHANGED <<runlevel, late, reqAge, mac, close_socket_counter, last_sup, up,
                   holder, realAck>>

\* A supernode goes down or comes up.
Reboot(s) ==
    /\ s \in Reboots
    /\ up' = IF s \in up THEN up \ {s} ELSE up \cup {s}
    /\ UNCHANGED <<thread, timers, list, session, sn_pong, last_sup, net, ghosts>>

Bootstrap == \/ Ping \/ FirstPong \/ PongTimeout \/ LaterPong \/ AskForAddress
             \/ AddressTimeout \/ Bootstrapped
ProcessUdp(a) == FromUnknown(a) \/ ReceiveAck(a) \/ ReceivePong(a) \/ ReceiveNak(a)
MainLoop == NotDue \/ Register \/ NoSweep \/ Sweep

Next == \/ Bootstrap \/ MainLoop \/ NothingCame
        \/ \E a \in net : ProcessUdp(a)
        \/ \E s \in Reboots : Reboot(s)

Spec == Init /\ [][Next]_vars

\* The thread runs.  Of the network: when answers to the current supernode's
\* last request are in flight again and again, one is delivered, and so is a
\* PONG while the bootstrap waits for the first one.
Fairness ==
    /\ WF_vars(Bootstrap \/ MainLoop \/ NothingCame)
    /\ SF_vars(\E a \in net : /\ a.type = "ACK" /\ a.cookie = last_cookie[curr_sn]
                              /\ ReceiveAck(a))
    /\ SF_vars(\E a \in net : runlevel = 1 /\ ReceivePong(a))

FairSpec == Spec /\ Fairness
----------------------------------------------------------------------------
(* Properties.                                                             *)

\* When the edge believes it is registered, it is with the supernode it is
\* using now: process_udp accepts an acknowledgement by its cookie alone, and
\* every change of curr_sn in between must make the edge wait again.
RegisteredWithCurrent ==
    runlevel \in {3, 5} /\ ~sn_wait => holder = curr_sn

\* Packets pass only after a real registration: last_sup is not set by an
\* acknowledgement of a REGISTER_SUPER sent without a MAC address
\* (process_udp: "update last_sup only on 'real' REGISTER_SUPER_ACKs, not on
\* bootstrap ones").  A registration that run_edge_loop cannot send, because the
\* name is not resolved, leaves the cookie of the bootstrap in force: then a late
\* bootstrap acknowledgement does set it.
LastSupIsReal == last_sup => realAck

\* No supernode of the settings is ever dropped from the list: each stays a
\* backup ("The additional supernode is handled in a backup-fashion").
BackupsKept == \A i \in DOMAIN Configured : Configured[i] \in Listed(supernodes)

\* update_supernode_reg gives up on a supernode only after SupAttempts
\* registrations it did not answer.
FailOverJustified ==
    [][pc = "update" /\ curr_sn' # curr_sn => tries >= SupAttempts]_vars

\* With a supernode that stays up, the edge is registered again and again,
\* whatever it has tried and however often the others go down and come up.
EventuallyRegistered ==
    Reboots # Sns => []<>(runlevel = 5 /\ ~sn_wait)
=============================================================================
