------------------------- MODULE EdgeControl_proofs -------------------------
(***************************************************************************)
(* Theorems about EdgeControl, for any number of edge threads, any set of  *)
(* descriptors and any combination of failing calls.                       *)
(***************************************************************************)
EXTENDS EdgeControl, SequenceTheorems, TLAPS

(* The inductive invariant.  The type of mgmtStops (a decrement) and the   *)
(* exclusion of edges both rest on the owner of the management port: an    *)
(* edge between edge_init and edge_term owns it, and one that is about to  *)
(* read a "stop" has one to read.                                          *)
PortInv ==
    /\ \A e \in Edges : phase[e] \in HoldingPhases => mgmtOwner = e
    /\ \A e \in Edges : phase[e] = "readMgmt" => mgmtStops > 0

IInv == TypeOK /\ PortInv

LEMMA InitIInv == Init => IInv
<1> SUFFICES ASSUME Init PROVE IInv
    OBVIOUS
<1>1. mainQueue \in Seq(Statuses)
    BY DEF Init
<1>2. cSettings \in [ip : IpModes, vpnFd : Fds \cup {NoFd, ZeroFd}]
    BY DEF Init
<1>3. /\ phase \in [Edges -> Phases]
      /\ device_fd \in [Edges -> Fds \cup {NoFd, ZeroFd}]
    BY DEF Init, Phases
<1>4. TypeOK
    BY <1>1, <1>2, <1>3 DEF Init, TypeOK
<1>5. PortInv
    BY DEF Init, PortInv, HoldingPhases
<1> QED
    BY <1>4, <1>5 DEF IInv

(* initPipe returns a descriptor of the right type and leaves pipe_fd_1    *)
(* and the set of open descriptors well typed.                             *)
LEMMA InitPipeType ==
    ASSUME TypeOK, NEW fd, initPipe(fd)
    PROVE  /\ fd \in Fds \cup {NoFd, ZeroFd}
           /\ pipe_fd' \in Fds \cup {ZeroFd}
           /\ openFds' \in SUBSET Fds
BY DEF TypeOK, initPipe

LEMMA StopTunnelType ==
    ASSUME TypeOK, stopTunnel
    PROVE  /\ pipe_fd' \in Fds \cup {ZeroFd}
           /\ openFds' \in SUBSET Fds
BY DEF TypeOK, stopTunnel

LEMMA NotifyType ==
    ASSUME TypeOK, NEW s \in Statuses, notifyConnectionStatus(s)
    PROVE  mainQueue' \in Seq(Statuses)
BY DEF TypeOK, notifyConnectionStatus

LEMMA MovesType ==
    ASSUME TypeOK, NEW e \in Edges, NEW from, NEW to \in Phases, Moves(e, from, to)
    PROVE  /\ phase' \in [Edges -> Phases]
           /\ phase[e] = from /\ phase'[e] = to
           /\ \A f \in Edges \ {e} : phase'[f] = phase[f]
BY DEF TypeOK, Moves

LEMMA EdgeTermPort ==
    ASSUME IInv, NEW e \in Edges, edge_term(e)
    PROVE  /\ mgmtOwner' \in Edges \cup {NoEdge, Leaked}
           /\ mgmtStops' \in Nat
           /\ \A f \in Edges \ {e} :
                 /\ phase[f] \in HoldingPhases => mgmtOwner' = f
                 /\ phase[f] = "readMgmt" => mgmtStops' > 0
BY DEF IInv, TypeOK, PortInv, edge_term, mgmtVars, HoldingPhases

----------------------------------------------------------------------------
(* The steps of the main thread.                                           *)

LEMMA MainIInv == IInv /\ Main => IInv'
<1> SUFFICES ASSUME IInv, Main PROVE IInv'
    OBVIOUS
<1> USE DEF IInv, PortInv
<1>1. CASE PressStart
    BY <1>1 DEF PressStart, TypeOK, tunnelVars, edgeVars, mgmtVars
<1>2. CASE OpenTunnel
    <2>1. PICK fd \in Fds \cup {NoFd} :
             /\ initPipe(fd)
             /\ cSettings' = [cSettings EXCEPT !.vpnFd =
                                  IF ipMode = "static" THEN fd ELSE NoFd]
        BY <1>2 DEF OpenTunnel
    <2>2. TypeOK'
        BY <1>2, <2>1, InitPipeType DEF OpenTunnel, TypeOK, edgeVars, mgmtVars
    <2>3. QED
        BY <1>2, <2>2 DEF OpenTunnel, edgeVars, mgmtVars
<1>3. CASE Launch
    <2>1. TypeOK'
        BY <1>3 DEF Launch, TypeOK, tunnelVars, mgmtVars, Phases
    <2>2. PortInv'
        BY <1>3 DEF Launch, TypeOK, mgmtVars, HoldingPhases
    <2>3. QED
        BY <2>1, <2>2
<1>4. CASE LaunchFailed
    BY <1>4, StopTunnelType DEF LaunchFailed, TypeOK, edgeVars, mgmtVars
<1>5. CASE PressStop
    <2>1. /\ mgmtStops' \in Nat
          /\ mgmtStops' >= mgmtStops
        BY <1>5 DEF PressStop, TypeOK
    <2>2. mainPc' \in {"idle", "stopVPN"}
        BY <1>5 DEF PressStop
    <2>3. TypeOK'
        BY <1>5, <2>1, <2>2 DEF PressStop, TypeOK, tunnelVars, edgeVars
    <2>4. PortInv'
        BY <1>5, <2>1 DEF PressStop, TypeOK, edgeVars
    <2>5. QED
        BY <2>3, <2>4
<1>6. CASE StopVPN
    BY <1>6, StopTunnelType DEF StopVPN, TypeOK, edgeVars, mgmtVars
<1>7. CASE ShowStatus
    <2>1. /\ pipe_fd' \in Fds \cup {ZeroFd}
          /\ openFds' \in SUBSET Fds
        BY <1>7, StopTunnelType DEF ShowStatus, tunnelVars, TypeOK
    <2>2. mainQueue' \in Seq(Statuses)
        BY <1>7 DEF ShowStatus, TypeOK
    <2>3. selected' \in BOOLEAN
        BY <1>7 DEF ShowStatus, TypeOK
    <2>4. QED
        BY <1>7, <2>1, <2>2, <2>3 DEF ShowStatus, TypeOK, edgeVars, mgmtVars
<1>8. CASE LeaveView
    BY <1>8 DEF LeaveView, TypeOK, tunnelVars, edgeVars, mgmtVars
<1>9. CASE AppExit
    BY <1>9, StopTunnelType DEF AppExit, TypeOK, mainVars, edgeVars, mgmtVars
<1> QED
    BY <1>1, <1>2, <1>3, <1>4, <1>5, <1>6, <1>7, <1>8, <1>9 DEF Main

(* The steps of an edge thread.                                            *)

LEMMA EdgeIInv == ASSUME IInv, NEW e \in Edges, Edge(e) PROVE IInv'
<1> USE DEF IInv
<1>1. CASE EdgeConnecting(e)
    <2>1. TypeOK'
        BY <1>1, MovesType, NotifyType
        DEF EdgeConnecting, TypeOK, tunnelVars, mgmtVars, Phases, Statuses
    <2>2. PortInv'
        BY <1>1, MovesType DEF EdgeConnecting, PortInv, mgmtVars, Phases, HoldingPhases
    <2>3. QED
        BY <2>1, <2>2
<1>2. CASE EdgeInit(e)
    <2>1. TypeOK'
        BY <1>2, MovesType DEF EdgeInit, TypeOK, mainVars, tunnelVars, Phases
    <2>2. PortInv'
        BY <1>2, MovesType, ConstantsAssumption
        DEF EdgeInit, PortInv, Phases, HoldingPhases, NoEdge, Leaked
    <2>3. QED
        BY <2>1, <2>2
<1>3. CASE EdgeReadFd(e)
    <2>1. TypeOK'
        BY <1>3, MovesType DEF EdgeReadFd, TypeOK, mainVars, tunnelVars, mgmtVars, Phases
    <2>2. PortInv'
        BY <1>3, MovesType DEF EdgeReadFd, PortInv, mgmtVars, Phases, HoldingPhases
    <2>3. QED
        BY <2>1, <2>2
<1>4. CASE EdgeBootstrapped(e)
    <2>1. /\ pipe_fd' \in Fds \cup {ZeroFd}
          /\ openFds' \in SUBSET Fds
          /\ device_fd' \in [Edges -> Fds \cup {NoFd, ZeroFd}]
        BY <1>4, InitPipeType DEF EdgeBootstrapped, TypeOK
    <2>2. mainQueue' \in Seq(Statuses)
        BY <1>4, NotifyType DEF EdgeBootstrapped, TypeOK, Statuses
    <2>3. /\ phase' \in [Edges -> Phases]
          /\ phase[e] = "bootstrap" /\ phase'[e] \in {"select", "cleanup"}
          /\ \A f \in Edges \ {e} : phase'[f] = phase[f]
        BY <1>4, MovesType DEF EdgeBootstrapped, Phases
    <2>4. TypeOK'
        BY <1>4, <2>1, <2>2, <2>3 DEF EdgeBootstrapped, TypeOK, mgmtVars
    <2>5. PortInv'
        BY <1>4, <2>3 DEF EdgeBootstrapped, PortInv, mgmtVars, HoldingPhases
    <2>6. QED
        BY <2>4, <2>5
<1>5. CASE EdgeSelectMgmt(e)
    <2>1. TypeOK'
        BY <1>5, MovesType DEF EdgeSelectMgmt, TypeOK, mainVars, tunnelVars, mgmtVars, Phases
    <2>2. PortInv'
        BY <1>5, MovesType DEF EdgeSelectMgmt, PortInv, mgmtVars, Phases, HoldingPhases
    <2>3. QED
        BY <2>1, <2>2
<1>6. CASE EdgeReadMgmt(e)
    <2>1. TypeOK'
        BY <1>6, MovesType DEF EdgeReadMgmt, TypeOK, PortInv, mainVars, tunnelVars, Phases
    <2>2. PortInv'
        BY <1>6, MovesType DEF EdgeReadMgmt, PortInv, Phases, HoldingPhases
    <2>3. QED
        BY <2>1, <2>2
<1>7. CASE EdgeRegistered(e)
    BY <1>7, NotifyType
    DEF EdgeRegistered, TypeOK, PortInv, tunnelVars, edgeVars, mgmtVars, Statuses
<1>8. CASE EdgeNak(e)
    <2>1. /\ phase' \in [Edges -> Phases]
          /\ phase'[e] = "nak"
          /\ \A f \in Edges \ {e} : phase'[f] = phase[f]
        BY <1>8, MovesType DEF EdgeNak, Phases
    <2>2. TypeOK'
        BY <1>8, <2>1, EdgeTermPort DEF EdgeNak, TypeOK, mainVars, tunnelVars
    <2>3. PortInv'
        BY <1>8, <2>1, EdgeTermPort DEF EdgeNak, PortInv, HoldingPhases
    <2>4. QED
        BY <2>2, <2>3
<1>9. CASE EdgeNakExit(e)
    <2>1. TypeOK'
        BY <1>9, MovesType, NotifyType
        DEF EdgeNakExit, TypeOK, tunnelVars, mgmtVars, Phases, Statuses
    <2>2. PortInv'
        BY <1>9, MovesType DEF EdgeNakExit, PortInv, mgmtVars, Phases, HoldingPhases
    <2>3. QED
        BY <2>1, <2>2
<1>10. CASE EdgeCleanup(e)
    <2>1. /\ phase' \in [Edges -> Phases]
          /\ phase'[e] = "closing"
          /\ \A f \in Edges \ {e} : phase'[f] = phase[f]
        BY <1>10, MovesType DEF EdgeCleanup, Phases
    <2>2. TypeOK'
        BY <1>10, <2>1, EdgeTermPort DEF EdgeCleanup, TypeOK, mainVars, tunnelVars
    <2>3. PortInv'
        BY <1>10, <2>1, EdgeTermPort DEF EdgeCleanup, PortInv, HoldingPhases
    <2>4. QED
        BY <2>2, <2>3
<1>11. CASE EdgeDisconnected(e)
    <2>1. TypeOK'
        BY <1>11, MovesType, NotifyType
        DEF EdgeDisconnected, TypeOK, tunnelVars, mgmtVars, Phases, Statuses
    <2>2. PortInv'
        BY <1>11, MovesType DEF EdgeDisconnected, PortInv, mgmtVars, Phases, HoldingPhases
    <2>3. QED
        BY <2>1, <2>2
<1> QED
    BY <1>1, <1>2, <1>3, <1>4, <1>5, <1>6, <1>7, <1>8, <1>9, <1>10, <1>11 DEF Edge

LEMMA StepIInv == IInv /\ [Next]_vars => IInv'
<1> SUFFICES ASSUME IInv, [Next]_vars PROVE IInv'
    OBVIOUS
<1>1. CASE Next
    BY <1>1, MainIInv, EdgeIInv DEF Next
<1>2. CASE UNCHANGED vars
    BY <1>2 DEF IInv, TypeOK, PortInv, vars, mainVars, tunnelVars, edgeVars, mgmtVars
<1> QED
    BY <1>1, <1>2

(* Every variable keeps its type; in particular no "stop" is read that was *)
(* not sent.                                                               *)
THEOREM TypeCorrect == Spec => []TypeOK
<1>1. IInv => TypeOK
    BY DEF IInv
<1> QED
    BY <1>1, InitIInv, StepIInv, PTL DEF Spec

(* However many times the button is pressed and however the threads        *)
(* interleave, at most one edge is between edge_init and edge_term, and it *)
(* owns the management port.                                               *)
THEOREM OneEdge == Spec => []OneEdgeAtATime
<1>1. IInv => OneEdgeAtATime
    BY DEF IInv, PortInv, OneEdgeAtATime
<1> QED
    BY <1>1, InitIInv, StepIInv, PTL DEF Spec

----------------------------------------------------------------------------
(* The button.  When no edge is left that will report anything, the last   *)
(* status on the main queue clears the button, or it is cleared already.   *)

Live(e) == phase[e] \notin {"none", "failed", "ended"}
NoneLive == \A e \in Edges : ~Live(e)

LastClears ==
    observing /\ NoneLive =>
        IF mainQueue = <<>> THEN ~selected
        ELSE mainQueue[Len(mainQueue)] \in {DISCONNECTED, SUPERNODE_DISCONNECT}

(* It was disabled for a thread that will be created, could not be, or     *)
(* reports; and if it was for a stop, there is a status to come.           *)
EnabledAgain ==
    /\ observing /\ NoneLive /\ mainQueue = <<>>
    /\ mainPc \in {"idle", "stopVPN"}
    /\ \A e \in Edges : phase[e] # "failed"
    => enabled

(* A thread that could not be created is what startServer deals with.      *)
FailedKnown == mainPc = "launchFailed" => \E e \in Edges : phase[e] = "failed"

ButtonInv == LastClears /\ EnabledAgain /\ FailedKnown

LEMMA LastOfTail ==
    ASSUME NEW S, NEW q \in Seq(S), q # <<>>, Len(q) # 1
    PROVE  Tail(q) # <<>> /\ Tail(q)[Len(Tail(q))] = q[Len(q)]
<1>1. Len(q) \in Nat /\ Len(q) # 0
    BY EmptySeq, LenProperties
<1>2. Len(Tail(q)) = Len(q) - 1 /\ \A i \in 1 .. Len(Tail(q)) : Tail(q)[i] = q[i + 1]
    BY HeadTailProperties
<1>3. Len(Tail(q)) \in 1 .. Len(Tail(q)) /\ Len(Tail(q)) # 0
    BY <1>1, <1>2
<1>4. Tail(q) # <<>>
    BY <1>3, EmptySeq
<1> QED
    BY <1>1, <1>2, <1>3, <1>4

LEMMA InitButton == Init => ButtonInv
BY DEF Init, ButtonInv, LastClears, EnabledAgain, FailedKnown

LEMMA MainButton == ASSUME IInv, ButtonInv, Main PROVE ButtonInv'
<1> USE DEF ButtonInv, LastClears, EnabledAgain, FailedKnown, NoneLive, Live
<1>1. CASE PressStart
    BY <1>1 DEF PressStart, edgeVars
<1>2. CASE OpenTunnel
    BY <1>2 DEF OpenTunnel, edgeVars
<1>3. CASE Launch
    <2>1. PICK e \in Edges : phase[e] = "none" /\ phase'[e] \in {"created", "failed"}
                            /\ (phase'[e] = "failed" <=> mainPc' = "launchFailed")
                            /\ \A f \in Edges \ {e} : phase'[f] = phase[f]
        BY <1>3 DEF Launch, IInv, TypeOK
    <2>2. /\ mainQueue' = mainQueue /\ selected' = selected /\ observing' = observing
          /\ mainPc' = "idle" => phase'[e] = "created"
          /\ mainPc' \in {"idle", "launchFailed"}
        BY <1>3, <2>1 DEF Launch
    <2>3. NoneLive' => NoneLive /\ phase'[e] = "failed"
        BY <2>1
    <2>4. LastClears' /\ EnabledAgain'
        BY <2>2, <2>3
    <2>5. FailedKnown'
        BY <2>1, <2>2
    <2>6. QED
        BY <2>4, <2>5
<1>4. CASE LaunchFailed
    <2>1. \E e \in Edges : phase[e] = "failed"
        BY <1>4 DEF LaunchFailed
    <2>2. QED
        BY <1>4, <2>1 DEF LaunchFailed, edgeVars
<1>5. CASE PressStop
    BY <1>5 DEF PressStop, edgeVars
<1>6. CASE StopVPN
    BY <1>6 DEF StopVPN, edgeVars
<1>7. CASE ShowStatus
    <2>1. /\ mainQueue \in Seq(Statuses) /\ mainQueue # <<>>
          /\ mainQueue' = Tail(mainQueue)
          /\ enabled' = TRUE /\ observing' = observing /\ phase' = phase
          /\ mainPc' = "idle"
        BY <1>7 DEF ShowStatus, IInv, TypeOK, edgeVars
    <2>2. CASE Len(mainQueue) = 1
        <3>1. mainQueue[Len(mainQueue)] = Head(mainQueue) /\ mainQueue' = <<>>
            BY <2>1, <2>2
        <3>2. Head(mainQueue) \in {DISCONNECTED, SUPERNODE_DISCONNECT} => ~selected'
            BY <1>7 DEF ShowStatus, DISCONNECTED, SUPERNODE_DISCONNECT, CONNECTED, CONNECTING
        <3>3. QED
            BY <2>1, <3>1, <3>2
    <2>3. CASE Len(mainQueue) # 1
        <3>1. /\ mainQueue' # <<>>
              /\ mainQueue'[Len(mainQueue')] = mainQueue[Len(mainQueue)]
            BY <2>1, <2>3, LastOfTail
        <3>2. QED
            BY <2>1, <3>1
    <2>4. QED
        BY <2>2, <2>3
<1>8. CASE LeaveView
    BY <1>8 DEF LeaveView, edgeVars
<1>9. CASE AppExit
    BY <1>9 DEF AppExit, mainVars, edgeVars
<1> QED
    BY <1>1, <1>2, <1>3, <1>4, <1>5, <1>6, <1>7, <1>8, <1>9 DEF Main

(* An edge thread stays one that will report something, or leaves its last *)
(* status behind.                                                          *)
LEMMA EdgeLiveOrLast ==
    ASSUME IInv, NEW e \in Edges, Edge(e)
    PROVE  /\ mainPc' = mainPc /\ observing' = observing
           /\ phase[e] # "failed"
           /\ \A f \in Edges \ {e} : phase'[f] = phase[f]
           /\ \/ Live(e)'
              \/ \E s \in {DISCONNECTED, SUPERNODE_DISCONNECT} : notifyConnectionStatus(s)
<1> USE DEF IInv, Live, mainVars
<1>1. CASE EdgeConnecting(e)
    BY <1>1, MovesType DEF EdgeConnecting, Phases
<1>2. CASE EdgeInit(e)
    BY <1>2, MovesType DEF EdgeInit, Phases
<1>3. CASE EdgeReadFd(e)
    BY <1>3, MovesType DEF EdgeReadFd, Phases
<1>4. CASE EdgeBootstrapped(e)
    BY <1>4, MovesType DEF EdgeBootstrapped, Phases
<1>5. CASE EdgeSelectMgmt(e)
    BY <1>5, MovesType DEF EdgeSelectMgmt, Phases
<1>6. CASE EdgeReadMgmt(e)
    BY <1>6, MovesType DEF EdgeReadMgmt, Phases
<1>7. CASE EdgeRegistered(e)
    BY <1>7 DEF EdgeRegistered, edgeVars
<1>8. CASE EdgeNak(e)
    BY <1>8, MovesType DEF EdgeNak, Phases
<1>9. CASE EdgeNakExit(e)
    BY <1>9, MovesType DEF EdgeNakExit, Phases
<1>10. CASE EdgeCleanup(e)
    BY <1>10, MovesType DEF EdgeCleanup, Phases
<1>11. CASE EdgeDisconnected(e)
    BY <1>11, MovesType DEF EdgeDisconnected, Phases
<1> QED
    BY <1>1, <1>2, <1>3, <1>4, <1>5, <1>6, <1>7, <1>8, <1>9, <1>10, <1>11 DEF Edge

LEMMA EdgeButton == ASSUME IInv, ButtonInv, NEW e \in Edges, Edge(e) PROVE ButtonInv'
<1> USE EdgeLiveOrLast
<1>1. FailedKnown'
    BY DEF ButtonInv, FailedKnown
<1>2. CASE Live(e)'
    BY <1>1, <1>2 DEF ButtonInv, LastClears, EnabledAgain, NoneLive
<1>3. CASE observing /\ ~Live(e)'
    <2>1. PICK s \in {DISCONNECTED, SUPERNODE_DISCONNECT} : mainQueue' = Append(mainQueue, s)
        BY <1>3 DEF notifyConnectionStatus
    <2>2. mainQueue' # <<>> /\ mainQueue'[Len(mainQueue')] = s
        BY <2>1, AppendProperties DEF IInv, TypeOK, Statuses
    <2>3. QED
        BY <1>1, <2>2 DEF ButtonInv, LastClears, EnabledAgain
<1>4. CASE ~observing
    BY <1>1, <1>4 DEF ButtonInv, LastClears, EnabledAgain
<1> QED
    BY <1>2, <1>3, <1>4

LEMMA StepButton == IInv /\ ButtonInv /\ [Next]_vars => ButtonInv'
<1> SUFFICES ASSUME IInv, ButtonInv, [Next]_vars PROVE ButtonInv'
    OBVIOUS
<1>1. CASE Next
    BY <1>1, MainButton, EdgeButton DEF Next
<1>2. CASE UNCHANGED vars
    BY <1>2 DEF ButtonInv, LastClears, EnabledAgain, FailedKnown, NoneLive, Live,
                vars, mainVars, edgeVars
<1> QED
    BY <1>1, <1>2

LEMMA ButtonAlways == Spec => []ButtonInv
BY InitIInv, StepIInv, InitButton, StepButton, PTL DEF Spec

(* Whatever path the edges took to their end, a button whose edges are all *)
(* gone and have been heard of does not claim a connection ...             *)
THEOREM ButtonTellsTruth == Spec => []ButtonAgreesWithEdges
<1>1. ButtonInv => ButtonAgreesWithEdges
    BY DEF ButtonInv, LastClears, NoneLive, Live, ButtonAgreesWithEdges, Quiescent
<1> QED
    BY <1>1, ButtonAlways, PTL

(* ... and can be pressed again.                                           *)
THEOREM ButtonComesBack == Spec => []ButtonUsable
<1>1. ButtonInv => ButtonUsable
    BY DEF ButtonInv, EnabledAgain, NoneLive, Live, ButtonUsable, Quiescent
<1> QED
    BY <1>1, ButtonAlways, PTL

----------------------------------------------------------------------------
(* The pipe of the first session.  The descriptor goes from startTunnel    *)
(* to cSettings, and from there to the edge, while no other edge was asked *)
(* for; once a second press is under way nothing is claimed.               *)

Only(e) == \A f \in Edges \ {e} : phase[f] = "none"
NoPress == mainPc \in {"idle", "stopVPN"}
OwnPipe(fd) == fd \in {NoFd, pipe_fd}

PipeInv ==
    \A e \in Edges : Only(e) =>
        /\ phase[e] = "none" /\ mainPc = "launch" => OwnPipe(cSettings.vpnFd)
        /\ phase[e] \in {"created", "configure", "booting"} /\ NoPress
              => OwnPipe(cSettings.vpnFd)
        /\ phase[e] = "bootstrap" /\ NoPress => OwnPipe(device_fd[e])
        /\ phase[e] \in {"select", "readMgmt"} /\ NoPress => device_fd[e] = pipe_fd

LEMMA InitPipe == Init => PipeInv
BY DEF Init, PipeInv

LEMMA MainPipe == ASSUME IInv, ButtonInv, PipeInv, Main PROVE PipeInv'
<1> USE DEF PipeInv, Only, NoPress, OwnPipe
<1>1. CASE PressStart
    BY <1>1 DEF PressStart, edgeVars
<1>2. CASE OpenTunnel
    <2>1. mainPc' = "launch" /\ phase' = phase
        BY <1>2 DEF OpenTunnel, edgeVars
    <2>2. OwnPipe(cSettings.vpnFd)'
        BY <1>2 DEF OpenTunnel, initPipe, IInv, TypeOK
    <2>3. QED
        BY <2>1, <2>2
<1>3. CASE Launch
    <2>1. PICK f \in Edges :
             /\ phase[f] = "none"
             /\ \/ phase'[f] = "created" /\ mainPc' = "idle"
                \/ phase'[f] = "failed" /\ mainPc' = "launchFailed"
             /\ \A g \in Edges \ {f} : phase'[g] = phase[g]
        BY <1>3 DEF Launch, IInv, TypeOK
    <2>2. /\ mainPc = "launch" /\ cSettings' = cSettings
          /\ pipe_fd' = pipe_fd /\ device_fd' = device_fd
        BY <1>3 DEF Launch, tunnelVars
    <2>3. \A e \in Edges : Only(e)' => e = f /\ Only(e)
        BY <2>1
    <2>4. QED
        BY <2>1, <2>2, <2>3
<1>4. CASE LaunchFailed \/ StopVPN
    <2>1. /\ phase' = phase /\ cSettings' = cSettings
          /\ pipe_fd' = pipe_fd /\ device_fd' = device_fd /\ mainPc' = "idle"
          /\ mainPc \in {"launchFailed", "stopVPN"}
        BY <1>4 DEF LaunchFailed, StopVPN, stopTunnel, edgeVars
    <2>2. mainPc = "launchFailed" => \E f \in Edges : phase[f] = "failed"
        BY DEF ButtonInv, FailedKnown
    <2>3. QED
        BY <2>1, <2>2
<1>5. CASE PressStop \/ ShowStatus \/ LeaveView \/ AppExit
    <2>1. /\ phase' = phase /\ cSettings' = cSettings
          /\ pipe_fd' = pipe_fd /\ device_fd' = device_fd
          /\ NoPress /\ NoPress'
        BY <1>5 DEF PressStop, ShowStatus, LeaveView, AppExit, stopTunnel, tunnelVars,
                    edgeVars, mainVars
    <2>2. QED
        BY <2>1
<1> QED
    BY <1>1, <1>2, <1>3, <1>4, <1>5 DEF Main

LEMMA EdgePipe == ASSUME IInv, PipeInv, NEW e \in Edges, Edge(e) PROVE PipeInv'
<1>1. /\ mainPc' = mainPc /\ cSettings' = cSettings
      /\ \A f \in Edges \ {e} : phase'[f] = phase[f]
      /\ phase[e] # "none" /\ phase'[e] # "none"
    <2> USE DEF IInv, mainVars
    <2>1. CASE EdgeConnecting(e) \/ EdgeInit(e) \/ EdgeReadFd(e) \/ EdgeBootstrapped(e)
        BY <2>1, MovesType
        DEF EdgeConnecting, EdgeInit, EdgeReadFd, EdgeBootstrapped, Phases
    <2>2. CASE EdgeSelectMgmt(e) \/ EdgeReadMgmt(e) \/ EdgeNak(e) \/ EdgeNakExit(e)
        BY <2>2, MovesType DEF EdgeSelectMgmt, EdgeReadMgmt, EdgeNak, EdgeNakExit, Phases
    <2>3. CASE EdgeCleanup(e) \/ EdgeDisconnected(e)
        BY <2>3, MovesType DEF EdgeCleanup, EdgeDisconnected, Phases
    <2>4. CASE EdgeRegistered(e)
        BY <2>4 DEF EdgeRegistered, edgeVars
    <2>5. QED
        BY <2>1, <2>2, <2>3, <2>4 DEF Edge
<1>2. \A f \in Edges : Only(f)' => f = e /\ Only(e)
    BY <1>1 DEF Only
<1>3. SUFFICES ASSUME Only(e), NoPress
               PROVE  /\ phase'[e] \in {"configure", "booting"} => OwnPipe(cSettings.vpnFd)'
                      /\ phase'[e] = "bootstrap" => OwnPipe(device_fd[e])'
                      /\ phase'[e] \in {"select", "readMgmt"} => device_fd'[e] = pipe_fd'
                      /\ phase'[e] # "created"
    BY <1>1, <1>2 DEF PipeInv, NoPress
<1> USE DEF IInv, PipeInv, NoPress, OwnPipe
<1>4. CASE EdgeConnecting(e) \/ EdgeInit(e)
    BY <1>3, <1>4, MovesType DEF EdgeConnecting, EdgeInit, Phases, tunnelVars, mainVars
<1>5. CASE EdgeReadFd(e)
    BY <1>3, <1>5, MovesType DEF EdgeReadFd, Phases, tunnelVars, mainVars, TypeOK
<1>6. CASE EdgeBootstrapped(e)
    <2>1. phase[e] = "bootstrap" /\ phase'[e] \in {"select", "cleanup"}
        BY <1>6, MovesType DEF EdgeBootstrapped, Phases
    <2>2. PICK fd \in Fds \cup {NoFd, ZeroFd} :
             /\ IF device_fd[e] = NoFd THEN initPipe(fd)
                ELSE fd = device_fd[e] /\ pipe_fd' = pipe_fd
             /\ device_fd' = [device_fd EXCEPT ![e] = fd]
             /\ phase'[e] = "select" => fd # NoFd
        BY <1>6, MovesType DEF EdgeBootstrapped, Phases
    <2>3. phase'[e] = "select" => fd = pipe_fd'
        BY <1>3, <2>1, <2>2 DEF initPipe
    <2>4. device_fd'[e] = fd
        BY <2>2 DEF TypeOK
    <2>5. QED
        BY <2>1, <2>3, <2>4
<1>7. CASE EdgeSelectMgmt(e) \/ EdgeReadMgmt(e)
    BY <1>3, <1>7, MovesType DEF EdgeSelectMgmt, EdgeReadMgmt, Phases, tunnelVars, mainVars
<1>8. CASE EdgeRegistered(e)
    BY <1>3, <1>8 DEF EdgeRegistered, tunnelVars, edgeVars
<1>9. CASE EdgeNak(e) \/ EdgeNakExit(e) \/ EdgeCleanup(e) \/ EdgeDisconnected(e)
    BY <1>9, MovesType DEF EdgeNak, EdgeNakExit, EdgeCleanup, EdgeDisconnected, Phases
<1> QED
    BY <1>4, <1>5, <1>6, <1>7, <1>8, <1>9 DEF Edge

LEMMA StepPipe == IInv /\ ButtonInv /\ PipeInv /\ [Next]_vars => PipeInv'
<1> SUFFICES ASSUME IInv, ButtonInv, PipeInv, [Next]_vars PROVE PipeInv'
    OBVIOUS
<1>1. CASE Next
    BY <1>1, MainPipe, EdgePipe DEF Next
<1>2. CASE UNCHANGED vars
    BY <1>2 DEF PipeInv, Only, NoPress, OwnPipe, vars, mainVars, tunnelVars, edgeVars
<1> QED
    BY <1>1, <1>2

(* The first edge reads the pipe that the tunnel writes, for any number of *)
(* descriptors and with or without an address of its own.                  *)
THEOREM FirstPipe == Spec => []FirstSessionReadsPipe
<1>1. PipeInv => FirstSessionReadsPipe
    BY DEF PipeInv, Only, NoPress, FirstSessionReadsPipe
<1> QED
    BY <1>1, InitIInv, StepIInv, InitPipe, StepPipe, ButtonAlways, PTL DEF Spec

=============================================================================
