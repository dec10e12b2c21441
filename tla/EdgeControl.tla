---------------------------- MODULE EdgeControl ----------------------------
(***************************************************************************)
(* One n2n edge started and stopped from the app.                          *)
(*                                                                         *)
(* Three kinds of actors share the state below:                            *)
(*   - the main thread: the start button of mainVC, the blocks that        *)
(*     networkConnectStatus dispatches to the main queue, and StartEdge    *)
(*     and StopEdge;                                                       *)
(*   - one pthread per StartEdge, running EdgeRoutine -> start_edge_v3;    *)
(*   - the kernel: the management UDP port and the pipe descriptors.       *)
(*                                                                         *)
(* mainPc splits a handler of the main thread wherever an edge thread can  *)
(* see the state in between.  Between memset and getCurrentSettings the    *)
(* fields of the static CurrentSettings keep their previous values here;   *)
(* only vpnFd, which stays 0 until startTunnel returns, is torn.           *)
(*                                                                         *)
(* Of startTunnel and stopTunnel only the pipe matters to an edge: the VPN *)
(* connection that they load, save, start and stop is the system's.        *)
(***************************************************************************)
EXTENDS Integers, Sequences, FiniteSets

CONSTANTS
    Edges,      \* the edge threads a run may ask for, one per StartEdge
    Fds,        \* descriptor numbers pipe() may return for the read end
    IpModes,    \* subset of {"static", "assign"}: ipAddress given or left empty
    Failures,   \* subset of {"thread", "socket", "conf"}: calls that may fail
    MaxQueue    \* bound: a re-registration is not reported on a longer queue

DISCONNECTED         == 0
CONNECTING           == 1
CONNECTED            == 2
SUPERNODE_DISCONNECT == 3
Statuses == {DISCONNECTED, CONNECTING, CONNECTED, SUPERNODE_DISCONNECT}

NoFd   == -1    \* what startTunnel returns without an address
ZeroFd == 0     \* memset(&cSettings), and pipe_fd_1 before any initPipe

ASSUME ConstantsAssumption ==
    /\ Fds \subseteq Nat \ {0}
    /\ IpModes \subseteq {"static", "assign"}
    /\ Failures \subseteq {"thread", "socket", "conf"}
    /\ MaxQueue \in Nat
    /\ {"none", "leaked"} \cap Edges = {}

NoEdge == "none"
Leaked == "leaked"  \* bound to a socket that no edge can serve or close any more

VARIABLES
    \* mainVC and the main thread
    enabled,      \* _startButton.enabled
    selected,     \* _startButton.selected
    observing,    \* the view controller still observes its notifications
    mainPc,       \* what the main thread is in the middle of
    mainQueue,    \* statuses dispatched to the main queue, not yet shown
    ipMode,       \* the current setting
    cSettings,    \* the static CurrentSettings handed to the edge thread
    \* edge_ios.c
    g_stop_edge,  \* whether the stop function is set
    \* Hin2nTunnelManager and PacketDataManager
    pipe_fd,      \* pipe_fd_1[0]
    openFds,      \* read ends that are open
    \* the edge threads
    phase,        \* where each edge thread is
    device_fd,    \* tuntap.fd, later eee->device.fd
    \* the management port 5644
    mgmtOwner,    \* the edge whose socket is bound to it
    mgmtStops     \* "stop" datagrams in that socket's buffer

mainVars   == <<enabled, selected, observing, mainPc, mainQueue, ipMode, cSettings>>
tunnelVars == <<pipe_fd, openFds>>
edgeVars   == <<phase, device_fd>>
mgmtVars   == <<mgmtOwner, mgmtStops>>
vars == <<mainVars, g_stop_edge, tunnelVars, edgeVars, mgmtVars>>

Phases == {"none", "failed", "created", "configure", "booting", "bootstrap", "select",
           "readMgmt", "cleanup", "nak", "closing", "ended"}
\* The phases between a successful edge_init and edge_term.
HoldingPhases == {"booting", "bootstrap", "select", "readMgmt"}

TypeOK ==
    /\ enabled \in BOOLEAN /\ selected \in BOOLEAN /\ observing \in BOOLEAN
    /\ mainPc \in {"idle", "tunnel", "launch", "launchFailed", "stopVPN"}
    /\ mainQueue \in Seq(Statuses)
    /\ ipMode \in IpModes
    /\ cSettings \in [ip : IpModes, vpnFd : Fds \cup {NoFd, ZeroFd}]
    /\ g_stop_edge \in BOOLEAN
    /\ pipe_fd \in Fds \cup {ZeroFd}
    /\ openFds \in SUBSET Fds
    /\ phase \in [Edges -> Phases]
    /\ device_fd \in [Edges -> Fds \cup {NoFd, ZeroFd}]
    /\ mgmtOwner \in Edges \cup {NoEdge, Leaked}
    /\ mgmtStops \in Nat

Init ==
    /\ enabled = TRUE /\ selected = FALSE /\ observing = TRUE
    /\ mainPc = "idle"
    /\ mainQueue = <<>>
    /\ ipMode \in IpModes
    /\ cSettings = [ip |-> ipMode, vpnFd |-> ZeroFd]
    /\ g_stop_edge = FALSE
    /\ pipe_fd = ZeroFd
    /\ openFds = {}
    /\ phase = [e \in Edges |-> "none"]
    /\ device_fd = [e \in Edges |-> NoFd]
    /\ mgmtOwner = NoEdge
    /\ mgmtStops = 0

----------------------------------------------------------------------------
(* Calls several handlers make.                                            *)

\* Mutant: the new pipe is returned but not kept in pipe_fd_1.
initPipe_notKept(fd) ==
    /\ fd \in Fds \ openFds
    /\ openFds' = openFds \cup {fd}
    /\ UNCHANGED pipe_fd

\* pipe() overwrites pipe_fd_1 without closing what it held; out of
\* descriptors it returns -1 and leaves pipe_fd_1 alone.
initPipe(fd) ==
    \/ /\ fd \in Fds \ openFds
       /\ pipe_fd' = fd
       /\ openFds' = openFds \cup {fd}
    \/ /\ Fds \subseteq openFds
       /\ fd = NoFd
       /\ UNCHANGED <<pipe_fd, openFds>>

\* closePipe closes the numbers pipe_fd_1 holds, whatever they refer to by now.
stopTunnel ==
    /\ openFds' = openFds \ {pipe_fd}
    /\ UNCHANGED pipe_fd

\* notifyConnectionStatus runs the observer on the posting thread, which
\* dispatches the block; without an observer the status is lost.
notifyConnectionStatus(status) ==
    mainQueue' = IF observing THEN Append(mainQueue, status) ELSE mainQueue

\* edge_term closes the management socket, with what its buffer holds.
edge_term(e) ==
    IF mgmtOwner = e
    THEN mgmtOwner' = NoEdge /\ mgmtStops' = 0
    ELSE UNCHANGED mgmtVars

----------------------------------------------------------------------------
(* The main thread.                                                        *)

\* startServer: on a button that is not selected, up to the call of startTunnel.
PressStart ==
    /\ mainPc = "idle" /\ enabled /\ ~selected
    /\ \E e \in Edges : phase[e] = "none"
    /\ enabled' = FALSE
    /\ cSettings' = [ip |-> ipMode, vpnFd |-> ZeroFd]
    /\ mainPc' = "tunnel"
    /\ UNCHANGED <<selected, observing, mainQueue, ipMode, g_stop_edge,
                   tunnelVars, edgeVars, mgmtVars>>

\* startTunnel creates the pipe even when it then returns -1 for want of an
\* address.
OpenTunnel ==
    /\ mainPc = "tunnel"
    /\ \E fd \in Fds \cup {NoFd} :
          /\ initPipe(fd)
          /\ cSettings' = [cSettings EXCEPT !.vpnFd =
                               IF ipMode = "static" THEN fd ELSE NoFd]
    /\ mainPc' = "launch"
    /\ UNCHANGED <<enabled, selected, observing, mainQueue, ipMode, g_stop_edge,
                   edgeVars, mgmtVars>>

\* StartEdge sets the functions, then creates the thread.
Launch ==
    /\ mainPc = "launch"
    /\ g_stop_edge' = TRUE
    /\ \E e \in Edges :
          /\ phase[e] = "none"
          /\ \/ /\ phase' = [phase EXCEPT ![e] = "created"]
                /\ mainPc' = "idle"
             \/ /\ "thread" \in Failures
                /\ phase' = [phase EXCEPT ![e] = "failed"]
                /\ mainPc' = "launchFailed"
    /\ UNCHANGED <<enabled, selected, observing, mainQueue, ipMode, cSettings,
                   tunnelVars, device_fd, mgmtVars>>

\* result < 0: stopVPN, and the button is no longer selected.
LaunchFailed ==
    /\ mainPc = "launchFailed"
    /\ stopTunnel
    /\ selected' = FALSE
    /\ mainPc' = "idle"
    /\ UNCHANGED <<enabled, observing, mainQueue, ipMode, cSettings, g_stop_edge,
                   edgeVars, mgmtVars>>

\* startServer: on a selected button.  StopEdge calls the stop function at
\* most once per StartEdge; stop_edge_v3 sends one datagram to the management
\* port, lost when no socket is bound, and reports success all the same.
PressStop ==
    /\ mainPc = "idle" /\ enabled /\ selected
    /\ enabled' = FALSE
    /\ g_stop_edge' = FALSE
    /\ \/ /\ mgmtStops' = IF g_stop_edge /\ mgmtOwner # NoEdge
                          THEN mgmtStops + 1 ELSE mgmtStops
          /\ mainPc' = "stopVPN"
       \/ /\ g_stop_edge /\ "socket" \in Failures
          /\ UNCHANGED <<mgmtStops, mainPc>>
    /\ UNCHANGED <<selected, observing, mainQueue, ipMode, cSettings,
                   tunnelVars, edgeVars, mgmtOwner>>

\* The rest of startServer: after StopEdge returned 0.
StopVPN ==
    /\ mainPc = "stopVPN"
    /\ stopTunnel
    /\ mainPc' = "idle"
    /\ UNCHANGED <<enabled, selected, observing, mainQueue, ipMode, cSettings,
                   g_stop_edge, edgeVars, mgmtVars>>

\* The block networkConnectStatus dispatched.
ShowStatus ==
    /\ mainPc = "idle" /\ mainQueue # <<>>
    /\ mainQueue' = Tail(mainQueue)
    /\ enabled' = TRUE
    /\ selected' = CASE Head(mainQueue) = CONNECTED  -> TRUE
                     [] Head(mainQueue) = CONNECTING -> selected
                     [] OTHER                        -> FALSE
    /\ IF Head(mainQueue) = SUPERNODE_DISCONNECT
       THEN stopTunnel ELSE UNCHANGED tunnelVars
    /\ UNCHANGED <<observing, mainPc, ipMode, cSettings, g_stop_edge,
                   edgeVars, mgmtVars>>

\* Another page comes up: viewWillDisappear removes every observer, and only
\* viewDidLoad adds them.  The page may change the setting.
LeaveView ==
    /\ mainPc = "idle"
    /\ observing' = FALSE
    /\ ipMode' \in IpModes
    /\ UNCHANGED <<enabled, selected, mainPc, mainQueue, cSettings, g_stop_edge,
                   tunnelVars, edgeVars, mgmtVars>>

\* sceneDidDisconnect posts app_exit; exit: stops the tunnel, not the edge.
AppExit ==
    /\ mainPc = "idle" /\ observing
    /\ stopTunnel
    /\ UNCHANGED <<mainVars, g_stop_edge, edgeVars, mgmtVars>>

Main == \/ PressStart \/ OpenTunnel \/ Launch \/ LaunchFailed
        \/ PressStop \/ StopVPN \/ ShowStatus \/ LeaveView \/ AppExit

----------------------------------------------------------------------------
(* An edge thread: start_edge_v3 and run_edge_loop.                        *)

Moves(e, from, to) == phase[e] = from /\ phase' = [phase EXCEPT ![e] = to]

\* Mutant: the thread does not report that it started.
EdgeConnecting_silent(e) ==
    /\ Moves(e, "created", "configure")
    /\ UNCHANGED <<mainVars, g_stop_edge, tunnelVars, device_fd, mgmtVars>>

EdgeConnecting(e) ==
    /\ Moves(e, "created", "configure")
    /\ notifyConnectionStatus(CONNECTING)
    /\ UNCHANGED <<enabled, selected, observing, mainPc, ipMode, cSettings,
                   g_stop_edge, tunnelVars, device_fd, mgmtVars>>

\* Mutant: the management port may be shared (SO_REUSEPORT).
EdgeInit_sharedPort(e) ==
    /\ Moves(e, "configure", "booting")
    /\ mgmtOwner' = e
    /\ UNCHANGED <<mainVars, g_stop_edge, tunnelVars, device_fd, mgmtStops>>

\* edge_verify_conf and edge_init: the management port is bound by this
\* thread alone, or the edge is not started.  What fails after the bind (the
\* multicast socket) goes to edge_init_error, which frees eee and leaves the
\* socket open: the port stays bound as long as the app lives.
EdgeInit(e) ==
    /\ \/ /\ mgmtOwner = NoEdge
          /\ Moves(e, "configure", "booting")
          /\ mgmtOwner' = e
       \/ /\ mgmtOwner = NoEdge /\ "conf" \in Failures
          /\ Moves(e, "configure", "cleanup")
          /\ mgmtOwner' = Leaked
       \/ /\ mgmtOwner # NoEdge \/ "conf" \in Failures
          /\ Moves(e, "configure", "cleanup")
          /\ UNCHANGED mgmtOwner
    /\ UNCHANGED <<mainVars, g_stop_edge, tunnelVars, device_fd, mgmtStops>>

\* tuntap.fd = settings->vpnFd, read from the structure the main thread owns.
EdgeReadFd(e) ==
    /\ Moves(e, "booting", "bootstrap")
    /\ device_fd' = [device_fd EXCEPT ![e] = cSettings.vpnFd]
    /\ UNCHANGED <<mainVars, g_stop_edge, tunnelVars, mgmtVars>>

\* Runlevel 4 and what follows the bootstrap loop: without a descriptor the
\* tunnel is started again with the address the supernode gave.
EdgeBootstrapped(e) ==
    /\ \E fd \in Fds \cup {NoFd, ZeroFd} :
          /\ IF device_fd[e] = NoFd
             THEN initPipe(fd)
             ELSE fd = device_fd[e] /\ UNCHANGED <<pipe_fd, openFds>>
          /\ device_fd' = [device_fd EXCEPT ![e] = fd]
          /\ \/ /\ fd # NoFd
                /\ Moves(e, "bootstrap", "select")
                /\ notifyConnectionStatus(CONNECTED)
             \/ /\ fd = NoFd \/ "conf" \in Failures
                /\ Moves(e, "bootstrap", "cleanup")
                /\ UNCHANGED mainQueue
    /\ UNCHANGED <<enabled, selected, observing, mainPc, ipMode, cSettings,
                   g_stop_edge, mgmtVars>>

\* select() fails with EBADF, and serves no socket, once device_fd is closed.
DeviceOpen(e) == device_fd[e] \in openFds \cup {ZeroFd}

\* Mutant: the management socket is read without asking FD_ISSET.
EdgeSelectMgmt_unasked(e) ==
    /\ DeviceOpen(e)
    /\ Moves(e, "select", "readMgmt")
    /\ UNCHANGED <<mainVars, g_stop_edge, tunnelVars, device_fd, mgmtVars>>

EdgeSelectMgmt(e) ==
    /\ DeviceOpen(e) /\ mgmtStops > 0
    /\ Moves(e, "select", "readMgmt")
    /\ UNCHANGED <<mainVars, g_stop_edge, tunnelVars, device_fd, mgmtVars>>

\* Mutant: keep_running is not cleared.
EdgeReadMgmt_keepsRunning(e) ==
    /\ Moves(e, "readMgmt", "select")
    /\ mgmtStops' = mgmtStops - 1
    /\ UNCHANGED <<mainVars, g_stop_edge, tunnelVars, device_fd, mgmtOwner>>

\* "stop": keep_running is cleared and the loop left.
EdgeReadMgmt(e) ==
    /\ Moves(e, "readMgmt", "cleanup")
    /\ mgmtStops' = mgmtStops - 1
    /\ UNCHANGED <<mainVars, g_stop_edge, tunnelVars, device_fd, mgmtOwner>>

\* A REGISTER_SUPER_ACK: on_sn_registration_updated reports CONNECTED again.
EdgeRegistered(e) ==
    /\ phase[e] = "select" /\ DeviceOpen(e)
    /\ Len(mainQueue) < MaxQueue
    /\ notifyConnectionStatus(CONNECTED)
    /\ UNCHANGED <<enabled, selected, observing, mainPc, ipMode, cSettings,
                   g_stop_edge, tunnelVars, edgeVars, mgmtVars>>

\* A REGISTER_SUPER_NAK for this edge: edge_term, then the status, then
\* pthread_exit.  g_stop_edge is left as it is.
EdgeNak(e) ==
    /\ \/ Moves(e, "bootstrap", "nak")
       \/ DeviceOpen(e) /\ Moves(e, "select", "nak")
    /\ edge_term(e)
    /\ UNCHANGED <<mainVars, g_stop_edge, tunnelVars, device_fd>>

\* Mutant: the thread exits without a status.
EdgeNakExit_silent(e) ==
    /\ Moves(e, "nak", "ended")
    /\ UNCHANGED <<mainVars, g_stop_edge, tunnelVars, device_fd, mgmtVars>>

EdgeNakExit(e) ==
    /\ Moves(e, "nak", "ended")
    /\ notifyConnectionStatus(SUPERNODE_DISCONNECT)
    /\ UNCHANGED <<enabled, selected, observing, mainPc, ipMode, cSettings,
                   g_stop_edge, tunnelVars, device_fd, mgmtVars>>

EdgeCleanup(e) ==
    /\ Moves(e, "cleanup", "closing")
    /\ edge_term(e)
    /\ UNCHANGED <<mainVars, g_stop_edge, tunnelVars, device_fd>>

\* Mutant: no status at the end, as in start_edge_v2.
EdgeDisconnected_silent(e) ==
    /\ Moves(e, "closing", "ended")
    /\ UNCHANGED <<mainVars, g_stop_edge, tunnelVars, device_fd, mgmtVars>>

EdgeDisconnected(e) ==
    /\ Moves(e, "closing", "ended")
    /\ notifyConnectionStatus(DISCONNECTED)
    /\ UNCHANGED <<enabled, selected, observing, mainPc, ipMode, cSettings,
                   g_stop_edge, tunnelVars, device_fd, mgmtVars>>

Edge(e) == \/ EdgeConnecting(e) \/ EdgeInit(e) \/ EdgeReadFd(e)
           \/ EdgeBootstrapped(e) \/ EdgeSelectMgmt(e) \/ EdgeReadMgmt(e)
           \/ EdgeRegistered(e) \/ EdgeNak(e) \/ EdgeNakExit(e)
           \/ EdgeCleanup(e) \/ EdgeDisconnected(e)

Next == Main \/ \E e \in Edges : Edge(e)

Spec == Init /\ [][Next]_vars

\* The main thread finishes what it began and serves its queue between user
\* events; an edge thread that can run does.  Nothing is assumed of the user
\* or of the supernode (bootstrap, acknowledgements).
Fairness ==
    /\ WF_vars(OpenTunnel \/ Launch \/ LaunchFailed \/ StopVPN)
    /\ SF_vars(ShowStatus)
    /\ \A e \in Edges :
          WF_vars(\/ EdgeConnecting(e) \/ EdgeInit(e) \/ EdgeReadFd(e)
                  \/ EdgeSelectMgmt(e) \/ EdgeReadMgmt(e) \/ EdgeNakExit(e)
                  \/ EdgeCleanup(e) \/ EdgeDisconnected(e))

FairSpec == Spec /\ Fairness
----------------------------------------------------------------------------
(* Properties.                                                             *)

\* At most one edge is between edge_init and edge_term, however often the
\* button was pressed: the second one fails to bind the management port
\* (edge_init_sockets), and the owner of the port is the edge that runs.
OneEdgeAtATime ==
    \A e, f \in Edges :
        /\ phase[e] \in HoldingPhases => mgmtOwner = e
        /\ phase[e] \in HoldingPhases /\ phase[f] \in HoldingPhases => e = f

\* No thread will report anything any more and everything reported was shown.
Quiescent ==
    /\ observing /\ mainPc = "idle" /\ mainQueue = <<>>
    /\ \A e \in Edges : phase[e] \in {"none", "failed", "ended"}

\* When all edges are gone and their statuses shown, the button does not claim
\* a connection: the last status of every edge that reported CONNECTED, on
\* whichever path it died, clears it (networkConnectStatus).
ButtonAgreesWithEdges == Quiescent => ~selected

\* ... and it can be pressed again, unless a thread could not be created:
\* startServer disables the button on every path and relies on a
\* later status to enable it.
ButtonUsable == Quiescent /\ (\A e \in Edges : phase[e] # "failed") => enabled

\* In the first session the edge reads the very pipe the tunnel's packets are
\* written to, although without an address startTunnel has already created one
\* pipe when reStartTunnel creates another: pipe_fd_1 and eee->device.fd are
\* set by different threads and nothing but the order of the calls relates them.
FirstSessionReadsPipe ==
    \A e \in Edges :
        /\ phase[e] = "select" /\ mainPc = "idle"
        /\ \A f \in Edges \ {e} : phase[f] = "none"
        => device_fd[e] = pipe_fd

\* A "stop" that a running edge can read makes it leave its loop
\* (readFromMgmtSocket), unless the pipe it selects on is closed under it first.
LoopRunning == \E e \in Edges : phase[e] \in {"select", "readMgmt"} /\ DeviceOpen(e)

StopServedUnlessPipeClosed == (LoopRunning /\ mgmtStops > 0) ~> ~LoopRunning

\* A started edge is reported: the button comes back, as long as the view
\* controller still observes and a thread could be created.
LaunchAnswered == (mainPc = "launch") ~> (enabled \/ ~observing \/ mainPc = "launchFailed")

\* "stop    | Gracefully exit edge": a "stop" that reached the port of a
\* running edge ends it.
StopServed ==
    \A e \in Edges : (phase[e] = "select" /\ mgmtStops > 0) ~> (phase[e] = "ended")

=============================================================================
