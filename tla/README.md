# A TLA+ model of the hin2n iOS edge

hin2n-ios is an iOS app around the *edge* of the peer-to-peer VPN n2n. The app
process shows a start button, asks the system for a VPN connection, and runs the
edge, a C program with one `select()` loop, in a thread of its own. A second process, the
packet tunnel extension, owns the system's virtual interface. Packets travel
system → extension → app → pipe → edge → network, and back. The app links four
generations of the edge; this project models the current one, version 3
(`src/bundles/n2n_ntop_v3` and `src/n2n_libs_projects/n2n_ntop_v3`).

The modules follow the C and Objective-C code: definitions keep the names of the
functions they model, and comments say where one definition stands for several
lines. `PROJECT.json` names the source lines of every definition, the hazards
the properties are aimed at, the runs, the mutants and the theorems.

    tlc -workers 2 -config MCTunnelPath_order.cfg MCTunnelPath
    tlapm EdgeControl_proofs.tla

## 1. Inventory

| component | source | state | operations | what is hard | what makes it correct | model |
|---|---|---|---|---|---|---|
| start and stop of an edge | `hin2n/mainVC.m`, `edge_ios.c`, `edge_ios_v3.c` | button enabled/selected, observers, static `CurrentSettings`, `g_stop_edge` | `startServer`, `networkConnectStatus`, `StartEdge`, `StopEdge`, `EdgeRoutine`, `start_edge_v3`, `stop_edge_v3` | main thread, edge threads and dispatched blocks interleave; every error path must report | one edge at a time; button agrees with the edges; a stop is served | `EdgeControl` |
| tunnel manager | `hin2n/Hin2nTunnelManager.m` | VPN connection, read end of the pipe | `startTunnel`, `reStartTunnel`, `stopTunnel`, listener for packets | a pipe opened twice, descriptors reused | the edge reads the pipe the tunnel writes | `EdgeControl`, `TunnelPath` |
| bridge C ↔ Objective-C | `hin2n/BridgeC2OC.m` | none | `notifyConnectionStatus`, `setAddressFromSupernode`, `writePacketIntoTunnel` | called on the edge thread, acts on the main queue | order of statuses is kept | `EdgeControl`, `Wormhole` |
| packet pipe | `hin2n/PacketDataManager.c`, `ios_tuntap.c` | a pipe, its two numbers | `initPipe`, `closePipe`, `writePackets`, `tuntap_read` | a packet is three writes and three reads, both ends block | packets whole and in order; neither thread waits for ever | `PacketPipe`, `TunnelPath` |
| wormhole | `hin2n/public/MMWormhole*.m` | one file per identifier, notifications, main queue | pass, notify, read, listen | two processes; notifications carry nothing and may be merged | nothing old after something new; the newest arrives | `Mailbox`, `Wormhole` |
| packet tunnel extension | `Tunnel/PacketTunnelProvider.m` | network settings | `readPacket`, listener that writes to the interface | ends and restarts independently | as the wormhole | `TunnelPath` |
| registration with supernodes | `edge_ios_v3.c`, `edge_utils.c` | `curr_sn`, `sn_wait`, attempts, `last_sup`, cookies, timers | bootstrap runlevels, `update_supernode_reg`, `sort_supernodes`, ACK/NAK/PEER_INFO of `process_udp` | UDP loses, delays and doubles; failover races late answers | registered with the supernode in use; failover only when justified; registered in the end | `SupernodeSession` |
| list of supernodes | `n2n.c`, `sn_selection.c`, `uthash.h` | hash entries on a doubly linked list | add, delete, iterate, sort a part | sorting through a pointer into the middle | no configured supernode is lost | `SupernodeList` |
| peer tables | `edge_utils.c` | `pending_peers`, `known_peers` | registering, acknowledging, querying, forgetting, choosing a destination | several edges, sockets that change, stale entries, relays | one entry per peer and socket; direct only where answered; direct again in the end | `PeerTable` |
| main loop of the edge | `edge_utils.c` `run_edge_loop` | the loop's clocks | select, dispatch, timers | all of the above run in it | it is never stuck outside `select()` | each module has the calls that touch its state |
| management port | `edge_utils.c` `readFromMgmtSocket` | one UDP port | `stop` | acts as a lock between edges | see start and stop | `EdgeControl` |
| time stamps | `n2n.c` | `previously_issued_time_stamp`, last valid 64-bit stamp per peer | `time_stamp`, `time_stamp_verify_and_update` | jitter, an overflowing counter, clocks set back, reordering | never back by more than the jitter; nothing in order is dropped | `TimeStamp` |
| ARP cache | `bundles/uip/uip/uip_arp.c`, `edge_ios_v3.c` | fixed table with 8-bit times, `gateway_mac` | update, look up, age; one frame per IP packet | replacement at the limit, a clock that wraps, stale parts of freed entries | one entry, with the newest MAC address; flushed in time, not before | `EthernetBridge` |
| supernode | `sn_utils.c` | edges, associations of each supernode | register, draw an address, forward, query, purge | runs on servers, not built into the app; edges that move between supernodes, crash, come back | addresses differ; only the owner redirects a registration; packets find the edge | `Supernode`; external to `SupernodeSession` and `PeerTable` |
| versions 1, 2, 2s | `bundles/n2n_*`, `n2n_libs_projects` | as version 3 | start, stop | other error paths | as version 3 | not modelled |
| wire format, transforms, traffic filter | `wire.c`, `transform_*.c`, `network_traffic_filter.c` | none, or a rule list the app leaves empty | encode, encrypt, filter | pure functions of their input | – | not modelled |
| settings, other views, vendored UI and database code | `hin2n/*VC.m`, pods | an SQLite table | forms | one thread | – | not modelled |

How they interact. The button calls `startTunnel` (pipe, VPN connection) and
then `StartEdge` (a thread). The edge thread reports statuses through the bridge
to the main queue. Stopping sends a datagram to the edge's management port.
Packets from the system are passed to the app through one wormhole, written to
the pipe by the main thread, and read by the edge thread inside its main loop.
Packets from the network go straight into the other wormhole. In between, the
edge turns IP packets into Ethernet frames with the help of its ARP table, looks
for the peer's socket in its peer tables, and stamps and encrypts; a supernode
forwards what has no direct way.

## 2. Modules

`EdgeControl` – the life of an edge as seen from the button. Actors: the main
thread (`mainPc` splits a handler wherever an edge thread can look in between),
one thread per `StartEdge` (`phase`), and the kernel's port 5644 (`mgmtOwner`,
`mgmtStops`). `PressStart`/`OpenTunnel`/`Launch` are the start branch of
`startServer`; `PressStop`/`StopVPN` its stop branch; `ShowStatus` is the block
`networkConnectStatus` dispatches; `EdgeInit` … `EdgeDisconnected` follow
`start_edge_v3` and `run_edge_loop` to each exit. Descriptors are numbers, so
that a closed one can be reused and `pipe()` can fail.

`SupernodeList` – the uthash list with its `next`, `prev` and head pointers,
`HASH_ADD`, `HASH_DEL`, and the merge sort's effect on the pointers. Written
with links because the code sorts a sublist and the macros trust `prev`.
`SupernodeSession` – the bootstrap loop (`runlevel` 0–4) and the supernode part
of the main loop (`pc` = `select`, `update`, `sweep`), over a lossy network.
Three ghosts record what the properties need: `holder` (who accepted the last
registration), `realAck`, `tries`.

`PeerTable` – the tables of all edges at once, the messages between them, and a
supernode that relays. Each `ReceiveX` is one case of `process_udp` with the
helpers it calls, composed as functions on `[pending, known, out]`;
`SendPacket` is `edge_send_packet2net` with `find_peer_destination`.

`Supernode` – the tables of all supernodes of a federation, the edges that
register, move, crash and start again, and the messages between supernodes.
`Draw` and `Register` are REGISTER_SUPER of an edge at its supernode, without
and with an address; each `ReceiveX` is what `process_udp` does with a message
of another supernode; UNREGISTER_SUPER is part of `Stop` and `Select`.
`Forwarded` is where `try_forward` sends a packet.

`TimeStamp` – the stamps of one sender and the entry of it at one receiver, as
numbers with bit fields. The network keeps every message for ever.

`EthernetBridge` – the ARP table with its clock, and the callbacks of
`edge_ios_v3.c` that use it: `PacketFromTap`, `ArpFromPeer`, `Timer`, and
`StartEdge`, which clears the gateway's MAC address and of the static table only
the IP addresses.

`Mailbox` – what a channel promises: the newest message only, never backwards.
`Wormhole` – one direction of MMWormhole in detail; implements `Mailbox`.
`PacketPipe` – `writePackets`, `closePipe` and `tuntap_read` over the bytes in the
pipe. Byte `k` of the `n`-th packet written is `<<n, k>>`. It has no specification
of its own: packets are given to it by the step that composes it. `Close` may come
whenever the main thread is idle, as it does in the stop branch of `startServer`,
in `exit:` and when a refused edge asks for it; the edge may be in `select()` or
in the middle of `tuntap_read` then, whose next `read()` fails (`ReadFails`).
`TunnelPath` – composes `Wormhole` and `PacketPipe` as the app does: both the
notification handler and `writePackets` run on the main thread, so a full pipe
stops the receiver of the wormhole. `HandOver` is the listener's block and the
call of `writePackets`, `InPipe` a step of either thread, `AppEnds` the end of the
process. The wormhole in it still implements `Mailbox`, and so does the whole path.

Modules named `MC…` only give constants their values. Operators whose name ends
in `_something` and whose comment begins with "Mutant" are plausible bugs; each
makes the property it is listed with fail, and no specification uses them.

## 3. What the runs show

| run | instance | shows |
|---|---|---|
| `edge_control` | 2 presses, 2 descriptors, given and assigned address, failing threads, sockets and configurations | `OneEdgeAtATime`: the management port is the lock. `ButtonUsable`, `ButtonAgreesWithEdges`: when everything has ended and was shown, the button can be pressed and claims no connection. `FirstSessionReadsPipe`: through the two ways a pipe is created, the first edge reads the one the tunnel writes. `StopServedUnlessPipeClosed`, `LaunchAnswered` |
| `edge_control_stop_lost` | given address, nothing fails | violated: `StopServed` (finding 1) |
| `session_assign` | 2 supernodes that may name one another, assigned address, losses, duplicates, refusals, failing name resolution | `LastSupIsReal`, `RegisteredWithCurrent`, `FailOverJustified` |
| `session_liveness` | 2 supernodes, loads 0 and 1, one of which goes down and up for ever | `EventuallyRegistered`; `BackupsKept` where the address is given |
| `session_backup_lost` | 2 supernodes, loads 0 and 1, assigned address | violated: `BackupsKept` (finding 2) |
| `peers_moves` | 2 edges, 3 sockets, 2 changes, losses, duplicates, outages | `OneEntryPerSocket`, `OneEntryPerPeer`, `DirectOnlyWhereAnswered` |
| `peers_direct` | 2 edges, 1 change, fair clock and network | `DirectAgain` |
| `path_order` | 5 packets of 3, 6, 2, 5 and 4 bytes, a pipe of 8, atomic size 3, packet 4 spells the head; failing writes of the file; a pipe that is closed, an edge that ends, an app that ends once | `MailboxSpec` (refinement), `NewestArrives`: the wormhole. `FramingKept`, `FramesInOrder`: what the edge takes for packets. `MainReturns`, `ReaderReturns`: neither thread waits for ever. `PathIsMailbox` (refinement), `NewestRead`: from the extension to the edge |
| `ethernet_bridge` | 3 hosts, one the gateway, one with a zero half, 2 MAC addresses, 2 entries, a clock of 5 values, age 2 | `NewestClaimUsed`, `OldEntriesFlushed`, `YoungEntriesKept`, `OutsideToGateway` |
| `stamps_order` | 3 stamps, fields of 1 to 2 bits, a clock that is set back, skew, late and repeated messages, one lost entry | `AsAccurateAsFlagged`, `NeverBack`, `InOrderAccepted` |
| `supernode_routes` | 2 supernodes, one of which never gives the community up; one edge that starts and moves twice, or two that start once | `OwnersOnly`, `AddressesDiffer`, `RouteRepaired` |
| `supernode_refresh` | as `supernode_routes` | violated: `AssociationsRefreshed` (finding 3) |

`TypeOK` of `EdgeControl`, `SupernodeSession`, `PeerTable`, `EthernetBridge` and
of wormhole and pipe together (`PathTypeOK`) is checked and proved; that of
`TimeStamp` and `Supernode` is proved only.

Bounds and why they are enough:

- `EdgeControl`: two edges let one run while the other starts, fails and clears
  up; with a third nothing new meets, since the port admits one holder. Two
  descriptors make reuse and exhaustion happen. `MaxQueue` only stops a running
  edge from reporting the same status again while one is still queued.
- `SupernodeSession`: two supernodes are what the settings form offers. A tick
  is 3 s, `SweepTime` and `RegisterInterval` are shortened to 1 or 2 ticks, so that
  sweeps, re-registrations and time-outs interleave in every order; `SupAttempts`
  is 1 instead of 3. `MaxNet` answers in flight: what exceeds it is lost, which
  the network may do anyway. Loads 0 and 1 suffice to order two supernodes.
- `PeerTable`: two changes of a socket are needed for one edge to come to where
  another was. Ages count half registration intervals, so the ratio of the three
  time-outs is kept with ages 1, 1 and 2. `MaxNet` bounds the messages in
  flight, which may be lost anyway. In `peers_direct`, whose property needs
  registrations and answers to arrive, it bounds packets alone, and is 0: every
  packet is lost, nothing else is.
- `TunnelPath`: order is a matter of three messages (handed over, on the queue, in
  the file); there are five. One end of the app shows what is lost and what is not
  when its queue and its pipe go; a second one meets the same state.
- `PacketPipe`: lengths of both parities, below and above the atomic size, and a
  pipe that holds two short packets or a part of a long one. The numbers stand
  for 512 bytes of PIPE_BUF and 16 KB of pipe.
- `EthernetBridge`: two entries for three hosts make the table overflow; a clock
  of five values wraps while entries of age 2 live. The numbers stand for 8
  entries, 256 values and an age of 120.
- `TimeStamp`: the smallest widths at which every field can carry into the next
  one or overflow: three microseconds that a clock shows, of four in its bits, a
  counter of one bit, a frame of two seconds. The clocks pass one boundary of a second.
- `Supernode`: one message between supernodes is in flight at a time, others are
  lost, which they may be anyway. Ages count purges, and keep the order of the
  two time-outs. With two supernodes no association leads to a third one; what
  the code does for it does not depend on who it is.

`CHECK_DEADLOCK FALSE`: in `EdgeControl` the presses are used up; in
`SupernodeSession` a refusal ends the thread; wormhole and pipe come to rest when
all messages are passed or the edge has ended; the clocks of
`TimeStamp` stop at their bound. In the other runs deadlock is checked.

## 4. Fairness

Nothing is assumed of the user or of a supernode's will.

- `EdgeControl`: weak fairness of what the main thread has begun (it runs on),
  strong fairness of `ShowStatus` (the main queue is served between user events,
  which may disable it for the duration of a handler), weak fairness of every
  step of an edge thread that waits for nothing but the processor. The end of
  the bootstrap, acknowledgements and refusals come from a supernode and are not
  fair.
- `SupernodeSession`: the thread runs. If answers to the current supernode's last
  request are in flight again and again, one arrives (strong fairness of their
  delivery), and so does a PONG while the first one is awaited.
- `PeerTable`: time passes, edges register again (timer of `run_edge_loop`),
  each kind of message that is on its way to where an edge still is arrives, and
  the edges in `Traffic` keep sending. In `peers_direct` messages arrive within
  a tick of about ten seconds (`Prompt`).
- `Supernode`: an edge that runs draws its address and registers again and again
  (timers of `run_edge_loop`), a supernode purges (`sort_communities` and
  `purge_expired_communities` are called by its main loop) and reads what it is
  sent, if that is not lost.
- `TunnelPath`: the extension posts a notification for what it has written (`Post`),
  the system delivers notifications (`AppNotified`), the main queue is served
  (`HandOver`), and a thread whose read or write the pipe admits makes it
  (`MainStep`, `ReaderStep`). Messages, listening, closing the pipe and the ends of
  edge and app are not fair.

## 5. What is proved

Each theorem holds for every value of the constants that the module's named
assumption admits. Every invariant that a run checks is proved, and so are the
refinements and the properties of single steps.

| module | theorem | statement |
|---|---|---|
| `EdgeControl_proofs` | `TypeCorrect`, `OneEdge` | `[]TypeOK`, `[]OneEdgeAtATime` |
| | `ButtonTellsTruth`, `ButtonComesBack` | `[]ButtonAgreesWithEdges`, `[]ButtonUsable` |
| | `FirstPipe` | `[]FirstSessionReadsPipe` |
| `PeerTable_proofs` | `TypeCorrect`, `SocketsUnique` | `[]TypeOK`, `[]OneEntryPerSocket` |
| | `PeersUnique`, `DirectIsConfirmed` | `[]OneEntryPerPeer`, `[]DirectOnlyWhereAnswered` |
| `SupernodeSession_proofs` | `SessionTypeCorrect`, `RegisteredWithTheCurrent` | `[]TypeOK`, `[]RegisteredWithCurrent` |
| | `LastSupIsOnlyReal`, `FailOverIsJustified` | `[]LastSupIsReal`, `FailOverJustified` |
| | `BackupsAreKept` | `[]BackupsKept`, if the address is given (`IpMode = "static"`) |
| `Wormhole_proofs` | `WormholeInductive`, `ImplementsMailbox` | `[]WormholeInv`, the refinement `MailboxSpec` of `WormholeSpec` |
| `TunnelPath_proofs` | `PathTypeCorrect`, `PathKeepsFraming` | `[]PathTypeOK`, `[]FramingKept` |
| | `PathKeepsOrder` | `[]FramesInOrder` |
| | `PathKeepsMailbox`, `PathImplementsMailbox` | the refinements `MailboxSpec` and `PathIsMailbox` of `PathSpec` |
| `EthernetBridge_proofs` | `TypeCorrect`, `NewestClaim`, `OldFlushed` | `[]TypeOK`, `[]NewestClaimUsed`, `[]OldEntriesFlushed` |
| | `YoungKept`, `OutsideThroughGateway` | `YoungEntriesKept`, `OutsideToGateway` |
| `TimeStamp_proofs` | `TypeCorrect`, `NoReplay` | `[]TypeOK`, `[]NeverBack` |
| | `StampsAreAccurate`, `InOrderIsAccepted` | `[]AsAccurateAsFlagged`, `[]InOrderAccepted` |
| `Supernode_proofs` | `TypeCorrect`, `NobodyElseRedirects` | `[]TypeOK`, `[]OwnersOnly` |
| | `AddressesUnique` | `[]AddressesDiffer` |

Hardly any of these is inductive alone. What was added, and why it is needed:

- `EdgeControl`. Reading a stop decrements `mgmtStops`, which stays natural only
  because no other edge reads or closes the port: `PortInv` says that an edge
  between `edge_init` and `edge_term` owns the port, and that there is a stop in
  `readMgmt`. For the button, `LastClears` and `EnabledAgain`: when no edge has
  anything left to report, the last status in the queue clears the button, or it
  is cleared already. For the pipe, `PipeInv` follows the descriptor from
  `startTunnel` or `reStartTunnel` through `cSettings` to `device_fd`, as long
  as only one edge was ever started.
- `PeerTable`. `Whereabouts`: every socket in a message, table entry or
  acknowledgement is one where the edge it is told of has been. So unless
  sockets change hands, a search by socket and one by MAC address find the same
  peer. `Fine` says of one edge's tables what must hold between the calls of a
  handler; one lemma per helper shows that it preserves `Fine`, and a handler is
  a composition of helpers.
- `Wormhole`. `Notified`: there are no more notifications than messages, and none
  without a file. `Ordered`: what the listener got, what waits on the main queue
  and what is in the file ascend.
- `SupernodeSession`. `CookiesOwned`: an acknowledgement in flight that carries
  the last cookie of supernode `s` comes from `s`; so the one that is accepted
  by its cookie was sent by the current supernode. It holds because a cookie
  that is drawn is in no message and no entry: at most `MaxNet` messages and one
  cookie per supernode are in use, fewer than there are cookies
  (`FreshCookieIsFresh`). `OnlyRealAwaited`: in the main loop only an
  acknowledgement of a registration with a MAC address can be accepted, unless
  one was or the next registration is due. `AttemptsCounted` relates the
  attempts left to those made, for `FailOverJustified`.
  For `BackupsKept`, `Holds(supernodes, S)`: there is a sequence of entries
  without repetition that the links of the list follow from its head, with `prev`
  of each entry the one before, and all of `S` are in it. Sorting a part breaks
  just this (`prev` of its first entry is NULL), so the theorem needs that where
  the address is given the part that is sorted is the whole list.
  What the recursive functions of `SupernodeList` compute is proved from
  `Iteration` (a function that repeats a step exists) and `Induction` over a
  set, which do not need the library's theorems with an operator as parameter.
- `PacketPipe` (lemmas in the first part of `TunnelPath_proofs`).
  `Bytes`: the bytes in the pipe and the one that is written next form a stream
  in which each byte is the successor of the one before; bytes that are not
  neighbours differ by their distance if they are of one packet. The lemmas
  `Extended` and `Shortened` say that a write at the end and a read at the front
  keep a stream one. `Position`: as long as all frames were whole, the next byte
  is where `tuntap_read` believes to be. `Unfinished`: only a packet longer than
  PIPE_BUF is written in parts. `ClosedIsEmpty`. `Behind`: no frame is of a
  newer packet than the next byte. With `Sent` (packets are handed over in the
  order of the listener's messages) and the invariant of `Wormhole`, whose proof
  module `TunnelPath_proofs` extends, a read is `Arrive` of the mailbox.
  For `FramesInOrder`, `InStep`: where no payload spells the head, the reader
  that has found a head, also after a cut, is at the length of a packet, and then
  at its first payload byte. `Past`: the packet that was read last only comes
  again with a byte behind its first payload byte, where nothing begins.
- `EthernetBridge`. `AgeIsDifference`: the age of an entry is the difference of
  the two times, modulo the wrap. `RoutesEmpty`: as long as no entry was given
  up, no MAC address is found under 0.0.0.0.
- `TimeStamp`. `LastCoversNewest`: the stamp that is kept is not older than any
  that was accepted. For `InOrderAccepted`, `Rising`: of two messages with the
  same flag the later one has the greater stamp, if all that were sent between
  them were sent at a time that these stamps do not tell apart; `CountsOn`: the
  long counter is never given up; `Remembered`: what the receiver keeps is the
  stamp of a message it accepted, or older than its frame. The rest is
  arithmetic of the fields (`StampIsNext`, `FloorMonotone`, `NearSeconds`).
  Assumed of the constants is that one of the flags tells the counter
  (`Flags` is even) and that the jitter of a counter is a second at least: the
  code shifts 160 ms by eight bits. The proof found a case that the bounds of
  `stamps_order` do not reach, and the property now excepts it (section 6).
- `Supernode`. `OwnThings`: tokens and sockets name their edge.
  `OneEntryPerKey`: a table has one entry for each MAC address and for each IP
  address, since `update_edge` adds one only if it finds neither, and one found
  by its IP address gets the new MAC address.

Only model-checked:

- liveness (`StopServedUnlessPipeClosed`, `LaunchAnswered`, `EventuallyRegistered`,
  `DirectAgain`, `NewestArrives`, `NewestRead`, `MainReturns`, `ReaderReturns`,
  `RouteRepaired`): the prover does not handle fairness and ENABLED.

## 6. Findings

1. `StopServed` (`mainVC.m:249`). The help of the management port promises
   "Gracefully exit edge". `startServer` closes the pipe right after sending the
   stop. If the edge had not entered `select()` yet, it now fails with EBADF at
   every turn, never looks at the management socket, and runs for ever.
2. `BackupsKept` (`edge_ios_v3.c:476`). The bootstrap sorts the list behind the
   current supernode in place. The sort sets `prev` of the first entry it sorts
   to NULL. When that entry's MAC address becomes known it is deleted and added
   again, and HASH_DEL takes an entry without predecessor for the head: the
   supernodes before it are no longer in the list.
3. `AssociationsRefreshed` (`sn_utils.c:502`). The comment in
   `update_node_supernode_association` says "already there, update socket and time
   only", but its `else` belongs to the allocation that failed. A supernode that has
   an edge associated with one supernode and is told of it by another keeps the
   first: packets go to the supernode that the edge has left, until the association
   expires. That it expires is what `RouteRepaired` rests on. The purge looks at the
   age of the first association only, which is the oldest as long as none is
   refreshed: whoever repairs the `else` has to change the purge as well.

Properties that carry a condition because the code does not keep them without it:

- `LastSupIsReal`: a registration that `run_edge_loop` cannot send, because the
  name is not resolved, draws no new cookie, so a late acknowledgement of the
  bootstrap is taken for a real one (`edge_utils.c:2451`). The property counts
  such a registration as real.
- `StopServedUnlessPipeClosed` speaks of the main loop only: in the bootstrap a
  stop waits until the edge gets through. And `g_stop_edge` is one variable for
  all edges: an edge that takes the place of one to which a stop was already
  sent cannot be stopped from the button.
- `ButtonUsable` and `LaunchAnswered` except a thread that could not be created:
  `startServer` leaves the button disabled then (`mainVC.m:241`).
- An `edge_init` that fails after it has bound the management port leaves its
  socket open (`edge_utils.c:402`): every later edge fails to bind, and says so.
  No property asks that a later edge can start.
- `ButtonUsable`, `ButtonAgreesWithEdges` and `LaunchAnswered` speak of a view that
  still observes: `viewWillDisappear` removes the observers for good.
- `FirstSessionReadsPipe` is about a first session: a second start overwrites
  `cSettings` and the pipe's numbers under an edge that still reads them.
- `OneEntryPerPeer` excepts sockets that change hands, where
  `peer_set_p2p_confirmed` finds the wrong entry by its socket.
- `find_peer_destination` drops a silent known peer also while no supernode
  answers, although `run_edge_loop` takes care not to purge it then.
- `ReaderReturns` and `NewestRead` except a packet longer than PIPE_BUF that met
  a full pipe: `tuntap_read` takes a part for the whole, reads the rest as a
  head, and waits for a head that may not come, with the main loop of the edge.
  `NewestRead` also excepts a pipe that was closed, which the edge may survive.
- `FramesInOrder` excepts payloads that spell the head: after a cut their middle
  is taken for the beginning of a packet.
- `MainReturns` excepts an edge that has ended: the main thread then waits for
  room in a pipe that nobody reads, and only it could close.
- `Mailbox` allows messages to be lost and repeated: `writePacketIntoTunnel`
  passes one packet per message, and the file holds one message.
- `NewestClaimUsed` excepts addresses with a half that is zero, such as
  10.1.0.0: `uip_arp_update` takes their entry for unused and makes another one.
- `OldEntriesFlushed` excepts entries written so late that the 8-bit clock wraps
  before they are old (`time + MaxAge >= Wrap`: at 136 or later of 256). After the
  wrap the difference of the times is negative, and before the next one it does not
  reach the age: the timer never flushes them, in the code as in the model.
- `OutsideToGateway` ends with the first entry that is given up: flushing clears
  the IP address and leaves the MAC address, which is then found under 0.0.0.0.
- `InOrderAccepted` excepts a sender whose clock was set back and has not caught
  up (`SentBehind`) and, where no jitter is allowed, one whose counter began anew
  in a second that had stamps (`CounterRestarted`): the short counter overflowed
  in it, or the clock was set back into an earlier second, a stamp issued there,
  and the long counter is 0 when the clock comes to the second again.
- `RouteRepaired` excepts an edge that some supernode refuses (`Refused`): a
  registration with another token refreshes the very entry that refuses it
  (`sn_utils.c:653`), so it does not expire as long as the edge tries.
- `AddressesDiffer` excepts an edge that has drawn another address while its
  entry was kept (`Readdressed`): `update_edge` does not change the address of a
  known MAC address.

A comment says something else than the code: `n2n.c:742` speaks of eight times the
jitter (about 1.25 s) where the code shifts by eight bits, 256 times or 41 s, more
than the frame of 16 s admits anyway. The model has the shift (`CoShift`).

## 7. Abstractions

- `EdgeControl`: version 3 only. What the system does with the VPN connection is
  left out: its calls and their completions are not in this repository. Only the
  read ends of pipes are numbered; sockets and files are not. Between `memset`
  and `getCurrentSettings` only `vpnFd` is seen torn. The failures of
  `edge_verify_conf` and `edge_init` are two, one before and one after the bind.
- `SupernodeSession`: a request and a supernode's answer are one step, since the
  answer depends on nothing else; the answer is then in flight. UDP only,
  addresses of supernodes fixed, selection by load, the number of known peers
  constant, values of assigned addresses and UNREGISTER_SUPER left out. An
  answer is a member of a set, so two equal answers in flight are one. The socket
  that a fail-over closes and opens again is left out, with the condition on
  `local_port` (`edge_utils.c:1352`, true in the app, which leaves it 0) and with
  a re-open that fails.
- `PeerTable`: allow_p2p on; no multicast discovery, no broadcast packets, no
  time-stamp verification. A packet or request that goes through the supernode
  is relayed, or answered, in one step. Where a table holds two entries a search
  may find, either is found. An entry of age 0 may or may not be of this second.
  A REGISTER_SUPER_NAK for another edge, which deletes that peer
  (`edge_utils.c:2494-2503`), may come from a supernode that answers to a socket
  which the other edge had before (`ReceiveNak`); the two entries it takes out of
  the tables are not freed, and that leak is not modelled. In `Safeguard`, the
  REGISTER to silent known peers in an outage (`edge_utils.c:1387-1392`),
  `QueryAge` stands for REGISTER_SUPER_INTERVAL_DFL.
- `Wormhole`: one sending thread; a message is a number; notifications may be
  merged; nobody deletes the file (the app never calls the clear operations).
- `PacketPipe`: packets have lengths, and no contents but where one spells the
  head 0x1234, which is a constant; other bytes read as a length give `Misread`.
  A `read()` that the close interrupts returns nothing: the frame without payload
  that the system may make of an end of file is left out. A process of the app that
  was started again has a wormhole, but no edge yet.
  Reads and writes follow a blocking pipe: up to PIPE_BUF whole, more in parts.
- `EthernetBridge`: a packet is where it goes and the MAC address it is given. A
  step lasts no longer than a tick of its clock.
- `TimeStamp`: one sender and one receiver. Stamps are numbers; the widths of
  their fields are constants, and the lowest flag is the only one used.
- `Supernode`: one community, an association stands for what an edge's entry at
  another supernode is. Between an edge and its supernode a message is delivered
  at once or lost. A supernode that gives the community up has empty tables.

Not modelled:

- Version 2 of the edge has the life cycle of version 3 with an older library;
  versions 1 and 2s are older protocols of which the app uses start and stop.
- The wire format (`wire.c`), header encryption and transforms are pure
  functions of a message; the modules exchange decoded messages.
- The traffic filter is a list of rules that the app leaves empty.
- The settings are one thread and one table.
- The system's VPN connection and the tunnel's network settings: calls into a
  framework whose behaviour is not in this repository.
- Federation of supernodes as such (how they find each other), their file of
  communities, TCP, and multicast discovery between edges.

Most of the repository's lines are not the app's: four generations of n2n with
tools, packages and ports to other systems, of which the app compiles the edge;
copies of minilzo, OpenSSL headers, fmdb, Masonry. The modules cover the state
machines of the app and of the generation it is built around.

## 8. Plan

What is left, in the order of its worth:

1. Proofs: the order of the list of supernodes after a sort (a permutation in
   which loads ascend), which `EventuallyRegistered` rests on; the steps on which
   the liveness properties rest, as properties of single steps.
2. `PeerTable` with three edges and traffic in both directions; `Supernode` with
   a third supernode.
3. Version 2 as a parameter of `EdgeControl`; numbers for sockets, which
   `run_edge_loop` and `edge_term` both close; the jam of the main thread in
   `EdgeControl`.
4. `Supernode` in place of what `SupernodeSession` and `PeerTable` take for
   external.
