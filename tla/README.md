# A TLA+ model of the hi-im-core Hub

hi-im-core is a message hub with two planes. Gateways connect to the FORWARD
plane, services to the BACKEND plane. A business message from a gateway is
published to all services that subscribed to its command; a message from a
service goes to the one gateway whose node id (nid) its payload names.

This directory holds specifications of the Hub's threads, queues, sessions,
routing tables, byte formats and life cycle and of the benchmark client, TLC
configurations that check them on small instances, and machine-checked proofs
for every size of instance. `PROJECT.json` lists the components, runs, mutants,
hazards, findings and theorems, and maps every definition to the lines it
models. Source paths below are relative to the repository's `src/hub/` unless
they say otherwise.

## The system

| Part | Source | State | Operations | What is hard about it |
|---|---|---|---|---|
| SPSC ring | `queue.hpp` | `head_`, `tail_`, `slots_` | Push, Pop | lock-free; each side sees an old index of the other |
| MPSC queue | `queue.hpp` | a deque under a mutex | Push, Pop | bounded |
| PushWithBackoff | `queue_push.hpp` | the value being pushed | retry, give up | the value is moved from after the first attempt |
| PipeWakeup | `pipe_wakeup.hpp` | eventfd counter or pipe | Notify, Drain | lost wakeups, writes that fail |
| Router | `router.cpp` | `sub_table_`, `nid_map_` | Subscribe, Unsubscribe, BindNid, RemoveSession, lookups | called by reactors and by the other plane's workers; lookups go stale |
| Listener | `listener.cpp` | accepted descriptor, `next_sid_` | accept, push, notify | two steps to hand a connection over; stop |
| Reactor | `reactor.cpp` | `fd_to_sid_`, `sessions_`, event batch | epoll loop, system frames, send, close | descriptor numbers are reused; references outlive sessions |
| Worker, bridge | `worker.cpp`, `bridge.cpp`, `context_impl.cpp` | the message in hand | Publish, AsyncSend | partial fan-out; pushes into the other plane |
| Distributor | `distributor.cpp` | the frame in hand | route to a send queue | waits on full send queues |
| HubServer | `hub_server.cpp` | threads | Start, Stop, Wait, IsReady | order of stopping, failed starts |
| HealthServer | `health_server.cpp` | listening socket | accept, answer | blocking recv |
| FrameBuffer | `src/wire/frame_buffer.hpp` | buffered bytes | Append, TryPopFrame | chunking, bad checksums |
| Headers, route log | `include/hiim/wire`, `include/hiim/im`, `route_log.hpp` | none | encode, decode, parse for the log | layouts, full fields, short payloads |
| Benchmark client | `cmd/hi-im-bench/main.cpp` | counters, `running`, sockets | publish and unicast modes | threads that wait for frames; counting while frames are under way |

How they interact: the listener accepts a connection, gives it a session id
(sid) and hands it to a reactor through that reactor's conn queue and eventfd.
The reactor owns the session until it closes it. AUTH binds a nid to the
session in the plane's Router, SUB enters it in a command's list. A business
frame goes into the recv queue of the worker `sid % workers`; the worker looks
the recipients up in the *other* plane's Router and pushes one frame for each
into that plane's dist queue; its distributor moves them to the send queue of
the recipient's reactor.

## Modules

| Module | Models | TLC instance | Proofs |
|---|---|---|---|
| `BoundedFifo` | what a queue promises | | |
| `SpscQueue` | the ring | `MCHandoff` | `InputProofs` |
| `Handoff` | the ring with its wakeup (extends `SpscQueue`) | `MCHandoff` | `InputProofs` |
| `Router`, `Plane` | listener, reactors, sessions and routes of one plane | `MCPlane` | `PlaneStepProofs`, `PlaneProofs`, `PlaneFrameProofs`, `PlaneRouteProofs` |
| `Delivery` | what the Hub promises its clients | | |
| `Pipeline` | both planes' data path | `MCPipeline` | `FlowProofs`, `PipelineProofs` |
| `SessionIO` | the bytes of one session | `MCSessionIO` | `InputProofs` |
| `Wire` | the headers' layouts, as operators | `MCDownlink`, `MCBench` | `EndpointProofs` |
| `Downlink` | AUTH and one routed frame, byte by byte | `MCDownlink` | `EndpointProofs` |
| `HubLifecycle` | main, HubServer, HealthServer | `MCHubLifecycle` | `EndpointProofs` |
| `Bench` | the benchmark client and the Hub it meets | `MCBench` | `EndpointProofs` |

Some proof modules are about several specifications, so the definitions every
specification has carry its name in all but one of them: `SessionInit` or
`DownlinkNext`, say.

### `SpscQueue`, `BoundedFifo`, `Handoff`

`SpscQueue` splits Push and Pop at their atomic accesses: load of the other
side's index, access to the slot, store of one's own index. The acquire load
may return any value the index has had since the last one seen
(`LoadableFrom`), which is what C++ coherence allows. `popped` is the last
value Pop returned.

`BoundedFifo` is what a queue promises: Push appends while there is room, Pop
takes the oldest. The mutex-protected `MpscQueue` is just that, one step per
call. `ImplementsFifo` says the ring implements it under the mapping
`Contents`: the abstract queue has the values from `head_` to `tail_`, the
oldest possibly already moved into Pop's local. Because of it the other
modules use sequences for queues.

`Handoff` composes the ring with the `PipeWakeup` that announces its contents.
The listener pushes, then notifies; the reactor waits, drains the descriptor
until a read finds nothing, then pops until the ring looks empty. `count` is the
eventfd's counter or the bytes in the pipe: `Chunk` is what one read takes
(anything at or above `MaxCount` is an eventfd), and at `MaxCount` a write
fails, which Notify ignores. The constructor may fail too (`valid`). A read of
the descriptor synchronises with the writes before it: `visible` says which
values of `tail_` a Pop after it may still see. Without that the code would be
wrong, since a stale `tail_` makes Pop miss the connection it was woken for.

### `Router`, `Plane`

`Router` has one action per locked operation. Subscriber lists are sets; `gid`
is never consulted and left out. `UnbindNid` and `SubscriptionCount` are only
called from tests.

`Plane` composes the Router with one listener, the reactors and the kernel's
descriptor table.

| Code | Model |
|---|---|
| `Listener::Run` | `Accept`, `ListenerPush`, `ListenerDrop`, `ListenerNotify`, `ListenerExit` |
| `Reactor::Run` | `EpollWait`, `HandleWakeup`, `HandleEvent`, `LeaveLoop`, `CloseNext`, `Return` |
| `DrainNewConnections` | `TakeConnection`, `ConnectionsTaken` |
| `DrainSendQueue`, `SendBytes` | `SendNext`, `SendsDone` |
| `HandleWritable` | `Flush`, `FlushError`, `FlushSigpipe` |
| `HandleReadable` | `ReadBlocks`, `ReadCloses` and the frame handlers |
| `HandleSystem` | `HandleAuth` (with `Authenticate`), `HandleSub`, `HandleUnsub`, `HandleKpalive` |
| `EnqueueInbound` before AUTH | `RefuseInbound` |
| `CloseSession` | `CloseRemove` (Router), `CloseErase` (tables, `close`) |
| the read loop after its session was erased | `DanglingReturn`, `DanglingRecv` |
| `Publish`, `AsyncSend`, `RouteToSendQueue` | `PublishTo`, `AsyncSend` |

`thread[r].at` is the function the reactor is in, and `thread[r].back` where
`SendBytes` or `CloseSession` returns to. A step touches shared state at most
once, so every interleaving that matters is there. Clients choose the next
frame, disconnect or reset at any moment. `outbuf` is abstracted to empty or
not; `EPOLLERR` and `EPOLLHUP` count as readable; business frames of an
authenticated session change nothing here and belong to `Pipeline`; a frame
for this plane waits in one bounded queue, which stands for the dist queue and
the send queue together, and one that does not fit is simply not sent. The
eventfd is a flag: `Handoff` has the counter. `ListenerDrop` also happens with room
in the queue, since the `head_` that Push loads may be an old one: never before
`ConnCap` connections have been accepted.

`CloseSession` inside the read loop is undefined behaviour: HandleReadable goes
on with a reference to an erased `Session`. `unordered_map::erase` frees the
node and leaves `fd` and `sid` as they were, so the outcomes modelled are those
of the old values: recv fails, or finds nothing, or takes bytes from whoever
has the number now; frames left in the freed buffer may be handled too, and an
AUTH, SUB or UNSUB among them reaches the Router in the erased session's name.
`FreedReads` says whether executions are followed beyond that point. It is a
bound: with it FALSE the properties speak of executions in which no frame is
handled for an erased session.

### `Pipeline`, `Delivery`

Both planes' data path. Threads are named by the queue they consume: a worker
by its recv queue, the distributor by the dist queue, a reactor by its send
queue. `push[t]` is the `PushWithBackoff` a thread is in: the items it still
has to push (Publish has several) and the attempts that failed. After a failed
attempt the item has lost its `payload` ("bare", an `InboundMessage`) or its
`bytes` ("empty", an `OutboundFrame`), its other fields are kept. A bare uplink
message is still published; a bare downlink message names node 0 and is
dropped; an empty frame writes nothing.

Sessions are there from the start, authenticated and subscribed; a session may
close at any time its reactor is not inside a push. On Linux all threads poll
their queues with `epoll_wait(..., 0)`, so their eventfds play no part. kqueue,
with its 200 ms timeout, polls too. After a stop a thread may end with items in its
queue (`Return`). In the code these are the ones pushed since its last Pop; the
model does not keep the time of that Pop and lets it leave any behind, which adds
executions and takes none away.

`Delivery` is what the clients are promised, with none of the threads and
queues: its variables are the open sessions, what each has sent and what each
has received. A session is written a message only while it is open, only one
that was sent to it, and of each sender only a later one than it has had. A
service's message comes with its payload, since the bridge drops one that has
lost it; a gateway's may come without, and nothing promises that a message comes
at all. `ImplementsDelivery` says that `Pipeline` implements it. The mapping is
the identity: the three variables are `Pipeline`'s own.

### `SessionIO`

The bytes of one session in both directions. A byte is `<<i, k>>`, the k-th
byte of the client's frame i; TCP hands them to `Recv` in chunks of any size.
`PopNothing`, `PopClears` and `PopFrame` are the three results of
`FrameBuffer::TryPopFrame`, called in the inner loop of `HandleReadable`; a
frame is enqueued, answered (`SendBytes`), or has `HandleSystem` return false
without closing, which leaves the rest of the buffer for later. `DecodeHeader`
compares four bytes with the magic and nothing else. A header read at a frame's
first byte therefore decodes when that frame's checksum is right; one read
further on, as happens once a wrong checksum has had the buffer cleared in the
middle of a frame, decodes where the bytes look like one. Where they do, and as a
header of what length and kind, is part of each frame the client sends (`inner`,
chosen from the constant `Inner`), so that payload can be taken for a frame.
`handled` has the bytes of every piece popped, `Bytes(i)` those of frame i.
`Write` and
`WriteEnds` are the loop of `HandleWritable` and its final `UpdateInterest`;
`room` is what the socket would take now. Closing is `Plane`'s subject and does
not happen here.

### `Wire`, `Downlink`

`Wire` has the layouts of the bus wire header, the AUTH payload and the IM
header as operators over sequences of bytes, with the code's names and offsets:
`HostToBe32`, `EncodeFrame`, `DecodesHeader`, `EncodeAuthFrame`, `PackPayload`,
`ReadDestNid`, `ReadSeq`, `ParseRouteLogMeta` and what they rest on. A 64-bit
number is a pair of words.

`Downlink` sends two messages through them: a gateway's AUTH against the Hub's
configured user and password (`GatewayAuth`, `HubAuth`), then one frame of a
service (`ServiceSends`) through EnqueueInbound, the bridge and AsyncSend
(`HubForwards`) back to the gateway, and through the route log's second parser.
Queues and sessions are the other modules' subject.

### `HubLifecycle`

main, `HubServer` and its threads: Start in its order with each listening socket
and each epoll instance able to fail, the signal, the five calls of Stop, the
joins of Wait in their order with the descriptors they close, and destruction,
where a joinable `std::thread` means `std::terminate`. A thread is a part
(`<<"reactor", "forward">>`, say) and a number. `at` is the statement of Start,
Stop or Wait that main executes next, `nth` the round of its loop: Start's loops
start a reactor, or a worker, of both planes in each round (`StartAdvance`), Wait
joins all of one vector before the next (`WaitAdvance`). `reactor_threads` and
`worker_threads` are the configured numbers, any integers; the code takes at
least one of each. A reactor whose epoll instance fails gets no thread, and Start
goes on; distributors and workers run without one. `EpollMayFail` bounds which
may fail; the proofs leave it arbitrary. That the threads of a plane end once
`running_` is false is what `Plane` and `Pipeline` show. The health thread
accepts, waits in `recv` without a timeout, and answers a probe of `/readyz` from
`listening_`, or another path. That its `send` can raise SIGPIPE, like the
reactors', is left out.

### `Bench`

Both modes of `hi-im-bench`: the receiving thread (connect, handshake, the recv
loop with its deadline), the publishers or the one sender, and main, which
sleeps, starts the senders, joins and reports. `left[t]` is the time until a
thread's deadline. The Hub is reduced to what the bench can see: it registers
the subscriber at some time after the SUB, delivers a frame or drops it, and may
go down at any moment. A frame the sender writes is in the Hub (`inHub`), then in
the receiver's socket (`socket`); it is counted in `sent` in a later step than it
was written in. `aligned` says whether the receiver still reads headers where
headers are: Handshake's FrameBuffer ends with it, and with it the bytes received
behind the SUB_ACK.

## Runs

All runs finish within two minutes on two cores.

| Run | Instance | Shows |
|---|---|---|
| `spsc_ring` | capacity 3, two values, counter limit 3, reads of 2 | no slot race, the ring implements the FIFO; no queued connection is without a wakeup, and it is taken |
| `plane_takeover` | 2 reactors, 2 descriptors, 2 connections, 2 nids, conn queues of 1 | subscriptions die with their session, one entry per subscriber; the session tables agree with each other and the kernel; a takeover of a nid survives the old session's close; no route outlives its session except after a second AUTH; no wakeup is lost; shutdown closes every session |
| `plane_reuse` | 1 reactor, 1 descriptor, 2 connections, 1 nid, `FreedReads` | stale routes and stale events never reach the wrong connection; queued connections become sessions; a stop ends listener and reactor |
| `pipeline_order` | 1 gateway, 1 service, 2 workers a plane, queues of 1, 2 messages | per-sender order, nothing twice; `Pipeline` implements `Delivery`; after a stop every thread ends |
| `pipeline_fanout` | 2 gateways, 2 subscribed services, queues of 1, 2 messages | no cross-routing; a message is lost only after meeting a full queue |
| `session_io` | 3 frames, payloads of 0 and 3 bytes, headers of 2, frames with and without bytes that look like a header; 1 routed frame; room for 2 | however the stream is cut and whatever the payloads look like, while no checksum is wrong the frames handled are those received whole, once and in order; a wrong checksum spoils nothing before it and has no byte handled twice or out of order, and **if no payload looks like a header** only whole frames with a right checksum are handled after it too; EPOLLOUT is asked for exactly while output is pending; output leaves |
| `downlink` | user fields of 2 bytes, password fields of 1, strings up to one byte longer; 4 nids; bodies of 0 and 1 bytes; payloads of 0, 48 and 51 bytes | AUTH lets in exactly who fits the configuration; a frame reaches exactly the node its IM header names, unchanged; the route log reads what was sent |
| `hub_lifecycle` | 2 reactors and 1 worker a plane (configured as 2 and 0), 3 epoll instances that may fail | threads are joined and descriptors closed before they are destroyed unless Start failed; no probe is told "not ready"; a signal ends the process if health clients speak or hang up |
| `bench` | 2 publishers, warm-up 1, duration 2, 2 frames in all, fields of the code's size | never more frames reported received than sent; the bench ends, or waits in recv for frames that do not come; it ends when the Hub does |

Three runs show where the code departs from the documents:

| Run | The document says | The code does |
|---|---|---|
| `sticky_connection` | one TCP connection stays with one reactor thread (technical design, line 170) | after an erase in the read loop, recv on a reused descriptor takes another reactor's bytes (`reactor.cpp:337`, `347`) |
| `payload_moved_from` | a business frame's payload is a complete IM frame (bus wire v1, 3.2) | a push that succeeds on a retry delivers the frame without payload (`queue_push.hpp:12`) |
| `payload_as_frame` | a frame is delivered only if length + 20 is its length and its checksum is right (bus wire v1, line 55) | a wrong checksum clears the buffer wherever the bytes received so far end (`frame_buffer.hpp:50`); if that is in the middle of a frame, payload with the magic in the right place is delivered as a frame |

More disagreements are in the models without a run of their own:

* A second AUTH under another nid leaves the first route behind for ever
  (`reactor.cpp:240`), where bus wire v1, section 4, step 8 has the Hub clean up
  SUB and nid mapping on disconnect. `RoutesLiveUnlessRenamed` states that this
  is the only way.
* A silent connection to the health port holds the health thread in `recv`
  (`health_server.cpp:100`) and Wait with it, where the M1 checklist (line 66)
  has a graceful shutdown. `ShutdownCompletes` holds under `FairClientsSpec` and
  not under `FairSpec`.
* `send` is called without `MSG_NOSIGNAL` and SIGPIPE is not ignored, so writing
  to a connection its peer has reset ends the process (`reactor.cpp:185`;
  `FlushSigpipe`). The bench does the same (`Sigpipe`).
* `/healthz` is answered from a constant (`health_server.cpp:108`), where the
  technical design (line 351) has it speak for listeners and distributors.
  `/readyz` never answers 503: the port opens after both planes listen
  (`ReadyOnceAsked`), and nothing clears `listening_` when they stop.
* The IM header has 52 bytes (`include/hiim/im/header.hpp`); bus wire v1 (line
  20) says 48. A payload of 48 to 51 bytes is treated as one without header.
* In unicast mode the bench writes the destination at offset 4 of its payload,
  and the Hub reads it at offset 24: such frames are never delivered
  (`UnicastRouted` is false), and the receiver stays in `recv`, which
  `EndsOrWaitsInRecv` allows for.
* The bench adds its warm-up of 2 s to the duration; the repository's README
  (line 63) gives a duration that includes it.

Why the bounds are enough. A ring of capacity 3 wraps, is full and is empty
with both sides at every position. A counter limit of 3 with reads of 2 has
writes that fail, Drains of one read, as an eventfd's always are, and Drains of
several. Takeover needs two sessions on different reactors, and a second AUTH two
nids; descriptor reuse needs one number and a second connection, registered while
a route, an event and a frame of the first are still there. Queues of length one make every push fail in
some execution, and two messages of one sender suffice to be reordered.
`MaxRetries` is 1: an attempt, a retry with the moved-from value, then giving up
are all the cases there are. `MaxSid` and `MaxFrames` only end executions. A
header of two bytes can be cut, a payload of three is longer than a header, so
that its rest is read as one after a clear; three frames put a bad one before,
between and after good ones. The bytes that look like a header are the first of
the payload, where one of a frame without payload decodes, and the second, where
one of a frame longer than what is left does, which then waits for bytes of the
next frame. Answers of one byte to three frames, and a routed one, against room
for two are sent in part or not at all in some execution. In `downlink` strings are shorter
than, as long as and longer than their field, and two of the nids are each
other's bytes reversed; the proofs cover the rest. In `bench` two publishers
race for the counters and a duration of 2 lets a frame arrive before, at and
after each deadline. In `hub_lifecycle` two reactors make Start's loop and Wait's
differ, a configured 0 is the boundary of `std::max`, and one epoll instance of
each kind may fail; more only multiplies the states.

TLC's check for deadlock tells nothing here. Most of the systems end: the Hub can
be stopped, the bench reports, a frame is delivered. In `spsc_ring`, where they do
not, a distributor may always notify; that nobody waits for ever is what the
liveness properties say. Symmetry is
used for nids, descriptors and reactors in safety runs only, none of which is
ordered or compared otherwise; sids are numbers and are not symmetric.

Fairness. In `Plane` each thread is weakly fair, since the operating system
schedules it. `ReadBlocks` is strongly fair: the recv loop has no budget, and a
client that always has more to read would hold the reactor for ever, so the
liveness properties assume none does; without the assumption TLC finds that
loop. DrainSendQueue has no budget either: they assume that frames stop being
routed, which after a stop is so because the distributor ends. Accepting
connections, sending frames and the stop request are not fair: nobody has to
connect or to stop. In `Handoff` both threads are weakly fair and every Drain
ends (`[]<>(rpc # "drain")`): its loop has no bound either, and with a pipe,
notifiers could keep it busy. In `Pipeline` each thread is weakly fair, and
`Stop`, once it has stopped the forward plane, stops the backend plane. In
`SessionIO` the reactor and a client that reads are weakly fair, and `EpollOut`
strongly: every `epoll_wait` reports each writable socket, while between two of
them the reactor is elsewhere. In `HubLifecycle` main and every thread are weakly
fair; `FairClientsSpec` adds that a client accepted by the health server speaks
or hangs up. In `Bench` the threads and the clock are weakly fair, and a Hub that
is up registers the subscriber and routes what it has; it need not go down, and
SIGPIPE need not come.

## Proofs

The constants' assumptions are `CapacityAssumption` and `BlankAssumption`
(`SpscQueue`), `WakeupAssumption` (`Handoff`: limit and read size are positive),
`SessionIOAssumption` (header, answer and socket buffer are not empty; a header
found in a payload names some length),
`PipelineAssumption` (gateways and services are different sessions, subscribers
are finitely many services, there are reactors and workers),
`AuthFieldsAssumption` (`Wire`: an AUTH payload's length is a 32-bit number),
`ThreadCounts` (`HubLifecycle`: the configured numbers are integers), and the
typing assumptions of `Router`, `Plane`, `Downlink` and `Bench`. No other bound
is assumed: numbers of reactors, workers, descriptors, sessions, nids, commands,
publishers, frames and retries, capacities, field lengths, sizes of frames and
payloads are arbitrary.

**`InputProofs`, the ring.** `RingSafety`: `Spec => [](TypeOK /\ NoSlotRace)`,
of which `RingTyped` is the first half, and `RingImplementsFifo`: `Spec =>
ImplementsFifo`. `NoSlotRace` is not
inductive: that a Push past its full test has room must be known while the
consumer moves. `RingInv` adds that each side's view of the other index lies
between the true index and its own (`ViewsInOrder`), that a Push past its test
still has a free slot (`PushHasRoom`), that a Pop past its test still has a
value (`PopHasValue`), and that every slot between `head_` and `tail_` holds a
value, apart from one just moved out (`LiveSlotsFilled`). Index arithmetic
modulo `Capacity + 1` is confined to a few lemmas about `Succ` and `Dist`. For
the refinement each step is shown to leave `Contents` alone or to be an abstract
Push (`PushPublish`) or Pop (`PopRelease`).

**`InputProofs`, ring and wakeup.** `HandoffUsesRing`: `HandoffSpec => Spec`,
so that all of the above holds of the hand-off. `NoConnectionIsStranded`:
`HandoffSpec => []NoLostConnection`. `HandoffInv` adds that what a Pop might
still miss (`visible # tail_`) has its Notify pending in the descriptor or ahead
of it, and that the reactor goes to sleep only after a load that showed it an
empty ring (`visible = head_`).

**`InputProofs`, the bytes of a session.** `HandledExactly`,
`BadFramesContained`, `InterestRight` and `BuffersBounded` are the four
invariants of `session_io`, for all lengths of header, payload and answer, all
payloads that look like headers in whatever places, and however TCP cuts the
stream. None is inductive, because `buf_` and `wire` alone do not tell where in
the client's stream they begin. `SessionInv` says it (`Framing`): there are places
`st[i]` where the frames begin, and a place `base`, such that `buf_` followed by
`wire` is the stream from `base` on (`Stream`); every piece handled is a run of
the stream that ends by `base` (`Piece`); and as long as no frame with a wrong
checksum begins before `base` (`Clean`) the pieces are the frames sent, and `base`
is where the next one begins (`Handled`). Recv moves bytes across the border of
`buf_` and `wire`. PopFrame moves `base` behind the piece it takes: while the
buffer is `Clean` the piece is the next frame (`HeaderAtFront`), and later, if no
payload looks like a header, it still begins with a frame's first byte. PopClears
moves `base` to wherever the buffer ended, and no longer leaves it `Clean`, since a
header that does not decode is that of a frame with a wrong checksum or behind one.
`NothingLeft` adds that the reactor leaves the inner loop with less than a frame
in the buffer unless HandleSystem has refused one, and the bound on `outbuf`
counts the answers given and the frames routed.

**`PlaneStepProofs`, `PlaneProofs`.** Theorems `Spec => []P`: `TypesHold`,
`TablesAlwaysAgree`, `EventsNeverMisdirected` and `WakeupsNeverLost`. `IInv`
says who owns a connection: each sid is given to one descriptor (`SidsOnce`);
what the listener holds and what is in a conn queue is in no reactor's tables
and nowhere else (`ListenerHolds`, `QueueHolds`); a descriptor is in the tables
of one reactor, and they agree with the kernel's (`OneReactor`, `TablesAgree`);
the session a thread is in the middle of exists, and where it returns to fits
(`HandsOK`); and the events of a batch that are still to be handled name
descriptors that are closed, or still the same connection (`EventsOK`). The last
is the delicate one: new connections are registered in the middle of a batch,
and a number closed earlier in it could come back with them. It does not,
because while the wakeup is unhandled or its connections are being taken no
handled event's close has freed a number the rest names. The first module has
the invariant and the steps that change nothing but one thread and its sessions'
contents (`LocalStep`), the second the steps that change who owns a connection.
`StopLeavesOnlyQueued`, at the end of `PlaneRouteProofs`, needs two more: a
thread that has ended has no session (`DoneEmpty`), and an open descriptor is in
a table, in a queue or in the listener's hands (`Accounted`).

**`PlaneFrameProofs`, `PlaneRouteProofs`.** What the Router, the frames under
way and the threads know about sessions. `FramesAlwaysReachTheirNode` and
`SubscribersListedOnce` hold of every execution, also beyond the use of an
erased session. `KInv` says that whatever a lookup has copied (a subscriber, a
route, a queued frame, the frame a thread is sending) pairs a nid with a session
that presented it, or with one that is gone; since sids are not reused (`Dead`),
the reactor then finds no session to send it to. `SubscribersStayLive`,
`RoutesStayLiveUnlessRenamed` and `LastAuthStaysRouted` assume `~FreedReads`: an
AUTH or SUB handled for an erased session does enter a dead session in the
Router. They rest on `SubsOK` and `RoutesOK`: a subscriber's session is open,
authenticated and not one that CloseSession has taken out of the Router and is
about to erase; a route's session is open under the route's nid, or has
presented another nid too.

**`FlowProofs`, `PipelineProofs`.** `QueuesBounded`, `RoutedRight`,
`ReceivedInOrder` and `OnlyFullQueuesLose`: the four invariants of
`pipeline_order` and `pipeline_fanout`. The argument follows one flow, from a
session f to a session d. Its messages pass seven stages (`Stages`): in the hands
of f's reactor, the recv queue of the one worker that `sid % workers` picks, the
worker's pushes, the dist queue of the other plane, the distributor's hands, the
send queue of d's reactor, received. `IInv` says that items are only where their
flow takes them (`Placed`) and that a thread's pushes are of one message, one for
each recipient (`Pushes`); that along the stages the flow's sequence numbers fall
from the end to the beginning, so that no step can reorder or double them
(`Ordered`); and that a message which has met no full queue is at some stage for
each recipient still open, with its payload (`Conserved`). The first module shows
that moving the head of one stage to the end of the next, losing it, or taking
its payload keeps a flow sorted, and which stages a queue or a thread is for a
given flow, and from these the step every push takes; the second that the steps
of the threads and the sessions are of this kind for every flow at once, the
fan-out of Publish included, and the theorems.

**`PipelineProofs`, what the clients see.** `PipelineDelivers`: `Spec =>
ImplementsDelivery`. Only `EnqueueInbound` (a Send), closing (a Close) and
`ReactorTake` (a Deliver, or nothing for an empty frame or a closed session) are
visible. That a frame in a send queue is one its session was sent, and later than
all it has had from there, follows from `Placed` and `Ordered`. That a service's
message has its payload needs an invariant of its own (`Intact`): behind the
workers, a message of a service is whole or empty. It is so because a reactor's
push into a recv queue is the only one that can leave a message bare, the bridge
drops a bare message of a service, and a failed push further on empties the frame
altogether.

**`EndpointProofs`, the codecs.** `FrameRoundTrip`, `ImHeaderRoundTrip` and
`AuthRoundTrip`: what the decoders read is what the encoders wrote, for every
32-bit and 64-bit value, every payload, every length of field and string. They
come down to the base-256 digits of a word and to which part of a concatenation
an offset falls in.

**`EndpointProofs`, the messages.** `AuthIsExact`, `DownlinkIsExact` and
`LogTellsTheTruth`: the three invariants of `downlink` for all users, passwords,
ids, bodies and payloads too short to have a header, from the round trips.

**`EndpointProofs`, the bench.** `ReportNeverExceedsSent`: `BenchSpec =>
[]ReportConsistent`. The invariant (`Conserved`) bounds frames received, in the
socket and in the Hub by those counted plus those written and not yet counted;
once main has joined the senders there are none of the latter (`Joined`).
`BenchCountsBounded`: `BenchSpec => []BenchTypeOK`. That no counter passes
`MaxFrames` needs the publishers in the middle of a write to be counted with the
frames sent (`Bounded`); that they are ended as one by a SIGPIPE is in `Shape`.

**`EndpointProofs`, the Hub's process.** `ThreadsAccountedFor`, `ShutdownIsClean`
and `ProbesFindTheHubReady`: the three invariants of `hub_lifecycle`, for any
configured numbers of reactors and workers and whichever epoll instances fail.
None is inductive: that nothing is left open at the exit is decided much earlier.
`LifecycleInv` adds what each position of main means. In Start a plane listens
once `at` has passed its listener (`InStart`), so that a health thread exists only
when both do and its answers are right. In Stop the sockets of the calls passed
are closed (`InStop`). In Wait every joinable thread is one whose join is ahead,
in a later statement or a later round of this one (`Ahead`, `InWait`); with the
last round none is left. An epoll instance belongs to a joinable thread, so it is
closed with the join.

Only model-checked: all liveness, which is beyond the proof system:
`QueuedIsTaken`, `ConnectionsRegistered`, `StopTerminates` of `Plane` and of
`Pipeline`, `OutputDrains`, `ShutdownCompletes`, `EndsOrWaitsInRecv` and
`EndsWithHub`. Every other property of a passing run is a theorem.

## What is not modelled

* kqueue code for other systems (`reactor.cpp`, `worker.cpp`, `distributor.cpp`
  under `#if`): the models follow the Linux code. The pipe variant of `PipeWakeup`
  is modelled.
* Command-line parsing of both programs with the exceptions of `std::stoi`, log
  lines, the bench's printed rates, socket options: no state of the system.
* `Router::UnbindNid` and `SubscriptionCount`: called from tests only.
* The circular wait of both planes on each other's full queues needs about a
  dozen messages under way; `Pipeline` has the steps, but an instance that
  reaches it is too large. What is checked is that a push gives up, also when its
  consumer has ended.
* The growth of `outbuf` for a client that does not read (`reactor.cpp:172`): the
  code has no limit that could be checked.
* What a piece of payload that passes for a frame goes on to do: in `SessionIO` it
  is enqueued, answered or refused like a frame of the kind its bytes name;
  `Plane` and `Pipeline`, where clients choose their frames freely, do not tell it
  from one.

What could come next: `SessionIO` shown to implement framing stated on the stream
alone; `Plane` and `Pipeline` joined by a refinement of the bounded queue that
stands for dist and send queue in `Plane`.
