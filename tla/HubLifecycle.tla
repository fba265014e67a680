---------------------------- MODULE HubLifecycle ----------------------------
(***************************************************************************)
(* Start, Stop, Wait and destruction of a HubServer as main drives them    *)
(* (cmd/hi-im-hub/main.cpp, src/hub/hub_server.cpp), with the threads of   *)
(* both planes and the health server's thread (src/hub/health_server.cpp). *)
(*                                                                         *)
(* Start and Wait are lists of statements, the position `at'; a statement  *)
(* in a loop runs once for each `nth' reactor or worker.  That the threads *)
(* of a plane end once running_ is false is what Plane and Pipeline show.  *)
(***************************************************************************)
EXTENDS Integers, Sequences

CONSTANTS
  reactor_threads, worker_threads,  (* of DualHubConfig, for each plane    *)
  EpollMayFail    (* bound: threads whose epoll_create1 may fail           *)

ASSUME ThreadCounts == reactor_threads \in Int /\ worker_threads \in Int

AtLeastOne(n) == IF n < 1 THEN 1 ELSE n
reactors == AtLeastOne(reactor_threads)
workers == AtLeastOne(worker_threads)

Planes == {"forward", "backend"}
HealthPart == <<"health", "health">>

\* Mutant: the health port is opened first.
StartOrderHealthFirst ==
  <<HealthPart, <<"listener", "forward">>, <<"listener", "backend">>, <<"dist", "forward">>,
    <<"dist", "backend">>, <<"reactor", "forward">>, <<"reactor", "backend">>,
    <<"worker", "forward">>, <<"worker", "backend">>>>

\* What HubServer::Start starts, and what HubServer::Wait joins, in order.
StartOrder ==
  <<<<"listener", "forward">>, <<"listener", "backend">>, <<"dist", "forward">>,
    <<"dist", "backend">>, <<"reactor", "forward">>, <<"reactor", "backend">>,
    <<"worker", "forward">>, <<"worker", "backend">>, HealthPart>>

\* Mutant: the health thread is not joined.
WaitOrderShort == SubSeq(StartOrder, 1, 8)

WaitOrder ==
  <<<<"listener", "forward">>, <<"listener", "backend">>, <<"reactor", "forward">>,
    <<"reactor", "backend">>, <<"worker", "forward">>, <<"worker", "backend">>,
    <<"dist", "forward">>, <<"dist", "backend">>, HealthPart>>

Parts == {StartOrder[n] : n \in 1 .. Len(StartOrder)}

\* How often a part occurs: the bound of the loops.
Instances(part) ==
  IF part[1] = "reactor" THEN reactors ELSE IF part[1] = "worker" THEN workers ELSE 1

HubThreads == {t \in Parts \X (1 .. reactors + workers) : t[2] <= Instances(t[1])}
HealthThread == <<HealthPart, 1>>
Kind(t) == t[1][1]
PlaneOf(t) == t[1][2]
Listener(plane) == <<<<"listener", plane>>, 1>>
Listeners == {Listener(plane) : plane \in Planes}

\* HubServer::Stop: RequestStop of both planes, then Stop of what has a socket.
RequestsStop == <<"forward", "backend", "health", "forward", "backend">>

\* Mutant: the listeners' sockets are left open.
ShutsDownHealthOnly == <<{}, {}, {HealthThread}, {}, {}>>

ShutsDown == <<{}, {}, {HealthThread}, {Listener("forward")}, {Listener("backend")}>>

VARIABLES
  main,       (* where main is                                             *)
  at, nth,    (* the statement of Start, Stop or Wait it executes next, and
                 the round of its loop                                     *)
  status,     (* what main will return                                     *)
  g_stop,     (* a signal has arrived                                      *)
  running_,   (* those of the planes' and the health server's running_
                 that are true                                             *)
  listening,  (* planes whose listening_ is true                           *)
  sockets,    (* threads whose listening socket is open                    *)
  epolls,     (* threads whose epoll instance is open                      *)
  live,       (* threads that run                                          *)
  joinable,   (* threads started and not joined                            *)
  inRecv,     (* the health thread waits for a client's request            *)
  answer      (* its last answer to a /readyz                              *)

position == <<main, at, nth>>
threads == <<running_, listening, sockets, epolls, live, joinable>>
health == <<inRecv, answer>>
lifecycleVars == <<position, status, g_stop, threads, health>>

LifecycleTypeOK ==
  /\ main \in {"start", "serve", "stop", "wait", "destroy", "exit", "terminated"}
  /\ at \in 1 .. 9 /\ nth \in 1 .. reactors + workers
  /\ status \in {0, 1}
  /\ g_stop \in BOOLEAN
  /\ running_ \subseteq Planes \cup {"health"}
  /\ listening \subseteq Planes
  /\ sockets \subseteq Listeners \cup {HealthThread}
  /\ epolls \subseteq HubThreads \ (Listeners \cup {HealthThread})
  /\ live \subseteq joinable /\ joinable \subseteq HubThreads
  /\ inRecv \in BOOLEAN
  /\ answer \in {"none", "ok", "not ready"}

LifecycleInit ==
  /\ main = "start" /\ at = 1 /\ nth = 1 /\ status = 0
  /\ g_stop = FALSE
  /\ running_ = Planes
  /\ listening = {} /\ sockets = {} /\ epolls = {} /\ live = {} /\ joinable = {}
  /\ inRecv = FALSE /\ answer = "none"

-----------------------------------------------------------------------------
(* main                                                                     *)

\* On to the statement after `at', or to `after'.
Advance(order, after) ==
  IF at < Len(order) THEN at' = at + 1 /\ main' = main ELSE at' = 1 /\ main' = after

\* The loops of Start start one thread of each plane in a round.
StartAdvance ==
  LET part == StartOrder[at] IN
  IF part[2] = "backend" /\ nth < Instances(part)
  THEN at' = at - 1 /\ nth' = nth + 1 /\ main' = main
  ELSE Advance(StartOrder, "serve") /\ nth' = IF part[2] = "forward" THEN nth ELSE 1

\* The loops of Wait join all threads of a vector.
WaitAdvance ==
  IF nth < Instances(WaitOrder[at])
  THEN nth' = nth + 1 /\ UNCHANGED <<main, at>>
  ELSE Advance(WaitOrder, "destroy") /\ nth' = 1

Starting(t) == main = "start" /\ t = <<StartOrder[at], nth>>

Started(t) == live' = live \cup {t} /\ joinable' = joinable \cup {t}

ListenerStart(t) ==
  /\ t \in Listeners /\ Starting(t) /\ Started(t)
  /\ sockets' = sockets \cup {t}
  /\ listening' = listening \cup {PlaneOf(t)}
  /\ StartAdvance
  /\ UNCHANGED <<status, g_stop, running_, epolls, health>>

\* Distributor::Start and Worker::Start do not look whether they got an epoll
\* instance; the threads poll their queues without one.
LoopStart(t) ==
  /\ Kind(t) \in {"dist", "worker"} /\ Starting(t) /\ Started(t)
  /\ \/ epolls' = epolls \cup {t}
     \/ t \in EpollMayFail /\ UNCHANGED epolls
  /\ StartAdvance
  /\ UNCHANGED <<status, g_stop, running_, listening, sockets, health>>

\* Reactor::Start returns without a thread when epoll_create1 fails, and
\* HubServer::Start goes on.
ReactorStart(t) ==
  /\ Kind(t) = "reactor" /\ Starting(t)
  /\ \/ Started(t) /\ epolls' = epolls \cup {t}
     \/ t \in EpollMayFail /\ UNCHANGED <<live, joinable, epolls>>
  /\ StartAdvance
  /\ UNCHANGED <<status, g_stop, running_, listening, sockets, health>>

HealthStart ==
  /\ Starting(HealthThread) /\ Started(HealthThread)
  /\ sockets' = sockets \cup {HealthThread}
  /\ running_' = running_ \cup {"health"}
  /\ StartAdvance
  /\ UNCHANGED <<status, g_stop, listening, epolls, health>>

\* A socket call fails, or the address has no port: Start returns false, main
\* returns 1, and ~HubServer calls Stop.
StartFails ==
  /\ \E t \in Listeners \cup {HealthThread} : Starting(t)
  /\ main' = "stop" /\ at' = 1 /\ status' = 1
  /\ UNCHANGED <<nth, g_stop, threads, health>>

OnSignal ==
  /\ ~g_stop
  /\ g_stop' = TRUE
  /\ UNCHANGED <<position, status, threads, health>>

SeeSignal ==
  /\ main = "serve" /\ g_stop
  /\ main' = "stop"
  /\ UNCHANGED <<at, nth, status, g_stop, threads, health>>

StopNext ==
  /\ main = "stop"
  /\ running_' = running_ \ {RequestsStop[at]}
  /\ sockets' = sockets \ ShutsDown[at]
  /\ Advance(RequestsStop, IF status = 0 THEN "wait" ELSE "destroy")
  /\ UNCHANGED <<nth, status, g_stop, listening, epolls, live, joinable, health>>

Join(t) == joinable' = joinable \ {t} /\ epolls' = epolls \ {t}

\* Mutant: the threads are detached.
DetachNext ==
  /\ main = "wait"
  /\ Join(<<WaitOrder[at], nth>>)
  /\ WaitAdvance
  /\ UNCHANGED <<status, g_stop, running_, listening, sockets, live, health>>

JoinNext ==
  /\ main = "wait" /\ <<WaitOrder[at], nth>> \notin live
  /\ Join(<<WaitOrder[at], nth>>)
  /\ WaitAdvance
  /\ UNCHANGED <<status, g_stop, running_, listening, sockets, live, health>>

\* The destructor of a joinable std::thread calls std::terminate, and with it
\* ends every thread.
Destroy ==
  /\ main = "destroy"
  /\ main' = IF joinable = {} THEN "exit" ELSE "terminated"
  /\ live' = IF joinable = {} THEN live ELSE {}
  /\ UNCHANGED <<at, nth, status, g_stop, running_, listening, sockets, epolls, joinable, health>>

-----------------------------------------------------------------------------
(* The threads                                                              *)

ThreadEnds(t) ==
  /\ t \in live
  /\ live' = live \ {t}
  /\ UNCHANGED <<position, status, g_stop, running_, listening, sockets, epolls, joinable, answer>>

\* A listener leaves accept when its socket is shut down.
PlaneThreadEnds(t) ==
  /\ t # HealthThread /\ PlaneOf(t) \notin running_ /\ t \notin sockets
  /\ ThreadEnds(t)
  /\ UNCHANGED inRecv

\* A client's connection also takes a listener out of accept.
ListenerWoken(t) ==
  /\ t \in Listeners /\ PlaneOf(t) \notin running_ /\ t \in sockets
  /\ ThreadEnds(t)
  /\ UNCHANGED inRecv

HealthAccept ==
  /\ HealthThread \in live \cap sockets /\ ~inRecv
  /\ inRecv' = TRUE /\ answer' = "none"
  /\ UNCHANGED <<position, status, g_stop, threads>>

\* accept fails on the closed socket.
HealthEnds ==
  /\ ~inRecv /\ HealthThread \notin sockets /\ "health" \notin running_
  /\ ThreadEnds(HealthThread)
  /\ UNCHANGED inRecv

IsReady == listening = Planes

\* The client asks for /readyz, asks for another path or closes the connection.
HealthClient ==
  /\ inRecv /\ HealthThread \in live
  /\ inRecv' = FALSE
  /\ answer' \in {"none", IF IsReady THEN "ok" ELSE "not ready"}
  /\ UNCHANGED <<position, status, g_stop, threads>>

-----------------------------------------------------------------------------
Start ==
  \/ \E t \in HubThreads : ListenerStart(t) \/ LoopStart(t) \/ ReactorStart(t)
  \/ HealthStart \/ StartFails

HubMain == Start \/ SeeSignal \/ StopNext \/ JoinNext \/ Destroy

LifecycleNext ==
  \/ HubMain \/ OnSignal
  \/ \E t \in HubThreads : PlaneThreadEnds(t) \/ ListenerWoken(t)
  \/ HealthAccept \/ HealthEnds \/ HealthClient

LifecycleSpec == LifecycleInit /\ [][LifecycleNext]_lifecycleVars

\* Every thread is scheduled.  A new client need not come, and one that has
\* come need not say anything.
FairSpec ==
  /\ LifecycleSpec
  /\ WF_lifecycleVars(HubMain) /\ WF_lifecycleVars(HealthEnds)
  /\ \A t \in HubThreads : WF_lifecycleVars(PlaneThreadEnds(t))

\* And a client of the health port sends its request or hangs up.  It does so
\* however many there are, since none is accepted once the socket is closed.
FairClientsSpec == FairSpec /\ WF_lifecycleVars(HealthClient)

-----------------------------------------------------------------------------
(***************************************************************************)
(* The normal way out is clean: every thread Start has created is joined   *)
(* by Wait, and no listening socket and no epoll instance is left open,    *)
(* even if a reactor or an epoll instance could not be had.  Only a Start  *)
(* that failed ends in std::terminate.                                     *)
(***************************************************************************)
CleanUnlessStartFailed ==
  /\ main = "terminated" => status = 1
  /\ main = "exit" => live = {} /\ sockets = {} /\ epolls = {}

(***************************************************************************)
(* No probe is told "not ready": the health port is opened after both      *)
(* planes listen.  (Nothing clears listening_, so the answer stays 200     *)
(* while the Hub shuts down.)                                              *)
(***************************************************************************)
ReadyOnceAsked == answer # "not ready"

(***************************************************************************)
(* A signal ends the process when clients of the health port do not stay   *)
(* silent: Stop releases every thread that Wait joins from the call it     *)
(* blocks in.                                                              *)
(***************************************************************************)
ShutdownCompletes == g_stop ~> main \in {"exit", "terminated"}

=============================================================================
