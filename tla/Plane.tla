------------------------------- MODULE Plane -------------------------------
(***************************************************************************)
(* The connections of one plane: the listener thread, the reactor threads, *)
(* the sessions they own, the plane's Router, and the kernel's descriptor  *)
(* table they share (src/hub/listener.cpp, src/hub/reactor.cpp on Linux).  *)
(*                                                                         *)
(* A step is at most one access to state shared between threads: a queue,  *)
(* a wakeup, the Router, or the descriptor table.  Bytes are abstracted to *)
(* the frame a reactor pops next, which the client chooses; a client may   *)
(* also disconnect at any time.  Queues are atomic (SpscQueue shows that   *)
(* the ring implements a FIFO); a frame on its way to a reactor waits in   *)
(* one queue, which stands for the distributor's and the send queue.       *)
(***************************************************************************)
EXTENDS Router, Sequences, FiniteSets

CONSTANTS
  Fds,        (* descriptor numbers the kernel hands out                   *)
  ConnCap,    (* capacity of a reactor's conn queue                        *)
  SendCap,    (* capacity of a reactor's send queue                        *)
  FreedReads, (* bound: are executions followed where the read loop handles
                 frames after its session has been erased                  *)
  NoFd,       (* no descriptor                                             *)
  NoNid,      (* Session::nid before AUTH                                  *)
  NoSession   (* absence of a sessions_ entry                              *)

NoSid == 0

\* outbuf is abstracted to whether it holds unsent bytes.
Session == [fd : Fds, authed : BOOLEAN, nid : Nids \cup {NoNid}, outbuf : BOOLEAN]

ASSUME PlaneAssumption ==
  /\ ConnCap \in Nat /\ SendCap \in Nat /\ FreedReads \in BOOLEAN
  /\ NoFd \notin Fds /\ NoNid \notin Nids /\ NoSession \notin Session

VARIABLES
  running,      (* HubContext::running_                                    *)
  next_sid_,    (* HubContext::next_sid_                                   *)
  fdTable,      (* kernel: the connection a descriptor number denotes      *)
  lsn,          (* listener: where it is, and the connection in its hands  *)
  connQueue,    (* reactor -> conn queue                                   *)
  wakeup,       (* reactor -> its eventfd counter is non-zero              *)
  sendQueue,    (* reactor -> frames on their way to its sessions          *)
  fd_to_sid_,   (* reactor -> descriptor -> session id                     *)
  sessions_,    (* reactor -> session id -> Session                        *)
  thread,       (* reactor -> its thread, see Thread                       *)
  authedAs,     (* history: session id -> node ids it authenticated with   *)
  lastAuth,     (* history: node id -> the last session to present it      *)
  foreignReads  (* history: <<reactor, sid>>, bytes read through an erased
                   session's descriptor                                    *)

accepting == <<next_sid_, fdTable, lsn>>
queues == <<connQueue, wakeup, sendQueue>>
owned == <<fd_to_sid_, sessions_>>
history == <<authedAs, lastAuth, foreignReads>>
vars == <<routerVars, running, accepting, queues, owned, thread, history>>

NewConnection == [fd : Fds, sid : Sids]
Frame == [sid : Sids, nid : Nids]

\* An epoll event, with the session it was reported for.  "rest" is the
\* EPOLLOUT half of an "inout" event whose first half has been handled.
Event == [fd : Fds, sid : Sids, kind : {"in", "inout", "rest"}]
WakeEvent == [fd |-> NoFd, sid |-> NoSid, kind |-> "wake"]

\* at: the function the thread is in; batch: events epoll_wait returned and
\* not yet handled; sid, fd: the fields of the Session its reference refers
\* to; back: where SendBytes or CloseSession returns to; nid: the node id the
\* frame being sent was looked up for.
Thread ==
  [at : {"wait", "events", "conns", "sends", "read", "flush", "close", "closefd",
         "dangling", "exit", "done", "killed"},
   batch : SUBSET (Event \cup {WakeEvent}),
   sid : Sids \cup {NoSid},
   fd : Fds \cup {NoFd},
   back : {"none", "events", "sends", "read", "dangling", "exit"},
   nid : Nids \cup {NoNid}]

IdleThread == [at |-> "wait", batch |-> {}, sid |-> NoSid, fd |-> NoFd,
               back |-> "none", nid |-> NoNid]

IdleListener == [at |-> "accept", fd |-> NoFd, sid |-> NoSid, reactor_idx |-> NoFd]

TypeOK ==
  /\ RouterTypeOK
  /\ running \in BOOLEAN
  /\ next_sid_ \in 1 .. MaxSid + 1
  /\ fdTable \in [Fds -> Sids \cup {NoSid}]
  /\ lsn \in [at : {"accept", "push", "notify", "done", "killed"}, fd : Fds \cup {NoFd},
              sid : Sids \cup {NoSid}, reactor_idx : Reactors \cup {NoFd}]
  /\ connQueue \in [Reactors -> Seq(NewConnection)]
  /\ wakeup \in [Reactors -> BOOLEAN]
  /\ sendQueue \in [Reactors -> Seq(Frame)]
  /\ fd_to_sid_ \in [Reactors -> [Fds -> Sids \cup {NoSid}]]
  /\ sessions_ \in [Reactors -> [Sids -> Session \cup {NoSession}]]
  /\ thread \in [Reactors -> Thread]
  /\ authedAs \in [Sids -> SUBSET Nids]
  /\ lastAuth \in [Nids -> Sids \cup {NoSid}]
  /\ foreignReads \in SUBSET (Reactors \X Sids)

Init ==
  /\ RouterInit
  /\ running = TRUE
  /\ next_sid_ = 1
  /\ fdTable = [fd \in Fds |-> NoSid]
  /\ lsn = IdleListener
  /\ connQueue = [r \in Reactors |-> << >>]
  /\ wakeup = [r \in Reactors |-> FALSE]
  /\ sendQueue = [r \in Reactors |-> << >>]
  /\ fd_to_sid_ = [r \in Reactors |-> [fd \in Fds |-> NoSid]]
  /\ sessions_ = [r \in Reactors |-> [s \in Sids |-> NoSession]]
  /\ thread = [r \in Reactors |-> IdleThread]
  /\ authedAs = [s \in Sids |-> {}]
  /\ lastAuth = [n \in Nids |-> NoSid]
  /\ foreignReads = {}

-----------------------------------------------------------------------------
(* Moves of a reactor thread.                                               *)

At(r, label) == thread[r].at = label

Ref(r) == sessions_[r][thread[r].sid]

Goto(r, label) == thread' = [thread EXCEPT ![r].at = label]

\* Let go of the session in hand and continue at `label'.
Leave(r, label) ==
  thread' = [thread EXCEPT ![r] = [IdleThread EXCEPT !.at = label, !.batch = thread[r].batch]]

\* Thread t with session sid in hand, at `label', to return to `back'.
InHand(t, r, sid, label, back) ==
  [t EXCEPT !.at = label, !.sid = sid, !.fd = sessions_[r][sid].fd, !.back = back]

CallClose(r, back) == thread' = [thread EXCEPT ![r].at = "close", ![r].back = back]

\* SendBytes(session, ack) in HandleSystem, where session has become s.
CallAck(r, s) ==
  /\ sessions_' = [sessions_ EXCEPT ![r][thread[r].sid] = [s EXCEPT !.outbuf = TRUE]]
  /\ thread' = [thread EXCEPT ![r].at = "flush", ![r].back = "read"]
  /\ UNCHANGED <<running, accepting, queues, fd_to_sid_>>

\* A step that only moves the thread.
OnlyMoves == UNCHANGED <<routerVars, running, accepting, queues, owned, history>>

-----------------------------------------------------------------------------
(* Listener::Run                                                            *)

\* The loop's test of running_, at the end of an iteration.
NextIteration == [IdleListener EXCEPT !.at = IF running THEN "accept" ELSE "done"]

\* accept, SetNonBlocking and NextSid, perhaps after a stop request the loop has
\* not seen.  The counter behind PickReactor is shared with the other plane's
\* listener, so any reactor may come next.  (Where SetNonBlocking fails, the
\* descriptor is closed again and nothing has changed.)
Accept(fd, r) ==
  /\ lsn.at = "accept"
  /\ fdTable[fd] = NoSid
  /\ next_sid_ \in Sids
  /\ fdTable' = [fdTable EXCEPT ![fd] = next_sid_]
  /\ lsn' = [at |-> "push", fd |-> fd, sid |-> next_sid_, reactor_idx |-> r]
  /\ next_sid_' = next_sid_ + 1
  /\ UNCHANGED <<routerVars, running, queues, owned, thread, history>>

ListenerPush ==
  /\ lsn.at = "push"
  /\ Len(connQueue[lsn.reactor_idx]) < ConnCap
  /\ connQueue' = [connQueue EXCEPT
       ![lsn.reactor_idx] = Append(@, [fd |-> lsn.fd, sid |-> lsn.sid])]
  /\ lsn' = [lsn EXCEPT !.at = "notify"]
  /\ UNCHANGED <<routerVars, running, next_sid_, fdTable, wakeup, sendQueue, owned, thread,
                 history>>

\* Push finds the conn queue full, and the connection is closed.  The head_ it loads
\* may be older than the reactor's last Pops: it can seem full once ConnCap
\* connections have gone before.
ListenerDrop ==
  /\ lsn.at = "push"
  /\ Len(connQueue[lsn.reactor_idx]) >= ConnCap \/ lsn.sid > ConnCap
  /\ fdTable' = [fdTable EXCEPT ![lsn.fd] = NoSid]
  /\ lsn' = NextIteration
  /\ UNCHANGED <<routerVars, running, next_sid_, queues, owned, thread, history>>

\* Mutant: a reactor that is not waiting is not notified.
NotifyIfWaiting ==
  /\ lsn.at = "notify"
  /\ wakeup' = [wakeup EXCEPT ![lsn.reactor_idx] = @ \/ At(lsn.reactor_idx, "wait")]
  /\ lsn' = NextIteration
  /\ UNCHANGED <<routerVars, running, next_sid_, fdTable, connQueue, sendQueue, owned, thread,
                 history>>

ListenerNotify ==
  /\ lsn.at = "notify"
  /\ wakeup' = [wakeup EXCEPT ![lsn.reactor_idx] = TRUE]
  /\ lsn' = NextIteration
  /\ UNCHANGED <<routerVars, running, next_sid_, fdTable, connQueue, sendQueue, owned, thread,
                 history>>

\* Listener::Stop has shut the listening socket down: accept fails.
ListenerExit ==
  /\ lsn.at = "accept" /\ ~running
  /\ lsn' = [lsn EXCEPT !.at = "done"]
  /\ UNCHANGED <<routerVars, running, next_sid_, fdTable, queues, owned, thread, history>>

-----------------------------------------------------------------------------
(* Frames for this plane: a worker of the other plane looks a session up    *)
(* and the distributor hands the frame to that session's reactor.           *)

\* No signal has ended the process.
up == lsn.at # "killed"

RouteFrame(route, nid) ==
  LET r == route.reactor_idx IN
  /\ up
  /\ Len(sendQueue[r]) < SendCap
  /\ sendQueue' = [sendQueue EXCEPT ![r] = Append(@, [sid |-> route.sid, nid |-> nid])]
  /\ wakeup' = [wakeup EXCEPT ![r] = TRUE]
  /\ UNCHANGED <<routerVars, running, accepting, connQueue, owned, thread, history>>

\* HubContext::AsyncSend
AsyncSend(nid) ==
  /\ FindNidRoute(nid) # NoRoute
  /\ RouteFrame(FindNidRoute(nid), nid)

\* HubContext::Publish, for one of the subscribers
PublishTo(cmd, sub) ==
  /\ sub \in FindSubscribers(cmd)
  /\ RouteFrame(sub, sub.nid)

RequestStop ==
  /\ up /\ running
  /\ running' = FALSE
  /\ UNCHANGED <<routerVars, accepting, queues, owned, thread, history>>

-----------------------------------------------------------------------------
(* Reactor::Run                                                             *)

\* What epoll may report of the sessions' descriptors: EPOLLOUT is asked for
\* while outbuf holds bytes.  EPOLLOUT alone is an "inout" whose recv finds nothing.
Ready(r) ==
  {e \in Event : /\ e.kind # "rest"
                 /\ fd_to_sid_[r][e.fd] = e.sid
                 /\ e.kind = "inout" => sessions_[r][e.sid].outbuf}

OnePerFd(evs) == \A e, f \in evs : e.fd = f.fd => e = f

\* epoll_wait.  The eventfd is level triggered, so it is reported whenever its
\* counter is non-zero.
Poll(r) ==
  /\ \E evs \in SUBSET Ready(r) :
       /\ OnePerFd(evs)
       /\ thread' = [thread EXCEPT
            ![r].at = "events",
            ![r].batch = IF wakeup[r] THEN evs \cup {WakeEvent} ELSE evs]
  /\ OnlyMoves

\* Mutant: the loop does not look at running_.
EpollWaitForever(r) == At(r, "wait") /\ Poll(r)

EpollWait(r) == At(r, "wait") /\ running /\ Poll(r)

HalfDone(r) == \E e \in thread[r].batch : e.kind = "rest"

\* HandleReadable on the eventfd starts with Drain().
HandleWakeup(r) ==
  /\ At(r, "events") /\ WakeEvent \in thread[r].batch /\ ~HalfDone(r)
  /\ wakeup' = [wakeup EXCEPT ![r] = FALSE]
  /\ thread' = [thread EXCEPT ![r].at = "conns", ![r].batch = @ \ {WakeEvent}]
  /\ UNCHANGED <<routerVars, running, accepting, connQueue, sendQueue, owned, history>>

\* HandleReadable, then HandleWritable, on a session's descriptor: each finds
\* the session through fd_to_sid_.
HandleEvent(r, e) ==
  /\ At(r, "events") /\ e \in thread[r].batch \ {WakeEvent}
  /\ HalfDone(r) => e.kind = "rest"
  /\ LET left == IF e.kind = "inout" THEN {[e EXCEPT !.kind = "rest"]} ELSE {}
         t == [thread[r] EXCEPT !.batch = (@ \ {e}) \cup left]
         sid == fd_to_sid_[r][e.fd]
     IN thread' = [thread EXCEPT ![r] =
          IF sid = NoSid THEN t
          ELSE IF e.kind = "rest" THEN InHand(t, r, sid, "flush", "events")
                                  ELSE InHand(t, r, sid, "read", "none")]
  /\ OnlyMoves

\* DrainNewConnections, one Pop
Register(r) ==
  /\ At(r, "conns") /\ connQueue[r] # << >>
  /\ LET conn == Head(connQueue[r]) IN
     /\ fd_to_sid_' = [fd_to_sid_ EXCEPT ![r][conn.fd] = conn.sid]
     /\ sessions_' = [sessions_ EXCEPT ![r][conn.sid] =
          [fd |-> conn.fd, authed |-> FALSE, nid |-> NoNid, outbuf |-> FALSE]]
  /\ connQueue' = [connQueue EXCEPT ![r] = Tail(@)]
  /\ UNCHANGED <<routerVars, running, accepting, wakeup, sendQueue, history>>

TakeConnection(r) == Register(r) /\ UNCHANGED thread

\* Pop found nothing.  It may have missed what the reactor has not been notified of
\* since its Drain (module Handoff).
ConnectionsTaken(r) ==
  /\ At(r, "conns")
  /\ connQueue[r] = << >> \/ wakeup[r] \/ (lsn.at = "notify" /\ lsn.reactor_idx = r)
  /\ Goto(r, "sends")
  /\ OnlyMoves

\* DrainSendQueue runs within a wakeup, and once the round's events are done.
InDrainSendQueue(r) == At(r, "sends") \/ (At(r, "events") /\ thread[r].batch = {})

\* One Pop: a frame whose session is gone is dropped, else SendBytes is called.
SendNext(r) ==
  /\ InDrainSendQueue(r) /\ sendQueue[r] # << >>
  /\ LET f == Head(sendQueue[r]) IN
     IF sessions_[r][f.sid] = NoSession
       THEN UNCHANGED <<sessions_, thread>>
       ELSE /\ sessions_' = [sessions_ EXCEPT ![r][f.sid].outbuf = TRUE]
            /\ thread' = [thread EXCEPT ![r] =
                 [InHand(@, r, f.sid, "flush", @.at) EXCEPT !.nid = f.nid]]
  /\ sendQueue' = [sendQueue EXCEPT ![r] = Tail(@)]
  /\ UNCHANGED <<routerVars, running, accepting, connQueue, wakeup, fd_to_sid_, history>>

\* Mutant: both drains are repeated while there are new connections.
AfterSendsConns(r) ==
  IF ~At(r, "sends") THEN "wait" ELSE IF connQueue[r] # << >> THEN "conns" ELSE "events"

AfterSends(r) == IF At(r, "sends") THEN "events" ELSE "wait"

SendsDone(r) ==
  /\ InDrainSendQueue(r) /\ sendQueue[r] = << >>
  /\ Goto(r, AfterSends(r))
  /\ OnlyMoves

\* HandleWritable's send loop, from SendBytes or an EPOLLOUT event: all is sent,
\* or the socket is full.  After an ack the read loop goes on with its session.
Flush(r) ==
  /\ At(r, "flush")
  /\ \E unsent \in {FALSE, Ref(r).outbuf} :
       sessions_' = [sessions_ EXCEPT ![r][thread[r].sid].outbuf = unsent]
  /\ IF thread[r].back = "read"
       THEN thread' = [thread EXCEPT ![r].at = "read", ![r].back = "none"]
       ELSE Leave(r, thread[r].back)
  /\ UNCHANGED <<routerVars, running, accepting, queues, fd_to_sid_, history>>

\* send fails.  HandleSystem ignores that SendBytes closed the session, and
\* HandleReadable goes on with its reference to it.
FlushError(r) ==
  /\ At(r, "flush") /\ Ref(r).outbuf
  /\ CallClose(r, IF thread[r].back = "read" THEN "dangling" ELSE thread[r].back)
  /\ OnlyMoves

\* send without MSG_NOSIGNAL to a connection the peer has reset: the default
\* action of SIGPIPE ends the process.
FlushSigpipe(r) ==
  /\ At(r, "flush") /\ Ref(r).outbuf
  /\ thread' = [x \in Reactors |-> [thread[x] EXCEPT !.at = "killed"]]
  /\ lsn' = [lsn EXCEPT !.at = "killed"]
  /\ UNCHANGED <<routerVars, running, next_sid_, fdTable, queues, owned, history>>

-----------------------------------------------------------------------------
(* Reactor::HandleReadable on a session: recv, pop frames, dispatch.        *)

\* recv has nothing more; or HandleSystem refuses an UNSUB (too short, or before
\* AUTH), which ends the read loop and leaves the session open.
ReadBlocks(r) ==
  /\ At(r, "read")
  /\ Leave(r, "events")
  /\ OnlyMoves

\* recv returns 0 or an error; or HandleSystem refuses the frame: an AUTH whose
\* payload or credentials are wrong, a SUB that is too short or comes before AUTH.
ReadCloses(r) ==
  /\ At(r, "read")
  /\ CallClose(r, "events")
  /\ OnlyMoves

\* The node id of an AUTH is bound to the session in hand.
Authenticate(r, nid) ==
  LET sid == thread[r].sid IN
  /\ BindNid(nid, sid, r)
  /\ authedAs' = [authedAs EXCEPT ![sid] = @ \cup {nid}]
  /\ lastAuth' = [lastAuth EXCEPT ![nid] = sid]

\* AUTH with good credentials.  Nothing looks at an earlier AUTH.
HandleAuth(r, nid) ==
  /\ At(r, "read")
  /\ Authenticate(r, nid)
  /\ CallAck(r, [Ref(r) EXCEPT !.authed = TRUE, !.nid = nid])
  /\ UNCHANGED foreignReads

HandleSub(r, cmd) ==
  /\ At(r, "read") /\ Ref(r).authed
  /\ Subscribe(cmd, [sid |-> thread[r].sid, nid |-> Ref(r).nid, reactor_idx |-> r])
  /\ CallAck(r, Ref(r))
  /\ UNCHANGED history

HandleUnsub(r, cmd) ==
  /\ At(r, "read") /\ Ref(r).authed
  /\ Unsubscribe(cmd, thread[r].sid)
  /\ CallAck(r, Ref(r))
  /\ UNCHANGED history

\* KPALIVE is acknowledged with or without AUTH.
HandleKpalive(r) ==
  /\ At(r, "read")
  /\ CallAck(r, Ref(r))
  /\ UNCHANGED <<routerVars, history>>

\* EnqueueInbound before AUTH closes the session and returns to the frame loop,
\* which goes on with its reference to it.
RefuseInbound(r) ==
  /\ At(r, "read") /\ ~Ref(r).authed
  /\ CallClose(r, "dangling")
  /\ OnlyMoves

-----------------------------------------------------------------------------
(* Reactor::CloseSession                                                    *)

CloseRemove(r) ==
  /\ At(r, "close")
  /\ IF Ref(r).authed THEN RemoveSession(thread[r].sid, Ref(r).nid)
                      ELSE UNCHANGED routerVars
  /\ Goto(r, "closefd")
  /\ UNCHANGED <<running, accepting, queues, owned, history>>

\* Mutant: the descriptor stays in fd_to_sid_.
EraseOnlySession(r) ==
  /\ UNCHANGED fd_to_sid_
  /\ sessions_' = [sessions_ EXCEPT ![r][thread[r].sid] = NoSession]

\* Mutant: the session stays in sessions_.
EraseOnlyFd(r) ==
  /\ fd_to_sid_' = [fd_to_sid_ EXCEPT ![r][thread[r].fd] = NoSid]
  /\ UNCHANGED sessions_

EraseTables(r) ==
  /\ fd_to_sid_' = [fd_to_sid_ EXCEPT ![r][thread[r].fd] = NoSid]
  /\ sessions_' = [sessions_ EXCEPT ![r][thread[r].sid] = NoSession]

\* The tables are the reactor's own; close(fd) is what other threads see.
CloseErase(r) ==
  /\ At(r, "closefd")
  /\ EraseTables(r)
  /\ fdTable' = [fdTable EXCEPT ![thread[r].fd] = NoSid]
  /\ IF thread[r].back = "dangling"
       THEN thread' = [thread EXCEPT ![r].at = "dangling", ![r].back = "none"]
       ELSE Leave(r, thread[r].back)
  /\ UNCHANGED <<routerVars, running, next_sid_, lsn, queues, history>>

\* The read loop on an erased Session, where the freed memory still holds its
\* fields: recv on its fd fails and CloseSession finds nothing; or another
\* connection has the number by now, and recv finds no bytes or the end of it.
DanglingReturn(r) ==
  /\ At(r, "dangling")
  /\ Leave(r, "events")
  /\ OnlyMoves

\* Or frames left in the freed buffer, or bytes recv takes from that connection,
\* are handled for the erased session: an AUTH, a SUB or an UNSUB among them reaches
\* the Router.
DanglingRecv(r) ==
  /\ At(r, "dangling") /\ FreedReads
  /\ \/ UNCHANGED foreignReads
     \/ /\ fdTable[thread[r].fd] # NoSid
        /\ foreignReads' = foreignReads \cup {<<r, fdTable[thread[r].fd]>>}
  /\ \/ UNCHANGED <<routerVars, authedAs, lastAuth>>
     \/ \E n \in Nids : Authenticate(r, n)
     \/ /\ \E c \in Cmds :
             \/ \E n \in Nids :
                  Subscribe(c, [sid |-> thread[r].sid, nid |-> n, reactor_idx |-> r])
             \/ Unsubscribe(c, thread[r].sid)
        /\ UNCHANGED <<authedAs, lastAuth>>
  /\ UNCHANGED <<running, accepting, queues, owned, thread>>

-----------------------------------------------------------------------------
(* The end of Reactor::Run                                                  *)

LeaveLoop(r) ==
  /\ At(r, "wait") /\ ~running
  /\ Goto(r, "exit")
  /\ OnlyMoves

Live(r) == {s \in Sids : sessions_[r][s] # NoSession}

CloseNext(r) ==
  /\ At(r, "exit")
  /\ \E s \in Live(r) : thread' = [thread EXCEPT ![r] = InHand(@, r, s, "close", "exit")]
  /\ OnlyMoves

\* Mutant: Run returns without closing the sessions.
ReturnAtOnce(r) == At(r, "exit") /\ Goto(r, "done") /\ OnlyMoves

Return(r) == At(r, "exit") /\ Live(r) = {} /\ Goto(r, "done") /\ OnlyMoves

-----------------------------------------------------------------------------
Listener == ListenerPush \/ ListenerDrop \/ ListenerNotify \/ ListenerExit

EventLoop(r) ==
  \/ EpollWait(r) \/ HandleWakeup(r)
  \/ \E e \in thread[r].batch \ {WakeEvent} : HandleEvent(r, e)
  \/ TakeConnection(r) \/ ConnectionsTaken(r)
  \/ SendNext(r) \/ SendsDone(r)
  \/ Flush(r) \/ FlushError(r) \/ FlushSigpipe(r)

HandleReadable(r) ==
  \/ ReadBlocks(r) \/ ReadCloses(r)
  \/ \E n \in Nids : HandleAuth(r, n)
  \/ \E c \in Cmds : HandleSub(r, c) \/ HandleUnsub(r, c)
  \/ HandleKpalive(r) \/ RefuseInbound(r)
  \/ DanglingReturn(r) \/ DanglingRecv(r)

CloseSession(r) == CloseRemove(r) \/ CloseErase(r)

Exit(r) == LeaveLoop(r) \/ CloseNext(r) \/ Return(r)

Reactor(r) == EventLoop(r) \/ HandleReadable(r) \/ CloseSession(r) \/ Exit(r)

Next ==
  \/ \E fd \in Fds, r \in Reactors : Accept(fd, r)
  \/ Listener
  \/ \E r \in Reactors : Reactor(r)
  \/ \E n \in Nids : AsyncSend(n)
  \/ \E c \in Cmds : \E sub \in FindSubscribers(c) : PublishTo(c, sub)
  \/ RequestStop

Spec == Init /\ [][Next]_vars

(***************************************************************************)
(* Fairness.  Every thread keeps being scheduled.  Neither the read loop   *)
(* nor DrainSendQueue has a budget: a client does not outrun recv for      *)
(* ever, and the distributor, which ends after a stop, does not route      *)
(* frames for ever.                                                        *)
(***************************************************************************)
Fairness ==
  /\ WF_vars(Listener)
  /\ \A r \in Reactors :
       /\ WF_vars(Reactor(r))
       /\ SF_vars(ReadBlocks(r))
       /\ WF_vars(DanglingReturn(r))
  /\ <>[][\A r \in Reactors : Len(sendQueue'[r]) <= Len(sendQueue[r])]_vars

FairSpec == Spec /\ Fairness

-----------------------------------------------------------------------------
(***************************************************************************)
(* A reactor's two tables and the kernel agree: a descriptor maps to a     *)
(* session the reactor holds, under the descriptor that session has, and   *)
(* the kernel's descriptor is that very connection.  Otherwise             *)
(* sessions_[fit->second] in HandleReadable would conjure up an empty      *)
(* session, or a reactor would drive somebody else's socket.               *)
(***************************************************************************)
TablesAgree ==
  \A r \in Reactors :
    /\ \A fd \in Fds : LET s == fd_to_sid_[r][fd] IN
         s # NoSid => /\ sessions_[r][s] # NoSession
                      /\ sessions_[r][s].fd = fd
                      /\ fdTable[fd] = s
    /\ \A s \in Live(r) : fd_to_sid_[r][sessions_[r][s].fd] = s

(***************************************************************************)
(* An epoll event that is still to be handled is never applied to another  *)
(* connection than the one it was reported for, although a descriptor can  *)
(* be closed, accepted again and registered while the event waits.         *)
(***************************************************************************)
EventsNotMisdirected ==
  \A r \in Reactors : \A e \in thread[r].batch \ {WakeEvent} :
    fd_to_sid_[r][e.fd] \in {NoSid, e.sid}

(***************************************************************************)
(* A frame looked up for a node is only ever written to a connection that  *)
(* authenticated as that node, however old the lookup is: AsyncSend and    *)
(* Publish keep a sid, and the session may have closed and its descriptor  *)
(* been reused since.                                                      *)
(***************************************************************************)
FramesReachTheirNode ==
  \A r \in Reactors :
    At(r, "flush") /\ thread[r].nid # NoNid =>
      /\ thread[r].nid \in authedAs[thread[r].sid]
      /\ fdTable[thread[r].fd] = thread[r].sid

(***************************************************************************)
(* A subscription belongs to a session that is open and authenticated, on  *)
(* the reactor it names: CloseSession takes all of them away first.        *)
(***************************************************************************)
SubscribersLive ==
  \A c \in Cmds : \A sub \in sub_table_[c] :
    LET s == sessions_[sub.reactor_idx][sub.sid] IN s # NoSession /\ s.authed

(***************************************************************************)
(* A session is in a command's list once, however often it subscribes and  *)
(* under whatever node id, so Publish sends it one copy.                   *)
(***************************************************************************)
OneEntryPerSubscriber ==
  \A c \in Cmds : \A s, t \in sub_table_[c] : s.sid = t.sid => s = t

(***************************************************************************)
(* A route to a session that is gone can only be one that session left     *)
(* behind by authenticating again under another node id.                   *)
(***************************************************************************)
RoutesLiveUnlessRenamed ==
  \A n \in Nids :
    LET rt == nid_map_[n] IN
    rt # NoRoute /\ sessions_[rt.reactor_idx][rt.sid] = NoSession =>
      \E m \in authedAs[rt.sid] : m # n

\* Session s of reactor r is open under node id n, its close not begun.
OpenAs(r, s, n) ==
  /\ sessions_[r][s] # NoSession
  /\ sessions_[r][s].nid = n
  /\ ~(At(r, "closefd") /\ thread[r].sid = s)

(***************************************************************************)
(* The last session to authenticate as a node keeps its route as long as   *)
(* it is open under that node id: the close of the session it took the     *)
(* node id over from, at whatever moment, does not remove it.              *)
(***************************************************************************)
LastAuthRouted ==
  up =>
    \A n \in Nids, r \in Reactors :
      LET s == lastAuth[n] IN
      (s # NoSid /\ OpenAs(r, s, n)) => nid_map_[n] = [sid |-> s, reactor_idx |-> r]

(***************************************************************************)
(* A connection in a conn queue has a wakeup on its way: the reactor looks *)
(* at that queue only when its eventfd is reported.                        *)
(***************************************************************************)
NoLostWakeup ==
  \A r \in Reactors :
    up /\ running /\ connQueue[r] # << >> =>
      \/ wakeup[r]
      \/ WakeEvent \in thread[r].batch
      \/ At(r, "conns")
      \/ lsn.at = "notify" /\ lsn.reactor_idx = r

AllDone == lsn.at = "done" /\ \A r \in Reactors : At(r, "done")

Queued(r, s) == \E i \in 1 .. Len(connQueue[r]) : connQueue[r][i].sid = s

(***************************************************************************)
(* When all threads have ended, the only descriptors left open are those   *)
(* of connections no reactor had taken from its conn queue.                *)
(***************************************************************************)
StopClosesSessions ==
  AllDone => \A fd \in Fds : fdTable[fd] # NoSid =>
    \E r \in Reactors : Queued(r, fdTable[fd])

(***************************************************************************)
(* An accepted connection that fits the conn queue becomes a session, as   *)
(* long as the plane runs.                                                 *)
(***************************************************************************)
ConnectionsRegistered ==
  \A r \in Reactors, s \in Sids :
    Queued(r, s) ~> (sessions_[r][s] # NoSession \/ ~running \/ ~up)

(***************************************************************************)
(* After a stop request the listener and every reactor end.                *)
(***************************************************************************)
StopTerminates == ~running ~> (AllDone \/ ~up)

-----------------------------------------------------------------------------
(* What the documents say and the code does not do.                         *)

(***************************************************************************)
(* A connection sticks to its reactor: one TCP connection, one thread      *)
(* (technical design, key points): no reactor takes bytes from a           *)
(* connection another reactor owns.                                        *)
(***************************************************************************)
StickyConnection ==
  \A r, q \in Reactors, s \in Sids :
    <<r, s>> \in foreignReads /\ q # r => ~Queued(q, s) /\ sessions_[q][s] = NoSession

=============================================================================
