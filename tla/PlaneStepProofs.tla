-------------------------- MODULE PlaneStepProofs ---------------------------
(***************************************************************************)
(* Who owns a connection, for any number of reactors, descriptors,         *)
(* sessions, node ids and commands, and queues of any capacity: the        *)
(* invariant, and the steps that leave the owner as it is.                 *)
(***************************************************************************)
EXTENDS Plane, TLAPS

-----------------------------------------------------------------------------
(* The inductive invariant                                                  *)

\* fd is connection s, and no reactor has it in its tables.
Fresh(fd, s) == fdTable[fd] = s /\ \A r \in Reactors : fd_to_sid_[r][fd] = NoSid

\* Session ids are given out in order, each to one descriptor.
SidsOnce ==
  /\ \A fd \in Fds : fdTable[fd] < next_sid_
  /\ \A fd, fe \in Fds : fdTable[fd] = fdTable[fe] /\ fdTable[fd] # NoSid => fd = fe

\* The connection the listener has accepted and not yet pushed.
ListenerHolds ==
  lsn.at = "push" =>
    /\ lsn.fd \in Fds /\ lsn.sid \in Sids /\ lsn.reactor_idx \in Reactors
    /\ Fresh(lsn.fd, lsn.sid)
    /\ \A q \in Reactors : \A i \in 1 .. Len(connQueue[q]) : connQueue[q][i].fd # lsn.fd

\* The connections in the conn queues.
QueueHolds ==
  /\ \A q \in Reactors : \A i \in 1 .. Len(connQueue[q]) :
       Fresh(connQueue[q][i].fd, connQueue[q][i].sid)
  /\ \A p, q \in Reactors : \A i \in 1 .. Len(connQueue[p]), j \in 1 .. Len(connQueue[q]) :
       connQueue[p][i].fd = connQueue[q][j].fd => p = q /\ i = j

\* A descriptor is in the tables of one reactor.
OneReactor ==
  \A p, q \in Reactors, fd \in Fds :
    fd_to_sid_[p][fd] # NoSid /\ fd_to_sid_[q][fd] # NoSid => p = q

Owned == SidsOnce /\ ListenerHolds /\ QueueHolds /\ TablesAgree /\ OneReactor

\* The session a reactor thread is in the middle of.
Holding == {"read", "flush", "close", "closefd"}

HandOK(r) ==
  LET t == thread[r] IN
  /\ t.at \in Holding =>
       t.sid \in Sids /\ sessions_[r][t.sid] # NoSession /\ sessions_[r][t.sid].fd = t.fd
  /\ t.at = "dangling" => t.sid \in Sids /\ t.fd \in Fds
  /\ t.at \in {"flush", "close", "closefd"} => t.back # "none"
  /\ t.at \in {"close", "closefd"} => t.back # "read"
  /\ t.at = "flush" => t.back # "dangling"
  /\ t.at \in {"wait", "exit"} => t.batch = {}
  /\ t.at \in {"flush", "close", "closefd"} /\ t.back = "exit" => t.batch = {}

HandsOK == \A r \in Reactors : HandOK(r)

\* The events still to be handled: while the wakeup is among them, or its new
\* connections are being registered, those of other descriptors are up to date.
Events(r) == thread[r].batch \ {WakeEvent}

EventOK(r) ==
  /\ \A e, f \in Events(r) : e.fd = f.fd => e = f
  /\ \A e \in Events(r) : fd_to_sid_[r][e.fd] \in {NoSid, e.sid}
  /\ At(r, "sends") => WakeEvent \notin thread[r].batch
  /\ At(r, "conns") => WakeEvent \notin thread[r].batch /\ ~HalfDone(r)
  /\ At(r, "conns") \/ WakeEvent \in thread[r].batch =>
       \A e \in Events(r) : e.kind = "rest" \/ fd_to_sid_[r][e.fd] = e.sid
  /\ WakeEvent \in thread[r].batch /\ thread[r].at \in Holding =>
       \A e \in Events(r) : e.kind = "rest" \/ e.fd # thread[r].fd
  /\ thread[r].at \in Holding /\ thread[r].back = "sends" => WakeEvent \notin thread[r].batch

EventsOK == \A r \in Reactors : EventOK(r)

\* A session that is authenticated has a node id.
Named ==
  \A r \in Reactors, s \in Sids :
    sessions_[r][s] # NoSession /\ sessions_[r][s].authed => sessions_[r][s].nid \in Nids

IInv == TypeOK /\ Owned /\ HandsOK /\ EventsOK /\ Named

-----------------------------------------------------------------------------
(* The steps of a reactor that leave the tables alone                       *)

\* The types of everything but the threads.
RestOK ==
  /\ RouterTypeOK
  /\ running \in BOOLEAN
  /\ next_sid_ \in 1 .. MaxSid + 1
  /\ fdTable \in [Fds -> Sids \cup {NoSid}]
  /\ lsn \in [at : {"accept", "push", "notify", "done", "killed"}, fd : Fds \cup {NoFd},
              sid : Sids \cup {NoSid}, reactor_idx : Reactors \cup {NoFd}]
  /\ connQueue \in [Reactors -> Seq(NewConnection)]
  /\ wakeup \in [Reactors -> BOOLEAN]
  /\ sendQueue \in [Reactors -> Seq(Frame)]
  /\ fd_to_sid_ \in [Reactors -> [Fds -> Sids \cup {NoSid}]]
  /\ sessions_ \in [Reactors -> [Sids -> Session \cup {NoSession}]]
  /\ authedAs \in [Sids -> SUBSET Nids]
  /\ lastAuth \in [Nids -> Sids \cup {NoSid}]
  /\ foreignReads \in SUBSET (Reactors \X Sids)

\* A step of r's thread.
ThreadStep(r) ==
  /\ thread' \in [Reactors -> Thread]
  /\ \A q \in Reactors \ {r} : thread'[q] = thread[q]

\* Every session stays, and keeps its descriptor.
SameSessions ==
  \A q \in Reactors, s \in Sids :
    /\ sessions_'[q][s] = NoSession <=> sessions_[q][s] = NoSession
    /\ sessions_[q][s] # NoSession => sessions_'[q][s].fd = sessions_[q][s].fd

(***************************************************************************)
(* Such a step need only be looked at for the thread that takes it.        *)
(***************************************************************************)
LEMMA LocalStep ==
  ASSUME IInv, NEW r \in Reactors, ThreadStep(r), RestOK', SameSessions, Named',
         UNCHANGED <<next_sid_, fdTable, lsn, connQueue, fd_to_sid_>>,
         HandOK(r)', EventOK(r)'
  PROVE  IInv'
<1>1. TypeOK'
  BY Zenon DEF TypeOK, RestOK, ThreadStep
<1>2. SidsOnce' /\ ListenerHolds' /\ QueueHolds' /\ OneReactor'
  BY DEF IInv, Owned, SidsOnce, ListenerHolds, QueueHolds, OneReactor, Fresh
<1>3. TablesAgree'
  <2>1. \A q \in Reactors, fd \in Fds : fd_to_sid_[q][fd] \in Sids \cup {NoSid}
    BY DEF IInv, TypeOK
  <2>2. \A q \in Reactors, fd \in Fds : LET s == fd_to_sid_[q][fd] IN
          s # NoSid => /\ sessions_[q][s] # NoSession
                       /\ sessions_[q][s].fd = fd
                       /\ fdTable[fd] = s
    BY Zenon DEF IInv, Owned, TablesAgree
  <2>3. \A q \in Reactors, s \in Sids :
          sessions_[q][s] # NoSession => fd_to_sid_[q][sessions_[q][s].fd] = s
    BY Zenon DEF IInv, Owned, TablesAgree, Live
  <2>4. \A q \in Reactors, fd \in Fds : LET s == fd_to_sid_'[q][fd] IN
          s # NoSid => /\ sessions_'[q][s] # NoSession
                       /\ sessions_'[q][s].fd = fd
                       /\ fdTable'[fd] = s
    BY <2>1, <2>2, SMT DEF SameSessions
  <2>5. \A q \in Reactors, s \in Sids :
          sessions_'[q][s] # NoSession => fd_to_sid_'[q][sessions_'[q][s].fd] = s
    BY <2>3, SMT DEF SameSessions
  <2> QED
    BY <2>4, <2>5, Zenon DEF TablesAgree, Live
<1>4. HandsOK'
  BY DEF IInv, HandsOK, HandOK, ThreadStep, SameSessions
<1>5. EventsOK'
  BY DEF IInv, EventsOK, EventOK, Events, HalfDone, At, ThreadStep
<1> QED
  BY <1>1, <1>2, <1>3, <1>4, <1>5, Zenon DEF IInv, Owned

(***************************************************************************)
(* The two tables, entry by entry.                                         *)
(***************************************************************************)
LEMMA Tables ==
  ASSUME IInv, NEW r \in Reactors
  PROVE  /\ \A fd \in Fds : LET s == fd_to_sid_[r][fd] IN
              s # NoSid => /\ s \in Sids
                           /\ sessions_[r][s] # NoSession
                           /\ sessions_[r][s].fd = fd
                           /\ fdTable[fd] = s
         /\ \A s \in Sids : sessions_[r][s] # NoSession =>
              /\ sessions_[r][s] \in Session
              /\ sessions_[r][s].fd \in Fds
              /\ fd_to_sid_[r][sessions_[r][s].fd] = s
<1>1. /\ \A fd \in Fds : fd_to_sid_[r][fd] \in Sids \cup {NoSid}
      /\ \A s \in Sids : sessions_[r][s] \in Session \cup {NoSession}
  BY DEF IInv, TypeOK
<1>2. \A s \in Session : s.fd \in Fds
  BY DEF Session
<1> QED
  BY <1>1, <1>2, ZenonT(40) DEF IInv, Owned, TablesAgree, Live

(***************************************************************************)
(* A step that only moves the thread.                                      *)
(***************************************************************************)
LEMMA MoveStep ==
  ASSUME IInv, NEW r \in Reactors, OnlyMoves, ThreadStep(r), HandOK(r)', EventOK(r)'
  PROVE  IInv'
<1>1. RestOK'
  BY Zenon DEF IInv, TypeOK, RestOK, RouterTypeOK, OnlyMoves, routerVars, accepting, queues, owned,
         history
<1>2. SameSessions /\ Named'
  BY Zenon DEF IInv, Named, SameSessions, OnlyMoves, owned
<1> QED
  BY <1>1, <1>2, LocalStep DEF OnlyMoves, accepting, queues, owned

(***************************************************************************)
(* The thread of one reactor is set.                                       *)
(***************************************************************************)
LEMMA ThreadSet ==
  ASSUME thread \in [Reactors -> Thread], NEW r \in Reactors, NEW t \in Thread,
         thread' = [thread EXCEPT ![r] = t]
  PROVE  ThreadStep(r) /\ thread'[r] = t
BY Zenon DEF ThreadStep

Labels == {"wait", "events", "conns", "sends", "read", "flush", "close", "closefd",
           "dangling", "exit", "done", "killed"}

Backs == {"none", "events", "sends", "read", "dangling", "exit"}

\* u is thread t gone on at a, to return to b.
MovedTo(u, t, a, b) ==
  /\ u \in Thread
  /\ u.at = a /\ u.back = b
  /\ u.sid = t.sid /\ u.fd = t.fd /\ u.batch = t.batch /\ u.nid = t.nid

(***************************************************************************)
(* A thread goes on elsewhere, with the same session in hand.              *)
(***************************************************************************)
LEMMA ThreadMoved ==
  ASSUME NEW t \in Thread, NEW a \in Labels, NEW b \in Backs
  PROVE  MovedTo([t EXCEPT !.at = a, !.back = b], t, a, b)
<1>1. ASSUME NEW u, u = [t EXCEPT !.at = a, !.back = b]
      PROVE  /\ u \in Thread
             /\ u.at = a /\ u.back = b
             /\ u.sid = t.sid /\ u.fd = t.fd /\ u.batch = t.batch /\ u.nid = t.nid
  BY <1>1, Zenon DEF Thread, Labels, Backs
<1> QED
  BY <1>1, Zenon DEF MovedTo

(***************************************************************************)
(* The moves of the event loop.                                            *)
(***************************************************************************)
LEMMA LoopMoves ==
  ASSUME IInv, NEW r \in Reactors,
         \/ EpollWait(r) \/ ConnectionsTaken(r) \/ SendsDone(r) \/ LeaveLoop(r) \/ Return(r)
  PROVE  IInv'
<1>0. thread \in [Reactors -> Thread] /\ HandOK(r) /\ EventOK(r)
  BY DEF IInv, TypeOK, HandsOK, EventsOK
<1>1. CASE EpollWait(r)
  <2>1. PICK evs \in SUBSET Ready(r) :
          /\ OnePerFd(evs)
          /\ thread' = [thread EXCEPT
               ![r].at = "events",
               ![r].batch = IF wakeup[r] THEN evs \cup {WakeEvent} ELSE evs]
    BY <1>1, ZenonT(40) DEF EpollWait, Poll
  <2>2. OnlyMoves
    BY <1>1 DEF EpollWait, Poll
  <2>3. /\ evs \subseteq Event
        /\ \A e \in evs : e.kind # "rest" /\ fd_to_sid_[r][e.fd] = e.sid
    BY DEF Ready
  <2>4. /\ ThreadStep(r) /\ thread'[r].at = "events"
        /\ thread'[r].batch = IF wakeup[r] THEN evs \cup {WakeEvent} ELSE evs
    <3> DEFINE b == IF wakeup[r] THEN evs \cup {WakeEvent} ELSE evs
    <3>1. b \in SUBSET (Event \cup {WakeEvent})
      BY <2>3
    <3>2. thread' = [thread EXCEPT ![r].at = "events", ![r].batch = b]
      BY <2>1, Zenon
    <3> HIDE DEF b
    <3>3. /\ thread' = [thread EXCEPT ![r] = [thread[r] EXCEPT !.at = "events", !.batch = b]]
          /\ [thread[r] EXCEPT !.at = "events", !.batch = b] \in Thread
      BY <1>0, <3>1, <3>2, ZenonT(40) DEF Thread
    <3>4. ThreadStep(r) /\ thread'[r].at = "events" /\ thread'[r].batch = b
      BY <1>0, <3>3, ThreadSet, ZenonT(40) DEF Thread
    <3> QED
      BY <3>4, Zenon DEF b
  <2>5. HandOK(r)'
    BY <2>4 DEF HandOK, Holding
  <2>6. EventOK(r)'
    <3>1. \A e \in Events(r)' : e \in evs
      BY <2>4 DEF Events
    <3>2. fd_to_sid_' = fd_to_sid_
      BY <2>2 DEF OnlyMoves, owned
    <3> QED
      BY <2>1, <2>3, <2>4, <3>1, <3>2 DEF EventOK, At, Holding, OnePerFd
  <2> QED
    BY <2>2, <2>4, <2>5, <2>6, MoveStep
<1>2. ASSUME NEW l, Goto(r, l), OnlyMoves, l \in {"sends", "events", "wait", "exit", "done"},
             l \in {"wait", "exit"} => thread[r].batch = {},
             l = "sends" => WakeEvent \notin thread[r].batch
      PROVE  IInv'
  <2>1. /\ ThreadStep(r) /\ thread'[r].at = l /\ thread'[r].batch = thread[r].batch
    BY <1>0, <1>2, SMT DEF ThreadStep, Thread, Goto
  <2>2. HandOK(r)'
    BY <1>2, <2>1 DEF HandOK, Holding
  <2>3. EventOK(r)'
    <3>1. fd_to_sid_' = fd_to_sid_
      BY <1>2 DEF OnlyMoves, owned
    <3> QED
      BY <1>0, <1>2, <2>1, <3>1, Zenon DEF EventOK, At, Holding, Events
  <2> QED
    BY <1>2, <2>1, <2>2, <2>3, MoveStep
<1>3. CASE ConnectionsTaken(r)
  BY <1>0, <1>2, <1>3 DEF ConnectionsTaken, EventOK, At
<1>4. CASE SendsDone(r)
  BY <1>2, <1>4 DEF SendsDone, AfterSends, InDrainSendQueue, At
<1>5. CASE LeaveLoop(r)
  BY <1>0, <1>2, <1>5 DEF LeaveLoop, HandOK, At
<1>6. CASE Return(r)
  BY <1>2, <1>6 DEF Return
<1> QED
  BY <1>1, <1>3, <1>4, <1>5, <1>6

(***************************************************************************)
(* Letting go of the session in hand.                                      *)
(***************************************************************************)
LEMMA LeaveSets ==
  ASSUME thread \in [Reactors -> Thread], NEW r \in Reactors,
         NEW l \in {"events", "sends", "exit"}, Leave(r, l)
  PROVE  /\ ThreadStep(r)
         /\ thread'[r].at = l /\ thread'[r].batch = thread[r].batch /\ thread'[r].nid = NoNid
<1> DEFINE t == [IdleThread EXCEPT !.at = l, !.batch = thread[r].batch]
<1>1. thread[r].batch \in SUBSET (Event \cup {WakeEvent})
  BY DEF Thread
<1>2. IdleThread \in Thread
  BY Zenon DEF IdleThread, Thread
<1>3. t \in Thread
  BY <1>1, <1>2, Zenon DEF Thread
<1>4. t.at = l /\ t.batch = thread[r].batch /\ t.nid = NoNid
  BY DEF IdleThread
<1>5. ThreadStep(r) /\ thread'[r] = t
  BY <1>3, ThreadSet, Zenon DEF Leave
<1> QED
  BY <1>4, <1>5

(***************************************************************************)
(* The invariants of the thread that has let go of its session.            *)
(***************************************************************************)
LEMMA LeaveKeeps ==
  ASSUME thread \in [Reactors -> Thread], NEW r \in Reactors, HandOK(r), EventOK(r),
         NEW l \in {"events", "sends", "exit"}, Leave(r, l),
         l = "exit" => thread[r].batch = {},
         l = "sends" => WakeEvent \notin thread[r].batch,
         fd_to_sid_' = fd_to_sid_
  PROVE  HandOK(r)' /\ EventOK(r)'
<1>1. thread'[r].at = l /\ thread'[r].batch = thread[r].batch
  BY LeaveSets
<1>2. HandOK(r)'
  BY <1>1, Zenon DEF HandOK, Holding
<1>3. EventOK(r)'
  BY <1>1, Zenon DEF EventOK, At, Holding, Events
<1> QED
  BY <1>2, <1>3

(***************************************************************************)
(* Going on with a session in hand: the session stays the same.            *)
(***************************************************************************)
LEMMA StayKeeps ==
  ASSUME IInv, NEW r \in Reactors, thread[r].at \in Holding, SameSessions,
         fd_to_sid_' = fd_to_sid_, thread' \in [Reactors -> Thread],
         thread'[r].at \in Holding,
         thread'[r].sid = thread[r].sid, thread'[r].fd = thread[r].fd,
         thread'[r].batch = thread[r].batch,
         thread'[r].at \in {"flush", "close", "closefd"} => thread'[r].back # "none",
         thread'[r].at \in {"close", "closefd"} => thread'[r].back # "read",
         thread'[r].at = "flush" => thread'[r].back # "dangling",
         thread'[r].at \in {"flush", "close", "closefd"} /\ thread'[r].back = "exit" =>
           thread[r].batch = {},
         thread'[r].back = "sends" => thread[r].back = "sends"
  PROVE  HandOK(r)' /\ EventOK(r)'
<1>0. HandOK(r) /\ EventOK(r)
  BY Zenon DEF IInv, HandsOK, EventsOK
<1>1. HandOK(r)'
  BY <1>0, Zenon DEF HandOK, Holding, SameSessions
<1>2. EventOK(r)'
  BY <1>0, Zenon DEF EventOK, At, Holding, Events
<1> QED
  BY <1>1, <1>2

(***************************************************************************)
(* The moves of a thread with a session in hand.                           *)
(***************************************************************************)
LEMMA SessionMoves ==
  ASSUME IInv, NEW r \in Reactors,
         \/ FlushError(r) \/ ReadBlocks(r) \/ ReadCloses(r) \/ RefuseInbound(r)
         \/ DanglingReturn(r)
  PROVE  IInv'
<1>0. thread \in [Reactors -> Thread] /\ HandOK(r) /\ EventOK(r)
  BY DEF IInv, TypeOK, HandsOK, EventsOK
<1>1. CASE ReadBlocks(r) \/ DanglingReturn(r)
  <2>1. Leave(r, "events") /\ OnlyMoves
    BY <1>1 DEF ReadBlocks, DanglingReturn
  <2>2. HandOK(r)' /\ EventOK(r)' /\ ThreadStep(r)
    BY <1>0, <2>1, LeaveKeeps, LeaveSets DEF OnlyMoves, owned
  <2> QED
    BY <2>1, <2>2, MoveStep
<1>2. ASSUME NEW back \in {"events", "sends", "dangling", "exit"},
             thread[r].at \in {"read", "flush"},
             CallClose(r, back), OnlyMoves,
             back \in {"sends", "exit"} => thread[r].at = "flush" /\ thread[r].back = back
      PROVE  IInv'
  <2>1. /\ thread' = [thread EXCEPT ![r] = [thread[r] EXCEPT !.at = "close", !.back = back]]
        /\ [thread[r] EXCEPT !.at = "close", !.back = back] \in Thread
    BY <1>0, <1>2, ZenonT(40) DEF CallClose, Thread
  <2>2. /\ ThreadStep(r) /\ thread'[r].at = "close" /\ thread'[r].back = back
        /\ thread'[r].sid = thread[r].sid /\ thread'[r].fd = thread[r].fd
        /\ thread'[r].batch = thread[r].batch
    BY <1>0, <2>1, ThreadSet, ZenonT(40) DEF Thread
  <2>3. SameSessions /\ fd_to_sid_' = fd_to_sid_
    BY <1>2, Zenon DEF SameSessions, OnlyMoves, owned
  <2>4. HandOK(r)' /\ EventOK(r)'
    BY <1>0, <1>2, <2>2, <2>3, StayKeeps, Zenon DEF Holding, ThreadStep, HandOK
  <2> QED
    BY <1>2, <2>2, <2>4, MoveStep
<1>3. CASE FlushError(r)
  <2>1. thread[r].back \in {"events", "sends", "read", "dangling", "exit"}
    BY <1>0, <1>3 DEF FlushError, HandOK, At, Thread
  <2> QED
    BY <1>2, <1>3, <2>1, Zenon DEF FlushError, At
<1>4. CASE ReadCloses(r)
  BY <1>2, <1>4 DEF ReadCloses, At
<1>5. CASE RefuseInbound(r)
  BY <1>2, <1>5 DEF RefuseInbound, At
<1> QED
  BY <1>1, <1>3, <1>4, <1>5

(***************************************************************************)
(* An event is handled: it leaves the batch, or is replaced by its second  *)
(* half.                                                                   *)
(***************************************************************************)
LEMMA EventMoves ==
  ASSUME IInv, NEW r \in Reactors, NEW e \in Events(r), HandleEvent(r, e)
  PROVE  IInv'
<1> DEFINE left == IF e.kind = "inout" THEN {[e EXCEPT !.kind = "rest"]} ELSE {}
           B == (thread[r].batch \ {e}) \cup left
           sid == fd_to_sid_[r][e.fd]
           t == [thread[r] EXCEPT !.batch = B]
           u == IF sid = NoSid THEN t
                ELSE IF e.kind = "rest" THEN InHand(t, r, sid, "flush", "events")
                                        ELSE InHand(t, r, sid, "read", "none")
<1>0. /\ thread \in [Reactors -> Thread] /\ HandOK(r) /\ EventOK(r)
      /\ thread[r].at = "events" /\ OnlyMoves /\ fd_to_sid_' = fd_to_sid_
      /\ sessions_' = sessions_
  BY DEF IInv, TypeOK, HandsOK, EventsOK, HandleEvent, At, OnlyMoves, owned
<1>1. thread' = [thread EXCEPT ![r] = u]
  BY Zenon DEF HandleEvent
<1>2. /\ thread[r].batch \subseteq Event \cup {WakeEvent}
      /\ e \in Event /\ e.fd \in Fds
  BY <1>0 DEF Events, Thread, Event
<1>3. \A f \in left :
        f \in Event /\ f # WakeEvent /\ f.kind = "rest" /\ f.fd = e.fd /\ f.sid = e.sid
  BY <1>2, PlaneAssumption, SMT DEF Event, WakeEvent
<1>4. /\ B \in SUBSET (Event \cup {WakeEvent})
      /\ \A f \in B \ {WakeEvent} :
           \/ f \in Events(r) /\ f # e
           \/ f \in left /\ f.kind = "rest" /\ f.fd = e.fd /\ f.sid = e.sid
      /\ WakeEvent \in B => WakeEvent \in thread[r].batch
  BY <1>2, <1>3, Zenon DEF Events
<1>5. \A f, g \in left : f = g
  BY Zenon
<1> HIDE DEF left, B
<1>6. /\ \A f, g \in B \ {WakeEvent} : f.fd = g.fd => f = g
      /\ \A f \in B \ {WakeEvent} : fd_to_sid_[r][f.fd] \in {NoSid, f.sid}
      /\ WakeEvent \in B => \A f \in B \ {WakeEvent} :
           f.kind = "rest" \/ (fd_to_sid_[r][f.fd] = f.sid /\ f.fd # e.fd)
  BY <1>0, <1>4, <1>5, Zenon DEF EventOK
<1>7. t \in Thread
  BY <1>0, <1>4, ZenonT(40) DEF Thread
<1>8. t.at = "events" /\ t.batch = B
  BY <1>0 DEF Thread
<1> HIDE DEF t
<1>9. CASE sid = NoSid
  <2>1. ThreadStep(r) /\ thread'[r] = t
    BY <1>0, <1>1, <1>7, <1>9, ThreadSet, Zenon
  <2>2. HandOK(r)'
    BY <1>8, <2>1 DEF HandOK, Holding
  <2>3. EventOK(r)'
    BY <1>0, <1>6, <1>8, <2>1, Zenon DEF EventOK, At, Holding, Events
  <2> QED
    BY <1>0, <2>1, <2>2, <2>3, MoveStep
<1>10. CASE sid # NoSid
  <2>1. /\ sid \in Sids /\ sessions_[r][sid] # NoSession
        /\ sessions_[r][sid].fd = e.fd
    BY <1>2, <1>10, Tables, Zenon
  <2>2. PICK l \in {"flush", "read"}, back \in {"events", "none"} :
          u = [t EXCEPT !.at = l, !.sid = sid, !.fd = e.fd, !.back = back]
          /\ (l = "flush" => back # "none")
    BY <1>10, <2>1, Zenon DEF InHand
  <2>3. u \in Thread
    BY <1>2, <1>7, <2>1, <2>2, ZenonT(40) DEF Thread
  <2>4. ThreadStep(r) /\ thread'[r] = u
    BY <1>0, <1>1, <2>3, ThreadSet, Zenon
  <2> HIDE DEF u, sid
  <2>5. u.at = l /\ u.sid = sid /\ u.fd = e.fd /\ u.back = back /\ u.batch = B
    BY <1>7, <1>8, <2>2, Zenon DEF Thread
  <2>6. HandOK(r)'
    BY <1>0, <2>1, <2>2, <2>4, <2>5 DEF HandOK, Holding
  <2>7. EventOK(r)'
    BY <1>0, <1>6, <2>2, <2>4, <2>5 DEF EventOK, At, Holding, Events
  <2> QED
    BY <1>0, <2>4, <2>6, <2>7, MoveStep
<1> QED
  BY <1>9, <1>10

\* Session s of reactor r becomes x, under the same descriptor.
Becomes(r, s, x) ==
  /\ sessions_[r][s] # NoSession
  /\ x \in Session /\ x.fd = sessions_[r][s].fd /\ (x.authed => x.nid \in Nids)
  /\ sessions_' = [sessions_ EXCEPT ![r] = [sessions_[r] EXCEPT ![s] = x]]

(***************************************************************************)
(* One session is changed, under the same descriptor.                      *)
(***************************************************************************)
LEMMA SessionSet ==
  ASSUME IInv, NEW r \in Reactors, NEW s \in Sids, NEW x, Becomes(r, s, x)
  PROVE  /\ sessions_' \in [Reactors -> [Sids -> Session \cup {NoSession}]]
         /\ SameSessions /\ Named'
         /\ sessions_'[r][s] = x
<1>1. sessions_ \in [Reactors -> [Sids -> Session \cup {NoSession}]]
  BY Zenon DEF IInv, TypeOK
<1>2. /\ x # NoSession /\ x \in Session /\ x.fd = sessions_[r][s].fd
      /\ x.authed => x.nid \in Nids
      /\ sessions_[r][s] # NoSession
      /\ sessions_' = [sessions_ EXCEPT ![r] = [sessions_[r] EXCEPT ![s] = x]]
  BY PlaneAssumption, Zenon DEF Becomes
<1>3. sessions_' \in [Reactors -> [Sids -> Session \cup {NoSession}]]
  BY <1>1, <1>2, Zenon
<1>4. /\ sessions_'[r][s] = x
      /\ \A q \in Reactors, i \in Sids :
           (q = r /\ i = s) \/ sessions_'[q][i] = sessions_[q][i]
  BY <1>1, <1>2, Zenon
<1> QED
  BY <1>2, <1>3, <1>4, Zenon DEF IInv, SameSessions, Named

(***************************************************************************)
(* The types of everything but the threads, when only the Router, one      *)
(* session and the history change.                                         *)
(***************************************************************************)
LEMMA RestKept ==
  ASSUME IInv, RouterTypeOK', UNCHANGED <<running, accepting, queues, fd_to_sid_>>,
         sessions_' \in [Reactors -> [Sids -> Session \cup {NoSession}]],
         authedAs' \in [Sids -> SUBSET Nids], lastAuth' \in [Nids -> Sids \cup {NoSid}],
         foreignReads' \in SUBSET (Reactors \X Sids)
  PROVE  RestOK'
BY DEF IInv, TypeOK, RestOK, accepting, queues

(***************************************************************************)
(* A system frame is acknowledged: the session in hand becomes s, with     *)
(* bytes to send.                                                          *)
(***************************************************************************)
LEMMA AckStep ==
  ASSUME IInv, NEW r \in Reactors, At(r, "read"), NEW s \in Session,
         s.fd = Ref(r).fd, s.authed => s.nid \in Nids, CallAck(r, s), RouterTypeOK',
         authedAs' \in [Sids -> SUBSET Nids], lastAuth' \in [Nids -> Sids \cup {NoSid}],
         foreignReads' \in SUBSET (Reactors \X Sids)
  PROVE  /\ IInv'
         /\ sessions_' = [sessions_ EXCEPT ![r][thread[r].sid] = [s EXCEPT !.outbuf = TRUE]]
         /\ ThreadStep(r)
         /\ thread'[r].at = "flush" /\ thread'[r].sid = thread[r].sid
         /\ thread'[r].nid = thread[r].nid
<1> DEFINE x == [s EXCEPT !.outbuf = TRUE]
           i == thread[r].sid
           t == [thread[r] EXCEPT !.at = "flush", !.back = "read"]
<1>0. /\ thread \in [Reactors -> Thread] /\ HandOK(r)
      /\ sessions_ \in [Reactors -> [Sids -> Session \cup {NoSession}]]
  BY Zenon DEF IInv, TypeOK, HandsOK
<1>1. i \in Sids /\ sessions_[r][i] # NoSession
  BY <1>0 DEF HandOK, Holding, At
<1>2. x \in Session
  BY Zenon DEF Session
<1>3. x.fd = s.fd /\ x.authed = s.authed /\ x.nid = s.nid
  BY Zenon DEF Session
<1>4. sessions_' = [sessions_ EXCEPT ![r] = [sessions_[r] EXCEPT ![i] = x]]
  BY <1>0, Zenon DEF CallAck
<1> HIDE DEF x
<1>5. /\ sessions_' \in [Reactors -> [Sids -> Session \cup {NoSession}]]
      /\ SameSessions /\ Named'
  <2>1. Becomes(r, i, x)
    BY <1>1, <1>2, <1>3, <1>4 DEF Becomes, Ref
  <2> QED
    BY <1>1, <2>1, SessionSet, Zenon
<1>6. MovedTo(t, thread[r], "flush", "read")
  <2>1. "flush" \in Labels /\ "read" \in Backs /\ thread[r] \in Thread
    BY <1>0 DEF Labels, Backs
  <2> QED
    BY <2>1, ThreadMoved, Zenon
<1>7. thread' = [thread EXCEPT ![r] = t]
  BY <1>0, Zenon DEF CallAck
<1>8. ThreadStep(r) /\ thread'[r] = t
  BY <1>0, <1>6, <1>7, ThreadSet, ZenonT(40) DEF MovedTo
<1> HIDE DEF t
<1>9. fd_to_sid_' = fd_to_sid_
  BY Zenon DEF CallAck
<1>10. HandOK(r)' /\ EventOK(r)'
  BY <1>5, <1>6, <1>8, <1>9, StayKeeps, Zenon DEF MovedTo, Holding, ThreadStep, At
<1>11. RestOK'
  BY <1>5, RestKept DEF CallAck
<1>12. IInv'
  BY <1>5, <1>8, <1>9, <1>10, <1>11, LocalStep, Zenon DEF CallAck, accepting, queues
<1> QED
  BY <1>6, <1>8, <1>12 DEF MovedTo, CallAck

(***************************************************************************)
(* The session in hand is one of the reactor's.                            *)
(***************************************************************************)
LEMMA InHandSession ==
  ASSUME IInv, NEW r \in Reactors, thread[r].at \in Holding
  PROVE  /\ thread[r] \in Thread /\ thread[r].sid \in Sids
         /\ Ref(r) \in Session /\ Ref(r) # NoSession
         /\ thread[r].fd = Ref(r).fd /\ thread[r].fd \in Fds
         /\ fd_to_sid_[r][thread[r].fd] = thread[r].sid
         /\ fdTable[thread[r].fd] = thread[r].sid
         /\ Ref(r).authed => Ref(r).nid \in Nids
<1>1. /\ thread[r] \in Thread /\ thread[r].sid \in Sids /\ Ref(r) # NoSession
      /\ thread[r].fd = Ref(r).fd
  BY Zenon DEF IInv, TypeOK, HandsOK, HandOK, Ref
<1>2. /\ Ref(r) \in Session /\ Ref(r).fd \in Fds
      /\ fd_to_sid_[r][Ref(r).fd] = thread[r].sid
  BY <1>1, Tables, Zenon DEF Ref
<1>3. thread[r].sid # NoSid
  BY <1>1, RouterAssumption DEF Sids, NoSid
<1>4. fdTable[Ref(r).fd] = thread[r].sid
  BY <1>2, <1>3, Tables, Zenon
<1>5. Ref(r).authed => Ref(r).nid \in Nids
  BY <1>1, Zenon DEF IInv, Named, Ref
<1> QED
  BY <1>1, <1>2, <1>4, <1>5, Zenon

(***************************************************************************)
(* The Router's operations keep its types.                                 *)
(***************************************************************************)
LEMMA RouterTypes ==
  ASSUME RouterTypeOK
  PROVE  /\ \A n \in Nids, s \in Sids, r \in Reactors : BindNid(n, s, r) => RouterTypeOK'
         /\ \A c \in Cmds, sub \in Subscriber : Subscribe(c, sub) => RouterTypeOK'
         /\ \A c \in Cmds, s \in Sids : Unsubscribe(c, s) => RouterTypeOK'
         /\ \A s \in Sids, n \in Nids : RemoveSession(s, n) => RouterTypeOK'
         /\ UNCHANGED routerVars => RouterTypeOK'
<1>1. ASSUME NEW n \in Nids, NEW s \in Sids, NEW r \in Reactors, BindNid(n, s, r)
      PROVE  RouterTypeOK'
  BY <1>1 DEF BindNid, RouterTypeOK, NidRoute
<1>2. ASSUME NEW c \in Cmds, NEW sub \in Subscriber, Subscribe(c, sub)
      PROVE  RouterTypeOK'
  BY <1>2 DEF Subscribe, RouterTypeOK, NotOf
<1>3. ASSUME NEW c \in Cmds, NEW s \in Sids, Unsubscribe(c, s)
      PROVE  RouterTypeOK'
  BY <1>3 DEF Unsubscribe, RouterTypeOK, NotOf
<1>4. ASSUME NEW s \in Sids, NEW n \in Nids, RemoveSession(s, n)
      PROVE  RouterTypeOK'
  BY <1>4 DEF RemoveSession, RouterTypeOK, NotOf
<1>5. UNCHANGED routerVars => RouterTypeOK'
  BY DEF routerVars, RouterTypeOK
<1> QED
  BY <1>1, <1>2, <1>3, <1>4, <1>5

(***************************************************************************)
(* HandleSystem.                                                           *)
(***************************************************************************)
LEMMA SystemFrames ==
  ASSUME IInv, NEW r \in Reactors,
         \/ \E n \in Nids : HandleAuth(r, n)
         \/ \E c \in Cmds : HandleSub(r, c) \/ HandleUnsub(r, c)
         \/ HandleKpalive(r)
  PROVE  IInv'
<1>0. /\ RouterTypeOK /\ authedAs \in [Sids -> SUBSET Nids]
      /\ lastAuth \in [Nids -> Sids \cup {NoSid}] /\ foreignReads \in SUBSET (Reactors \X Sids)
  BY SMTT(30) DEF IInv, TypeOK
<1>1. At(r, "read")
  BY ZenonT(40) DEF HandleAuth, HandleSub, HandleUnsub, HandleKpalive
<1>2. /\ thread[r].sid \in Sids /\ Ref(r) \in Session
      /\ Ref(r).authed => Ref(r).nid \in Nids
  BY <1>1, InHandSession, Zenon DEF At, Holding
<1>3. ASSUME NEW n \in Nids, HandleAuth(r, n)
      PROVE  IInv'
  <2> DEFINE s == [Ref(r) EXCEPT !.authed = TRUE, !.nid = n]
  <2>1. s \in Session
    BY <1>2, Zenon DEF Session
  <2>2. s.fd = Ref(r).fd /\ s.nid = n
    BY <1>2, Zenon DEF Session
  <2>3. CallAck(r, s) /\ BindNid(n, thread[r].sid, r)
    BY <1>3, Zenon DEF HandleAuth, Authenticate
  <2> HIDE DEF s
  <2>4. RouterTypeOK'
    BY <1>0, <1>2, <2>3, RouterTypes, Zenon
  <2>5. /\ authedAs' \in [Sids -> SUBSET Nids] /\ lastAuth' \in [Nids -> Sids \cup {NoSid}]
        /\ foreignReads' \in SUBSET (Reactors \X Sids)
    BY <1>0, <1>2, <1>3, ZenonT(40) DEF HandleAuth, Authenticate
  <2> QED
    BY <1>1, <2>1, <2>2, <2>3, <2>4, <2>5, AckStep, Zenon
<1>4. ASSUME CallAck(r, Ref(r)), UNCHANGED history, RouterTypeOK'
      PROVE  IInv'
  BY <1>0, <1>1, <1>2, <1>4, AckStep, ZenonT(40) DEF history
<1>5. ASSUME NEW c \in Cmds, HandleSub(r, c)
      PROVE  IInv'
  <2>1. [sid |-> thread[r].sid, nid |-> Ref(r).nid, reactor_idx |-> r] \in Subscriber
    BY <1>2, <1>5, Zenon DEF HandleSub, Subscriber
  <2> QED
    BY <1>0, <1>4, <1>5, <2>1, RouterTypes DEF HandleSub
<1>6. ASSUME NEW c \in Cmds, HandleUnsub(r, c)
      PROVE  IInv'
  BY <1>0, <1>2, <1>4, <1>6, RouterTypes, Zenon DEF HandleUnsub
<1>7. CASE HandleKpalive(r)
  BY <1>0, <1>4, <1>7, RouterTypes DEF HandleKpalive, routerVars
<1> QED
  BY <1>3, <1>5, <1>6, <1>7

(***************************************************************************)
(* Only outbuf of one session changes.                                     *)
(***************************************************************************)
LEMMA OutbufSet ==
  ASSUME IInv, NEW r \in Reactors, NEW s \in Sids, sessions_[r][s] # NoSession,
         NEW b \in BOOLEAN, sessions_' = [sessions_ EXCEPT ![r][s].outbuf = b]
  PROVE  /\ sessions_' \in [Reactors -> [Sids -> Session \cup {NoSession}]]
         /\ SameSessions /\ Named'
         /\ sessions_'[r][s] = [sessions_[r][s] EXCEPT !.outbuf = b]
<1> DEFINE x == [sessions_[r][s] EXCEPT !.outbuf = b]
<1>0. sessions_ \in [Reactors -> [Sids -> Session \cup {NoSession}]]
  BY DEF IInv, TypeOK
<1>1. sessions_[r][s] \in Session
  BY Tables, Zenon
<1>2. x \in Session
  BY <1>1, Zenon DEF Session
<1>3. /\ x.fd = sessions_[r][s].fd /\ x.authed = sessions_[r][s].authed
      /\ x.nid = sessions_[r][s].nid
  BY <1>1, Zenon DEF Session
<1>4. sessions_' = [sessions_ EXCEPT ![r] = [sessions_[r] EXCEPT ![s] = x]]
  <2>1. sessions_' = [sessions_ EXCEPT ![r] = [sessions_[r] EXCEPT ![s].outbuf = b]]
    BY <1>0, Zenon
  <2>2. [sessions_[r] EXCEPT ![s].outbuf = b] = [sessions_[r] EXCEPT ![s] = x]
    BY <1>0, Zenon
  <2> QED
    BY <2>1, <2>2, Zenon
<1> HIDE DEF x
<1>5. x.authed => x.nid \in Nids
  BY <1>3, Zenon DEF IInv, Named
<1>6. /\ sessions_' \in [Reactors -> [Sids -> Session \cup {NoSession}]]
      /\ SameSessions /\ Named' /\ sessions_'[r][s] = x
  <2>1. Becomes(r, s, x)
    BY <1>2, <1>3, <1>4, <1>5, ZenonT(40) DEF Becomes
  <2> QED
    BY <2>1, SessionSet, Zenon
<1> QED
  BY <1>6, Zenon DEF x

(***************************************************************************)
(* HandleWritable has sent what it could.                                  *)
(***************************************************************************)
LEMMA FlushStep ==
  ASSUME IInv, NEW r \in Reactors, Flush(r)
  PROVE  IInv' /\ ThreadStep(r) /\ thread'[r].at # "closefd"
<1>0. thread \in [Reactors -> Thread] /\ HandOK(r) /\ EventOK(r)
  BY DEF IInv, TypeOK, HandsOK, EventsOK
<1>1. At(r, "flush") /\ thread[r].at = "flush"
  BY DEF Flush, At
<1>2. /\ thread[r] \in Thread /\ thread[r].sid \in Sids
      /\ Ref(r) \in Session /\ Ref(r) # NoSession
  BY <1>1, InHandSession DEF Holding
<1>3. Ref(r).outbuf \in BOOLEAN
  BY <1>2 DEF Session
<1>4. PICK b \in BOOLEAN : sessions_' = [sessions_ EXCEPT ![r][thread[r].sid].outbuf = b]
  BY <1>3, Zenon DEF Flush
<1>5. /\ sessions_' \in [Reactors -> [Sids -> Session \cup {NoSession}]]
      /\ SameSessions /\ Named'
  BY <1>2, <1>4, OutbufSet, ZenonT(40) DEF Ref
<1>6. /\ UNCHANGED <<routerVars, running, accepting, queues, fd_to_sid_, history>>
      /\ fd_to_sid_' = fd_to_sid_
  BY DEF Flush
<1>7. RestOK'
  <2>1. RouterTypeOK'
    BY <1>6, RouterTypes DEF IInv, TypeOK
  <2>2. /\ authedAs' \in [Sids -> SUBSET Nids] /\ lastAuth' \in [Nids -> Sids \cup {NoSid}]
        /\ foreignReads' \in SUBSET (Reactors \X Sids)
    BY <1>6 DEF IInv, TypeOK, history
  <2> QED
    BY <1>5, <1>6, <2>1, <2>2, RestKept
<1>8. HandOK(r)' /\ EventOK(r)' /\ ThreadStep(r) /\ thread'[r].at # "closefd"
  <2>1. CASE thread[r].back = "read"
    <3> DEFINE t == [thread[r] EXCEPT !.at = "read", !.back = "none"]
    <3>1. thread' = [thread EXCEPT ![r] = t]
      <4>1. thread' = [thread EXCEPT ![r].at = "read", ![r].back = "none"]
        BY <2>1, Zenon DEF Flush
      <4> QED
        BY <1>0, <4>1, Zenon
    <3>2. MovedTo(t, thread[r], "read", "none")
      <4>1. "read" \in Labels /\ "none" \in Backs
        BY DEF Labels, Backs
      <4> QED
        BY <1>2, <4>1, ThreadMoved, Zenon
    <3> HIDE DEF t
    <3>3. ThreadStep(r) /\ thread'[r] = t
      BY <1>0, <3>1, <3>2, ThreadSet, ZenonT(40) DEF MovedTo
    <3> QED
      BY <1>1, <1>5, <1>6, <3>2, <3>3, StayKeeps, Zenon DEF MovedTo, Holding, ThreadStep
  <2>2. CASE thread[r].back # "read"
    <3>1. Leave(r, thread[r].back)
      BY <2>2 DEF Flush
    <3>2. thread[r].back \in {"events", "sends", "exit"}
      BY <1>0, <1>1, <2>2, Zenon DEF HandOK, Thread
    <3>3. /\ thread[r].back = "exit" => thread[r].batch = {}
          /\ thread[r].back = "sends" => WakeEvent \notin thread[r].batch
      BY <1>0, <1>1, Zenon DEF HandOK, EventOK, Holding
    <3>4. HandOK(r)' /\ EventOK(r)'
      BY <1>0, <1>6, <3>1, <3>2, <3>3, LeaveKeeps, Zenon
    <3> QED
      BY <1>0, <3>1, <3>2, <3>4, LeaveSets, Zenon
  <2> QED
    BY <2>1, <2>2, Zenon
<1> QED
  BY <1>5, <1>6, <1>7, <1>8, LocalStep, Zenon DEF accepting, queues

\* u is thread t with session sid of descriptor fd taken in hand for a frame looked up
\* for node n.
TakesUp(u, t, a, sid, fd, b, n) ==
  /\ u \in Thread
  /\ u.at = a /\ u.sid = sid /\ u.fd = fd /\ u.back = b /\ u.batch = t.batch /\ u.nid = n

(***************************************************************************)
(* A thread takes a session in hand.                                       *)
(***************************************************************************)
LEMMA TakenUp ==
  ASSUME NEW t \in Thread, NEW a \in Labels, NEW sid \in Sids, NEW fd \in Fds, NEW b \in Backs
  PROVE  /\ TakesUp([t EXCEPT !.at = a, !.sid = sid, !.fd = fd, !.back = b],
                    t, a, sid, fd, b, t.nid)
         /\ \A n \in Nids :
              TakesUp([[t EXCEPT !.at = a, !.sid = sid, !.fd = fd, !.back = b] EXCEPT !.nid = n],
                      t, a, sid, fd, b, n)
<1>1. ASSUME NEW u, u = [t EXCEPT !.at = a, !.sid = sid, !.fd = fd, !.back = b]
      PROVE  TakesUp(u, t, a, sid, fd, b, t.nid)
  BY <1>1, Zenon DEF Thread, Labels, Backs, TakesUp
<1>2. ASSUME NEW u, TakesUp(u, t, a, sid, fd, b, t.nid), NEW n \in Nids,
             NEW v, v = [u EXCEPT !.nid = n]
      PROVE  TakesUp(v, t, a, sid, fd, b, n)
  BY <1>2, Zenon DEF Thread, TakesUp
<1> QED
  BY <1>1, <1>2, Zenon

(***************************************************************************)
(* A thread that has taken a session in hand outside the handling of       *)
(* events has no wakeup left to handle.                                    *)
(***************************************************************************)
LEMMA TakeKeeps ==
  ASSUME IInv, NEW r \in Reactors, WakeEvent \notin thread[r].batch,
         SameSessions, fd_to_sid_' = fd_to_sid_,
         NEW a \in {"flush", "close"}, NEW b \in {"events", "sends", "exit"}, NEW sid \in Sids,
         NEW n, sessions_[r][sid] # NoSession,
         TakesUp(thread'[r], thread[r], a, sid, sessions_[r][sid].fd, b, n),
         b = "exit" => thread[r].batch = {}
  PROVE  HandOK(r)' /\ EventOK(r)'
<1>0. EventOK(r)
  BY Zenon DEF IInv, EventsOK
<1>1. HandOK(r)'
  BY Zenon DEF HandOK, Holding, TakesUp, SameSessions
<1>2. EventOK(r)'
  BY <1>0, Zenon DEF EventOK, At, Holding, Events, TakesUp
<1> QED
  BY <1>1, <1>2, Zenon

(***************************************************************************)
(* Run closes its sessions one by one.                                     *)
(***************************************************************************)
LEMMA CloseNextStep ==
  ASSUME IInv, NEW r \in Reactors, CloseNext(r)
  PROVE  IInv'
<1>0. thread \in [Reactors -> Thread] /\ HandOK(r) /\ thread[r].at = "exit" /\ OnlyMoves
  BY DEF IInv, TypeOK, HandsOK, CloseNext, At
<1>1. PICK s \in Sids : /\ sessions_[r][s] # NoSession
                        /\ thread' = [thread EXCEPT ![r] = InHand(thread[r], r, s, "close", "exit")]
  BY <1>0, Zenon DEF CloseNext, Live
<1>2. sessions_[r][s].fd \in Fds
  BY <1>1, Tables, Zenon
<1> DEFINE u == InHand(thread[r], r, s, "close", "exit")
<1>3. TakesUp(u, thread[r], "close", s, sessions_[r][s].fd, "exit", thread[r].nid)
  <2>1. "close" \in Labels /\ "exit" \in Backs /\ thread[r] \in Thread
    BY <1>0 DEF Labels, Backs
  <2> QED
    BY <1>2, <2>1, TakenUp, Zenon DEF InHand
<1> HIDE DEF u
<1>4. ThreadStep(r) /\ thread'[r] = u
  BY <1>0, <1>1, <1>3, ThreadSet, Zenon DEF TakesUp, u
<1>5. SameSessions /\ fd_to_sid_' = fd_to_sid_
  BY <1>0, Zenon DEF SameSessions, OnlyMoves, owned
<1>6. thread[r].batch = {}
  BY <1>0, Zenon DEF HandOK
<1>7. HandOK(r)' /\ EventOK(r)'
  BY <1>1, <1>3, <1>4, <1>5, <1>6, TakeKeeps, Zenon
<1> QED
  BY <1>0, <1>4, <1>7, MoveStep

(***************************************************************************)
(* DrainSendQueue takes a frame.                                           *)
(***************************************************************************)
LEMMA SendNextStep ==
  ASSUME IInv, NEW r \in Reactors, SendNext(r)
  PROVE  IInv'
<1> DEFINE f == Head(sendQueue[r])
<1>0. /\ thread \in [Reactors -> Thread] /\ HandOK(r) /\ EventOK(r)
      /\ sendQueue \in [Reactors -> Seq(Frame)] /\ sendQueue[r] \in Seq(Frame)
      /\ sendQueue[r] # << >>
  BY Zenon DEF IInv, TypeOK, HandsOK, EventsOK, SendNext
<1>1. f \in Frame /\ f.sid \in Sids /\ f.nid \in Nids /\ Tail(sendQueue[r]) \in Seq(Frame)
  <2>1. ASSUME NEW q \in Seq(Frame), q # << >>
        PROVE  Head(q) \in Frame /\ Tail(q) \in Seq(Frame)
    BY <2>1
  <2>2. f \in Frame /\ Tail(sendQueue[r]) \in Seq(Frame)
    BY <1>0, <2>1, Zenon
  <2> QED
    BY <2>2, Zenon DEF Frame
<1>2. sendQueue' \in [Reactors -> Seq(Frame)]
  BY <1>0, <1>1, Zenon DEF SendNext
<1>3. /\ UNCHANGED <<routerVars, running, accepting, connQueue, wakeup, fd_to_sid_, history>>
      /\ fd_to_sid_' = fd_to_sid_
  BY Zenon DEF SendNext
<1>4. ASSUME sessions_' \in [Reactors -> [Sids -> Session \cup {NoSession}]]
      PROVE  RestOK'
  BY <1>2, <1>3, <1>4, Zenon DEF IInv, TypeOK, RouterTypeOK, RestOK, routerVars, accepting, history
<1>5. CASE sessions_[r][f.sid] = NoSession
  <2>1. sessions_' = sessions_ /\ thread' = thread
    BY <1>5, Zenon DEF SendNext
  <2>2. RestOK' /\ SameSessions /\ Named' /\ ThreadStep(r)
    BY <1>4, <2>1, Zenon DEF IInv, TypeOK, SameSessions, Named, ThreadStep
  <2>3. HandOK(r)' /\ EventOK(r)'
    BY <1>0, <1>3, <2>1, Zenon DEF HandOK, EventOK, At, Events, HalfDone
  <2> QED
    BY <1>3, <2>2, <2>3, LocalStep DEF accepting
<1>6. CASE sessions_[r][f.sid] # NoSession
  <2> DEFINE u == [InHand(thread[r], r, f.sid, "flush", thread[r].at) EXCEPT !.nid = f.nid]
  <2>1. /\ sessions_' = [sessions_ EXCEPT ![r][f.sid].outbuf = TRUE]
        /\ thread' = [thread EXCEPT ![r] = u]
    BY <1>0, <1>6, Zenon DEF SendNext
  <2>2. /\ thread[r].at \in {"events", "sends"} /\ thread[r].at \in Backs
        /\ WakeEvent \notin thread[r].batch
    BY <1>0, Zenon DEF SendNext, InDrainSendQueue, At, EventOK, Backs
  <2>3. sessions_[r][f.sid].fd \in Fds
    BY <1>1, <1>6, Tables, Zenon
  <2>4. TakesUp(u, thread[r], "flush", f.sid, sessions_[r][f.sid].fd, thread[r].at, f.nid)
    <3>1. "flush" \in Labels /\ thread[r] \in Thread
      BY <1>0 DEF Labels
    <3> HIDE DEF f
    <3> QED
      BY <1>1, <2>2, <2>3, <3>1, TakenUp, Zenon DEF InHand
  <2> HIDE DEF u, f
  <2>5. ThreadStep(r) /\ thread'[r] = u
    BY <1>0, <2>1, <2>4, ThreadSet, Zenon DEF TakesUp
  <2>6. /\ sessions_' \in [Reactors -> [Sids -> Session \cup {NoSession}]]
        /\ SameSessions /\ Named'
    BY <1>1, <1>6, <2>1, OutbufSet, Zenon
  <2>7. HandOK(r)' /\ EventOK(r)'
    BY <1>1, <1>3, <1>6, <2>2, <2>4, <2>5, <2>6, TakeKeeps, ZenonT(40)
  <2> QED
    BY <1>3, <1>4, <2>5, <2>6, <2>7, LocalStep DEF accepting
<1> QED
  BY <1>5, <1>6

(***************************************************************************)
(* CloseSession removes the session's routes.                              *)
(***************************************************************************)
LEMMA CloseRemoveStep ==
  ASSUME IInv, NEW r \in Reactors, CloseRemove(r)
  PROVE  /\ IInv' /\ ThreadStep(r)
         /\ thread'[r].at = "closefd" /\ thread'[r].sid = thread[r].sid
<1>0. thread \in [Reactors -> Thread] /\ HandOK(r) /\ thread[r].at = "close"
  BY Zenon DEF IInv, TypeOK, HandsOK, CloseRemove, At
<1>1. /\ UNCHANGED <<running, accepting, queues, owned, history>>
      /\ fd_to_sid_' = fd_to_sid_ /\ sessions_' = sessions_
  BY Zenon DEF CloseRemove, owned
<1>2. thread[r].sid \in Sids /\ (Ref(r).authed => Ref(r).nid \in Nids)
  BY <1>0, InHandSession, Zenon DEF Holding
<1>3. RouterTypeOK'
  <2>1. RouterTypeOK
    BY DEF IInv, TypeOK
  <2>2. CASE Ref(r).authed
    BY <1>2, <2>1, <2>2, RouterTypes DEF CloseRemove
  <2>3. CASE ~Ref(r).authed
    BY <2>1, <2>3, RouterTypes, Zenon DEF CloseRemove
  <2> QED
    BY <2>2, <2>3
<1>4. RestOK' /\ SameSessions /\ Named'
  BY <1>1, <1>3, RestKept, Zenon DEF IInv, TypeOK, SameSessions, Named, owned, history
<1>5. /\ ThreadStep(r) /\ thread'[r].at = "closefd" /\ thread'[r].sid = thread[r].sid
      /\ thread'[r].fd = thread[r].fd /\ thread'[r].batch = thread[r].batch
      /\ thread'[r].back = thread[r].back
  BY <1>0, SMT DEF CloseRemove, Goto, ThreadStep, Thread
<1>6. HandOK(r)' /\ EventOK(r)'
  BY <1>0, <1>1, <1>4, <1>5, StayKeeps, Zenon DEF Holding, ThreadStep, HandOK
<1> QED
  BY <1>1, <1>4, <1>5, <1>6, LocalStep, Zenon DEF accepting, queues, owned

(***************************************************************************)
(* While the tables and the conn queues stay, a descriptor stays where it  *)
(* is, also when the listener is killed.                                   *)
(***************************************************************************)
LEMMA OwnedKept ==
  ASSUME Owned, UNCHANGED <<next_sid_, fdTable, connQueue, fd_to_sid_, sessions_>>,
         lsn' = lsn \/ lsn'.at = "killed"
  PROVE  Owned'
<1>1. SidsOnce /\ ListenerHolds /\ QueueHolds /\ TablesAgree /\ OneReactor
  BY Zenon DEF Owned
<1>2. SidsOnce'
  BY <1>1, Zenon DEF SidsOnce
<1>3. ListenerHolds'
  BY <1>1, Zenon DEF ListenerHolds, Fresh
<1>4. QueueHolds'
  BY <1>1 DEF QueueHolds, Fresh
<1>5. TablesAgree'
  BY <1>1 DEF TablesAgree, Live
<1>6. OneReactor'
  BY <1>1, Zenon DEF OneReactor
<1> QED
  BY <1>2, <1>3, <1>4, <1>5, <1>6, Zenon DEF Owned

(***************************************************************************)
(* A step that touches neither threads nor tables.                         *)
(***************************************************************************)
LEMMA OutsideStep ==
  ASSUME IInv, RestOK',
         UNCHANGED <<next_sid_, fdTable, lsn, connQueue, fd_to_sid_, sessions_, thread>>
  PROVE  IInv'
<1>1. TypeOK'
  BY Zenon DEF IInv, TypeOK, RestOK
<1>2. Owned'
  BY OwnedKept, Zenon DEF IInv
<1>3. HandsOK'
  BY Zenon DEF IInv, HandsOK, HandOK
<1>4. EventsOK'
  BY ZenonT(40) DEF IInv, EventsOK, EventOK, Events, HalfDone, At
<1>5. Named'
  BY Zenon DEF IInv, Named
<1> QED
  BY <1>1, <1>2, <1>3, <1>4, <1>5, Zenon DEF IInv

(***************************************************************************)
(* A frame is routed to this plane, a stop is requested, or the read loop  *)
(* goes on with an erased session.                                         *)
(***************************************************************************)
LEMMA OtherSteps ==
  ASSUME IInv,
         \/ \E n \in Nids : AsyncSend(n)
         \/ \E c \in Cmds : \E sub \in FindSubscribers(c) : PublishTo(c, sub)
         \/ RequestStop
         \/ \E r \in Reactors : DanglingRecv(r)
  PROVE  IInv'
<1>0. /\ RouterTypeOK /\ sendQueue \in [Reactors -> Seq(Frame)]
      /\ wakeup \in [Reactors -> BOOLEAN] /\ foreignReads \in SUBSET (Reactors \X Sids)
      /\ fdTable \in [Fds -> Sids \cup {NoSid}]
  BY Zenon DEF IInv, TypeOK
<1>1. ASSUME NEW rt, NEW n \in Nids, RouteFrame(rt, n), rt.sid \in Sids,
             rt.reactor_idx \in Reactors
      PROVE  IInv'
  <2> DEFINE q == rt.reactor_idx
             f == [sid |-> rt.sid, nid |-> n]
  <2>1. f \in Frame
    BY <1>1 DEF Frame
  <2>2. ASSUME NEW x \in Seq(Frame), NEW y \in Frame
        PROVE  Append(x, y) \in Seq(Frame)
    BY <2>2
  <2>3. sendQueue[q] \in Seq(Frame)
    BY <1>0, <1>1, Zenon
  <2>4. sendQueue' = [sendQueue EXCEPT ![q] = Append(sendQueue[q], f)]
    BY <1>0, <1>1, Zenon DEF RouteFrame
  <2> HIDE DEF f, q
  <2>5. sendQueue' \in [Reactors -> Seq(Frame)]
    BY <1>0, <2>1, <2>2, <2>3, <2>4, ZenonT(40)
  <2>6. wakeup' \in [Reactors -> BOOLEAN]
    BY <1>0, <1>1, ZenonT(40) DEF RouteFrame
  <2>7. RestOK'
    BY <1>1, <2>5, <2>6, ZenonT(40) DEF RouteFrame, IInv, TypeOK, RouterTypeOK, RestOK, routerVars,
                            accepting, owned, history
  <2> QED
    BY <1>1, <2>7, OutsideStep, Zenon DEF RouteFrame, accepting, owned
<1>2. ASSUME NEW n \in Nids, AsyncSend(n)
      PROVE  IInv'
  <2>1. nid_map_[n] \in NidRoute
    BY <1>0, <1>2 DEF AsyncSend, FindNidRoute, RouterTypeOK
  <2> QED
    BY <1>1, <1>2, <2>1, ZenonT(40) DEF AsyncSend, FindNidRoute, NidRoute
<1>3. ASSUME NEW c \in Cmds, NEW sub \in FindSubscribers(c), PublishTo(c, sub)
      PROVE  IInv'
  <2>1. sub \in Subscriber
    BY <1>0 DEF FindSubscribers, RouterTypeOK
  <2> QED
    BY <1>1, <1>3, <2>1 DEF PublishTo, Subscriber
<1>4. CASE RequestStop
  <2>1. RestOK'
    BY <1>4, ZenonT(40)
       DEF RequestStop, IInv, TypeOK, RouterTypeOK, RestOK, routerVars, accepting, queues,
                owned, history
  <2> QED
    BY <1>4, <2>1, OutsideStep, SMTT(30) DEF RequestStop, accepting, queues, owned
<1>5. ASSUME NEW r \in Reactors, DanglingRecv(r)
      PROVE  IInv'
  <2>1. thread[r].sid \in Sids /\ thread[r].fd \in Fds
    BY <1>5, ZenonT(40) DEF DanglingRecv, At, IInv, HandsOK, HandOK
  <2>2. RouterTypeOK'
    <3>1. CASE UNCHANGED routerVars
      BY <1>0, <3>1, RouterTypes, Zenon
    <3>2. CASE \E n \in Nids : BindNid(n, thread[r].sid, r)
      BY <1>0, <2>1, <3>2, RouterTypes, Zenon
    <3>3. ASSUME NEW c \in Cmds, NEW n \in Nids,
                 Subscribe(c, [sid |-> thread[r].sid, nid |-> n, reactor_idx |-> r])
          PROVE  RouterTypeOK'
      <4>1. [sid |-> thread[r].sid, nid |-> n, reactor_idx |-> r] \in Subscriber
        BY <2>1, Zenon DEF Subscriber
      <4> QED
        BY <1>0, <3>3, <4>1, RouterTypes, Zenon
    <3>4. CASE \E c \in Cmds : Unsubscribe(c, thread[r].sid)
      BY <1>0, <2>1, <3>4, RouterTypes, Zenon
    <3> QED
      BY <1>5, <3>1, <3>2, <3>3, <3>4, ZenonT(40) DEF DanglingRecv, Authenticate
  <2>3. foreignReads' \in SUBSET (Reactors \X Sids)
    BY <1>0, <1>5, <2>1, SMTT(30) DEF DanglingRecv
  <2>4. authedAs' \in [Sids -> SUBSET Nids] /\ lastAuth' \in [Nids -> Sids \cup {NoSid}]
    <3>1. authedAs \in [Sids -> SUBSET Nids] /\ lastAuth \in [Nids -> Sids \cup {NoSid}]
      BY Zenon DEF IInv, TypeOK
    <3>2. ASSUME NEW n \in Nids, Authenticate(r, n)
          PROVE  authedAs' \in [Sids -> SUBSET Nids] /\ lastAuth' \in [Nids -> Sids \cup {NoSid}]
      BY <2>1, <3>1, <3>2, ZenonT(40) DEF Authenticate
    <3> QED
      BY <1>5, <3>1, <3>2, ZenonT(40) DEF DanglingRecv
  <2>5. RestOK'
    BY <1>5, <2>2, <2>3, <2>4, ZenonT(40) DEF DanglingRecv, IInv, TypeOK, RestOK, accepting, queues,
                                              owned
  <2> QED
    BY <1>5, <2>5, OutsideStep, Zenon DEF DanglingRecv, accepting, queues, owned
<1> QED
  BY <1>2, <1>3, <1>4, <1>5

(***************************************************************************)
(* The wakeup is drained.                                                  *)
(***************************************************************************)
LEMMA WakeupStep ==
  ASSUME IInv, NEW r \in Reactors, HandleWakeup(r)
  PROVE  IInv' /\ ThreadStep(r) /\ thread'[r].at = "conns"
<1> DEFINE b == thread[r].batch \ {WakeEvent}
           t == [thread[r] EXCEPT !.at = "conns", !.batch = b]
<1>0. /\ thread \in [Reactors -> Thread] /\ EventOK(r)
      /\ thread[r].at = "events" /\ WakeEvent \in thread[r].batch
      /\ \A e \in thread[r].batch : e.kind # "rest"
  BY DEF IInv, TypeOK, EventsOK, HandleWakeup, At, HalfDone
<1>1. b \in SUBSET (Event \cup {WakeEvent})
  BY <1>0 DEF Thread
<1>2. thread' = [thread EXCEPT ![r] = t]
  BY <1>0, Zenon DEF HandleWakeup
<1> HIDE DEF b
<1>3. t \in Thread
  BY <1>0, <1>1, ZenonT(120) DEF Thread
<1>4. t.at = "conns" /\ t.batch = b
  BY <1>0, Zenon DEF Thread
<1> HIDE DEF t
<1>5. ThreadStep(r) /\ thread'[r] = t
  BY <1>0, <1>2, <1>3, ThreadSet, ZenonT(40)
<1>6. /\ UNCHANGED <<routerVars, running, accepting, connQueue, sendQueue, owned, history>>
      /\ fd_to_sid_' = fd_to_sid_ /\ sessions_' = sessions_
  BY DEF HandleWakeup, owned
<1>7. RestOK' /\ SameSessions /\ Named'
  <2>1. wakeup' \in [Reactors -> BOOLEAN]
    BY DEF HandleWakeup, IInv, TypeOK
  <2> QED
    BY <1>6, <2>1, Zenon DEF IInv, TypeOK, RouterTypeOK, RestOK, SameSessions, Named, routerVars,
                      accepting, history
<1>8. HandOK(r)'
  BY <1>4, <1>5, Zenon DEF HandOK, Holding
<1>9. EventOK(r)'
  BY <1>0, <1>4, <1>5, <1>6, Zenon DEF EventOK, At, Holding, Events, HalfDone, b
<1> QED
  BY <1>4, <1>5, <1>6, <1>7, <1>8, <1>9, LocalStep, ZenonT(40) DEF accepting

(***************************************************************************)
(* SIGPIPE ends the process.                                               *)
(***************************************************************************)
LEMMA SigpipeStep ==
  ASSUME IInv, NEW r \in Reactors, FlushSigpipe(r)
  PROVE  IInv' /\ ~up'
<1>0. thread \in [Reactors -> Thread]
  BY DEF IInv, TypeOK
<1>1. /\ UNCHANGED <<routerVars, running, next_sid_, fdTable, queues, owned, history>>
      /\ connQueue' = connQueue /\ fd_to_sid_' = fd_to_sid_ /\ sessions_' = sessions_
  BY DEF FlushSigpipe, queues, owned
<1>2. /\ thread' \in [Reactors -> Thread]
      /\ \A q \in Reactors : thread'[q].at = "killed" /\ thread'[q].batch = thread[q].batch
  <2>1. ASSUME NEW t \in Thread, NEW u, u = [t EXCEPT !.at = "killed"]
        PROVE  u \in Thread /\ u.at = "killed" /\ u.batch = t.batch
    BY <2>1, Zenon DEF Thread
  <2>2. thread' = [q \in Reactors |-> [thread[q] EXCEPT !.at = "killed"]]
    BY Zenon DEF FlushSigpipe
  <2> QED
    BY <1>0, <2>1, <2>2, Zenon
<1>3. /\ lsn'.at = "killed"
      /\ lsn' \in [at : {"accept", "push", "notify", "done", "killed"}, fd : Fds \cup {NoFd},
                   sid : Sids \cup {NoSid}, reactor_idx : Reactors \cup {NoFd}]
  BY ZenonT(40) DEF FlushSigpipe, IInv, TypeOK
<1>4. TypeOK'
  BY <1>1, <1>2, <1>3, Zenon DEF IInv, TypeOK, RouterTypeOK, routerVars, queues, owned, history
<1>5. Owned'
  BY <1>1, <1>3, OwnedKept, Zenon DEF IInv
<1>6. HandsOK' /\ Named'
  BY <1>1, <1>2, ZenonT(40) DEF IInv, HandsOK, HandOK, Holding, Named
<1>7. EventsOK'
  BY <1>1, <1>2, ZenonT(40) DEF IInv, EventsOK, EventOK, At, Holding, Events
<1> QED
  BY <1>3, <1>4, <1>5, <1>6, <1>7 DEF IInv, up

=============================================================================
