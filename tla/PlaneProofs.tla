---------------------------- MODULE PlaneProofs -----------------------------
(***************************************************************************)
(* Who owns a connection, continued: the steps that change the owner, and  *)
(* what follows for the session tables, the epoll events and the wakeups.  *)
(***************************************************************************)
EXTENDS PlaneStepProofs

-----------------------------------------------------------------------------
(* The steps that change who owns a connection                              *)

(***************************************************************************)
(* A session id is not NoSid.                                              *)
(***************************************************************************)
LEMMA SidsArePositive == \A s \in Sids : s # NoSid /\ s \in Nat
BY RouterAssumption DEF Sids, NoSid

(***************************************************************************)
(* The connections in a conn queue.                                        *)
(***************************************************************************)
LEMMA QueuedConnections ==
  ASSUME IInv, NEW q \in Reactors
  PROVE  /\ connQueue[q] \in Seq(NewConnection)
         /\ \A i \in 1 .. Len(connQueue[q]) :
              /\ connQueue[q][i] \in NewConnection
              /\ connQueue[q][i].fd \in Fds /\ connQueue[q][i].sid \in Sids
              /\ Fresh(connQueue[q][i].fd, connQueue[q][i].sid)
<1>1. connQueue[q] \in Seq(NewConnection)
  BY DEF IInv, TypeOK
<1>2. \A i \in 1 .. Len(connQueue[q]) : connQueue[q][i] \in NewConnection
  BY <1>1
<1>3. \A c \in NewConnection : c.fd \in Fds /\ c.sid \in Sids
  BY DEF NewConnection
<1> QED
  BY <1>1, <1>2, <1>3, Zenon DEF IInv, Owned, QueueHolds

(***************************************************************************)
(* A queued connection belongs to no reactor as long as nothing happens to *)
(* its descriptor.                                                         *)
(***************************************************************************)
LEMMA QueueStays ==
  ASSUME QueueHolds, connQueue' = connQueue,
         \A q \in Reactors : \A i \in 1 .. Len(connQueue[q]) :
           /\ fdTable'[connQueue[q][i].fd] = connQueue[q][i].sid
           /\ \A p \in Reactors : fd_to_sid_'[p][connQueue[q][i].fd] = NoSid
  PROVE  QueueHolds'
BY SMTT(30) DEF QueueHolds, Fresh

(***************************************************************************)
(* A new connection is registered.                                         *)
(***************************************************************************)
LEMMA RegisterStep ==
  ASSUME IInv, NEW r \in Reactors, TakeConnection(r)
  PROVE  IInv'
<1> DEFINE conn == Head(connQueue[r])
           x == [fd |-> conn.fd, authed |-> FALSE, nid |-> NoNid, outbuf |-> FALSE]
<1>0. /\ thread[r].at = "conns" /\ connQueue[r] # << >>
      /\ UNCHANGED <<routerVars, running, accepting, wakeup, sendQueue, history, thread>>
      /\ UNCHANGED <<next_sid_, fdTable, lsn>>
      /\ fd_to_sid_ \in [Reactors -> [Fds -> Sids \cup {NoSid}]]
      /\ sessions_ \in [Reactors -> [Sids -> Session \cup {NoSession}]]
      /\ connQueue \in [Reactors -> Seq(NewConnection)]
      /\ EventOK(r)
  BY Zenon DEF TakeConnection, Register, At, IInv, TypeOK, accepting, EventsOK
<1>1. /\ connQueue[r] \in Seq(NewConnection) /\ Len(connQueue[r]) \in Nat
      /\ 1 \in 1 .. Len(connQueue[r]) /\ conn = connQueue[r][1]
      /\ Tail(connQueue[r]) \in Seq(NewConnection)
      /\ Len(Tail(connQueue[r])) = Len(connQueue[r]) - 1
      /\ \A i \in 1 .. Len(connQueue[r]) - 1 : Tail(connQueue[r])[i] = connQueue[r][i + 1]
  <2>1. ASSUME NEW Q \in Seq(NewConnection), Q # << >>
        PROVE  /\ Len(Q) \in Nat /\ 1 \in 1 .. Len(Q) /\ Head(Q) = Q[1]
               /\ Tail(Q) \in Seq(NewConnection) /\ Len(Tail(Q)) = Len(Q) - 1
               /\ \A i \in 1 .. Len(Q) - 1 : Tail(Q)[i] = Q[i + 1]
    BY <2>1
  <2> QED
    BY <1>0, <2>1, Zenon
<1>2. /\ conn.fd \in Fds /\ conn.sid \in Sids /\ Fresh(conn.fd, conn.sid)
  BY <1>1, QueuedConnections, Zenon
<1>3. /\ fd_to_sid_' = [fd_to_sid_ EXCEPT ![r][conn.fd] = conn.sid]
      /\ sessions_' = [sessions_ EXCEPT ![r][conn.sid] = x]
      /\ connQueue' = [connQueue EXCEPT ![r] = Tail(connQueue[r])]
  BY Zenon DEF TakeConnection, Register
<1>4. x \in Session /\ x # NoSession /\ x.fd = conn.fd /\ ~x.authed
  <2>1. ASSUME NEW fd \in Fds, NEW y,
               y = [fd |-> fd, authed |-> FALSE, nid |-> NoNid, outbuf |-> FALSE]
        PROVE  y \in Session /\ y.fd = fd /\ ~y.authed
    BY <2>1, SMT DEF Session
  <2>2. x \in Session /\ x.fd = conn.fd /\ ~x.authed
    BY <1>2, <2>1, Zenon
  <2> QED
    BY <2>2, PlaneAssumption, Zenon
<1> HIDE DEF conn, x
<1>5. /\ fd_to_sid_' \in [Reactors -> [Fds -> Sids \cup {NoSid}]]
      /\ fd_to_sid_'[r][conn.fd] = conn.sid
      /\ \A q \in Reactors, fd \in Fds :
           (q = r /\ fd = conn.fd) \/ fd_to_sid_'[q][fd] = fd_to_sid_[q][fd]
  BY <1>0, <1>2, <1>3, Zenon
<1>6. /\ sessions_' \in [Reactors -> [Sids -> Session \cup {NoSession}]]
      /\ sessions_'[r][conn.sid] = x
      /\ \A q \in Reactors, s \in Sids :
           (q = r /\ s = conn.sid) \/ sessions_'[q][s] = sessions_[q][s]
  BY <1>0, <1>2, <1>3, <1>4, Zenon
<1>7. /\ connQueue' \in [Reactors -> Seq(NewConnection)]
      /\ connQueue'[r] = Tail(connQueue[r])
      /\ \A q \in Reactors : q = r \/ connQueue'[q] = connQueue[q]
  BY <1>0, <1>1, <1>3, Zenon
<1>8. TypeOK'
  BY <1>0, <1>5, <1>6, <1>7, Zenon DEF IInv, TypeOK, RouterTypeOK, routerVars, accepting, history
<1>9. \A q \in Reactors : fd_to_sid_[q][conn.fd] = NoSid
  BY <1>2 DEF Fresh
<1>10. \A q \in Reactors : \A i \in 1 .. Len(connQueue'[q]) :
         \E j \in 1 .. Len(connQueue[q]) :
           /\ j = IF q = r THEN i + 1 ELSE i
           /\ connQueue'[q][i] = connQueue[q][j]
  <2>1. ASSUME NEW i \in 1 .. Len(connQueue'[r])
        PROVE  i + 1 \in 1 .. Len(connQueue[r]) /\ connQueue'[r][i] = connQueue[r][i + 1]
    BY <1>1, <1>7, SMT
  <2> SUFFICES ASSUME NEW q \in Reactors, NEW i \in 1 .. Len(connQueue'[q])
               PROVE  \E j \in 1 .. Len(connQueue[q]) :
                        /\ j = IF q = r THEN i + 1 ELSE i
                        /\ connQueue'[q][i] = connQueue[q][j]
    BY Zenon
  <2>2. CASE q = r
    BY <2>1, <2>2
  <2>3. CASE q # r
    BY <1>7, <2>3, Zenon
  <2> QED
    BY <2>2, <2>3, Zenon
<1>11. SidsOnce'
  BY <1>0, Zenon DEF IInv, Owned, SidsOnce
<1>12. OneReactor'
  <2>1. OneReactor
    BY Zenon DEF IInv, Owned
  <2> QED
    BY <1>2, <1>5, <1>9, <2>1 DEF OneReactor
<1>13. \A fd \in Fds, s \in Sids : Fresh(fd, s) /\ fd # conn.fd => Fresh(fd, s)'
  BY <1>0, <1>5, Zenon DEF Fresh
<1>14. ListenerHolds'
  <2>1. SUFFICES ASSUME lsn.at = "push"
                 PROVE  ListenerHolds'
    BY <1>0, Zenon DEF ListenerHolds
  <2>2. /\ lsn.fd \in Fds /\ lsn.sid \in Sids /\ lsn.reactor_idx \in Reactors
        /\ Fresh(lsn.fd, lsn.sid)
        /\ \A q \in Reactors : \A i \in 1 .. Len(connQueue[q]) : connQueue[q][i].fd # lsn.fd
    BY <2>1, Zenon DEF IInv, Owned, ListenerHolds
  <2>3. conn.fd # lsn.fd
    BY <1>1, <2>2, Zenon
  <2>4. Fresh(lsn.fd, lsn.sid)'
    BY <1>0, <1>13, <2>2, <2>3, Zenon DEF Fresh
  <2>5. \A q \in Reactors : \A i \in 1 .. Len(connQueue'[q]) : connQueue'[q][i].fd # lsn'.fd
    BY <1>0, <1>10, <2>2, ZenonT(40)
  <2> QED
    BY <1>0, <2>2, <2>4, <2>5, Zenon DEF ListenerHolds
<1>15. QueueHolds'
  <2>1. \A p, q \in Reactors : \A i \in 1 .. Len(connQueue[p]), j \in 1 .. Len(connQueue[q]) :
          connQueue[p][i].fd = connQueue[q][j].fd => p = q /\ i = j
    BY Zenon DEF IInv, Owned, QueueHolds
  <2>2. \A q \in Reactors : \A i \in 1 .. Len(connQueue'[q]) : connQueue'[q][i].fd # conn.fd
    <3> SUFFICES ASSUME NEW q \in Reactors, NEW i \in 1 .. Len(connQueue'[q]),
                        connQueue'[q][i].fd = conn.fd
                 PROVE  FALSE
      OBVIOUS
    <3>1. PICK j \in 1 .. Len(connQueue[q]) :
            j = (IF q = r THEN i + 1 ELSE i) /\ connQueue'[q][i] = connQueue[q][j]
      BY <1>10, Zenon
    <3>2. q = r /\ j = 1
      <4>1. connQueue[q][j].fd = connQueue[r][1].fd /\ 1 \in 1 .. Len(connQueue[r])
        BY <1>1, <3>1, Zenon
      <4> QED
        BY <2>1, <4>1
    <3> QED
      BY <3>1, <3>2
  <2>3. \A q \in Reactors : \A i \in 1 .. Len(connQueue'[q]) :
          Fresh(connQueue[q][i].fd, connQueue[q][i].sid)'
    <3> SUFFICES ASSUME NEW q \in Reactors, NEW i \in 1 .. Len(connQueue'[q])
                 PROVE  Fresh(connQueue[q][i].fd, connQueue[q][i].sid)'
      BY Zenon
    <3>1. PICK j \in 1 .. Len(connQueue[q]) : connQueue'[q][i] = connQueue[q][j]
      BY <1>10, Zenon
    <3>2. /\ connQueue[q][j].fd \in Fds /\ connQueue[q][j].sid \in Sids
          /\ Fresh(connQueue[q][j].fd, connQueue[q][j].sid)
      BY QueuedConnections, Zenon
    <3>3. connQueue[q][j].fd # conn.fd
      BY <2>2, <3>1, Zenon
    <3>4. /\ fdTable'[connQueue[q][j].fd] = connQueue[q][j].sid
          /\ \A p \in Reactors : fd_to_sid_'[p][connQueue[q][j].fd] = NoSid
      BY <1>0, <1>5, <3>2, <3>3, Zenon DEF Fresh
    <3> QED
      BY <3>1, <3>4, Zenon DEF Fresh
  <2>4. \A p, q \in Reactors :
          \A i \in 1 .. Len(connQueue'[p]), j \in 1 .. Len(connQueue'[q]) :
            connQueue'[p][i].fd = connQueue'[q][j].fd => p = q /\ i = j
    <3> SUFFICES ASSUME NEW p \in Reactors, NEW q \in Reactors,
                        NEW i \in 1 .. Len(connQueue'[p]), NEW j \in 1 .. Len(connQueue'[q]),
                        connQueue'[p][i].fd = connQueue'[q][j].fd
                 PROVE  p = q /\ i = j
      BY Zenon
    <3>1. PICK k \in 1 .. Len(connQueue[p]) :
            k = (IF p = r THEN i + 1 ELSE i) /\ connQueue'[p][i] = connQueue[p][k]
      BY <1>10, Zenon
    <3>2. PICK l \in 1 .. Len(connQueue[q]) :
            l = (IF q = r THEN j + 1 ELSE j) /\ connQueue'[q][j] = connQueue[q][l]
      BY <1>10, Zenon
    <3>3. p = q /\ k = l
      <4>1. connQueue[p][k].fd = connQueue[q][l].fd
        BY <3>1, <3>2, Zenon
      <4> QED
        BY <2>1, <4>1, SMTT(30)
    <3> QED
      BY <3>1, <3>2, <3>3
  <2> QED
    BY <2>3, <2>4, Zenon DEF QueueHolds
<1>16. TablesAgree'
  <2>1. \A q \in Reactors, fd \in Fds : LET s == fd_to_sid_'[q][fd] IN
          s # NoSid => /\ sessions_'[q][s] # NoSession
                       /\ sessions_'[q][s].fd = fd
                       /\ fdTable'[fd] = s
    <3> SUFFICES ASSUME NEW q \in Reactors, NEW fd \in Fds, fd_to_sid_'[q][fd] # NoSid
                 PROVE  /\ sessions_'[q][fd_to_sid_'[q][fd]] # NoSession
                        /\ sessions_'[q][fd_to_sid_'[q][fd]].fd = fd
                        /\ fdTable'[fd] = fd_to_sid_'[q][fd]
      BY Zenon
    <3>1. CASE q = r /\ fd = conn.fd
      BY <1>0, <1>2, <1>4, <1>5, <1>6, <3>1, Zenon DEF Fresh
    <3>2. CASE ~(q = r /\ fd = conn.fd)
      <4> DEFINE s == fd_to_sid_[q][fd]
      <4>1. fd_to_sid_'[q][fd] = s /\ s # NoSid
        BY <1>5, <3>2, Zenon
      <4>2. /\ s \in Sids /\ sessions_[q][s] # NoSession /\ sessions_[q][s].fd = fd
            /\ fdTable[fd] = s
        BY <4>1, Tables, Zenon
      <4>3. ~(q = r /\ s = conn.sid)
        <5> HIDE DEF s
        <5>1. fdTable[conn.fd] = conn.sid /\ conn.sid # NoSid
          BY <1>2, SidsArePositive, Zenon DEF Fresh
        <5>2. s = conn.sid => fd = conn.fd
          BY <1>2, <4>2, <5>1, Zenon DEF IInv, Owned, SidsOnce
        <5> QED
          BY <3>2, <5>2, Zenon
      <4>4. sessions_'[q][s] = sessions_[q][s]
        BY <1>6, <4>2, <4>3, Zenon
      <4> QED
        BY <1>0, <4>1, <4>2, <4>4, Zenon
    <3> QED
      BY <3>1, <3>2, Zenon
  <2>2. \A q \in Reactors, s \in Sids :
          sessions_'[q][s] # NoSession => fd_to_sid_'[q][sessions_'[q][s].fd] = s
    <3> SUFFICES ASSUME NEW q \in Reactors, NEW s \in Sids, sessions_'[q][s] # NoSession
                 PROVE  fd_to_sid_'[q][sessions_'[q][s].fd] = s
      BY Zenon
    <3>1. CASE q = r /\ s = conn.sid
      BY <1>4, <1>5, <1>6, <3>1, Zenon
    <3>2. CASE ~(q = r /\ s = conn.sid)
      <4>1. sessions_'[q][s] = sessions_[q][s]
        BY <1>6, <3>2, Zenon
      <4>2. /\ sessions_[q][s].fd \in Fds
            /\ fd_to_sid_[q][sessions_[q][s].fd] = s
        BY <4>1, Tables, Zenon
      <4>3. sessions_[q][s].fd # conn.fd
        BY <1>9, <4>2, SidsArePositive, Zenon
      <4> QED
        BY <1>5, <4>1, <4>2, <4>3, Zenon
    <3> QED
      BY <3>1, <3>2, Zenon
  <2> QED
    BY <2>1, <2>2, Zenon DEF TablesAgree, Live
<1>17. HandsOK'
  <2>1. HandOK(r)'
    BY <1>0, Zenon DEF HandOK, Holding
  <2>2. \A q \in Reactors \ {r} : HandOK(q)'
    BY <1>0, <1>6 DEF IInv, HandsOK, HandOK, Holding
  <2> QED
    BY <2>1, <2>2, Zenon DEF HandsOK
<1>18. EventsOK'
  <2>1. \A e \in Events(r) : e.kind = "rest" \/ fd_to_sid_[r][e.fd] = e.sid
    BY <1>0, Zenon DEF EventOK, At
  <2>2. thread[r].batch \subseteq Event \cup {WakeEvent}
    BY Zenon DEF IInv, TypeOK, Thread
  <2>3. \A e \in Events(r) : e.fd \in Fds /\ e.sid \in Sids /\ e.kind # "rest"
    BY <1>0, <2>2, Zenon DEF EventOK, At, HalfDone, Events, Event
  <2>4. ASSUME NEW e \in Events(r)
        PROVE  fd_to_sid_'[r][e.fd] = fd_to_sid_[r][e.fd]
    <3>1. e.fd \in Fds /\ fd_to_sid_[r][e.fd] # NoSid
      BY <2>1, <2>3, SidsArePositive, Zenon
    <3>2. e.fd # conn.fd
      BY <1>9, <3>1, Zenon
    <3> QED
      BY <1>5, <3>1, <3>2, Zenon
  <2>5. EventOK(r)'
    BY <1>0, <2>4, Zenon DEF EventOK, At, HalfDone, Events
  <2>6. \A q \in Reactors \ {r} : \A e \in Events(q) : fd_to_sid_'[q][e.fd] = fd_to_sid_[q][e.fd]
    <3>1. \A q \in Reactors : \A e \in Events(q) : e.fd \in Fds
      BY Zenon DEF IInv, TypeOK, Thread, Events, Event
    <3> QED
      BY <1>5, <3>1, Zenon
  <2>7. \A q \in Reactors \ {r} : EventOK(q)'
    <3>1. \A q \in Reactors \ {r} : EventOK(q)
      BY DEF IInv, EventsOK
    <3> QED
      BY <1>0, <2>6, <3>1 DEF EventOK, At, HalfDone, Events
  <2> QED
    BY <2>5, <2>7, Zenon DEF EventsOK
<1>19. Named'
  BY <1>4, <1>6, Zenon DEF IInv, Named
<1> QED
  BY <1>8, <1>11, <1>12, <1>14, <1>15, <1>16, <1>17, <1>18, <1>19, Zenon DEF IInv, Owned

(***************************************************************************)
(* A session is erased and its descriptor closed.                          *)
(***************************************************************************)
LEMMA EraseStep ==
  ASSUME IInv, NEW r \in Reactors, CloseErase(r)
  PROVE  IInv' /\ ThreadStep(r) /\ thread'[r].at \in {"dangling", "events", "sends", "exit"}
<1> DEFINE fd == thread[r].fd
           sid == thread[r].sid
<1>0. /\ thread \in [Reactors -> Thread] /\ HandOK(r) /\ EventOK(r)
      /\ thread[r].at = "closefd" /\ thread[r] \in Thread
      /\ fdTable \in [Fds -> Sids \cup {NoSid}]
      /\ fd_to_sid_ \in [Reactors -> [Fds -> Sids \cup {NoSid}]]
      /\ sessions_ \in [Reactors -> [Sids -> Session \cup {NoSession}]]
  BY Zenon DEF IInv, TypeOK, HandsOK, EventsOK, CloseErase, At
<1>1. UNCHANGED <<routerVars, running, next_sid_, lsn, queues, connQueue, history>>
  BY Zenon DEF CloseErase, queues
<1>2. sid \in Sids /\ sessions_[r][sid] # NoSession /\ sessions_[r][sid].fd = fd
  BY <1>0, Zenon DEF HandOK, Holding
<1>3. fd \in Fds /\ fd_to_sid_[r][fd] = sid /\ sid # NoSid
  <2>1. \A s \in Sids : sessions_[r][s] # NoSession =>
          sessions_[r][s].fd \in Fds /\ fd_to_sid_[r][sessions_[r][s].fd] = s
    BY Tables, Zenon
  <2> QED
    BY <1>2, <2>1, SidsArePositive, Zenon
<1>4. /\ fdTable' = [fdTable EXCEPT ![fd] = NoSid]
      /\ fd_to_sid_' = [fd_to_sid_ EXCEPT ![r][fd] = NoSid]
      /\ sessions_' = [sessions_ EXCEPT ![r][sid] = NoSession]
  BY Zenon DEF CloseErase, EraseTables
<1>5. /\ ThreadStep(r) /\ thread'[r].at \in {"dangling", "events", "sends", "exit"}
      /\ thread'[r].batch = thread[r].batch
      /\ thread'[r].at = "dangling" => thread'[r].sid = sid /\ thread'[r].fd = fd
      /\ thread'[r].at = "exit" => thread[r].batch = {}
      /\ thread'[r].at = "sends" => WakeEvent \notin thread[r].batch
  <2>1. CASE thread[r].back = "dangling"
    <3> DEFINE t == [thread[r] EXCEPT !.at = "dangling", !.back = "none"]
    <3>1. thread' = [thread EXCEPT ![r] = t]
      <4>1. thread' = [thread EXCEPT ![r].at = "dangling", ![r].back = "none"]
        BY <2>1, Zenon DEF CloseErase
      <4> QED
        BY <1>0, <4>1, Zenon
    <3>2. MovedTo(t, thread[r], "dangling", "none")
      <4>1. "dangling" \in Labels /\ "none" \in Backs
        BY DEF Labels, Backs
      <4> QED
        BY <1>0, <4>1, ThreadMoved, Zenon
    <3> HIDE DEF t
    <3>3. ThreadStep(r) /\ thread'[r] = t
      BY <1>0, <3>1, <3>2, ThreadSet, Zenon DEF MovedTo
    <3> QED
      BY <3>2, <3>3, Zenon DEF MovedTo
  <2>2. CASE thread[r].back # "dangling"
    <3>1. Leave(r, thread[r].back)
      BY <2>2 DEF CloseErase
    <3>2. thread[r].back \in {"events", "sends", "exit"}
      BY <1>0, <2>2, Zenon DEF HandOK, Thread
    <3>3. /\ thread[r].back = "exit" => thread[r].batch = {}
          /\ thread[r].back = "sends" => WakeEvent \notin thread[r].batch
      BY <1>0, Zenon DEF HandOK, EventOK, Holding
    <3> QED
      BY <1>0, <3>1, <3>2, <3>3, LeaveSets, Zenon
  <2> QED
    BY <2>1, <2>2, Zenon
<1> HIDE DEF fd, sid
<1>6. /\ fdTable' \in [Fds -> Sids \cup {NoSid}] /\ fdTable'[fd] = NoSid
      /\ \A fe \in Fds : fe = fd \/ fdTable'[fe] = fdTable[fe]
  BY <1>0, <1>3, <1>4, Zenon
<1>7. /\ fd_to_sid_' \in [Reactors -> [Fds -> Sids \cup {NoSid}]] /\ fd_to_sid_'[r][fd] = NoSid
      /\ \A q \in Reactors, fe \in Fds :
           (q = r /\ fe = fd) \/ fd_to_sid_'[q][fe] = fd_to_sid_[q][fe]
  BY <1>0, <1>3, <1>4, Zenon
<1>8. /\ sessions_' \in [Reactors -> [Sids -> Session \cup {NoSession}]]
      /\ sessions_'[r][sid] = NoSession
      /\ \A q \in Reactors, s \in Sids :
           (q = r /\ s = sid) \/ sessions_'[q][s] = sessions_[q][s]
  BY <1>0, <1>2, <1>4, Zenon
<1>9. \A q \in Reactors : fd_to_sid_'[q][fd] = NoSid
  <2>1. \A q \in Reactors : q = r \/ fd_to_sid_[q][fd] = NoSid
    BY <1>3, Zenon DEF IInv, Owned, OneReactor
  <2> QED
    BY <1>3, <1>7, <2>1, Zenon
<1>10. TypeOK'
  BY <1>1, <1>5, <1>6, <1>7, <1>8, Zenon
     DEF IInv, TypeOK, RouterTypeOK, routerVars, queues, history,
                                      ThreadStep
<1>11. SidsOnce'
  <2>1. next_sid_ \in Nat /\ NoSid < next_sid_
    BY RouterAssumption DEF IInv, TypeOK, NoSid
  <2>2. SidsOnce
    BY DEF IInv, Owned
  <2>3. \A fe \in Fds : fdTable'[fe] < next_sid_'
    BY <1>1, <1>6, <2>1, <2>2 DEF SidsOnce
  <2>4. \A fe, ff \in Fds : fdTable'[fe] = fdTable'[ff] /\ fdTable'[fe] # NoSid => fe = ff
    BY <1>6, <2>2 DEF SidsOnce
  <2> QED
    BY <2>3, <2>4 DEF SidsOnce
<1>12. OneReactor'
  <2>1. OneReactor
    BY DEF IInv, Owned
  <2> QED
    BY <1>3, <1>7, <1>9, <2>1 DEF OneReactor
<1>13. ASSUME NEW fe \in Fds, NEW s \in Sids, Fresh(fe, s)
       PROVE  fdTable'[fe] = s /\ \A q \in Reactors : fd_to_sid_'[q][fe] = NoSid
  BY <1>3, <1>6, <1>7, <1>13, Zenon DEF Fresh
<1>14. ListenerHolds'
  <2>1. SUFFICES ASSUME lsn.at = "push"
                 PROVE  ListenerHolds'
    BY <1>1 DEF ListenerHolds
  <2>2. /\ lsn.fd \in Fds /\ lsn.sid \in Sids /\ lsn.reactor_idx \in Reactors
        /\ Fresh(lsn.fd, lsn.sid)
        /\ \A q \in Reactors : \A i \in 1 .. Len(connQueue[q]) : connQueue[q][i].fd # lsn.fd
    BY <2>1 DEF IInv, Owned, ListenerHolds
  <2> QED
    BY <1>1, <1>13, <2>2 DEF ListenerHolds, Fresh
<1>15. QueueHolds'
  <2>1. \A q \in Reactors : \A i \in 1 .. Len(connQueue[q]) :
          /\ fdTable'[connQueue[q][i].fd] = connQueue[q][i].sid
          /\ \A p \in Reactors : fd_to_sid_'[p][connQueue[q][i].fd] = NoSid
    BY <1>13, QueuedConnections, ZenonT(120)
  <2>2. QueueHolds
    BY DEF IInv, Owned
  <2> QED
    BY <1>1, <2>1, <2>2, QueueStays, Zenon
<1>16. TablesAgree'
  <2>1. ASSUME NEW q \in Reactors, NEW fe \in Fds, fd_to_sid_'[q][fe] # NoSid
        PROVE  /\ sessions_'[q][fd_to_sid_'[q][fe]] # NoSession
               /\ sessions_'[q][fd_to_sid_'[q][fe]].fd = fe
               /\ fdTable'[fe] = fd_to_sid_'[q][fe]
    <3> DEFINE s == fd_to_sid_[q][fe]
    <3>1. fe # fd /\ fd_to_sid_'[q][fe] = s /\ s # NoSid
      <4>1. fe # fd
        BY <1>9, <2>1
      <4> QED
        BY <1>7, <2>1, <4>1
    <3>2. /\ s \in Sids /\ sessions_[q][s] # NoSession /\ sessions_[q][s].fd = fe
          /\ fdTable[fe] = s
      BY <3>1, Tables, Zenon
    <3>3. ~(q = r /\ s = sid)
      BY <1>2, <3>1, <3>2, Zenon
    <3>4. sessions_'[q][s] = sessions_[q][s] /\ fdTable'[fe] = s
      BY <1>6, <1>8, <3>1, <3>2, <3>3, Zenon
    <3> QED
      BY <3>1, <3>2, <3>4, Zenon
  <2>2. ASSUME NEW q \in Reactors, NEW s \in Sids, sessions_'[q][s] # NoSession
        PROVE  fd_to_sid_'[q][sessions_'[q][s].fd] = s
    <3>1. ~(q = r /\ s = sid) /\ sessions_'[q][s] = sessions_[q][s]
      BY <1>8, <2>2, Zenon
    <3>2. sessions_[q][s].fd \in Fds /\ fd_to_sid_[q][sessions_[q][s].fd] = s
      BY <2>2, <3>1, Tables, Zenon
    <3>3. ~(q = r /\ sessions_[q][s].fd = fd)
      BY <1>3, <3>1, <3>2, ZenonT(40)
    <3> QED
      BY <1>7, <3>1, <3>2, <3>3, Zenon
  <2> QED
    BY <2>1, <2>2, Zenon DEF TablesAgree, Live
<1>17. HandsOK'
  <2>1. HandOK(r)'
    BY <1>2, <1>3, <1>5, Zenon DEF HandOK, Holding
  <2>2. \A q \in Reactors \ {r} : HandOK(q)'
    BY <1>5, <1>8 DEF IInv, HandsOK, HandOK, Holding, ThreadStep
  <2> QED
    BY <2>1, <2>2 DEF HandsOK
<1>18. EventsOK'
  <2>0. \A q \in Reactors : \A e \in Events(q) : e.fd \in Fds
    BY DEF IInv, TypeOK, Thread, Events, Event
  <2>1. Events(r)' = Events(r) /\ thread'[r].at \notin Holding /\ thread'[r].at # "conns"
    BY <1>5, Zenon DEF Events, Holding
  <2>2. \A e \in Events(r) : fd_to_sid_'[r][e.fd] \in {NoSid, e.sid}
    BY <1>0, <1>7, <2>0, Zenon DEF EventOK
  <2>3. WakeEvent \in thread[r].batch =>
          \A e \in Events(r) : e.kind = "rest" \/ fd_to_sid_'[r][e.fd] = e.sid
    <3>1. WakeEvent \in thread[r].batch => \A e \in Events(r) : e.kind = "rest" \/ e.fd # fd
      BY <1>0, Zenon DEF EventOK, Holding, fd
    <3> QED
      BY <1>0, <1>7, <2>0, <3>1, ZenonT(40) DEF EventOK
  <2>4. EventOK(r)'
    BY <1>0, <1>5, <2>1, <2>2, <2>3, ZenonT(40) DEF EventOK, At
  <2>5. \A q \in Reactors \ {r} : \A e \in Events(q) : fd_to_sid_'[q][e.fd] = fd_to_sid_[q][e.fd]
    BY <1>7, <2>0, ZenonT(40)
  <2>6. \A q \in Reactors \ {r} : EventOK(q)'
    BY <1>5, <2>5 DEF IInv, EventsOK, EventOK, At, HalfDone, Events, ThreadStep
  <2> QED
    BY <2>4, <2>6, Zenon DEF EventsOK
<1>19. Named'
  BY <1>8 DEF IInv, Named
<1> QED
  BY <1>5, <1>10, <1>11, <1>12, <1>14, <1>15, <1>16, <1>17, <1>18, <1>19, ZenonT(40) DEF IInv, Owned

\* What a listener may be.
ListenerType ==
  [at : {"accept", "push", "notify", "done", "killed"}, fd : Fds \cup {NoFd},
   sid : Sids \cup {NoSid}, reactor_idx : Reactors \cup {NoFd}]

(***************************************************************************)
(* A step of the listener leaves the reactors' threads and tables alone.   *)
(***************************************************************************)
LEMMA ListenerSteps ==
  ASSUME IInv, SidsOnce', ListenerHolds', QueueHolds',
         next_sid_' \in 1 .. MaxSid + 1, fdTable' \in [Fds -> Sids \cup {NoSid}],
         lsn' \in ListenerType, connQueue' \in [Reactors -> Seq(NewConnection)],
         wakeup' \in [Reactors -> BOOLEAN],
         \A r \in Reactors, fd \in Fds : fd_to_sid_[r][fd] # NoSid => fdTable'[fd] = fdTable[fd],
         UNCHANGED <<routerVars, running, sendQueue, owned, thread, history>>
  PROVE  IInv'
<1>1. fd_to_sid_' = fd_to_sid_ /\ sessions_' = sessions_ /\ thread' = thread
  BY DEF owned
<1>2. TypeOK'
  BY <1>1, Zenon DEF IInv, TypeOK, RouterTypeOK, ListenerType, routerVars, history
<1>3. OneReactor' /\ Named'
  BY <1>1, Zenon DEF IInv, Owned, OneReactor, Named
<1>4. TablesAgree'
  <2>1. TablesAgree
    BY Zenon DEF IInv, Owned
  <2> QED
    BY <1>1, <2>1 DEF TablesAgree, Live
<1>5. HandsOK' /\ EventsOK'
  <2>1. HandsOK'
    BY <1>1, ZenonT(40) DEF IInv, HandsOK, HandOK
  <2>2. EventsOK'
    BY <1>1, ZenonT(120) DEF IInv, EventsOK, EventOK, Events, HalfDone, At
  <2> QED
    BY <2>1, <2>2, Zenon
<1> QED
  BY <1>2, <1>3, <1>4, <1>5, Zenon DEF IInv, Owned

(***************************************************************************)
(* A connection is accepted: nobody has its descriptor, and its session id *)
(* is new.                                                                 *)
(***************************************************************************)
LEMMA AcceptStep ==
  ASSUME IInv, NEW fd \in Fds, NEW r \in Reactors, Accept(fd, r)
  PROVE  IInv'
<1>0. /\ fdTable \in [Fds -> Sids \cup {NoSid}] /\ fdTable[fd] = NoSid
      /\ next_sid_ \in Sids /\ next_sid_' = next_sid_ + 1
      /\ fdTable' = [fdTable EXCEPT ![fd] = next_sid_]
      /\ lsn' = [at |-> "push", fd |-> fd, sid |-> next_sid_, reactor_idx |-> r]
      /\ connQueue' = connQueue /\ wakeup' = wakeup
      /\ fd_to_sid_' = fd_to_sid_
      /\ UNCHANGED <<routerVars, running, sendQueue, owned, thread, history>>
  BY Zenon DEF IInv, TypeOK, Accept, queues, owned
<1>1. /\ fdTable' \in [Fds -> Sids \cup {NoSid}] /\ fdTable'[fd] = next_sid_
      /\ \A fe \in Fds : fe = fd \/ fdTable'[fe] = fdTable[fe]
  BY <1>0, Zenon
<1>2. /\ lsn' \in ListenerType /\ lsn'.fd = fd /\ lsn'.sid = next_sid_ /\ lsn'.reactor_idx = r
  BY <1>0 DEF ListenerType
<1>3. \A q \in Reactors : fd_to_sid_[q][fd] = NoSid
  BY <1>0, Tables, SidsArePositive, Zenon
<1>4. \A q \in Reactors : \A i \in 1 .. Len(connQueue[q]) :
        /\ connQueue[q][i].fd \in Fds /\ connQueue[q][i].fd # fd
        /\ fdTable[connQueue[q][i].fd] = connQueue[q][i].sid
        /\ \A p \in Reactors : fd_to_sid_[p][connQueue[q][i].fd] = NoSid
  BY <1>0, QueuedConnections, SidsArePositive, ZenonT(40) DEF Fresh
<1>5. SidsOnce'
  <2>1. SidsOnce /\ next_sid_ \in Nat /\ next_sid_ > NoSid
    BY <1>0, SidsArePositive, RouterAssumption DEF IInv, Owned, Sids, NoSid
  <2>2. \A fe \in Fds : fdTable[fe] \in Nat /\ fdTable[fe] < next_sid_
    <3>1. NoSid \in Nat
      BY DEF NoSid
    <3>2. \A fe \in Fds : fdTable[fe] \in Nat
      BY <1>0, <3>1, SidsArePositive, Zenon
    <3> QED
      BY <2>1, <3>2, Zenon DEF SidsOnce
  <2>3. \A fe \in Fds : fdTable'[fe] < next_sid_'
    BY <1>0, <1>1, <2>1, <2>2
  <2>4. \A fe, ff \in Fds : fdTable'[fe] = fdTable'[ff] /\ fdTable'[fe] # NoSid => fe = ff
    BY <1>1, <2>1, <2>2, SMTT(30) DEF SidsOnce
  <2> QED
    BY <2>3, <2>4, Zenon DEF SidsOnce
<1>6. ListenerHolds'
  <2>1. fdTable'[lsn'.fd] = lsn'.sid /\ \A q \in Reactors : fd_to_sid_'[q][lsn'.fd] = NoSid
    BY <1>0, <1>1, <1>2, <1>3, Zenon
  <2>2. \A q \in Reactors : \A i \in 1 .. Len(connQueue'[q]) : connQueue'[q][i].fd # lsn'.fd
    BY <1>0, <1>2, <1>4, ZenonT(40)
  <2> QED
    BY <1>0, <1>2, <2>1, <2>2, Zenon DEF ListenerHolds, Fresh
<1>7. QueueHolds'
  <2>1. QueueHolds
    BY Zenon DEF IInv, Owned
  <2>2. \A q \in Reactors : \A i \in 1 .. Len(connQueue[q]) :
          /\ fdTable'[connQueue[q][i].fd] = connQueue[q][i].sid
          /\ \A p \in Reactors : fd_to_sid_'[p][connQueue[q][i].fd] = NoSid
    BY <1>0, <1>1, <1>4
  <2> QED
    BY <1>0, <2>1, <2>2, QueueStays, Zenon
<1>8. \A q \in Reactors, fe \in Fds : fd_to_sid_[q][fe] # NoSid => fdTable'[fe] = fdTable[fe]
  BY <1>1, <1>3, Zenon
<1>9. next_sid_' \in 1 .. MaxSid + 1
  BY <1>0, RouterAssumption DEF Sids
<1> QED
  BY <1>0, <1>1, <1>2, <1>5, <1>6, <1>7, <1>8, <1>9, ListenerSteps, ZenonT(40) DEF IInv, TypeOK

(***************************************************************************)
(* The accepted connection goes into a reactor's conn queue.               *)
(***************************************************************************)
LEMMA PushStep ==
  ASSUME IInv, ListenerPush
  PROVE  /\ IInv' /\ lsn'.at = "notify" /\ lsn'.reactor_idx = lsn.reactor_idx
         /\ \A q \in Reactors : q = lsn.reactor_idx \/ connQueue'[q] = connQueue[q]
<1> DEFINE k == lsn.reactor_idx
           c == [fd |-> lsn.fd, sid |-> lsn.sid]
<1>0. /\ lsn.at = "push" /\ connQueue \in [Reactors -> Seq(NewConnection)]
      /\ lsn \in ListenerType /\ lsn' = [lsn EXCEPT !.at = "notify"]
      /\ connQueue' = [connQueue EXCEPT ![k] = Append(connQueue[k], c)]
      /\ fdTable' = fdTable /\ next_sid_' = next_sid_ /\ wakeup' = wakeup
      /\ fd_to_sid_' = fd_to_sid_
      /\ UNCHANGED <<routerVars, running, sendQueue, owned, thread, history>>
  <2>1. connQueue \in [Reactors -> Seq(NewConnection)] /\ lsn \in ListenerType
    BY DEF IInv, TypeOK, ListenerType
  <2>2. connQueue' = [connQueue EXCEPT ![k] = Append(connQueue[k], c)]
    BY <2>1, Zenon DEF ListenerPush
  <2> QED
    BY <2>1, <2>2, Zenon DEF ListenerPush, owned
<1>1. /\ lsn.fd \in Fds /\ lsn.sid \in Sids /\ k \in Reactors /\ Fresh(lsn.fd, lsn.sid)
      /\ \A q \in Reactors : \A i \in 1 .. Len(connQueue[q]) : connQueue[q][i].fd # lsn.fd
  BY <1>0, Zenon DEF IInv, Owned, ListenerHolds
<1>2. c \in NewConnection /\ c.fd = lsn.fd /\ c.sid = lsn.sid
  BY <1>1 DEF NewConnection
<1>3. lsn' \in ListenerType /\ lsn'.at = "notify" /\ lsn'.reactor_idx = k
  BY <1>0, Zenon DEF ListenerType
<1> HIDE DEF k, c
<1>4. ASSUME NEW Q \in Seq(NewConnection), NEW d \in NewConnection
      PROVE  /\ Append(Q, d) \in Seq(NewConnection) /\ Len(Q) \in Nat
             /\ Len(Append(Q, d)) = Len(Q) + 1
             /\ \A i \in 1 .. Len(Q) : Append(Q, d)[i] = Q[i]
             /\ Append(Q, d)[Len(Q) + 1] = d
  BY <1>4
<1>5. connQueue[k] \in Seq(NewConnection)
  BY <1>0, <1>1, Zenon
<1>6. /\ connQueue' \in [Reactors -> Seq(NewConnection)]
      /\ connQueue'[k] = Append(connQueue[k], c)
      /\ \A q \in Reactors : q = k \/ connQueue'[q] = connQueue[q]
  BY <1>0, <1>1, <1>2, <1>4, <1>5, Zenon
<1>7. /\ Len(connQueue[k]) \in Nat /\ Len(connQueue'[k]) = Len(connQueue[k]) + 1
      /\ \A i \in 1 .. Len(connQueue[k]) : connQueue'[k][i] = connQueue[k][i]
      /\ connQueue'[k][Len(connQueue[k]) + 1] = c
  <2>1. /\ Len(connQueue[k]) \in Nat /\ Len(Append(connQueue[k], c)) = Len(connQueue[k]) + 1
        /\ \A i \in 1 .. Len(connQueue[k]) : Append(connQueue[k], c)[i] = connQueue[k][i]
        /\ Append(connQueue[k], c)[Len(connQueue[k]) + 1] = c
    BY <1>2, <1>5
  <2> QED
    BY <1>6, <2>1, Zenon
<1>8. \A q \in Reactors : \A i \in 1 .. Len(connQueue'[q]) :
        \/ i \in 1 .. Len(connQueue[q]) /\ connQueue'[q][i] = connQueue[q][i]
        \/ q = k /\ i = Len(connQueue[k]) + 1 /\ connQueue'[q][i] = c
  <2>1. ASSUME NEW i \in 1 .. Len(connQueue'[k])
        PROVE  \/ i \in 1 .. Len(connQueue[k]) /\ connQueue'[k][i] = connQueue[k][i]
               \/ i = Len(connQueue[k]) + 1 /\ connQueue'[k][i] = c
    BY <1>7
  <2> QED
    BY <1>6, <2>1, Zenon
<1>9. QueueHolds'
  <2>1. QueueHolds
    BY Zenon DEF IInv, Owned
  <2>2. \A q \in Reactors : \A i \in 1 .. Len(connQueue'[q]) :
          /\ fdTable'[connQueue'[q][i].fd] = connQueue'[q][i].sid
          /\ \A p \in Reactors : fd_to_sid_'[p][connQueue'[q][i].fd] = NoSid
    BY <1>0, <1>1, <1>2, <1>8, <2>1, SMTT(30) DEF QueueHolds, Fresh
  <2>3. \A p, q \in Reactors :
          \A i \in 1 .. Len(connQueue'[p]), j \in 1 .. Len(connQueue'[q]) :
            connQueue'[p][i].fd = connQueue'[q][j].fd => p = q /\ i = j
    <3> SUFFICES ASSUME NEW p \in Reactors, NEW q \in Reactors,
                        NEW i \in 1 .. Len(connQueue'[p]), NEW j \in 1 .. Len(connQueue'[q]),
                        connQueue'[p][i].fd = connQueue'[q][j].fd
                 PROVE  p = q /\ i = j
      BY Zenon
    <3>1. \/ i \in 1 .. Len(connQueue[p]) /\ connQueue'[p][i] = connQueue[p][i]
          \/ p = k /\ i = Len(connQueue[k]) + 1 /\ connQueue'[p][i] = c
      BY <1>8, Zenon
    <3>2. \/ j \in 1 .. Len(connQueue[q]) /\ connQueue'[q][j] = connQueue[q][j]
          \/ q = k /\ j = Len(connQueue[k]) + 1 /\ connQueue'[q][j] = c
      BY <1>8, Zenon
    <3>3. CASE /\ i \in 1 .. Len(connQueue[p]) /\ connQueue'[p][i] = connQueue[p][i]
               /\ j \in 1 .. Len(connQueue[q]) /\ connQueue'[q][j] = connQueue[q][j]
      BY <2>1, <3>3 DEF QueueHolds
    <3> QED
      BY <1>1, <1>2, <3>1, <3>2, <3>3, Zenon
  <2> QED
    BY <2>2, <2>3, Zenon DEF QueueHolds, Fresh
<1>10. SidsOnce' /\ ListenerHolds'
  BY <1>0, <1>3, Zenon DEF IInv, Owned, SidsOnce, ListenerHolds
<1>11. IInv'
  BY <1>0, <1>3, <1>6, <1>9, <1>10, ListenerSteps, ZenonT(40) DEF IInv, TypeOK
<1> QED
  BY <1>3, <1>6, <1>11 DEF k

(***************************************************************************)
(* The conn queue is full and the connection is closed; or the listener    *)
(* notifies the reactor; or it ends.                                       *)
(***************************************************************************)
LEMMA ListenerRest ==
  ASSUME IInv, ListenerDrop \/ ListenerNotify \/ ListenerExit
  PROVE  IInv' /\ lsn'.at # "push"
<1>0. /\ lsn \in ListenerType /\ wakeup \in [Reactors -> BOOLEAN]
      /\ fdTable \in [Fds -> Sids \cup {NoSid}]
      /\ next_sid_ \in 1 .. MaxSid + 1 /\ connQueue \in [Reactors -> Seq(NewConnection)]
  BY Zenon DEF IInv, TypeOK, ListenerType
<1>1. /\ next_sid_' = next_sid_ /\ connQueue' = connQueue /\ fd_to_sid_' = fd_to_sid_
      /\ UNCHANGED <<routerVars, running, sendQueue, owned, thread, history>>
  BY DEF ListenerDrop, ListenerNotify, ListenerExit, queues, owned
<1>2. lsn' \in ListenerType /\ lsn'.at # "push"
  <2>1. NextIteration \in ListenerType /\ NextIteration.at # "push"
    BY DEF NextIteration, IdleListener, ListenerType
  <2>2. CASE ListenerExit
    BY <1>0, <2>2, Zenon DEF ListenerExit, ListenerType
  <2> QED
    BY <2>1, <2>2 DEF ListenerDrop, ListenerNotify
<1>3. ListenerHolds'
  BY <1>2 DEF ListenerHolds
<1>4. CASE ListenerDrop
  <2> DEFINE fd == lsn.fd
  <2>1. /\ fd \in Fds /\ Fresh(fd, lsn.sid)
        /\ \A q \in Reactors : \A i \in 1 .. Len(connQueue[q]) : connQueue[q][i].fd # fd
    BY <1>4, Zenon DEF IInv, Owned, ListenerHolds, ListenerDrop
  <2>2. fdTable' = [fdTable EXCEPT ![fd] = NoSid] /\ wakeup' = wakeup
    BY <1>4, Zenon DEF ListenerDrop, queues
  <2> HIDE DEF fd
  <2>3. /\ fdTable' \in [Fds -> Sids \cup {NoSid}] /\ fdTable'[fd] = NoSid
        /\ \A fe \in Fds : fe = fd \/ fdTable'[fe] = fdTable[fe]
    BY <1>0, <2>1, <2>2, Zenon
  <2>4. SidsOnce'
    <3>1. SidsOnce /\ NoSid < next_sid_
      BY <1>0, RouterAssumption DEF IInv, Owned, NoSid
    <3>2. \A fe \in Fds : fdTable'[fe] < next_sid_'
      BY <1>1, <2>3, <3>1 DEF SidsOnce
    <3>3. \A fe, ff \in Fds : fdTable'[fe] = fdTable'[ff] /\ fdTable'[fe] # NoSid => fe = ff
      BY <2>3, <3>1 DEF SidsOnce
    <3> QED
      BY <3>2, <3>3 DEF SidsOnce
  <2>5. QueueHolds'
    <3>1. \A q \in Reactors : \A i \in 1 .. Len(connQueue[q]) : connQueue[q][i].fd \in Fds
      BY QueuedConnections, Zenon
    <3>2. QueueHolds
      BY ZenonT(40) DEF IInv, Owned
    <3>3. \A q \in Reactors : \A i \in 1 .. Len(connQueue[q]) :
            /\ fdTable'[connQueue[q][i].fd] = connQueue[q][i].sid
            /\ \A p \in Reactors : fd_to_sid_'[p][connQueue[q][i].fd] = NoSid
      <4> SUFFICES ASSUME NEW q \in Reactors, NEW i \in 1 .. Len(connQueue[q])
                   PROVE  /\ fdTable'[connQueue[q][i].fd] = connQueue[q][i].sid
                          /\ \A p \in Reactors : fd_to_sid_'[p][connQueue[q][i].fd] = NoSid
        BY Zenon
      <4> DEFINE c == connQueue[q][i]
      <4>1. c.fd \in Fds /\ c.fd # fd
        BY <2>1, <3>1, Zenon
      <4>2. fdTable[c.fd] = c.sid /\ \A p \in Reactors : fd_to_sid_[p][c.fd] = NoSid
        BY <3>2, Zenon DEF QueueHolds, Fresh
      <4>3. fdTable'[c.fd] = c.sid
        BY <2>3, <4>1, <4>2, Zenon
      <4>4. \A p \in Reactors : fd_to_sid_'[p][c.fd] = NoSid
        BY <1>1, <4>2, Zenon
      <4> QED
        BY <4>3, <4>4, Zenon
    <3> QED
      BY <1>1, <3>2, <3>3, QueueStays, Zenon
  <2>6. \A q \in Reactors, fe \in Fds : fd_to_sid_[q][fe] # NoSid => fdTable'[fe] = fdTable[fe]
    BY <2>1, <2>3, ZenonT(40) DEF Fresh
  <2>7. IInv'
    BY <1>0, <1>1, <1>2, <1>3, <2>2, <2>3, <2>4, <2>5, <2>6, ListenerSteps, Zenon
  <2> QED
    BY <1>2, <2>7
<1>5. CASE ListenerNotify \/ ListenerExit
  <2>1. fdTable' = fdTable /\ wakeup' \in [Reactors -> BOOLEAN]
    BY <1>0, <1>5, ZenonT(40) DEF ListenerNotify, ListenerExit, queues
  <2>2. SidsOnce' /\ QueueHolds'
    <3>1. SidsOnce /\ QueueHolds
      BY DEF IInv, Owned
    <3>2. SidsOnce'
      BY <1>1, <2>1, <3>1, ZenonT(40) DEF SidsOnce
    <3>3. \A q \in Reactors : \A i \in 1 .. Len(connQueue[q]) :
            /\ fdTable'[connQueue[q][i].fd] = connQueue[q][i].sid
            /\ \A p \in Reactors : fd_to_sid_'[p][connQueue[q][i].fd] = NoSid
      BY <1>1, <2>1, <3>1 DEF QueueHolds, Fresh
    <3>4. QueueHolds'
      BY <1>1, <3>1, <3>3, QueueStays, Zenon
    <3> QED
      BY <3>2, <3>4, Zenon
  <2>3. IInv'
    BY <1>0, <1>1, <1>2, <1>3, <2>1, <2>2, ListenerSteps, Zenon
  <2> QED
    BY <1>2, <2>3, Zenon
<1> QED
  BY <1>4, <1>5, Zenon

-----------------------------------------------------------------------------
(* The invariant holds                                                      *)

(***************************************************************************)
(* At the start there are no connections.                                  *)
(***************************************************************************)
LEMMA InitOwned == Init => IInv
<1> SUFFICES ASSUME Init
             PROVE  IInv
  OBVIOUS
<1>1. IdleThread \in Thread /\ IdleThread.at = "wait" /\ IdleThread.batch = {}
  BY Zenon DEF IdleThread, Thread
<1>2. \A r \in Reactors : thread[r] = IdleThread
  BY DEF Init
<1>3. TypeOK
  <2>1. thread \in [Reactors -> Thread]
    BY <1>1, Zenon DEF Init
  <2>2. RouterTypeOK
    BY Zenon DEF Init, RouterInit, RouterTypeOK
  <2>3. lsn \in ListenerType
    BY DEF Init, IdleListener, ListenerType
  <2>4. connQueue \in [Reactors -> Seq(NewConnection)] /\ sendQueue \in [Reactors -> Seq(Frame)]
    BY DEF Init
  <2>5. next_sid_ \in 1 .. MaxSid + 1
    BY RouterAssumption DEF Init
  <2> QED
    BY <2>1, <2>2, <2>3, <2>4, <2>5, Zenon DEF Init, TypeOK, ListenerType
<1>4. Owned
  <2>1. SidsOnce /\ OneReactor
    BY DEF Init, SidsOnce, OneReactor, NoSid
  <2>2. ListenerHolds /\ QueueHolds
    BY DEF Init, ListenerHolds, QueueHolds, IdleListener
  <2>3. TablesAgree
    BY Zenon DEF Init, TablesAgree, Live
  <2> QED
    BY <2>1, <2>2, <2>3 DEF Owned
<1>5. HandsOK
  BY <1>1, <1>2 DEF HandsOK, HandOK, Holding
<1>6. EventsOK
  BY <1>1, <1>2, Zenon DEF EventsOK, EventOK, Events, At, Holding
<1>7. Named
  BY DEF Init, Named
<1> QED
  BY <1>3, <1>4, <1>5, <1>6, <1>7, Zenon DEF IInv

(***************************************************************************)
(* Every step of the plane keeps the invariant.                            *)
(***************************************************************************)
LEMMA NextOwned == IInv /\ [Next]_vars => IInv'
<1> SUFFICES ASSUME IInv, [Next]_vars
             PROVE  IInv'
  OBVIOUS
<1>1. ASSUME NEW r \in Reactors, Reactor(r)
      PROVE  IInv'
  <2>1. CASE EventLoop(r)
    <3>1. ASSUME NEW e \in thread[r].batch \ {WakeEvent}, HandleEvent(r, e)
          PROVE  IInv'
      BY <3>1, EventMoves DEF Events
    <3> QED
      BY <2>1, <3>1, LoopMoves, WakeupStep, RegisterStep, SendNextStep, FlushStep,
         SessionMoves, SigpipeStep, Zenon DEF EventLoop
  <2>2. CASE HandleReadable(r)
    BY <2>2, SessionMoves, SystemFrames, OtherSteps, Zenon DEF HandleReadable
  <2>3. CASE CloseSession(r)
    BY <2>3, CloseRemoveStep, EraseStep, Zenon DEF CloseSession
  <2>4. CASE Exit(r)
    BY <2>4, LoopMoves, CloseNextStep, Zenon DEF Exit
  <2> QED
    BY <1>1, <2>1, <2>2, <2>3, <2>4, Zenon DEF Reactor
<1>2. CASE Listener
  BY <1>2, PushStep, ListenerRest, Zenon DEF Listener
<1>3. CASE UNCHANGED vars
  <2>1. RestOK'
    BY <1>3, Zenon
       DEF IInv, TypeOK, RouterTypeOK, RestOK, vars, routerVars, accepting, queues, owned,
                history
  <2> QED
    BY <1>3, <2>1, OutsideStep, Zenon DEF vars, accepting, queues, owned
<1> QED
  BY <1>1, <1>2, <1>3, AcceptStep, OtherSteps, Zenon DEF Next

(***************************************************************************)
(* The invariant holds in every reachable state.                           *)
(***************************************************************************)
LEMMA Invariance == Spec => []IInv
BY InitOwned, NextOwned, PTL DEF Spec

-----------------------------------------------------------------------------
(* What follows from it                                                     *)

(***************************************************************************)
(* Every variable of the plane keeps its type: in particular a session     *)
(* reference in a reactor's hands, or a route in the Router, is one.       *)
(***************************************************************************)
THEOREM TypesHold == Spec => []TypeOK
<1>1. IInv => TypeOK
  BY DEF IInv
<1> QED
  BY <1>1, Invariance, PTL

(***************************************************************************)
(* fd_to_sid_ and sessions_ of every reactor agree with each other and     *)
(* with the kernel, whatever the number of reactors and connections.       *)
(***************************************************************************)
THEOREM TablesAlwaysAgree == Spec => []TablesAgree
<1>1. IInv => TablesAgree
  BY Zenon DEF IInv, Owned
<1> QED
  BY <1>1, Invariance, PTL

(***************************************************************************)
(* No pending epoll event meets another connection than the one it was     *)
(* reported for.                                                           *)
(***************************************************************************)
THEOREM EventsNeverMisdirected == Spec => []EventsNotMisdirected
<1>1. IInv => EventsNotMisdirected
  BY Zenon DEF IInv, EventsOK, EventOK, Events, EventsNotMisdirected
<1> QED
  BY <1>1, Invariance, PTL

-----------------------------------------------------------------------------
(* Wakeups                                                                  *)

\* No thread lets go of a wakeup, or ends.
WakesKept ==
  \A q \in Reactors :
    /\ WakeEvent \in thread[q].batch => WakeEvent \in thread'[q].batch
    /\ At(q, "conns") => At(q, "conns")'
    /\ At(q, "done")' => At(q, "done")

(***************************************************************************)
(* The steps of a reactor keep its wakeup, but for those that handle one,  *)
(* and the thread goes on, but for Return.                                 *)
(***************************************************************************)
LEMMA ReactorKeepsWakes ==
  ASSUME IInv, NEW r \in Reactors,
         \/ EpollWait(r) \/ SendNext(r) \/ SendsDone(r) \/ Flush(r) \/ FlushError(r)
         \/ \E e \in thread[r].batch \ {WakeEvent} : HandleEvent(r, e)
         \/ ReadBlocks(r) \/ ReadCloses(r) \/ RefuseInbound(r) \/ HandleKpalive(r)
         \/ \E n \in Nids : HandleAuth(r, n)
         \/ \E c \in Cmds : HandleSub(r, c) \/ HandleUnsub(r, c)
         \/ DanglingReturn(r) \/ DanglingRecv(r)
         \/ CloseRemove(r) \/ CloseErase(r)
         \/ LeaveLoop(r) \/ CloseNext(r)
  PROVE  WakesKept /\ thread[r].at \notin {"conns", "done"}
<1>0. thread \in [Reactors -> Thread] /\ HandOK(r) /\ thread[r] \in Thread
  BY ZenonT(40) DEF IInv, TypeOK, HandsOK
<1>1. ASSUME NEW t, thread' = [thread EXCEPT ![r] = t], thread[r].at \notin {"conns", "done"},
             t.at # "done", WakeEvent \in thread[r].batch => WakeEvent \in t.batch
      PROVE  WakesKept /\ thread[r].at \notin {"conns", "done"}
  <2>1. thread'[r] = t /\ \A q \in Reactors \ {r} : thread'[q] = thread[q]
    BY <1>0, <1>1, Zenon
  <2> QED
    BY <1>1, <2>1, Zenon DEF WakesKept, At
<1>2. ASSUME NEW a, a # "done", NEW b, thread[r].at \notin {"conns", "done"},
             thread' = [thread EXCEPT ![r].at = a, ![r].back = b]
      PROVE  WakesKept /\ thread[r].at \notin {"conns", "done"}
  <2> DEFINE t == [thread[r] EXCEPT !.at = a, !.back = b]
  <2>1. thread' = [thread EXCEPT ![r] = t]
    BY <1>0, <1>2, Zenon
  <2>2. t.batch = thread[r].batch /\ t.at = a
    BY <1>0, Zenon DEF Thread
  <2> HIDE DEF t
  <2> QED
    BY <1>1, <1>2, <2>1, <2>2, Zenon
<1>3. ASSUME NEW a, a # "done", thread[r].at \notin {"conns", "done"}, Goto(r, a)
      PROVE  WakesKept /\ thread[r].at \notin {"conns", "done"}
  <2> DEFINE t == [thread[r] EXCEPT !.at = a]
  <2>1. thread' = [thread EXCEPT ![r] = t]
    BY <1>0, <1>3, Zenon DEF Goto
  <2>2. t.batch = thread[r].batch /\ t.at = a
    BY <1>0, Zenon DEF Thread
  <2> HIDE DEF t
  <2> QED
    BY <1>1, <1>3, <2>1, <2>2, Zenon
<1>4. ASSUME NEW a, a # "done", thread[r].at \notin {"conns", "done"}, Leave(r, a)
      PROVE  WakesKept /\ thread[r].at \notin {"conns", "done"}
  <2> DEFINE t == [IdleThread EXCEPT !.at = a, !.batch = thread[r].batch]
  <2>1. t.batch = thread[r].batch /\ t.at = a
    BY Zenon DEF IdleThread
  <2> HIDE DEF t
  <2> QED
    BY <1>1, <1>4, <2>1, ZenonT(40) DEF Leave, t
<1>5. CASE EpollWait(r)
  <2>1. thread[r].batch = {} /\ thread[r].at = "wait"
    BY <1>0, <1>5, Zenon DEF EpollWait, HandOK, At
  <2>2. PICK b : thread' = [thread EXCEPT ![r].at = "events", ![r].batch = b]
    BY <1>5, Zenon DEF EpollWait, Poll
  <2> DEFINE t == [thread[r] EXCEPT !.at = "events", !.batch = b]
  <2>3. thread' = [thread EXCEPT ![r] = t] /\ t.at = "events"
    BY <1>0, <2>2, ZenonT(40) DEF Thread
  <2> HIDE DEF t
  <2> QED
    BY <1>1, <2>1, <2>3, Zenon
<1>6. CASE SendNext(r)
  <2>1. thread[r].at \notin {"conns", "done"}
    BY <1>6, Zenon DEF SendNext, InDrainSendQueue, At
  <2> DEFINE f == Head(sendQueue[r])
             t == [InHand(thread[r], r, f.sid, "flush", thread[r].at) EXCEPT !.nid = f.nid]
  <2>2. thread' = thread \/ thread' = [thread EXCEPT ![r] = t]
    BY <1>0, <1>6, Zenon DEF SendNext
  <2>3. t.batch = thread[r].batch /\ t.at = "flush"
    BY <1>0, ZenonT(40) DEF Thread, InHand
  <2> HIDE DEF t
  <2>4. CASE thread' = thread
    BY <2>1, <2>4, ZenonT(40) DEF WakesKept, At
  <2>5. CASE thread' = [thread EXCEPT ![r] = t]
    BY <1>1, <2>1, <2>3, <2>5, ZenonT(40)
  <2> QED
    BY <2>1, <2>2, <2>4, <2>5, ZenonT(40)
<1>7. ASSUME NEW e \in thread[r].batch \ {WakeEvent}, HandleEvent(r, e)
      PROVE  WakesKept /\ thread[r].at \notin {"conns", "done"}
  <2> DEFINE left == IF e.kind = "inout" THEN {[e EXCEPT !.kind = "rest"]} ELSE {}
             B == (thread[r].batch \ {e}) \cup left
             sid == fd_to_sid_[r][e.fd]
             t == [thread[r] EXCEPT !.batch = B]
             u == IF sid = NoSid THEN t
                  ELSE IF e.kind = "rest" THEN InHand(t, r, sid, "flush", "events")
                                          ELSE InHand(t, r, sid, "read", "none")
  <2>1. thread' = [thread EXCEPT ![r] = u]
    BY <1>0, <1>7, Zenon DEF HandleEvent
  <2>2. WakeEvent \in thread[r].batch => WakeEvent \in B
    BY <1>7
  <2> HIDE DEF B
  <2>3. u.batch = B /\ (u.at = "events" \/ u.at = "flush" \/ u.at = "read")
    <3>1. thread[r].at = "events"
      BY <1>7, Zenon DEF HandleEvent, At
    <3> QED
      BY <1>0, <3>1, Zenon DEF Thread, InHand
  <2>4. thread[r].at \notin {"conns", "done"}
    BY <1>7, Zenon DEF HandleEvent, At
  <2> HIDE DEF u
  <2> QED
    BY <1>1, <2>1, <2>2, <2>3, <2>4, Zenon
<1>8. CASE CloseNext(r)
  <2>1. PICK s \in Live(r) :
          thread' = [thread EXCEPT ![r] = InHand(thread[r], r, s, "close", "exit")]
    BY <1>0, <1>8, Zenon DEF CloseNext
  <2> DEFINE t == InHand(thread[r], r, s, "close", "exit")
  <2>2. t.batch = thread[r].batch /\ t.at = "close"
    BY <1>0, ZenonT(40) DEF Thread, InHand
  <2>3. thread[r].at \notin {"conns", "done"}
    BY <1>8, ZenonT(40) DEF CloseNext, At
  <2> HIDE DEF t
  <2> QED
    BY <1>1, <2>1, <2>2, <2>3, Zenon DEF t
<1>9. CASE SendsDone(r) \/ LeaveLoop(r) \/ CloseRemove(r)
  BY <1>3, <1>9, ZenonT(40) DEF SendsDone, InDrainSendQueue, AfterSends, LeaveLoop, CloseRemove, At
<1>10. CASE ReadBlocks(r) \/ DanglingReturn(r)
  BY <1>4, <1>10, ZenonT(40) DEF ReadBlocks, DanglingReturn, At
<1>11. CASE Flush(r) \/ CloseErase(r)
  <2>1. thread[r].back # "done"
    BY <1>0, Zenon DEF Thread
  <2> QED
    BY <1>2, <1>4, <1>11, <2>1, Zenon DEF Flush, CloseErase, At
<1>12. CASE FlushError(r) \/ ReadCloses(r) \/ RefuseInbound(r)
  BY <1>2, <1>12, Zenon DEF FlushError, ReadCloses, RefuseInbound, CallClose, At
<1>13. CASE \/ HandleKpalive(r)
            \/ \E n \in Nids : HandleAuth(r, n)
            \/ \E c \in Cmds : HandleSub(r, c) \/ HandleUnsub(r, c)
  <2>1. /\ thread' = [thread EXCEPT ![r].at = "flush", ![r].back = "read"]
        /\ thread[r].at \notin {"conns", "done"}
    BY <1>13, ZenonT(40) DEF HandleKpalive, HandleAuth, HandleSub, HandleUnsub, CallAck, At
  <2> QED
    BY <1>2, <2>1, ZenonT(40)
<1>14. CASE DanglingRecv(r)
  BY <1>14, ZenonT(40) DEF DanglingRecv, WakesKept, At
<1> QED
  BY <1>5, <1>6, <1>7, <1>8, <1>9, <1>10, <1>11, <1>12, <1>13, <1>14, ZenonT(40)

(***************************************************************************)
(* What a reactor's other steps share: all but Register, the wakeup's, the *)
(* close of a descriptor, the end of the thread and of the process.        *)
(***************************************************************************)
LEMMA ReactorLeaves ==
  ASSUME IInv, NEW r \in Reactors, Reactor(r)
  PROVE  \/ /\ WakesKept /\ thread[r].at \notin {"conns", "done"}
            /\ UNCHANGED <<running, next_sid_, lsn, connQueue, wakeup>>
            /\ CloseErase(r) \/ UNCHANGED <<fdTable, fd_to_sid_>>
         \/ HandleWakeup(r) \/ TakeConnection(r) \/ ConnectionsTaken(r) \/ Return(r)
         \/ FlushSigpipe(r)
<1>1. CASE HandleWakeup(r) \/ TakeConnection(r) \/ ConnectionsTaken(r) \/ Return(r)
           \/ FlushSigpipe(r)
  BY <1>1, Zenon
<1>2. CASE ~(HandleWakeup(r) \/ TakeConnection(r) \/ ConnectionsTaken(r) \/ Return(r)
             \/ FlushSigpipe(r))
  <2>1. \/ EpollWait(r) \/ SendNext(r) \/ SendsDone(r) \/ Flush(r) \/ FlushError(r)
        \/ \E e \in thread[r].batch \ {WakeEvent} : HandleEvent(r, e)
        \/ ReadBlocks(r) \/ ReadCloses(r) \/ RefuseInbound(r) \/ HandleKpalive(r)
        \/ \E n \in Nids : HandleAuth(r, n)
        \/ \E c \in Cmds : HandleSub(r, c) \/ HandleUnsub(r, c)
        \/ DanglingReturn(r) \/ DanglingRecv(r)
        \/ CloseRemove(r) \/ CloseErase(r)
        \/ LeaveLoop(r) \/ CloseNext(r)
    BY <1>2, ZenonT(40) DEF Reactor, EventLoop, HandleReadable, CloseSession, Exit
  <2>2. WakesKept /\ thread[r].at \notin {"conns", "done"}
    BY <2>1, ReactorKeepsWakes, Zenon
  <2>3. ASSUME OnlyMoves
        PROVE  UNCHANGED <<running, next_sid_, lsn, connQueue, wakeup, fdTable, fd_to_sid_>>
    BY <2>3, Zenon DEF OnlyMoves, accepting, queues, owned
  <2>4. ASSUME NEW x, CallAck(r, x)
        PROVE  UNCHANGED <<running, next_sid_, lsn, connQueue, wakeup, fdTable, fd_to_sid_>>
    BY <2>4, Zenon DEF CallAck, accepting, queues
  <2>5. CASE EpollWait(r) \/ SendsDone(r) \/ FlushError(r) \/ ReadBlocks(r) \/ ReadCloses(r)
             \/ RefuseInbound(r) \/ DanglingReturn(r) \/ LeaveLoop(r) \/ CloseNext(r)
             \/ \E e \in thread[r].batch \ {WakeEvent} : HandleEvent(r, e)
    <3>1. OnlyMoves
      BY <2>5, ZenonT(40)
         DEF EpollWait, Poll, SendsDone, FlushError, ReadBlocks, ReadCloses, RefuseInbound,
                  DanglingReturn, LeaveLoop, CloseNext, HandleEvent
    <3> QED
      BY <2>2, <2>3, <3>1, Zenon
  <2>6. CASE HandleKpalive(r) \/ (\E n \in Nids : HandleAuth(r, n))
             \/ (\E c \in Cmds : HandleSub(r, c) \/ HandleUnsub(r, c))
    BY <2>2, <2>4, <2>6, ZenonT(40) DEF HandleKpalive, HandleAuth, HandleSub, HandleUnsub
  <2>7. CASE SendNext(r) \/ Flush(r) \/ DanglingRecv(r) \/ CloseRemove(r) \/ CloseErase(r)
    BY <2>2, <2>7, Zenon DEF SendNext, Flush, DanglingRecv, CloseRemove, CloseErase, accepting,
                      queues, owned
  <2> QED
    BY <2>1, <2>5, <2>6, <2>7, ZenonT(40)
<1> QED
  BY <1>1, <1>2, Zenon

(***************************************************************************)
(* A connection pushed to a conn queue keeps a wakeup on its way: Push     *)
(* comes before Notify, and Drain before the queue is looked at.           *)
(***************************************************************************)
LEMMA WakeupKept == IInv /\ NoLostWakeup /\ [Next]_vars => NoLostWakeup'
<1> SUFFICES ASSUME IInv, NoLostWakeup, [Next]_vars
             PROVE  NoLostWakeup'
  BY Zenon
<1>0. /\ thread \in [Reactors -> Thread] /\ wakeup \in [Reactors -> BOOLEAN]
      /\ lsn \in ListenerType
  BY Zenon DEF IInv, TypeOK, ListenerType
<1>1. ASSUME WakesKept, running' => running, lsn' = lsn, connQueue' = connQueue,
             \A q \in Reactors : wakeup[q] => wakeup'[q]
      PROVE  NoLostWakeup'
  BY <1>1, Zenon DEF NoLostWakeup, WakesKept, At, up
<1>2. ASSUME UNCHANGED thread, running' => running, lsn' = lsn, connQueue' = connQueue,
             \A q \in Reactors : wakeup[q] => wakeup'[q]
      PROVE  NoLostWakeup'
  BY <1>2, Zenon DEF NoLostWakeup, At, up
<1>3. ASSUME NEW r \in Reactors, Reactor(r)
      PROVE  NoLostWakeup'
  <2>1. CASE HandleWakeup(r)
    <3>1. /\ ThreadStep(r) /\ thread'[r].at = "conns"
      BY <2>1, WakeupStep, Zenon
    <3>2. \A q \in Reactors \ {r} : wakeup'[q] = wakeup[q]
      BY <1>0, <2>1, Zenon DEF HandleWakeup
    <3>3. running' = running /\ lsn' = lsn /\ connQueue' = connQueue
      BY <2>1, Zenon DEF HandleWakeup, accepting
    <3> QED
      BY <3>1, <3>2, <3>3, ZenonT(40) DEF NoLostWakeup, ThreadStep, At, up
  <2>2. CASE TakeConnection(r)
    <3>1. /\ thread' = thread /\ running' = running /\ lsn' = lsn /\ wakeup' = wakeup
          /\ thread[r].at = "conns"
      BY <2>2, Zenon DEF TakeConnection, Register, accepting, At
    <3>2. \A q \in Reactors \ {r} : connQueue'[q] = connQueue[q]
      <4>1. connQueue \in [Reactors -> Seq(NewConnection)]
        BY Zenon DEF IInv, TypeOK
      <4> QED
        BY <2>2, <4>1, Zenon DEF TakeConnection, Register
    <3> QED
      BY <3>1, <3>2, Zenon DEF NoLostWakeup, At, up
  <2>3. CASE ConnectionsTaken(r)
    <3>1. /\ \A q \in Reactors \ {r} : thread'[q] = thread[q]
          /\ running' = running /\ lsn' = lsn /\ wakeup' = wakeup /\ connQueue' = connQueue
      BY <1>0, <2>3, Zenon DEF ConnectionsTaken, Goto, OnlyMoves, accepting, queues
    <3>2. connQueue[r] = << >> \/ wakeup[r] \/ (lsn.at = "notify" /\ lsn.reactor_idx = r)
      BY <2>3, Zenon DEF ConnectionsTaken
    <3> QED
      BY <3>1, <3>2, Zenon DEF NoLostWakeup, At, up
  <2>4. CASE Return(r)
    <3>1. /\ \A q \in Reactors \ {r} : thread'[q] = thread[q]
          /\ running' = running /\ lsn' = lsn /\ wakeup' = wakeup /\ connQueue' = connQueue
      BY <1>0, <2>4, Zenon DEF Return, Goto, OnlyMoves, accepting, queues
    <3>2. thread[r].at = "exit" /\ thread[r].batch = {}
      BY <2>4, Zenon DEF Return, At, IInv, HandsOK, HandOK
    <3> QED
      BY <3>1, <3>2, Zenon DEF NoLostWakeup, At, up
  <2>5. CASE FlushSigpipe(r)
    BY <2>5, SigpipeStep, Zenon DEF NoLostWakeup
  <2> QED
    BY <1>1, <1>3, <2>1, <2>2, <2>3, <2>4, <2>5, ReactorLeaves, Zenon
<1>4. ASSUME NEW fd \in Fds, NEW r \in Reactors, Accept(fd, r)
      PROVE  NoLostWakeup'
  BY <1>4, Zenon DEF Accept, NoLostWakeup, At, up, queues
<1>5. CASE ListenerPush
  <2>1. /\ lsn.at = "push" /\ running' = running /\ wakeup' = wakeup /\ thread' = thread
    BY <1>5, Zenon DEF ListenerPush
  <2>2. /\ lsn'.at = "notify" /\ lsn'.reactor_idx = lsn.reactor_idx
        /\ \A q \in Reactors : q = lsn.reactor_idx \/ connQueue'[q] = connQueue[q]
    BY <1>5, PushStep, Zenon
  <2> QED
    BY <2>1, <2>2, Zenon DEF NoLostWakeup, At, up
<1>6. CASE ListenerDrop
  BY <1>6, Zenon DEF ListenerDrop, NoLostWakeup, At, up, queues
<1>7. CASE ListenerNotify
  <2>1. \A q \in Reactors : wakeup'[q] = (wakeup[q] \/ q = lsn.reactor_idx)
    BY <1>0, <1>7, Zenon DEF ListenerNotify
  <2> QED
    BY <1>7, <2>1, Zenon DEF ListenerNotify, NoLostWakeup, At, up
<1>8. CASE ListenerExit
  BY <1>8, Zenon DEF ListenerExit, NoLostWakeup, At, up, queues
<1>9. ASSUME NEW rt, NEW n, RouteFrame(rt, n)
      PROVE  NoLostWakeup'
  <2>1. \A q \in Reactors : wakeup[q] => wakeup'[q]
    BY <1>0, <1>9, Zenon DEF RouteFrame
  <2> QED
    BY <1>2, <1>9, <2>1, Zenon DEF RouteFrame, accepting
<1>10. CASE RequestStop
  BY <1>2, <1>10, Zenon DEF RequestStop, accepting, queues
<1>11. CASE UNCHANGED vars
  BY <1>2, <1>11, Zenon DEF vars, accepting, queues
<1> QED
  BY <1>3, <1>4, <1>5, <1>6, <1>7, <1>8, <1>9, <1>10, <1>11, SMTT(30)
     DEF Next, Listener, AsyncSend, PublishTo

(***************************************************************************)
(* While the plane runs, no connection is left in a conn queue without a   *)
(* wakeup that will make the reactor look.                                 *)
(***************************************************************************)
THEOREM WakeupsNeverLost == Spec => []NoLostWakeup
<1>1. Init => NoLostWakeup
  BY ZenonT(40) DEF Init, NoLostWakeup
<1> QED
  BY <1>1, WakeupKept, Invariance, PTL DEF Spec

=============================================================================
