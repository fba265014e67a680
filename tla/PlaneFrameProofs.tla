------------------------- MODULE PlaneFrameProofs ---------------------------
(***************************************************************************)
(* Who a frame may reach, for any number of reactors, descriptors,         *)
(* sessions, node ids and commands, and queues of any capacity: what the   *)
(* Router, the frames on their way and the threads know about sessions.    *)
(***************************************************************************)
EXTENDS PlaneProofs

-----------------------------------------------------------------------------
(* The inductive invariant                                                  *)

\* s was a connection, and never will be one again.
Dead(s) == s < next_sid_ /\ \A fd \in Fds : fdTable[fd] # s

\* Session s has presented node id n, unless it is gone.
Known(s, n) == n \in authedAs[s] \/ Dead(s)

SessionsNamed ==
  \A r \in Reactors, s \in Sids :
    sessions_[r][s] # NoSession =>
      IF sessions_[r][s].authed THEN sessions_[r][s].nid \in authedAs[s]
                                ELSE sessions_[r][s].nid = NoNid

\* What was looked up, and what a lookup would find.
SubsKnown == \A c \in Cmds : \A sub \in sub_table_[c] : Known(sub.sid, sub.nid)

RoutesKnown == \A n \in Nids : nid_map_[n] # NoRoute => Known(nid_map_[n].sid, n)

FramesKnown ==
  \A r \in Reactors : \A i \in 1 .. Len(sendQueue[r]) :
    Known(sendQueue[r][i].sid, sendQueue[r][i].nid)

\* The frame a thread is sending.
NidOK(t) ==
  t.nid # NoNid =>
    /\ t.at \in {"flush", "close", "closefd", "killed"} /\ t.back \in {"events", "sends"}
    /\ t.sid \in Sids /\ t.nid \in authedAs[t.sid]

NidsOK == \A r \in Reactors : NidOK(thread[r])

DanglingDead == \A r \in Reactors : At(r, "dangling") => Dead(thread[r].sid)

KInv == SessionsNamed /\ SubsKnown /\ RoutesKnown /\ FramesKnown /\ NidsOK /\ DanglingDead

-----------------------------------------------------------------------------
(* What a step of a reactor does to its thread                              *)

\* Thread t becomes u, with the same frame to send.
Sending(t, u) ==
  u.at \in {"close", "closefd"} /\ u.back = t.back /\ u.sid = t.sid /\ u.nid = t.nid

\* The thread takes the next frame to send.
Taking(r, u) ==
  LET f == Head(sendQueue[r]) IN
  /\ sendQueue[r] # << >> /\ f.sid \in Sids /\ sessions_[r][f.sid] # NoSession
  /\ u.at = "flush" /\ u.back \in {"events", "sends"} /\ u.sid = f.sid /\ u.nid = f.nid

\* Only CloseRemove goes to CloseErase, and only CloseErase goes on from there, to a
\* reference to the erased session at worst.
CloseOrder(r, t, u) ==
  /\ u.at = "closefd" => CloseRemove(r) /\ u.sid = t.sid
  /\ t.at = "closefd" => CloseErase(r)
  /\ u.at = "dangling" => CloseErase(r) /\ u.sid = t.sid

ThreadNext(r) ==
  LET t == thread[r]
      u == thread'[r] IN
  /\ \A q \in Reactors \ {r} : thread'[q] = thread[q]
  /\ u.nid = NoNid \/ Sending(t, u) \/ Taking(r, u)
  /\ CloseOrder(r, t, u)

(***************************************************************************)
(* A step of a reactor either leaves its thread where it is, or ends the   *)
(* process, or moves it as above.                                          *)
(***************************************************************************)
LEMMA ThreadGoes ==
  ASSUME IInv, NEW r \in Reactors, NidOK(thread[r]), Reactor(r)
  PROVE  FlushSigpipe(r) \/ thread' = thread \/ ThreadNext(r)
<1>0. /\ thread \in [Reactors -> Thread] /\ HandOK(r) /\ thread[r] \in Thread
      /\ sendQueue \in [Reactors -> Seq(Frame)]
  BY Zenon DEF IInv, TypeOK, HandsOK
<1> DEFINE Others == \A q \in Reactors \ {r} : thread'[q] = thread[q]
<1>1. ASSUME NEW t, thread' = [thread EXCEPT ![r] = t]
      PROVE  thread'[r] = t /\ Others
  BY <1>0, <1>1, Zenon
<1> HIDE DEF Others
<1>2. ASSUME NEW a, NEW b, thread' = [thread EXCEPT ![r].at = a, ![r].back = b]
      PROVE  /\ thread'[r].at = a /\ thread'[r].back = b /\ thread'[r].sid = thread[r].sid
             /\ thread'[r].nid = thread[r].nid /\ Others
  <2> DEFINE t == [thread[r] EXCEPT !.at = a, !.back = b]
  <2>1. thread' = [thread EXCEPT ![r] = t]
    BY <1>0, <1>2, Zenon
  <2>2. t.at = a /\ t.back = b /\ t.sid = thread[r].sid /\ t.nid = thread[r].nid
    BY <1>0, Zenon DEF Thread
  <2> HIDE DEF t
  <2> QED
    BY <1>1, <2>1, <2>2, Zenon
<1>3. ASSUME NEW a, Goto(r, a)
      PROVE  /\ thread'[r].at = a /\ thread'[r].back = thread[r].back
             /\ thread'[r].sid = thread[r].sid /\ thread'[r].nid = thread[r].nid /\ Others
  <2> DEFINE t == [thread[r] EXCEPT !.at = a]
  <2>1. thread' = [thread EXCEPT ![r] = t]
    BY <1>0, <1>3, Zenon DEF Goto
  <2>2. t.at = a /\ t.back = thread[r].back /\ t.sid = thread[r].sid /\ t.nid = thread[r].nid
    BY <1>0, Zenon DEF Thread
  <2> HIDE DEF t
  <2> QED
    BY <1>1, <2>1, <2>2, Zenon
<1>4. ASSUME NEW a, Leave(r, a)
      PROVE  thread'[r].at = a /\ thread'[r].nid = NoNid /\ Others
  <2> DEFINE t == [IdleThread EXCEPT !.at = a, !.batch = thread[r].batch]
  <2>1. t.at = a /\ t.nid = NoNid
    BY Zenon DEF IdleThread
  <2>2. thread' = [thread EXCEPT ![r] = t]
    BY <1>4, Zenon DEF Leave
  <2> HIDE DEF t
  <2> QED
    BY <1>1, <2>1, <2>2, Zenon
<1>5. ASSUME thread[r].at \notin {"flush", "close", "closefd", "killed"}
      PROVE  thread[r].nid = NoNid
  BY <1>5, Zenon DEF NidOK
<1>6. ASSUME thread[r].at \notin {"flush", "close", "closefd", "killed"}, Others,
             thread'[r].nid = thread[r].nid, thread'[r].at \notin {"closefd", "dangling"}
      PROVE  ThreadNext(r)
  BY <1>5, <1>6, Zenon DEF ThreadNext, CloseOrder, Others
<1>7. CASE EpollWait(r) \/ HandleWakeup(r)
  <2>1. PICK a, b : /\ a = "events" \/ a = "conns"
                    /\ thread' = [thread EXCEPT ![r].at = a, ![r].batch = b]
    <3>1. CASE EpollWait(r)
      BY <3>1, Zenon DEF EpollWait, Poll
    <3>2. CASE HandleWakeup(r)
      <4>1. thread' = [thread EXCEPT ![r].at = "conns", ![r].batch = thread[r].batch \ {WakeEvent}]
        BY <1>0, <3>2, Zenon DEF HandleWakeup
      <4> QED
        BY <4>1, Zenon
    <3> QED
      BY <1>7, <3>1, <3>2, Zenon
  <2> DEFINE t == [thread[r] EXCEPT !.at = a, !.batch = b]
  <2>2. thread' = [thread EXCEPT ![r] = t]
    BY <1>0, <2>1, Zenon
  <2>3. t.at = a /\ t.nid = thread[r].nid
    BY <1>0, Zenon DEF Thread
  <2>4. thread[r].at \in {"wait", "events"}
    BY <1>7, Zenon DEF EpollWait, HandleWakeup, At
  <2> HIDE DEF t
  <2> QED
    BY <1>1, <1>6, <2>1, <2>2, <2>3, <2>4, Zenon
<1>8. CASE SendNext(r)
  <2> DEFINE f == Head(sendQueue[r])
             t == [InHand(thread[r], r, f.sid, "flush", thread[r].at) EXCEPT !.nid = f.nid]
  <2>1. thread' = thread \/ (thread' = [thread EXCEPT ![r] = t] /\ sessions_[r][f.sid] # NoSession)
    BY <1>0, <1>8, Zenon DEF SendNext
  <2>2. t.at = "flush" /\ t.back = thread[r].at /\ t.sid = f.sid /\ t.nid = f.nid
    BY <1>0, Zenon DEF Thread, InHand
  <2>3. sendQueue[r] # << >> /\ thread[r].at \in {"events", "sends"}
    BY <1>8, Zenon DEF SendNext, InDrainSendQueue, At
  <2>4. f \in Frame /\ f.sid \in Sids
    <3>1. sendQueue[r] \in Seq(Frame)
      BY <1>0, Zenon
    <3>2. f \in Frame
      BY <2>3, <3>1
    <3> QED
      BY <3>2 DEF Frame
  <2> HIDE DEF t, f
  <2>5. CASE thread' = [thread EXCEPT ![r] = t] /\ sessions_[r][f.sid] # NoSession
    <3>1. thread'[r] = t /\ Others
      BY <1>1, <2>5, Zenon
    <3>2. Taking(r, thread'[r])
      BY <2>2, <2>3, <2>4, <2>5, <3>1, Zenon DEF Taking, f
    <3> QED
      BY <2>2, <2>3, <3>1, <3>2, Zenon DEF ThreadNext, CloseOrder, Others
  <2> QED
    BY <2>1, <2>5, Zenon
<1>9. ASSUME NEW e \in thread[r].batch \ {WakeEvent}, HandleEvent(r, e)
      PROVE  ThreadNext(r)
  <2> DEFINE left == IF e.kind = "inout" THEN {[e EXCEPT !.kind = "rest"]} ELSE {}
             B == (thread[r].batch \ {e}) \cup left
             sid == fd_to_sid_[r][e.fd]
             t == [thread[r] EXCEPT !.batch = B]
             u == IF sid = NoSid THEN t
                  ELSE IF e.kind = "rest" THEN InHand(t, r, sid, "flush", "events")
                                          ELSE InHand(t, r, sid, "read", "none")
  <2>1. thread' = [thread EXCEPT ![r] = u]
    BY <1>0, <1>9, Zenon DEF HandleEvent
  <2>2. thread[r].at = "events"
    BY <1>9, Zenon DEF HandleEvent, At
  <2> HIDE DEF B
  <2>3. u.nid = thread[r].nid /\ (u.at = "events" \/ u.at = "flush" \/ u.at = "read")
    BY <1>0, <2>2, Zenon DEF Thread, InHand
  <2> HIDE DEF u
  <2> QED
    BY <1>1, <1>6, <2>1, <2>2, <2>3, Zenon
<1>10. CASE CloseNext(r)
  <2>1. PICK s \in Live(r) :
          thread' = [thread EXCEPT ![r] = InHand(thread[r], r, s, "close", "exit")]
    BY <1>0, <1>10, Zenon DEF CloseNext
  <2> DEFINE t == InHand(thread[r], r, s, "close", "exit")
  <2>2. t.nid = thread[r].nid /\ t.at = "close"
    BY <1>0, Zenon DEF Thread, InHand
  <2>3. thread[r].at = "exit"
    BY <1>10, Zenon DEF CloseNext, At
  <2> HIDE DEF t
  <2>4. thread' = [thread EXCEPT ![r] = t]
    BY <2>1, Zenon DEF t
  <2> QED
    BY <1>1, <1>6, <2>2, <2>3, <2>4, Zenon
<1>11. CASE ConnectionsTaken(r) \/ SendsDone(r) \/ LeaveLoop(r) \/ Return(r)
  BY <1>3, <1>6, <1>11 DEF ConnectionsTaken, SendsDone, InDrainSendQueue, AfterSends, LeaveLoop,
                           Return, At
<1>12. CASE ReadBlocks(r) \/ DanglingReturn(r)
  BY <1>4, <1>12, SMTT(30) DEF ReadBlocks, DanglingReturn, At, ThreadNext, CloseOrder, Others
<1>13. CASE ReadCloses(r) \/ RefuseInbound(r)
  BY <1>2, <1>6, <1>13 DEF ReadCloses, RefuseInbound, CallClose, At
<1>14. CASE HandleKpalive(r) \/ (\E n \in Nids : HandleAuth(r, n))
            \/ (\E c \in Cmds : HandleSub(r, c) \/ HandleUnsub(r, c))
  <2>1. /\ thread' = [thread EXCEPT ![r].at = "flush", ![r].back = "read"]
        /\ thread[r].at = "read"
    BY <1>14, Zenon DEF HandleKpalive, HandleAuth, HandleSub, HandleUnsub, CallAck, At
  <2> QED
    BY <1>2, <1>6, <2>1, Zenon
<1>15. CASE Flush(r)
  <2>1. thread[r].at = "flush" /\ thread[r].back \notin {"closefd", "dangling"}
    BY <1>0, <1>15, Zenon DEF Flush, At, HandOK, Thread
  <2>2. CASE thread[r].back = "read"
    <3>1. thread[r].nid = NoNid
      BY <2>2, Zenon DEF NidOK
    <3> QED
      BY <1>2, <1>15, <2>1, <2>2, <3>1, SMTT(30) DEF Flush, ThreadNext, CloseOrder, Others
  <2>3. CASE thread[r].back # "read"
    BY <1>4, <1>15, <2>1, <2>3, Zenon DEF Flush, ThreadNext, CloseOrder, Others
  <2> QED
    BY <2>2, <2>3, Zenon
<1>16. CASE FlushError(r)
  <2> DEFINE b == IF thread[r].back = "read" THEN "dangling" ELSE thread[r].back
  <2>1. /\ thread[r].at = "flush"
        /\ thread' = [thread EXCEPT ![r].at = "close", ![r].back = b]
    BY <1>16, Zenon DEF FlushError, CallClose, At
  <2>2. thread[r].nid = NoNid \/ b = thread[r].back
    BY Zenon DEF NidOK
  <2> HIDE DEF b
  <2>3. /\ thread'[r].at = "close" /\ thread'[r].back = b /\ thread'[r].sid = thread[r].sid
        /\ thread'[r].nid = thread[r].nid /\ Others
    BY <1>2, <2>1, Zenon
  <2> QED
    BY <2>1, <2>2, <2>3, Zenon DEF ThreadNext, CloseOrder, Sending, Others
<1>17. CASE CloseRemove(r)
  <2>1. Goto(r, "closefd") /\ thread[r].at = "close"
    BY <1>17, Zenon DEF CloseRemove, At
  <2> QED
    BY <1>3, <1>17, <2>1, Zenon DEF ThreadNext, CloseOrder, Sending, Others
<1>18. CASE CloseErase(r)
  <2>1. thread[r].at = "closefd" /\ thread[r].back # "closefd"
    BY <1>0, <1>18, Zenon DEF CloseErase, At, Thread
  <2>2. CASE thread[r].back = "dangling"
    <3>1. thread[r].nid = NoNid
      BY <2>2, Zenon DEF NidOK
    <3>2. thread' = [thread EXCEPT ![r].at = "dangling", ![r].back = "none"]
      BY <1>18, <2>2, Zenon DEF CloseErase
    <3> QED
      BY <1>2, <1>18, <2>1, <2>2, <3>1, <3>2, Zenon DEF ThreadNext, CloseOrder, Others
  <2>3. CASE thread[r].back # "dangling"
    <3>1. Leave(r, thread[r].back)
      BY <1>18, <2>3, Zenon DEF CloseErase
    <3>2. thread'[r].at = thread[r].back /\ thread'[r].nid = NoNid /\ Others
      BY <1>4, <3>1, Zenon
    <3> QED
      BY <1>18, <2>1, <2>3, <3>2, Zenon DEF ThreadNext, CloseOrder, Others
  <2> QED
    BY <2>2, <2>3, Zenon
<1>19. CASE TakeConnection(r) \/ DanglingRecv(r)
  BY <1>19 DEF TakeConnection, DanglingRecv
<1> QED
  BY <1>7, <1>8, <1>9, <1>10, <1>11, <1>12, <1>13, <1>14, <1>15, <1>16, <1>17, <1>18,
     <1>19, SMTT(30)
     DEF Reactor, EventLoop, HandleReadable, CloseSession, Exit

-----------------------------------------------------------------------------
(* What a step of a reactor does to names and routes                        *)

\* Sessions other than s of r stay as they are.
OtherSessions(r, s) ==
  \A q \in Reactors, t \in Sids : (q = r /\ t = s) \/ sessions_'[q][t] = sessions_[q][t]

\* No session comes, goes or is named.
SameNames ==
  \A q \in Reactors, s \in Sids :
    /\ sessions_'[q][s] = NoSession <=> sessions_[q][s] = NoSession
    /\ sessions_[q][s] # NoSession =>
         /\ sessions_'[q][s].authed = sessions_[q][s].authed
         /\ sessions_'[q][s].nid = sessions_[q][s].nid

(***************************************************************************)
(* The session becomes s, with an ack in its outbuf.                       *)
(***************************************************************************)
LEMMA AckSets ==
  ASSUME IInv, NEW r \in Reactors, At(r, "read"), NEW s \in Session, CallAck(r, s)
  PROVE  LET x == sessions_'[r][thread[r].sid] IN
         /\ x # NoSession /\ x.authed = s.authed /\ x.nid = s.nid
         /\ OtherSessions(r, thread[r].sid)
<1> DEFINE x == [s EXCEPT !.outbuf = TRUE]
<1>0. sessions_ \in [Reactors -> [Sids -> Session \cup {NoSession}]] /\ thread[r].sid \in Sids
  BY Zenon DEF IInv, TypeOK, HandsOK, HandOK, Holding, At
<1>1. x \in Session /\ x.authed = s.authed /\ x.nid = s.nid
  BY Zenon DEF Session
<1>2. sessions_' = [sessions_ EXCEPT ![r][thread[r].sid] = x]
  BY Zenon DEF CallAck
<1> HIDE DEF x
<1>3. x # NoSession
  BY <1>1, PlaneAssumption, Zenon
<1>4. sessions_'[r][thread[r].sid] = x /\ OtherSessions(r, thread[r].sid)
  BY <1>0, <1>2, Zenon DEF OtherSessions
<1> QED
  BY <1>1, <1>3, <1>4, Zenon

(***************************************************************************)
(* An ack to a frame that does not name the session.                       *)
(***************************************************************************)
LEMMA AckKeepsNames ==
  ASSUME IInv, NEW r \in Reactors, At(r, "read"), CallAck(r, Ref(r))
  PROVE  SameNames
<1>1. thread[r].sid \in Sids /\ Ref(r) \in Session /\ Ref(r) # NoSession
  BY InHandSession DEF At, Holding
<1>2. LET x == sessions_'[r][thread[r].sid] IN
      /\ x # NoSession /\ x.authed = Ref(r).authed /\ x.nid = Ref(r).nid
      /\ OtherSessions(r, thread[r].sid)
  BY <1>1, AckSets, Zenon
<1> QED
  BY <1>1, <1>2, Zenon DEF SameNames, OtherSessions, Ref

(***************************************************************************)
(* outbuf is filled or emptied.                                            *)
(***************************************************************************)
LEMMA OutbufKeepsNames ==
  ASSUME IInv, NEW r \in Reactors, NEW s \in Sids, sessions_[r][s] # NoSession,
         NEW b \in BOOLEAN, sessions_' = [sessions_ EXCEPT ![r][s].outbuf = b]
  PROVE  SameNames
<1> DEFINE x == [sessions_[r][s] EXCEPT !.outbuf = b]
<1>0. sessions_ \in [Reactors -> [Sids -> Session \cup {NoSession}]]
  BY Zenon DEF IInv, TypeOK
<1>1. sessions_[r][s] \in Session
  BY Tables, Zenon
<1>2. x \in Session /\ x.authed = sessions_[r][s].authed /\ x.nid = sessions_[r][s].nid
  BY <1>1, Zenon DEF Session
<1>3. sessions_'[r][s] = x
  BY OutbufSet, ZenonT(40)
<1>4. OtherSessions(r, s)
  <2>1. sessions_' = [sessions_ EXCEPT ![r] = [sessions_[r] EXCEPT ![s].outbuf = b]]
    BY <1>0, Zenon
  <2> QED
    BY <1>0, <2>1, ZenonT(40) DEF OtherSessions
<1> HIDE DEF x
<1>5. x # NoSession
  BY <1>2, PlaneAssumption, Zenon
<1> QED
  BY <1>2, <1>3, <1>4, <1>5, Zenon DEF SameNames, OtherSessions

\* Nothing that names or routes a session changes.
Quiet == SameNames /\ UNCHANGED <<routerVars, authedAs, lastAuth>>

(***************************************************************************)
(* The steps of a reactor that are not quiet.                              *)
(***************************************************************************)
LEMMA QuietSteps ==
  ASSUME IInv, NEW r \in Reactors, Reactor(r)
  PROVE  \/ Quiet
         \/ TakeConnection(r) \/ FlushSigpipe(r) \/ CloseRemove(r) \/ CloseErase(r)
         \/ DanglingRecv(r)
         \/ \E n \in Nids : HandleAuth(r, n)
         \/ \E c \in Cmds : HandleSub(r, c) \/ HandleUnsub(r, c)
<1>1. ASSUME sessions_' = sessions_
      PROVE  SameNames
  BY <1>1 DEF SameNames
<1>2. CASE EpollWait(r) \/ ConnectionsTaken(r) \/ SendsDone(r) \/ FlushError(r) \/ ReadBlocks(r)
           \/ ReadCloses(r) \/ RefuseInbound(r) \/ DanglingReturn(r) \/ LeaveLoop(r)
           \/ CloseNext(r) \/ Return(r)
           \/ \E e \in thread[r].batch \ {WakeEvent} : HandleEvent(r, e)
  <2>1. OnlyMoves
    BY <1>2, Zenon
       DEF EpollWait, Poll, ConnectionsTaken, SendsDone, FlushError, ReadBlocks, ReadCloses,
                RefuseInbound, DanglingReturn, LeaveLoop, CloseNext, Return, HandleEvent
  <2> QED
    BY <1>1, <2>1 DEF OnlyMoves, Quiet, owned, history
<1>3. CASE HandleWakeup(r)
  BY <1>1, <1>3, Zenon DEF HandleWakeup, Quiet, owned, history
<1>4. CASE HandleKpalive(r)
  BY <1>4, AckKeepsNames, Zenon DEF HandleKpalive, Quiet, history
<1>5. CASE SendNext(r)
  <2>1. UNCHANGED <<routerVars, authedAs, lastAuth>>
    BY <1>5, Zenon DEF SendNext, history
  <2>2. Head(sendQueue[r]).sid \in Sids
    <3>1. sendQueue[r] \in Seq(Frame) /\ sendQueue[r] # << >>
      BY <1>5, Zenon DEF SendNext, IInv, TypeOK
    <3>2. Head(sendQueue[r]) \in Frame
      BY <3>1
    <3> QED
      BY <3>2, Zenon DEF Frame
  <2>3. SameNames
    <3>1. CASE sessions_[r][Head(sendQueue[r]).sid] = NoSession
      BY <1>1, <1>5, <3>1, Zenon DEF SendNext
    <3>2. CASE sessions_[r][Head(sendQueue[r]).sid] # NoSession
      <4>1. sessions_' = [sessions_ EXCEPT ![r][Head(sendQueue[r]).sid].outbuf = TRUE]
        BY <1>5, <3>2, Zenon DEF SendNext
      <4> QED
        BY <2>2, <3>2, <4>1, OutbufKeepsNames, Zenon
    <3> QED
      BY <3>1, <3>2, Zenon
  <2> QED
    BY <2>1, <2>3, Zenon DEF Quiet
<1>6. CASE Flush(r)
  <2>1. thread[r].sid \in Sids /\ Ref(r) \in Session /\ Ref(r) # NoSession
    BY <1>6, InHandSession, Zenon DEF Flush, At, Holding
  <2>2. Ref(r).outbuf \in BOOLEAN
    BY <2>1, Zenon DEF Session
  <2>3. PICK b \in BOOLEAN : sessions_' = [sessions_ EXCEPT ![r][thread[r].sid].outbuf = b]
    BY <1>6, <2>2, Zenon DEF Flush
  <2>4. SameNames
    BY <2>1, <2>3, OutbufKeepsNames, Zenon DEF Ref
  <2> QED
    BY <1>6, <2>4, Zenon DEF Flush, Quiet, history
<1> QED
  BY <1>2, <1>3, <1>4, <1>5, <1>6, Zenon DEF Reactor, EventLoop, HandleReadable, CloseSession, Exit

-----------------------------------------------------------------------------
(* Frames reach their node                                                  *)

(***************************************************************************)
(* The steps that end with a new authedAs.                                 *)
(***************************************************************************)
LEMMA AuthedAsSteps ==
  ASSUME IInv, [Next]_vars
  PROVE  \/ authedAs' = authedAs /\ lastAuth' = lastAuth
         \/ \E r \in Reactors, n \in Nids : Authenticate(r, n)
<1>1. ASSUME NEW r \in Reactors, Reactor(r)
      PROVE  \/ authedAs' = authedAs /\ lastAuth' = lastAuth
             \/ \E n \in Nids : Authenticate(r, n)
  BY <1>1, QuietSteps, Zenon
     DEF Quiet, TakeConnection, Register, FlushSigpipe, CloseRemove, CloseErase,
                          HandleAuth, DanglingRecv, HandleSub, HandleUnsub, history
<1>2. CASE Listener
  BY <1>2, Zenon DEF Listener, ListenerPush, ListenerDrop, ListenerNotify, ListenerExit, history
<1> QED
  BY <1>1, <1>2, Zenon
     DEF Next, Accept, AsyncSend, PublishTo, RouteFrame, RequestStop, vars, history

(***************************************************************************)
(* The descriptors: a step closes some, and opens one under a new id.      *)
(***************************************************************************)
LEMMA DescriptorSteps ==
  ASSUME IInv, [Next]_vars
  PROVE  /\ next_sid_' = next_sid_ \/ next_sid_' = next_sid_ + 1
         /\ \A fd \in Fds : fdTable'[fd] \in {fdTable[fd], NoSid, next_sid_}
<1>0. fdTable \in [Fds -> Sids \cup {NoSid}]
  BY Zenon DEF IInv, TypeOK
<1>1. CASE next_sid_' = next_sid_ /\ fdTable' = fdTable
  BY <1>1, Zenon
<1>2. ASSUME NEW fd, next_sid_' = next_sid_, fdTable' = [fdTable EXCEPT ![fd] = NoSid]
      PROVE  /\ next_sid_' = next_sid_
             /\ \A fe \in Fds : fdTable'[fe] \in {fdTable[fe], NoSid, next_sid_}
  BY <1>0, <1>2, Zenon
<1>3. ASSUME NEW r \in Reactors, Reactor(r)
      PROVE  \/ next_sid_' = next_sid_ /\ fdTable' = fdTable
             \/ CloseErase(r)
  BY <1>3, ReactorLeaves, Zenon
     DEF HandleWakeup, TakeConnection, Register, ConnectionsTaken, Return,
                             FlushSigpipe, OnlyMoves, accepting
<1>4. ASSUME NEW r \in Reactors, CloseErase(r)
      PROVE  next_sid_' = next_sid_ /\ fdTable' = [fdTable EXCEPT ![thread[r].fd] = NoSid]
  BY <1>4, Zenon DEF CloseErase
<1>5. ASSUME NEW fd \in Fds, NEW r \in Reactors, Accept(fd, r)
      PROVE  /\ next_sid_' = next_sid_ + 1
             /\ \A fe \in Fds : fdTable'[fe] \in {fdTable[fe], NoSid, next_sid_}
  BY <1>0, <1>5, Zenon DEF Accept
<1>6. CASE ListenerDrop
  BY <1>2, <1>6, Zenon DEF ListenerDrop
<1>7. CASE ListenerPush \/ ListenerNotify \/ ListenerExit \/ RequestStop \/ UNCHANGED vars
  BY <1>1, <1>7, Zenon DEF ListenerPush, ListenerNotify, ListenerExit, RequestStop, vars, accepting
<1>8. ASSUME NEW rt, NEW n, RouteFrame(rt, n)
      PROVE  next_sid_' = next_sid_ /\ fdTable' = fdTable
  BY <1>8, Zenon DEF RouteFrame, accepting
<1>9. CASE \E r \in Reactors : Reactor(r)
  BY <1>1, <1>2, <1>3, <1>4, <1>9, Zenon
<1> QED
  BY <1>1, <1>5, <1>6, <1>7, <1>8, <1>9, Zenon DEF Next, Listener, AsyncSend, PublishTo

(***************************************************************************)
(* What is known of a session stays known, and a dead session dead.        *)
(***************************************************************************)
LEMMA KnownStays ==
  ASSUME IInv, [Next]_vars
  PROVE  /\ \A s \in Sids : Dead(s) => Dead(s)'
         /\ \A s \in Sids : authedAs[s] \subseteq authedAs'[s]
         /\ \A s \in Sids : \A n \in Nids : Known(s, n) => Known(s, n)'
<1>1. \A s \in Sids : Dead(s) => Dead(s)'
  <2> SUFFICES ASSUME NEW s \in Sids, Dead(s)
               PROVE  Dead(s)'
    BY Zenon
  <2>1. s \in Nat /\ s # NoSid /\ next_sid_ \in Nat /\ s < next_sid_
    BY SidsArePositive, RouterAssumption DEF IInv, TypeOK, Dead
  <2> QED
    BY <2>1, DescriptorSteps DEF Dead
<1>2. \A s \in Sids : authedAs[s] \subseteq authedAs'[s]
  <2>1. authedAs \in [Sids -> SUBSET Nids]
    BY DEF IInv, TypeOK
  <2>2. ASSUME NEW r \in Reactors, NEW n \in Nids, Authenticate(r, n)
        PROVE  \A s \in Sids : authedAs[s] \subseteq authedAs'[s]
    BY <2>1, <2>2, Zenon DEF Authenticate
  <2> QED
    BY <2>2, AuthedAsSteps, Zenon
<1>3. \A s \in Sids : \A n \in Nids : Known(s, n) => Known(s, n)'
  <2> SUFFICES ASSUME NEW s \in Sids, NEW n \in Nids, Known(s, n)
               PROVE  Known(s, n)'
    OBVIOUS
  <2> QED
    BY <1>1, <1>2, Zenon DEF Known
<1> QED
  BY <1>1, <1>2, <1>3, Zenon

(***************************************************************************)
(* A session in a reactor's tables is not dead.                            *)
(***************************************************************************)
LEMMA LiveNotDead ==
  ASSUME IInv, NEW r \in Reactors, NEW s \in Sids, sessions_[r][s] # NoSession
  PROVE  ~Dead(s)
<1>1. sessions_[r][s].fd \in Fds /\ fd_to_sid_[r][sessions_[r][s].fd] = s
  BY Tables, Zenon
<1>2. fdTable[sessions_[r][s].fd] = s
  <2>1. \A fd \in Fds : fd_to_sid_[r][fd] # NoSid => fdTable[fd] = fd_to_sid_[r][fd]
    BY Tables, Zenon
  <2> QED
    BY <1>1, <2>1, SidsArePositive, Zenon
<1> QED
  BY <1>1, <1>2, Zenon DEF Dead

(***************************************************************************)
(* Sessions are named as they have authenticated.                          *)
(***************************************************************************)
LEMMA NamesKept ==
  ASSUME IInv, SessionsNamed, [Next]_vars
  PROVE  SessionsNamed'
<1>0. /\ authedAs \in [Sids -> SUBSET Nids]
      /\ sessions_ \in [Reactors -> [Sids -> Session \cup {NoSession}]]
  BY Zenon DEF IInv, TypeOK
<1>1. \A s \in Sids : authedAs[s] \subseteq authedAs'[s]
  BY KnownStays, Zenon
<1>2. CASE SameNames
  BY <1>1, <1>2, ZenonT(40) DEF SessionsNamed, SameNames
<1>3. ASSUME NEW r \in Reactors, NEW s \in Sids, OtherSessions(r, s),
             sessions_'[r][s] # NoSession =>
               IF sessions_'[r][s].authed THEN sessions_'[r][s].nid \in authedAs'[s]
                                          ELSE sessions_'[r][s].nid = NoNid
      PROVE  SessionsNamed'
  BY <1>1, <1>3 DEF SessionsNamed, OtherSessions
<1>4. ASSUME NEW r \in Reactors, NEW n \in Nids, HandleAuth(r, n)
      PROVE  SessionsNamed'
  <2> DEFINE s == [Ref(r) EXCEPT !.authed = TRUE, !.nid = n]
  <2>0. At(r, "read") /\ thread[r].sid \in Sids /\ Ref(r) \in Session
    BY <1>4, InHandSession, Zenon DEF HandleAuth, At, Holding
  <2>1. s \in Session /\ s.authed /\ s.nid = n
    BY <2>0, Zenon DEF Session
  <2>2. CallAck(r, s)
    BY <1>4, Zenon DEF HandleAuth
  <2> HIDE DEF s
  <2>3. /\ sessions_'[r][thread[r].sid].authed = s.authed
        /\ sessions_'[r][thread[r].sid].nid = s.nid
        /\ OtherSessions(r, thread[r].sid)
    BY <2>0, <2>1, <2>2, AckSets, Zenon
  <2>4. n \in authedAs'[thread[r].sid]
    BY <1>0, <1>4, <2>0, Zenon DEF HandleAuth, Authenticate
  <2> QED
    BY <1>3, <2>0, <2>1, <2>3, <2>4, Zenon
<1>5. ASSUME NEW r \in Reactors, TakeConnection(r)
      PROVE  SessionsNamed'
  <2> DEFINE c == Head(connQueue[r])
             x == [fd |-> c.fd, authed |-> FALSE, nid |-> NoNid, outbuf |-> FALSE]
  <2>1. sessions_' = [sessions_ EXCEPT ![r][c.sid] = x]
    BY <1>5, Zenon DEF TakeConnection, Register
  <2>2. c.sid \in Sids
    <3>1. connQueue[r] \in Seq(NewConnection) /\ connQueue[r] # << >>
      BY <1>5, Zenon DEF TakeConnection, Register, IInv, TypeOK
    <3>2. c \in NewConnection
      BY <3>1
    <3> QED
      BY <3>2, Zenon DEF NewConnection
  <2>3. ~x.authed /\ x.nid = NoNid
    OBVIOUS
  <2> HIDE DEF x, c
  <2>4. sessions_'[r][c.sid] = x /\ OtherSessions(r, c.sid)
    BY <1>0, <2>1, <2>2, Zenon DEF OtherSessions
  <2> QED
    BY <1>3, <2>2, <2>3, <2>4, Zenon
<1>6. ASSUME NEW r \in Reactors, CloseErase(r)
      PROVE  SessionsNamed'
  <2>1. thread[r].sid \in Sids
    BY <1>6, InHandSession, Zenon DEF CloseErase, At, Holding
  <2>2. sessions_' = [sessions_ EXCEPT ![r][thread[r].sid] = NoSession]
    BY <1>6, Zenon DEF CloseErase, EraseTables
  <2>3. sessions_'[r][thread[r].sid] = NoSession /\ OtherSessions(r, thread[r].sid)
    BY <1>0, <2>1, <2>2, Zenon DEF OtherSessions
  <2> QED
    BY <1>3, <2>1, <2>3, Zenon
<1>7. ASSUME NEW r \in Reactors, Reactor(r)
      PROVE  SessionsNamed'
  <2>1. CASE FlushSigpipe(r) \/ CloseRemove(r) \/ DanglingRecv(r)
    BY <1>2, <2>1, Zenon DEF FlushSigpipe, CloseRemove, DanglingRecv, owned, SameNames
  <2>2. ASSUME NEW c \in Cmds, HandleSub(r, c) \/ HandleUnsub(r, c)
        PROVE  SessionsNamed'
    BY <1>2, <2>2, AckKeepsNames, Zenon DEF HandleSub, HandleUnsub
  <2> QED
    BY <1>2, <1>4, <1>5, <1>6, <1>7, <2>1, <2>2, QuietSteps, Zenon DEF Quiet
<1>8. CASE sessions_' = sessions_
  BY <1>2, <1>8, Zenon DEF SameNames
<1>9. CASE Listener
  BY <1>8, <1>9, Zenon
  DEF Listener, ListenerPush, ListenerDrop, ListenerNotify, ListenerExit, owned
<1> QED
  BY <1>7, <1>8, <1>9, Zenon
     DEF Next, Accept, AsyncSend, PublishTo, RouteFrame, RequestStop, vars, owned

(***************************************************************************)
(* Where the Router's entries come from.                                   *)
(***************************************************************************)
LEMMA EntriesFrom ==
  ASSUME IInv, NEW r \in Reactors, Reactor(r)
  PROVE  /\ \A c \in Cmds : \A x \in sub_table_'[c] :
              \/ x \in sub_table_[c]
              \/ /\ HandleSub(r, c)
                 /\ x = [sid |-> thread[r].sid, nid |-> Ref(r).nid, reactor_idx |-> r]
              \/ DanglingRecv(r) /\ x.sid = thread[r].sid
         /\ \A n \in Nids :
              \/ nid_map_'[n] \in {nid_map_[n], NoRoute}
              \/ HandleAuth(r, n) /\ nid_map_'[n] = [sid |-> thread[r].sid, reactor_idx |-> r]
              \/ DanglingRecv(r) /\ nid_map_'[n].sid = thread[r].sid
<1> DEFINE Subs == \A c \in Cmds : \A x \in sub_table_'[c] :
                     \/ x \in sub_table_[c]
                     \/ /\ HandleSub(r, c)
                        /\ x = [sid |-> thread[r].sid, nid |-> Ref(r).nid, reactor_idx |-> r]
                     \/ DanglingRecv(r) /\ x.sid = thread[r].sid
           Nid(n) == \/ nid_map_'[n] \in {nid_map_[n], NoRoute}
                     \/ /\ HandleAuth(r, n)
                        /\ nid_map_'[n] = [sid |-> thread[r].sid, reactor_idx |-> r]
                     \/ DanglingRecv(r) /\ nid_map_'[n].sid = thread[r].sid
<1>0. /\ sub_table_ \in [Cmds -> SUBSET Subscriber]
      /\ nid_map_ \in [Nids -> NidRoute \cup {NoRoute}]
  BY Zenon DEF IInv, TypeOK, RouterTypeOK
<1>1. CASE UNCHANGED routerVars
  BY <1>1, Zenon DEF routerVars
<1>2. ASSUME NEW n \in Nids, HandleAuth(r, n)
      PROVE  Subs /\ \A m \in Nids : Nid(m)
  <2>1. /\ sub_table_' = sub_table_
        /\ nid_map_' = [nid_map_ EXCEPT ![n] = [sid |-> thread[r].sid, reactor_idx |-> r]]
    BY <1>2, Zenon DEF HandleAuth, Authenticate, BindNid
  <2>2. /\ nid_map_'[n] = [sid |-> thread[r].sid, reactor_idx |-> r]
        /\ \A m \in Nids : m = n \/ nid_map_'[m] = nid_map_[m]
    BY <1>0, <2>1, Zenon
  <2> QED
    BY <1>2, <2>1, <2>2, Zenon
<1>3. ASSUME NEW c \in Cmds, HandleSub(r, c)
      PROVE  Subs /\ nid_map_' = nid_map_
  <2> DEFINE x == [sid |-> thread[r].sid, nid |-> Ref(r).nid, reactor_idx |-> r]
  <2>1. /\ nid_map_' = nid_map_
        /\ sub_table_' = [sub_table_ EXCEPT ![c] = NotOf(x.sid, sub_table_[c]) \cup {x}]
    BY <1>0, <1>3, Zenon DEF HandleSub, Subscribe
  <2> HIDE DEF x
  <2>2. /\ sub_table_'[c] = NotOf(x.sid, sub_table_[c]) \cup {x}
        /\ \A d \in Cmds : d = c \/ sub_table_'[d] = sub_table_[d]
    BY <1>0, <2>1, Zenon
  <2> QED
    BY <1>3, <2>1, <2>2, Zenon DEF NotOf, x
<1>4. ASSUME NEW c \in Cmds, HandleUnsub(r, c)
      PROVE  Subs /\ nid_map_' = nid_map_
  BY <1>0, <1>4, Zenon DEF HandleUnsub, Unsubscribe, NotOf
<1>5. CASE CloseRemove(r)
  <2>1. CASE RemoveSession(thread[r].sid, Ref(r).nid)
    <3>1. Subs
      BY <1>0, <2>1, Zenon DEF RemoveSession, NotOf
    <3>2. \A n \in Nids : nid_map_'[n] \in {nid_map_[n], NoRoute}
      BY <1>0, <2>1, Zenon DEF RemoveSession
    <3> QED
      BY <3>1, <3>2, Zenon
  <2> QED
    BY <1>1, <1>5, <2>1, Zenon DEF CloseRemove
<1>6. CASE DanglingRecv(r)
  <2>1. ASSUME NEW n \in Nids, BindNid(n, thread[r].sid, r)
        PROVE  Subs /\ \A m \in Nids : Nid(m)
    <3>1. /\ nid_map_'[n] = [sid |-> thread[r].sid, reactor_idx |-> r]
          /\ \A m \in Nids : m = n \/ nid_map_'[m] = nid_map_[m]
          /\ sub_table_' = sub_table_
      BY <1>0, <2>1, Zenon DEF BindNid
    <3> QED
      BY <1>6, <3>1
  <2>2. ASSUME NEW c \in Cmds, NEW n \in Nids,
               Subscribe(c, [sid |-> thread[r].sid, nid |-> n, reactor_idx |-> r])
        PROVE  Subs /\ nid_map_' = nid_map_
    <3> DEFINE x == [sid |-> thread[r].sid, nid |-> n, reactor_idx |-> r]
    <3>1. /\ nid_map_' = nid_map_
          /\ sub_table_' = [sub_table_ EXCEPT ![c] = NotOf(x.sid, sub_table_[c]) \cup {x}]
      BY <1>0, <2>2, Zenon DEF Subscribe
    <3>2. x.sid = thread[r].sid
      BY Zenon
    <3> HIDE DEF x
    <3>3. /\ sub_table_'[c] = NotOf(x.sid, sub_table_[c]) \cup {x}
          /\ \A d \in Cmds : d = c \/ sub_table_'[d] = sub_table_[d]
      BY <1>0, <3>1, Zenon
    <3> QED
      BY <1>6, <3>1, <3>2, <3>3, Zenon DEF NotOf
  <2>3. ASSUME NEW c \in Cmds, Unsubscribe(c, thread[r].sid)
        PROVE  Subs /\ nid_map_' = nid_map_
    BY <1>0, <2>3, Zenon DEF Unsubscribe, NotOf
  <2> QED
    BY <1>1, <1>6, <2>1, <2>2, <2>3, ZenonT(40) DEF DanglingRecv, Authenticate
<1>7. CASE TakeConnection(r) \/ FlushSigpipe(r) \/ CloseErase(r)
  BY <1>1, <1>7, Zenon DEF TakeConnection, Register, FlushSigpipe, CloseErase
<1> QED
  BY <1>1, <1>2, <1>3, <1>4, <1>5, <1>6, <1>7, QuietSteps, ZenonT(40) DEF Quiet

(***************************************************************************)
(* Only the reactors of the plane change its Router and their threads.     *)
(***************************************************************************)
LEMMA RouterSteps ==
  ASSUME [Next]_vars
  PROVE  UNCHANGED <<routerVars, thread>> \/ \E r \in Reactors : Reactor(r)
<1>1. CASE Listener
  BY <1>1, Zenon DEF Listener, ListenerPush, ListenerDrop, ListenerNotify, ListenerExit
<1> QED
  BY <1>1, Zenon DEF Next, Accept, AsyncSend, PublishTo, RouteFrame, RequestStop, vars

(***************************************************************************)
(* The types of the Router's entries.                                      *)
(***************************************************************************)
LEMMA EntryTypes ==
  ASSUME IInv
  PROVE  /\ \A c \in Cmds : \A x \in sub_table_[c] :
              x \in Subscriber /\ x.sid \in Sids /\ x.nid \in Nids /\ x.reactor_idx \in Reactors
         /\ \A n \in Nids : nid_map_[n] # NoRoute =>
              /\ nid_map_[n] \in NidRoute
              /\ nid_map_[n].sid \in Sids /\ nid_map_[n].reactor_idx \in Reactors
<1>1. /\ \A c \in Cmds : sub_table_[c] \subseteq Subscriber
      /\ \A n \in Nids : nid_map_[n] \in NidRoute \cup {NoRoute}
  BY Zenon DEF IInv, TypeOK, RouterTypeOK
<1>2. \A x \in Subscriber : x.sid \in Sids /\ x.nid \in Nids /\ x.reactor_idx \in Reactors
  BY DEF Subscriber
<1>3. \A x \in NidRoute : x.sid \in Sids /\ x.reactor_idx \in Reactors
  BY DEF NidRoute
<1> QED
  BY <1>1, <1>2, <1>3, Zenon

(***************************************************************************)
(* What the Router holds is known of its sessions.                         *)
(***************************************************************************)
LEMMA EntriesKnown ==
  ASSUME IInv, KInv, [Next]_vars
  PROVE  SubsKnown' /\ RoutesKnown'
<1>0. /\ authedAs \in [Sids -> SUBSET Nids]
      /\ \A s \in Sids : authedAs[s] \subseteq authedAs'[s]
      /\ \A s \in Sids : Dead(s) => Dead(s)'
      /\ \A s \in Sids : \A n \in Nids : Known(s, n) => Known(s, n)'
  BY KnownStays, Zenon DEF IInv, TypeOK
<1>1. \A c \in Cmds : \A x \in sub_table_[c] : Known(x.sid, x.nid)'
  <2> SUFFICES ASSUME NEW c \in Cmds, NEW x \in sub_table_[c]
               PROVE  Known(x.sid, x.nid)'
    OBVIOUS
  <2>1. Known(x.sid, x.nid) /\ x.sid \in Sids /\ x.nid \in Nids
    BY EntryTypes DEF KInv, SubsKnown
  <2> QED
    BY <1>0, <2>1, Zenon
<1>2. \A n \in Nids : \A s \in Sids :
        nid_map_[n] # NoRoute /\ nid_map_[n].sid = s => Known(s, n)'
  <2> SUFFICES ASSUME NEW n \in Nids, NEW s \in Sids, nid_map_[n] # NoRoute, nid_map_[n].sid = s
               PROVE  Known(s, n)'
    OBVIOUS
  <2>1. Known(s, n)
    BY DEF KInv, RoutesKnown
  <2> QED
    BY <1>0, <2>1, Zenon
<1>3. CASE UNCHANGED routerVars
  <2>1. sub_table_' = sub_table_ /\ nid_map_' = nid_map_
    BY <1>3 DEF routerVars
  <2> QED
    BY <1>1, <1>2, <2>1, EntryTypes, Zenon DEF SubsKnown, RoutesKnown
<1>4. ASSUME NEW r \in Reactors, Reactor(r)
      PROVE  SubsKnown' /\ RoutesKnown'
  <2>1. ASSUME DanglingRecv(r)
        PROVE  \A s : s = thread[r].sid => Dead(s)'
    BY <1>0, <2>1, Zenon DEF KInv, DanglingDead, DanglingRecv, At, IInv, HandsOK, HandOK
  <2>2. ASSUME NEW c \in Cmds, HandleSub(r, c)
        PROVE  Ref(r).nid \in authedAs'[thread[r].sid]
    <3>1. thread[r].sid \in Sids /\ Ref(r) # NoSession
      BY <2>2, InHandSession, Zenon DEF HandleSub, At, Holding
    <3>2. Ref(r).nid \in authedAs[thread[r].sid]
      BY <2>2, <3>1, Zenon DEF HandleSub, Ref, KInv, SessionsNamed
    <3> QED
      BY <1>0, <3>1, <3>2, Zenon
  <2>3. ASSUME NEW n \in Nids, HandleAuth(r, n)
        PROVE  n \in authedAs'[thread[r].sid]
    <3>1. thread[r].sid \in Sids
      BY <2>3, InHandSession, Zenon DEF HandleAuth, At, Holding
    <3> QED
      BY <1>0, <2>3, <3>1, Zenon DEF HandleAuth, Authenticate
  <2>4. SubsKnown'
    <3> SUFFICES ASSUME NEW c \in Cmds, NEW x \in sub_table_'[c]
                 PROVE  Known(x.sid, x.nid)'
      BY DEF SubsKnown
    <3>1. CASE x \in sub_table_[c]
      BY <1>1, <3>1, Zenon
    <3>2. CASE /\ HandleSub(r, c)
               /\ x = [sid |-> thread[r].sid, nid |-> Ref(r).nid, reactor_idx |-> r]
      <4>1. x.sid = thread[r].sid /\ x.nid = Ref(r).nid
        BY <3>2, Zenon
      <4> QED
        BY <2>2, <3>2, <4>1, Zenon DEF Known
    <3>3. CASE DanglingRecv(r) /\ x.sid = thread[r].sid
      BY <2>1, <3>3, Zenon DEF Known, Dead
    <3> QED
      BY <1>4, <3>1, <3>2, <3>3, EntriesFrom, ZenonT(40)
  <2>5. RoutesKnown'
    <3> SUFFICES ASSUME NEW n \in Nids, nid_map_'[n] # NoRoute,
                        NEW s, nid_map_'[n].sid = s
                 PROVE  Known(s, n)'
      BY DEF RoutesKnown, Known, Dead
    <3>1. CASE nid_map_'[n] = nid_map_[n]
      BY <1>2, <3>1, EntryTypes, Zenon
    <3>2. CASE HandleAuth(r, n) /\ nid_map_'[n] = [sid |-> thread[r].sid, reactor_idx |-> r]
      BY <2>3, <3>2, SMTT(30) DEF Known
    <3>3. CASE DanglingRecv(r) /\ nid_map_'[n].sid = thread[r].sid
      BY <2>1, <3>3, Zenon DEF Known, Dead
    <3> QED
      BY <1>4, <3>1, <3>2, <3>3, EntriesFrom, Zenon
  <2> QED
    BY <2>4, <2>5, Zenon
<1> QED
  BY <1>3, <1>4, RouterSteps, Zenon

(***************************************************************************)
(* The send queues: a reactor takes the first frame, or a frame is added.  *)
(***************************************************************************)
LEMMA SendQueueSteps ==
  ASSUME IInv, [Next]_vars
  PROVE  \/ sendQueue' = sendQueue
         \/ \E r \in Reactors : SendNext(r)
         \/ \E n \in Nids : AsyncSend(n)
         \/ \E c \in Cmds : \E sub \in sub_table_[c] : PublishTo(c, sub)
<1>1. ASSUME NEW r \in Reactors, Reactor(r)
      PROVE  sendQueue' = sendQueue \/ SendNext(r)
  <2>1. CASE EventLoop(r)
    BY <2>1, ZenonT(40)
       DEF EventLoop, EpollWait, Poll, HandleWakeup, HandleEvent, TakeConnection, Register,
                ConnectionsTaken, SendsDone, Flush, FlushError, FlushSigpipe, OnlyMoves, queues
  <2>2. CASE HandleReadable(r)
    BY <2>2, Zenon DEF HandleReadable, ReadBlocks, ReadCloses, HandleAuth, HandleSub, HandleUnsub,
                HandleKpalive, RefuseInbound, DanglingReturn, DanglingRecv, CallAck, OnlyMoves,
                queues
  <2>3. CASE CloseSession(r) \/ Exit(r)
    BY <2>3, Zenon DEF CloseSession, CloseRemove, CloseErase, Exit, LeaveLoop, CloseNext, Return,
                OnlyMoves, queues
  <2> QED
    BY <1>1, <2>1, <2>2, <2>3, Zenon DEF Reactor
<1>2. CASE Listener
  BY <1>2, Zenon DEF Listener, ListenerPush, ListenerDrop, ListenerNotify, ListenerExit, queues
<1> QED
  BY <1>1, <1>2, Zenon DEF Next, Accept, RequestStop, FindSubscribers, vars, queues

(***************************************************************************)
(* A frame on its way was looked up for a node id its session presented.   *)
(***************************************************************************)
LEMMA FramesKept ==
  ASSUME IInv, KInv, [Next]_vars
  PROVE  FramesKnown'
<1>0. /\ sendQueue \in [Reactors -> Seq(Frame)]
      /\ \A s \in Sids : \A n \in Nids : Known(s, n) => Known(s, n)'
  BY KnownStays, Zenon DEF IInv, TypeOK
<1> DEFINE OK(f) == f.sid \in Sids /\ f.nid \in Nids /\ Known(f.sid, f.nid)
<1>1. \A q \in Reactors : \A i \in 1 .. Len(sendQueue[q]) : OK(sendQueue[q][i])
  <2>1. \A q \in Reactors : \A i \in 1 .. Len(sendQueue[q]) : sendQueue[q][i] \in Frame
    BY <1>0
  <2>2. \A f \in Frame : f.sid \in Sids /\ f.nid \in Nids
    BY Zenon DEF Frame
  <2> QED
    BY <2>1, <2>2, Zenon DEF KInv, FramesKnown
<1> HIDE DEF OK
<1>2. ASSUME \A q \in Reactors : \A i \in 1 .. Len(sendQueue'[q]) : OK(sendQueue'[q][i])
      PROVE  FramesKnown'
  <2> SUFFICES ASSUME NEW q \in Reactors, NEW i \in 1 .. Len(sendQueue'[q]),
                      NEW f, f = sendQueue'[q][i]
               PROVE  Known(f.sid, f.nid)'
    BY Zenon DEF FramesKnown, Known, Dead
  <2>1. OK(f)
    BY <1>2
  <2> QED
    BY <1>0, <2>1, Zenon DEF OK
<1>3. ASSUME NEW r \in Reactors, SendNext(r)
      PROVE  FramesKnown'
  <2>1. sendQueue' = [sendQueue EXCEPT ![r] = Tail(sendQueue[r])] /\ sendQueue[r] # << >>
    BY <1>0, <1>3, Zenon DEF SendNext
  <2>2. /\ sendQueue'[r] = Tail(sendQueue[r])
        /\ \A q \in Reactors : q = r \/ sendQueue'[q] = sendQueue[q]
    BY <1>0, <2>1, Zenon
  <2>3. ASSUME NEW Q \in Seq(Frame), Q # << >>
        PROVE  \A i \in 1 .. Len(Tail(Q)) : i + 1 \in 1 .. Len(Q) /\ Tail(Q)[i] = Q[i + 1]
    BY <2>3
  <2>4. \A i \in 1 .. Len(sendQueue'[r]) :
          i + 1 \in 1 .. Len(sendQueue[r]) /\ sendQueue'[r][i] = sendQueue[r][i + 1]
    BY <1>0, <2>1, <2>2, <2>3, Zenon
  <2>5. \A i \in 1 .. Len(sendQueue'[r]) : OK(sendQueue'[r][i])
    BY <1>1, <2>4, Zenon
  <2> QED
    BY <1>1, <1>2, <2>2, <2>5, Zenon
<1>4. ASSUME NEW rt, NEW n \in Nids, rt.reactor_idx \in Reactors, rt.sid \in Sids,
             Known(rt.sid, n), RouteFrame(rt, n)
      PROVE  FramesKnown'
  <2> DEFINE k == rt.reactor_idx
             f == [sid |-> rt.sid, nid |-> n]
  <2>1. sendQueue' = [sendQueue EXCEPT ![k] = Append(sendQueue[k], f)]
    BY <1>0, <1>4, Zenon DEF RouteFrame
  <2>2. OK(f)
    BY <1>4 DEF OK
  <2> HIDE DEF f, k
  <2>3. /\ k \in Reactors /\ sendQueue'[k] = Append(sendQueue[k], f)
        /\ \A q \in Reactors : q = k \/ sendQueue'[q] = sendQueue[q]
    BY <1>0, <1>4, <2>1, Zenon DEF k
  <2>4. ASSUME NEW Q \in Seq(Frame)
        PROVE  \A i \in 1 .. Len(Append(Q, f)) :
                 (i \in 1 .. Len(Q) /\ Append(Q, f)[i] = Q[i]) \/ Append(Q, f)[i] = f
    BY <2>4
  <2>5. \A i \in 1 .. Len(sendQueue'[k]) :
          (i \in 1 .. Len(sendQueue[k]) /\ sendQueue'[k][i] = sendQueue[k][i])
            \/ sendQueue'[k][i] = f
    BY <1>0, <2>3, <2>4, Zenon
  <2>6. \A i \in 1 .. Len(sendQueue'[k]) : OK(sendQueue'[k][i])
    BY <1>1, <2>2, <2>3, <2>5, Zenon
  <2> QED
    BY <1>1, <1>2, <2>3, <2>6, Zenon
<1>5. ASSUME NEW n \in Nids, AsyncSend(n)
      PROVE  FramesKnown'
  BY <1>4, <1>5, EntryTypes, Zenon DEF AsyncSend, FindNidRoute, KInv, RoutesKnown
<1>6. ASSUME NEW c \in Cmds, NEW sub \in sub_table_[c], PublishTo(c, sub)
      PROVE  FramesKnown'
  BY <1>4, <1>6, EntryTypes, Zenon DEF PublishTo, KInv, SubsKnown
<1>7. CASE sendQueue' = sendQueue
  BY <1>1, <1>2, <1>7, Zenon
<1> QED
  BY <1>3, <1>5, <1>6, <1>7, SendQueueSteps, Zenon

(***************************************************************************)
(* The frame a thread has in hand is for a node id its session presented:  *)
(* the session was open when the frame was taken.                          *)
(***************************************************************************)
LEMMA NidsKept ==
  ASSUME IInv, KInv, [Next]_vars
  PROVE  NidsOK'
<1>0. /\ \A s \in Sids : authedAs[s] \subseteq authedAs'[s]
      /\ \A q \in Reactors : thread[q] \in Thread /\ NidOK(thread[q])
  BY KnownStays, Zenon DEF IInv, TypeOK, KInv, NidsOK
<1> DEFINE Sent(t) ==
      t.nid # NoNid =>
        /\ t.at \in {"flush", "close", "closefd", "killed"} /\ t.back \in {"events", "sends"}
        /\ t.sid \in Sids /\ t.nid \in authedAs'[t.sid]
<1>1. ASSUME \A q \in Reactors : Sent(thread'[q])
      PROVE  NidsOK'
  BY <1>1, ZenonT(40) DEF NidsOK, NidOK
<1>2. ASSUME NEW t, NidOK(t)
      PROVE  Sent(t)
  BY <1>0, <1>2, Zenon DEF NidOK
<1>3. ASSUME NEW t, NEW u, NidOK(t), Sending(t, u)
      PROVE  Sent(u)
  BY <1>0, <1>3, Zenon DEF NidOK, Sending
<1>4. ASSUME NEW r \in Reactors, Taking(r, thread'[r])
      PROVE  Sent(thread'[r])
  <2> DEFINE f == Head(sendQueue[r])
  <2>1. /\ sendQueue[r] # << >> /\ f.sid \in Sids /\ sessions_[r][f.sid] # NoSession
        /\ thread'[r].at = "flush" /\ thread'[r].back \in {"events", "sends"}
        /\ thread'[r].sid = f.sid /\ thread'[r].nid = f.nid
    BY <1>4, Zenon DEF Taking
  <2>2. 1 \in 1 .. Len(sendQueue[r]) /\ f = sendQueue[r][1]
    <3>1. sendQueue[r] \in Seq(Frame)
      BY Zenon DEF IInv, TypeOK
    <3> QED
      BY <2>1, <3>1
  <2>3. Known(f.sid, f.nid)
    BY <2>2, Zenon DEF KInv, FramesKnown
  <2> HIDE DEF f
  <2>4. f.nid \in authedAs[f.sid]
    BY <2>1, <2>3, LiveNotDead, Zenon DEF Known
  <2> QED
    BY <1>0, <2>1, <2>4, Zenon
<1> HIDE DEF Sent
<1>5. CASE thread' = thread
  BY <1>0, <1>1, <1>2, <1>5, Zenon
<1>6. ASSUME NEW r \in Reactors, FlushSigpipe(r)
      PROVE  NidsOK'
  <2>1. ASSUME NEW t \in Thread, NidOK(t)
        PROVE  Sent([t EXCEPT !.at = "killed"])
    <3> DEFINE u == [t EXCEPT !.at = "killed"]
    <3>1. u.at = "killed" /\ u.nid = t.nid /\ u.sid = t.sid /\ u.back = t.back
      BY Zenon DEF Thread
    <3> HIDE DEF u
    <3>2. Sent(u)
      BY <1>2, <2>1, <3>1, Zenon DEF Sent
    <3> QED
      BY <3>2 DEF u
  <2>2. \A q \in Reactors : thread'[q] = [thread[q] EXCEPT !.at = "killed"]
    BY <1>6, Zenon DEF FlushSigpipe
  <2> QED
    BY <1>0, <1>1, <2>1, <2>2, Zenon
<1>7. ASSUME NEW r \in Reactors, ThreadNext(r)
      PROVE  NidsOK'
  <2>1. Sent(thread'[r])
    <3>1. CASE thread'[r].nid = NoNid
      BY <3>1, Zenon DEF Sent
    <3>2. CASE Sending(thread[r], thread'[r])
      BY <1>0, <1>3, <3>2, Zenon
    <3> QED
      BY <1>4, <1>7, <3>1, <3>2, Zenon DEF ThreadNext
  <2>2. \A q \in Reactors : q = r \/ thread'[q] = thread[q]
    BY <1>7, Zenon DEF ThreadNext
  <2> QED
    BY <1>0, <1>1, <1>2, <2>1, <2>2, Zenon
<1> QED
  BY <1>0, <1>5, <1>6, <1>7, ThreadGoes, RouterSteps, Zenon

(***************************************************************************)
(* A thread that goes on with an erased Session has the id of a session    *)
(* that is gone.                                                           *)
(***************************************************************************)
LEMMA DanglingKept ==
  ASSUME IInv, KInv, [Next]_vars
  PROVE  DanglingDead'
<1>0. /\ \A s \in Sids : Dead(s) => Dead(s)'
      /\ \A q \in Reactors :
           thread[q].at = "dangling" => thread[q].sid \in Sids /\ Dead(thread[q].sid)
  BY KnownStays, ZenonT(40) DEF IInv, HandsOK, HandOK, KInv, DanglingDead, At
<1>1. ASSUME NEW q \in Reactors, thread'[q] = thread[q]
      PROVE  (At(q, "dangling") => Dead(thread[q].sid))'
  BY <1>0, <1>1, ZenonT(40) DEF At, Dead
<1>2. CASE thread' = thread
  BY <1>1, <1>2, Zenon DEF DanglingDead
<1>3. ASSUME NEW r \in Reactors, CloseErase(r), NEW s, s = thread[r].sid
      PROVE  Dead(s)'
  <2>1. /\ s \in Sids /\ thread[r].fd \in Fds /\ fdTable[thread[r].fd] = s
    BY <1>3, InHandSession, Zenon DEF CloseErase, At, Holding
  <2>2. fdTable' = [fdTable EXCEPT ![thread[r].fd] = NoSid] /\ next_sid_' = next_sid_
    BY <1>3, Zenon DEF CloseErase
  <2>3. fdTable \in [Fds -> Sids \cup {NoSid}] /\ SidsOnce /\ s # NoSid
    BY <2>1, SidsArePositive, Zenon DEF IInv, TypeOK, Owned
  <2> QED
    BY <2>1, <2>2, <2>3, Zenon DEF Dead, SidsOnce
<1>4. ASSUME NEW r \in Reactors, ThreadNext(r)
      PROVE  DanglingDead'
  <2>1. CloseOrder(r, thread[r], thread'[r]) /\ \A q \in Reactors : q = r \/ thread'[q] = thread[q]
    BY <1>4, Zenon DEF ThreadNext
  <2>2. (At(r, "dangling") => Dead(thread[r].sid))'
    BY <1>3, <2>1, Zenon DEF CloseOrder, At, Dead
  <2> QED
    BY <1>1, <2>1, <2>2, Zenon DEF DanglingDead
<1>5. ASSUME NEW r \in Reactors, FlushSigpipe(r)
      PROVE  DanglingDead'
  <2>1. \A q \in Reactors : thread'[q].at = "killed"
    BY <1>5, ZenonT(40) DEF FlushSigpipe, IInv, TypeOK, Thread
  <2> QED
    BY <2>1 DEF DanglingDead, At
<1> QED
  BY <1>2, <1>4, <1>5, ThreadGoes, RouterSteps, Zenon DEF KInv, NidsOK

(***************************************************************************)
(* Nothing is known, and nothing sent, at the start.                       *)
(***************************************************************************)
LEMMA InitKnown == Init => KInv
<1> SUFFICES ASSUME Init
             PROVE  KInv
  BY Zenon
<1>1. \A r \in Reactors : thread[r].nid = NoNid /\ thread[r].at = "wait"
  BY Zenon DEF Init, IdleThread
<1>2. \A r \in Reactors : Len(sendQueue[r]) = 0
  BY ZenonT(40) DEF Init
<1>3. SessionsNamed /\ SubsKnown /\ RoutesKnown
  BY Zenon DEF Init, RouterInit, SessionsNamed, SubsKnown, RoutesKnown
<1>4. FramesKnown
  BY <1>2 DEF FramesKnown
<1>5. NidsOK /\ DanglingDead
  BY <1>1, Zenon DEF NidsOK, NidOK, DanglingDead, At
<1> QED
  BY <1>3, <1>4, <1>5, Zenon DEF KInv

(***************************************************************************)
(* The invariant holds in every state.                                     *)
(***************************************************************************)
LEMMA KnownInvariance == Spec => []KInv
<1>1. IInv /\ KInv /\ [Next]_vars => KInv'
  BY NamesKept, EntriesKnown, FramesKept, NidsKept, DanglingKept, Zenon DEF KInv
<1> QED
  BY <1>1, InitKnown, Invariance, PTL DEF Spec

(***************************************************************************)
(* A frame AsyncSend or Publish looked up for a node id is written only to *)
(* a connection that presented that node id and is still the one its       *)
(* session had, also where the read loop handles frames after its session  *)
(* has been erased: a session id is never given out twice.                 *)
(***************************************************************************)
THEOREM FramesAlwaysReachTheirNode == Spec => []FramesReachTheirNode
<1>1. IInv /\ KInv => FramesReachTheirNode
  BY InHandSession, Zenon DEF FramesReachTheirNode, KInv, NidsOK, NidOK, At, Holding
<1> QED
  BY <1>1, Invariance, KnownInvariance, PTL

-----------------------------------------------------------------------------
(* One entry per subscriber                                                 *)

(***************************************************************************)
(* A session is in a command's list at most once: Subscribe replaces the   *)
(* entry the session had.                                                  *)
(***************************************************************************)
THEOREM SubscribersListedOnce == Spec => []OneEntryPerSubscriber
<1>1. Init => OneEntryPerSubscriber
  BY DEF Init, RouterInit, OneEntryPerSubscriber
<1>2. ASSUME IInv, OneEntryPerSubscriber, [Next]_vars
      PROVE  OneEntryPerSubscriber'
  <2>0. sub_table_ \in [Cmds -> SUBSET Subscriber]
    BY <1>2, Zenon DEF IInv, TypeOK, RouterTypeOK
  <2>1. ASSUME \A c \in Cmds : sub_table_'[c] \subseteq sub_table_[c]
        PROVE  OneEntryPerSubscriber'
    BY <1>2, <2>1, Zenon DEF OneEntryPerSubscriber
  <2>2. ASSUME NEW c \in Cmds, NEW x, Subscribe(c, x)
        PROVE  OneEntryPerSubscriber'
    <3>1. /\ sub_table_'[c] = NotOf(x.sid, sub_table_[c]) \cup {x}
          /\ \A d \in Cmds : d = c \/ sub_table_'[d] = sub_table_[d]
      BY <2>0, <2>2, Zenon DEF Subscribe
    <3> QED
      BY <1>2, <3>1 DEF OneEntryPerSubscriber, NotOf
  <2>3. ASSUME NEW r \in Reactors, Reactor(r)
        PROVE  OneEntryPerSubscriber'
    <3>1. CASE \E c \in Cmds : HandleSub(r, c)
      BY <2>2, <3>1, Zenon DEF HandleSub
    <3>2. CASE DanglingRecv(r)
      <4>1. ASSUME NEW c \in Cmds, Unsubscribe(c, thread[r].sid)
            PROVE  OneEntryPerSubscriber'
        BY <2>0, <2>1, <4>1, Zenon DEF Unsubscribe, NotOf
      <4> QED
        BY <2>1, <2>2, <3>2, <4>1, Zenon DEF DanglingRecv, Authenticate, BindNid, routerVars
    <3>3. CASE ~(\E c \in Cmds : HandleSub(r, c)) /\ ~DanglingRecv(r)
      BY <1>2, <2>1, <2>3, <3>3, EntriesFrom, Zenon
    <3> QED
      BY <3>1, <3>2, <3>3, Zenon
  <2> QED
    BY <1>2, <2>1, <2>3, RouterSteps, Zenon DEF routerVars
<1> QED
  BY <1>1, <1>2, Invariance, PTL DEF Spec

=============================================================================
