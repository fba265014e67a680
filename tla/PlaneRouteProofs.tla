------------------------- MODULE PlaneRouteProofs ---------------------------
(***************************************************************************)
(* Who the Router's entries name as long as no frame is handled for an     *)
(* erased session, and that a stop leaves no session open, for instances   *)
(* of any size.                                                            *)
(***************************************************************************)
EXTENDS PlaneFrameProofs

-----------------------------------------------------------------------------
(* Subscriptions and routes belong to open sessions                         *)

\* The session is out of the Router, and about to be erased.
Closing(r, s) == At(r, "closefd") /\ thread[r].sid = s

(***************************************************************************)
(* A session lives at one reactor.                                         *)
(***************************************************************************)
LEMMA OneHome ==
  ASSUME IInv, NEW p \in Reactors, NEW q \in Reactors, NEW s \in Sids,
         sessions_[p][s] # NoSession, sessions_[q][s] # NoSession
  PROVE  p = q
<1> DEFINE fd == sessions_[p][s].fd
           fe == sessions_[q][s].fd
<1>1. fd \in Fds /\ fe \in Fds /\ fd_to_sid_[p][fd] = s /\ fd_to_sid_[q][fe] = s /\ s # NoSid
  BY Tables, SidsArePositive, Zenon
<1>2. fdTable[fd] = s /\ fdTable[fe] = s
  <2>1. \A r \in Reactors, fx \in Fds : fd_to_sid_[r][fx] # NoSid => fdTable[fx] = fd_to_sid_[r][fx]
    BY Tables, Zenon
  <2> HIDE DEF fd, fe
  <2> QED
    BY <1>1, <2>1
<1> HIDE DEF fd, fe
<1> QED
  BY <1>1, <1>2, ZenonT(40) DEF IInv, Owned, SidsOnce, OneReactor

(***************************************************************************)
(* A connection in a conn queue is nobody's session yet.                   *)
(***************************************************************************)
LEMMA QueuedIsNew ==
  ASSUME IInv, NEW r \in Reactors, connQueue[r] # << >>
  PROVE  LET c == Head(connQueue[r]) IN
         c.sid \in Sids /\ \A q \in Reactors : sessions_[q][c.sid] = NoSession
<1> DEFINE c == Head(connQueue[r])
<1>1. c.fd \in Fds /\ c.sid \in Sids /\ Fresh(c.fd, c.sid)
  <2>1. 1 \in 1 .. Len(connQueue[r]) /\ c = connQueue[r][1]
    BY QueuedConnections
  <2> QED
    BY <2>1, QueuedConnections, Zenon
<1> HIDE DEF c
<1>2. ASSUME NEW q \in Reactors, sessions_[q][c.sid] # NoSession
      PROVE  FALSE
  <2> DEFINE fe == sessions_[q][c.sid].fd
  <2>1. fe \in Fds /\ fd_to_sid_[q][fe] = c.sid /\ c.sid # NoSid
    BY <1>1, <1>2, Tables, SidsArePositive, ZenonT(40)
  <2> HIDE DEF fe
  <2>2. fdTable[fe] = c.sid
    BY <2>1, Tables, Zenon
  <2> QED
    BY <1>1, <2>1, <2>2, Zenon DEF Fresh, IInv, Owned, SidsOnce
<1> QED
  BY <1>1, <1>2, Zenon DEF c

\* What a step of r may do to session s of q, which is open.
Stays(q, s) ==
  /\ sessions_'[q][s] # NoSession
  /\ sessions_'[q][s].authed = sessions_[q][s].authed /\ sessions_'[q][s].nid = sessions_[q][s].nid

Authenticates(r, q, s) ==
  /\ q = r /\ s = thread[r].sid
  /\ \E n \in Nids : HandleAuth(r, n) /\ sessions_'[q][s].nid = n
  /\ sessions_'[q][s] # NoSession /\ sessions_'[q][s].authed

Ends(r, q, s) == CloseErase(r) /\ q = r /\ s = thread[r].sid

(***************************************************************************)
(* A step of a reactor leaves a session as it is, authenticates it or      *)
(* ends it, and a session that begins has no node id.                      *)
(***************************************************************************)
LEMMA SessionSteps ==
  ASSUME IInv, NEW r \in Reactors, Reactor(r)
  PROVE  \A q \in Reactors, s \in Sids :
           IF sessions_[q][s] # NoSession
             THEN Stays(q, s) \/ Authenticates(r, q, s) \/ Ends(r, q, s)
             ELSE sessions_'[q][s] # NoSession => sessions_'[q][s].nid = NoNid
<1> DEFINE Step(q, s) ==
             IF sessions_[q][s] # NoSession
               THEN Stays(q, s) \/ Authenticates(r, q, s) \/ Ends(r, q, s)
               ELSE sessions_'[q][s] # NoSession => sessions_'[q][s].nid = NoNid
<1>0. sessions_ \in [Reactors -> [Sids -> Session \cup {NoSession}]]
  BY DEF IInv, TypeOK
<1>1. CASE SameNames
  BY <1>1 DEF SameNames, Stays
<1>2. ASSUME NEW x \in Sids, OtherSessions(r, x), Step(r, x)
      PROVE  \A q \in Reactors, s \in Sids : Step(q, s)
  BY <1>2 DEF OtherSessions, Stays
<1> HIDE DEF Step
<1>3. ASSUME NEW n \in Nids, HandleAuth(r, n)
      PROVE  \A q \in Reactors, s \in Sids : Step(q, s)
  <2> DEFINE s == [Ref(r) EXCEPT !.authed = TRUE, !.nid = n]
  <2>0. At(r, "read") /\ thread[r].sid \in Sids /\ Ref(r) \in Session /\ Ref(r) # NoSession
    BY <1>3, InHandSession, Zenon DEF HandleAuth, At, Holding
  <2>1. s \in Session /\ s.authed /\ s.nid = n
    BY <2>0, Zenon DEF Session
  <2>2. CallAck(r, s)
    BY <1>3, Zenon DEF HandleAuth
  <2> HIDE DEF s
  <2>3. /\ sessions_'[r][thread[r].sid] # NoSession
        /\ sessions_'[r][thread[r].sid].authed = s.authed
        /\ sessions_'[r][thread[r].sid].nid = s.nid
        /\ OtherSessions(r, thread[r].sid)
    BY <2>0, <2>1, <2>2, AckSets, Zenon
  <2>4. Authenticates(r, r, thread[r].sid)
    BY <1>3, <2>1, <2>3, Zenon DEF Authenticates
  <2> QED
    BY <1>2, <2>0, <2>3, <2>4, Zenon DEF Step, Ref
<1>4. CASE TakeConnection(r)
  <2> DEFINE c == Head(connQueue[r])
             x == [fd |-> c.fd, authed |-> FALSE, nid |-> NoNid, outbuf |-> FALSE]
  <2>1. sessions_' = [sessions_ EXCEPT ![r][c.sid] = x] /\ connQueue[r] # << >>
    BY <1>4, Zenon DEF TakeConnection, Register
  <2>2. c.sid \in Sids /\ sessions_[r][c.sid] = NoSession
    BY <2>1, QueuedIsNew, Zenon
  <2>3. x.nid = NoNid
    OBVIOUS
  <2> HIDE DEF x, c
  <2>4. sessions_'[r][c.sid] = x /\ OtherSessions(r, c.sid)
    BY <1>0, <2>1, <2>2, Zenon DEF OtherSessions
  <2> QED
    BY <1>2, <2>2, <2>3, <2>4, Zenon DEF Step
<1>5. CASE CloseErase(r)
  <2>1. thread[r].sid \in Sids /\ Ref(r) # NoSession
    BY <1>5, InHandSession DEF CloseErase, At, Holding
  <2>2. sessions_' = [sessions_ EXCEPT ![r][thread[r].sid] = NoSession]
    BY <1>5, Zenon DEF CloseErase, EraseTables
  <2>3. OtherSessions(r, thread[r].sid)
    BY <1>0, <2>1, <2>2, Zenon DEF OtherSessions
  <2> QED
    BY <1>2, <1>5, <2>1, <2>3, Zenon DEF Step, Ends, Ref
<1>6. CASE FlushSigpipe(r) \/ CloseRemove(r) \/ DanglingRecv(r)
  BY <1>1, <1>6, Zenon DEF FlushSigpipe, CloseRemove, DanglingRecv, owned, SameNames
<1>7. ASSUME NEW c \in Cmds, HandleSub(r, c) \/ HandleUnsub(r, c)
      PROVE  SameNames
  BY <1>7, AckKeepsNames, SMTT(30) DEF HandleSub, HandleUnsub
<1> QED
  BY <1>1, <1>3, <1>4, <1>5, <1>6, <1>7, QuietSteps, Zenon DEF Quiet, Step

(***************************************************************************)
(* CloseSession takes a session out of the Router before it erases it.     *)
(***************************************************************************)
LEMMA ClosingSteps ==
  ASSUME IInv, KInv, NEW r \in Reactors, Reactor(r)
  PROVE  /\ \A q \in Reactors, s \in Sids : Closing(q, s)' =>
              Closing(q, s) \/ (CloseRemove(r) /\ q = r /\ s = thread[r].sid)
         /\ \A q \in Reactors, s \in Sids : Closing(q, s) =>
              Closing(q, s)' \/ FlushSigpipe(r) \/ Ends(r, q, s)
<1>1. CASE thread' = thread
  BY <1>1 DEF Closing, At
<1>2. CASE FlushSigpipe(r)
  <2>1. \A q \in Reactors : thread'[q].at = "killed"
    BY <1>2, ZenonT(40) DEF FlushSigpipe, IInv, TypeOK, Thread
  <2> QED
    BY <1>2, <2>1, SMTT(30) DEF Closing, At
<1>3. CASE ThreadNext(r)
  <2>1. CloseOrder(r, thread[r], thread'[r]) /\ \A q \in Reactors : q = r \/ thread'[q] = thread[q]
    BY <1>3, Zenon DEF ThreadNext
  <2> QED
    BY <2>1 DEF CloseOrder, Closing, At, Ends
<1> QED
  BY <1>1, <1>2, <1>3, ThreadGoes, Zenon DEF KInv, NidsOK

(***************************************************************************)
(* The steps of the others leave the sessions and what names them alone.   *)
(***************************************************************************)
LEMMA NonReactorSteps ==
  ASSUME [Next]_vars, ~\E r \in Reactors : Reactor(r)
  PROVE  UNCHANGED <<routerVars, sessions_, thread, authedAs, lastAuth>> /\ (up' => up)
<1> DEFINE Rest == UNCHANGED <<routerVars, sessions_, thread, authedAs, lastAuth>>
<1>1. CASE Listener
  <2>1. Rest
    BY <1>1 DEF Listener, ListenerPush, ListenerDrop, ListenerNotify, ListenerExit, owned, history
  <2>2. up
    BY <1>1 DEF Listener, ListenerPush, ListenerDrop, ListenerNotify, ListenerExit, up
  <2> QED
    BY <2>1, <2>2
<1>2. ASSUME NEW fd \in Fds, NEW r \in Reactors, Accept(fd, r)
      PROVE  Rest /\ up
  BY <1>2 DEF Accept, owned, history, up
<1>3. ASSUME NEW rt, NEW n, RouteFrame(rt, n)
      PROVE  Rest /\ up
  BY <1>3 DEF RouteFrame, owned, history
<1>4. CASE RequestStop
  BY <1>4 DEF RequestStop, owned, history
<1>5. CASE UNCHANGED vars
  BY <1>5 DEF vars, owned, history, accepting, up
<1> QED
  BY <1>1, <1>2, <1>3, <1>4, <1>5, Zenon DEF Next, AsyncSend, PublishTo

\* A subscription's session is open and authenticated, its close not begun.
SubsOK ==
  \A c \in Cmds : \A sub \in sub_table_[c] :
    /\ sessions_[sub.reactor_idx][sub.sid] # NoSession
    /\ sessions_[sub.reactor_idx][sub.sid].authed
    /\ ~Closing(sub.reactor_idx, sub.sid)

(***************************************************************************)
(* As long as no frame is handled for an erased session, a subscription    *)
(* belongs to a session that is open and authenticated, on the reactor it  *)
(* names: CloseSession removes a session's subscriptions before it erases  *)
(* the session.                                                            *)
(***************************************************************************)
THEOREM SubscribersStayLive == ASSUME ~FreedReads PROVE Spec => []SubscribersLive
<1>1. Init => SubsOK
  BY Zenon DEF Init, RouterInit, SubsOK
<1>2. ASSUME IInv, KInv, SubsOK, NEW r \in Reactors, Reactor(r)
      PROVE  SubsOK'
  <2>1. ASSUME NEW c \in Cmds, NEW x \in sub_table_'[c], x \in sub_table_[c]
        PROVE  /\ sessions_'[x.reactor_idx][x.sid] # NoSession
               /\ sessions_'[x.reactor_idx][x.sid].authed
               /\ ~Closing(x.reactor_idx, x.sid)'
    <3> DEFINE q == x.reactor_idx
               s == x.sid
    <3>1. /\ q \in Reactors /\ s \in Sids /\ sessions_[q][s] # NoSession
          /\ sessions_[q][s].authed /\ ~Closing(q, s)
      BY <1>2, <2>1, EntryTypes, Zenon DEF SubsOK
    <3> HIDE DEF q, s
    <3>2. ~Ends(r, q, s)
      BY <3>1 DEF Ends, CloseErase, Closing
    <3>3. sessions_'[q][s] # NoSession /\ sessions_'[q][s].authed
      BY <1>2, <3>1, <3>2, SessionSteps, Zenon DEF Stays, Authenticates
    <3>4. CASE CloseRemove(r) /\ q = r /\ s = thread[r].sid
      <4>1. RemoveSession(thread[r].sid, Ref(r).nid)
        BY <3>1, <3>4, Zenon DEF CloseRemove, Ref
      <4>2. x \in NotOf(s, sub_table_[c])
        BY <2>1, <3>4, <4>1, Zenon DEF RemoveSession
      <4> QED
        BY <4>2, Zenon DEF NotOf, s
    <3>5. CASE ~(CloseRemove(r) /\ q = r /\ s = thread[r].sid)
      <4>1. ~Closing(q, s)'
        BY <1>2, <3>1, <3>5, ClosingSteps, Zenon
      <4> QED
        BY <3>3, <4>1 DEF q, s
    <3> QED
      BY <3>4, <3>5, Zenon
  <2>2. ASSUME NEW c \in Cmds, HandleSub(r, c),
               NEW x, x = [sid |-> thread[r].sid, nid |-> Ref(r).nid, reactor_idx |-> r]
        PROVE  /\ sessions_'[x.reactor_idx][x.sid] # NoSession
               /\ sessions_'[x.reactor_idx][x.sid].authed
               /\ ~Closing(x.reactor_idx, x.sid)'
    <3>1. /\ thread[r].sid \in Sids /\ Ref(r) # NoSession /\ Ref(r).authed
          /\ thread[r].at = "read"
      BY <1>2, <2>2, InHandSession, SMTT(30) DEF HandleSub, At, Holding
    <3>2. ~CloseErase(r) /\ ~CloseRemove(r)
      BY <3>1 DEF CloseErase, CloseRemove, At
    <3>3. ~Closing(r, thread[r].sid)
      BY <3>1, Zenon DEF Closing, At
    <3>4. /\ sessions_'[r][thread[r].sid] # NoSession
          /\ sessions_'[r][thread[r].sid].authed
      BY <1>2, <3>1, <3>2, SessionSteps, SMTT(30) DEF Stays, Authenticates, Ends, Ref
    <3>5. \A s \in Sids : s = thread[r].sid => ~Closing(r, s)'
      BY <1>2, <3>1, <3>2, <3>3, ClosingSteps, SMTT(30)
    <3>6. x.reactor_idx = r /\ x.sid = thread[r].sid
      BY <2>2
    <3> QED
      BY <3>1, <3>4, <3>5, <3>6, Zenon
  <2>3. ~DanglingRecv(r)
    BY DEF DanglingRecv
  <2> QED
    BY <1>2, <2>1, <2>2, <2>3, EntriesFrom, Zenon DEF SubsOK
<1>3. ASSUME [Next]_vars, ~(\E r \in Reactors : Reactor(r)), SubsOK
      PROVE  SubsOK'
  BY <1>3, NonReactorSteps, Zenon DEF SubsOK, Closing, At, routerVars
<1>4. IInv /\ KInv /\ SubsOK /\ [Next]_vars => SubsOK'
  BY <1>2, <1>3
<1>5. SubsOK => SubscribersLive
  BY Zenon DEF SubsOK, SubscribersLive
<1> QED
  BY <1>1, <1>4, <1>5, Invariance, KnownInvariance, PTL DEF Spec

(***************************************************************************)
(* What a step does to the route of a node id, when no frame is handled    *)
(* for an erased session.                                                  *)
(***************************************************************************)
LEMMA RouteSteps ==
  ASSUME IInv, ~FreedReads, NEW r \in Reactors, Reactor(r), NEW n \in Nids
  PROVE  \/ nid_map_'[n] = nid_map_[n] /\ ~(CloseRemove(r) /\ Ref(r).authed /\ Ref(r).nid = n
                                            /\ BoundTo(n, thread[r].sid))
         \/ HandleAuth(r, n) /\ nid_map_'[n] = [sid |-> thread[r].sid, reactor_idx |-> r]
         \/ CloseRemove(r) /\ BoundTo(n, thread[r].sid) /\ Ref(r).nid = n /\ nid_map_'[n] = NoRoute
<1>0. nid_map_ \in [Nids -> NidRoute \cup {NoRoute}]
  BY Zenon DEF IInv, TypeOK, RouterTypeOK
<1>1. CASE CloseRemove(r)
  <2>1. CASE Ref(r).authed
    <3>1. nid_map_' = IF BoundTo(Ref(r).nid, thread[r].sid)
                        THEN [nid_map_ EXCEPT ![Ref(r).nid] = NoRoute] ELSE nid_map_
      BY <1>1, <2>1, ZenonT(40) DEF CloseRemove, RemoveSession
    <3> QED
      BY <1>0, <1>1, <3>1, Zenon
  <2>2. CASE ~Ref(r).authed
    BY <1>1, <2>2, Zenon DEF CloseRemove, routerVars
  <2> QED
    BY <2>1, <2>2, Zenon
<1>2. ASSUME NEW m \in Nids, HandleAuth(r, m), ~CloseRemove(r)
      PROVE  \/ nid_map_'[n] = nid_map_[n]
             \/ HandleAuth(r, n) /\ nid_map_'[n] = [sid |-> thread[r].sid, reactor_idx |-> r]
  <2>1. nid_map_' = [nid_map_ EXCEPT ![m] = [sid |-> thread[r].sid, reactor_idx |-> r]]
    BY <1>2, Zenon DEF HandleAuth, Authenticate, BindNid
  <2> QED
    BY <1>0, <1>2, <2>1, Zenon
<1>3. CASE ~CloseRemove(r) /\ ~\E m \in Nids : HandleAuth(r, m)
  <2>1. ~DanglingRecv(r)
    BY DEF DanglingRecv
  <2>2. nid_map_' = nid_map_
    BY <1>3, <2>1, QuietSteps, ZenonT(40)
       DEF Quiet, TakeConnection, Register, FlushSigpipe, CloseErase,
                                  HandleSub, HandleUnsub, Subscribe, Unsubscribe, routerVars
  <2> QED
    BY <1>3, <2>2, Zenon
<1> QED
  BY <1>1, <1>2, <1>3, Zenon

\* A route's session is open under that node id, or has presented another since.
RoutesOK ==
  \A n \in Nids :
    nid_map_[n] # NoRoute =>
      \/ OpenAs(nid_map_[n].reactor_idx, nid_map_[n].sid, n)
      \/ \E m \in authedAs[nid_map_[n].sid] : m # n

(***************************************************************************)
(* As long as no frame is handled for an erased session, the only routes   *)
(* to a session that is gone are those it left behind by authenticating    *)
(* again under another node id.                                            *)
(***************************************************************************)
THEOREM RoutesStayLiveUnlessRenamed == ASSUME ~FreedReads PROVE Spec => []RoutesLiveUnlessRenamed
<1>1. Init => RoutesOK
  BY DEF Init, RouterInit, RoutesOK
<1>2. ASSUME IInv, KInv, RoutesOK, [Next]_vars, NEW r \in Reactors, Reactor(r)
      PROVE  RoutesOK'
  <2> DEFINE OK(q, s, n) == OpenAs(q, s, n)' \/ \E m \in authedAs'[s] : m # n
  <2>0. authedAs \in [Sids -> SUBSET Nids] /\ \A s \in Sids : authedAs[s] \subseteq authedAs'[s]
    BY <1>2, KnownStays, Zenon DEF IInv, TypeOK
  <2>1. ASSUME NEW n \in Nids, nid_map_'[n] = nid_map_[n], nid_map_[n] # NoRoute,
               NEW q, NEW s, q = nid_map_[n].reactor_idx, s = nid_map_[n].sid,
               ~(CloseRemove(r) /\ Ref(r).authed /\ Ref(r).nid = n /\ BoundTo(n, thread[r].sid))
        PROVE  OK(q, s, n)
    <3>1. q \in Reactors /\ s \in Sids
      BY <1>2, <2>1, EntryTypes, ZenonT(40)
    <3>2. CASE \E m \in authedAs[s] : m # n
      BY <2>0, <3>1, <3>2, Zenon
    <3>3. CASE OpenAs(q, s, n)
      <4>1. sessions_[q][s] # NoSession /\ sessions_[q][s].nid = n /\ ~Closing(q, s)
        BY <3>3 DEF OpenAs, Closing
      <4>2. ~Ends(r, q, s)
        BY <4>1 DEF Ends, CloseErase, Closing
      <4>3. CASE Authenticates(r, q, s)
        <5>1. PICK m \in Nids : HandleAuth(r, m) /\ sessions_'[q][s].nid = m
          BY <4>3, Zenon DEF Authenticates
        <5>2. m \in authedAs'[s]
          BY <2>0, <3>1, <4>3, <5>1, Zenon DEF HandleAuth, Authenticate, Authenticates
        <5>3. CASE m # n
          BY <5>2, <5>3, Zenon
        <5>4. CASE m = n
          <6>1. ~CloseRemove(r)
            BY <5>1 DEF HandleAuth, CloseRemove, At
          <6>2. ~Closing(q, s)'
            BY <1>2, <3>1, <4>1, <6>1, ClosingSteps, Zenon
          <6> QED
            BY <4>3, <5>1, <5>4, <6>2, Zenon DEF Authenticates, OpenAs, Closing
        <5> QED
          BY <5>3, <5>4, Zenon
      <4>4. CASE Stays(q, s)
        <5>1. CASE CloseRemove(r) /\ q = r /\ s = thread[r].sid
          <6>1. sessions_[q][s].authed
            BY <1>2, <3>1, <4>1, PlaneAssumption, Zenon DEF KInv, SessionsNamed
          <6> QED
            BY <2>1, <4>1, <5>1, <6>1, Zenon DEF BoundTo, Ref
        <5>2. CASE ~(CloseRemove(r) /\ q = r /\ s = thread[r].sid)
          <6>1. ~Closing(q, s)'
            BY <1>2, <3>1, <4>1, <5>2, ClosingSteps, Zenon
          <6> QED
            BY <4>1, <4>4, <6>1, Zenon DEF Stays, OpenAs, Closing
        <5> QED
          BY <5>1, <5>2, Zenon
      <4> QED
        BY <1>2, <3>1, <4>1, <4>2, <4>3, <4>4, SessionSteps, ZenonT(40)
    <3> QED
      BY <1>2, <2>1, <3>2, <3>3, Zenon DEF RoutesOK
  <2>2. ASSUME NEW n \in Nids, HandleAuth(r, n), NEW s, s = thread[r].sid
        PROVE  OK(r, s, n)
    <3>1. s \in Sids /\ Ref(r) # NoSession /\ thread[r].at = "read"
      BY <1>2, <2>2, InHandSession, Zenon DEF HandleAuth, At, Holding
    <3>2. ~CloseErase(r) /\ ~CloseRemove(r) /\ ~Closing(r, s)
      BY <3>1 DEF CloseErase, CloseRemove, Closing, At
    <3>3. ~Closing(r, s)'
      BY <1>2, <3>1, <3>2, ClosingSteps, Zenon
    <3> DEFINE x == [Ref(r) EXCEPT !.authed = TRUE, !.nid = n]
    <3>4. x \in Session /\ x.nid = n
      <4>1. Ref(r) \in Session
        BY <1>2, <3>1, InHandSession, Zenon DEF Holding
      <4> QED
        BY <4>1, Zenon DEF Session
    <3>5. CallAck(r, x)
      BY <2>2, Zenon DEF HandleAuth
    <3> HIDE DEF x
    <3>6. sessions_'[r][thread[r].sid] # NoSession /\ sessions_'[r][thread[r].sid].nid = x.nid
      BY <1>2, <3>1, <3>4, <3>5, AckSets, Zenon DEF At
    <3> QED
      BY <2>2, <3>3, <3>4, <3>6, Zenon DEF OpenAs, Closing
  <2> SUFFICES ASSUME NEW n \in Nids, nid_map_'[n] # NoRoute,
                      NEW q, NEW s, q = nid_map_'[n].reactor_idx, s = nid_map_'[n].sid
               PROVE  OK(q, s, n)
    BY Zenon DEF RoutesOK, OpenAs, At
  <2> HIDE DEF OK
  <2>3. CASE HandleAuth(r, n) /\ nid_map_'[n] = [sid |-> thread[r].sid, reactor_idx |-> r]
    <3>1. q = r /\ s = thread[r].sid
      BY <2>3, SMTT(30)
    <3> QED
      BY <2>2, <2>3, <3>1, Zenon
  <2> QED
    BY <1>2, <2>1, <2>3, RouteSteps, Zenon
<1>3. ASSUME [Next]_vars, ~(\E r \in Reactors : Reactor(r)), RoutesOK
      PROVE  RoutesOK'
  BY <1>3, NonReactorSteps, Zenon DEF RoutesOK, OpenAs, At, routerVars
<1>4. IInv /\ KInv /\ RoutesOK /\ [Next]_vars => RoutesOK'
  BY <1>2, <1>3, Zenon
<1>5. RoutesOK => RoutesLiveUnlessRenamed
  BY Zenon DEF RoutesOK, RoutesLiveUnlessRenamed, OpenAs
<1> QED
  BY <1>1, <1>4, <1>5, Invariance, KnownInvariance, PTL DEF Spec

(***************************************************************************)
(* The last session to present a node id, after a step of a reactor.       *)
(***************************************************************************)
LEMMA AuthBy ==
  ASSUME IInv, ~FreedReads, NEW r \in Reactors, Reactor(r), NEW n \in Nids, ~HandleAuth(r, n)
  PROVE  lastAuth'[n] = lastAuth[n]
<1>0. lastAuth \in [Nids -> Sids \cup {NoSid}]
  BY Zenon DEF IInv, TypeOK
<1>1. ASSUME NEW m \in Nids, HandleAuth(r, m)
      PROVE  lastAuth'[n] = lastAuth[n]
  BY <1>0, <1>1, Zenon DEF HandleAuth, Authenticate
<1>2. CASE ~\E m \in Nids : HandleAuth(r, m)
  BY <1>2, QuietSteps, Zenon
     DEF Quiet, TakeConnection, Register, FlushSigpipe, CloseRemove, CloseErase,
                          DanglingRecv, HandleSub, HandleUnsub, history
<1> QED
  BY <1>1, <1>2, Zenon

(***************************************************************************)
(* As long as no frame is handled for an erased session, the last session  *)
(* to authenticate as a node has that node's route while it is open under  *)
(* the node id, whenever the session it took over from is closed.          *)
(***************************************************************************)
THEOREM LastAuthStaysRouted == ASSUME ~FreedReads PROVE Spec => []LastAuthRouted
<1>1. Init => LastAuthRouted
  BY Zenon DEF Init, LastAuthRouted
<1>2. ASSUME IInv, KInv, LastAuthRouted, NEW r \in Reactors, Reactor(r)
      PROVE  LastAuthRouted'
  <2>0. /\ lastAuth \in [Nids -> Sids \cup {NoSid}]
        /\ \A n \in Nids : lastAuth'[n] \in Sids \cup {NoSid}
    <3>1. lastAuth \in [Nids -> Sids \cup {NoSid}]
      BY <1>2, Zenon DEF IInv, TypeOK
    <3>2. ASSUME NEW n \in Nids, HandleAuth(r, n)
          PROVE  lastAuth'[n] \in Sids
      <4>1. thread[r].sid \in Sids
        BY <1>2, <3>2, InHandSession, ZenonT(40) DEF HandleAuth, At, Holding
      <4> QED
        BY <3>1, <3>2, <4>1, Zenon DEF HandleAuth, Authenticate
    <3> QED
      BY <1>2, <3>1, <3>2, AuthBy, Zenon
  <2>1. ASSUME up'
        PROVE  up /\ ~FlushSigpipe(r)
    <3>1. ~FlushSigpipe(r)
      BY <1>2, <2>1, SigpipeStep, Zenon DEF up
    <3>2. lsn' = lsn
      BY <1>2, <3>1, ReactorLeaves, Zenon
         DEF HandleWakeup, TakeConnection, Register, ConnectionsTaken,
                                       Return, OnlyMoves, accepting
    <3> QED
      BY <2>1, <3>1, <3>2, Zenon DEF up
  <2>2. ASSUME NEW n \in Nids, NEW q \in Reactors, NEW s \in Sids, OpenAs(q, s, n)',
               ~FlushSigpipe(r), ~Authenticates(r, q, s)
        PROVE  OpenAs(q, s, n)
    <3>1. sessions_'[q][s] # NoSession /\ sessions_'[q][s].nid = n /\ ~Closing(q, s)'
      BY <2>2, Zenon DEF OpenAs, Closing
    <3>2. n # NoNid
      BY PlaneAssumption, Zenon
    <3>3. sessions_[q][s] # NoSession
      BY <1>2, <3>1, <3>2, SessionSteps, Zenon
    <3>4. ~Ends(r, q, s)
      <4>1. ASSUME CloseErase(r)
            PROVE  sessions_'[r][thread[r].sid] = NoSession
        <5>1. /\ thread[r].sid \in Sids
              /\ sessions_ \in [Reactors -> [Sids -> Session \cup {NoSession}]]
          BY <1>2, <4>1, InHandSession, ZenonT(40) DEF CloseErase, At, Holding, IInv, TypeOK
        <5> QED
          BY <4>1, <5>1, Zenon DEF CloseErase, EraseTables
      <4> QED
        BY <3>1, <4>1, Zenon DEF Ends
    <3>5. Stays(q, s)
      BY <1>2, <2>2, <3>3, <3>4, SessionSteps, Zenon
    <3>6. ~Closing(q, s)
      BY <1>2, <2>2, <3>1, <3>4, ClosingSteps, Zenon
    <3> QED
      BY <3>1, <3>3, <3>5, <3>6, Zenon DEF Stays, OpenAs, Closing
  <2> SUFFICES ASSUME up', NEW n \in Nids, NEW q \in Reactors, NEW s,
                      s = lastAuth'[n], s # NoSid, OpenAs(q, s, n)'
               PROVE  nid_map_'[n] = [sid |-> s, reactor_idx |-> q]
    BY DEF LastAuthRouted, OpenAs, At
  <2>3. s \in Sids /\ sessions_'[q][s] # NoSession /\ sessions_'[q][s].nid = n
    BY <2>0, Zenon DEF OpenAs
  <2>4. CASE HandleAuth(r, n)
    <3>1. lastAuth'[n] = thread[r].sid
      BY <2>0, <2>4, Zenon DEF HandleAuth, Authenticate
    <3>2. thread[r].sid \in Sids /\ Ref(r) # NoSession
      BY <1>2, <2>4, InHandSession, Zenon DEF HandleAuth, At, Holding
    <3>3. sessions_[q][s] # NoSession
      BY <1>2, <2>3, PlaneAssumption, SessionSteps, ZenonT(40)
    <3>4. q = r
      BY <1>2, <3>1, <3>2, <3>3, OneHome, SMTT(30) DEF Ref
    <3>5. nid_map_'[n] = [sid |-> thread[r].sid, reactor_idx |-> r]
      <4>1. nid_map_ \in [Nids -> NidRoute \cup {NoRoute}]
        BY <1>2, Zenon DEF IInv, TypeOK, RouterTypeOK
      <4> QED
        BY <2>4, <4>1, Zenon DEF HandleAuth, Authenticate, BindNid
    <3> QED
      BY <3>1, <3>4, <3>5, Zenon
  <2>5. CASE ~HandleAuth(r, n)
    <3>1. lastAuth'[n] = lastAuth[n]
      BY <1>2, <2>5, AuthBy, Zenon
    <3>2. ~Authenticates(r, q, s)
      BY <2>3, <2>5, Zenon DEF Authenticates
    <3>3. up /\ ~FlushSigpipe(r) /\ OpenAs(q, s, n)
      BY <2>1, <2>2, <2>3, <3>2, Zenon
    <3>4. nid_map_[n] = [sid |-> s, reactor_idx |-> q]
      BY <1>2, <3>1, <3>3, Zenon DEF LastAuthRouted
    <3>5. ~(CloseRemove(r) /\ BoundTo(n, thread[r].sid))
      <4> SUFFICES ASSUME CloseRemove(r), BoundTo(n, thread[r].sid)
                   PROVE  FALSE
        OBVIOUS
      <4>1. thread[r].sid = s
        BY <3>4, SMTT(30) DEF BoundTo
      <4>2. sessions_[r][s] # NoSession /\ sessions_[q][s] # NoSession
        BY <1>2, <3>3, <4>1, InHandSession, Zenon DEF CloseRemove, At, Holding, Ref, OpenAs
      <4>3. q = r
        BY <1>2, <2>3, <4>2, OneHome, Zenon
      <4>4. thread'[r].at = "closefd" /\ thread'[r].sid = s
        <5>1. thread \in [Reactors -> Thread] /\ thread[r] \in Thread
          BY <1>2, Zenon DEF IInv, TypeOK
        <5>2. thread'[r] = [thread[r] EXCEPT !.at = "closefd"]
          BY <5>1, Zenon DEF CloseRemove, Goto
        <5> QED
          BY <4>1, <5>1, <5>2, Zenon DEF Thread
      <4> QED
        BY <4>3, <4>4, Zenon DEF OpenAs, At
    <3>6. nid_map_'[n] = nid_map_[n]
      BY <1>2, <2>5, <3>5, RouteSteps, ZenonT(40)
    <3> QED
      BY <3>4, <3>6, Zenon
  <2> QED
    BY <2>4, <2>5, Zenon
<1>3. ASSUME [Next]_vars, ~(\E r \in Reactors : Reactor(r)), LastAuthRouted
      PROVE  LastAuthRouted'
  BY <1>3, NonReactorSteps DEF LastAuthRouted, OpenAs, At, routerVars
<1>4. IInv /\ KInv /\ LastAuthRouted /\ [Next]_vars => LastAuthRouted'
  BY <1>2, <1>3, Zenon
<1> QED
  BY <1>1, <1>4, Invariance, KnownInvariance, PTL DEF Spec

-----------------------------------------------------------------------------
(* A stop                                                                   *)

\* Every open descriptor is the listener's, a conn queue's or a reactor's.
Accounted ==
  up => \A fd \in Fds : fdTable[fd] # NoSid =>
    \/ lsn.at = "push" /\ lsn.fd = fd
    \/ \E q \in Reactors : \E i \in 1 .. Len(connQueue[q]) : connQueue[q][i].fd = fd
    \/ \E q \in Reactors : fd_to_sid_[q][fd] # NoSid

\* A reactor whose thread has returned holds no session.
DoneEmpty == \A r \in Reactors : At(r, "done") => \A s \in Sids : sessions_[r][s] = NoSession

(***************************************************************************)
(* A reactor's sessions_ is its own.                                       *)
(***************************************************************************)
LEMMA OwnSessions ==
  ASSUME IInv, NEW r \in Reactors, Reactor(r)
  PROVE  \A q \in Reactors \ {r} : sessions_'[q] = sessions_[q]
<1>0. sessions_ \in [Reactors -> [Sids -> Session \cup {NoSession}]]
  BY DEF IInv, TypeOK
<1>1. ASSUME sessions_' = sessions_
      PROVE  \A q \in Reactors \ {r} : sessions_'[q] = sessions_[q]
  BY <1>1
<1>2. ASSUME NEW s, NEW x, sessions_' = [sessions_ EXCEPT ![r][s] = x]
      PROVE  \A q \in Reactors \ {r} : sessions_'[q] = sessions_[q]
  BY <1>0, <1>2, Zenon
<1>3. ASSUME NEW s, NEW b, sessions_' = [sessions_ EXCEPT ![r][s].outbuf = b]
      PROVE  \A q \in Reactors \ {r} : sessions_'[q] = sessions_[q]
  BY <1>0, <1>3, ZenonT(40)
<1>4. CASE EventLoop(r)
  <2>1. CASE HandleWakeup(r) \/ FlushSigpipe(r)
    BY <1>1, <2>1, Zenon DEF HandleWakeup, FlushSigpipe, owned
  <2>2. CASE TakeConnection(r)
    BY <1>2, <2>2, Zenon DEF TakeConnection, Register
  <2>3. CASE SendNext(r)
    BY <1>1, <1>3, <2>3, Zenon DEF SendNext
  <2>4. CASE Flush(r)
    BY <1>3, <2>4, Zenon DEF Flush
  <2>5. CASE EpollWait(r) \/ ConnectionsTaken(r) \/ SendsDone(r) \/ FlushError(r)
             \/ \E e \in thread[r].batch \ {WakeEvent} : HandleEvent(r, e)
    BY <1>1, <2>5, Zenon DEF EpollWait, Poll, ConnectionsTaken, SendsDone, FlushError, HandleEvent,
                      OnlyMoves, owned
  <2> QED
    BY <1>4, <2>1, <2>2, <2>3, <2>4, <2>5, Zenon DEF EventLoop
<1>5. CASE HandleReadable(r)
  <2>1. ASSUME NEW x, CallAck(r, x)
        PROVE  \A q \in Reactors \ {r} : sessions_'[q] = sessions_[q]
    BY <1>2, <2>1, ZenonT(40) DEF CallAck
  <2>2. CASE HandleKpalive(r) \/ (\E n \in Nids : HandleAuth(r, n))
             \/ (\E c \in Cmds : HandleSub(r, c) \/ HandleUnsub(r, c))
    BY <2>1, <2>2, ZenonT(40) DEF HandleKpalive, HandleAuth, HandleSub, HandleUnsub
  <2>3. CASE ReadBlocks(r) \/ ReadCloses(r) \/ RefuseInbound(r) \/ DanglingReturn(r)
             \/ DanglingRecv(r)
    BY <1>1, <2>3, Zenon DEF ReadBlocks, ReadCloses, RefuseInbound, DanglingReturn, DanglingRecv,
                      OnlyMoves, owned
  <2> QED
    BY <1>5, <2>2, <2>3, Zenon DEF HandleReadable
<1>6. CASE CloseSession(r)
  BY <1>1, <1>2, <1>6, Zenon DEF CloseSession, CloseRemove, CloseErase, EraseTables, owned
<1>7. CASE Exit(r)
  BY <1>1, <1>7, Zenon DEF Exit, LeaveLoop, CloseNext, Return, OnlyMoves, owned
<1> QED
  BY <1>4, <1>5, <1>6, <1>7, Zenon DEF Reactor

(***************************************************************************)
(* A reactor returns with its sessions closed, and takes no more.          *)
(***************************************************************************)
LEMMA DoneStaysEmpty == IInv /\ DoneEmpty /\ [Next]_vars => DoneEmpty'
<1> SUFFICES ASSUME IInv, DoneEmpty, [Next]_vars
             PROVE  DoneEmpty'
  OBVIOUS
<1>0. thread \in [Reactors -> Thread]
  BY Zenon DEF IInv, TypeOK
<1>1. CASE thread' = thread /\ sessions_' = sessions_
  BY <1>1, Zenon DEF DoneEmpty, At
<1>2. ASSUME NEW r \in Reactors, Reactor(r)
      PROVE  DoneEmpty'
  <2>1. \A q \in Reactors \ {r} : sessions_'[q] = sessions_[q]
    BY <1>2, OwnSessions, Zenon
  <2>2. ASSUME \A q \in Reactors : At(q, "done")' => At(q, "done"), thread[r].at # "done"
        PROVE  DoneEmpty'
    BY <2>1, <2>2, Zenon DEF DoneEmpty, At
  <2>3. CASE WakesKept /\ thread[r].at \notin {"conns", "done"}
    BY <2>2, <2>3, Zenon DEF WakesKept
  <2>4. CASE HandleWakeup(r)
    <3>1. ThreadStep(r) /\ thread'[r].at = "conns"
      BY <2>4, WakeupStep, Zenon
    <3> QED
      BY <2>2, <2>4, <3>1, Zenon DEF HandleWakeup, ThreadStep, At
  <2>5. CASE TakeConnection(r)
    BY <2>2, <2>5, Zenon DEF TakeConnection, Register, At
  <2>6. CASE ConnectionsTaken(r)
    BY <1>0, <2>2, <2>6, Zenon DEF ConnectionsTaken, Goto, At, Thread
  <2>7. CASE Return(r)
    <3>1. /\ sessions_' = sessions_ /\ \A s \in Sids : sessions_[r][s] = NoSession
          /\ \A q \in Reactors \ {r} : thread'[q] = thread[q]
      BY <1>0, <2>7 DEF Return, Goto, Live, OnlyMoves, owned
    <3> QED
      BY <3>1 DEF DoneEmpty, At
  <2>8. CASE FlushSigpipe(r)
    <3>1. \A q \in Reactors : thread'[q].at = "killed"
      BY <1>0, <2>8 DEF FlushSigpipe, Thread
    <3> QED
      BY <3>1 DEF DoneEmpty, At
  <2> QED
    BY <1>2, <2>3, <2>4, <2>5, <2>6, <2>7, <2>8, ReactorLeaves, Zenon
<1>3. CASE Listener
  BY <1>1, <1>3, Zenon DEF Listener, ListenerPush, ListenerDrop, ListenerNotify, ListenerExit, owned
<1> QED
  BY <1>1, <1>2, <1>3, ZenonT(40)
     DEF Next, Accept, AsyncSend, PublishTo, RouteFrame, RequestStop, vars, owned

(***************************************************************************)
(* An open descriptor passes from the listener to a conn queue to a        *)
(* reactor, and is closed by whoever has it last.                          *)
(***************************************************************************)
LEMMA AccountedKept == IInv /\ Accounted /\ [Next]_vars => Accounted'
<1> SUFFICES ASSUME IInv, Accounted, [Next]_vars
             PROVE  Accounted'
  OBVIOUS
<1>0. /\ fdTable \in [Fds -> Sids \cup {NoSid}]
      /\ fd_to_sid_ \in [Reactors -> [Fds -> Sids \cup {NoSid}]]
      /\ connQueue \in [Reactors -> Seq(NewConnection)] /\ lsn \in ListenerType
  BY Zenon DEF IInv, TypeOK, ListenerType
<1>1. ASSUME lsn' = lsn \/ (lsn.at # "push" /\ (lsn.at = "killed" => lsn'.at = "killed")),
             UNCHANGED <<fdTable, connQueue, fd_to_sid_>>
      PROVE  Accounted'
  BY <1>1, Zenon DEF Accounted, up
<1>2. ASSUME NEW r \in Reactors, Reactor(r)
      PROVE  Accounted'
  <2>1. CASE CloseErase(r)
    <3>1. thread[r].fd \in Fds
      <4>1. \A s \in Sids : sessions_[r][s] # NoSession => sessions_[r][s].fd \in Fds
        BY Tables, Zenon
      <4> QED
        BY <2>1, <4>1, Zenon DEF CloseErase, At, IInv, HandsOK, HandOK, Holding
    <3>2. /\ fdTable'[thread[r].fd] = NoSid
          /\ \A fe \in Fds : fe = thread[r].fd \/ fdTable'[fe] = fdTable[fe]
      BY <1>0, <2>1, <3>1, Zenon DEF CloseErase
    <3>3. \A q \in Reactors, fe \in Fds :
            fe = thread[r].fd \/ fd_to_sid_'[q][fe] = fd_to_sid_[q][fe]
      BY <1>0, <2>1, <3>1, Zenon DEF CloseErase, EraseTables
    <3>4. lsn' = lsn /\ connQueue' = connQueue
      BY <2>1, Zenon DEF CloseErase, queues
    <3> QED
      BY <3>2, <3>3, <3>4, SMTT(30) DEF Accounted, up
  <2>2. CASE TakeConnection(r)
    <3> DEFINE c == connQueue[r][1]
    <3>1. /\ connQueue[r] \in Seq(NewConnection) /\ connQueue[r] # << >>
      BY <1>0, <2>2, Zenon DEF TakeConnection, Register
    <3>2. ASSUME NEW Q \in Seq(NewConnection), Q # << >>
          PROVE  /\ Len(Q) \in Nat /\ 1 \in 1 .. Len(Q) /\ Head(Q) = Q[1] /\ Q[1] \in NewConnection
                 /\ Tail(Q) \in Seq(NewConnection) /\ Len(Tail(Q)) = Len(Q) - 1
                 /\ \A i \in 1 .. Len(Q) - 1 : Tail(Q)[i] = Q[i + 1]
      BY <3>2
    <3>3. /\ Head(connQueue[r]) = c /\ c \in NewConnection /\ c.fd \in Fds /\ c.sid \in Sids
      BY <3>1, <3>2, Zenon DEF NewConnection
    <3>4. /\ fd_to_sid_' = [fd_to_sid_ EXCEPT ![r][c.fd] = c.sid]
          /\ connQueue' = [connQueue EXCEPT ![r] = Tail(connQueue[r])]
          /\ fdTable' = fdTable /\ lsn' = lsn
      BY <1>0, <2>2, <3>3, Zenon DEF TakeConnection, Register, accepting
    <3>5. /\ fd_to_sid_'[r][c.fd] # NoSid
          /\ \A q \in Reactors, fe \in Fds :
               fe = c.fd \/ fd_to_sid_'[q][fe] = fd_to_sid_[q][fe]
      BY <1>0, <3>3, <3>4, SidsArePositive, Zenon
    <3>6. \A q \in Reactors : \A i \in 1 .. Len(connQueue[q]) :
            connQueue[q][i].fd = c.fd
              \/ \E j \in 1 .. Len(connQueue'[q]) : connQueue'[q][j] = connQueue[q][i]
      <4>1. connQueue'[r] = Tail(connQueue[r])
            /\ \A q \in Reactors \ {r} : connQueue'[q] = connQueue[q]
        BY <1>0, <3>4, Zenon
      <4>2. ASSUME NEW i \in 1 .. Len(connQueue[r]), i # 1
            PROVE  i - 1 \in 1 .. Len(Tail(connQueue[r]))
                   /\ Tail(connQueue[r])[i - 1] = connQueue[r][i]
        BY <3>1, <3>2, <4>2, SMTT(30)
      <4> SUFFICES ASSUME NEW q \in Reactors, NEW i \in 1 .. Len(connQueue[q]),
                          connQueue[q][i].fd # c.fd
                   PROVE  \E j \in 1 .. Len(connQueue'[q]) : connQueue'[q][j] = connQueue[q][i]
        BY Zenon
      <4>3. CASE q # r
        BY <4>1, <4>3, Zenon
      <4>4. CASE q = r
        <5>1. i # 1
          BY <4>4, Zenon
        <5>2. /\ i - 1 \in 1 .. Len(connQueue'[q])
              /\ connQueue'[q][i - 1] = connQueue[q][i]
          BY <4>1, <4>2, <4>4, <5>1, Zenon
        <5> QED
          BY <5>2, Zenon
      <4> QED
        BY <4>3, <4>4, Zenon
    <3> HIDE DEF c
    <3> QED
      BY <3>3, <3>4, <3>5, <3>6, SMTT(30) DEF Accounted, up
  <2>3. CASE FlushSigpipe(r)
    BY <2>3, SigpipeStep, Zenon DEF Accounted
  <2>4. CASE HandleWakeup(r) \/ ConnectionsTaken(r) \/ Return(r)
    BY <1>1, <2>4, Zenon
       DEF HandleWakeup, ConnectionsTaken, Return, OnlyMoves, accepting, queues, owned
  <2> QED
    BY <1>1, <1>2, <2>1, <2>2, <2>3, <2>4, ReactorLeaves, Zenon
<1>3. ASSUME NEW fd \in Fds, NEW r \in Reactors, Accept(fd, r)
      PROVE  Accounted'
  <2>1. /\ lsn.at = "accept" /\ lsn'.at = "push" /\ lsn'.fd = fd
        /\ connQueue' = connQueue /\ fd_to_sid_' = fd_to_sid_
        /\ \A fe \in Fds : fe = fd \/ fdTable'[fe] = fdTable[fe]
    BY <1>0, <1>3, Zenon DEF Accept, queues, owned
  <2> QED
    BY <2>1, Zenon DEF Accounted, up
<1>4. CASE ListenerPush
  <2>1. /\ lsn.at = "push" /\ lsn.reactor_idx \in Reactors
        /\ fdTable' = fdTable /\ fd_to_sid_' = fd_to_sid_
    BY <1>4, Zenon DEF ListenerPush, IInv, Owned, ListenerHolds, owned
  <2> DEFINE k == lsn.reactor_idx
             c == [fd |-> lsn.fd, sid |-> lsn.sid]
  <2>2. /\ connQueue' = [connQueue EXCEPT ![k] = Append(connQueue[k], c)]
    BY <1>0, <1>4, Zenon DEF ListenerPush
  <2>3. c.fd = lsn.fd
    BY Zenon
  <2> HIDE DEF c, k
  <2>4. /\ connQueue'[k] = Append(connQueue[k], c) /\ connQueue[k] \in Seq(NewConnection)
        /\ \A q \in Reactors \ {k} : connQueue'[q] = connQueue[q]
    BY <1>0, <2>1, <2>2, Zenon DEF k
  <2>5. ASSUME NEW Q \in Seq(NewConnection), NEW d
        PROVE  /\ \A i \in 1 .. Len(Q) :
                    i \in 1 .. Len(Append(Q, d)) /\ Append(Q, d)[i] = Q[i]
               /\ Len(Q) + 1 \in 1 .. Len(Append(Q, d)) /\ Append(Q, d)[Len(Q) + 1] = d
    BY <2>5, SMTT(30)
  <2>6. /\ \A q \in Reactors : \A i \in 1 .. Len(connQueue[q]) :
             i \in 1 .. Len(connQueue'[q]) /\ connQueue'[q][i] = connQueue[q][i]
        /\ \E i \in 1 .. Len(connQueue'[k]) : connQueue'[k][i].fd = lsn.fd
    BY <2>3, <2>4, <2>5, SMTT(30)
  <2>7. \A fd \in Fds : fdTable[fd] # NoSid /\ ~(lsn.fd = fd) =>
          \/ \E q \in Reactors : \E i \in 1 .. Len(connQueue[q]) : connQueue[q][i].fd = fd
          \/ \E q \in Reactors : fd_to_sid_[q][fd] # NoSid
    BY <2>1, Zenon DEF Accounted, up
  <2> QED
    BY <2>1, <2>6, <2>7, SMTT(30) DEF Accounted, k
<1>5. CASE ListenerDrop
  <2>1. /\ \A fe \in Fds : fdTable'[fe] # NoSid => fe # lsn.fd /\ fdTable'[fe] = fdTable[fe]
        /\ connQueue' = connQueue /\ fd_to_sid_' = fd_to_sid_ /\ lsn.at = "push"
    BY <1>0, <1>5, Zenon DEF ListenerDrop, queues, owned
  <2> QED
    BY <2>1, Zenon DEF Accounted, up
<1>6. CASE ListenerNotify \/ ListenerExit
  BY <1>1, <1>6, Zenon DEF ListenerNotify, ListenerExit, queues, owned
<1>7. CASE RequestStop \/ UNCHANGED vars
  BY <1>1, <1>7, Zenon DEF RequestStop, vars, accepting, queues, owned
<1>8. ASSUME NEW rt, NEW n, RouteFrame(rt, n)
      PROVE  Accounted'
  BY <1>1, <1>8, Zenon DEF RouteFrame, accepting, owned
<1> QED
  BY <1>2, <1>3, <1>4, <1>5, <1>6, <1>7, <1>8, Zenon DEF Next, Listener, AsyncSend, PublishTo

(***************************************************************************)
(* When every thread has ended, no descriptor is left open but those of    *)
(* connections still in a conn queue.                                      *)
(***************************************************************************)
THEOREM StopLeavesOnlyQueued == Spec => []StopClosesSessions
<1>1. Init => DoneEmpty /\ Accounted
  BY DEF Init, DoneEmpty, Accounted
<1>2. IInv /\ DoneEmpty /\ Accounted => StopClosesSessions
  <2> SUFFICES ASSUME IInv, DoneEmpty, Accounted, AllDone,
                      NEW fd \in Fds, fdTable[fd] # NoSid
               PROVE  \E r \in Reactors : Queued(r, fdTable[fd])
    BY Zenon DEF StopClosesSessions
  <2>1. \A q \in Reactors, s \in Sids : sessions_[q][s] = NoSession
    BY Zenon DEF DoneEmpty, AllDone
  <2>2. \A q \in Reactors : fd_to_sid_[q][fd] = NoSid
    BY <2>1, Tables, Zenon
  <2>3. PICK q \in Reactors : \E i \in 1 .. Len(connQueue[q]) : connQueue[q][i].fd = fd
    BY <2>2, Zenon DEF Accounted, up, AllDone
  <2>4. PICK i \in 1 .. Len(connQueue[q]) : connQueue[q][i].fd = fd
    BY <2>3, Zenon
  <2>5. connQueue[q][i].sid = fdTable[fd]
    BY <2>4, QueuedConnections, Zenon DEF Fresh
  <2> QED
    BY <2>5, Zenon DEF Queued
<1> QED
  BY <1>1, <1>2, DoneStaysEmpty, AccountedKept, Invariance, PTL DEF Spec

=============================================================================
