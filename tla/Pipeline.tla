------------------------------ MODULE Pipeline ------------------------------
(***************************************************************************)
(* The way of a business message through both planes of the Hub: reactor   *)
(* -> recv queue -> worker -> bridge handler -> dist queue of the other    *)
(* plane -> distributor -> send queue -> reactor.  A gateway's message is  *)
(* published to the services subscribed to its command; a service's        *)
(* message goes to the gateway whose node id its payload names.            *)
(*                                                                         *)
(* Every queue is bounded and every push is PushWithBackoff, whose first   *)
(* failed attempt has already moved the payload out of the value that the  *)
(* next attempt pushes.  Sessions are authenticated and subscribed, and    *)
(* may close; module Plane models how they come to be.  On Linux workers,  *)
(* distributors and reactors poll their queues with a zero timeout, so the *)
(* eventfds do not matter here.                                            *)
(***************************************************************************)
EXTENDS Integers, Sequences, FiniteSets

CONSTANTS
  Gateways,     (* sessions of the forward plane, each its own node        *)
  Services,     (* sessions of the backend plane                           *)
  Subscribers,  (* the services subscribed to the gateways' command        *)
  ReactorCount, WorkerCount,      (* threads of each kind in a plane       *)
  RecvCap, DistCap, SendCap,      (* HubConfig::queue_capacity, by queue   *)
  MaxRetries,   (* PushWithBackoff's max_retries                           *)
  MaxFrames     (* bound: messages the clients send, all together          *)

Sids == Gateways \cup Services

ASSUME PipelineAssumption ==
  /\ Sids \subseteq Nat \ {0} /\ Gateways \cap Services = {}
  /\ Subscribers \subseteq Services /\ IsFiniteSet(Subscribers)
  /\ ReactorCount \in Nat \ {0} /\ WorkerCount \in Nat \ {0}
  /\ RecvCap \in Nat /\ DistCap \in Nat /\ SendCap \in Nat
  /\ MaxRetries \in Nat /\ MaxFrames \in Nat

NoNid == 0
Planes == {"forward", "backend"}
Peer(p) == IF p = "forward" THEN "backend" ELSE "forward"
PlaneOf(s) == IF s \in Gateways THEN "forward" ELSE "backend"

\* PickReactor deals the connections out in turn.
ReactorOf(s) == s % ReactorCount

RecvQueue(p, w) == <<"recv", p, w>>
DistQueue(p) == <<"dist", p, 0>>
SendQueue(p, r) == <<"send", p, r>>

Queues ==
  {RecvQueue(p, w) : p \in Planes, w \in 0 .. WorkerCount - 1}
    \cup {DistQueue(p) : p \in Planes}
    \cup {SendQueue(p, r) : p \in Planes, r \in 0 .. ReactorCount - 1}

Capacity(q) == CASE q[1] = "recv" -> RecvCap [] q[1] = "dist" -> DistCap [] OTHER -> SendCap

\* A thread is named by the queue it consumes.
Threads == Queues
Workers == {t \in Threads : t[1] = "recv"}
Distributors == {t \in Threads : t[1] = "dist"}
Reactors == {t \in Threads : t[1] = "send"}
ReactorThread(s) == SendQueue(PlaneOf(s), ReactorOf(s))

\* Message seq of session `from'.  In a recv queue `to' is the node id its payload
\* names; behind it, the session it is for.  data: the whole message; "bare", a
\* message without its payload; or "empty", an OutboundFrame without its bytes.
Item == [from : Sids, seq : 1 .. MaxFrames, to : Sids \cup {NoNid},
         data : {"whole", "bare", "empty"}]

\* A call of PushWithBackoff: items are the one being pushed and those Publish has
\* yet to push; tries counts the attempts that failed.
Pushing(q, items) == [queue |-> q, items |-> items, tries |-> 0]
NoPush == Pushing(<<"none">>, << >>)

VARIABLES
  running,  (* plane -> HubContext::running_                               *)
  ended,    (* threads whose Run has returned                              *)
  open,     (* sessions that are open, hence routed and subscribed         *)
  queue,    (* queue -> items                                              *)
  push,     (* thread -> the push it is in, or NoPush                      *)
  sent,     (* history: session -> the node ids its messages were for      *)
  received, (* session -> the items written to it                          *)
  bumped    (* history: <<session, seq>> that met a full queue             *)

vars == <<running, ended, open, queue, push, sent, received, bumped>>

TypeOK ==
  /\ running \in [Planes -> BOOLEAN]
  /\ ended \subseteq Threads
  /\ open \subseteq Sids
  /\ \A q \in Queues : queue[q] \in Seq(Item) /\ Len(queue[q]) <= Capacity(q)
  /\ \A t \in Threads :
       /\ push[t].queue \in Queues \cup {<<"none">>}
       /\ push[t].items \in Seq(Item)
       /\ push[t].tries \in 0 .. MaxRetries
  /\ sent \in [Sids -> Seq(Gateways \cup {NoNid})]
  /\ received \in [Sids -> Seq(Item)]
  /\ bumped \subseteq Sids \X (1 .. MaxFrames)

Init ==
  /\ running = [p \in Planes |-> TRUE]
  /\ ended = {}
  /\ open = Sids
  /\ queue = [q \in Queues |-> << >>]
  /\ push = [t \in Threads |-> NoPush]
  /\ sent = [s \in Sids |-> << >>]
  /\ received = [s \in Sids |-> << >>]
  /\ bumped = {}

\* All messages sent so far.
Sent == {m \in Sids \X (1 .. MaxFrames) : m[2] <= Len(sent[m[1]])}

Idle(t) == t \notin ended /\ push[t] = NoPush

-----------------------------------------------------------------------------
(* PushWithBackoff                                                          *)

\* Mutant: one item too many.
HasRoomForOneMore(q) == Len(queue[q]) <= Capacity(q)

HasRoom(q) == Len(queue[q]) < Capacity(q)

\* Push takes its argument by value: a failed Push leaves the caller's payload
\* (InboundMessage) or bytes (OutboundFrame) moved from, the other fields as they were.
MovedFrom(q, item) == [item EXCEPT !.data = IF q[1] = "recv" THEN "bare" ELSE "empty"]

\* Publish goes on with its next subscriber.
AfterPush(p) == IF Len(p.items) = 1 THEN NoPush ELSE Pushing(p.queue, Tail(p.items))

\* Mutant: no bound on the attempts.
RetryForever(p) == [p EXCEPT !.items[1] = MovedFrom(p.queue, @)]

\* Another attempt, or false: the item is dropped, and Publish returns.
AfterFailure(p) ==
  IF p.tries < MaxRetries
    THEN [p EXCEPT !.items[1] = MovedFrom(p.queue, @), !.tries = @ + 1]
    ELSE NoPush

PushAttempt(t) ==
  LET p == push[t]  item == p.items[1] IN
  /\ p # NoPush
  /\ IF HasRoom(p.queue)
       THEN /\ queue' = [queue EXCEPT ![p.queue] = Append(@, item)]
            /\ push' = [push EXCEPT ![t] = AfterPush(p)]
            /\ UNCHANGED bumped
       ELSE /\ push' = [push EXCEPT ![t] = AfterFailure(p)]
            /\ bumped' = bumped \cup {<<item.from, item.seq>>}
            /\ UNCHANGED queue
  /\ UNCHANGED <<running, ended, open, sent, received>>

-----------------------------------------------------------------------------
(* The threads.  Each empties the queue it consumes before it looks at      *)
(* running_ again.                                                          *)

\* Mutant: a session's messages are dealt out to the workers.
PickWorkerInTurn(s) == Len(sent[s]) % WorkerCount

PickWorker(s) == s % WorkerCount

\* Reactor::EnqueueInbound: client s has sent a message for node id nid.
EnqueueInbound(s, nid) ==
  /\ s \in open /\ Idle(ReactorThread(s))
  /\ Cardinality(Sent) < MaxFrames
  /\ sent' = [sent EXCEPT ![s] = Append(@, nid)]
  /\ push' = [push EXCEPT ![ReactorThread(s)] =
       Pushing(RecvQueue(PlaneOf(s), PickWorker(s)),
               <<[from |-> s, seq |-> Len(sent[s]) + 1, to |-> nid, data |-> "whole"]>>)]
  /\ UNCHANGED <<running, ended, open, queue, received, bumped>>

\* The elements of a finite set, in an order of its own.
Listed(S) ==
  CHOOSE q \in [1 .. Cardinality(S) -> S] : \A i, j \in DOMAIN q : q[i] = q[j] => i = j

OpenSubscribers == Listed(Subscribers \cap open)

\* ForwardUplinkHandler: the peer's Publish encodes the message for each subscriber.
Publish(m) == [i \in 1 .. Len(OpenSubscribers) |-> [m EXCEPT !.to = OpenSubscribers[i]]]

\* BackendDownlinkHandler: ReadDestNid yields 0 from a message without payload; 0 and
\* a node that is not connected have no route.
AsyncSend(m) == IF m.data = "whole" /\ m.to \in open THEN <<m>> ELSE << >>

\* Mutant: only the first subscriber is served.
HandleFirst(p, m) ==
  IF p = "backend" THEN AsyncSend(m)
  ELSE IF Publish(m) = << >> THEN << >> ELSE <<Head(Publish(m))>>

\* Mutant: a downlink message goes to every gateway.
HandleBroadcast(p, m) ==
  LET gws == Listed(Gateways \cap open) IN
  IF p = "forward" THEN Publish(m) ELSE [i \in 1 .. Len(gws) |-> [m EXCEPT !.to = gws[i]]]

\* The bridge handlers.
Handle(p, m) == IF p = "forward" THEN Publish(m) ELSE AsyncSend(m)

WorkerTake(t) ==
  /\ Idle(t) /\ queue[t] # << >>
  /\ LET items == Handle(t[2], Head(queue[t])) IN
     push' = IF items = << >> THEN push
             ELSE [push EXCEPT ![t] = Pushing(DistQueue(Peer(t[2])), items)]
  /\ queue' = [queue EXCEPT ![t] = Tail(@)]
  /\ UNCHANGED <<running, ended, open, sent, received, bumped>>

\* RouteToSendQueue
DistributorTake(t) ==
  /\ Idle(t) /\ queue[t] # << >>
  /\ LET item == Head(queue[t]) IN
     push' = [push EXCEPT ![t] = Pushing(SendQueue(t[2], ReactorOf(item.to)), <<item>>)]
  /\ queue' = [queue EXCEPT ![t] = Tail(@)]
  /\ UNCHANGED <<running, ended, open, sent, received, bumped>>

\* Mutant: the session is not looked up again.
ReactorTakeUnchecked(t) ==
  /\ Idle(t) /\ queue[t] # << >>
  /\ LET item == Head(queue[t]) IN
     received' = IF item.data # "empty"
                   THEN [received EXCEPT ![item.to] = Append(@, item)]
                   ELSE received
  /\ queue' = [queue EXCEPT ![t] = Tail(@)]
  /\ UNCHANGED <<running, ended, open, push, sent, bumped>>

\* DrainSendQueue: SendBytes does nothing with an empty frame.
ReactorTake(t) ==
  /\ Idle(t) /\ queue[t] # << >>
  /\ LET item == Head(queue[t]) IN
     received' = IF item.to \in open /\ item.data # "empty"
                   THEN [received EXCEPT ![item.to] = Append(@, item)]
                   ELSE received
  /\ queue' = [queue EXCEPT ![t] = Tail(@)]
  /\ UNCHANGED <<running, ended, open, push, sent, bumped>>

\* A session's connection ends and its reactor closes it.
CloseSession(s) ==
  /\ s \in open /\ Idle(ReactorThread(s))
  /\ open' = open \ {s}
  /\ UNCHANGED <<running, ended, queue, push, sent, received, bumped>>

\* HubServer::Stop: the forward plane first.
RequestStop(p) ==
  /\ running[p]
  /\ p = "backend" => ~running["forward"]
  /\ running' = [running EXCEPT ![p] = FALSE]
  /\ UNCHANGED <<ended, open, queue, push, sent, received, bumped>>

\* Run returns, and a reactor closes its sessions.  What was pushed since the Pop that
\* found the queue empty stays in it, like what is pushed after the return.  The model
\* does not keep when that Pop was, and lets the thread leave anything behind.
Return(t) ==
  /\ Idle(t) /\ ~running[t[2]]
  /\ ended' = ended \cup {t}
  /\ open' = {s \in open : ReactorThread(s) # t}
  /\ UNCHANGED <<running, queue, push, sent, received, bumped>>

-----------------------------------------------------------------------------
Step(t) ==
  \/ PushAttempt(t)
  \/ t \in Workers /\ WorkerTake(t)
  \/ t \in Distributors /\ DistributorTake(t)
  \/ t \in Reactors /\ ReactorTake(t)
  \/ Return(t)

Client(s) ==
  \/ \E nid \in IF s \in Services THEN Gateways \cup {NoNid} ELSE {NoNid} :
       EnqueueInbound(s, nid)
  \/ CloseSession(s)

Next ==
  \/ \E t \in Threads : Step(t)
  \/ \E s \in Sids : Client(s)
  \/ \E p \in Planes : RequestStop(p)

Spec == Init /\ [][Next]_vars

\* Every thread keeps being scheduled, and Stop, once begun, is carried through.
FairSpec ==
  /\ Spec
  /\ \A t \in Threads : WF_vars(Step(t))
  /\ WF_vars(RequestStop("backend"))

-----------------------------------------------------------------------------
(***************************************************************************)
(* What a session receives from another one is in the order it was sent,   *)
(* and nothing twice, although several workers feed one dist queue: all    *)
(* messages of a session go through the worker PickWorker names.           *)
(***************************************************************************)
FlowOrder ==
  \A s \in Sids : \A i, j \in 1 .. Len(received[s]) :
    i < j /\ received[s][i].from = received[s][j].from =>
      received[s][i].seq < received[s][j].seq

\* The sessions message i of session s is for.
Recipients(s, i) == IF s \in Gateways THEN Subscribers ELSE {sent[s][i]} \ {NoNid}

(***************************************************************************)
(* No cross-routing: whatever a session receives was sent to it, however   *)
(* often the pushes of it failed on the way and left a moved-from value.   *)
(***************************************************************************)
NoCrossRoute ==
  \A s \in Sids : \A i \in 1 .. Len(received[s]) :
    LET m == received[s][i] IN s \in Recipients(m.from, m.seq)

Quiet == \A q \in Queues : queue[q] = << >> /\ push[q] = NoPush

(***************************************************************************)
(* When nothing is under way, a message that has not reached an open       *)
(* session it was for had met a full queue: there is no other way the Hub  *)
(* loses one while it runs.                                                *)
(***************************************************************************)
LossOnlyByFullQueue ==
  Quiet /\ running["forward"] /\ running["backend"] =>
    \A m \in Sent \ bumped : \A to \in Recipients(m[1], m[2]) \cap open :
      \E i \in 1 .. Len(received[to]) :
        received[to][i] = [from |-> m[1], seq |-> m[2], to |-> to, data |-> "whole"]

Promise == INSTANCE Delivery

(***************************************************************************)
(* The planes with their threads, queues and retries keep the promise of   *)
(* Delivery: every step is one of its steps, or changes nothing a client   *)
(* can see.  DrainSendQueue looks the session up before it writes, and a   *)
(* push of PushWithBackoff that was moved from on its way back is empty or *)
(* has no route.                                                           *)
(***************************************************************************)
ImplementsDelivery == Promise!Spec

(***************************************************************************)
(* A stop request ends every thread, even those inside a push to a queue   *)
(* whose consumer has already gone: PushWithBackoff gives up.              *)
(***************************************************************************)
StopTerminates == ~running["forward"] ~> (ended = Threads)

(***************************************************************************)
(* The payload of a business frame is a complete IM frame, header and body *)
(* (bus wire v1, 3.2): none is delivered without it.                       *)
(***************************************************************************)
PayloadComplete ==
  \A s \in Sids : \A i \in 1 .. Len(received[s]) : received[s][i].data = "whole"

=============================================================================
