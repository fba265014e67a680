--------------------------- MODULE PipelineProofs ---------------------------
(***************************************************************************)
(* The theorems about Pipeline, from the invariant of FlowProofs.          *)
(***************************************************************************)
EXTENDS FlowProofs

-----------------------------------------------------------------------------
(* What the invariant says                                                  *)

(***************************************************************************)
(* The invariant says of every queue that it is within its capacity, and   *)
(* of every item and push that it is of its type.                          *)
(***************************************************************************)
LEMMA InvariantTypes == IInv => TypeOK
<1> SUFFICES ASSUME Types
             PROVE  TypeOK
  BY Zenon DEF IInv
<1>1. \A q \in Queues : queue[q] \in Seq(Item) /\ Len(queue[q]) <= Capacity(q)
  BY Zenon DEF Types
<1>2. \A p \in PushType : /\ p.queue \in Queues \cup {<<"none">>} /\ p.items \in Seq(Item)
                          /\ p.tries \in 0 .. MaxRetries
  BY DEF PushType
<1>3. \A t \in Threads : push[t] \in PushType
  BY Zenon DEF Types
<1> QED
  BY <1>1, <1>2, <1>3, Zenon DEF Types, TypeOK

(***************************************************************************)
(* It says that what a session has received was sent to it.                *)
(***************************************************************************)
LEMMA InvariantRoutes == IInv => NoCrossRoute
BY Zenon DEF IInv, Placed, Outbound, NoCrossRoute

(***************************************************************************)
(* It says that what one session has received from another is in order.    *)
(***************************************************************************)
LEMMA InvariantOrders == IInv => FlowOrder
<1> SUFFICES ASSUME Types, Placed, Ordered, NEW s \in Sids,
                    NEW i \in 1 .. Len(received[s]), NEW j \in 1 .. Len(received[s]),
                    i < j, received[s][i].from = received[s][j].from
             PROVE  received[s][i].seq < received[s][j].seq
  BY Zenon DEF IInv, FlowOrder
<1> DEFINE R == received[s]
           f == R[i].from
<1>1. R \in Seq(Item) /\ R[i] \in Item
  BY DEF Types
<1>2. Outbound(R[i]) /\ R[i].to = s /\ R[j].to = s
  BY Zenon DEF Placed
<1>3. f \in Sids /\ PlaneOf(f) # PlaneOf(s)
  BY <1>1, <1>2, OutboundCrosses, Zenon
<1>4. Sorted(f, s, Stages(f, s)) /\ Stages(f, s)[1] = R
  BY <1>3, StageParts DEF Ordered
<1>5. Rising(f, s, 1, R)
  <2>1. 1 \in 1 .. 7
    OBVIOUS
  <2> QED
    BY <1>4, <2>1, Zenon DEF Sorted
<1>6. Belongs(f, s, 1, R[i]) /\ Belongs(f, s, 1, R[j])
  BY <1>2 DEF Belongs
<1> QED
  BY <1>5, <1>6, Zenon DEF Rising

(***************************************************************************)
(* It says that what has met no full queue has arrived when nothing is     *)
(* under way.                                                              *)
(***************************************************************************)
LEMMA InvariantKeeps == IInv => LossOnlyByFullQueue
<1> SUFFICES ASSUME Types, Conserved, Quiet, NEW m \in Sent \ bumped,
                    NEW d \in Recipients(m[1], m[2]) \cap open
             PROVE  \E n \in 1 .. Len(received[d]) :
                      received[d][n] = [from |-> m[1], seq |-> m[2], to |-> d,
                                        data |-> "whole"]
  BY Zenon DEF IInv, LossOnlyByFullQueue
<1> DEFINE f == m[1]
           i == m[2]
           S == Stages(f, d)
<1>1. f \in Sids /\ d \in Sids
  BY DEF Sent, Types
<1>2. Carries(f, d, S, i)
  BY Zenon DEF Conserved
<1>3. NoPush.items = << >> /\ \A n \in 1 .. Len(<< >>) : FALSE
  BY DEF NoPush, Pushing
<1>4. /\ S[1] = received[d] /\ S[2] = << >> /\ S[3] = << >> /\ S[4] = << >>
      /\ S[5] = << >> /\ S[6] = << >> /\ S[7] = << >>
  BY <1>1, <1>3, WayThreads, ThreadKinds, StageParts DEF Quiet
<1>5. \A j \in 1 .. 7 : j = 1 \/ j = 2 \/ j = 3 \/ j = 4 \/ j = 5 \/ j = 6 \/ j = 7
  OBVIOUS
<1>6. received[d] \in Seq(Item)
  BY <1>1, Zenon DEF Types
<1> HIDE DEF f, i, S
<1>7. PICK n \in 1 .. Len(received[d]) :
        Belongs(f, d, 1, received[d][n]) /\ received[d][n].seq = i
        /\ received[d][n].data = "whole"
  BY <1>2, <1>3, <1>4, <1>5, Zenon DEF Carries
<1>8. received[d][n] \in Item /\ received[d][n].from = f /\ received[d][n].to = d
  BY <1>6, <1>7 DEF Belongs
<1>9. received[d][n] = [from |-> f, seq |-> i, to |-> d, data |-> "whole"]
  BY <1>7, <1>8, Zenon DEF Item
<1> QED
  BY <1>9, Zenon DEF f, i

-----------------------------------------------------------------------------
(* The threads                                                              *)

(***************************************************************************)
(* A thread takes the head of its queue.                                   *)
(***************************************************************************)
LEMMA Taken ==
  ASSUME Types, Placed, NEW t \in Queues, queue[t] # << >>,
         queue' = [queue EXCEPT ![t] = Tail(queue[t])]
  PROVE  /\ queue' \in [Queues -> Seq(Item)]
         /\ \A c \in Queues : Len(queue'[c]) <= Capacity(c)
         /\ \A c \in Queues : c # t => queue'[c] = queue[c]
         /\ queue'[t] = Tail(queue[t])
         /\ Head(queue[t]) = queue[t][1] /\ Head(queue[t]) \in Item
         /\ Queued(t, Head(queue[t]))
         /\ \A c \in Queues : \A n \in 1 .. Len(queue'[c]) : Queued(c, queue'[c][n])
<1>1. queue \in [Queues -> Seq(Item)] /\ \A c \in Queues : Len(queue[c]) <= Capacity(c)
  BY Zenon DEF Types
<1>2. \A Q \in Seq(Item) : Q # << >> =>
        /\ Tail(Q) \in Seq(Item) /\ Len(Tail(Q)) = Len(Q) - 1 /\ Len(Q) \in Nat
        /\ Head(Q) = Q[1] /\ Head(Q) \in Item /\ 1 \in 1 .. Len(Q)
        /\ \A n \in 1 .. Len(Tail(Q)) : Tail(Q)[n] = Q[n + 1] /\ n + 1 \in 1 .. Len(Q)
  OBVIOUS
<1>3. /\ queue[t] \in Seq(Item) /\ queue'[t] = Tail(queue[t])
      /\ \A c \in Queues : c # t => queue'[c] = queue[c]
  BY <1>1, Zenon
<1>4. /\ Tail(queue[t]) \in Seq(Item) /\ Len(Tail(queue[t])) = Len(queue[t]) - 1
      /\ Len(queue[t]) \in Nat
      /\ Head(queue[t]) = queue[t][1] /\ Head(queue[t]) \in Item /\ 1 \in 1 .. Len(queue[t])
      /\ \A n \in 1 .. Len(Tail(queue[t])) :
           Tail(queue[t])[n] = queue[t][n + 1] /\ n + 1 \in 1 .. Len(queue[t])
  BY <1>2, <1>3, Zenon
<1>5. queue' \in [Queues -> Seq(Item)]
  BY <1>1, <1>4, Zenon
<1>6. Len(Tail(queue[t])) <= Capacity(t)
  <2>1. Capacity(t) \in Nat
    BY PipelineAssumption, Zenon DEF Capacity
  <2> QED
    BY <1>1, <1>4, <2>1
<1>7. \A n \in 1 .. Len(queue[t]) : Queued(t, queue[t][n])
  BY Zenon DEF Placed
<1>8. \A n \in 1 .. Len(Tail(queue[t])) : Queued(t, Tail(queue[t])[n])
  BY <1>4, <1>7, Zenon
<1>9. \A c \in Queues : \A n \in 1 .. Len(queue'[c]) : Queued(c, queue'[c][n])
  BY <1>3, <1>8, ZenonT(120) DEF Placed
<1>10. \A c \in Queues : Len(queue'[c]) <= Capacity(c)
  BY <1>1, <1>3, <1>6, Zenon
<1> QED
  BY <1>3, <1>4, <1>5, <1>7, <1>9, <1>10, Zenon

(***************************************************************************)
(* An idle thread begins to push.                                          *)
(***************************************************************************)
LEMMA Begun ==
  ASSUME Types, Pushes, Placed, NEW t \in Threads, NEW p \in PushType,
         push' = [push EXCEPT ![t] = p], PushOK(t, p),
         \A n \in 1 .. Len(p.items) : InHand(t, p.items[n])
  PROVE  /\ push' \in [Threads -> PushType] /\ Pushes'
         /\ push'[t] = p /\ \A c \in Threads : c # t => push'[c] = push[c]
         /\ \A c \in Threads : \A n \in 1 .. Len(push'[c].items) :
              InHand(c, push'[c].items[n])
<1>1. push \in [Threads -> PushType]
  BY Zenon DEF Types
<1>2. push'[t] = p /\ \A c \in Threads : c # t => push'[c] = push[c]
  BY <1>1, Zenon
<1>3. push' \in [Threads -> PushType]
  BY <1>1, Zenon
<1>4. Pushes'
  BY <1>2, Zenon DEF Pushes
<1>5. \A c \in Threads : \A n \in 1 .. Len(push'[c].items) : InHand(c, push'[c].items[n])
  <2>1. ASSUME NEW c \in Threads, NEW n \in 1 .. Len(push'[c].items)
        PROVE  InHand(c, push'[c].items[n])
    <3>1. CASE c = t
      BY <1>2, <3>1, Zenon
    <3>2. CASE c # t
      BY <1>2, <3>2, Zenon DEF Placed
    <3> QED
      BY <3>1, <3>2, Zenon
  <2> QED
    BY <2>1, Zenon
<1> QED
  BY <1>2, <1>3, <1>4, <1>5, Zenon

\* H holds one copy of m for each session it is for, as far as that one is open,
\* and with the payload if it is there.
CopiesOf(m, H) ==
  /\ \A n \in 1 .. Len(H) : H[n].from = m.from /\ H[n].seq = m.seq /\ Outbound(H[n])
  /\ \A i, j \in 1 .. Len(H) : H[i].to = H[j].to => i = j
  /\ \A d \in Recipients(m.from, m.seq) \cap open :
       m.data = "whole" => \E n \in 1 .. Len(H) : H[n].to = d /\ H[n].data = "whole"

(***************************************************************************)
(* A worker takes a message: for each flow it is of, one copy is in the    *)
(* worker's hand afterwards.                                               *)
(***************************************************************************)
LEMMA WorkerFlows ==
  ASSUME Types, Types', NEW t \in Workers, queue[t] # << >>, push[t] = NoPush,
         NEW m \in Item, m = queue[t][1],
         NEW H \in Seq(Item), CopiesOf(m, H), push'[t].items = H,
         \A c \in Threads : c # t => push'[c] = push[c],
         queue'[t] = Tail(queue[t]), \A c \in Queues : c # t => queue'[c] = queue[c],
         received' = received, NEW f \in Sids, NEW d \in Sids
  PROVE  FlowStep(f, d)
<1> DEFINE S == Stages(f, d)
           T == Stages(f, d)'
<1>1. /\ \A n \in 1 .. Len(H) : H[n].from = m.from /\ H[n].seq = m.seq
      /\ \A i, j \in 1 .. Len(H) : H[i].to = H[j].to => i = j
      /\ d \in Recipients(m.from, m.seq) /\ d \in open /\ m.data = "whole" =>
           \E n \in 1 .. Len(H) : H[n].to = d /\ H[n].data = "whole"
  <2>1. /\ \A n \in 1 .. Len(H) : H[n].from = m.from /\ H[n].seq = m.seq
        /\ \A i, j \in 1 .. Len(H) : H[i].to = H[j].to => i = j
    BY Zenon DEF CopiesOf
  <2>2. d \in Recipients(m.from, m.seq) /\ d \in open /\ m.data = "whole" =>
          \E n \in 1 .. Len(H) : H[n].to = d /\ H[n].data = "whole"
    BY DEF CopiesOf
  <2> QED
    BY <2>1, <2>2, Zenon
<1>2. /\ WorkerOf(f) \in Threads /\ ReactorThread(f) \in Threads
      /\ ReactorThread(d) \in Threads /\ DistQueue(PlaneOf(d)) \in Threads
      /\ ReactorThread(f) # t /\ ReactorThread(d) # t /\ DistQueue(PlaneOf(d)) # t
      /\ Queues = Threads
  BY WayThreads, ThreadKinds, ZenonT(40)
<1>3. /\ T[1] = S[1] /\ T[2] = S[2] /\ T[3] = S[3] /\ T[4] = S[4] /\ T[7] = S[7]
      /\ S[5] = push[WorkerOf(f)].items /\ T[5] = push'[WorkerOf(f)].items
      /\ S[6] = queue[WorkerOf(f)] /\ T[6] = queue'[WorkerOf(f)]
  <2>1. /\ received' = received /\ queue'[ReactorThread(d)] = queue[ReactorThread(d)]
        /\ push'[DistQueue(PlaneOf(d))] = push[DistQueue(PlaneOf(d))]
        /\ queue'[DistQueue(PlaneOf(d))] = queue[DistQueue(PlaneOf(d))]
        /\ push'[ReactorThread(f)] = push[ReactorThread(f)]
    BY <1>2, Zenon
  <2> QED
    BY <2>1, StageParts
<1>4. \A j \in 1 .. 7 : j = 1 \/ j = 2 \/ j = 3 \/ j = 4 \/ j = 5 \/ j = 6 \/ j = 7
  OBVIOUS
<1>5. S \in Families /\ T \in Families
  BY StagesType, Zenon
<1> HIDE DEF S, T
<1>6. CASE WorkerOf(f) # t
  <2>1. T[5] = S[5] /\ T[6] = S[6]
    BY <1>2, <1>3, <1>6, ZenonT(40)
  <2>2. \A j \in 1 .. 7 : T[j] = S[j]
    BY <1>3, <1>4, <2>1, Zenon
  <2> QED
    BY <2>2, Unmoved, ZenonT(40) DEF S, T
<1>7. CASE WorkerOf(f) = t
  <2>1. S[5] = << >> /\ T[5] = H /\ S[6] # << >> /\ S[6][1] = m /\ T[6] = Tail(S[6])
    BY <1>3, <1>7 DEF NoPush, Pushing
  <2>2. /\ \A n \in 1 .. Len(H) : Belongs(f, d, 5, H[n]) => m.from = f /\ H[n].to = d
        /\ m.from = f => Belongs(f, d, 6, m)
        /\ \A n \in 1 .. Len(H) : m.from = f /\ H[n].to = d => Belongs(f, d, 5, H[n])
    <3>1. 5 <= 5 /\ ~(6 <= 5)
      OBVIOUS
    <3> QED
      BY <1>1, <3>1, Zenon DEF Belongs
  <2>3. Grown(f, d, 5, S[5], T[5], S[6])
    <3>1. Len(<< >>) = 0 /\ 0 <= Len(H) /\ 0 + 1 = 1 /\ 5 + 1 = 6 /\ \A n \in 1 .. 0 : FALSE
      OBVIOUS
    <3>2. \A i, j \in 1 .. Len(H) :
            Belongs(f, d, 5, H[i]) /\ Belongs(f, d, 5, H[j]) => i = j
      BY <1>1, <2>2
    <3>3. \A n \in 1 .. Len(H) : Belongs(f, d, 5, H[n]) =>
            S[6] # << >> /\ Belongs(f, d, 6, S[6][1]) /\ H[n].seq = S[6][1].seq
      BY <1>1, <2>1, <2>2, Zenon
    <3>4. Grown(f, d, 5, << >>, H, S[6])
      BY <3>1, <3>2, <3>3, ZenonT(40) DEF Grown
    <3> QED
      BY <2>1, <3>4, ZenonT(40)
  <2>4. 5 + 1 = 6 /\ 5 \in 1 .. 6 /\ 5 \in 1 .. 7
    OBVIOUS
  <2>5. \A j \in 1 .. 7 : j # 5 /\ j # 6 => T[j] = S[j]
    BY <1>3, <1>4, Zenon
  <2>6. Moves(f, d, S, T, 5)
    BY <2>1, <2>3, <2>4, <2>5, Zenon DEF Moves
  <2>7. KeepsHead(f, d, S, T, 5)
    <3>1. SUFFICES ASSUME Belongs(f, d, 6, m), m.data = "whole", d \in open,
                          d \in Recipients(f, m.seq)
                   PROVE  Carries(f, d, T, m.seq)
      BY <2>1, <2>4, Zenon DEF KeepsHead
    <3>2. m.from = f
      BY <3>1, ZenonT(40) DEF Belongs
    <3>3. PICK n \in 1 .. Len(H) : H[n].to = d /\ H[n].data = "whole"
      BY <1>1, <3>1, <3>2, ZenonT(40)
    <3>4. Belongs(f, d, 5, H[n]) /\ H[n].seq = m.seq
      BY <1>1, <2>2, <3>2, <3>3, ZenonT(40)
    <3> QED
      BY <2>1, <2>4, <3>3, <3>4, ZenonT(40) DEF Carries
  <2> QED
    BY <2>4, <2>6, <2>7, Zenon DEF FlowStep, S, T
<1> QED
  BY <1>6, <1>7, Zenon

(***************************************************************************)
(* What a thread pushes after it has taken an item is of the right type.   *)
(***************************************************************************)
LEMMA PushingType ==
  ASSUME NEW q \in Queues, NEW items \in Seq(Item)
  PROVE  /\ Pushing(q, items) \in PushType /\ Pushing(q, items).items = items
         /\ Pushing(q, items).queue = q
         /\ NoPush \in PushType /\ NoPush.items = << >>
         /\ \A t \in Threads : PushOK(t, NoPush)
<1>1. MaxRetries \in Nat
  BY PipelineAssumption, Zenon
<1>2. NoPush \in PushType /\ NoPush.items = << >>
  BY <1>1 DEF PushType, NoPush, Pushing
<1> QED
  BY <1>1, <1>2 DEF PushType, Pushing, PushOK

(***************************************************************************)
(* RouteToSendQueue keeps the invariant: the distributor has nothing else  *)
(* in hand.                                                                *)
(***************************************************************************)
LEMMA DistributorTakeStep ==
  ASSUME IInv, NEW t \in Distributors, DistributorTake(t)
  PROVE  IInv'
<1> DEFINE x == Head(queue[t])
           p == Pushing(ReactorThread(x.to), <<x>>)
<1>1. Types /\ SentBound /\ Pushes /\ Placed /\ Ordered /\ Conserved
  BY Zenon DEF IInv
<1>2. /\ t \in Threads /\ t \in Queues /\ t \notin Workers /\ t \notin Reactors
      /\ t = DistQueue(t[2]) /\ Queues = Threads
  BY ThreadKinds, Zenon
<1>3. /\ queue[t] # << >> /\ push[t] = NoPush
      /\ queue' = [queue EXCEPT ![t] = Tail(queue[t])]
      /\ push' = [push EXCEPT ![t] = Pushing(SendQueue(t[2], ReactorOf(x.to)), <<x>>)]
      /\ UNCHANGED <<running, ended, open, sent, received, bumped>>
  BY Zenon DEF DistributorTake, Idle
<1>4. /\ queue' \in [Queues -> Seq(Item)]
      /\ \A c \in Queues : Len(queue'[c]) <= Capacity(c)
      /\ \A c \in Queues : c # t => queue'[c] = queue[c]
      /\ queue'[t] = Tail(queue[t]) /\ x = queue[t][1] /\ x \in Item /\ Queued(t, x)
      /\ \A c \in Queues : \A n \in 1 .. Len(queue'[c]) : Queued(c, queue'[c][n])
  BY <1>1, <1>2, <1>3, Taken, ZenonT(40)
<1>5. Outbound(x) /\ t = DistQueue(PlaneOf(x.to))
  BY <1>4, Zenon DEF Queued
<1>6. x.to \in Sids
  BY <1>1, <1>4, <1>5, OutboundCrosses, ZenonT(40)
<1> HIDE DEF x
<1>7. /\ push' = [push EXCEPT ![t] = p] /\ ReactorThread(x.to) \in Queues
  <2>1. t[2] = PlaneOf(x.to)
    BY <1>5, ZenonT(40) DEF DistQueue
  <2>2. SendQueue(t[2], ReactorOf(x.to)) = ReactorThread(x.to)
    BY <2>1, Zenon DEF ReactorThread
  <2> QED
    BY <1>3, <1>6, <2>2, WayThreads, Zenon
<1>8. <<x>> \in Seq(Item) /\ Len(<<x>>) = 1 /\ <<x>>[1] = x /\ <<x>> # << >>
      /\ \A n \in 1 .. Len(<<x>>) : <<x>>[n] = x
  BY <1>4
<1>9. p \in PushType /\ p.items = <<x>> /\ p.queue = ReactorThread(x.to)
  BY <1>7, <1>8, PushingType, Zenon
<1> HIDE DEF p
<1>10. PushOK(t, p)
  BY <1>2, <1>7, <1>8, <1>9, ZenonT(40) DEF PushOK
<1>11. \A n \in 1 .. Len(p.items) : InHand(t, p.items[n])
  <2>1. InHand(t, x)
    BY <1>2, <1>5, Zenon DEF InHand
  <2> QED
    BY <1>8, <1>9, <2>1, Zenon
<1>12. /\ push' \in [Threads -> PushType] /\ Pushes'
       /\ push'[t] = p /\ \A c \in Threads : c # t => push'[c] = push[c]
       /\ \A c \in Threads : \A n \in 1 .. Len(push'[c].items) :
            InHand(c, push'[c].items[n])
  BY <1>1, <1>2, <1>7, <1>9, <1>10, <1>11, Begun, ZenonT(40)
<1>13. Types' /\ SentBound'
  <2>1. /\ running' = running /\ ended' = ended /\ open' = open
        /\ received' = received /\ sent' = sent /\ bumped' = bumped
    BY <1>3
  <2> QED
    BY <1>1, <1>4, <1>12, <2>1, ZenonT(40) DEF Types, SentBound, Sent
<1>14. Placed'
  <2>1. \A s \in Sids : \A n \in 1 .. Len(received'[s]) :
          Outbound(received'[s][n]) /\ received'[s][n].to = s
    BY <1>1, <1>3, ZenonT(40) DEF Placed
  <2> QED
    BY <1>3, <1>4, <1>12, <2>1, PlacedKept, ZenonT(40)
<1>15. ASSUME NEW f \in Sids, NEW d \in Sids
       PROVE  FlowStep(f, d)
  <2> DEFINE S == Stages(f, d)
             T == Stages(f, d)'
  <2>1. /\ WorkerOf(f) \in Threads /\ ReactorThread(f) \in Threads
        /\ ReactorThread(d) \in Threads /\ DistQueue(PlaneOf(d)) \in Threads
        /\ ReactorThread(f) # t /\ ReactorThread(d) # t /\ WorkerOf(f) # t
    BY <1>2, WayThreads, ThreadKinds, Zenon
  <2>2. /\ T[1] = S[1] /\ T[2] = S[2] /\ T[5] = S[5] /\ T[6] = S[6] /\ T[7] = S[7]
        /\ S[3] = push[DistQueue(PlaneOf(d))].items
        /\ T[3] = push'[DistQueue(PlaneOf(d))].items
        /\ S[4] = queue[DistQueue(PlaneOf(d))] /\ T[4] = queue'[DistQueue(PlaneOf(d))]
    <3>1. /\ received' = received /\ queue'[ReactorThread(d)] = queue[ReactorThread(d)]
          /\ push'[WorkerOf(f)] = push[WorkerOf(f)]
          /\ queue'[WorkerOf(f)] = queue[WorkerOf(f)]
          /\ push'[ReactorThread(f)] = push[ReactorThread(f)]
      BY <1>2, <1>3, <1>4, <1>12, <2>1, Zenon
    <3> QED
      BY <3>1, StageParts
  <2>3. \A j \in 1 .. 7 : j = 1 \/ j = 2 \/ j = 3 \/ j = 4 \/ j = 5 \/ j = 6 \/ j = 7
    OBVIOUS
  <2>4. S \in Families /\ T \in Families
    BY <1>1, <1>13, StagesType, Zenon
  <2> HIDE DEF S, T
  <2>5. CASE DistQueue(PlaneOf(d)) # t
    <3>1. T[3] = S[3] /\ T[4] = S[4]
      BY <1>2, <1>4, <1>12, <2>1, <2>2, <2>5, ZenonT(40)
    <3>2. \A j \in 1 .. 7 : T[j] = S[j]
      BY <2>2, <2>3, <3>1, Zenon
    <3> QED
      BY <1>1, <1>13, <3>2, Unmoved, ZenonT(40) DEF S, T
  <2>6. CASE DistQueue(PlaneOf(d)) = t
    <3>1. S[3] = << >> /\ T[3] = <<x>> /\ S[4] = queue[t] /\ T[4] = Tail(queue[t])
      BY <1>3, <1>4, <1>9, <1>12, <2>2, <2>6, SMTT(30) DEF NoPush, Pushing
    <3>2. T[3] = Append(S[3], x)
      BY <3>1
    <3>3. S[4] # << >> /\ S[4][1] = x /\ T[4] = Tail(S[4])
      BY <1>3, <1>4, <3>1, ZenonT(40)
    <3>4. /\ \A j \in 1 .. 7 : j # 3 /\ j # 4 => T[j] = S[j]
          /\ Belongs(f, d, 4, x) => Belongs(f, d, 3, x)
          /\ 3 + 1 = 4 /\ 3 \in 1 .. 6
      BY <2>2, <2>3 DEF Belongs
    <3>5. OneMove(f, d, S, T, 3, x)
      BY <3>2, <3>3, <3>4, Zenon DEF OneMove
    <3> QED
      BY <1>4, <2>4, <3>4, <3>5, OneMoves, ZenonT(40) DEF FlowStep, S, T
  <2> QED
    BY <2>5, <2>6, Zenon
<1>16. Ordered' /\ Conserved'
  BY <1>1, <1>3, <1>13, <1>15, FlowsKept, ZenonT(40)
<1> QED
  BY <1>12, <1>13, <1>14, <1>16, Zenon DEF IInv

(***************************************************************************)
(* DrainSendQueue keeps the invariant: it writes a frame to the session    *)
(* the frame is for, unless that one is closed or the frame has no bytes.  *)
(***************************************************************************)
LEMMA ReactorTakeStep ==
  ASSUME IInv, NEW t \in Reactors, ReactorTake(t)
  PROVE  IInv'
<1> DEFINE x == Head(queue[t])
<1>1. Types /\ SentBound /\ Pushes /\ Placed /\ Ordered /\ Conserved
  BY Zenon DEF IInv
<1>2. t \in Threads /\ t \in Queues /\ t \notin Workers /\ t \notin Distributors /\ Queues = Threads
  BY ThreadKinds, Zenon
<1>3. /\ queue[t] # << >>
      /\ queue' = [queue EXCEPT ![t] = Tail(queue[t])]
      /\ received' = IF x.to \in open /\ x.data # "empty"
                       THEN [received EXCEPT ![x.to] = Append(received[x.to], x)]
                       ELSE received
      /\ UNCHANGED <<running, ended, open, push, sent, bumped>>
  BY Zenon DEF ReactorTake, Idle
<1>4. /\ queue' \in [Queues -> Seq(Item)]
      /\ \A c \in Queues : Len(queue'[c]) <= Capacity(c)
      /\ \A c \in Queues : c # t => queue'[c] = queue[c]
      /\ queue'[t] = Tail(queue[t]) /\ x = queue[t][1] /\ x \in Item /\ Queued(t, x)
      /\ \A c \in Queues : \A n \in 1 .. Len(queue'[c]) : Queued(c, queue'[c][n])
  BY <1>1, <1>2, <1>3, Taken, ZenonT(40)
<1>5. Outbound(x) /\ t = ReactorThread(x.to)
  BY <1>4, Zenon DEF Queued
<1>6. x.to \in Sids
  BY <1>1, <1>4, <1>5, OutboundCrosses, ZenonT(40)
<1> HIDE DEF x
<1>7. received \in [Sids -> Seq(Item)]
  BY <1>1 DEF Types
<1>8. /\ \A s \in Sids :
           received'[s] = IF s = x.to /\ s \in open /\ x.data # "empty"
                            THEN Append(received[s], x) ELSE received[s]
      /\ received' \in [Sids -> Seq(Item)]
  <2>1. Append(received[x.to], x) \in Seq(Item)
    BY <1>4, <1>6, <1>7
  <2> QED
    BY <1>3, <1>6, <1>7, <2>1, ZenonT(40)
<1>9. Types' /\ SentBound' /\ Pushes'
  <2>1. Types'
    <3>1. /\ running' = running /\ ended' = ended /\ open' = open
          /\ push' = push /\ sent' = sent /\ bumped' = bumped
      BY <1>3
    <3> QED
      BY <1>1, <1>4, <1>8, <3>1, ZenonT(40) DEF Types
  <2>2. SentBound' /\ Pushes'
    BY <1>1, <1>3 DEF SentBound, Sent, Pushes
  <2> QED
    BY <2>1, <2>2
<1>10. Placed'
  <2>1. ASSUME NEW s \in Sids, NEW n \in 1 .. Len(received'[s])
        PROVE  Outbound(received'[s][n]) /\ received'[s][n].to = s
    <3>1. received[s] \in Seq(Item)
      BY <1>7
    <3>2. \/ n \in 1 .. Len(received[s]) /\ received'[s][n] = received[s][n]
          \/ s = x.to /\ received'[s][n] = x
      <4>1. CASE received'[s] = received[s]
        BY <4>1
      <4>2. CASE s = x.to /\ received'[s] = Append(received[s], x)
        BY <3>1, <4>2
      <4> QED
        BY <1>8, <4>1, <4>2, Zenon
    <3> QED
      BY <1>1, <1>5, <3>2, Zenon DEF Placed
  <2>2. \A c \in Threads : \A n \in 1 .. Len(push'[c].items) : InHand(c, push'[c].items[n])
    BY <1>1, <1>3 DEF Placed
  <2> QED
    BY <1>3, <1>4, <2>1, <2>2, PlacedKept, ZenonT(40)
<1>11. ASSUME NEW f \in Sids, NEW d \in Sids
       PROVE  FlowStep(f, d)
  <2> DEFINE S == Stages(f, d)
             T == Stages(f, d)'
  <2>1. /\ WorkerOf(f) \in Threads /\ ReactorThread(f) \in Threads
        /\ ReactorThread(d) \in Threads /\ DistQueue(PlaneOf(d)) \in Threads
        /\ DistQueue(PlaneOf(d)) # t /\ WorkerOf(f) # t
    BY <1>2, WayThreads, ThreadKinds, ZenonT(40)
  <2>2. /\ T[3] = S[3] /\ T[4] = S[4] /\ T[5] = S[5] /\ T[6] = S[6] /\ T[7] = S[7]
        /\ S[1] = received[d] /\ T[1] = received'[d]
        /\ S[2] = queue[ReactorThread(d)] /\ T[2] = queue'[ReactorThread(d)]
    <3>1. /\ push' = push /\ queue'[WorkerOf(f)] = queue[WorkerOf(f)]
          /\ queue'[DistQueue(PlaneOf(d))] = queue[DistQueue(PlaneOf(d))]
      BY <1>2, <1>3, <1>4, <2>1, ZenonT(40)
    <3> QED
      BY <3>1, StageParts
  <2>3. \A j \in 1 .. 7 : j = 1 \/ j = 2 \/ j = 3 \/ j = 4 \/ j = 5 \/ j = 6 \/ j = 7
    OBVIOUS
  <2>4. S \in Families /\ T \in Families
    BY <1>1, <1>9, StagesType, Zenon
  <2> HIDE DEF S, T
  <2>5. /\ d = x.to /\ d \in open /\ x.data = "whole" => T[1] = Append(S[1], x)
        /\ T[1] = S[1] \/ (d = x.to /\ T[1] = Append(S[1], x))
    BY <1>8, <2>2, ZenonT(40)
  <2>6. /\ ReactorThread(d) # t => T[2] = S[2]
        /\ ReactorThread(d) = t => S[2] # << >> /\ S[2][1] = x /\ T[2] = Tail(S[2])
    BY <1>2, <1>3, <1>4, <2>1, <2>2, Zenon
  <2>7. /\ \A j \in 1 .. 7 : j # 1 /\ j # 2 => T[j] = S[j]
        /\ Belongs(f, d, 2, x) => Belongs(f, d, 1, x) /\ x.to = d
        /\ 1 + 1 = 2 /\ 1 \in 1 .. 6
    BY <2>2, <2>3 DEF Belongs
  <2>8. OneMove(f, d, S, T, 1, x)
    <3>1. Belongs(f, d, 1, x) => x.to = d
      BY DEF Belongs
    <3>2. ReactorThread(d) # t => d # x.to
      BY <1>5
    <3> QED
      BY <2>5, <2>6, <2>7, <3>1, <3>2, Zenon DEF OneMove
  <2> QED
    BY <1>4, <2>4, <2>7, <2>8, OneMoves, Zenon DEF FlowStep, S, T
<1>12. Ordered' /\ Conserved'
  BY <1>1, <1>3, <1>9, <1>11, FlowsKept, Zenon
<1> QED
  BY <1>9, <1>10, <1>12, Zenon DEF IInv

-----------------------------------------------------------------------------
(* Sessions                                                                 *)

(***************************************************************************)
(* Sessions may close, threads may end and a plane may be told to stop:    *)
(* nothing of that moves an item.                                          *)
(***************************************************************************)
LEMMA StandStill ==
  ASSUME IInv, Types', open' \subseteq open, UNCHANGED <<queue, push, sent, received, bumped>>
  PROVE  IInv'
<1>1. Types /\ SentBound /\ Pushes /\ Placed /\ Ordered /\ Conserved
  BY Zenon DEF IInv
<1>2. queue' = queue /\ push' = push /\ sent' = sent /\ received' = received /\ bumped' = bumped
  OBVIOUS
<1>3. SentBound' /\ Pushes'
  BY <1>1, <1>2, ZenonT(40) DEF SentBound, Sent, Pushes
<1>4. Placed'
  BY <1>1, <1>2, PlacedKept, Zenon DEF Placed
<1>5. ASSUME NEW f \in Sids, NEW d \in Sids
      PROVE  FlowStep(f, d)
  <2>1. Stages(f, d)' = Stages(f, d)
    BY <1>2, Zenon DEF Stages
  <2> QED
    BY <1>1, <2>1, Unmoved, Zenon
<1>6. Ordered' /\ Conserved'
  BY <1>1, <1>2, <1>5, FlowsKept, SMTT(30)
<1> QED
  BY <1>3, <1>4, <1>6, Zenon DEF IInv

\* What the sessions have sent, in a step that is the next message of s.
SendsOneMore(s, nid) ==
  /\ Len(sent[s]) \in Nat /\ Len(sent[s]) + 1 \in 1 .. MaxFrames
  /\ sent' \in [Sids -> Seq(Gateways \cup {NoNid})] /\ SentBound'
  /\ Len(sent'[s]) = Len(sent[s]) + 1 /\ sent'[s][Len(sent[s]) + 1] = nid
  /\ \A f \in Sids : Len(sent[f]) <= Len(sent'[f])
  /\ \A f \in Sids : \A i \in 1 .. Len(sent[f]) : sent'[f][i] = sent[f][i]
  /\ Sent' = Sent \cup {<<s, Len(sent[s]) + 1>>}

\* In this step session s has sent x, and the reactor of s has it in hand.
Enters(s, x) ==
  /\ SendsOneMore(s, x.to)
  /\ x \in Item /\ x.from = s /\ x.seq = Len(sent[s]) + 1 /\ x.data = "whole"
  /\ push[ReactorThread(s)] = NoPush /\ push'[ReactorThread(s)].items = <<x>>
  /\ \A c \in Threads : c # ReactorThread(s) => push'[c] = push[c]
  /\ queue' = queue /\ received' = received /\ bumped' = bumped /\ open' = open

(***************************************************************************)
(* What was sent before is as it was.                                      *)
(***************************************************************************)
LEMMA SentBefore ==
  ASSUME Types, NEW s \in Sids, NEW x, Enters(s, x), NEW y \in Item,
         y.seq <= Len(sent[y.from])
  PROVE  y.seq <= Len(sent'[y.from]) /\ sent'[y.from][y.seq] = sent[y.from][y.seq]
<1>1. /\ sent' \in [Sids -> Seq(Gateways \cup {NoNid})]
      /\ \A f \in Sids : Len(sent[f]) <= Len(sent'[f])
      /\ \A f \in Sids : \A i \in 1 .. Len(sent[f]) : sent'[f][i] = sent[f][i]
  BY Zenon DEF Enters, SendsOneMore
<1>2. y.from \in Sids /\ y.seq \in 1 .. MaxFrames /\ MaxFrames \in Nat
  BY PipelineAssumption, Zenon DEF Item
<1>3. Len(sent[y.from]) \in Nat /\ Len(sent'[y.from]) \in Nat
  BY <1>1, <1>2 DEF Types
<1>4. y.seq \in 1 .. Len(sent[y.from])
  BY <1>2, <1>3
<1> QED
  BY <1>1, <1>2, <1>3, <1>4

(***************************************************************************)
(* So every item stays on its way, and the new one starts on its own.      *)
(***************************************************************************)
LEMMA EntersPlaced ==
  ASSUME Types, Placed, NEW s \in Sids, NEW x, Enters(s, x)
  PROVE  Placed'
<1> DEFINE t == ReactorThread(s)
<1>1. /\ \A c \in Queues : \A n \in 1 .. Len(queue[c]) : queue[c][n] \in Item
      /\ \A c \in Threads : \A n \in 1 .. Len(push[c].items) : push[c].items[n] \in Item
      /\ \A c \in Sids : \A n \in 1 .. Len(received[c]) : received[c][n] \in Item
  <2>1. \A Q \in Seq(Item) : \A n \in 1 .. Len(Q) : Q[n] \in Item
    OBVIOUS
  <2> QED
    BY <2>1, ItemTypes, Zenon
<1>2. /\ queue' = queue /\ received' = received
      /\ push'[t].items = <<x>> /\ \A c \in Threads : c # t => push'[c] = push[c]
  BY Zenon DEF Enters
<1>3. \A y \in Item : y.seq <= Len(sent[y.from]) =>
        y.seq <= Len(sent'[y.from]) /\ sent'[y.from][y.seq] = sent[y.from][y.seq]
  BY SentBefore, ZenonT(40)
<1>4. ASSUME NEW c \in Sids, NEW n \in 1 .. Len(received'[c])
      PROVE  Outbound(received[c][n])' /\ received'[c][n].to = c
  <2>1. n \in 1 .. Len(received[c])
    BY <1>2
  <2>2. Outbound(received[c][n]) /\ received[c][n].to = c /\ received[c][n] \in Item
    BY <1>1, <2>1, Zenon DEF Placed
  <2> QED
    BY <1>2, <1>3, <2>2, Zenon DEF Outbound, Recipients
<1>5. ASSUME NEW c \in Queues, NEW n \in 1 .. Len(queue'[c])
      PROVE  Queued(c, queue[c][n])'
  <2>1. n \in 1 .. Len(queue[c])
    BY <1>2, Zenon
  <2>2. Queued(c, queue[c][n]) /\ queue[c][n] \in Item
    BY <1>1, <2>1, Zenon DEF Placed
  <2> QED
    BY <1>2, <1>3, <2>2, Zenon DEF Queued, Outbound, Inbound, Recipients
<1>6. ASSUME NEW c \in Threads, NEW n \in 1 .. Len(push'[c].items)
      PROVE  InHand(c, push[c].items[n])'
  <2>1. CASE c = t
    <3>1. push'[c].items[n] = x
      BY <1>2, <2>1
    <3>2. /\ x.seq <= Len(sent'[x.from]) /\ x.to = sent'[x.from][x.seq] /\ t = ReactorThread(x.from)
          /\ t \notin Workers /\ t \notin Distributors
      BY WayThreads, ThreadKinds DEF Enters, SendsOneMore
    <3> QED
      BY <2>1, <3>1, <3>2, Zenon DEF InHand, Inbound
  <2>2. CASE c # t
    <3>1. push'[c] = push[c] /\ n \in 1 .. Len(push[c].items)
      BY <1>2, <2>2, ZenonT(40)
    <3>2. InHand(c, push[c].items[n]) /\ push[c].items[n] \in Item
      BY <1>1, <3>1, Zenon DEF Placed
    <3> QED
      BY <1>3, <3>1, <3>2, Zenon DEF InHand, Outbound, Inbound, Recipients
  <2> QED
    BY <2>1, <2>2, ZenonT(40)
<1> QED
  BY <1>4, <1>5, <1>6, Zenon DEF Placed

(***************************************************************************)
(* Only the last of the seven sequences of a flow gains x, and only where  *)
(* the reactor of s is on its way.                                         *)
(***************************************************************************)
LEMMA EntersStages ==
  ASSUME Types, Types', NEW s \in Sids, NEW x, Enters(s, x), NEW f \in Sids, NEW d \in Sids
  PROVE  /\ Stages(f, d) \in Families /\ Stages(f, d)' \in Families
         /\ \A j \in 1 .. 6 : Stages(f, d)'[j] = Stages(f, d)[j]
         /\ ReactorThread(f) # ReactorThread(s) => Stages(f, d)'[7] = Stages(f, d)[7]
         /\ ReactorThread(f) = ReactorThread(s) =>
              Stages(f, d)[7] = << >> /\ Stages(f, d)'[7] = <<x>>
<1> DEFINE t == ReactorThread(s)
           S == Stages(f, d)
           T == Stages(f, d)'
<1>1. S \in Families /\ T \in Families
  BY StagesType, Zenon
<1>2. /\ queue' = queue /\ received' = received
      /\ push[t].items = << >> /\ push'[t].items = <<x>>
      /\ \A c \in Threads : c # t => push'[c] = push[c]
  BY DEF Enters, NoPush, Pushing
<1>3. /\ DistQueue(PlaneOf(d)) \in Threads /\ WorkerOf(f) \in Threads
      /\ ReactorThread(f) \in Threads /\ DistQueue(PlaneOf(d)) # t /\ WorkerOf(f) # t
  BY WayThreads, ThreadKinds, Zenon
<1>4. T[1] = S[1] /\ T[2] = S[2] /\ T[3] = S[3] /\ T[4] = S[4] /\ T[5] = S[5] /\ T[6] = S[6]
  <2>1. /\ push'[DistQueue(PlaneOf(d))] = push[DistQueue(PlaneOf(d))]
        /\ push'[WorkerOf(f)] = push[WorkerOf(f)] /\ queue' = queue /\ received' = received
    BY <1>2, <1>3, Zenon DEF Enters
  <2> QED
    BY <2>1, StageParts
<1>5. /\ ReactorThread(f) # t => T[7] = S[7]
      /\ ReactorThread(f) = t => S[7] = << >> /\ T[7] = <<x>>
  BY <1>2, <1>3, StageParts, SMTT(30)
<1>6. \A j \in 1 .. 6 : j = 1 \/ j = 2 \/ j = 3 \/ j = 4 \/ j = 5 \/ j = 6
  OBVIOUS
<1> HIDE DEF S, T
<1>7. \A j \in 1 .. 6 : T[j] = S[j]
  BY <1>4, <1>6, Zenon
<1> QED
  BY <1>1, <1>5, <1>7, Zenon DEF S, T

(***************************************************************************)
(* x is later than all that s has sent before.                             *)
(***************************************************************************)
LEMMA EntersLast ==
  ASSUME Types, Types', Placed, NEW s \in Sids, NEW x, Enters(s, x),
         NEW f \in Sids, NEW d \in Sids, NEW j \in 1 .. 7, NEW n \in 1 .. Len(Stages(f, d)[j])
  PROVE  Stages(f, d)[j][n].from = x.from => Stages(f, d)[j][n].seq < x.seq
<1> DEFINE S == Stages(f, d)
<1>1. /\ \A c \in Queues : \A i \in 1 .. Len(queue[c]) :
           queue[c][i].seq <= Len(sent[queue[c][i].from])
      /\ \A c \in Threads : \A i \in 1 .. Len(push[c].items) :
           push[c].items[i].seq <= Len(sent[push[c].items[i].from])
      /\ \A c \in Sids : \A i \in 1 .. Len(received[c]) :
           received[c][i].seq <= Len(sent[received[c][i].from])
  BY ThreadKinds, Zenon DEF Placed, Queued, InHand, Inbound, Outbound
<1>2. /\ DistQueue(PlaneOf(d)) \in Threads /\ WorkerOf(f) \in Threads
      /\ ReactorThread(f) \in Threads /\ ReactorThread(d) \in Threads /\ Queues = Threads
  BY WayThreads, ThreadKinds, ZenonT(40)
<1>3. /\ S[1] = received[d] /\ S[2] = queue[ReactorThread(d)]
      /\ S[3] = push[DistQueue(PlaneOf(d))].items /\ S[4] = queue[DistQueue(PlaneOf(d))]
      /\ S[5] = push[WorkerOf(f)].items /\ S[6] = queue[WorkerOf(f)]
      /\ S[7] = push[ReactorThread(f)].items
  BY StageParts
<1>4. j = 1 \/ j = 2 \/ j = 3 \/ j = 4 \/ j = 5 \/ j = 6 \/ j = 7
  OBVIOUS
<1>5. S \in Families
  BY StagesType, Zenon
<1> HIDE DEF S
<1>6. n \in 1 .. Len(S[j])
  BY Zenon DEF S
<1>7. S[j][n].seq <= Len(sent[S[j][n].from])
  BY <1>1, <1>2, <1>3, <1>4, <1>6, ZenonT(120)
<1>8. S[j][n] \in Item
  BY <1>5, <1>6, SMTT(90) DEF Families
<1>9. S[j][n].seq \in Nat
  BY <1>8, PipelineAssumption DEF Item
<1>10. x.from = s /\ x.seq = Len(sent[s]) + 1 /\ Len(sent[s]) \in Nat
  BY Zenon DEF Enters, SendsOneMore
<1> QED
  BY <1>7, <1>9, <1>10 DEF S

(***************************************************************************)
(* The flows stay in order.                                                *)
(***************************************************************************)
LEMMA EntersOrdered ==
  ASSUME Types, Types', Placed, Ordered, NEW s \in Sids, NEW x, Enters(s, x)
  PROVE  Ordered'
<1>1. ASSUME NEW f \in Sids, NEW d \in Sids, PlaneOf(f) # PlaneOf(d)
      PROVE  Sorted(f, d, Stages(f, d)')
  <2> DEFINE S == Stages(f, d)
             T == Stages(f, d)'
  <2>1. Sorted(f, d, S)
    BY <1>1, Zenon DEF Ordered
  <2>2. /\ S \in Families /\ T \in Families /\ \A j \in 1 .. 6 : T[j] = S[j]
        /\ ReactorThread(f) # ReactorThread(s) => T[7] = S[7]
        /\ ReactorThread(f) = ReactorThread(s) => S[7] = << >> /\ T[7] = <<x>>
    BY EntersStages
  <2>3. \A j \in 1 .. 7 : \A n \in 1 .. Len(S[j]) : S[j][n].from = x.from => S[j][n].seq < x.seq
    BY EntersLast, Zenon
  <2>4. \A j \in 1 .. 7 : j \in 1 .. 6 \/ j = 7
    OBVIOUS
  <2>5. \A j \in 1 .. 6 : j \in 1 .. 7
    OBVIOUS
  <2>6. x \in Item
    BY Zenon DEF Enters
  <2> HIDE DEF S, T
  <2>7. CASE ReactorThread(f) # ReactorThread(s)
    <3>1. \A j \in 1 .. 7 : T[j] = S[j]
      BY <2>2, <2>4, <2>7, Zenon
    <3>2. Sorted(f, d, T)
      BY <2>1, <3>1, Zenon DEF Sorted
    <3> QED
      BY <3>2, Zenon DEF T
  <2>8. CASE ReactorThread(f) = ReactorThread(s)
    <3>1. Sorted(f, d, T)
      BY <2>1, <2>2, <2>3, <2>5, <2>6, <2>8, ArrivesSorted, Zenon
    <3> QED
      BY <3>1, ZenonT(40) DEF T
  <2> QED
    BY <2>7, <2>8, ZenonT(40)
<1> QED
  BY <1>1, Zenon DEF Ordered

(***************************************************************************)
(* Nothing is lost, and the new message is there.                          *)
(***************************************************************************)
LEMMA EntersConserved ==
  ASSUME Types, Types', Conserved, NEW s \in Sids, NEW x, Enters(s, x)
  PROVE  Conserved'
<1>1. ASSUME NEW m \in Sent' \ bumped', NEW d \in Recipients(m[1], m[2])' \cap open'
      PROVE  Carries(m[1], d, Stages(m[1], d)', m[2])
  <2> DEFINE f == m[1]
             i == m[2]
             S == Stages(f, d)
             T == Stages(f, d)'
  <2>1. m = <<f, i>> /\ f \in Sids /\ i \in 1 .. MaxFrames /\ d \in Sids /\ d \in open
    <3>1. open \subseteq Sids /\ open' = open
      BY Zenon DEF Types, Enters
    <3> QED
      BY <3>1 DEF Sent
  <2>2. /\ \A j \in 1 .. 6 : T[j] = S[j]
        /\ ReactorThread(f) # ReactorThread(s) => T[7] = S[7]
        /\ ReactorThread(f) = ReactorThread(s) => S[7] = << >> /\ T[7] = <<x>>
    BY <2>1, EntersStages
  <2>3. /\ Sent' = Sent \cup {<<s, Len(sent[s]) + 1>>} /\ bumped' = bumped
        /\ \A c \in Sids : \A k \in 1 .. Len(sent[c]) : sent'[c][k] = sent[c][k]
        /\ x.from = s /\ x.seq = Len(sent[s]) + 1 /\ x.data = "whole"
    BY Zenon DEF Enters, SendsOneMore
  <2>4. CASE m = <<s, Len(sent[s]) + 1>>
    <3>1. f = s /\ i = x.seq /\ T[7] = <<x>>
      BY <2>2, <2>3, <2>4, ZenonT(40)
    <3>2. Belongs(f, d, 7, x) /\ 7 \in 1 .. 7 /\ 1 \in 1 .. Len(<<x>>) /\ <<x>>[1] = x
      BY <2>3, <3>1 DEF Belongs
    <3> HIDE DEF f, i, T
    <3>3. T[7][1] = x /\ 1 \in 1 .. Len(T[7])
      BY <3>1, <3>2, Zenon
    <3>4. Carries(f, d, T, i)
      BY <2>3, <3>1, <3>2, <3>3, ZenonT(40) DEF Carries
    <3> QED
      BY <3>4, Zenon DEF f, i, T
  <2>5. CASE m # <<s, Len(sent[s]) + 1>>
    <3>1. m \in Sent \ bumped
      BY <2>3, <2>5
    <3>2. Recipients(f, i)' = Recipients(f, i)
      <4>1. i \in 1 .. Len(sent[f])
        BY <2>1, <3>1, SMTT(30) DEF Sent, Types
      <4>2. sent'[f][i] = sent[f][i]
        BY <2>1, <2>3, <4>1, Zenon
      <4> QED
        BY <4>2, SMTT(30) DEF Recipients
    <3>3. Carries(f, d, S, i)
      BY <2>1, <3>1, <3>2, Zenon DEF Conserved
    <3>4. \A j \in 1 .. 7 : j \in 1 .. 6 \/ j = 7
      OBVIOUS
    <3>5. Len(<< >>) = 0 /\ \A n \in 1 .. 0 : FALSE
      OBVIOUS
    <3> HIDE DEF f, i, S, T
    <3>6. \A j \in 1 .. 7 : T[j] = S[j] \/ S[j] = << >>
      BY <2>2, <3>4, Zenon
    <3>7. Carries(f, d, T, i)
      BY <3>3, <3>5, <3>6, ZenonT(40) DEF Carries
    <3> QED
      BY <3>7 DEF f, i, T
  <2> QED
    BY <2>4, <2>5
<1> QED
  BY <1>1, Zenon DEF Conserved

(***************************************************************************)
(* Reactor::EnqueueInbound keeps the invariant: the new message is later   *)
(* than all others of its session, and starts on its way.                  *)
(***************************************************************************)
LEMMA EnqueueInboundStep ==
  ASSUME IInv, NEW s \in Sids, NEW nid \in Gateways \cup {NoNid}, EnqueueInbound(s, nid),
         SendsOneMore(s, nid)
  PROVE  IInv'
<1> DEFINE t == ReactorThread(s)
           x == [from |-> s, seq |-> Len(sent[s]) + 1, to |-> nid, data |-> "whole"]
           p == Pushing(WorkerOf(s), <<x>>)
<1>1. Types /\ Pushes /\ Placed /\ Ordered /\ Conserved
  BY Zenon DEF IInv
<1>2. /\ push[t] = NoPush /\ push' = [push EXCEPT ![t] = p]
      /\ UNCHANGED <<running, ended, open, queue, received, bumped>>
  BY DEF EnqueueInbound, Idle, WorkerOf
<1>3. /\ t \in Threads /\ t \notin Workers /\ t \notin Distributors /\ WorkerOf(s) \in Queues
  BY WayThreads, ThreadKinds, Zenon
<1>4. x \in Item /\ x.from = s /\ x.seq = Len(sent[s]) + 1 /\ x.to = nid /\ x.data = "whole"
  BY Zenon DEF SendsOneMore, Item, Sids
<1> HIDE DEF x, t
<1>5. <<x>> \in Seq(Item) /\ Len(<<x>>) = 1 /\ <<x>>[1] = x /\ <<x>> # << >>
  BY <1>4
<1>6. p \in PushType /\ p.items = <<x>> /\ p.queue = WorkerOf(s)
  BY <1>3, <1>5, PushingType, ZenonT(40)
<1> HIDE DEF p
<1>7. PushOK(t, p)
  BY <1>3, <1>4, <1>5, <1>6, ZenonT(40) DEF PushOK
<1>8. push \in [Threads -> PushType]
  BY <1>1 DEF Types
<1>9. /\ push' \in [Threads -> PushType] /\ push'[t] = p
      /\ \A c \in Threads : c # t => push'[c] = push[c]
  BY <1>2, <1>3, <1>6, <1>8, ZenonT(40)
<1>10. Pushes'
  BY <1>1, <1>7, <1>9, Zenon DEF Pushes
<1>11. Types' /\ SentBound'
  BY <1>1, <1>2, <1>9, Zenon DEF Types, SendsOneMore
<1>12. Enters(s, x)
  BY <1>2, <1>4, <1>6, <1>9, ZenonT(40) DEF Enters, t
<1>13. Placed' /\ Ordered' /\ Conserved'
  BY <1>1, <1>11, <1>12, EntersPlaced, EntersOrdered, EntersConserved, Zenon
<1> QED
  BY <1>10, <1>11, <1>13, Zenon DEF IInv

-----------------------------------------------------------------------------
(* What the clients see                                                     *)

\* A service's message that has passed its worker is whole, or empty.
WithPayload(x) == x.from \in Services => x.data # "bare"

Intact ==
  /\ \A q \in Queues : q \notin Workers =>
       \A n \in 1 .. Len(queue[q]) : WithPayload(queue[q][n])
  /\ \A t \in Threads : t \notin Reactors =>
       \A n \in 1 .. Len(push[t].items) : WithPayload(push[t].items[n])

\* What the bridge makes of a worker's next message has the same sender.
SenderKept(t) ==
  LET items == Handle(t[2], Head(queue[t])) IN
  \A n \in 1 .. Len(items) : items[n].from = Head(queue[t]).from

(***************************************************************************)
(* A Push that fails moves the payload out of an InboundMessage, the bytes *)
(* out of an OutboundFrame.                                                *)
(***************************************************************************)
LEMMA FailureEmpties ==
  ASSUME NEW p \in PushType, p.items # << >>, p.queue[1] # "recv",
         \A n \in 1 .. Len(p.items) : WithPayload(p.items[n]),
         NEW n \in 1 .. Len(AfterFailure(p).items)
  PROVE  WithPayload(AfterFailure(p).items[n])
<1>1. /\ p.items \in Seq(Item) /\ p.items[1] \in Item /\ Len(p.items) \in Nat
      /\ p = [queue |-> p.queue, items |-> p.items, tries |-> p.tries]
  BY DEF PushType
<1>2. CASE p.tries < MaxRetries
  <2> DEFINE x == MovedFrom(p.queue, p.items[1])
             items == [p.items EXCEPT ![1] = x]
  <2>1. AfterFailure(p).items = items
    <3>1. AfterFailure(p) = [p EXCEPT !.items = items, !.tries = p.tries + 1]
      BY <1>2, Zenon DEF AfterFailure
    <3> QED
      BY <1>1, <3>1, ZenonT(40)
  <2>2. x.data = "empty"
    BY <1>1, ZenonT(40) DEF MovedFrom, Item
  <2> HIDE DEF x
  <2>3. n \in 1 .. Len(p.items) /\ items[n] = IF n = 1 THEN x ELSE p.items[n]
    BY <1>1, <2>1
  <2> HIDE DEF items
  <2>4. x.data # "bare"
    BY <2>2
  <2> QED
    BY <2>1, <2>3, <2>4, Zenon DEF WithPayload
<1>3. CASE ~(p.tries < MaxRetries)
  <2>1. AfterFailure(p).items = << >>
    BY <1>3, Zenon DEF AfterFailure, NoPush, Pushing
  <2> QED
    BY <2>1
<1> QED
  BY <1>2, <1>3, Zenon

(***************************************************************************)
(* Only reactors push into recv queues.                                    *)
(***************************************************************************)
LEMMA PushTargets ==
  ASSUME Types, Pushes, Placed, NEW t \in Threads, push[t] # NoPush
  PROVE  /\ push[t] \in PushType /\ push[t].items # << >> /\ push[t].queue \in Queues
         /\ t \in Reactors => push[t].queue \in Workers
         /\ t \notin Reactors => push[t].queue \notin Workers
<1> DEFINE p == push[t]
           x == p.items[1]
           q == p.queue
<1>1. p \in PushType /\ p.items # << >> /\ q \in Queues
  BY Zenon DEF Types, Pushes, PushOK
<1>2. x \in Item /\ InHand(t, x)
  <2>1. x \in Item /\ 1 \in 1 .. Len(p.items)
    <3>1. p.items \in Seq(Item)
      BY ItemTypes, Zenon
    <3> HIDE DEF p
    <3> QED
      BY <1>1, <3>1
  <2> QED
    BY <2>1, Zenon DEF Placed
<1>3. CASE t \in Reactors
  <2>1. q = WorkerOf(x.from)
    BY <1>1, <1>3, Zenon DEF Pushes, PushOK
  <2>2. q \in Workers
    BY <1>2, <2>1, SessionThreads, Zenon DEF Item
  <2> QED
    BY <1>1, <1>3, <2>2, Zenon
<1>4. CASE t \in Workers
  <2>1. q = DistQueue(Peer(t[2])) /\ t[2] \in Planes
    BY <1>1, <1>4, ThreadKinds, Zenon DEF Pushes, PushOK
  <2>2. q \in Distributors
    BY <2>1, Crossing, ThreadKinds, ZenonT(40)
  <2> QED
    BY <1>1, <1>4, <2>2, ThreadKinds, Zenon
<1>5. CASE t \in Distributors
  <2>1. q = ReactorThread(x.to) /\ Outbound(x)
    BY <1>1, <1>2, <1>5, Zenon DEF InHand, Pushes, PushOK
  <2>2. q \in Reactors
    BY <1>2, <2>1, OutboundCrosses, SessionThreads, Zenon
  <2> QED
    BY <1>1, <1>5, <2>2, ThreadKinds, Zenon
<1> QED
  BY <1>3, <1>4, <1>5, ThreadKinds, Zenon

(***************************************************************************)
(* PushWithBackoff leaves no service's message without payload behind a    *)
(* worker.                                                                 *)
(***************************************************************************)
LEMMA AttemptIntact ==
  ASSUME IInv, Intact, NEW t \in Threads, PushAttempt(t)
  PROVE  Intact'
<1> DEFINE p == push[t]
           P == p.items
           x == P[1]
           q == p.queue
<1>1. Types /\ Pushes /\ Placed
  BY Zenon DEF IInv
<1>2. /\ \/ push' = [push EXCEPT ![t] = AfterPush(p)]
         \/ push' = [push EXCEPT ![t] = AfterFailure(p)]
      /\ \/ queue' = [queue EXCEPT ![q] = Append(queue[q], x)]
         \/ queue' = queue
      /\ p # NoPush
  BY Zenon DEF PushAttempt
<1>3. /\ p \in PushType /\ P # << >> /\ q \in Queues
      /\ t \in Reactors => q \in Workers
      /\ t \notin Reactors => q \notin Workers
  BY <1>1, <1>2, PushTargets, Zenon
<1>4. P \in Seq(Item) /\ AfterPush(p).items = Tail(P) /\ x \in Item
  BY <1>3, AfterAttempt, Zenon
<1>5. queue \in [Queues -> Seq(Item)] /\ push \in [Threads -> PushType]
  BY <1>1, Zenon DEF Types
<1>6. t \notin Reactors => \A n \in 1 .. Len(P) : WithPayload(P[n])
  BY Zenon DEF Intact
<1>7. ASSUME t \notin Reactors
      PROVE  /\ WithPayload(x)
             /\ \A n \in 1 .. Len(AfterPush(p).items) : WithPayload(AfterPush(p).items[n])
             /\ \A n \in 1 .. Len(AfterFailure(p).items) :
                  WithPayload(AfterFailure(p).items[n])
  <2>1. /\ 1 \in 1 .. Len(P)
        /\ \A n \in 1 .. Len(Tail(P)) : Tail(P)[n] = P[n + 1] /\ n + 1 \in 1 .. Len(P)
    <3> HIDE DEF P
    <3> QED
      BY <1>3, <1>4
  <2>2. q[1] # "recv"
    BY <1>3, <1>7, ThreadKinds, Zenon DEF Workers
  <2>3. \A n \in 1 .. Len(AfterFailure(p).items) : WithPayload(AfterFailure(p).items[n])
    BY <1>3, <1>6, <1>7, <2>2, FailureEmpties, Zenon
  <2> QED
    BY <1>4, <1>6, <1>7, <2>1, <2>3, Zenon
<1> HIDE DEF p, P, x, q
<1>8. ASSUME NEW c \in Queues, c \notin Workers, NEW n \in 1 .. Len(queue'[c])
      PROVE  WithPayload(queue'[c][n])
  <2>1. CASE queue'[c] = queue[c]
    BY <1>8, <2>1, Zenon DEF Intact
  <2>2. CASE c = q /\ queue'[c] = Append(queue[c], x)
    <3>1. \/ n \in 1 .. Len(queue[c]) /\ queue'[c][n] = queue[c][n]
          \/ queue'[c][n] = x
      <4>1. queue[c] \in Seq(Item)
        BY <1>5, Zenon
      <4> QED
        BY <2>2, <4>1
    <3>2. t \notin Reactors
      BY <1>3, <1>8, <2>2, Zenon
    <3> QED
      BY <1>7, <1>8, <3>1, <3>2, Zenon DEF Intact
  <2> QED
    BY <1>2, <1>5, <2>1, <2>2, Zenon
<1>9. ASSUME NEW c \in Threads, c \notin Reactors, NEW n \in 1 .. Len(push'[c].items)
      PROVE  WithPayload(push'[c].items[n])
  <2>1. CASE push'[c] = push[c]
    BY <1>9, <2>1, Zenon DEF Intact
  <2>2. CASE c = t /\ (push'[c] = AfterPush(p) \/ push'[c] = AfterFailure(p))
    BY <1>7, <1>9, <2>2, Zenon
  <2> QED
    BY <1>2, <1>5, <2>1, <2>2, Zenon
<1> QED
  BY <1>8, <1>9, Zenon DEF Intact

(***************************************************************************)
(* The bridge drops a service's message that has lost its payload: no node *)
(* id can be read from it.                                                 *)
(***************************************************************************)
LEMMA HandledIntact ==
  ASSUME NEW t \in Workers, NEW m \in Item, t = WorkerOf(m.from),
         Handle(t[2], m) # << >>, m.from \in Services
  PROVE  Handle(t[2], m) = <<m>> /\ WithPayload(m)
<1>1. m.from \in Sids /\ m.from \notin Gateways /\ t[2] = PlaneOf(m.from)
  BY SessionThreads, PipelineAssumption, Zenon DEF Item, Sids
<1>2. t[2] # "forward"
  BY <1>1, Crossing, Zenon
<1>3. Handle(t[2], m) = <<m>> /\ m.data = "whole"
  BY <1>2, Zenon DEF Handle, AsyncSend
<1>4. m.data # "bare"
  BY <1>3
<1> QED
  BY <1>3, <1>4, Zenon DEF WithPayload

(***************************************************************************)
(* No thread that takes a message from its queue leaves a service's        *)
(* message without payload behind a worker.                                *)
(***************************************************************************)
LEMMA TakeIntact ==
  ASSUME IInv, Intact, NEW t \in Threads, t \in Workers => SenderKept(t),
         \/ t \in Workers /\ WorkerTake(t)
         \/ t \in Distributors /\ DistributorTake(t)
         \/ t \in Reactors /\ ReactorTake(t)
  PROVE  Intact'
<1> DEFINE x == Head(queue[t])
           H == Handle(t[2], x)
<1>1. Types /\ Placed /\ t \in Queues /\ push \in [Threads -> PushType]
  BY ThreadKinds, Zenon DEF IInv, Types
<1>2. queue[t] # << >> /\ queue' = [queue EXCEPT ![t] = Tail(queue[t])]
  BY Zenon DEF WorkerTake, DistributorTake, ReactorTake
<1>3. /\ \A c \in Queues : c # t => queue'[c] = queue[c]
      /\ queue'[t] = Tail(queue[t])
      /\ x = queue[t][1] /\ x \in Item /\ Queued(t, x)
  BY <1>1, <1>2, Taken, Zenon
<1>4. /\ 1 \in 1 .. Len(queue[t])
      /\ \A n \in 1 .. Len(Tail(queue[t])) :
           Tail(queue[t])[n] = queue[t][n + 1] /\ n + 1 \in 1 .. Len(queue[t])
  <2>1. queue[t] \in Seq(Item)
    BY <1>1, Zenon DEF Types
  <2> QED
    BY <1>2, <2>1
<1>5. ASSUME NEW c \in Queues, c \notin Workers, NEW n \in 1 .. Len(queue'[c])
      PROVE  WithPayload(queue'[c][n])
  <2>1. CASE c = t
    <3>1. n + 1 \in 1 .. Len(queue[t]) /\ queue'[c][n] = queue[t][n + 1]
      BY <1>3, <1>4, <1>5, <2>1, Zenon
    <3>2. WithPayload(queue[t][n + 1])
      BY <1>5, <2>1, <3>1, Zenon DEF Intact
    <3> QED
      BY <3>1, <3>2, Zenon
  <2>2. CASE c # t
    BY <1>3, <1>5, <2>2, Zenon DEF Intact
  <2> QED
    BY <2>1, <2>2, Zenon
<1>6. ASSUME NEW c \in Threads, push'[c].items = <<x>>, NEW n \in 1 .. Len(push'[c].items)
      PROVE  push'[c].items[n] = x
  <2> HIDE DEF x
  <2> QED
    BY <1>6
<1>7. ASSUME NEW c \in Threads, c \notin Reactors, NEW n \in 1 .. Len(push'[c].items)
      PROVE  WithPayload(push'[c].items[n])
  <2>1. CASE push'[c] = push[c]
    BY <1>7, <2>1, Zenon DEF Intact
  <2>2. CASE push'[c] # push[c]
    <3>1. CASE t \in Workers /\ WorkerTake(t)
      <4>1. /\ push' = [push EXCEPT ![t] = Pushing(DistQueue(Peer(t[2])), H)] /\ H # << >>
            /\ c = t
        BY <1>1, <2>2, <3>1, Zenon DEF WorkerTake
      <4>2. push'[c].items = H
        BY <1>1, <4>1, Zenon DEF Pushing
      <4>3. Inbound(x) /\ t = WorkerOf(x.from)
        BY <1>3, <3>1, Zenon DEF Queued
      <4>4. H[n].from = x.from
        BY <1>7, <3>1, <4>2, Zenon DEF SenderKept
      <4>5. CASE x.from \in Services
        <5>1. H = <<x>> /\ WithPayload(x)
          BY <1>3, <3>1, <4>1, <4>3, <4>5, HandledIntact, Zenon
        <5>2. push'[c].items = <<x>>
          BY <4>2, <5>1, Zenon
        <5> QED
          BY <1>6, <1>7, <5>1, <5>2, Zenon
      <4> QED
        BY <4>2, <4>4, <4>5, Zenon DEF WithPayload
    <3>2. CASE t \in Distributors /\ DistributorTake(t)
      <4>1. push' = [push EXCEPT ![t] = Pushing(SendQueue(t[2], ReactorOf(x.to)), <<x>>)] /\ c = t
        BY <1>1, <2>2, <3>2, Zenon DEF DistributorTake
      <4>2. push'[c].items = <<x>>
        BY <1>1, <4>1, Zenon DEF Pushing
      <4>3. WithPayload(x)
        <5>1. t \notin Workers
          BY <3>2, ThreadKinds, Zenon
        <5>2. WithPayload(queue[t][1])
          BY <1>1, <1>4, <5>1, Zenon DEF Intact
        <5> QED
          BY <1>3, <5>2, Zenon
      <4> QED
        BY <1>6, <1>7, <4>2, <4>3, Zenon
    <3>3. CASE t \in Reactors /\ ReactorTake(t)
      BY <2>2, <3>3, Zenon DEF ReactorTake
    <3> QED
      BY <3>1, <3>2, <3>3, Zenon
  <2> QED
    BY <2>1, <2>2, Zenon
<1> QED
  BY <1>5, <1>7, Zenon DEF Intact

(***************************************************************************)
(* DrainSendQueue writes to a session what Delivery lets it.               *)
(***************************************************************************)
LEMMA DrainDelivers ==
  ASSUME IInv, IInv', Intact, NEW t \in Reactors, ReactorTake(t)
  PROVE  [Promise!Next]_(Promise!vars)
<1> DEFINE x == Head(queue[t])
           d == x.to
           R == received[d]
<1>1. Types /\ Placed /\ t \in Queues /\ t \notin Workers
  BY ThreadKinds, Zenon DEF IInv
<1>2. /\ queue[t] # << >> /\ queue' = [queue EXCEPT ![t] = Tail(queue[t])]
      /\ received' = IF x.to \in open /\ x.data # "empty"
                       THEN [received EXCEPT ![x.to] = Append(received[x.to], x)]
                       ELSE received
      /\ open' = open /\ sent' = sent
  BY Zenon DEF ReactorTake
<1>3. x = queue[t][1] /\ x \in Item /\ Queued(t, x)
  BY <1>1, <1>2, Taken, Zenon
<1>4. Outbound(x)
  BY <1>3, Zenon DEF Queued
<1>5. /\ x.from \in Sids /\ d \in Sids /\ x.seq \in 1 .. Len(sent[x.from])
      /\ d \in Recipients(x.from, x.seq)
  BY <1>1, <1>3, <1>4, OutboundCrosses, Zenon DEF Outbound
<1>6. CASE ~(d \in open /\ x.data # "empty")
  BY <1>2, <1>6, Zenon DEF Promise!vars
<1>7. CASE d \in open /\ x.data # "empty"
  <2>1. x = [from |-> x.from, seq |-> x.seq, to |-> d, data |-> x.data]
    BY <1>3 DEF Item
  <2>2. /\ x.data \in {"whole", "bare"}
        /\ x.data = "whole" \/ (x.data = "bare" /\ x.from \in Gateways)
    <3>1. x.data \in {"whole", "bare", "empty"}
      BY <1>3 DEF Item
    <3>2. 1 \in 1 .. Len(queue[t])
      <4>1. queue[t] \in Seq(Item)
        BY <1>1, Zenon DEF Types
      <4> QED
        BY <1>2, <4>1
    <3>3. WithPayload(x)
      BY <1>1, <1>3, <3>2, Zenon DEF Intact
    <3> QED
      BY <1>5, <1>7, <3>1, <3>3, Zenon DEF WithPayload, Sids
  <2>3. received \in [Sids -> Seq(Item)] /\ R \in Seq(Item)
    BY <1>1, <1>5, Zenon DEF Types
  <2>4. received' = [received EXCEPT ![d] = Append(R, x)] /\ received'[d] = Append(R, x)
    BY <1>2, <1>5, <1>7, <2>3, Zenon
  <2>5. ASSUME NEW n \in 1 .. Len(R), R[n].from = x.from
        PROVE  R[n].seq < x.seq
    <3> DEFINE A == received'[d]
               k == Len(R) + 1
    <3>1. /\ k \in 1 .. Len(A) /\ n \in 1 .. Len(A) /\ n < k
          /\ A[n] = R[n] /\ A[k] = x
      <4> HIDE DEF R, x
      <4> QED
        BY <1>3, <2>3, <2>4
    <3>2. FlowOrder'
      BY InvariantOrders, PTL
    <3> HIDE DEF A, k, R
    <3>3. A[n].from = A[k].from
      BY <2>5, <3>1, Zenon
    <3>4. A[n].seq < A[k].seq
      BY <1>5, <3>1, <3>2, <3>3, Zenon DEF FlowOrder, A
    <3> QED
      BY <3>1, <3>4, Zenon
  <2>6. Promise!Recipients(x.from, x.seq) = Recipients(x.from, x.seq)
    BY Zenon DEF Promise!Recipients, Recipients
  <2>7. Promise!Deliver(d, x.from, x.seq, x.data)
    BY <1>2, <1>5, <1>7, <2>1, <2>2, <2>4, <2>5, <2>6, Zenon
       DEF Promise!Deliver, Promise!Later
  <2>8. Promise!Sids = Sids
    BY Zenon DEF Promise!Sids, Sids
  <2> QED
    BY <1>5, <2>2, <2>7, <2>8, Zenon DEF Promise!Next
<1> QED
  BY <1>6, <1>7, Zenon

(***************************************************************************)
(* No step does to a client what Delivery does not allow.                  *)
(***************************************************************************)
LEMMA VisibleStep ==
  ASSUME IInv, IInv', Intact, [Next]_vars
  PROVE  [Promise!Next]_(Promise!vars)
<1>1. CASE open' = open /\ sent' = sent /\ received' = received
  BY <1>1, Zenon DEF Promise!vars
<1>2. CASE open' \subseteq open /\ sent' = sent /\ received' = received
  BY <1>2, Zenon DEF Promise!Next, Promise!Close
<1>3. ASSUME NEW t \in Threads, Step(t)
      PROVE  [Promise!Next]_(Promise!vars)
  <2>1. CASE t \in Reactors /\ ReactorTake(t)
    BY <2>1, DrainDelivers, Zenon
  <2>2. CASE Return(t)
    BY <1>2, <2>2, Zenon DEF Return
  <2>3. CASE PushAttempt(t) \/ WorkerTake(t) \/ DistributorTake(t)
    BY <1>1, <2>3, Zenon DEF PushAttempt, WorkerTake, DistributorTake
  <2> QED
    BY <1>3, <2>1, <2>2, <2>3, Zenon DEF Step
<1>4. ASSUME NEW s \in Sids,
             NEW nid \in IF s \in Services THEN Gateways \cup {NoNid} ELSE {NoNid},
             EnqueueInbound(s, nid)
      PROVE  [Promise!Next]_(Promise!vars)
  <2>1. Promise!Send(s, nid)
    BY <1>4, Zenon DEF EnqueueInbound, Promise!Send
  <2>2. s \in Promise!Sids /\ nid \in Gateways \cup {NoNid}
    BY <1>4, Zenon DEF Sids, Promise!Sids
  <2> QED
    BY <2>1, <2>2, Zenon DEF Promise!Next
<1>5. ASSUME NEW s \in Sids, Client(s)
      PROVE  [Promise!Next]_(Promise!vars)
  <2>1. CASE CloseSession(s)
    BY <1>2, <2>1, Zenon DEF CloseSession
  <2> QED
    BY <1>4, <1>5, <2>1, Zenon DEF Client
<1>6. ASSUME NEW p \in Planes, RequestStop(p)
      PROVE  [Promise!Next]_(Promise!vars)
  BY <1>1, <1>6, Zenon DEF RequestStop
<1>7. CASE UNCHANGED vars
  BY <1>1, <1>7, Zenon DEF vars
<1> QED
  BY <1>3, <1>5, <1>6, <1>7, Zenon DEF Next

-----------------------------------------------------------------------------
(* Subscribers and messages are finitely many                               *)

INSTANCE FiniteSetTheorems

(***************************************************************************)
(* The bound on all messages bounds the messages of a session.             *)
(***************************************************************************)
LEMMA SentRoom ==
  ASSUME Types, SentBound, NEW s \in Sids, Cardinality(Sent) < MaxFrames
  PROVE  Len(sent[s]) \in Nat /\ Len(sent[s]) + 1 \in 1 .. MaxFrames
<1> DEFINE L == Len(sent[s])
           g == [i \in 1 .. L |-> <<s, i>>]
<1>1. L \in Nat /\ MaxFrames \in Nat /\ L <= MaxFrames /\ IsFiniteSet(Sent)
  BY PipelineAssumption DEF Types, SentBound
<1>2. \A i \in 1 .. L : <<s, i>> \in Sent
  BY <1>1 DEF Sent
<1>3. g \in Injection(1 .. L, Sent)
  BY <1>2, ZenonT(40) DEF Injection, IsInjective
<1>4. Cardinality(1 .. L) <= Cardinality(Sent) /\ Cardinality(1 .. L) = L
  BY <1>1, <1>3, FS_Injection, FS_Interval, SMTT(30)
<1>5. Cardinality(Sent) \in Nat
  BY <1>1, FS_CardinalityType, ZenonT(40)
<1> HIDE DEF L
<1> QED
  BY <1>1, <1>4, <1>5 DEF L

(***************************************************************************)
(* What session s has sent when it sends one more.                         *)
(***************************************************************************)
LEMMA OneMoreSent ==
  ASSUME Types, SentBound, NEW s \in Sids, NEW nid \in Gateways \cup {NoNid},
         sent' = [sent EXCEPT ![s] = Append(sent[s], nid)],
         Cardinality(Sent) < MaxFrames
  PROVE  SendsOneMore(s, nid)
<1> DEFINE N == Gateways \cup {NoNid}
           L == Len(sent[s])
<1>1. sent \in [Sids -> Seq(N)] /\ \A f \in Sids : sent[f] \in Seq(N)
  BY DEF Types
<1>2. L \in Nat /\ L + 1 \in 1 .. MaxFrames /\ MaxFrames \in Nat
  BY SentRoom, PipelineAssumption, ZenonT(40)
<1>3. /\ Append(sent[s], nid) \in Seq(N) /\ Len(Append(sent[s], nid)) = L + 1
      /\ Append(sent[s], nid)[L + 1] = nid
      /\ \A i \in 1 .. L : Append(sent[s], nid)[i] = sent[s][i]
  BY <1>1
<1>4. /\ sent'[s] = Append(sent[s], nid) /\ \A f \in Sids : f # s => sent'[f] = sent[f]
      /\ sent' \in [Sids -> Seq(N)]
  BY <1>1, <1>3, ZenonT(40)
<1> HIDE DEF N, L
<1>5. \A f \in Sids : Len(sent[f]) \in Nat /\ Len(sent[f]) <= MaxFrames
  BY <1>1 DEF SentBound
<1>6. \A f \in Sids : Len(sent'[f]) = IF f = s THEN L + 1 ELSE Len(sent[f])
  BY <1>3, <1>4, Zenon
<1>7. Sent' = Sent \cup {<<s, L + 1>>}
  <2>1. ASSUME NEW f \in Sids, NEW i \in 1 .. MaxFrames
        PROVE  i <= Len(sent'[f]) <=> i <= Len(sent[f]) \/ (f = s /\ i = L + 1)
    BY <1>2, <1>5, <1>6, SMTT(30) DEF L
  <2>2. Sent' = {m \in Sids \X (1 .. MaxFrames) : m[2] <= Len(sent'[m[1]])}
    BY DEF Sent
  <2>3. Sent = {m \in Sids \X (1 .. MaxFrames) : m[2] <= Len(sent[m[1]])}
    BY DEF Sent
  <2>4. \A m : m \in Sent' <=> m \in Sent \cup {<<s, L + 1>>}
    BY <1>2, <2>1, <2>2, <2>3, SMTT(30)
  <2> QED
    BY <2>4, ZenonT(40)
<1>8. SentBound'
  <2>1. IsFiniteSet(Sent')
    BY <1>7, FS_AddElement, ZenonT(40) DEF SentBound
  <2>2. \A f \in Sids : Len(sent'[f]) <= MaxFrames
    BY <1>2, <1>5, <1>6, SMTT(30)
  <2> QED
    BY <2>1, <2>2, ZenonT(40) DEF SentBound
<1>9. \A f \in Sids : Len(sent[f]) <= Len(sent'[f])
  BY <1>2, <1>5, <1>6 DEF L
<1>10. \A f \in Sids : \A i \in 1 .. Len(sent[f]) : sent'[f][i] = sent[f][i]
  BY <1>3, <1>4, ZenonT(40) DEF L
<1> QED
  BY <1>2, <1>3, <1>4, <1>7, <1>8, <1>9, <1>10, SMTT(30) DEF L, N, SendsOneMore

(***************************************************************************)
(* Listed has each element of a finite set once.                           *)
(***************************************************************************)
LEMMA Listing ==
  ASSUME NEW S, IsFiniteSet(S)
  PROVE  /\ Listed(S) \in Seq(S)
         /\ \A m, n \in 1 .. Len(Listed(S)) : Listed(S)[m] = Listed(S)[n] => m = n
         /\ \A s \in S : \E n \in 1 .. Len(Listed(S)) : Listed(S)[n] = s
<1> DEFINE N == Cardinality(S)
           q == Listed(S)
<1>1. N \in Nat /\ ExistsBijection(1 .. N, S)
  BY FS_CardinalityType, SMTT(30)
<1>2. PICK g \in [1 .. N -> S] : \A i, j \in DOMAIN g : g[i] = g[j] => i = j
  BY <1>1, ZenonT(40) DEF ExistsBijection, Bijection, Injection, IsInjective
<1>3. q \in [1 .. N -> S] /\ IsInjective(q)
  BY <1>2, ZenonT(40) DEF Listed, IsInjective
<1> HIDE DEF q, N
<1>4. q \in Seq(S) /\ Len(q) = N
  BY <1>1, <1>3
<1>5. q \in Injection(1 .. N, S)
  BY <1>3, Zenon DEF Injection
<1>6. Cardinality(1 .. N) = N
  BY <1>1, FS_Interval, SMTT(30)
<1>7. q \in Surjection(1 .. N, S)
  BY <1>5, <1>6, FS_Injection, ZenonT(40) DEF N
<1>8. \A s \in S : \E n \in 1 .. N : q[n] = s
  BY <1>7 DEF Surjection
<1>9. \A m, n \in 1 .. N : q[m] = q[n] => m = n
  BY <1>3, ZenonT(40) DEF IsInjective
<1> QED
  BY <1>4, <1>8, <1>9, Zenon DEF q

(***************************************************************************)
(* That is what the bridge handlers make of a message.                     *)
(***************************************************************************)
LEMMA Handled ==
  ASSUME Types, NEW t \in Workers, NEW m \in Item, Inbound(m), t = WorkerOf(m.from)
  PROVE  Handle(t[2], m) \in Seq(Item) /\ CopiesOf(m, Handle(t[2], m))
<1> DEFINE H == Handle(t[2], m)
<1>1. m.from \in Sids /\ t[2] = PlaneOf(m.from) /\ t[2] \in Planes /\ open \subseteq Sids
  BY SessionThreads, ZenonT(40) DEF Item, Types
<1>2. m.seq <= Len(sent[m.from]) /\ m.to = sent[m.from][m.seq]
  BY Zenon DEF Inbound
<1>3. CASE m.from \in Gateways
  <2> DEFINE O == Listed(Subscribers \cap open)
             y(i) == [m EXCEPT !.to = O[i]]
  <2>1. t[2] = "forward"
    BY <1>1, <1>3, Crossing, ZenonT(40)
  <2>2. H = [i \in 1 .. Len(O) |-> y(i)]
    BY <2>1, Zenon DEF Handle, Publish, OpenSubscribers
  <2>3. Recipients(m.from, m.seq) = Subscribers
    BY <1>3, Zenon DEF Recipients
  <2>4. /\ O \in Seq(Subscribers \cap open)
        /\ \A i, j \in 1 .. Len(O) : O[i] = O[j] => i = j
        /\ \A s \in Subscribers \cap open : \E n \in 1 .. Len(O) : O[n] = s
    <3>1. IsFiniteSet(Subscribers \cap open)
      BY PipelineAssumption, FS_Intersection, ZenonT(40)
    <3> QED
      BY <3>1, Listing, Zenon
  <2> HIDE DEF O
  <2>5. \A i \in 1 .. Len(O) : O[i] \in Subscribers /\ O[i] \in Sids
    BY <1>1, <2>4
  <2>6. Len(O) \in Nat
    BY <2>4
  <2>7. ASSUME NEW i \in 1 .. Len(O)
        PROVE  /\ y(i) \in Item /\ y(i).from = m.from /\ y(i).seq = m.seq
               /\ y(i).to = O[i] /\ y(i).data = m.data
    BY <2>5, ZenonT(40) DEF Item
  <2>8. \A i \in 1 .. Len(O) : Outbound(y(i))
    BY <1>2, <2>3, <2>5, <2>7, Zenon DEF Outbound
  <2> HIDE DEF y
  <2>9. H \in Seq(Item) /\ Len(H) = Len(O) /\ \A i \in 1 .. Len(O) : H[i] = y(i)
    BY <2>2, <2>6, <2>7
  <2> HIDE DEF H
  <2> QED
    <3>1. \A n \in 1 .. Len(H) : H[n].from = m.from /\ H[n].seq = m.seq /\ Outbound(H[n])
      BY <2>7, <2>8, <2>9, Zenon
    <3>2. \A i, j \in 1 .. Len(H) : H[i].to = H[j].to => i = j
      <4> SUFFICES ASSUME NEW i \in 1 .. Len(H), NEW j \in 1 .. Len(H), H[i].to = H[j].to
                   PROVE  i = j
        BY Zenon
      <4>1. i \in 1 .. Len(O) /\ j \in 1 .. Len(O) /\ H[i] = y(i) /\ H[j] = y(j)
        BY <2>9, Zenon
      <4>2. y(i).to = O[i] /\ y(j).to = O[j]
        BY <2>7, <4>1, Zenon
      <4>3. O[i] = O[j]
        BY <4>1, <4>2, Zenon
      <4> QED
        BY <2>4, <4>1, <4>3, Zenon
    <3>3. \A d \in Recipients(m.from, m.seq) \cap open :
            m.data = "whole" => \E n \in 1 .. Len(H) : H[n].to = d /\ H[n].data = "whole"
      <4> SUFFICES ASSUME NEW d \in Subscribers \cap open, m.data = "whole"
                   PROVE  \E n \in 1 .. Len(H) : H[n].to = d /\ H[n].data = "whole"
        BY <2>3, Zenon
      <4>1. PICK n \in 1 .. Len(O) : O[n] = d
        BY <2>4, Zenon
      <4>2. n \in 1 .. Len(H) /\ H[n].to = d /\ H[n].data = "whole"
        BY <2>7, <2>9, <4>1, Zenon
      <4> QED
        BY <4>2, Zenon
    <3>4. H \in Seq(Item) /\ CopiesOf(m, H)
      BY <2>9, <3>1, <3>2, <3>3, Zenon DEF CopiesOf
    <3> QED
      BY <3>4, Zenon DEF H
<1>4. CASE m.from \notin Gateways
  <2>1. t[2] # "forward"
    BY <1>1, <1>4, Crossing, ZenonT(40)
  <2>2. H = IF m.data = "whole" /\ m.to \in open THEN <<m>> ELSE << >>
    BY <2>1, Zenon DEF Handle, AsyncSend
  <2>3. Recipients(m.from, m.seq) = {m.to} \ {NoNid}
    BY <1>2, <1>4, ZenonT(40) DEF Recipients
  <2>4. NoNid \notin open
    BY <1>1, Crossing, ZenonT(40)
  <2>5. CASE m.data = "whole" /\ m.to \in open
    <3>1. H \in Seq(Item) /\ Len(H) = 1 /\ H[1] = m
      BY <2>2, <2>5
    <3>2. Outbound(m)
      BY <1>2, <2>3, <2>4, <2>5, ZenonT(40) DEF Outbound
    <3> HIDE DEF H
    <3> QED
      BY <2>3, <2>5, <3>1, <3>2, SMTT(30) DEF H, CopiesOf
  <2>6. CASE ~(m.data = "whole" /\ m.to \in open)
    <3>1. H = << >> /\ H \in Seq(Item) /\ Len(H) = 0
      BY <2>2, <2>6
    <3>2. m.data = "whole" => Recipients(m.from, m.seq) \cap open = {}
      BY <2>3, <2>6, ZenonT(40)
    <3> HIDE DEF H
    <3> QED
      BY <3>1, <3>2 DEF H, CopiesOf
  <2> QED
    BY <2>5, <2>6, ZenonT(40)
<1> QED
  BY <1>3, <1>4, Zenon

(***************************************************************************)
(* A worker's step keeps the invariant.                                    *)
(***************************************************************************)
LEMMA WorkerTakeStep ==
  ASSUME IInv, NEW t \in Workers, WorkerTake(t)
  PROVE  IInv'
<1> DEFINE m == Head(queue[t])
           H == Handle(t[2], m)
           p == IF H = << >> THEN NoPush ELSE Pushing(DistQueue(Peer(t[2])), H)
<1>1. Types /\ SentBound /\ Pushes /\ Placed /\ Ordered /\ Conserved
  BY Zenon DEF IInv
<1>2. /\ t \in Threads /\ t \in Queues /\ t \notin Distributors /\ t \notin Reactors
      /\ t[2] \in Planes /\ DistQueue(Peer(t[2])) \in Queues
  BY ThreadKinds, Crossing, Zenon
<1>3. /\ queue[t] # << >> /\ push[t] = NoPush
      /\ queue' = [queue EXCEPT ![t] = Tail(queue[t])]
      /\ push' = IF H = << >> THEN push
                 ELSE [push EXCEPT ![t] = Pushing(DistQueue(Peer(t[2])), H)]
      /\ UNCHANGED <<running, ended, open, sent, received, bumped>>
  BY ZenonT(40) DEF WorkerTake, Idle
<1>4. /\ queue' \in [Queues -> Seq(Item)]
      /\ \A c \in Queues : Len(queue'[c]) <= Capacity(c)
      /\ \A c \in Queues : c # t => queue'[c] = queue[c]
      /\ queue'[t] = Tail(queue[t]) /\ m = queue[t][1] /\ m \in Item /\ Queued(t, m)
      /\ \A c \in Queues : \A n \in 1 .. Len(queue'[c]) : Queued(c, queue'[c][n])
  BY <1>1, <1>2, <1>3, Taken, ZenonT(40)
<1>5. Inbound(m) /\ t = WorkerOf(m.from)
  BY <1>4, Zenon DEF Queued
<1> HIDE DEF m
<1>6. H \in Seq(Item) /\ CopiesOf(m, H)
  BY <1>1, <1>4, <1>5, Handled, ZenonT(40)
<1> HIDE DEF H
<1>7. p \in PushType /\ p.items = H /\ PushOK(t, p)
  <2>1. /\ Pushing(DistQueue(Peer(t[2])), H) \in PushType
        /\ Pushing(DistQueue(Peer(t[2])), H).items = H
        /\ Pushing(DistQueue(Peer(t[2])), H).queue = DistQueue(Peer(t[2]))
        /\ NoPush \in PushType /\ NoPush.items = << >> /\ PushOK(t, NoPush)
    BY <1>2, <1>6, PushingType, Zenon
  <2>2. \A i, j \in 1 .. Len(H) :
          /\ H[i].from = H[j].from /\ H[i].seq = H[j].seq
          /\ H[i].to = H[j].to => i = j
    BY <1>6, Zenon DEF CopiesOf
  <2>3. H # << >> => PushOK(t, Pushing(DistQueue(Peer(t[2])), H))
    <3> DEFINE P == Pushing(DistQueue(Peer(t[2])), H)
    <3>1. P.items = H /\ P.queue = DistQueue(Peer(t[2])) /\ P.queue \in Queues
      BY <1>2, <2>1, Zenon
    <3> HIDE DEF P
    <3>2. H # << >> => PushOK(t, P)
      BY <1>2, <2>2, <3>1 DEF PushOK
    <3> QED
      BY <3>2, Zenon DEF P
  <2> QED
    BY <2>1, <2>3, Zenon
<1>8. push' = [push EXCEPT ![t] = p]
  <2>1. push \in [Threads -> PushType]
    BY <1>1, ZenonT(40) DEF Types
  <2> QED
    BY <1>2, <1>3, <2>1, Zenon
<1>9. \A n \in 1 .. Len(p.items) : InHand(t, p.items[n])
  <2>1. \A n \in 1 .. Len(H) : H[n].from = m.from /\ Outbound(H[n])
    BY <1>6, ZenonT(40) DEF CopiesOf
  <2>2. \A n \in 1 .. Len(H) : InHand(t, H[n])
    BY <1>2, <1>5, <2>1, Zenon DEF InHand
  <2> QED
    BY <1>7, <2>2, ZenonT(40)
<1> HIDE DEF p
<1>10. /\ push' \in [Threads -> PushType] /\ Pushes'
       /\ push'[t] = p /\ \A c \in Threads : c # t => push'[c] = push[c]
       /\ \A c \in Threads : \A n \in 1 .. Len(push'[c].items) :
            InHand(c, push'[c].items[n])
  BY <1>1, <1>2, <1>7, <1>8, <1>9, Begun, ZenonT(40)
<1>11. Types' /\ SentBound'
  <2>1. /\ running' = running /\ ended' = ended /\ open' = open
        /\ received' = received /\ sent' = sent /\ bumped' = bumped
    BY <1>3, Zenon
  <2> QED
    BY <1>1, <1>4, <1>10, <2>1, ZenonT(40) DEF Types, SentBound, Sent
<1>12. Placed'
  <2>1. \A s \in Sids : \A n \in 1 .. Len(received'[s]) :
          Outbound(received'[s][n]) /\ received'[s][n].to = s
    BY <1>1, <1>3, Zenon DEF Placed
  <2> QED
    BY <1>3, <1>4, <1>10, <2>1, PlacedKept, ZenonT(40)
<1>13. push'[t].items = H
  BY <1>7, <1>10, Zenon
<1>14. \A f, d \in Sids : FlowStep(f, d)
  BY <1>1, <1>3, <1>4, <1>6, <1>10, <1>11, <1>13, WorkerFlows, Zenon
<1>15. Ordered' /\ Conserved'
  BY <1>1, <1>3, <1>11, <1>14, FlowsKept, ZenonT(40)
<1> QED
  BY <1>10, <1>11, <1>12, <1>15, Zenon DEF IInv

-----------------------------------------------------------------------------
(* The invariant and what follows from it                                   *)

(***************************************************************************)
(* The invariant holds when the planes start: nothing is on its way.       *)
(***************************************************************************)
LEMMA InitInvariant == Init => IInv
<1> SUFFICES ASSUME Init
             PROVE  IInv
  OBVIOUS
<1>1. << >> \in Seq(Item) /\ << >> \in Seq(Gateways \cup {NoNid}) /\ Len(<< >>) = 0
  OBVIOUS
<1>2. NoPush \in PushType /\ NoPush.items = << >> /\ MaxFrames \in Nat
  BY PipelineAssumption DEF PushType, NoPush, Pushing
<1>3. /\ \A q \in Queues : queue[q] = << >>
      /\ \A t \in Threads : push[t] = NoPush /\ push[t].items = << >>
      /\ \A s \in Sids : received[s] = << >> /\ sent[s] = << >>
  BY <1>2, Zenon DEF Init
<1>4. Types
  <2>1. \A q : Capacity(q) \in Nat
    BY PipelineAssumption, Zenon DEF Capacity
  <2> HIDE DEF NoPush
  <2> QED
    BY <1>1, <1>2, <1>3, <2>1 DEF Init, Types
<1>5. Sent = {}
  BY <1>1, <1>3 DEF Sent
<1>6. SentBound
  BY <1>1, <1>2, <1>3, <1>5, FS_EmptySet, SMTT(30) DEF SentBound
<1>7. Pushes
  BY <1>3, Zenon DEF Pushes, PushOK
<1>8. \A n \in 1 .. Len(<< >>) : FALSE
  OBVIOUS
<1>9. Placed
  BY <1>3, <1>8, Zenon DEF Placed
<1>10. Ordered
  <2>1. ASSUME NEW f \in Sids, NEW d \in Sids
        PROVE  Sorted(f, d, Stages(f, d))
    <3> DEFINE S == Stages(f, d)
    <3>1. /\ S[1] = << >> /\ S[2] = << >> /\ S[3] = << >> /\ S[4] = << >> /\ S[5] = << >>
          /\ S[6] = << >> /\ S[7] = << >>
      <4>1. /\ WorkerOf(f) \in Threads /\ ReactorThread(f) \in Threads
            /\ DistQueue(PlaneOf(d)) \in Threads
        BY WayThreads, ThreadKinds, Zenon
      <4>2. /\ S[1] = received[d] /\ S[2] = queue[ReactorThread(d)]
            /\ S[3] = push[DistQueue(PlaneOf(d))].items /\ S[4] = queue[DistQueue(PlaneOf(d))]
            /\ S[5] = push[WorkerOf(f)].items /\ S[6] = queue[WorkerOf(f)]
            /\ S[7] = push[ReactorThread(f)].items
        BY StageParts
      <4>3. received[d] = << >> /\ queue[ReactorThread(d)] = << >>
        BY <1>3, WayThreads, Zenon
      <4>4. queue[DistQueue(PlaneOf(d))] = << >> /\ queue[WorkerOf(f)] = << >>
        BY <1>3, WayThreads, Zenon
      <4>5. /\ push[DistQueue(PlaneOf(d))].items = << >> /\ push[WorkerOf(f)].items = << >>
            /\ push[ReactorThread(f)].items = << >>
        BY <1>3, <4>1, Zenon
      <4> HIDE DEF S
      <4>6. S[1] = << >> /\ S[2] = << >>
        BY <4>2, <4>3, Zenon
      <4>7. S[4] = << >> /\ S[6] = << >>
        BY <4>2, <4>4, Zenon
      <4>8. S[3] = << >> /\ S[5] = << >> /\ S[7] = << >>
        BY <4>2, <4>5, Zenon
      <4> QED
        BY <4>6, <4>7, <4>8, Zenon
    <3>2. \A j \in 1 .. 7 : j = 1 \/ j = 2 \/ j = 3 \/ j = 4 \/ j = 5 \/ j = 6 \/ j = 7
      OBVIOUS
    <3> HIDE DEF S
    <3>3. \A j \in 1 .. 7 : S[j] = << >>
      BY <3>1, <3>2, Zenon
    <3>4. Sorted(f, d, S)
      BY <1>8, <3>3, Zenon DEF Sorted, Rising, Precedes
    <3> QED
      BY <3>4, Zenon DEF S
  <2> QED
    BY <2>1, Zenon DEF Ordered
<1>11. Conserved
  BY <1>5 DEF Conserved
<1> QED
  BY <1>4, <1>6, <1>7, <1>9, <1>10, <1>11, Zenon DEF IInv

(***************************************************************************)
(* Every step keeps it.                                                    *)
(***************************************************************************)
LEMMA NextInvariant == IInv /\ [Next]_vars => IInv'
<1> SUFFICES ASSUME IInv, [Next]_vars
             PROVE  IInv'
  OBVIOUS
<1>1. Types
  BY Zenon DEF IInv
<1>2. CASE UNCHANGED vars
  BY <1>1, <1>2, StandStill, ZenonT(40) DEF vars, Types
<1>3. ASSUME NEW t \in Threads, Step(t)
      PROVE  IInv'
  <2>1. CASE PushAttempt(t)
    BY <2>1, PushAttemptStep, ZenonT(40)
  <2>2. CASE t \in Workers /\ WorkerTake(t)
    BY <2>2, WorkerTakeStep, ZenonT(40)
  <2>3. CASE t \in Distributors /\ DistributorTake(t)
    BY <2>3, DistributorTakeStep, ZenonT(40)
  <2>4. CASE t \in Reactors /\ ReactorTake(t)
    BY <2>4, ReactorTakeStep, ZenonT(40)
  <2>5. CASE Return(t)
    BY <1>1, <2>5, StandStill, ZenonT(40) DEF Return, Types
  <2> QED
    BY <1>3, <2>1, <2>2, <2>3, <2>4, <2>5, Zenon DEF Step
<1>4. ASSUME NEW s \in Sids, Client(s)
      PROVE  IInv'
  <2>1. ASSUME NEW nid \in IF s \in Services THEN Gateways \cup {NoNid} ELSE {NoNid},
               EnqueueInbound(s, nid)
        PROVE  IInv'
    <3>1. nid \in Gateways \cup {NoNid}
      OBVIOUS
    <3>2. SendsOneMore(s, nid)
      BY <2>1, <3>1, OneMoreSent, ZenonT(40) DEF IInv, EnqueueInbound
    <3> QED
      BY <2>1, <3>1, <3>2, EnqueueInboundStep, ZenonT(40)
  <2>2. CASE CloseSession(s)
    BY <1>1, <2>2, StandStill, ZenonT(40) DEF CloseSession, Types
  <2> QED
    BY <1>4, <2>1, <2>2, Zenon DEF Client
<1>5. ASSUME NEW p \in Planes, RequestStop(p)
      PROVE  IInv'
  BY <1>1, <1>5, StandStill, ZenonT(40) DEF RequestStop, Types
<1> QED
  BY <1>2, <1>3, <1>4, <1>5, Zenon DEF Next

(***************************************************************************)
(* The invariant holds always.                                             *)
(***************************************************************************)
THEOREM Invariance == Spec => []IInv
BY InitInvariant, NextInvariant, PTL DEF Spec

(***************************************************************************)
(* Every queue stays within its capacity, and what is queued, in hand and  *)
(* received is of its type.                                                *)
(***************************************************************************)
THEOREM QueuesBounded == Spec => []TypeOK
BY InvariantTypes, Invariance, PTL

(***************************************************************************)
(* No cross-routing: whatever a session receives was sent to it.           *)
(***************************************************************************)
THEOREM RoutedRight == Spec => []NoCrossRoute
BY InvariantRoutes, Invariance, PTL

(***************************************************************************)
(* What a session receives from another one is in the order it was sent,   *)
(* and nothing twice.                                                      *)
(***************************************************************************)
THEOREM ReceivedInOrder == Spec => []FlowOrder
BY InvariantOrders, Invariance, PTL

(***************************************************************************)
(* When nothing is under way, a message that has not reached an open       *)
(* session it was for had met a full queue.                                *)
(***************************************************************************)
THEOREM OnlyFullQueuesLose == Spec => []LossOnlyByFullQueue
BY InvariantKeeps, Invariance, PTL

-----------------------------------------------------------------------------
(* What the clients see, in all executions                                 *)

(***************************************************************************)
(* Intact holds always.                                                    *)
(***************************************************************************)
LEMMA IntactInvariance == Spec => []Intact
<1>1. Init => Intact
  <2> SUFFICES ASSUME Init
               PROVE  Intact
    OBVIOUS
  <2>1. \A n \in 1 .. Len(<< >>) : FALSE
    OBVIOUS
  <2>2. /\ \A q \in Queues : queue[q] = << >>
        /\ \A t \in Threads : push[t].items = << >>
    BY Zenon DEF Init, NoPush, Pushing
  <2> QED
    BY <2>1, <2>2, Zenon DEF Intact
<1>2. IInv /\ Intact /\ [Next]_vars => Intact'
  <2> SUFFICES ASSUME IInv, Intact, [Next]_vars
               PROVE  Intact'
    OBVIOUS
  <2>1. CASE queue' = queue /\ push' = push
    BY <2>1, Zenon DEF Intact
  <2>2. ASSUME NEW t \in Threads, Step(t)
        PROVE  Intact'
    <3>1. CASE Return(t)
      BY <2>1, <3>1, Zenon DEF Return
    <3>2. ASSUME t \in Workers, WorkerTake(t)
          PROVE  SenderKept(t)
      <4> DEFINE x == Head(queue[t])
      <4>1. /\ Types /\ Placed /\ t \in Queues /\ queue[t] # << >>
            /\ queue' = [queue EXCEPT ![t] = Tail(queue[t])]
        BY <3>2, ThreadKinds, Zenon DEF IInv, WorkerTake
      <4>2. x \in Item /\ Inbound(x) /\ t = WorkerOf(x.from)
        BY <3>2, <4>1, Taken, Zenon DEF Queued
      <4>3. CopiesOf(x, Handle(t[2], x))
        BY <3>2, <4>1, <4>2, Handled, Zenon
      <4> QED
        BY <4>3, Zenon DEF CopiesOf, SenderKept
    <3>3. CASE t \in Workers /\ WorkerTake(t)
      BY <3>2, <3>3, TakeIntact, Zenon
    <3>4. CASE \/ t \in Distributors /\ DistributorTake(t)
               \/ t \in Reactors /\ ReactorTake(t)
      <4>1. t \notin Workers
        BY <3>4, ThreadKinds, Zenon
      <4> QED
        BY <3>4, <4>1, TakeIntact, Zenon
    <3>5. CASE PushAttempt(t)
      BY <3>5, AttemptIntact, Zenon
    <3> QED
      BY <2>2, <3>1, <3>3, <3>4, <3>5, Zenon DEF Step
  <2>3. ASSUME NEW s \in Sids, NEW nid, EnqueueInbound(s, nid)
        PROVE  Intact'
    <3>1. queue' = queue /\ \A c \in Threads : c # ReactorThread(s) => push'[c] = push[c]
      BY <2>3, Zenon DEF EnqueueInbound, IInv, Types
    <3>2. ReactorThread(s) \in Reactors
      BY SessionThreads, Zenon
    <3> QED
      BY <3>1, <3>2, Zenon DEF Intact
  <2>4. ASSUME NEW s \in Sids, Client(s)
        PROVE  Intact'
    BY <2>1, <2>3, <2>4, Zenon DEF Client, CloseSession
  <2>5. ASSUME NEW p \in Planes, RequestStop(p)
        PROVE  Intact'
    BY <2>1, <2>5, Zenon DEF RequestStop
  <2>6. CASE UNCHANGED vars
    BY <2>1, <2>6, Zenon DEF vars
  <2> QED
    BY <2>2, <2>4, <2>5, <2>6, Zenon DEF Next
<1> QED
  BY <1>1, <1>2, Invariance, PTL DEF Spec

(***************************************************************************)
(* For any number of sessions, threads, messages and retries and for all   *)
(* capacities, the pipeline does to its clients what Delivery allows: it   *)
(* writes to open sessions only, each message at most once, in the order   *)
(* sent, to those it was for, and what comes from a service with its       *)
(* payload, whatever pushes have failed.                                   *)
(***************************************************************************)
THEOREM PipelineDelivers == Spec => ImplementsDelivery
<1>1. Init => Promise!Init
  BY Zenon DEF Init, Promise!Init, Sids, Promise!Sids
<1>2. IInv /\ IInv' /\ Intact /\ [Next]_vars => [Promise!Next]_(Promise!vars)
  BY VisibleStep, Zenon
<1> QED
  BY <1>1, <1>2, Invariance, IntactInvariance, PTL DEF Spec, ImplementsDelivery, Promise!Spec
=============================================================================
