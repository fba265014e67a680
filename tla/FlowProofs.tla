----------------------------- MODULE FlowProofs -----------------------------
(***************************************************************************)
(* What Pipeline promises, for any number of sessions, threads, frames and *)
(* retries and any capacity of the queues: no message is routed to a       *)
(* session it is not for, the messages of a flow arrive in the order they  *)
(* were sent, and only a full queue loses one.                             *)
(*                                                                         *)
(* A flow is what session f sends to session d.  Its way is a line of      *)
(* seven sequences, from the socket of d back to the reactor of f, and a   *)
(* step either takes the head of one to the end of the one before it or    *)
(* drops it.  The invariant says of each item that it is on the way its    *)
(* sender and its recipient prescribe (Placed), and of each flow that the  *)
(* seven, read one after the other, are sorted (Ordered) and hold every    *)
(* message that has not met a full queue (Conserved).                      *)
(***************************************************************************)
EXTENDS Pipeline, TLAPS

WorkerOf(s) == RecvQueue(PlaneOf(s), PickWorker(s))

PushType ==
  [queue : Queues \cup {<<"none">>}, items : Seq(Item), tries : 0 .. MaxRetries]

Types ==
  /\ running \in [Planes -> BOOLEAN] /\ ended \subseteq Threads /\ open \subseteq Sids
  /\ queue \in [Queues -> Seq(Item)]
  /\ \A q \in Queues : Len(queue[q]) <= Capacity(q)
  /\ push \in [Threads -> PushType]
  /\ sent \in [Sids -> Seq(Gateways \cup {NoNid})]
  /\ received \in [Sids -> Seq(Item)]
  /\ bumped \subseteq Sids \X (1 .. MaxFrames)

\* The bound on the frames the clients send.
SentBound == IsFiniteSet(Sent) /\ \A s \in Sids : Len(sent[s]) <= MaxFrames

\* What thread t pushes, and where.
PushOK(t, p) ==
  p = NoPush \/
  LET items == p.items IN
  /\ items # << >> /\ p.queue \in Queues
  /\ t \in Workers =>
       /\ p.queue = DistQueue(Peer(t[2]))
       /\ \A m, n \in 1 .. Len(items) :
            /\ items[m].from = items[n].from /\ items[m].seq = items[n].seq
            /\ items[m].to = items[n].to => m = n
  /\ t \in Distributors => Len(items) = 1 /\ p.queue = ReactorThread(items[1].to)
  /\ t \in Reactors => Len(items) = 1 /\ p.queue = WorkerOf(items[1].from)

Pushes == \A t \in Threads : PushOK(t, push[t])

\* An item as its sender meant it, and one for a session the message is for.
Inbound(x) == x.seq <= Len(sent[x.from]) /\ x.to = sent[x.from][x.seq]
Outbound(x) == x.seq <= Len(sent[x.from]) /\ x.to \in Recipients(x.from, x.seq)

\* Where an item waits, and which thread has it in hand.
Queued(q, x) ==
  /\ q \in Workers => Inbound(x) /\ q = WorkerOf(x.from)
  /\ q \in Distributors => Outbound(x) /\ q = DistQueue(PlaneOf(x.to))
  /\ q \in Reactors => Outbound(x) /\ q = ReactorThread(x.to)
InHand(t, x) ==
  /\ t \in Workers => Outbound(x) /\ t = WorkerOf(x.from)
  /\ t \in Distributors => Outbound(x) /\ t = DistQueue(PlaneOf(x.to))
  /\ t \in Reactors => Inbound(x) /\ t = ReactorThread(x.from)

Placed ==
  /\ \A s \in Sids : \A n \in 1 .. Len(received[s]) :
       Outbound(received[s][n]) /\ received[s][n].to = s
  /\ \A q \in Queues : \A n \in 1 .. Len(queue[q]) : Queued(q, queue[q][n])
  /\ \A t \in Threads : \A n \in 1 .. Len(push[t].items) : InHand(t, push[t].items[n])

\* The way from session f to session d, seen from its end.
Stages(f, d) ==
  <<received[d],
    queue[ReactorThread(d)], push[DistQueue(PlaneOf(d))].items,
    queue[DistQueue(PlaneOf(d))], push[WorkerOf(f)].items,
    queue[WorkerOf(f)], push[ReactorThread(f)].items>>

\* An item at stage k is of the flow from f to d: behind the worker, if it is for d.
Belongs(f, d, k, x) == x.from = f /\ (k <= 5 => x.to = d)

Rising(f, d, k, Q) ==
  \A m, n \in 1 .. Len(Q) :
    m < n /\ Belongs(f, d, k, Q[m]) /\ Belongs(f, d, k, Q[n]) => Q[m].seq < Q[n].seq

Precedes(f, d, k, Q, l, R) ==
  \A m \in 1 .. Len(Q), n \in 1 .. Len(R) :
    Belongs(f, d, k, Q[m]) /\ Belongs(f, d, l, R[n]) => Q[m].seq < R[n].seq

Sorted(f, d, S) ==
  /\ \A k \in 1 .. 7 : Rising(f, d, k, S[k])
  /\ \A k, l \in 1 .. 7 : k < l => Precedes(f, d, k, S[k], l, S[l])

\* Message i of the flow is on its way, with its payload.
Carries(f, d, S, i) ==
  \E k \in 1 .. 7 : \E n \in 1 .. Len(S[k]) :
    Belongs(f, d, k, S[k][n]) /\ S[k][n].seq = i /\ S[k][n].data = "whole"

Ordered ==
  \A f, d \in Sids : PlaneOf(f) # PlaneOf(d) => Sorted(f, d, Stages(f, d))

Conserved ==
  \A m \in Sent \ bumped : \A d \in Recipients(m[1], m[2]) \cap open :
    Carries(m[1], d, Stages(m[1], d), m[2])

IInv == Types /\ SentBound /\ Pushes /\ Placed /\ Ordered /\ Conserved

-----------------------------------------------------------------------------
(* Steps of a flow                                                          *)

\* Q with items added: at most one of the flow, and that one was the head of R.
Grown(f, d, k, Q, Q2, R) ==
  /\ Len(Q) <= Len(Q2)
  /\ \A n \in 1 .. Len(Q) : Q2[n] = Q[n]
  /\ \A m, n \in Len(Q) + 1 .. Len(Q2) :
       Belongs(f, d, k, Q2[m]) /\ Belongs(f, d, k, Q2[n]) => m = n
  /\ \A n \in Len(Q) + 1 .. Len(Q2) : Belongs(f, d, k, Q2[n]) =>
       R # << >> /\ Belongs(f, d, k + 1, R[1]) /\ Q2[n].seq = R[1].seq

\* Items arrive at the end of stage k, and the first may leave stage k + 1, which it
\* does when it is what arrives.
Moves(f, d, S, T, k) ==
  /\ \A j \in 1 .. 7 : j # k /\ j # k + 1 => T[j] = S[j]
  /\ Grown(f, d, k, S[k], T[k], S[k + 1])
  /\ \/ S[k + 1] # << >> /\ T[k + 1] = Tail(S[k + 1])
     \/ /\ T[k + 1] = S[k + 1]
        /\ \A n \in Len(S[k]) + 1 .. Len(T[k]) : ~Belongs(f, d, k, T[k][n])

\* Stage k is emptied, or keeps its items but for their data.
Fails(S, T, k) ==
  /\ \A j \in 1 .. 7 : j # k => T[j] = S[j]
  /\ \/ T[k] = << >>
     \/ /\ Len(T[k]) = Len(S[k])
        /\ \A n \in 1 .. Len(S[k]) :
             /\ T[k][n].from = S[k][n].from /\ T[k][n].to = S[k][n].to
             /\ T[k][n].seq = S[k][n].seq

Families == [1 .. 7 -> Seq(Item)]

(***************************************************************************)
(* What is left of a sorted stage when its head is gone is sorted, and has *)
(* its place among the others.                                             *)
(***************************************************************************)
LEMMA TailSorted ==
  ASSUME NEW f, NEW d, NEW k \in 1 .. 7, NEW l \in 1 .. 7,
         NEW Q \in Seq(Item), NEW R \in Seq(Item), Q # << >>
  PROVE  /\ Rising(f, d, k, Q) => Rising(f, d, k, Tail(Q))
         /\ Precedes(f, d, k, Q, l, R) => Precedes(f, d, k, Tail(Q), l, R)
         /\ Precedes(f, d, l, R, k, Q) => Precedes(f, d, l, R, k, Tail(Q))
<1>1. /\ Tail(Q) \in Seq(Item) /\ Len(Tail(Q)) = Len(Q) - 1
      /\ \A n \in 1 .. Len(Tail(Q)) : Tail(Q)[n] = Q[n + 1] /\ n + 1 \in 1 .. Len(Q)
  OBVIOUS
<1> QED
  BY <1>1 DEF Rising, Precedes

(***************************************************************************)
(* A stage that has grown by the head of the next one has its place among  *)
(* the others, and before what is left of the next one.                    *)
(***************************************************************************)
LEMMA GrownSorted ==
  ASSUME NEW f, NEW d, NEW k \in 1 .. 6, NEW l \in 1 .. 7,
         NEW Q \in Seq(Item), NEW Q2 \in Seq(Item), NEW R \in Seq(Item),
         NEW X \in Seq(Item), Grown(f, d, k, Q, Q2, R),
         Rising(f, d, k, Q), Rising(f, d, k + 1, R), Precedes(f, d, k, Q, k + 1, R)
  PROVE  /\ Rising(f, d, k, Q2)
         /\ Precedes(f, d, l, X, k, Q) /\ Precedes(f, d, l, X, k + 1, R) =>
              Precedes(f, d, l, X, k, Q2)
         /\ Precedes(f, d, k, Q, l, X) /\ Precedes(f, d, k + 1, R, l, X) =>
              Precedes(f, d, k, Q2, l, X)
         /\ R # << >> => Precedes(f, d, k, Q2, k + 1, Tail(R))
<1>1. Len(Q) \in Nat /\ Len(Q2) \in Nat /\ Len(R) \in Nat /\ Len(X) \in Nat
  OBVIOUS
<1>2. R # << >> => 1 \in 1 .. Len(R)
  OBVIOUS
<1>3. Rising(f, d, k, Q2)
  BY <1>1, <1>2, SMTT(30) DEF Grown, Rising, Precedes
<1>4. Precedes(f, d, l, X, k, Q) /\ Precedes(f, d, l, X, k + 1, R) =>
        Precedes(f, d, l, X, k, Q2)
  <2> SUFFICES ASSUME Precedes(f, d, l, X, k, Q), Precedes(f, d, l, X, k + 1, R),
                      NEW m \in 1 .. Len(X), NEW n \in 1 .. Len(Q2),
                      Belongs(f, d, l, X[m]), Belongs(f, d, k, Q2[n])
               PROVE  X[m].seq < Q2[n].seq
    BY Zenon DEF Precedes
  <2>1. CASE n \in 1 .. Len(Q)
    BY <2>1, Zenon DEF Grown, Precedes
  <2>2. CASE n \in Len(Q) + 1 .. Len(Q2)
    <3>1. R # << >> /\ Belongs(f, d, k + 1, R[1]) /\ Q2[n].seq = R[1].seq
      BY <2>2, Zenon DEF Grown
    <3> QED
      BY <1>2, <3>1, Zenon DEF Precedes
  <2> QED
    BY <1>1, <2>1, <2>2
<1>5. Precedes(f, d, k, Q, l, X) /\ Precedes(f, d, k + 1, R, l, X) =>
        Precedes(f, d, k, Q2, l, X)
  <2> SUFFICES ASSUME Precedes(f, d, k, Q, l, X), Precedes(f, d, k + 1, R, l, X),
                      NEW m \in 1 .. Len(X), NEW n \in 1 .. Len(Q2),
                      Belongs(f, d, l, X[m]), Belongs(f, d, k, Q2[n])
               PROVE  Q2[n].seq < X[m].seq
    BY Zenon DEF Precedes
  <2>1. CASE n \in 1 .. Len(Q)
    BY <2>1, Zenon DEF Grown, Precedes
  <2>2. CASE n \in Len(Q) + 1 .. Len(Q2)
    <3>1. R # << >> /\ Belongs(f, d, k + 1, R[1]) /\ Q2[n].seq = R[1].seq
      BY <2>2, Zenon DEF Grown
    <3> QED
      BY <1>2, <3>1, Zenon DEF Precedes
  <2> QED
    BY <1>1, <2>1, <2>2
<1>6. ASSUME R # << >>
      PROVE  Precedes(f, d, k, Q2, k + 1, Tail(R))
  <2>1. /\ Tail(R) \in Seq(Item) /\ Len(Tail(R)) = Len(R) - 1
        /\ \A n \in 1 .. Len(Tail(R)) :
             Tail(R)[n] = R[n + 1] /\ n + 1 \in 1 .. Len(R) /\ 1 < n + 1
    BY <1>6
  <2> QED
    BY <1>1, <1>2, <1>6, <2>1, SMTT(30) DEF Grown, Rising, Precedes
<1> QED
  BY <1>3, <1>4, <1>5, <1>6

(***************************************************************************)
(* A stage that has grown by items of other flows only.                    *)
(***************************************************************************)
LEMMA ForeignSorted ==
  ASSUME NEW f, NEW d, NEW k \in 1 .. 6, NEW l \in 1 .. 7,
         NEW Q \in Seq(Item), NEW Q2 \in Seq(Item), NEW R \in Seq(Item),
         NEW X \in Seq(Item), Grown(f, d, k, Q, Q2, R),
         \A n \in Len(Q) + 1 .. Len(Q2) : ~Belongs(f, d, k, Q2[n])
  PROVE  /\ Rising(f, d, k, Q) => Rising(f, d, k, Q2)
         /\ Precedes(f, d, l, X, k, Q) => Precedes(f, d, l, X, k, Q2)
         /\ Precedes(f, d, k, Q, l, X) => Precedes(f, d, k, Q2, l, X)
<1>1. \A n \in 1 .. Len(Q2) : n \in 1 .. Len(Q) \/ n \in Len(Q) + 1 .. Len(Q2)
  OBVIOUS
<1>2. \A n \in 1 .. Len(Q2) :
        Belongs(f, d, k, Q2[n]) => n \in 1 .. Len(Q) /\ Q2[n] = Q[n]
  BY <1>1, Zenon DEF Grown
<1> QED
  BY <1>2, Zenon DEF Rising, Precedes

(***************************************************************************)
(* Taking the head of one stage to the end of the next, or dropping it,    *)
(* keeps a flow sorted.                                                    *)
(***************************************************************************)
LEMMA MovesSorted ==
  ASSUME NEW f, NEW d, NEW S \in Families, NEW T \in Families, NEW k \in 1 .. 6,
         Sorted(f, d, S), Moves(f, d, S, T, k)
  PROVE  Sorted(f, d, T)
<1>1. \A j \in 1 .. 7 : S[j] \in Seq(Item) /\ T[j] \in Seq(Item)
  BY ZenonT(40) DEF Families
<1>2. /\ k \in 1 .. 7 /\ k + 1 \in 1 .. 7 /\ k < k + 1 /\ k \in Nat
      /\ \A j \in 1 .. 7 : (j < k + 1 => j = k \/ j < k) /\ (k < j => j = k + 1 \/ k + 1 < j)
  OBVIOUS
<1>3. /\ \A j \in 1 .. 7 : Rising(f, d, j, S[j])
      /\ \A j, l \in 1 .. 7 : j < l => Precedes(f, d, j, S[j], l, S[l])
  BY Zenon DEF Sorted
<1>4. /\ \A j \in 1 .. 7 : j # k /\ j # k + 1 => T[j] = S[j]
      /\ Grown(f, d, k, S[k], T[k], S[k + 1])
  BY Zenon DEF Moves
<1> DEFINE Q == S[k]  Q2 == T[k]  R == S[k + 1]  R2 == T[k + 1]
<1>Q. Q \in Seq(Item) /\ Q2 \in Seq(Item) /\ R \in Seq(Item)
  BY <1>1, <1>2, ZenonT(40)
<1>I. /\ Grown(f, d, k, Q, Q2, R) /\ Rising(f, d, k, Q) /\ Rising(f, d, k + 1, R)
      /\ Precedes(f, d, k, Q, k + 1, R)
  BY <1>2, <1>3, <1>4, Zenon
<1>G. /\ Rising(f, d, k, Q2)
      /\ R # << >> => Precedes(f, d, k, Q2, k + 1, Tail(R))
      /\ \A j \in 1 .. 7 :
           /\ Precedes(f, d, j, S[j], k, Q) /\ Precedes(f, d, j, S[j], k + 1, R) =>
                Precedes(f, d, j, S[j], k, Q2)
           /\ Precedes(f, d, k, Q, j, S[j]) /\ Precedes(f, d, k + 1, R, j, S[j]) =>
                Precedes(f, d, k, Q2, j, S[j])
  <2> HIDE DEF Q, Q2, R
  <2>1. \A j \in 1 .. 7, X \in Seq(Item) :
           /\ Rising(f, d, k, Q2)
           /\ R # << >> => Precedes(f, d, k, Q2, k + 1, Tail(R))
           /\ Precedes(f, d, j, X, k, Q) /\ Precedes(f, d, j, X, k + 1, R) =>
                Precedes(f, d, j, X, k, Q2)
           /\ Precedes(f, d, k, Q, j, X) /\ Precedes(f, d, k + 1, R, j, X) =>
                Precedes(f, d, k, Q2, j, X)
    BY <1>Q, <1>I, GrownSorted, Zenon
  <2> QED
    BY <1>1, <1>2, <2>1, Zenon
<1>5. /\ Rising(f, d, k, T[k])
      /\ \A j \in 1 .. 7 : j < k => Precedes(f, d, j, S[j], k, T[k])
      /\ \A j \in 1 .. 7 : k + 1 < j => Precedes(f, d, k, T[k], j, S[j])
  <2>1. \A j \in 1 .. 7 : (j < k => j < k + 1) /\ (k + 1 < j => k < j)
    BY <1>2
  <2> QED
    BY <1>2, <1>3, <2>1, <1>G, Zenon
<1>6. /\ Rising(f, d, k + 1, T[k + 1]) /\ Precedes(f, d, k, T[k], k + 1, T[k + 1])
      /\ \A j \in 1 .. 7 : j < k => Precedes(f, d, j, S[j], k + 1, T[k + 1])
      /\ \A j \in 1 .. 7 : k + 1 < j => Precedes(f, d, k + 1, T[k + 1], j, S[j])
  <2>1. \A j \in 1 .. 7 : j < k => j < k + 1
    BY <1>2
  <2>2. CASE S[k + 1] # << >> /\ T[k + 1] = Tail(S[k + 1])
    <3>1. \A j \in 1 .. 7, X \in Seq(Item) :
            /\ Rising(f, d, k + 1, Tail(R))
            /\ Precedes(f, d, k + 1, R, j, X) => Precedes(f, d, k + 1, Tail(R), j, X)
            /\ Precedes(f, d, j, X, k + 1, R) => Precedes(f, d, j, X, k + 1, Tail(R))
      <4> HIDE DEF Q, Q2, R
      <4> QED
        BY <1>2, <1>Q, <1>I, <2>2, TailSorted, Zenon DEF R
    <3> QED
      BY <1>1, <1>2, <1>3, <1>G, <2>1, <2>2, <3>1, Zenon
  <2>3. CASE /\ T[k + 1] = S[k + 1]
             /\ \A n \in Len(S[k]) + 1 .. Len(T[k]) : ~Belongs(f, d, k, T[k][n])
    <3>1. Precedes(f, d, k, Q, k + 1, R) => Precedes(f, d, k, Q2, k + 1, R)
      <4> HIDE DEF Q, Q2, R
      <4> QED
        BY <1>2, <1>Q, <1>I, <2>3, ForeignSorted, Zenon DEF Q, Q2
    <3> QED
      BY <1>2, <1>3, <1>I, <2>1, <2>3, <3>1, Zenon
  <2> QED
    BY <2>2, <2>3, Zenon DEF Moves
<1>7. \A j \in 1 .. 7 : Rising(f, d, j, T[j])
  BY <1>3, <1>4, <1>5, <1>6, Zenon
<1>8. ASSUME NEW j \in 1 .. 7, NEW l \in 1 .. 7, j < l
      PROVE  Precedes(f, d, j, T[j], l, T[l])
  <2>1. CASE j = k
    <3>1. l # k
      BY <1>8, <2>1
    <3> QED
      BY <1>2, <1>4, <1>5, <1>6, <1>8, <2>1, <3>1, Zenon
  <2>2. CASE j = k + 1
    <3>1. l # k /\ l # k + 1
      BY <1>8, <2>2
    <3> QED
      BY <1>2, <1>4, <1>6, <1>8, <2>2, <3>1, Zenon
  <2>3. CASE j # k /\ j # k + 1
    BY <1>2, <1>3, <1>4, <1>5, <1>6, <1>8, <2>3, Zenon
  <2> QED
    BY <2>1, <2>2, <2>3
<1> QED
  BY <1>7, <1>8, Zenon DEF Sorted

(***************************************************************************)
(* A failed attempt to push changes the data of an item, or drops what its *)
(* thread has in hand: the flow stays sorted.                              *)
(***************************************************************************)
LEMMA FailsSorted ==
  ASSUME NEW f, NEW d, NEW S \in Families, NEW T \in Families, NEW k \in 1 .. 7,
         Sorted(f, d, S), Fails(S, T, k)
  PROVE  Sorted(f, d, T)
<1>1. \A j \in 1 .. 7 : S[j] \in Seq(Item) /\ T[j] \in Seq(Item)
  BY ZenonT(40) DEF Families
<1>2. \A j \in 1 .. 7 : j # k => T[j] = S[j]
  BY Zenon DEF Fails
<1>3. \A n \in 1 .. Len(T[k]) :
        /\ n \in 1 .. Len(S[k])
        /\ T[k][n].from = S[k][n].from /\ T[k][n].to = S[k][n].to
        /\ T[k][n].seq = S[k][n].seq
  <2>1. T[k] = << >> => \A n \in 1 .. Len(T[k]) : FALSE
    BY <1>1
  <2> QED
    BY <2>1, Zenon DEF Fails
<1>4. \A j \in 1 .. 7 : \A n \in 1 .. Len(T[j]) :
        /\ n \in 1 .. Len(S[j]) /\ T[j][n].seq = S[j][n].seq
        /\ Belongs(f, d, j, T[j][n]) => Belongs(f, d, j, S[j][n])
  BY <1>2, <1>3, Zenon DEF Belongs
<1> QED
  BY <1>4, ZenonT(40) DEF Sorted, Rising, Precedes

(***************************************************************************)
(* A flow stays sorted when its sender's reactor, which had nothing in     *)
(* hand, takes up a message later than all those on the way.               *)
(***************************************************************************)
LEMMA ArrivesSorted ==
  ASSUME NEW f, NEW d, NEW S \in Families, NEW T \in Families, NEW x \in Item,
         Sorted(f, d, S), \A j \in 1 .. 6 : T[j] = S[j], T[7] = <<x>>,
         \A j \in 1 .. 6 : \A n \in 1 .. Len(S[j]) :
           S[j][n].from = x.from => S[j][n].seq < x.seq
  PROVE  Sorted(f, d, T)
<1>1. Len(T[7]) = 1 /\ T[7][1] = x
  OBVIOUS
<1>2. \A n \in 1 .. Len(T[7]) : n = 1
  BY <1>1
<1>3. \A j \in 1 .. 7 : j = 7 \/ j \in 1 .. 6
  OBVIOUS
<1>4. ~(7 \in 1 .. 6) /\ \A j \in 1 .. 6 : j \in 1 .. 7 /\ ~(7 < j) /\ ~(7 < 7) /\ ~(1 < 1)
  OBVIOUS
<1>5. \A j \in 1 .. 7 : Rising(f, d, j, T[j])
  <2>1. Rising(f, d, 7, T[7])
    BY <1>1 DEF Rising
  <2>2. \A j \in 1 .. 6 : Rising(f, d, j, S[j])
    BY <1>4, Zenon DEF Sorted
  <2> QED
    BY <1>3, <2>1, <2>2, Zenon
<1>6. \A j \in 1 .. 6 : Precedes(f, d, j, T[j], 7, T[7])
  <2> SUFFICES ASSUME NEW j \in 1 .. 6, NEW m \in 1 .. Len(S[j]), NEW n \in 1 .. Len(T[7]),
                      Belongs(f, d, j, S[j][m]), Belongs(f, d, 7, T[7][n])
               PROVE  S[j][m].seq < T[7][n].seq
    BY Zenon DEF Precedes
  <2>1. T[7][n] = x
    BY <1>1, <1>2, Zenon
  <2> QED
    BY <2>1, Zenon DEF Belongs
<1>7. ASSUME NEW j \in 1 .. 7, NEW l \in 1 .. 7, j < l
      PROVE  Precedes(f, d, j, T[j], l, T[l])
  <2>1. j \in 1 .. 6
    BY <1>7
  <2>2. CASE l = 7
    BY <1>6, <2>1, <2>2, Zenon
  <2>3. CASE l \in 1 .. 6
    BY <1>7, <2>1, <2>3, Zenon DEF Sorted
  <2> QED
    BY <1>3, <2>2, <2>3
<1> QED
  BY <1>5, <1>7, Zenon DEF Sorted

(***************************************************************************)
(* A message on its way stays there when a head is taken to the next       *)
(* stage, provided that it is there if it was that head.                   *)
(***************************************************************************)
LEMMA MovesCarries ==
  ASSUME NEW f, NEW d, NEW S \in Families, NEW T \in Families, NEW k \in 1 .. 6, NEW i,
         Carries(f, d, S, i), Moves(f, d, S, T, k),
         /\ S[k + 1] # << >> /\ T[k + 1] = Tail(S[k + 1])
         /\ Belongs(f, d, k + 1, S[k + 1][1]) /\ S[k + 1][1].seq = i
         /\ S[k + 1][1].data = "whole"
         => Carries(f, d, T, i)
  PROVE  Carries(f, d, T, i)
<1>1. \A j \in 1 .. 7 : S[j] \in Seq(Item) /\ T[j] \in Seq(Item)
  BY ZenonT(40) DEF Families
<1>L. \A Q \in Seq(Item) : Len(Q) \in Nat
  OBVIOUS
<1>K. k \in 1 .. 7
  OBVIOUS
<1>0. PICK j \in 1 .. 7 : \E n \in 1 .. Len(S[j]) :
        Belongs(f, d, j, S[j][n]) /\ S[j][n].seq = i /\ S[j][n].data = "whole"
  BY Zenon DEF Carries
<1>2. PICK n \in 1 .. Len(S[j]) :
        Belongs(f, d, j, S[j][n]) /\ S[j][n].seq = i /\ S[j][n].data = "whole"
  BY <1>0
<1>3. CASE j # k /\ j # k + 1
  BY <1>2, <1>3, Zenon DEF Moves, Carries
<1>4. CASE j = k
  <2>1. n \in 1 .. Len(T[k]) /\ T[k][n] = S[k][n]
    <3>1. /\ Len(S[k]) <= Len(T[k])
          /\ \A q \in 1 .. Len(S[k]) : T[k][q] = S[k][q]
      BY Zenon DEF Moves, Grown
    <3>2. Len(S[k]) \in Nat /\ Len(T[k]) \in Nat
      BY <1>1, <1>K, <1>L, Zenon
    <3>3. n \in 1 .. Len(T[k])
      BY <1>4, <3>1, <3>2
    <3> QED
      BY <1>4, <3>1, <3>3, Zenon
  <2> QED
    BY <1>2, <1>4, <2>1, Zenon DEF Carries
<1>5. CASE j = k + 1
  <2>1. CASE T[k + 1] = S[k + 1]
    BY <1>2, <1>5, <2>1, Zenon DEF Carries
  <2>2. CASE S[k + 1] # << >> /\ T[k + 1] = Tail(S[k + 1])
    <3>1. CASE n = 1
      BY <1>2, <1>5, <2>2, <3>1, Zenon
    <3>2. CASE n # 1
      <4>1. n - 1 \in 1 .. Len(T[j]) /\ T[j][n - 1] = S[j][n]
        BY <1>1, <1>5, <2>2, <3>2
      <4> QED
        BY <1>2, <4>1, Zenon DEF Carries
    <3> QED
      BY <3>1, <3>2
  <2> QED
    BY <2>1, <2>2, Zenon DEF Moves
<1> QED
  BY <1>3, <1>4, <1>5

(***************************************************************************)
(* A failed attempt takes only the messages in hand off their way.         *)
(***************************************************************************)
LEMMA FailsCarries ==
  ASSUME NEW f, NEW d, NEW S \in Families, NEW T \in Families, NEW k \in 1 .. 7, NEW i,
         Carries(f, d, S, i), Fails(S, T, k),
         \A n \in 1 .. Len(S[k]) : ~(S[k][n].from = f /\ S[k][n].seq = i)
  PROVE  Carries(f, d, T, i)
<1>1. PICK j \in 1 .. 7 : \E n \in 1 .. Len(S[j]) :
        Belongs(f, d, j, S[j][n]) /\ S[j][n].seq = i /\ S[j][n].data = "whole"
  BY Zenon DEF Carries
<1>2. j # k
  BY <1>1, Zenon DEF Belongs
<1>3. T[j] = S[j]
  BY <1>2, Zenon DEF Fails
<1> QED
  BY <1>1, <1>3, Zenon DEF Carries

-----------------------------------------------------------------------------
(* Names, types and frames                                                  *)

(***************************************************************************)
(* A thread is a worker, a distributor or a reactor, and knows its plane.  *)
(***************************************************************************)
LEMMA ThreadKinds ==
  /\ \A t \in Threads : t \in Workers \/ t \in Distributors \/ t \in Reactors
  /\ \A t \in Workers : t \in Threads /\ t \notin Distributors /\ t \notin Reactors
  /\ \A t \in Distributors : t \in Threads /\ t \notin Workers /\ t \notin Reactors
  /\ \A t \in Reactors : t \in Threads /\ t \notin Workers /\ t \notin Distributors
  /\ \A t \in Threads : t[2] \in Planes
  /\ \A t \in Distributors : t = DistQueue(t[2])
  /\ \A p \in Planes : DistQueue(p) \in Distributors /\ DistQueue(p)[2] = p
  /\ Queues = Threads
<1>1. ASSUME NEW t \in Queues
      PROVE  /\ t[1] \in {"recv", "dist", "send"} /\ t[2] \in Planes
             /\ t[1] = "dist" => t = <<"dist", t[2], 0>>
  <2>1. CASE t \in {RecvQueue(p, w) : p \in Planes, w \in 0 .. WorkerCount - 1}
    BY <2>1 DEF RecvQueue
  <2>2. CASE t \in {DistQueue(p) : p \in Planes}
    BY <2>2 DEF DistQueue
  <2>3. CASE t \in {SendQueue(p, r) : p \in Planes, r \in 0 .. ReactorCount - 1}
    BY <2>3 DEF SendQueue
  <2> QED
    BY <2>1, <2>2, <2>3 DEF Queues
<1>2. \A p \in Planes : DistQueue(p) \in Queues
  BY DEF Queues
<1>3. \A p \in Planes : DistQueue(p)[1] = "dist" /\ DistQueue(p)[2] = p
  BY Zenon DEF DistQueue
<1> QED
  BY <1>1, <1>2, <1>3, Zenon DEF Threads, Workers, Distributors, Reactors, DistQueue

(***************************************************************************)
(* The threads a session's messages go through.                            *)
(***************************************************************************)
LEMMA SessionThreads ==
  ASSUME NEW s \in Sids
  PROVE  /\ PlaneOf(s) \in Planes
         /\ WorkerOf(s) \in Workers /\ WorkerOf(s)[2] = PlaneOf(s)
         /\ ReactorThread(s) \in Reactors /\ ReactorThread(s)[2] = PlaneOf(s)
         /\ DistQueue(PlaneOf(s)) \in Distributors
<1>1. s \in Nat /\ WorkerCount \in Nat \ {0} /\ ReactorCount \in Nat \ {0}
  BY PipelineAssumption
<1>2. PickWorker(s) \in 0 .. WorkerCount - 1 /\ ReactorOf(s) \in 0 .. ReactorCount - 1
  BY <1>1 DEF PickWorker, ReactorOf
<1>3. PlaneOf(s) \in Planes
  BY DEF PlaneOf, Planes
<1>4. WorkerOf(s) \in Queues /\ ReactorThread(s) \in Queues
  BY <1>2, <1>3 DEF Queues, WorkerOf, ReactorThread
<1>5. WorkerOf(s)[1] = "recv" /\ WorkerOf(s)[2] = PlaneOf(s)
  BY DEF WorkerOf, RecvQueue
<1>6. ReactorThread(s)[1] = "send" /\ ReactorThread(s)[2] = PlaneOf(s)
  BY DEF ReactorThread, SendQueue
<1> QED
  BY <1>3, <1>4, <1>5, <1>6, ThreadKinds, Zenon DEF Workers, Reactors, Threads

(***************************************************************************)
(* Which plane a message crosses to.                                       *)
(***************************************************************************)
LEMMA Crossing ==
  /\ \A f, d \in Sids : PlaneOf(f) # PlaneOf(d) <=> PlaneOf(d) = Peer(PlaneOf(f))
  /\ \A p \in Planes : Peer(p) \in Planes
  /\ \A s \in Sids : s \in Gateways <=> PlaneOf(s) = "forward"
  /\ NoNid \notin Sids
BY PipelineAssumption, Zenon DEF PlaneOf, Peer, Planes, Sids, NoNid

(***************************************************************************)
(* A message behind its worker is for a session of the other plane.        *)
(***************************************************************************)
LEMMA OutboundCrosses ==
  ASSUME Types, NEW x \in Item, Outbound(x)
  PROVE  /\ x.from \in Sids /\ x.to \in Sids /\ x.seq \in 1 .. Len(sent[x.from])
         /\ PlaneOf(x.from) # PlaneOf(x.to)
<1>1. x.from \in Sids /\ x.seq \in 1 .. MaxFrames
  BY DEF Item
<1>2. sent[x.from] \in Seq(Gateways \cup {NoNid})
  BY <1>1, Zenon DEF Types
<1>3. x.seq \in 1 .. Len(sent[x.from])
  BY <1>1, <1>2, PipelineAssumption DEF Outbound
<1>4. sent[x.from][x.seq] \in Gateways \cup {NoNid}
  BY <1>2, <1>3
<1>5. x.to \in Sids /\ (x.from \in Gateways <=> x.to \notin Gateways)
  BY <1>1, <1>4, PipelineAssumption, Zenon DEF Outbound, Recipients, Sids, NoNid
<1> QED
  BY <1>1, <1>3, <1>5, Zenon DEF PlaneOf

(***************************************************************************)
(* The seven stages of a flow, before and after a step.                    *)
(***************************************************************************)
LEMMA StageParts ==
  ASSUME NEW f, NEW d
  PROVE  /\ Stages(f, d)[1] = received[d]
         /\ Stages(f, d)[2] = queue[ReactorThread(d)]
         /\ Stages(f, d)[3] = push[DistQueue(PlaneOf(d))].items
         /\ Stages(f, d)[4] = queue[DistQueue(PlaneOf(d))]
         /\ Stages(f, d)[5] = push[WorkerOf(f)].items
         /\ Stages(f, d)[6] = queue[WorkerOf(f)]
         /\ Stages(f, d)[7] = push[ReactorThread(f)].items
         /\ Stages(f, d)'[1] = received'[d]
         /\ Stages(f, d)'[2] = queue'[ReactorThread(d)]
         /\ Stages(f, d)'[3] = push'[DistQueue(PlaneOf(d))].items
         /\ Stages(f, d)'[4] = queue'[DistQueue(PlaneOf(d))]
         /\ Stages(f, d)'[5] = push'[WorkerOf(f)].items
         /\ Stages(f, d)'[6] = queue'[WorkerOf(f)]
         /\ Stages(f, d)'[7] = push'[ReactorThread(f)].items
BY Zenon DEF Stages

(***************************************************************************)
(* The types of what is in the queues and in the threads' hands.           *)
(***************************************************************************)
LEMMA ItemTypes ==
  ASSUME Types
  PROVE  /\ \A q \in Queues : queue[q] \in Seq(Item)
         /\ \A t \in Threads :
              push[t] \in PushType /\ push[t].items \in Seq(Item)
         /\ \A s \in Sids : received[s] \in Seq(Item)
<1>1. \A p \in PushType : p.items \in Seq(Item)
  BY DEF PushType
<1> QED
  BY <1>1, Zenon DEF Types

(***************************************************************************)
(* They are sequences of items, before and after a step.                   *)
(***************************************************************************)
LEMMA SevenSequences ==
  ASSUME NEW f \in Sids, NEW d \in Sids, NEW q \in [Queues -> Seq(Item)],
         NEW p \in [Threads -> PushType], NEW r \in [Sids -> Seq(Item)]
  PROVE  <<r[d], q[ReactorThread(d)], p[DistQueue(PlaneOf(d))].items,
           q[DistQueue(PlaneOf(d))], p[WorkerOf(f)].items,
           q[WorkerOf(f)], p[ReactorThread(f)].items>> \in Families
<1>1. \A t \in Threads : q[t] \in Seq(Item) /\ p[t] \in PushType
  BY ThreadKinds, Zenon
<1>2. \A x \in PushType : x.items \in Seq(Item)
  BY DEF PushType
<1>3. /\ ReactorThread(d) \in Threads /\ DistQueue(PlaneOf(d)) \in Threads
      /\ WorkerOf(f) \in Threads /\ ReactorThread(f) \in Threads
  BY SessionThreads, ThreadKinds, Zenon
<1>4. \A a, b, c, e, g, h, k \in Seq(Item) : <<a, b, c, e, g, h, k>> \in [1 .. 7 -> Seq(Item)]
  OBVIOUS
<1>5. /\ q[ReactorThread(d)] \in Seq(Item) /\ p[DistQueue(PlaneOf(d))].items \in Seq(Item)
      /\ q[DistQueue(PlaneOf(d))] \in Seq(Item) /\ p[WorkerOf(f)].items \in Seq(Item)
      /\ q[WorkerOf(f)] \in Seq(Item) /\ p[ReactorThread(f)].items \in Seq(Item)
      /\ r[d] \in Seq(Item)
  BY <1>1, <1>2, <1>3, Zenon
<1> QED
  BY <1>4, <1>5, Zenon DEF Families

(***************************************************************************)
(* So are the stages of every flow.                                        *)
(***************************************************************************)
LEMMA StagesType ==
  ASSUME Types, Types', NEW f \in Sids, NEW d \in Sids
  PROVE  Stages(f, d) \in Families /\ Stages(f, d)' \in Families
<1>1. /\ queue \in [Queues -> Seq(Item)] /\ queue' \in [Queues -> Seq(Item)]
      /\ push \in [Threads -> PushType] /\ push' \in [Threads -> PushType]
      /\ received \in [Sids -> Seq(Item)] /\ received' \in [Sids -> Seq(Item)]
  BY Zenon DEF Types
<1> QED
  BY <1>1, SevenSequences, ZenonT(40) DEF Stages

(***************************************************************************)
(* A stage grows by one item, or not at all.                               *)
(***************************************************************************)
LEMMA GrownByOne ==
  ASSUME NEW f, NEW d, NEW k \in 1 .. 6, NEW Q \in Seq(Item), NEW R, NEW x \in Item,
         Belongs(f, d, k, x) =>
           R # << >> /\ Belongs(f, d, k + 1, R[1]) /\ x.seq = R[1].seq
  PROVE  /\ Grown(f, d, k, Q, Append(Q, x), R) /\ Append(Q, x) \in Seq(Item)
         /\ Len(Append(Q, x)) = Len(Q) + 1 /\ Append(Q, x)[Len(Q) + 1] = x
         /\ \A n \in Len(Q) + 1 .. Len(Append(Q, x)) : n = Len(Q) + 1
<1>1. /\ Append(Q, x) \in Seq(Item)
      /\ Len(Append(Q, x)) = Len(Q) + 1 /\ Append(Q, x)[Len(Q) + 1] = x /\ Len(Q) \in Nat
      /\ \A n \in 1 .. Len(Q) : Append(Q, x)[n] = Q[n]
  OBVIOUS
<1> DEFINE A == Append(Q, x)
<1> HIDE DEF A
<1>2. \A n \in Len(Q) + 1 .. Len(A) : n = Len(Q) + 1 /\ A[n] = x
  BY <1>1 DEF A
<1>3. Len(Q) <= Len(A)
  BY <1>1 DEF A
<1> QED
  BY <1>1, <1>2, <1>3, Zenon DEF Grown, A

(***************************************************************************)
(* A stage that stays as it is has grown by nothing.                       *)
(***************************************************************************)
LEMMA NotGrown ==
  ASSUME NEW f, NEW d, NEW k \in 1 .. 6, NEW Q \in Seq(Item), NEW R
  PROVE  Grown(f, d, k, Q, Q, R) /\ \A n \in Len(Q) + 1 .. Len(Q) : FALSE
<1>1. Len(Q) <= Len(Q) /\ \A n \in Len(Q) + 1 .. Len(Q) : FALSE
  OBVIOUS
<1> QED
  BY <1>1, Zenon DEF Grown

-----------------------------------------------------------------------------
(* From the steps of the flows to the invariant                             *)

\* A message of the flow that is taken from stage k + 1 stays on its way.
KeepsHead(f, d, S, T, k) ==
  LET x == S[k + 1][1] IN
  /\ S[k + 1] # << >> /\ T[k + 1] = Tail(S[k + 1])
  /\ Belongs(f, d, k + 1, x) /\ x.data = "whole"
  /\ d \in open /\ d \in Recipients(f, x.seq)
  => Carries(f, d, T, x.seq)

\* A step as the flow from f to d sees it.
FlowStep(f, d) ==
  LET S == Stages(f, d)
      T == Stages(f, d)'
  IN \/ \E k \in 1 .. 6 : Moves(f, d, S, T, k) /\ KeepsHead(f, d, S, T, k)
     \/ \E k \in 1 .. 7 :
          /\ Fails(S, T, k)
          /\ \A n \in 1 .. Len(S[k]) : <<S[k][n].from, S[k][n].seq>> \in bumped'

(***************************************************************************)
(* Steps of this kind of all flows keep them sorted and lose nothing that  *)
(* has not met a full queue.                                               *)
(***************************************************************************)
LEMMA FlowsKept ==
  ASSUME Types, Types', Ordered, Conserved, sent' = sent,
         open' \subseteq open, bumped \subseteq bumped',
         \A f, d \in Sids : PlaneOf(f) # PlaneOf(d) => FlowStep(f, d)
  PROVE  Ordered' /\ Conserved'
<1>1. ASSUME NEW f \in Sids, NEW d \in Sids, PlaneOf(f) # PlaneOf(d)
      PROVE  Sorted(f, d, Stages(f, d)')
  <2>1. Stages(f, d) \in Families /\ Stages(f, d)' \in Families
    BY StagesType, Zenon
  <2>2. Sorted(f, d, Stages(f, d)) /\ FlowStep(f, d)
    BY <1>1, Zenon DEF Ordered
  <2>3. \/ \E k \in 1 .. 6 : Moves(f, d, Stages(f, d), Stages(f, d)', k)
        \/ \E k \in 1 .. 7 : Fails(Stages(f, d), Stages(f, d)', k)
    BY <2>2, Zenon DEF FlowStep
  <2> QED
    BY <2>1, <2>2, <2>3, MovesSorted, FailsSorted, Zenon
<1>2. Ordered'
  BY <1>1, Zenon DEF Ordered
<1>3. ASSUME NEW m \in Sent \ bumped', NEW d \in Recipients(m[1], m[2]) \cap open'
      PROVE  Carries(m[1], d, Stages(m[1], d)', m[2])
  <2> DEFINE f == m[1]
             i == m[2]
  <2>1. m = <<f, i>> /\ f \in Sids /\ i \in 1 .. MaxFrames /\ i <= Len(sent[f]) /\ d \in open
    BY <1>3 DEF Sent
  <2>2. d \in Sids /\ PlaneOf(f) # PlaneOf(d)
    <3>1. sent[f] \in Seq(Gateways \cup {NoNid}) /\ open \subseteq Sids
      BY <2>1, Zenon DEF Types
    <3>2. i \in 1 .. Len(sent[f])
      BY <2>1, <3>1, PipelineAssumption
    <3>3. sent[f][i] \in Gateways \cup {NoNid}
      BY <3>1, <3>2
    <3> HIDE DEF f, i
    <3>4. d \in Recipients(f, i) /\ d \in Sids
      BY <1>3, <2>1, <3>1, Zenon DEF f, i
    <3> QED
      BY <2>1, <3>3, <3>4, PipelineAssumption, Zenon DEF Recipients, PlaneOf, Sids
  <2>3. Carries(f, d, Stages(f, d), i)
    BY <1>3, <2>1, Zenon DEF Conserved
  <2>4. Stages(f, d) \in Families /\ Stages(f, d)' \in Families
    BY <2>1, <2>2, StagesType, Zenon
  <2>5. FlowStep(f, d) /\ d \in Recipients(f, i)
    BY <1>3, <2>1, <2>2, Zenon
  <2> DEFINE S == Stages(f, d)
             T == Stages(f, d)'
  <2> HIDE DEF f, i
  <2>6. ASSUME NEW k \in 1 .. 6, Moves(f, d, S, T, k), KeepsHead(f, d, S, T, k)
        PROVE  Carries(f, d, T, i)
    <3>1. /\ S[k + 1] # << >> /\ T[k + 1] = Tail(S[k + 1])
          /\ Belongs(f, d, k + 1, S[k + 1][1]) /\ S[k + 1][1].seq = i
          /\ S[k + 1][1].data = "whole"
          => Carries(f, d, T, i)
      BY <2>1, <2>5, <2>6, Zenon DEF KeepsHead
    <3> HIDE DEF S, T
    <3> QED
      BY <2>3, <2>4, <2>6, <3>1, MovesCarries, Zenon DEF S, T
  <2>7. ASSUME NEW k \in 1 .. 7, Fails(S, T, k),
               \A n \in 1 .. Len(S[k]) : <<S[k][n].from, S[k][n].seq>> \in bumped'
        PROVE  Carries(f, d, T, i)
    <3>1. \A n \in 1 .. Len(S[k]) : ~(S[k][n].from = f /\ S[k][n].seq = i)
      BY <1>3, <2>1, <2>7, Zenon
    <3> QED
      BY <2>3, <2>4, <2>7, <3>1, FailsCarries, Zenon
  <2> QED
    BY <2>5, <2>6, <2>7, Zenon DEF FlowStep, f, i
<1>4. Conserved'
  <2>1. Sent' = Sent /\ \A s, i : Recipients(s, i)' = Recipients(s, i)
    BY Zenon DEF Sent, Recipients
  <2> QED
    BY <1>3, <2>1, Zenon DEF Conserved
<1> QED
  BY <1>2, <1>4

-----------------------------------------------------------------------------
(* PushWithBackoff                                                          *)

(***************************************************************************)
(* What is left in hand after an attempt to push: after a success all but  *)
(* the first item, after a failure nothing, or the same messages.          *)
(***************************************************************************)
LEMMA AfterAttempt ==
  ASSUME NEW p \in PushType, p.items # << >>, p.queue \in Queues
  PROVE  /\ p.items \in Seq(Item) /\ p.items[1] \in Item /\ Len(p.items) \in Nat
         /\ AfterPush(p) \in PushType /\ AfterPush(p).items = Tail(p.items)
         /\ AfterPush(p) # NoPush => AfterPush(p).queue = p.queue /\ AfterPush(p).items # << >>
         /\ AfterFailure(p) \in PushType
         /\ \/ AfterFailure(p) = NoPush
            \/ /\ AfterFailure(p).queue = p.queue
               /\ Len(AfterFailure(p).items) = Len(p.items)
               /\ \A n \in 1 .. Len(p.items) :
                    /\ AfterFailure(p).items[n].from = p.items[n].from
                    /\ AfterFailure(p).items[n].to = p.items[n].to
                    /\ AfterFailure(p).items[n].seq = p.items[n].seq
<1>1. /\ p.items \in Seq(Item) /\ p.items[1] \in Item /\ Len(p.items) \in Nat
      /\ p.tries \in 0 .. MaxRetries /\ Len(p.items) >= 1
  BY DEF PushType
<1>2. MaxRetries \in Nat
  BY PipelineAssumption, Zenon
<1>3. NoPush \in PushType /\ NoPush.items = << >>
  BY <1>2 DEF PushType, NoPush, Pushing
<1>4. /\ AfterPush(p) \in PushType /\ AfterPush(p).items = Tail(p.items)
      /\ AfterPush(p) # NoPush => AfterPush(p).queue = p.queue /\ AfterPush(p).items # << >>
  <2> DEFINE items == p.items
             q == p.queue
  <2> HIDE DEF items, q
  <2>1. items \in Seq(Item) /\ items # << >> /\ q \in Queues
    BY <1>1, Zenon DEF items, q
  <2>2. /\ Tail(items) \in Seq(Item) /\ (Len(items) = 1 => Tail(items) = << >>)
        /\ Len(items) # 1 => Tail(items) # << >>
    <3>1. /\ Tail(items) \in Seq(Item) /\ Len(Tail(items)) = Len(items) - 1
          /\ Len(items) \in Nat
      BY <2>1
    <3>2. \A Q \in Seq(Item) : Q = << >> <=> Len(Q) = 0
      OBVIOUS
    <3>3. Tail(items) = << >> <=> Len(Tail(items)) = 0
      BY <3>1, <3>2, Zenon
    <3> QED
      BY <3>1, <3>3
  <2>3. CASE Len(items) = 1
    BY <1>3, <2>2, <2>3, ZenonT(40) DEF AfterPush, items
  <2>4. CASE Len(items) # 1
    <3> DEFINE r == [queue |-> q, items |-> Tail(items), tries |-> 0]
    <3>1. AfterPush(p) = r
      BY <2>4, Zenon DEF AfterPush, Pushing, items, q
    <3>2. r \in PushType /\ r.queue = q /\ r.items = Tail(items)
      BY <1>2, <2>1, <2>2 DEF PushType
    <3> QED
      BY <2>2, <2>4, <3>1, <3>2, Zenon DEF items, q
  <2> QED
    BY <2>3, <2>4, Zenon
<1>5. CASE p.tries < MaxRetries
  <2> DEFINE x == MovedFrom(p.queue, p.items[1])
             items == [p.items EXCEPT ![1] = x]
             r == [queue |-> p.queue, items |-> items, tries |-> p.tries + 1]
  <2>1. AfterFailure(p) = r
    <3>1. p = [queue |-> p.queue, items |-> p.items, tries |-> p.tries]
      BY DEF PushType
    <3>2. AfterFailure(p) = [p EXCEPT !.items = items, !.tries = p.tries + 1]
      BY <1>5, Zenon DEF AfterFailure
    <3> QED
      BY <3>1, <3>2, ZenonT(40)
  <2>2. /\ x \in Item /\ x.from = p.items[1].from /\ x.to = p.items[1].to
        /\ x.seq = p.items[1].seq
    BY <1>1, Zenon DEF MovedFrom, Item
  <2> HIDE DEF x
  <2>3. /\ items \in Seq(Item) /\ Len(items) = Len(p.items)
        /\ \A n \in 1 .. Len(p.items) : items[n] = IF n = 1 THEN x ELSE p.items[n]
    BY <1>1, <2>2
  <2> HIDE DEF items
  <2>4. r \in PushType /\ r.queue = p.queue /\ r.items = items
    BY <1>1, <1>2, <1>5, <2>3 DEF PushType
  <2> HIDE DEF r
  <2> QED
    BY <1>1, <1>4, <2>1, <2>2, <2>3, <2>4, Zenon
<1>6. CASE ~(p.tries < MaxRetries)
  BY <1>1, <1>3, <1>4, <1>6, Zenon DEF AfterFailure
<1> QED
  BY <1>5, <1>6, Zenon

\* Item x leaves stage k + 1, arrives at stage k, or both.
OneMove(f, d, S, T, k, x) ==
  LET arrives == T[k] = Append(S[k], x)
      leaves == S[k + 1] # << >> /\ S[k + 1][1] = x /\ T[k + 1] = Tail(S[k + 1])
  IN /\ \A j \in 1 .. 7 : j # k /\ j # k + 1 => T[j] = S[j]
     /\ arrives \/ T[k] = S[k]
     /\ leaves \/ T[k + 1] = S[k + 1]
     /\ arrives /\ Belongs(f, d, k, x) => leaves
     /\ leaves /\ Belongs(f, d, k + 1, x) /\ x.data = "whole"
        /\ d \in open /\ d \in Recipients(f, x.seq) => arrives /\ Belongs(f, d, k, x)

(***************************************************************************)
(* Such a move is a step of the flow.                                      *)
(***************************************************************************)
LEMMA OneMoves ==
  ASSUME NEW f, NEW d, NEW S \in Families, NEW T \in Families, NEW k \in 1 .. 6,
         NEW x \in Item, OneMove(f, d, S, T, k, x)
  PROVE  Moves(f, d, S, T, k) /\ KeepsHead(f, d, S, T, k)
<1>1. /\ k \in 1 .. 7 /\ k + 1 \in 1 .. 7
      /\ S[k] \in Seq(Item) /\ T[k] \in Seq(Item) /\ S[k + 1] \in Seq(Item)
  <2>1. k \in 1 .. 7 /\ k + 1 \in 1 .. 7
    OBVIOUS
  <2> QED
    BY <2>1, Zenon DEF Families
<1>2. Belongs(f, d, k, x) => Belongs(f, d, k + 1, x)
  BY DEF Belongs
<1> DEFINE Q == S[k]  R == S[k + 1]  Q2 == T[k]  R2 == T[k + 1]
<1>3. \A n \in Nat : n + 1 \in n + 1 .. n + 1
  OBVIOUS
<1> HIDE DEF Q, R, Q2, R2
<1>4. /\ Q \in Seq(Item) /\ Q2 \in Seq(Item) /\ R \in Seq(Item)
      /\ Q2 = Append(Q, x) \/ Q2 = Q
      /\ Q2 = Append(Q, x) /\ Belongs(f, d, k, x) => R # << >> /\ R[1] = x /\ R2 = Tail(R)
      /\ (R # << >> /\ R[1] = x /\ R2 = Tail(R)) \/ R2 = R
      /\ \A j \in 1 .. 7 : j # k /\ j # k + 1 => T[j] = S[j]
      /\ R # << >> /\ R[1] = x /\ R2 = Tail(R) /\ Belongs(f, d, k + 1, x)
         /\ x.data = "whole" /\ d \in open /\ d \in Recipients(f, x.seq)
         => Q2 = Append(Q, x) /\ Belongs(f, d, k, x)
  BY <1>1, Zenon DEF OneMove, Q, Q2, R, R2
<1>5. R # << >> => Tail(R) # R
  BY <1>4
<1>6. CASE Q2 = Append(Q, x)
  <2>1. /\ Grown(f, d, k, Q, Q2, R)
        /\ Len(Q2) = Len(Q) + 1 /\ Q2[Len(Q) + 1] = x
        /\ \A n \in Len(Q) + 1 .. Len(Q2) : n = Len(Q) + 1
    <3>1. Belongs(f, d, k, x) =>
            R # << >> /\ Belongs(f, d, k + 1, R[1]) /\ x.seq = R[1].seq
      BY <1>2, <1>4, <1>6, Zenon
    <3>2. Grown(f, d, k, Q, Append(Q, x), R)
      BY <1>4, <3>1, GrownByOne, ZenonT(40)
    <3>3. \A A \in Seq(Item) :
            /\ Len(Append(A, x)) = Len(A) + 1 /\ Append(A, x)[Len(A) + 1] = x
            /\ \A n \in Len(A) + 1 .. Len(Append(A, x)) : n = Len(A) + 1
      OBVIOUS
    <3> QED
      BY <1>4, <1>6, <3>2, <3>3, Zenon
  <2>2. \/ R # << >> /\ R2 = Tail(R)
        \/ R2 = R /\ \A n \in Len(Q) + 1 .. Len(Q2) : ~Belongs(f, d, k, Q2[n])
    BY <1>4, <1>5, <1>6, <2>1, Zenon
  <2>3. Moves(f, d, S, T, k)
    BY <1>4, <2>1, <2>2, Zenon DEF Moves, Q, Q2, R, R2
  <2>4. Len(Q) + 1 \in 1 .. Len(Q2)
    BY <1>4, <2>1
  <2>5. Belongs(f, d, k, x) /\ x.data = "whole" => Carries(f, d, T, x.seq)
    BY <1>1, <2>1, <2>4, Zenon DEF Carries, Q2
  <2>6. R # << >> /\ R2 = Tail(R) => R[1] = x
    BY <1>4, <1>5, Zenon
  <2> QED
    BY <1>4, <2>3, <2>5, <2>6, Zenon DEF KeepsHead, Q, R, Q2, R2
<1>7. CASE Q2 = Q
  <2>1. /\ Grown(f, d, k, Q, Q2, R)
        /\ \A n \in Len(Q) + 1 .. Len(Q2) : FALSE
    BY <1>4, <1>7, NotGrown, Zenon
  <2>2. Moves(f, d, S, T, k)
    BY <1>4, <2>1, Zenon DEF Moves, Q, Q2, R, R2
  <2>3. Q2 # Append(Q, x)
    BY <1>4, <1>7
  <2>4. R # << >> /\ R2 = Tail(R) => R[1] = x
    BY <1>4, <1>5, Zenon
  <2> QED
    BY <1>4, <2>2, <2>3, <2>4, Zenon DEF KeepsHead, Q, R, Q2, R2
<1> QED
  BY <1>4, <1>6, <1>7, Zenon

(***************************************************************************)
(* The threads and queues of a flow are seven different ones.              *)
(***************************************************************************)
LEMMA WayThreads ==
  ASSUME NEW f \in Sids, NEW d \in Sids
  PROVE  /\ WorkerOf(f) \in Workers /\ ReactorThread(f) \in Reactors
         /\ ReactorThread(d) \in Reactors /\ DistQueue(PlaneOf(d)) \in Distributors
         /\ WorkerOf(f) \in Queues /\ ReactorThread(f) \in Queues
         /\ ReactorThread(d) \in Queues /\ DistQueue(PlaneOf(d)) \in Queues
BY SessionThreads, ThreadKinds, Zenon

(***************************************************************************)
(* A step that leaves the way of a flow alone is a step of the flow.       *)
(***************************************************************************)
LEMMA Unmoved ==
  ASSUME Types, Types', NEW f \in Sids, NEW d \in Sids,
         \A j \in 1 .. 7 : Stages(f, d)'[j] = Stages(f, d)[j]
  PROVE  FlowStep(f, d)
<1> DEFINE S == Stages(f, d)
           T == Stages(f, d)'
<1>1. S \in Families
  BY StagesType
<1>2. S[1] \in Seq(Item) /\ S[2] \in Seq(Item) /\ T[1] = S[1] /\ T[2] = S[2]
  BY <1>1 DEF Families
<1> HIDE DEF S, T
<1>3. Grown(f, d, 1, S[1], S[1], S[2]) /\ \A n \in Len(S[1]) + 1 .. Len(S[1]) : FALSE
  <2>1. 1 \in 1 .. 6
    OBVIOUS
  <2> QED
    BY <1>2, <2>1, NotGrown, Zenon
<1>4. \A Q \in Seq(Item) : Q # << >> => Tail(Q) # Q
  OBVIOUS
<1>5. 1 + 1 = 2 /\ 1 \in 1 .. 6 /\ \A j \in 1 .. 7 : T[j] = S[j]
  <2>1. \A j \in 1 .. 7 : T[j] = S[j]
    BY Zenon DEF S, T
  <2> QED
    BY <2>1
<1>6. Moves(f, d, S, T, 1)
  BY <1>2, <1>3, <1>5, Zenon DEF Moves
<1>7. KeepsHead(f, d, S, T, 1)
  BY <1>2, <1>4, <1>5, Zenon DEF KeepsHead
<1> QED
  BY <1>5, <1>6, <1>7, Zenon DEF FlowStep, S, T

-----------------------------------------------------------------------------
(* PushWithBackoff                                                          *)

(***************************************************************************)
(* A successful push takes the item from its thread's hand to the end of   *)
(* the queue that is next on its way, for each flow the item may be of.    *)
(***************************************************************************)
LEMMA PushFlows ==
  ASSUME Types, Types', Pushes, Placed, NEW t \in Threads, PushAttempt(t),
         HasRoom(push[t].queue), NEW f \in Sids, NEW d \in Sids, PlaneOf(f) # PlaneOf(d)
  PROVE  FlowStep(f, d)
<1> DEFINE x == push[t].items[1]
           q == push[t].queue
           S == Stages(f, d)
           T == Stages(f, d)'
<1>1. /\ push[t] \in PushType /\ push[t].items # << >> /\ push[t].queue \in Queues
      /\ push[t] # NoPush
  BY Zenon DEF Types, Pushes, PushOK, PushAttempt
<1>2. /\ x \in Item /\ InHand(t, x) /\ AfterPush(push[t]).items = Tail(push[t].items)
      /\ push[t].items \in Seq(Item) /\ Len(push[t].items) \in Nat
  <2>1. /\ x \in Item /\ AfterPush(push[t]).items = Tail(push[t].items)
        /\ push[t].items \in Seq(Item) /\ Len(push[t].items) \in Nat
    BY <1>1, AfterAttempt, Zenon
  <2>2. 1 \in 1 .. Len(push[t].items)
    BY <1>1, <2>1
  <2> QED
    BY <2>1, <2>2, Zenon DEF Placed
<1>3. /\ \A c \in Queues : c = q => queue'[c] = Append(queue[c], x)
      /\ \A c \in Queues : c # q => queue'[c] = queue[c]
      /\ \A c \in Threads : c = t => push'[c].items = Tail(push[c].items)
      /\ \A c \in Threads : c # t => push'[c].items = push[c].items
      /\ received' = received
  <2>1. /\ queue' = [queue EXCEPT ![q] = Append(queue[q], x)]
        /\ push' = [push EXCEPT ![t] = AfterPush(push[t])]
        /\ received' = received
    BY Zenon DEF PushAttempt
  <2>2. queue \in [Queues -> Seq(Item)] /\ push \in [Threads -> PushType]
    BY Zenon DEF Types
  <2> QED
    BY <1>2, <2>1, <2>2, Zenon
<1>4. /\ t \in Workers => q = DistQueue(Peer(t[2])) /\ Outbound(x) /\ t = WorkerOf(x.from)
      /\ t \in Distributors =>
           q = ReactorThread(x.to) /\ Outbound(x) /\ t = DistQueue(PlaneOf(x.to))
      /\ t \in Reactors => q = WorkerOf(x.from) /\ t = ReactorThread(x.from)
  BY <1>1, <1>2, Zenon DEF InHand, Pushes, PushOK
<1>5. S \in Families /\ T \in Families
  BY StagesType, Zenon
<1>6. /\ S[1] = received[d] /\ S[2] = queue[ReactorThread(d)]
      /\ S[3] = push[DistQueue(PlaneOf(d))].items /\ S[4] = queue[DistQueue(PlaneOf(d))]
      /\ S[5] = push[WorkerOf(f)].items /\ S[6] = queue[WorkerOf(f)]
      /\ S[7] = push[ReactorThread(f)].items
      /\ T[1] = received'[d] /\ T[2] = queue'[ReactorThread(d)]
      /\ T[3] = push'[DistQueue(PlaneOf(d))].items /\ T[4] = queue'[DistQueue(PlaneOf(d))]
      /\ T[5] = push'[WorkerOf(f)].items /\ T[6] = queue'[WorkerOf(f)]
      /\ T[7] = push'[ReactorThread(f)].items
  BY StageParts
<1> HIDE DEF S, T, x, q
<1>7. \A j \in 1 .. 7 : j = 1 \/ j = 2 \/ j = 3 \/ j = 4 \/ j = 5 \/ j = 6 \/ j = 7
  OBVIOUS
<1>8. /\ t \in Workers => t # ReactorThread(f) /\ t # DistQueue(PlaneOf(d))
      /\ t \in Distributors => t # ReactorThread(f) /\ t # WorkerOf(f)
      /\ t \in Reactors => t # WorkerOf(f) /\ t # DistQueue(PlaneOf(d))
      /\ q \in Workers => q # ReactorThread(d) /\ q # DistQueue(PlaneOf(d))
      /\ q \in Distributors => q # ReactorThread(d) /\ q # WorkerOf(f)
      /\ q \in Reactors => q # WorkerOf(f) /\ q # DistQueue(PlaneOf(d))
  BY WayThreads, ThreadKinds, ZenonT(40)
<1>9. /\ WorkerOf(f) \in Queues /\ ReactorThread(f) \in Queues
      /\ ReactorThread(d) \in Queues /\ DistQueue(PlaneOf(d)) \in Queues /\ Queues = Threads
  BY WayThreads, ThreadKinds, Zenon
<1>10. SUFFICES \E k \in 1 .. 6 : OneMove(f, d, S, T, k, x)
  BY <1>2, <1>5, OneMoves, Zenon DEF FlowStep, S, T
<1>11. /\ S[1] = T[1]
       /\ ReactorThread(d) # q => T[2] = S[2]
       /\ ReactorThread(d) = q => T[2] = Append(S[2], x)
       /\ DistQueue(PlaneOf(d)) # t => T[3] = S[3]
       /\ DistQueue(PlaneOf(d)) = t =>
            S[3] # << >> /\ S[3][1] = x /\ T[3] = Tail(S[3])
       /\ DistQueue(PlaneOf(d)) # q => T[4] = S[4]
       /\ DistQueue(PlaneOf(d)) = q => T[4] = Append(S[4], x)
       /\ WorkerOf(f) # t => T[5] = S[5]
       /\ WorkerOf(f) = t => S[5] # << >> /\ S[5][1] = x /\ T[5] = Tail(S[5])
       /\ WorkerOf(f) # q => T[6] = S[6]
       /\ WorkerOf(f) = q => T[6] = Append(S[6], x)
       /\ ReactorThread(f) # t => T[7] = S[7]
       /\ ReactorThread(f) = t => S[7] # << >> /\ S[7][1] = x /\ T[7] = Tail(S[7])
  <2>1. /\ S[1] = T[1]
        /\ ReactorThread(d) # q => T[2] = S[2]
        /\ ReactorThread(d) = q => T[2] = Append(S[2], x)
        /\ DistQueue(PlaneOf(d)) # q => T[4] = S[4]
        /\ DistQueue(PlaneOf(d)) = q => T[4] = Append(S[4], x)
        /\ WorkerOf(f) # q => T[6] = S[6]
        /\ WorkerOf(f) = q => T[6] = Append(S[6], x)
    BY <1>3, <1>6, <1>9, SMTT(30)
  <2>2. /\ DistQueue(PlaneOf(d)) # t => T[3] = S[3]
        /\ WorkerOf(f) # t => T[5] = S[5]
        /\ ReactorThread(f) # t => T[7] = S[7]
    BY <1>3, <1>6, <1>9, ZenonT(40)
  <2>3. /\ DistQueue(PlaneOf(d)) = t => S[3] = push[t].items /\ T[3] = Tail(push[t].items)
        /\ WorkerOf(f) = t => S[5] = push[t].items /\ T[5] = Tail(push[t].items)
        /\ ReactorThread(f) = t => S[7] = push[t].items /\ T[7] = Tail(push[t].items)
    BY <1>3, <1>6, <1>9, ZenonT(40)
  <2> QED
    BY <1>1, <2>1, <2>2, <2>3, Zenon DEF x
<1>12. CASE t \in Reactors
  <2>1. q = WorkerOf(x.from) /\ t = ReactorThread(x.from) /\ q \in Workers
    BY <1>2, <1>4, <1>12, SessionThreads, Zenon DEF Item
  <2>2. T[1] = S[1] /\ T[2] = S[2] /\ T[3] = S[3] /\ T[4] = S[4] /\ T[5] = S[5]
    BY <1>8, <1>11, <1>12, <2>1, Zenon
  <2>3. OneMove(f, d, S, T, 6, x)
    <3>1. /\ \A j \in 1 .. 7 : j # 6 /\ j # 7 => T[j] = S[j]
          /\ Belongs(f, d, 6, x) => x.from = f
          /\ Belongs(f, d, 7, x) => x.from = f
          /\ x.from = f => Belongs(f, d, 6, x)
          /\ 6 + 1 = 7
      BY <1>7, <2>2 DEF Belongs
    <3> QED
      BY <1>11, <2>1, <3>1, Zenon DEF OneMove
  <2> QED
    BY <2>3
<1>13. CASE t \in Workers
  <2>1. /\ q = DistQueue(Peer(t[2])) /\ t = WorkerOf(x.from) /\ q \in Distributors
        /\ x.from = f => q = DistQueue(PlaneOf(d))
    <3>1. q = DistQueue(Peer(t[2])) /\ t = WorkerOf(x.from) /\ t[2] \in Planes
      BY <1>4, <1>13, ThreadKinds, Zenon
    <3>2. q \in Distributors
      BY <3>1, Crossing, ThreadKinds, Zenon
    <3>3. PlaneOf(d) = Peer(PlaneOf(f)) /\ WorkerOf(f)[2] = PlaneOf(f)
      BY Crossing, SessionThreads, Zenon
    <3> QED
      BY <3>1, <3>2, <3>3, Zenon
  <2>2. T[1] = S[1] /\ T[2] = S[2] /\ T[3] = S[3] /\ T[6] = S[6] /\ T[7] = S[7]
    BY <1>8, <1>11, <1>13, <2>1, Zenon
  <2>3. OneMove(f, d, S, T, 4, x)
    <3>1. /\ \A j \in 1 .. 7 : j # 4 /\ j # 5 => T[j] = S[j]
          /\ Belongs(f, d, 4, x) => x.from = f
          /\ Belongs(f, d, 5, x) => x.from = f
          /\ Belongs(f, d, 5, x) => Belongs(f, d, 4, x)
          /\ 4 + 1 = 5
      BY <1>7, <2>2 DEF Belongs
    <3> QED
      BY <1>11, <2>1, <3>1, Zenon DEF OneMove
  <2> QED
    BY <2>3
<1>14. CASE t \in Distributors
  <2>1. /\ q = ReactorThread(x.to) /\ t = DistQueue(PlaneOf(x.to)) /\ q \in Reactors
    BY <1>2, <1>4, <1>14, OutboundCrosses, SessionThreads, Zenon
  <2>2. T[1] = S[1] /\ T[4] = S[4] /\ T[5] = S[5] /\ T[6] = S[6] /\ T[7] = S[7]
    BY <1>8, <1>11, <1>14, <2>1, Zenon
  <2>3. OneMove(f, d, S, T, 2, x)
    <3>1. /\ \A j \in 1 .. 7 : j # 2 /\ j # 3 => T[j] = S[j]
          /\ Belongs(f, d, 2, x) => x.to = d
          /\ Belongs(f, d, 3, x) => x.to = d
          /\ Belongs(f, d, 3, x) => Belongs(f, d, 2, x)
          /\ 2 + 1 = 3
      BY <1>7, <2>2 DEF Belongs
    <3> QED
      BY <1>11, <2>1, <3>1, Zenon DEF OneMove
  <2> QED
    BY <2>3
<1> QED
  BY <1>12, <1>13, <1>14, ThreadKinds, Zenon

(***************************************************************************)
(* A failed attempt to push takes from a flow only the messages in hand,   *)
(* and these have now met a full queue.                                    *)
(***************************************************************************)
LEMMA FailureFlows ==
  ASSUME Types, Types', Pushes, NEW t \in Threads, PushAttempt(t),
         ~HasRoom(push[t].queue), NEW f \in Sids, NEW d \in Sids
  PROVE  FlowStep(f, d)
<1> DEFINE P == push[t].items
           P2 == AfterFailure(push[t]).items
           S == Stages(f, d)
           T == Stages(f, d)'
<1>1. /\ push[t] \in PushType /\ P # << >> /\ push[t].queue \in Queues
      /\ push[t] # NoPush
  BY Zenon DEF Types, Pushes, PushOK, PushAttempt
<1>2. /\ P \in Seq(Item) /\ Len(P) \in Nat
      /\ \/ P2 = << >>
         \/ /\ Len(P2) = Len(P)
            /\ \A n \in 1 .. Len(P) :
                 /\ P2[n].from = P[n].from /\ P2[n].to = P[n].to
                 /\ P2[n].seq = P[n].seq
  <2>1. NoPush.items = << >>
    BY DEF NoPush, Pushing
  <2> QED
    BY <1>1, <2>1, AfterAttempt, Zenon
<1>3. \A n \in 1 .. Len(P) : <<P[n].from, P[n].seq>> \in bumped'
  <2>1. <<P[1].from, P[1].seq>> \in bumped'
    BY Zenon DEF PushAttempt
  <2>2. 1 \in 1 .. Len(P)
    BY <1>1, <1>2
  <2>3. CASE t \in Workers
    BY <1>1, <2>1, <2>2, <2>3, Zenon DEF Pushes, PushOK
  <2>4. CASE t \in Distributors \/ t \in Reactors
    <3>1. Len(P) = 1
      BY <1>1, <2>4, Zenon DEF Pushes, PushOK
    <3>2. \A n \in 1 .. Len(P) : n = 1
      BY <3>1
    <3> QED
      BY <2>1, <3>2, Zenon
  <2> QED
    BY <2>3, <2>4, ThreadKinds, Zenon
<1>4. /\ queue' = queue /\ received' = received
      /\ \A c \in Threads : c = t => push'[c].items = P2
      /\ \A c \in Threads : c # t => push'[c].items = push[c].items
  <2>1. /\ queue' = queue /\ received' = received
        /\ push' = [push EXCEPT ![t] = AfterFailure(push[t])]
    BY Zenon DEF PushAttempt
  <2>2. push \in [Threads -> PushType]
    BY Zenon DEF Types
  <2> QED
    BY <2>1, <2>2, Zenon
<1>5. /\ T[1] = S[1] /\ T[2] = S[2] /\ T[4] = S[4] /\ T[6] = S[6]
      /\ S[3] = push[DistQueue(PlaneOf(d))].items /\ S[5] = push[WorkerOf(f)].items
      /\ S[7] = push[ReactorThread(f)].items
      /\ T[3] = push'[DistQueue(PlaneOf(d))].items /\ T[5] = push'[WorkerOf(f)].items
      /\ T[7] = push'[ReactorThread(f)].items
  BY <1>4, StageParts
<1>6. \A j \in 1 .. 7 : j = 1 \/ j = 2 \/ j = 3 \/ j = 4 \/ j = 5 \/ j = 6 \/ j = 7
  OBVIOUS
<1>7. /\ DistQueue(PlaneOf(d)) \in Threads /\ WorkerOf(f) \in Threads
      /\ ReactorThread(f) \in Threads
      /\ DistQueue(PlaneOf(d)) # WorkerOf(f) /\ DistQueue(PlaneOf(d)) # ReactorThread(f)
      /\ WorkerOf(f) # ReactorThread(f)
  BY WayThreads, ThreadKinds, Zenon
<1> HIDE DEF S, T, P, P2
<1>8. /\ DistQueue(PlaneOf(d)) # t => T[3] = S[3]
      /\ WorkerOf(f) # t => T[5] = S[5]
      /\ ReactorThread(f) # t => T[7] = S[7]
      /\ DistQueue(PlaneOf(d)) = t => T[3] = P2 /\ S[3] = P
      /\ WorkerOf(f) = t => T[5] = P2 /\ S[5] = P
      /\ ReactorThread(f) = t => T[7] = P2 /\ S[7] = P
  BY <1>4, <1>5, <1>7, Zenon DEF P
<1>9. ASSUME NEW k \in 1 .. 7, T[k] = P2, S[k] = P, \A j \in 1 .. 7 : j # k => T[j] = S[j]
      PROVE  FlowStep(f, d)
  <2>1. Fails(S, T, k)
    BY <1>2, <1>9, Zenon DEF Fails
  <2> QED
    BY <1>3, <1>9, <2>1, Zenon DEF FlowStep, S, T
<1>10. CASE t = DistQueue(PlaneOf(d))
  <2>1. T[3] = P2 /\ S[3] = P /\ \A j \in 1 .. 7 : j # 3 => T[j] = S[j]
    BY <1>5, <1>6, <1>7, <1>8, <1>10, Zenon
  <2> QED
    BY <1>9, <2>1
<1>11. CASE t = WorkerOf(f)
  <2>1. T[5] = P2 /\ S[5] = P /\ \A j \in 1 .. 7 : j # 5 => T[j] = S[j]
    BY <1>5, <1>6, <1>7, <1>8, <1>11, Zenon
  <2> QED
    BY <1>9, <2>1
<1>12. CASE t = ReactorThread(f)
  <2>1. T[7] = P2 /\ S[7] = P /\ \A j \in 1 .. 7 : j # 7 => T[j] = S[j]
    BY <1>5, <1>6, <1>7, <1>8, <1>12, Zenon
  <2> QED
    BY <1>9, <2>1
<1>13. CASE t # DistQueue(PlaneOf(d)) /\ t # WorkerOf(f) /\ t # ReactorThread(f)
  <2>1. \A j \in 1 .. 7 : T[j] = S[j]
    BY <1>5, <1>6, <1>8, <1>13, Zenon
  <2> QED
    BY <2>1, Unmoved DEF S, T
<1> QED
  BY <1>10, <1>11, <1>12, <1>13, Zenon

(***************************************************************************)
(* What is left in hand after an attempt is still what the thread pushes.  *)
(***************************************************************************)
LEMMA PushOKAfter ==
  ASSUME NEW t \in Threads, NEW p \in PushType, p # NoPush, PushOK(t, p)
  PROVE  PushOK(t, AfterPush(p)) /\ PushOK(t, AfterFailure(p))
<1> DEFINE P == p.items
           A == AfterPush(p)
           F == AfterFailure(p)
<1>1. P # << >> /\ p.queue \in Queues
  BY DEF PushOK
<1>2. /\ P \in Seq(Item) /\ Len(P) \in Nat /\ A.items = Tail(P)
      /\ A # NoPush => A.queue = p.queue /\ A.items # << >>
      /\ \/ F = NoPush
         \/ /\ F.queue = p.queue /\ Len(F.items) = Len(P)
            /\ \A n \in 1 .. Len(P) :
                 /\ F.items[n].from = P[n].from /\ F.items[n].to = P[n].to
                 /\ F.items[n].seq = P[n].seq
  BY <1>1, AfterAttempt, Zenon
<1>3. /\ Len(Tail(P)) = Len(P) - 1
      /\ \A n \in 1 .. Len(Tail(P)) : Tail(P)[n] = P[n + 1] /\ n + 1 \in 1 .. Len(P)
      /\ 1 \in 1 .. Len(P)
  BY <1>1, <1>2
<1>4. Len(P) = 1 => A = NoPush
  BY DEF AfterPush
<1>5. F # NoPush => F.items # << >>
  <2>1. F # NoPush => Len(F.items) # 0
    BY <1>2, <1>3
  <2>2. Len(<< >>) = 0
    OBVIOUS
  <2> QED
    BY <2>1, <2>2, Zenon
<1>6. /\ t \in Workers =>
           /\ p.queue = DistQueue(Peer(t[2]))
           /\ \A m, n \in 1 .. Len(P) :
                /\ P[m].from = P[n].from /\ P[m].seq = P[n].seq
                /\ P[m].to = P[n].to => m = n
      /\ t \in Distributors => Len(P) = 1 /\ p.queue = ReactorThread(P[1].to)
      /\ t \in Reactors => Len(P) = 1 /\ p.queue = WorkerOf(P[1].from)
  BY Zenon DEF PushOK
<1> HIDE DEF P, A, F
<1>7. PushOK(t, A)
  <2>1. CASE t \in Workers
    <3> DEFINE Q == Tail(P)
    <3>1. \A m, n \in 1 .. Len(Q) :
             /\ Q[m].from = Q[n].from /\ Q[m].seq = Q[n].seq
             /\ Q[m].to = Q[n].to => m + 1 = n + 1
      BY <1>3, <1>6, <2>1
    <3>2. \A m, n \in 1 .. Len(Q) : m + 1 = n + 1 => m = n
      OBVIOUS
    <3>3. t \notin Distributors /\ t \notin Reactors
      BY <2>1, ThreadKinds, Zenon
    <3> HIDE DEF Q
    <3>4. CASE A # NoPush
      <4>1. A.queue = DistQueue(Peer(t[2])) /\ A.queue \in Queues /\ A.items # << >>
        BY <1>1, <1>2, <1>6, <2>1, <3>4, Zenon
      <4>2. \A m, n \in 1 .. Len(A.items) :
              /\ A.items[m].from = A.items[n].from /\ A.items[m].seq = A.items[n].seq
              /\ A.items[m].to = A.items[n].to => m = n
        <5>1. A.items = Q
          BY <1>2 DEF Q
        <5> QED
          BY <3>1, <3>2, <5>1
      <4> QED
        BY <3>3, <4>1, <4>2, Zenon DEF PushOK
    <3> QED
      BY <3>4, Zenon DEF PushOK
  <2>2. CASE t \notin Workers
    BY <1>4, <1>6, <2>2, ThreadKinds, Zenon DEF PushOK
  <2> QED
    BY <2>1, <2>2
<1>8. PushOK(t, F)
  <2>1. CASE t \in Workers
    <3>1. t \notin Distributors /\ t \notin Reactors
      BY <2>1, ThreadKinds, Zenon
    <3>2. CASE F # NoPush
      <4>1. F.queue = DistQueue(Peer(t[2])) /\ F.queue \in Queues /\ F.items # << >>
        BY <1>1, <1>2, <1>5, <1>6, <2>1, <3>2, Zenon
      <4>2. \A m, n \in 1 .. Len(F.items) :
              /\ F.items[m].from = F.items[n].from /\ F.items[m].seq = F.items[n].seq
              /\ F.items[m].to = F.items[n].to => m = n
        BY <1>2, <1>6, <2>1, <3>2
      <4> QED
        BY <3>1, <4>1, <4>2, Zenon DEF PushOK
    <3> QED
      BY <3>2, Zenon DEF PushOK
  <2>2. CASE t \notin Workers
    BY <1>1, <1>2, <1>3, <1>5, <1>6, <2>2, Zenon DEF PushOK
  <2> QED
    BY <2>1, <2>2
<1> QED
  BY <1>7, <1>8 DEF A, F

(***************************************************************************)
(* The types, the hands and the bound on the frames, after an attempt.     *)
(***************************************************************************)
LEMMA AttemptTypes ==
  ASSUME Types, SentBound, Pushes, NEW t \in Threads, PushAttempt(t)
  PROVE  Types' /\ SentBound' /\ Pushes'
<1> DEFINE p == push[t]
           x == p.items[1]
           q == p.queue
<1>1. p \in PushType /\ p.items # << >> /\ q \in Queues /\ p # NoPush /\ PushOK(t, p)
  BY ZenonT(40) DEF Types, Pushes, PushOK, PushAttempt
<1>2. x \in Item /\ AfterPush(p) \in PushType /\ AfterFailure(p) \in PushType
  BY <1>1, AfterAttempt, Zenon
<1>3. PushOK(t, AfterPush(p)) /\ PushOK(t, AfterFailure(p))
  BY <1>1, PushOKAfter, ZenonT(40)
<1>4. /\ \/ push' = [push EXCEPT ![t] = AfterPush(p)]
         \/ push' = [push EXCEPT ![t] = AfterFailure(p)]
      /\ \/ queue' = [queue EXCEPT ![q] = Append(queue[q], x)] /\ HasRoom(q)
         \/ queue' = queue
      /\ bumped' = bumped \/ bumped' = bumped \cup {<<x.from, x.seq>>}
      /\ UNCHANGED <<running, ended, open, sent, received>>
  BY Zenon DEF PushAttempt
<1> HIDE DEF p, q, x
<1>5. push \in [Threads -> PushType] /\ p = push[t]
  BY DEF Types, p
<1>6. push' \in [Threads -> PushType]
  BY <1>2, <1>4, <1>5
<1>7. \A c \in Threads :
        push'[c] = push[c] \/ (c = t /\ push'[c] \in {AfterPush(p), AfterFailure(p)})
  BY <1>4, <1>5
<1>8. Pushes'
  BY <1>3, <1>7, Zenon DEF Pushes
<1>9. queue' \in [Queues -> Seq(Item)] /\ \A c \in Queues : Len(queue'[c]) <= Capacity(c)
  <2>1. queue \in [Queues -> Seq(Item)] /\ \A c \in Queues : Len(queue[c]) <= Capacity(c)
    BY DEF Types
  <2>2. Capacity(q) \in Nat
    BY PipelineAssumption DEF Capacity
  <2>3. CASE queue' = [queue EXCEPT ![q] = Append(queue[q], x)] /\ HasRoom(q)
    <3>1. Append(queue[q], x) \in Seq(Item) /\ Len(Append(queue[q], x)) <= Capacity(q)
      BY <1>1, <1>2, <2>1, <2>2, <2>3 DEF HasRoom, q
    <3> QED
      BY <2>1, <2>3, <3>1, ZenonT(40)
  <2> QED
    BY <1>4, <2>1, <2>3, Zenon
<1>10. bumped' \subseteq Sids \X (1 .. MaxFrames)
  <2>1. bumped \subseteq Sids \X (1 .. MaxFrames) /\ x.from \in Sids /\ x.seq \in 1 .. MaxFrames
    BY <1>2, Zenon DEF Types, Item
  <2> QED
    BY <1>4, <2>1
<1>11. SentBound'
  BY <1>4 DEF SentBound, Sent
<1> QED
  BY <1>4, <1>6, <1>8, <1>9, <1>10, <1>11, Zenon DEF Types

(***************************************************************************)
(* Items are on their way after a step that sends nothing.                 *)
(***************************************************************************)
LEMMA PlacedKept ==
  ASSUME sent' = sent,
         \A s \in Sids : \A n \in 1 .. Len(received'[s]) :
           Outbound(received'[s][n]) /\ received'[s][n].to = s,
         \A q \in Queues : \A n \in 1 .. Len(queue'[q]) : Queued(q, queue'[q][n]),
         \A t \in Threads : \A n \in 1 .. Len(push'[t].items) : InHand(t, push'[t].items[n])
  PROVE  Placed'
<1>1. \A s \in Sids : \A n \in 1 .. Len(received'[s]) :
        Outbound(received[s][n])' /\ received'[s][n].to = s
  BY Zenon DEF Outbound, Recipients
<1>2. \A q \in Queues : \A n \in 1 .. Len(queue'[q]) : Queued(q, queue[q][n])'
  BY ZenonT(120) DEF Queued, Outbound, Inbound, Recipients
<1>3. \A t \in Threads : \A n \in 1 .. Len(push'[t].items) : InHand(t, push[t].items[n])'
  BY ZenonT(120) DEF InHand, Outbound, Inbound, Recipients
<1> QED
  BY <1>1, <1>2, <1>3, Zenon DEF Placed

(***************************************************************************)
(* An attempt to push leaves every item on its way: the queue it goes to   *)
(* is the one its sender and its recipient prescribe.                      *)
(***************************************************************************)
LEMMA AttemptPlaced ==
  ASSUME Types, Pushes, Placed, NEW t \in Threads, PushAttempt(t)
  PROVE  Placed'
<1> DEFINE p == push[t]
           P == p.items
           x == P[1]
           q == p.queue
<1>1. p \in PushType /\ P # << >> /\ q \in Queues /\ p # NoPush
  BY Zenon DEF Types, Pushes, PushOK, PushAttempt
<1>2. /\ P \in Seq(Item) /\ x \in Item /\ Len(P) \in Nat
      /\ AfterPush(p).items = Tail(P)
      /\ \/ AfterFailure(p) = NoPush
         \/ /\ Len(AfterFailure(p).items) = Len(P)
            /\ \A n \in 1 .. Len(P) :
                 /\ AfterFailure(p).items[n].from = P[n].from
                 /\ AfterFailure(p).items[n].to = P[n].to
                 /\ AfterFailure(p).items[n].seq = P[n].seq
  BY <1>1, AfterAttempt, Zenon
<1>3. \A n \in 1 .. Len(P) : InHand(t, P[n])
  BY Zenon DEF Placed
<1>4. InHand(t, x)
  BY <1>1, <1>2, <1>3
<1>5. Queued(q, x)
  <2>1. CASE t \in Reactors
    <3>1. q = WorkerOf(x.from) /\ Inbound(x)
      BY <1>1, <1>4, <2>1, Zenon DEF InHand, Pushes, PushOK
    <3>2. q \in Workers
      BY <1>2, <3>1, SessionThreads, Zenon DEF Item
    <3> QED
      BY <3>1, <3>2, ThreadKinds, Zenon DEF Queued
  <2>2. CASE t \in Workers
    <3>1. q = DistQueue(Peer(t[2])) /\ Outbound(x) /\ t = WorkerOf(x.from)
      BY <1>1, <1>4, <2>2, Zenon DEF InHand, Pushes, PushOK
    <3>2. x.from \in Sids /\ x.to \in Sids /\ PlaneOf(x.from) # PlaneOf(x.to)
      BY <1>2, <3>1, OutboundCrosses, Zenon
    <3>3. PlaneOf(x.to) = Peer(PlaneOf(x.from)) /\ WorkerOf(x.from)[2] = PlaneOf(x.from)
      BY <3>2, Crossing, SessionThreads, Zenon
    <3>4. q = DistQueue(PlaneOf(x.to)) /\ q \in Distributors
      <4>1. t[2] = PlaneOf(x.from)
        BY <3>1, <3>3, Zenon
      <4>2. q = DistQueue(PlaneOf(x.to))
        BY <3>1, <3>3, <4>1, Zenon
      <4> QED
        BY <3>2, <4>2, SessionThreads, Zenon
    <3> QED
      BY <3>1, <3>4, ThreadKinds, Zenon DEF Queued
  <2>3. CASE t \in Distributors
    <3>1. q = ReactorThread(x.to) /\ Outbound(x)
      BY <1>1, <1>4, <2>3, Zenon DEF InHand, Pushes, PushOK
    <3>2. q \in Reactors
      BY <1>2, <3>1, OutboundCrosses, SessionThreads, Zenon
    <3> QED
      BY <3>1, <3>2, ThreadKinds, Zenon DEF Queued
  <2> QED
    BY <2>1, <2>2, <2>3, ThreadKinds, Zenon
<1>6. /\ \/ push' = [push EXCEPT ![t] = AfterPush(p)]
         \/ push' = [push EXCEPT ![t] = AfterFailure(p)]
      /\ \/ queue' = [queue EXCEPT ![q] = Append(queue[q], x)]
         \/ queue' = queue
      /\ sent' = sent /\ received' = received
  BY Zenon DEF PushAttempt
<1>7. queue \in [Queues -> Seq(Item)] /\ push \in [Threads -> PushType]
  BY Zenon DEF Types
<1> HIDE DEF p, P, q, x
<1>8. \A c \in Queues : \A n \in 1 .. Len(queue'[c]) : Queued(c, queue'[c][n])
  <2> SUFFICES ASSUME NEW c \in Queues, NEW n \in 1 .. Len(queue'[c])
               PROVE  Queued(c, queue'[c][n])
    OBVIOUS
  <2>1. CASE queue'[c] = queue[c]
    BY <2>1, Zenon DEF Placed
  <2>2. CASE c = q /\ queue'[c] = Append(queue[c], x)
    <3>1. \/ n \in 1 .. Len(queue[c]) /\ queue'[c][n] = queue[c][n]
          \/ queue'[c][n] = x
      BY <1>7, <2>2
    <3> QED
      BY <1>5, <2>2, <3>1, Zenon DEF Placed
  <2> QED
    BY <1>6, <1>7, <2>1, <2>2, Zenon
<1>9. \A c \in Threads : \A n \in 1 .. Len(push'[c].items) : InHand(c, push'[c].items[n])
  <2> SUFFICES ASSUME NEW c \in Threads, NEW n \in 1 .. Len(push'[c].items)
               PROVE  InHand(c, push'[c].items[n])
    OBVIOUS
  <2>1. CASE push'[c] = push[c]
    BY <2>1, Zenon DEF Placed
  <2>2. CASE c = t /\ push'[c] = AfterPush(p)
    <3>1. \A m \in 1 .. Len(Tail(P)) : Tail(P)[m] = P[m + 1] /\ m + 1 \in 1 .. Len(P)
      BY <1>1, <1>2 DEF P
    <3>2. push'[c].items = Tail(P)
      BY <1>2, <2>2, Zenon
    <3>3. push'[c].items[n] = P[n + 1] /\ n + 1 \in 1 .. Len(P)
      BY <3>1, <3>2, Zenon
    <3> QED
      BY <1>3, <2>2, <3>3, Zenon
  <2>3. CASE c = t /\ push'[c] = AfterFailure(p)
    <3>1. AfterFailure(p) # NoPush
      BY <2>3 DEF NoPush, Pushing
    <3>2. /\ n \in 1 .. Len(P) /\ push'[c].items[n].from = P[n].from
          /\ push'[c].items[n].to = P[n].to /\ push'[c].items[n].seq = P[n].seq
      BY <1>2, <2>3, <3>1, Zenon
    <3> QED
      BY <1>3, <2>3, <3>2, Zenon DEF InHand, Inbound, Outbound
  <2> QED
    BY <1>6, <1>7, <2>1, <2>2, <2>3, Zenon
<1>10. \A s \in Sids : \A n \in 1 .. Len(received'[s]) :
         Outbound(received'[s][n]) /\ received'[s][n].to = s
  BY <1>6, Zenon DEF Placed
<1> QED
  BY <1>6, <1>8, <1>9, <1>10, PlacedKept, Zenon

(***************************************************************************)
(* PushWithBackoff keeps the invariant.                                    *)
(***************************************************************************)
LEMMA PushAttemptStep ==
  ASSUME IInv, NEW t \in Threads, PushAttempt(t)
  PROVE  IInv'
<1>1. Types /\ SentBound /\ Pushes /\ Placed /\ Ordered /\ Conserved
  BY Zenon DEF IInv
<1>2. Types' /\ SentBound' /\ Pushes'
  BY <1>1, AttemptTypes, Zenon
<1>3. Placed'
  BY <1>1, AttemptPlaced, Zenon
<1>4. \A f, d \in Sids : PlaneOf(f) # PlaneOf(d) => FlowStep(f, d)
  BY <1>1, <1>2, PushFlows, FailureFlows, Zenon
<1>5. sent' = sent /\ open' \subseteq open /\ bumped \subseteq bumped'
  BY Zenon DEF PushAttempt
<1>6. Ordered' /\ Conserved'
  BY <1>1, <1>2, <1>4, <1>5, FlowsKept, Zenon
<1> QED
  BY <1>2, <1>3, <1>6, Zenon DEF IInv

=============================================================================
