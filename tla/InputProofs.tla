---------------------------- MODULE InputProofs -----------------------------
(***************************************************************************)
(* Proofs about what reaches a reactor: connections through a ring queue,  *)
(* and bytes through a socket.                                             *)
(*                                                                         *)
(* The ring and its use with a wakeup are proved right for every capacity  *)
(* of both and every set of values.                                        *)
(*                                                                         *)
(* The session's buffers are proved right for frames and headers of any    *)
(* size, any number of frames and of answers, and however TCP cuts the     *)
(* stream: the frames handled are those received whole, each once and in   *)
(* order.                                                                  *)
(***************************************************************************)
EXTENDS Handoff, SessionIO, TLAPS

-----------------------------------------------------------------------------
(* The ring                                                                *)

(***************************************************************************)
(* The inductive invariant.  Going forward round the ring one meets the    *)
(* head_ the producer last saw, then head_, then the tail_ the consumer    *)
(* last saw, then tail_, within Capacity steps; a Push past its test has   *)
(* room even by its stale view; a Pop past its test has a value even by    *)
(* its stale view; and the slots in between hold values.                   *)
(***************************************************************************)
ViewsInOrder ==
  /\ Dist(headSeen, head_) + Dist(head_, tail_) <= Capacity
  /\ Dist(head_, tailSeen) <= Dist(head_, tail_)

PushHasRoom ==
  /\ ppc # "idle" => value \in Values /\ Dist(headSeen, tail_) < Capacity
  /\ ppc = "publish" => slots_[tail_] = value

PopHasValue ==
  /\ cpc # "idle" => tailSeen # head_
  /\ cpc = "release" => taken \in Values

LiveSlotsFilled ==
  \A i \in Index :
    Dist(head_, i) < Dist(head_, tail_) =>
      slots_[i] \in Values \/ (cpc = "release" /\ i = head_)

PoppedAreValues == popped \in Seq(Values)

RingInv ==
  /\ TypeOK
  /\ ViewsInOrder
  /\ PushHasRoom
  /\ PopHasValue
  /\ LiveSlotsFilled
  /\ PoppedAreValues

-----------------------------------------------------------------------------
(* The index arithmetic of Push and Pop, (i + 1) % capacity_, as a case split. *)
LEMMA SuccCases ==
  \A i \in Index : Succ(i) = IF i = Capacity THEN 0 ELSE i + 1
  BY CapacityAssumption DEF Index, Succ, capacity_

(* An index successor stays inside the ring. *)
LEMMA SuccType ==
  \A i \in Index : Succ(i) \in Index
  BY SuccCases, CapacityAssumption DEF Index

(* Dist counts forward steps, is below capacity_, and is 0 only from an index to itself. *)
LEMMA DistType ==
  \A i, j \in Index : Dist(i, j) \in 0 .. Capacity /\ (Dist(i, j) = 0 <=> i = j)
  BY CapacityAssumption DEF Index, Dist, capacity_

(* Advancing one of the two indices changes the distance between them by one. *)
LEMMA DistStep ==
  \A i, j \in Index :
    /\ Dist(i, j) < Capacity => Dist(i, Succ(j)) = Dist(i, j) + 1
    /\ i # j => Dist(Succ(i), j) = Dist(i, j) - 1
  BY SuccCases, CapacityAssumption DEF Index, Dist, capacity_

(* A stale load returns a value between the one last seen and the current one. *)
LEMMA LoadableBetween ==
  \A s, n \in Index : \A i \in LoadableFrom(s, n) :
    i \in Index /\ Dist(s, i) + Dist(i, n) = Dist(s, n)
  BY CapacityAssumption DEF LoadableFrom, Index, Dist, capacity_

-----------------------------------------------------------------------------
(* The empty ring satisfies the inductive invariant. *)
LEMMA InitRingInv == Init => RingInv
  BY CapacityAssumption, BlankAssumption, DistType
  DEF Init, RingInv, TypeOK, ViewsInOrder, PushHasRoom, PopHasValue,
      LiveSlotsFilled, PoppedAreValues, Index, Dist, capacity_

(* Every step of Push or Pop preserves the inductive invariant. *)
LEMMA NextRingInv == RingInv /\ [Next]_vars => RingInv'
<1> SUFFICES ASSUME RingInv, [Next]_vars PROVE RingInv'
  OBVIOUS
<1> USE CapacityAssumption, BlankAssumption
<1> USE DEF RingInv
<1>0. /\ head_ \in Index /\ tail_ \in Index
      /\ headSeen \in Index /\ tailSeen \in Index
  BY DEF TypeOK
<1>1. ASSUME NEW v \in Values, PushLoad(v) PROVE RingInv'
  <2>1. PICK h \in LoadableFrom(headSeen, head_) :
          /\ headSeen' = h
          /\ IF Succ(tail_) = h
               THEN UNCHANGED <<ppc, value>>
               ELSE ppc' = "write" /\ value' = v
    BY <1>1 DEF PushLoad
  <2>2. /\ h \in Index
        /\ Dist(headSeen, h) + Dist(h, head_) = Dist(headSeen, head_)
    BY <1>0, LoadableBetween
  <2>3. UNCHANGED <<tail_, slots_, head_, cpc, taken, tailSeen, popped>>
    BY <1>1 DEF PushLoad, consumerVars
  <2>4. TypeOK'
    BY <1>1, <2>1, <2>2, <2>3, Zenon DEF TypeOK
  <2>5. Dist(h, head_) + Dist(head_, tail_) <= Capacity
    BY <1>0, <2>2, DistType DEF ViewsInOrder
  <2>6. Succ(tail_) # h => Dist(h, tail_) < Capacity
    BY <1>0, <2>2, <2>5, SuccCases DEF Dist, Index, capacity_
  <2>7. ViewsInOrder'
    BY <2>1, <2>3, <2>5, Zenon DEF ViewsInOrder, Dist
  <2>8. PushHasRoom'
    BY <1>1, <2>1, <2>3, <2>6, Zenon DEF PushHasRoom, PushLoad, Dist
  <2>9. PopHasValue' /\ LiveSlotsFilled' /\ PoppedAreValues'
    BY <2>3 DEF PopHasValue, LiveSlotsFilled, PoppedAreValues, Dist
  <2> QED BY <2>4, <2>7, <2>8, <2>9
<1>2. ASSUME PushWrite PROVE RingInv'
  <2>1. UNCHANGED <<tail_, value, headSeen, head_, cpc, taken, tailSeen, popped>>
    BY <1>2 DEF PushWrite, consumerVars
  <2>2. TypeOK'
    BY <1>2, <2>1, Zenon DEF PushWrite, TypeOK
  <2>3. ViewsInOrder' /\ PopHasValue' /\ PoppedAreValues'
    BY <2>1, Zenon DEF ViewsInOrder, PopHasValue, PoppedAreValues, Dist
  <2>4. PushHasRoom'
    BY <1>0, <1>2, <2>1, Zenon DEF PushWrite, PushHasRoom, TypeOK, Dist
  <2>5. LiveSlotsFilled'
    BY <1>0, <1>2, <2>1, Zenon DEF PushWrite, LiveSlotsFilled, PushHasRoom, TypeOK, Dist
  <2> QED BY <2>2, <2>3, <2>4, <2>5
<1>3. ASSUME PushPublish PROVE RingInv'
  <2>1. /\ UNCHANGED <<headSeen, slots_, head_, cpc, taken, tailSeen, popped>>
        /\ ppc = "publish" /\ ppc' = "idle" /\ tail_' = Succ(tail_) /\ value' = Blank
    BY <1>3 DEF PushPublish, consumerVars
  <2>2. TypeOK'
    BY <1>0, <2>1, SuccType, Zenon DEF TypeOK
  <2>3. /\ Dist(headSeen, tail_) < Capacity /\ value \in Values
        /\ slots_[tail_] = value
    BY <2>1 DEF PushHasRoom
  <2>4. Dist(headSeen, tail_) = Dist(headSeen, head_) + Dist(head_, tail_)
    BY <1>0 DEF ViewsInOrder, Dist, Index, capacity_
  <2>5. Dist(head_, Succ(tail_)) = Dist(head_, tail_) + 1
    BY <1>0, <2>3, <2>4, DistStep, DistType
  <2>6. ViewsInOrder'
    BY <1>0, <2>1, <2>3, <2>4, <2>5, DistType DEF ViewsInOrder, Dist
  <2>7. PushHasRoom' /\ PopHasValue' /\ PoppedAreValues'
    BY <2>1 DEF PushHasRoom, PopHasValue, PoppedAreValues
  <2>8. LiveSlotsFilled'
    <3>1. SUFFICES ASSUME NEW i \in Index, Dist(head_, i) < Dist(head_, tail_) + 1
                   PROVE slots_[i] \in Values \/ (cpc = "release" /\ i = head_)
      BY <2>1, <2>5, Zenon DEF LiveSlotsFilled, Dist
    <3>2. CASE Dist(head_, i) < Dist(head_, tail_)
      BY <3>2, Zenon DEF LiveSlotsFilled
    <3>3. CASE Dist(head_, i) = Dist(head_, tail_)
      <4>1. i = tail_
        BY <1>0, <3>3 DEF Dist, Index, capacity_
      <4> QED BY <4>1, <2>3
    <3> QED BY <1>0, <3>1, <3>2, <3>3, DistType
  <2> QED BY <2>2, <2>6, <2>7, <2>8
<1>4. ASSUME PopLoad PROVE RingInv'
  <2>1. PICK t \in LoadableFrom(tailSeen, tail_) :
          /\ tailSeen' = t
          /\ cpc' = IF head_ = t THEN "idle" ELSE "read"
    BY <1>4 DEF PopLoad
  <2>2. /\ t \in Index
        /\ Dist(tailSeen, t) + Dist(t, tail_) = Dist(tailSeen, tail_)
    BY <1>0, LoadableBetween
  <2>3. UNCHANGED <<head_, taken, popped, slots_, tail_, ppc, value, headSeen>>
    BY <1>4 DEF PopLoad, producerVars
  <2>4. TypeOK'
    BY <2>1, <2>2, <2>3 DEF TypeOK
  <2>5. Dist(head_, t) <= Dist(head_, tail_)
    BY <1>0, <2>2 DEF ViewsInOrder, Dist, Index, capacity_
  <2>6. ViewsInOrder'
    BY <2>1, <2>3, <2>5 DEF ViewsInOrder, Dist
  <2>7. PushHasRoom' /\ PopHasValue' /\ PoppedAreValues'
    BY <2>1, <2>3 DEF PushHasRoom, PopHasValue, PoppedAreValues, Dist
  <2>8. LiveSlotsFilled'
    BY <1>4, <2>3 DEF PopLoad, LiveSlotsFilled, Dist
  <2> QED BY <2>4, <2>6, <2>7, <2>8
<1>5. ASSUME PopRead PROVE RingInv'
  <2>1. UNCHANGED <<head_, tailSeen, popped, tail_, ppc, value, headSeen>>
    BY <1>5 DEF PopRead, producerVars
  <2>2. TypeOK'
    BY <1>5, <2>1, Zenon DEF PopRead, TypeOK
  <2>3. tail_ # head_
    BY <1>0, <1>5 DEF PopRead, PopHasValue, ViewsInOrder, Dist, Index, capacity_
  <2>4. slots_[head_] \in Values
    BY <1>0, <1>5, <2>3 DEF PopRead, LiveSlotsFilled, Dist, Index, capacity_
  <2>5. ViewsInOrder' /\ PoppedAreValues'
    BY <2>1 DEF ViewsInOrder, PoppedAreValues, Dist
  <2>6. PushHasRoom'
    BY <1>0, <1>5, <2>1, <2>3, Zenon DEF PopRead, PushHasRoom, TypeOK, Dist
  <2>7. PopHasValue'
    BY <1>5, <2>1, <2>4 DEF PopRead, PopHasValue
  <2>8. LiveSlotsFilled'
    BY <1>0, <1>5, <2>1, Zenon DEF PopRead, LiveSlotsFilled, TypeOK, Dist
  <2> QED BY <2>2, <2>5, <2>6, <2>7, <2>8
<1>6. ASSUME PopRelease PROVE RingInv'
  <2>1. /\ UNCHANGED <<tailSeen, slots_, tail_, ppc, value, headSeen>>
        /\ cpc = "release" /\ cpc' = "idle" /\ head_' = Succ(head_)
        /\ taken' = Blank /\ popped' = <<taken>>
    BY <1>6 DEF PopRelease, producerVars
  <2>2. taken \in Values /\ tailSeen # head_
    BY <2>1 DEF PopHasValue
  <2>3. TypeOK'
    BY <1>0, <2>1, <2>2, SuccType DEF TypeOK
  <2>4. tail_ # head_
    BY <1>0, <2>2 DEF ViewsInOrder, Dist, Index, capacity_
  <2>5. /\ Dist(Succ(head_), tail_) = Dist(head_, tail_) - 1
        /\ Dist(Succ(head_), tailSeen) = Dist(head_, tailSeen) - 1
    BY <1>0, <2>2, <2>4, DistStep
  <2>6. Dist(headSeen, Succ(head_)) = Dist(headSeen, head_) + 1
    BY <1>0, <2>4, DistStep, DistType DEF ViewsInOrder
  <2>7. ViewsInOrder'
    BY <1>0, <2>1, <2>5, <2>6, DistType DEF ViewsInOrder, Dist
  <2>8. PushHasRoom' /\ PopHasValue' /\ PoppedAreValues'
    BY <2>1, <2>2 DEF PushHasRoom, PopHasValue, PoppedAreValues, Dist
  <2>9. LiveSlotsFilled'
    <3>1. SUFFICES ASSUME NEW i \in Index,
                          Dist(Succ(head_), i) < Dist(head_, tail_) - 1
                   PROVE slots_[i] \in Values
      BY <2>1, <2>5 DEF LiveSlotsFilled, Dist
    <3>2. i # head_ /\ Dist(head_, i) < Dist(head_, tail_)
      BY <1>0, <2>4, <3>1, SuccCases DEF Dist, Index, capacity_
    <3> QED BY <3>2 DEF LiveSlotsFilled
  <2> QED BY <2>3, <2>7, <2>8, <2>9
<1>7. CASE UNCHANGED vars
  BY <1>7, Zenon DEF vars, producerVars, consumerVars, TypeOK, ViewsInOrder, PushHasRoom,
              PopHasValue, LiveSlotsFilled, PoppedAreValues, Dist
<1> QED
  BY <1>1, <1>2, <1>3, <1>4, <1>5, <1>6, <1>7 DEF Next, Producer, Consumer

(***************************************************************************)
(* SpscQueue is well typed, and the producer's write to a slot never       *)
(* overlaps the consumer's read of it, for every capacity.                 *)
(***************************************************************************)
THEOREM RingSafety == Spec => [](TypeOK /\ NoSlotRace)
<1>1. RingInv => TypeOK /\ NoSlotRace
  <2> SUFFICES ASSUME RingInv PROVE TypeOK /\ NoSlotRace
    OBVIOUS
  <2>1. head_ \in Index /\ tail_ \in Index /\ tailSeen \in Index
    BY DEF RingInv, TypeOK
  <2>2. cpc # "idle" => head_ # tail_
    BY <2>1, CapacityAssumption
    DEF RingInv, PopHasValue, ViewsInOrder, Dist, Index, capacity_
  <2> QED BY <2>2 DEF RingInv, NoSlotRace
<1> QED BY <1>1, InitRingInv, NextRingInv, PTL DEF Spec

(***************************************************************************)
(* The indices stay in the ring, and every slot Pop takes from holds a     *)
(* value.                                                                  *)
(***************************************************************************)
THEOREM RingTyped == Spec => []TypeOK
BY RingSafety, PTL

-----------------------------------------------------------------------------
(* The positions of the queued values are the indices from head_ up to tail_. *)
LEMMA PositionFacts ==
  ASSUME RingInv, NEW k \in 1 .. Count
  PROVE  /\ Position(k) \in Index
         /\ Dist(head_, Position(k)) = k - 1
         /\ Position(k) # tail_
         /\ Position(k) = head_ <=> k = 1
<1>1. head_ \in Index /\ tail_ \in Index
  BY DEF RingInv, TypeOK
<1> QED BY <1>1, CapacityAssumption DEF Position, Count, Dist, Index, capacity_

ContentsTyped ==
  /\ Count \in 0 .. Capacity
  /\ Contents \in Seq(Values)
  /\ Len(Contents) = Count

(* The abstract queue is a sequence of at most Capacity values. *)
LEMMA ContentsType == RingInv => ContentsTyped
<1> SUFFICES ASSUME RingInv PROVE ContentsTyped
  OBVIOUS
<1>1. head_ \in Index /\ tail_ \in Index
  BY DEF RingInv, TypeOK
<1>2. Count \in 0 .. Capacity
  BY <1>1, DistType DEF Count
<1>3. ASSUME NEW k \in 1 .. Count
      PROVE (IF k = 1 /\ cpc = "release" THEN taken ELSE slots_[Position(k)]) \in Values
  <2>1. CASE k = 1 /\ cpc = "release"
    BY <2>1 DEF RingInv, PopHasValue
  <2>2. CASE ~(k = 1 /\ cpc = "release")
    <3>1. Position(k) \in Index /\ Dist(head_, Position(k)) < Dist(head_, tail_)
      BY <1>2, PositionFacts DEF Count
    <3> QED BY <2>2, <3>1, PositionFacts DEF RingInv, LiveSlotsFilled
  <2> QED BY <2>1, <2>2
<1>4. Contents \in [1 .. Count -> Values]
  BY <1>3 DEF Contents
<1> QED BY <1>2, <1>4, CapacityAssumption DEF ContentsTyped

(***************************************************************************)
(* The ring implements the bounded FIFO: Push takes effect when it         *)
(* publishes tail_, Pop when it releases head_, every other step is        *)
(* invisible.                                                              *)
(***************************************************************************)
THEOREM RingImplementsFifo == Spec => ImplementsFifo
<1>1. Init => Fifo!Init
  BY CapacityAssumption DEF Init, Fifo!Init, Contents, Count, Dist
<1>2. RingInv /\ RingInv' /\ [Next]_vars => [Fifo!Next]_(Fifo!vars)
  <2> SUFFICES ASSUME RingInv, RingInv', [Next]_vars PROVE [Fifo!Next]_(Fifo!vars)
    OBVIOUS
  <2>0. /\ head_ \in Index /\ tail_ \in Index
        /\ slots_ \in [Index -> Values \cup {Blank}]
    BY DEF RingInv, TypeOK
  <2>c. ContentsTyped /\ ContentsTyped'
    BY ContentsType, PTL
  <2>1. ASSUME NEW v \in Values, PushLoad(v) PROVE UNCHANGED Fifo!vars
    BY <2>1, Zenon DEF PushLoad, consumerVars, Fifo!vars, Contents, Count, Position, Dist
  <2>2. ASSUME PushWrite PROVE UNCHANGED Fifo!vars
    <3>1. /\ UNCHANGED <<head_, tail_, cpc, taken, popped>>
          /\ slots_' = [slots_ EXCEPT ![tail_] = value]
      BY <2>2, Zenon DEF PushWrite, consumerVars
    <3>2. Count' = Count /\ \A k \in 1 .. Count : Position(k)' = Position(k)
      BY <3>1, Zenon DEF Count, Position, Dist
    <3>3. \A k \in 1 .. Count : slots_'[Position(k)] = slots_[Position(k)]
      BY <2>0, <3>1, PositionFacts, Zenon
    <3>4. Contents' = Contents
      BY <3>1, <3>2, <3>3 DEF Contents
    <3> QED BY <3>1, <3>4 DEF Fifo!vars
  <2>3. ASSUME PushPublish PROVE Fifo!Push(value) /\ value \in Values
    <3>1. /\ UNCHANGED <<headSeen, slots_, head_, cpc, taken, popped>>
          /\ ppc = "publish" /\ tail_' = Succ(tail_)
      BY <2>3 DEF PushPublish, consumerVars
    <3>2. /\ value \in Values /\ slots_[tail_] = value
          /\ Dist(headSeen, tail_) < Capacity /\ headSeen \in Index
      BY <3>1, Zenon DEF RingInv, PushHasRoom, TypeOK
    <3>3. Count < Capacity
      BY <2>0, <3>2, CapacityAssumption
      DEF RingInv, ViewsInOrder, Count, Dist, Index, capacity_
    <3>4. Count' = Count + 1
      BY <2>0, <3>1, <3>3, DistStep DEF Count, Dist
    <3>5. \A k \in 1 .. Count + 1 : Position(k)' = Position(k)
      BY <3>1 DEF Position
    <3>6. Position(Count + 1) = tail_
      BY <2>0, CapacityAssumption DEF Position, Count, Dist, Index, capacity_
    <3>7. cpc = "release" => Count # 0
      BY <2>0, CapacityAssumption
      DEF RingInv, PopHasValue, ViewsInOrder, TypeOK, Count, Dist, Index, capacity_
    <3>8. /\ Contents \in Seq(Values) /\ Len(Contents) = Count
          /\ Contents' \in Seq(Values) /\ Len(Contents') = Count + 1
          /\ Count \in Nat
      BY <2>c, <3>4, CapacityAssumption DEF ContentsTyped
    <3>9. ASSUME NEW k \in 1 .. Count + 1
          PROVE Contents'[k] = Append(Contents, value)[k]
      <4>1. Contents'[k] = IF k = 1 /\ cpc = "release" THEN taken
                                                       ELSE slots_[Position(k)]
        BY <3>1, <3>4, <3>5, Zenon DEF Contents
      <4>2. CASE k \in 1 .. Count
        BY <3>8, <4>1, <4>2 DEF Contents
      <4>3. CASE k = Count + 1
        BY <3>2, <3>6, <3>7, <3>8, <4>1, <4>3
      <4> QED BY <3>8, <4>2, <4>3
    <3>10. Contents' = Append(Contents, value)
      BY <3>2, <3>8, <3>9
    <3> QED BY <3>1, <3>2, <3>3, <3>8, <3>10 DEF Fifo!Push
  <2>4. ASSUME PopLoad PROVE UNCHANGED Fifo!vars
    <3>1. /\ UNCHANGED <<head_, tail_, slots_, taken, popped>>
          /\ cpc # "release" /\ cpc' # "release"
      BY <2>4 DEF PopLoad, producerVars
    <3>2. Contents' = Contents
      BY <3>1 DEF Contents, Count, Position, Dist
    <3> QED BY <3>1, <3>2 DEF Fifo!vars
  <2>5. ASSUME PopRead PROVE UNCHANGED Fifo!vars
    <3>1. /\ UNCHANGED <<head_, tail_, popped>>
          /\ cpc = "read" /\ cpc' = "release" /\ taken' = slots_[head_]
          /\ slots_' = [slots_ EXCEPT ![head_] = Blank]
      BY <2>5 DEF PopRead, producerVars
    <3>2. Count' = Count /\ \A k \in 1 .. Count : Position(k)' = Position(k)
      BY <3>1, Zenon DEF Count, Position, Dist
    <3>3. \A k \in 1 .. Count :
            k # 1 => slots_'[Position(k)] = slots_[Position(k)]
      BY <2>0, <3>1, PositionFacts
    <3>4. 1 \in 1 .. Count => Position(1) = head_
      BY PositionFacts
    <3>5. Contents' = Contents
      BY <3>1, <3>2, <3>3, <3>4 DEF Contents
    <3> QED BY <3>1, <3>5 DEF Fifo!vars
  <2>6. ASSUME PopRelease PROVE Fifo!Pop
    <3>1. /\ UNCHANGED <<slots_, tail_>>
          /\ cpc = "release" /\ cpc' = "idle"
          /\ head_' = Succ(head_) /\ popped' = <<taken>>
      BY <2>6 DEF PopRelease, producerVars
    <3>2. head_ # tail_
      BY <2>0, <3>1, CapacityAssumption, SMTT(30)
      DEF RingInv, PopHasValue, ViewsInOrder, TypeOK, Dist, Index, capacity_
    <3>3. Count' = Count - 1 /\ Count \in 1 .. Capacity
      BY <2>0, <3>1, <3>2, DistStep, DistType DEF Count, Dist
    <3>4. \A k \in 1 .. Count - 1 : Position(k)' = Position(k + 1)
      BY <2>0, <3>1, <3>2, SuccCases, CapacityAssumption
      DEF Position, Count, Dist, Index, capacity_
    <3>5. /\ Contents \in Seq(Values) /\ Len(Contents) = Count
          /\ Contents' \in Seq(Values) /\ Len(Contents') = Count - 1
      BY <2>c, <3>3 DEF ContentsTyped
    <3>6. Head(Contents) = taken /\ Contents # << >>
      BY <3>1, <3>3, <3>5 DEF Contents
    <3>7. ASSUME NEW k \in 1 .. Count - 1 PROVE Contents'[k] = Tail(Contents)[k]
      <4>1. Contents'[k] = slots_[Position(k + 1)]
        BY <3>1, <3>3, <3>4 DEF Contents
      <4>2. Contents[k + 1] = slots_[Position(k + 1)]
        BY <3>3 DEF Contents
      <4> QED BY <3>3, <3>5, <3>6, <4>1, <4>2
    <3>8. Contents' = Tail(Contents)
      BY <3>3, <3>5, <3>6, <3>7
    <3> QED BY <3>1, <3>6, <3>8 DEF Fifo!Pop
  <2>7. CASE UNCHANGED vars
    BY <2>7, Zenon DEF vars, producerVars, consumerVars, Fifo!vars, Contents, Count, Position, Dist
  <2> QED
    BY <2>1, <2>2, <2>3, <2>4, <2>5, <2>6, <2>7
    DEF Next, Producer, Consumer, Fifo!Next
<1> QED BY <1>1, <1>2, InitRingInv, NextRingInv, PTL DEF Spec, ImplementsFifo, Fifo!Spec

-----------------------------------------------------------------------------
(* The ring and the wakeup                                                 *)


(***************************************************************************)
(* The handoff uses its ring as module SpscQueue says: it only restricts   *)
(* when a thread calls Push and Pop and which stale loads are possible.    *)
(***************************************************************************)
THEOREM HandoffUsesRing == HandoffSpec => Spec
<1>1. HandoffInit => Init
  BY DEF HandoffInit
<1>2. [HandoffNext]_handoffVars => [Next]_vars
  <2> SUFFICES ASSUME [HandoffNext]_handoffVars PROVE [Next]_vars
    OBVIOUS
  <2>1. CASE UNCHANGED handoffVars
    BY <2>1, Zenon DEF handoffVars
  <2>2. CASE Listener
    BY <2>2 DEF Listener, ListenerPush, ListenerWrite, ListenerPublish, ListenerNotify,
                Next, Producer
  <2>3. CASE DistributorNotify
    BY <2>3 DEF DistributorNotify
  <2>4. CASE Reactor
    BY <2>4 DEF Reactor, Wake, DrainRead, DrainEnd, TakeLoad, TakeRead, TakeRelease,
                Next, Consumer
  <2> QED
    BY <2>1, <2>2, <2>3, <2>4 DEF HandoffNext
<1> QED
  BY <1>1, <1>2, PTL DEF HandoffSpec, Spec

(***************************************************************************)
(* Why no wakeup is lost.  What the reactor might still miss has its       *)
(* Notify ahead of it or pending in the descriptor; and the reactor goes   *)
(* to sleep only after a load that showed it an empty ring.                *)
(***************************************************************************)
HandoffInv ==
  /\ valid \in BOOLEAN
  /\ count \in Nat
  /\ owes \in BOOLEAN
  /\ rpc \in {"wait", "drain", "take"}
  /\ visible \in Index
  /\ rpc # "take" => cpc = "idle"
  /\ rpc = "wait" => visible = head_
  /\ valid /\ visible # tail_ => count > 0 \/ owes

(***************************************************************************)
(* Pop's load of tail_, when it must see at least tail_, sees tail_.       *)
(***************************************************************************)
LEMMA LoadOfCurrent ==
  ASSUME TypeOK, NEW t \in LoadableFrom(tail_, tail_)
  PROVE  t = tail_
BY CapacityAssumption DEF TypeOK, LoadableFrom, Dist, Index, capacity_

(***************************************************************************)
(* Every step of the listener, the distributor and the reactor keeps it so.*)
(***************************************************************************)
LEMMA HandoffStep ==
  ASSUME TypeOK, TypeOK', HandoffInv, [HandoffNext]_handoffVars
  PROVE  HandoffInv'
<1>1. CASE UNCHANGED handoffVars
  BY <1>1 DEF HandoffInv, handoffVars, vars, producerVars, consumerVars, wakeupVars, Index
<1>2. ASSUME NEW v \in Values, ListenerPush(v)
      PROVE  HandoffInv'
  BY <1>2 DEF ListenerPush, PushLoad, consumerVars, wakeupVars, HandoffInv, Index
<1>3. CASE ListenerWrite
  BY <1>3 DEF ListenerWrite, PushWrite, consumerVars, wakeupVars, HandoffInv, Index
<1>4. CASE ListenerPublish
  BY <1>4 DEF ListenerPublish, PushPublish, consumerVars, HandoffInv, Index
<1>5. CASE ListenerNotify \/ DistributorNotify
  <2>1. Notified \in Nat /\ (valid => Notified > 0) /\ (count > 0 => Notified > 0)
    BY WakeupAssumption DEF Notified, HandoffInv
  <2>2. UNCHANGED <<head_, tail_, cpc, valid, rpc, visible>> /\ UNCHANGED Index
    BY <1>5, Zenon DEF ListenerNotify, DistributorNotify, vars, producerVars, consumerVars, Index
  <2>3. count' = Notified /\ (owes' = FALSE \/ owes' = owes)
    BY <1>5, Zenon DEF ListenerNotify, DistributorNotify
  <2>4. owes' \in BOOLEAN
    BY <2>3, ZenonT(40) DEF HandoffInv
  <2>5. valid /\ visible # tail_ => count' > 0
    BY <2>1, <2>3, Zenon
  <2> QED
    BY <2>1, <2>2, <2>3, <2>4, <2>5 DEF HandoffInv
<1>6. CASE Wake
  BY <1>6, Zenon DEF Wake, vars, producerVars, consumerVars, HandoffInv, Index
<1>7. CASE DrainRead
  <2>1. count' \in Nat
    BY <1>7, WakeupAssumption DEF DrainRead, HandoffInv
  <2>2. TailNotified \in Index /\ (~owes => TailNotified = tail_)
    BY CapacityAssumption DEF TailNotified, TypeOK, Index
  <2> QED
    BY <1>7, <2>1, <2>2, Zenon DEF DrainRead, vars, producerVars, consumerVars, HandoffInv, Index
<1>8. CASE DrainEnd
  BY <1>8, Zenon DEF DrainEnd, vars, producerVars, consumerVars, HandoffInv, Index
<1>9. CASE TakeLoad
  <2>1. visible' \in LoadableFrom(visible, tail_) /\ visible' \in Index
    BY <1>9 DEF TakeLoad, LoadableFrom
  <2>2. visible = tail_ => visible' = tail_
    BY <2>1, LoadOfCurrent
  <2>3. cpc' = "idle" => visible' = head_
    BY <1>9 DEF TakeLoad, PopLoad
  <2>4. UNCHANGED <<head_, tail_, valid, count, owes>>
    BY <1>9, Zenon DEF TakeLoad, PopLoad, producerVars
  <2>5. rpc' = IF cpc' = "idle" THEN "wait" ELSE "take"
    BY <1>9, Zenon DEF TakeLoad
  <2> QED
    BY <2>1, <2>2, <2>3, <2>4, <2>5, Zenon DEF HandoffInv
<1>10. CASE TakeRead
  BY <1>10, Zenon DEF TakeRead, PopRead, producerVars, wakeupVars, HandoffInv, Index
<1>11. CASE TakeRelease
  BY <1>11, Zenon DEF TakeRelease, PopRelease, producerVars, wakeupVars, HandoffInv, Index
<1> QED
  BY <1>1, <1>2, <1>3, <1>4, <1>5, <1>6, <1>7, <1>8, <1>9, <1>10, <1>11
     DEF HandoffNext, Listener, Reactor

(***************************************************************************)
(* No wakeup is lost between Listener::Run and Reactor::HandleReadable,    *)
(* whatever the capacity of the ring, the limit of the descriptor and the  *)
(* size of a read.                                                         *)
(***************************************************************************)
THEOREM NoConnectionIsStranded == HandoffSpec => []NoLostConnection
<1>1. HandoffInit => HandoffInv
  BY CapacityAssumption DEF HandoffInit, Init, HandoffInv, Index
<1>2. HandoffInv => NoLostConnection
  BY DEF HandoffInv, NoLostConnection
<1>3. HandoffSpec => []TypeOK
  BY HandoffUsesRing, RingSafety, PTL
<1>4. TypeOK /\ TypeOK' /\ HandoffInv /\ [HandoffNext]_handoffVars => HandoffInv'
  BY HandoffStep
<1> QED
  BY <1>1, <1>2, <1>3, <1>4, PTL DEF HandoffSpec

-----------------------------------------------------------------------------
(* The bytes of a session                                                   *)
(*                                                                          *)
(* Frame i begins at st[i] of the stream the client sends.  What is in      *)
(* buf_ and on the wire is the rest of that stream from some place base     *)
(* on, and every piece handled ends before base; as long as no frame with   *)
(* a wrong checksum begins before base, base is where the frame after the   *)
(* last one handled begins.                                                 *)

Size(S, i) == kWireHeaderSize + S[i].length

\* st is where the frames of S begin, and at last where they end.
Starts(S, st) ==
  /\ st \in [1 .. Len(S) + 1 -> Nat]
  /\ \A i \in 1 .. Len(S) : st[i + 1] = st[i] + Size(S, i)
  /\ \A i \in 1 .. Len(S) : \A j \in i + 1 .. Len(S) + 1 : st[i] + Size(S, i) <= st[j]

\* The bytes of Q are those of the stream that follow place p.
Covers(S, st, Q, p) ==
  /\ Q \in Seq(Nat \X Nat)
  /\ \A n \in 1 .. Len(Q) :
       /\ Q[n][1] \in 1 .. Len(S) /\ Q[n][2] \in 1 .. Size(S, Q[n][1])
       /\ st[Q[n][1]] + Q[n][2] = p + n

Stream(st, base) ==
  /\ Starts(sent, st) /\ base \in Nat
  /\ Covers(sent, st, buf_, base) /\ Covers(sent, st, wire, base + Len(buf_))
  /\ base + Len(buf_) + Len(wire) = st[Len(sent) + 1]

\* The bytes of frame i
Whole(S, i) == [k \in 1 .. Size(S, i) |-> <<i, k>>]

\* The bytes of Q follow each other in the stream, and end before base.
Piece(S, st, Q, base) ==
  Len(Q) >= 1 /\ \E p \in Nat : Covers(S, st, Q, p) /\ p + Len(Q) <= base

\* No frame with a wrong checksum begins before base.
Clean(S, st, base) == \A i \in 1 .. Len(S) : ~S[i].chksum => base <= st[i]

\* What has been handled, with frames S sent so far, is before base.  The second
\* to the fourth conjunct are those of BadFrameContained.
Handled(S, H, st, base) ==
  /\ \A n \in 1 .. Len(H) : Piece(S, st, H[n], base)
  /\ \A n \in 1 .. Len(H) :
       (\A i \in 1 .. H[n][1][1] : S[i].chksum) => n \in 1 .. Len(S) /\ H[n] = Whole(S, n)
  /\ \A n \in 2 .. Len(H) : Before(H[n - 1][Len(H[n - 1])], H[n][1])
  /\ (\A i \in 1 .. Len(S) : S[i].inner = << >>) =>
       \A n \in 1 .. Len(H) : \E i \in 1 .. Len(S) : S[i].chksum /\ H[n] = Whole(S, i)
  /\ Clean(S, st, base) =>
       /\ Len(H) <= Len(S) /\ base = st[Len(H) + 1]
       /\ \A n \in 1 .. Len(H) : H[n] = Whole(S, n)

\* The reactor is not in the loop that takes frames from buf_.
LeftLoop == at \in {"wait", "recv"} \/ (at = "write" /\ back = "wait")

\* It leaves no whole frame there.
NothingLeft ==
  NoneBad /\ ~LastRefused /\ LeftLoop /\ Len(handled) < Len(sent) =>
    Len(buf_) < FrameLen(Len(handled) + 1)

Types ==
  /\ sent \in Seq(FrameType) /\ Len(sent) <= MaxFrames
  /\ handled \in Seq(Seq(Nat \X Nat))
  /\ at \in {"wait", "recv", "pop", "write"} /\ back \in {"wait", "pop"}
  /\ sends \in 0 .. MaxSends /\ room \in 0 .. SndBuf /\ want_write \in BOOLEAN
  /\ outbuf \in Nat /\ outbuf <= AckSize * (Len(handled) + sends)

Framing == \E st : \E base : Stream(st, base) /\ Handled(sent, handled, st, base)

SessionInv == Types /\ Framing /\ NothingLeft /\ InterestMatches

-----------------------------------------------------------------------------
(* The stream                                                               *)

(***************************************************************************)
(* No frame is empty: it has a header.                                     *)
(***************************************************************************)
LEMMA FrameSize ==
  ASSUME NEW f \in FrameType
  PROVE  kWireHeaderSize + f.length \in Nat /\ kWireHeaderSize + f.length >= 1
<1>1. f.length \in Nat
  BY SessionIOAssumption, ZenonT(40) DEF FrameType
<1> QED
  BY <1>1, SessionIOAssumption

(***************************************************************************)
(* Neither is one that was sent.                                           *)
(***************************************************************************)
LEMMA FrameSizes ==
  ASSUME NEW S \in Seq(FrameType), NEW i \in 1 .. Len(S)
  PROVE  Size(S, i) \in Nat /\ Size(S, i) >= 1
<1>1. S[i] \in FrameType
  OBVIOUS
<1> QED
  BY <1>1, FrameSize DEF Size

(***************************************************************************)
(* The bytes between the client and the peer's buffer are finitely many.   *)
(***************************************************************************)
LEMMA StreamLengths ==
  ASSUME NEW st, NEW base, Stream(st, base)
  PROVE  base \in Nat /\ Len(buf_) \in Nat /\ Len(wire) \in Nat
<1>1. base \in Nat /\ buf_ \in Seq(Nat \X Nat) /\ wire \in Seq(Nat \X Nat)
  BY Zenon DEF Stream, Covers
<1> QED
  BY <1>1

(***************************************************************************)
(* Where a frame begins tells which one it is.                             *)
(***************************************************************************)
LEMMA Apart ==
  ASSUME NEW S \in Seq(FrameType), NEW st, Starts(S, st),
         NEW i \in 1 .. Len(S) + 1, NEW j \in 1 .. Len(S) + 1
  PROVE  st[i] \in Nat /\ (i < j <=> st[i] < st[j]) /\ (i = j <=> st[i] = st[j])
<1>1. \A m \in 1 .. Len(S) : Size(S, m) \in Nat /\ Size(S, m) >= 1
  BY FrameSizes
<1>2. \A m \in 1 .. Len(S) + 1 : st[m] \in Nat
  BY Zenon DEF Starts
<1>3. \A m \in 1 .. Len(S) : \A n \in m + 1 .. Len(S) + 1 : st[m] < st[n]
  BY <1>1, <1>2, SMTT(30) DEF Starts
<1>4. i < j => st[i] < st[j]
  BY <1>3
<1>5. j < i => st[j] < st[i]
  BY <1>3
<1> QED
  BY <1>2, <1>4, <1>5

(***************************************************************************)
(* The byte that follows the place where frame i begins is its first.      *)
(***************************************************************************)
LEMMA FirstByte ==
  ASSUME NEW S \in Seq(FrameType), NEW st, Starts(S, st),
         NEW i \in 1 .. Len(S) + 1, NEW j \in 1 .. Len(S), NEW k \in 1 .. Size(S, j),
         st[j] + k = st[i] + 1
  PROVE  i = j /\ k = 1
<1>1. Size(S, j) \in Nat /\ st[i] \in Nat /\ st[j] \in Nat
  <2>1. j \in 1 .. Len(S) + 1
    OBVIOUS
  <2> QED
    BY <2>1, FrameSizes, Apart, Zenon
<1>2. ~(j < i)
  <2>1. j < i => st[j] + Size(S, j) <= st[i]
    BY DEF Starts
  <2> QED
    BY <1>1, <2>1, SMTT(30)
<1>3. ~(i < j)
  <2>1. i < j => st[i] < st[j]
    BY Apart
  <2> QED
    BY <1>1, <2>1, SMTT(30)
<1> QED
  BY <1>1, <1>2, <1>3

(***************************************************************************)
(* The order of the places in the stream is that of the bytes: by frame,   *)
(* and within a frame.                                                     *)
(***************************************************************************)
LEMMA PlaceOrder ==
  ASSUME NEW S \in Seq(FrameType), NEW st, Starts(S, st),
         NEW i \in 1 .. Len(S), NEW k \in 1 .. Size(S, i),
         NEW j \in 1 .. Len(S), NEW l \in 1 .. Size(S, j)
  PROVE  /\ st[i] + k < st[j] + l => i < j \/ (i = j /\ k < l)
         /\ st[i] + k = st[j] + l => i = j /\ k = l
<1>1. Size(S, i) \in Nat /\ st[i] \in Nat /\ Size(S, j) \in Nat /\ st[j] \in Nat
  <2>1. i \in 1 .. Len(S) + 1 /\ j \in 1 .. Len(S) + 1
    OBVIOUS
  <2> QED
    BY <2>1, FrameSizes, Apart, Zenon
<1>2. /\ j < i => st[j] + Size(S, j) <= st[i]
      /\ i < j => st[i] + Size(S, i) <= st[j]
  BY DEF Starts
<1>3. i \in Nat /\ j \in Nat /\ k \in Nat /\ l \in Nat
      /\ 1 <= k /\ k <= Size(S, i) /\ 1 <= l /\ l <= Size(S, j)
  BY <1>1
<1>4. j < i => st[j] + l < st[i] + k
  BY <1>1, <1>2, <1>3, SMTT(30)
<1>5. i < j => st[i] + k < st[j] + l
  BY <1>1, <1>2, <1>3, SMTT(30)
<1>6. i = j \/ i < j \/ j < i
  BY <1>3
<1>7. CASE i = j
  BY <1>1, <1>3, <1>7, SMTT(30)
<1>8. CASE i < j
  BY <1>1, <1>3, <1>5, <1>8, SMTT(30)
<1>9. CASE j < i
  BY <1>1, <1>3, <1>4, <1>9, SMTT(30)
<1> QED
  BY <1>6, <1>7, <1>8, <1>9, Zenon

(***************************************************************************)
(* As many bytes as frame i has, from where it begins, are frame i.        *)
(***************************************************************************)
LEMMA WholeFrame ==
  ASSUME NEW S \in Seq(FrameType), NEW st, Starts(S, st), NEW i \in 1 .. Len(S),
         NEW Q, Covers(S, st, Q, st[i]), Len(Q) = Size(S, i)
  PROVE  Q = Whole(S, i)
<1>1. Q \in Seq(Nat \X Nat) /\ DOMAIN Q = 1 .. Size(S, i)
  BY DEF Covers
<1>2. ASSUME NEW n \in 1 .. Size(S, i)
      PROVE  Q[n] = <<i, n>>
  <2>1. /\ Q[n][1] \in 1 .. Len(S) /\ Q[n][2] \in 1 .. Size(S, Q[n][1])
        /\ st[Q[n][1]] + Q[n][2] = st[i] + n
    BY Zenon DEF Covers
  <2>2. PICK j \in 1 .. Len(S) : j = Q[n][1]
    BY <2>1, Zenon
  <2>3. PICK k \in 1 .. Size(S, j) : k = Q[n][2] /\ st[j] + k = st[i] + n
    BY <2>1, <2>2, Zenon
  <2>4. j = i /\ k = n
    BY <2>3, PlaceOrder, SMTT(30)
  <2>5. Q[n] = <<Q[n][1], Q[n][2]>>
    <3>1. Q[n] \in Nat \X Nat
      BY <1>1
    <3> QED
      BY <3>1
  <2> QED
    BY <2>2, <2>3, <2>4, <2>5, Zenon
<1>3. Q = [n \in 1 .. Size(S, i) |-> Q[n]]
  BY <1>1
<1>4. [n \in 1 .. Size(S, i) |-> Q[n]] = [n \in 1 .. Size(S, i) |-> <<i, n>>]
  BY <1>2, Zenon
<1> QED
  BY <1>3, <1>4, Zenon DEF Whole

(***************************************************************************)
(* What follows a place p, cut in two.                                     *)
(***************************************************************************)
LEMMA CoversCut ==
  ASSUME NEW S, NEW st, NEW Q, NEW p \in Nat, Covers(S, st, Q, p), NEW c \in 0 .. Len(Q)
  PROVE  /\ Covers(S, st, SubSeq(Q, 1, c), p) /\ Len(SubSeq(Q, 1, c)) = c
         /\ Covers(S, st, SubSeq(Q, c + 1, Len(Q)), p + c)
         /\ Len(SubSeq(Q, c + 1, Len(Q))) = Len(Q) - c
<1> DEFINE A == SubSeq(Q, 1, c)
           B == SubSeq(Q, c + 1, Len(Q))
<1>1. Q \in Seq(Nat \X Nat) /\ Len(Q) \in Nat
  BY DEF Covers
<1>2. /\ A \in Seq(Nat \X Nat) /\ Len(A) = c
      /\ \A n \in 1 .. c : A[n] = Q[n] /\ n \in 1 .. Len(Q)
  BY <1>1, SMTT(30)
<1>3. /\ B \in Seq(Nat \X Nat) /\ Len(B) = Len(Q) - c
      /\ \A n \in 1 .. Len(Q) - c : B[n] = Q[n + c] /\ n + c \in 1 .. Len(Q)
  <2>1. \A n \in 1 .. Len(Q) - c : n + c \in 1 .. Len(Q) /\ n + (c + 1) - 1 = n + c
    BY <1>1
  <2>2. Len(B) = Len(Q) - c
    BY <1>1
  <2>3. \A n \in 1 .. Len(Q) - c : B[n] = Q[n + c]
    BY <1>1
  <2>4. B \in Seq(Nat \X Nat)
    BY <1>1
  <2> QED
    BY <2>1, <2>2, <2>3, <2>4, Zenon
<1> HIDE DEF A, B
<1>4. Covers(S, st, A, p)
  BY <1>2, ZenonT(40) DEF Covers
<1>5. Covers(S, st, B, p + c)
  <2>1. \A n \in 1 .. Len(B) : p + (n + c) = (p + c) + n
    BY <1>1, <1>3
  <2> QED
    BY <1>3, <2>1, ZenonT(40) DEF Covers
<1> QED
  BY <1>2, <1>3, <1>4, <1>5, Zenon DEF A, B

(***************************************************************************)
(* And put together.                                                       *)
(***************************************************************************)
LEMMA CoversJoin ==
  ASSUME NEW S, NEW st, NEW A, NEW B, NEW p \in Nat,
         Covers(S, st, A, p), Covers(S, st, B, p + Len(A))
  PROVE  Covers(S, st, A \o B, p) /\ Len(A \o B) = Len(A) + Len(B)
<1>1. A \in Seq(Nat \X Nat) /\ B \in Seq(Nat \X Nat) /\ Len(A) \in Nat /\ Len(B) \in Nat
  BY DEF Covers
<1>2. A \o B \in Seq(Nat \X Nat) /\ Len(A \o B) = Len(A) + Len(B)
  BY <1>1
<1>3. \A n \in 1 .. Len(A) + Len(B) :
        \/ n \in 1 .. Len(A) /\ (A \o B)[n] = A[n]
        \/ n - Len(A) \in 1 .. Len(B) /\ (A \o B)[n] = B[n - Len(A)]
           /\ (p + Len(A)) + (n - Len(A)) = p + n
  BY <1>1, SMTT(30)
<1> DEFINE C == A \o B
<1> HIDE DEF C
<1>4. Covers(S, st, C, p)
  BY <1>2, <1>3, ZenonT(40) DEF Covers, C
<1> QED
  BY <1>2, <1>4 DEF C

(***************************************************************************)
(* One more frame begins where the stream ended so far.                    *)
(***************************************************************************)
LEMMA StartsGrow ==
  ASSUME NEW S \in Seq(FrameType), NEW f \in FrameType, NEW st, Starts(S, st)
  PROVE  \E st2 : /\ Starts(Append(S, f), st2)
                  /\ \A i \in 1 .. Len(S) + 1 : st2[i] = st[i]
                  /\ st2[Len(S) + 2] = st[Len(S) + 1] + (kWireHeaderSize + f.length)
<1> DEFINE N == Len(S)
           T == Append(S, f)
           z == kWireHeaderSize + f.length
           st2 == [i \in 1 .. N + 2 |-> IF i = N + 2 THEN st[N + 1] + z ELSE st[i]]
<1>1. N \in Nat /\ T \in Seq(FrameType) /\ Len(T) = N + 1
      /\ (\A i \in 1 .. N : T[i] = S[i]) /\ T[N + 1] = f
  OBVIOUS
<1>2. z \in Nat /\ z >= 1
  BY FrameSize
<1>3. \A i \in 1 .. N + 1 : st[i] \in Nat
  BY Zenon DEF Starts
<1>4. (\A i \in 1 .. N : Size(T, i) = Size(S, i)) /\ Size(T, N + 1) = z
  BY <1>1, Zenon DEF Size
<1>5. \A i \in 1 .. N : Size(S, i) \in Nat
  BY FrameSizes, Zenon
<1> HIDE DEF T, z
<1>6. /\ \A i \in 1 .. N + 1 : st2[i] = st[i]
      /\ st2[N + 2] = st[N + 1] + z
      /\ st2 \in [1 .. Len(T) + 1 -> Nat]
  BY <1>1, <1>2, <1>3, SMTT(30)
<1> HIDE DEF st2
<1>7. \A i \in 1 .. N : st[i + 1] = st[i] + Size(S, i) /\ st[i] + Size(S, i) <= st[N + 1]
  BY <1>1 DEF Starts
<1>8. \A i \in 1 .. Len(T) : st2[i + 1] = st2[i] + Size(T, i)
  <2> SUFFICES ASSUME NEW i \in 1 .. Len(T)
               PROVE  st2[i + 1] = st2[i] + Size(T, i)
    BY Zenon
  <2>1. CASE i \in 1 .. N
    <3>1. i \in 1 .. N + 1 /\ i + 1 \in 1 .. N + 1
      BY <1>1, <2>1
    <3> QED
      BY <1>4, <1>6, <1>7, <2>1, <3>1, ZenonT(40)
  <2>2. CASE i = N + 1
    <3>1. N + 1 \in 1 .. N + 1 /\ (N + 1) + 1 = N + 2
      BY <1>1
    <3> QED
      BY <1>4, <1>6, <2>2, <3>1, ZenonT(40)
  <2> QED
    BY <1>1, <2>1, <2>2, SMTT(30)
<1>9. \A i \in 1 .. Len(T) : \A j \in i + 1 .. Len(T) + 1 : st2[i] + Size(T, i) <= st2[j]
  <2> SUFFICES ASSUME NEW i \in 1 .. Len(T), NEW j \in i + 1 .. Len(T) + 1
               PROVE  st2[i] + Size(T, i) <= st2[j]
    OBVIOUS
  <2>1. CASE j <= N + 1
    <3>1. i \in 1 .. N /\ j \in i + 1 .. N + 1 /\ j \in 1 .. N + 1 /\ i \in 1 .. N + 1
      BY <1>1, <2>1
    <3>2. st[i] + Size(S, i) <= st[j]
      BY <3>1, Zenon DEF Starts
    <3> QED
      BY <1>4, <1>6, <3>1, <3>2, Zenon
  <2>2. CASE j = N + 2 /\ i <= N
    <3>1. i \in 1 .. N /\ i \in 1 .. N + 1 /\ N + 1 \in 1 .. N + 1
      BY <1>1, <2>2
    <3>2. st[i] + Size(S, i) <= st[N + 1] /\ st[i] + Size(S, i) \in Nat /\ st[N + 1] \in Nat
      BY <1>3, <1>5, <1>7, <3>1, SMTT(30)
    <3>3. st2[i] + Size(T, i) = st[i] + Size(S, i) /\ st2[j] = st[N + 1] + z
      BY <1>4, <1>6, <2>2, <3>1, Zenon
    <3> QED
      BY <1>2, <3>2, <3>3, SMTT(30)
  <2>3. CASE j = N + 2 /\ i = N + 1
    BY <1>1, <1>2, <1>3, <1>4, <1>6, <2>3
  <2> QED
    BY <1>1, <2>1, <2>2, <2>3
<1>10. Starts(T, st2)
  BY <1>6, <1>8, <1>9 DEF Starts
<1> QED
  BY <1>6, <1>10 DEF T, z

(***************************************************************************)
(* Bytes stay where they are when it is sent, and its own come last.       *)
(***************************************************************************)
LEMMA CoversGrow ==
  ASSUME NEW S \in Seq(FrameType), NEW f \in FrameType, NEW st, NEW st2, Starts(S, st),
         \A i \in 1 .. Len(S) + 1 : st2[i] = st[i]
  PROVE  /\ \A Q, p : Covers(S, st, Q, p) => Covers(Append(S, f), st2, Q, p)
         /\ Covers(Append(S, f), st2,
                   [k \in 1 .. kWireHeaderSize + f.length |-> <<Len(S) + 1, k>>],
                   st[Len(S) + 1])
         /\ Len([k \in 1 .. kWireHeaderSize + f.length |-> <<Len(S) + 1, k>>]) =
              kWireHeaderSize + f.length
<1> DEFINE N == Len(S)
           T == Append(S, f)
           z == kWireHeaderSize + f.length
           F == [k \in 1 .. z |-> <<N + 1, k>>]
<1>1. N \in Nat /\ T \in Seq(FrameType) /\ Len(T) = N + 1
      /\ (\A i \in 1 .. N : T[i] = S[i]) /\ T[N + 1] = f
  OBVIOUS
<1>2. z \in Nat
  BY FrameSize
<1>3. (\A i \in 1 .. N : Size(T, i) = Size(S, i)) /\ Size(T, N + 1) = z
  BY <1>1 DEF Size
<1> HIDE DEF T, z
<1>4. ASSUME NEW Q, NEW p, Covers(S, st, Q, p)
      PROVE  Covers(T, st2, Q, p)
  <2>1. \A i \in 1 .. N : i \in 1 .. Len(T) /\ i \in 1 .. N + 1
    BY <1>1
  <2> QED
    BY <1>3, <1>4, <2>1, ZenonT(40) DEF Covers
<1>5. F \in Seq(Nat \X Nat) /\ Len(F) = z /\ \A k \in 1 .. z : F[k][1] = N + 1 /\ F[k][2] = k
  BY <1>1, <1>2
<1> HIDE DEF F
<1>6. Covers(T, st2, F, st[N + 1])
  <2>1. N + 1 \in 1 .. Len(T) /\ N + 1 \in 1 .. N + 1
    BY <1>1
  <2> QED
    BY <1>3, <1>5, <2>1, Zenon DEF Covers
<1> QED
  BY <1>4, <1>5, <1>6, ZenonT(40) DEF F, T, z

-----------------------------------------------------------------------------
(* The steps                                                                *)

(***************************************************************************)
(* Numbers of frames.                                                      *)
(***************************************************************************)
LEMMA NumbersBelow ==
  ASSUME NEW N \in Nat, NEW i \in 1 .. N
  PROVE  /\ i \in 1 .. N + 1
         /\ \A j \in 1 .. i : j \in 1 .. N
         /\ \A j \in 1 .. N : j \in 1 .. N + 1 /\ (i < j => j \in i + 1 .. N + 1)
OBVIOUS

(***************************************************************************)
(* A place in the stream by base is before the one after base.             *)
(***************************************************************************)
LEMMA LaterSum ==
  ASSUME NEW a \in Nat, NEW b \in Nat, NEW k \in Nat, NEW l \in Nat, NEW base \in Nat,
         a + k = base + 1, b + l <= base
  PROVE  b + l < a + k
OBVIOUS

(***************************************************************************)
(* A frame that holds the place after base ends at or after base.          *)
(***************************************************************************)
LEMMA FirstPart ==
  ASSUME NEW a \in Nat, NEW b \in Nat, NEW k \in Nat, NEW base \in Nat,
         a + k = base + 1, k <= b
  PROVE  base <= a + b /\ a + b \in Nat
OBVIOUS

(***************************************************************************)
(* The order of places is transitive.                                      *)
(***************************************************************************)
LEMMA AtMost ==
  ASSUME NEW a \in Nat, NEW b \in Nat, NEW c \in Nat, a <= b, b <= c
  PROVE  a <= c
OBVIOUS

(***************************************************************************)
(* A history grows by one entry.                                           *)
(***************************************************************************)
LEMMA OneMore ==
  ASSUME NEW T, NEW H \in Seq(T), NEW Q \in T
  PROVE  /\ Len(H) \in Nat /\ Len(Append(H, Q)) = Len(H) + 1 /\ Append(H, Q) # << >>
         /\ Append(H, Q) \in Seq(T) /\ Append(H, Q)[Len(Append(H, Q))] = Q
OBVIOUS

(***************************************************************************)
(* Where a piece begins and ends.                                          *)
(***************************************************************************)
LEMMA PieceEnds ==
  ASSUME NEW S, NEW st, NEW Q, NEW base \in Nat, Piece(S, st, Q, base)
  PROVE  /\ Q \in Seq(Nat \X Nat) /\ Len(Q) \in Nat /\ 1 \in 1 .. Len(Q) /\ Len(Q) \in 1 .. Len(Q)
         /\ \A n \in 1 .. Len(Q) :
              /\ Q[n][1] \in 1 .. Len(S) /\ Q[n][2] \in 1 .. Size(S, Q[n][1])
              /\ st[Q[n][1]] + Q[n][2] <= base
<1>1. PICK p \in Nat : Covers(S, st, Q, p) /\ p + Len(Q) <= base
  BY Zenon DEF Piece
<1>2. Q \in Seq(Nat \X Nat) /\ Len(Q) >= 1
  BY <1>1, Zenon DEF Piece, Covers
<1>3. Len(Q) \in Nat /\ 1 \in 1 .. Len(Q) /\ Len(Q) \in 1 .. Len(Q)
  BY <1>2
<1>4. \A n \in 1 .. Len(Q) : p + n <= base
  BY <1>1, <1>3
<1> QED
  BY <1>1, <1>2, <1>3, <1>4, Zenon DEF Covers

(***************************************************************************)
(* While no wrong checksum has been met, the buffer begins with the header *)
(* of the frame after the last one handled.                                *)
(***************************************************************************)
LEMMA HeaderAtFront ==
  ASSUME NEW S \in Seq(FrameType), NEW H \in Seq(Seq(Nat \X Nat)), NEW st, NEW base \in Nat,
         Starts(S, st), Handled(S, H, st, base), Clean(S, st, base),
         NEW Q, Covers(S, st, Q, base), Len(Q) >= 1
  PROVE  /\ Len(H) \in Nat /\ Len(H) + 1 \in 1 .. Len(S) /\ base = st[Len(H) + 1]
         /\ Q[1][1] = Len(H) + 1 /\ Q[1][2] = 1
<1>1. Len(H) \in Nat /\ Len(S) \in Nat /\ Len(H) <= Len(S) /\ base = st[Len(H) + 1]
  <2>1. Len(H) \in Nat /\ Len(S) \in Nat
    OBVIOUS
  <2> QED
    BY <2>1, Zenon DEF Handled
<1>2. Len(H) + 1 \in 1 .. Len(S) + 1
  BY <1>1
<1>3. 1 \in 1 .. Len(Q)
  BY DEF Covers
<1>4. PICK j \in 1 .. Len(S) : j = Q[1][1]
  BY <1>3, Zenon DEF Covers
<1>5. PICK k \in 1 .. Size(S, j) : k = Q[1][2] /\ st[j] + k = st[Len(H) + 1] + 1
  BY <1>1, <1>3, <1>4, Zenon DEF Covers
<1>6. Len(H) + 1 = j /\ k = 1
  BY <1>2, <1>5, FirstByte, SMTT(30)
<1> QED
  BY <1>1, <1>4, <1>5, <1>6, Zenon

(***************************************************************************)
(* What was handled stays so when the client sends more.                   *)
(***************************************************************************)
LEMMA HandledGrow ==
  ASSUME NEW S \in Seq(FrameType), NEW f \in FrameType, NEW st, NEW st2, Starts(S, st),
         \A i \in 1 .. Len(S) + 1 : st2[i] = st[i],
         NEW H \in Seq(Seq(Nat \X Nat)), NEW base \in Nat, Handled(S, H, st, base)
  PROVE  Handled(Append(S, f), H, st2, base)
<1> DEFINE N == Len(S)
           T == Append(S, f)
<1>1. N \in Nat /\ Len(H) \in Nat /\ Len(T) = N + 1 /\ \A i \in 1 .. N : T[i] = S[i]
  OBVIOUS
<1>2. \A Q, p : Covers(S, st, Q, p) => Covers(T, st2, Q, p)
  BY CoversGrow
<1> HIDE DEF T
<1>3. \A i \in 1 .. N : Whole(T, i) = Whole(S, i)
  BY <1>1, Zenon DEF Whole, Size
<1>4. \A i \in 1 .. N : i \in 1 .. Len(T) /\ i \in 1 .. N + 1
  BY <1>1
<1>5. \A n \in 1 .. Len(H) : Piece(T, st2, H[n], base)
  BY <1>2, Zenon DEF Handled, Piece
<1>6. \A n \in 1 .. Len(H) : \A i \in 1 .. H[n][1][1] : i \in 1 .. N
  <2> SUFFICES ASSUME NEW n \in 1 .. Len(H), NEW i \in 1 .. H[n][1][1]
               PROVE  i \in 1 .. N
    BY Zenon
  <2>1. Piece(S, st, H[n], base)
    BY Zenon DEF Handled
  <2>2. H[n][1][1] \in 1 .. N
    BY <2>1, PieceEnds, Zenon
  <2> QED
    BY <1>1, <2>2, NumbersBelow, Zenon
<1>7. \A n \in 1 .. Len(H) :
        (\A i \in 1 .. H[n][1][1] : T[i].chksum) => n \in 1 .. Len(T) /\ H[n] = Whole(T, n)
  <2> SUFFICES ASSUME NEW n \in 1 .. Len(H), \A i \in 1 .. H[n][1][1] : T[i].chksum
               PROVE  n \in 1 .. Len(T) /\ H[n] = Whole(T, n)
    BY Zenon
  <2>1. \A i \in 1 .. H[n][1][1] : S[i].chksum
    BY <1>1, <1>6, Zenon
  <2>2. n \in 1 .. N /\ H[n] = Whole(S, n)
    BY <2>1, Zenon DEF Handled
  <2> QED
    BY <1>3, <1>4, <2>2, Zenon
<1>8. (\A i \in 1 .. Len(T) : T[i].inner = << >>) =>
        \A n \in 1 .. Len(H) : \E i \in 1 .. Len(T) : T[i].chksum /\ H[n] = Whole(T, i)
  <2> SUFFICES ASSUME \A i \in 1 .. Len(T) : T[i].inner = << >>, NEW n \in 1 .. Len(H)
               PROVE  \E i \in 1 .. Len(T) : T[i].chksum /\ H[n] = Whole(T, i)
    BY Zenon
  <2>1. \A i \in 1 .. N : S[i].inner = << >>
    BY <1>1, <1>4, Zenon
  <2>2. PICK i \in 1 .. N : S[i].chksum /\ H[n] = Whole(S, i)
    BY <2>1, Zenon DEF Handled
  <2> QED
    BY <1>1, <1>3, <1>4, <2>2, Zenon
<1>9. Clean(T, st2, base) =>
        /\ Len(H) <= Len(T) /\ base = st2[Len(H) + 1]
        /\ \A n \in 1 .. Len(H) : H[n] = Whole(T, n)
  <2> SUFFICES ASSUME Clean(T, st2, base)
               PROVE  /\ Len(H) <= Len(T) /\ base = st2[Len(H) + 1]
                      /\ \A n \in 1 .. Len(H) : H[n] = Whole(T, n)
    OBVIOUS
  <2>1. Clean(S, st, base)
    BY <1>1, <1>4, Zenon DEF Clean
  <2>2. /\ Len(H) <= N /\ base = st[Len(H) + 1]
        /\ \A n \in 1 .. Len(H) : H[n] = Whole(S, n)
    BY <2>1, Zenon DEF Handled
  <2>3. Len(H) <= Len(T) /\ Len(H) + 1 \in 1 .. N + 1 /\ \A n \in 1 .. Len(H) : n \in 1 .. N
    BY <1>1, <2>2
  <2> QED
    BY <1>3, <2>2, <2>3, Zenon
<1>10. \A n \in 2 .. Len(H) : Before(H[n - 1][Len(H[n - 1])], H[n][1])
  BY Zenon DEF Handled
<1>11. Handled(T, H, st2, base)
  BY <1>5, <1>7, <1>8, <1>9, <1>10, Zenon DEF Handled
<1> QED
  BY <1>11 DEF T

(***************************************************************************)
(* What was handled stays so when bytes are thrown away behind it, where   *)
(* there is a wrong checksum.                                              *)
(***************************************************************************)
LEMMA HandledSkip ==
  ASSUME NEW S \in Seq(FrameType), NEW H \in Seq(Seq(Nat \X Nat)), NEW st,
         NEW base \in Nat, NEW b2 \in Nat, base <= b2,
         Handled(S, H, st, base), ~Clean(S, st, b2)
  PROVE  Handled(S, H, st, b2)
<1>1. \A n \in 1 .. Len(H) : Piece(S, st, H[n], b2)
  <2> SUFFICES ASSUME NEW n \in 1 .. Len(H)
               PROVE  Piece(S, st, H[n], b2)
    BY Zenon
  <2>1. Piece(S, st, H[n], base)
    BY Zenon DEF Handled
  <2>2. PICK p \in Nat : Covers(S, st, H[n], p) /\ p + Len(H[n]) <= base
    BY <2>1, Zenon DEF Piece
  <2>3. Len(H[n]) \in Nat
    BY <2>1, PieceEnds, Zenon
  <2>4. p + Len(H[n]) <= b2
    BY <2>2, <2>3
  <2> QED
    BY <2>1, <2>2, <2>4, Zenon DEF Piece
<1> QED
  BY <1>1, Zenon DEF Handled

(***************************************************************************)
(* A piece that ends by base comes before one that begins there.           *)
(***************************************************************************)
LEMMA PieceBefore ==
  ASSUME NEW S \in Seq(FrameType), NEW st, Starts(S, st), NEW base \in Nat,
         NEW P, Piece(S, st, P, base), NEW Q, Covers(S, st, Q, base), Len(Q) >= 1
  PROVE  Before(P[Len(P)], Q[1])
<1>1. 1 \in 1 .. Len(Q)
  BY DEF Covers
<1> PICK i \in 1 .. Len(S) : i = Q[1][1]
  BY <1>1, Zenon DEF Covers
<1>2. PICK k \in 1 .. Size(S, i) : k = Q[1][2] /\ st[i] + k = base + 1
  BY <1>1, Zenon DEF Covers
<1> PICK j \in 1 .. Len(S) : j = P[Len(P)][1]
  BY PieceEnds, Zenon
<1>3. PICK l \in 1 .. Size(S, j) : l = P[Len(P)][2] /\ st[j] + l <= base
  BY PieceEnds, Zenon
<1>4. /\ st[i] \in Nat /\ st[j] \in Nat /\ Size(S, i) \in Nat /\ Size(S, j) \in Nat
      /\ i \in 1 .. Len(S) + 1 /\ j \in 1 .. Len(S) + 1
  <2>1. Len(S) \in Nat
    OBVIOUS
  <2>2. i \in 1 .. Len(S) + 1 /\ j \in 1 .. Len(S) + 1
    BY <2>1, NumbersBelow, Zenon
  <2> QED
    BY <2>2, FrameSizes, Zenon DEF Starts
<1>5. k \in Nat /\ l \in Nat
  BY <1>4
<1>6. st[j] + l < st[i] + k
  BY <1>2, <1>3, <1>4, <1>5, LaterSum, Zenon
<1>7. j < i \/ (j = i /\ l < k)
  BY <1>6, PlaceOrder, SMTT(30)
<1> QED
  BY <1>2, <1>3, <1>7, Zenon DEF Before

(***************************************************************************)
(* A piece popped at base.  If its header is that of a frame the piece is  *)
(* the frame; and before a wrong checksum it is the next frame.            *)
(***************************************************************************)
LEMMA HandledPop ==
  ASSUME NEW S \in Seq(FrameType), NEW H \in Seq(Seq(Nat \X Nat)), NEW st,
         NEW base \in Nat, NEW b2 \in Nat, NEW Q, Starts(S, st), Handled(S, H, st, base),
         Covers(S, st, Q, base), Len(Q) >= 1, b2 = base + Len(Q),
         Q[1][2] = 1 => S[Q[1][1]].chksum /\ Len(Q) = Size(S, Q[1][1]),
         Q[1][2] # 1 => Q[1][2] \in DOMAIN S[Q[1][1]].inner
  PROVE  Handled(S, Append(H, Q), st, b2)
<1> DEFINE h == Len(H)
           N == Len(S)
           G == Append(H, Q)
<1>1. h \in Nat /\ N \in Nat /\ Q \in Seq(Nat \X Nat) /\ Len(Q) \in Nat /\ 1 \in 1 .. Len(Q)
  <2>1. Q \in Seq(Nat \X Nat)
    BY Zenon DEF Covers
  <2> QED
    BY <2>1, SMTT(30)
<1>2. /\ Len(G) = h + 1 /\ G[h + 1] = Q
      /\ \A n \in 1 .. h : G[n] = H[n] /\ n \in 1 .. h + 1
  BY <1>1
<1>3. \A n \in 1 .. h + 1 : n \in 1 .. h \/ n = h + 1
  BY <1>1
<1> HIDE DEF G
<1> PICK i \in 1 .. N : i = Q[1][1]
  BY <1>1, Zenon DEF Covers
<1>4. PICK k \in 1 .. Size(S, i) : k = Q[1][2] /\ st[i] + k = base + 1
  BY <1>1, Zenon DEF Covers
<1>5. /\ Size(S, i) \in Nat /\ st[i] \in Nat /\ i \in 1 .. N + 1
      /\ \A j \in 1 .. N : st[j] \in Nat
      /\ \A j \in 1 .. N : i < j => st[i] + Size(S, i) <= st[j]
  <2>1. i \in 1 .. N + 1 /\ \A j \in 1 .. N : j \in 1 .. N + 1 /\ (i < j => j \in i + 1 .. N + 1)
    BY <1>1, NumbersBelow, Zenon
  <2> QED
    BY <2>1, FrameSizes, Zenon DEF Starts
<1>6. k = 1 => base = st[i] /\ S[i].chksum /\ Q = Whole(S, i)
  <2> SUFFICES ASSUME k = 1
               PROVE  base = st[i] /\ S[i].chksum /\ Q = Whole(S, i)
    BY SMTT(30)
  <2>1. base = st[i]
    BY <1>4, <1>5, SMTT(30)
  <2>2. S[i].chksum /\ Len(Q) = Size(S, i)
    BY <1>4, Zenon
  <2>3. Covers(S, st, Q, st[i])
    BY <2>1, Zenon
  <2> QED
    BY <2>1, <2>2, <2>3, WholeFrame, Zenon
<1>7. Clean(S, st, base) => h + 1 = i /\ k = 1
  BY <1>4, HeaderAtFront, SMTT(30)
<1>8. ASSUME NEW n \in 1 .. h
      PROVE  Piece(S, st, H[n], base) /\ Piece(S, st, H[n], b2)
  <2>1. Piece(S, st, H[n], base)
    BY Zenon DEF Handled
  <2>2. PICK p \in Nat : Covers(S, st, H[n], p) /\ p + Len(H[n]) <= base
    BY <2>1, Zenon DEF Piece
  <2>3. Len(H[n]) \in Nat
    BY <2>1, PieceEnds, Zenon
  <2>4. p + Len(H[n]) <= b2
    <3>1. PICK l \in Nat : l = Len(H[n]) /\ p + l <= base
      BY <2>2, <2>3, Zenon
    <3>2. base <= b2
      BY <1>1
    <3>3. p + l <= b2
      BY <3>1, <3>2
    <3> QED
      BY <3>1, <3>3, Zenon
  <2> QED
    BY <2>1, <2>2, <2>4, Zenon DEF Piece
<1>9. \A n \in 1 .. Len(G) : Piece(S, st, G[n], b2)
  <2>1. base + Len(Q) <= b2
    BY <1>1
  <2>2. Piece(S, st, Q, b2)
    BY <2>1, Zenon DEF Piece
  <2> QED
    BY <1>2, <1>3, <1>8, <2>2, Zenon
<1>10. \A n \in 1 .. Len(G) :
         (\A j \in 1 .. G[n][1][1] : S[j].chksum) => n \in 1 .. N /\ G[n] = Whole(S, n)
  <2>1. ASSUME NEW n \in 1 .. h, \A j \in 1 .. H[n][1][1] : S[j].chksum
        PROVE  n \in 1 .. N /\ H[n] = Whole(S, n)
    BY <2>1, Zenon DEF Handled
  <2>2. ASSUME \A j \in 1 .. i : S[j].chksum
        PROVE  h + 1 \in 1 .. N /\ Q = Whole(S, h + 1)
    <3>1. ASSUME NEW j \in 1 .. N, ~S[j].chksum
          PROVE  base <= st[j]
      <4>1. i < j
        <5>1. ~(j \in 1 .. i)
          BY <2>2, <3>1, Zenon
        <5> QED
          BY <1>1, <5>1, SMTT(30)
      <4>2. st[i] + Size(S, i) <= st[j] /\ st[j] \in Nat
        BY <1>5, <4>1, Zenon
      <4>3. k <= Size(S, i) /\ k \in Nat
        BY <1>5
      <4>4. base <= st[i] + Size(S, i) /\ st[i] + Size(S, i) \in Nat
        BY <1>4, <1>5, <4>3, FirstPart, Zenon
      <4> QED
        BY <4>2, <4>4, AtMost, Zenon
    <3>2. Clean(S, st, base)
      BY <3>1, Zenon DEF Clean
    <3> QED
      BY <1>6, <1>7, <3>2, Zenon
  <2> QED
    BY <1>2, <1>3, <1>4, <2>1, <2>2, Zenon
<1>11. \A n \in 2 .. Len(G) : Before(G[n - 1][Len(G[n - 1])], G[n][1])
  <2> SUFFICES ASSUME NEW n \in 2 .. h + 1
               PROVE  Before(G[n - 1][Len(G[n - 1])], G[n][1])
    BY <1>2, Zenon
  <2>1. n - 1 \in 1 .. h /\ (n \in 2 .. h \/ n = h + 1) /\ n \in 1 .. h + 1
        /\ (n \in 2 .. h => n \in 1 .. h)
    BY <1>1
  <2>2. G[n - 1] = H[n - 1]
    BY <1>2, <2>1, Zenon
  <2>3. CASE n \in 2 .. h
    <3>1. G[n] = H[n]
      BY <1>2, <2>1, <2>3, Zenon
    <3> QED
      BY <2>2, <2>3, <3>1, Zenon DEF Handled
  <2>4. CASE n = h + 1
    <3>1. G[n] = Q
      BY <1>2, <2>4, Zenon
    <3>2. PICK P : P = H[n - 1]
      BY Zenon
    <3>3. Piece(S, st, P, base)
      BY <1>8, <2>1, <3>2, Zenon
    <3>4. Before(P[Len(P)], Q[1])
      BY <3>3, PieceBefore, Zenon
    <3> QED
      BY <2>2, <3>1, <3>2, <3>4, Zenon
  <2> QED
    BY <2>1, <2>3, <2>4, Zenon
<1>12. (\A j \in 1 .. N : S[j].inner = << >>) =>
         \A n \in 1 .. Len(G) : \E j \in 1 .. N : S[j].chksum /\ G[n] = Whole(S, j)
  <2> SUFFICES ASSUME \A j \in 1 .. N : S[j].inner = << >>
               PROVE  \A n \in 1 .. Len(G) : \E j \in 1 .. N : S[j].chksum /\ G[n] = Whole(S, j)
    OBVIOUS
  <2>1. k = 1
    <3>1. S[i].inner = << >> /\ (k # 1 => k \in DOMAIN S[i].inner)
      BY <1>4, Zenon
    <3>2. DOMAIN << >> = {}
      OBVIOUS
    <3> QED
      BY <3>1, <3>2, Zenon
  <2>2. \A n \in 1 .. h : \E j \in 1 .. N : S[j].chksum /\ H[n] = Whole(S, j)
    BY Zenon DEF Handled
  <2> QED
    BY <1>2, <1>3, <1>6, <2>1, <2>2, Zenon
<1>13. Clean(S, st, b2) =>
         Len(G) <= N /\ b2 = st[Len(G) + 1] /\ \A n \in 1 .. Len(G) : G[n] = Whole(S, n)
  <2> SUFFICES ASSUME Clean(S, st, b2)
               PROVE  Len(G) <= N /\ b2 = st[Len(G) + 1] /\ \A n \in 1 .. Len(G) : G[n] = Whole(S, n)
    OBVIOUS
  <2>1. Clean(S, st, base)
    <3>0. base <= b2
      BY <1>1
    <3>1. ASSUME NEW j \in 1 .. N, b2 <= st[j]
          PROVE  base <= st[j]
      BY <1>5, <3>0, <3>1, AtMost, Zenon
    <3> QED
      BY <3>1, Zenon DEF Clean
  <2>2. h + 1 = i /\ k = 1 /\ Q = Whole(S, i) /\ base = st[i]
    BY <1>6, <1>7, <2>1, Zenon
  <2>3. \A n \in 1 .. h : H[n] = Whole(S, n)
    BY <2>1, Zenon DEF Handled
  <2>4. b2 = st[i + 1]
    <3>1. Len(Q) = Size(S, i)
      BY <1>4, <2>2, Zenon
    <3>2. st[i + 1] = st[i] + Size(S, i)
      BY Zenon DEF Starts
    <3> QED
      BY <2>2, <3>1, <3>2, Zenon
  <2>5. h + 1 <= N
    BY <1>1, <2>2
  <2> QED
    BY <1>2, <1>3, <2>2, <2>3, <2>4, <2>5, Zenon
<1>14. Handled(S, G, st, b2)
  BY <1>9, <1>10, <1>11, <1>12, <1>13, Zenon DEF Handled
<1> QED
  BY <1>14 DEF G

(***************************************************************************)
(* A step that neither sends, receives nor handles a byte.                 *)
(***************************************************************************)
LEMMA SameInput ==
  ASSUME Framing, UNCHANGED input
  PROVE  /\ Framing' /\ Len(handled') = Len(handled)
         /\ NothingLeft /\ (LeftLoop' => LeftLoop) => NothingLeft'
<1>1. sent' = sent /\ wire' = wire /\ buf_' = buf_ /\ handled' = handled
  BY DEF input
<1>2. PICK st, base : Stream(st, base) /\ Handled(sent, handled, st, base)
  BY Zenon DEF Framing
<1>3. Stream(st, base)'
  BY <1>1, <1>2, Zenon DEF Stream
<1>4. NoneBad' = NoneBad /\ LastRefused' = LastRefused
  BY <1>1, Zenon DEF NoneBad, LastRefused, Decoded
<1>5. Handled(sent', handled', st, base)
  BY <1>1, <1>2, Zenon
<1>6. NothingLeft /\ (LeftLoop' => LeftLoop) => NothingLeft'
  BY <1>1, <1>4, Zenon DEF NothingLeft, FrameLen
<1> QED
  BY <1>1, <1>3, <1>5, <1>6, Zenon DEF Framing

(***************************************************************************)
(* The client sends a frame.                                               *)
(***************************************************************************)
LEMMA ClientSendsStep ==
  ASSUME SessionInv, NEW f \in FrameType, ClientSends(f)
  PROVE  SessionInv'
<1> DEFINE N == Len(sent)
           z == kWireHeaderSize + f.length
           F == [k \in 1 .. z |-> <<N + 1, k>>]
<1>1. Types /\ Framing /\ NothingLeft /\ InterestMatches
  BY Zenon DEF SessionInv
<1>2. /\ N < MaxFrames /\ sent' = Append(sent, f) /\ wire' = wire \o F
      /\ buf_' = buf_ /\ handled' = handled /\ at' = at /\ back' = back
      /\ outbuf' = outbuf /\ room' = room /\ want_write' = want_write /\ sends' = sends
  BY DEF ClientSends, output
<1>3. sent \in Seq(FrameType) /\ N \in Nat /\ MaxFrames \in Nat
  BY <1>1, SessionIOAssumption DEF Types
<1>4. /\ sent' \in Seq(FrameType) /\ Len(sent') = N + 1
      /\ (\A i \in 1 .. N : sent'[i] = sent[i]) /\ sent'[N + 1] = f
  BY <1>2, <1>3
<1>5. Types'
  BY <1>1, <1>2, <1>3, <1>4 DEF Types
<1>6. PICK st, base : Stream(st, base) /\ Handled(sent, handled, st, base)
  BY <1>1, Zenon DEF Framing
<1>7. /\ Starts(sent, st) /\ base \in Nat
      /\ Covers(sent, st, buf_, base) /\ Covers(sent, st, wire, base + Len(buf_))
      /\ base + Len(buf_) + Len(wire) = st[N + 1]
  BY <1>6, Zenon DEF Stream
<1>8. PICK st2 : /\ Starts(sent', st2)
                 /\ \A i \in 1 .. N + 1 : st2[i] = st[i]
                 /\ st2[N + 2] = st[N + 1] + z
  BY <1>2, <1>3, <1>7, StartsGrow, SMTT(30)
<1>9. /\ Covers(sent', st2, buf_, base) /\ Covers(sent', st2, wire, base + Len(buf_))
      /\ Covers(sent', st2, F, st[N + 1]) /\ Len(F) = z
  BY <1>2, <1>3, <1>7, <1>8, CoversGrow, ZenonT(40)
<1>10. z \in Nat /\ z >= 1 /\ Len(buf_) \in Nat /\ Len(wire) \in Nat
  BY <1>7, FrameSize DEF Covers
<1> HIDE DEF F, z
<1>11. Stream(st2, base)'
  <2>1. base + Len(buf_) \in Nat /\ (base + Len(buf_)) + Len(wire) = st[N + 1]
    BY <1>7, <1>10
  <2>2. Covers(sent', st2, wire \o F, base + Len(buf_)) /\ Len(wire \o F) = Len(wire) + Len(F)
    BY <1>9, <2>1, CoversJoin
  <2>3. base + Len(buf_) + Len(wire') = st2[N + 2] /\ Len(sent') + 1 = N + 2
    BY <1>2, <1>3, <1>4, <1>7, <1>8, <1>9, <1>10, <2>2, SMTT(30)
  <2> QED
    BY <1>2, <1>7, <1>8, <1>9, <2>2, <2>3, Zenon DEF Stream
<1>12. handled \in Seq(Seq(Nat \X Nat)) /\ Len(handled) \in Nat
       /\ (handled # << >> => handled[Len(handled)][1][1] \in 1 .. N)
  <2>1. handled \in Seq(Seq(Nat \X Nat))
    BY <1>1, Zenon DEF Types
  <2>2. Len(handled) \in Nat /\ (handled # << >> => Len(handled) \in 1 .. Len(handled))
    BY <2>1
  <2>3. handled # << >> => Piece(sent, st, handled[Len(handled)], base)
    BY <1>6, <2>2, Zenon DEF Handled
  <2> QED
    BY <1>7, <2>1, <2>2, <2>3, PieceEnds, Zenon
<1>13. NoneBad' => NoneBad /\ Len(handled) <= N /\ base = st[Len(handled) + 1]
  <2> SUFFICES ASSUME NoneBad'
               PROVE  NoneBad /\ Len(handled) <= N /\ base = st[Len(handled) + 1]
    OBVIOUS
  <2>1. NoneBad
    BY <1>3, <1>4 DEF NoneBad
  <2>2. Clean(sent, st, base)
    BY <2>1, Zenon DEF NoneBad, Clean
  <2> QED
    BY <1>6, <2>1, <2>2, Zenon DEF Handled
<1>14. Handled(sent', handled', st2, base)
  <2>1. Handled(Append(sent, f), handled, st2, base)
    BY <1>3, <1>6, <1>7, <1>8, <1>12, HandledGrow
  <2> QED
    BY <1>2, <2>1, Zenon
<1>15. NothingLeft'
  <2> SUFFICES ASSUME NoneBad', ~LastRefused', LeftLoop', Len(handled) < N + 1
               PROVE  Len(buf_) < FrameLen(Len(handled) + 1)'
    BY <1>2, <1>4, Zenon DEF NothingLeft
  <2>1. CASE Len(handled) < N
    <3>1. ~LastRefused /\ LeftLoop
      BY <1>2, <1>4, <1>12, Zenon DEF LastRefused, Decoded, LeftLoop
    <3>2. FrameLen(Len(handled) + 1)' = FrameLen(Len(handled) + 1)
      BY <1>2, <1>3, <1>4, <1>12, <2>1 DEF FrameLen
    <3> QED
      BY <1>1, <1>13, <2>1, <3>1, <3>2, Zenon DEF NothingLeft
  <2>2. CASE Len(handled) = N
    <3>1. base = st[N + 1]
      BY <1>13, <2>2, Zenon
    <3>2. Len(buf_) = 0
      BY <1>7, <1>10, <3>1
    <3>3. FrameLen(Len(handled) + 1)' = z
      BY <1>2, <1>4, <2>2, Zenon DEF FrameLen, z
    <3> QED
      BY <1>10, <3>2, <3>3
  <2> QED
    BY <1>3, <1>12, <1>13, <2>1, <2>2
<1>16. InterestMatches'
  BY <1>1, <1>2, Zenon DEF InterestMatches
<1> QED
  BY <1>5, <1>11, <1>14, <1>15, <1>16, Zenon DEF SessionInv, Framing

(***************************************************************************)
(* recv moves what it returns to the end of the buffer.                    *)
(***************************************************************************)
LEMMA RecvStep ==
  ASSUME SessionInv, Recv
  PROVE  SessionInv'
<1>1. Types /\ Framing /\ NothingLeft /\ InterestMatches
  BY Zenon DEF SessionInv
<1>2. PICK n \in 1 .. Len(wire) :
        buf_' = buf_ \o SubSeq(wire, 1, n) /\ wire' = SubSeq(wire, n + 1, Len(wire))
  BY ZenonT(40) DEF Recv
<1>3. /\ at = "recv" /\ at' = "pop" /\ sent' = sent /\ handled' = handled /\ back' = back
      /\ outbuf' = outbuf /\ room' = room /\ want_write' = want_write /\ sends' = sends
  BY DEF Recv, output
<1>4. PICK st, base : Stream(st, base) /\ Handled(sent, handled, st, base)
  BY <1>1, Zenon DEF Framing
<1>5. /\ Starts(sent, st) /\ base \in Nat
      /\ Covers(sent, st, buf_, base) /\ Covers(sent, st, wire, base + Len(buf_))
      /\ base + Len(buf_) + Len(wire) = st[Len(sent) + 1]
  BY <1>4, Zenon DEF Stream
<1>6. Len(buf_) \in Nat /\ Len(wire) \in Nat /\ n \in 0 .. Len(wire) /\ base + Len(buf_) \in Nat
  BY <1>5, SMTT(30) DEF Covers
<1> DEFINE A == SubSeq(wire, 1, n)
           B == SubSeq(wire, n + 1, Len(wire))
<1>7. /\ Covers(sent, st, A, base + Len(buf_)) /\ Len(A) = n
      /\ Covers(sent, st, B, base + Len(buf_) + n) /\ Len(B) = Len(wire) - n
  BY <1>5, <1>6, CoversCut
<1> HIDE DEF A, B
<1>8. Covers(sent, st, buf_ \o A, base) /\ Len(buf_ \o A) = Len(buf_) + n
  BY <1>5, <1>7, CoversJoin
<1>9. Stream(st, base)'
  <2>1. buf_' = buf_ \o A /\ wire' = B
    BY <1>2, Zenon DEF A, B
  <2>2. Len(buf_') = Len(buf_) + n /\ Len(wire') = Len(wire) - n
    BY <1>7, <1>8, <2>1, Zenon
  <2>3. /\ base + Len(buf_') = base + Len(buf_) + n
        /\ base + Len(buf_') + Len(wire') = st[Len(sent) + 1]
    BY <1>5, <1>6, <2>2
  <2> QED
    BY <1>3, <1>5, <1>7, <1>8, <2>1, <2>3, Zenon DEF Stream
<1>10. Handled(sent', handled', st, base)
  BY <1>3, <1>4, Zenon
<1>11. NothingLeft'
  BY <1>3 DEF NothingLeft, LeftLoop
<1>12. Types' /\ InterestMatches'
  BY <1>1, <1>3, Zenon DEF Types, InterestMatches
<1> QED
  BY <1>9, <1>10, <1>11, <1>12, Zenon DEF SessionInv, Framing

(***************************************************************************)
(* The frames sent and what was handled of them.                           *)
(***************************************************************************)
LEMMA InputTypes ==
  ASSUME Types, NEW st, NEW base, Stream(st, base)
  PROVE  /\ sent \in Seq(FrameType) /\ handled \in Seq(Seq(Nat \X Nat)) /\ Len(handled) \in Nat
         /\ Starts(sent, st) /\ base \in Nat /\ Covers(sent, st, buf_, base)
         /\ Len(sent) \in Nat /\ (NoneBad => Clean(sent, st, base))
<1>1. /\ sent \in Seq(FrameType) /\ handled \in Seq(Seq(Nat \X Nat))
      /\ Starts(sent, st) /\ base \in Nat /\ Covers(sent, st, buf_, base)
  BY Zenon DEF Types, Stream
<1>2. Len(sent) \in Nat /\ Len(handled) \in Nat
  BY <1>1
<1>3. NoneBad => Clean(sent, st, base)
  BY Zenon DEF NoneBad, Clean
<1> QED
  BY <1>1, <1>2, <1>3, Zenon

(***************************************************************************)
(* TryPopFrame clears the buffer: only where a checksum is or was wrong.   *)
(***************************************************************************)
LEMMA PopClearsStep ==
  ASSUME SessionInv, PopClears
  PROVE  SessionInv'
<1>1. Types /\ Framing /\ NothingLeft /\ InterestMatches
  BY Zenon DEF SessionInv
<1>2. /\ at = "pop" /\ HasHeader /\ ~HeaderValid /\ buf_' = << >> /\ at' = "recv"
      /\ sent' = sent /\ wire' = wire /\ handled' = handled /\ back' = back
      /\ outbuf' = outbuf /\ room' = room /\ want_write' = want_write /\ sends' = sends
  BY Zenon DEF PopClears, output
<1>3. PICK st, base : Stream(st, base) /\ Handled(sent, handled, st, base)
  BY <1>1, Zenon DEF Framing
<1>4. /\ Starts(sent, st) /\ base \in Nat
      /\ Covers(sent, st, buf_, base) /\ Covers(sent, st, wire, base + Len(buf_))
      /\ base + Len(buf_) + Len(wire) = st[Len(sent) + 1]
  BY <1>3, Zenon DEF Stream
<1>5. Len(buf_) \in Nat /\ Len(buf_) >= 1 /\ Len(wire) \in Nat
  BY <1>2, <1>4, SessionIOAssumption, SMTT(30) DEF Covers, HasHeader
<1>6. Clean(sent, st, base) =>
        /\ Len(handled) + 1 \in 1 .. Len(sent) /\ ~sent[Len(handled) + 1].chksum
        /\ base = st[Len(handled) + 1]
  <2> SUFFICES ASSUME Clean(sent, st, base)
               PROVE  /\ Len(handled) + 1 \in 1 .. Len(sent) /\ ~sent[Len(handled) + 1].chksum
                      /\ base = st[Len(handled) + 1]
    OBVIOUS
  <2>1. sent \in Seq(FrameType) /\ handled \in Seq(Seq(Nat \X Nat))
    BY <1>1, <1>3, InputTypes, Zenon
  <2>2. /\ Len(handled) + 1 \in 1 .. Len(sent) /\ base = st[Len(handled) + 1]
        /\ buf_[1][1] = Len(handled) + 1 /\ buf_[1][2] = 1
    BY <1>3, <1>4, <1>5, <2>1, HeaderAtFront, SMTT(30)
  <2> QED
    BY <1>2, <2>2, Zenon DEF HeaderValid
<1>7. PICK b2 \in Nat : b2 = base + Len(buf_) /\ base <= b2 /\ ~(b2 <= base)
  BY <1>4, <1>5
<1>8. Stream(st, b2)'
  <2>1. Covers(sent, st, << >>, b2) /\ Len(<< >>) = 0
    BY DEF Covers
  <2>2. b2 + Len(<< >>) = b2 /\ b2 + Len(<< >>) + Len(wire) = st[Len(sent) + 1]
    BY <1>4, <1>5, <1>7, <2>1
  <2> QED
    BY <1>2, <1>4, <1>7, <2>1, <2>2, Zenon DEF Stream
<1>9. Handled(sent', handled', st, b2)
  <2>1. ~Clean(sent, st, b2)
    <3> SUFFICES ASSUME Clean(sent, st, b2)
                 PROVE  FALSE
      OBVIOUS
    <3>1. Clean(sent, st, base)
      <4>1. ASSUME NEW i \in 1 .. Len(sent), b2 <= st[i]
            PROVE  base <= st[i]
        <5>1. i \in 1 .. Len(sent) + 1
          BY <1>1 DEF Types
        <5>2. st[i] \in Nat
          BY <1>4, <5>1, Zenon DEF Starts
        <5> QED
          BY <1>4, <1>7, <4>1, <5>2
      <4> QED
        BY <4>1, Zenon DEF Clean
    <3> QED
      BY <1>6, <1>7, <3>1, Zenon DEF Clean
  <2>2. sent \in Seq(FrameType) /\ handled \in Seq(Seq(Nat \X Nat))
    BY <1>1, <1>3, InputTypes, Zenon
  <2>3. Handled(sent, handled, st, b2)
    BY <1>3, <1>4, <1>7, <2>1, <2>2, HandledSkip, Zenon
  <2> QED
    BY <1>2, <2>3, Zenon
<1>10. NothingLeft'
  <2>1. ~NoneBad
    BY <1>1, <1>3, <1>6, InputTypes, Zenon DEF NoneBad
  <2> QED
    BY <1>2, <2>1 DEF NothingLeft, NoneBad
<1>11. Types' /\ InterestMatches'
  BY <1>1, <1>2 DEF Types, InterestMatches
<1> QED
  BY <1>8, <1>9, <1>10, <1>11, Zenon DEF SessionInv, Framing

(***************************************************************************)
(* A header that decodes has a length.                                     *)
(***************************************************************************)
LEMMA PieceSize ==
  ASSUME Types, NEW st, NEW base, Stream(st, base), FrameComplete
  PROVE  /\ 1 \in 1 .. Len(buf_) /\ PieceLen \in Nat /\ 1 <= PieceLen /\ PieceLen \in 0 .. Len(buf_)
         /\ buf_[1][2] = 1 => sent[buf_[1][1]].chksum /\ PieceLen = Size(sent, buf_[1][1])
         /\ buf_[1][2] # 1 => buf_[1][2] \in DOMAIN sent[buf_[1][1]].inner
<1>1. /\ sent \in Seq(FrameType) /\ Covers(sent, st, buf_, base) /\ Len(buf_) \in Nat
      /\ kWireHeaderSize \in Nat /\ kWireHeaderSize >= 1
  <2>1. kWireHeaderSize \in Nat /\ kWireHeaderSize >= 1
    BY SessionIOAssumption
  <2> QED
    BY <2>1, InputTypes, StreamLengths, Zenon
<1>2. Len(buf_) >= kWireHeaderSize /\ HeaderValid /\ Len(buf_) >= PieceLen
  BY Zenon DEF FrameComplete, HasHeader
<1>3. 1 \in 1 .. Len(buf_)
  BY <1>1, <1>2
<1>4. PICK f \in FrameType : f = sent[buf_[1][1]]
  <2>1. buf_[1][1] \in 1 .. Len(sent)
    BY <1>1, <1>3, Zenon DEF Covers
  <2>2. \A i \in 1 .. Len(sent) : sent[i] \in FrameType
    BY <1>1
  <2> QED
    BY <2>1, <2>2, Zenon
<1>5. /\ buf_[1][2] = 1 => f.chksum /\ Decoded(buf_[1]) = f
      /\ buf_[1][2] # 1 => /\ buf_[1][2] \in DOMAIN f.inner
                           /\ Decoded(buf_[1]) = f.inner[buf_[1][2]]
  BY <1>2, <1>4, Zenon DEF HeaderValid, Decoded
<1>6. f.length \in Nat /\ f.inner \in Inner
  BY SessionIOAssumption, ZenonT(40) DEF FrameType
<1>7. Decoded(buf_[1]).length \in Nat
  BY <1>5, <1>6, SessionIOAssumption, Zenon
<1>8. PieceLen = kWireHeaderSize + Decoded(buf_[1]).length
  BY DEF PieceLen
<1>9. PieceLen \in Nat /\ 1 <= PieceLen /\ PieceLen \in 0 .. Len(buf_)
  BY <1>1, <1>2, <1>7, <1>8
<1> QED
  BY <1>3, <1>4, <1>5, <1>8, <1>9, Zenon DEF Size

(***************************************************************************)
(* TryPopFrame returns the piece at the front.                             *)
(***************************************************************************)
LEMMA PopFrameFrames ==
  ASSUME Types, Framing, FrameComplete, sent' = sent, wire' = wire,
         buf_' = SubSeq(buf_, PieceLen + 1, Len(buf_)),
         handled' = Append(handled, SubSeq(buf_, 1, PieceLen))
  PROVE  /\ Framing' /\ SubSeq(buf_, 1, PieceLen) \in Seq(Nat \X Nat)
         /\ SubSeq(buf_, 1, PieceLen)[1] = buf_[1]
<1>1. PICK st, base : Stream(st, base) /\ Handled(sent, handled, st, base)
  BY Zenon DEF Framing
<1>2. /\ Starts(sent, st) /\ base \in Nat
      /\ Covers(sent, st, buf_, base) /\ Covers(sent, st, wire, base + Len(buf_))
      /\ base + Len(buf_) + Len(wire) = st[Len(sent) + 1]
  BY <1>1, ZenonT(40) DEF Stream
<1>3. PICK c \in 0 .. Len(buf_) :
        /\ c = PieceLen /\ c \in Nat /\ 1 <= c
        /\ buf_[1][2] = 1 => sent[buf_[1][1]].chksum /\ c = Size(sent, buf_[1][1])
        /\ buf_[1][2] # 1 => buf_[1][2] \in DOMAIN sent[buf_[1][1]].inner
  BY <1>1, PieceSize, Zenon
<1> DEFINE Q == SubSeq(buf_, 1, c)
           R == SubSeq(buf_, c + 1, Len(buf_))
<1>4. /\ Covers(sent, st, Q, base) /\ Len(Q) = c
      /\ Covers(sent, st, R, base + c) /\ Len(R) = Len(buf_) - c
  BY <1>2, CoversCut
<1>5. buf_' = R /\ handled' = Append(handled, Q)
  BY <1>3, Zenon
<1>6. Q[1] = buf_[1] /\ Q \in Seq(Nat \X Nat)
  <2>1. buf_ \in Seq(Nat \X Nat)
    BY <1>2, Zenon DEF Covers
  <2> QED
    BY <1>3, <2>1
<1>7. PICK b2 \in Nat : b2 = base + c
  BY <1>2, <1>3
<1> HIDE DEF Q, R
<1>8. Stream(st, b2)'
  <2>1. b2 + Len(R) = base + Len(buf_)
    <3>1. Len(buf_) \in Nat
      BY <1>1, StreamLengths, Zenon
    <3> QED
      BY <1>2, <1>3, <1>4, <1>7, <3>1, SMTT(30)
  <2> QED
    BY <1>2, <1>4, <1>5, <1>7, <2>1, Zenon DEF Stream
<1>9. Handled(sent', handled', st, b2)
  <2>1. sent \in Seq(FrameType) /\ handled \in Seq(Seq(Nat \X Nat))
    BY <1>1, InputTypes, Zenon
  <2>2. Len(Q) >= 1
    BY <1>3, <1>4
  <2>3. Handled(sent, Append(handled, Q), st, b2)
    BY <1>1, <1>2, <1>3, <1>4, <1>6, <1>7, <2>1, <2>2, HandledPop, Zenon
  <2> QED
    BY <1>5, <2>3, Zenon
<1> QED
  BY <1>3, <1>6, <1>8, <1>9, Zenon DEF Framing, Q

(***************************************************************************)
(* Room in outbuf for one answer more.                                     *)
(***************************************************************************)
LEMMA OneAnswerMore ==
  ASSUME NEW m \in Nat
  PROVE  AckSize * m \in Nat /\ AckSize * (m + 1) = AckSize * m + AckSize
BY SessionIOAssumption

(***************************************************************************)
(* HandleReadable takes a whole frame and goes on in the loop, unless      *)
(* HandleSystem refuses the frame.                                         *)
(***************************************************************************)
LEMMA PopFrameStep ==
  ASSUME SessionInv, PopFrame
  PROVE  SessionInv'
<1>1. Types /\ Framing /\ NothingLeft /\ InterestMatches
  BY Zenon DEF SessionInv
<1>2. /\ at = "pop" /\ FrameComplete
      /\ buf_' = SubSeq(buf_, PieceLen + 1, Len(buf_))
      /\ handled' = Append(handled, SubSeq(buf_, 1, PieceLen))
      /\ sent' = sent /\ wire' = wire /\ sends' = sends /\ room' = room
  BY Zenon DEF PopFrame, SendBytes
<1>3. Framing'
  BY <1>1, <1>2, PopFrameFrames, Zenon
<1>4. PICK Q \in Seq(Nat \X Nat) : Q = SubSeq(buf_, 1, PieceLen) /\ Q[1] = buf_[1]
  BY <1>1, <1>2, PopFrameFrames, Zenon
<1>5. /\ handled' = Append(handled, Q)
      /\ \/ /\ outbuf' = outbuf + AckSize /\ want_write' = TRUE
            /\ at' = "write" /\ back' = "pop"
         \/ /\ at' = IF Decoded(Q[1]).kind = "refused" THEN "wait" ELSE "pop"
            /\ back' = back /\ outbuf' = outbuf /\ want_write' = want_write
  BY <1>2, <1>4, Zenon DEF PopFrame, SendBytes, AfterInbound
<1>6. /\ Len(handled) \in Nat /\ Len(handled') = Len(handled) + 1
      /\ handled' \in Seq(Seq(Nat \X Nat)) /\ handled'[Len(handled')] = Q /\ handled' # << >>
  <2>1. handled \in Seq(Seq(Nat \X Nat))
    BY <1>1, Zenon DEF Types
  <2>2. /\ Len(Append(handled, Q)) = Len(handled) + 1 /\ Append(handled, Q) # << >>
        /\ Append(handled, Q) \in Seq(Seq(Nat \X Nat))
        /\ Append(handled, Q)[Len(Append(handled, Q))] = Q /\ Len(handled) \in Nat
    BY <2>1, OneMore, SMTT(30)
  <2> QED
    BY <1>5, <2>2, Zenon
<1>7. outbuf' \in Nat /\ outbuf' <= AckSize * (Len(handled') + sends)
  <2>1. PICK m \in Nat : m = Len(handled) + sends
    BY <1>1, <1>6 DEF Types
  <2>2. Len(handled') + sends = m + 1
    BY <1>1, <1>6, <2>1 DEF Types
  <2>3. outbuf \in Nat /\ outbuf <= AckSize * m
    BY <1>1, <2>1 DEF Types
  <2>4. AckSize * m \in Nat /\ AckSize * (m + 1) = AckSize * m + AckSize /\ AckSize \in Nat
    BY OneAnswerMore, SessionIOAssumption
  <2>5. outbuf' = outbuf \/ outbuf' = outbuf + AckSize
    BY <1>5, Zenon
  <2>6. outbuf' \in Nat /\ outbuf' <= AckSize * m + AckSize
    BY <2>3, <2>4, <2>5
  <2> QED
    BY <2>2, <2>4, <2>6, Zenon
<1>8. Types'
  BY <1>1, <1>2, <1>5, <1>6, <1>7, ZenonT(40) DEF Types
<1>9. NothingLeft'
  <2>1. LeftLoop' => Decoded(Q[1]).kind = "refused"
    BY <1>5 DEF LeftLoop
  <2>2. Decoded(Q[1]).kind = "refused" => LastRefused'
    BY <1>2, <1>6, Zenon DEF LastRefused, Decoded
  <2> QED
    BY <2>1, <2>2, SMTT(30) DEF NothingLeft
<1>10. InterestMatches'
  BY <1>1, <1>2, <1>5, Zenon DEF InterestMatches
<1> QED
  BY <1>3, <1>8, <1>9, <1>10, Zenon DEF SessionInv

(***************************************************************************)
(* TryPopFrame finds no whole frame: none is left.                         *)
(***************************************************************************)
LEMMA PopNothingStep ==
  ASSUME SessionInv, PopNothing
  PROVE  SessionInv'
<1>1. Types /\ Framing /\ NothingLeft /\ InterestMatches
  BY Zenon DEF SessionInv
<1>2. /\ at = "pop" /\ ~FrameComplete /\ at' = "recv" /\ UNCHANGED input
      /\ sent' = sent /\ handled' = handled /\ buf_' = buf_ /\ back' = back
      /\ outbuf' = outbuf /\ room' = room /\ want_write' = want_write /\ sends' = sends
  BY DEF PopNothing, output, input
<1>3. Framing'
  BY <1>1, <1>2, SameInput
<1>4. NothingLeft'
  <2> SUFFICES ASSUME NoneBad', Len(handled) < Len(sent)
               PROVE  Len(buf_) < FrameLen(Len(handled) + 1)
    BY <1>2, Zenon DEF NothingLeft, FrameLen
  <2>1. NoneBad
    BY <1>2 DEF NoneBad
  <2>2. PICK st, base : Stream(st, base) /\ Handled(sent, handled, st, base)
    BY <1>1, ZenonT(40) DEF Framing
  <2>3. Len(buf_) \in Nat
    BY <2>2, StreamLengths, Zenon
  <2>4. PICK l \in Nat : l = sent[Len(handled) + 1].length
    <3>1. sent \in Seq(FrameType) /\ Len(handled) \in Nat
      BY <1>1 DEF Types
    <3>2. sent[Len(handled) + 1] \in FrameType
      BY <3>1
    <3> QED
      BY <3>2, SessionIOAssumption, ZenonT(40) DEF FrameType
  <2>5. FrameLen(Len(handled) + 1) = kWireHeaderSize + l
    BY <2>4, Zenon DEF FrameLen
  <2>6. CASE Len(buf_) < kWireHeaderSize
    BY <2>3, <2>4, <2>5, <2>6, SessionIOAssumption
  <2>7. CASE Len(buf_) >= kWireHeaderSize
    <3>1. Len(buf_) >= 1
      BY <2>3, <2>7, SessionIOAssumption
    <3>2. /\ buf_[1][1] = Len(handled) + 1 /\ buf_[1][2] = 1
          /\ Len(handled) + 1 \in 1 .. Len(sent)
      <4>1. /\ sent \in Seq(FrameType) /\ handled \in Seq(Seq(Nat \X Nat))
            /\ Starts(sent, st) /\ base \in Nat /\ Covers(sent, st, buf_, base)
            /\ Clean(sent, st, base)
        BY <1>1, <2>1, <2>2, InputTypes, Zenon
      <4> QED
        BY <2>2, <3>1, <4>1, HeaderAtFront, SMTT(30)
    <3>3. ~(Len(buf_) >= FrameLen(Len(handled) + 1))
      <4>1. HeaderValid
        BY <2>1, <3>2, Zenon DEF HeaderValid, NoneBad
      <4>2. PieceLen = FrameLen(Len(handled) + 1)
        BY <3>2, Zenon DEF PieceLen, Decoded, FrameLen
      <4> QED
        BY <1>2, <2>7, <4>1, <4>2, Zenon DEF FrameComplete, HasHeader
    <3> QED
      BY <2>3, <2>4, <2>5, <3>3, SessionIOAssumption
  <2> QED
    BY <2>3, <2>6, <2>7, SessionIOAssumption
<1>5. Types' /\ InterestMatches'
  BY <1>1, <1>2, Zenon DEF Types, InterestMatches
<1> QED
  BY <1>3, <1>4, <1>5, Zenon DEF SessionInv

(***************************************************************************)
(* The steps that leave the stream alone: the client reads, and the        *)
(* reactor begins or ends a read, or writes from outbuf.                   *)
(***************************************************************************)
LEMMA OutputStep ==
  ASSUME SessionInv, ClientReads \/ EpollIn \/ RecvBlocks \/ EpollOut \/ Write \/ WriteEnds
  PROVE  SessionInv'
<1>1. Types /\ Framing /\ NothingLeft /\ InterestMatches
  BY Zenon DEF SessionInv
<1>2. UNCHANGED input /\ sent' = sent /\ handled' = handled
  BY Zenon DEF ClientReads, EpollIn, RecvBlocks, EpollOut, Write, WriteEnds, input
<1>3. LeftLoop' => LeftLoop
  BY <1>1, Zenon DEF Types, LeftLoop, ClientReads, EpollIn, RecvBlocks, EpollOut, Write, WriteEnds
<1>4. Framing' /\ NothingLeft'
  BY <1>1, <1>2, <1>3, SameInput
<1>5. /\ outbuf' \in Nat /\ outbuf' <= outbuf /\ room' \in 0 .. SndBuf
      /\ at' \in {"wait", "recv", "pop", "write"} /\ back' \in {"wait", "pop"}
      /\ want_write' \in BOOLEAN /\ sends' = sends
  <2>1. CASE ClientReads
    BY <1>1, <2>1, SessionIOAssumption, SMTT(30) DEF Types, ClientReads
  <2>2. CASE EpollIn \/ RecvBlocks \/ EpollOut
    BY <1>1, <2>2, SMTT(30) DEF Types, EpollIn, RecvBlocks, EpollOut, output
  <2>3. CASE Write
    BY <1>1, <2>3, SessionIOAssumption, SMTT(30) DEF Types, Write
  <2>4. CASE WriteEnds
    BY <1>1, <2>4 DEF Types, WriteEnds, Interest
  <2> QED
    BY <2>1, <2>2, <2>3, <2>4
<1>6. outbuf' <= AckSize * (Len(handled) + sends)
  <2>1. Len(handled) + sends \in Nat
    BY <1>1 DEF Types
  <2>2. PICK u \in Nat : u = AckSize * (Len(handled) + sends)
    BY <2>1, OneAnswerMore, ZenonT(40)
  <2>3. outbuf \in Nat /\ outbuf <= u
    BY <1>1, <2>2 DEF Types
  <2>4. outbuf' <= u
    BY <1>5, <2>3
  <2> QED
    BY <2>2, <2>4, Zenon
<1>7. Types'
  BY <1>1, <1>2, <1>5, <1>6, Zenon DEF Types
<1>8. InterestMatches'
  BY <1>1, Zenon DEF Types, InterestMatches, ClientReads, EpollIn, RecvBlocks, EpollOut, Write,
              WriteEnds, Interest, output
<1> QED
  BY <1>4, <1>7, <1>8, Zenon DEF SessionInv

(***************************************************************************)
(* DrainSendQueue has SendBytes put a frame into outbuf.                   *)
(***************************************************************************)
LEMMA SendFrameStep ==
  ASSUME SessionInv, SendFrame
  PROVE  SessionInv'
<1>1. Types /\ Framing /\ NothingLeft /\ InterestMatches
  BY Zenon DEF SessionInv
<1>2. /\ at = "wait" /\ sends < MaxSends /\ outbuf' = outbuf + AckSize /\ want_write' = TRUE
      /\ at' = "write" /\ back' = "wait" /\ sends' = sends + 1 /\ room' = room
      /\ UNCHANGED input /\ sent' = sent /\ handled' = handled
  BY DEF SendFrame, SendBytes, input
<1>3. Framing' /\ NothingLeft'
  <2>1. LeftLoop
    BY <1>2, Zenon DEF LeftLoop
  <2> QED
    BY <1>1, <1>2, <2>1, SameInput
<1>4. outbuf' \in Nat /\ outbuf' <= AckSize * (Len(handled) + sends')
  <2>1. PICK m \in Nat : m = Len(handled) + sends
    BY <1>1 DEF Types
  <2>2. Len(handled) + sends' = m + 1
    BY <1>1, <1>2, <2>1 DEF Types
  <2>3. outbuf \in Nat /\ outbuf <= AckSize * m
    BY <1>1, <2>1 DEF Types
  <2>4. AckSize * m \in Nat /\ AckSize * (m + 1) = AckSize * m + AckSize /\ AckSize \in Nat
    BY OneAnswerMore, SessionIOAssumption
  <2>5. outbuf' \in Nat /\ outbuf' <= AckSize * m + AckSize
    BY <1>2, <2>3, <2>4
  <2> QED
    BY <2>2, <2>4, <2>5, Zenon
<1>5. Types'
  BY <1>1, <1>2, <1>4, SessionIOAssumption DEF Types
<1>6. InterestMatches'
  BY <1>2 DEF InterestMatches
<1> QED
  BY <1>3, <1>5, <1>6, Zenon DEF SessionInv

-----------------------------------------------------------------------------
(* Every step keeps the invariant                                           *)

(***************************************************************************)
(* It holds before the client has sent anything.                           *)
(***************************************************************************)
LEMMA SessionInitInv == SessionInit => SessionInv
<1> SUFFICES ASSUME SessionInit
             PROVE  SessionInv
  OBVIOUS
<1>1. /\ sent = << >> /\ wire = << >> /\ buf_ = << >> /\ handled = << >>
      /\ at = "wait" /\ back = "wait"
      /\ outbuf = 0 /\ room = SndBuf /\ want_write = FALSE /\ sends = 0
  BY DEF SessionInit
<1>2. Types /\ InterestMatches
  <2>1. outbuf <= AckSize * (Len(handled) + sends)
    BY <1>1, SessionIOAssumption
  <2>2. sent \in Seq(FrameType) /\ handled \in Seq(Seq(Nat \X Nat)) /\ Len(sent) <= MaxFrames
    BY <1>1, SessionIOAssumption
  <2>3. sends \in 0 .. MaxSends /\ room \in 0 .. SndBuf /\ outbuf \in Nat
    BY <1>1, SessionIOAssumption
  <2>4. want_write = (outbuf > 0) /\ want_write \in BOOLEAN
    <3>1. ~(outbuf > 0) /\ ~want_write
      BY <1>1
    <3>2. want_write \in BOOLEAN
      BY <1>1, Zenon
    <3> QED
      BY <2>3, <3>1, <3>2
  <2> QED
    BY <1>1, <2>1, <2>2, <2>3, <2>4, Zenon DEF Types, InterestMatches
<1>3. NothingLeft
  BY <1>1 DEF NothingLeft
<1>4. PICK st : st = [i \in 1 .. 1 |-> 0]
  BY ZenonT(40)
<1>5. st \in [1 .. Len(sent) + 1 -> Nat] /\ st[1] = 0
  BY <1>1, <1>4
<1>6. Stream(st, 0)
  <2>1. Starts(sent, st)
    BY <1>1, <1>5 DEF Starts
  <2>2. Covers(sent, st, << >>, 0) /\ Len(<< >>) = 0
    BY DEF Covers
  <2> QED
    BY <1>1, <1>5, <2>1, <2>2 DEF Stream
<1>7. Handled(sent, handled, st, 0)
  BY <1>1, <1>5 DEF Handled
<1> QED
  BY <1>2, <1>3, <1>6, <1>7, Zenon DEF SessionInv, Framing

(***************************************************************************)
(* Each step of the client, the network and the reactor keeps it.          *)
(***************************************************************************)
LEMMA SessionNextInv == SessionInv /\ [SessionNext]_sessionVars => SessionInv'
<1> SUFFICES ASSUME SessionInv, [SessionNext]_sessionVars
             PROVE  SessionInv'
  OBVIOUS
<1>1. CASE \E f \in FrameType : ClientSends(f)
  BY <1>1, ClientSendsStep, Zenon
<1>2. CASE Recv
  BY <1>2, RecvStep
<1>3. CASE PopNothing
  BY <1>3, PopNothingStep, Zenon
<1>4. CASE PopClears
  BY <1>4, PopClearsStep
<1>5. CASE PopFrame
  BY <1>5, PopFrameStep
<1>6. CASE SendFrame
  BY <1>6, SendFrameStep
<1>7. CASE ClientReads \/ EpollIn \/ RecvBlocks \/ EpollOut \/ Write \/ WriteEnds
  BY <1>7, OutputStep
<1>8. CASE UNCHANGED sessionVars
  <2>1. Types /\ Framing /\ NothingLeft /\ InterestMatches
    BY Zenon DEF SessionInv
  <2>2. /\ UNCHANGED input /\ sent' = sent /\ handled' = handled /\ at' = at /\ back' = back
        /\ outbuf' = outbuf /\ room' = room /\ want_write' = want_write /\ sends' = sends
    BY <1>8 DEF sessionVars, input, output
  <2>3. LeftLoop' => LeftLoop
    BY <2>2 DEF LeftLoop
  <2>4. Framing' /\ NothingLeft'
    BY <2>1, <2>2, <2>3, SameInput
  <2>5. Types' /\ InterestMatches'
    BY <2>1, <2>2, ZenonT(40) DEF Types, InterestMatches
  <2> QED
    BY <2>4, <2>5, Zenon DEF SessionInv
<1> QED
  BY <1>1, <1>2, <1>3, <1>4, <1>5, <1>6, <1>7, <1>8 DEF SessionNext, ReactorStep

(***************************************************************************)
(* What lies before base has left the wire.                                *)
(***************************************************************************)
LEMMA BeforeBase ==
  ASSUME Types, NEW st, NEW base, Stream(st, base),
         NEW i \in 1 .. Len(sent), st[i + 1] <= base
  PROVE  i \in Received
<1> SUFFICES ASSUME NEW n \in 1 .. Len(wire), wire[n][1] = i
             PROVE  FALSE
  BY Zenon DEF Received
<1>1. /\ Starts(sent, st) /\ base \in Nat /\ sent \in Seq(FrameType)
      /\ Covers(sent, st, buf_, base) /\ Covers(sent, st, wire, base + Len(buf_))
  BY Zenon DEF Stream, Types
<1>2. base \in Nat /\ Len(buf_) \in Nat /\ Len(wire) \in Nat
  BY StreamLengths, Zenon
<1>3. PICK k \in 1 .. Size(sent, i) : st[i] + k = (base + Len(buf_)) + n
  <2>1. wire[n][2] \in 1 .. Size(sent, i) /\ st[i] + wire[n][2] = (base + Len(buf_)) + n
    BY <1>1, Zenon DEF Covers
  <2> QED
    BY <2>1, Zenon
<1>4. st[i] \in Nat /\ Size(sent, i) \in Nat /\ st[i + 1] = st[i] + Size(sent, i)
  <2>1. i \in 1 .. Len(sent) + 1
    BY <1>1
  <2> QED
    BY <1>1, <2>1, FrameSizes, ZenonT(40) DEF Starts
<1> QED
  BY <1>2, <1>3, <1>4, SMTT(30)

(***************************************************************************)
(* A frame whose end has not been received is not whole.                   *)
(***************************************************************************)
LEMMA EndOnWire ==
  ASSUME Types, NEW st, NEW base, Stream(st, base),
         NEW i \in 1 .. Len(sent), base + Len(buf_) < st[i + 1]
  PROVE  i \notin Received
<1>1. /\ Starts(sent, st) /\ base \in Nat /\ sent \in Seq(FrameType)
      /\ Covers(sent, st, buf_, base) /\ Covers(sent, st, wire, base + Len(buf_))
      /\ base + Len(buf_) + Len(wire) = st[Len(sent) + 1]
  BY Zenon DEF Stream, Types
<1>2. Len(buf_) \in Nat /\ Len(wire) \in Nat /\ Len(sent) \in Nat
  <2>1. Len(sent) \in Nat
    BY <1>1
  <2> QED
    BY <2>1, StreamLengths, Zenon
<1>3. /\ i \in 1 .. Len(sent) + 1 /\ i + 1 \in 1 .. Len(sent) + 1
      /\ Len(sent) + 1 \in 1 .. Len(sent) + 1
  BY <1>2
<1>4. PICK e \in Nat : e = st[i + 1]
  BY <1>1, <1>3, Zenon DEF Starts
<1>5. e <= st[Len(sent) + 1] /\ st[Len(sent) + 1] \in Nat
  <2>1. PICK l \in 1 .. Len(sent) + 1 : l = Len(sent) + 1
    BY <1>3, ZenonT(40)
  <2>2. /\ st[i + 1] \in Nat /\ st[l] \in Nat
        /\ (i + 1 = l <=> st[i + 1] = st[l]) /\ (i + 1 < l <=> st[i + 1] < st[l])
    BY <1>1, <1>3, Apart
  <2>3. i + 1 = l \/ i + 1 < l
    BY <1>2, <2>1
  <2> QED
    BY <1>4, <2>1, <2>2, <2>3
<1>6. PICK n \in 1 .. Len(wire) : (base + Len(buf_)) + n = e
  <2>1. e - (base + Len(buf_)) \in 1 .. Len(wire)
    BY <1>1, <1>2, <1>4, <1>5, SMTT(30)
  <2>2. (base + Len(buf_)) + (e - (base + Len(buf_))) = e
    BY <1>1, <1>2, <1>4
  <2> QED
    BY <2>1, <2>2
<1>7. PICK j \in 1 .. Len(sent) : j = wire[n][1]
  BY <1>1, Zenon DEF Covers
<1>8. PICK k \in 1 .. Size(sent, j) : st[j] + k = e
  BY <1>1, <1>6, <1>7, Zenon DEF Covers
<1>9. st[j] \in Nat /\ st[i] \in Nat /\ Size(sent, j) \in Nat /\ Size(sent, i) >= 1
      /\ Size(sent, i) \in Nat /\ e = st[i] + Size(sent, i)
  <2>1. j \in 1 .. Len(sent) + 1
    BY <1>2
  <2>2. st[j] \in Nat /\ st[i] \in Nat /\ e = st[i] + Size(sent, i)
    BY <1>1, <1>3, <1>4, <2>1, Zenon DEF Starts
  <2> QED
    BY <1>1, <2>2, FrameSizes, Zenon
<1>10. ~(j < i)
  <2>1. j < i => st[j] + Size(sent, j) <= st[i]
    BY <1>1, <1>2, <1>3, SMTT(30) DEF Starts
  <2>2. st[i] < e
    BY <1>9, SMTT(30)
  <2>3. e <= st[j] + Size(sent, j)
    BY <1>8, <1>9, SMTT(30)
  <2>4. ~(st[j] + Size(sent, j) <= st[i])
    BY <1>9, <2>2, <2>3, SMTT(90)
  <2> QED
    BY <2>1, <2>4, Zenon
<1>11. ~(i < j)
  <2>1. i < j => st[i] + Size(sent, i) <= st[j]
    BY <1>1, <1>2, SMTT(30) DEF Starts
  <2> QED
    BY <1>8, <1>9, <2>1, SMTT(30)
<1>12. i = j
  BY <1>10, <1>11
<1> QED
  BY <1>7, <1>12, Zenon DEF Received

-----------------------------------------------------------------------------
(* What the session may rely on                                             *)

(***************************************************************************)
(* The invariant the properties follow from: buf_ and the wire hold the    *)
(* rest of the stream, and the frames handled lie before it.               *)
(***************************************************************************)
THEOREM SessionInvariance == SessionSpec => []SessionInv
BY SessionInitInv, SessionNextInv, PTL DEF SessionSpec

(***************************************************************************)
(* Every byte in FrameBuffer and every byte handled belongs to a frame     *)
(* that was sent, and outbuf holds no more than the answers to what was    *)
(* handled and the frames from the send queue.                             *)
(***************************************************************************)
THEOREM BuffersBounded == SessionSpec => []SessionTypeOK
<1>1. SessionInv => SessionTypeOK
  <2> SUFFICES ASSUME SessionInv
               PROVE  SessionTypeOK
    OBVIOUS
  <2>1. Types
    BY Zenon DEF SessionInv
  <2>2. PICK st, base : Stream(st, base) /\ Handled(sent, handled, st, base)
    BY Zenon DEF SessionInv, Framing
  <2>3. Covers(sent, st, buf_, base) /\ Covers(sent, st, wire, base + Len(buf_))
    BY <2>2, Zenon DEF Stream
  <2>4. \A s \in {wire, buf_} \cup {handled[n] : n \in 1 .. Len(handled)} :
          \A m \in 1 .. Len(s) :
            s[m][1] \in 1 .. Len(sent) /\ s[m][2] \in 1 .. FrameLen(s[m][1])
    <3>1. \A s : Covers(sent, st, s, base) \/ Covers(sent, st, s, base + Len(buf_)) =>
                   \A m \in 1 .. Len(s) :
                     s[m][1] \in 1 .. Len(sent) /\ s[m][2] \in 1 .. FrameLen(s[m][1])
      BY Zenon DEF Covers, Size, FrameLen
    <3>2. ASSUME NEW n \in 1 .. Len(handled), NEW m \in 1 .. Len(handled[n])
          PROVE  /\ handled[n][m][1] \in 1 .. Len(sent)
                 /\ handled[n][m][2] \in 1 .. FrameLen(handled[n][m][1])
      <4>1. Piece(sent, st, handled[n], base)
        BY <2>2, Zenon DEF Handled
      <4>2. base \in Nat
        BY <2>2, Zenon DEF Stream
      <4> QED
        BY <4>1, <4>2, PieceEnds, Zenon DEF Size, FrameLen
    <3> QED
      BY <2>3, <3>1, <3>2, Zenon
  <2>5. outbuf \in 0 .. AckSize * (Len(handled) + sends)
    <3>1. PICK m \in Nat : m = Len(handled) + sends
      BY <2>1 DEF Types
    <3>2. AckSize * m \in Nat
      BY OneAnswerMore
    <3>3. outbuf \in Nat /\ outbuf <= AckSize * m
      BY <2>1, <3>1 DEF Types
    <3>4. outbuf \in 0 .. AckSize * m
      BY <3>2, <3>3
    <3> QED
      BY <3>1, <3>4, Zenon
  <2> QED
    BY <2>1, <2>4, <2>5, Zenon DEF SessionTypeOK, Types
<1> QED
  BY <1>1, SessionInvariance, PTL

(***************************************************************************)
(* However TCP cuts the stream, when the reactor leaves a session the      *)
(* frames it has handled are those received whole, each once and in order, *)
(* but for those behind a frame that HandleSystem refused.                 *)
(***************************************************************************)
THEOREM HandledExactly == SessionSpec => []FramedExactly
<1>1. SessionInv => FramedExactly
  <2> SUFFICES ASSUME SessionInv, NoneBad, at \in {"wait", "recv"}
               PROVE  /\ \A n \in 1 .. Len(handled) : handled[n] = Bytes(n)
                      /\ Len(handled) \in Received \cup {0}
                      /\ ~LastRefused => \A i \in Received : i <= Len(handled)
    BY Zenon DEF FramedExactly
  <2> DEFINE h == Len(handled)
             N == Len(sent)
  <2>1. Types /\ NothingLeft
    BY Zenon DEF SessionInv
  <2>2. PICK st, base : Stream(st, base) /\ Handled(sent, handled, st, base)
    BY Zenon DEF SessionInv, Framing
  <2>3. h \in Nat /\ N \in Nat /\ sent \in Seq(FrameType) /\ Clean(sent, st, base)
    BY <2>1, <2>2, InputTypes, Zenon
  <2>4. h <= N /\ base = st[h + 1] /\ \A n \in 1 .. h : handled[n] = Bytes(n)
    <3>1. \A n : Bytes(n) = Whole(sent, n)
      BY Zenon DEF Bytes, Whole, FrameLen, Size
    <3> QED
      BY <2>2, <2>3, <3>1, Zenon DEF Handled
  <2>5. h \in Received \cup {0}
    <3>1. CASE h = 0
      BY <3>1
    <3>2. CASE h \in 1 .. N
      <4>1. base \in Nat
        BY <2>2, Zenon DEF Stream
      <4>2. st[h + 1] <= base
        BY <2>4, <4>1
      <4> QED
        BY <2>1, <2>2, <3>2, <4>2, BeforeBase, Zenon
    <3> QED
      BY <2>3, <2>4, <3>1, <3>2
  <2>6. ASSUME ~LastRefused, NEW i \in Received
        PROVE  i <= h
    <3> SUFFICES ASSUME h < i
                 PROVE  FALSE
      BY <2>3 DEF Received
    <3>1. i \in 1 .. N /\ h < N /\ h + 1 \in 1 .. N
      BY <2>3, <2>4 DEF Received
    <3>2. Len(buf_) < FrameLen(h + 1)
      BY <2>1, <2>6, <3>1, Zenon DEF NothingLeft, LeftLoop
    <3>3. Starts(sent, st) /\ base \in Nat /\ Len(buf_) \in Nat
      BY <2>2, StreamLengths, Zenon DEF Stream
    <3>4. FrameLen(h + 1) = Size(sent, h + 1) /\ Size(sent, h + 1) \in Nat
      BY <2>3, <3>1, FrameSizes, Zenon DEF FrameLen, Size
    <3>5. i + 1 \in h + 2 .. N + 1 /\ i + 1 \in (h + 1) + 1 .. N + 1
      BY <2>3, <3>1
    <3>6. st[h + 1] + Size(sent, h + 1) <= st[i + 1] /\ st[i + 1] \in Nat
      <4>1. st[h + 1] + Size(sent, h + 1) <= st[i + 1]
        BY <3>1, <3>3, <3>5, Zenon DEF Starts
      <4>2. i + 1 \in 1 .. N + 1
        BY <2>3, <3>1
      <4> QED
        BY <3>3, <4>1, <4>2 DEF Starts
    <3>7. base + Len(buf_) < st[i + 1]
      BY <2>4, <3>2, <3>3, <3>4, <3>6
    <3> QED
      BY <2>1, <2>2, <3>1, <3>7, EndOnWire, Zenon
  <2> QED
    BY <2>4, <2>5, <2>6
<1> QED
  BY <1>1, SessionInvariance, PTL

(***************************************************************************)
(* A wrong checksum spoils nothing that comes before it; whatever it makes *)
(* TryPopFrame throw away, no byte is handled twice or out of order; and   *)
(* what is handled are whole frames with a right checksum, provided that   *)
(* no frame looks like a header from a place other than its first.         *)
(***************************************************************************)
THEOREM BadFramesContained == SessionSpec => []BadFrameContained
<1>1. SessionInv => BadFrameContained
  <2> SUFFICES ASSUME SessionInv
               PROVE  BadFrameContained
    OBVIOUS
  <2>1. PICK st, base : Stream(st, base) /\ Handled(sent, handled, st, base)
    BY Zenon DEF SessionInv, Framing
  <2>2. \A n : Bytes(n) = Whole(sent, n)
    BY Zenon DEF Bytes, Whole, FrameLen, Size
  <2> QED
    BY <2>1, <2>2, Zenon DEF BadFrameContained, Handled, NoneDisguised
<1> QED
  BY <1>1, SessionInvariance, PTL

(***************************************************************************)
(* Between two calls, UpdateInterest has asked for EPOLLOUT exactly when   *)
(* the session has bytes to send.                                          *)
(***************************************************************************)
THEOREM InterestRight == SessionSpec => []InterestMatches
<1>1. SessionInv => InterestMatches
  BY Zenon DEF SessionInv
<1> QED
  BY <1>1, SessionInvariance, PTL

=============================================================================
