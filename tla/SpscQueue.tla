----------------------------- MODULE SpscQueue -----------------------------
(***************************************************************************)
(* The lock-free ring of src/hub/queue.hpp, one step per access to shared  *)
(* memory.  HubContext uses it for conn_queues_ (listener to reactor) and  *)
(* for send_queues_ (distributor to reactor).                              *)
(*                                                                         *)
(* head_ and tail_ are atomics with a single writer each.  A load of the   *)
(* other thread's index is an acquire load: it may return any value that   *)
(* index has had since the last time this thread read it, so each thread   *)
(* carries the last value it has seen.  slots_ is plain memory.            *)
(***************************************************************************)
EXTENDS Naturals, Sequences

CONSTANTS
  Capacity,   (* the constructor's argument                              *)
  Values,     (* the values that may be queued                           *)
  Blank       (* what a default-constructed or moved-from slot holds     *)

ASSUME CapacityAssumption == Capacity \in Nat
ASSUME BlankAssumption == Blank \notin Values

VARIABLES
  head_,      (* index of the oldest value; written by the consumer      *)
  tail_,      (* index of the next free slot; written by the producer    *)
  slots_,     (* the ring                                                *)
  ppc,        (* where the producer is in Push                           *)
  value,      (* Push's argument                                         *)
  headSeen,   (* the last value of head_ the producer has loaded         *)
  cpc,        (* where the consumer is in Pop                            *)
  taken,      (* Pop's local, moved out of the slot                      *)
  tailSeen,   (* the last value of tail_ the consumer has loaded         *)
  popped      (* the last value Pop returned, as a sequence of length <=1*)

producerVars == <<tail_, ppc, value, headSeen>>
consumerVars == <<head_, cpc, taken, tailSeen, popped>>
vars == <<slots_, producerVars, consumerVars>>

\* The ring has one slot more than it can hold values.
capacity_ == Capacity + 1

Index == 0 .. Capacity

\* Mutant: the index does not wrap.
SuccUnwrapped(i) == i + 1

Succ(i) == (i + 1) % capacity_

\* How many steps lead from index i forward to index j.
Dist(i, j) == IF i <= j THEN j - i ELSE j + capacity_ - i

\* The values an index may have had since it was seen at `seen'.
LoadableFrom(seen, now) == {i \in Index : Dist(seen, i) <= Dist(seen, now)}

-----------------------------------------------------------------------------
Init ==
  /\ head_ = 0
  /\ tail_ = 0
  /\ slots_ = [i \in Index |-> Blank]
  /\ ppc = "idle"
  /\ value = Blank
  /\ headSeen = 0
  /\ cpc = "idle"
  /\ taken = Blank
  /\ tailSeen = 0
  /\ popped = << >>

\* Mutant: the test for a full ring is missing.
PushUnchecked(v) ==
  /\ ppc = "idle"
  /\ ppc' = "write" /\ value' = v
  /\ UNCHANGED <<headSeen, tail_, slots_, consumerVars>>

\* Push(v) loads head_ and returns false at once when the ring looks full.
PushLoad(v) ==
  /\ ppc = "idle"
  /\ \E h \in LoadableFrom(headSeen, head_) :
       /\ headSeen' = h
       /\ IF Succ(tail_) = h
            THEN UNCHANGED <<ppc, value>>
            ELSE ppc' = "write" /\ value' = v
  /\ UNCHANGED <<tail_, slots_, consumerVars>>

PushWrite ==
  /\ ppc = "write"
  /\ slots_' = [slots_ EXCEPT ![tail_] = value]
  /\ ppc' = "publish"
  /\ UNCHANGED <<tail_, value, headSeen, consumerVars>>

PushPublish ==
  /\ ppc = "publish"
  /\ tail_' = Succ(tail_)
  /\ ppc' = "idle"
  /\ value' = Blank
  /\ UNCHANGED <<headSeen, slots_, consumerVars>>

\* Pop loads tail_ and returns nullopt at once when the ring looks empty.
PopLoad ==
  /\ cpc = "idle"
  /\ \E t \in LoadableFrom(tailSeen, tail_) :
       /\ tailSeen' = t
       /\ cpc' = IF head_ = t THEN "idle" ELSE "read"
  /\ UNCHANGED <<head_, taken, popped, slots_, producerVars>>

PopRead ==
  /\ cpc = "read"
  /\ taken' = slots_[head_]
  /\ slots_' = [slots_ EXCEPT ![head_] = Blank]
  /\ cpc' = "release"
  /\ UNCHANGED <<head_, tailSeen, popped, producerVars>>

\* Mutant: head_ is not stored.
PopKeeps ==
  /\ cpc = "release"
  /\ popped' = <<taken>>
  /\ taken' = Blank
  /\ cpc' = "idle"
  /\ UNCHANGED <<head_, tailSeen, slots_, producerVars>>

PopRelease ==
  /\ cpc = "release"
  /\ head_' = Succ(head_)
  /\ popped' = <<taken>>
  /\ taken' = Blank
  /\ cpc' = "idle"
  /\ UNCHANGED <<tailSeen, slots_, producerVars>>

Producer == (\E v \in Values : PushLoad(v)) \/ PushWrite \/ PushPublish

Consumer == PopLoad \/ PopRead \/ PopRelease

Next == Producer \/ Consumer

Spec == Init /\ [][Next]_vars

-----------------------------------------------------------------------------
TypeOK ==
  /\ head_ \in Index
  /\ tail_ \in Index
  /\ slots_ \in [Index -> Values \cup {Blank}]
  /\ ppc \in {"idle", "write", "publish"}
  /\ value \in Values \cup {Blank}
  /\ headSeen \in Index
  /\ cpc \in {"idle", "read", "release"}
  /\ taken \in Values \cup {Blank}
  /\ tailSeen \in Index
  /\ popped \in Seq(Values \cup {Blank})

\* The number of values in the ring, and the position of the k-th oldest one.
Count == Dist(head_, tail_)

Position(k) == IF head_ + k - 1 > Capacity THEN head_ + k - 1 - capacity_
                                           ELSE head_ + k - 1

(***************************************************************************)
(* The refinement mapping: the k-th value of the abstract queue is in the  *)
(* k-th slot from head_, except that Pop may already have moved the oldest *)
(* one into its local before it releases the slot.                         *)
(***************************************************************************)
Contents ==
  [k \in 1 .. Count |->
     IF k = 1 /\ cpc = "release" THEN taken ELSE slots_[Position(k)]]

Fifo == INSTANCE BoundedFifo WITH queue <- Contents

(***************************************************************************)
(* The ring, for every interleaving and every stale index load, behaves as *)
(* a bounded first-in first-out queue: nothing queued is lost, repeated,   *)
(* reordered or returned before it was written (SpscQueue::Push and Pop).  *)
(***************************************************************************)
ImplementsFifo == Fifo!Spec

(***************************************************************************)
(* The producer never writes the plain-memory slot the consumer is reading *)
(* or has moved from and not yet released (slots_ has no lock).            *)
(***************************************************************************)
NoSlotRace ==
  ppc = "write" => ~(cpc \in {"read", "release"} /\ head_ = tail_)

=============================================================================
