------------------------------ MODULE Handoff ------------------------------
(***************************************************************************)
(* A new connection's way from the listener to its reactor: the ring of    *)
(* module SpscQueue (conn_queues_) and the PipeWakeup that announces what  *)
(* is in it.  The reactor looks into the ring only when epoll reports the  *)
(* wakeup's descriptor, so the two mechanisms have to work together: the   *)
(* loads of tail_ may be stale, a Notify may come in the middle of a       *)
(* Drain, and a write to a full descriptor is lost.                        *)
(*                                                                         *)
(* External: the descriptor is a counter (an eventfd; on other systems the *)
(* bytes in a pipe).  Its lock orders a Notify before every later read, so *)
(* that after a read the reactor cannot miss what was pushed before the    *)
(* Notify.                                                                 *)
(***************************************************************************)
EXTENDS SpscQueue

CONSTANTS
  MaxCount,   (* the counter's limit: 2^64 - 2, or the size of the pipe    *)
  Chunk       (* what one read takes off it: all of it, or 64 bytes        *)

ASSUME WakeupAssumption == MaxCount \in Nat \ {0} /\ Chunk \in Nat \ {0}

VARIABLES
  valid,      (* the constructor got its descriptor                        *)
  count,      (* the descriptor's counter                                  *)
  owes,       (* the listener has pushed and not yet notified              *)
  rpc,        (* where the reactor is: in epoll_wait, Drain or
                 DrainNewConnections                                       *)
  visible     (* the oldest value of tail_ the reactor's next load may see *)

wakeupVars == <<valid, count, owes, rpc, visible>>

handoffVars == <<vars, wakeupVars>>

HandoffInit ==
  /\ Init
  /\ valid \in BOOLEAN
  /\ count = 0
  /\ owes = FALSE
  /\ rpc = "wait"
  /\ visible = 0

-----------------------------------------------------------------------------
(* Listener::Run, after accept                                              *)

\* When Push returns false the listener closes the descriptor and goes on.
ListenerPush(v) == ~owes /\ PushLoad(v) /\ UNCHANGED wakeupVars

ListenerWrite == PushWrite /\ UNCHANGED wakeupVars

ListenerPublish ==
  /\ PushPublish
  /\ owes' = TRUE
  /\ UNCHANGED <<valid, count, rpc, visible>>

\* Mutant: a Notify that finds the counter at its limit resets it.
NotifiedWrapped == IF valid THEN (count + 1) % (MaxCount + 1) ELSE count

\* PipeWakeup::Notify ignores the result of write.
Notified == IF valid /\ count < MaxCount THEN count + 1 ELSE count

ListenerNotify ==
  /\ owes
  /\ count' = Notified
  /\ owes' = FALSE
  /\ UNCHANGED <<vars, valid, rpc, visible>>

\* The distributor notifies the same descriptor of the frames it has routed.
DistributorNotify ==
  /\ count' = Notified
  /\ UNCHANGED <<vars, valid, owes, rpc, visible>>

-----------------------------------------------------------------------------
(* Reactor::HandleReadable on the wakeup's descriptor                       *)

\* Without a descriptor there is nothing in the epoll set to be reported.
Wake ==
  /\ rpc = "wait" /\ count > 0
  /\ rpc' = "drain"
  /\ UNCHANGED <<vars, valid, count, owes, visible>>

\* What the listener had published at its last Notify.
TailNotified == IF owes THEN (IF tail_ = 0 THEN Capacity ELSE tail_ - 1) ELSE tail_

\* One read that returns something.
DrainRead ==
  /\ rpc = "drain" /\ count > 0
  /\ count' = IF count > Chunk THEN count - Chunk ELSE 0
  /\ visible' = IF visible = tail_ THEN visible ELSE TailNotified
  /\ UNCHANGED <<vars, valid, owes, rpc>>

\* The read that finds nothing ends Drain.
DrainEnd ==
  /\ rpc = "drain" /\ count = 0
  /\ rpc' = "take"
  /\ UNCHANGED <<vars, valid, count, owes, visible>>

\* Mutant: DrainNewConnections takes one connection per wakeup.
TakeOne ==
  /\ rpc = "take"
  /\ PopLoad
  /\ tailSeen' \in LoadableFrom(visible, tail_)
  /\ visible' = tailSeen'
  /\ rpc' = "wait"
  /\ UNCHANGED <<valid, count, owes>>

\* DrainNewConnections calls Pop until it returns nullopt.
TakeLoad ==
  /\ rpc = "take"
  /\ PopLoad
  /\ tailSeen' \in LoadableFrom(visible, tail_)
  /\ visible' = tailSeen'
  /\ rpc' = IF cpc' = "idle" THEN "wait" ELSE "take"
  /\ UNCHANGED <<valid, count, owes>>

TakeRead == PopRead /\ UNCHANGED wakeupVars

TakeRelease == PopRelease /\ UNCHANGED wakeupVars

-----------------------------------------------------------------------------
Listener ==
  (\E v \in Values : ListenerPush(v)) \/ ListenerWrite \/ ListenerPublish \/ ListenerNotify

Reactor == Wake \/ DrainRead \/ DrainEnd \/ TakeLoad \/ TakeRead \/ TakeRelease

HandoffNext == Listener \/ DistributorNotify \/ Reactor

HandoffSpec == HandoffInit /\ [][HandoffNext]_handoffVars

(***************************************************************************)
(* Both threads keep running; the listener need not get another            *)
(* connection.  Every Drain ends: its loop has no bound, and ends because  *)
(* the notifiers do not for ever fill the descriptor faster than it reads. *)
(***************************************************************************)
HandoffFairSpec ==
  /\ HandoffSpec
  /\ WF_handoffVars(ListenerWrite \/ ListenerPublish \/ ListenerNotify)
  /\ WF_handoffVars(Reactor)
  /\ []<>(rpc # "drain")

-----------------------------------------------------------------------------
(***************************************************************************)
(* No lost wakeup: while the reactor is in epoll_wait and a connection is  *)
(* in its ring, the descriptor is readable or the listener is about to     *)
(* make it so -- although Pop may miss a connection that is in the ring,   *)
(* Notify's write may fail and a Drain may swallow several Notifys.  The   *)
(* exception is a PipeWakeup whose constructor failed: nothing looks at    *)
(* Valid().                                                                *)
(***************************************************************************)
NoLostConnection ==
  valid /\ rpc = "wait" /\ head_ # tail_ => count > 0 \/ owes

(***************************************************************************)
(* A connection the listener has queued is taken by its reactor, however   *)
(* few others follow it (there is no timer that would look at the ring).   *)
(***************************************************************************)
QueuedIsTaken == (valid /\ head_ # tail_) ~> (cpc = "release")

=============================================================================
