------------------------------ MODULE Delivery ------------------------------
(***************************************************************************)
(* What the Hub promises its clients of business messages, with nothing of *)
(* its threads and queues.  A session is written a message only while it   *)
(* is open, only one that was sent to it, and of each sender only a later  *)
(* one than it has had from there.  What a service sends comes with its    *)
(* payload; what a gateway sends may have lost it.  That a message comes   *)
(* at all is not promised.                                                 *)
(***************************************************************************)
EXTENDS Naturals, Sequences

CONSTANTS
  Gateways, Services,  (* the sessions of the two planes                   *)
  Subscribers,         (* the services subscribed to the gateways' command *)
  NoNid                (* the node id that means none                      *)

VARIABLES
  open,      (* sessions that are open                                     *)
  sent,      (* session -> the node ids its messages were for              *)
  received   (* session -> the messages written to it                      *)

vars == <<open, sent, received>>

Sids == Gateways \cup Services

Init ==
  /\ open = Sids
  /\ sent = [s \in Sids |-> << >>]
  /\ received = [s \in Sids |-> << >>]

\* The sessions message i of session s is for.
Recipients(s, i) == IF s \in Gateways THEN Subscribers ELSE {sent[s][i]} \ {NoNid}

Send(s, nid) ==
  /\ s \in open
  /\ sent' = [sent EXCEPT ![s] = Append(@, nid)]
  /\ UNCHANGED <<open, received>>

Later(d, s, i) ==
  \A n \in 1 .. Len(received[d]) : received[d][n].from = s => received[d][n].seq < i

Deliver(d, s, i, data) ==
  /\ d \in open /\ i \in 1 .. Len(sent[s]) /\ d \in Recipients(s, i) /\ Later(d, s, i)
  /\ data = "whole" \/ (data = "bare" /\ s \in Gateways)
  /\ received' = [received EXCEPT ![d] =
                    Append(@, [from |-> s, seq |-> i, to |-> d, data |-> data])]
  /\ UNCHANGED <<open, sent>>

\* Sessions end, one or all of a reactor's.
Close ==
  /\ open' \subseteq open
  /\ UNCHANGED <<sent, received>>

Next ==
  \/ \E s \in Sids, nid \in Gateways \cup {NoNid} : Send(s, nid)
  \/ \E d, s \in Sids, data \in {"whole", "bare"} :
       \E i \in 1 .. Len(sent[s]) : Deliver(d, s, i, data)
  \/ Close

Spec == Init /\ [][Next]_vars

=============================================================================
