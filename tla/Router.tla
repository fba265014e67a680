------------------------------- MODULE Router -------------------------------
(***************************************************************************)
(* The routing tables of one plane (src/hub/router.cpp).  Every operation  *)
(* runs under mu_, so each is one atomic action.                           *)
(*                                                                         *)
(* A subscriber list is a set: its order is not modelled, and a list that  *)
(* is absent and one that is empty cannot be told apart by any caller.     *)
(* gid is stored by the code and never consulted, so it is left out.       *)
(***************************************************************************)
EXTENDS Naturals

CONSTANTS
  Reactors,   (* the reactors of the plane       *)
  MaxSid,     (* bound: the last session id used *)
  Nids,       (* node ids a client may present   *)
  Cmds,       (* command numbers                 *)
  NoRoute     (* absence of a nid_map_ entry     *)

Sids == 1 .. MaxSid

Subscriber == [sid : Sids, nid : Nids, reactor_idx : Reactors]

NidRoute == [sid : Sids, reactor_idx : Reactors]

ASSUME RouterAssumption == MaxSid \in Nat /\ NoRoute \notin NidRoute

VARIABLES
  sub_table_,   (* command -> its subscribers            *)
  nid_map_      (* node id -> the session it is bound to *)

routerVars == <<sub_table_, nid_map_>>

RouterTypeOK ==
  /\ sub_table_ \in [Cmds -> SUBSET Subscriber]
  /\ nid_map_ \in [Nids -> NidRoute \cup {NoRoute}]

RouterInit ==
  /\ sub_table_ = [c \in Cmds |-> {}]
  /\ nid_map_ = [n \in Nids |-> NoRoute]

NotOf(sid, subs) == {s \in subs : s.sid # sid}

\* Mutant: an earlier entry of the session is not looked for.
SubscribeAgain(cmd, sub) ==
  /\ sub_table_' = [sub_table_ EXCEPT ![cmd] = @ \cup {sub}]
  /\ UNCHANGED nid_map_

Subscribe(cmd, sub) ==
  /\ sub_table_' =
       [sub_table_ EXCEPT ![cmd] = NotOf(sub.sid, @) \cup {sub}]
  /\ UNCHANGED nid_map_

Unsubscribe(cmd, sid) ==
  /\ sub_table_' = [sub_table_ EXCEPT ![cmd] = NotOf(sid, @)]
  /\ UNCHANGED nid_map_

\* Mutant: the fields of NidRoute the wrong way round.
BindSwapped(nid, sid, r) ==
  /\ nid_map_' = [nid_map_ EXCEPT ![nid] = [sid |-> r, reactor_idx |-> sid]]
  /\ UNCHANGED sub_table_

BindNid(nid, sid, r) ==
  /\ nid_map_' = [nid_map_ EXCEPT ![nid] = [sid |-> sid, reactor_idx |-> r]]
  /\ UNCHANGED sub_table_

\* Mutant: whoever holds the binding now.
BoundAtAll(nid, sid) == nid_map_[nid] # NoRoute

BoundTo(nid, sid) == nid_map_[nid] # NoRoute /\ nid_map_[nid].sid = sid

\* Mutant: the subscriptions are forgotten.
RemoveRouteOnly(sid, nid) ==
  /\ nid_map_' = IF BoundTo(nid, sid) THEN [nid_map_ EXCEPT ![nid] = NoRoute]
                                      ELSE nid_map_
  /\ UNCHANGED sub_table_

\* Mutant: the binding is forgotten.
RemoveSubsOnly(sid, nid) ==
  /\ sub_table_' = [c \in Cmds |-> NotOf(sid, sub_table_[c])]
  /\ UNCHANGED nid_map_

\* A binding another session has taken over since is left alone.
RemoveSession(sid, nid) ==
  /\ sub_table_' = [c \in Cmds |-> NotOf(sid, sub_table_[c])]
  /\ nid_map_' = IF BoundTo(nid, sid) THEN [nid_map_ EXCEPT ![nid] = NoRoute]
                                      ELSE nid_map_

FindSubscribers(cmd) == sub_table_[cmd]

FindNidRoute(nid) == nid_map_[nid]

=============================================================================
