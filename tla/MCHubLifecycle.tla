--------------------------- MODULE MCHubLifecycle ---------------------------
(* Two reactors on each plane; no workers are asked for, Start makes it one. *)
EXTENDS HubLifecycle

MCEpollMayFail ==
  {<<<<"reactor", "forward">>, 1>>, <<<<"worker", "backend">>, 1>>, <<<<"dist", "forward">>, 1>>}
=============================================================================
