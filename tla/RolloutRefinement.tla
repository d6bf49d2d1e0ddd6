------------------------- MODULE RolloutRefinement -------------------------
(***************************************************************************)
(* A rollout implements TrafficSplit: the routes of the virtual service    *)
(* are the weights, and the stable release is the newest of those whose    *)
(* saved role is active (the pass that promotes a release saves it before  *)
(* it takes the role from its predecessor).                                *)
(***************************************************************************)
EXTENDS Rollout

Actives == {n \in live : spec[n].role = "active"}
StableRelease == IF Actives = {} THEN NoRelease ELSE NewestOf(Actives, born)

Traffic == INSTANCE TrafficSplit WITH weights <- routes, stable <- StableRelease

(* As long as no release is re-created, rolled back or halted, and no pass *)
(* is cut short, a client sees a split of the traffic that is always whole *)
(* and that moves to a new release step by step, also when the deployment  *)
(* it follows is overtaken by another one (deployReleases and              *)
(* newVirtualService, over many passes).                                   *)
SplitsTraffic == Traffic!Spec
=============================================================================
