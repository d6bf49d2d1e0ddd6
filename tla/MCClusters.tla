---------------------------- MODULE MCClusters ----------------------------
(***************************************************************************)
(* Instance of Clusters for TLC: two clusters, the first of which may be   *)
(* active already, with a linked account and with or without the namespace *)
(* of a target that it does not have any more.                             *)
(***************************************************************************)
EXTENDS Clusters, TLC

NoneOrEast == {{}, {"east"}}

Production == [targets |-> {"production"}, policy |-> "read"]
Served(namespaces) ==
  [Empty EXCEPT !.crds = TRUE, !.config = TRUE, !.targets = {"production"},
     !.pools = {1}, !.admin = TRUE, !.installed = TRUE, !.operator = TRUE,
     !.namespaces = namespaces, !.made = {<<"production", "s3">>},
     !.linked = {<<"production", "s3">>},
     !.accounts = ("s3" :> [spec |-> Production, hash |-> Production])]
OneAccount == {Served({"production"}), Served({"production", "staging"})}
=============================================================================
