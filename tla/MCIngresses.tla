---------------------------- MODULE MCIngresses ----------------------------
(***************************************************************************)
(* Instance of Ingresses for TLC: two app targets in one target and one in *)
(* another, one of them monitored, a wildcard certificate and its renewal. *)
(***************************************************************************)
EXTENDS Ingresses

ThreeAppTargets ==
  {<<"web", "production">>, <<"api", "production">>, <<"web", "staging">>}

Web == <<"www", "k11n", "dev">>
Api == <<"api", "k11n", "dev">>
Internal == [ports |-> FALSE, watched |-> {"monitor", "rules"}, hosts |-> {},
             protocol |-> "", https |-> FALSE]
Public == [ports |-> TRUE, watched |-> {"monitor"}, hosts |-> {Web},
           protocol |-> "", https |-> TRUE]
Unmonitored == [Public EXCEPT !.watched = {}]
Grpc == [Unmonitored EXCEPT !.hosts = {Api}, !.protocol = "grpc"]
OptionsOfEach ==
  [at \in AppTargets |->
     CASE at = <<"web", "production">> -> {Internal, Public}
       [] at = <<"api", "production">> -> {Unmonitored, Grpc}
       [] OTHER -> {Unmonitored}]

WebIsPublic == {[at \in {<<"web", "production">>} |-> Public]}

Wildcard(id, expires) == [id |-> id, domain |-> <<"*", "k11n", "dev">>, expires |-> expires]
Old == Wildcard("old", 1)
New == Wildcard("new", 2)
OldAndNew == {Old, New}
OnlyOld == {{Old}}
Renewals == {{New}}
=============================================================================
