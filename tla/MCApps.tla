------------------------------- MODULE MCApps -------------------------------
(***************************************************************************)
(* Instances of Apps for TLC.                                              *)
(***************************************************************************)
EXTENDS Apps

(* Names are sequences of words, with a hyphen between the words.  The app *)
(* target of Web for EuProd and that of WebEu for Prod share a name.       *)
Web == <<"web">>
WebEu == <<"web", "eu">>
Prod == <<"prod">>
EuProd == <<"eu", "prod">>
Names == [p \in AppNames \X Targets |-> p[1] \o p[2]]

OneApp == {Web}
TwoApps == {Web, WebEu}
TwoTargets == {Prod, EuProd}
ThreeTags == {"v1", "v2", "v3"}

Unscaled == [min |-> 0, max |-> 0]
Plain == [mode |-> "", ingress |-> FALSE, settings |-> << >>, scale |-> Unscaled]
Base == [tag |-> "v1", settings |-> [x \in {"env", "cpu"} |-> "low"], scale |-> Unscaled,
         targets |-> [t \in {Prod} |-> Plain]]
Larger ==
  [Base EXCEPT !.targets = [t \in Targets |->
     [Plain EXCEPT !.settings = IF t = Prod THEN [x \in {"cpu"} |-> "high"] ELSE << >>,
                   !.scale = [min |-> 2, max |-> 0]]]]

Small == {Base}
Manifests == {Base, Larger}
Wide == {Larger}
OneTarget == {{Prod}}
OneOrBoth == {{Prod}, Targets}
=============================================================================
