---------------------------- MODULE TrafficSplit ----------------------------
(***************************************************************************)
(* What the clients of an app target are promised: at any time all of the  *)
(* traffic goes to one stable release, or is split between it and one      *)
(* other release, whose part grows by at most Ramp percent at a time, and  *)
(* which becomes the stable one only after it had all of the traffic.      *)
(***************************************************************************)
EXTENDS Integers

CONSTANTS
  Names,
  NoRelease,  \* none of them
  Ramp        \* percent of the traffic that may move at a time

VARIABLES
  weights,  \* percent of the traffic that each release gets
  stable    \* the release that can serve everything, or NoRelease

vars == <<weights, stable>>

TypeOK ==
  /\ weights \in [Names -> 0..100]
  /\ stable \in Names \cup {NoRelease}

Init ==
  /\ weights = [n \in Names |-> 0]
  /\ stable = NoRelease

(* The first release is taken as stable before it gets any traffic.        *)
Adopt(n) ==
  /\ stable = NoRelease
  /\ stable' = n
  /\ UNCHANGED weights

(* x percent for t, and the rest for the stable release.  The part of any  *)
(* other release is given back to the stable one at once.                  *)
Split(t, x) ==
  /\ stable # NoRelease
  /\ x <= weights[t] + Ramp
  /\ weights' = [n \in Names |-> IF n = t THEN x ELSE IF n = stable THEN 100 - x ELSE 0]
  /\ UNCHANGED stable

SendAll ==
  /\ stable # NoRelease
  /\ weights' = [n \in Names |-> IF n = stable THEN 100 ELSE 0]
  /\ UNCHANGED stable

Promote(t) ==
  /\ stable # NoRelease /\ weights[t] = 100
  /\ stable' = t
  /\ UNCHANGED weights

Next ==
  \/ \E n \in Names : Adopt(n) \/ Promote(n)
  \/ \E t \in Names \ {stable}, x \in 0..100 : Split(t, x)
  \/ SendAll

Spec == Init /\ [][Next]_vars
=============================================================================
