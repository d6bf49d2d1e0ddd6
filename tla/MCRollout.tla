----------------------------- MODULE MCRollout -----------------------------
(***************************************************************************)
(* Instances of Rollout for TLC.                                           *)
(***************************************************************************)
EXTENDS RolloutRefinement, TLC

CONSTANTS r1, r2, r3

TwoReleases == {r1, r2}
ThreeReleases == {r1, r2, r3}

One == {[min |-> 1, max |-> 1]}
OneOrTwo == One \cup {[min |-> 2, max |-> 2]}

(* Four instances without an autoscaler, or one or two with it.            *)
FourOrUpToTwo == {[min |-> 4, max |-> 4], [min |-> 1, max |-> 2]}

Symmetry == Permutations(Names)
=============================================================================
