-------------------------------- MODULE Maps --------------------------------
(***************************************************************************)
(* Functions that are defined on some of a set only: objects by name,      *)
(* settings by key.                                                        *)
(***************************************************************************)

(* f gives some of S a value in V.                                         *)
IsPartial(f, S, V) == DOMAIN f \subseteq S /\ f \in [DOMAIN f -> V]

(* f with what g sets put over it: EnvForTarget, ResourcesForTarget,       *)
(* ProbesForTarget.  Nothing that f sets is ever taken away.               *)
Over(f, g) == [x \in DOMAIN f \cup DOMAIN g |-> IF x \in DOMAIN g THEN g[x] ELSE f[x]]

With(f, x, v) == [y \in DOMAIN f \cup {x} |-> IF y = x THEN v ELSE f[y]]
Without(f, S) == [x \in DOMAIN f \ S |-> f[x]]
=============================================================================
