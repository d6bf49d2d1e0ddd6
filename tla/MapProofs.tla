----------------------------- MODULE MapProofs -----------------------------
(***************************************************************************)
(* What the operators of Maps return.                                      *)
(***************************************************************************)
EXTENDS Maps, TLAPS

(* The functions that give some of S a value in V.                         *)
Partial(S, V) == UNION {[T -> V] : T \in SUBSET S}

LEMMA PartialIs ==
  ASSUME NEW S, NEW V, NEW f
  PROVE  f \in Partial(S, V) <=>
           /\ f = [x \in DOMAIN f |-> f[x]]
           /\ DOMAIN f \subseteq S
           /\ \A x \in DOMAIN f : f[x] \in V
<1>1. ASSUME f \in Partial(S, V)
      PROVE  /\ f = [x \in DOMAIN f |-> f[x]]
             /\ DOMAIN f \subseteq S
             /\ \A x \in DOMAIN f : f[x] \in V
  <2>1. PICK T \in SUBSET S : f \in [T -> V]
    BY <1>1 DEF Partial
  <2> QED BY <2>1
<1>2. ASSUME f = [x \in DOMAIN f |-> f[x]], DOMAIN f \subseteq S,
             \A x \in DOMAIN f : f[x] \in V
      PROVE  f \in Partial(S, V)
  <2>1. f \in [DOMAIN f -> V]
    BY <1>2
  <2> QED BY <2>1, <1>2 DEF Partial
<1> QED BY <1>1, <1>2

LEMMA PartialHas ==
  ASSUME NEW S, NEW V, NEW f
  PROVE  f \in Partial(S, V) <=> IsPartial(f, S, V)
BY DEF Partial, IsPartial

LEMMA EmptyIsPartial ==
  ASSUME NEW S, NEW V
  PROVE  << >> \in Partial(S, V)
<1>1. << >> \in [{} -> V]
  OBVIOUS
<1> QED BY <1>1 DEF Partial

LEMMA EmptyDomain ==
  ASSUME NEW S, NEW V, NEW f \in Partial(S, V)
  PROVE  f = << >> <=> DOMAIN f = {}
<1>1. f = [x \in DOMAIN f |-> f[x]]
  BY PartialIs
<1>2. DOMAIN f = {} => f = << >>
  BY <1>1
<1> QED BY <1>2

(* An object more, an object less, and what one function sets over another. *)
LEMMA WithIsPartial ==
  ASSUME NEW S, NEW V, NEW f \in Partial(S, V), NEW x \in S, NEW v \in V
  PROVE  With(f, x, v) \in Partial(S, V)
<1>1. DOMAIN With(f, x, v) \in SUBSET S /\ With(f, x, v) \in [DOMAIN With(f, x, v) -> V]
  BY PartialIs DEF With
<1> QED BY <1>1 DEF Partial

LEMMA WithoutIsPartial ==
  ASSUME NEW S, NEW V, NEW f \in Partial(S, V), NEW T
  PROVE  Without(f, T) \in Partial(S, V)
<1>1. DOMAIN Without(f, T) \in SUBSET S /\ Without(f, T) \in [DOMAIN Without(f, T) -> V]
  BY PartialIs DEF Without
<1> QED BY <1>1 DEF Partial

LEMMA OverIsPartial ==
  ASSUME NEW S, NEW V, NEW f \in Partial(S, V), NEW g \in Partial(S, V)
  PROVE  Over(f, g) \in Partial(S, V)
<1>1. DOMAIN Over(f, g) \in SUBSET S /\ Over(f, g) \in [DOMAIN Over(f, g) -> V]
  BY PartialIs DEF Over
<1> QED BY <1>1 DEF Partial
=============================================================================
