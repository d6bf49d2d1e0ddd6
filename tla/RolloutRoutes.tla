---------------------------- MODULE RolloutRoutes ----------------------------
(***************************************************************************)
(* Proofs about what Rollout publishes: that the routes are always whole,  *)
(* move by one increment at most and agree with the autoscaler, and that a *)
(* rollout implements TrafficSplit.                                        *)
(***************************************************************************)
EXTENDS RolloutProofs, RolloutRefinement

-----------------------------------------------------------------------------
(* Routes.  While releases are only added, none is beyond the limit of the *)
(* list and no pass is cut short, the saved releases, the plan of a pass   *)
(* and the routes say the same at the end of each pass.                    *)

NothingIsCut == IsFiniteSet(Names) /\ Cardinality(Names) <= Keep

OnlyAdded == NoFailures /\ NoRedeploys /\ NoRollbacks /\ NothingIsCut

(* The rest of what a gradual rollout takes: an app that is not halted,    *)
(* and at least one instance.                                              *)
Gradual == "halt" \notin Events /\ \A s \in Scales : s.min > 0 /\ s.max > 0

(* The older one of the two releases that share the traffic is active.     *)
SharedInOrder(s, K, b, a, t) == SharedBetween(s, K, a, t) /\ b[a] <= b[t]

RoutesFollow(s, K) == \A n \in Names : routes[n] = IF n \in K THEN s[n].traffic ELSE 0

HasTarget(s, K) == \E k \in K : s[k].role = "target"

BetweenPasses ==
  /\ live # {} => \E a, t \in live : SharedInOrder(spec, live, born, a, t)
  /\ RoutesFollow(spec, live)

(* An active release that is not to stay active is yet to be saved, and is *)
(* older than the one that takes its place.                                *)
ActivesGiveWay ==
  \A n \in live : spec[n].role = "active" =>
    \A p \in job.keys : job.spec[p].role = "active" => 
      n = p \/ (n \in job.todo /\ job.born[n] < job.born[p])

DuringPass ==
  /\ job.kept = job.keys /\ job.drop = {}
  /\ \E a, t \in job.keys : SharedInOrder(job.spec, job.keys, job.born, a, t)
  /\ \A k \in job.keys \ job.todo : spec[k] = job.spec[k]
  /\ ActivesGiveWay
  /\ job.pc = "reporting" => RoutesFollow(job.spec, job.keys)

(* Before its routes are published, a plan is at most one increment ahead  *)
(* of them.                                                                *)
OneStepAhead ==
  job.pc # "reporting" =>
    \A k \in job.keys : job.spec[k].role = "target" =>
                           job.spec[k].traffic <= routes[k] + Ramp

(* A release that is planned to be the only one has all traffic already,   *)
(* unless there is none yet, and so has one that becomes active.           *)
ReplacesWhenRouted ==
  job.pc # "reporting" =>
    /\ HasTarget(job.spec, job.keys) \/ NoTraffic(routes)
         \/ \A p \in job.keys : job.spec[p].role = "active" => routes[p] = 100
    /\ \A p \in job.keys :
         /\ job.spec[p].role = "active" /\ ~(p \in live /\ spec[p].role = "active")
         => routes[p] = 100 \/ \A n \in live : spec[n].role # "active"

ScalerOfOnlyOne ==
  job.pc = "routing" /\ scaler # NoScaler =>
    /\ scaler.release \in job.keys /\ job.spec[scaler.release].role = "active"
    /\ ~HasTarget(job.spec, job.keys)

RoutesInv ==
  /\ RoutesAreWhole
  /\ job = Idle => BetweenPasses
  /\ job # Idle => DuringPass /\ OneStepAhead
  /\ Gradual => /\ ~at.halted
                /\ ScalerRunsWhenRouted
                /\ job # Idle => ReplacesWhenRouted /\ ScalerOfOnlyOne

-----------------------------------------------------------------------------
(* Lists that share the traffic.                                           *)

LEMMA SharedIsWhole ==
  ASSUME NEW s, NEW K, K \subseteq Names, NEW a \in K, NEW t \in K,
         SharedBetween(s, K, a, t), NEW r,
         \A n \in Names : r[n] = IF n \in K THEN s[n].traffic ELSE 0
  PROVE  WholeBetween(r, a, t)
<1>1. a = t => r[t] = 100
  BY DEF SharedBetween
<1>2. a # t => r[a] + r[t] = 100
  BY DEF SharedBetween
<1>3. \A n \in Names \ {a, t} : r[n] = 0
  BY DEF SharedBetween
<1>. QED  BY <1>1, <1>2, <1>3 DEF WholeBetween

(* The roles of such a list.                                               *)
LEMMA SharedActive ==
  ASSUME NEW s, NEW K, NEW a \in K, NEW t \in K, SharedBetween(s, K, a, t), NEW k \in K
  PROVE  s[k].role = "active" <=> k = a
  BY DEF SharedBetween

LEMMA SharedTarget ==
  ASSUME NEW s, NEW K, NEW a \in K, NEW t \in K, SharedBetween(s, K, a, t), NEW k \in K
  PROVE  s[k].role = "target" <=> k = t /\ a # t
  BY DEF SharedBetween

LEMMA NothingCut ==
  ASSUME NothingIsCut, NEW w, IsView(w), w.keys \subseteq Names
  PROVE  Kept(w) = w.keys
<1>. SUFFICES ASSUME NEW k \in w.keys
              PROVE  Cardinality({j \in w.keys : w.born[j] > w.born[k]}) < Keep
  BY DEF Kept
<1>. DEFINE S == {j \in w.keys : w.born[j] > w.born[k]}
<1>1. IsFiniteSet(Names \ {k}) /\ Cardinality(Names \ {k}) = Cardinality(Names) - 1
  BY FS_RemoveElement DEF NothingIsCut
<1>2. S \in SUBSET (Names \ {k})
  <2>1. w.born[k] \in Nat
    BY DEF IsView
  <2>. QED  BY <2>1
<1>3. Cardinality(S) \in Nat /\ Cardinality(S) <= Cardinality(Names \ {k})
  BY <1>1, <1>2, FS_Subset, FS_CardinalityType
<1>4. Cardinality(Names) \in Nat /\ Keep \in Nat
  BY FS_CardinalityType, ReleasesAssumption DEF NothingIsCut
<1>. HIDE DEF S
<1>5. Cardinality(S) < Keep
  BY <1>1, <1>3, <1>4 DEF NothingIsCut
<1>. QED  BY <1>5 DEF S

-----------------------------------------------------------------------------
(* What a plan makes of a list that shares the traffic.  w is such a list, *)
(* a its active release and t the one it may share with.                   *)

LEMMA PlanOfShared ==
  ASSUME NEW w, IsView(w), NEW d \in Nat,
         \A k \in w.keys : w.spec[k].role # "bad",
         \A j, k \in w.keys : w.born[j] = w.born[k] => j = k,
         NEW a \in w.keys, NEW t \in w.keys,
         SharedInOrder(w.spec, w.keys, w.born, a, t)
  PROVE  /\ TargetOf(w) \in w.keys
         /\ ActiveAfter(w, d) \in {a, TargetOf(w)}
         /\ SharedInOrder(PlannedSpec(w, d), w.keys, w.born, ActiveAfter(w, d), TargetOf(w))
         /\ ActiveAfter(w, d) # TargetOf(w) =>
              PlannedSpec(w, d)[TargetOf(w)].traffic <= w.spec[TargetOf(w)].traffic + Ramp
         /\ ActiveAfter(w, d) = TargetOf(w) /\ d # 0 => w.spec[TargetOf(w)].traffic = 100
<1>. DEFINE T == TargetOf(w)
            A == ActiveAfter(w, d)
            share == TargetShare(w, d)
<1>1. w.keys # {} /\ w.keys \in SUBSET Keys /\ \A j \in w.keys : w.born[j] \in Nat
  BY DEF IsView
<1>2. Deployable(w) # {} /\ T \in w.keys /\ \A j \in w.keys : w.born[j] <= w.born[T]
  <2>1. Deployable(w) = w.keys /\ T = NewestOf(w.keys, w.born)
    BY <1>1, TargetIsNewest
  <2>. QED  BY <1>1, <2>1, NewestIsKept DEF Kept
<1>3. ActiveBefore(w) = a
  <2>0. \A k \in w.keys : w.spec[k].role = "active" <=> k = a
    <3>1. SharedBetween(w.spec, w.keys, a, t)
      BY DEF SharedInOrder
    <3>2. w.spec[a].role = "active" /\ \A k \in w.keys : w.spec[k].role = "active" => k \in {a, t}
      BY <3>1 DEF SharedBetween
    <3>3. a # t => w.spec[t].role = "target"
      BY <3>1 DEF SharedBetween
    <3>. QED  BY <3>2, <3>3
  <2>1. HavingRole(w, "active") = {a}
    BY <2>0 DEF HavingRole
  <2>2. OldestOf({a}, w.born) = a
    BY <1>1 DEF OldestOf
  <2>3. a # NoRelease
    BY <1>1, ReleasesAssumption DEF Keys
  <2>. QED  BY <2>1, <2>2, <2>3 DEF ActiveBefore, RoleHolder
<1>4. A = IF Promotes(w, d) THEN T ELSE a
  BY <1>3 DEF ActiveAfter
<1>5. SharedBetween(PlannedSpec(w, d), w.keys, A, T)
  BY <1>2, PlanOfView
<1>6. A # T => PlannedSpec(w, d)[T].traffic <= w.spec[T].traffic + Ramp
  <2>. SUFFICES ASSUME A # T PROVE PlannedSpec(w, d)[T].traffic <= w.spec[T].traffic + Ramp
    OBVIOUS
  <2>1. d # 0 /\ T # ActiveBefore(w)
    BY <1>4 DEF Promotes
  <2>2. w.spec[T].traffic \in Nat /\ w.status[T].numAvailable \in Nat
    <3>1. T \in Keys
      BY <1>1, <1>2
    <3>2. w.spec[T] \in ReleaseSpec /\ w.status[T] \in ReleaseStatus
      BY <3>1 DEF IsView
    <3>. HIDE DEF T
    <3>. QED  BY <3>2 DEF ReleaseSpec, ReleaseStatus
  <2>3. share <= w.spec[T].traffic + Ramp
    <3>. DEFINE x == AvailableShare(w.status[T].numAvailable, d)
                y == w.spec[T].traffic + Ramp
    <3>0. x \in 0..100
      BY <2>2, ShareIsPercentage
    <3>1. x \in 0..100 /\ y \in Nat
      BY <2>2, <3>0, ReleasesAssumption
    <3>2. share = LesserOf(x, y)
      BY <2>1 DEF TargetShare
    <3>. HIDE DEF x, y, share
    <3>3. share <= y
      BY <3>1, <3>2 DEF LesserOf
    <3>. QED  BY <3>3 DEF y
  <2>4. share \in 0..100
    BY <1>2, ShareOfView
  <2>5. PlannedSpec(w, d)[T].traffic = PlannedTraffic(w, d, T)
    BY <1>1, <1>2 DEF PlannedSpec
  <2>6. PlannedTraffic(w, d, T) = share - ((share + (100 - share)) - 100)
    BY DEF PlannedTraffic, TotalTraffic
  <2>. HIDE DEF share, T
  <2>. QED  BY <2>2, <2>3, <2>4, <2>5, <2>6
<1>7. A = T /\ d # 0 => w.spec[T].traffic = 100
  <2>. SUFFICES ASSUME A = T, d # 0 PROVE w.spec[T].traffic = 100
    OBVIOUS
  <2>1. CASE T = a
    <3>1. w.born[a] = w.born[t]
      BY <1>1, <1>2, <2>1 DEF SharedInOrder
    <3>. QED  BY <2>1, <3>1 DEF SharedInOrder, SharedBetween
  <2>2. CASE T # a
    BY <1>3, <1>4, <2>2 DEF Promotes
  <2>. QED  BY <2>1, <2>2
<1>8. w.born[A] <= w.born[T] /\ A \in {a, T}
  BY <1>2, <1>4
<1>. QED  BY <1>2, <1>5, <1>6, <1>7, <1>8 DEF SharedInOrder

(* The list of a pass that begins when some release shares the traffic.    *)
LEMMA ListAtStart ==
  ASSUME IInv, OrderInv, TargetInv, job = Idle, RoutesFollow(spec, live),
         NEW a \in live, NEW t \in live, SharedInOrder(spec, live, born, a, t)
  PROVE  /\ SharedInOrder(View.spec, View.keys, View.born, a, t)
         /\ a \in View.keys /\ t \in View.keys
         /\ \A k \in View.keys : View.spec[k].traffic = routes[k]
         /\ \A j, k \in View.keys : View.born[j] = View.born[k] => j = k
<1>. DEFINE n == at.release
<1>1. TypeOK /\ BornInOrder
  BY DEF IInv, OrderInv
<1>2. /\ View.keys = live \cup {n} /\ View.keys \subseteq Names
      /\ \A k \in live : View.born[k] = born[k] /\ View.spec[k] = spec[k]
      /\ n \notin live => View.born[n] = clock + 1 /\ View.spec[n] = EmptySpec
  BY <1>1, ViewInOrder DEF OrderInv
<1>3. /\ EmptySpec.role \notin {"active", "target"} /\ EmptySpec.traffic = 0
      /\ EmptySpec.tlabel = FALSE
  BY DEF EmptySpec
<1>4. clock \in Nat /\ \A k \in live : born[k] \in Nat
  BY <1>1 DEF TypeOK
<1>. HIDE DEF n
<1>5. SharedBetween(View.spec, View.keys, a, t)
  BY <1>2, <1>3 DEF SharedInOrder, SharedBetween
<1>6. \A k \in View.keys : View.spec[k].traffic = routes[k]
  BY <1>2, <1>3 DEF RoutesFollow
<1>7. \A j, k \in View.keys : View.born[j] = View.born[k] => j = k
  BY <1>1, <1>2, <1>4 DEF BornInOrder
<1>. QED  BY <1>2, <1>5, <1>6, <1>7 DEF SharedInOrder

LEMMA DesiredIsPositive ==
  ASSUME TypeOK, Gradual, ~at.halted
  PROVE  DesiredInstances # 0
<1>1. at.scale \in Scales /\ at.scale.min \in Nat /\ at.scale.max \in Nat
  BY RolloutAssumption DEF TypeOK, AppTargetSpec
<1>2. at.scale.min > 0 /\ at.scale.max > 0 /\ atStatus.numDesired \in Nat
  BY <1>1 DEF Gradual, TypeOK, AppTargetStatus
<1>. QED  BY <1>1, <1>2 DEF DesiredInstances, LesserOf, GreaterOf

-----------------------------------------------------------------------------
(* The steps of a pass.                                                    *)

(* What a pass begins with.                                                *)
LEMMA PassBegins ==
  ASSUME OnlyAdded, IInv, OrderInv, TargetInv, StartPass
  PROVE  /\ job'.pc = "saving" /\ job' # Idle
         /\ job'.keys = View.keys /\ job'.born = View.born
         /\ job'.spec = IF Waits(View, atStatus.timer = "fresh") THEN View.spec
                        ELSE PlannedSpec(View, DesiredInstances)
         /\ \A k \in View.keys : job'.spec[k] # View.spec[k] => k \in job'.todo
         /\ job'.kept = job'.keys /\ job'.drop = {}
         /\ \A k \in job'.keys \ job'.todo : spec[k] = job'.spec[k]
         /\ UNCHANGED <<at, live, born, spec, routes, scaler>>
<1>. DEFINE w == View
            n == at.release
            waiting == atStatus.timer = "fresh"
            planned == SpecAfter(w, waiting, DesiredInstances)
<1>1. TypeOK /\ BornInOrder /\ CurrentIsNewest /\ job = Idle
  BY DEF IInv, OrderInv, StartPass
<1>2. ~Forced /\ (Creates <=> n \notin live)
  BY <1>1, NotForced
<1>3. /\ IsView(w) /\ w.keys # {} /\ \A k \in w.keys : w.spec[k].role # "bad"
      /\ w.keys \subseteq Names
  BY <1>1, GoodView, ViewInOrder
<1>4. /\ job'.pc = "saving" /\ job'.keys = w.keys /\ job'.born = w.born
      /\ job'.spec = planned
      /\ job'.todo = {k \in w.keys : (k = n /\ Creates) \/ planned[k] # w.spec[k]}
      /\ job'.kept = Kept(w) /\ job'.drop \subseteq w.keys \ Kept(w)
      /\ UNCHANGED <<at, live, born, spec, routes, scaler>>
  BY <1>2 DEF StartPass
<1>5. planned = IF Waits(w, waiting) THEN w.spec ELSE PlannedSpec(w, DesiredInstances)
  <2>1. Deployable(w) # {}
    BY <1>3, TargetIsNewest
  <2>. QED  BY <2>1 DEF SpecAfter, Outcome
<1>6. Kept(w) = w.keys
  BY <1>3, NothingCut DEF OnlyAdded
<1>7. \A k \in w.keys \ job'.todo : spec[k] = planned[k]
  <2>1. w.keys = live \cup {n} /\ \A k \in live : w.spec[k] = spec[k]
    BY <1>1, ViewInOrder
  <2>. HIDE DEF w, planned, n
  <2>. QED  BY <1>2, <1>4, <2>1 DEF n
<1>8. job' # Idle
  <2>1. Idle.pc = "idle"
    BY DEF Idle
  <2>. QED  BY <1>4, <2>1
<1>. HIDE DEF w, planned
<1>. QED  BY <1>4, <1>5, <1>6, <1>7, <1>8 DEF w

(* The first pass plans for a single release, which gets all traffic.      *)
LEMMA FirstPassRoutes ==
  ASSUME OnlyAdded, IInv, OrderInv, TargetInv, RoutesInv, StartPass, live = {}
  PROVE  RoutesInv'
<1>. DEFINE w == View
            n == at.release
            s == PlannedSpec(w, DesiredInstances)
<1>1. job = Idle /\ IsView(w) /\ DesiredInstances \in Nat
      /\ Deployable(w) # {} /\ \A k \in w.keys : w.spec[k].role # "bad"
  BY GoodView, TargetIsNewest DEF StartPass
<1>2. w.keys = {n} /\ w.spec[n] = EmptySpec
  BY ViewInOrder DEF IInv, OrderInv
<1>3. ~Waits(w, atStatus.timer = "fresh")
  <2>1. HavingRole(w, "active") = {}
    BY <1>2 DEF HavingRole, EmptySpec
  <2>. QED  BY <2>1 DEF Waits, RoleHolder
<1>. HIDE DEF w
<1>4. SharedBetween(s, {n}, n, n)
  BY <1>1, <1>2, PlanOfView, RolesOfView
<1>5. w.born[n] \in Nat
  BY <1>1, <1>2 DEF IsView
<1>6. NoTraffic(routes)
  BY <1>1 DEF RoutesInv, BetweenPasses, RoutesFollow, NoTraffic
<1>. HIDE DEF s, n
<1>7. /\ job'.pc = "saving" /\ job' # Idle /\ job'.keys = {n} /\ job'.born = w.born
      /\ job'.spec = s /\ job'.kept = job'.keys /\ job'.drop = {}
      /\ \A k \in job'.keys \ job'.todo : spec[k] = job'.spec[k]
      /\ UNCHANGED <<at, live, born, spec, routes, scaler>>
  BY <1>2, <1>3, PassBegins DEF w, s
<1>8. DuringPass'
  BY <1>4, <1>5, <1>7 DEF DuringPass, SharedInOrder, ActivesGiveWay
<1>9. OneStepAhead' /\ ReplacesWhenRouted'
  <2>1. s[n].role = "active"
    BY <1>4 DEF SharedBetween
  <2>. QED  BY <1>6, <1>7, <2>1 DEF OneStepAhead, ReplacesWhenRouted, NoTraffic
<1>10. ScalerOfOnlyOne'
  BY <1>7 DEF ScalerOfOnlyOne
<1>. QED  BY <1>7, <1>8, <1>9, <1>10 DEF RoutesInv, RoutesAreWhole, ScalerRunsWhenRouted, NoTraffic

(* Later passes either leave the list as it is, to wait, or plan.  The     *)
(* release that was active is then still active, or is saved after the one *)
(* that replaces it.                                                       *)
LEMMA WaitingPassRoutes ==
  ASSUME OnlyAdded, IInv, OrderInv, TargetInv, RoutesInv, StartPass, live # {},
         Waits(View, atStatus.timer = "fresh")
  PROVE  RoutesInv'
<1>1. job = Idle /\ BetweenPasses
  BY DEF StartPass, RoutesInv
<1>2. PICK a \in live, t \in live : SharedInOrder(spec, live, born, a, t)
  BY <1>1 DEF BetweenPasses
<1>3. /\ SharedInOrder(View.spec, View.keys, View.born, a, t)
      /\ a \in View.keys /\ t \in View.keys
      /\ \A k \in View.keys : View.spec[k].traffic = routes[k]
  BY <1>1, <1>2, ListAtStart DEF BetweenPasses
<1>4. HasTarget(View.spec, View.keys)
  BY DEF Waits, RoleHolder, HavingRole, HasTarget
<1>5. /\ job'.pc = "saving" /\ job' # Idle /\ job'.keys = View.keys /\ job'.born = View.born
      /\ job'.spec = View.spec /\ job'.kept = job'.keys /\ job'.drop = {}
      /\ \A k \in job'.keys \ job'.todo : spec[k] = job'.spec[k]
      /\ UNCHANGED <<at, live, born, spec, routes, scaler>>
  BY PassBegins
<1>6. /\ \A n \in live : spec[n].role = "active" => n = a
      /\ \A p \in View.keys : View.spec[p].role = "active" => p = a
      /\ spec[a].role = "active"
  <2>1. SharedBetween(spec, live, a, t) /\ SharedBetween(View.spec, View.keys, a, t)
    BY <1>2, <1>3 DEF SharedInOrder
  <2>. HIDE DEF View
  <2>2. \A n \in live : spec[n].role = "active" <=> n = a
    BY <2>1, SharedActive
  <2>. QED  BY <1>3, <2>1, <2>2, SharedActive
<1>. HIDE DEF View
<1>7. DuringPass'
  BY <1>3, <1>5, <1>6 DEF DuringPass, ActivesGiveWay
<1>8. OneStepAhead' /\ ReplacesWhenRouted'
  <2>1. \A k \in View.keys : View.spec[k].traffic <= routes[k] + Ramp
    <3>1. View.keys \subseteq Names
      BY <1>1, ViewInOrder DEF IInv, OrderInv
    <3>. QED  BY <1>3, <3>1, ReleasesAssumption DEF IInv, TypeOK
  <2>. QED  BY <1>4, <1>5, <1>6, <2>1 DEF OneStepAhead, ReplacesWhenRouted
<1>9. ScalerOfOnlyOne'
  BY <1>5 DEF ScalerOfOnlyOne
<1>. QED  BY <1>5, <1>7, <1>8, <1>9 DEF RoutesInv, RoutesAreWhole, ScalerRunsWhenRouted, NoTraffic

LEMMA PlanningPassRoutes ==
  ASSUME OnlyAdded, IInv, OrderInv, TargetInv, RoutesInv, StartPass, live # {},
         ~Waits(View, atStatus.timer = "fresh")
  PROVE  RoutesInv'
<1>. DEFINE w == View
            d == DesiredInstances
            s == PlannedSpec(w, d)
            T == TargetOf(w)
            A == ActiveAfter(w, d)
<1>1. job = Idle /\ BetweenPasses /\ TypeOK
  BY DEF StartPass, RoutesInv, IInv
<1>2. PICK a \in live, t \in live : SharedInOrder(spec, live, born, a, t)
  BY <1>1 DEF BetweenPasses
<1>3. /\ SharedInOrder(w.spec, w.keys, w.born, a, t)
      /\ a \in w.keys /\ t \in w.keys
      /\ \A k \in w.keys : w.spec[k].traffic = routes[k]
      /\ \A j, k \in w.keys : w.born[j] = w.born[k] => j = k
  BY <1>1, <1>2, ListAtStart DEF BetweenPasses
<1>4. IsView(w) /\ w.keys # {} /\ d \in Nat /\ \A k \in w.keys : w.spec[k].role # "bad"
  BY <1>1, GoodView
<1>5. /\ job'.pc = "saving" /\ job' # Idle /\ job'.keys = w.keys /\ job'.born = w.born
      /\ job'.spec = s /\ job'.kept = job'.keys /\ job'.drop = {}
      /\ \A k \in w.keys : s[k] # w.spec[k] => k \in job'.todo
      /\ \A k \in job'.keys \ job'.todo : spec[k] = job'.spec[k]
      /\ UNCHANGED <<at, live, born, spec, routes, scaler>>
  BY PassBegins
<1>. HIDE DEF w, d
<1>6. /\ T \in w.keys /\ A \in {a, T}
      /\ SharedInOrder(s, w.keys, w.born, A, T)
      /\ A # T => s[T].traffic <= w.spec[T].traffic + Ramp
      /\ A = T /\ d # 0 => w.spec[T].traffic = 100
  BY <1>3, <1>4, PlanOfShared
<1>7. A \in w.keys /\ a # T => w.born[a] < w.born[T]
  <2>1. T = NewestOf(w.keys, w.born) /\ \A j \in w.keys : w.born[j] <= w.born[T]
    BY <1>4, TargetIsNewest, NewestIsKept
  <2>2. w.born[a] \in Nat /\ w.born[T] \in Nat
    BY <1>3, <1>4, <1>6 DEF IsView
  <2>. HIDE DEF T
  <2>. QED  BY <1>3, <1>6, <2>1, <2>2
<1>8. /\ \A n \in live : spec[n].role = "active" <=> n = a
      /\ \A p \in w.keys : s[p].role = "active" <=> p = A
      /\ \A p \in w.keys : s[p].role = "target" <=> p = T /\ A # T
      /\ HasTarget(s, w.keys) <=> A # T
      /\ w.spec[a].role = "active"
  <2>1. SharedBetween(spec, live, a, t)
    BY <1>2 DEF SharedInOrder
  <2>2. SharedBetween(s, w.keys, A, T) /\ A \in w.keys
    BY <1>3, <1>6 DEF SharedInOrder
  <2>3. w.spec[a].role = "active"
    BY <1>3 DEF SharedInOrder, SharedBetween
  <2>4. \A n \in live : spec[n].role = "active" <=> n = a
    BY <2>1, SharedActive
  <2>. HIDE DEF s, A, T
  <2>. QED  BY <1>6, <2>2, <2>3, <2>4, SharedActive, SharedTarget DEF HasTarget
<1>. HIDE DEF s, A, T
<1>9. ActivesGiveWay'
  <2>. SUFFICES ASSUME NEW n \in live, spec[n].role = "active", NEW p \in w.keys,
                       s[p].role = "active", n # p
                PROVE  n \in job'.todo /\ w.born[n] < w.born[p]
    BY <1>5 DEF ActivesGiveWay
  <2>1. n = a /\ p = A /\ A = T
    BY <1>6, <1>8
  <2>. QED  BY <1>3, <1>5, <1>6, <1>7, <1>8, <2>1
<1>10. DuringPass'
  BY <1>3, <1>5, <1>6, <1>9 DEF DuringPass
<1>11. OneStepAhead'
  <2>1. \A k \in w.keys : s[k].role = "target" => s[k].traffic <= routes[k] + Ramp
    BY <1>3, <1>6, <1>8
  <2>. QED  BY <1>5, <2>1 DEF OneStepAhead
<1>12. Gradual => ReplacesWhenRouted'
  <2>. SUFFICES ASSUME Gradual PROVE ReplacesWhenRouted'
    OBVIOUS
  <2>1. d # 0
    BY <1>1, DesiredIsPositive DEF RoutesInv, d
  <2>2. A = T => routes[T] = 100
    BY <1>3, <1>6, <2>1
  <2>3. \A p \in w.keys : s[p].role = "active" /\ ~(p \in live /\ spec[p].role = "active")
          => routes[p] = 100
    BY <1>6, <1>8, <2>2
  <2>. QED  BY <1>5, <1>8, <2>2, <2>3 DEF ReplacesWhenRouted
<1>13. ScalerOfOnlyOne'
  BY <1>5 DEF ScalerOfOnlyOne
<1>. QED
  BY <1>5, <1>10, <1>11, <1>12, <1>13 DEF RoutesInv, RoutesAreWhole, ScalerRunsWhenRouted, NoTraffic

LEMMA SaveReleaseRoutes ==
  ASSUME OnlyAdded, IInv, OrderInv, RoutesInv, SaveRelease
  PROVE  RoutesInv'
<1>. DEFINE k == NewestOf(job.todo, job.born)
<1>1. job # Idle /\ job.pc = "saving" /\ job.todo # {}
  BY DEF SaveRelease
<1>2. job \in Job /\ ListOK /\ TypeOK /\ InOrder /\ DuringPass
  BY <1>1, JobIsJob DEF OrderInv, RoutesInv
<1>3. k \in job.todo /\ k \in job.keys /\ k \in Names
  BY <1>1, <1>2, NewestIsIn DEF ListOK, InOrder
<1>4. NameOf(k, job.forced) = k
  BY <1>3, ReleasesAssumption DEF NameOf
<1>5. /\ live' = live \cup {k} /\ spec' = [spec EXCEPT ![k] = job.spec[k]]
      /\ job' = [job EXCEPT !.todo = job.todo \ {k}]
      /\ UNCHANGED <<at, routes, scaler>>
  BY <1>4 DEF SaveRelease
<1>. HIDE DEF k
<1>6. /\ job'.keys = job.keys /\ job'.spec = job.spec /\ job'.born = job.born
      /\ job'.kept = job.kept /\ job'.drop = job.drop
      /\ job'.todo = job.todo \ {k} /\ job'.pc = "saving" /\ job' # Idle
  <2>1. Idle.pc = "idle"
    BY DEF Idle
  <2>. QED  BY <1>1, <1>2, <1>5, <2>1 DEF Job
<1>7. spec'[k] = job.spec[k] /\ \A n \in Names \ {k} : spec'[n] = spec[n]
  BY <1>2, <1>3, <1>5 DEF TypeOK
<1>8. live \subseteq Names /\ job.keys \subseteq Names
  BY <1>2 DEF TypeOK, InOrder
<1>9. \A p, n \in job.keys : job.spec[p].role = "active" /\ job.spec[n].role = "active" => p = n
  <2>1. PICK a \in job.keys, t \in job.keys : SharedBetween(job.spec, job.keys, a, t)
    BY <1>2 DEF DuringPass, SharedInOrder
  <2>. QED  BY <2>1, SharedActive
<1>10. ActivesGiveWay'
  <2>. SUFFICES ASSUME NEW n \in live', spec'[n].role = "active", NEW p \in job.keys,
                       job.spec[p].role = "active", n # p
                PROVE  n \in job.todo \ {k} /\ job.born[n] < job.born[p]
    BY <1>6 DEF ActivesGiveWay
  <2>1. n # k
    BY <1>3, <1>7, <1>9
  <2>2. n \in live /\ spec[n].role = "active"
    BY <1>5, <1>7, <1>8, <2>1
  <2>. QED  BY <1>2, <2>1, <2>2 DEF DuringPass, ActivesGiveWay
<1>11. DuringPass'
  BY <1>2, <1>6, <1>7, <1>8, <1>10 DEF DuringPass
<1>12. OneStepAhead'
  BY <1>1, <1>5, <1>6 DEF RoutesInv, OneStepAhead
<1>13. ReplacesWhenRouted => ReplacesWhenRouted'
  <2>. SUFFICES ASSUME ReplacesWhenRouted, NEW p \in job.keys, job.spec[p].role = "active",
                       ~(p \in live' /\ spec'[p].role = "active"), routes[p] # 100
                PROVE  \A n \in live' : spec'[n].role # "active"
    BY <1>1, <1>5, <1>6 DEF ReplacesWhenRouted, NoTraffic
  <2>1. p # k
    BY <1>5, <1>7
  <2>2. ~(p \in live /\ spec[p].role = "active")
    BY <1>5, <1>7, <1>8, <2>1
  <2>3. \A n \in live : spec[n].role # "active"
    BY <1>1, <2>2 DEF ReplacesWhenRouted
  <2>4. spec'[k].role # "active"
    BY <1>3, <1>7, <1>9, <2>1
  <2>. QED  BY <1>5, <1>7, <1>8, <2>3, <2>4
<1>14. ScalerOfOnlyOne'
  BY <1>6 DEF ScalerOfOnlyOne
<1>. QED
  BY <1>1, <1>5, <1>6, <1>11, <1>12, <1>13, <1>14
     DEF RoutesInv, RoutesAreWhole, ScalerRunsWhenRouted, NoTraffic

(* Nothing is collected, the autoscaler is that of the only release, and   *)
(* the routes are those of the list.                                       *)
LEMMA ListStep ==
  ASSUME IInv, job # Idle, NEW p \in {"scaling", "routing", "reporting"},
         job' = [job EXCEPT !.pc = p], UNCHANGED <<live, born, spec>>, DuringPass
  PROVE  /\ job'.keys = job.keys /\ job'.spec = job.spec /\ job'.born = job.born
         /\ job'.pc = p /\ job' # Idle
         /\ (p = "reporting" => RoutesFollow(job.spec, job.keys)') => DuringPass'
<1>1. job \in Job
  BY JobIsJob
<1>2. /\ job'.keys = job.keys /\ job'.spec = job.spec /\ job'.born = job.born
      /\ job'.kept = job.kept /\ job'.drop = job.drop /\ job'.todo = job.todo
      /\ job'.pc = p /\ job' # Idle
  <2>1. Idle.pc = "idle"
    BY DEF Idle
  <2>. QED  BY <1>1, <2>1 DEF Job
<1>3. (p = "reporting" => RoutesFollow(job.spec, job.keys)') => DuringPass'
  BY <1>2 DEF DuringPass, ActivesGiveWay, RoutesFollow
<1>. QED  BY <1>2, <1>3

LEMMA CollectReleasesRoutes ==
  ASSUME IInv, RoutesInv, CollectReleases
  PROVE  RoutesInv' /\ UNCHANGED <<live, spec>>
<1>1. job # Idle /\ job.pc = "saving" /\ TypeOK /\ DuringPass
  BY DEF CollectReleases, RoutesInv, IInv
<1>2. {NameOf(k, job.forced) : k \in job.drop} = {}
  BY <1>1 DEF DuringPass
<1>3. /\ UNCHANGED <<at, live, born, spec, routes, scaler>>
      /\ job' = [job EXCEPT !.pc = "scaling"]
  <2>1. spec' = [n \in Names |-> spec[n]]
    BY <1>2 DEF CollectReleases
  <2>2. spec' = spec
    BY <1>1, <2>1 DEF TypeOK
  <2>. QED  BY <1>2, <2>2 DEF CollectReleases
<1>4. /\ DuringPass' /\ job'.keys = job.keys /\ job'.spec = job.spec
      /\ job'.pc = "scaling" /\ job' # Idle
  BY <1>1, <1>3, ListStep
<1>5. OneStepAhead'
  BY <1>1, <1>3, <1>4 DEF RoutesInv, OneStepAhead
<1>6. ReplacesWhenRouted => ReplacesWhenRouted'
  BY <1>1, <1>3, <1>4 DEF ReplacesWhenRouted, HasTarget, NoTraffic
<1>7. ScalerOfOnlyOne'
  BY <1>4 DEF ScalerOfOnlyOne
<1>. QED
  BY <1>1, <1>3, <1>4, <1>5, <1>6, <1>7
     DEF RoutesInv, RoutesAreWhole, ScalerRunsWhenRouted, NoTraffic

LEMMA PublishScalerRoutes ==
  ASSUME IInv, OrderInv, RoutesInv, PublishScaler
  PROVE  RoutesInv'
<1>1. job # Idle /\ job.pc = "scaling" /\ DuringPass /\ InOrder /\ job \in Job
  BY JobIsJob DEF PublishScaler, RoutesInv, OrderInv
<1>2. /\ UNCHANGED <<at, live, born, spec, routes>>
      /\ scaler' = ScalerAfter /\ job' = [job EXCEPT !.pc = "routing"]
  BY DEF PublishScaler
<1>3. /\ DuringPass' /\ job'.keys = job.keys /\ job'.spec = job.spec
      /\ job'.pc = "routing" /\ job' # Idle
  BY <1>1, <1>2, ListStep
<1>4. PICK a \in job.keys, t \in job.keys : SharedBetween(job.spec, job.keys, a, t)
  BY <1>1 DEF DuringPass, SharedInOrder
<1>5. scaler' # NoScaler =>
        /\ scaler'.release = a
        /\ ~HasTarget(job.spec, job.keys)
  <2>1. KeptHaving("active") = {a}
    BY <1>1, <1>4, SharedActive DEF KeptHaving, DuringPass
  <2>2. a \in Names /\ job.born[a] \in Nat
    BY <1>1 DEF InOrder, Job
  <2>3. NameOf(OldestOf({a}, job.born), job.forced) = a
    BY <2>2, ReleasesAssumption DEF OldestOf, NameOf
  <2>4. KeptHaving("target") = {} => ~HasTarget(job.spec, job.keys)
    BY <1>1 DEF KeptHaving, HasTarget, DuringPass
  <2>. QED  BY <1>2, <2>1, <2>3, <2>4 DEF ScalerAfter
<1>6. job.spec[a].role = "active"
  BY <1>4 DEF SharedBetween
<1>7. ScalerOfOnlyOne'
  BY <1>3, <1>5, <1>6 DEF ScalerOfOnlyOne, HasTarget
<1>8. OneStepAhead'
  BY <1>1, <1>2, <1>3 DEF RoutesInv, OneStepAhead
<1>9. ReplacesWhenRouted => ReplacesWhenRouted'
  BY <1>1, <1>2, <1>3 DEF ReplacesWhenRouted, HasTarget, NoTraffic
<1>10. ReplacesWhenRouted => ScalerRunsWhenRouted'
  BY <1>1, <1>2, <1>5, <1>6 DEF ReplacesWhenRouted, NoTraffic, ScalerRunsWhenRouted
<1>. QED
  BY <1>1, <1>2, <1>3, <1>7, <1>8, <1>9, <1>10 DEF RoutesInv, RoutesAreWhole, NoTraffic

LEMMA PublishedRoutes ==
  ASSUME IInv, OrderInv, RoutesInv, PublishRoutes
  PROVE  /\ RoutesFollow(job.spec, job.keys)'
         /\ job'.keys = job.keys /\ job'.spec = job.spec
         /\ job'.pc = "reporting" /\ job' # Idle /\ DuringPass'
<1>1. /\ job # Idle /\ DuringPass /\ InOrder /\ job \in Job /\ TypeOK
  BY JobIsJob DEF PublishRoutes, RoutesInv, OrderInv
<1>2. /\ UNCHANGED <<live, born, spec>> /\ job' = [job EXCEPT !.pc = "reporting"]
      /\ routes' = [n \in Names |-> WeightOf(n)]
  BY DEF PublishRoutes
<1>3. /\ job'.keys = job.keys /\ job'.spec = job.spec
      /\ job'.pc = "reporting" /\ job' # Idle
      /\ RoutesFollow(job.spec, job.keys)' => DuringPass'
  BY <1>1, <1>2, ListStep
<1>4. \A n \in Names : WeightOf(n) = IF n \in job.keys THEN job.spec[n].traffic ELSE 0
  <2>. SUFFICES ASSUME NEW n \in Names
                PROVE  WeightOf(n) = IF n \in job.keys THEN job.spec[n].traffic ELSE 0
    OBVIOUS
  <2>1. Old \notin job.kept /\ job.kept = job.keys
    BY <1>1, ReleasesAssumption DEF InOrder, DuringPass
  <2>2. n \in job.keys => job.spec[n].traffic \in Int
    BY <1>1 DEF Job, ReleaseSpec
  <2>. QED  BY <2>1, <2>2 DEF WeightOf
<1>5. RoutesFollow(job.spec, job.keys)'
  BY <1>2, <1>3, <1>4 DEF RoutesFollow
<1>. QED  BY <1>3, <1>5

LEMMA PublishRoutesRoutes ==
  ASSUME IInv, OrderInv, RoutesInv, PublishRoutes
  PROVE  RoutesInv'
<1>1. /\ job # Idle /\ job.pc = "routing" /\ DuringPass /\ InOrder
      /\ UNCHANGED <<at, scaler>>
  BY DEF PublishRoutes, RoutesInv, OrderInv
<1>2. /\ \A n \in Names : routes'[n] = IF n \in job.keys THEN job.spec[n].traffic ELSE 0
      /\ job'.keys = job.keys /\ job'.spec = job.spec
      /\ job'.pc = "reporting" /\ job' # Idle /\ DuringPass'
  BY PublishedRoutes DEF RoutesFollow
<1>3. PICK a \in job.keys, t \in job.keys : SharedBetween(job.spec, job.keys, a, t)
  BY <1>1 DEF DuringPass, SharedInOrder
<1>4. RoutesAreWhole'
  <2>1. job.keys \subseteq Names
    BY <1>1 DEF InOrder
  <2>2. WholeBetween(routes', a, t)
    BY <1>2, <1>3, <2>1, SharedIsWhole
  <2>. QED  BY <2>1, <2>2 DEF RoutesAreWhole, WholeBetween, NoTraffic
<1>5. ScalerOfOnlyOne => ScalerRunsWhenRouted'
  <2>. SUFFICES ASSUME ScalerOfOnlyOne, scaler # NoScaler
                PROVE  routes'[scaler.release] = 100
    BY <1>1 DEF ScalerRunsWhenRouted
  <2>1. /\ scaler.release \in job.keys /\ job.spec[scaler.release].role = "active"
        /\ ~HasTarget(job.spec, job.keys)
    BY <1>1 DEF ScalerOfOnlyOne
  <2>2. scaler.release = a
    BY <1>3, <2>1, SharedActive
  <2>3. a = t
    BY <1>3, <2>1 DEF SharedBetween, HasTarget
  <2>4. job.spec[a].traffic = 100 /\ a \in Names
    BY <1>1, <1>3, <2>3 DEF SharedBetween, InOrder
  <2>. QED  BY <1>2, <2>2, <2>4
<1>6. OneStepAhead' /\ ReplacesWhenRouted' /\ ScalerOfOnlyOne'
  BY <1>2 DEF OneStepAhead, ReplacesWhenRouted, ScalerOfOnlyOne
<1>. QED  BY <1>1, <1>2, <1>4, <1>5, <1>6 DEF RoutesInv

LEMMA WriteStatusRoutes ==
  ASSUME IInv, OrderInv, RoutesInv, WriteStatus
  PROVE  RoutesInv'
<1>1. /\ job # Idle /\ job.pc = "reporting" /\ job' = Idle
      /\ UNCHANGED <<at, live, born, spec, routes, scaler>>
  BY DEF WriteStatus
<1>2. DuringPass /\ InOrder /\ live = job.keys /\ job.todo = {}
  BY <1>1 DEF RoutesInv, OrderInv, Complete, DuringPass
<1>3. \A k \in live : spec[k] = job.spec[k] /\ born[k] = job.born[k]
  BY <1>2 DEF DuringPass, InOrder
<1>4. \E a, t \in live : SharedInOrder(spec, live, born, a, t)
  <2>1. PICK a \in live, t \in live : SharedInOrder(job.spec, live, job.born, a, t)
    BY <1>2 DEF DuringPass
  <2>2. SharedBetween(spec, live, a, t)
    BY <1>3, <2>1 DEF SharedInOrder, SharedBetween
  <2>. QED  BY <1>3, <2>1, <2>2 DEF SharedInOrder
<1>5. RoutesFollow(spec, live)
  BY <1>1, <1>2, <1>3 DEF DuringPass, RoutesFollow
<1>6. BetweenPasses'
  BY <1>1, <1>4, <1>5 DEF BetweenPasses, RoutesFollow
<1>. QED  BY <1>1, <1>6 DEF RoutesInv, RoutesAreWhole, ScalerRunsWhenRouted, NoTraffic

(* Only a user halts the app target.                                       *)
LEMMA OnlyUsersHalt ==
  ASSUME TypeOK, [Next]_vars, "halt" \notin Events
  PROVE  at'.halted = at.halted
<1>1. ~Halt
  BY DEF Halt, EditApp
<1>2. CASE DeployNew \/ DeployAgain \/ Rescale
  BY <1>2 DEF DeployNew, DeployAgain, Rescale, EditApp, TypeOK, AppTargetSpec
<1>3. CASE \/ StartPass \/ SaveRelease \/ CollectReleases \/ PublishScaler \/ PublishRoutes
           \/ WriteStatus \/ PassFails
  BY <1>3 DEF StartPass, SaveRelease, CollectReleases, PublishScaler, PublishRoutes,
              WriteStatus, PassFails
<1>4. CASE \E n \in Names : SyncRelease(n) \/ SyncReleaseFails(n)
  BY <1>4 DEF SyncRelease, SyncReleaseFails
<1>5. CASE \E n \in Names : PodBecomesAvailable(n) \/ PodStops(n) \/ PodIsLost(n)
  BY <1>5 DEF PodBecomesAvailable, PodStops, PodIsLost
<1>6. CASE AutoscalerScales \/ RolloutTimerElapses
  BY <1>6 DEF AutoscalerScales, RolloutTimerElapses
<1>7. CASE \E n \in Names : StateSettles(n) \/ ReleaseAges(n)
  BY <1>7 DEF StateSettles, ReleaseAges
<1>8. CASE ConfirmRollback \/ \E n \in Names : ChooseRollback(n)
  BY <1>8 DEF ChooseRollback, ConfirmRollback
<1>9. CASE UNCHANGED vars
  BY <1>9 DEF vars
<1>. QED  BY <1>1, <1>2, <1>3, <1>4, <1>5, <1>6, <1>7, <1>8, <1>9 DEF Next

(* The steps that are not part of a pass.                                  *)
Passing == \/ StartPass \/ SaveRelease \/ CollectReleases \/ PublishScaler \/ PublishRoutes
           \/ WriteStatus

LEMMA OthersKeepRoutes ==
  ASSUME OnlyAdded, IInv, TargetInv, [Next]_vars, ~Passing
  PROVE  UNCHANGED <<live, born, spec, routes, scaler, job>>
<1>1. ~PassFails /\ ~ConfirmRollback
  BY DEF PassFails, ConfirmRollback, OnlyAdded, NoFailures, TargetInv
<1>. QED  BY <1>1, OthersKeepReleases DEF Passing

LEMMA OthersRoutes ==
  ASSUME OnlyAdded, IInv, TargetInv, RoutesInv, [Next]_vars, ~Passing
  PROVE  RoutesInv'
<1>1. UNCHANGED <<live, born, spec, routes, scaler, job>>
  BY OthersKeepRoutes
<1>2. Gradual => at'.halted = at.halted
  BY OnlyUsersHalt DEF Gradual, IInv
<1>3. /\ RoutesAreWhole' /\ (job = Idle => BetweenPasses)'
      /\ (job # Idle => DuringPass /\ OneStepAhead)'
  BY <1>1 DEF RoutesInv, RoutesAreWhole, BetweenPasses, DuringPass, RoutesFollow,
              ActivesGiveWay, OneStepAhead, NoTraffic
<1>4. Gradual => /\ ~at'.halted
                 /\ ScalerRunsWhenRouted'
                 /\ (job # Idle => ReplacesWhenRouted /\ ScalerOfOnlyOne)'
  BY <1>1, <1>2 DEF RoutesInv, ScalerRunsWhenRouted, ReplacesWhenRouted, ScalerOfOnlyOne, HasTarget,
                    NoTraffic
<1>. QED  BY <1>3, <1>4 DEF RoutesInv

LEMMA RoutesInvariance ==
  ASSUME OnlyAdded
  PROVE  Spec => []RoutesInv
<1>1. Init => RoutesInv
  BY DEF Init, RoutesInv, RoutesAreWhole, NoTraffic, BetweenPasses, RoutesFollow,
         ScalerRunsWhenRouted
<1>2. IInv /\ OrderInv /\ TargetInv /\ RoutesInv /\ [Next]_vars => RoutesInv'
  BY FirstPassRoutes, WaitingPassRoutes, PlanningPassRoutes, SaveReleaseRoutes,
     CollectReleasesRoutes, PublishScalerRoutes, PublishRoutesRoutes, WriteStatusRoutes,
     OthersRoutes DEF Passing
<1>. QED
  BY <1>1, <1>2, Invariance, OrderInvariance, TargetInvariance, PTL DEF Spec, OnlyAdded

-----------------------------------------------------------------------------
(* Theorems.                                                               *)

(* While releases are only added, the weights that Istio is given always   *)
(* are those of one release or of two that share the traffic, for any      *)
(* number of releases, edits of the scale, halts and lost pods             *)
(* (newVirtualService).                                                    *)
THEOREM RoutesStayWhole ==
  ASSUME OnlyAdded
  PROVE  Spec => []RoutesAreWhole
<1>1. RoutesInv => RoutesAreWhole
  BY DEF RoutesInv
<1>. QED  BY <1>1, RoutesInvariance, PTL

(* The autoscaler never runs next to a rollout, and only for the release   *)
(* that all traffic is routed to, once there is any (reconcileAutoScaler). *)
THEOREM ScalerWaitsForRoutes ==
  ASSUME OnlyAdded, Gradual
  PROVE  Spec => []ScalerRunsWhenRouted
<1>1. RoutesInv => ScalerRunsWhenRouted
  BY DEF RoutesInv
<1>. QED  BY <1>1, RoutesInvariance, PTL

(* One publication raises the weight of a target release by the ramp       *)
(* increment at most, although it was planned from the saved weight and    *)
(* not from the published one (deployReleases).                            *)
THEOREM RampStaysBounded ==
  ASSUME OnlyAdded
  PROVE  Spec => RampIsBounded
<1>1. ASSUME IInv, OrderInv, RoutesInv, PublishRoutes,
             NEW n \in Names, n \in job.keys, job.spec[n].role = "target"
      PROVE  routes'[n] <= routes[n] + Ramp
  <2>1. OneStepAhead /\ job.pc # "reporting"
    BY <1>1 DEF RoutesInv, PublishRoutes
  <2>2. routes'[n] = job.spec[n].traffic
    BY <1>1, PublishedRoutes DEF RoutesFollow
  <2>. QED  BY <1>1, <2>1, <2>2 DEF OneStepAhead
<1>2. IInv /\ OrderInv /\ RoutesInv /\ [Next]_vars =>
        [\A n \in Names :
           PublishRoutes /\ n \in job.keys /\ job.spec[n].role = "target" =>
             routes'[n] <= routes[n] + Ramp]_vars
  BY <1>1
<1>. QED
  BY <1>2, Invariance, OrderInvariance, RoutesInvariance, PTL
     DEF Spec, RampIsBounded, OnlyAdded

-----------------------------------------------------------------------------
(* Refinement.  A save that gives a release the active role adopts or      *)
(* promotes it, the publication of the routes splits the traffic, and      *)
(* every other step is a stutter.                                          *)

LEMMA NewestIs ==
  ASSUME NEW S, NEW b, NEW x \in S,
         \A j \in S : b[j] \in Nat,
         \A j \in S \ {x} : b[j] < b[x]
  PROVE  NewestOf(S, b) = x
<1>1. \A j \in S : b[j] <= b[x]
  OBVIOUS
<1>2. \A y \in S : (\A j \in S : b[j] <= b[y]) => y = x
  OBVIOUS
<1>. QED  BY <1>1, <1>2 DEF NewestOf

LEMMA NewestStays ==
  ASSUME IInv, BornInOrder, NEW S \in SUBSET live, S # {}, NEW c, \A k \in S : c[k] = born[k]
  PROVE  NewestOf(S, c) = NewestOf(S, born)
<1>1. HasNewest(live, born) /\ \A k \in live : born[k] \in Nat
  BY DEF IInv, HasEnds, TypeOK
<1>2. PICK x \in S : \A j \in S : born[j] <= born[x]
  BY <1>1 DEF HasNewest
<1>3. \A j \in S \ {x} : born[j] < born[x]
  BY <1>1, <1>2 DEF BornInOrder
<1>. QED  BY <1>1, <1>3, NewestIs

LEMMA StableStays ==
  ASSUME UNCHANGED <<live, born, spec>>
  PROVE  UNCHANGED StableRelease
  BY DEF StableRelease, Actives

LEMMA SaveReleaseSplits ==
  ASSUME OnlyAdded, Gradual, IInv, OrderInv, RoutesInv, SaveRelease
  PROVE  [Traffic!Next]_(Traffic!vars)
<1>. DEFINE k == NewestOf(job.todo, job.born)
<1>1. job # Idle /\ job.pc = "saving" /\ job.todo # {}
  BY DEF SaveRelease
<1>2. /\ job \in Job /\ ListOK /\ TypeOK /\ BornInOrder /\ InOrder /\ Complete
      /\ DuringPass /\ ReplacesWhenRouted
  BY <1>1, JobIsJob DEF OrderInv, RoutesInv
<1>3. k \in job.todo /\ k \in job.keys /\ k \in Names
  BY <1>1, <1>2, NewestIsIn DEF ListOK, InOrder
<1>4. \A j \in job.todo : job.born[j] <= job.born[k]
  BY <1>1, <1>2 DEF ListOK, HasEnds, HasNewest, NewestOf
<1>5. NameOf(k, job.forced) = k
  BY <1>3, ReleasesAssumption DEF NameOf
<1>6. /\ live' = live \cup {k} /\ spec' = [spec EXCEPT ![k] = job.spec[k]]
      /\ IF k \in live THEN UNCHANGED born ELSE born' = [born EXCEPT ![k] = clock + 1]
      /\ UNCHANGED routes
  BY <1>5 DEF SaveRelease
<1>. HIDE DEF k
<1>7. spec'[k] = job.spec[k] /\ \A n \in Names \ {k} : spec'[n] = spec[n]
  BY <1>2, <1>3, <1>6 DEF TypeOK
<1>8. born'[k] = job.born[k] /\ \A n \in live : born'[n] = born[n] /\ born[n] \in Nat
  BY <1>2, <1>3, <1>6 DEF TypeOK, InOrder
<1>9. live \subseteq Names /\ live \subseteq job.keys /\ job.keys \ job.todo \subseteq live
      /\ \A j \in live : job.born[j] = born[j]
  BY <1>1, <1>2 DEF TypeOK, InOrder, Complete
<1>10. PICK a \in job.keys, t \in job.keys : SharedBetween(job.spec, job.keys, a, t)
  BY <1>2 DEF DuringPass, SharedInOrder
<1>11. \A p \in job.keys : job.spec[p].role = "active" <=> p = a
  BY <1>10, SharedActive
<1>12. \A n \in Actives : n = a \/ (n \in job.todo /\ job.born[n] < job.born[a])
  BY <1>2, <1>11 DEF DuringPass, ActivesGiveWay, Actives
<1>13. Actives' = IF k = a THEN Actives \cup {a} ELSE Actives \ {k}
  BY <1>3, <1>6, <1>7, <1>9, <1>11 DEF Actives
<1>14. Actives \subseteq live /\ NoRelease \notin Names
  BY ReleasesAssumption DEF Actives
<1>15. CASE k = a /\ a \notin Actives
  <2>1. a \in Actives' /\ \A n \in Actives' \ {a} : n \in live /\ job.born[n] < job.born[a]
    BY <1>12, <1>13, <1>14, <1>15
  <2>2. NewestOf(Actives', born') = a
    <3>1. \A n \in Actives' \ {a} : born'[n] < born'[a] /\ born'[n] \in Nat
      BY <1>8, <1>9, <1>15, <2>1
    <3>2. born'[a] \in Nat
      BY <1>2, <1>8, <1>15 DEF Job
    <3>. QED  BY <2>1, <3>1, <3>2, NewestIs
  <2>3. StableRelease' = a
    BY <2>1, <2>2 DEF StableRelease
  <2>4. CASE Actives = {}
    <3>1. StableRelease = NoRelease
      BY <2>4 DEF StableRelease
    <3>. QED  BY <1>3, <1>6, <1>15, <2>3, <3>1 DEF Traffic!Next, Traffic!Adopt
  <2>5. CASE Actives # {}
    <3>1. StableRelease \in Names /\ StableRelease # NoRelease
      <4>1. HasEnds(live, born) /\ Actives \in SUBSET live
        BY <1>14 DEF IInv
      <4>2. NewestOf(Actives, born) \in Actives
        BY <2>5, <4>1, NewestIsIn
      <4>. QED  BY <1>9, <1>14, <2>5, <4>2 DEF StableRelease
    <3>2. routes[a] = 100
      BY <1>1, <1>2, <1>11, <1>15, <2>5 DEF ReplacesWhenRouted, Actives
    <3>. QED  BY <1>3, <1>6, <1>15, <2>3, <3>1, <3>2 DEF Traffic!Next, Traffic!Promote
  <2>. QED  BY <2>4, <2>5
<1>16. CASE k \in Actives /\ k # a
  <2>1. k \in live /\ k \in job.todo /\ job.born[k] < job.born[a]
    BY <1>12, <1>14, <1>16
  <2>2. a \notin job.todo
    <3>1. job.born[k] \in Nat /\ job.born[a] \in Nat
      BY <1>2, <1>3, <1>10 DEF Job, InOrder
    <3>. QED  BY <1>4, <2>1, <3>1
  <2>3. a \in Actives
    BY <1>2, <1>9, <1>10, <1>11, <2>2 DEF Actives, DuringPass
  <2>4. \A n \in Actives \ {a} : born[n] < born[a] /\ born[n] \in Nat
    BY <1>8, <1>9, <1>12, <1>14, <2>3
  <2>5. NewestOf(Actives, born) = a /\ NewestOf(Actives \ {k}, born) = a
    <3>1. born[a] \in Nat
      BY <1>8, <1>14, <2>3
    <3>2. NewestOf(Actives, born) = a
      BY <2>3, <2>4, <3>1, NewestIs
    <3>3. NewestOf(Actives \ {k}, born) = a
      BY <1>16, <2>3, <2>4, <3>1, NewestIs
    <3>. QED  BY <3>2, <3>3
  <2>6. Actives' = Actives \ {k} /\ born' = born
    BY <1>6, <1>13, <1>16, <2>1
  <2>7. StableRelease' = StableRelease
    BY <1>16, <2>3, <2>5, <2>6 DEF StableRelease
  <2>. QED  BY <1>6, <2>7 DEF Traffic!vars
<1>17. CASE ~(k = a /\ a \notin Actives) /\ ~(k \in Actives /\ k # a)
  <2>1. Actives' = Actives
    BY <1>13, <1>17
  <2>2. Actives # {} => NewestOf(Actives, born') = NewestOf(Actives, born)
    BY <1>2, <1>8, <1>14, NewestStays
  <2>3. StableRelease' = StableRelease
    BY <2>1, <2>2 DEF StableRelease
  <2>. QED  BY <1>6, <2>3 DEF Traffic!vars
<1>. QED  BY <1>15, <1>16, <1>17

LEMMA PublishRoutesSplits ==
  ASSUME OnlyAdded, IInv, OrderInv, RoutesInv, PublishRoutes
  PROVE  Traffic!Next
<1>1. /\ job # Idle /\ job.pc = "routing" /\ TypeOK /\ job \in Job
      /\ InOrder /\ Complete /\ DuringPass /\ OneStepAhead
      /\ UNCHANGED <<live, born, spec>>
      /\ routes' = [n \in Names |-> WeightOf(n)]
  BY JobIsJob DEF PublishRoutes, RoutesInv, OrderInv
<1>2. \A n \in Names : routes'[n] = IF n \in job.keys THEN job.spec[n].traffic ELSE 0
  BY PublishedRoutes DEF RoutesFollow
<1>3. PICK a \in job.keys, t \in job.keys : SharedBetween(job.spec, job.keys, a, t)
  BY <1>1 DEF DuringPass, SharedInOrder
<1>4. live = job.keys /\ job.todo = {} /\ job.keys \subseteq Names
  BY <1>1 DEF Complete, DuringPass, InOrder
<1>5. Actives = {a}
  <2>1. \A k \in live : spec[k].role = "active" <=> k = a
    BY <1>1, <1>3, <1>4, SharedActive DEF DuringPass
  <2>. QED  BY <1>3, <1>4, <2>1 DEF Actives
<1>6. StableRelease = a
  <2>1. born[a] \in Nat
    BY <1>1, <1>3, <1>4 DEF TypeOK
  <2>2. NewestOf({a}, born) = a
    BY <2>1, NewestIs
  <2>. QED  BY <1>5, <2>2 DEF StableRelease
<1>7. a # NoRelease /\ UNCHANGED StableRelease
  BY <1>1, <1>3, <1>4, StableStays, ReleasesAssumption
<1>8. CASE a = t
  <2>1. \A n \in Names : routes'[n] = IF n = a THEN 100 ELSE 0
    BY <1>2, <1>3, <1>4, <1>8 DEF SharedBetween
  <2>2. routes' = [n \in Names |-> IF n = a THEN 100 ELSE 0]
    BY <1>1, <2>1
  <2>. QED  BY <1>6, <1>7, <2>2 DEF Traffic!Next, Traffic!SendAll
<1>9. CASE a # t
  <2>. DEFINE x == job.spec[t].traffic
  <2>1. x \in 0..100 /\ job.spec[a].traffic \in 0..100
    BY <1>1, <1>3 DEF Job, ReleaseSpec
  <2>2. job.spec[a].traffic = 100 - x
    <3>. DEFINE y == job.spec[a].traffic
    <3>1. y + x = 100
      BY <1>3, <1>9 DEF SharedBetween
    <3>2. x \in Int /\ y \in Int
      BY <2>1
    <3>. HIDE DEF x, y
    <3>3. y = 100 - x
      BY <3>1, <3>2
    <3>. QED  BY <3>3 DEF y
  <2>3. \A n \in Names : routes'[n] = IF n = t THEN x ELSE IF n = a THEN 100 - x ELSE 0
    BY <1>2, <1>3, <1>4, <2>2 DEF SharedBetween
  <2>4. routes' = [n \in Names |-> IF n = t THEN x ELSE IF n = a THEN 100 - x ELSE 0]
    BY <1>1, <2>3
  <2>5. x <= routes[t] + Ramp
    BY <1>1, <1>3, <1>9 DEF OneStepAhead, SharedBetween
  <2>6. t \in Names \ {StableRelease}
    BY <1>3, <1>4, <1>6, <1>9
  <2>. HIDE DEF x
  <2>7. Traffic!Split(t, x)
    BY <1>6, <1>7, <2>4, <2>5 DEF Traffic!Split
  <2>. QED  BY <2>1, <2>6, <2>7 DEF Traffic!Next
<1>. QED  BY <1>8, <1>9

LEMMA InitSplits ==
  ASSUME Init
  PROVE  Traffic!Init
<1>1. Actives = {}
  BY DEF Init, Actives
<1>. QED  BY <1>1 DEF Init, Traffic!Init, StableRelease

(* What the clients of an app target see is TrafficSplit: all traffic goes *)
(* to a stable release, a new one gets at most one ramp increment more at  *)
(* a time, and becomes the stable one after it had all.  It holds for any  *)
(* number of releases, for any scale with at least one instance, and also  *)
(* when a deployment overtakes the one it follows.                         *)
THEOREM RolloutSplitsTraffic ==
  ASSUME OnlyAdded, Gradual
  PROVE  Spec => SplitsTraffic
<1>1. IInv /\ OrderInv /\ TargetInv /\ RoutesInv /\ [Next]_vars =>
        [Traffic!Next]_(Traffic!vars)
  <2>. SUFFICES ASSUME IInv, OrderInv, TargetInv, RoutesInv, [Next]_vars
                PROVE  [Traffic!Next]_(Traffic!vars)
    OBVIOUS
  <2>1. CASE SaveRelease
    BY <2>1, SaveReleaseSplits
  <2>2. CASE PublishRoutes
    BY <2>2, PublishRoutesSplits
  <2>3. CASE ~SaveRelease /\ ~PublishRoutes
    <3>1. UNCHANGED <<live, born, spec, routes>>
      <4>1. CASE StartPass
        BY <4>1, PassBegins
      <4>2. CASE CollectReleases
        BY <4>2, CollectReleasesRoutes DEF CollectReleases
      <4>3. CASE PublishScaler \/ WriteStatus
        BY <4>3 DEF PublishScaler, WriteStatus
      <4>. QED  BY <2>3, <4>1, <4>2, <4>3, OthersKeepRoutes DEF Passing
    <3>. QED  BY <3>1, StableStays DEF Traffic!vars
  <2>. QED  BY <2>1, <2>2, <2>3
<1>2. Init => Traffic!Init
  BY InitSplits
<1>. QED
  BY <1>1, <1>2, Invariance, OrderInvariance, TargetInvariance, RoutesInvariance, PTL
     DEF Spec, SplitsTraffic, Traffic!Spec, OnlyAdded
=============================================================================
