--------------------------- MODULE RolloutInstances ---------------------------
(***************************************************************************)
(* Proofs about weights, instances and deletions in Rollout: the weight of *)
(* a release is always covered by its pods, or by those it is asked for,   *)
(* although plans are made from the status of an earlier moment, and saved *)
(* and published in several steps while both controllers run; and old      *)
(* releases are deleted, but never the active one.                         *)
(***************************************************************************)
EXTENDS RolloutRoutes

-----------------------------------------------------------------------------
(* The arithmetic of weights and instances.                                *)

LEMMA ProductGrows ==
  ASSUME NEW a \in Nat, NEW b \in Nat, NEW c \in Nat, a <= b
  PROVE  a * c <= b * c /\ c * a <= c * b
<1>1. b * c = a * c + (b - a) * c /\ c * b = c * a + c * (b - a)
  OBVIOUS
<1>2. (b - a) * c \in Nat /\ c * (b - a) \in Nat
  BY ProductIsNat
<1>3. a * c \in Nat /\ b * c \in Nat /\ c * a \in Nat /\ c * b \in Nat
  BY ProductIsNat
<1>. QED  BY <1>1, <1>2, <1>3

(* The share of the available instances is the largest one they cover.     *)
LEMMA ShareIsCovered ==
  ASSUME NEW a \in Nat, NEW d \in Nat, d # 0
  PROVE  AvailableShare(a, d) * d <= 100 * a
<1>1. CASE a >= d
  BY <1>1 DEF AvailableShare
<1>2. CASE a < d
  <2>. DEFINE x == 100 * a
  <2>1. AvailableShare(a, d) = x \div d /\ x \in Nat
    BY <1>2 DEF AvailableShare
  <2>. HIDE DEF x
  <2>2. x \div d \in Nat /\ (x \div d) * d <= x
    BY <2>1
  <2>. QED  BY <2>1, <2>2 DEF x
<1>. QED  BY <1>1, <1>2

LEMMA CoveredIsShared ==
  ASSUME NEW a \in Nat, NEW d \in Nat, d # 0, NEW p \in 0..100, p * d <= 100 * a
  PROVE  p <= AvailableShare(a, d)
<1>1. CASE a >= d
  BY <1>1 DEF AvailableShare
<1>2. CASE a < d
  <2>. DEFINE x == 100 * a
  <2>1. AvailableShare(a, d) = x \div d /\ x \in Nat
    BY <1>2 DEF AvailableShare
  <2>. HIDE DEF x
  <2>2. p * d <= x
    BY DEF x
  <2>3. x \div d \in Nat /\ x < (x \div d + 1) * d
    BY <2>1
  <2>4. p <= x \div d
    <3>. DEFINE q == x \div d
    <3>. SUFFICES ASSUME p >= q + 1 PROVE FALSE
      BY <2>3
    <3>. HIDE DEF q
    <3>1. (q + 1) * d <= p * d
      BY <2>3, ProductGrows DEF q
    <3>2. p * d \in Nat /\ (q + 1) * d \in Nat
      BY <2>3, ProductIsNat DEF q
    <3>. QED  BY <2>1, <2>2, <2>3, <3>1, <3>2 DEF q
  <2>. QED  BY <2>1, <2>4
<1>. QED  BY <1>1, <1>2

LEMMA DivisionGrows ==
  ASSUME NEW x \in Nat, NEW y \in Nat, x <= y
  PROVE  x \div 100 \in Nat /\ x \div 100 <= y \div 100
  OBVIOUS

(* More instances or more traffic never call for fewer instances.          *)
LEMMA ActiveInstancesGrow ==
  ASSUME NEW d \in Nat, NEW e \in Nat, NEW p \in Nat, NEW q \in Nat, d <= e, p <= q
  PROVE  ActiveInstances(d, p) <= ActiveInstances(e, q)
<1>1. d * p <= e * q /\ d * p \in Nat /\ e * q \in Nat
  <2>1. d * p <= d * q /\ d * q <= e * q
    BY ProductGrows
  <2>2. d * p \in Nat /\ d * q \in Nat /\ e * q \in Nat
    BY ProductIsNat
  <2>. QED  BY <2>1, <2>2
<1>2. (d * p) \div 100 \in Nat /\ (e * q) \div 100 \in Nat /\ (d * p) \div 100 <= (e * q) \div 100
  BY <1>1, DivisionGrows
<1>. QED  BY <1>2 DEF ActiveInstances

(* All of the traffic calls for all of the instances.                      *)
LEMMA ActiveInstancesOfAll ==
  ASSUME NEW d \in Nat, NEW p \in Nat, p <= 100
  PROVE  ActiveInstances(d, p) <= d
<1>1. ActiveInstances(d, p) <= ActiveInstances(d, 100)
  BY ActiveInstancesGrow
<1>2. ActiveInstances(d, 100) = d
  <2>1. (d * 100) \div 100 = d
    OBVIOUS
  <2>. QED  BY <2>1 DEF ActiveInstances
<1>. QED  BY <1>1, <1>2, InstancesAreNat

-----------------------------------------------------------------------------
(* The target.  Its weight is covered by available pods, as long as no     *)
(* user changes the scale and no pod is lost, also when a deployment       *)
(* overtakes another one.                                                  *)

Steady ==
  /\ OnlyAdded /\ Gradual
  /\ "scale" \notin Events /\ "lose" \notin Events
  /\ \A s \in Scales : s.min <= s.max

NewestIn(K, b, k) == k \in K /\ \A j \in K : b[j] <= b[k]

Untouched ==
  \A n \in Names \ live :
    spec[n] = EmptySpec /\ status[n] = EmptyStatus /\ rs[n] = NoReplicaSet /\ routes[n] = 0

(* A release that is on its way up never has more pods than it is asked    *)
(* for, so that none of them is stopped before a plan that counts it is    *)
(* published.                                                              *)
Rises(n) ==
  /\ status[n].numAvailable <= rs[n].avail
  /\ rs[n].avail <= rs[n].replicas
  /\ rs[n].replicas <= spec[n].numDesired

CoveredBy(n, traffic) == traffic * DesiredInstances <= 100 * status[n].numAvailable

NewestRises ==
  \A n \in Names : NewestIn(live, born, n) /\ spec[n].role # "active" =>
                     Rises(n) /\ CoveredBy(n, routes[n])

(* The same of what the pass is about to save and publish.                 *)
PlanRises ==
  \A n \in Names : NewestIn(job.keys, job.born, n) /\ job.spec[n].role # "active" =>
    /\ job.report.numDesired = atStatus.numDesired
    /\ spec[n].numDesired <= job.spec[n].numDesired
    /\ job.outcome = "planned" => CoveredBy(n, job.spec[n].traffic)

PlansForNewest ==
  job.outcome = "planned" =>
    \A n \in job.keys : job.spec[n].role = "target" => NewestIn(job.keys, job.born, n)

(* Only the newest release becomes the active one.                         *)
PromotesNewest ==
  \A n \in job.keys :
    job.spec[n].role = "active" /\ ~(n \in live /\ spec[n].role = "active") =>
      NewestIn(job.keys, job.born, n)

WaitsAsRouted ==
  job.outcome # "planned" /\ job.pc # "reporting" =>
    \A n \in job.keys : job.spec[n].traffic = routes[n]

(* The autoscaler changes the pods of an active release only.              *)
ScalesActive ==
  scaler # NoScaler =>
    /\ scaler.release \in live /\ spec[scaler.release].role = "active"
    /\ job # Idle /\ job.pc \in {"saving", "scaling"} =>
         job.spec[scaler.release].role = "active"

InstancesInv ==
  /\ Untouched
  /\ NewestRises
  /\ job # Idle => PlanRises /\ PlansForNewest /\ PromotesNewest /\ WaitsAsRouted
  /\ ScalesActive

-----------------------------------------------------------------------------
(* The list of a pass and its plan.                                        *)

LEMMA ViewFollows ==
  ASSUME TypeOK, BornInOrder, CurrentIsNewest
  PROVE  /\ \A k \in View.keys : View.status[k] = IF k \in live THEN status[k] ELSE EmptyStatus
         /\ \A k \in View.keys : View.spec[k] = IF k \in live THEN spec[k] ELSE EmptySpec
         /\ \A j, k \in View.keys : View.born[j] = View.born[k] => j = k
<1>. DEFINE n == at.release
<1>1. /\ View.keys = live \cup {n} /\ View.keys \subseteq Names
      /\ \A k \in live : View.born[k] = born[k] /\ View.spec[k] = spec[k]
      /\ n \notin live => View.born[n] = clock + 1 /\ View.spec[n] = EmptySpec
  BY ViewInOrder
<1>2. ~Forced /\ (Creates <=> n \notin live)
  BY NotForced
<1>3. clock \in Nat /\ \A k \in live : born[k] \in Nat
  BY DEF TypeOK
<1>4. \A k \in View.keys : View.status[k] = IF k = n /\ Creates THEN EmptyStatus ELSE status[k]
  <2>1. \A k \in View.keys : k # Old /\ k \in Keys
    BY <1>1, ReleasesAssumption DEF Keys
  <2>2. View.status = [k \in Keys |-> IF k = Old THEN (IF Forced THEN status[n] ELSE EmptyStatus)
                                      ELSE IF k = n /\ Creates THEN EmptyStatus ELSE status[k]]
    BY DEF View
  <2>. HIDE DEF View, n
  <2>. QED  BY <2>1, <2>2
<1>. HIDE DEF View, n
<1>5. \A j, k \in View.keys : View.born[j] = View.born[k] => j = k
  BY <1>1, <1>3 DEF BornInOrder
<1>6. \A k \in View.keys : View.status[k] = IF k \in live THEN status[k] ELSE EmptyStatus
  BY <1>1, <1>2, <1>4
<1>7. \A k \in View.keys : View.spec[k] = IF k \in live THEN spec[k] ELSE EmptySpec
  BY <1>1
<1>. QED  BY <1>5, <1>6, <1>7

(* What a plan makes of a target that shares the traffic.                  *)
LEMMA PlanOfTarget ==
  ASSUME NEW w, IsView(w), NEW d \in Nat, d # 0, Deployable(w) # {},
         NEW t, t = TargetOf(w), ActiveAfter(w, d) # t
  PROVE  /\ PlannedSpec(w, d)[t].traffic * d <= 100 * w.status[t].numAvailable
         /\ w.spec[t].numDesired <= PlannedSpec(w, d)[t].numDesired
         /\ w.spec[t].traffic * d <= 100 * w.status[t].numAvailable =>
              w.spec[t].traffic <= PlannedSpec(w, d)[t].traffic
<1>. DEFINE avail == w.status[t].numAvailable
            had == w.spec[t].traffic
            share == TargetShare(w, d)
<1>1. t # ActiveBefore(w)
  BY DEF ActiveAfter, Promotes
<1>2. t \in w.keys /\ t \in Keys
  BY RolesOfView DEF IsView
<1>3. avail \in Nat /\ had \in 0..100 /\ w.spec[t].numDesired \in Nat
  <2>1. w.spec[t] \in ReleaseSpec /\ w.status[t] \in ReleaseStatus
    BY <1>2 DEF IsView
  <2>. QED  BY <2>1 DEF ReleaseSpec, ReleaseStatus
<1>4. share = LesserOf(AvailableShare(avail, d), had + Ramp)
  BY <1>1 DEF TargetShare
<1>5. AvailableShare(avail, d) \in 0..100 /\ AvailableShare(avail, d) * d <= 100 * avail
  BY <1>3, ShareIsPercentage, ShareIsCovered
<1>6. share \in 0..100 /\ share <= AvailableShare(avail, d)
  <2>. DEFINE x == AvailableShare(avail, d)
  <2>1. x \in 0..100 /\ share = LesserOf(x, had + Ramp) /\ had + Ramp \in Nat
    BY <1>3, <1>4, <1>5, ReleasesAssumption
  <2>. HIDE DEF x, share, had
  <2>2. share \in 0..100 /\ share <= x
    BY <2>1 DEF LesserOf
  <2>. QED  BY <2>2 DEF x
<1>7. share * d <= 100 * avail
  <2>. DEFINE x == AvailableShare(avail, d)
  <2>1. x \in 0..100 /\ share \in 0..100 /\ share <= x /\ x * d <= 100 * avail
    BY <1>5, <1>6
  <2>. HIDE DEF x, share
  <2>2. share * d <= x * d
    BY <2>1, ProductGrows
  <2>3. share * d \in Nat /\ x * d \in Nat /\ 100 * avail \in Nat
    BY <1>3, <2>1, ProductIsNat
  <2>. QED  BY <2>1, <2>2, <2>3
<1>8. had * d <= 100 * avail => had <= share
  <2>. SUFFICES ASSUME had * d <= 100 * avail PROVE had <= share
    OBVIOUS
  <2>. DEFINE x == AvailableShare(avail, d)
  <2>. HIDE DEF avail, had
  <2>1. had <= x
    BY <1>3, CoveredIsShared
  <2>2. x \in 0..100 /\ share = LesserOf(x, had + Ramp)
    BY <1>4, <1>5
  <2>. HIDE DEF x, share
  <2>. QED  BY <1>3, <2>1, <2>2, ReleasesAssumption DEF LesserOf
<1>9. PlannedSpec(w, d)[t].traffic = share
  <2>1. PlannedSpec(w, d)[t].traffic = PlannedTraffic(w, d, t)
    BY <1>2 DEF PlannedSpec
  <2>2. PlannedTraffic(w, d, t) = share - ((share + (100 - share)) - 100)
    BY DEF PlannedTraffic, TotalTraffic
  <2>. HIDE DEF share
  <2>. QED  BY <1>6, <2>1, <2>2
<1>10. w.spec[t].numDesired <= PlannedSpec(w, d)[t].numDesired
  <2>1. PlannedSpec(w, d)[t].numDesired = PlannedInstances(w, d, t)
    BY <1>2 DEF PlannedSpec
  <2>2. PlannedInstances(w, d, t) = GreaterOf(w.spec[t].numDesired, RampInstances(w, d))
    BY <1>1 DEF PlannedInstances, TargetInstances
  <2>3. PlannedInstances(w, d, t) \in Nat
    BY <1>2, InstancesOfView
  <2>. HIDE DEF PlannedInstances
  <2>. QED  BY <1>3, <2>1, <2>2, <2>3 DEF GreaterOf
<1>. QED  BY <1>7, <1>8, <1>9, <1>10

(* What a pass reports, and whether it waits.                              *)
LEMMA PassReports ==
  ASSUME OnlyAdded, IInv, OrderInv, TargetInv, StartPass
  PROVE  /\ job'.outcome = IF Waits(View, atStatus.timer = "fresh") THEN "wait" ELSE "planned"
         /\ job'.outcome = "wait" \/ ActiveAfter(View, DesiredInstances) # TargetOf(View)
              => job'.report.numDesired = atStatus.numDesired
         /\ UNCHANGED <<atStatus, status, rs>>
<1>1. TypeOK /\ BornInOrder /\ CurrentIsNewest /\ job = Idle
  BY DEF IInv, OrderInv, StartPass
<1>2. ~Forced
  BY <1>1, NotForced
<1>3. Deployable(View) # {}
  BY <1>1, GoodView, TargetIsNewest
<1>4. Outcome(View, atStatus.timer = "fresh") =
        IF Waits(View, atStatus.timer = "fresh") THEN "wait" ELSE "planned"
  BY <1>3 DEF Outcome
<1>5. /\ job'.outcome = Outcome(View, atStatus.timer = "fresh")
      /\ job'.report = IF job'.outcome = "planned" THEN Report(View) ELSE SameReport
      /\ UNCHANGED <<atStatus, status, rs>>
  BY <1>2 DEF StartPass
<1>6. ActiveAfter(View, DesiredInstances) # TargetOf(View) =>
        Report(View).numDesired = atStatus.numDesired
  BY DEF Report
<1>7. SameReport.numDesired = atStatus.numDesired
  BY DEF SameReport
<1>. HIDE DEF View
<1>. QED  BY <1>4, <1>5, <1>6, <1>7

(* The only release that is newest in the list of a pass.                  *)
LEMMA TargetOfView ==
  ASSUME IInv, OrderInv, TargetInv, job = Idle
  PROVE  /\ TargetOf(View) \in View.keys
         /\ \A k : NewestIn(View.keys, View.born, k) <=> k = TargetOf(View)
<1>1. /\ IsView(View) /\ View.keys # {} /\ \A k \in View.keys : View.spec[k].role # "bad"
      /\ \A j, k \in View.keys : View.born[j] = View.born[k] => j = k
  BY GoodView, ViewFollows DEF IInv, OrderInv
<1>. DEFINE w == View
            t == TargetOf(w)
<1>. HIDE DEF w
<1>2. t = NewestOf(w.keys, w.born) /\ t \in Kept(w) /\ \A j \in w.keys : w.born[j] <= w.born[t]
  BY <1>1, TargetIsNewest, NewestIsKept DEF w
<1>3. t \in w.keys
  BY <1>2 DEF Kept
<1>4. \A j \in w.keys : w.born[j] \in Nat
  BY <1>1 DEF IsView, w
<1>. HIDE DEF t
<1>5. \A k : NewestIn(w.keys, w.born, k) <=> k = t
  BY <1>1, <1>2, <1>3, <1>4 DEF NewestIn, w
<1>. QED  BY <1>3, <1>5 DEF t, w

(* What the invariant says of the newest release in that list.             *)
LEMMA NewestOfView ==
  ASSUME IInv, OrderInv, TargetInv, InstancesInv, job = Idle,
         View.spec[TargetOf(View)].role # "active"
  PROVE  LET t == TargetOf(View)
         IN  /\ t \in Names /\ View.spec[t] = spec[t] /\ View.status[t] = status[t]
             /\ Rises(t) /\ CoveredBy(t, routes[t])
<1>. DEFINE t == TargetOf(View)
<1>1. /\ t \in View.keys /\ NewestIn(View.keys, View.born, t)
      /\ TypeOK /\ BornInOrder /\ CurrentIsNewest
  BY TargetOfView DEF IInv, OrderInv
<1>2. /\ View.keys = live \cup {at.release} /\ View.keys \subseteq Names
      /\ \A k \in live : View.born[k] = born[k]
  BY <1>1, ViewInOrder
<1>3. /\ View.status[t] = IF t \in live THEN status[t] ELSE EmptyStatus
      /\ View.spec[t] = IF t \in live THEN spec[t] ELSE EmptySpec
  BY <1>1, ViewFollows
<1>4. DesiredInstances \in Nat
  BY <1>1, DesiredIsNat
<1>. HIDE DEF t
<1>5. CASE t \in live
  <2>1. NewestIn(live, born, t)
    BY <1>1, <1>2, <1>5 DEF NewestIn
  <2>. QED  BY <1>1, <1>2, <1>3, <1>5, <2>1 DEF InstancesInv, NewestRises, t
<1>6. CASE t \notin live
  <2>1. spec[t] = EmptySpec /\ status[t] = EmptyStatus /\ rs[t] = NoReplicaSet /\ routes[t] = 0
    BY <1>1, <1>2, <1>6 DEF InstancesInv, Untouched
  <2>2. Rises(t) /\ CoveredBy(t, routes[t])
    <3>1. /\ status[t].numAvailable = 0 /\ spec[t].numDesired = 0
          /\ rs[t].avail = 0 /\ rs[t].replicas = 0
      <4>1. /\ EmptyStatus.numAvailable = 0 /\ EmptySpec.numDesired = 0
            /\ NoReplicaSet.avail = 0 /\ NoReplicaSet.replicas = 0
        BY DEF EmptySpec, EmptyStatus, NoReplicaSet
      <4>. QED  BY <2>1, <4>1
    <3>2. 0 * DesiredInstances = 0
      BY <1>4
    <3>. QED  BY <2>1, <3>1, <3>2 DEF Rises, CoveredBy
  <2>. QED  BY <1>1, <1>2, <1>3, <1>6, <2>1, <2>2 DEF t
<1>. QED  BY <1>5, <1>6 DEF t

LEMMA WaitingPassInstances ==
  ASSUME Steady, IInv, OrderInv, TargetInv, RoutesInv, InstancesInv, StartPass,
         Waits(View, atStatus.timer = "fresh")
  PROVE  InstancesInv'
<1>1. job = Idle /\ BetweenPasses /\ OnlyAdded /\ TypeOK /\ BornInOrder /\ CurrentIsNewest
  BY DEF StartPass, RoutesInv, Steady, IInv, OrderInv
<1>2. /\ job'.pc = "saving" /\ job'.keys = View.keys /\ job'.born = View.born
      /\ job'.spec = View.spec
      /\ UNCHANGED <<at, live, born, spec, routes, scaler>>
  BY <1>1, PassBegins
<1>3. /\ job'.outcome = "wait" /\ job'.report.numDesired = atStatus.numDesired
      /\ UNCHANGED <<atStatus, status, rs>>
  BY <1>1, PassReports
<1>4. /\ View.keys = live \cup {at.release} /\ View.keys \subseteq Names
      /\ \A k \in View.keys : View.spec[k] = IF k \in live THEN spec[k] ELSE EmptySpec
  BY <1>1, ViewInOrder, ViewFollows
<1>5. live # {}
  <2>1. \E k \in View.keys : View.spec[k].role = "active"
    BY DEF Waits, RoleHolder, HavingRole
  <2>2. EmptySpec.role # "active"
    BY DEF EmptySpec
  <2>. HIDE DEF View
  <2>. QED  BY <1>4, <2>1, <2>2
<1>6. \A k \in View.keys : View.spec[k].traffic = routes[k]
  <2>1. PICK a \in live, t \in live : SharedInOrder(spec, live, born, a, t)
    BY <1>1, <1>5 DEF BetweenPasses
  <2>. QED  BY <1>1, <2>1, ListAtStart DEF BetweenPasses
<1>7. DesiredInstances' = DesiredInstances
  BY <1>2, <1>3 DEF DesiredInstances
<1>. HIDE DEF View
<1>8. PlanRises'
  <2>1. \A n \in View.keys : spec[n].numDesired <= View.spec[n].numDesired
    BY <1>1, <1>4 DEF InstancesInv, Untouched, TypeOK, ReleaseSpec
  <2>. QED  BY <1>2, <1>3, <2>1 DEF PlanRises, NewestIn
<1>9. PlansForNewest' /\ PromotesNewest' /\ WaitsAsRouted'
  <2>1. EmptySpec.role # "active"
    BY DEF EmptySpec
  <2>. QED  BY <1>2, <1>3, <1>4, <1>6, <2>1 DEF PlansForNewest, PromotesNewest, WaitsAsRouted
<1>10. ScalesActive'
  BY <1>2, <1>4 DEF InstancesInv, ScalesActive
<1>11. Untouched' /\ NewestRises'
  BY <1>2, <1>3, <1>7 DEF InstancesInv, Untouched, NewestRises, Rises, CoveredBy
<1>. QED  BY <1>8, <1>9, <1>10, <1>11 DEF InstancesInv

LEMMA PlanningPassInstances ==
  ASSUME Steady, IInv, OrderInv, TargetInv, RoutesInv, InstancesInv, StartPass,
         ~Waits(View, atStatus.timer = "fresh")
  PROVE  InstancesInv'
<1>. DEFINE w == View
            d == DesiredInstances
            s == PlannedSpec(w, d)
            T == TargetOf(w)
            A == ActiveAfter(w, d)
<1>1. job = Idle /\ BetweenPasses /\ OnlyAdded /\ Gradual /\ ~at.halted /\ TypeOK
  BY DEF StartPass, RoutesInv, Steady, IInv
<1>2. /\ job'.pc = "saving" /\ job'.keys = w.keys /\ job'.born = w.born
      /\ job'.spec = s
      /\ UNCHANGED <<at, live, born, spec, routes, scaler>>
  BY <1>1, PassBegins
<1>3. /\ job'.outcome = "planned"
      /\ A # T => job'.report.numDesired = atStatus.numDesired
      /\ UNCHANGED <<atStatus, status, rs>>
  BY <1>1, PassReports
<1>4. /\ IsView(w) /\ d \in Nat /\ d # 0 /\ Deployable(w) # {}
      /\ \A k \in w.keys : w.spec[k].role # "bad"
  BY <1>1, GoodView, TargetIsNewest, DesiredIsPositive
<1>5. T \in w.keys /\ \A k : NewestIn(w.keys, w.born, k) <=> k = T
  BY <1>1, TargetOfView
<1>6. w.spec[T].role # "active" =>
        T \in Names /\ w.spec[T] = spec[T] /\ w.status[T] = status[T]
  BY <1>1, NewestOfView
<1>7. d' = d
  BY <1>2, <1>3 DEF DesiredInstances
<1>8. A \in w.keys /\ SharedBetween(s, w.keys, A, T)
  BY <1>4, PlanOfView, RolesOfView
<1>9. A # T => w.spec[T].role # "active" /\ A \in live /\ spec[A].role = "active"
  <2>. SUFFICES ASSUME A # T
                PROVE  w.spec[T].role # "active" /\ A \in live /\ spec[A].role = "active"
    OBVIOUS
  <2>1. live # {}
    <3>1. w.keys = live \cup {at.release}
      BY <1>1, ViewInOrder DEF OrderInv
    <3>. HIDE DEF T, A, w
    <3>. QED  BY <1>5, <1>8, <3>1
  <2>2. PICK a \in live, t \in live : SharedInOrder(spec, live, born, a, t)
    BY <1>1, <2>1 DEF BetweenPasses
  <2>3. /\ SharedInOrder(w.spec, w.keys, w.born, a, t) /\ a \in w.keys /\ t \in w.keys
        /\ \A j, k \in w.keys : w.born[j] = w.born[k] => j = k
    BY <1>1, <2>2, ListAtStart DEF BetweenPasses
  <2>. HIDE DEF w, d
  <2>4. A \in {a, T}
    BY <1>4, <2>3, PlanOfShared
  <2>5. \A k \in w.keys : w.spec[k].role = "active" <=> k = a
    BY <2>3, SharedActive DEF SharedInOrder
  <2>6. spec[a].role = "active"
    BY <2>2 DEF SharedInOrder, SharedBetween
  <2>. HIDE DEF A, T
  <2>. QED  BY <1>5, <2>4, <2>5, <2>6
<1>. HIDE DEF w, d
<1>10. PlanRises'
  <2>. SUFFICES ASSUME s[T].role # "active"
                PROVE  /\ job'.report.numDesired = atStatus.numDesired
                       /\ spec[T].numDesired <= s[T].numDesired
                       /\ s[T].traffic * d <= 100 * status[T].numAvailable
    BY <1>2, <1>3, <1>5, <1>7 DEF PlanRises, CoveredBy, d
  <2>1. A # T
    BY <1>8 DEF SharedBetween
  <2>2. /\ s[T].traffic * d <= 100 * w.status[T].numAvailable
        /\ w.spec[T].numDesired <= s[T].numDesired
    BY <1>4, <2>1, PlanOfTarget
  <2>. HIDE DEF s, T, A
  <2>. QED  BY <1>3, <1>6, <1>9, <2>1, <2>2
<1>11. PlansForNewest' /\ PromotesNewest' /\ WaitsAsRouted'
  <2>. HIDE DEF s, T, A
  <2>1. \A k \in w.keys : /\ s[k].role = "target" => k = T
                          /\ s[k].role = "active" => k = A
    BY <1>5, <1>8, SharedTarget, SharedActive
  <2>. QED  BY <1>2, <1>3, <1>5, <1>9, <2>1 DEF PlansForNewest, PromotesNewest, WaitsAsRouted
<1>12. Untouched' /\ NewestRises'
  <2>. HIDE DEF s, T, A
  <2>. QED  BY <1>2, <1>3, <1>7 DEF InstancesInv, Untouched, NewestRises, Rises, CoveredBy, d
<1>13. ScalesActive'
  <2>. SUFFICES ASSUME scaler # NoScaler
                PROVE  s[scaler.release].role = "active"
    BY <1>2 DEF InstancesInv, ScalesActive
  <2>1. scaler.release \in live /\ spec[scaler.release].role = "active"
    BY DEF InstancesInv, ScalesActive
  <2>2. PICK a \in live, t \in live : SharedInOrder(spec, live, born, a, t)
    BY <1>1, <2>1 DEF BetweenPasses
  <2>3. /\ SharedInOrder(w.spec, w.keys, w.born, a, t) /\ a \in w.keys /\ t \in w.keys
        /\ \A k \in w.keys : w.spec[k].traffic = routes[k]
        /\ \A j, k \in w.keys : w.born[j] = w.born[k] => j = k
    BY <1>1, <2>2, ListAtStart DEF BetweenPasses, w
  <2>4. scaler.release = a
    BY <2>1, <2>2, SharedActive DEF SharedInOrder
  <2>5. A \in {a, T} /\ (A = T => w.spec[T].traffic = 100)
    BY <1>4, <2>3, PlanOfShared
  <2>6. routes[a] = 100
    <3>1. NoTraffic(routes) \/ routes[a] = 100
      BY <1>1, <2>1, <2>4 DEF RoutesInv, ScalerRunsWhenRouted
    <3>2. ~NoTraffic(routes)
      <4>1. t \in Names /\ a \in Names /\ routes[t] \in Nat /\ routes[a] \in Nat
        BY <1>1 DEF TypeOK
      <4>2. w.spec[t].traffic # 0 \/ w.spec[a].traffic # 0
        BY <2>3, <4>1 DEF SharedInOrder, SharedBetween
      <4>. QED  BY <2>3, <4>1, <4>2 DEF NoTraffic
    <3>. QED  BY <3>1, <3>2
  <2>. HIDE DEF s, T, A
  <2>7. A = a
    <3>. SUFFICES ASSUME A = T, T # a PROVE FALSE
      BY <2>5
    <3>1. w.spec[a].traffic = 100 /\ w.spec[T].traffic = 100
      BY <2>3, <2>5, <2>6
    <3>2. t = T
      BY <1>5, <2>3, <3>1 DEF SharedInOrder, SharedBetween
    <3>. QED  BY <2>3, <3>1, <3>2 DEF SharedInOrder, SharedBetween
  <2>. QED  BY <1>8, <2>4, <2>7 DEF SharedBetween
<1>. QED  BY <1>10, <1>11, <1>12, <1>13 DEF InstancesInv

LEMMA StartPassInstances ==
  ASSUME Steady, IInv, OrderInv, TargetInv, RoutesInv, InstancesInv, StartPass
  PROVE  InstancesInv'
  BY WaitingPassInstances, PlanningPassInstances

-----------------------------------------------------------------------------
(* The steps of a pass after its plan.                                     *)

(* The newest release of a pass's list, once it exists.                    *)
LEMMA NewestOfList ==
  ASSUME IInv, OrderInv, RoutesInv, job # Idle, NEW n \in live,
         NewestIn(job.keys, job.born, n), job.spec[n].role # "active"
  PROVE  NewestIn(live, born, n) /\ spec[n].role # "active"
<1>1. job \in Job /\ InOrder /\ Complete /\ DuringPass /\ live \subseteq job.keys
  BY JobIsJob DEF OrderInv, RoutesInv, Complete
<1>2. NewestIn(live, born, n)
  BY <1>1 DEF NewestIn, InOrder
<1>3. PICK a \in job.keys, t \in job.keys : SharedBetween(job.spec, job.keys, a, t)
  BY <1>1 DEF DuringPass, SharedInOrder
<1>4. job.spec[a].role = "active" /\ job.born[a] \in Nat /\ job.born[n] \in Nat
  BY <1>1, <1>3 DEF SharedBetween, Job, InOrder
<1>5. spec[n].role # "active"
  BY <1>1, <1>3, <1>4 DEF DuringPass, ActivesGiveWay, NewestIn
<1>. QED  BY <1>2, <1>5

LEMMA UntouchedRises ==
  ASSUME TypeOK, InstancesInv, NEW n \in Names \ live
  PROVE  Rises(n) /\ CoveredBy(n, routes[n])
<1>1. spec[n] = EmptySpec /\ status[n] = EmptyStatus /\ rs[n] = NoReplicaSet /\ routes[n] = 0
  BY DEF InstancesInv, Untouched
<1>2. /\ EmptyStatus.numAvailable = 0 /\ EmptySpec.numDesired = 0
      /\ NoReplicaSet.avail = 0 /\ NoReplicaSet.replicas = 0
  BY DEF EmptySpec, EmptyStatus, NoReplicaSet
<1>3. 0 * DesiredInstances = 0
  BY DesiredIsNat
<1>. QED  BY <1>1, <1>2, <1>3 DEF Rises, CoveredBy

(* A release whose plan is saved has the pods it had, and is asked for as  *)
(* many as before, or more.                                                *)
LEMMA SaveReleaseInstances ==
  ASSUME IInv, OrderInv, RoutesInv, InstancesInv, SaveRelease
  PROVE  InstancesInv'
<1>. DEFINE k == NewestOf(job.todo, job.born)
<1>1. /\ job # Idle /\ job.pc = "saving" /\ job.todo # {}
      /\ UNCHANGED <<at, atStatus, status, rs, routes, scaler>>
  BY DEF SaveRelease
<1>2. job \in Job /\ ListOK /\ TypeOK /\ InOrder /\ Complete
  BY <1>1, JobIsJob DEF OrderInv
<1>3. k \in job.todo /\ k \in job.keys /\ k \in Names
  BY <1>1, <1>2, NewestIsIn DEF ListOK, InOrder
<1>4. \A j \in job.todo : job.born[j] <= job.born[k]
  BY <1>1, <1>2 DEF ListOK, HasEnds, HasNewest, NewestOf
<1>5. NameOf(k, job.forced) = k
  BY <1>3, ReleasesAssumption DEF NameOf
<1>6. /\ live' = live \cup {k} /\ spec' = [spec EXCEPT ![k] = job.spec[k]]
      /\ IF k \in live THEN UNCHANGED born ELSE born' = [born EXCEPT ![k] = clock + 1]
      /\ job' = [job EXCEPT !.todo = job.todo \ {k}]
  BY <1>5 DEF SaveRelease
<1>. HIDE DEF k
<1>7. /\ job'.keys = job.keys /\ job'.spec = job.spec /\ job'.born = job.born
      /\ job'.outcome = job.outcome /\ job'.report = job.report /\ job'.pc = "saving"
  BY <1>1, <1>2, <1>6 DEF Job
<1>8. spec'[k] = job.spec[k] /\ \A n \in Names \ {k} : spec'[n] = spec[n]
  BY <1>2, <1>3, <1>6 DEF TypeOK
<1>9. born'[k] = job.born[k] /\ \A n \in live : born'[n] = born[n] /\ job.born[n] = born[n]
  BY <1>1, <1>2, <1>3, <1>6 DEF TypeOK, InOrder, Complete
<1>10. DesiredInstances' = DesiredInstances
  BY <1>1 DEF DesiredInstances
<1>11. job.spec[k].numDesired \in Nat
  BY <1>2, <1>3 DEF Job, InOrder, ReleaseSpec
<1>12. Untouched'
  BY <1>1, <1>6, <1>8 DEF InstancesInv, Untouched
<1>13. PlanRises' /\ PlansForNewest' /\ PromotesNewest' /\ WaitsAsRouted'
  <2>1. PlanRises' /\ PlansForNewest' /\ WaitsAsRouted'
    BY <1>1, <1>7, <1>8, <1>10, <1>11
       DEF InstancesInv, PlanRises, PlansForNewest, WaitsAsRouted, NewestIn, CoveredBy
  <2>2. live \subseteq Names
    BY <1>2 DEF TypeOK
  <2>3. \A n \in Names : n \in live /\ spec[n].role = "active" /\ job.spec[n].role = "active"
          => n \in live' /\ spec'[n].role = "active"
    BY <1>6, <1>8
  <2>4. PromotesNewest'
    BY <1>1, <1>7, <2>2, <2>3 DEF InstancesInv, PromotesNewest, NewestIn
  <2>. QED  BY <2>1, <2>4
<1>14. ScalesActive'
  <2>1. live \subseteq Names
    BY <1>2 DEF TypeOK
  <2>. QED  BY <1>1, <1>6, <1>7, <1>8, <2>1 DEF InstancesInv, ScalesActive
<1>15. NewestIn(live', born', k) => NewestIn(job.keys, job.born, k)
  <2>. SUFFICES ASSUME NewestIn(live', born', k), NEW j \in job.keys
                PROVE  job.born[j] <= job.born[k]
    BY <1>3 DEF NewestIn
  <2>1. CASE j \in job.todo
    BY <1>4, <2>1
  <2>2. CASE j \notin job.todo
    BY <1>1, <1>2, <1>6, <1>9, <2>2 DEF NewestIn, Complete
  <2>. QED  BY <2>1, <2>2
<1>16. NewestRises'
  <2>. SUFFICES ASSUME NEW n \in Names, NewestIn(live', born', n), spec'[n].role # "active"
                PROVE  Rises(n)' /\ routes[n] * DesiredInstances <= 100 * status[n].numAvailable
    BY <1>1, <1>10 DEF NewestRises, CoveredBy
  <2>1. CASE n = k
    <3>1. NewestIn(job.keys, job.born, n) /\ job.spec[n].role # "active"
      BY <1>8, <1>15, <2>1
    <3>2. Rises(n) /\ CoveredBy(n, routes[n])
      <4>1. CASE n \in live
        BY <1>1, <3>1, <4>1, NewestOfList DEF InstancesInv, NewestRises
      <4>2. CASE n \notin live
        BY <1>2, <4>2, UntouchedRises
      <4>. QED  BY <4>1, <4>2
    <3>3. spec[n].numDesired <= spec'[n].numDesired
      BY <1>1, <1>8, <2>1, <3>1 DEF InstancesInv, PlanRises
    <3>4. /\ rs[n].replicas \in Nat /\ spec[n].numDesired \in Nat
          /\ spec'[n].numDesired \in Nat
      BY <1>2, <1>8, <1>11, <2>1 DEF TypeOK, ReplicaSet, ReleaseSpec
    <3>. QED  BY <1>1, <3>2, <3>3, <3>4 DEF Rises, CoveredBy
  <2>2. CASE n # k
    <3>1. spec'[n] = spec[n] /\ NewestIn(live, born, n)
      BY <1>6, <1>8, <1>9, <2>2 DEF NewestIn
    <3>. QED  BY <1>1, <3>1 DEF InstancesInv, NewestRises, Rises, CoveredBy
  <2>. QED  BY <2>1, <2>2
<1>. QED  BY <1>1, <1>12, <1>13, <1>14, <1>16 DEF InstancesInv

LEMMA CollectReleasesInstances ==
  ASSUME IInv, RoutesInv, InstancesInv, CollectReleases
  PROVE  InstancesInv'
<1>1. job # Idle /\ job.pc = "saving" /\ TypeOK /\ job \in Job
  BY JobIsJob DEF CollectReleases, IInv
<1>2. {NameOf(k, job.forced) : k \in job.drop} = {}
  BY <1>1 DEF RoutesInv, DuringPass
<1>3. /\ UNCHANGED <<at, atStatus, live, born, spec, routes, scaler>>
      /\ job' = [job EXCEPT !.pc = "scaling"]
  BY CollectReleasesRoutes DEF CollectReleases
<1>4. UNCHANGED <<status, rs>>
  <2>1. status' = [n \in Names |-> status[n]] /\ rs' = [n \in Names |-> rs[n]]
    BY <1>2 DEF CollectReleases
  <2>. QED  BY <1>1, <2>1 DEF TypeOK
<1>5. /\ job'.keys = job.keys /\ job'.spec = job.spec /\ job'.born = job.born
      /\ job'.outcome = job.outcome /\ job'.report = job.report /\ job'.pc = "scaling"
  BY <1>1, <1>3 DEF Job
<1>6. DesiredInstances' = DesiredInstances
  BY <1>3 DEF DesiredInstances
<1>7. Untouched' /\ NewestRises'
  BY <1>3, <1>4, <1>6 DEF InstancesInv, Untouched, NewestRises, Rises, CoveredBy
<1>8. PlanRises' /\ PlansForNewest' /\ PromotesNewest' /\ WaitsAsRouted'
  BY <1>1, <1>3, <1>4, <1>5, <1>6
     DEF InstancesInv, PlanRises, PlansForNewest, PromotesNewest, WaitsAsRouted, CoveredBy
<1>9. ScalesActive'
  BY <1>1, <1>3, <1>5 DEF InstancesInv, ScalesActive
<1>. QED  BY <1>7, <1>8, <1>9 DEF InstancesInv

(* By the time the autoscaler is published, all of the list is saved.      *)
LEMMA AllSaved ==
  ASSUME OrderInv, RoutesInv, job # Idle, job.pc # "saving"
  PROVE  live = job.keys /\ \A k \in live : spec[k] = job.spec[k] /\ born[k] = job.born[k]
  BY DEF OrderInv, Complete, InOrder, RoutesInv, DuringPass

LEMMA PublishScalerInstances ==
  ASSUME Steady, IInv, OrderInv, RoutesInv, InstancesInv, PublishScaler
  PROVE  InstancesInv'
<1>1. /\ job # Idle /\ job.pc = "scaling" /\ job \in Job
      /\ UNCHANGED <<at, atStatus, live, born, spec, status, rs, routes>>
      /\ job' = [job EXCEPT !.pc = "routing"]
  BY JobIsJob DEF PublishScaler
<1>2. /\ job'.keys = job.keys /\ job'.spec = job.spec /\ job'.born = job.born
      /\ job'.outcome = job.outcome /\ job'.report = job.report
      /\ job'.pc = "routing" /\ job' # Idle
  <2>1. Idle.pc = "idle"
    BY DEF Idle
  <2>. QED  BY <1>1, <2>1 DEF Job
<1>3. ScalerOfOnlyOne'
  BY <1>2, PublishScalerRoutes DEF RoutesInv, Steady
<1>4. ScalesActive'
  BY <1>1, <1>2, <1>3, AllSaved DEF ScalerOfOnlyOne, ScalesActive
<1>5. DesiredInstances' = DesiredInstances
  BY <1>1 DEF DesiredInstances
<1>6. Untouched' /\ NewestRises'
  BY <1>1, <1>5 DEF InstancesInv, Untouched, NewestRises, Rises, CoveredBy
<1>7. PlanRises' /\ PlansForNewest' /\ PromotesNewest' /\ WaitsAsRouted'
  BY <1>1, <1>2, <1>5
     DEF InstancesInv, PlanRises, PlansForNewest, PromotesNewest, WaitsAsRouted, CoveredBy
<1>. QED  BY <1>4, <1>6, <1>7 DEF InstancesInv

LEMMA PublishRoutesInstances ==
  ASSUME IInv, OrderInv, RoutesInv, InstancesInv, PublishRoutes
  PROVE  InstancesInv'
<1>1. /\ job # Idle /\ job.pc = "routing" /\ job \in Job
      /\ UNCHANGED <<at, atStatus, live, born, spec, status, rs, scaler>>
      /\ job' = [job EXCEPT !.pc = "reporting"]
  BY JobIsJob DEF PublishRoutes
<1>2. /\ \A n \in Names : routes'[n] = IF n \in job.keys THEN job.spec[n].traffic ELSE 0
      /\ job'.keys = job.keys /\ job'.spec = job.spec /\ job'.pc = "reporting"
  BY PublishedRoutes DEF RoutesFollow
<1>3. job'.born = job.born /\ job'.outcome = job.outcome /\ job'.report = job.report
  BY <1>1 DEF Job
<1>4. live = job.keys /\ \A k \in live : spec[k] = job.spec[k] /\ born[k] = job.born[k]
  BY <1>1, AllSaved
<1>5. DesiredInstances' = DesiredInstances
  BY <1>1 DEF DesiredInstances
<1>6. Untouched'
  BY <1>1, <1>2, <1>4 DEF InstancesInv, Untouched
<1>7. NewestRises'
  <2>. SUFFICES ASSUME NEW n \in Names, NewestIn(live, born, n), spec[n].role # "active"
                PROVE  Rises(n) /\ CoveredBy(n, routes'[n])
    BY <1>1, <1>5 DEF NewestRises, Rises, CoveredBy
  <2>1. Rises(n) /\ CoveredBy(n, routes[n])
    BY DEF InstancesInv, NewestRises
  <2>2. /\ n \in job.keys /\ NewestIn(job.keys, job.born, n) /\ job.spec[n].role # "active"
        /\ routes'[n] = job.spec[n].traffic
    BY <1>2, <1>4 DEF NewestIn
  <2>3. CASE job.outcome = "planned"
    BY <1>1, <2>1, <2>2, <2>3 DEF InstancesInv, PlanRises
  <2>4. CASE job.outcome # "planned"
    BY <1>1, <2>1, <2>2, <2>4 DEF InstancesInv, WaitsAsRouted
  <2>. QED  BY <2>3, <2>4
<1>8. PlanRises' /\ PlansForNewest' /\ PromotesNewest' /\ WaitsAsRouted'
  BY <1>1, <1>2, <1>3, <1>5
     DEF InstancesInv, PlanRises, PlansForNewest, PromotesNewest, WaitsAsRouted, CoveredBy
<1>9. ScalesActive'
  BY <1>1, <1>2 DEF InstancesInv, ScalesActive
<1>. QED  BY <1>6, <1>7, <1>8, <1>9 DEF InstancesInv

(* The instances that the autoscaler settled on are reported only when no  *)
(* rollout is under way.                                                   *)
LEMMA WriteStatusInstances ==
  ASSUME IInv, OrderInv, RoutesInv, InstancesInv, WriteStatus
  PROVE  InstancesInv'
<1>1. /\ job # Idle /\ job.pc = "reporting" /\ job' = Idle
      /\ atStatus'.numDesired = job.report.numDesired
      /\ UNCHANGED <<at, live, born, spec, status, rs, routes, scaler>>
  BY DEF WriteStatus
<1>2. live = job.keys /\ \A k \in live : spec[k] = job.spec[k] /\ born[k] = job.born[k]
  BY <1>1, AllSaved
<1>3. ASSUME NEW n \in Names, NewestIn(live, born, n), spec[n].role # "active"
      PROVE  DesiredInstances' = DesiredInstances
  <2>1. NewestIn(job.keys, job.born, n) /\ job.spec[n].role # "active"
    BY <1>2, <1>3 DEF NewestIn
  <2>2. atStatus'.numDesired = atStatus.numDesired
    BY <1>1, <2>1 DEF InstancesInv, PlanRises
  <2>. QED  BY <1>1, <2>2 DEF DesiredInstances
<1>4. NewestRises'
  BY <1>1, <1>3 DEF InstancesInv, NewestRises, Rises, CoveredBy
<1>5. Untouched' /\ ScalesActive'
  BY <1>1 DEF InstancesInv, Untouched, ScalesActive
<1>. QED  BY <1>1, <1>4, <1>5 DEF InstancesInv

-----------------------------------------------------------------------------
(* The steps that are not part of a pass.                                  *)

LEMMA AppStays ==
  ASSUME Steady, IInv, [Next]_vars, ~WriteStatus
  PROVE  /\ at'.scale = at.scale /\ atStatus'.numDesired = atStatus.numDesired
         /\ DesiredInstances' = DesiredInstances
<1>1. ~Rescale
  BY DEF Rescale, EditApp, Steady
<1>2. TypeOK /\ at'.halted = at.halted
  BY OnlyUsersHalt DEF IInv, Steady, Gradual
<1>3. at'.scale = at.scale /\ atStatus'.numDesired = atStatus.numDesired
  <2>1. CASE DeployNew \/ DeployAgain \/ Halt
    BY <1>2, <2>1 DEF DeployNew, DeployAgain, Halt, EditApp, TypeOK, AppTargetSpec
  <2>2. CASE \/ StartPass \/ SaveRelease \/ CollectReleases \/ PublishScaler \/ PublishRoutes
             \/ PassFails
    BY <2>2 DEF StartPass, SaveRelease, CollectReleases, PublishScaler, PublishRoutes, PassFails
  <2>3. CASE \E n \in Names : SyncRelease(n) \/ SyncReleaseFails(n)
    BY <2>3 DEF SyncRelease, SyncReleaseFails
  <2>4. CASE \E n \in Names : PodBecomesAvailable(n) \/ PodStops(n) \/ PodIsLost(n)
    BY <2>4 DEF PodBecomesAvailable, PodStops, PodIsLost
  <2>5. CASE AutoscalerScales
    BY <2>5 DEF AutoscalerScales
  <2>6. CASE RolloutTimerElapses
    BY <1>2, <2>6 DEF RolloutTimerElapses, TypeOK, AppTargetStatus
  <2>7. CASE \E n \in Names : StateSettles(n) \/ ReleaseAges(n)
    BY <2>7 DEF StateSettles, ReleaseAges
  <2>8. CASE ConfirmRollback \/ \E n \in Names : ChooseRollback(n)
    BY <2>8 DEF ChooseRollback, ConfirmRollback
  <2>9. CASE UNCHANGED vars
    BY <2>9 DEF vars
  <2>. QED  BY <1>1, <2>1, <2>2, <2>3, <2>4, <2>5, <2>6, <2>7, <2>8, <2>9 DEF Next
<1>. QED  BY <1>2, <1>3 DEF DesiredInstances

(* What a step has to show that changes nothing but pods and reports.      *)
LEMMA PodsSuffice ==
  ASSUME IInv, TypeOK', OrderInv, RoutesInv, InstancesInv,
         UNCHANGED <<live, born, spec, routes, scaler, job>>,
         atStatus'.numDesired = atStatus.numDesired, DesiredInstances' = DesiredInstances,
         \A n \in Names \ live : status'[n] = status[n] /\ rs'[n] = rs[n],
         \A n \in live : NewestIn(live, born, n) /\ spec[n].role # "active" =>
                           Rises(n)' /\ status[n].numAvailable <= status'[n].numAvailable
  PROVE  InstancesInv'
<1>1. TypeOK /\ live \subseteq Names /\ DesiredInstances \in Nat
  BY DesiredIsNat DEF IInv, TypeOK
<1>2. ASSUME NEW n \in Names, NEW x \in Nat, CoveredBy(n, x),
             status[n].numAvailable <= status'[n].numAvailable
      PROVE  CoveredBy(n, x)'
  <2>1. status[n].numAvailable \in Nat /\ status'[n].numAvailable \in Nat
    BY <1>1 DEF TypeOK, ReleaseStatus
  <2>2. x * DesiredInstances \in Nat
    BY <1>1, ProductIsNat
  <2>. QED  BY <1>2, <2>1, <2>2 DEF CoveredBy
<1>3. Untouched'
  BY DEF InstancesInv, Untouched
<1>4. NewestRises'
  <2>. SUFFICES ASSUME NEW n \in Names, NewestIn(live, born, n), spec[n].role # "active"
                PROVE  Rises(n)' /\ CoveredBy(n, routes[n])'
    BY DEF NewestRises
  <2>1. CoveredBy(n, routes[n]) /\ n \in live /\ routes[n] \in Nat
    BY <1>1 DEF InstancesInv, NewestRises, NewestIn, TypeOK
  <2>. QED  BY <1>2, <2>1
<1>5. ASSUME job # Idle
      PROVE  PlanRises' /\ PlansForNewest' /\ PromotesNewest' /\ WaitsAsRouted'
  <2>1. PlanRises /\ PlansForNewest /\ PromotesNewest /\ WaitsAsRouted /\ job \in Job
    BY <1>5, JobIsJob DEF InstancesInv
  <2>2. PlanRises'
    <3>. SUFFICES ASSUME NEW n \in Names, NewestIn(job.keys, job.born, n),
                         job.spec[n].role # "active", job.outcome = "planned"
                  PROVE  CoveredBy(n, job.spec[n].traffic)'
      BY <2>1 DEF PlanRises
    <3>1. CoveredBy(n, job.spec[n].traffic)
      BY <2>1 DEF PlanRises
    <3>2. job.spec[n].traffic \in Nat
      BY <2>1 DEF Job, ReleaseSpec, Keys
    <3>3. status[n].numAvailable <= status'[n].numAvailable
      <4>1. CASE n \in live
        BY <1>5, <4>1, NewestOfList
      <4>2. CASE n \notin live
        BY <1>1, <4>2 DEF TypeOK, ReleaseStatus
      <4>. QED  BY <4>1, <4>2
    <3>. QED  BY <1>2, <3>1, <3>2, <3>3
  <2>. QED  BY <2>1, <2>2 DEF PlansForNewest, PromotesNewest, WaitsAsRouted
<1>6. ScalesActive'
  BY DEF InstancesInv, ScalesActive
<1>. QED  BY <1>3, <1>4, <1>5, <1>6 DEF InstancesInv

(* The release controller gives a release that rises at least the replicas *)
(* it had, and reports all of its available pods.                          *)
LEMMA SyncReleaseInstances ==
  ASSUME Steady, IInv, OrderInv, RoutesInv, InstancesInv, NEW n \in Names, SyncRelease(n),
         [Next]_vars, ~WriteStatus
  PROVE  InstancesInv'
<1>1. TypeOK /\ TypeOK' /\ n \in live /\ live \subseteq Names
  BY StepIInv DEF IInv, SyncRelease, TypeOK
<1>2. UNCHANGED <<live, born, spec, routes, scaler, job>>
  BY DEF SyncRelease
<1>3. /\ rs'[n] = IF spec[n].numDesired = 0 THEN NoReplicaSet
                  ELSE [rs[n] EXCEPT !.replicas = ReplicasAfter(n)]
      /\ status'[n].numAvailable = Reported(n).avail
      /\ \A m \in Names \ {n} : status'[m] = status[m] /\ rs'[m] = rs[m]
  BY <1>1 DEF SyncRelease, SyncReplicas, TypeOK
<1>4. ASSUME spec[n].role # "active", Rises(n)
      PROVE  Rises(n)' /\ status[n].numAvailable <= status'[n].numAvailable
  <2>1. /\ rs[n] \in ReplicaSet /\ status[n].numAvailable \in Nat
        /\ spec[n].numDesired \in Nat /\ spec'[n] = spec[n]
    BY <1>1, <1>2 DEF TypeOK, ReleaseSpec, ReleaseStatus
  <2>2. rs[n].avail \in Nat /\ rs[n].replicas \in Nat
    BY <2>1 DEF ReplicaSet
  <2>3. CASE spec[n].numDesired = 0
    <3>1. rs'[n].avail = 0 /\ rs'[n].replicas = 0 /\ status'[n].numAvailable = 0
      BY <1>3, <1>4, <2>3 DEF Reported, NoReplicaSet
    <3>2. status[n].numAvailable = 0
      BY <1>4, <2>1, <2>2, <2>3 DEF Rises
    <3>. QED  BY <2>1, <2>3, <3>1, <3>2 DEF Rises
  <2>4. CASE spec[n].numDesired # 0
    <3>1. ReplicasAfter(n) = spec[n].numDesired
      BY <1>4 DEF ReplicasAfter, LeftToScaler
    <3>2. rs'[n].avail = rs[n].avail /\ rs'[n].replicas = spec[n].numDesired
      BY <1>3, <2>1, <2>4, <3>1 DEF ReplicaSet
    <3>3. status'[n].numAvailable = rs[n].avail
      BY <1>3, <2>4 DEF Reported
    <3>. QED  BY <1>4, <2>1, <2>2, <3>2, <3>3 DEF Rises
  <2>. QED  BY <2>3, <2>4
<1>5. \A m \in live : NewestIn(live, born, m) /\ spec[m].role # "active" =>
                        Rises(m)' /\ status[m].numAvailable <= status'[m].numAvailable
  <2>. SUFFICES ASSUME NEW m \in live, NewestIn(live, born, m), spec[m].role # "active"
                PROVE  Rises(m)' /\ status[m].numAvailable <= status'[m].numAvailable
    OBVIOUS
  <2>1. Rises(m)
    BY <1>1 DEF InstancesInv, NewestRises
  <2>2. CASE m = n
    BY <1>4, <2>1, <2>2
  <2>3. CASE m # n
    <3>1. status'[m] = status[m] /\ rs'[m] = rs[m] /\ spec'[m] = spec[m] /\ m \in Names
      BY <1>1, <1>2, <1>3, <2>3
    <3>2. status[m].numAvailable \in Nat
      BY <1>1, <3>1 DEF TypeOK, ReleaseStatus
    <3>. QED  BY <2>1, <3>1, <3>2 DEF Rises
  <2>. QED  BY <2>2, <2>3
<1>. QED  BY <1>1, <1>2, <1>3, <1>5, AppStays, PodsSuffice

(* Pods of such a release start, and none of them is stopped: it never has *)
(* more than it is asked for.                                              *)
LEMMA PodsInstances ==
  ASSUME Steady, IInv, OrderInv, RoutesInv, InstancesInv, NEW n \in Names,
         PodBecomesAvailable(n) \/ PodStops(n) \/ PodIsLost(n),
         [Next]_vars, ~WriteStatus
  PROVE  InstancesInv'
<1>1. TypeOK /\ TypeOK' /\ live \subseteq Names /\ ~PodIsLost(n)
  BY StepIInv DEF IInv, PodIsLost, TypeOK, Steady
<1>2. UNCHANGED <<live, born, spec, status, routes, scaler, job>>
  BY DEF PodBecomesAvailable, PodStops, PodIsLost
<1>3. rs[n] \in ReplicaSet /\ rs[n].avail \in Nat /\ rs[n].replicas \in Nat
  BY <1>1 DEF TypeOK, ReplicaSet
<1>4. /\ \A m \in Names \ {n} : rs'[m] = rs[m]
      /\ rs'[n].replicas = rs[n].replicas
      /\ PodBecomesAvailable(n) => rs'[n].avail = rs[n].avail + 1 /\ rs[n].avail < rs[n].replicas
      /\ PodStops(n) => rs[n].avail > rs[n].replicas
  BY <1>1, <1>3 DEF PodBecomesAvailable, PodStops, TypeOK, ReplicaSet
<1>5. ASSUME Rises(n)
      PROVE  PodBecomesAvailable(n) /\ Rises(n)'
  <2>1. PodBecomesAvailable(n)
    BY <1>1, <1>3, <1>4, <1>5 DEF Rises
  <2>2. status[n].numAvailable \in Nat /\ spec[n].numDesired \in Nat
    BY <1>1 DEF TypeOK, ReleaseStatus, ReleaseSpec
  <2>. QED  BY <1>2, <1>3, <1>4, <1>5, <2>1, <2>2 DEF Rises
<1>6. n \in live
  <2>. SUFFICES ASSUME n \notin live PROVE FALSE
    OBVIOUS
  <2>1. rs[n].avail = 0 /\ rs[n].replicas = 0
    BY DEF InstancesInv, Untouched, NoReplicaSet
  <2>. QED  BY <1>1, <1>4, <2>1
<1>7. \A m \in live : NewestIn(live, born, m) /\ spec[m].role # "active" =>
                        Rises(m)' /\ status[m].numAvailable <= status'[m].numAvailable
  <2>. SUFFICES ASSUME NEW m \in live, NewestIn(live, born, m), spec[m].role # "active"
                PROVE  Rises(m)' /\ status[m].numAvailable <= status'[m].numAvailable
    OBVIOUS
  <2>1. Rises(m) /\ status[m].numAvailable \in Nat
    BY <1>1 DEF InstancesInv, NewestRises, TypeOK, ReleaseStatus
  <2>. QED  BY <1>1, <1>2, <1>4, <1>5, <2>1 DEF Rises
<1>. QED  BY <1>1, <1>2, <1>4, <1>6, <1>7, AppStays, PodsSuffice

LEMMA AutoscalerInstances ==
  ASSUME Steady, IInv, OrderInv, RoutesInv, InstancesInv, AutoscalerScales,
         [Next]_vars, ~WriteStatus
  PROVE  InstancesInv'
<1>1. TypeOK /\ TypeOK' /\ live \subseteq Names
  BY StepIInv DEF IInv, TypeOK
<1>2. /\ UNCHANGED <<live, born, spec, status, routes, scaler, job>>
      /\ scaler # NoScaler
  BY DEF AutoscalerScales
<1>. DEFINE n == scaler.release
<1>3. n \in live /\ spec[n].role = "active"
  BY <1>2 DEF InstancesInv, ScalesActive
<1>4. \A m \in Names \ {n} : rs'[m] = rs[m]
  BY <1>1 DEF AutoscalerScales, TypeOK
<1>. HIDE DEF n
<1>5. \A m \in live : NewestIn(live, born, m) /\ spec[m].role # "active" =>
                        Rises(m)' /\ status[m].numAvailable <= status'[m].numAvailable
  BY <1>1, <1>2, <1>3, <1>4 DEF InstancesInv, NewestRises, Rises, TypeOK, ReleaseStatus
<1>. QED  BY <1>1, <1>2, <1>3, <1>4, <1>5, AppStays, PodsSuffice

LEMMA OthersInstances ==
  ASSUME Steady, IInv, OrderInv, TargetInv, RoutesInv, InstancesInv, [Next]_vars, ~Passing
  PROVE  InstancesInv'
<1>1. /\ UNCHANGED <<live, born, spec, routes, scaler, job>> /\ ~WriteStatus
      /\ TypeOK /\ TypeOK' /\ live \subseteq Names
  BY OthersKeepRoutes, StepIInv DEF Steady, IInv, TypeOK, Passing
<1>2. CASE \E n \in Names : SyncRelease(n)
  BY <1>1, <1>2, SyncReleaseInstances
<1>3. CASE \E n \in Names : PodBecomesAvailable(n) \/ PodStops(n) \/ PodIsLost(n)
  BY <1>1, <1>3, PodsInstances
<1>4. CASE AutoscalerScales
  BY <1>1, <1>4, AutoscalerInstances
<1>5. CASE /\ ~ \E n \in Names : SyncRelease(n)
           /\ ~ \E n \in Names : PodBecomesAvailable(n) \/ PodStops(n) \/ PodIsLost(n)
           /\ ~AutoscalerScales
  <2>1. ~PassFails /\ ~ \E n \in Names : SyncReleaseFails(n)
    BY DEF PassFails, SyncReleaseFails, Steady, OnlyAdded, NoFailures
  <2>2. /\ UNCHANGED rs
        /\ \A n \in Names \ live : status'[n] = status[n]
        /\ \A n \in Names : status'[n].numAvailable = status[n].numAvailable
    <3>1. CASE \E n \in Names : StateSettles(n)
      BY <1>1, <3>1 DEF StateSettles, TypeOK, ReleaseStatus
    <3>2. CASE \E n \in Names : ReleaseAges(n)
      BY <3>2 DEF ReleaseAges
    <3>3. CASE RolloutTimerElapses
      BY <3>3 DEF RolloutTimerElapses
    <3>4. CASE DeployNew \/ DeployAgain \/ Halt \/ Rescale
      BY <3>4 DEF DeployNew, DeployAgain, Halt, Rescale, EditApp
    <3>5. CASE ConfirmRollback \/ \E n \in Names : ChooseRollback(n)
      BY <3>5 DEF ChooseRollback, ConfirmRollback
    <3>6. CASE UNCHANGED vars
      BY <3>6 DEF vars
    <3>. QED  BY <1>5, <2>1, <3>1, <3>2, <3>3, <3>4, <3>5, <3>6 DEF Next, Passing
  <2>3. \A m \in live : NewestIn(live, born, m) /\ spec[m].role # "active" =>
                          Rises(m)' /\ status[m].numAvailable <= status'[m].numAvailable
    BY <1>1, <2>2 DEF InstancesInv, NewestRises, Rises, TypeOK, ReleaseStatus
  <2>. QED  BY <1>1, <2>2, <2>3, AppStays, PodsSuffice
<1>. QED  BY <1>2, <1>3, <1>4, <1>5

LEMMA StepInstances ==
  ASSUME Steady, IInv, OrderInv, TargetInv, RoutesInv, InstancesInv, [Next]_vars
  PROVE  InstancesInv'
  BY StartPassInstances, SaveReleaseInstances, CollectReleasesInstances, PublishScalerInstances,
     PublishRoutesInstances, WriteStatusInstances, OthersInstances DEF Passing

LEMMA InstancesInvariance ==
  ASSUME Steady
  PROVE  Spec => []InstancesInv
<1>1. Init => InstancesInv
  BY DEF Init, InstancesInv, Untouched, NewestRises, NewestIn, ScalesActive
<1>2. IInv /\ OrderInv /\ TargetInv /\ RoutesInv /\ InstancesInv /\ [Next]_vars => InstancesInv'
  BY StepInstances
<1>. QED
  BY <1>1, <1>2, Invariance, OrderInvariance, TargetInvariance, RoutesInvariance, PTL
     DEF Spec, Steady, OnlyAdded

-----------------------------------------------------------------------------
(* Theorems.                                                               *)

(* The scale of the app, of which every plan makes the desired instances.  *)
LEMMA ScaleIsMet ==
  ASSUME Steady, IInv, RoutesInv
  PROVE  /\ at.scale.min \in Nat /\ at.scale.min > 0
         /\ DesiredInstances \in Nat /\ at.scale.min <= DesiredInstances
<1>1. TypeOK /\ ~at.halted /\ at.scale \in Scales
  BY DEF IInv, TypeOK, AppTargetSpec, RoutesInv, Steady
<1>2. /\ at.scale.min \in Nat /\ at.scale.max \in Nat /\ atStatus.numDesired \in Nat
      /\ at.scale.min > 0 /\ at.scale.min <= at.scale.max
  BY <1>1, RolloutAssumption DEF TypeOK, AppTargetStatus, Steady, Gradual
<1>. QED  BY <1>1, <1>2 DEF DesiredInstances, LesserOf, GreaterOf

(* What a covered weight says of the pods themselves.                      *)
LEMMA CoveredByPods ==
  ASSUME Steady, IInv, RoutesInv, NEW n \in Names, NEW x \in Nat, CoveredBy(n, x), Rises(n)
  PROVE  x * at.scale.min <= 100 * rs[n].avail
<1>1. /\ status[n].numAvailable \in Nat /\ rs[n].avail \in Nat
      /\ status[n].numAvailable <= rs[n].avail
  BY DEF IInv, TypeOK, ReleaseStatus, ReplicaSet, Rises
<1>2. x * at.scale.min <= x * DesiredInstances
  BY ScaleIsMet, ProductGrows
<1>3. x * at.scale.min \in Nat /\ x * DesiredInstances \in Nat
  BY ScaleIsMet, ProductIsNat
<1>. QED  BY <1>1, <1>2, <1>3 DEF CoveredBy

LEMMA PublishedTarget ==
  ASSUME Steady, IInv, OrderInv, RoutesInv, InstancesInv, PublishRoutes,
         NEW n \in Names, n \in job.keys, job.spec[n].role = "target",
         job.outcome = "planned"
  PROVE  routes'[n] \in Nat /\ routes'[n] * at.scale.min <= 100 * rs[n].avail
<1>1. /\ job # Idle /\ job.pc = "routing" /\ job \in Job
  BY JobIsJob DEF PublishRoutes
<1>2. live = job.keys /\ \A k \in live : spec[k] = job.spec[k] /\ born[k] = job.born[k]
  BY <1>1, AllSaved
<1>3. routes'[n] = job.spec[n].traffic /\ routes'[n] \in Nat
  <2>1. job.spec[n].traffic \in Nat
    BY <1>1 DEF Job, ReleaseSpec, Keys
  <2>. QED  BY <2>1, PublishedRoutes DEF RoutesFollow
<1>4. NewestIn(job.keys, job.born, n)
  BY <1>1 DEF InstancesInv, PlansForNewest
<1>5. CoveredBy(n, job.spec[n].traffic)
  BY <1>1, <1>4 DEF InstancesInv, PlanRises
<1>6. Rises(n)
  BY <1>2, <1>4 DEF InstancesInv, NewestRises, NewestIn
<1>. QED  BY <1>3, <1>5, <1>6, CoveredByPods

(* The published weight of a target release is covered by pods that are    *)
(* available when it is published, although the plan counted those of an   *)
(* earlier report: for any number of releases, any scale and increment,    *)
(* with an autoscaler, and also when a deployment overtakes another one    *)
(* (deployReleases, newVirtualService, reconcileReplicaSet).               *)
THEOREM TargetsCarryTheirWeight ==
  ASSUME Steady
  PROVE  Spec => TargetCarriesItsWeight
<1>1. IInv /\ OrderInv /\ RoutesInv /\ InstancesInv /\ [Next]_vars =>
        [\A n \in Names :
           PublishRoutes /\ job.outcome = "planned" /\ job.report.phase = "deploying"
             /\ n \in job.keys /\ job.spec[n].role = "target"
           => routes'[n] * at.scale.min <= 100 * rs[n].avail]_vars
  BY PublishedTarget
<1>. QED
  BY <1>1, Invariance, OrderInvariance, RoutesInvariance, InstancesInvariance, PTL
     DEF Spec, TargetCarriesItsWeight, Steady, OnlyAdded

(* The pass that promotes a release finds all traffic routed to it, and    *)
(* saves it while as many of its pods are available as the scale needs.    *)
LEMMA PromotedRelease ==
  ASSUME Steady, IInv, OrderInv, RoutesInv, InstancesInv, SaveRelease,
         NEW n \in Names, spec[n].role = "target", spec'[n].role = "active",
         NEW m \in live, spec[m].role = "active"
  PROVE  routes[n] = 100 /\ at.scale.min <= rs[n].avail
<1>. DEFINE k == NewestOf(job.todo, job.born)
<1>1. job # Idle /\ job.pc = "saving" /\ job.todo # {}
  BY DEF SaveRelease
<1>2. job \in Job /\ ListOK /\ TypeOK /\ InOrder /\ Complete /\ ReplacesWhenRouted
  BY <1>1, JobIsJob DEF OrderInv, RoutesInv, Steady
<1>3. k \in job.todo /\ k \in job.keys /\ k \in Names
  BY <1>1, <1>2, NewestIsIn DEF ListOK, InOrder
<1>4. NameOf(k, job.forced) = k
  BY <1>3, ReleasesAssumption DEF NameOf
<1>5. spec' = [spec EXCEPT ![k] = job.spec[k]]
  BY <1>4 DEF SaveRelease
<1>. HIDE DEF k
<1>6. n \in job.keys /\ job.spec[n].role = "active"
  BY <1>2, <1>3, <1>5 DEF TypeOK
<1>7. routes[n] = 100
  BY <1>1, <1>2, <1>6 DEF ReplacesWhenRouted
<1>8. n \in live
  <2>1. EmptySpec.role # "target"
    BY DEF EmptySpec
  <2>. QED  BY <2>1 DEF InstancesInv, Untouched
<1>9. NewestIn(job.keys, job.born, n)
  BY <1>1, <1>6 DEF InstancesInv, PromotesNewest
<1>10. NewestIn(live, born, n)
  BY <1>1, <1>2, <1>8, <1>9 DEF NewestIn, InOrder, Complete
<1>11. Rises(n) /\ CoveredBy(n, 100)
  BY <1>7, <1>10 DEF InstancesInv, NewestRises
<1>12. 100 * at.scale.min <= 100 * rs[n].avail
  BY <1>11, CoveredByPods
<1>13. at.scale.min \in Nat /\ rs[n].avail \in Nat
  BY <1>2, ScaleIsMet DEF TypeOK, ReplicaSet
<1>. QED  BY <1>7, <1>12, <1>13

(* The roles of the saved releases change only when a pass saves one.      *)
LEMMA OnlySavesChange ==
  ASSUME OnlyAdded, IInv, OrderInv, TargetInv, RoutesInv, [Next]_vars, ~SaveRelease
  PROVE  UNCHANGED <<live, spec>>
<1>1. CASE StartPass
  BY <1>1, PassBegins
<1>2. CASE CollectReleases
  BY <1>2, CollectReleasesRoutes
<1>3. CASE PublishScaler \/ PublishRoutes \/ WriteStatus
  BY <1>3 DEF PublishScaler, PublishRoutes, WriteStatus
<1>. QED  BY <1>1, <1>2, <1>3, OthersKeepRoutes DEF Passing

(* A release takes over only after all traffic was routed to it, with as   *)
(* many available pods as the scale needs, for any number of releases and  *)
(* also when deployments overtake each other (deployReleases).  That no    *)
(* user changes the scale is needed: a target asked for two instances gets *)
(* all traffic with one pod after the scale went down to one, and is       *)
(* promoted with it although the scale went up to two again.               *)
THEOREM PromotionsAreRouted ==
  ASSUME Steady
  PROVE  Spec => PromotedWhenRouted
<1>1. ASSUME IInv, OrderInv, TargetInv, RoutesInv, InstancesInv, [Next]_vars,
             NEW n \in Names, spec[n].role = "target", spec'[n].role = "active",
             \E m \in live : spec[m].role = "active"
      PROVE  routes[n] = 100 /\ rs[n].avail >= LesserOf(spec[n].numDesired, at.scale.min)
  <2>1. SaveRelease
    BY <1>1, OnlySavesChange DEF Steady
  <2>2. routes[n] = 100 /\ at.scale.min <= rs[n].avail
    BY <1>1, <2>1, PromotedRelease
  <2>3. /\ at.scale.min \in Nat /\ rs[n].avail \in Nat /\ spec[n].numDesired \in Nat
    BY <1>1, ScaleIsMet DEF IInv, TypeOK, ReplicaSet, ReleaseSpec
  <2>. QED  BY <2>2, <2>3 DEF LesserOf
<1>2. IInv /\ OrderInv /\ TargetInv /\ RoutesInv /\ InstancesInv /\ [Next]_vars =>
        [\A n \in Names :
           /\ spec[n].role = "target" /\ spec'[n].role = "active"
           /\ job.spec[n].numDesired # 0
           /\ \E m \in live : spec[m].role = "active"
           => routes[n] = 100 /\ rs[n].avail >= LesserOf(spec[n].numDesired, at.scale.min)]_vars
  BY <1>1
<1>. QED
  BY <1>2, Invariance, OrderInvariance, TargetInvariance, RoutesInvariance,
     InstancesInvariance, PTL
     DEF Spec, PromotedWhenRouted, Steady, OnlyAdded

-----------------------------------------------------------------------------
(* The releases that give traffic away.  Nothing protects them when a      *)
(* deployment overtakes another one, so rollouts follow one another here.  *)

RolloutUnderWay == HasTarget(spec, live) \/ (job # Idle /\ HasTarget(job.spec, job.keys))

OneAtATime == [][DeployNew => ~RolloutUnderWay]_vars

(* A release that no pass has seen yet does not overtake another one.      *)
CreatesAfterRollout ==
  at.release \notin live /\ (job = Idle \/ at.release \notin job.keys) => ~RolloutUnderWay

NewestIsTarget ==
  IF job = Idle
  THEN \A n \in live : spec[n].role = "target" => NewestIn(live, born, n)
  ELSE \A n \in job.keys : job.spec[n].role = "target" => NewestIn(job.keys, job.born, n)

(* The plan of a pass asks for the instances of the active release that    *)
(* both the weight it has and the one it is to have call for, and never    *)
(* sends traffic back to it.                                               *)
PlanCovers ==
  \A n \in job.keys : job.spec[n].role = "active" =>
    /\ job.spec[n].numDesired >= ActiveInstances(at.scale.min, job.spec[n].traffic)
    /\ job.pc # "reporting" =>
         /\ job.spec[n].numDesired >= ActiveInstances(at.scale.min, routes[n])
         /\ HasTarget(job.spec, job.keys) => job.spec[n].traffic <= routes[n]

OthersUnrouted ==
  job.pc # "reporting" =>
    \A n \in job.keys : job.spec[n].role \notin {"active", "target"} => routes[n] = 0

CoverInv ==
  /\ CreatesAfterRollout
  /\ NewestIsTarget
  /\ ActiveCoversItsWeight
  /\ job # Idle => PlanCovers /\ OthersUnrouted

(* What passes the steps of a pass through.                                *)
LEMMA MinCovers ==
  ASSUME Steady, IInv, RoutesInv, NEW d \in Nat, at.scale.min <= d, NEW p \in 0..100
  PROVE  d >= ActiveInstances(at.scale.min, p)
<1>0. p \in Nat /\ p <= 100
  OBVIOUS
<1>1. ActiveInstances(at.scale.min, p) <= at.scale.min /\ at.scale.min \in Nat
  BY <1>0, ScaleIsMet, ActiveInstancesOfAll
<1>2. ActiveInstances(at.scale.min, p) \in Nat
  BY <1>0, <1>1, InstancesAreNat
<1>. QED  BY <1>1, <1>2

LEMMA WaitingPassCovers ==
  ASSUME Steady, IInv, OrderInv, TargetInv, RoutesInv, InstancesInv, CoverInv, StartPass,
         Waits(View, atStatus.timer = "fresh")
  PROVE  CoverInv'
<1>1. /\ job = Idle /\ BetweenPasses /\ OnlyAdded /\ ~at.halted
      /\ TypeOK /\ BornInOrder /\ CurrentIsNewest
  BY DEF StartPass, RoutesInv, Steady, IInv, OrderInv
<1>2. /\ job'.pc = "saving" /\ job' # Idle /\ job'.keys = View.keys /\ job'.born = View.born
      /\ job'.spec = View.spec
      /\ UNCHANGED <<at, live, born, spec, routes, scaler>>
  BY <1>1, PassBegins
<1>3. /\ View.keys = live \cup {at.release}
      /\ \A k \in View.keys : View.spec[k] = IF k \in live THEN spec[k] ELSE EmptySpec
      /\ \A k \in live : View.born[k] = born[k]
  BY <1>1, ViewInOrder, ViewFollows
<1>4. HasTarget(View.spec, View.keys)
  BY DEF Waits, RoleHolder, HavingRole, HasTarget
<1>. HIDE DEF View
<1>5. at.release \in live
  <2>1. EmptySpec.role # "target"
    BY DEF EmptySpec
  <2>2. HasTarget(spec, live)
    BY <1>3, <1>4, <2>1 DEF HasTarget
  <2>. QED  BY <1>1, <2>2 DEF CoverInv, CreatesAfterRollout, RolloutUnderWay
<1>6. View.keys = live /\ \A k \in live : View.spec[k] = spec[k] /\ routes[k] = spec[k].traffic
  <2>1. live \subseteq Names
    BY <1>1 DEF TypeOK
  <2>. QED  BY <1>1, <1>3, <1>5, <2>1 DEF BetweenPasses, RoutesFollow
<1>7. CreatesAfterRollout'
  BY <1>2, <1>5 DEF CreatesAfterRollout
<1>8. NewestIsTarget'
  BY <1>1, <1>2, <1>3, <1>6 DEF CoverInv, NewestIsTarget, NewestIn
<1>9. ActiveCoversItsWeight'
  BY <1>2 DEF CoverInv, ActiveCoversItsWeight
<1>10. PlanCovers'
  <2>1. \A k \in live : spec[k].traffic \in Nat
    <3>1. \A k \in live : spec[k] \in ReleaseSpec
      BY <1>1 DEF TypeOK
    <3>2. \A x \in ReleaseSpec : x.traffic \in Nat
      BY DEF ReleaseSpec
    <3>. QED  BY <3>1, <3>2
  <2>2. \A k \in live : spec[k].role = "active" =>
          spec[k].numDesired >= ActiveInstances(at.scale.min, spec[k].traffic)
    BY <1>1, <1>6 DEF CoverInv, ActiveCoversItsWeight
  <2>. QED  BY <1>2, <1>6, <2>1, <2>2 DEF PlanCovers
<1>11. OthersUnrouted'
  <2>1. PICK a \in live, t \in live : SharedInOrder(spec, live, born, a, t)
    BY <1>1, <1>5 DEF BetweenPasses
  <2>2. \A k \in live : spec[k].role \notin {"active", "target"} => spec[k].traffic = 0
    BY <2>1 DEF SharedInOrder, SharedBetween
  <2>. QED  BY <1>2, <1>6, <2>2 DEF OthersUnrouted
<1>. QED  BY <1>7, <1>8, <1>9, <1>10, <1>11 DEF CoverInv

(* In a list in which rollouts follow one another, what a pass moves       *)
(* traffic to is its target, or a release that is new.                     *)
LEMMA ListOfOneRollout ==
  ASSUME Steady, IInv, OrderInv, TargetInv, RoutesInv, CoverInv, job = Idle,
         NEW a \in live, NEW t \in live, SharedInOrder(spec, live, born, a, t)
  PROVE  LET T == TargetOf(View)
         IN  /\ a # t => t = T
             /\ T # a => View.spec[a].traffic + View.spec[T].traffic = 100
             /\ \A k \in View.keys \ {a, T} : routes[k] = 0
<1>. DEFINE T == TargetOf(View)
<1>1. /\ BetweenPasses /\ TypeOK /\ BornInOrder /\ CurrentIsNewest
  BY DEF RoutesInv, IInv, OrderInv
<1>2. /\ SharedBetween(View.spec, View.keys, a, t)
      /\ \A k \in View.keys : View.spec[k].traffic = routes[k]
  BY <1>1, ListAtStart DEF BetweenPasses, SharedInOrder
<1>3. T \in View.keys /\ \A k : NewestIn(View.keys, View.born, k) <=> k = T
  BY TargetOfView
<1>4. /\ View.keys = live \cup {at.release}
      /\ \A k \in live : View.born[k] = born[k]
  BY <1>1, ViewInOrder
<1>. HIDE DEF T, View
<1>5. ASSUME a # t PROVE t = T
  <2>1. spec[t].role = "target"
    BY <1>5 DEF SharedInOrder, SharedBetween
  <2>2. at.release \in live
    BY <2>1 DEF CoverInv, CreatesAfterRollout, RolloutUnderWay, HasTarget
  <2>3. NewestIn(live, born, t)
    BY <2>1 DEF CoverInv, NewestIsTarget
  <2>. QED  BY <1>3, <1>4, <2>2, <2>3 DEF NewestIn
<1>6. ASSUME T # a PROVE View.spec[a].traffic + View.spec[T].traffic = 100
  <2>1. CASE a = t
    BY <1>2, <1>3, <1>6, <2>1 DEF SharedBetween
  <2>2. CASE a # t
    BY <1>2, <1>5, <2>2 DEF SharedBetween
  <2>. QED  BY <2>1, <2>2
<1>7. \A k \in View.keys \ {a, T} : routes[k] = 0
  BY <1>2, <1>5 DEF SharedBetween
<1>. QED  BY <1>5, <1>6, <1>7 DEF T

LEMMA FirstPassCovers ==
  ASSUME Steady, IInv, OrderInv, TargetInv, RoutesInv, CoverInv, StartPass, live = {},
         ~Waits(View, atStatus.timer = "fresh")
  PROVE  CoverInv'
<1>. DEFINE w == View
            d == DesiredInstances
            s == PlannedSpec(w, d)
            n == at.release
<1>1. job = Idle /\ OnlyAdded /\ Gradual /\ ~at.halted /\ TypeOK /\ BetweenPasses
  BY DEF StartPass, RoutesInv, Steady, IInv
<1>2. /\ job'.pc = "saving" /\ job' # Idle /\ job'.keys = w.keys /\ job'.born = w.born
      /\ job'.spec = s
      /\ UNCHANGED <<at, live, born, spec, routes, scaler>>
  BY <1>1, PassBegins
<1>3. IsView(w) /\ Deployable(w) # {} /\ d \in Nat /\ at.scale.min <= d
  BY <1>1, GoodView, TargetIsNewest, ScaleIsMet
<1>4. w.keys = {n} /\ n \in Names
  BY <1>1, ViewInOrder DEF OrderInv
<1>. HIDE DEF w, d
<1>5. TargetOf(w) = n /\ ActiveBefore(w) = n /\ ActiveAfter(w, d) = n
  BY <1>3, <1>4, RolesOfView
<1>6. s[n].role = "active" /\ s[n].traffic = 100
  BY <1>3, <1>5, PlanOfView DEF SharedBetween
<1>7. s[n].numDesired = d
  <2>1. n \in Keys
    BY <1>4 DEF Keys
  <2>2. s[n].numDesired = PlannedInstances(w, d, n)
    BY <1>4, <2>1 DEF PlannedSpec
  <2>. QED  BY <1>5, <2>2 DEF PlannedInstances, TargetInstances
<1>8. routes[n] = 0
  BY <1>1, <1>4 DEF BetweenPasses, RoutesFollow
<1>. HIDE DEF s, n
<1>9. \A p \in 0..100 : s[n].numDesired >= ActiveInstances(at.scale.min, p)
  BY <1>3, <1>7, MinCovers
<1>10. PlanCovers' /\ OthersUnrouted'
  BY <1>2, <1>4, <1>6, <1>8, <1>9 DEF PlanCovers, OthersUnrouted, HasTarget
<1>11. CreatesAfterRollout' /\ NewestIsTarget' /\ ActiveCoversItsWeight'
  BY <1>2, <1>4, <1>6 DEF CreatesAfterRollout, NewestIsTarget, ActiveCoversItsWeight, n
<1>. QED  BY <1>10, <1>11 DEF CoverInv

(* The plan keeps the weight of the target, as the pods it was made from   *)
(* are still there, so that the active release gets none back.  A target   *)
(* that is promoted already has the instances that the scale needs.        *)
LEMMA PlanningPassCovers ==
  ASSUME Steady, IInv, OrderInv, TargetInv, RoutesInv, InstancesInv, CoverInv, StartPass,
         live # {}, ~Waits(View, atStatus.timer = "fresh")
  PROVE  CoverInv'
<1>. DEFINE w == View
            d == DesiredInstances
            s == PlannedSpec(w, d)
            T == TargetOf(w)
            A == ActiveAfter(w, d)
            min == at.scale.min
<1>1. job = Idle /\ BetweenPasses /\ OnlyAdded /\ Gradual /\ ~at.halted /\ TypeOK
  BY DEF StartPass, RoutesInv, Steady, IInv
<1>2. /\ job'.pc = "saving" /\ job' # Idle /\ job'.keys = w.keys /\ job'.born = w.born
      /\ job'.spec = s
      /\ UNCHANGED <<at, live, born, spec, routes, scaler>>
  BY <1>1, PassBegins
<1>3. /\ IsView(w) /\ d \in Nat /\ d # 0 /\ Deployable(w) # {} /\ w.keys \subseteq Keys
      /\ \A k \in w.keys : w.spec[k].role # "bad"
  BY <1>1, GoodView, TargetIsNewest, DesiredIsPositive DEF IsView
<1>4. /\ T \in w.keys /\ \A k : NewestIn(w.keys, w.born, k) <=> k = T
      /\ at.release \in w.keys
  BY <1>1, TargetOfView, ViewInOrder DEF OrderInv
<1>5. PICK a \in live, t \in live : SharedInOrder(spec, live, born, a, t)
  BY <1>1 DEF BetweenPasses
<1>6. /\ SharedInOrder(w.spec, w.keys, w.born, a, t) /\ a \in w.keys /\ t \in w.keys
      /\ \A k \in w.keys : w.spec[k].traffic = routes[k]
      /\ \A j, k \in w.keys : w.born[j] = w.born[k] => j = k
  BY <1>1, <1>5, ListAtStart DEF BetweenPasses
<1>7. /\ a # t => t = T
      /\ T # a => w.spec[a].traffic + w.spec[T].traffic = 100
      /\ \A k \in w.keys \ {a, T} : routes[k] = 0
  BY <1>1, <1>5, ListOfOneRollout
<1>8. w.spec[T].role # "active" =>
        /\ T \in Names /\ w.spec[T] = spec[T] /\ w.status[T] = status[T]
        /\ Rises(T) /\ CoveredBy(T, routes[T])
  BY <1>1, NewestOfView
<1>9. min \in Nat /\ min <= d
  BY ScaleIsMet
<1>. HIDE DEF w, d
<1>10. /\ A \in {a, T} /\ A \in w.keys /\ SharedBetween(s, w.keys, A, T)
       /\ A = T => w.spec[T].traffic = 100
  BY <1>3, <1>6, PlanOfShared DEF SharedInOrder
<1>11. \A k \in w.keys : w.spec[k].role = "active" <=> k = a
  BY <1>6, SharedActive DEF SharedInOrder
<1>12. \A k \in w.keys : /\ s[k].role = "active" <=> k = A
                         /\ s[k].role = "target" <=> k = T /\ A # T
  <2>. HIDE DEF s, A, T
  <2>. QED  BY <1>4, <1>10, SharedActive, SharedTarget
<1>13. ActiveBefore(w) = a
  <2>1. HavingRole(w, "active") = {a}
    BY <1>6, <1>11 DEF HavingRole
  <2>2. w.born[a] \in Nat
    BY <1>3, <1>6 DEF IsView
  <2>3. OldestOf({a}, w.born) = a /\ a # NoRelease
    BY <1>3, <1>6, <2>2, ReleasesAssumption DEF OldestOf, Keys
  <2>. QED  BY <2>1, <2>3 DEF ActiveBefore, RoleHolder
<1>14. \A k \in w.keys : routes[k] \in 0..100 /\ s[k].traffic \in 0..100
  <2>1. s \in [Keys -> ReleaseSpec] /\ w.spec \in [Keys -> ReleaseSpec]
    BY <1>3, PlanOfView DEF IsView
  <2>2. \A x \in ReleaseSpec : x.traffic \in 0..100
    BY DEF ReleaseSpec
  <2>. HIDE DEF s
  <2>. QED  BY <1>3, <1>6, <2>1, <2>2
<1>15. s[A].numDesired = PlannedInstances(w, d, A)
  BY <1>3, <1>10 DEF PlannedSpec
<1>16. ASSUME A = T PROVE PlanCovers' /\ OthersUnrouted'
  <2>1. min <= s[T].numDesired /\ s[T].numDesired \in Nat
    <3>1. PlannedInstances(w, d, T) \in Nat /\ s[T].numDesired = PlannedInstances(w, d, T)
      BY <1>3, <1>4, <1>15, <1>16, InstancesOfView
    <3>2. PlannedInstances(w, d, T) = TargetInstances(w, d)
      BY DEF PlannedInstances
    <3>3. CASE T = a
      BY <1>9, <1>13, <3>1, <3>2, <3>3 DEF TargetInstances
    <3>4. CASE T # a
      <4>1. TargetInstances(w, d) = GreaterOf(w.spec[T].numDesired, RampInstances(w, d))
        BY <1>3, <1>13, <3>4 DEF TargetInstances
      <4>. HIDE DEF T, s, A
      <4>2. T \in Names /\ w.spec[T] = spec[T] /\ Rises(T) /\ CoveredBy(T, 100)
        BY <1>4, <1>6, <1>8, <1>10, <1>11, <1>16, <3>4
      <4>3. 100 * min <= 100 * rs[T].avail
        BY <4>2, CoveredByPods
      <4>4. rs[T].avail \in Nat /\ rs[T].replicas \in Nat /\ spec[T].numDesired \in Nat
        BY <1>1, <4>2 DEF TypeOK, ReplicaSet, ReleaseSpec
      <4>. HIDE DEF min
      <4>5. min <= spec[T].numDesired
        BY <1>9, <4>2, <4>3, <4>4 DEF Rises
      <4>6. spec[T].numDesired <= PlannedInstances(w, d, T)
        BY <3>1, <3>2, <4>1, <4>2, <4>4 DEF GreaterOf
      <4>. QED  BY <1>9, <3>1, <4>4, <4>5, <4>6
    <3>. QED  BY <3>3, <3>4
  <2>. HIDE DEF s, T, A
  <2>2. ~HasTarget(s, w.keys)
    BY <1>12, <1>16 DEF HasTarget
  <2>3. \A p \in 0..100 : s[T].numDesired >= ActiveInstances(min, p)
    BY <2>1, MinCovers
  <2>4. \A k \in w.keys \ {T} : routes[k] = 0
    <3>. SUFFICES ASSUME a # T PROVE routes[a] = 0
      BY <1>7
    <3>1. w.spec[T].traffic = 100 /\ w.spec[a].traffic + w.spec[T].traffic = 100
      BY <1>7, <1>10, <1>16
    <3>2. w.spec[a].traffic = routes[a] /\ routes[a] \in 0..100
      BY <1>6, <1>14
    <3>. QED  BY <3>1, <3>2
  <2>5. PlanCovers' /\ OthersUnrouted'
    BY <1>2, <1>12, <1>14, <1>16, <2>2, <2>3, <2>4 DEF PlanCovers, OthersUnrouted
  <2>. QED  BY <2>5
<1>17. ASSUME A # T PROVE PlanCovers' /\ OthersUnrouted'
  <2>1. A = a /\ a # T
    BY <1>10, <1>17
  <2>2. s[a].numDesired = ActiveInstances(d, w.spec[a].traffic)
    BY <1>15, <1>17, <2>1 DEF PlannedInstances
  <2>3. w.spec[T].traffic <= s[T].traffic
    <3>1. w.spec[T].traffic * d <= 100 * w.status[T].numAvailable
      BY <1>4, <1>6, <1>8, <1>11, <2>1 DEF CoveredBy, d
    <3>. QED  BY <1>3, <1>17, <3>1, PlanOfTarget
  <2>. HIDE DEF s, T, A, min
  <2>4. /\ w.spec[a].traffic = routes[a] /\ w.spec[T].traffic = routes[T]
        /\ routes[a] \in Nat /\ routes[T] \in Nat /\ routes[a] <= 100
        /\ s[a].traffic \in Nat /\ s[T].traffic \in Nat /\ s[a].traffic <= 100
    <3>1. /\ routes[a] \in 0..100 /\ routes[T] \in 0..100
          /\ s[a].traffic \in 0..100 /\ s[T].traffic \in 0..100
      BY <1>4, <1>6, <1>14
    <3>2. \A p \in 0..100 : p \in Nat /\ p <= 100
      OBVIOUS
    <3>. QED  BY <1>4, <1>6, <3>1, <3>2
  <2>5. s[a].traffic <= routes[a]
    <3>1. s[a].traffic + s[T].traffic = 100
      BY <1>10, <1>17, <2>1 DEF SharedBetween
    <3>2. w.spec[a].traffic + w.spec[T].traffic = 100
      BY <1>7, <2>1
    <3>. QED  BY <2>3, <2>4, <3>1, <3>2
  <2>6. s[a].numDesired >= ActiveInstances(min, routes[a])
    <3>1. ActiveInstances(min, routes[a]) <= ActiveInstances(d, routes[a])
      BY <1>3, <1>9, <2>4, ActiveInstancesGrow
    <3>2. ActiveInstances(min, routes[a]) \in Nat /\ ActiveInstances(d, routes[a]) \in Nat
      BY <1>3, <1>9, <2>4, InstancesAreNat
    <3>. QED  BY <2>2, <2>4, <3>1, <3>2
  <2>7. s[a].numDesired >= ActiveInstances(min, s[a].traffic)
    <3>1. ActiveInstances(min, s[a].traffic) <= ActiveInstances(min, routes[a])
      BY <1>9, <2>4, <2>5, ActiveInstancesGrow
    <3>2. /\ ActiveInstances(min, s[a].traffic) \in Nat /\ ActiveInstances(min, routes[a]) \in Nat
          /\ s[a].numDesired \in Nat
      BY <1>3, <1>9, <2>2, <2>4, InstancesAreNat
    <3>. QED  BY <2>6, <3>1, <3>2
  <2>8. PlanCovers' /\ OthersUnrouted'
    BY <1>2, <1>7, <1>12, <1>17, <2>1, <2>5, <2>6, <2>7 DEF PlanCovers, OthersUnrouted, min
  <2>. QED  BY <2>8
<1>18. CreatesAfterRollout' /\ ActiveCoversItsWeight'
  <2>. HIDE DEF s, T, A
  <2>. QED  BY <1>2, <1>4 DEF CoverInv, CreatesAfterRollout, ActiveCoversItsWeight
<1>19. NewestIsTarget'
  <2>. HIDE DEF s, T, A
  <2>. QED  BY <1>2, <1>4, <1>12 DEF NewestIsTarget
<1>. QED  BY <1>16, <1>17, <1>18, <1>19 DEF CoverInv

(* What saving one release changes.                                        *)
LEMMA OneIsSaved ==
  ASSUME IInv, OrderInv, SaveRelease
  PROVE  /\ job # Idle /\ job.pc = "saving" /\ job' # Idle /\ job'.pc = "saving"
         /\ job'.keys = job.keys /\ job'.spec = job.spec /\ job'.born = job.born
         /\ job'.drop = job.drop
         /\ UNCHANGED <<at, routes, rs>>
         /\ \E k \in job.keys \cap Names :
              /\ live' = live \cup {k} /\ job'.todo = job.todo \ {k} /\ spec'[k] = job.spec[k]
              /\ \A n \in Names \ {k} : spec'[n] = spec[n]
<1>. DEFINE k == NewestOf(job.todo, job.born)
<1>1. job # Idle /\ job.pc = "saving" /\ job.todo # {}
  BY DEF SaveRelease
<1>2. job \in Job /\ ListOK /\ TypeOK /\ InOrder
  BY <1>1, JobIsJob DEF OrderInv
<1>3. k \in job.todo /\ k \in job.keys /\ k \in Names
  BY <1>1, <1>2, NewestIsIn DEF ListOK, InOrder
<1>4. NameOf(k, job.forced) = k
  BY <1>3, ReleasesAssumption DEF NameOf
<1>5. /\ live' = live \cup {k} /\ spec' = [spec EXCEPT ![k] = job.spec[k]]
      /\ job' = [job EXCEPT !.todo = job.todo \ {k}]
      /\ UNCHANGED <<at, routes, rs>>
  BY <1>4 DEF SaveRelease
<1>. HIDE DEF k
<1>6. /\ job'.keys = job.keys /\ job'.spec = job.spec /\ job'.born = job.born
      /\ job'.todo = job.todo \ {k} /\ job'.drop = job.drop
      /\ job'.pc = "saving" /\ job' # Idle
  <2>1. Idle.pc = "idle"
    BY DEF Idle
  <2>. QED  BY <1>1, <1>2, <1>5, <2>1 DEF Job
<1>7. spec'[k] = job.spec[k] /\ \A n \in Names \ {k} : spec'[n] = spec[n]
  BY <1>2, <1>3, <1>5 DEF TypeOK
<1>. QED  BY <1>1, <1>3, <1>5, <1>6, <1>7

LEMMA SavesFollow ==
  ASSUME IInv, OrderInv, CreatesAfterRollout, SaveRelease
  PROVE  CreatesAfterRollout'
<1>1. /\ job # Idle /\ job' # Idle /\ live \subseteq Names /\ UNCHANGED at
      /\ job'.keys = job.keys /\ job'.spec = job.spec
  BY OneIsSaved DEF IInv, TypeOK
<1>2. PICK k \in job.keys \cap Names :
              /\ live' = live \cup {k} /\ spec'[k] = job.spec[k]
              /\ \A n \in Names \ {k} : spec'[n] = spec[n]
  BY OneIsSaved
<1>3. SUFFICES ASSUME at.release \notin live, at.release \notin job.keys
               PROVE  ~HasTarget(spec', live') /\ ~HasTarget(job.spec, job.keys)
  BY <1>1, <1>2 DEF CreatesAfterRollout, RolloutUnderWay, HasTarget
<1>4. ~HasTarget(spec, live) /\ ~HasTarget(job.spec, job.keys)
  BY <1>1, <1>3 DEF CreatesAfterRollout, RolloutUnderWay
<1>. QED  BY <1>1, <1>2, <1>4 DEF HasTarget

LEMMA SaveReleaseCovers ==
  ASSUME IInv, OrderInv, CoverInv, SaveRelease
  PROVE  CoverInv'
<1>1. /\ job # Idle /\ job.pc = "saving" /\ job' # Idle /\ job'.pc = "saving"
      /\ job'.keys = job.keys /\ job'.spec = job.spec /\ job'.born = job.born
      /\ UNCHANGED <<at, routes>>
      /\ live \subseteq Names
  BY OneIsSaved DEF IInv, TypeOK
<1>2. PICK k \in job.keys \cap Names :
              /\ live' = live \cup {k} /\ spec'[k] = job.spec[k]
              /\ \A n \in Names \ {k} : spec'[n] = spec[n]
  BY OneIsSaved
<1>3. CreatesAfterRollout'
  BY SavesFollow DEF CoverInv
<1>4. NewestIsTarget'
  BY <1>1 DEF CoverInv, NewestIsTarget, NewestIn
<1>5. ActiveCoversItsWeight'
  <2>1. \A n \in job.keys : job.spec[n].role = "active" =>
          job.spec[n].numDesired >= ActiveInstances(at.scale.min, routes[n])
    BY <1>1 DEF CoverInv, PlanCovers
  <2>. QED  BY <1>1, <1>2, <2>1 DEF CoverInv, ActiveCoversItsWeight
<1>6. PlanCovers' /\ OthersUnrouted'
  BY <1>1 DEF CoverInv, PlanCovers, OthersUnrouted, HasTarget
<1>. QED  BY <1>3, <1>4, <1>5, <1>6 DEF CoverInv

LEMMA ListStepCovers ==
  ASSUME IInv, OrderInv, RoutesInv, CoverInv, CollectReleases \/ PublishScaler
  PROVE  CoverInv'
<1>1. /\ UNCHANGED <<at, live, spec, born, routes>>
      /\ job # Idle /\ job.pc # "reporting" /\ job \in Job
      /\ \E p \in {"scaling", "routing"} : job' = [job EXCEPT !.pc = p]
  BY CollectReleasesRoutes, JobIsJob DEF CollectReleases, PublishScaler
<1>2. /\ job'.keys = job.keys /\ job'.spec = job.spec /\ job'.born = job.born
      /\ job'.pc # "reporting" /\ job' # Idle
  <2>1. Idle.pc = "idle"
    BY DEF Idle
  <2>. QED  BY <1>1, <2>1 DEF Job
<1>3. CreatesAfterRollout' /\ NewestIsTarget' /\ ActiveCoversItsWeight'
  BY <1>1, <1>2
     DEF CoverInv, CreatesAfterRollout, RolloutUnderWay, HasTarget, NewestIsTarget, NewestIn,
         ActiveCoversItsWeight
<1>4. PlanCovers' /\ OthersUnrouted'
  BY <1>1, <1>2 DEF CoverInv, PlanCovers, OthersUnrouted, HasTarget
<1>. QED  BY <1>3, <1>4 DEF CoverInv

LEMMA PublishRoutesCovers ==
  ASSUME IInv, OrderInv, RoutesInv, CoverInv, PublishRoutes
  PROVE  CoverInv'
<1>1. /\ job # Idle /\ job.pc = "routing" /\ job \in Job
      /\ UNCHANGED <<at, live, spec, born>>
      /\ job' = [job EXCEPT !.pc = "reporting"]
  BY JobIsJob DEF PublishRoutes
<1>2. /\ \A n \in Names : routes'[n] = IF n \in job.keys THEN job.spec[n].traffic ELSE 0
      /\ job'.keys = job.keys /\ job'.spec = job.spec /\ job'.pc = "reporting" /\ job' # Idle
  BY PublishedRoutes DEF RoutesFollow
<1>3. job'.born = job.born
  BY <1>1 DEF Job
<1>4. live = job.keys /\ live \subseteq Names /\ \A k \in live : spec[k] = job.spec[k]
  BY <1>1, AllSaved DEF IInv, TypeOK
<1>5. CreatesAfterRollout' /\ NewestIsTarget'
  BY <1>1, <1>2, <1>3
     DEF CoverInv, CreatesAfterRollout, RolloutUnderWay, HasTarget, NewestIsTarget, NewestIn
<1>6. PlanCovers' /\ OthersUnrouted'
  BY <1>1, <1>2 DEF CoverInv, PlanCovers, OthersUnrouted
<1>7. ActiveCoversItsWeight'
  <2>1. \A n \in job.keys : job.spec[n].role = "active" =>
          job.spec[n].numDesired >= ActiveInstances(at.scale.min, job.spec[n].traffic)
    BY <1>1 DEF CoverInv, PlanCovers
  <2>. QED  BY <1>1, <1>2, <1>4, <2>1 DEF ActiveCoversItsWeight
<1>. QED  BY <1>5, <1>6, <1>7 DEF CoverInv

LEMMA WriteStatusCovers ==
  ASSUME OrderInv, RoutesInv, CoverInv, WriteStatus
  PROVE  CoverInv'
<1>1. /\ job # Idle /\ job.pc = "reporting" /\ job' = Idle
      /\ UNCHANGED <<at, live, born, spec, routes>>
  BY DEF WriteStatus
<1>2. live = job.keys /\ \A k \in live : spec[k] = job.spec[k] /\ born[k] = job.born[k]
  BY <1>1, AllSaved
<1>3. CreatesAfterRollout'
  BY <1>1, <1>2 DEF CoverInv, CreatesAfterRollout, RolloutUnderWay, HasTarget
<1>4. NewestIsTarget'
  BY <1>1, <1>2 DEF CoverInv, NewestIsTarget, NewestIn
<1>5. ActiveCoversItsWeight'
  BY <1>1 DEF CoverInv, ActiveCoversItsWeight
<1>. QED  BY <1>1, <1>3, <1>4, <1>5 DEF CoverInv

LEMMA OthersCovers ==
  ASSUME Steady, IInv, TargetInv, RoutesInv, CoverInv, [Next]_vars, ~Passing,
         DeployNew => ~RolloutUnderWay
  PROVE  CoverInv'
<1>1. UNCHANGED <<live, born, spec, routes, job>> /\ ~WriteStatus /\ ~DeployAgain
  BY OthersKeepRoutes DEF Steady, OnlyAdded, Passing, DeployAgain, EditApp, NoRedeploys
<1>2. at'.scale = at.scale /\ at'.halted = at.halted
  BY <1>1, AppStays, OnlyUsersHalt DEF IInv, Steady, Gradual
<1>3. CreatesAfterRollout'
  <2>1. CASE DeployNew
    BY <1>1, <2>1 DEF CreatesAfterRollout, RolloutUnderWay, HasTarget
  <2>2. CASE ~DeployNew
    <3>1. at'.release = at.release
      BY <1>1, <2>2, OnlyDeployments DEF IInv
    <3>. QED  BY <1>1, <3>1 DEF CoverInv, CreatesAfterRollout, RolloutUnderWay, HasTarget
  <2>. QED  BY <2>1, <2>2
<1>4. NewestIsTarget' /\ ActiveCoversItsWeight'
  BY <1>1, <1>2 DEF CoverInv, NewestIsTarget, NewestIn, ActiveCoversItsWeight
<1>5. job' # Idle => PlanCovers' /\ OthersUnrouted'
  BY <1>1, <1>2 DEF CoverInv, PlanCovers, OthersUnrouted, HasTarget
<1>. QED  BY <1>3, <1>4, <1>5 DEF CoverInv

LEMMA CoverInvariance ==
  ASSUME Steady
  PROVE  Spec /\ OneAtATime => []CoverInv
<1>1. Init => CoverInv
  BY DEF Init, CoverInv, CreatesAfterRollout, RolloutUnderWay, HasTarget, NewestIsTarget,
         ActiveCoversItsWeight
<1>2. /\ IInv /\ OrderInv /\ TargetInv /\ RoutesInv /\ InstancesInv /\ CoverInv /\ [Next]_vars
      /\ [DeployNew => ~RolloutUnderWay]_vars
      => CoverInv'
  <2>. SUFFICES ASSUME IInv, OrderInv, TargetInv, RoutesInv, InstancesInv, CoverInv, [Next]_vars,
                       [DeployNew => ~RolloutUnderWay]_vars
                PROVE  CoverInv'
    OBVIOUS
  <2>1. CASE UNCHANGED vars
    BY <2>1
       DEF vars, CoverInv, CreatesAfterRollout, RolloutUnderWay, HasTarget, NewestIsTarget,
           NewestIn, ActiveCoversItsWeight, PlanCovers, OthersUnrouted
  <2>2. CASE StartPass
    BY <2>2, WaitingPassCovers, FirstPassCovers, PlanningPassCovers
  <2>3. CASE Passing /\ ~StartPass
    BY <2>3, SaveReleaseCovers, ListStepCovers, PublishRoutesCovers, WriteStatusCovers DEF Passing
  <2>4. CASE ~Passing /\ ~UNCHANGED vars
    BY <2>4, OthersCovers
  <2>. QED  BY <2>1, <2>2, <2>3, <2>4 DEF Passing
<1>. QED
  BY <1>1, <1>2, Invariance, OrderInvariance, TargetInvariance, RoutesInvariance,
     InstancesInvariance, PTL
     DEF Spec, OneAtATime, Steady, OnlyAdded

(* The active release is asked for the instances that the weight it still  *)
(* has calls for, between any two calls of a pass: it is scaled down only  *)
(* after the routes gave its weight away (deployReleases, UpdateResource,  *)
(* newVirtualService).  That nobody deploys while a rollout is under way   *)
(* is needed: the plan for a third release gives all traffic back to an    *)
(* active one that was scaled down.                                        *)
THEOREM ActivesCoverTheirWeight ==
  ASSUME Steady
  PROVE  Spec /\ OneAtATime => []ActiveCoversItsWeight
<1>1. CoverInv => ActiveCoversItsWeight
  BY DEF CoverInv
<1>. QED  BY <1>1, CoverInvariance, PTL

(* All traffic of a release goes as a whole only to one that has it        *)
(* already, or to a target with available pods.                            *)
LEMMA SwitchedTraffic ==
  ASSUME Steady, IInv, OrderInv, RoutesInv, InstancesInv, CoverInv, PublishRoutes,
         NEW m \in Names, NEW n \in Names, routes[m] = 100, n # m, routes'[n] = 100
  PROVE  rs[n].avail > 0
<1>1. /\ job # Idle /\ job.pc = "routing" /\ InOrder /\ DuringPass
      /\ ReplacesWhenRouted /\ RoutesAreWhole /\ routes \in [Names -> Nat]
  BY DEF PublishRoutes, OrderInv, RoutesInv, Steady, IInv, TypeOK
<1>2. n \in job.keys /\ job.spec[n].traffic = 100
  BY PublishedRoutes DEF RoutesFollow
<1>3. PICK a \in job.keys, t \in job.keys : SharedBetween(job.spec, job.keys, a, t)
  BY <1>1 DEF DuringPass, SharedInOrder
<1>4. ~(routes[n] >= 100) /\ ~NoTraffic(routes)
  <2>1. ~NoTraffic(routes)
    BY DEF NoTraffic
  <2>2. PICK b \in Names, c \in Names : WholeBetween(routes, b, c)
    BY <1>1, <2>1 DEF RoutesAreWhole
  <2>. QED  BY <1>1, <2>1, <2>2 DEF WholeBetween
<1>5. CASE job.spec[n].role = "target"
  <2>1. job.outcome = "planned"
    BY <1>1, <1>2, <1>4 DEF InstancesInv, WaitsAsRouted
  <2>2. 100 * at.scale.min <= 100 * rs[n].avail
    BY <1>2, <1>5, <2>1, PublishedTarget
  <2>3. at.scale.min \in Nat /\ at.scale.min > 0 /\ rs[n].avail \in Nat
    BY ScaleIsMet DEF IInv, TypeOK, ReplicaSet
  <2>. QED  BY <2>2, <2>3
<1>6. CASE job.spec[n].role # "target"
  <2>1. n = a
    BY <1>2, <1>3, <1>6 DEF SharedBetween
  <2>2. job.spec[n].role = "active"
    BY <1>3, <2>1 DEF SharedBetween
  <2>3. HasTarget(job.spec, job.keys)
    BY <1>1, <1>2, <1>4, <2>2 DEF ReplacesWhenRouted
  <2>4. job.spec[n].traffic <= routes[n]
    BY <1>1, <1>2, <2>2, <2>3 DEF CoverInv, PlanCovers
  <2>. QED  BY <1>2, <1>4, <2>4
<1>. QED  BY <1>5, <1>6

(* A rollout is gradual: one publication never moves all the traffic of a  *)
(* release to one without available pods, neither to the new release nor   *)
(* back to the old one (deployReleases, newVirtualService).                *)
THEOREM TrafficGoesToPods ==
  ASSUME Steady
  PROVE  Spec /\ OneAtATime => SwitchesToPods
<1>1. IInv /\ OrderInv /\ RoutesInv /\ InstancesInv /\ CoverInv /\ [Next]_vars =>
        [\A m, n \in Names :
           /\ PublishRoutes /\ job.report.phase # "halted"
           /\ routes[m] = 100 /\ rs[m].avail > 0
           /\ n # m /\ routes'[n] = 100
           => rs[n].avail > 0]_vars
  BY SwitchedTraffic
<1>. QED
  BY <1>1, Invariance, OrderInvariance, RoutesInvariance, InstancesInvariance,
     CoverInvariance, PTL
     DEF Spec, SwitchesToPods, Steady, OnlyAdded

(* A release that is no longer part of a rollout is asked to stop all of   *)
(* its pods only after its weight went to others, for any number of        *)
(* rollouts that follow one another (deployReleases, UpdateResource).  The *)
(* target of a rollout that is overtaken would lose its pods while it has  *)
(* a weight.                                                               *)
THEOREM ScaledDownLast ==
  ASSUME Steady
  PROVE  Spec /\ OneAtATime => ScaledDownWhenUnrouted
<1>1. ASSUME IInv, OrderInv, TargetInv, RoutesInv, CoverInv, [Next]_vars,
             NEW n \in Names, spec'[n].role = "none", spec'[n] # spec[n]
      PROVE  routes[n] = 0
  <2>1. SaveRelease
    BY <1>1, OnlySavesChange DEF Steady
  <2>2. /\ job # Idle /\ job.pc = "saving"
        /\ n \in job.keys /\ job.spec[n].role = "none"
    BY <1>1, <2>1, OneIsSaved
  <2>. QED  BY <1>1, <2>2 DEF CoverInv, OthersUnrouted
<1>2. IInv /\ OrderInv /\ TargetInv /\ RoutesInv /\ CoverInv /\ [Next]_vars =>
        [\A n \in Names :
           spec'[n].role = "none" /\ spec'[n].numDesired = 0 /\ spec[n].numDesired # 0
             => routes[n] = 0]_vars
  BY <1>1
<1>. QED
  BY <1>2, Invariance, OrderInvariance, TargetInvariance, RoutesInvariance,
     CoverInvariance, PTL
     DEF Spec, ScaledDownWhenUnrouted, Steady, OnlyAdded

-----------------------------------------------------------------------------
(* The releases that are kept.  Rollouts that follow one another leave the *)
(* active release among the newest two of any list, so that it is not      *)
(* collected, also when there are more releases than are kept.             *)

Collecting == NoFailures /\ NoRedeploys /\ NoRollbacks /\ Keep >= 2

(* Only the target is newer than the active release.                       *)
ActiveThenTarget(s, K, b) ==
  /\ \A n, j \in K : s[n].role = "active" /\ b[n] < b[j] => s[j].role = "target"
  /\ \A m, n \in K : s[m].role = "target" /\ s[n].role = "target" => m = n

(* A name can be deployed again as soon as its release was collected, when *)
(* the pass that collected it has yet to report.                           *)
KeepInv ==
  /\ CreatesAfterRollout
  /\ job = Idle => ActiveThenTarget(spec, live, born)
  /\ job # Idle =>
       /\ ActiveThenTarget(job.spec, job.keys, job.born)
       /\ \A k \in job.drop : job.spec[k].role # "active"
       /\ \A k \in (job.keys \ job.todo) \cap live : spec[k] = job.spec[k]
       /\ at.release \in job.drop => at.release \notin live /\ ~RolloutUnderWay
       /\ job.pc = "saving" => job.drop \subseteq live

LEMMA KeepsTwo ==
  ASSUME Keep >= 2, NEW w, IsView(w), NEW k \in w.keys, NEW t,
         \A j \in w.keys : w.born[k] < w.born[j] => j = t
  PROVE  k \in Kept(w)
<1>. DEFINE S == {j \in w.keys : w.born[j] > w.born[k]}
<1>1. S \in SUBSET {t}
  <2>1. \A j \in w.keys : w.born[j] \in Nat
    BY DEF IsView
  <2>. QED  BY <2>1
<1>2. IsFiniteSet({t}) /\ Cardinality({t}) = 1
  BY FS_Singleton
<1>3. Cardinality(S) \in Nat /\ Cardinality(S) <= 1
  BY <1>1, <1>2, FS_Subset, FS_CardinalityType
<1>. HIDE DEF S
<1>4. Cardinality(S) < Keep
  BY <1>3, ReleasesAssumption
<1>. QED  BY <1>4 DEF Kept, S

(* What a pass begins with when releases can be collected.                 *)
LEMMA CollectingPassBegins ==
  ASSUME IInv, OrderInv, TargetInv, StartPass
  PROVE  /\ job'.pc = "saving" /\ job' # Idle
         /\ job'.keys = View.keys /\ job'.born = View.born
         /\ job'.spec = IF Waits(View, atStatus.timer = "fresh") THEN View.spec
                        ELSE PlannedSpec(View, DesiredInstances)
         /\ job'.drop \subseteq View.keys \ Kept(View)
         /\ \A k \in View.keys : job'.spec[k] # View.spec[k] => k \in job'.todo
         /\ UNCHANGED <<at, live, born, spec>>
<1>. DEFINE w == View
            waiting == atStatus.timer = "fresh"
            planned == SpecAfter(w, waiting, DesiredInstances)
<1>1. ~Forced
  BY NotForced DEF IInv, OrderInv
<1>2. /\ job'.pc = "saving" /\ job'.keys = w.keys /\ job'.born = w.born
      /\ job'.spec = planned
      /\ job'.todo = {k \in w.keys : (k = at.release /\ Creates) \/ planned[k] # w.spec[k]}
      /\ job'.drop \subseteq w.keys \ Kept(w)
      /\ UNCHANGED <<at, live, born, spec>>
  BY <1>1 DEF StartPass
<1>3. planned = IF Waits(w, waiting) THEN w.spec ELSE PlannedSpec(w, DesiredInstances)
  <2>1. Deployable(w) # {}
    BY GoodView, TargetIsNewest DEF StartPass
  <2>. QED  BY <2>1 DEF SpecAfter, Outcome
<1>4. job' # Idle
  <2>1. Idle.pc = "idle"
    BY DEF Idle
  <2>. QED  BY <1>2, <2>1
<1>. HIDE DEF w, planned
<1>. QED  BY <1>2, <1>3, <1>4 DEF w

(* The plan moves traffic to the newest release, which is the target that  *)
(* was there or has just been added to a list without any.                 *)
LEMMA PlanKeepsOrder ==
  ASSUME IInv, OrderInv, TargetInv, KeepInv, job = Idle
  PROVE  ActiveThenTarget(PlannedSpec(View, DesiredInstances), View.keys, View.born)
<1>. DEFINE w == View
            d == DesiredInstances
            s == PlannedSpec(w, d)
            T == TargetOf(w)
            A == ActiveAfter(w, d)
            n == at.release
<1>1. IsView(w) /\ d \in Nat /\ Deployable(w) # {}
  BY GoodView, TargetIsNewest
<1>2. T \in w.keys /\ \A j \in w.keys : w.born[j] <= w.born[T]
  <2>1. T = NewestOf(w.keys, w.born) /\ w.keys # {}
    BY GoodView, TargetIsNewest
  <2>. QED  BY <1>1, <2>1, NewestIsKept DEF Kept
<1>3. A \in w.keys /\ SharedBetween(s, w.keys, A, T)
  BY <1>1, RolesOfView, PlanOfView
<1>4. /\ w.keys = live \cup {n}
      /\ \A k \in live : w.born[k] = born[k] /\ w.spec[k] = spec[k] /\ born[k] <= clock
      /\ n \notin live => w.born[n] = clock + 1 /\ w.spec[n] = EmptySpec
  BY ViewInOrder DEF IInv, OrderInv, BornInOrder
<1>5. clock \in Nat /\ \A k \in w.keys : w.born[k] \in Nat
  BY <1>1 DEF IInv, TypeOK, IsView
<1>6. A # T => w.spec[A].role = "active"
  <2>. SUFFICES ASSUME A # T PROVE w.spec[A].role = "active"
    OBVIOUS
  <2>1. A = ActiveBefore(w) /\ A # T
    BY DEF ActiveAfter
  <2>2. HavingRole(w, "active") # {} /\ A = OldestOf(HavingRole(w, "active"), w.born)
    BY <2>1 DEF ActiveBefore, RoleHolder
  <2>. HIDE DEF A
  <2>3. A \in HavingRole(w, "active")
    BY <1>1, <2>2, OldestIsIn DEF IsView, HavingRole
  <2>. QED  BY <2>3 DEF HavingRole
<1>7. EmptySpec.role \notin {"active", "target"}
  BY DEF EmptySpec
<1>. HIDE DEF w, d, s, T, A, n
<1>8. ASSUME NEW j \in w.keys, w.born[A] < w.born[j]
      PROVE  j = T /\ A # T
  <2>1. A # T
    BY <1>2, <1>3, <1>5, <1>8
  <2>2. A \in live /\ spec[A].role = "active"
    BY <1>3, <1>4, <1>6, <1>7, <2>1
  <2>3. CASE j \notin live
    <3>1. j = n /\ w.born[j] = clock + 1
      BY <1>4, <2>3
    <3>. QED  BY <1>2, <1>4, <1>5, <2>1, <2>3, <3>1
  <2>4. CASE j \in live
    <3>1. spec[j].role = "target"
      BY <1>4, <1>8, <2>2, <2>4 DEF KeepInv, ActiveThenTarget
    <3>2. w.keys = live
      <4>1. n \in live
        BY <2>4, <3>1 DEF KeepInv, CreatesAfterRollout, RolloutUnderWay, HasTarget, n
      <4>. QED  BY <1>4, <4>1
    <3>3. T \in live /\ born[A] < born[T]
      BY <1>2, <1>3, <1>4, <1>5, <1>8, <3>2
    <3>4. spec[T].role = "target"
      BY <2>2, <3>3 DEF KeepInv, ActiveThenTarget
    <3>. QED  BY <2>1, <2>4, <3>1, <3>3, <3>4 DEF KeepInv, ActiveThenTarget
  <2>. QED  BY <2>3, <2>4
<1>9. \A k, j \in w.keys : s[k].role = "active" /\ w.born[k] < w.born[j] => s[j].role = "target"
  BY <1>2, <1>3, <1>8, SharedActive, SharedTarget
<1>10. \A k, m \in w.keys : s[k].role = "target" /\ s[m].role = "target" => k = m
  BY <1>2, <1>3, SharedTarget
<1>. QED  BY <1>9, <1>10 DEF ActiveThenTarget, s, w, d

LEMMA StartPassKeeps ==
  ASSUME Collecting, IInv, OrderInv, TargetInv, KeepInv, StartPass
  PROVE  KeepInv' /\ UNCHANGED live
<1>. DEFINE w == View
            n == at.release
<1>1. job = Idle /\ IsView(w) /\ TypeOK /\ BornInOrder /\ CurrentIsNewest
  BY GoodView DEF StartPass, IInv, OrderInv
<1>2. /\ job'.pc = "saving" /\ job' # Idle /\ job'.keys = w.keys /\ job'.born = w.born
      /\ job'.spec = IF Waits(w, atStatus.timer = "fresh") THEN w.spec
                     ELSE PlannedSpec(w, DesiredInstances)
      /\ job'.drop \subseteq w.keys \ Kept(w)
      /\ \A k \in w.keys : job'.spec[k] # w.spec[k] => k \in job'.todo
      /\ UNCHANGED <<at, live, born, spec>>
  BY CollectingPassBegins
<1>3. /\ w.keys = live \cup {n}
      /\ \A k \in live : w.born[k] = born[k] /\ w.spec[k] = spec[k] /\ born[k] <= clock
      /\ n \notin live => w.born[n] = clock + 1 /\ w.spec[n] = EmptySpec
  BY <1>1, ViewInOrder DEF BornInOrder
<1>4. PlannedSpec(w, DesiredInstances) = job'.spec => ActiveThenTarget(job'.spec, w.keys, w.born)
  BY <1>1, PlanKeepsOrder
<1>5. Waits(w, atStatus.timer = "fresh") => HasTarget(w.spec, w.keys)
  BY DEF Waits, RoleHolder, HavingRole, HasTarget
<1>. HIDE DEF w, n
<1>6. ActiveThenTarget(job'.spec, w.keys, w.born)
  <2>1. CASE ~Waits(w, atStatus.timer = "fresh")
    BY <1>2, <1>4, <2>1
  <2>2. CASE Waits(w, atStatus.timer = "fresh")
    <3>1. EmptySpec.role # "target"
      BY DEF EmptySpec
    <3>2. HasTarget(spec, live)
      BY <1>3, <1>5, <2>2, <3>1 DEF HasTarget
    <3>3. n \in live
      BY <1>1, <3>2 DEF KeepInv, CreatesAfterRollout, RolloutUnderWay, n
    <3>4. w.keys = live /\ job'.spec = w.spec
      BY <1>2, <1>3, <2>2, <3>3
    <3>. QED  BY <1>1, <1>3, <3>4 DEF KeepInv, ActiveThenTarget
  <2>. QED  BY <2>1, <2>2
<1>7. \A k \in w.keys : job'.spec[k].role = "active" => k \in Kept(w)
  <2>. SUFFICES ASSUME NEW k \in w.keys, job'.spec[k].role = "active"
                PROVE  k \in Kept(w)
    OBVIOUS
  <2>1. \A i, j \in w.keys : w.born[k] < w.born[i] /\ w.born[k] < w.born[j] => i = j
    BY <1>6 DEF ActiveThenTarget
  <2>2. \E t : \A j \in w.keys : w.born[k] < w.born[j] => j = t
    BY <2>1
  <2>. QED  BY <1>1, <2>2, KeepsTwo DEF Collecting
<1>8. n \in Kept(w)
  <2>1. n \in w.keys /\ \A j \in w.keys : ~(w.born[n] < w.born[j])
    <3>1. n \in live => \A j \in live : born[j] <= born[n]
      BY <1>1 DEF CurrentIsNewest, n
    <3>2. clock \in Nat /\ \A j \in w.keys : w.born[j] \in Nat
      BY <1>1 DEF TypeOK, IsView
    <3>. QED  BY <1>3, <3>1, <3>2
  <2>. QED  BY <1>1, <2>1, KeepsTwo DEF Collecting
<1>9. CreatesAfterRollout' /\ n \notin job'.drop /\ job'.drop \subseteq live'
  BY <1>2, <1>3, <1>8 DEF CreatesAfterRollout, n
<1>10. \A k \in (job'.keys \ job'.todo) \cap live' : spec'[k] = job'.spec[k]
  BY <1>2, <1>3
<1>. QED  BY <1>2, <1>6, <1>7, <1>9, <1>10 DEF KeepInv, n

LEMMA SaveReleaseKeeps ==
  ASSUME IInv, OrderInv, KeepInv, SaveRelease
  PROVE  KeepInv' /\ live \subseteq live'
<1>1. /\ job # Idle /\ job.pc = "saving" /\ job' # Idle /\ job'.pc = "saving"
      /\ job'.keys = job.keys /\ job'.spec = job.spec /\ job'.born = job.born
      /\ job'.drop = job.drop /\ UNCHANGED at
      /\ live \subseteq Names
  BY OneIsSaved DEF IInv, TypeOK
<1>2. PICK k \in job.keys \cap Names :
              /\ live' = live \cup {k} /\ job'.todo = job.todo \ {k} /\ spec'[k] = job.spec[k]
              /\ \A n \in Names \ {k} : spec'[n] = spec[n]
  BY OneIsSaved
<1>3. CreatesAfterRollout'
  BY SavesFollow DEF KeepInv
<1>4. \A n \in (job.keys \ job'.todo) \cap live' : spec'[n] = job.spec[n]
  BY <1>1, <1>2 DEF KeepInv
<1>5. at.release \notin job.drop /\ job.drop \subseteq live
  BY <1>1 DEF KeepInv
<1>. QED  BY <1>1, <1>2, <1>3, <1>4, <1>5 DEF KeepInv, ActiveThenTarget

LEMMA CollectReleasesKeeps ==
  ASSUME IInv, OrderInv, KeepInv, CollectReleases
  PROVE  KeepInv' /\ \A n \in live \ live' : spec[n].role # "active"
<1>. DEFINE gone == {NameOf(k, job.forced) : k \in job.drop}
<1>1. job # Idle /\ job.pc = "saving" /\ job.todo = {} /\ UNCHANGED at
  BY DEF CollectReleases
<1>2. job \in Job /\ ListOK /\ InOrder /\ Complete /\ live \subseteq Names
  BY <1>1, JobIsJob DEF OrderInv, TypeOK
<1>3. gone = job.drop
  <2>1. job.drop \subseteq Names
    BY <1>1, <1>2 DEF KeepInv
  <2>2. \A k \in Names : NameOf(k, job.forced) = k
    BY ReleasesAssumption DEF NameOf
  <2>. QED  BY <2>1, <2>2
<1>4. /\ live' = live \ gone
      /\ spec' = [n \in Names |-> IF n \in gone THEN EmptySpec ELSE spec[n]]
      /\ job' = [job EXCEPT !.pc = "scaling"]
  BY DEF CollectReleases
<1>. HIDE DEF gone
<1>5. live' = live \ job.drop /\ \A n \in live' : spec'[n] = spec[n]
  BY <1>2, <1>3, <1>4
<1>6. /\ job'.keys = job.keys /\ job'.spec = job.spec /\ job'.born = job.born
      /\ job'.drop = job.drop /\ job'.todo = job.todo
      /\ job'.pc = "scaling" /\ job' # Idle
  <2>1. Idle.pc = "idle"
    BY DEF Idle
  <2>. QED  BY <1>2, <1>4, <2>1 DEF Job
<1>7. live \subseteq job.keys /\ at.release \notin job.drop
  BY <1>1, <1>2 DEF Complete, KeepInv
<1>8. CreatesAfterRollout'
  BY <1>1, <1>5, <1>6, <1>7 DEF KeepInv, CreatesAfterRollout, RolloutUnderWay, HasTarget
<1>9. \A n \in live \ live' : spec[n].role # "active"
  BY <1>1, <1>5, <1>7 DEF KeepInv
<1>. QED  BY <1>1, <1>5, <1>6, <1>7, <1>8, <1>9 DEF KeepInv, ActiveThenTarget

LEMMA PublicationsKeep ==
  ASSUME IInv, KeepInv, PublishScaler \/ PublishRoutes
  PROVE  KeepInv' /\ UNCHANGED live
<1>1. /\ UNCHANGED <<at, live, spec, born>> /\ job # Idle /\ job \in Job
      /\ \E p \in {"routing", "reporting"} : job' = [job EXCEPT !.pc = p]
  BY JobIsJob DEF PublishScaler, PublishRoutes
<1>2. /\ job'.keys = job.keys /\ job'.spec = job.spec /\ job'.born = job.born
      /\ job'.drop = job.drop /\ job'.todo = job.todo
      /\ job'.pc # "saving" /\ job' # Idle
  <2>1. Idle.pc = "idle"
    BY DEF Idle
  <2>. QED  BY <1>1, <2>1 DEF Job
<1>3. CreatesAfterRollout' /\ (RolloutUnderWay' <=> RolloutUnderWay)
  BY <1>1, <1>2 DEF KeepInv, CreatesAfterRollout, RolloutUnderWay, HasTarget
<1>. QED  BY <1>1, <1>2, <1>3 DEF KeepInv, ActiveThenTarget

LEMMA WriteStatusKeeps ==
  ASSUME IInv, OrderInv, KeepInv, WriteStatus
  PROVE  KeepInv' /\ UNCHANGED live
<1>1. /\ job # Idle /\ job.pc = "reporting" /\ job' = Idle
      /\ UNCHANGED <<at, live, born, spec>>
  BY DEF WriteStatus
<1>2. /\ live = job.keys \ job.drop
      /\ \A k \in live : spec[k] = job.spec[k] /\ born[k] = job.born[k]
  BY <1>1 DEF OrderInv, Complete, InOrder, KeepInv
<1>3. ActiveThenTarget(spec, live, born)
  BY <1>1, <1>2 DEF KeepInv, ActiveThenTarget
<1>4. CreatesAfterRollout'
  BY <1>1, <1>2 DEF KeepInv, CreatesAfterRollout, RolloutUnderWay, HasTarget
<1>. QED  BY <1>1, <1>3, <1>4 DEF KeepInv, ActiveThenTarget

LEMMA OthersKeep ==
  ASSUME Collecting, IInv, TargetInv, KeepInv, [Next]_vars, ~Passing,
         DeployNew => ~RolloutUnderWay
  PROVE  KeepInv' /\ UNCHANGED live
<1>1. UNCHANGED <<live, born, spec, job>> /\ ~DeployAgain
  <2>1. ~PassFails /\ ~ConfirmRollback /\ ~DeployAgain
    BY DEF PassFails, ConfirmRollback, DeployAgain, EditApp, Collecting, NoFailures, NoRedeploys,
           TargetInv
  <2>. QED  BY <2>1, OthersKeepReleases DEF Passing
<1>2. RolloutUnderWay' <=> RolloutUnderWay
  BY <1>1 DEF RolloutUnderWay, HasTarget
<1>3. CASE DeployNew
  <2>1. ~RolloutUnderWay /\ at'.release \notin live
    BY <1>3 DEF DeployNew, EditApp, IInv, TypeOK, AppTargetSpec
  <2>2. job # Idle /\ job.pc = "saving" => job.drop \subseteq live
    BY DEF KeepInv
  <2>. QED  BY <1>1, <1>2, <2>1, <2>2 DEF KeepInv, CreatesAfterRollout, ActiveThenTarget
<1>4. CASE ~DeployNew
  <2>1. at'.release = at.release
    BY <1>1, <1>4, OnlyDeployments DEF IInv
  <2>. QED  BY <1>1, <1>2, <2>1 DEF KeepInv, CreatesAfterRollout, ActiveThenTarget
<1>. QED  BY <1>3, <1>4

LEMMA StepKeeps ==
  ASSUME Collecting, IInv, OrderInv, TargetInv, KeepInv, [Next]_vars,
         [DeployNew => ~RolloutUnderWay]_vars
  PROVE  KeepInv' /\ \A n \in live \ live' : spec[n].role # "active"
<1>1. CASE UNCHANGED vars
  BY <1>1 DEF vars, KeepInv, CreatesAfterRollout, RolloutUnderWay, HasTarget, ActiveThenTarget
<1>2. CASE StartPass
  BY <1>2, StartPassKeeps
<1>3. CASE SaveRelease
  BY <1>3, SaveReleaseKeeps
<1>4. CASE CollectReleases
  BY <1>4, CollectReleasesKeeps
<1>5. CASE PublishScaler \/ PublishRoutes \/ WriteStatus
  BY <1>5, PublicationsKeep, WriteStatusKeeps
<1>6. CASE ~Passing /\ ~UNCHANGED vars
  BY <1>6, OthersKeep
<1>. QED  BY <1>1, <1>2, <1>3, <1>4, <1>5, <1>6 DEF Passing

(* Neither a plan, a halt nor the collection of old releases deletes the   *)
(* active release, however many releases there are and however old they    *)
(* get (deployReleases, the deletion beyond numReleasesToKeep).  That no   *)
(* deployment overtakes another one is needed: each one that does moves    *)
(* the active release further down the list, until it is beyond the limit. *)
THEOREM ActivesAreKept ==
  ASSUME Collecting
  PROVE  Spec /\ OneAtATime => ActiveIsKept
<1>1. Init => KeepInv
  BY DEF Init, KeepInv, CreatesAfterRollout, RolloutUnderWay, HasTarget, ActiveThenTarget
<1>2. /\ IInv /\ OrderInv /\ TargetInv /\ KeepInv /\ [Next]_vars
      /\ [DeployNew => ~RolloutUnderWay]_vars
      => KeepInv' /\ [\A n \in live \ live' : spec[n].role # "active"]_vars
  BY StepKeeps
<1>. QED
  BY <1>1, <1>2, Invariance, OrderInvariance, TargetInvariance, PTL
     DEF Spec, OneAtATime, ActiveIsKept, Collecting
=============================================================================
