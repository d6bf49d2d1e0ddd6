--------------------------- MODULE RolloutProofs ---------------------------
(***************************************************************************)
(* Proofs about Rollout, for any number of releases, any scales and any    *)
(* events: its types; that every plan shares the traffic between one       *)
(* active and at most one target release; and what relates a plan to what  *)
(* it saves: in what order releases are created, that roles are unique,    *)
(* and that the target is kept.                                            *)
(***************************************************************************)
EXTENDS Rollout, FiniteSetTheorems, TLAPS

-----------------------------------------------------------------------------
(* The order of a list of releases.                                        *)

HasNewest(S, b) == \A T \in SUBSET S : T # {} => \E k \in T : \A j \in T : b[j] <= b[k]
HasOldest(S, b) == \A T \in SUBSET S : T # {} => \E k \in T : \A j \in T : b[k] <= b[j]
HasEnds(S, b) == HasNewest(S, b) /\ HasOldest(S, b)

(* A part of a list with ends has ends, also under timestamps that agree   *)
(* on it.                                                                  *)
LEMMA EndsOfPart ==
  ASSUME NEW S, NEW P \in SUBSET S, NEW b, NEW c, HasEnds(S, b),
         \A k \in P : c[k] = b[k]
  PROVE  HasEnds(P, c)
<1>1. HasNewest(P, c)
  BY DEF HasEnds, HasNewest
<1>2. HasOldest(P, c)
  BY DEF HasEnds, HasOldest
<1>. QED  BY <1>1, <1>2 DEF HasEnds

(* A list with ends still has them with one more entry.                    *)
LEMMA EndsOfMore ==
  ASSUME NEW S, NEW x, NEW b, HasEnds(S, b), \A k \in S \cup {x} : b[k] \in Nat
  PROVE  HasEnds(S \cup {x}, b)
<1>1. HasNewest(S \cup {x}, b)
  <2>. SUFFICES ASSUME NEW T \in SUBSET (S \cup {x}), T # {}
                PROVE  \E k \in T : \A j \in T : b[j] <= b[k]
    BY DEF HasNewest
  <2>1. CASE T \ {x} = {}
    BY <2>1
  <2>2. CASE T \ {x} # {}
    <3>1. PICK m \in T \ {x} : \A j \in T \ {x} : b[j] <= b[m]
      BY <2>2 DEF HasEnds, HasNewest
    <3>2. CASE x \in T /\ b[m] <= b[x]
      BY <3>1, <3>2
    <3>3. CASE ~(x \in T /\ b[m] <= b[x])
      BY <3>1, <3>3
    <3>. QED  BY <3>2, <3>3
  <2>. QED  BY <2>1, <2>2
<1>2. HasOldest(S \cup {x}, b)
  <2>. SUFFICES ASSUME NEW T \in SUBSET (S \cup {x}), T # {}
                PROVE  \E k \in T : \A j \in T : b[k] <= b[j]
    BY DEF HasOldest
  <2>1. CASE T \ {x} = {}
    BY <2>1
  <2>2. CASE T \ {x} # {}
    <3>1. PICK m \in T \ {x} : \A j \in T \ {x} : b[m] <= b[j]
      BY <2>2 DEF HasEnds, HasOldest
    <3>2. CASE x \in T /\ b[x] <= b[m]
      BY <3>1, <3>2
    <3>3. CASE ~(x \in T /\ b[x] <= b[m])
      BY <3>1, <3>3
    <3>. QED  BY <3>2, <3>3
  <2>. QED  BY <2>1, <2>2
<1>. QED  BY <1>1, <1>2 DEF HasEnds

LEMMA NewestIsIn ==
  ASSUME NEW S, NEW T \in SUBSET S, NEW b, HasEnds(S, b), T # {}
  PROVE  NewestOf(T, b) \in T
  BY DEF HasEnds, HasNewest, NewestOf

LEMMA OldestIsIn ==
  ASSUME NEW S, NEW T \in SUBSET S, NEW b, HasEnds(S, b), T # {}
  PROVE  OldestOf(T, b) \in T
  BY DEF HasEnds, HasOldest, OldestOf

-----------------------------------------------------------------------------
(* The arithmetic of the plan.                                             *)

LEMMA ShareIsPercentage ==
  ASSUME NEW a \in Nat, NEW d \in Nat
  PROVE  AvailableShare(a, d) \in 0..100
<1>1. CASE a >= d
  BY <1>1 DEF AvailableShare
<1>2. CASE a < d
  <2>1. (100 * a) \div d \in 0..100
    BY <1>2
  <2>. QED  BY <1>2, <2>1 DEF AvailableShare
<1>. QED  BY <1>1, <1>2

LEMMA ProductIsNat ==
  ASSUME NEW a \in Nat, NEW b \in Nat
  PROVE  a * b \in Nat
  OBVIOUS

LEMMA InstancesAreNat ==
  ASSUME NEW d \in Nat, NEW p \in Nat
  PROVE  ActiveInstances(d, p) \in Nat
<1>1. (d * p) \div 100 \in Nat
  BY ProductIsNat
<1>. QED  BY <1>1 DEF ActiveInstances

-----------------------------------------------------------------------------
(* The plan of a pass over any list of releases.                           *)

IsView(w) ==
  /\ w.keys \in SUBSET Keys
  /\ w.spec \in [Keys -> ReleaseSpec]
  /\ w.status \in [Keys -> ReleaseStatus]
  /\ w.born \in [Keys -> Nat]
  /\ HasEnds(w.keys, w.born)

LEMMA RolesOfView ==
  ASSUME NEW w, IsView(w), NEW desired \in Nat, Deployable(w) # {}
  PROVE  /\ TargetOf(w) \in w.keys
         /\ w.spec[TargetOf(w)].role # "bad"
         /\ ActiveBefore(w) \in w.keys
         /\ ActiveAfter(w, desired) \in w.keys
<1>1. TargetOf(w) \in Deployable(w)
  BY NewestIsIn DEF IsView, TargetOf, Deployable
<1>2. TargetOf(w) \in w.keys /\ w.spec[TargetOf(w)].role # "bad"
  BY <1>1 DEF Deployable, HavingRole
<1>3. CASE HavingRole(w, "active") = {}
  BY <1>2, <1>3 DEF ActiveBefore, ActiveAfter, RoleHolder
<1>4. CASE HavingRole(w, "active") # {}
  <2>1. OldestOf(HavingRole(w, "active"), w.born) \in w.keys
    BY <1>4, OldestIsIn DEF IsView, HavingRole
  <2>. QED  BY <1>2, <2>1 DEF ActiveBefore, ActiveAfter, RoleHolder
<1>. QED  BY <1>2, <1>3, <1>4

LEMMA ShareOfView ==
  ASSUME NEW w, IsView(w), NEW desired \in Nat, Deployable(w) # {}
  PROVE  TargetShare(w, desired) \in 0..100
<1>. DEFINE t == TargetOf(w)
<1>1. t \in Keys
  BY RolesOfView DEF IsView
<1>2. w.status[t].numAvailable \in Nat /\ w.spec[t].traffic \in 0..100
  BY <1>1 DEF IsView, ReleaseSpec, ReleaseStatus
<1>3. AvailableShare(w.status[t].numAvailable, desired) \in 0..100
  BY <1>2, ShareIsPercentage
<1>4. LesserOf(AvailableShare(w.status[t].numAvailable, desired), w.spec[t].traffic + Ramp)
        \in 0..100
  <2>. DEFINE x == AvailableShare(w.status[t].numAvailable, desired)
              y == w.spec[t].traffic + Ramp
  <2>1. x \in 0..100 /\ y \in Nat
    BY <1>2, <1>3, ReleasesAssumption
  <2>. HIDE DEF x, y
  <2>2. LesserOf(x, y) \in 0..100
    BY <2>1 DEF LesserOf
  <2>. QED  BY <2>2 DEF x, y
<1>5. TargetShare(w, desired) \in
        {100, LesserOf(AvailableShare(w.status[t].numAvailable, desired), w.spec[t].traffic + Ramp)}
  BY DEF TargetShare
<1>6. 100 \in 0..100
  OBVIOUS
<1>. QED  BY <1>4, <1>5, <1>6

LEMMA InstancesOfView ==
  ASSUME NEW w, IsView(w), NEW desired \in Nat, Deployable(w) # {}, NEW k \in Keys
  PROVE  PlannedInstances(w, desired, k) \in Nat
<1>. DEFINE t == TargetOf(w)
<1>1. t \in Keys
  BY RolesOfView DEF IsView
<1>2. /\ w.status[t].numAvailable \in Nat
      /\ w.spec[t].numDesired \in Nat
      /\ w.spec[k].numDesired \in Nat
      /\ w.spec[k].traffic \in Nat
  <2>1. w.status[t] \in ReleaseStatus /\ w.spec[t] \in ReleaseSpec /\ w.spec[k] \in ReleaseSpec
    BY <1>1 DEF IsView
  <2>. QED  BY <2>1 DEF ReleaseSpec, ReleaseStatus
<1>3. (desired * Ramp) \div 100 \in Nat
  BY ProductIsNat, ReleasesAssumption
<1>4. RampInstances(w, desired) \in Nat
  BY <1>2, <1>3 DEF RampInstances, GreaterOf, LesserOf
<1>5. TargetInstances(w, desired) \in Nat
  BY <1>1, <1>2, <1>4 DEF TargetInstances, GreaterOf
<1>6. ActiveInstances(desired, w.spec[k].traffic) \in Nat
  BY <1>2, InstancesAreNat
<1>. QED  BY <1>2, <1>5, <1>6 DEF PlannedInstances

(* The heart of deployReleases: the shares of the active and the target    *)
(* release add up to 100, and no other release keeps any.                  *)
LEMMA PlanOfView ==
  ASSUME NEW w, IsView(w), NEW desired \in Nat, Deployable(w) # {}
  PROVE  /\ PlannedSpec(w, desired) \in [Keys -> ReleaseSpec]
         /\ SharedBetween(PlannedSpec(w, desired), w.keys,
                          ActiveAfter(w, desired), TargetOf(w))
<1>. DEFINE s == PlannedSpec(w, desired)
            t == TargetOf(w)
            a == ActiveAfter(w, desired)
            share == TargetShare(w, desired)
<1>1. t \in w.keys /\ a \in w.keys /\ w.keys \in SUBSET Keys
  BY RolesOfView DEF IsView
<1>2. share \in 0..100
  BY ShareOfView
<1>3. ASSUME NEW k \in w.keys
      PROVE  /\ s[k] = [role       |-> PlannedRole(w, desired, k),
                        traffic    |-> PlannedTraffic(w, desired, k),
                        numDesired |-> PlannedInstances(w, desired, k),
                        tlabel     |-> k = t]
             /\ s[k].role = PlannedRole(w, desired, k)
             /\ s[k].traffic = PlannedTraffic(w, desired, k)
             /\ s[k].tlabel = (k = t)
  BY <1>1 DEF PlannedSpec
<1>. HIDE DEF s
<1>4. PlannedTraffic(w, desired, t) = IF a = t THEN 100 ELSE share
  BY <1>2 DEF PlannedTraffic, TotalTraffic
<1>5. a # t => PlannedTraffic(w, desired, a) = 100 - share
  BY DEF PlannedTraffic
<1>6. \A k \in w.keys \ {a, t} : PlannedTraffic(w, desired, k) = 0
  BY DEF PlannedTraffic
<1>7. s \in [Keys -> ReleaseSpec]
  <2>. SUFFICES ASSUME NEW k \in Keys PROVE s[k] \in ReleaseSpec
    BY DEF s, PlannedSpec
  <2>1. CASE k \notin w.keys
    BY <2>1 DEF s, PlannedSpec, IsView
  <2>2. CASE k \in w.keys
    <3>1. PlannedTraffic(w, desired, k) \in 0..100
      BY <1>2, <1>4, <1>5, <1>6, <2>2
    <3>2. PlannedRole(w, desired, k) \in Roles
      BY DEF PlannedRole, Roles
    <3>3. PlannedInstances(w, desired, k) \in Nat
      BY InstancesOfView
    <3>4. (k = t) \in BOOLEAN
      OBVIOUS
    <3>5. [role       |-> PlannedRole(w, desired, k),
           traffic    |-> PlannedTraffic(w, desired, k),
           numDesired |-> PlannedInstances(w, desired, k),
           tlabel     |-> k = t] \in ReleaseSpec
      BY <3>1, <3>2, <3>3, <3>4, Zenon DEF ReleaseSpec
    <3>. QED  BY <1>3, <2>2, <3>5
  <2>. QED  BY <2>1, <2>2
<1>8. SharedBetween(s, w.keys, a, t)
  <2>1. s[a].role = "active"
    BY <1>1, <1>3 DEF PlannedRole
  <2>2. a = t => s[t].traffic = 100
    BY <1>1, <1>3, <1>4
  <2>3. a # t => s[t].role = "target"
    BY <1>1, <1>3 DEF PlannedRole
  <2>4. a # t => s[a].traffic + s[t].traffic = 100
    <3>1. a # t => s[a].traffic = 100 - share
      BY <1>1, <1>3, <1>5
    <3>2. a # t => s[t].traffic = share
      BY <1>1, <1>3, <1>4
    <3>3. share \in Int
      BY <1>2
    <3>. HIDE DEF a, t, share
    <3>. QED  BY <3>1, <3>2, <3>3
  <2>5. \A k \in w.keys : s[k].tlabel <=> k = t
    BY <1>3
  <2>6. \A k \in w.keys \ {a, t} : s[k].traffic = 0
    BY <1>3, <1>6
  <2>7. \A k \in w.keys \ {a, t} : s[k].role \notin {"active", "target"}
    BY <1>3 DEF PlannedRole
  <2>. QED  BY <2>1, <2>2, <2>3, <2>4, <2>5, <2>6, <2>7 DEF SharedBetween
<1>. QED  BY <1>1, <1>7, <1>8 DEF s

-----------------------------------------------------------------------------
(* The inductive invariant.  A pass keeps a list that it can order, the    *)
(* entry of a deleted release is there only when a release is re-created,  *)
(* and what is saved, kept and dropped is part of the list.                *)

ListOK ==
  /\ job.todo \in SUBSET job.keys
  /\ job.kept \in SUBSET job.keys
  /\ job.drop \in SUBSET job.keys
  /\ HasEnds(job.keys, job.born)
  /\ Old \in job.keys => job.forced \in Names

IInv ==
  /\ TypeOK
  /\ HasEnds(live, born)
  /\ job # Idle => ListOK
  /\ PlanSharesTraffic

LEMMA InitIInv == Init => IInv
<1>. SUFFICES ASSUME Init PROVE IInv
  OBVIOUS
<1>1. at \in AppTargetSpec
  BY RolloutAssumption DEF Init, AppTargetSpec
<1>2. atStatus \in AppTargetStatus
  BY DEF Init, AppTargetStatus, OptName, Phases, Timers
<1>3. EmptySpec \in ReleaseSpec /\ EmptyStatus \in ReleaseStatus
  BY DEF EmptySpec, EmptyStatus, ReleaseSpec, ReleaseStatus, Roles, States
<1>4. TypeOK
  BY <1>1, <1>2, <1>3 DEF Init, TypeOK, ReplicaSet, NoReplicaSet
<1>5. HasEnds(live, born)
  BY DEF Init, HasEnds, HasNewest, HasOldest
<1>. QED  BY <1>4, <1>5 DEF Init, IInv, PlanSharesTraffic

-----------------------------------------------------------------------------
(* The list that a pass reads.                                             *)

LEMMA ViewIsView ==
  ASSUME TypeOK, HasEnds(live, born)
  PROVE  /\ IsView(View)
         /\ at.release \in View.keys
         /\ View.keys \in SUBSET Keys
         /\ Old \in View.keys => Forced
<1>. DEFINE n == at.release
            b == View.born
<1>1. n \in Names /\ live \in SUBSET Names /\ n # Old /\ Old \notin live
  BY ReleasesAssumption DEF TypeOK, AppTargetSpec
<1>2. View.keys = live \cup {n} \cup (IF Forced THEN {Old} ELSE {})
  BY DEF View
<1>3. b = [k \in Keys |-> IF k = Old THEN (IF Forced THEN born[n] ELSE 0)
                         ELSE IF k = n /\ Creates THEN clock + 1 ELSE born[k]]
  BY DEF View
<1>4. b \in [Keys -> Nat]
  BY <1>1, <1>3 DEF TypeOK, Keys
<1>5. View.keys \in SUBSET Keys
  BY <1>1, <1>2 DEF Keys
<1>6. HasEnds(live \ {n}, b)
  <2>1. \A k \in live \ {n} : b[k] = born[k]
    BY <1>1, <1>3 DEF Keys
  <2>. QED  BY <2>1, EndsOfPart
<1>7. HasEnds((live \ {n}) \cup {n}, b)
  <2>1. \A k \in (live \ {n}) \cup {n} : b[k] \in Nat
    BY <1>1, <1>4 DEF Keys
  <2>. HIDE DEF b, n
  <2>. QED  BY <1>6, <2>1, EndsOfMore
<1>8. HasEnds(((live \ {n}) \cup {n}) \cup {Old}, b)
  <2>1. \A k \in ((live \ {n}) \cup {n}) \cup {Old} : b[k] \in Nat
    BY <1>1, <1>4 DEF Keys
  <2>. HIDE DEF b, n
  <2>. QED  BY <1>7, <2>1, EndsOfMore
<1>9. HasEnds(View.keys, b)
  <2>1. View.keys \in SUBSET (((live \ {n}) \cup {n}) \cup {Old})
    BY <1>2
  <2>. HIDE DEF b, n
  <2>. QED  BY <1>8, <2>1, EndsOfPart
<1>10. View.spec \in [Keys -> ReleaseSpec]
  <2>1. EmptySpec \in ReleaseSpec
    BY DEF EmptySpec, ReleaseSpec, Roles
  <2>. QED  BY <1>1, <2>1 DEF View, TypeOK, Keys
<1>11. View.status \in [Keys -> ReleaseStatus]
  <2>1. EmptyStatus \in ReleaseStatus
    BY DEF EmptyStatus, ReleaseStatus, States
  <2>. QED  BY <1>1, <2>1 DEF View, TypeOK, Keys
<1>. QED  BY <1>1, <1>2, <1>4, <1>5, <1>9, <1>10, <1>11 DEF IsView

LEMMA DesiredIsNat ==
  ASSUME TypeOK
  PROVE  DesiredInstances \in Nat
<1>1. at.scale.min \in Nat /\ at.scale.max \in Nat /\ atStatus.numDesired \in Nat
  BY RolloutAssumption DEF TypeOK, AppTargetSpec, AppTargetStatus
<1>. QED  BY <1>1 DEF DesiredInstances, LesserOf, GreaterOf

LEMMA ReportOfView ==
  ASSUME TypeOK, HasEnds(live, born), Deployable(View) # {}
  PROVE  Report(View) \in AppTargetReport
<1>. DEFINE d == DesiredInstances
            a == ActiveAfter(View, d)
            t == TargetOf(View)
<1>1. /\ a \in View.keys /\ t \in View.keys
      /\ View.keys \in SUBSET Keys
      /\ View.status \in [Keys -> ReleaseStatus]
  BY ViewIsView, DesiredIsNat, RolesOfView DEF IsView
<1>2. NameOf(a, at.release) \in OptName /\ NameOf(t, at.release) \in OptName
  <2>1. \A k \in Keys : NameOf(k, at.release) \in OptName
    BY DEF NameOf, TypeOK, AppTargetSpec, Keys, OptName
  <2>. QED  BY <1>1, <2>1
<1>3. View.status[t].numDesired \in Nat /\ atStatus.numDesired \in Nat
  BY <1>1 DEF ReleaseStatus, TypeOK, AppTargetStatus
<1>4. RolloutPhase(View, d, at.halted) \in Phases
  BY DEF RolloutPhase, Phases
<1>. QED  BY <1>2, <1>3, <1>4 DEF Report, AppTargetReport

-----------------------------------------------------------------------------
(* The steps of a pass.                                                    *)

LEMMA StartPassIInv ==
  ASSUME IInv, StartPass
  PROVE  IInv'
<1>. DEFINE w == View
            d == DesiredInstances
            outcome == Outcome(w, atStatus.timer = "fresh")
            planned == SpecAfter(w, atStatus.timer = "fresh", d)
<1>1. TypeOK /\ HasEnds(live, born)
  BY DEF IInv
<1>2. /\ IsView(w) /\ at.release \in w.keys /\ w.keys \in SUBSET Keys
      /\ Old \in w.keys => Forced
      /\ d \in Nat
  BY <1>1, ViewIsView, DesiredIsNat
<1>3. outcome = "planned" => Deployable(w) # {}
  BY DEF Outcome
<1>4. outcome = "planned" => planned = PlannedSpec(w, d)
  BY DEF SpecAfter
<1>5. planned \in [Keys -> ReleaseSpec]
  <2>1. CASE outcome = "planned"
    BY <1>2, <1>3, <1>4, <2>1, PlanOfView
  <2>2. CASE outcome # "planned"
    BY <1>2, <2>2 DEF SpecAfter, IsView
  <2>. QED  BY <2>1, <2>2
<1>6. /\ job'.pc = "saving"
      /\ job'.outcome = outcome
      /\ job'.keys = w.keys
      /\ job'.forced = IF Forced THEN at.release ELSE NoRelease
      /\ job'.spec = planned
      /\ job'.born = w.born
      /\ job'.todo \in SUBSET w.keys
      /\ job'.kept = Kept(w)
      /\ job'.drop \in SUBSET w.keys
  BY DEF StartPass
<1>7. Kept(w) \in SUBSET w.keys
  BY DEF Kept
<1>8. job' \in Job
  <2>1. outcome \in {"wait", "none", "planned"}
    BY DEF Outcome
  <2>2. (IF Forced THEN at.release ELSE NoRelease) \in OptName
    BY <1>1 DEF TypeOK, AppTargetSpec, OptName
  <2>3. (IF outcome = "planned" THEN Report(w) ELSE SameReport) \in AppTargetReport
    <3>1. SameReport \in AppTargetReport
      BY <1>1 DEF TypeOK, AppTargetStatus, AppTargetReport, SameReport
    <3>2. outcome = "planned" => Report(w) \in AppTargetReport
      BY <1>1, <1>3, ReportOfView
    <3>. QED  BY <3>1, <3>2
  <2>4. w.born \in [Keys -> Nat]
    BY <1>2 DEF IsView
  <2>. HIDE DEF w, outcome, planned
  <2>5. job'.todo \in SUBSET Keys /\ job'.drop \in SUBSET Keys /\ job'.kept \in SUBSET Keys
    BY <1>2, <1>6, <1>7
  <2>6. job' = [pc |-> "saving", scale |-> at.scale, outcome |-> outcome, keys |-> w.keys,
                forced |-> IF Forced THEN at.release ELSE NoRelease,
                spec |-> planned, born |-> w.born, todo |-> job'.todo, kept |-> job'.kept,
                drop |-> job'.drop,
                report |-> IF outcome = "planned" THEN Report(w) ELSE SameReport,
                restarts |-> job'.restarts]
    BY DEF StartPass, w, outcome, planned
  <2>7. job'.restarts \in BOOLEAN
    BY DEF StartPass
  <2>8. at.scale \in Scales
    BY <1>1 DEF TypeOK, AppTargetSpec
  <2>. QED  BY <1>2, <1>5, <2>1, <2>2, <2>3, <2>4, <2>5, <2>6, <2>7, <2>8 DEF Job
<1>9. ListOK'
  <2>1. HasEnds(w.keys, w.born)
    BY <1>2 DEF IsView
  <2>2. at.release \in Names
    BY <1>1 DEF TypeOK, AppTargetSpec
  <2>. HIDE DEF w
  <2>. QED  BY <1>2, <1>6, <1>7, <2>1, <2>2 DEF ListOK
<1>10. PlanSharesTraffic'
  <2>1. outcome = "planned" => ActiveAfter(w, d) \in w.keys /\ TargetOf(w) \in w.keys
    BY <1>2, <1>3, RolesOfView
  <2>. HIDE DEF w, outcome, planned, d
  <2>. QED  BY <1>2, <1>3, <1>4, <1>6, <2>1, PlanOfView DEF PlanSharesTraffic
<1>11. HasEnds(live, born)'
  <2>1. live' \in SUBSET live /\ born' = born
    BY DEF StartPass
  <2>. QED  BY <1>1, <2>1, EndsOfPart
<1>12. TypeOK'
  <2>1. EmptySpec \in ReleaseSpec /\ EmptyStatus \in ReleaseStatus
    BY DEF EmptySpec, EmptyStatus, ReleaseSpec, ReleaseStatus, Roles, States
  <2>2. live' \in SUBSET Names /\ aged' \in SUBSET Names
    BY <1>1 DEF StartPass, TypeOK
  <2>3. spec' \in [Names -> ReleaseSpec] /\ status' \in [Names -> ReleaseStatus]
    BY <1>1, <2>1 DEF StartPass, TypeOK
  <2>4. rs' \in [Names -> ReplicaSet]
    BY <1>1 DEF StartPass, TypeOK, ReplicaSet, NoReplicaSet
  <2>5. UNCHANGED <<at, atStatus, clock, born, routes, scaler, rollback, edits, faults>>
    BY DEF StartPass
  <2>. QED  BY <1>1, <1>8, <2>2, <2>3, <2>4, <2>5 DEF TypeOK
<1>. QED  BY <1>9, <1>10, <1>11, <1>12 DEF IInv

LEMMA JobIsJob ==
  ASSUME IInv, job # Idle
  PROVE  job \in Job /\ ListOK /\ TypeOK /\ HasEnds(live, born)
  BY DEF IInv, TypeOK

(* The steps of a pass after its plan change how far it has come, and not  *)
(* the list it works on.                                                   *)
SameList ==
  /\ job'.outcome = job.outcome /\ job'.keys = job.keys /\ job'.forced = job.forced
  /\ job'.spec = job.spec /\ job'.born = job.born /\ job'.kept = job.kept
  /\ job'.drop = job.drop

LEMMA SameListKeeps ==
  ASSUME IInv, job # Idle, SameList, job'.todo \in SUBSET job.todo
  PROVE  ListOK' /\ PlanSharesTraffic'
<1>1. ListOK /\ PlanSharesTraffic
  BY DEF IInv
<1>2. ListOK'
  BY <1>1 DEF ListOK, SameList
<1>3. PlanSharesTraffic'
  BY <1>1 DEF PlanSharesTraffic, SameList
<1>. QED  BY <1>2, <1>3

LEMMA SaveReleaseIInv ==
  ASSUME IInv, SaveRelease
  PROVE  IInv'
<1>. DEFINE k == NewestOf(job.todo, job.born)
            n == NameOf(k, job.forced)
<1>1. /\ job # Idle /\ job.pc = "saving" /\ job.todo # {}
      /\ live' = live \cup {n}
      /\ IF n \in live THEN UNCHANGED <<clock, born>>
         ELSE clock' = clock + 1 /\ born' = [born EXCEPT ![n] = clock + 1]
      /\ spec' = [spec EXCEPT ![n] = job.spec[k]]
      /\ job' = [job EXCEPT !.todo = @ \ {k}]
      /\ UNCHANGED <<at, atStatus, aged, status, rs, routes, scaler, rollback, edits, faults>>
  BY DEF SaveRelease
<1>2. job \in Job /\ ListOK /\ TypeOK /\ HasEnds(live, born)
  BY <1>1, JobIsJob
<1>3. k \in job.todo
  BY <1>1, <1>2, NewestIsIn DEF ListOK
<1>4. k \in Keys /\ k \in job.keys
  BY <1>2, <1>3 DEF ListOK, Job
<1>5. n \in Names
  BY <1>2, <1>4 DEF NameOf, ListOK, Keys
<1>. HIDE DEF k, n
<1>6. clock' \in Nat /\ born' \in [Names -> Nat]
  BY <1>1, <1>2 DEF TypeOK
<1>7. spec' \in [Names -> ReleaseSpec]
  <2>1. job.spec[k] \in ReleaseSpec
    BY <1>2, <1>4 DEF Job
  <2>. QED  BY <1>1, <1>2, <2>1 DEF TypeOK
<1>8. job' \in Job /\ SameList /\ job'.todo \in SUBSET job.todo
  <2>1. job.todo \ {k} \in SUBSET Keys
    BY <1>2 DEF Job
  <2>2. job' \in Job
    BY <1>1, <1>2, <2>1 DEF Job
  <2>3. SameList /\ job'.todo \in SUBSET job.todo
    BY <1>1, <1>2 DEF Job, SameList
  <2>. QED  BY <2>2, <2>3
<1>9. TypeOK'
  BY <1>1, <1>2, <1>5, <1>6, <1>7, <1>8 DEF TypeOK
<1>10. HasEnds(live, born)'
  <2>1. HasEnds(live, born')
    <3>1. \A m \in live : born'[m] = born[m]
      BY <1>1, <1>2, <1>5 DEF TypeOK
    <3>. QED  BY <1>2, <3>1, EndsOfPart
  <2>2. \A m \in live \cup {n} : born'[m] \in Nat
    BY <1>2, <1>5, <1>6 DEF TypeOK
  <2>. QED  BY <1>1, <2>1, <2>2, EndsOfMore
<1>. QED  BY <1>1, <1>8, <1>9, <1>10, SameListKeeps DEF IInv

LEMMA CollectReleasesIInv ==
  ASSUME IInv, CollectReleases
  PROVE  IInv'
<1>. DEFINE gone == {NameOf(k, job.forced) : k \in job.drop}
<1>1. /\ job # Idle
      /\ live' = live \ gone
      /\ aged' = aged \ gone
      /\ spec' = [n \in Names |-> IF n \in gone THEN EmptySpec ELSE spec[n]]
      /\ status' = [n \in Names |-> IF n \in gone THEN EmptyStatus ELSE status[n]]
      /\ rs' = [n \in Names |-> IF n \in gone THEN NoReplicaSet ELSE rs[n]]
      /\ job' = [job EXCEPT !.pc = "scaling"]
      /\ UNCHANGED <<at, atStatus, clock, born, routes, scaler, rollback, edits, faults>>
  BY DEF CollectReleases
<1>. HIDE DEF gone
<1>2. job \in Job /\ ListOK /\ TypeOK /\ HasEnds(live, born)
  BY <1>1, JobIsJob
<1>3. EmptySpec \in ReleaseSpec /\ EmptyStatus \in ReleaseStatus
  BY DEF EmptySpec, EmptyStatus, ReleaseSpec, ReleaseStatus, Roles, States
<1>4. job' \in Job /\ SameList /\ job'.todo = job.todo
  BY <1>1, <1>2 DEF Job, SameList
<1>5. rs' \in [Names -> ReplicaSet]
  <2>1. NoReplicaSet \in ReplicaSet /\ \A n \in Names : rs[n] \in ReplicaSet
    BY <1>2 DEF TypeOK, ReplicaSet, NoReplicaSet
  <2>. QED  BY <1>1, <2>1
<1>6. TypeOK'
  BY <1>1, <1>2, <1>3, <1>4, <1>5 DEF TypeOK
<1>7. HasEnds(live, born)'
  BY <1>1, <1>2, EndsOfPart
<1>. QED  BY <1>1, <1>4, <1>6, <1>7, SameListKeeps DEF IInv

LEMMA PublishScalerIInv ==
  ASSUME IInv, PublishScaler
  PROVE  IInv'
<1>. DEFINE k == OldestOf(KeptHaving("active"), job.born)
<1>1. /\ job # Idle
      /\ scaler' = ScalerAfter
      /\ job' = [job EXCEPT !.pc = "routing"]
      /\ UNCHANGED <<at, atStatus, live, clock, born, aged, spec, status, rs, routes, rollback,
                     edits, faults>>
  BY DEF PublishScaler
<1>2. job \in Job /\ ListOK /\ TypeOK /\ HasEnds(live, born)
  BY <1>1, JobIsJob
<1>3. job' \in Job /\ SameList /\ job'.todo = job.todo
  BY <1>1, <1>2 DEF Job, SameList
<1>4. KeptHaving("active") # {} => NameOf(k, job.forced) \in Names
  <2>. SUFFICES ASSUME KeptHaving("active") # {} PROVE NameOf(k, job.forced) \in Names
    OBVIOUS
  <2>1. KeptHaving("active") \in SUBSET job.keys
    BY <1>2 DEF ListOK, KeptHaving
  <2>2. k \in job.keys
    BY <1>2, <2>1, OldestIsIn DEF ListOK
  <2>3. k \in Keys
    BY <1>2, <2>2 DEF Job
  <2>. HIDE DEF k
  <2>. QED  BY <1>2, <2>2, <2>3 DEF NameOf, ListOK, Keys
<1>5. ScalerAfter \in Scaler \cup {NoScaler}
  <2>1. job.scale.min \in Nat /\ job.scale.max \in Nat
    BY <1>2, RolloutAssumption DEF Job
  <2>2. GreaterOf(1, job.scale.min) \in Nat
    BY <2>1 DEF GreaterOf
  <2>3. GreaterOf(GreaterOf(1, job.scale.min), job.scale.max) \in Nat
    BY <2>1, <2>2 DEF GreaterOf
  <2>. QED  BY <1>4, <2>2, <2>3 DEF ScalerAfter, Scaler
<1>6. TypeOK'
  BY <1>1, <1>2, <1>3, <1>5 DEF TypeOK
<1>7. HasEnds(live, born)'
  BY <1>1, <1>2
<1>. QED  BY <1>1, <1>3, <1>6, <1>7, SameListKeeps DEF IInv

LEMMA PublishRoutesIInv ==
  ASSUME IInv, PublishRoutes
  PROVE  IInv'
<1>1. /\ job # Idle
      /\ routes' = [n \in Names |-> WeightOf(n)]
      /\ job' = [job EXCEPT !.pc = "reporting"]
      /\ UNCHANGED <<at, atStatus, live, clock, born, aged, spec, status, rs, scaler, rollback,
                     edits, faults>>
  BY DEF PublishRoutes
<1>2. job \in Job /\ ListOK /\ TypeOK /\ HasEnds(live, born)
  BY <1>1, JobIsJob
<1>3. job' \in Job /\ SameList /\ job'.todo = job.todo
  BY <1>1, <1>2 DEF Job, SameList
<1>4. routes' \in [Names -> Nat]
  <2>1. \A k \in Keys : job.spec[k].traffic \in Nat
    <3>1. \A k \in Keys : job.spec[k] \in ReleaseSpec
      BY <1>2 DEF Job
    <3>2. \A s \in ReleaseSpec : s.traffic \in Nat
      BY DEF ReleaseSpec
    <3>. QED  BY <3>1, <3>2
  <2>2. \A n \in Names : WeightOf(n) \in Nat
    BY <2>1 DEF WeightOf, Keys
  <2>. QED  BY <1>1, <2>2
<1>5. TypeOK'
  BY <1>1, <1>2, <1>3, <1>4 DEF TypeOK
<1>6. HasEnds(live, born)'
  BY <1>1, <1>2
<1>. QED  BY <1>1, <1>3, <1>5, <1>6, SameListKeeps DEF IInv

LEMMA EndOfPassIInv ==
  ASSUME IInv, WriteStatus \/ PassFails
  PROVE  IInv'
<1>1. /\ job # Idle /\ job' = Idle
      /\ UNCHANGED <<at, live, clock, born, aged, spec, status, rs, routes, scaler, rollback,
                     edits>>
  BY DEF WriteStatus, PassFails
<1>2. job \in Job /\ ListOK /\ TypeOK /\ HasEnds(live, born)
  BY <1>1, JobIsJob
<1>3. atStatus' \in AppTargetStatus
  <2>1. CASE WriteStatus
    <3>1. job.report \in AppTargetReport
      BY <1>2 DEF Job
    <3>. QED  BY <1>2, <2>1, <3>1 DEF WriteStatus, TypeOK, AppTargetReport, AppTargetStatus, Timers
  <2>2. CASE PassFails
    BY <1>2, <2>2 DEF PassFails, TypeOK
  <2>. QED  BY <2>1, <2>2
<1>4. faults' \in Nat
  BY <1>2 DEF WriteStatus, PassFails, TypeOK
<1>5. TypeOK'
  BY <1>1, <1>2, <1>3, <1>4 DEF TypeOK
<1>. QED  BY <1>1, <1>2, <1>5 DEF IInv, PlanSharesTraffic

-----------------------------------------------------------------------------
(* The steps that leave the list of the pass and the set of releases as    *)
(* they are only have to keep the types.                                   *)

LEMMA TypesSuffice ==
  ASSUME IInv, UNCHANGED <<live, born, job>>, TypeOK'
  PROVE  IInv'
<1>1. (job # Idle => ListOK)' /\ PlanSharesTraffic' /\ HasEnds(live, born)'
  BY DEF IInv, ListOK, PlanSharesTraffic
<1>. QED  BY <1>1 DEF IInv

LEMMA SyncReleaseIInv ==
  ASSUME IInv, NEW n \in Names, SyncRelease(n) \/ SyncReleaseFails(n)
  PROVE  IInv'
<1>1. TypeOK
  BY DEF IInv
<1>2. UNCHANGED <<at, atStatus, live, clock, born, aged, spec, routes, scaler, job, rollback,
                 edits>>
  BY DEF SyncRelease, SyncReleaseFails
<1>3. spec[n] \in ReleaseSpec /\ rs[n] \in ReplicaSet /\ status[n] \in ReleaseStatus
  BY <1>1 DEF TypeOK
<1>4. /\ spec[n].numDesired \in Nat /\ rs[n].replicas \in Nat /\ rs[n].avail \in Nat
      /\ status[n].settled \in BOOLEAN
  BY <1>3 DEF ReleaseSpec, ReplicaSet, ReleaseStatus
<1>5. ReplicasAfter(n) \in Nat
  BY <1>4 DEF ReplicasAfter
<1>6. rs' \in [Names -> ReplicaSet]
  <2>1. rs' = [rs EXCEPT ![n] = IF spec[n].numDesired = 0 THEN NoReplicaSet
                                ELSE [rs[n] EXCEPT !.replicas = ReplicasAfter(n)]]
    BY DEF SyncRelease, SyncReleaseFails, SyncReplicas
  <2>2. NoReplicaSet \in ReplicaSet
    BY DEF NoReplicaSet, ReplicaSet
  <2>3. [rs[n] EXCEPT !.replicas = ReplicasAfter(n)] \in ReplicaSet
    BY <1>3, <1>5 DEF ReplicaSet
  <2>. QED  BY <1>1, <2>1, <2>2, <2>3 DEF TypeOK
<1>7. Reported(n).replicas \in Nat /\ Reported(n).avail \in Nat
  BY <1>4, <1>5 DEF Reported, NoReplicaSet
<1>8. StateOf(n) \in States /\ "failed" \in States
  BY DEF StateOf, States
<1>9. status' \in [Names -> ReleaseStatus]
  <2>1. CASE SyncRelease(n)
    <3>1. PICK stuck \in BOOLEAN :
            status' = [status EXCEPT ![n] =
              [state        |-> IF stuck THEN "failed" ELSE StateOf(n),
               numDesired   |-> Reported(n).replicas,
               numAvailable |-> Reported(n).avail,
               settled      |-> status[n].settled /\ status[n].state = StateOf(n)]]
      BY <2>1 DEF SyncRelease
    <3>2. (status[n].settled /\ status[n].state = StateOf(n)) \in BOOLEAN
      OBVIOUS
    <3>3. (IF stuck THEN "failed" ELSE StateOf(n)) \in States
      BY <1>8
    <3>4. [state        |-> IF stuck THEN "failed" ELSE StateOf(n),
           numDesired   |-> Reported(n).replicas,
           numAvailable |-> Reported(n).avail,
           settled      |-> status[n].settled /\ status[n].state = StateOf(n)]
            \in ReleaseStatus
      BY <1>7, <3>2, <3>3, Zenon DEF ReleaseStatus
    <3>. QED  BY <1>1, <3>1, <3>4 DEF TypeOK
  <2>2. CASE SyncReleaseFails(n)
    BY <1>1, <2>2 DEF SyncReleaseFails, TypeOK
  <2>. QED  BY <2>1, <2>2
<1>10. faults' \in Nat
  <2>1. faults' = faults \/ faults' = faults + 1
    BY DEF SyncRelease, SyncReleaseFails
  <2>. QED  BY <1>1, <2>1 DEF TypeOK
<1>11. TypeOK'
  BY <1>1, <1>2, <1>6, <1>9, <1>10 DEF TypeOK
<1>. QED  BY <1>2, <1>11, TypesSuffice

LEMMA PodsIInv ==
  ASSUME IInv, NEW n \in Names,
         PodBecomesAvailable(n) \/ PodStops(n) \/ PodIsLost(n)
  PROVE  IInv'
<1>1. TypeOK
  BY DEF IInv
<1>2. UNCHANGED <<at, atStatus, live, clock, born, aged, spec, status, routes, scaler, job,
                 rollback, edits>>
  BY DEF PodBecomesAvailable, PodStops, PodIsLost
<1>3. rs[n].replicas \in Nat /\ rs[n].avail \in Nat
  BY <1>1 DEF TypeOK, ReplicaSet
<1>4. PICK i \in Nat : rs' = [rs EXCEPT ![n].avail = i]
  <2>1. CASE PodBecomesAvailable(n)
    <3>1. rs[n].avail + 1 \in Nat
      BY <1>3
    <3>. QED  BY <2>1, <3>1 DEF PodBecomesAvailable
  <2>2. CASE PodStops(n)
    <3>1. rs[n].avail - 1 \in Nat
      BY <1>3, <2>2 DEF PodStops
    <3>. QED  BY <2>2, <3>1 DEF PodStops
  <2>3. CASE PodIsLost(n)
    <3>1. rs[n].avail - 1 \in Nat
      BY <1>3, <2>3 DEF PodIsLost
    <3>. QED  BY <2>3, <3>1 DEF PodIsLost
  <2>. QED  BY <2>1, <2>2, <2>3
<1>5. rs' \in [Names -> ReplicaSet]
  BY <1>1, <1>4 DEF TypeOK, ReplicaSet
<1>6. faults' \in Nat
  BY <1>1 DEF PodBecomesAvailable, PodStops, PodIsLost, TypeOK
<1>7. TypeOK'
  BY <1>1, <1>2, <1>5, <1>6 DEF TypeOK
<1>. QED  BY <1>2, <1>7, TypesSuffice

LEMMA AutoscalerScalesIInv ==
  ASSUME IInv, AutoscalerScales
  PROVE  IInv'
<1>1. TypeOK
  BY DEF IInv
<1>2. scaler \in Scaler
  BY <1>1 DEF AutoscalerScales, TypeOK
<1>3. PICK i \in scaler.min .. scaler.max : rs' = [rs EXCEPT ![scaler.release].replicas = i]
  BY DEF AutoscalerScales
<1>4. scaler.release \in Names /\ i \in Nat
  BY <1>2 DEF Scaler
<1>5. rs' \in [Names -> ReplicaSet]
  BY <1>1, <1>3, <1>4 DEF TypeOK, ReplicaSet
<1>6. UNCHANGED <<at, atStatus, live, clock, born, aged, spec, status, routes, scaler, job,
                 rollback, edits, faults>>
  BY DEF AutoscalerScales
<1>7. TypeOK'
  BY <1>1, <1>5, <1>6 DEF TypeOK
<1>. QED  BY <1>6, <1>7, TypesSuffice

LEMMA TimeIInv ==
  ASSUME IInv, RolloutTimerElapses \/ \E n \in Names : StateSettles(n) \/ ReleaseAges(n)
  PROVE  IInv'
<1>1. TypeOK
  BY DEF IInv
<1>2. CASE RolloutTimerElapses
  <2>1. atStatus' \in AppTargetStatus
    BY <1>1, <1>2 DEF RolloutTimerElapses, TypeOK, AppTargetStatus, Timers
  <2>2. UNCHANGED <<at, live, clock, born, aged, spec, status, rs, routes, scaler, job, rollback,
                   edits, faults>>
    BY <1>2 DEF RolloutTimerElapses
  <2>3. TypeOK'
    BY <1>1, <2>1, <2>2 DEF TypeOK
  <2>. QED  BY <2>2, <2>3, TypesSuffice
<1>3. ASSUME NEW n \in Names, StateSettles(n) PROVE IInv'
  <2>1. status' \in [Names -> ReleaseStatus]
    BY <1>1, <1>3 DEF StateSettles, TypeOK, ReleaseStatus
  <2>2. UNCHANGED <<at, atStatus, live, clock, born, aged, spec, rs, routes, scaler, job,
                   rollback, edits, faults>>
    BY <1>3 DEF StateSettles
  <2>3. TypeOK'
    BY <1>1, <2>1, <2>2 DEF TypeOK
  <2>. QED  BY <2>2, <2>3, TypesSuffice
<1>4. ASSUME NEW n \in Names, ReleaseAges(n) PROVE IInv'
  <2>1. aged' \in SUBSET Names
    BY <1>1, <1>4 DEF ReleaseAges, TypeOK
  <2>2. UNCHANGED <<at, atStatus, live, clock, born, spec, status, rs, routes, scaler, job,
                   rollback, edits, faults>>
    BY <1>4 DEF ReleaseAges
  <2>3. TypeOK'
    BY <1>1, <2>1, <2>2 DEF TypeOK
  <2>. QED  BY <2>2, <2>3, TypesSuffice
<1>. QED  BY <1>2, <1>3, <1>4

LEMMA UsersIInv ==
  ASSUME IInv,
         \/ DeployNew \/ DeployAgain \/ Halt \/ Rescale
         \/ \E n \in Names : ChooseRollback(n)
         \/ ConfirmRollback
  PROVE  IInv'
<1>1. TypeOK
  BY DEF IInv
<1>2. UNCHANGED <<atStatus, live, clock, born, aged, status, rs, routes, scaler, job, faults>>
  BY DEF DeployNew, DeployAgain, Halt, Rescale, EditApp, ChooseRollback, ConfirmRollback
<1>3. at' \in AppTargetSpec
  <2>1. CASE DeployNew
    BY <1>1, <2>1 DEF DeployNew, EditApp, TypeOK, AppTargetSpec
  <2>2. CASE DeployAgain
    BY <1>1, <2>2 DEF DeployAgain, EditApp, TypeOK, AppTargetSpec
  <2>3. CASE Halt
    <3>1. at.halted \in BOOLEAN /\ (~at.halted) \in BOOLEAN
      BY <1>1 DEF TypeOK, AppTargetSpec
    <3>. QED  BY <1>1, <2>3, <3>1 DEF Halt, EditApp, TypeOK, AppTargetSpec
  <2>4. CASE Rescale
    BY <1>1, <2>4 DEF Rescale, EditApp, TypeOK, AppTargetSpec
  <2>5. CASE (\E n \in Names : ChooseRollback(n)) \/ ConfirmRollback
    BY <1>1, <2>5 DEF ChooseRollback, ConfirmRollback, TypeOK
  <2>. QED  BY <2>1, <2>2, <2>3, <2>4, <2>5
<1>4. spec' \in [Names -> ReleaseSpec]
  <2>1. CASE ConfirmRollback
    <3>1. rollback \in Rollback
      BY <1>1, <2>1 DEF ConfirmRollback, TypeOK
    <3>2. [rollback.spec EXCEPT !.role = "bad"] \in ReleaseSpec
      BY <3>1 DEF Rollback, ReleaseSpec, Roles
    <3>. QED  BY <1>1, <2>1, <3>1, <3>2 DEF ConfirmRollback, TypeOK
  <2>2. CASE ~ConfirmRollback
    BY <1>1, <2>2 DEF DeployNew, DeployAgain, Halt, Rescale, EditApp, ChooseRollback, TypeOK
  <2>. QED  BY <2>1, <2>2
<1>5. rollback' \in Rollback \cup {NoRollback}
  <2>1. ASSUME NEW n \in Names, ChooseRollback(n) PROVE rollback' \in Rollback
    BY <1>1, <2>1 DEF ChooseRollback, TypeOK, Rollback
  <2>. QED
    BY <1>1, <2>1 DEF DeployNew, DeployAgain, Halt, Rescale, EditApp, ConfirmRollback, TypeOK
<1>6. edits' \in Nat
  BY <1>1 DEF DeployNew, DeployAgain, Halt, Rescale, EditApp, ChooseRollback, ConfirmRollback,
              TypeOK
<1>7. TypeOK'
  BY <1>1, <1>2, <1>3, <1>4, <1>5, <1>6 DEF TypeOK
<1>. QED  BY <1>2, <1>7, TypesSuffice

LEMMA StepIInv ==
  ASSUME IInv, [Next]_vars
  PROVE  IInv'
<1>1. CASE StartPass
  BY <1>1, StartPassIInv
<1>2. CASE SaveRelease
  BY <1>2, SaveReleaseIInv
<1>3. CASE CollectReleases
  BY <1>3, CollectReleasesIInv
<1>4. CASE PublishScaler
  BY <1>4, PublishScalerIInv
<1>5. CASE PublishRoutes
  BY <1>5, PublishRoutesIInv
<1>6. CASE WriteStatus \/ PassFails
  BY <1>6, EndOfPassIInv
<1>7. CASE \E n \in Names : SyncRelease(n) \/ SyncReleaseFails(n)
  BY <1>7, SyncReleaseIInv
<1>8. CASE \E n \in Names : PodBecomesAvailable(n) \/ PodStops(n) \/ PodIsLost(n)
  BY <1>8, PodsIInv
<1>9. CASE AutoscalerScales
  BY <1>9, AutoscalerScalesIInv
<1>10. CASE RolloutTimerElapses \/ \E n \in Names : StateSettles(n) \/ ReleaseAges(n)
  BY <1>10, TimeIInv
<1>11. CASE \/ DeployNew \/ DeployAgain \/ Halt \/ Rescale
            \/ \E n \in Names : ChooseRollback(n)
            \/ ConfirmRollback
  BY <1>11, UsersIInv
<1>12. CASE UNCHANGED vars
  <2>1. TypeOK'
    BY <1>12 DEF IInv, TypeOK, vars
  <2>. QED  BY <1>12, <2>1, TypesSuffice DEF vars
<1>. QED
  BY <1>1, <1>2, <1>3, <1>4, <1>5, <1>6, <1>7, <1>8, <1>9, <1>10, <1>11, <1>12 DEF Next

THEOREM Invariance == Spec => []IInv
<1>1. Init => IInv
  BY InitIInv
<1>2. IInv /\ [Next]_vars => IInv'
  BY StepIInv
<1>. QED  BY <1>1, <1>2, PTL DEF Spec

(* In every reachable state the variables have their types: no share of    *)
(* the traffic leaves 0..100, no instance or pod count becomes negative,   *)
(* and a pass saves, deletes, scales and reports only releases that can    *)
(* exist.                                                                  *)
THEOREM TypeCorrectness == Spec => []TypeOK
<1>1. IInv => TypeOK
  BY DEF IInv
<1>. QED  BY <1>1, Invariance, PTL

(* Every plan of deployReleases gives all of the traffic to one active and *)
(* at most one target release, for any number of releases, scales and ramp *)
(* increments, and after any failures, rollbacks and interrupted passes.   *)
THEOREM PlansShareTraffic == Spec => []PlanSharesTraffic
<1>1. IInv => PlanSharesTraffic
  BY DEF IInv
<1>. QED  BY <1>1, Invariance, PTL

-----------------------------------------------------------------------------
(* No pass is cut short.                                                   *)
NoFailures == "fail" \notin Events

-----------------------------------------------------------------------------
(* Roles.  The list of a pass has one active and one target release at     *)
(* most, and each release that exists is as the list has it, is still to   *)
(* be saved, or has been marked as bad meanwhile.                          *)

UniqueIn(s, K) ==
  \A j, k \in K : s[j].role = s[k].role /\ s[k].role \in {"active", "target"} => j = k

SavedUnlessBad ==
  \A n \in live :
    \/ spec[n].role = "bad"
    \/ \E k \in job.todo : NameOf(k, job.forced) = n
    \/ \E k \in job.keys : NameOf(k, job.forced) = n /\ spec[n] = job.spec[k]

RolesInv ==
  /\ RolesAreUnique
  /\ job # Idle => /\ UniqueIn(job.spec, job.keys)
                   /\ SavedUnlessBad
                   /\ job.pc # "saving" => job.todo = {}

LEMMA SharedIsUnique ==
  ASSUME NEW s, NEW K, NEW a \in K, NEW t \in K, SharedBetween(s, K, a, t)
  PROVE  UniqueIn(s, K)
<1>1. \A k \in K : s[k].role = "active" => k = a
  BY DEF SharedBetween
<1>2. \A k \in K : s[k].role = "target" => k = t
  BY DEF SharedBetween
<1>. QED  BY <1>1, <1>2 DEF UniqueIn

(* What deployReleases plans, and what it leaves as it is when it waits or *)
(* finds nothing to deploy, has each role once.                            *)
LEMMA StartPassRoles ==
  ASSUME IInv, RolesInv, StartPass
  PROVE  RolesInv'
<1>. DEFINE w == View
            n == at.release
            outcome == Outcome(w, atStatus.timer = "fresh")
            planned == SpecAfter(w, atStatus.timer = "fresh", DesiredInstances)
<1>1. TypeOK /\ HasEnds(live, born)
  BY DEF IInv
<1>2. /\ job = Idle /\ job'.pc = "saving"
      /\ job'.keys = w.keys
      /\ job'.forced = IF Forced THEN n ELSE NoRelease
      /\ job'.spec = planned
      /\ job'.todo = {k \in w.keys : (k = n /\ Creates) \/ planned[k] # w.spec[k]}
  BY DEF StartPass
<1>3. IsView(w) /\ DesiredInstances \in Nat
  BY <1>1, ViewIsView, DesiredIsNat
<1>4. n \in Names /\ live \in SUBSET Names /\ Old \notin Names
  BY <1>1, ReleasesAssumption DEF TypeOK, AppTargetSpec
<1>5. w.keys = live \cup {n} \cup (IF Forced THEN {Old} ELSE {})
  BY DEF View
<1>6. /\ \A k \in Names \ {n} : w.spec[k] = spec[k]
      /\ w.spec[n] = IF Creates THEN EmptySpec ELSE spec[n]
      /\ Forced => w.spec[Old] = spec[n]
  BY <1>4 DEF View, Keys
<1>7. UniqueIn(w.spec, w.keys)
  <2>1. \A j, k \in live : spec[j].role = spec[k].role /\ spec[k].role \in {"active", "target"}
                             => j = k
    BY <1>2 DEF RolesInv, RolesAreUnique
  <2>2. EmptySpec.role = "none"
    BY DEF EmptySpec
  <2>3. Creates /\ ~Forced => n \notin live
    BY DEF Creates
  <2>4. Forced => Creates /\ n \in live
    BY DEF Creates, Forced
  <2>. HIDE DEF w, n
  <2>5. CASE Forced
    <3>1. \A k \in w.keys \ {n, Old} : k \in live /\ w.spec[k] = spec[k]
      BY <1>4, <1>5, <1>6
    <3>. QED  BY <1>4, <1>6, <2>1, <2>2, <2>4, <2>5, <3>1 DEF UniqueIn
  <2>6. CASE ~Forced /\ Creates
    <3>1. \A k \in w.keys \ {n} : k \in live /\ w.spec[k] = spec[k]
      BY <1>4, <1>5, <1>6, <2>6
    <3>. QED  BY <1>4, <1>6, <2>1, <2>2, <2>6, <3>1 DEF UniqueIn
  <2>7. CASE ~Forced /\ ~Creates
    <3>1. \A k \in w.keys : k \in live /\ w.spec[k] = spec[k]
      BY <1>4, <1>5, <1>6, <2>7 DEF Creates, n
    <3>. QED  BY <2>1, <3>1 DEF UniqueIn
  <2>. QED  BY <2>3, <2>5, <2>6, <2>7
<1>8. UniqueIn(planned, w.keys)
  <2>1. CASE outcome = "planned"
    <3>1. Deployable(w) # {} /\ planned = PlannedSpec(w, DesiredInstances)
      BY <2>1 DEF Outcome, SpecAfter
    <3>. HIDE DEF w, outcome, planned
    <3>2. QED  BY <1>3, <3>1, RolesOfView, PlanOfView, SharedIsUnique
  <2>2. CASE outcome # "planned"
    BY <1>7, <2>2 DEF SpecAfter
  <2>. QED  BY <2>1, <2>2
<1>9. SavedUnlessBad'
  <2>1. live' = (IF Forced THEN live \ {n} ELSE live)
    BY DEF StartPass
  <2>2. \A m \in live' : spec'[m] = spec[m]
    BY <1>1, <2>1 DEF StartPass, TypeOK
  <2>3. SUFFICES ASSUME NEW m \in live', m \notin job'.todo
                 PROVE  m \in job'.keys /\ NameOf(m, job'.forced) = m /\ spec'[m] = job'.spec[m]
    <3>1. \A m \in live' : NameOf(m, job'.forced) = m
      BY <1>4, <2>1 DEF NameOf
    <3>. QED  BY <3>1 DEF SavedUnlessBad
  <2>4. m \in live /\ m \in Names /\ m # Old /\ m \in w.keys
    BY <1>4, <1>5, <2>1
  <2>5. planned[m] = w.spec[m] /\ ~(m = n /\ Creates)
    BY <1>2, <2>3, <2>4
  <2>6. w.spec[m] = spec[m]
    BY <1>6, <2>4, <2>5
  <2>. HIDE DEF w, planned
  <2>. QED  BY <1>2, <2>2, <2>4, <2>5, <2>6 DEF NameOf
<1>10. job' # Idle
  <2>1. Idle.pc = "idle"
    BY DEF Idle
  <2>. QED  BY <1>2, <2>1
<1>. HIDE DEF w, planned, outcome
<1>. QED  BY <1>2, <1>8, <1>9, <1>10 DEF RolesInv, RolesAreUnique, UniqueIn

LEMMA SaveReleaseRoles ==
  ASSUME IInv, RolesInv, SaveRelease
  PROVE  RolesInv'
<1>. DEFINE k == NewestOf(job.todo, job.born)
            n == NameOf(k, job.forced)
<1>1. /\ job # Idle /\ job.pc = "saving" /\ job.todo # {}
      /\ live' = live \cup {n}
      /\ spec' = [spec EXCEPT ![n] = job.spec[k]]
      /\ job' = [job EXCEPT !.todo = @ \ {k}]
  BY DEF SaveRelease
<1>2. job \in Job /\ ListOK /\ TypeOK
  BY <1>1, JobIsJob
<1>3. k \in job.todo /\ k \in job.keys /\ k \in Keys
  BY <1>1, <1>2, NewestIsIn DEF ListOK, Job
<1>4. n \in Names
  BY <1>2, <1>3 DEF NameOf, ListOK, Keys
<1>5. /\ job'.keys = job.keys /\ job'.spec = job.spec /\ job'.forced = job.forced
      /\ job'.todo = job.todo \ {k} /\ job'.pc = "saving" /\ job' # Idle
  <2>1. Idle.pc = "idle"
    BY DEF Idle
  <2>. HIDE DEF k
  <2>. QED  BY <1>1, <1>2, <2>1 DEF Job
<1>6. SavedUnlessBad'
  <2>1. SUFFICES ASSUME NEW m \in live', spec'[m].role # "bad",
                        ~ \E j \in job.todo \ {k} : NameOf(j, job.forced) = m
                 PROVE  \E j \in job.keys : NameOf(j, job.forced) = m /\ spec'[m] = job.spec[j]
    BY <1>5 DEF SavedUnlessBad
  <2>. HIDE DEF k, n
  <2>2. CASE m = n
    <3>1. NameOf(k, job.forced) = m /\ spec'[m] = job.spec[k]
      BY <1>1, <1>2, <1>4, <2>2 DEF n, TypeOK
    <3>. QED  BY <1>3, <3>1
  <2>3. CASE m # n
    <3>1. m \in live /\ spec'[m] = spec[m]
      BY <1>1, <1>2, <2>3 DEF TypeOK
    <3>2. ~ \E j \in job.todo : NameOf(j, job.forced) = m
      BY <2>1, <2>3 DEF n
    <3>. QED  BY <1>1, <2>1, <3>1, <3>2 DEF RolesInv, SavedUnlessBad
  <2>. QED  BY <2>2, <2>3
<1>7. UniqueIn(job'.spec, job'.keys)
  BY <1>1, <1>5 DEF RolesInv
<1>. QED  BY <1>5, <1>6, <1>7 DEF RolesInv, RolesAreUnique

(* Later steps of a pass leave the saved specs of what they keep alone.    *)
LEMMA ListRoles ==
  ASSUME IInv, RolesInv, CollectReleases \/ PublishScaler \/ PublishRoutes
  PROVE  RolesInv'
<1>1. /\ job # Idle /\ job.todo = {}
      /\ \E p \in {"scaling", "routing", "reporting"} : job' = [job EXCEPT !.pc = p]
      /\ live' \in SUBSET live /\ \A m \in live' : spec'[m] = spec[m]
  <2>1. CASE CollectReleases
    <3>. DEFINE gone == {NameOf(k, job.forced) : k \in job.drop}
    <3>1. /\ live' = live \ gone
          /\ spec' = [n \in Names |-> IF n \in gone THEN EmptySpec ELSE spec[n]]
      BY <2>1 DEF CollectReleases
    <3>2. live \in SUBSET Names
      BY DEF IInv, TypeOK
    <3>. HIDE DEF gone
    <3>3. \A m \in live' : spec'[m] = spec[m]
      BY <3>1, <3>2
    <3>. QED  BY <2>1, <3>1, <3>3 DEF CollectReleases
  <2>2. CASE PublishScaler
    BY <2>2 DEF PublishScaler, RolesInv
  <2>3. CASE PublishRoutes
    BY <2>3 DEF PublishRoutes, RolesInv
  <2>. QED  BY <2>1, <2>2, <2>3
<1>2. job \in Job
  BY <1>1, JobIsJob
<1>3. /\ job'.keys = job.keys /\ job'.spec = job.spec /\ job'.forced = job.forced
      /\ job'.todo = job.todo /\ job' # Idle
  <2>1. Idle.pc = "idle"
    BY DEF Idle
  <2>. QED  BY <1>1, <1>2, <2>1 DEF Job
<1>4. SavedUnlessBad'
  BY <1>1, <1>3 DEF RolesInv, SavedUnlessBad
<1>5. UniqueIn(job'.spec, job'.keys)
  BY <1>1, <1>3 DEF RolesInv
<1>. QED  BY <1>1, <1>3, <1>4, <1>5 DEF RolesInv, RolesAreUnique

LEMMA WriteStatusRoles ==
  ASSUME IInv, RolesInv, WriteStatus
  PROVE  RolesInv'
<1>1. /\ job # Idle /\ job.pc = "reporting" /\ job' = Idle
      /\ UNCHANGED <<live, spec>>
  BY DEF WriteStatus
<1>2. SUFFICES ASSUME NEW m \in live, NEW n \in live, spec[m].role = spec[n].role,
                      spec[n].role \in {"active", "target"}
               PROVE  m = n
  BY <1>1 DEF RolesInv, RolesAreUnique
<1>3. job.todo = {} /\ UniqueIn(job.spec, job.keys) /\ SavedUnlessBad
  BY <1>1 DEF RolesInv
<1>4. PICK j \in job.keys : NameOf(j, job.forced) = m /\ spec[m] = job.spec[j]
  BY <1>2, <1>3 DEF SavedUnlessBad
<1>5. PICK k \in job.keys : NameOf(k, job.forced) = n /\ spec[n] = job.spec[k]
  BY <1>2, <1>3 DEF SavedUnlessBad
<1>6. j = k
  BY <1>2, <1>3, <1>4, <1>5 DEF UniqueIn
<1>. QED  BY <1>4, <1>5, <1>6

LEMMA ConfirmRollbackRoles ==
  ASSUME IInv, RolesInv, ConfirmRollback
  PROVE  RolesInv'
<1>1. TypeOK /\ UNCHANGED <<live, job>>
  BY DEF IInv, ConfirmRollback
<1>2. \A n \in live : spec'[n] = spec[n] \/ spec'[n].role = "bad"
  <2>1. rollback \in Rollback
    BY <1>1 DEF TypeOK, ConfirmRollback
  <2>2. rollback.spec \in ReleaseSpec
    BY <2>1 DEF Rollback
  <2>3. [rollback.spec EXCEPT !.role = "bad"].role = "bad"
    BY <2>2 DEF ReleaseSpec
  <2>. QED  BY <1>1, <2>3 DEF ConfirmRollback, TypeOK
<1>3. RolesAreUnique'
  BY <1>1, <1>2 DEF RolesInv, RolesAreUnique
<1>4. job # Idle => SavedUnlessBad'
  BY <1>1, <1>2 DEF RolesInv, SavedUnlessBad
<1>. QED  BY <1>1, <1>3, <1>4 DEF RolesInv

(* What the release controller, Kubernetes, time and the editors of an app *)
(* do concerns neither the specs nor the pass.                             *)
LEMMA OthersKeepReleases ==
  ASSUME [Next]_vars,
         ~StartPass, ~SaveRelease, ~CollectReleases, ~PublishScaler, ~PublishRoutes,
         ~WriteStatus, ~PassFails, ~ConfirmRollback
  PROVE  /\ UNCHANGED <<live, clock, born, spec, routes, scaler, job>>
         /\ UNCHANGED rollback \/ \E n \in Names : ChooseRollback(n)
<1>1. CASE \E n \in Names : SyncRelease(n) \/ SyncReleaseFails(n)
  BY <1>1 DEF SyncRelease, SyncReleaseFails
<1>2. CASE \E n \in Names : PodBecomesAvailable(n) \/ PodStops(n) \/ PodIsLost(n)
  BY <1>2 DEF PodBecomesAvailable, PodStops, PodIsLost
<1>3. CASE AutoscalerScales \/ RolloutTimerElapses
  BY <1>3 DEF AutoscalerScales, RolloutTimerElapses
<1>4. CASE \E n \in Names : StateSettles(n) \/ ReleaseAges(n)
  BY <1>4 DEF StateSettles, ReleaseAges
<1>5. CASE DeployNew \/ DeployAgain \/ Halt \/ Rescale
  BY <1>5 DEF DeployNew, DeployAgain, Halt, Rescale, EditApp
<1>6. CASE \E n \in Names : ChooseRollback(n)
  BY <1>6 DEF ChooseRollback
<1>7. CASE UNCHANGED vars
  BY <1>7 DEF vars
<1>. QED  BY <1>1, <1>2, <1>3, <1>4, <1>5, <1>6, <1>7 DEF Next

(* While no pass is cut short, at most one release is active and one the   *)
(* target between passes, whatever is deployed, re-deployed, halted, rolled*)
(* back, lost or collected meanwhile (deployReleases and its saves).       *)
THEOREM RolesStayUnique ==
  ASSUME NoFailures
  PROVE  Spec => []RolesAreUnique
<1>1. Init => RolesInv
  BY DEF Init, RolesInv, RolesAreUnique
<1>2. IInv /\ RolesInv /\ [Next]_vars => RolesInv'
  <2>. SUFFICES ASSUME IInv, RolesInv, [Next]_vars
                PROVE  RolesInv'
    OBVIOUS
  <2>1. ~PassFails
    BY DEF PassFails, NoFailures
  <2>2. CASE UNCHANGED <<live, clock, born, spec, routes, scaler, job>>
    BY <2>2 DEF RolesInv, RolesAreUnique, SavedUnlessBad
  <2>. QED
    BY <2>1, <2>2, StartPassRoles, SaveReleaseRoles, ListRoles, WriteStatusRoles,
       ConfirmRollbackRoles, OthersKeepReleases
<1>3. RolesInv => RolesAreUnique
  BY DEF RolesInv
<1>. QED  BY <1>1, <1>2, <1>3, Invariance, PTL DEF Spec

-----------------------------------------------------------------------------
(* Order.  As long as nobody deploys old contents again, no release is     *)
(* re-created: the current contents are the newest release, or one that is *)
(* to be created.  The list of a pass is then the set of releases with at  *)
(* most one more, in the order in which they are created.                  *)

NoRedeploys == "redeploy" \notin Events

BornInOrder ==
  /\ \A n \in live : born[n] <= clock
  /\ \A m, n \in live : born[m] = born[n] => m = n

CurrentIsNewest == at.release \in live => \A n \in live : born[n] <= born[at.release]

InOrder ==
  /\ job.keys \subseteq Names /\ job.forced = NoRelease
  /\ \A k \in job.keys \cap live : job.born[k] = born[k]
  /\ \A k \in job.todo \ live : job.born[k] = clock + 1 /\ at.release \notin live
  /\ \A j, k \in job.todo \ live : j = k

Complete ==
  IF job.pc = "saving" THEN live \subseteq job.keys /\ job.keys \ job.todo \subseteq live
  ELSE job.todo = {} /\ live = job.keys \ job.drop

OrderInv ==
  /\ BornInOrder
  /\ CurrentIsNewest
  /\ job # Idle => InOrder /\ Complete

LEMMA NotForced ==
  ASSUME TypeOK, BornInOrder, CurrentIsNewest
  PROVE  /\ ~Forced
         /\ Creates <=> at.release \notin live
<1>1. \A n \in live : born[n] \in Nat
  BY DEF TypeOK
<1>2. ~Forced
  <2>. SUFFICES ASSUME at.release \in live, NEW n \in live, born[n] > born[at.release]
                PROVE  FALSE
    BY DEF Forced
  <2>. QED  BY <1>1 DEF CurrentIsNewest
<1>. QED  BY <1>2 DEF Creates

(* The list that a pass reads when nothing is re-created.                  *)
LEMMA ViewInOrder ==
  ASSUME TypeOK, BornInOrder, CurrentIsNewest
  PROVE  /\ View.keys = live \cup {at.release}
         /\ View.keys \subseteq Names
         /\ \A k \in live : View.born[k] = born[k] /\ View.spec[k] = spec[k]
         /\ at.release \notin live => /\ View.born[at.release] = clock + 1
                                     /\ View.spec[at.release] = EmptySpec
<1>. DEFINE n == at.release
<1>1. ~Forced /\ (Creates <=> n \notin live)
  BY NotForced
<1>2. n \in Names /\ live \in SUBSET Names /\ n # Old /\ Old \notin live
  BY ReleasesAssumption DEF TypeOK, AppTargetSpec
<1>3. View.keys = live \cup {n}
  BY <1>1 DEF View
<1>4. \A k \in Names : /\ View.born[k] = IF k = n /\ Creates THEN clock + 1 ELSE born[k]
                      /\ View.spec[k] = IF k = n /\ Creates THEN EmptySpec ELSE spec[k]
  BY <1>2, ReleasesAssumption DEF View, Keys
<1>. HIDE DEF n
<1>5. \A k \in live : View.born[k] = born[k] /\ View.spec[k] = spec[k]
  BY <1>1, <1>2, <1>4
<1>6. n \notin live => View.born[n] = clock + 1 /\ View.spec[n] = EmptySpec
  BY <1>1, <1>2, <1>4
<1>. QED  BY <1>2, <1>3, <1>5, <1>6 DEF n

LEMMA StartPassOrder ==
  ASSUME IInv, OrderInv, StartPass
  PROVE  OrderInv'
<1>. DEFINE w == View
            n == at.release
            planned == SpecAfter(w, atStatus.timer = "fresh", DesiredInstances)
<1>1. TypeOK /\ BornInOrder /\ CurrentIsNewest /\ job = Idle
  BY DEF IInv, OrderInv, StartPass
<1>2. ~Forced /\ (Creates <=> n \notin live)
  BY <1>1, NotForced
<1>3. /\ job'.pc = "saving" /\ job'.keys = w.keys /\ job'.born = w.born
      /\ job'.forced = NoRelease
      /\ job'.todo = {k \in w.keys : (k = n /\ Creates) \/ planned[k] # w.spec[k]}
      /\ UNCHANGED <<at, live, clock, born>>
  BY <1>2 DEF StartPass
<1>4. /\ w.keys = live \cup {n} /\ w.keys \subseteq Names
      /\ \A k \in live : w.born[k] = born[k]
      /\ n \notin live => w.born[n] = clock + 1
  BY <1>1, ViewInOrder
<1>. HIDE DEF w, planned, n
<1>5. InOrder'
  <2>1. \A k \in job'.todo \ live : k = n
    BY <1>3, <1>4
  <2>. QED  BY <1>3, <1>4, <2>1 DEF InOrder, n
<1>6. Complete'
  BY <1>2, <1>3, <1>4 DEF Complete
<1>. QED  BY <1>1, <1>3, <1>5, <1>6 DEF OrderInv, BornInOrder, CurrentIsNewest

LEMMA SaveReleaseOrder ==
  ASSUME IInv, OrderInv, SaveRelease
  PROVE  OrderInv'
<1>. DEFINE k == NewestOf(job.todo, job.born)
<1>1. job # Idle /\ job.pc = "saving" /\ job.todo # {}
  BY DEF SaveRelease
<1>2. /\ job \in Job /\ ListOK /\ TypeOK
      /\ BornInOrder /\ CurrentIsNewest /\ InOrder /\ Complete
  BY <1>1, JobIsJob DEF OrderInv
<1>3. k \in job.todo /\ k \in job.keys /\ k \in Names
  BY <1>1, <1>2, NewestIsIn DEF ListOK, InOrder
<1>4. NameOf(k, job.forced) = k
  BY <1>3, ReleasesAssumption DEF NameOf
<1>5. /\ live' = live \cup {k}
      /\ IF k \in live THEN UNCHANGED <<clock, born>>
         ELSE clock' = clock + 1 /\ born' = [born EXCEPT ![k] = clock + 1]
      /\ job' = [job EXCEPT !.todo = job.todo \ {k}]
      /\ at' = at
  BY <1>4 DEF SaveRelease
<1>. HIDE DEF k
<1>6. /\ job'.keys = job.keys /\ job'.born = job.born /\ job'.forced = job.forced
      /\ job'.todo = job.todo \ {k} /\ job'.pc = "saving"
  BY <1>1, <1>2, <1>5 DEF Job
<1>7. clock \in Nat /\ born \in [Names -> Nat] /\ live \in SUBSET Names
  BY <1>2 DEF TypeOK
<1>8. CASE k \in live
  <2>1. UNCHANGED <<live, clock, born, at>>
    BY <1>5, <1>8
  <2>2. InOrder' /\ Complete'
    BY <1>1, <1>2, <1>6, <1>8, <2>1 DEF InOrder, Complete
  <2>. QED  BY <1>2, <2>1, <2>2 DEF OrderInv, BornInOrder, CurrentIsNewest
<1>9. CASE k \notin live
  <2>1. /\ clock' = clock + 1 /\ born'[k] = clock + 1
        /\ \A m \in live : born'[m] = born[m] /\ born[m] \in Nat
    BY <1>3, <1>5, <1>7, <1>9
  <2>2. job.todo \ live = {k} /\ job.born[k] = clock + 1 /\ at.release \notin live
    BY <1>2, <1>3, <1>9 DEF InOrder
  <2>3. BornInOrder'
    BY <1>2, <1>5, <1>7, <1>9, <2>1 DEF BornInOrder
  <2>4. CurrentIsNewest'
    BY <1>2, <1>5, <1>7, <2>1, <2>2 DEF CurrentIsNewest, BornInOrder
  <2>5. InOrder'
    <3>1. job'.todo \ live' = {}
      BY <1>5, <1>6, <2>2
    <3>2. \A m \in job.keys \cap live' : job.born[m] = born'[m]
      BY <1>2, <1>5, <2>1, <2>2 DEF InOrder
    <3>. QED  BY <1>2, <1>6, <3>1, <3>2 DEF InOrder
  <2>6. Complete'
    BY <1>1, <1>2, <1>3, <1>5, <1>6 DEF Complete
  <2>. QED  BY <2>3, <2>4, <2>5, <2>6 DEF OrderInv
<1>. QED  BY <1>8, <1>9

LEMMA ListOrder ==
  ASSUME IInv, OrderInv, CollectReleases \/ PublishScaler \/ PublishRoutes
  PROVE  OrderInv'
<1>1. job # Idle
  BY DEF CollectReleases, PublishScaler, PublishRoutes
<1>2. /\ job \in Job /\ ListOK /\ BornInOrder /\ CurrentIsNewest /\ InOrder /\ Complete
  BY <1>1, JobIsJob DEF OrderInv
<1>3. PICK p \in {"scaling", "routing", "reporting"} : job' = [job EXCEPT !.pc = p]
  BY DEF CollectReleases, PublishScaler, PublishRoutes
<1>4. /\ job'.keys = job.keys /\ job'.born = job.born /\ job'.forced = job.forced
      /\ job'.todo = job.todo /\ job'.drop = job.drop /\ job'.pc = p
  BY <1>2, <1>3 DEF Job
<1>5. UNCHANGED <<at, clock, born>>
  BY DEF CollectReleases, PublishScaler, PublishRoutes
<1>6. job.todo = {} /\ live' = job.keys \ job.drop
  <2>1. CASE CollectReleases
    <3>1. \A k \in job.drop : NameOf(k, job.forced) = k
      BY <1>2, ReleasesAssumption DEF ListOK, InOrder, NameOf
    <3>2. {NameOf(k, job.forced) : k \in job.drop} = job.drop
      BY <3>1
    <3>3. live' = live \ job.drop /\ job.pc = "saving" /\ job.todo = {}
      BY <2>1, <3>2 DEF CollectReleases
    <3>. QED  BY <1>2, <3>3 DEF Complete, ListOK
  <2>2. CASE PublishScaler
    BY <1>2, <2>2 DEF PublishScaler, Complete
  <2>3. CASE PublishRoutes
    BY <1>2, <2>3 DEF PublishRoutes, Complete
  <2>. QED  BY <2>1, <2>2, <2>3
<1>7. live' \subseteq live
  BY DEF CollectReleases, PublishScaler, PublishRoutes
<1>8. InOrder' /\ Complete'
  BY <1>2, <1>4, <1>5, <1>6, <1>7 DEF InOrder, Complete
<1>9. BornInOrder' /\ CurrentIsNewest'
  BY <1>2, <1>5, <1>7 DEF BornInOrder, CurrentIsNewest
<1>. QED  BY <1>8, <1>9 DEF OrderInv

(* Only a deployment changes what the current contents are.                *)
LEMMA OnlyDeployments ==
  ASSUME TypeOK, [Next]_vars, ~DeployNew, ~DeployAgain
  PROVE  at'.release = at.release
<1>1. CASE Halt \/ Rescale
  BY <1>1 DEF Halt, Rescale, EditApp, TypeOK, AppTargetSpec
<1>2. CASE \/ StartPass \/ SaveRelease \/ CollectReleases \/ PublishScaler \/ PublishRoutes
           \/ WriteStatus \/ PassFails
  BY <1>2 DEF StartPass, SaveRelease, CollectReleases, PublishScaler, PublishRoutes,
              WriteStatus, PassFails
<1>3. CASE \E n \in Names : SyncRelease(n) \/ SyncReleaseFails(n)
  BY <1>3 DEF SyncRelease, SyncReleaseFails
<1>4. CASE \E n \in Names : PodBecomesAvailable(n) \/ PodStops(n) \/ PodIsLost(n)
  BY <1>4 DEF PodBecomesAvailable, PodStops, PodIsLost
<1>5. CASE AutoscalerScales \/ RolloutTimerElapses
  BY <1>5 DEF AutoscalerScales, RolloutTimerElapses
<1>6. CASE \E n \in Names : StateSettles(n) \/ ReleaseAges(n)
  BY <1>6 DEF StateSettles, ReleaseAges
<1>7. CASE ConfirmRollback \/ \E n \in Names : ChooseRollback(n)
  BY <1>7 DEF ChooseRollback, ConfirmRollback
<1>8. CASE UNCHANGED vars
  BY <1>8 DEF vars
<1>. QED  BY <1>1, <1>2, <1>3, <1>4, <1>5, <1>6, <1>7, <1>8 DEF Next

LEMMA OthersOrder ==
  ASSUME NoRedeploys, IInv, OrderInv, [Next]_vars,
         ~StartPass, ~SaveRelease, ~CollectReleases, ~PublishScaler, ~PublishRoutes
  PROVE  OrderInv'
<1>1. CASE WriteStatus \/ PassFails
  BY <1>1 DEF WriteStatus, PassFails, OrderInv, BornInOrder, CurrentIsNewest
<1>2. CASE ConfirmRollback
  BY <1>2 DEF ConfirmRollback, OrderInv, BornInOrder, CurrentIsNewest, InOrder, Complete
<1>3. CASE DeployNew
  <2>1. at'.release \notin live
    BY <1>3 DEF DeployNew, EditApp, IInv, TypeOK, AppTargetSpec
  <2>2. UNCHANGED <<live, clock, born, job>>
    BY <1>3 DEF DeployNew, EditApp
  <2>. QED
    BY <2>1, <2>2 DEF OrderInv, BornInOrder, CurrentIsNewest, InOrder, Complete
<1>4. CASE ~(WriteStatus \/ PassFails \/ ConfirmRollback \/ DeployNew)
  <2>1. UNCHANGED <<live, clock, born, job>>
    BY <1>4, OthersKeepReleases
  <2>2. ~DeployAgain
    BY DEF DeployAgain, EditApp, NoRedeploys
  <2>3. at'.release = at.release
    BY <1>4, <2>2, OnlyDeployments DEF IInv
  <2>. QED  BY <2>1, <2>3 DEF OrderInv, BornInOrder, CurrentIsNewest, InOrder, Complete
<1>. QED  BY <1>1, <1>2, <1>3, <1>4

LEMMA OrderInvariance ==
  ASSUME NoRedeploys
  PROVE  Spec => []OrderInv
<1>1. Init => OrderInv
  BY DEF Init, OrderInv, BornInOrder, CurrentIsNewest
<1>2. IInv /\ OrderInv /\ [Next]_vars => OrderInv'
  BY StartPassOrder, SaveReleaseOrder, ListOrder, OthersOrder
<1>. QED  BY <1>1, <1>2, Invariance, PTL DEF Spec

-----------------------------------------------------------------------------
(* Targets.  Without rollbacks no release is bad, so the target is the     *)
(* newest one, which is never among those that are collected.              *)

NoRollbacks == "rollback" \notin Events

TargetInv ==
  /\ rollback = NoRollback
  /\ \A n \in live : spec[n].role # "bad"
  /\ job # Idle =>
       /\ \A k \in job.keys : job.spec[k].role # "bad"
       /\ job.outcome = "planned" => job.report.target \in job.keys \ job.drop

LEMMA NewestIsKept ==
  ASSUME NEW w, IsView(w), w.keys # {}
  PROVE  /\ NewestOf(w.keys, w.born) \in Kept(w)
         /\ \A j \in w.keys : w.born[j] <= w.born[NewestOf(w.keys, w.born)]
<1>. DEFINE t == NewestOf(w.keys, w.born)
<1>1. t \in w.keys /\ \A j \in w.keys : w.born[j] <= w.born[t]
  <2>1. HasNewest(w.keys, w.born)
    BY DEF IsView, HasEnds
  <2>. QED  BY <2>1 DEF HasNewest, NewestOf
<1>. HIDE DEF t
<1>2. \A j \in w.keys : w.born[j] \in Nat
  BY DEF IsView
<1>3. {j \in w.keys : w.born[j] > w.born[t]} = {}
  BY <1>1, <1>2
<1>4. t \in Kept(w)
  BY <1>1, <1>3, FS_EmptySet, ReleasesAssumption DEF Kept
<1>. QED  BY <1>1, <1>4 DEF t

(* Without bad releases, the target is the newest of the list.             *)
LEMMA TargetIsNewest ==
  ASSUME NEW w, IsView(w), w.keys # {}, \A k \in w.keys : w.spec[k].role # "bad"
  PROVE  Deployable(w) = w.keys /\ TargetOf(w) = NewestOf(w.keys, w.born)
<1>1. Deployable(w) = w.keys
  BY DEF Deployable, HavingRole
<1>. QED  BY <1>1 DEF TargetOf

(* What holds of a pass's list when no release is bad.                     *)
LEMMA GoodView ==
  ASSUME IInv, OrderInv, TargetInv, job = Idle
  PROVE  /\ IsView(View) /\ View.keys # {} /\ DesiredInstances \in Nat
         /\ \A k \in View.keys : View.spec[k].role # "bad"
<1>1. TypeOK /\ HasEnds(live, born)
  BY DEF IInv
<1>2. IsView(View) /\ View.keys # {} /\ DesiredInstances \in Nat
  BY <1>1, ViewIsView, DesiredIsNat
<1>3. /\ View.keys = live \cup {at.release}
      /\ \A k \in live : View.spec[k] = spec[k]
      /\ at.release \notin live => View.spec[at.release] = EmptySpec
  BY <1>1, ViewInOrder DEF OrderInv
<1>4. EmptySpec.role # "bad"
  BY DEF EmptySpec
<1>. HIDE DEF View
<1>5. \A k \in View.keys : View.spec[k].role # "bad"
  BY <1>3, <1>4 DEF TargetInv
<1>. QED  BY <1>2, <1>5

LEMMA StartPassTarget ==
  ASSUME IInv, OrderInv, TargetInv, StartPass
  PROVE  TargetInv'
<1>. DEFINE w == View
            outcome == Outcome(w, atStatus.timer = "fresh")
            planned == SpecAfter(w, atStatus.timer = "fresh", DesiredInstances)
<1>1. /\ IsView(w) /\ w.keys # {}
      /\ \A k \in w.keys : w.spec[k].role # "bad"
  BY GoodView DEF StartPass
<1>2. ~Forced /\ w.keys \subseteq Names
  BY NotForced, ViewInOrder DEF IInv, OrderInv
<1>3. /\ UNCHANGED <<live, spec, rollback>>
      /\ job'.keys = w.keys /\ job'.spec = planned /\ job'.outcome = outcome
      /\ job'.drop \subseteq w.keys \ Kept(w)
      /\ outcome = "planned" => job'.report = Report(w)
  BY <1>2 DEF StartPass
<1>4. \A k \in w.keys : planned[k].role # "bad"
  <2>1. CASE outcome = "planned"
    <3>1. \A k \in w.keys : planned[k].role = PlannedRole(w, DesiredInstances, k)
      <4>1. w.keys \subseteq Keys /\ planned = PlannedSpec(w, DesiredInstances)
        BY <1>1, <2>1 DEF IsView, SpecAfter
      <4>. HIDE DEF w, planned
      <4>. QED  BY <4>1 DEF PlannedSpec
    <3>. HIDE DEF w, planned
    <3>. QED  BY <1>1, <3>1 DEF PlannedRole
  <2>2. CASE outcome # "planned"
    BY <1>1, <2>2 DEF SpecAfter
  <2>. QED  BY <2>1, <2>2
<1>5. TargetOf(w) \in w.keys /\ TargetOf(w) \in Kept(w)
  <2>. HIDE DEF w
  <2>. QED  BY <1>1, NewestIsKept, TargetIsNewest DEF Kept
<1>6. Report(w).target = TargetOf(w)
  BY <1>2, <1>5, ReleasesAssumption DEF Report, NameOf
<1>. HIDE DEF w, planned, outcome
<1>. QED  BY <1>3, <1>4, <1>5, <1>6 DEF TargetInv

LEMMA PassTarget ==
  ASSUME IInv, OrderInv, TargetInv,
         \/ SaveRelease \/ CollectReleases \/ PublishScaler \/ PublishRoutes
         \/ WriteStatus \/ PassFails
  PROVE  TargetInv'
<1>. DEFINE k == NewestOf(job.todo, job.born)
<1>1. job # Idle /\ UNCHANGED rollback
  BY DEF SaveRelease, CollectReleases, PublishScaler, PublishRoutes, WriteStatus, PassFails
<1>2. job \in Job /\ ListOK /\ TypeOK /\ InOrder
  BY <1>1, JobIsJob DEF OrderInv
<1>3. CASE SaveRelease
  <2>1. k \in job.keys /\ k \in Names /\ NameOf(k, job.forced) = k
    BY <1>2, <1>3, NewestIsIn, ReleasesAssumption DEF ListOK, InOrder, SaveRelease, NameOf
  <2>2. /\ live' = live \cup {k} /\ spec' = [spec EXCEPT ![k] = job.spec[k]]
        /\ job' = [job EXCEPT !.todo = job.todo \ {k}]
    BY <1>3, <2>1 DEF SaveRelease
  <2>. HIDE DEF k
  <2>3. /\ job'.keys = job.keys /\ job'.spec = job.spec /\ job'.drop = job.drop
        /\ job'.outcome = job.outcome /\ job'.report = job.report
    BY <1>2, <2>2 DEF Job
  <2>4. \A n \in live' : spec'[n].role # "bad"
    BY <1>1, <1>2, <2>1, <2>2 DEF TargetInv, TypeOK
  <2>. QED  BY <1>1, <2>3, <2>4 DEF TargetInv
<1>4. CASE CollectReleases \/ PublishScaler \/ PublishRoutes
  <2>1. PICK p \in {"scaling", "routing", "reporting"} : job' = [job EXCEPT !.pc = p]
    BY <1>4 DEF CollectReleases, PublishScaler, PublishRoutes
  <2>2. /\ job'.keys = job.keys /\ job'.spec = job.spec /\ job'.drop = job.drop
        /\ job'.outcome = job.outcome /\ job'.report = job.report
    BY <1>2, <2>1 DEF Job
  <2>3. live' \subseteq live /\ \A n \in live' : spec'[n] = spec[n]
    <3>1. CASE CollectReleases
      <4>. DEFINE gone == {NameOf(j, job.forced) : j \in job.drop}
      <4>1. /\ live' = live \ gone
            /\ spec' = [n \in Names |-> IF n \in gone THEN EmptySpec ELSE spec[n]]
        BY <3>1 DEF CollectReleases
      <4>. HIDE DEF gone
      <4>. QED  BY <1>2, <4>1 DEF TypeOK
    <3>2. CASE PublishScaler \/ PublishRoutes
      BY <3>2 DEF PublishScaler, PublishRoutes
    <3>. QED  BY <1>4, <3>1, <3>2
  <2>. QED  BY <1>1, <2>2, <2>3 DEF TargetInv
<1>5. CASE WriteStatus \/ PassFails
  BY <1>1, <1>5 DEF WriteStatus, PassFails, TargetInv
<1>. QED  BY <1>3, <1>4, <1>5

LEMMA OthersTarget ==
  ASSUME NoRollbacks, TargetInv, [Next]_vars,
         ~StartPass, ~SaveRelease, ~CollectReleases, ~PublishScaler, ~PublishRoutes,
         ~WriteStatus, ~PassFails
  PROVE  TargetInv'
<1>1. ~ConfirmRollback /\ ~ \E n \in Names : ChooseRollback(n)
  BY DEF ConfirmRollback, ChooseRollback, TargetInv, NoRollbacks
<1>2. UNCHANGED <<live, spec, job, rollback>>
  BY <1>1, OthersKeepReleases
<1>. QED  BY <1>2 DEF TargetInv

LEMMA TargetInvariance ==
  ASSUME NoRedeploys, NoRollbacks
  PROVE  Spec => []TargetInv
<1>1. Init => TargetInv
  BY DEF Init, TargetInv
<1>2. IInv /\ OrderInv /\ TargetInv /\ [Next]_vars => TargetInv'
  BY StartPassTarget, PassTarget, OthersTarget
<1>. QED  BY <1>1, <1>2, Invariance, OrderInvariance, PTL DEF Spec

(* The release that a status names as the target exists, also when passes  *)
(* fail and old releases are collected: without re-deployments and         *)
(* rollbacks the target is the newest one, and within any limit.           *)
THEOREM TargetsAreKept ==
  ASSUME NoRedeploys, NoRollbacks
  PROVE  Spec => TargetIsKept
<1>1. ASSUME IInv, OrderInv, TargetInv, WriteStatus, job.outcome = "planned"
      PROVE  atStatus'.target \in live
  <2>1. job # Idle /\ job.pc = "reporting" /\ atStatus'.target = job.report.target
    BY <1>1 DEF WriteStatus
  <2>2. live = job.keys \ job.drop
    BY <1>1, <2>1 DEF OrderInv, Complete
  <2>. QED  BY <1>1, <2>1, <2>2 DEF TargetInv
<1>2. IInv /\ OrderInv /\ TargetInv /\ [Next]_vars =>
        [WriteStatus /\ atStatus'.target # NoRelease /\ job.outcome = "planned"
           => atStatus'.target \in live]_vars
  BY <1>1
<1>. QED  BY <1>2, Invariance, OrderInvariance, TargetInvariance, PTL DEF Spec, TargetIsKept
=============================================================================
