------------------------------ MODULE Releases ------------------------------
(***************************************************************************)
(* How one pass of the deployment controller splits traffic and instances  *)
(* between the releases of an app target: deployReleases in                *)
(* controllers/deployment_apprelease.go, as operators over a "view", the   *)
(* in-memory list of releases the pass works on.                           *)
(*                                                                         *)
(* A release is known by its name.  GenerateAppReleaseName derives the     *)
(* name from the build, the app target's hash and the config's hash, so a  *)
(* name also stands for the contents that are deployed under it.           *)
(*                                                                         *)
(* The list has one entry per key.  The key of a release is its name; when *)
(* a pass deletes a release to re-create it, its list holds two objects of *)
(* that name, and the deleted one has the key Old.                         *)
(***************************************************************************)
EXTENDS Integers, FiniteSets

CONSTANTS
  Names,      \* the releases that can exist
  Old,        \* the key of the deleted object of a re-created release
  NoRelease,  \* no release: a nil pointer or an empty name
  Ramp,       \* rampIncrement in percent (25; 100 for an app without ports)
  Keep        \* numReleasesToKeep

ASSUME ReleasesAssumption ==
  /\ Old \notin Names
  /\ NoRelease \notin Names \cup {Old}
  /\ Ramp \in 1..100
  /\ Keep \in Nat \ {0}

Keys == Names \cup {Old}

Roles == {"none", "active", "target", "bad"}
States == {"", "releasing", "released", "retiring", "retired", "failed", "bad", "halted"}
Phases == {"", "running", "deploying", "halted"}

(* AppReleaseSpec, with the label that marks the target release.           *)
ReleaseSpec == [role : Roles, traffic : 0..100, numDesired : Nat, tlabel : BOOLEAN]

(* AppReleaseStatus.  settled: the readiness timeout has passed since      *)
(* StateChangedAt, as it has when that time was never set.                 *)
ReleaseStatus ==
  [state : States, numDesired : Nat, numAvailable : Nat, settled : BOOLEAN]

EmptySpec == [role |-> "none", traffic |-> 0, numDesired |-> 0, tlabel |-> FALSE]
EmptyStatus == [state |-> "", numDesired |-> 0, numAvailable |-> 0, settled |-> TRUE]

-----------------------------------------------------------------------------
(* A view is a record [keys, spec, status, born] with functions on Keys;   *)
(* born orders the creation timestamps, a release that is not created yet  *)
(* sorting before all others as SortAppReleasesByLatest has it.            *)

NewestOf(S, born) == CHOOSE k \in S : \A j \in S : born[j] <= born[k]
OldestOf(S, born) == CHOOSE k \in S : \A j \in S : born[k] <= born[j]

HavingRole(w, r) == {k \in w.keys : w.spec[k].role = r}

(* The scan for the active and the target release: a later match replaces  *)
(* an earlier one, and the list is sorted newest first.                    *)
RoleHolder(w, r) ==
  IF HavingRole(w, r) = {} THEN NoRelease ELSE OldestOf(HavingRole(w, r), w.born)

Deployable(w) == w.keys \ HavingRole(w, "bad")

(* GetFirstDeployableRelease: whatever the roles were, it is the target.   *)
TargetOf(w) == NewestOf(Deployable(w), w.born)

(* Mutant: every deployment is treated as a first one.                     *)
NeverActive(w) == TargetOf(w)

ActiveBefore(w) ==
  IF RoleHolder(w, "active") = NoRelease THEN TargetOf(w) ELSE RoleHolder(w, "active")

(* A rollout in progress goes on once per readiness timeout.               *)
Waits(w, waiting) ==
  /\ RoleHolder(w, "active") # NoRelease
  /\ RoleHolder(w, "target") # NoRelease
  /\ waiting

(* Mutant: the target release is promoted before the traffic moved.        *)
PromotesWhenAvailable(w, desired) ==
  \/ desired = 0
  \/ TargetOf(w) = ActiveBefore(w)
  \/ w.status[TargetOf(w)].numAvailable >= desired

Promotes(w, desired) ==
  \/ desired = 0
  \/ TargetOf(w) = ActiveBefore(w)
  \/ w.spec[TargetOf(w)].traffic = 100

ActiveAfter(w, desired) == IF Promotes(w, desired) THEN TargetOf(w) ELSE ActiveBefore(w)

-----------------------------------------------------------------------------
LesserOf(a, b) == IF a <= b THEN a ELSE b
GreaterOf(a, b) == IF a >= b THEN a ELSE b

(* The percentage of the desired instances that are available.             *)
AvailableShare(avail, desired) ==
  IF avail >= desired THEN 100 ELSE (100 * avail) \div desired

(* Mutants: the ramp increment does not bound the share; the share follows *)
(* the instances that were asked for.                                      *)
UncappedShare(w, desired) ==
  LET t == TargetOf(w)
  IN  IF desired = 0 \/ t = ActiveBefore(w) THEN 100
      ELSE AvailableShare(w.status[t].numAvailable, desired)

RequestedShare(w, desired) ==
  LET t == TargetOf(w)
  IN  IF desired = 0 \/ t = ActiveBefore(w) THEN 100
      ELSE LesserOf(AvailableShare(w.spec[t].numDesired, desired), w.spec[t].traffic + Ramp)

(* The part of the traffic the target release is to have.                  *)
TargetShare(w, desired) ==
  LET t == TargetOf(w)
  IN  IF desired = 0 \/ t = ActiveBefore(w) THEN 100
      ELSE LesserOf(AvailableShare(w.status[t].numAvailable, desired),
                    w.spec[t].traffic + Ramp)

(* What the shares add up to before the correction at the end of the pass. *)
(* A target that has just been promoted has all that is assigned.          *)
TotalTraffic(w, desired) ==
  IF ActiveAfter(w, desired) = TargetOf(w) THEN TargetShare(w, desired)
  ELSE TargetShare(w, desired) + (100 - TargetShare(w, desired))

(* Mutants: the active release is given what the target did not have so    *)
(* far; the other releases keep the traffic they had.                      *)
OutdatedTraffic(w, desired, k) ==
  IF k = TargetOf(w) THEN TargetShare(w, desired) - (TotalTraffic(w, desired) - 100)
  ELSE IF k = ActiveAfter(w, desired) THEN 100 - w.spec[TargetOf(w)].traffic
  ELSE 0

LeftoverTraffic(w, desired, k) ==
  IF k = TargetOf(w) THEN TargetShare(w, desired) - (TotalTraffic(w, desired) - 100)
  ELSE IF k = ActiveAfter(w, desired) THEN 100 - TargetShare(w, desired)
  ELSE w.spec[k].traffic

PlannedTraffic(w, desired, k) ==
  IF k = TargetOf(w) THEN TargetShare(w, desired) - (TotalTraffic(w, desired) - 100)
  ELSE IF k = ActiveAfter(w, desired) THEN 100 - TargetShare(w, desired)
  ELSE 0

(* One ramp step beyond the instances that are available already.          *)
RampInstances(w, desired) ==
  LET step == GreaterOf(1, (desired * Ramp) \div 100)
  IN  LesserOf(w.status[TargetOf(w)].numAvailable + step, desired)

TargetInstances(w, desired) ==
  IF desired = 0 \/ TargetOf(w) = ActiveBefore(w) THEN desired
  ELSE GreaterOf(w.spec[TargetOf(w)].numDesired, RampInstances(w, desired))

(* The active release keeps instances in proportion to the traffic it had  *)
(* before this pass.                                                       *)
ActiveInstances(desired, traffic) ==
  LET n == (desired * traffic) \div 100
  IN  IF desired > 0 /\ n < 1 /\ traffic # 0 THEN 1 ELSE n

(* A release without a role is scaled to zero once it has not been active  *)
(* and its state has been the same for the readiness timeout.              *)
ScalesDown(w, k) == w.spec[k].role # "active" /\ w.status[k].settled

(* Mutant: the active release is scaled for the share it is to have.       *)
EarlyInstances(w, desired, k) ==
  IF k = TargetOf(w) THEN TargetInstances(w, desired)
  ELSE IF k = ActiveAfter(w, desired)
  THEN ActiveInstances(desired, PlannedTraffic(w, desired, k))
  ELSE IF w.spec[k].role = "bad" \/ ScalesDown(w, k) THEN 0
  ELSE w.spec[k].numDesired

PlannedInstances(w, desired, k) ==
  IF k = TargetOf(w) THEN TargetInstances(w, desired)
  ELSE IF k = ActiveAfter(w, desired) THEN ActiveInstances(desired, w.spec[k].traffic)
  ELSE IF w.spec[k].role = "bad" \/ ScalesDown(w, k) THEN 0
  ELSE w.spec[k].numDesired

(* Mutant: a release that lost its part in the rollout keeps its role.     *)
FormerRole(w, desired, k) ==
  IF k = ActiveAfter(w, desired) THEN "active"
  ELSE IF k = TargetOf(w) THEN "target"
  ELSE w.spec[k].role

PlannedRole(w, desired, k) ==
  IF k = ActiveAfter(w, desired) THEN "active"
  ELSE IF k = TargetOf(w) THEN "target"
  ELSE IF w.spec[k].role = "bad" THEN "bad"
  ELSE "none"

PlannedSpec(w, desired) ==
  [k \in Keys |->
     IF k \notin w.keys THEN w.spec[k]
     ELSE [role       |-> PlannedRole(w, desired, k),
           traffic    |-> PlannedTraffic(w, desired, k),
           numDesired |-> PlannedInstances(w, desired, k),
           tlabel     |-> k = TargetOf(w)]]

-----------------------------------------------------------------------------
(* hasChanges: what restarts the readiness timeout of the rollout.         *)
ChangesRollout(w, desired) ==
  LET t == TargetOf(w)
      formerTarget == IF RoleHolder(w, "target") = NoRelease
                      THEN RoleHolder(w, "active") ELSE RoleHolder(w, "target")
      former == RoleHolder(w, "active")
  IN  \/ former = NoRelease
      \/ formerTarget # t
      \/ desired = 0 /\ w.spec[t].numDesired # 0
      \/ /\ desired # 0 /\ t # former
         /\ \/ w.spec[t].numDesired < RampInstances(w, desired)
            \/ w.spec[t].traffic = 100

RolloutPhase(w, desired, halted) ==
  LET t == TargetOf(w)
  IN  IF halted THEN "halted"
      ELSE IF \/ ActiveAfter(w, desired) # t
              \/ w.status[t].numAvailable < TargetInstances(w, desired)
           THEN "deploying" ELSE "running"

(* The outcome of deployReleases: it waits for the readiness timeout,      *)
(* finds no release that is not bad, or plans.                             *)
Outcome(w, waiting) ==
  IF Waits(w, waiting) THEN "wait"
  ELSE IF Deployable(w) = {} THEN "none"
  ELSE "planned"

SpecAfter(w, waiting, desired) ==
  IF Outcome(w, waiting) = "planned" THEN PlannedSpec(w, desired) ELSE w.spec

(* Mutant: the list is truncated at the wrong end.                         *)
KeptOldest(w) == {k \in w.keys : Cardinality({j \in w.keys : w.born[j] < w.born[k]}) < Keep}

(* The newest Keep entries stay in the list, the others may be deleted.    *)
Kept(w) == {k \in w.keys : Cardinality({j \in w.keys : w.born[j] > w.born[k]}) < Keep}
=============================================================================
