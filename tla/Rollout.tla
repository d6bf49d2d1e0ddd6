------------------------------ MODULE Rollout ------------------------------
(***************************************************************************)
(* The rollout of one app target.                                          *)
(*                                                                         *)
(* The deployment controller (DeploymentReconciler) turns the app target   *)
(* into releases, plans traffic and instances (module Releases), saves the *)
(* releases one at a time, publishes the autoscaler and the routes of the  *)
(* virtual service, and writes the app target's status last.  The release  *)
(* controller (AppReleaseReconciler) turns each release into a ReplicaSet  *)
(* and reports its pods in the release's status.  Users edit the app, and  *)
(* mark releases as bad.  Each controller has one worker; both run         *)
(* concurrently with the users and with Kubernetes, so a pass of the       *)
(* deployment controller plans from what it read when it began.            *)
(*                                                                         *)
(* Time is the readiness timeout: a timer is "fresh" until it has passed.  *)
(***************************************************************************)
EXTENDS Releases

CONSTANTS
  Scales,      \* the ScaleSpecs a user chooses from: records [min, max]
  FirstScales, \* those an app is created with
  Autoscaled,  \* NeedsAutoscaler, as far as it does not depend on the scale
  Events,      \* which events of the environment an instance includes
  MaxEdits,    \* bound: edits of the app and rollbacks
  MaxFaults    \* bound: passes that fail half way, and pods that are lost

EventNames == {"deploy", "redeploy", "rollback", "halt", "scale",
               "age", "stick", "lose", "fail"}

ASSUME RolloutAssumption ==
  /\ Names # {}
  /\ FirstScales # {} /\ FirstScales \subseteq Scales
  /\ \A s \in Scales : s \in [min : Nat, max : Nat]
  /\ Autoscaled \in BOOLEAN
  /\ Events \subseteq EventNames
  /\ MaxEdits \in Nat
  /\ MaxFaults \in Nat

VARIABLES
  at,        \* the app target's spec: [release, halted, scale]; release is the
             \* name that its build, hash and config give
  atStatus,  \* its status: [active, target, timer, numDesired, phase]
  live,      \* the names of the releases that exist
  clock,     \* how many releases were created so far
  born,      \* their creation timestamps, on that clock
  aged,      \* those created more than releaseHoursToKeep ago
  spec,      \* their specs
  status,    \* their statuses
  rs,        \* their ReplicaSets and pods: [replicas, avail]; 0 replicas: none
  routes,    \* the weight of each release in the virtual service
  scaler,    \* the HorizontalPodAutoscaler: [release, min, max], or NoScaler
  job,       \* the pass the deployment controller is in
  rollback,  \* the copy of a release a user is about to mark as bad
  edits, faults

vars == <<at, atStatus, live, clock, born, aged, spec, status, rs, routes, scaler,
          job, rollback, edits, faults>>

Timers == {"never", "fresh", "over"}
OptName == Names \cup {NoRelease}

(* pc: what the pass does next.  scale: of the app target it read.  keys,  *)
(* spec, born: its list of releases with the new specs.  forced: the       *)
(* release it re-creates.  todo: the keys to save.  kept: the entries not  *)
(* cut.  drop: the entries to delete at the end.  report: the status it is *)
(* to write; restarts: with a new DeployUpdatedAt.                         *)
Idle == [pc |-> "idle"]

AppTargetSpec == [release : Names, halted : BOOLEAN, scale : Scales]
AppTargetReport == [active : OptName, target : OptName, numDesired : Nat, phase : Phases]
AppTargetStatus == [active : OptName, target : OptName, numDesired : Nat, phase : Phases,
                    timer : Timers]
Job == [pc : {"saving", "scaling", "routing", "reporting"}, scale : Scales,
        outcome : {"wait", "none", "planned"},
        keys : SUBSET Keys, forced : OptName, spec : [Keys -> ReleaseSpec],
        born : [Keys -> Nat], todo : SUBSET Keys, kept : SUBSET Keys,
        drop : SUBSET Keys, report : AppTargetReport, restarts : BOOLEAN]
ReplicaSet == [replicas : Nat, avail : Nat]
NoReplicaSet == [replicas |-> 0, avail |-> 0]
Scaler == [release : Names, min : Nat, max : Nat]
NoScaler == [release |-> NoRelease]
NoRollback == [release |-> NoRelease]
Rollback == [release : Names, spec : ReleaseSpec]

TypeOK ==
  /\ at \in AppTargetSpec
  /\ atStatus \in AppTargetStatus
  /\ live \in SUBSET Names
  /\ clock \in Nat
  /\ born \in [Names -> Nat]
  /\ aged \in SUBSET Names
  /\ spec \in [Names -> ReleaseSpec]
  /\ status \in [Names -> ReleaseStatus]
  /\ rs \in [Names -> ReplicaSet]
  /\ routes \in [Names -> Nat]
  /\ scaler \in Scaler \cup {NoScaler}
  /\ job \in Job \cup {Idle}
  /\ rollback \in Rollback \cup {NoRollback}
  /\ edits \in Nat
  /\ faults \in Nat

Init ==
  /\ at \in [release : Names, halted : {FALSE}, scale : FirstScales]
  /\ atStatus = [active |-> NoRelease, target |-> NoRelease, timer |-> "never",
                 numDesired |-> 0, phase |-> ""]
  /\ live = {}
  /\ clock = 0
  /\ born = [n \in Names |-> 0]
  /\ aged = {}
  /\ spec = [n \in Names |-> EmptySpec]
  /\ status = [n \in Names |-> EmptyStatus]
  /\ rs = [n \in Names |-> NoReplicaSet]
  /\ routes = [n \in Names |-> 0]
  /\ scaler = NoScaler
  /\ job = Idle
  /\ rollback = NoRollback
  /\ edits = 0
  /\ faults = 0

-----------------------------------------------------------------------------
(* The deployment controller.                                              *)

DesiredInstances ==
  IF at.halted THEN 0
  ELSE LesserOf(GreaterOf(at.scale.min, atStatus.numDesired), at.scale.max)

(* Mutant: any existing release is re-created, the newest one too.         *)
AlwaysForced == at.release \in live

(* The release of the current contents exists, but it is not the newest    *)
(* one: it is deleted and created anew.                                    *)
Forced == at.release \in live /\ \E n \in live : born[n] > born[at.release]

Creates == at.release \notin live \/ Forced

(* Mutant: the entry of the deleted release is taken for one of its own.   *)
KeyAsName(k, forced) == k

(* The list the pass works on.                                             *)
View ==
  LET n == at.release
  IN  [keys   |-> live \cup {n} \cup (IF Forced THEN {Old} ELSE {}),
       spec   |-> [k \in Keys |-> IF k = Old THEN (IF Forced THEN spec[n] ELSE EmptySpec)
                                  ELSE IF k = n /\ Creates THEN EmptySpec ELSE spec[k]],
       status |-> [k \in Keys |-> IF k = Old THEN (IF Forced THEN status[n] ELSE EmptyStatus)
                                  ELSE IF k = n /\ Creates THEN EmptyStatus ELSE status[k]],
       born   |-> [k \in Keys |-> IF k = Old THEN (IF Forced THEN born[n] ELSE 0)
                                  ELSE IF k = n /\ Creates THEN clock + 1
                                  ELSE born[k]]]

NameOf(k, forced) == IF k = Old THEN forced ELSE k

(* What the pass will write to the app target's status.                    *)
Report(w) ==
  LET desired == DesiredInstances
      t == TargetOf(w)
      a == ActiveAfter(w, desired)
      new == t = at.release /\ Creates
  IN  [active     |-> NameOf(a, at.release),
       target     |-> NameOf(t, at.release),
       numDesired |-> IF a = t /\ ~new THEN w.status[t].numDesired ELSE atStatus.numDesired,
       phase      |-> RolloutPhase(w, desired, at.halted)]

SameReport == [active |-> atStatus.active, target |-> atStatus.target,
               numDesired |-> atStatus.numDesired, phase |-> atStatus.phase]

(* The pass reads the app target and the releases, deletes the release it  *)
(* re-creates (its ReplicaSet goes with it), and plans.                    *)
StartPass ==
  /\ job = Idle
  /\ LET w == View
         waiting == atStatus.timer = "fresh"
         outcome == Outcome(w, waiting)
         planned == SpecAfter(w, waiting, DesiredInstances)
         isOld(k) == IF k = Old THEN at.release \in aged
                     ELSE k \in aged /\ ~(k = at.release /\ Creates)
     IN  job' = [pc      |-> "saving",
                 scale   |-> at.scale,
                 outcome |-> outcome,
                 keys    |-> w.keys,
                 forced  |-> IF Forced THEN at.release ELSE NoRelease,
                 spec    |-> planned,
                 born    |-> w.born,
                 todo    |-> {k \in w.keys : \/ k = at.release /\ Creates
                                             \/ planned[k] # w.spec[k]},
                 kept    |-> Kept(w),
                 drop    |-> {k \in w.keys \ Kept(w) : isOld(k)},
                 report  |-> IF outcome = "planned" THEN Report(w) ELSE SameReport,
                 restarts |-> /\ outcome = "planned"
                              /\ \/ ChangesRollout(w, DesiredInstances)
                                 \/ atStatus.timer = "never"]
  /\ IF Forced
     THEN /\ live' = live \ {at.release}
          /\ aged' = aged \ {at.release}
          /\ spec' = [spec EXCEPT ![at.release] = EmptySpec]
          /\ status' = [status EXCEPT ![at.release] = EmptyStatus]
          /\ rs' = [rs EXCEPT ![at.release] = NoReplicaSet]
     ELSE UNCHANGED <<live, aged, spec, status, rs>>
  /\ UNCHANGED <<at, atStatus, clock, born, routes, scaler, rollback, edits, faults>>

(* UpdateResource on one release, newest first: it is created when it does *)
(* not exist, and else its whole spec and its labels are overwritten.      *)
SaveRelease ==
  /\ job # Idle /\ job.pc = "saving" /\ job.todo # {}
  /\ LET k == NewestOf(job.todo, job.born)
         n == NameOf(k, job.forced)
     IN  /\ live' = live \cup {n}
         /\ IF n \in live THEN UNCHANGED <<clock, born>>
            ELSE clock' = clock + 1 /\ born' = [born EXCEPT ![n] = clock + 1]
         /\ spec' = [spec EXCEPT ![n] = job.spec[k]]
         /\ job' = [job EXCEPT !.todo = @ \ {k}]
  /\ UNCHANGED <<at, atStatus, aged, status, rs, routes, scaler, rollback, edits, faults>>

(* Old releases beyond numReleasesToKeep are deleted, by name, and their   *)
(* entries leave the list that the routes are made from.                   *)
CollectReleases ==
  LET gone == {NameOf(k, job.forced) : k \in job.drop}
  IN  /\ job # Idle /\ job.pc = "saving" /\ job.todo = {}
      /\ live' = live \ gone
      /\ aged' = aged \ gone
      /\ spec' = [n \in Names |-> IF n \in gone THEN EmptySpec ELSE spec[n]]
      /\ status' = [n \in Names |-> IF n \in gone THEN EmptyStatus ELSE status[n]]
      /\ rs' = [n \in Names |-> IF n \in gone THEN NoReplicaSet ELSE rs[n]]
      /\ job' = [job EXCEPT !.pc = "scaling"]
      /\ UNCHANGED <<at, atStatus, clock, born, routes, scaler, rollback, edits, faults>>

KeptHaving(r) == {k \in job.kept : job.spec[k].role = r}

(* Mutant: the autoscaler is not paused during a rollout.                  *)
ScalerAnytime ==
  IF Autoscaled /\ job.scale.min # job.scale.max /\ KeptHaving("active") # {}
  THEN [release |-> NameOf(OldestOf(KeptHaving("active"), job.born), job.forced),
        min     |-> GreaterOf(1, job.scale.min),
        max     |-> job.scale.max]
  ELSE NoScaler

(* reconcileAutoScaler: only while there is an active release and no       *)
(* target release; the scaler of another release is replaced.              *)
ScalerAfter ==
  IF /\ Autoscaled /\ job.scale.min # job.scale.max
     /\ KeptHaving("active") # {} /\ KeptHaving("target") = {}
  THEN LET least == GreaterOf(1, job.scale.min)
       IN  [release |-> NameOf(OldestOf(KeptHaving("active"), job.born), job.forced),
            min     |-> least,
            max     |-> GreaterOf(least, job.scale.max)]
  ELSE NoScaler

PublishScaler ==
  /\ job # Idle /\ job.pc = "scaling"
  /\ scaler' = ScalerAfter
  /\ job' = [job EXCEPT !.pc = "routing"]
  /\ UNCHANGED <<at, atStatus, live, clock, born, aged, spec, status, rs, routes, rollback,
                 edits, faults>>

(* Mutant: destinations are merged into those of the existing service.     *)
MergedWeight(n) ==
  IF n \in job.kept /\ job.spec[n].traffic # 0 THEN job.spec[n].traffic ELSE routes[n]

(* newVirtualService: a destination for each release with traffic.         *)
WeightOf(n) ==
  (IF n \in job.kept THEN job.spec[n].traffic ELSE 0)
  + (IF Old \in job.kept /\ job.forced = n THEN job.spec[Old].traffic ELSE 0)

PublishRoutes ==
  /\ job # Idle /\ job.pc = "routing"
  /\ routes' = [n \in Names |-> WeightOf(n)]
  /\ job' = [job EXCEPT !.pc = "reporting"]
  /\ UNCHANGED <<at, atStatus, live, clock, born, aged, spec, status, rs, scaler, rollback, edits,
                 faults>>

WriteStatus ==
  /\ job # Idle /\ job.pc = "reporting"
  /\ atStatus' = [active |-> job.report.active, target |-> job.report.target,
                  numDesired |-> job.report.numDesired, phase |-> job.report.phase,
                  timer |-> IF job.restarts THEN "fresh" ELSE atStatus.timer]
  /\ job' = Idle
  /\ UNCHANGED <<at, live, clock, born, aged, spec, status, rs, routes, scaler, rollback,
                 edits, faults>>

(* A call of the API server fails (an outage, a conflict, a rejected       *)
(* object) or the operator restarts: the pass ends where it is, and a new  *)
(* one follows.                                                            *)
PassFails ==
  /\ "fail" \in Events /\ faults < MaxFaults
  /\ job # Idle
  /\ job' = Idle
  /\ faults' = faults + 1
  /\ UNCHANGED <<at, atStatus, live, clock, born, aged, spec, status, rs, routes, scaler,
                 rollback, edits>>

-----------------------------------------------------------------------------
(* The release controller.                                                 *)

(* Mutant: the number of an active release is left alone before it has any.*)
LeftFromTheStart(n) == spec[n].role = "active" /\ spec[n].tlabel /\ spec[n].numDesired # 0

(* The active release, once it is also the target, leaves the number of    *)
(* replicas to the autoscaler.                                             *)
LeftToScaler(n) ==
  /\ spec[n].role = "active" /\ spec[n].tlabel
  /\ spec[n].numDesired # 0 /\ rs[n].replicas # 0

ReplicasAfter(n) == IF LeftToScaler(n) THEN rs[n].replicas ELSE spec[n].numDesired

(* The ReplicaSet the status is made from.  The one of an active release   *)
(* was fetched before it is deleted; in any other case the deleted one is  *)
(* reported from the empty template.                                       *)
Reported(n) ==
  IF spec[n].numDesired # 0 THEN [replicas |-> ReplicasAfter(n), avail |-> rs[n].avail]
  ELSE IF spec[n].role = "active" /\ spec[n].tlabel /\ rs[n].replicas # 0 THEN rs[n]
  ELSE NoReplicaSet

StateOf(n) ==
  LET seen == Reported(n)
  IN  IF spec[n].role = "active"
      THEN IF seen.replicas = 0 THEN "halted"
           ELSE IF seen.replicas = seen.avail THEN "released" ELSE "releasing"
      ELSE IF spec[n].role = "target" THEN "releasing"
      ELSE IF spec[n].role = "bad" THEN "bad"
      ELSE IF spec[n].numDesired = 0 THEN "retired" ELSE "retiring"

(* Pods exist, none of them runs, and the oldest is past the timeout.      *)
MayBeStuck(n) ==
  /\ "stick" \in Events
  /\ Reported(n).avail < spec[n].numDesired
  /\ rs[n].replicas # 0 /\ rs[n].avail = 0

(* A ReplicaSet is deleted with its pods, or created or scaled.            *)
SyncReplicas(n) ==
  rs' = [rs EXCEPT ![n] = IF spec[n].numDesired = 0 THEN NoReplicaSet
                          ELSE [@ EXCEPT !.replicas = ReplicasAfter(n)]]

(* Reconcile of one release.  StateChangedAt is kept when the state just   *)
(* computed is the recorded one; "failed" replaces the state after that.   *)
SyncRelease(n) ==
  /\ n \in live
  /\ SyncReplicas(n)
  /\ \E stuck \in {FALSE} \cup (IF MayBeStuck(n) THEN {TRUE} ELSE {}) :
       status' = [status EXCEPT ![n] =
         [state        |-> IF stuck THEN "failed" ELSE StateOf(n),
          numDesired   |-> Reported(n).replicas,
          numAvailable |-> Reported(n).avail,
          settled      |-> @.settled /\ @.state = StateOf(n)]]
  /\ UNCHANGED <<at, atStatus, live, clock, born, aged, spec, routes, scaler, job, rollback,
                 edits, faults>>

(* The status update conflicts with a newer version of the release, or the *)
(* operator stops before it.                                               *)
SyncReleaseFails(n) ==
  /\ "fail" \in Events /\ faults < MaxFaults
  /\ n \in live
  /\ SyncReplicas(n)
  /\ faults' = faults + 1
  /\ UNCHANGED <<at, atStatus, live, clock, born, aged, spec, status, routes, scaler, job,
                 rollback, edits>>

-----------------------------------------------------------------------------
(* Kubernetes (external): the ReplicaSet controller, the autoscaler, time. *)

PodBecomesAvailable(n) ==
  /\ rs[n].avail < rs[n].replicas
  /\ rs' = [rs EXCEPT ![n].avail = @ + 1]
  /\ UNCHANGED <<at, atStatus, live, clock, born, aged, spec, status, routes, scaler, job,
                 rollback, edits, faults>>

PodStops(n) ==
  /\ rs[n].avail > rs[n].replicas
  /\ rs' = [rs EXCEPT ![n].avail = @ - 1]
  /\ UNCHANGED <<at, atStatus, live, clock, born, aged, spec, status, routes, scaler, job,
                 rollback, edits, faults>>

PodIsLost(n) ==
  /\ "lose" \in Events /\ faults < MaxFaults
  /\ rs[n].avail > 0
  /\ rs' = [rs EXCEPT ![n].avail = @ - 1]
  /\ faults' = faults + 1
  /\ UNCHANGED <<at, atStatus, live, clock, born, aged, spec, status, routes, scaler, job,
                 rollback, edits>>

AutoscalerScales ==
  /\ scaler # NoScaler /\ rs[scaler.release].replicas # 0
  /\ \E i \in scaler.min .. scaler.max : rs' = [rs EXCEPT ![scaler.release].replicas = i]
  /\ UNCHANGED <<at, atStatus, live, clock, born, aged, spec, status, routes, scaler, job,
                 rollback, edits, faults>>

RolloutTimerElapses ==
  /\ atStatus.timer = "fresh"
  /\ atStatus' = [atStatus EXCEPT !.timer = "over"]
  /\ UNCHANGED <<at, live, clock, born, aged, spec, status, rs, routes, scaler, job, rollback,
                 edits, faults>>

StateSettles(n) ==
  /\ n \in live /\ ~status[n].settled
  /\ status' = [status EXCEPT ![n].settled = TRUE]
  /\ UNCHANGED <<at, atStatus, live, clock, born, aged, spec, rs, routes, scaler, job, rollback,
                 edits, faults>>

ReleaseAges(n) ==
  /\ "age" \in Events
  /\ n \in live \ aged
  /\ aged' = aged \cup {n}
  /\ UNCHANGED <<at, atStatus, live, clock, born, spec, status, rs, routes, scaler, job, rollback,
                 edits, faults>>

-----------------------------------------------------------------------------
(* Users, whose edits of the app reach the app target through the app      *)
(* controller.                                                             *)

EditApp(e, new) ==
  /\ e \in Events /\ edits < MaxEdits
  /\ at' = new
  /\ edits' = edits + 1
  /\ UNCHANGED <<atStatus, live, clock, born, aged, spec, status, rs, routes, scaler, job,
                 rollback, faults>>

DeployNew ==
  \E n \in Names \ (live \cup {at.release}) : EditApp("deploy", [at EXCEPT !.release = n])
DeployAgain ==
  \E n \in live \ {at.release} : EditApp("redeploy", [at EXCEPT !.release = n])
Halt == EditApp("halt", [at EXCEPT !.halted = ~@])
Rescale == \E s \in Scales \ {at.scale} : EditApp("scale", [at EXCEPT !.scale = s])

(* kon app rollback reads a release and asks for a confirmation ...        *)
ChooseRollback(n) ==
  /\ "rollback" \in Events /\ edits < MaxEdits
  /\ rollback = NoRollback /\ n \in live
  /\ rollback' = [release |-> n, spec |-> spec[n]]
  /\ edits' = edits + 1
  /\ UNCHANGED <<at, atStatus, live, clock, born, aged, spec, status, rs, routes, scaler, job,
                 faults>>

(* ... and writes the copy it read back, with the role set to bad.         *)
ConfirmRollback ==
  /\ rollback # NoRollback
  /\ LET n == rollback.release
     IN  spec' = IF n \in live
                 THEN [spec EXCEPT ![n] = [rollback.spec EXCEPT !.role = "bad"]]
                 ELSE spec
  /\ rollback' = NoRollback
  /\ UNCHANGED <<at, atStatus, live, clock, born, aged, status, rs, routes, scaler, job, edits,
                 faults>>

-----------------------------------------------------------------------------
Next ==
  \/ StartPass \/ SaveRelease \/ CollectReleases \/ PublishScaler
  \/ PublishRoutes \/ WriteStatus
  \/ PassFails
  \/ \E n \in Names : SyncRelease(n) \/ SyncReleaseFails(n)
  \/ \E n \in Names : PodBecomesAvailable(n) \/ PodStops(n) \/ PodIsLost(n)
  \/ AutoscalerScales
  \/ RolloutTimerElapses
  \/ \E n \in Names : StateSettles(n) \/ ReleaseAges(n)
  \/ DeployNew \/ DeployAgain \/ Halt \/ Rescale
  \/ \E n \in Names : ChooseRollback(n)
  \/ ConfirmRollback

Spec == Init /\ [][Next]_vars

(* Fairness: the controllers are retriggered by every change they watch    *)
(* and by RequeueAfter, Kubernetes starts and stops pods, and time passes. *)
(* Nothing is assumed of the users, and a failing call is never required.  *)
(* In every state some step of a pass is enabled and changes job, so weak  *)
(* fairness of Pass says that infinitely many steps are steps of a pass.   *)
Pass == StartPass \/ SaveRelease \/ CollectReleases \/ PublishScaler \/ PublishRoutes
          \/ WriteStatus

FairSpec ==
  /\ Spec
  /\ []<><<Pass>>_vars
  /\ WF_vars(RolloutTimerElapses)
  /\ \A n \in Names : /\ WF_vars(SyncRelease(n))
                      /\ WF_vars(PodStops(n))
                      /\ "stick" \notin Events => WF_vars(PodBecomesAvailable(n))
                      /\ WF_vars(StateSettles(n))

-----------------------------------------------------------------------------
(* Properties.                                                             *)

(* s shares the traffic of the keys K between the active release a and the *)
(* target release t, and no other release has a part in the rollout.       *)
SharedBetween(s, K, a, t) ==
  /\ s[a].role = "active"
  /\ IF a = t THEN s[t].traffic = 100
     ELSE s[t].role = "target" /\ s[a].traffic + s[t].traffic = 100
  /\ \A k \in K : s[k].tlabel <=> k = t
  /\ \A k \in K \ {a, t} : s[k].traffic = 0 /\ s[k].role \notin {"active", "target"}

(* Whatever the roles, traffic and pods a pass found, also those an        *)
(* interrupted pass or a rollback left behind: what it plans sends all of  *)
(* the traffic to one active and at most one target release, none of them  *)
(* marked as bad (deployReleases).                                         *)
PlanSharesTraffic ==
  job # Idle /\ job.outcome = "planned" =>
    \E a, t \in job.keys : SharedBetween(job.spec, job.keys, a, t)

NoTraffic(w) == \A n \in Names : w[n] = 0

(* The weights w send all of the traffic to one release, or share it       *)
(* between two of them.                                                    *)
WholeBetween(w, a, t) ==
  /\ IF a = t THEN w[t] = 100 ELSE w[a] + w[t] = 100
  /\ \A n \in Names \ {a, t} : w[n] = 0

(* The published weights always add up to 100 once there are any, and are  *)
(* those of one release or of two, in particular when a pass waits and     *)
(* publishes what it found.  Istio rejects other sums.                     *)
RoutesAreWhole ==
  NoTraffic(routes) \/ \E a, t \in Names : WholeBetween(routes, a, t)

(* Between passes at most one release is active and one the target.        *)
RolesAreUnique ==
  job = Idle =>
    \A m, n \in live :
      spec[m].role = spec[n].role /\ spec[n].role \in {"active", "target"} => m = n

(* While a release is being rolled out, one publication of the routes does *)
(* not raise its weight by more than the ramp increment.                   *)
RampIsBounded ==
  [][\A n \in Names :
       PublishRoutes /\ n \in job.keys /\ job.spec[n].role = "target" =>
         routes'[n] <= routes[n] + Ramp]_vars

(* A target release becomes the active one only after all traffic was      *)
(* routed to it and as many instances are available as it was asked for or *)
(* the scale needs, unless the target is halted or no active one is left.  *)
PromotedWhenRouted ==
  [][\A n \in Names :
       /\ spec[n].role = "target" /\ spec'[n].role = "active"
       /\ job.spec[n].numDesired # 0
       /\ \E m \in live : spec[m].role = "active"
       => routes[n] = 100 /\ rs[n].avail >= LesserOf(spec[n].numDesired, at.scale.min)]_vars

(* The weight published for a target release is covered by its available   *)
(* pods, although the plan was made from the status of an earlier moment.  *)
TargetCarriesItsWeight ==
  [][\A n \in Names :
       PublishRoutes /\ job.outcome = "planned" /\ job.report.phase = "deploying"
         /\ n \in job.keys /\ job.spec[n].role = "target"
       => routes'[n] * at.scale.min <= 100 * rs[n].avail]_vars

(* The traffic of a release with pods is not switched as a whole to a      *)
(* release without any: a rollout is gradual.                              *)
SwitchesToPods ==
  [][\A m, n \in Names :
       /\ PublishRoutes /\ job.report.phase # "halted"
       /\ routes[m] = 100 /\ rs[m].avail > 0
       /\ n # m /\ routes'[n] = 100
       => rs[n].avail > 0]_vars

(* The active release is asked for the instances that the weight it still  *)
(* has calls for, whichever of its saves and publications came last.       *)
ActiveCoversItsWeight ==
  \A n \in live :
    spec[n].role = "active" /\ ~at.halted =>
      spec[n].numDesired >= ActiveInstances(at.scale.min, routes[n])

(* The active release is not deleted.                                      *)
ActiveIsKept ==
  [][\A n \in live \ live' : spec[n].role # "active"]_vars

(* The target release that the status is about to name still exists: the   *)
(* collection of old releases, which deletes by name, never deletes the    *)
(* release that the same pass rolls out.                                   *)
TargetIsKept ==
  [][WriteStatus /\ atStatus'.target # NoRelease /\ job.outcome = "planned"
       => atStatus'.target \in live]_vars

(* A release without a role keeps its pods until traffic was shifted away. *)
ScaledDownWhenUnrouted ==
  [][\A n \in Names :
       spec'[n].role = "none" /\ spec'[n].numDesired = 0 /\ spec[n].numDesired # 0
         => routes[n] = 0]_vars

(* The autoscaler is paused before a rollout moves any traffic, and runs   *)
(* again only for the release that all traffic is routed to.               *)
ScalerRunsWhenRouted ==
  scaler # NoScaler => NoTraffic(routes) \/ routes[scaler.release] = 100

(* A release marked as bad is bad for as long as it exists.                *)
BadStaysBad ==
  [][\A n \in live \cap live' : spec[n].role = "bad" => spec'[n].role = "bad"]_vars

Good == {n \in live : spec[n].role # "bad"}

(* Whatever was edited, rolled back or lost before: in the end the newest  *)
(* release that is not bad serves all traffic with all its instances, and  *)
(* the others have none; a halted target has no pods.                      *)
Served ==
  LET n == NewestOf(Good, born)
  IN  /\ spec[n].role = "active" /\ routes[n] = 100
      /\ \A m \in Names \ {n} : routes[m] = 0 /\ rs[m].avail = 0
      /\ IF at.halted THEN rs[n].avail = 0 /\ atStatus.phase = "halted"
         ELSE rs[n].avail = at.scale.min /\ atStatus.phase = "running"
      /\ atStatus.active = n

RolloutCompletes == <>[](Good = {} \/ Served)
=============================================================================
