-------------------------------- MODULE Apps --------------------------------
(***************************************************************************)
(* From apps to app targets.                                               *)
(*                                                                         *)
(* The app controller (AppReconciler) makes an app target of each target   *)
(* that an app and the cluster configuration have in common, and a build   *)
(* of the app's image.  The cluster config controller makes a namespace    *)
(* for each target of the cluster.  Users change apps and the cluster's    *)
(* targets with commands that read an object, may wait for the user, and   *)
(* write it back.                                                          *)
(***************************************************************************)
EXTENDS Builds

CONSTANTS
  Named,        \* GetAppTargetName: from an app and a target to an object name, which
                \* another app and target may share ("%s-%s")
  FirstApps,    \* the apps loaded at first
  FirstTargets, \* what the cluster may serve at first: a set of sets of targets
  FirstSpecs,   \* the manifests loaded at first
  Specs,        \* the manifests that users load, and that editors produce
  Commands,     \* which commands an instance includes
  MaxEdits,     \* bound: commands
  MaxFaults     \* bound: passes and calls that fail

CommandNames == {"load", "deploy", "halt", "edit", "delete", "addTarget", "removeTarget"}
Objects == {Named[p] : p \in AppNames \X Targets}

ASSUME AppsAssumption ==
  /\ DOMAIN Named = AppNames \X Targets
  /\ FirstApps \subseteq AppNames
  /\ \A s \in Specs \cup FirstSpecs : IsAppSpec(s)
  /\ FirstTargets \subseteq SUBSET Targets
  /\ Commands \subseteq CommandNames
  /\ MaxEdits \in Nat /\ MaxFaults \in Nat

VARIABLES
  apps,        \* the apps that exist: [spec, uid, version]
  targets,     \* Spec.Targets of the cluster configuration
  namespaces,
  appTargets,  \* the app targets that exist: [spec, hash, owner]
  queue,       \* apps to reconcile
  clusterDue,  \* the cluster configuration is to be reconciled
  job,         \* the app controller's pass, or NoPass
  commands,    \* the commands under way, with what each has read
  edits, faults

avars == <<apps, targets, namespaces, appTargets, queue, clusterDue, job, commands, edits, faults>>
vars == <<avars, bvars>>

IsApp(a) == a \in [spec : {a.spec}, uid : Nat, version : Nat] /\ IsAppSpec(a.spec)
NoOwner == << >>
AppTarget == [spec : AppTargetSpec, hash : HashSpec, owner : (AppNames \X Nat) \cup {NoOwner}]
IsPass(p) ==
  /\ p \in [app : AppNames, spec : {p.spec}, uid : Nat, pc : {"build", "targets"},
             todo : SUBSET Targets, invalid : SUBSET Targets]
  /\ IsAppSpec(p.spec)
NoPass == [pc |-> "idle"]
IsCommand(c) ==
  \/ /\ c.kind \in {"deploy", "halt", "edit"}
     /\ c \in [kind : {c.kind}, app : AppNames, read : {c.read}, new : {c.new}]
     /\ IsApp(c.read) /\ IsAppSpec(c.new)
  \/ c \in [kind : {"addTarget", "removeTarget"}, targets : SUBSET Targets]

TypeOK ==
  /\ BuildsTypeOK
  /\ DOMAIN apps \subseteq AppNames /\ \A a \in DOMAIN apps : IsApp(apps[a])
  /\ targets \subseteq Targets
  /\ namespaces \subseteq Targets
  /\ IsPartial(appTargets, Objects, AppTarget)
  /\ \A n \in DOMAIN appTargets : appTargets[n].hash = HashOf(appTargets[n].spec)
  /\ queue \subseteq AppNames
  /\ clusterDue \in BOOLEAN
  /\ job = NoPass \/ IsPass(job)
  /\ \A c \in commands : IsCommand(c)
  /\ edits \in Nat /\ faults \in Nat

Init ==
  /\ BuildsInit
  /\ \E spec \in FirstSpecs : apps = [a \in FirstApps |-> [spec |-> spec, uid |-> 0, version |-> 0]]
  /\ targets \in FirstTargets
  /\ namespaces = {} /\ appTargets = << >>
  /\ queue = DOMAIN apps /\ clusterDue = TRUE
  /\ job = NoPass
  /\ commands = {}
  /\ edits = 0 /\ faults = 0

-----------------------------------------------------------------------------
(* The app controller.                                                     *)

BeginPass(a) ==
  /\ job = NoPass /\ a \in queue
  /\ queue' = queue \ {a}
  /\ job' = IF a \in DOMAIN apps
            THEN [app |-> a, spec |-> apps[a].spec, uid |-> apps[a].uid, pc |-> "build",
                  todo |-> {}, invalid |-> {}]
            ELSE NoPass
  /\ UNCHANGED <<apps, targets, namespaces, appTargets, clusterDue, commands, edits, faults, bvars>>

(* The build is made; then the cluster's targets are read.                 *)
SaveBuild ==
  /\ job.pc = "build"
  /\ CreateBuild(job.spec.tag)
  /\ job' = [job EXCEPT !.pc = "targets",
                        !.todo = DOMAIN job.spec.targets \cap targets,
                        !.invalid = DOMAIN job.spec.targets \ targets]
  /\ UNCHANGED <<apps, targets, namespaces, appTargets, queue, clusterDue, commands, edits, faults>>

(* Mutant: no owner is set when an app target is made.                     *)
Unowned(n) == NoOwner

(* The owner of an existing app target is kept, whoever writes over it.    *)
OwnerOf(n) == IF n \in DOMAIN appTargets THEN appTargets[n].owner ELSE <<job.app, job.uid>>

(* What happens to an app target queues the app of its owner's name.       *)
Told(owner) == IF owner = NoOwner THEN {} ELSE {owner[1]}

SaveAppTarget(t) ==
  LET n == Named[job.app, t]
      spec == newAppTargetForApp(job.app, job.spec, t)
      old == n \in DOMAIN appTargets
      new == [spec |-> spec, hash |-> HashOf(spec), owner |-> OwnerOf(n)]
  IN  /\ job.pc = "targets" /\ t \in job.todo
      /\ appTargets' = With(appTargets, n, new)
      /\ queue' = IF old /\ appTargets[n] = new THEN queue
                   ELSE queue \cup Told(new.owner)
      /\ job' = [job EXCEPT !.todo = @ \ {t}]
      /\ UNCHANGED <<apps, targets, namespaces, clusterDue, commands, edits, faults, bvars>>

(* GetAppTarget for a target the cluster does not have: the name it is     *)
(* looked up by is that of the target.                                     *)
LookedUp(t) == t

RemoveInvalid ==
  LET gone == {LookedUp(t) : t \in job.invalid} \cap DOMAIN appTargets
  IN  /\ job.pc = "targets" /\ job.todo = {}
      /\ appTargets' = Without(appTargets, gone)
      /\ queue' = queue \cup UNION {Told(appTargets[n].owner) : n \in gone}
      /\ job' = NoPass
      /\ UNCHANGED <<apps, targets, namespaces, clusterDue, commands, edits, faults, bvars>>

(* A call of the API server fails, or the operator restarts, which queues  *)
(* every app.                                                              *)
PassFails ==
  /\ faults < MaxFaults /\ job # NoPass
  /\ queue' \in {queue \cup {job.app}, DOMAIN apps}
  /\ job' = NoPass /\ faults' = faults + 1
  /\ UNCHANGED <<apps, targets, namespaces, appTargets, clusterDue, commands, edits, bvars>>

(* Mutant: only apps that lose a target are concerned.                     *)
ConcernedByLoss(ts) == {a \in DOMAIN apps : DOMAIN apps[a].spec.targets \ ts # {}}

(* The watch on the cluster configuration: apps with a target that is not  *)
(* among the active ones, which nobody records, or that the cluster lacks. *)
Concerned(ts) == {a \in DOMAIN apps : DOMAIN apps[a].spec.targets # {}}

-----------------------------------------------------------------------------
(* The cluster config controller, and Kubernetes' garbage collector        *)
(* (external).                                                             *)

(* A pass creates the missing namespaces one by one, unless a call fails.  *)
SyncCluster ==
  /\ clusterDue
  /\ \E made \in SUBSET (targets \ namespaces) :
       /\ namespaces' = namespaces \cup made
       /\ IF targets \subseteq namespaces' THEN clusterDue' = FALSE /\ UNCHANGED faults
          ELSE faults < MaxFaults /\ faults' = faults + 1 /\ UNCHANGED clusterDue
  /\ UNCHANGED <<apps, targets, appTargets, queue, job, commands, edits, bvars>>

(* An object is deleted once its owner does not exist.                     *)
Collect(n) ==
  /\ n \in DOMAIN appTargets /\ appTargets[n].owner # NoOwner
  /\ \A a \in DOMAIN apps : appTargets[n].owner # <<a, apps[a].uid>>
  /\ appTargets' = Without(appTargets, {n})
  /\ queue' = queue \cup Told(appTargets[n].owner)
  /\ UNCHANGED <<apps, targets, namespaces, clusterDue, job, commands, edits, faults, bvars>>

-----------------------------------------------------------------------------
(* Users.                                                                  *)

SaveApp(a, spec) ==
  LET old == a \in DOMAIN apps
  IN  /\ apps' = With(apps, a, [spec |-> spec, uid |-> IF old THEN apps[a].uid ELSE edits,
                                version |-> edits])
      /\ queue' = IF old /\ apps[a].spec = spec THEN queue ELSE queue \cup {a}

(* kon app load: what the file says replaces the whole spec.               *)
Load(a) ==
  /\ "load" \in Commands /\ edits < MaxEdits
  /\ edits' = edits + 1
  /\ \E spec \in Specs : SaveApp(a, spec)
  /\ UNCHANGED <<targets, namespaces, appTargets, clusterDue, job, commands, faults, bvars>>

Delete(a) ==
  /\ "delete" \in Commands /\ edits < MaxEdits /\ a \in DOMAIN apps
  /\ edits' = edits + 1
  /\ apps' = Without(apps, {a})
  /\ queue' = queue \cup {a}
  /\ UNCHANGED <<targets, namespaces, appTargets, clusterDue, job, commands, faults, bvars>>

(* What a command makes of the spec it read.                               *)
Changed(kind, spec) ==
  CASE kind = "deploy" -> {[spec EXCEPT !.tag = b] : b \in Tags \ {spec.tag}}
    [] kind = "halt" -> {[spec EXCEPT !.targets[t].mode =
                            IF DeployModeForTarget(spec, t) = "halt" THEN "latest" ELSE "halt"]
                         : t \in DOMAIN spec.targets}
    [] kind = "edit" -> Specs \ {spec}
    [] OTHER -> {}

ReadApp(a, kind) ==
  /\ kind \in Commands /\ edits < MaxEdits /\ a \in DOMAIN apps
  /\ edits' = edits + 1
  /\ \E new \in Changed(kind, apps[a].spec) :
       commands' = commands \cup {[kind |-> kind, app |-> a, read |-> apps[a], new |-> new]}
  /\ UNCHANGED <<apps, targets, namespaces, appTargets, queue, clusterDue, job, faults, bvars>>

(* Mutant: saving an edited manifest does not tell what it was based on.   *)
AcceptsAny(c) == c.app \in DOMAIN apps

(* deploy and halt write their copy over whatever is there; an app that    *)
(* was deleted is not created from a copy.  An edited manifest is refused  *)
(* unless it is based on the current version.                              *)
Accepts(c) ==
  /\ c.app \in DOMAIN apps
  /\ c.kind = "edit" => apps[c.app].version = c.read.version

WriteApp(c) ==
  /\ c \in commands /\ c.kind \in {"deploy", "halt", "edit"}
  /\ IF Accepts(c) THEN SaveApp(c.app, c.new) ELSE UNCHANGED <<apps, queue>>
  /\ commands' = commands \ {c}
  /\ UNCHANGED <<targets, namespaces, appTargets, clusterDue, job, edits, faults, bvars>>

(* kon cluster configure reads the targets before it asks ...              *)
ReadTargets(kind) ==
  /\ kind \in Commands \cap {"addTarget", "removeTarget"} /\ edits < MaxEdits
  /\ edits' = edits + 1
  /\ \E ts \in {ts \in SUBSET Targets : IF kind = "addTarget" THEN targets \subseteq ts
                                        ELSE \E t \in targets : ts = targets \ {t}} :
       commands' = commands \cup {[kind |-> kind, targets |-> ts]}
  /\ UNCHANGED <<apps, targets, namespaces, appTargets, queue, clusterDue, job, faults, bvars>>

(* ... and writes back what it read with the answer applied.               *)
WriteTargets(c) ==
  /\ c \in commands /\ c.kind \in {"addTarget", "removeTarget"}
  /\ targets' = c.targets
  /\ IF targets' = targets THEN UNCHANGED <<queue, clusterDue>>
     ELSE queue' = queue \cup Concerned(targets') /\ clusterDue' = TRUE
  /\ commands' = commands \ {c}
  /\ UNCHANGED <<apps, namespaces, appTargets, job, edits, faults, bvars>>

-----------------------------------------------------------------------------
AppController ==
  \/ \E a \in AppNames : BeginPass(a)
  \/ SaveBuild
  \/ \E t \in Targets : SaveAppTarget(t)
  \/ RemoveInvalid

Next ==
  \/ AppController
  \/ PassFails
  \/ SyncCluster
  \/ \E n \in Objects : Collect(n)
  \/ BuildController /\ UNCHANGED avars
  \/ \E a \in AppNames : Load(a) \/ Delete(a)
  \/ \E a \in AppNames, k \in CommandNames : ReadApp(a, k)
  \/ \E k \in CommandNames : ReadTargets(k)
  \/ \E c \in commands : WriteApp(c) \/ WriteTargets(c)

Spec == Init /\ [][Next]_vars

(* Fairness: a queued object is reconciled, a pass goes on, the watch      *)
(* delivers, and the garbage collector works.  Nothing is assumed of the   *)
(* users, and calls need not fail.                                         *)
FairSpec ==
  /\ Spec
  /\ WF_vars(AppController)
  /\ WF_vars(SyncCluster)
  /\ WF_vars(\E n \in Objects : Collect(n))
  /\ WF_vars(DeliverBuild /\ UNCHANGED avars)
  /\ WF_vars(ReconcileBuild /\ UNCHANGED avars)

-----------------------------------------------------------------------------
(* Properties.                                                             *)

(* The app and the target that an app target is made for.                  *)
For(at) == <<at.spec.app, at.spec.target>>

(* More than one app target would have this name.                          *)
Shared(n) ==
  \E p, q \in AppNames \X Targets : p # q /\ Named[p] = n /\ Named[q] = n

(* The build created last always has the label: the label is taken from a  *)
(* build only for a newer one, although passes decide from a cache that    *)
(* may be behind ("ensure the latest one has flag set",                    *)
(* build_controller.go:66).                                                *)
NewestIsLatest == created # << >> => Newest(DOMAIN created) \in latest

(* In the end it is the only one with the label.                           *)
OneBuildIsLatest ==
  <>[](created # << >> => latest = {Newest(DOMAIN created)})

(* Every target that an app has in common with the cluster comes to have   *)
(* an app target made of the app's last spec, a build and a namespace,     *)
(* whatever was edited during passes, and also when the app was deleted    *)
(* and created again while its old app targets were still being collected. *)
(* Of two apps whose app targets share a name, the one that owns the app   *)
(* target has its way, whatever the passes of the other write into it; the *)
(* other one, and both once the owner is gone, are promised nothing.       *)
AppTargetsFollow ==
  <>[](\A a \in DOMAIN apps : \A t \in DOMAIN apps[a].spec.targets \cap targets :
         /\ apps[a].spec.tag \in DOMAIN created
         /\ t \in namespaces
         /\ ~Shared(Named[a, t]) => Named[a, t] \in DOMAIN appTargets
         /\ Named[a, t] \in DOMAIN appTargets /\ Told(appTargets[Named[a, t]].owner) = {a} =>
              appTargets[Named[a, t]].spec = newAppTargetForApp(a, apps[a].spec, t))

(* What is left of a deleted app goes, also what a pass that began before  *)
(* the deletion wrote after it.                                            *)
DeletedAppsGo ==
  <>[](\A n \in DOMAIN appTargets : \E a \in DOMAIN apps : appTargets[n].owner = <<a, apps[a].uid>>)

(* The app target of a target the cluster has given up is removed ("remove *)
(* old targets that aren't valid", app_controller.go:98).                  *)
DroppedTargetsGo ==
  <>[](\A n \in DOMAIN appTargets : appTargets[n].spec.target \in targets)

(* kon app edit never undoes a change that was made while the editor was   *)
(* open.                                                                   *)
EditsSeeEachOther ==
  [][\A c \in commands \ commands' :
       c.kind = "edit" => apps' = apps \/ apps[c.app] = c.read]_vars

(* Halting and unhalting an app, and scaling it, keep its releases: the    *)
(* hash that names them changes only with the build or the settings, or    *)
(* when the pass of another app writes over an app target whose name its   *)
(* own would have too.                                                     *)
HaltKeepsReleases ==
  [][\A n \in DOMAIN appTargets \cap DOMAIN appTargets' :
       appTargets'[n].hash # appTargets[n].hash =>
         \/ appTargets'[n].spec.build # appTargets[n].spec.build
         \/ appTargets'[n].spec.settings # appTargets[n].spec.settings
         \/ Shared(n) /\ For(appTargets'[n]) # For(appTargets[n])]_vars
=============================================================================
