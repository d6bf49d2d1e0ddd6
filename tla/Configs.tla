------------------------------ MODULE Configs ------------------------------
(***************************************************************************)
(* From configs to releases and their pods.                                *)
(*                                                                         *)
(* An app config belongs to an app, a shared config to every app whose     *)
(* manifest names it; both have a base version and versions for single     *)
(* targets.  A pass of the deployment controller over an app target merges *)
(* them into a config map that is named by its contents, and makes the     *)
(* release of that config map the newest one; the release controller gives *)
(* the release's pods their environment.  Users edit and delete configs,   *)
(* and export them to files from which they can be imported again, also    *)
(* into a cluster built anew.  The names of apps and targets are sequences *)
(* of words, which are written with hyphens between them: a config object  *)
(* is named by all of its words, and two configs may have the same ones.   *)
(***************************************************************************)
EXTENDS Integers, Sequences, Maps

CONSTANTS
  Targets,      \* their names, as sequences of words
  AppTargets,   \* pairs of an app and a target, by names
  SharedNames,  \* names of shared configs
  Contents,     \* what users write: functions from keys to values
  Scalars,      \* the values that are numbers or strings
  EnvName,      \* the variable that a key or a shared config gets, if valid
  HostKey,      \* the variable with the host of an app
  References,   \* of an app target: the apps it refers to, with a target or Base
  OwnEnv,       \* of an app target: the environment in its manifest
  FirstConfigs, \* the configs that may exist at first
  FirstUses,    \* the app targets that exist at first, with the shared configs they use
  EditedLabels, \* bound: the configs that users edit and delete
  EditCost,     \* bound: how many steps an edit counts for
  MaxSteps,     \* bound: edits, exports, clusters built anew, imports
  MaxFaults     \* bound: passes and imports that fail

Base == << >>
AppNames == {at[1] : at \in AppTargets}
Labels == ({"app"} \X AppNames \X (Targets \cup {Base}))
          \cup ({"shared"} \X SharedNames \X (Targets \cup {Base}))

(* Mutant: the target is not part of the name.                             *)
ObjectOfName(l) == <<l[1], l[2]>>

(* The name of a config's object: an app's has the target in it, and is    *)
(* that of another app's if the words are the same.                        *)
Object(l) == IF l[1] = "app" THEN <<"app">> \o l[2] \o l[3] ELSE <<"shared", l[2]>>

ConfigEnvVar == "APP_CONFIG"
Value(v) == <<"value", v>>
Yaml(c) == <<"yaml", c>>
Host(app, target) == <<"host", app, target>>
NoConfig == << >>

IsData(d) ==
  \A e \in DOMAIN d : d[e][1] \in {"yaml", "host"} \/ (d[e][1] = "value" /\ d[e][2] \in Scalars)
AreConfigs(f) ==
  /\ IsPartial(f, {Object(l) : l \in Labels}, [label : Labels, content : Contents])
  /\ \A o \in DOMAIN f : o = Object(f[o].label)

ASSUME NamesAssumption ==
  /\ Targets \subseteq Seq(STRING) \ {Base}
  /\ AppTargets \subseteq (Seq(STRING) \ {Base}) \X Targets
  /\ \A at, bt \in AppTargets : at[1] \o at[2] = bt[1] \o bt[2] => at = bt

ASSUME ConfigsAssumption ==
  /\ \A c \in Contents : c # << >>
  /\ DOMAIN References = AppTargets /\ DOMAIN OwnEnv = AppTargets
  /\ \A at \in AppTargets : IsData(OwnEnv[at])
  /\ AppNames \subseteq DOMAIN HostKey /\ SharedNames \subseteq DOMAIN EnvName
  /\ \A f \in FirstConfigs : AreConfigs(f)
  /\ \A u \in FirstUses : IsPartial(u, AppTargets, SUBSET SharedNames)
  /\ EditedLabels \subseteq Labels
  /\ EditCost \in Nat /\ MaxSteps \in Nat /\ MaxFaults \in Nat

VARIABLES
  configs,   \* the config objects: [label, content]
  uses,      \* the app targets that exist, with the shared configs they use
  maps,      \* config maps, by app target and name; none is ever deleted
  releases,  \* of each app target, newest first: [uses, config]
  pods,      \* the environment of the newest release's ReplicaSet
  queue,     \* app targets the deployment controller is to reconcile
  due,       \* app targets whose newest release is to be reconciled
  job,       \* the deployment controller's pass, or NoPass
  files,     \* the exported files: [configs, apps], or NoFiles
  import,    \* the import under way
  exported,  \* history: the configs at the time of the last export
  pristine,  \* history: since the cluster was built, it was only imported to
  steps, faults

bounds == <<steps, faults>>
cluster == <<configs, uses, maps, releases, pods>>
transfer == <<files, import, exported>>
vars == <<cluster, queue, due, job, transfer, pristine, bounds>>

NoPass == [at |-> << >>]
NoFiles == [configs |-> << >>, apps |-> << >>]
NoImport == [pc |-> "none", todo |-> {}]

IsContent(c) == \E a, b \in Contents : c \in {a, Over(b, a)}
IsRelease(r) == r.uses \subseteq SharedNames /\ IsData(r.config)

TypeOK ==
  /\ AreConfigs(configs)
  /\ IsPartial(uses, AppTargets, SUBSET SharedNames)
  /\ \A m \in DOMAIN maps : m[1] \in AppTargets /\ IsData(maps[m])
  /\ DOMAIN releases = AppTargets /\ DOMAIN pods = AppTargets
  /\ \A at \in AppTargets :
       /\ \A i \in DOMAIN releases[at] : IsRelease(releases[at][i])
       /\ IsData(pods[at])
  /\ queue \subseteq AppTargets /\ due \subseteq AppTargets
  /\ \/ job = NoPass
     \/ /\ job.at \in AppTargets /\ job.uses \subseteq SharedNames
        /\ \A c \in job.app : IsContent(c)
  /\ IsPartial(files.configs, Labels, Contents)
  /\ IsPartial(files.apps, AppTargets, SUBSET SharedNames)
  /\ import.pc \in {"none", "running", "done"} /\ import.todo \subseteq DOMAIN files.configs
  /\ pristine \in BOOLEAN
  /\ steps \in Nat /\ faults \in Nat

Nothing == [at \in AppTargets |-> << >>]

Init ==
  /\ configs \in FirstConfigs
  /\ uses \in FirstUses
  /\ maps = << >> /\ releases = Nothing /\ pods = Nothing
  /\ queue = DOMAIN uses /\ due = {} /\ job = NoPass
  /\ files = NoFiles /\ import = NoImport /\ exported = << >>
  /\ pristine = FALSE
  /\ steps = 0 /\ faults = 0

-----------------------------------------------------------------------------
(* Configs and what is made of them.                                       *)

(* GetConfigForType: by labels.  At most one object has them.              *)
Find(type, name, target) ==
  {configs[o].content : o \in {o \in DOMAIN configs : configs[o].label = <<type, name, target>>}}

(* GetMergedConfigForType: the target's values go over those of the base;  *)
(* without either there is no config, which is not an error.               *)
Merged(type, name, target) ==
  LET base == Find(type, name, Base)
      own  == Find(type, name, target)
  IN  IF base = {} \/ own = {} THEN base \cup own
      ELSE {Over(b, o) : o \in own, b \in base}

(* Mutant: any value becomes a variable.                                   *)
AnyEnvMaps(c) ==
  LET names == {EnvName[k] : k \in DOMAIN c \cap DOMAIN EnvName}
  IN  {With([e \in names |-> Value(c[CHOOSE k \in DOMAIN c : EnvName[k] = e])],
             ConfigEnvVar, Yaml(c))}

(* ToEnvMap.  Scalars only; of several keys with the same variable, any    *)
(* one is taken, as the order of a map's keys is random.  The whole config *)
(* comes with them.                                                        *)
EnvMaps(c) ==
  LET keys == {k \in DOMAIN c \cap DOMAIN EnvName : c[k] \in Scalars}
      names == {EnvName[k] : k \in keys}
  IN  {With([e \in names |-> Value(c[pick[e]])], ConfigEnvVar, Yaml(c)) :
         pick \in {p \in [names -> keys] : \A e \in names : EnvName[p[e]] = e}}

(* CreateConfigMap: shared configs come as a whole, and go over the app's. *)
ConfigMaps(app, shared) ==
  LET names == {EnvName[s] : s \in DOMAIN shared}
      whole == [e \in names |-> Yaml(shared[CHOOSE s \in DOMAIN shared : EnvName[s] = e])]
  IN  IF app = {} THEN {whole} ELSE UNION {{Over(env, whole) : env \in EnvMaps(c)} : c \in app}

(* The name of a config map has a hash of its contents.                    *)
MapName(data) == data

(* Mutant: the base of a target's config is not looked at.                 *)
WatchersOfTarget(l) ==
  {at \in DOMAIN uses : l[1] = "app" /\ at[1] = l[2] /\ at[2] = l[3]}

Watchers(l) ==
  IF l[1] = "app" THEN {at \in DOMAIN uses : at[1] = l[2] /\ l[3] \in {Base, at[2]}}
  ELSE {} \* AppTarget is listed where AppTargetList is meant, which fails

(* SaveAppConfig: what the object says is overwritten, its label too.  The *)
(* watch is told of the object as it was and as it is.                     *)
Overwritten(l) == {configs[o].label : o \in {Object(l)} \cap DOMAIN configs}
Save(l, content) ==
  /\ configs' = With(configs, Object(l), [label |-> l, content |-> content])
  /\ queue' = IF configs' = configs THEN queue
              ELSE queue \cup UNION {Watchers(k) : k \in Overwritten(l) \cup {l}}

-----------------------------------------------------------------------------
(* The deployment controller: reconcileConfigMap and the choice of the     *)
(* release in reconcileAppReleases.                                        *)

BeginPass(at) ==
  /\ job = NoPass /\ at \in queue
  /\ queue' = queue \ {at}
  /\ job' = IF at \in DOMAIN uses
            THEN [at |-> at, uses |-> uses[at], app |-> Merged("app", at[1], at[2])]
            ELSE NoPass
  /\ UNCHANGED <<cluster, due, transfer, pristine, bounds>>

Shared == [s \in job.uses |-> Merged("shared", s, job.at[2])]

(* A shared config that does not exist is a nil pointer, which             *)
(* CreateConfigMap uses: the operator crashes, and starts anew.            *)
Crash ==
  /\ job # NoPass
  /\ \E s \in job.uses : Shared[s] = {}
  /\ job' = NoPass
  /\ queue' = DOMAIN uses
  /\ due' = {at \in AppTargets : releases[at] # << >>}
  /\ UNCHANGED <<cluster, transfer, pristine, bounds>>

(* The name of the config map that the pass makes, with what is in it;     *)
(* there need not be one.                                                  *)
Made ==
  IF job.app = {} /\ job.uses = {} THEN {[name |-> NoConfig, data |-> << >>]}
  ELSE {[name |-> MapName(data), data |-> data] :
          data \in ConfigMaps(job.app, [s \in job.uses |-> CHOOSE c \in Shared[s] : TRUE])}

(* The releases of the app target as it is now, with this config or, when  *)
(* there is none, with any.                                                *)
Fitting(config) ==
  LET Fits(r) == r.uses = job.uses /\ config \in {NoConfig, r.config}
  IN  {i \in DOMAIN releases[job.at] : Fits(releases[job.at][i])}
First(S) == CHOOSE i \in S : \A j \in S : i <= j
Remove(s, i) == SubSeq(s, 1, i - 1) \o SubSeq(s, i + 1, Len(s))

NewestFits(config) == Fitting(config) # {} /\ First(Fitting(config)) = 1

(* The releases without an older one that fits, which is deleted.          *)
OlderGone(config) ==
  IF Fitting(config) = {} THEN releases[job.at]
  ELSE Remove(releases[job.at], First(Fitting(config)))

MapsWith(made) == Over([m \in {<<job.at, made.name>>} |-> made.data], maps)

(* The config map is created unless there is one of its name; then the     *)
(* release is created, unless the newest one fits.                         *)
MakeRelease ==
  /\ job # NoPass
  /\ \A s \in job.uses : Shared[s] # {}
  /\ \E made \in Made :
       /\ maps' = IF made.name = NoConfig THEN maps ELSE MapsWith(made)
       /\ IF NewestFits(made.name) THEN UNCHANGED <<releases, queue, due>>
          ELSE /\ releases' = [releases EXCEPT ![job.at] =
                    <<[uses |-> job.uses, config |-> made.name]>> \o OlderGone(made.name)]
               /\ queue' = queue \cup {job.at}
               /\ due' = due \cup {job.at}
  /\ job' = NoPass
  /\ UNCHANGED <<configs, uses, pods, transfer, pristine, bounds>>

(* A call fails, possibly after the config map was created and the older   *)
(* release deleted; or the operator starts anew.                           *)
PassFails ==
  /\ faults < MaxFaults /\ job # NoPass
  /\ faults' = faults + 1
  /\ job' = NoPass
  /\ queue' \in {queue \cup {job.at}, DOMAIN uses}
  /\ \/ UNCHANGED <<maps, releases>>
     \/ /\ \A s \in job.uses : Shared[s] # {}
        /\ \E made \in Made :
             /\ made.name # NoConfig /\ ~NewestFits(made.name)
             /\ maps' = MapsWith(made)
             /\ releases' = [releases EXCEPT ![job.at] = OlderGone(made.name)]
  /\ UNCHANGED <<configs, uses, pods, due, transfer, pristine, steps>>

-----------------------------------------------------------------------------
(* The release controller: newReplicaSetForAR.                             *)

(* GetDependencyInfos: the target defaults to the release's own.           *)
Dependencies(at) == {<<r[1], IF r[2] = Base THEN at[2] ELSE r[2]>> : r \in References[at]}

Hosts(at) ==
  LET names == {HostKey[d[1]] : d \in Dependencies(at)}
  IN  [e \in names |->
         LET d == CHOOSE d \in Dependencies(at) : HostKey[d[1]] = e IN Host(d[1], d[2])]

(* The manifest's environment goes over configs, and these over hosts.     *)
Environment(own, data, hosts) == Over(Over(hosts, data), own)

(* An app target that is referred to and does not exist is an error, after *)
(* which the release is reconciled again; a missing config map is none.    *)
ReconcileRelease(at) ==
  LET newest == Head(releases[at])
      m == <<at, newest.config>>
  IN  /\ at \in due /\ Dependencies(at) \subseteq DOMAIN uses
      /\ pods' = [pods EXCEPT ![at] =
                    Environment(OwnEnv[at],
                                IF newest.config # NoConfig /\ m \in DOMAIN maps
                                THEN maps[m] ELSE << >>,
                                Hosts(at))]
      /\ due' = due \ {at}
      /\ UNCHANGED <<configs, uses, maps, releases, queue, job, transfer, pristine, bounds>>

-----------------------------------------------------------------------------
(* Users.                                                                  *)

Edited == steps + EditCost <= MaxSteps /\ steps' = steps + EditCost /\ pristine' = FALSE

(* configEdit: whatever was read when the editor was opened is overwritten. *)
Edit(l, content) ==
  /\ Edited
  /\ Save(l, content)
  /\ UNCHANGED <<uses, maps, releases, pods, due, job, transfer, faults>>

(* configDelete: the object is found by its labels.                        *)
Delete(l) ==
  /\ Edited
  /\ Object(l) \in DOMAIN configs /\ configs[Object(l)].label = l
  /\ configs' = Without(configs, {Object(l)})
  /\ queue' = queue \cup Watchers(l)
  /\ UNCHANGED <<uses, maps, releases, pods, due, job, transfer, faults>>

(* The shared configs that an app's manifest names are changed.            *)
EditUses(a, S) ==
  LET changed == {at \in DOMAIN uses : at[1] = a /\ uses[at] # S}
  IN  /\ Edited
      /\ changed # {}
      /\ uses' = [at \in DOMAIN uses |-> IF at \in changed THEN S ELSE uses[at]]
      /\ queue' = queue \cup changed
      /\ UNCHANGED <<configs, maps, releases, pods, due, job, transfer, faults>>

Moved == steps < MaxSteps /\ steps' = steps + 1

(* ExportConfigs, ExportApps: a file for each object.  Files that are      *)
(* there already stay.                                                     *)
Export ==
  /\ Moved
  /\ files' = [configs |-> Over(files.configs,
                               [l \in {configs[o].label : o \in DOMAIN configs} |->
                                  configs[Object(l)].content]),
               apps |-> Over(files.apps, uses)]
  /\ exported' = configs
  /\ import.pc # "running" /\ import' = NoImport
  /\ UNCHANGED <<cluster, queue, due, job, pristine, faults>>

(* A new cluster takes the place of the old one.                           *)
Rebuild ==
  /\ files # NoFiles /\ Moved
  /\ configs' = << >> /\ uses' = << >>
  /\ maps' = << >> /\ releases' = Nothing /\ pods' = Nothing
  /\ queue' = {} /\ due' = {} /\ job' = NoPass
  /\ pristine' = TRUE /\ import' = NoImport
  /\ UNCHANGED <<files, exported, faults>>

BeginImport ==
  /\ Moved /\ files # NoFiles /\ import.pc # "running"
  /\ import' = [pc |-> "running", todo |-> DOMAIN files.configs]
  /\ UNCHANGED <<cluster, queue, due, job, files, exported, pristine, faults>>

(* Mutant: the directory of the target is not looked at.                   *)
LabelAsBase(l) == <<l[1], l[2], Base>>

(* The label that a file's place stands for.                               *)
LabelOfFile(l) == l

(* ImportConfigs: apps' configs first, file by file.                       *)
ImportConfig(l) ==
  /\ import.pc = "running" /\ l \in import.todo
  /\ l[1] = "shared" => \A k \in import.todo : k[1] = "shared"
  /\ Save(LabelOfFile(l), files.configs[l])
  /\ import' = [import EXCEPT !.todo = @ \ {l}]
  /\ UNCHANGED <<uses, maps, releases, pods, due, job, files, exported, pristine, bounds>>

(* Mutant: apps need not wait for the configs.                             *)
AppsAnytime == import.pc = "running"

AppsMayFollow == import.pc = "running" /\ import.todo = {}

Imported(at) == at \in DOMAIN uses /\ uses[at] = files.apps[at]

(* ImportApps; app targets come with them.                                 *)
ImportApp(a) ==
  LET ats == {at \in DOMAIN files.apps : at[1] = a}
  IN  /\ AppsMayFollow
      /\ \E at \in ats : ~Imported(at)
      /\ uses' = Over(uses, [at \in ats |-> files.apps[at]])
      /\ queue' = queue \cup ats
      /\ UNCHANGED <<configs, maps, releases, pods, due, job, transfer, pristine, bounds>>

FinishImport ==
  /\ import.pc = "running" /\ import.todo = {}
  /\ \A at \in DOMAIN files.apps : Imported(at)
  /\ import' = [import EXCEPT !.pc = "done"]
  /\ UNCHANGED <<cluster, queue, due, job, files, exported, pristine, bounds>>

ImportFails ==
  /\ faults < MaxFaults /\ import.pc = "running"
  /\ import' = NoImport /\ faults' = faults + 1
  /\ UNCHANGED <<cluster, queue, due, job, files, exported, pristine, steps>>

-----------------------------------------------------------------------------
Next ==
  \/ \E at \in AppTargets : BeginPass(at) \/ ReconcileRelease(at)
  \/ Crash \/ MakeRelease \/ PassFails
  \/ \E l \in EditedLabels : Delete(l) \/ \E c \in Contents : Edit(l, c)
  \/ \E l \in Labels : ImportConfig(l)
  \/ \E l \in EditedLabels, S \in SUBSET SharedNames : l[1] = "app" /\ EditUses(l[2], S)
  \/ \E a \in AppNames : ImportApp(a)
  \/ Export \/ Rebuild \/ BeginImport \/ FinishImport \/ ImportFails

Spec == Init /\ [][Next]_vars

(* Fairness: each controller takes something from its queue when it can,   *)
(* whatever it may be, and a pass goes on.  Nothing is assumed of the      *)
(* users.                                                                  *)
FairSpec ==
  /\ Spec
  /\ WF_vars(\E at \in AppTargets : BeginPass(at))
  /\ WF_vars(\E at \in AppTargets : ReconcileRelease(at))
  /\ WF_vars(Crash \/ MakeRelease)

-----------------------------------------------------------------------------
(* Properties.                                                             *)

NoneMissing ==
  \A at \in DOMAIN uses : \A s \in uses[at] : Merged("shared", s, at[2]) # {}

Served(at) == at \in DOMAIN uses /\ Dependencies(at) \subseteq DOMAIN uses

(* What an app's configs say last reaches the pods of its newest release,  *)
(* for every target, whichever of base and target was edited and at        *)
(* whatever moment of a pass, also when an older release has to come back; *)
(* and the manifest's environment and the hosts are there with it          *)
(* (docs/apps/configuration.md: "Any changes to a config that an app       *)
(* relies on will automatically create a new release").  It is so unless   *)
(* shared configs in use stay missing, which stops the operator.           *)
ConfigsReach ==
  <>[]NoneMissing =>
    <>[](\A at \in AppTargets : Served(at) =>
           /\ \A c \in Merged("app", at[1], at[2]) :
                /\ ConfigEnvVar \in DOMAIN pods[at]
                /\ pods[at][ConfigEnvVar] = Yaml(c)
           /\ \A e \in DOMAIN OwnEnv[at] :
                e \in DOMAIN pods[at] /\ pods[at][e] = OwnEnv[at][e]
           /\ DOMAIN Hosts(at) \subseteq DOMAIN pods[at])

(* The configs of an app for a target, the base among them, whose object   *)
(* has the words of another app's name and target for its name.            *)
SharesName(a, t, l) == l[2] # a /\ l[2] \o l[3] \in {a, a \o t}

(* Editing an app's config for one target leaves what every other target   *)
(* of every app is given as it was, but for another app whose base config, *)
(* or whose config for that target, has the same name with hyphens: that   *)
(* one is overwritten (appconfig_types.go:148: "app-%s").                  *)
EditsKeepToTheirTarget ==
  [][\A l \in EditedLabels, c \in Contents :
       Edit(l, c) /\ l[1] = "app" /\ l[3] # Base =>
         \A a \in AppNames, t \in Targets :
           <<a, t>> # <<l[2], l[3]>> /\ ~SharesName(a, t, l) =>
             Merged("app", a, t)' = Merged("app", a, t)]_vars

OneFileEach == \A k, l \in DOMAIN files.configs : Object(k) = Object(l) => k = l
NothingStale == \A l \in DOMAIN files.configs :
  Object(l) \in DOMAIN exported /\ exported[Object(l)].label = l

(* Importing an export into a new cluster, however often it fails and is   *)
(* run again, gives back every config that was exported.                   *)
ImportRestores ==
  pristine /\ import.pc = "done" /\ NothingStale => configs = exported

Clashes(c) == \E k, j \in DOMAIN c \cap DOMAIN EnvName : k # j /\ EnvName[k] = EnvName[j]

(* Importing makes one release for each app target and no useless ones     *)
(* before it (cluster.go:469: "apps will also create releases.. so it'd be *)
(* ideal to avoid useless releases"), unless keys clash.                   *)
ImportMakesOneRelease ==
  pristine /\ OneFileEach =>
    \A at \in AppTargets :
      (\A c \in Merged("app", at[1], at[2]) : ~Clashes(c)) => Len(releases[at]) <= 1
=============================================================================
