# Konstellation in TLA+

Konstellation runs apps on Kubernetes: an operator (`main.go`, `controllers/`) that turns apps
into releases, and a command line tool (`cmd/kon`) that creates clusters and edits their resources.
This project models its core logic, checks it with TLC on small instances and proves
part of it with TLAPS for every instance.

It covers the operator's controllers and the commands that change state: rollouts, apps and
builds, configs with export and import, ingresses, and the life of clusters with their node
pools and linked accounts. Proofs cover the rollout with its abstract specification, apps and
builds, configs with export and import, clusters, and the types of ingresses.

- [Inventory](#inventory): parts, state, operations, interaction, what is hard
- [Plan](#plan): modules, abstract specifications, runs, theorems
- [Modules](#modules): how they correspond to the code
- [Runs](#runs): what is checked, the bounds, the fairness
- [Observations](#observations): where code and documentation disagree
- [Proofs](#proofs)
- [Not modelled](#not-modelled)

## Inventory

One process runs all controllers. Each controller has one worker, so two passes of the same
controller never overlap, but the controllers run concurrently with each other, with Kubernetes and with
users. They communicate only through objects in the API server: an object that changes queues
the controllers that watch it. Reads come from a cache and may be stale; a write of a stale object
fails; a pass that returns an error is repeated later. No pass is a transaction: what it wrote before
an error stays.

| Component | State | Operations | Correct when |
| --- | --- | --- | --- |
| App controller `controllers/app_controller.go` | `App`, `AppTarget` | for each target of the app that the cluster has: write the app target; create the build; delete app targets of targets the cluster does not have | app targets exist for exactly the targets of app and cluster, with the contents of the app |
| Build controller `controllers/build_controller.go` | `Build` with label `latest` | take the label from all builds of an image but the newest | in the end exactly the newest build has the label |
| Deployment controller `controllers/deployment_*.go` | `AppRelease` specs, config maps, autoscaler, services, virtual service, ingress request, `AppTarget` status | a pass: releases, autoscaler, routes, status | traffic is always whole, covered by instances and moved gradually; rollouts finish; rollbacks hold |
| Release controller `controllers/apprelease_controller.go` | `ReplicaSet`, `AppRelease` status | create, scale, delete the replica set; report pods and state; notice pods that cannot start | status reflects pods; states change as roles do |
| Cluster config controller `controllers/clusterconfig_controller.go` | namespaces, installed components | create a namespace per target, install and update components | every target has its namespace before anything is deployed to it |
| Node pool controller `controllers/nodepool_controller.go` | `Nodepool` status | copy the nodes of a pool into its status | - |
| Ingress request controller `controllers/ingressrequest_controller.go`, `pkg/components/ingress` | `Ingress`, `IngressRequest` status | one ingress per target and protocol for the hosts of all requests; remove unused ones; attach certificates | an ingress exists for exactly the protocols of the target's requests, and for every target independently |
| Configs `pkg/resources/appconfig.go`, `api/v1alpha1/appconfig_types.go`, `cmd/kon/commands/config.go` | `AppConfig` per app or shared name, and per target | edit, delete, merge the target's over the base, make a config map named by its hash | what runs is the merge of what was saved last |
| App commands `cmd/kon/commands/app.go` | writes `App`, marks `AppRelease` | new, load, edit, deploy, halt, rollback, restart, delete | an operation changes what the user saw |
| Cluster commands `cmd/kon/commands/cluster*.go`, `vpc.go`, `nodepool.go`, `pkg/resources/kubeconfig.go` | local configuration, kubeconfig, Terraform state | create, activate, select, import, destroy | an interrupted creation can be repeated or destroyed |
| AWS provider `cmd/kon/providers/aws`, `cmd/kon/terraform`, `pkg/cloud/aws` | cloud resources | the steps of the cluster commands | created once, destroyed in the reverse order |
| Accounts `cmd/kon/commands/account.go` | `LinkedServiceAccount` | create and delete an account and its role in the cloud | - |
| Export, import `pkg/resources/export.go` | files | write all resources to files and read them back | an import of an export is complete and repeatable |
| Components `pkg/components` | manifests | install | - |
| Utilities `pkg/utils`, `cmd/kon/utils` | none | merge, retry, prompts, port forwarding | - |

The chain from a user to a pod: `kon app` edits an `App`; the app controller writes an
`AppTarget` per target; the deployment controller makes an `AppRelease` for each new combination of build,
app target hash and config hash, and decides roles, traffic and instances of all of them; the release
controller makes a `ReplicaSet` of each; the pods it reports in the release's status feed the next
pass of the deployment controller, which moves traffic a step further.

What is hard to test in it:

- a pass plans from what it read when it began, while statuses, rollbacks and edits change underneath;
- a pass saves the releases, the autoscaler, the routes and the status one after the other and may
  fail between any two, so that the next pass starts from a state no pass intended;
- moving all traffic and promoting a release are two passes, with room for a new deployment in between;
- roles, shares and instances are corrected locally ("whatever is left"), so that totals depend on how often
  and on what the pass is repeated;
- limits: a list cut at ten releases, integer percentages, single instances;
- timers that restart when a state flips;
- names derived from contents, so that going back to old contents finds an existing object.

`PROJECT.json` lists these under "hazards", each at its line.

## Plan

Done, in this order:

| Module | Models | Composes |
| --- | --- | --- |
| `Releases` | the plan of a pass as pure operators | |
| `Rollout` | deployment controller, release controller, users, pods | `Releases` |
| `RolloutProofs` | proofs about types, plans, roles and targets | `Rollout` |
| `RolloutRoutes` | proofs about what is published, and of the refinement | `RolloutProofs`, `RolloutRefinement` |
| `RolloutInstances` | proofs about weights and pods, and about the deletion of old releases | `RolloutRoutes` |
| `TrafficSplit` | abstract: what clients are promised of a rollout | implemented by `Rollout`, see `RolloutRefinement` |
| `Maps`, `MapProofs` | functions that are defined on a part of a set: objects by name; what their operators return | |
| `Settings` | pure: the settings of a target over those of the app, the app target made of them, its hash | |
| `Builds` | builds of an image and the label of the latest | `Settings` |
| `Apps` | app controller, cluster config controller, edits of apps and of the cluster's targets | `Builds` |
| `AppsProofs` | proofs about apps and builds | `Apps`, `MapProofs` |
| `Configs` | configs, their way to releases and pods, export, import | |
| `ConfigsProofs` | proofs about edits, imports and the releases they make | `Configs`, `MapProofs` |
| `Ingresses` | services and what goes with them, ingress requests of several targets and protocols, certificates | |
| `IngressesProofs` | proofs about types | `Ingresses` |
| `Accounts` | linked accounts: objects, roles, service accounts | |
| `Clusters` | the commands that make, use and destroy clusters | `Accounts` |
| `ClustersProofs` | proofs about clusters and linked accounts | `Clusters`, `MapProofs` |

Left:

- reads from a cache that lags behind in `Rollout`, as `Builds` has them;
- weights per port of a virtual service.

## Modules

### Releases

The operators of `deployReleases`. They work on a *view*, the in-memory list of releases of a
pass: the keys in it, and functions from keys to specs, statuses and creation times. A release
is identified by its name, which the code derives from build, app target hash and config hash; a name
thus also stands for contents. When a pass deletes a release to re-create it, its list holds two
objects of that name; the deleted one has the key `Old`.

| Code | TLA+ |
| --- | --- |
| scan for active and target release | `RoleHolder` |
| `GetFirstDeployableRelease` | `Deployable`, `TargetOf` |
| no active release: the target becomes active | `ActiveBefore` |
| readiness timeout not over | `Waits` |
| promotion of a target with all traffic | `Promotes`, `ActiveAfter` |
| share of the target: available instances, capped by the increment | `TargetShare` |
| shares of the others, correction of the total | `PlannedTraffic`, `TotalTraffic` |
| instances: ramp, proportion of old traffic, scaling down | `PlannedInstances` and its parts |
| roles and the target label | `PlannedRole`, `PlannedSpec` |
| `hasChanges`, phase, early returns | `ChangesRollout`, `RolloutPhase`, `Outcome` |
| the list cut at `numReleasesToKeep` | `Kept` |

The share of the target is computed in the code with a 32-bit float; it equals the integer quotient
used here except for 53 of 100 and 59 of 100 instances, where it is one less. The model's
instances are far below that.

Definitions marked "Mutant" are variants with a plausible mistake. Each is used to confirm that the
property it is paired with in `PROJECT.json` can fail.

### Rollout

One app target. The variables are the objects in the API server: the app target's spec (`at`) and
status (`atStatus`), the releases (`live`, `spec`, `status`, creation times `born`, age `aged`),
replica sets with their pods (`rs`), the weights of the virtual service (`routes`), the autoscaler (`scaler`);
the pass that is under way with what it has in memory (`job`); and the copy of a release that
`kon app rollback` holds while it asks for confirmation (`rollback`).

| Action | Code |
| --- | --- |
| `StartPass` | reads, forced deletion, `deployReleases` |
| `SaveRelease` | one `UpdateResource` of a release |
| `CollectReleases` | deletion of old releases beyond the limit, the cut of the list |
| `PublishScaler` | `reconcileAutoScaler` |
| `PublishRoutes` | the virtual service, from the list in memory |
| `WriteStatus` | the app target's status, the last step |
| `PassFails` | any call that fails, or a restart of the operator; the next pass starts over |
| `SyncRelease`, `SyncReleaseFails` | a pass of the release controller, and one whose status update fails |
| `PodBecomesAvailable`, `PodStops`, `PodIsLost`, `AutoscalerScales` | Kubernetes (external) |
| `RolloutTimerElapses`, `StateSettles`, `ReleaseAges` | time: the readiness timeout since the last change of the rollout, since the last change of a release's state, and the hours to keep a release |
| `DeployNew`, `DeployAgain`, `Halt`, `Rescale` | edits of the app, arriving in the app target |
| `ChooseRollback`, `ConfirmRollback` | the two halves of `kon app rollback` |

A pass reads the app target and the releases once, when it starts (`job` holds what it read and planned); an
edit during a pass is seen by the next one. `UpdateResource` re-reads a release only to overwrite its spec.
Time is abstracted: a timer is fresh until the timeout has passed, which may happen at any moment.

### TrafficSplit, RolloutRefinement

`TrafficSplit` is what the clients of an app target are promised: all traffic goes to one stable
release, or is split between it and one other, whose part grows by at most an increment and which becomes
the stable one only with all traffic. `RolloutRefinement` maps a rollout to it: the weights are
the virtual service's, the stable release is the newest with the role of the active one. The
property `SplitsTraffic` is that abstract specification.

### Settings, Builds, Apps

`Settings` has the functions `EnvForTarget`, `ScaleSpecForTarget`, `DeployModeForTarget` and the
like of `api/v1alpha1/app_types.go`, `newAppTargetForApp`, and the hash of an app target.
Environment, resources and probes are alike there (what the target sets goes over what the app sets)
and are one function, `SettingsForTarget`.

`Builds` has the label of the latest build. The build controller reads from a cache (`known`) that a
watch fills (`events`); a write based on an outdated copy is refused.

| Action of `Apps` | Code |
| --- | --- |
| `BeginPass`, `SaveBuild`, `SaveAppTarget`, `RemoveInvalid` | the steps of `AppReconciler.Reconcile`, in order; the cluster's targets are read between build and app targets |
| `PassFails` | a call fails, or the operator restarts |
| `SyncCluster` | `ClusterConfigReconciler`: namespaces |
| `Collect` | Kubernetes deletes what a deleted app owned (external) |
| `Load`, `Delete` | `kon app load`, `delete` |
| `ReadApp`, `WriteApp` | the two halves of `kon app deploy`, `halt` and `edit` |
| `ReadTargets`, `WriteTargets` | the two halves of `kon cluster configure` |
| `DeliverBuild`, `BeginBuild`, `UnlabelBuild` | the watch on builds, a pass of `BuildReconciler` |

`queue` holds the apps to reconcile: an action adds those that the controller's watches would
enqueue. What happens to an app target queues the app of its owner's name (`Told`), which need not
be the one whose pass wrote it: `GetAppTargetName` joins app and target with a hyphen, so `Named`
gives the app target of `web` for `eu-prod` and that of `web-eu` for `prod` one name, and
`UpdateResource` writes over what exists and leaves its owner. Names are sequences of words in the
instance; the module and the proofs let `Named` be any function.

### Configs

The objects of app and shared configs (`configs`), the app targets with the shared configs they use
(`uses`), config maps, releases (as far as configs name them) and the environment of the newest
release's pods. A release is [uses, config]: what an edit of the manifest or of a config changes in
its name. The names of apps and targets are sequences of words, and `Object` joins them as
`NewAppConfig` does with hyphens: the config of `web` for `production` and the base config of an app
`web-production` are one object, which `Save` overwrites with its labels, and the watch queues who
used the old one and who uses the new one. Two app targets that have one name are left to `Apps`:
`NamesAssumption` says that there are none.

| Action | Code |
| --- | --- |
| `BeginPass`, `MakeRelease`, `Crash`, `PassFails` | `reconcileConfigMap`, and the choice of a release in `reconcileAppReleases`; `Crash` is the nil pointer of a missing shared config |
| `ReconcileRelease` | `newReplicaSetForAR`: manifest over configs over hosts of dependencies |
| `Edit`, `Delete`, `EditUses` | `kon config edit`, `delete`; a manifest with other shared configs |
| `Export`, `BeginImport`, `ImportConfig`, `ImportApp`, `FinishImport`, `ImportFails` | `kon cluster export` and `import`, file by file |
| `Rebuild` | a new cluster takes the place of the old one |

### Ingresses

| Action | Code |
| --- | --- |
| `Deploy`, `DeployFails` | the steps of a deployment pass from the service to the status; one that fails does the first of them |
| `BeginPass`, `SyncProtocol`, `FinishPass`, `PassFails` | `IngressRequestReconciler.Reconcile`: one ingress per protocol of the request's target, or of all protocols when the request is gone, and then the clean-up |
| `Collect`, `Assign` | garbage collection, and the load balancer's address (external) |
| `EditManifest`, `DeleteApp`, `SyncCerts` | users |

`ConcernedByIngress` and `ConcernedByCert` are the watches, with the requests that they leave out.
`orphans` are the objects whose owner was deleted: they are collected one by one, in any order, and
an app target of the same name may come back meanwhile, whose passes update them without owning
them. `switched` and `missed` are history.

### Accounts, Clusters

One workstation on which one command runs at a time (`job`: the command, its next step and what it
has in memory). `Clusters` has the state on the workstation (`files`, `conf`, `kube`) and in the
cloud (`vpc`, `cloud`); `Accounts` has what is inside the clusters (`inside`) and the roles linked
to them (`roles`), with the actions that link accounts. `BreakOff` ends the command between any two
steps: a failed call, a wait that timed out, an aborted prompt, a killed process. `StackStops` and
`DestroyStops` are Terraform stopping within a step. `DestroyElsewhere` is another workstation's
destroy, which may fall between any two steps of a command, such as the two times a creation lists
the clusters (`cluster.go:399`, `:991`). Only the cluster that a command is changing is left alone
(`Untouched`): a creation from the prompt on, a destroy once it has connected, and the commands on
node pools, targets and accounts, would otherwise go on in a cluster that vanishes under them.

| Actions | Code |
| --- | --- |
| `Locate`, `WriteKubeConfig`, `ListClusters`, `RefreshContexts` | `updateClusterLocations`, `generateKubeConfig`, `clusterList` |
| `Resume`, `Decline`, `NothingToResume`, `PromptCluster`, `PromptPool` | `clusterCreate` up to the two files |
| `MakeVpc`, `MakeStack`, `TagSubnets`, `AddThumbprint`, `EnsurePool`, `WaitForPool` | `CreateCluster`, `CreateNodepool` |
| `LoadTypes`, `SaveConfig`, `RecordPool`, `AddAdminRole`, `Activate`, `RemoveFiles` | the rest of `clusterCreate` |
| `Connect`, `ConfigureNodepool`, `ConfigureTargets`, `InstallComponents` | `clusterSelect`, `clusterReinstall` |
| `PickAccount`, `MakeServiceAccounts`, `SyncRole`, `Annotate`, `SaveAccount`, `SaveTargets` | `reconcileAccounts`, `SyncLinkedServiceAccount`, `addTargetPrompt` |
| `ImportAccounts`, `DeleteRole`, `DropAnnotations`, `DeleteAccount` | `ImportLinkedAccounts`, `accountDelete` |
| `Deselect`, `EmptyCluster`, `UnlinkAccounts`, `UntagSubnets`, `DeletePool`, `ForgetPool`, `DestroyStack`, `DestroyVpc` | `clusterDestroy`, `nodepoolDestroy`, `vpcDestroy` |
| `EnsureNamespace` | the cluster config controller in a cluster |
| `PoolSettles`, `DestroyElsewhere` | EKS, and the destroy of another workstation (external) |

`abandoned`, `doomed` and `strayed` are history: creations a user declined to resume, clusters whose
destruction began, and those in which a command on accounts broke off.

## Runs

Each root module has an instance module for TLC that declares the model values
and the sets the configurations choose from: `MCRollout` (which extends
`RolloutRefinement`, so the refinement is checked with the rest), `MCApps`,
`MCConfigs`, `MCIngresses` and `MCClusters`.

The instances of `Rollout` have two or three releases (`r1`..`r3`), an increment of 25 and at most two edits.

| Run | Environment | Checks |
| --- | --- | --- |
| `rollout_deploys` | three releases, one instance that may be scaled to two, new deployments and changes of the scale | `RoutesAreWhole`, `RolesAreUnique`, `RampIsBounded`, `PromotedWhenRouted`, `ActiveIsKept`, `SplitsTraffic` |
| `rollout_instances` | two releases with four instances, or with an autoscaler for one or two; pods may never become available | `ActiveCoversItsWeight`, `TargetCarriesItsWeight`, `SwitchesToPods`, `ScaledDownWhenUnrouted`, `ScalerRunsWhenRouted` |
| `rollout_recovers` | two releases, a failing pass or status update or a lost pod, collection of old releases; fairness | `TargetIsKept`, `RolloutCompletes` |
| `rollout_edited` | two releases, any two of deployments, re-deployments, rollbacks and halts; fairness | `TypeOK`, `PlanSharesTraffic`, `RolloutCompletes` |
| `bad_release_revived` | a rollback during a pass | violates `BadStaysBad` |
| `active_redeployed` | the app set back to the active release's contents during a rollout | violates `ActiveIsKept` |
| `active_scaled_down` | a deployment between full traffic and promotion | violates `ActiveCoversItsWeight` |
| `apps` | an app, and a second one that may be loaded, two targets, three tags; any two commands, one failure; fairness | `TypeOK`, `NewestIsLatest`, `EditsSeeEachOther`, `HaltKeepsReleases`, `OneBuildIsLatest`, `AppTargetsFollow`, `DeletedAppsGo` |
| `configs` | two apps of which one refers to the other and has a config of the same name as the other's base, a shared config; two edits, or an edit with an export and an import, or a move to a new cluster; one failure; fairness | `TypeOK`, `ImportRestores`, `ImportMakesOneRelease`, `EditsKeepToTheirTarget`, `ConfigsReach` |
| `ingresses` | three app targets in two targets, a wildcard certificate and its renewal; two changes or failures; fairness | `TypeOK`, `IngressesCome`, `UnusedIngressesGo`, `RenewalsArePickedUp`, `ObjectsFollow` |
| `clusters` | two clusters, of which one may be active with a linked account; three commands, destroys from elsewhere among them, one of which breaks off or meets a failing node pool; fairness | `TypeOK`, `CreationsCanBeResumed`, `ActiveIsWhole`, `TargetsAreLinked`, `KubectlFollows`, `CreationsComplete`, `DestroyLeavesNothing` |
| `dropped_targets_stay` | a target is taken from the cluster; fairness | violates `DroppedTargetsGo` |

Bounds. Three releases are the smallest number at which a rollout is overtaken by another one, with
an active, a former target and a new target release; two suffice where the question is about one
rollout and a disturbance. Two edits are enough to overtake a rollout at every one of its steps,
because an edit may happen in every state; the failing step is likewise free. Four instances and an
increment of 25 give every intermediate step of a rollout. With one instance an increment is a
quarter of the traffic for the same pod. `Keep = 1` in `rollout_recovers` stands for
`numReleasesToKeep`, which is 10: an instance cannot have more than ten releases, and what matters
is that the list is longer than the limit. In the other runs the list is never cut. `MaxFaults` is
1: the failure may hit any step, and the system must recover from what it left.

Of the further runs:

- `apps`: two commands are the smallest number that can undo one another, and delete and load an app
  again while its old app targets are collected. The instance begins with an app for both targets,
  so that two commands (load the second app, add a target) suffice for two apps that write one app
  target. Three tags give the first build and two that compete for the label. `SameSecond` is
  FALSE: builds of the same second have no newest one, see the observations.
- `configs`: an edit counts for two of four steps (`EditCost`), so that the instance has two edits,
  or one between an export and an import, or an export, a new cluster and two imports. Two contents
  suffice to tell base and target apart; they have keys that clash and a value that cannot be a
  variable. `web-production` is the shortest name that collides.
- `ingresses`: two requests in one target share or do not share an ingress, and the third is of
  another target, which the clean-up can hit. Only one of them has monitors. Two steps allow for one
  change that undoes another, the deletion and return of an app target among them, or for a change
  and a failure.
- `clusters`: three commands besides resuming: one that breaks off, one in between, and one that
  meets what both left. Two clusters are needed for a selection and a context that differ, two node
  pools for a cluster that gets another one.

Fairness (`FairSpec`). In `Rollout`, passes of the deployment controller go on for ever: it is
queued by every change of the objects it owns and returns `RequeueAfter` while a rollout is under
way; a failed pass is repeated. The release controller is queued by changes of releases and replica
sets. Timers elapse. Kubernetes stops surplus pods, and starts missing ones unless the instance
includes pods that never become available. Nothing is assumed of users, of the autoscaler or of
failures. Without fairness the safety properties are unaffected.

In the further runs a queued object is reconciled, a pass or command that began goes on, watches
deliver, and Kubernetes and the cloud do their part (garbage collection, addresses, node pools that
come or fail). All fairness is weak, and none is about a particular object: a controller takes any
object from its queue, although the code's work queues are first in, first out. In `clusters`,
commands go on until they end or break off, and one thing is assumed of the user, which
`CreationsComplete` is about: that an interrupted creation is resumed as long as the client offers it.

The runs of `Rollout` check for deadlock: the deployment controller can always start a pass. The other
systems come to rest once nothing is queued, no command runs and the bounded number of edits is used up; their
configurations say `CHECK_DEADLOCK FALSE`, and their liveness properties say in what state they rest.

## Observations

Three of the violation runs show:

- `bad_release_revived`: the pass saves specs it planned from an earlier read, role included, so a rollback
  confirmed in between is lost.
- `active_redeployed`: contents that are not the newest are re-created by deleting the release, even if it is
  the active one with all traffic.
- `active_scaled_down`: the active release is scaled by its share before the pass. Just before a
  promotion that share is 0; a newer deployment at this moment gives it back all traffic and no
  instances.

The model of a rollout shows the following, each with the events given. They are not kept as runs.

- Events `rollback`: after a rollback of the active release no release is active, and the pass treats the
  deployment as a first one: all traffic goes to the previous release at once, which may have no pods
  (`SwitchesToPods`; `website/docs/apps/basics.mdx:121` describes a gradual shift).
- Events `rollback` (three edits): a rollback writes back the share of the copy it read. When all
  releases are bad the pass returns before the correction of the total, and weights that add up to
  125 are published (`RoutesAreWhole`).
- `Keep = 1`, events `deploy`: a list cut before the active release publishes weights that do not
  add up to 100 (`RoutesAreWhole`).
- `Keep = 2`, four releases, events `deploy`, `age`: each deployment that overtakes another one
  moves the active release further down the list, until it is cut and deleted with all of its
  traffic (`ActiveIsKept`).
- Events `fail`: the increment counts from the saved share, not the published one. After a pass that failed
  between saving and publishing, one publication raises a weight by two increments (`RampIsBounded`).
- Three releases, `deploy`: a release that loses its part in a rollout is scaled down in the same
  pass that takes its traffic, and saved before the routes are (`ScaledDownWhenUnrouted`).
- Events `redeploy`, `age`: the deleted object of a re-created release stays in the list and, when
  it is old enough, is deleted by name at the end, which deletes the new one (`TargetIsKept`).
- Events `stick`: the recorded state `failed` never equals the state computed from the role, so the
  time of the last change restarts at each sync, and a failed release without a role may never be
  scaled down.
- Events `scale` without an autoscaler: the replica set of an active release that is also the target
  is left to the autoscaler, also when there is none, so a change of the scale never reaches its
  pods.

A fourth run, `dropped_targets_stay`, shows that a target taken from the cluster keeps its app target: the
pass that should delete it looks it up by the target's name (`app_controller.go:100`).

The other modules show, or made plain while they were written:

- Apps. Two apps may have one app target: that of `web` for `eu-prod` is that of `web-eu` for `prod`
  (`app_types.go:310`). Each pass of either overwrites it, with a new hash and new releases, and the
  event queues only its owner, which overwrites it again; the other app is never deployed there.
  When the owner is deleted the app target goes with it, and the other app is not queued.
- Apps. `kon app deploy`, `halt` and `cluster configure` write back a copy without its version and
  silently undo what was saved in between; only `kon app edit` is refused.
- Builds. Of two builds of the same second, each pass may take the label from the other, so that
  none is left with it, or both keep it.
- Configs. A shared config that an app names and that does not exist crashes the operator
  (`deployment_controller.go:224` returns nil without an error, and the config map is made from it),
  and each restart meets it again, so app targets queued behind it may wait for ever. An edited
  shared config queues no app target, and deleting the last config of an app changes nothing in its
  pods, although `website/docs/apps/configuration.md:7` says that any change to a config creates a
  new release. The config of app `web` for `production` and the base config of app `web-production`
  are one object (`appconfig_types.go:148`): saving one takes the other away. A shared config has
  the same object for all targets and the base: saving one replaces the others. An export into a
  directory that was used before leaves files of deleted configs, which an import brings back. Keys
  that give the same variable make the contents of a config map depend on the order of a map.
- Ingresses. An app target that comes back while what the old one owned is still being collected
  finds those objects and updates them; then they go. The loss of a service, virtual service or
  ingress request brings another pass, the loss of a destination rule, a monitor or a Prometheus
  rule does not (`deployment_controller.go:196-204`), so it stays away until something else queues
  the app target.
- Ingresses. A request that is deleted has the ingresses of all targets deleted whose protocol its
  own target does not use; they come back through the watch on ingresses. A request that moves to
  another protocol leaves its old ingress behind, and when it moves while its fellows are told the
  address, these may never hear of it. A renewed certificate queues only the oldest request of a
  target.
- Clusters. Resuming a creation after the cluster was selected and configured overwrites its
  configuration with one without targets. A node pool that failed is never made again, so that every
  resumption times out. After a select that failed on the way kubectl stays at one cluster and the
  client at another; `reinstall` then installs components into the first and records them in the
  second. When the selected cluster is destroyed elsewhere while a creation or `kon cluster list`
  runs, between the two times it lists the clusters, kubectl is left at the first one listed
  (`cluster.go:1004`) and the client at the one that is gone. When it was destroyed before,
  creations stop at the generation of kubectl's configuration until `kon cluster list` or `reset`.
  Untagging the subnets of a destroyed cluster reaches only the last (`eks.go:304`, a pointer to the
  loop variable). Once EKS has deleted a cluster of which Terraform left some roles, `destroy` does
  not find it any more.
- Accounts. Adding a target to a cluster that has linked accounts fails until the target has a
  namespace, which the operator makes only of targets that were added. A sync or deletion of an
  account that stops between cloud and cluster leaves a hash that says all is in sync. A destroy
  from a workstation whose kubectl does not know the cluster leaves its accounts' roles to the next
  cluster of that name.

## Proofs

TLC checks the instances above; the theorems below hold for every value of the constants: any
releases, apps, builds, clusters, targets and accounts, finitely or infinitely many, and any number
of edits, failures and passes. No theorem is proved by induction over data, and no operator of the
modules is recursive. The theorems, with the property of a run that each states:

| Module | Theorem | Property | Beyond the types of the constants |
| --- | --- | --- | --- |
| `RolloutProofs` | `TypeCorrectness` | `TypeOK` | |
| | `PlansShareTraffic` | `PlanSharesTraffic` | |
| | `RolesStayUnique` | `RolesAreUnique` | `NoFailures` |
| | `TargetsAreKept` | `TargetIsKept` | `NoRedeploys`, `NoRollbacks` |
| `RolloutRoutes` | `RoutesStayWhole` | `RoutesAreWhole` | `OnlyAdded` |
| | `RampStaysBounded` | `RampIsBounded` | `OnlyAdded` |
| | `ScalerWaitsForRoutes` | `ScalerRunsWhenRouted` | `OnlyAdded`, `Gradual` |
| | `RolloutSplitsTraffic` | `SplitsTraffic` | `OnlyAdded`, `Gradual` |
| `RolloutInstances` | `TargetsCarryTheirWeight` | `TargetCarriesItsWeight` | `Steady` |
| | `PromotionsAreRouted` | `PromotedWhenRouted` | `Steady` |
| | `ActivesCoverTheirWeight` | `ActiveCoversItsWeight` | `Steady`, `OneAtATime` |
| | `TrafficGoesToPods` | `SwitchesToPods` | `Steady`, `OneAtATime` |
| | `ScaledDownLast` | `ScaledDownWhenUnrouted` | `Steady`, `OneAtATime` |
| | `ActivesAreKept` | `ActiveIsKept` | `Collecting`, `OneAtATime` |
| `AppsProofs` | `AppsTypeCorrect` | `TypeOK` | |
| | `NewestKeepsTheLabel` | `NewestIsLatest` | `~SameSecond` |
| | `EditsAreNotLost` | `EditsSeeEachOther` | |
| | `HashesStay` | `HaltKeepsReleases` | |
| `ClustersProofs` | `ClustersTypeCorrect` | `TypeOK` | |
| | `KubectlStaysWithSelection` | `KubectlFollows` | |
| | `ActiveStaysWhole` | `ActiveIsWhole` | |
| | `CreationsStayResumable` | `CreationsCanBeResumed` | |
| | `DestroyTakesAll` | `DestroyLeavesNothing` | |
| | `TargetsStayLinked` | `TargetsAreLinked` | |
| `ConfigsProofs` | `ConfigsTypeCorrect` | `TypeOK` | |
| | `EditsStayInTheirTarget` | `EditsKeepToTheirTarget` | |
| | `ImportsRestore` | `ImportRestores` | |
| | `ImportsMakeOneRelease` | `ImportMakesOneRelease` | |
| `IngressesProofs` | `IngressesTypeCorrect` | `TypeOK` | |

`MapProofs` has the lemmas about partial functions that the proofs of `Apps`, `Clusters` and
`Configs` cite: what `With`, `Without` and `Over` keep of a type.

### Assumptions

The named assumptions `ReleasesAssumption`, `RolloutAssumption`, `AppsAssumption` and the like say
what the constants are: limits are natural numbers, an increment is a percentage, specs have their
type, the cluster that a model starts with has what a creation makes (`IsServing`). TLC evaluates
them on every run.

Some theorems of the rollout need more, because without it they are false of the code. Each
hypothesis names events that a model may include or leave out, and `Observations` tells what happens
with them:

- `NoFailures`: no pass breaks off. A failed pass leaves some releases saved and others not, so that
  two may be the target for a while, and its shares count for the next increment although they were
  never published.
- `NoRedeploys`: the app is not set back to earlier contents; a release is deleted to be made again otherwise.
- `NoRollbacks`: no release is marked as bad; a rolled-back release drops out of the plan at once.
- `NothingIsCut`: there are no more than `Keep` releases (10 in the code), so the list of a pass is
  never cut. The code that cuts it may cut the active one, when deployments overtake each other
  (`ActivesAreKept` shows that it does not otherwise).
- `OnlyAdded` is all four. `Gradual` adds that the app is not halted and has at least one instance:
  a halted app is not routed gradually, and an app without instances switches at once.
- `Steady` is both, and that the scale does not change, no pod is lost, and the scale's minimum is
  not above its maximum. Weights are planned from the pods of an earlier report, so a pod that is
  lost after it leaves a weight uncovered. A target asked for two instances gets all traffic with
  one pod once the scale is one; when it is two again, the next pass promotes it with that pod.
- `OneAtATime`: no app target gets a new release while a rollout is under way, which is when a
  release is the target, or is planned to be by the pass that runs. A newer deployment between full
  traffic and promotion gives all traffic back to a release that was scaled down
  (`active_scaled_down`); one in the middle of a rollout takes the instances of the old target
  before its weight.
- `Collecting` is for the deletion of old releases, so it lacks `NothingIsCut`: `NoFailures`,
  `NoRedeploys`, `NoRollbacks`, and at least two releases are kept. Halts, changes of the scale and
  lost pods are allowed, and names of deleted releases may come back.
- `~SameSecond`: creation times, which have seconds, tell builds apart.

Most hypotheses are met by the run of the property. `rollout_deploys` is an instance of `OnlyAdded`,
`rollout_instances` is one of `Steady` and `Gradual`, and its two releases cannot overtake one
another, so that all of its behaviours satisfy `OneAtATime`. `rollout_recovers` is an instance of
what `TargetsAreKept` assumes. Two properties are checked where their theorem does not reach:
`rollout_deploys` has changes of the scale, which `PromotionsAreRouted` excludes, and deployments
that overtake another, which `ActivesAreKept` excludes. With one or two instances and three releases
both properties hold there all the same. What is not assumed away stays in the theorems: every
interleaving of passes, releases and timers, updates of a status that are delayed, halts, changes of
the scale and lost pods wherever neither `Gradual` nor `Steady` is named, and deployments that
overtake another one wherever `OneAtATime` is not.

### Rollout

`IInv` is `TypeOK`, that every list of releases has a newest and an oldest entry (`HasEnds`), that
the list in `job` is well formed, and `PlanSharesTraffic`. `HasEnds` is needed because the plan
chooses the newest and the oldest entry of parts of the list: `CHOOSE` says nothing unless there is
one, and with infinitely many names only the releases created so far have one. Two lemmas keep it
(`EndsOfPart`, `EndsOfMore`): it passes to every part, and to a list with one more entry.
`RolesOfView`, `ShareOfView`, `InstancesOfView` and `PlanOfView` show of one plan what
`deployReleases` computes; `ViewIsView` and `ReportOfView` that what a pass reads is such a list;
then each action keeps `IInv` (`StartPassIInv` to `UsersIInv`), joined in `StepIInv` and
`Invariance`.

The second half of `RolloutProofs` relates the plan in memory to the saved releases. `RolesInv`: the
list of a pass has unique roles, and every release is as the list has it, or still to be saved, or
was marked as bad meanwhile. Without the last two, uniqueness would have to survive a half-saved
plan, which is not an invariant. `OrderInv`: without redeployments the current contents are the
newest release or one about to be created, so a pass lists the releases with at most one more, in
the order of their creation. `TargetInv`: without rollbacks the target is the newest, which the
collection never takes.

`RolloutRoutes` adds what is published. Between passes the older of the two releases that share the
traffic is active, and the routes are the saved shares (`BetweenPasses`); during a pass the routes
are still those of the releases it read, and the plan is one step ahead of them (`DuringPass`,
`OneStepAhead`): this is what makes a weight safe to publish although it was planned from saved
shares, and it has to be stated of the plan at each of its steps, not of the routes. `RoutesInv` is
these, with the autoscaler's part where the rollout is gradual.

`RolloutSplitsTraffic` is the refinement of `TrafficSplit` under the mapping of `RolloutRefinement`:
the initial states are its initial states, a publication is a step of it (a first release, an
increment, or the stable release replaced), and every other action leaves the weights and the stable
release as they are. Its fairness is not part of `SplitsTraffic`; that rollouts finish is
`RolloutCompletes`, which TLC checks.

`RolloutInstances` follows weights through the replica sets. What a pass knows of pods is the status
that another controller wrote earlier, so the property at the moment of publication is not
inductive. `InstancesInv` is what makes the earlier report good enough: a release on its way up
(`NewestRises`, and `PlanRises` of a plan in memory) never has more pods than it is asked for, so
none of the pods that a plan counted is stopped before the plan is published; a pass may ask for
fewer only of others. Its last parts say what the plan of a promotion rests on, and that the
autoscaler touches only the active release. `CoverInv` adds the release that gives its traffic away:
what it is asked for covers the weight in the routes, in the saved specs (`ActiveCoversItsWeight`)
and after each partial save of a plan (`PlanCovers`), and the others have no weight. It needs that
only the newest release is a target (`NewestIsTarget`), which is where `OneAtATime` enters: a
release that no pass has seen yet means that no rollout is under way (`CreatesAfterRollout`). The
lemmas on shares (`ShareIsCovered`, `CoveredIsShared`, `ActiveInstancesGrow`) are the arithmetic: a
share of the available instances is covered by them, and rounding up never calls for fewer instances
when there is more traffic.

`KeepInv` is about the list of a pass being cut. `ActiveThenTarget` says that only a target is newer
than the active release, so the active one is among the newest two of any list. To carry it through
a pass, it says of each moment which releases are saved as planned, and that those to be deleted are
not active. One case was found by TLC before the proof: a name is free as soon as its release was
collected, and can be deployed again while the pass that collected it has yet to write its status.

### Apps and builds

`BuildsInv` is the types and that the cache, the events on their way to it and the pass know only
builds that exist. `LatestInv`: a pass under way takes the label only from builds that are not the
newest, whatever its outdated copies say. This is the strengthening that makes the label safe, and
it holds of the build that is the newest now because creation times only grow. `AppTargetsInv`: each
app target has the name and hash of its contents. `HashesStay` assumes nothing of names: a hash that
changes without build or settings belongs to another app and target, whose name is the same
(`Shared`). `CommandsInv`: the version that an edit read is never given again, so that an equal
version means the same app (`EditsAreNotLost`).

### Clusters

The command in hand is most of the state: `TypeInv` adds to the types what a command has where it
uses it (`HasCluster`, `HasPool`, `HasAccount`). Two facts about every step carry the other proofs:
how a command moves from one of its steps to the next (`Moves`, shown in `MovesAre`), and what it
keeps of what it has in hand (`GoesOn`, shown in `JobChange`). Further lemmas say which group of
actions changes which part of the state, so that each invariant is proved against a few kinds of
steps, not all fifty.

- `KnownInv`: where a command relies on what the client listed, it still holds, although clusters
  may go meanwhile. All clusters that exist are known when a creation asks what to make, since only
  commands create; and a select that has connected has kubectl at its cluster.
  `KubectlStaysWithSelection` leaves open only the cluster that is gone when the configuration is
  written.
- `ProgressInv`: at each step of a creation everything that the steps before it make is there, also
  when it was resumed and skipped what existed. `ActiveIsWhole` follows at `Activate`.
- `ResumeInv`: from the prompts to the end the files name the cluster and pool of the creation under
  way, and where they do not, nothing is unfinished (`Clean`). Without `Clean`, a new creation could
  overwrite the files of an interrupted one.
- `EmptiedInv`: while accounts are unlinked, the roles that remain are those still to do; before the
  stack goes there are no pools.
- `HandInv`, `TodoInv`, `LinkInv`: each account that says it is in sync is linked in the targets it
  was synced with, except the one in a command's hand; these are all targets of the cluster, except
  while a command changes the targets, which saves them only once each account that is not to do any
  more has them.

### Configs

`TypeInv` is `TypeOK` with the sets that the values are in. `EditsStayInTheirTarget` rests on one
fact of it: an object is named after its own label (`ConfigsTyped`), so that the object an edit
overwrites is none that another target's config is found by, unless the words of the two names are
the same (`SharesName`); among the targets of one app they never are. It would fail if names left
out the target, as those of shared configs do.

`RestoreInv`: the files have what was exported last, and perhaps more; a cluster that was only
imported to has nothing but what is in the files, and an object for each file that the import has
done. `ImportRestores` speaks of finished imports only and is not inductive. An export of a
half-imported cluster is the step to think about: it must leave the files as they are
(`ExportKeepsFiles`).

`OneReleaseInv`: once there are app targets all configs were imported, the pass in hand has the
configs as they are now, and the one release of an app target has a config map that a pass would
make of them again. That importing again changes nothing is `ImportedAgain`; that there is only one
such config map is `OneMade`. `OneFileEach` and `~Clashes` are hypotheses of the property, not
additions of the theorem: two files of one shared config overwrite each other's object, and keys
that give the same variable give either value. Both occur in the run.

### Ingresses

`TypeInv` is `TypeOK`, that each orphan is an object of some app target, that requests, ingresses
and the pass are records of their fields, and that any set of requests has a youngest one
(`HasYoungest`): a new request is younger than all others, which says nothing of infinitely many
without it. That HTTP is redirected only where there is a certificate (`IngressTyped`) is decided
when an ingress is written, from certificates and requests of which the latter may be outdated, and
nothing but the next writing changes it. The other properties of `Ingresses` are about liveness.

### Only model-checked

- Liveness, which is out of the prover's reach: `RolloutCompletes`, `OneBuildIsLatest`,
  `AppTargetsFollow`, `DeletedAppsGo`, `ConfigsReach`, `IngressesCome`, `UnusedIngressesGo`,
  `RenewalsArePickedUp`, `ObjectsFollow`, `CreationsComplete`.
- `PromotedWhenRouted` with changes of the scale, and `ActiveIsKept` when deployments overtake each
  other: both hold in `rollout_deploys`, and fail in larger instances: with three edits (see
  `Steady`), and with four releases and `Keep = 2`.

## Not modelled

For good:

- prices, pages, quotas and permissions of AWS calls, prompts, tables, port forwarding, downloads,
  installers of components: input and output without state of their own. They are seen as steps that
  succeed or break off;
- the node pool controller: it copies counts into a status;
- deep merges, retries and the worker pool of `pkg/utils`: library calls of the modelled components;
- CRD manifests, generated code, assets, the web site and test servers.

In `Rollout`: config maps, services and ingress requests, which are in `Configs` and `Ingresses`, do
not feed back into a rollout; a failure to write them is a `PassFails`. The pod template and all
contents of an app are abstracted to the name of its release. Names are not truncated or hashed.
Pages of the list (20 items) are one read. A release has one weight; the code repeats it in the
route of every port, which differs only when releases expose different ports. Deleting a release or
a replica set takes its pods at once. A pass sees all that the previous pass of the same controller
wrote: reads are as old as the pass, never older, so the lag of the operator's cache is covered only
as far as an interleaving with the other writers (`Builds` has the lag).

In `Apps`: `restart`, and changes of an app's image or registry. In `Configs`: the deletion of an
app's manifest, and roles of releases; the newest one is the one whose pods count. In `Ingresses`:
paths, ports and other annotations. In `Clusters`: other regions, networks and versions of the
client; statuses of objects in the cluster; the deletion of apps and ingresses at the start of a
destroy, with the load balancers that the operator may make again meanwhile; two commands at the
same time on one workstation. Subnet tags are all there, all but the last there ("last gone"), or
gone.
