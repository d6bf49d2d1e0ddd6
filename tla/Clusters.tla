------------------------------ MODULE Clusters ------------------------------
(***************************************************************************)
(* The life of clusters, as the commands of one workstation make it: a     *)
(* cluster is created step by step in the cloud, activated, selected,      *)
(* configured and destroyed.                                               *)
(*                                                                         *)
(* One command runs at a time.  It may break off after any step: a call    *)
(* fails, a wait times out, the user aborts or the process is killed.      *)
(* Clusters may be destroyed from elsewhere between any two of its steps.  *)
(* What it leaves is on the workstation (two files that let a creation be  *)
(* resumed, the client's configuration and kubectl's), in the cloud        *)
(* (network, cluster with its roles, node pools) and in the clusters       *)
(* themselves (module Accounts).                                           *)
(***************************************************************************)
EXTENDS Accounts, Functions

CONSTANTS
  ActiveAtFirst,  \* clusters that may be active and selected at first, a set of sets
  FirstInside,    \* what an active cluster may hold at first
  MaxCommands,    \* bound: commands other than resuming a creation
  MaxFaults       \* bound: commands that break off, and failing node pools

ASSUME ClustersAssumption ==
  /\ None \notin Cluster /\ MaxPools >= 1
  /\ ActiveAtFirst \subseteq SUBSET Cluster
  /\ \A k \in FirstInside : IsServing(k)
  /\ MaxCommands \in Nat /\ MaxFaults \in Nat

VARIABLES
  cloud,      \* of each cluster, what the cloud has of it: see Nothing
  vpc,        \* the network: none, or made
  files,      \* the state files: clusterconfig.yaml and nodepoolconfig.yaml
  conf,       \* the client's configuration: [selected, known]
  kube,       \* kubectl's configuration: [contexts, current]
  abandoned,  \* history: creations the user chose not to resume
  doomed,     \* history: clusters whose destruction began
  strayed,    \* history: clusters where the sync of an account broke off
  commands, faults

workstation == <<files, conf, kube>>
history == <<abandoned, doomed, strayed>>
bounds == <<commands, faults>>
vars == <<inside, roles, job, cloud, vpc, workstation, history, bounds>>

(* stack: how far terraform got: nothing, some of the roles, the EKS       *)
(* cluster, all of it.  thumb: the thumbprint of the OIDC provider.        *)
(* tagged: which subnets say that they are the cluster's.                  *)
Stages == <<"none", "roles", "eks", "made">>
Nothing ==
  [stack |-> "none", activated |-> FALSE, thumb |-> FALSE, tagged |-> "none", pools |-> << >>]
Whole(p) ==
  [stack |-> "made", activated |-> TRUE, thumb |-> TRUE, tagged |-> "all",
   pools |-> [q \in {p} |-> "ready"]]

Stage(c) == CHOOSE i \in DOMAIN Stages : Stages[i] = cloud[c].stack
Exists(c) == cloud[c].stack \in {"eks", "made"}
Statuses == {None, "unconfigured", "active"}

IsCommand(j) ==
  j \in [name : {j.name}, at : {j.at}, cluster : Cluster \cup {None}, pool : 0..MaxPools,
         targets : SUBSET Target, todo : SUBSET Account, account : Account \cup {None},
         policy : Policy \cup {None}]

NoFiles == [cluster |-> None, newVpc |-> FALSE, pool |-> 0]
Resumable == files.cluster # None /\ files.pool # 0

TypeOK ==
  /\ InsideTypeOK
  /\ DOMAIN cloud = Cluster
  /\ \A c \in Cluster :
       /\ cloud[c] \in [stack : Range(Stages), activated : BOOLEAN, thumb : BOOLEAN,
                        tagged : {"none", "last gone", "all"}, pools : {cloud[c].pools}]
       /\ IsPartial(cloud[c].pools, Pool, {"creating", "ready", "failed", "deleting"})
       /\ Exists(c) \/ (inside[c] = Empty /\ ~cloud[c].activated /\ cloud[c].pools = << >>)
  /\ vpc \in {"none", "made"}
  /\ files \in [cluster : Cluster \cup {None}, newVpc : BOOLEAN, pool : 0..MaxPools]
  /\ conf \in [selected : Cluster \cup {None}, known : [Cluster -> Statuses]]
  /\ kube \in [contexts : SUBSET Cluster, current : Cluster \cup {None}]
  /\ IsCommand(job)
  /\ abandoned \cup doomed \cup strayed \subseteq Cluster
  /\ commands \in Nat /\ faults \in Nat

Init ==
  /\ \E active \in ActiveAtFirst, k \in FirstInside, selected \in Cluster \cup {None} :
       /\ selected \in active \cup {None}
       /\ inside = [c \in Cluster |-> IF c \in active THEN k ELSE Empty]
       /\ roles = [c \in Cluster |-> IF c \in active
                     THEN [a \in DOMAIN k.accounts |-> k.accounts[a].spec] ELSE << >>]
       /\ cloud = [c \in Cluster |-> IF c \in active THEN Whole(1) ELSE Nothing]
       /\ vpc = IF active = {} THEN "none" ELSE "made"
       /\ conf = [selected |-> selected,
                  known |-> [c \in Cluster |-> IF c \in active THEN "active" ELSE None]]
       /\ kube = IF selected = None THEN [contexts |-> {}, current |-> None]
                 ELSE [contexts |-> active, current |-> selected]
  /\ job = Idle /\ files = NoFiles
  /\ abandoned = {} /\ doomed = {} /\ strayed = {} /\ commands = 0 /\ faults = 0

There == cloud[job.cluster]
InCloud(r) == cloud' = [cloud EXCEPT ![job.cluster] = r]

(* Nothing but these changes, and what is named first.                     *)
KeepsCluster == UNCHANGED <<inside, roles>>
KeepsCloud == UNCHANGED <<cloud, vpc>>

-----------------------------------------------------------------------------
(* What the client knows of clusters, and how it reaches them.             *)

(* ListClusters, with clusterFromEksCluster: one that is not activated is  *)
(* unconfigured.                                                           *)
Listed ==
  [c \in Cluster |-> IF ~Exists(c) THEN None
                     ELSE IF cloud[c].activated THEN "active" ELSE "unconfigured"]
Names == {c \in Cluster : Exists(c)}
KnownNames == {c \in Cluster : conf.known[c] # None}

(* GetAuthToken: as the admin role where the cluster is known as active,   *)
(* as the user who made it otherwise.                                      *)
Reachable(c) ==
  c \in kube.contexts /\ Exists(c) /\ (conf.known[c] = "active" => inside[c].admin)

(* getActiveCluster, and the ClusterConfig that its callers read.          *)
Usable(c) ==
  conf.selected = c /\ c \in KnownNames /\ Reachable(c) /\ inside[c].config

(* Mutant: the cluster that is listed first, whatever is selected.         *)
FirstListed(selected, current) ==
  IF Names = {} THEN current = None ELSE current = CHOOSE c \in Names : TRUE

(* generateKubeConfig: the selected cluster, or the first that is listed.  *)
Current(selected, current) ==
  IF selected \in Names THEN current = selected
  ELSE IF Names = {} THEN current = None ELSE current \in Names

GenerateKubeConfig(selected) ==
  /\ selected \in KnownNames \cup {None}
  /\ \E current \in Cluster \cup {None} :
       Current(selected, current) /\ kube' = [contexts |-> Names, current |-> current]

(* updateClusterLocations, where a command begins or before it goes on.    *)
Locate ==
  /\ job.at \in {"locate", "relocate"}
  /\ conf' = [conf EXCEPT !.known = Listed]
  /\ CASE job.name = "create" -> Goto(IF job.at = "locate" THEN "ask" ELSE "kubeconfig")
       [] job.name = "list" -> Goto("selection")
       [] OTHER -> IF Listed[job.cluster] = None THEN Ends
                   ELSE Goto(IF job.name = "select" THEN "kubeconfig" ELSE "deselect")
  /\ KeepsCluster /\ KeepsCloud /\ UNCHANGED <<files, kube, history, bounds>>

(* Clusters are listed again: one that was known before may be gone now.   *)
(* clusterSelect has selected the cluster in memory only.                  *)
WriteKubeConfig ==
  /\ Is({"create", "select", "list"}, "kubeconfig")
  /\ LET selected == IF job.name = "select" THEN job.cluster ELSE conf.selected
     IN  \/ /\ GenerateKubeConfig(selected)
            /\ CASE job.name = "create" -> Goto("crds")
                 [] job.name = "select" -> Goto("connect")
                 [] OTHER -> Ends
         \/ selected \notin KnownNames \cup {None} /\ Ends /\ UNCHANGED kube
  /\ KeepsCluster /\ KeepsCloud /\ UNCHANGED <<files, conf, history, bounds>>

(* clusterList: a selection that is gone is reset, missing contexts added. *)
ListClusters ==
  /\ Is({"list"}, "selection")
  /\ conf' = [conf EXCEPT !.selected = IF @ \in KnownNames THEN @ ELSE None]
  /\ Goto("contexts")
  /\ KeepsCluster /\ KeepsCloud /\ UNCHANGED <<files, kube, history, bounds>>

RefreshContexts ==
  /\ Is({"list"}, "contexts")
  /\ IF Names \subseteq kube.contexts THEN Ends ELSE Goto("kubeconfig")
  /\ KeepsCluster /\ KeepsCloud /\ UNCHANGED <<workstation, history, bounds>>

-----------------------------------------------------------------------------
(* cluster create: what to make.                                           *)

NextPools(c) ==
  LET free == Pool \ (DOMAIN cloud[c].pools \cup inside[c].pools)
  IN  {p \in free : \A q \in free : p <= q}

(* Mutant: goes on with the node pool where the cluster exists already.    *)
ResumeWherePossible ==
  /\ Is({"create"}, "ask") /\ Resumable
  /\ job' = [job EXCEPT !.at = IF Exists(files.cluster) THEN "pool" ELSE "vpc",
                        !.cluster = files.cluster, !.pool = files.pool]
  /\ KeepsCluster /\ KeepsCloud /\ UNCHANGED <<workstation, history, bounds>>

(* Everything is made again: each step accepts what is there.              *)
Resume ==
  /\ Is({"create"}, "ask") /\ Resumable
  /\ job' = [job EXCEPT !.at = "vpc", !.cluster = files.cluster, !.pool = files.pool]
  /\ KeepsCluster /\ KeepsCloud /\ UNCHANGED <<workstation, history, bounds>>

Decline ==
  /\ Is({"create"}, "ask") /\ Resumable
  /\ commands < MaxCommands /\ commands' = commands + 1
  /\ abandoned' = abandoned \cup {files.cluster}
  /\ Goto("prompt")
  /\ KeepsCluster /\ KeepsCloud /\ UNCHANGED <<workstation, doomed, strayed, faults>>

NothingToResume ==
  /\ Is({"create"}, "ask") /\ ~Resumable
  /\ Goto("prompt")
  /\ KeepsCluster /\ KeepsCloud /\ UNCHANGED <<workstation, history, bounds>>

(* CreateClusterConfig: a name in use ends the command.                    *)
PromptCluster ==
  /\ Is({"create"}, "prompt")
  /\ \E c \in Cluster :
       IF c \in KnownNames THEN Ends /\ UNCHANGED files
       ELSE /\ files' = [files EXCEPT !.cluster = c, !.newVpc = (vpc = "none")]
            /\ job' = [job EXCEPT !.at = "prompt pool", !.cluster = c]
  /\ KeepsCluster /\ KeepsCloud /\ UNCHANGED <<conf, kube, history, bounds>>

(* Mutant: the node pool's answers are not kept.                           *)
PromptPoolUnsaved ==
  /\ Is({"create"}, "prompt pool")
  /\ \E p \in NextPools(job.cluster) : job' = [job EXCEPT !.at = "vpc", !.pool = p]
  /\ abandoned' = abandoned \ {job.cluster} /\ doomed' = doomed \ {job.cluster}
  /\ strayed' = strayed \ {job.cluster}
  /\ KeepsCluster /\ KeepsCloud /\ UNCHANGED <<workstation, bounds>>

(* CreateNodepoolConfig.                                                   *)
PromptPool ==
  /\ Is({"create"}, "prompt pool")
  /\ \E p \in NextPools(job.cluster) :
       files' = [files EXCEPT !.pool = p] /\ job' = [job EXCEPT !.at = "vpc", !.pool = p]
  /\ abandoned' = abandoned \ {job.cluster} /\ doomed' = doomed \ {job.cluster}
  /\ strayed' = strayed \ {job.cluster}
  /\ KeepsCluster /\ KeepsCloud /\ UNCHANGED <<conf, kube, bounds>>

-----------------------------------------------------------------------------
(* cluster create: CreateCluster, CreateNodepool and ActivateCluster.      *)

MakeVpc ==
  /\ Is({"create"}, "vpc")
  /\ vpc' = IF files.newVpc THEN "made" ELSE vpc
  /\ Goto("stack")
  /\ KeepsCluster /\ UNCHANGED <<cloud, workstation, history, bounds>>

(* terraform apply, which needs subnets, and which may stop half way.      *)
MakeStack ==
  /\ Is({"create"}, "stack")
  /\ IF vpc = "made" THEN InCloud([There EXCEPT !.stack = "made"]) /\ Goto("tag")
     ELSE Ends /\ UNCHANGED cloud
  /\ KeepsCluster /\ UNCHANGED <<vpc, workstation, history, bounds>>

StackStops ==
  /\ Is({"create"}, "stack") /\ vpc = "made"
  /\ faults < MaxFaults /\ faults' = faults + 1
  /\ \E i \in Stage(job.cluster)..3 : InCloud([There EXCEPT !.stack = Stages[i]])
  /\ Ends
  /\ KeepsCluster /\ UNCHANGED <<vpc, workstation, history, commands>>

TagSubnets ==
  /\ Is({"create"}, "tag")
  /\ InCloud([There EXCEPT !.tagged = "all"]) /\ Goto("thumbprint")
  /\ KeepsCluster /\ UNCHANGED <<vpc, workstation, history, bounds>>

AddThumbprint ==
  /\ Is({"create"}, "thumbprint")
  /\ InCloud([There EXCEPT !.thumb = TRUE]) /\ Goto("pool")
  /\ KeepsCluster /\ UNCHANGED <<vpc, workstation, history, bounds>>

(* Mutant: a pool that is there already is an error.                       *)
CreatePool ==
  /\ Is({"create", "select", "nodepool"}, "pool")
  /\ IF job.pool \in DOMAIN There.pools THEN Ends /\ UNCHANGED cloud
     ELSE InCloud([There EXCEPT !.pools = With(@, job.pool, "creating")]) /\ Goto("wait")
  /\ KeepsCluster /\ UNCHANGED <<vpc, workstation, history, bounds>>

(* CreateNodepool: made only if the cloud does not know it.                *)
EnsurePool ==
  /\ Is({"create", "select", "nodepool"}, "pool")
  /\ IF job.pool \in DOMAIN There.pools THEN UNCHANGED cloud
     ELSE InCloud([There EXCEPT !.pools = With(@, job.pool, "creating")])
  /\ Goto("wait")
  /\ KeepsCluster /\ UNCHANGED <<vpc, workstation, history, bounds>>

(* A pool that failed does not become ready: the wait times out.           *)
WaitForPool ==
  /\ Is({"create", "select", "nodepool"}, "wait")
  /\ \/ /\ job.pool \in DOMAIN There.pools /\ There.pools[job.pool] = "ready"
        /\ CASE job.name = "create" -> Goto("relocate")
             [] job.name = "select" -> Goto("record")
             [] OTHER -> Ends
     \/ job.pool \in DOMAIN There.pools /\ There.pools[job.pool] = "failed" /\ Ends
     \/ job.pool \notin DOMAIN There.pools /\ Ends
  /\ KeepsCluster /\ KeepsCloud /\ UNCHANGED <<workstation, history, bounds>>

(* loadResourcesIntoKube.                                                  *)
LoadTypes ==
  /\ Is({"create", "reinstall"}, "crds")
  /\ IF Reachable(job.cluster)
     THEN Change([Here EXCEPT !.crds = TRUE])
          /\ Goto(IF job.name = "create" THEN "config" ELSE "install")
     ELSE Ends /\ UNCHANGED inside
  /\ KeepsCloud /\ UNCHANGED <<roles, workstation, history, bounds>>

(* The ClusterConfig of the file, which has no targets.                    *)
SaveConfig ==
  /\ Is({"create"}, "config")
  /\ Change([Here EXCEPT !.config = TRUE, !.targets = {}]) /\ Goto("record")
  /\ KeepsCloud /\ UNCHANGED <<roles, workstation, history, bounds>>

(* nodepool create records a pool before it makes it, cluster create and   *)
(* configureNodepool after.                                                *)
RecordPool ==
  /\ Is({"create", "select", "nodepool"}, "record")
  /\ Change([Here EXCEPT !.pools = @ \cup {job.pool}])
  /\ Goto(CASE job.name = "create" -> "admin" [] job.name = "select" -> "targets"
            [] OTHER -> "pool")
  /\ KeepsCloud /\ UNCHANGED <<roles, workstation, history, bounds>>

AddAdminRole ==
  /\ Is({"create"}, "admin")
  /\ Change([Here EXCEPT !.admin = TRUE]) /\ Goto("activate")
  /\ KeepsCloud /\ UNCHANGED <<roles, workstation, history, bounds>>

Activate ==
  /\ Is({"create"}, "activate")
  /\ InCloud([There EXCEPT !.activated = TRUE]) /\ Goto("remove cluster file")
  /\ KeepsCluster /\ UNCHANGED <<vpc, workstation, history, bounds>>

RemoveFiles ==
  /\ \/ /\ Is({"create"}, "remove cluster file")
        /\ files' = [NoFiles EXCEPT !.pool = files.pool] /\ Goto("remove pool file")
     \/ Is({"create"}, "remove pool file") /\ files' = NoFiles /\ Ends
  /\ KeepsCluster /\ KeepsCloud /\ UNCHANGED <<conf, kube, history, bounds>>

-----------------------------------------------------------------------------
(* cluster select.                                                         *)

(* Only persisted once connected.                                          *)
Connect ==
  /\ Is({"select"}, "connect")
  /\ IF Reachable(job.cluster) /\ Here.config
     THEN conf' = [conf EXCEPT !.selected = job.cluster] /\ Goto("pools")
     ELSE Ends /\ UNCHANGED conf
  /\ KeepsCluster /\ KeepsCloud /\ UNCHANGED <<files, kube, history, bounds>>

(* configureNodepool, where the cluster has no Nodepool object.            *)
ConfigureNodepool ==
  /\ Is({"select"}, "pools")
  /\ IF Here.pools # {} THEN Goto("targets")
     ELSE \E p \in NextPools(job.cluster) : job' = [job EXCEPT !.at = "pool", !.pool = p]
  /\ KeepsCluster /\ KeepsCloud /\ UNCHANGED <<workstation, history, bounds>>

(* configureCluster, where it has no targets.                              *)
ConfigureTargets ==
  /\ Is({"select"}, "targets")
  /\ IF Here.targets # {} THEN Goto("install")
     ELSE \E new \in SUBSET Target \ {{}} :
            job' = [job EXCEPT !.at = "accounts", !.targets = new, !.todo = DOMAIN Here.accounts]
  /\ KeepsCluster /\ KeepsCloud /\ UNCHANGED <<workstation, history, bounds>>

(* installComponents: kubectl applies them to its current context, and the *)
(* selected cluster records them at the end.                               *)
InstallComponents ==
  /\ \/ /\ Is({"select", "reinstall"}, "install")
        /\ \/ job.name = "select" /\ Here.installed /\ Ends /\ UNCHANGED inside
           \/ /\ job.name = "reinstall" \/ ~Here.installed
              /\ IF kube.current \in Names
                 THEN inside' = [inside EXCEPT ![kube.current].operator = TRUE]
                      /\ Goto("installed")
                 ELSE Ends /\ UNCHANGED inside
     \/ /\ Is({"select", "reinstall"}, "installed")
        /\ Change([Here EXCEPT !.installed = TRUE]) /\ Ends
  /\ KeepsCloud /\ UNCHANGED <<roles, workstation, history, bounds>>

-----------------------------------------------------------------------------
(* cluster destroy, and the destruction of a node pool and of a network.   *)

Deselect ==
  /\ Is({"destroy"}, "deselect")
  /\ conf' = [conf EXCEPT !.selected = IF @ = job.cluster THEN None ELSE @]
  /\ doomed' = doomed \cup {job.cluster}
  /\ Goto("empty")
  /\ KeepsCluster /\ KeepsCloud /\ UNCHANGED <<files, kube, abandoned, strayed, bounds>>

(* Mutant: the linked accounts are left to the cluster's end.              *)
EmptyWithoutAccounts ==
  /\ Is({"destroy"}, "empty")
  /\ IF Reachable(job.cluster) /\ ~Here.crds THEN Ends ELSE Goto("untag")
  /\ KeepsCluster /\ KeepsCloud /\ UNCHANGED <<workstation, history, bounds>>

(* Apps cannot be listed where their type is unknown; a cluster that       *)
(* kubectl does not reach is not emptied.                                  *)
EmptyCluster ==
  /\ Is({"destroy"}, "empty")
  /\ IF ~Reachable(job.cluster) THEN Goto("untag")
     ELSE IF ~Here.crds THEN Ends
     ELSE job' = [job EXCEPT !.at = "unlink", !.todo = DOMAIN Here.accounts]
  /\ KeepsCluster /\ KeepsCloud /\ UNCHANGED <<workstation, history, bounds>>

(* Errors are ignored.                                                     *)
UnlinkAccounts ==
  /\ Is({"destroy"}, "unlink")
  /\ \/ job.todo = {} /\ Goto("untag") /\ KeepsCluster /\ UNCHANGED <<strayed, faults>>
     \/ \E a \in job.todo :
          /\ job' = [job EXCEPT !.todo = @ \ {a}]
          /\ \/ /\ roles' = [roles EXCEPT ![job.cluster] = Without(@, {a})]
                /\ Change([Here EXCEPT !.linked = @ \ (Target \X {a})])
                /\ UNCHANGED <<strayed, faults>>
             \/ /\ faults < MaxFaults /\ faults' = faults + 1
                /\ strayed' = strayed \cup {job.cluster}
                /\ KeepsCluster
  /\ KeepsCloud /\ UNCHANGED <<workstation, abandoned, doomed, commands>>

(* All pointers are to one loop variable: the last subnet is untagged.     *)
UntagSubnets ==
  /\ Is({"destroy"}, "untag")
  /\ IF Reachable(job.cluster) /\ Here.config /\ There.tagged = "all"
     THEN InCloud([There EXCEPT !.tagged = "last gone"]) ELSE UNCHANGED cloud
  /\ Goto("pools")
  /\ KeepsCluster /\ UNCHANGED <<vpc, workstation, history, bounds>>

(* DeleteNodepool waits until the cloud does not list the pool.            *)
DeletePool ==
  /\ \/ /\ Is({"destroy"}, "pools")
        /\ IF There.pools = << >> THEN Goto("stack") /\ UNCHANGED cloud
           ELSE \E p \in DOMAIN There.pools :
                  /\ InCloud([There EXCEPT !.pools = With(@, p, "deleting")])
                  /\ job' = [job EXCEPT !.at = "gone", !.pool = p]
     \/ /\ Is({"drop pool"}, "pools")
        /\ IF job.pool \notin DOMAIN There.pools THEN UNCHANGED cloud
           ELSE InCloud([There EXCEPT !.pools = With(@, job.pool, "deleting")])
        /\ Goto("gone")
     \/ /\ Is({"destroy", "drop pool"}, "gone") /\ job.pool \notin DOMAIN There.pools
        /\ Goto(IF job.name = "destroy" THEN "pools" ELSE "forget")
        /\ UNCHANGED cloud
  /\ KeepsCluster /\ UNCHANGED <<vpc, workstation, history, bounds>>

ForgetPool ==
  /\ Is({"drop pool"}, "forget")
  /\ Change([Here EXCEPT !.pools = @ \ {job.pool}]) /\ Ends
  /\ KeepsCloud /\ UNCHANGED <<roles, workstation, history, bounds>>

(* What is left when terraform has destroyed down to a stage.              *)
Demolish(stage) ==
  IF stage = 3 THEN InCloud([There EXCEPT !.stack = Stages[stage]]) /\ UNCHANGED inside
  ELSE /\ cloud' = [cloud EXCEPT ![job.cluster] =
                      [Nothing EXCEPT !.stack = Stages[stage], !.tagged = There.tagged]]
       /\ Change(Empty)

DestroyStack ==
  /\ Is({"destroy"}, "stack")
  /\ Demolish(1) /\ Ends
  /\ UNCHANGED <<roles, vpc, workstation, history, bounds>>

DestroyStops ==
  /\ Is({"destroy"}, "stack")
  /\ faults < MaxFaults /\ faults' = faults + 1
  /\ \E stage \in 2..3 : Demolish(stage)
  /\ Ends
  /\ UNCHANGED <<roles, vpc, workstation, history, commands>>

(* A network that a cluster uses cannot be destroyed.                      *)
DestroyVpc ==
  /\ job = Idle /\ vpc = "made" /\ Names = {}
  /\ commands < MaxCommands /\ commands' = commands + 1
  /\ vpc' = "none"
  /\ cloud' = [c \in Cluster |-> [cloud[c] EXCEPT !.tagged = "none"]]
  /\ KeepsCluster /\ UNCHANGED <<job, workstation, history, faults>>

(* A command that runs has not begun to change this cluster.               *)
Untouched(c) ==
  \/ job.cluster # c
  \/ job.name \in {"select", "destroy"} /\ job.at \in {"locate", "kubeconfig", "connect"}

(* The owner of another workstation destroys a cluster, at any time but    *)
(* while a command of this one works in it.                                *)
DestroyElsewhere ==
  /\ commands < MaxCommands /\ commands' = commands + 1
  /\ \E c \in Names :
       /\ Untouched(c)
       /\ cloud' = [cloud EXCEPT ![c] = [Nothing EXCEPT !.tagged = cloud[c].tagged]]
       /\ inside' = [inside EXCEPT ![c] = Empty]
       /\ roles' = [roles EXCEPT ![c] = << >>]
  /\ UNCHANGED <<job, vpc, workstation, history, faults>>

-----------------------------------------------------------------------------
(* The commands.                                                           *)

Starts(j) ==
  /\ job = Idle /\ job' = j
  /\ KeepsCluster /\ KeepsCloud /\ UNCHANGED <<workstation, history, faults>>
Charged == commands < MaxCommands /\ commands' = commands + 1

Task(name, at, c) == [Idle EXCEPT !.name = name, !.at = at, !.cluster = c]

StartCreate ==
  /\ Starts(Task("create", "locate", None))
  /\ IF Resumable THEN UNCHANGED commands ELSE Charged

StartList == Starts(Task("list", "locate", None)) /\ Charged

StartSelect == \E c \in Cluster : Starts(Task("select", "locate", c)) /\ Charged

StartDestroy == \E c \in Cluster : Starts(Task("destroy", "locate", c)) /\ Charged

Reset ==
  /\ job = Idle /\ conf.selected # None /\ Charged
  /\ conf' = [conf EXCEPT !.selected = None]
  /\ KeepsCluster /\ KeepsCloud /\ UNCHANGED <<job, files, kube, history, faults>>

StartReinstall ==
  \E c \in Cluster : Usable(c) /\ Starts(Task("reinstall", "crds", c)) /\ Charged

StartNodepool ==
  \E c \in Cluster : Usable(c) /\ Charged /\
    \/ \E p \in NextPools(c) : Starts([Task("nodepool", "record", c) EXCEPT !.pool = p])
    \/ \E p \in inside[c].pools : Starts([Task("drop pool", "pools", c) EXCEPT !.pool = p])

(* accountEdit and accountDelete.                                          *)
StartAccount ==
  \E c \in Cluster : Usable(c) /\ Charged /\
    \/ \E a \in Account, p \in Policy :
         Starts([Task("account", "accounts", c) EXCEPT
                   !.todo = {a}, !.policy = p, !.targets = inside[c].targets])
    \/ \E a \in DOMAIN inside[c].accounts :
         Starts([Task("unlink", "role", c) EXCEPT !.account = a])

(* One target is added or removed.                                         *)
StartConfigure ==
  \E c \in Cluster : Usable(c) /\ Charged /\
    \E t \in Target :
      Starts([Task("configure", "accounts", c) EXCEPT
                !.todo = DOMAIN inside[c].accounts,
                !.targets = IF t \in inside[c].targets THEN inside[c].targets \ {t}
                            ELSE inside[c].targets \cup {t}])

(* Files of another cluster, which had targets of its own.                 *)
StartImport ==
  \E c \in Cluster : Usable(c) /\ Charged /\
    \E a \in Account, p \in Policy, targets \in SUBSET Target :
      Starts([Task("import", "files", c) EXCEPT !.todo = {a}, !.policy = p, !.targets = targets])

(* A call fails, a prompt is aborted, a wait times out, the process dies.  *)
BreakOff ==
  /\ job # Idle /\ Ends
  /\ faults < MaxFaults /\ faults' = faults + 1
  /\ strayed' = IF job.name \in Linking \cup {"unlink"} THEN strayed \cup {job.cluster} ELSE strayed
  /\ KeepsCluster /\ KeepsCloud /\ UNCHANGED <<workstation, abandoned, doomed, commands>>

(* The cloud, with a node pool that was asked for or is to go.             *)
PoolSettles(c) ==
  /\ \E p \in DOMAIN cloud[c].pools :
       \/ /\ cloud[c].pools[p] = "creating"
          /\ cloud' = [cloud EXCEPT ![c].pools[p] = "ready"] /\ UNCHANGED faults
       \/ /\ cloud[c].pools[p] = "creating"
          /\ faults < MaxFaults /\ faults' = faults + 1
          /\ cloud' = [cloud EXCEPT ![c].pools[p] = "failed"]
       \/ /\ cloud[c].pools[p] = "deleting"
          /\ cloud' = [cloud EXCEPT ![c].pools = Without(@, {p})] /\ UNCHANGED faults
  /\ KeepsCluster /\ UNCHANGED <<job, vpc, workstation, history, commands>>

LinkAccounts == AccountSteps /\ KeepsCloud /\ UNCHANGED <<workstation, history, bounds>>
Operate(c) == EnsureNamespace(c) /\ KeepsCloud /\ UNCHANGED <<workstation, history, bounds>>

Goes ==
  \/ Locate \/ WriteKubeConfig \/ ListClusters \/ RefreshContexts
  \/ Resume \/ NothingToResume \/ PromptCluster \/ PromptPool
  \/ MakeVpc \/ MakeStack \/ TagSubnets \/ AddThumbprint \/ EnsurePool \/ WaitForPool
  \/ LoadTypes \/ SaveConfig \/ RecordPool \/ AddAdminRole \/ Activate \/ RemoveFiles
  \/ Connect \/ ConfigureNodepool \/ ConfigureTargets \/ InstallComponents
  \/ Deselect \/ EmptyCluster \/ UnlinkAccounts \/ UntagSubnets \/ DeletePool \/ ForgetPool
  \/ DestroyStack \/ LinkAccounts

Next ==
  \/ Goes \/ Decline \/ StackStops \/ DestroyStops \/ BreakOff
  \/ StartCreate \/ StartList \/ StartSelect \/ StartDestroy \/ Reset \/ StartReinstall
  \/ StartNodepool \/ StartAccount \/ StartConfigure \/ StartImport
  \/ DestroyVpc \/ DestroyElsewhere
  \/ \E c \in Cluster : PoolSettles(c) \/ Operate(c)

Spec == Init /\ [][Next]_vars

(* Commands go on until they end or break off; a pool that was asked for   *)
(* comes or fails; a user resumes an interrupted creation as long as the   *)
(* client offers it.                                                       *)
FairSpec ==
  /\ Spec
  /\ WF_vars(Goes)
  /\ WF_vars(\E c \in Cluster : PoolSettles(c))
  /\ WF_vars(StartCreate /\ Resumable)

-----------------------------------------------------------------------------
(* What holds.                                                             *)

(* clusterCreate keeps two files "in case it wasn't completed": whatever   *)
(* the cloud has of a cluster that is not active, the files name it, with  *)
(* its node pool, unless the user declined to resume or destroys it.       *)
CreationsCanBeResumed ==
  \A c \in Cluster \ (abandoned \cup doomed) :
    cloud[c].stack # "none" /\ ~cloud[c].activated
      => files.cluster = c /\ files.pool # 0

(* A cluster is shown as active only once all that a creation makes is     *)
(* there, however often it was interrupted and resumed.                    *)
ActiveIsWhole ==
  \A c \in Cluster \ doomed :
    cloud[c].activated =>
      /\ cloud[c].stack = "made" /\ cloud[c].thumb /\ cloud[c].tagged = "all"
      /\ inside[c].admin /\ inside[c].crds /\ inside[c].config

(* kubectl and the client do not part: a cluster is selected only when     *)
(* kubectl's current context is its own, and kubectl's context leaves the  *)
(* selected cluster only by a select that is not yet done, or because that *)
(* cluster is gone when its configuration is written, perhaps since it was *)
(* looked for at the beginning of the command (cluster.go:991 and :1004).  *)
KubectlFollows ==
  [][LET was == conf.selected  is == conf'.selected
     IN  /\ is # was /\ is # None => kube'.current = is
         /\ kube' # kube /\ is # None /\ job.name # "select" =>
              kube'.current = is \/ is \notin Names]_vars

(* An interrupted creation that is resumed as long as the client offers it *)
(* ends with an active cluster, unless its node pool failed, its network   *)
(* was destroyed, the user gave it up, or the selected cluster is gone.    *)
CreationsComplete ==
  \A c \in Cluster :
    (files.cluster = c /\ cloud[c].stack # "none") ~>
      \/ cloud[c].activated \/ c \in abandoned \cup doomed
      \/ "failed" \in Range(cloud[c].pools)
      \/ vpc = "none" /\ ~files.newVpc
      \/ conf.selected \notin Names \cup {None}
      \/ cloud[c].stack = "none"

(* A destroy that ends well leaves no node pool, no selection and no role  *)
(* of an account that the cluster had, where kubectl reached the cluster   *)
(* and no error of a deletion was ignored.                                 *)
DestroyLeavesNothing ==
  [][\A c \in Cluster :
       job.name = "destroy" /\ job.cluster = c /\ Ends /\ Exists(c) /\ cloud'[c].stack = "none" =>
         /\ cloud[c].pools = << >> /\ conf.selected # c
         /\ Reachable(c) /\ c \notin strayed =>
              DOMAIN inside[c].accounts \cap DOMAIN roles[c] = {}]_vars

(* "update linked service accounts before saving targets": between two     *)
(* commands, an account that says it is synced is linked in every target   *)
(* the cluster has, also in one just added or imported.                    *)
TargetsAreLinked ==
  job = Idle =>
    \A c \in Cluster \ (strayed \cup doomed) : \A a \in DOMAIN inside[c].accounts :
      inside[c].accounts[a].hash # Unsynced =>
        \A t \in inside[c].targets : Linked(c, a, t)
=============================================================================
