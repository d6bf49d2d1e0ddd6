--------------------------- MODULE ClustersProofs ---------------------------
(***************************************************************************)
(* Proofs about Clusters: what the commands keep true of clusters, files   *)
(* and configurations, wherever they break off.                            *)
(***************************************************************************)
EXTENDS Clusters, MapProofs

USE AccountsAssumption, ClustersAssumption

-----------------------------------------------------------------------------
(* Types.                                                                  *)

PoolStates == {"creating", "ready", "failed", "deleting"}
Accounts == Partial(Account, AccountObject)
Roles == Partial(Account, AccountSpec)
Pools == Partial(Pool, PoolStates)

Holding ==
  {k \in [crds : BOOLEAN, config : BOOLEAN, targets : SUBSET Target, pools : SUBSET Pool,
          admin : BOOLEAN, installed : BOOLEAN, operator : BOOLEAN,
          namespaces : SUBSET Target, accounts : Accounts,
          made : SUBSET (Target \X Account), linked : SUBSET (Target \X Account)] :
     k.linked \subseteq k.made /\ k.made \subseteq k.namespaces \X Account}
Resources ==
  [stack : {"none", "roles", "eks", "made"}, activated : BOOLEAN, thumb : BOOLEAN,
   tagged : {"none", "last gone", "all"}, pools : Pools]
Files == [cluster : Cluster \cup {None}, newVpc : BOOLEAN, pool : 0..MaxPools]
Conf == [selected : Cluster \cup {None}, known : [Cluster -> Statuses]]
Kube == [contexts : SUBSET Cluster, current : Cluster \cup {None}]

WorkTyped == files \in Files /\ conf \in Conf /\ kube \in Kube /\ vpc \in {"none", "made"}
HistoryTyped == abandoned \in SUBSET Cluster /\ doomed \in SUBSET Cluster /\ strayed \in SUBSET Cluster
BoundsTyped == commands \in Nat /\ faults \in Nat
JobTyped == IsCommand(job)
InsideTyped == inside \in [Cluster -> Holding]
RolesTyped == roles \in [Cluster -> Roles]
CloudTyped == cloud \in [Cluster -> Resources]

(* There is nothing in a cluster that does not exist.                      *)
NoneIsEmpty ==
  \A c \in Cluster : Exists(c) \/ (inside[c] = Empty /\ ~cloud[c].activated /\ cloud[c].pools = << >>)

Typed ==
  /\ WorkTyped /\ HistoryTyped /\ BoundsTyped /\ JobTyped
  /\ InsideTyped /\ RolesTyped /\ CloudTyped /\ NoneIsEmpty

(* What a command has in hand where it uses it.                            *)
Creates(S) == job.name = "create" /\ job.at \in S
LinkSteps == {"make", "sync", "annotate", "save"}
Chosen ==
  {"vpc", "stack", "tag", "thumbprint", "pool", "wait", "relocate", "kubeconfig", "crds",
   "config", "record", "admin", "activate", "remove cluster file", "remove pool file"}
Stacked == Chosen \ {"vpc", "stack"}

(* Steps before which another workstation may destroy the cluster.         *)
Early == {"locate", "kubeconfig", "connect"}

HasCluster ==
  /\ job.name = None => job.at = None
  /\ job.name \notin {None, "create", "list"} =>
       job.cluster \in Cluster /\ (job.at \notin Early => Exists(job.cluster))
  /\ Creates({"prompt pool"} \cup Chosen) => job.cluster \in Cluster
  /\ Creates(Stacked) => There.stack = "made"
HasPool ==
  \/ Creates(Chosen)
  \/ job.name \in {"select", "nodepool"} /\ job.at \in {"pool", "wait", "record"}
  \/ job.name = "drop pool"
  => job.pool \in Pool
HasAccount ==
  /\ job.name \in {"account", "import"} => job.policy \in Policy
  /\ job.name = "select" /\ job.at \in Early \cup {"relocate"} => job.todo = {}
  /\ job.name \in {"configure", "select"} \/ (job.name = "import" /\ job.at # "files")
       => job.todo \subseteq DOMAIN Here.accounts
  /\ job.name \in Linking /\ job.at \in LinkSteps => job.account \in job.todo
  /\ job.name = "unlink" => job.account \in DOMAIN Here.accounts
  /\ job.name \in Linking /\ job.at \in {"sync", "annotate", "save"} =>
       job.targets \X {job.account} \subseteq Here.made

TypeInv == Typed /\ HasCluster /\ HasPool /\ HasAccount

-----------------------------------------------------------------------------
(* Which steps change what.                                                *)

Commanded ==
  \/ StartCreate \/ StartList \/ StartSelect \/ StartDestroy \/ Reset \/ StartReinstall
  \/ StartNodepool \/ StartAccount \/ StartConfigure \/ StartImport
Creating ==
  \/ Resume \/ NothingToResume \/ Decline \/ PromptCluster \/ PromptPool
  \/ MakeVpc \/ MakeStack \/ StackStops \/ TagSubnets \/ AddThumbprint \/ EnsurePool \/ WaitForPool
  \/ LoadTypes \/ SaveConfig \/ RecordPool \/ AddAdminRole \/ Activate \/ RemoveFiles
Selecting ==
  \/ Locate \/ WriteKubeConfig \/ ListClusters \/ RefreshContexts
  \/ Connect \/ ConfigureNodepool \/ ConfigureTargets \/ InstallComponents
Destroying ==
  \/ Deselect \/ EmptyCluster \/ UnlinkAccounts \/ UntagSubnets \/ DeletePool \/ ForgetPool
  \/ DestroyStack \/ DestroyStops \/ DestroyVpc \/ DestroyElsewhere \/ BreakOff

LEMMA NextIs ==
  ASSUME Next
  PROVE  \/ Commanded \/ Creating \/ Selecting \/ Destroying \/ LinkAccounts
         \/ \E c \in Cluster : PoolSettles(c) \/ Operate(c)
BY DEF Next, Goes, Commanded, Creating, Selecting, Destroying

LEMMA LinkingSteps ==
  ASSUME LinkAccounts
  PROVE  /\ AccountSteps
         /\ UNCHANGED <<cloud, vpc, files, conf, kube, abandoned, doomed, strayed, commands, faults>>
BY DEF LinkAccounts, KeepsCloud, workstation, history, bounds

(* The workstation, and the network.                                       *)
WorkChanges ==
  \/ Locate \/ WriteKubeConfig \/ ListClusters \/ RefreshContexts \/ PromptCluster \/ PromptPool
  \/ MakeVpc \/ RemoveFiles \/ Connect \/ Deselect \/ Reset \/ DestroyVpc

LEMMA WorkFrame ==
  ASSUME Next
  PROVE  UNCHANGED <<files, conf, kube, vpc>> \/ WorkChanges
<1> DEFINE Same == UNCHANGED <<files, conf, kube, vpc>> \/ WorkChanges
<1>1. CASE Commanded
  BY <1>1 DEF Commanded, WorkChanges, StartCreate, StartList, StartSelect, StartDestroy,
     StartReinstall,
     StartNodepool, StartAccount, StartConfigure, StartImport, Starts, KeepsCloud, workstation
<1>2. CASE Creating
  BY <1>2 DEF Creating, WorkChanges, Resume, NothingToResume, Decline, MakeStack, StackStops,
     TagSubnets,
     AddThumbprint, EnsurePool, WaitForPool, LoadTypes, SaveConfig, RecordPool, AddAdminRole,
     Activate,
     KeepsCloud, workstation
<1>3. CASE Selecting
  BY <1>3 DEF Selecting, WorkChanges, ConfigureNodepool, ConfigureTargets, InstallComponents,
     KeepsCloud, workstation
<1>4. CASE Destroying
  BY <1>4 DEF Destroying, WorkChanges, EmptyCluster, UnlinkAccounts, UntagSubnets, DeletePool,
     ForgetPool,
     DestroyStack, DestroyStops, DestroyElsewhere, BreakOff, KeepsCloud, workstation
<1>5. CASE LinkAccounts
  BY <1>5, LinkingSteps
<1>6. ASSUME NEW c \in Cluster, PoolSettles(c) \/ Operate(c) PROVE Same
  BY <1>6 DEF PoolSettles, Operate, KeepsCloud, workstation
<1> QED BY <1>1, <1>2, <1>3, <1>4, <1>5, <1>6, NextIs

(* The cloud.                                                              *)
CloudChanges ==
  \/ MakeStack \/ StackStops \/ TagSubnets \/ AddThumbprint \/ EnsurePool \/ Activate
  \/ UntagSubnets \/ DeletePool \/ DestroyStack \/ DestroyStops \/ DestroyVpc \/ DestroyElsewhere
  \/ \E c \in Cluster : PoolSettles(c)

LEMMA CloudFrame ==
  ASSUME Next
  PROVE  UNCHANGED cloud \/ CloudChanges
<1> DEFINE Same == UNCHANGED cloud \/ CloudChanges
<1>1. CASE Commanded
  BY <1>1 DEF Commanded, StartCreate, StartList, StartSelect, StartDestroy, Reset, StartReinstall,
     StartNodepool, StartAccount, StartConfigure, StartImport, Starts, KeepsCloud
<1>2. CASE Creating
  BY <1>2 DEF Creating, CloudChanges, Resume, NothingToResume, Decline, PromptCluster, PromptPool,
     MakeVpc, WaitForPool, LoadTypes, SaveConfig, RecordPool, AddAdminRole, RemoveFiles, KeepsCloud
<1>3. CASE Selecting
  BY <1>3 DEF Selecting, CloudChanges, Locate, WriteKubeConfig, ListClusters, RefreshContexts,
     Connect, ConfigureNodepool, ConfigureTargets, InstallComponents, KeepsCloud
<1>4. CASE Destroying
  BY <1>4 DEF Destroying, CloudChanges, Deselect, EmptyCluster, UnlinkAccounts, ForgetPool,
     BreakOff, KeepsCloud
<1>5. CASE LinkAccounts
  BY <1>5, LinkingSteps
<1>6. ASSUME NEW c \in Cluster, PoolSettles(c) \/ Operate(c) PROVE Same
  BY <1>6 DEF CloudChanges, Operate, KeepsCloud
<1> QED BY <1>1, <1>2, <1>3, <1>4, <1>5, <1>6, NextIs

(* What is in clusters.                                                    *)
InsideChanges ==
  \/ LoadTypes \/ SaveConfig \/ RecordPool \/ AddAdminRole \/ InstallComponents
  \/ UnlinkAccounts \/ ForgetPool \/ DestroyStack \/ DestroyStops \/ DestroyElsewhere
  \/ LinkAccounts
  \/ \E c \in Cluster : Operate(c)

LEMMA InsideFrame ==
  ASSUME Next
  PROVE  UNCHANGED <<inside, roles>> \/ InsideChanges
<1> DEFINE Same == UNCHANGED <<inside, roles>> \/ InsideChanges
<1>1. CASE Commanded
  BY <1>1 DEF Commanded, StartCreate, StartList, StartSelect, StartDestroy, Reset, StartReinstall,
     StartNodepool, StartAccount, StartConfigure, StartImport, Starts, KeepsCluster
<1>2. CASE Creating
  BY <1>2 DEF Creating, InsideChanges, Resume, NothingToResume, Decline, PromptCluster, PromptPool,
     MakeVpc, MakeStack, StackStops, TagSubnets, AddThumbprint, EnsurePool, WaitForPool,
     Activate, RemoveFiles, KeepsCluster
<1>3. CASE Selecting
  BY <1>3 DEF Selecting, InsideChanges, Locate, WriteKubeConfig, ListClusters, RefreshContexts,
     Connect, ConfigureNodepool, ConfigureTargets, KeepsCluster
<1>4. CASE Destroying
  BY <1>4 DEF Destroying, InsideChanges, Deselect, EmptyCluster, UntagSubnets, DeletePool,
     DestroyVpc,
     BreakOff, KeepsCluster
<1>5. CASE LinkAccounts
  BY <1>5 DEF InsideChanges
<1>6. ASSUME NEW c \in Cluster, PoolSettles(c) \/ Operate(c) PROVE Same
  BY <1>6 DEF InsideChanges, PoolSettles, KeepsCluster
<1> QED BY <1>1, <1>2, <1>3, <1>4, <1>5, <1>6, NextIs

LEMMA WorkStaysTyped ==
  ASSUME Typed, HasCluster, Next
  PROVE  WorkTyped'
<1> USE DEF WorkTyped, Files, Conf, Kube
<1> /\ WorkTyped /\ JobTyped
  BY DEF Typed
<1>1. CASE UNCHANGED <<files, conf, kube, vpc>>
  BY <1>1
<1>2. CASE Locate
  <2>1. Listed \in [Cluster -> Statuses]
    BY DEF Listed, Statuses
  <2>2. conf' = [conf EXCEPT !.known = Listed] /\ UNCHANGED <<files, kube, vpc>>
    BY <1>2 DEF Locate, KeepsCloud
  <2> QED BY <2>1, <2>2
<1>g. ASSUME NEW selected, GenerateKubeConfig(selected) PROVE kube' \in Kube
  BY <1>g DEF GenerateKubeConfig, Names
<1>3. CASE WriteKubeConfig
  <2>1. (kube' = kube \/ \E selected : GenerateKubeConfig(selected)) /\ UNCHANGED <<files, conf, vpc>>
    BY <1>3 DEF WriteKubeConfig, KeepsCloud
  <2> QED BY <2>1, <1>g
<1>4. CASE ListClusters
  BY <1>4 DEF ListClusters, KeepsCloud
<1>5. CASE RefreshContexts
  BY <1>5 DEF RefreshContexts, KeepsCloud, workstation
<1>6. CASE PromptCluster
  <2>1. UNCHANGED <<conf, kube, vpc>>
    BY <1>6 DEF PromptCluster, KeepsCloud
  <2>2. files' = files \/ \E c \in Cluster : files' = [files EXCEPT !.cluster = c, !.newVpc = (vpc = "none")]
    BY <1>6 DEF PromptCluster
  <2>3. ASSUME NEW c \in Cluster, files' = [files EXCEPT !.cluster = c, !.newVpc = (vpc = "none")]
        PROVE  files' \in Files
    <3>1. (vpc = "none") \in BOOLEAN
      OBVIOUS
    <3> HIDE DEF Kube, Conf
    <3> QED BY <2>3, <3>1
  <2> QED BY <2>1, <2>2, <2>3
<1>7. CASE PromptPool
  <2>1. PICK p \in NextPools(job.cluster) : files' = [files EXCEPT !.pool = p]
    BY <1>7 DEF PromptPool
  <2>2. p \in 0..MaxPools
    BY DEF NextPools, Pool
  <2> QED BY <1>7, <2>1, <2>2 DEF PromptPool, KeepsCloud
<1>8. CASE MakeVpc
  BY <1>8 DEF MakeVpc, workstation
<1>9. CASE RemoveFiles
  <2>1. NoFiles \in Files
    BY DEF NoFiles
  <2>2. files' \in {[NoFiles EXCEPT !.pool = files.pool], NoFiles} /\ UNCHANGED <<conf, kube, vpc>>
    BY <1>9 DEF RemoveFiles, KeepsCloud
  <2> QED BY <2>1, <2>2
<1>10. CASE Connect
  <2>1. job.cluster \in Cluster \cup {None}
    BY DEF JobTyped, IsCommand
  <2> QED BY <1>10, <2>1 DEF Connect, KeepsCloud
<1>11. CASE Deselect
  BY <1>11 DEF Deselect, KeepsCloud
<1>12. CASE Reset
  BY <1>12 DEF Reset, KeepsCloud
<1>13. CASE DestroyVpc
  BY <1>13 DEF DestroyVpc, workstation
<1> QED BY <1>1, <1>2, <1>3, <1>4, <1>5, <1>6, <1>7, <1>8, <1>9, <1>10, <1>11, <1>12, <1>13,
           WorkFrame DEF WorkChanges

LEMMA InCloudIs ==
  ASSUME CloudTyped, job.cluster \in Cluster, NEW r \in Resources, InCloud(r)
  PROVE  /\ CloudTyped' /\ cloud'[job.cluster] = r
         /\ \A c \in Cluster \ {job.cluster} : cloud'[c] = cloud[c]
BY DEF CloudTyped, InCloud

LEMMA ChangeIs ==
  ASSUME InsideTyped, job.cluster \in Cluster, NEW k \in Holding, Change(k)
  PROVE  /\ InsideTyped' /\ inside'[job.cluster] = k
         /\ \A c \in Cluster \ {job.cluster} : inside'[c] = inside[c]
BY DEF InsideTyped, Change

LEMMA EmptyIsHolding == Empty \in Holding
<1>1. << >> \in Accounts
  BY EmptyIsPartial DEF Accounts
<1> QED BY <1>1 DEF Empty, Holding

LEMMA NothingIsResources == Nothing \in Resources
<1>1. << >> \in Pools
  BY EmptyIsPartial DEF Pools
<1> QED BY <1>1 DEF Nothing, Resources

(* What became of clusters, and the bounds.                                *)
HistoryChanges == Decline \/ PromptPool \/ Deselect \/ UnlinkAccounts \/ BreakOff

LEMMA HistoryFrame ==
  ASSUME Next
  PROVE  UNCHANGED <<abandoned, doomed, strayed>> \/ HistoryChanges
<1> DEFINE Same == UNCHANGED <<abandoned, doomed, strayed>> \/ HistoryChanges
<1>1. CASE Commanded
  BY <1>1 DEF Commanded, StartCreate, StartList, StartSelect, StartDestroy, Reset, StartReinstall,
     StartNodepool, StartAccount, StartConfigure, StartImport, Starts, history
<1>2. CASE Creating
  BY <1>2 DEF Creating, HistoryChanges, Resume, NothingToResume, PromptCluster,
     MakeVpc, MakeStack, StackStops, TagSubnets, AddThumbprint, EnsurePool, WaitForPool,
     LoadTypes, SaveConfig, RecordPool, AddAdminRole, Activate, RemoveFiles, history
<1>3. CASE Selecting
  BY <1>3 DEF Selecting, Locate, WriteKubeConfig, ListClusters, RefreshContexts,
     Connect, ConfigureNodepool, ConfigureTargets, InstallComponents, history
<1>4. CASE Destroying
  BY <1>4 DEF Destroying, HistoryChanges, EmptyCluster, UntagSubnets, DeletePool, ForgetPool,
     DestroyStack, DestroyStops, DestroyVpc, DestroyElsewhere, history
<1>5. CASE LinkAccounts
  BY <1>5, LinkingSteps
<1>6. ASSUME NEW c \in Cluster, PoolSettles(c) \/ Operate(c) PROVE Same
  BY <1>6 DEF PoolSettles, Operate, history
<1> QED BY <1>1, <1>2, <1>3, <1>4, <1>5, <1>6, NextIs

LEMMA HistoryStaysTyped ==
  ASSUME Typed, HasCluster, Next
  PROVE  HistoryTyped'
<1> USE DEF HistoryTyped
<1> HistoryTyped
  BY DEF Typed
<1>1. CASE UNCHANGED <<abandoned, doomed, strayed>>
  BY <1>1
<1>2. CASE Decline
  <2>1. files.cluster \in Cluster
    BY <1>2 DEF Decline, Resumable, Typed, WorkTyped, Files
  <2> QED BY <1>2, <2>1 DEF Decline
<1>3. CASE PromptPool
  BY <1>3 DEF PromptPool
<1>4. CASE Deselect
  <2>1. job.cluster \in Cluster
    BY <1>4 DEF Deselect, Is, HasCluster, None
  <2> QED BY <1>4, <2>1 DEF Deselect
<1>5. CASE UnlinkAccounts
  <2>1. job.cluster \in Cluster
    BY <1>5 DEF UnlinkAccounts, Is, HasCluster, None
  <2> QED BY <1>5, <2>1 DEF UnlinkAccounts
<1>6. CASE BreakOff
  <2>1. job.name \in Linking \cup {"unlink"} => job.cluster \in Cluster
    BY DEF HasCluster, Linking, None
  <2> QED BY <1>6, <2>1 DEF BreakOff
<1> QED BY <1>1, <1>2, <1>3, <1>4, <1>5, <1>6, HistoryFrame DEF HistoryChanges

LEMMA BoundsStayTyped ==
  ASSUME BoundsTyped, Next
  PROVE  BoundsTyped'
<1> DEFINE Counted == commands' \in {commands, commands + 1} /\ faults' \in {faults, faults + 1}
<1>1. CASE Commanded
  <2>1. Counted
    BY <1>1 DEF Commanded, StartCreate, StartList, StartSelect, StartDestroy, Reset, StartReinstall,
       StartNodepool, StartAccount, StartConfigure, StartImport, Starts, Charged
  <2> QED BY <2>1 DEF BoundsTyped
<1>2. CASE Creating
  <2>1. Counted
    BY <1>2 DEF Creating, Resume, NothingToResume, Decline, PromptCluster, PromptPool,
       MakeVpc, MakeStack, StackStops, TagSubnets, AddThumbprint, EnsurePool, WaitForPool,
       LoadTypes, SaveConfig, RecordPool, AddAdminRole, Activate, RemoveFiles, bounds
  <2> QED BY <2>1 DEF BoundsTyped
<1>3. CASE Selecting
  <2>1. Counted
    BY <1>3 DEF Selecting, Locate, WriteKubeConfig, ListClusters, RefreshContexts,
       Connect, ConfigureNodepool, ConfigureTargets, InstallComponents, bounds
  <2> QED BY <2>1 DEF BoundsTyped
<1>4. CASE Destroying
  <2>1. Counted
    BY <1>4 DEF Destroying, Deselect, EmptyCluster, UnlinkAccounts, UntagSubnets, DeletePool,
       ForgetPool,
       DestroyStack, DestroyStops, DestroyVpc, DestroyElsewhere, BreakOff, bounds
  <2> QED BY <2>1 DEF BoundsTyped
<1>5. CASE LinkAccounts
  BY <1>5, LinkingSteps DEF BoundsTyped
<1>6. ASSUME NEW c \in Cluster, PoolSettles(c) \/ Operate(c) PROVE BoundsTyped'
  <2>1. Counted
    BY <1>6 DEF PoolSettles, Operate, bounds
  <2> QED BY <2>1 DEF BoundsTyped
<1> QED BY <1>1, <1>2, <1>3, <1>4, <1>5, <1>6, NextIs

LEMMA IdleIsCommand == IsCommand(Idle)
BY DEF Idle, IsCommand

(* A command with one thing set anew.                                      *)
LEMMA CommandSet ==
  ASSUME NEW j, IsCommand(j)
  PROVE  /\ \A x : IsCommand([j EXCEPT !.name = x]) /\ IsCommand([j EXCEPT !.at = x])
         /\ \A x \in Cluster \cup {None} : IsCommand([j EXCEPT !.cluster = x])
         /\ \A x \in 0..MaxPools : IsCommand([j EXCEPT !.pool = x])
         /\ \A x \in SUBSET Target : IsCommand([j EXCEPT !.targets = x])
         /\ \A x \in SUBSET Account : IsCommand([j EXCEPT !.todo = x])
         /\ \A x \in Account : IsCommand([j EXCEPT !.account = x])
         /\ \A x \in Policy : IsCommand([j EXCEPT !.policy = x])
BY DEF IsCommand

(* A step that goes on, with a cluster, a pool or accounts in hand.        *)
LEMMA WithCluster ==
  ASSUME JobTyped, NEW at, NEW c, job' = [job EXCEPT !.at = at, !.cluster = c]
  PROVE  /\ job'.at = at /\ job'.cluster = c /\ UNCHANGED <<job.name, job.pool, job.account>>
         /\ UNCHANGED <<job.targets, job.policy, job.todo>>
BY DEF JobTyped, IsCommand

LEMMA WithPool ==
  ASSUME JobTyped, NEW at, NEW p, job' = [job EXCEPT !.at = at, !.pool = p]
  PROVE  /\ job'.at = at /\ job'.pool = p /\ UNCHANGED <<job.name, job.cluster, job.account>>
         /\ UNCHANGED <<job.targets, job.policy, job.todo>>
BY DEF JobTyped, IsCommand

LEMMA WithTodo ==
  ASSUME JobTyped, NEW at, NEW S, job' = [job EXCEPT !.at = at, !.todo = S]
  PROVE  /\ job'.at = at /\ job'.todo = S /\ UNCHANGED <<job.name, job.cluster, job.account>>
         /\ UNCHANGED <<job.targets, job.policy, job.pool>>
BY DEF JobTyped, IsCommand

LEMMA JobStaysTyped ==
  ASSUME Typed, HasCluster, HasPool, HasAccount, Next
  PROVE  JobTyped'
<1> SUFFICES IsCommand(job')
  BY DEF JobTyped, IsCommand
<1> USE DEF JobTyped
<1> /\ IsCommand(job) /\ CloudTyped /\ InsideTyped
  BY DEF Typed
<1>i. Ends => IsCommand(job')
  BY IdleIsCommand DEF Ends
<1>g. ASSUME NEW at, Goto(at) PROVE IsCommand(job')
  BY <1>g, CommandSet DEF Goto
<1>d. job.todo \in SUBSET Account
  BY DEF IsCommand
<1>t. ASSUME NEW name, NEW at, NEW c \in Cluster \cup {None}
      PROVE  IsCommand(Task(name, at, c))
  BY IdleIsCommand, CommandSet DEF Task
<1>p. \A c : \A p \in NextPools(c) : p \in 0..MaxPools
  BY DEF NextPools, Pool
<1>h. ASSUME NEW c \in Cluster
      PROVE  /\ DOMAIN inside[c].accounts \in SUBSET Account
             /\ \A a \in DOMAIN inside[c].accounts : a \in Account
             /\ inside[c].targets \in SUBSET Target
             /\ \A t \in Target : inside[c].targets \cup {t} \in SUBSET Target
             /\ \A t \in Target : inside[c].targets \ {t} \in SUBSET Target
             /\ \A p \in inside[c].pools : p \in 0..MaxPools
  BY PartialIs DEF InsideTyped, Holding, Accounts, Pool
<1>1. CASE Commanded
  <2>1. CASE StartCreate
    BY <2>1, <1>t DEF StartCreate, Starts
  <2>2. CASE StartList
    BY <2>2, <1>t DEF StartList, Starts
  <2>3. CASE StartSelect
    BY <2>3, <1>t DEF StartSelect, Starts
  <2>4. CASE StartDestroy
    BY <2>4, <1>t DEF StartDestroy, Starts
  <2>5. CASE Reset
    BY <2>5 DEF Reset
  <2>6. CASE StartReinstall
    BY <2>6, <1>t DEF StartReinstall, Starts
  <2>7. CASE StartNodepool
    <3>1. \A c \in Cluster : IsCommand(Task("nodepool", "record", c)) /\ IsCommand(Task("drop pool", "pools", c))
      BY <1>t
    <3>2. PICK c \in Cluster, p \in 0..MaxPools :
            job' \in {[Task("nodepool", "record", c) EXCEPT !.pool = p],
                      [Task("drop pool", "pools", c) EXCEPT !.pool = p]}
      BY <2>7, <1>p, <1>h DEF StartNodepool, Starts
    <3>3. IsCommand([Task("nodepool", "record", c) EXCEPT !.pool = p])
      BY <3>1, CommandSet
    <3>4. IsCommand([Task("drop pool", "pools", c) EXCEPT !.pool = p])
      BY <3>1, CommandSet
    <3> QED BY <3>2, <3>3, <3>4
  <2>8. CASE StartAccount
    <3>1. \A c \in Cluster : IsCommand(Task("account", "accounts", c)) /\ IsCommand(Task("unlink", "role", c))
      BY <1>t
    <3>2. CASE \E c \in Cluster : \E a \in Account, p \in Policy :
                 Starts([Task("account", "accounts", c) EXCEPT
                           !.todo = {a}, !.policy = p, !.targets = inside[c].targets])
      <4>1. PICK c \in Cluster, a \in Account, p \in Policy :
              job' = [Task("account", "accounts", c) EXCEPT
                        !.todo = {a}, !.policy = p, !.targets = inside[c].targets]
        BY <3>2 DEF Starts
      <4>2. {a} \in SUBSET Account /\ inside[c].targets \in SUBSET Target
        BY <1>h
      <4> QED BY <4>1, <4>2, <3>1, CommandSet
    <3>3. CASE \E c \in Cluster : \E a \in DOMAIN inside[c].accounts :
                 Starts([Task("unlink", "role", c) EXCEPT !.account = a])
      <4>1. PICK c \in Cluster, a \in Account : job' = [Task("unlink", "role", c) EXCEPT !.account = a]
        BY <3>3, <1>h DEF Starts
      <4> QED BY <4>1, <3>1, CommandSet
    <3> QED BY <2>8, <3>2, <3>3 DEF StartAccount
  <2>9. CASE StartConfigure
    <3>1. \A c \in Cluster : IsCommand(Task("configure", "accounts", c))
      BY <1>t
    <3>2. PICK c \in Cluster, t \in Target :
            job' = [Task("configure", "accounts", c) EXCEPT
                      !.todo = DOMAIN inside[c].accounts,
                      !.targets = IF t \in inside[c].targets THEN inside[c].targets \ {t}
                                  ELSE inside[c].targets \cup {t}]
      BY <2>9 DEF StartConfigure, Starts
    <3>3. (IF t \in inside[c].targets THEN inside[c].targets \ {t} ELSE inside[c].targets \cup {t})
            \in SUBSET Target
      BY <1>h
    <3>4. DOMAIN inside[c].accounts \in SUBSET Account
      BY <1>h
    <3> QED BY <3>1, <3>2, <3>3, <3>4, CommandSet
  <2>10. CASE StartImport
    <3>1. \A c \in Cluster : IsCommand(Task("import", "files", c))
      BY <1>t
    <3>2. PICK c \in Cluster, a \in Account, p \in Policy, targets \in SUBSET Target :
            job' = [Task("import", "files", c) EXCEPT !.todo = {a}, !.policy = p, !.targets = targets]
      BY <2>10 DEF StartImport, Starts
    <3>3. {a} \in SUBSET Account
      OBVIOUS
    <3> QED BY <3>1, <3>2, <3>3, CommandSet
  <2> QED BY <1>1, <2>1, <2>2, <2>3, <2>4, <2>5, <2>6, <2>7, <2>8, <2>9, <2>10 DEF Commanded
<1>2. CASE Creating
  <2>1. CASE Resume
    <3>1. files.cluster \in Cluster /\ files.pool \in 0..MaxPools
      BY <2>1 DEF Resume, Resumable, Typed, WorkTyped, Files
    <3> QED BY <2>1, <3>1, CommandSet DEF Resume
  <2>p. CASE PromptCluster
    <3>1. Ends \/ \E c \in Cluster : job' = [job EXCEPT !.at = "prompt pool", !.cluster = c]
      BY <2>p DEF PromptCluster
    <3>2. CASE \E c \in Cluster : job' = [job EXCEPT !.at = "prompt pool", !.cluster = c]
      <4>1. IsCommand([job EXCEPT !.at = "prompt pool"])
        BY CommandSet
      <4>2. \A c \in Cluster : IsCommand([[job EXCEPT !.at = "prompt pool"] EXCEPT !.cluster = c])
        BY <4>1, CommandSet
      <4>3. PICK c \in Cluster : job' = [job EXCEPT !.at = "prompt pool", !.cluster = c]
        BY <3>2
      <4> QED BY <4>2, <4>3
    <3> QED BY <3>1, <3>2, <1>i
  <2>q. CASE PromptPool
    <3>1. PICK p \in 0..MaxPools : job' = [job EXCEPT !.at = "vpc", !.pool = p]
      BY <2>q, <1>p DEF PromptPool
    <3> QED BY <3>1, CommandSet
  <2>2. CASE \/ NothingToResume \/ Decline \/ MakeVpc \/ MakeStack \/ StackStops \/ TagSubnets
             \/ AddThumbprint \/ EnsurePool \/ WaitForPool
    BY <2>2, <1>g, <1>i DEF NothingToResume, Decline, MakeVpc, MakeStack, StackStops, TagSubnets,
       AddThumbprint, EnsurePool, WaitForPool
  <2>3. CASE LoadTypes \/ SaveConfig \/ RecordPool \/ AddAdminRole \/ Activate \/ RemoveFiles
    BY <2>3, <1>g, <1>i DEF LoadTypes, SaveConfig, RecordPool, AddAdminRole, Activate, RemoveFiles
  <2> QED BY <1>2, <2>1, <2>p, <2>q, <2>2, <2>3 DEF Creating
<1>3. CASE Selecting
  <2>1. CASE \/ Locate \/ WriteKubeConfig \/ ListClusters \/ RefreshContexts \/ Connect \/ InstallComponents
    BY <2>1, <1>g, <1>i DEF Locate, WriteKubeConfig, ListClusters, RefreshContexts, Connect,
       InstallComponents
  <2>2. CASE ConfigureNodepool
    <3>1. CASE Goto("targets")
      BY <3>1, <1>g
    <3>2. ASSUME NEW p \in NextPools(job.cluster), job' = [job EXCEPT !.at = "pool", !.pool = p]
          PROVE  IsCommand(job')
      BY <3>2, <1>p DEF IsCommand
    <3> QED BY <2>2, <3>1, <3>2 DEF ConfigureNodepool
  <2>3. CASE ConfigureTargets
    <3>1. job.cluster \in Cluster
      BY <2>3 DEF ConfigureTargets, Is, HasCluster, None
    <3>2. DOMAIN Here.accounts \in SUBSET Account
      BY <3>1, <1>h DEF Here
    <3>3. CASE Goto("install")
      BY <3>3, <1>g
    <3>4. ASSUME NEW new \in SUBSET Target,
                 job' = [job EXCEPT !.at = "accounts", !.targets = new, !.todo = DOMAIN Here.accounts]
          PROVE  IsCommand(job')
      BY <3>4, <3>2 DEF IsCommand
    <3> QED BY <2>3, <3>3, <3>4 DEF ConfigureTargets
  <2> QED BY <1>3, <2>1, <2>2, <2>3 DEF Selecting
<1>4. CASE Destroying
  <2>1. CASE EmptyCluster
    <3>1. job.cluster \in Cluster
      BY <2>1 DEF EmptyCluster, Is, HasCluster, None
    <3>2. DOMAIN Here.accounts \in SUBSET Account
      BY <3>1, <1>h DEF Here
    <3>3. \A x : IsCommand([job EXCEPT !.at = x])
      BY CommandSet
    <3>4. IsCommand([[job EXCEPT !.at = "unlink"] EXCEPT !.todo = DOMAIN Here.accounts])
      BY <3>2, <3>3, CommandSet
    <3>5. \/ Goto("untag") \/ Ends
          \/ job' = [job EXCEPT !.at = "unlink", !.todo = DOMAIN Here.accounts]
      BY <2>1 DEF EmptyCluster
    <3> QED BY <3>4, <3>5, <1>g, <1>i
  <2>2. CASE UnlinkAccounts
    <3>1. \A a : job.todo \ {a} \in SUBSET Account
      BY <1>d
    <3>2. CASE Goto("untag")
      BY <3>2, <1>g
    <3>3. ASSUME NEW a, job' = [job EXCEPT !.todo = @ \ {a}] PROVE IsCommand(job')
      BY <3>1, <3>3 DEF IsCommand
    <3> QED BY <2>2, <3>2, <3>3 DEF UnlinkAccounts
  <2>3. CASE DeletePool
    <3>1. job.cluster \in Cluster
      BY <2>3 DEF DeletePool, Is, HasCluster, None
    <3>2. \A p \in DOMAIN There.pools : p \in 0..MaxPools
      <4>1. There.pools \in Pools
        BY <3>1 DEF There, CloudTyped, Resources
      <4> QED BY <4>1, PartialIs DEF Pools, Pool
    <3>3. ASSUME NEW p \in DOMAIN There.pools, job' = [job EXCEPT !.at = "gone", !.pool = p]
          PROVE  IsCommand(job')
      <4>1. IsCommand([job EXCEPT !.at = "gone"])
        BY CommandSet
      <4>2. IsCommand([[job EXCEPT !.at = "gone"] EXCEPT !.pool = p])
        BY <3>2, <4>1, CommandSet
      <4> QED BY <3>3, <4>2
    <3>4. \/ \E at : Goto(at)
          \/ \E p \in DOMAIN There.pools : job' = [job EXCEPT !.at = "gone", !.pool = p]
      BY <2>3 DEF DeletePool
    <3> QED BY <3>3, <3>4, <1>g
  <2>4. CASE \/ Deselect \/ UntagSubnets \/ ForgetPool \/ DestroyStack \/ DestroyStops
             \/ DestroyVpc \/ DestroyElsewhere \/ BreakOff
    BY <2>4, <1>g, <1>i DEF Deselect, UntagSubnets, ForgetPool, DestroyStack, DestroyStops,
       DestroyVpc, DestroyElsewhere, BreakOff
  <2> QED BY <1>4, <2>1, <2>2, <2>3, <2>4 DEF Destroying
<1>5. CASE LinkAccounts
  <2> AccountSteps
    BY <1>5, LinkingSteps
  <2>1. CASE PickAccount
    <3>1. \A a : job.todo \ {a} \in SUBSET Account
      BY <1>d
    <3>2. PICK a \in job.todo :
            job' \in {[job EXCEPT !.at = "make", !.account = a], [job EXCEPT !.todo = @ \ {a}]}
      BY <2>1 DEF PickAccount
    <3>3. CASE job' = [job EXCEPT !.at = "make", !.account = a]
      BY <3>3, <1>d DEF IsCommand
    <3>4. CASE job' = [job EXCEPT !.todo = @ \ {a}]
      BY <3>1, <3>4 DEF IsCommand
    <3> QED BY <3>2, <3>3, <3>4
  <2>2. CASE SaveAccount
    <3>1. job.todo \ {job.account} \in SUBSET Account
      BY <1>d
    <3> QED BY <2>2, <3>1 DEF SaveAccount, IsCommand
  <2>3. CASE ImportAccounts
    <3>1. job.cluster \in Cluster
      BY <2>3 DEF ImportAccounts, Is, HasCluster, None
    <3>2. Here.targets \in SUBSET Target /\ job.todo \cup DOMAIN Here.accounts \in SUBSET Account
      BY <3>1, <1>d, <1>h DEF Here
    <3> QED BY <2>3, <3>2 DEF ImportAccounts, IsCommand
  <2>4. CASE \/ MakeServiceAccounts \/ SyncRole \/ Annotate \/ AccountsDone \/ SaveTargets
             \/ DeleteRole \/ DropAnnotations \/ DeleteAccount
    BY <2>4, <1>g, <1>i DEF MakeServiceAccounts, SyncRole, Annotate, AccountsDone, SaveTargets,
       DeleteRole, DropAnnotations, DeleteAccount
  <2> QED BY <2>1, <2>2, <2>3, <2>4 DEF AccountSteps
<1>6. ASSUME NEW c \in Cluster, PoolSettles(c) \/ Operate(c) PROVE IsCommand(job')
  BY <1>6 DEF PoolSettles, Operate, EnsureNamespace
<1> QED BY <1>1, <1>2, <1>3, <1>4, <1>5, <1>6, NextIs

(* What the cloud has of a cluster that exists, and what a cluster holds.  *)
LEMMA HasPools ==
  ASSUME NEW r \in Resources, NEW p \in Pool, NEW s \in PoolStates
  PROVE  /\ [r EXCEPT !.pools = With(@, p, s)] \in Resources
         /\ [r EXCEPT !.pools = Without(@, {p})] \in Resources
<1>1. With(r.pools, p, s) \in Pools /\ Without(r.pools, {p}) \in Pools
  BY WithIsPartial, WithoutIsPartial DEF Resources, Pools
<1> QED BY <1>1 DEF Resources

LEMMA StagesAre ==
  /\ DOMAIN Stages = 1..4
  /\ Stages[1] = "none" /\ Stages[2] = "roles" /\ Stages[3] = "eks" /\ Stages[4] = "made"
BY DEF Stages

(* How far terraform got is a number.                                      *)
LEMMA StageIs ==
  ASSUME NEW c, cloud[c] \in Resources
  PROVE  Stage(c) \in 1..4 /\ Stages[Stage(c)] = cloud[c].stack
<1>1. \E i \in DOMAIN Stages : Stages[i] = cloud[c].stack
  <2>1. cloud[c].stack \in {"none", "roles", "eks", "made"}
    BY DEF Resources
  <2> QED BY <2>1, StagesAre
<1> QED BY <1>1, StagesAre DEF Stage

(* A cluster with nothing in it is only left by those that exist.          *)
LEMMA CloudStaysTyped ==
  ASSUME Typed, HasCluster, HasPool, Next
  PROVE  CloudTyped'
<1> /\ CloudTyped /\ HasCluster /\ HasPool
  BY DEF Typed
<1>r. ASSUME job.cluster \in Cluster PROVE There \in Resources
  BY <1>r DEF There, CloudTyped
<1>c. \/ Is({"create"}, "stack") \/ Is({"create"}, "tag") \/ Is({"create"}, "thumbprint")
      \/ Is({"create", "select", "nodepool"}, "pool") \/ Is({"create"}, "activate")
      \/ Is({"destroy"}, "untag") \/ Is({"destroy"}, "pools") \/ Is({"drop pool"}, "pools")
      \/ Is({"destroy", "drop pool"}, "gone") \/ Is({"destroy"}, "stack")
      => job.cluster \in Cluster /\ There \in Resources
  BY <1>r DEF Is, HasCluster, Creates, Chosen, None
<1>m. ASSUME NEW r \in Resources, InCloud(r), job.cluster \in Cluster PROVE CloudTyped'
  BY <1>m, InCloudIs
<1>1. CASE UNCHANGED cloud
  BY <1>1 DEF CloudTyped
<1>2. CASE MakeStack
  <2>1. [There EXCEPT !.stack = "made"] \in Resources
    BY <1>2, <1>c DEF MakeStack, Resources
  <2> QED BY <1>2, <2>1, <1>1, <1>c, <1>m DEF MakeStack
<1>3. CASE StackStops
  <2>1. job.cluster \in Cluster /\ There \in Resources
    BY <1>3, <1>c DEF StackStops
  <2>2. Stage(job.cluster) \in 1..4
    BY <2>1, StageIs DEF There
  <2>3. PICK i \in 1..3 : InCloud([There EXCEPT !.stack = Stages[i]])
    BY <1>3, <2>2 DEF StackStops
  <2>4. Stages[i] \in {"none", "roles", "eks", "made"}
    BY StagesAre
  <2>5. [There EXCEPT !.stack = Stages[i]] \in Resources
    BY <2>1, <2>4 DEF Resources
  <2> QED BY <2>1, <2>3, <2>5, <1>m
<1>4. CASE TagSubnets \/ AddThumbprint \/ Activate
  <2>1. /\ [There EXCEPT !.tagged = "all"] \in Resources
        /\ [There EXCEPT !.thumb = TRUE] \in Resources
        /\ [There EXCEPT !.activated = TRUE] \in Resources
    BY <1>4, <1>c DEF TagSubnets, AddThumbprint, Activate, Resources
  <2> QED BY <1>4, <2>1, <1>c, <1>m DEF TagSubnets, AddThumbprint, Activate
<1>5. CASE EnsurePool
  <2>1. job.pool \in Pool
    BY <1>5 DEF EnsurePool, Is, HasPool, Creates, Chosen
  <2>2. [There EXCEPT !.pools = With(@, job.pool, "creating")] \in Resources
    BY <1>5, <2>1, <1>c, HasPools DEF EnsurePool, PoolStates
  <2> QED BY <1>5, <2>2, <1>1, <1>c, <1>m DEF EnsurePool
<1>6. CASE UntagSubnets
  <2>1. [There EXCEPT !.tagged = "last gone"] \in Resources
    BY <1>6, <1>c DEF UntagSubnets, Resources
  <2> QED BY <1>6, <2>1, <1>1, <1>c, <1>m DEF UntagSubnets
<1>7. CASE DeletePool
  <2>1. job.cluster \in Cluster /\ There \in Resources
    BY <1>7, <1>c DEF DeletePool
  <2>2. DOMAIN There.pools \subseteq Pool
    BY <2>1, PartialIs DEF Resources, Pools
  <2>3. \A p \in DOMAIN There.pools : [There EXCEPT !.pools = With(@, p, "deleting")] \in Resources
    BY <2>1, <2>2, HasPools DEF PoolStates
  <2> QED BY <1>7, <2>1, <2>3, <1>1, <1>m DEF DeletePool
<1>8. CASE DestroyStack \/ DestroyStops
  <2>1. job.cluster \in Cluster /\ There \in Resources
    BY <1>8, <1>c DEF DestroyStack, DestroyStops
  <2>3. PICK i \in 1..3 : Demolish(i)
    BY <1>8 DEF DestroyStack, DestroyStops
  <2>s. Stages[i] \in {"none", "roles", "eks", "made"}
    BY StagesAre
  <2>2. /\ [There EXCEPT !.stack = Stages[i]] \in Resources
        /\ [Nothing EXCEPT !.stack = Stages[i], !.tagged = There.tagged] \in Resources
    BY <2>1, <2>s, NothingIsResources DEF Resources
  <2>4. CASE i = 3
    BY <2>1, <2>2, <2>3, <2>4, <1>m DEF Demolish
  <2>5. CASE i # 3
    BY <2>1, <2>2, <2>3, <2>5 DEF Demolish, CloudTyped
  <2> QED BY <2>4, <2>5
<1>9. CASE DestroyVpc
  <2>1. \A c \in Cluster : [cloud[c] EXCEPT !.tagged = "none"] \in Resources
    <3> TAKE c \in Cluster
    <3>1. cloud[c] \in Resources
      BY DEF CloudTyped
    <3> QED BY <3>1 DEF Resources
  <2> QED BY <1>9, <2>1 DEF DestroyVpc, CloudTyped
<1>10. CASE DestroyElsewhere
  <2>1. \A c \in Cluster : [Nothing EXCEPT !.tagged = cloud[c].tagged] \in Resources
    <3> TAKE c \in Cluster
    <3>1. cloud[c] \in Resources
      BY DEF CloudTyped
    <3> QED BY <3>1, NothingIsResources DEF Resources
  <2> QED BY <1>10, <2>1 DEF DestroyElsewhere, CloudTyped, Names
<1>11. ASSUME NEW c \in Cluster, PoolSettles(c) PROVE CloudTyped'
  <2>1. cloud[c] \in Resources /\ DOMAIN cloud[c].pools \subseteq Pool
    <3>1. cloud[c] \in Resources
      BY DEF CloudTyped
    <3>2. cloud[c].pools \in Pools
      BY <3>1 DEF Resources
    <3> QED BY <3>1, <3>2, PartialIs DEF Pools
  <2>2. PICK p \in DOMAIN cloud[c].pools :
          \/ cloud' = [cloud EXCEPT ![c].pools[p] = "ready"]
          \/ cloud' = [cloud EXCEPT ![c].pools[p] = "failed"]
          \/ cloud' = [cloud EXCEPT ![c].pools = Without(@, {p})]
    BY <1>11 DEF PoolSettles
  <2>3. ASSUME NEW s \in {"ready", "failed"}
        PROVE  [cloud[c] EXCEPT !.pools[p] = s] \in Resources
    <3>0. cloud[c].pools \in Pools
      BY <2>1 DEF Resources
    <3>1. cloud[c].pools \in [DOMAIN cloud[c].pools -> PoolStates]
      BY <3>0, PartialIs DEF Pools
    <3>2. [cloud[c].pools EXCEPT ![p] = s] \in [DOMAIN cloud[c].pools -> PoolStates]
      BY <3>1 DEF PoolStates
    <3>3. [cloud[c].pools EXCEPT ![p] = s] \in Pools
      BY <2>1, <3>2 DEF Pools, Partial
    <3> QED BY <2>1, <3>3 DEF Resources
  <2>4. [cloud[c] EXCEPT !.pools = Without(@, {p})] \in Resources
    BY <2>1, HasPools DEF PoolStates
  <2>5. PICK r \in Resources : cloud' = [cloud EXCEPT ![c] = r]
    BY <2>2, <2>3, <2>4
  <2> QED BY <2>5 DEF CloudTyped
<1> QED BY <1>1, <1>2, <1>3, <1>4, <1>5, <1>6, <1>7, <1>8, <1>9, <1>10, <1>11, CloudFrame
           DEF CloudChanges

(* What commands do to a cluster's objects.                                *)
LEMMA HoldingSet ==
  ASSUME NEW k \in Holding
  PROVE  /\ [k EXCEPT !.crds = TRUE] \in Holding
         /\ [k EXCEPT !.config = TRUE, !.targets = {}] \in Holding
         /\ [k EXCEPT !.admin = TRUE] \in Holding
         /\ [k EXCEPT !.installed = TRUE] \in Holding
         /\ [k EXCEPT !.operator = TRUE] \in Holding
         /\ \A p \in Pool : [k EXCEPT !.pools = @ \cup {p}] \in Holding
         /\ \A p : [k EXCEPT !.pools = @ \ {p}] \in Holding
         /\ \A T \in SUBSET Target : [k EXCEPT !.targets = T] \in Holding
         /\ \A t \in Target : [k EXCEPT !.namespaces = @ \cup {t}] \in Holding
         /\ \A L : [k EXCEPT !.linked = @ \ L] \in Holding
         /\ \A L \in SUBSET (Target \X Account) :
              L \subseteq k.made => [k EXCEPT !.linked = @ \cup L] \in Holding
         /\ \A a \in Accounts : [k EXCEPT !.accounts = a] \in Holding
<1>1. [k EXCEPT !.crds = TRUE] \in Holding
  BY DEF Holding
<1>2. [k EXCEPT !.config = TRUE, !.targets = {}] \in Holding
  BY DEF Holding
<1>3. [k EXCEPT !.admin = TRUE] \in Holding
  BY DEF Holding
<1>4. [k EXCEPT !.installed = TRUE] \in Holding
  BY DEF Holding
<1>5. [k EXCEPT !.operator = TRUE] \in Holding
  BY DEF Holding
<1>6. ASSUME NEW p \in Pool PROVE [k EXCEPT !.pools = @ \cup {p}] \in Holding
  BY DEF Holding
<1>7. ASSUME NEW p PROVE [k EXCEPT !.pools = @ \ {p}] \in Holding
  BY DEF Holding
<1>8. ASSUME NEW T \in SUBSET Target PROVE [k EXCEPT !.targets = T] \in Holding
  BY DEF Holding
<1>9. ASSUME NEW t \in Target PROVE [k EXCEPT !.namespaces = @ \cup {t}] \in Holding
  BY DEF Holding
<1>10. ASSUME NEW L PROVE [k EXCEPT !.linked = @ \ L] \in Holding
  BY DEF Holding
<1>11. ASSUME NEW L \in SUBSET (Target \X Account), L \subseteq k.made
       PROVE  [k EXCEPT !.linked = @ \cup L] \in Holding
  BY <1>11 DEF Holding
<1>12. ASSUME NEW a \in Accounts PROVE [k EXCEPT !.accounts = a] \in Holding
  BY DEF Holding
<1> QED BY <1>1, <1>2, <1>3, <1>4, <1>5, <1>6, <1>7, <1>8, <1>9, <1>10, <1>11, <1>12

(* The account in hand, as the command wants it.                           *)
LEMMA WantedIs ==
  ASSUME JobTyped, InsideTyped, HasCluster, HasAccount, job.name \in Linking, job.at \in LinkSteps
  PROVE  /\ job.cluster \in Cluster /\ job.account \in Account
         /\ Wanted(job.account) \in AccountSpec
         /\ job.account \in DOMAIN Here.accounts => Here.accounts[job.account] \in AccountObject
<1>1. job.cluster \in Cluster
  BY DEF HasCluster, Linking, None
<1>2. job.account \in Account
  BY DEF HasAccount, JobTyped, IsCommand
<1>3. Here.accounts \in Accounts
  BY <1>1 DEF InsideTyped, Holding, Here
<1>4. \A a \in DOMAIN Here.accounts : Here.accounts[a] \in AccountObject
  BY <1>3, PartialIs DEF Accounts
<1>5. job.name = "account" => job.policy \in Policy
  BY DEF HasAccount
<1>6. job.name # "account" => job.account \in DOMAIN Here.accounts
  BY DEF HasAccount, Linking, LinkSteps
<1>7. Wanted(job.account) \in AccountSpec
  BY <1>4, <1>5, <1>6 DEF Wanted, AccountSpec, AccountObject, JobTyped, IsCommand
<1> QED BY <1>1, <1>2, <1>4, <1>7

LEMMA RolesStayTyped ==
  ASSUME Typed, HasCluster, HasAccount, Next
  PROVE  RolesTyped'
<1> /\ RolesTyped /\ JobTyped /\ InsideTyped
  BY DEF Typed
<1>m. ASSUME NEW c \in Cluster, NEW r \in Roles, roles' = [roles EXCEPT ![c] = r] PROVE RolesTyped'
  BY <1>m DEF RolesTyped
<1>w. ASSUME NEW c \in Cluster, NEW S PROVE Without(roles[c], S) \in Roles
  BY WithoutIsPartial DEF RolesTyped, Roles
<1>1. CASE UNCHANGED roles
  BY <1>1 DEF RolesTyped
<1>2. CASE SyncRole
  <2>1. /\ job.cluster \in Cluster /\ job.account \in Account
        /\ Wanted(job.account) \in AccountSpec
    BY <1>2, WantedIs DEF SyncRole, Is, LinkSteps
  <2>2. With(roles[job.cluster], job.account, Wanted(job.account)) \in Roles
    BY <2>1, WithIsPartial DEF RolesTyped, Roles
  <2> QED BY <1>2, <2>1, <2>2, <1>m DEF SyncRole
<1>3. CASE DeleteRole
  <2>1. job.cluster \in Cluster
    BY <1>3 DEF DeleteRole, Is, HasCluster, None
  <2> QED BY <1>3, <2>1, <1>w, <1>m DEF DeleteRole
<1>4. CASE UnlinkAccounts
  <2>1. job.cluster \in Cluster
    BY <1>4 DEF UnlinkAccounts, Is, HasCluster, None
  <2> QED BY <1>4, <2>1, <1>w, <1>m, <1>1 DEF UnlinkAccounts, KeepsCluster
<1>5. CASE DestroyElsewhere
  <2>1. << >> \in Roles
    BY EmptyIsPartial DEF Roles
  <2> QED BY <1>5, <2>1, <1>m DEF DestroyElsewhere, Names
<1>6. ASSUME InsideChanges PROVE UNCHANGED roles \/ SyncRole \/ DeleteRole \/ UnlinkAccounts \/ DestroyElsewhere
  BY <1>6, LinkingSteps DEF InsideChanges, LoadTypes, SaveConfig, RecordPool, AddAdminRole,
     InstallComponents, ForgetPool, DestroyStack, DestroyStops, AccountSteps, PickAccount,
     MakeServiceAccounts, Annotate, SaveAccount, AccountsDone, SaveTargets, ImportAccounts,
     DropAnnotations, DeleteAccount, Operate, EnsureNamespace
<1> QED BY <1>1, <1>2, <1>3, <1>4, <1>5, <1>6, InsideFrame

LEMMA InsideStaysTyped ==
  ASSUME Typed, HasCluster, HasPool, HasAccount, Next
  PROVE  InsideTyped'
<1> /\ InsideTyped /\ JobTyped /\ CloudTyped
  BY DEF Typed
<1>k. ASSUME NEW k \in Holding, Change(k), job.cluster \in Cluster PROVE InsideTyped'
  BY <1>k, ChangeIs
<1>h. ASSUME job.cluster \in Cluster PROVE Here \in Holding
  BY <1>h DEF Here, InsideTyped
<1>c. job.name \notin {None, "create", "list"} \/ Creates(Chosen) => job.cluster \in Cluster
  BY DEF HasCluster, Creates
<1>1. CASE UNCHANGED <<inside, roles>>
  BY <1>1 DEF InsideTyped
<1>2. CASE LoadTypes \/ SaveConfig \/ AddAdminRole
  <2>1. job.cluster \in Cluster
    BY <1>2, <1>c DEF LoadTypes, SaveConfig, AddAdminRole, Is, Creates, Chosen, None
  <2>2. Here \in Holding
    BY <2>1, <1>h
  <2>3. /\ [Here EXCEPT !.crds = TRUE] \in Holding
        /\ [Here EXCEPT !.config = TRUE, !.targets = {}] \in Holding
        /\ [Here EXCEPT !.admin = TRUE] \in Holding
    BY <2>2, HoldingSet
  <2> QED BY <1>2, <2>1, <2>3, <1>k DEF LoadTypes, SaveConfig, AddAdminRole, InsideTyped
<1>3. CASE RecordPool
  <2>1. job.cluster \in Cluster
    BY <1>3, <1>c DEF RecordPool, Is, Creates, Chosen, None
  <2>2. job.pool \in Pool
    BY <1>3 DEF RecordPool, Is, Creates, Chosen, HasPool
  <2>3. [Here EXCEPT !.pools = @ \cup {job.pool}] \in Holding
    BY <2>1, <2>2, <1>h, HoldingSet
  <2> QED BY <1>3, <2>1, <2>3, <1>k DEF RecordPool
<1>4. CASE InstallComponents
  <2>1. job.cluster \in Cluster /\ Here \in Holding
    BY <1>4, <1>c, <1>h DEF InstallComponents, Is, None
  <2>2. [Here EXCEPT !.installed = TRUE] \in Holding
    BY <2>1, HoldingSet
  <2>3. ASSUME kube.current \in Names, inside' = [inside EXCEPT ![kube.current].operator = TRUE]
        PROVE  InsideTyped'
    <3>1. inside[kube.current] \in Holding
      BY <2>3 DEF Names, InsideTyped
    <3>2. [inside[kube.current] EXCEPT !.operator = TRUE] \in Holding
      BY <3>1, HoldingSet
    <3> QED BY <2>3, <3>2 DEF InsideTyped
  <2> QED BY <1>4, <2>1, <2>2, <2>3, <1>k DEF InstallComponents, InsideTyped
<1>5. CASE UnlinkAccounts
  <2>1. job.cluster \in Cluster /\ Here \in Holding
    BY <1>5, <1>c, <1>h DEF UnlinkAccounts, Is, None
  <2>2. \A L : [Here EXCEPT !.linked = @ \ L] \in Holding
    BY <2>1, HoldingSet
  <2> QED BY <1>5, <2>1, <2>2, <1>k, <1>1 DEF UnlinkAccounts, KeepsCluster
<1>6. CASE ForgetPool
  <2>1. job.cluster \in Cluster /\ Here \in Holding
    BY <1>6, <1>c, <1>h DEF ForgetPool, Is, None
  <2>2. [Here EXCEPT !.pools = @ \ {job.pool}] \in Holding
    BY <2>1, HoldingSet
  <2> QED BY <1>6, <2>1, <2>2, <1>k DEF ForgetPool
<1>7. CASE DestroyStack \/ DestroyStops
  <2>1. job.cluster \in Cluster
    BY <1>7, <1>c DEF DestroyStack, DestroyStops, Is, None
  <2> QED BY <1>7, <2>1, <1>k, EmptyIsHolding DEF DestroyStack, DestroyStops, Demolish, InsideTyped
<1>8. CASE DestroyElsewhere
  <2>1. PICK c \in Cluster : inside' = [inside EXCEPT ![c] = Empty]
    BY <1>8 DEF DestroyElsewhere, Names
  <2> QED BY <2>1, EmptyIsHolding DEF InsideTyped
<1>9. CASE LinkAccounts
  <2> AccountSteps
    BY <1>9, LinkingSteps
  <2> DEFINE Working == job.name \in Linking /\ job.at \in LinkSteps
  <2>h. job.name \in Linking \cup {"unlink"} =>
          job.cluster \in Cluster /\ Here \in Holding /\ Here.accounts \in Accounts
    <3>1. job.name \in Linking \cup {"unlink"} => job.cluster \in Cluster /\ Here \in Holding
      BY <1>c, <1>h DEF Linking, None
    <3> QED BY <3>1 DEF Holding
  <2>w. Working => job.account \in Account /\ Wanted(job.account) \in AccountSpec
    BY WantedIs
  <2>t. job.targets \in SUBSET Target
    BY DEF JobTyped, IsCommand
  <2>1. CASE PickAccount \/ SyncRole \/ AccountsDone \/ DeleteRole
    BY <2>1 DEF PickAccount, SyncRole, AccountsDone, DeleteRole, InsideTyped
  <2>2. CASE MakeServiceAccounts
    <3>1. Working /\ Here \in Holding /\ job.account \in Account /\ job.cluster \in Cluster
      BY <2>2, <2>h, <2>w DEF MakeServiceAccounts, Is, LinkSteps
    <3>2. ASSUME NEW S \in SUBSET job.targets, S \cap MissingNamespaces = {}
          PROVE  [Here EXCEPT !.made = @ \cup S \X {job.account}] \in Holding
      <4>1. S \subseteq Here.namespaces /\ S \subseteq Target
        BY <3>2, <2>t DEF MissingNamespaces
      <4>2. S \X {job.account} \subseteq Here.namespaces \X Account /\ S \X {job.account} \subseteq Target \X Account
        BY <4>1, <3>1
      <4> HIDE <3>2
      <4> QED BY <4>2, <3>1 DEF Holding
    <3>3. PICK S \in SUBSET job.targets :
            S \cap MissingNamespaces = {} /\ Change([Here EXCEPT !.made = @ \cup S \X {job.account}])
      BY <2>2 DEF MakeServiceAccounts
    <3> QED BY <3>1, <3>2, <3>3, <1>k
  <2>3. CASE Annotate
    <3>1. Working /\ Here \in Holding /\ job.account \in Account /\ job.cluster \in Cluster
      BY <2>3, <2>h, <2>w DEF Annotate, Is, LinkSteps
    <3>2. job.targets \X {job.account} \subseteq Here.made
      BY <2>3, <3>1 DEF Annotate, Is, HasAccount
    <3>3. job.targets \X {job.account} \in SUBSET (Target \X Account)
      BY <3>1, <2>t
    <3>4. [Here EXCEPT !.linked = @ \cup job.targets \X {job.account}] \in Holding
      BY <3>1, <3>2, <3>3, HoldingSet
    <3> QED BY <2>3, <3>1, <3>4, <1>k DEF Annotate
  <2>4. CASE SaveAccount
    <3>1. /\ Here \in Holding /\ job.account \in Account /\ job.cluster \in Cluster
          /\ Wanted(job.account) \in AccountSpec /\ Here.accounts \in Accounts
      BY <2>4, <2>h, <2>w DEF SaveAccount, Is, LinkSteps
    <3> DEFINE object == [spec |-> Wanted(job.account), hash |-> Wanted(job.account)]
    <3>2. object \in AccountObject
      BY <3>1 DEF AccountObject
    <3>3. With(Here.accounts, job.account, object) \in Accounts
      BY <3>1, <3>2, WithIsPartial DEF Accounts
    <3>4. [Here EXCEPT !.accounts = With(@, job.account, object)] \in Holding
      BY <3>1, <3>3, HoldingSet
    <3> QED BY <2>4, <3>1, <3>4, <1>k DEF SaveAccount
  <2>5. CASE SaveTargets
    <3>1. Here \in Holding /\ job.cluster \in Cluster
      BY <2>5, <2>h DEF SaveTargets, Is, Linking
    <3>2. [Here EXCEPT !.targets = job.targets] \in Holding
      BY <3>1, <2>t, HoldingSet
    <3> QED BY <2>5, <3>1, <3>2, <1>k DEF SaveTargets
  <2>6. CASE ImportAccounts
    <3>1. /\ Here \in Holding /\ job.cluster \in Cluster /\ Here.accounts \in Accounts
          /\ job.policy \in Policy
      BY <2>6, <2>h DEF ImportAccounts, Is, Linking, HasAccount
    <3> DEFINE object == Imported([targets |-> job.targets, policy |-> job.policy])
    <3>2. object \in AccountObject
      BY <3>1, <2>t DEF Imported, AccountObject, AccountSpec
    <3>3. [a \in job.todo |-> object] \in Accounts
      <4>1. job.todo \in SUBSET Account
        BY DEF JobTyped, IsCommand
      <4>2. [a \in job.todo |-> object] \in [job.todo -> AccountObject]
        BY <3>2
      <4> QED BY <4>1, <4>2 DEF Accounts, Partial
    <3>4. Over(Here.accounts, [a \in job.todo |-> object]) \in Accounts
      BY <3>1, <3>3, OverIsPartial DEF Accounts
    <3>5. [Here EXCEPT !.accounts = Over(@, [a \in job.todo |-> object])] \in Holding
      BY <3>1, <3>4, HoldingSet
    <3> QED BY <2>6, <3>1, <3>5, <1>k DEF ImportAccounts
  <2>7. CASE DropAnnotations
    <3>1. Here \in Holding /\ job.cluster \in Cluster
      BY <2>7, <2>h DEF DropAnnotations, Is
    <3>2. \A L : [Here EXCEPT !.linked = @ \ L] \in Holding
      BY <3>1, HoldingSet
    <3> QED BY <2>7, <3>1, <3>2, <1>k DEF DropAnnotations
  <2>8. CASE DeleteAccount
    <3>1. Here \in Holding /\ job.cluster \in Cluster /\ Here.accounts \in Accounts
      BY <2>8, <2>h DEF DeleteAccount, Is
    <3>2. Without(Here.accounts, {job.account}) \in Accounts
      BY <3>1, WithoutIsPartial DEF Accounts
    <3>3. [Here EXCEPT !.accounts = Without(@, {job.account})] \in Holding
      BY <3>1, <3>2, HoldingSet
    <3> QED BY <2>8, <3>1, <3>3, <1>k DEF DeleteAccount
  <2> QED BY <2>1, <2>2, <2>3, <2>4, <2>5, <2>6, <2>7, <2>8 DEF AccountSteps
<1>10. ASSUME NEW c \in Cluster, Operate(c) PROVE InsideTyped'
  <2>1. PICK t \in Target : inside' = [inside EXCEPT ![c].namespaces = @ \cup {t}]
    <3>1. inside[c].targets \subseteq Target
      BY DEF InsideTyped, Holding
    <3> QED BY <1>10, <3>1 DEF Operate, EnsureNamespace
  <2>2. [inside[c] EXCEPT !.namespaces = @ \cup {t}] \in Holding
    BY HoldingSet DEF InsideTyped
  <2> QED BY <2>1, <2>2 DEF InsideTyped
<1> QED BY <1>1, <1>2, <1>3, <1>4, <1>5, <1>6, <1>7, <1>8, <1>9, <1>10, InsideFrame
           DEF InsideChanges

-----------------------------------------------------------------------------
(* What a step may do to a cluster.                                        *)

(* Objects change in clusters that exist only.                             *)
LEMMA OnlyInExisting ==
  ASSUME Typed, HasCluster, Next, NEW c \in Cluster, inside'[c] # inside[c]
  PROVE  Exists(c)
<1> InsideTyped
  BY DEF Typed
<1>e. (job.name \notin {None, "create", "list"} /\ job.at \notin Early) \/ Creates(Stacked)
        => job.cluster \in Cluster /\ Exists(job.cluster)
  BY DEF HasCluster, Creates, Stacked, Exists, There
<1>k. ASSUME NEW k, Change(k) PROVE c = job.cluster
  BY <1>k DEF Change, InsideTyped
<1>1. CASE UNCHANGED <<inside, roles>>
  BY <1>1
<1>2. CASE \/ LoadTypes \/ SaveConfig \/ RecordPool \/ AddAdminRole \/ UnlinkAccounts \/ ForgetPool
           \/ DestroyStack \/ DestroyStops
  <2>1. c = job.cluster
    BY <1>2, <1>k DEF LoadTypes, SaveConfig, RecordPool, AddAdminRole, UnlinkAccounts, ForgetPool,
       DestroyStack, DestroyStops, Demolish, KeepsCluster
  <2>2. \/ job.name \notin {None, "create", "list"} /\ job.at \notin Early
        \/ Creates(Stacked)
    BY <1>2 DEF LoadTypes, SaveConfig, RecordPool, AddAdminRole, UnlinkAccounts, ForgetPool,
       DestroyStack, DestroyStops, Is, Creates, Stacked, Chosen, None, Early
  <2> QED BY <2>1, <2>2, <1>e
<1>3. CASE InstallComponents
  <2>1. CASE inside' = [inside EXCEPT ![kube.current].operator = TRUE] /\ kube.current \in Names
    BY <2>1 DEF Names, InsideTyped
  <2>2. CASE Change([Here EXCEPT !.installed = TRUE])
    <3>1. c = job.cluster
      BY <2>2, <1>k
    <3> QED BY <1>3, <3>1, <1>e DEF InstallComponents, Is, None, Early
  <2> QED BY <1>3, <2>1, <2>2 DEF InstallComponents
<1>4. CASE DestroyElsewhere
  BY <1>4 DEF DestroyElsewhere, Names, InsideTyped
<1>5. CASE LinkAccounts
  <2>1. c = job.cluster
    BY <1>5, <1>k, LinkingSteps DEF AccountSteps, PickAccount, MakeServiceAccounts, SyncRole,
       Annotate,
       SaveAccount, AccountsDone, SaveTargets, ImportAccounts, DeleteRole, DropAnnotations,
       DeleteAccount
  <2>2. job.name \notin {None, "create", "list"} /\ job.at \notin Early
    BY <1>5, LinkingSteps DEF AccountSteps, PickAccount, MakeServiceAccounts, SyncRole, Annotate,
       SaveAccount, AccountsDone, SaveTargets, ImportAccounts, DeleteRole, DropAnnotations,
       DeleteAccount,
       Is, Linking, None, Early
  <2> QED BY <2>1, <2>2, <1>e
<1>6. ASSUME NEW d \in Cluster, Operate(d) PROVE Exists(c)
  <2>1. c = d /\ inside[d].config
    BY <1>6 DEF Operate, EnsureNamespace, InsideTyped
  <2>2. inside[d] # Empty
    BY <2>1 DEF Empty
  <2> QED BY <2>1, <2>2 DEF Typed, NoneIsEmpty
<1> QED BY <1>1, <1>2, <1>3, <1>4, <1>5, <1>6, InsideFrame DEF InsideChanges

(* What a creation makes stays, and with it the objects in the cluster.    *)
CloudGrows(c) ==
  /\ Exists(c) => Exists(c)'
  /\ cloud[c].stack = "made" => cloud'[c].stack = "made"
  /\ cloud[c].thumb => cloud'[c].thumb
  /\ cloud[c].tagged = "all" => cloud'[c].tagged = "all"
  /\ cloud[c].activated => cloud'[c].activated
  /\ cloud'[c].stack = cloud[c].stack \/ (c = job.cluster /\ (MakeStack \/ StackStops))
  /\ cloud'[c].activated = cloud[c].activated \/ (c = job.cluster /\ Activate)
  /\ cloud'[c].pools = cloud[c].pools \/ EnsurePool \/ DeletePool \/ PoolSettles(c)
InsideGrows(c) ==
  /\ inside[c].crds => inside'[c].crds
  /\ inside[c].config => inside'[c].config
  /\ inside[c].admin => inside'[c].admin
  /\ inside'[c].admin = inside[c].admin \/ AddAdminRole
  /\ inside'[c].namespaces = inside[c].namespaces \/ Operate(c)
  /\ c # job.cluster =>
       /\ inside'[c].accounts = inside[c].accounts /\ inside'[c].targets = inside[c].targets
       /\ inside'[c].made = inside[c].made /\ inside'[c].linked = inside[c].linked
  /\ inside'[c].accounts = inside[c].accounts \/ SaveAccount \/ ImportAccounts \/ DeleteAccount
  /\ inside'[c].targets = inside[c].targets \/ SaveConfig \/ SaveTargets
  /\ inside'[c].made = inside[c].made \/ MakeServiceAccounts
  /\ inside'[c].linked = inside[c].linked \/ Annotate \/ DropAnnotations \/ UnlinkAccounts

(* What is no more there: nothing of it, or nothing but its tags.          *)
Gone(c) == inside'[c] = Empty /\ ~cloud'[c].activated /\ cloud'[c].pools = << >>

(* Unless it is destroyed, here or elsewhere, or its network is.           *)
GoneElsewhere(c) == job' = job /\ Untouched(c) /\ Gone(c) /\ cloud'[c].stack = "none"

LEMMA CloudChange ==
  ASSUME Typed, HasCluster, Next, NEW c \in Cluster
  PROVE  \/ CloudGrows(c)
         \/ job.name = "destroy" /\ job.at = "untag" /\ job.cluster = c
            /\ cloud'[c] = [cloud[c] EXCEPT !.tagged = "last gone"]
         \/ job.name = "destroy" /\ job.at = "stack" /\ job.cluster = c /\ job' = Idle
            /\ (Exists(c)' \/ Gone(c))
         \/ GoneElsewhere(c)
         \/ job = Idle /\ job' = Idle /\ ~Exists(c) /\ cloud'[c] = [cloud[c] EXCEPT !.tagged = "none"]
<1> DEFINE Goal == CloudGrows(c)
<1> CloudTyped /\ InsideTyped
  BY DEF Typed
<1>r. cloud[c] \in Resources
  BY DEF CloudTyped
<1>m. ASSUME NEW r, InCloud(r), c # job.cluster PROVE cloud'[c] = cloud[c]
  BY <1>m DEF InCloud, CloudTyped
<1>s. ASSUME NEW r, InCloud(r), c = job.cluster PROVE cloud'[c] = r
  BY <1>s DEF InCloud, CloudTyped
<1>g. ASSUME cloud'[c] = cloud[c] PROVE CloudGrows(c)
  BY <1>g DEF CloudGrows, Exists
<1>1. CASE UNCHANGED cloud
  BY <1>1, <1>g
<1>2a. CASE MakeStack
  <2>1. UNCHANGED cloud \/ InCloud([There EXCEPT !.stack = "made"])
    BY <1>2a DEF MakeStack
  <2>2. ASSUME c = job.cluster, cloud'[c] = [There EXCEPT !.stack = "made"] PROVE CloudGrows(c)
    BY <2>2, <1>2a, <1>r DEF There, Resources, CloudGrows, Exists
  <2> QED BY <2>1, <2>2, <1>m, <1>s, <1>g
<1>2b. CASE TagSubnets
  <2>1. UNCHANGED cloud \/ InCloud([There EXCEPT !.tagged = "all"])
    BY <1>2b DEF TagSubnets
  <2>2. ASSUME c = job.cluster, cloud'[c] = [There EXCEPT !.tagged = "all"] PROVE CloudGrows(c)
    BY <2>2, <1>2b, <1>r DEF There, Resources, CloudGrows, Exists
  <2> QED BY <2>1, <2>2, <1>m, <1>s, <1>g
<1>2c. CASE AddThumbprint
  <2>1. UNCHANGED cloud \/ InCloud([There EXCEPT !.thumb = TRUE])
    BY <1>2c DEF AddThumbprint
  <2>2. ASSUME c = job.cluster, cloud'[c] = [There EXCEPT !.thumb = TRUE] PROVE CloudGrows(c)
    BY <2>2, <1>2c, <1>r DEF There, Resources, CloudGrows, Exists
  <2> QED BY <2>1, <2>2, <1>m, <1>s, <1>g
<1>2d. CASE Activate
  <2>1. UNCHANGED cloud \/ InCloud([There EXCEPT !.activated = TRUE])
    BY <1>2d DEF Activate
  <2>2. ASSUME c = job.cluster, cloud'[c] = [There EXCEPT !.activated = TRUE] PROVE CloudGrows(c)
    BY <2>2, <1>2d, <1>r DEF There, Resources, CloudGrows, Exists
  <2> QED BY <2>1, <2>2, <1>m, <1>s, <1>g
<1>2e. CASE EnsurePool
  <2>1. UNCHANGED cloud \/ InCloud([There EXCEPT !.pools = With(@, job.pool, "creating")])
    BY <1>2e DEF EnsurePool
  <2>2. ASSUME c = job.cluster, cloud'[c] = [There EXCEPT !.pools = With(@, job.pool, "creating")] PROVE CloudGrows(c)
    BY <2>2, <1>2e, <1>r DEF There, Resources, CloudGrows, Exists
  <2> QED BY <2>1, <2>2, <1>m, <1>s, <1>g
<1>3. CASE StackStops
  <2>1. CASE c # job.cluster
    BY <1>3, <2>1, <1>m, <1>g DEF StackStops
  <2>2. CASE c = job.cluster
    <3>1. PICK i \in Stage(c)..3 : cloud'[c] = [There EXCEPT !.stack = Stages[i]]
      BY <1>3, <2>2, <1>s DEF StackStops
    <3>2. Stage(c) \in 1..4 /\ Stages[Stage(c)] = cloud[c].stack
      BY <1>r, StageIs
    <3>3. cloud[c].stack # "made" /\ (cloud[c].stack = "eks" => Stages[i] = "eks")
      BY <3>1, <3>2, StagesAre
    <3>4. CloudGrows(c)
      BY <2>2, <3>1, <3>3, <1>3, <1>r DEF There, Resources, CloudGrows, Exists
    <3> QED BY <3>4
  <2> QED BY <2>1, <2>2
<1>4. CASE UntagSubnets
  <2>1. CASE c # job.cluster
    BY <1>4, <2>1, <1>m, <1>g DEF UntagSubnets
  <2>2. CASE c = job.cluster
    BY <1>4, <2>2, <1>s, <1>g DEF UntagSubnets, Is, There
  <2> QED BY <2>1, <2>2
<1>5. CASE DeletePool
  <2>1. CASE c # job.cluster
    BY <1>5, <2>1, <1>m, <1>g DEF DeletePool
  <2>2. CASE c = job.cluster
    <3>1. cloud' = cloud \/ \E p : cloud'[c] = [There EXCEPT !.pools = With(@, p, "deleting")]
      BY <1>5, <2>2, <1>s DEF DeletePool
    <3>2. ASSUME NEW p, cloud'[c] = [There EXCEPT !.pools = With(@, p, "deleting")] PROVE CloudGrows(c)
      BY <2>2, <3>2, <1>5, <1>r DEF There, Resources, CloudGrows, Exists
    <3> QED BY <3>1, <3>2, <1>g
  <2> QED BY <2>1, <2>2
<1>6. CASE DestroyStack \/ DestroyStops
  <2>0. job.name = "destroy" /\ job.at = "stack" /\ job' = Idle
    BY <1>6 DEF DestroyStack, DestroyStops, Is, Ends
  <2>1. PICK i \in 1..3 : Demolish(i)
    BY <1>6 DEF DestroyStack, DestroyStops
  <2>2. CASE c # job.cluster
    <3>1. cloud'[c] = cloud[c]
      BY <2>1, <2>2, <1>m DEF Demolish, CloudTyped
    <3> QED BY <3>1, <1>g
  <2>3. CASE c = job.cluster /\ i = 3
    <3>1. cloud'[c] = [There EXCEPT !.stack = "eks"]
      BY <2>1, <2>3, <1>s, StagesAre DEF Demolish
    <3> QED BY <2>0, <2>3, <3>1, <1>r DEF There, Resources, Exists
  <2>4. CASE c = job.cluster /\ i # 3
    <3>1. /\ cloud'[c] = [Nothing EXCEPT !.stack = Stages[i], !.tagged = There.tagged]
          /\ inside'[c] = Empty
      BY <2>1, <2>4 DEF Demolish, Change, CloudTyped, InsideTyped
    <3>2. Gone(c)
      BY <3>1 DEF Gone, Nothing
    <3> QED BY <2>0, <2>4, <3>2
  <2> QED BY <2>2, <2>3, <2>4
<1>7. CASE DestroyVpc
  <2>1. ~Exists(c) /\ cloud'[c] = [cloud[c] EXCEPT !.tagged = "none"] /\ job = Idle /\ job' = Idle
    BY <1>7 DEF DestroyVpc, Names
  <2> QED BY <2>1
<1>8. CASE DestroyElsewhere
  <2>1. PICK d \in Cluster :
          /\ Untouched(d)
          /\ cloud' = [cloud EXCEPT ![d] = [Nothing EXCEPT !.tagged = cloud[d].tagged]]
          /\ inside' = [inside EXCEPT ![d] = Empty]
    BY <1>8 DEF DestroyElsewhere, Names
  <2>2. CASE c = d
    <3>1. Gone(c) /\ cloud'[c].stack = "none"
      BY <2>1, <2>2 DEF Gone, Nothing, CloudTyped, InsideTyped
    <3> QED BY <1>8, <2>1, <2>2, <3>1 DEF DestroyElsewhere, GoneElsewhere
  <2>3. CASE c # d
    BY <2>1, <2>3, <1>g DEF CloudTyped
  <2> QED BY <2>2, <2>3
<1>9. ASSUME NEW d \in Cluster, PoolSettles(d) PROVE Goal
  <2>1. CASE c # d
    BY <1>9, <2>1, <1>g DEF PoolSettles, CloudTyped
  <2>2. CASE c = d
    <3>1. PICK q : cloud'[c] = [cloud[c] EXCEPT !.pools = q]
      BY <1>9, <2>2 DEF PoolSettles, CloudTyped
    <3>2. PoolSettles(c)
      BY <1>9, <2>2
    <3> QED BY <3>1, <3>2, <1>r DEF Resources, CloudGrows, Exists
  <2> QED BY <2>1, <2>2
<1> QED BY <1>1, <1>2a, <1>2b, <1>2c, <1>2d, <1>2e, <1>3, <1>4, <1>5, <1>6, <1>7, <1>8, <1>9,
           CloudFrame DEF CloudChanges

LEMMA InsideChange ==
  ASSUME Typed, HasCluster, Next, NEW c \in Cluster
  PROVE  \/ InsideGrows(c)
         \/ /\ job.name = "destroy" /\ job.at = "stack" /\ job.cluster = c /\ job' = Idle
            /\ inside'[c] = Empty
         \/ job' = job /\ Untouched(c) /\ Gone(c)
<1> DEFINE Goal == InsideGrows(c)
<1> InsideTyped
  BY DEF Typed
<1>g. ASSUME inside'[c] = inside[c] PROVE InsideGrows(c)
  BY <1>g DEF InsideGrows
<1>r. inside[c] \in Holding
  BY DEF InsideTyped
<1>k. ASSUME NEW k, Change(k), c # job.cluster PROVE InsideGrows(c)
  BY <1>k, <1>g DEF Change, InsideTyped
<1>s. ASSUME NEW k, Change(k), c = job.cluster PROVE inside'[c] = k
  BY <1>s DEF Change, InsideTyped
<1>1. CASE UNCHANGED inside
  BY <1>1, <1>g
<1>2. CASE LoadTypes
  <2>1. Change([Here EXCEPT !.crds = TRUE]) \/ UNCHANGED inside
    BY <1>2 DEF LoadTypes
  <2>2. c = job.cluster => inside'[c] \in {inside[c], [inside[c] EXCEPT !.crds = TRUE]}
    BY <2>1, <1>s DEF Here
  <2>3. c = job.cluster => InsideGrows(c)
    BY <2>2, <1>r, <1>g DEF Holding, InsideGrows
  <2> QED BY <2>1, <2>3, <1>k, <1>g
<1>3. CASE SaveConfig
  <2>1. Change([Here EXCEPT !.config = TRUE, !.targets = {}])
    BY <1>3 DEF SaveConfig
  <2>2. c = job.cluster => inside'[c] = [inside[c] EXCEPT !.config = TRUE, !.targets = {}]
    BY <2>1, <1>s DEF Here
  <2>3. ASSUME c = job.cluster PROVE InsideGrows(c)
    <3>1. inside'[c] = [inside[c] EXCEPT !.config = TRUE, !.targets = {}]
      BY <2>2, <2>3
    <3>2. /\ inside'[c].crds = inside[c].crds /\ inside'[c].config /\ inside'[c].admin = inside[c].admin
          /\ inside'[c].namespaces = inside[c].namespaces /\ inside'[c].accounts = inside[c].accounts
          /\ inside'[c].made = inside[c].made /\ inside'[c].linked = inside[c].linked
      BY <3>1, <1>r DEF Holding
    <3> QED BY <3>2, <2>3, <1>3 DEF InsideGrows
  <2> QED BY <2>1, <2>3, <1>k
<1>4. CASE RecordPool
  <2>1. Change([Here EXCEPT !.pools = @ \cup {job.pool}])
    BY <1>4 DEF RecordPool
  <2>2. c = job.cluster => inside'[c] = [inside[c] EXCEPT !.pools = @ \cup {job.pool}]
    BY <2>1, <1>s DEF Here
  <2>3. c = job.cluster => InsideGrows(c)
    BY <2>2, <1>4, <1>r DEF Holding, InsideGrows
  <2> QED BY <2>1, <2>3, <1>k
<1>5. CASE AddAdminRole
  <2>1. Change([Here EXCEPT !.admin = TRUE])
    BY <1>5 DEF AddAdminRole
  <2>2. c = job.cluster => inside'[c] = [inside[c] EXCEPT !.admin = TRUE]
    BY <2>1, <1>s DEF Here
  <2>3. c = job.cluster => InsideGrows(c)
    BY <2>2, <1>5, <1>r DEF Holding, InsideGrows
  <2> QED BY <2>1, <2>3, <1>k
<1>6. CASE ForgetPool
  <2>1. Change([Here EXCEPT !.pools = @ \ {job.pool}])
    BY <1>6 DEF ForgetPool
  <2>2. c = job.cluster => inside'[c] = [inside[c] EXCEPT !.pools = @ \ {job.pool}]
    BY <2>1, <1>s DEF Here
  <2>3. c = job.cluster => InsideGrows(c)
    BY <2>2, <1>6, <1>r DEF Holding, InsideGrows
  <2> QED BY <2>1, <2>3, <1>k
<1>7. CASE Annotate
  <2>1. Change([Here EXCEPT !.linked = @ \cup job.targets \X {job.account}])
    BY <1>7 DEF Annotate
  <2>2. c = job.cluster => inside'[c] = [inside[c] EXCEPT !.linked = @ \cup job.targets \X {job.account}]
    BY <2>1, <1>s DEF Here
  <2>3. c = job.cluster => InsideGrows(c)
    BY <2>2, <1>7, <1>r DEF Holding, InsideGrows
  <2> QED BY <2>1, <2>3, <1>k
<1>8. CASE SaveAccount
  <2>1. Change([Here EXCEPT
         !.accounts = With(@, job.account, [spec |-> Wanted(job.account), hash |-> Wanted(job.account)])])
    BY <1>8 DEF SaveAccount
  <2>2. c = job.cluster => inside'[c] = [inside[c] EXCEPT
         !.accounts = With(@, job.account, [spec |-> Wanted(job.account), hash |-> Wanted(job.account)])]
    BY <2>1, <1>s DEF Here
  <2>3. c = job.cluster => InsideGrows(c)
    BY <2>2, <1>8, <1>r DEF Holding, InsideGrows
  <2> QED BY <2>1, <2>3, <1>k
<1>9. CASE SaveTargets
  <2>1. Change([Here EXCEPT !.targets = job.targets])
    BY <1>9 DEF SaveTargets
  <2>2. c = job.cluster => inside'[c] = [inside[c] EXCEPT !.targets = job.targets]
    BY <2>1, <1>s DEF Here
  <2>3. c = job.cluster => InsideGrows(c)
    BY <2>2, <1>9, <1>r DEF Holding, InsideGrows
  <2> QED BY <2>1, <2>3, <1>k
<1>10. CASE ImportAccounts
  <2>1. Change([Here EXCEPT
         !.accounts = Over(@, [a \in job.todo |-> Imported([targets |-> job.targets, policy |-> job.policy])])])
    BY <1>10 DEF ImportAccounts
  <2>2. c = job.cluster => inside'[c] = [inside[c] EXCEPT
         !.accounts = Over(@, [a \in job.todo |-> Imported([targets |-> job.targets, policy |-> job.policy])])]
    BY <2>1, <1>s DEF Here
  <2>3. c = job.cluster => InsideGrows(c)
    BY <2>2, <1>10, <1>r DEF Holding, InsideGrows
  <2> QED BY <2>1, <2>3, <1>k
<1>11. CASE DropAnnotations
  <2>1. Change([Here EXCEPT !.linked = @ \ (Here.accounts[job.account].spec.targets \X {job.account})])
    BY <1>11 DEF DropAnnotations
  <2>2. c = job.cluster => inside'[c] = [inside[c] EXCEPT
         !.linked = @ \ (Here.accounts[job.account].spec.targets \X {job.account})]
    BY <2>1, <1>s DEF Here
  <2>3. c = job.cluster => InsideGrows(c)
    BY <2>2, <1>11, <1>r DEF Holding, InsideGrows
  <2> QED BY <2>1, <2>3, <1>k
<1>12. CASE DeleteAccount
  <2>1. Change([Here EXCEPT !.accounts = Without(@, {job.account})])
    BY <1>12 DEF DeleteAccount
  <2>2. c = job.cluster => inside'[c] = [inside[c] EXCEPT !.accounts = Without(@, {job.account})]
    BY <2>1, <1>s DEF Here
  <2>3. c = job.cluster => InsideGrows(c)
    BY <2>2, <1>12, <1>r DEF Holding, InsideGrows
  <2> QED BY <2>1, <2>3, <1>k
<1>13. CASE UnlinkAccounts
  <2>1. CASE UNCHANGED inside
    BY <2>1, <1>g
  <2>2. ASSUME NEW a, Change([Here EXCEPT !.linked = @ \ (Target \X {a})]) PROVE InsideGrows(c)
    <3>1. c = job.cluster => inside'[c] = [inside[c] EXCEPT !.linked = @ \ (Target \X {a})]
      BY <2>2, <1>s DEF Here
    <3>2. c = job.cluster => InsideGrows(c)
      BY <3>1, <1>13, <1>r DEF Holding, InsideGrows
    <3> QED BY <2>2, <3>2, <1>k
  <2>3. \/ UNCHANGED inside
        \/ \E a : Change([Here EXCEPT !.linked = @ \ (Target \X {a})])
    BY <1>13 DEF UnlinkAccounts, KeepsCluster
  <2> QED BY <2>1, <2>2, <2>3
<1>14. CASE MakeServiceAccounts
  <2>1. PICK S : Change([Here EXCEPT !.made = @ \cup S \X {job.account}])
    BY <1>14 DEF MakeServiceAccounts
  <2>2. c = job.cluster => inside'[c] = [inside[c] EXCEPT !.made = @ \cup S \X {job.account}]
    BY <2>1, <1>s DEF Here
  <2>3. c = job.cluster => InsideGrows(c)
    BY <2>2, <1>14, <1>r DEF Holding, InsideGrows
  <2> QED BY <2>1, <2>3, <1>k
<1>15. CASE InstallComponents
  <2>1. CASE inside' = [inside EXCEPT ![kube.current].operator = TRUE]
    <3>1. inside'[c] \in {inside[c], [inside[c] EXCEPT !.operator = TRUE]}
      BY <2>1 DEF InsideTyped
    <3> QED BY <3>1, <1>r DEF Holding, InsideGrows
  <2>2. CASE Change([Here EXCEPT !.installed = TRUE])
    <3>1. inside'[c] \in {inside[c], [inside[c] EXCEPT !.installed = TRUE]}
      BY <2>2 DEF Change, Here, InsideTyped
    <3> QED BY <3>1, <1>r DEF Holding, InsideGrows
  <2> QED BY <1>15, <2>1, <2>2, <1>1 DEF InstallComponents
<1>16. CASE DestroyStack \/ DestroyStops
  <2>1. job.name = "destroy" /\ job.at = "stack" /\ job' = Idle
    BY <1>16 DEF DestroyStack, DestroyStops, Is, Ends
  <2>2. UNCHANGED inside \/ Change(Empty)
    BY <1>16 DEF DestroyStack, DestroyStops, Demolish
  <2> QED BY <2>1, <2>2, <1>g, <1>k, <1>s
<1>17. CASE DestroyElsewhere
  <2>1. PICK d \in Cluster :
          /\ Untouched(d)
          /\ cloud' = [cloud EXCEPT ![d] = [Nothing EXCEPT !.tagged = cloud[d].tagged]]
          /\ inside' = [inside EXCEPT ![d] = Empty]
    BY <1>17 DEF DestroyElsewhere, Names
  <2>2. CASE c = d
    <3>1. Gone(c)
      BY <2>1, <2>2 DEF Typed, Gone, Nothing, CloudTyped, InsideTyped
    <3> QED BY <1>17, <2>1, <2>2, <3>1 DEF DestroyElsewhere
  <2>3. CASE c # d
    BY <2>1, <2>3, <1>g DEF InsideTyped
  <2> QED BY <2>2, <2>3
<1>18. CASE PickAccount \/ SyncRole \/ AccountsDone \/ DeleteRole
  BY <1>18, <1>1 DEF PickAccount, SyncRole, AccountsDone, DeleteRole
<1>19. ASSUME NEW d \in Cluster, Operate(d) PROVE Goal
  <2>1. PICK x : inside' = [inside EXCEPT ![d].namespaces = x]
    BY <1>19 DEF Operate, EnsureNamespace
  <2>2. CASE d # c
    BY <2>1, <2>2, <1>g DEF InsideTyped
  <2>3. CASE d = c
    <3>1. inside'[c] = [inside[c] EXCEPT !.namespaces = x]
      BY <2>1, <2>3 DEF InsideTyped
    <3> QED BY <3>1, <2>3, <1>19, <1>r DEF Holding, InsideGrows
  <2> QED BY <2>2, <2>3
<1> QED BY <1>1, <1>2, <1>3, <1>4, <1>5, <1>6, <1>7, <1>8, <1>9, <1>10, <1>11, <1>12, <1>13, <1>14,
           <1>15, <1>16, <1>17, <1>18, <1>19,
           InsideFrame, LinkingSteps DEF InsideChanges, AccountSteps

(* Nothing is activated, and no pool made, where there is no cluster.      *)
LEMMA AddedInExisting ==
  ASSUME Typed, HasCluster, Next, NEW c \in Cluster, ~Exists(c)
  PROVE  ~cloud'[c].activated /\ cloud'[c].pools = << >>
<1> DEFINE Goal == ~cloud'[c].activated /\ cloud'[c].pools = << >>
<1> CloudTyped /\ InsideTyped
  BY DEF Typed
<1>r. cloud[c] \in Resources /\ ~cloud[c].activated /\ cloud[c].pools = << >>
  BY DEF Typed, CloudTyped, NoneIsEmpty
<1>g. ASSUME cloud'[c] = cloud[c] PROVE Goal
  BY <1>g, <1>r
<1>m. ASSUME NEW r, InCloud(r), c # job.cluster PROVE Goal
  BY <1>m, <1>r DEF InCloud, CloudTyped
<1>e. /\ job.name \notin {None, "create", "list"} /\ job.at \notin Early => c # job.cluster
      /\ Creates(Stacked) => c # job.cluster
  BY DEF HasCluster, Exists, There
<1>1. CASE UNCHANGED cloud
  BY <1>1, <1>g
<1>2. CASE TagSubnets \/ AddThumbprint \/ Activate \/ EnsurePool \/ UntagSubnets \/ DeletePool
  <2>1. \/ job.name \notin {None, "create", "list"} /\ job.at \notin Early
        \/ Creates(Stacked)
    BY <1>2 DEF TagSubnets, AddThumbprint, Activate, EnsurePool, UntagSubnets, DeletePool, Is,
       Creates, Stacked, Chosen, None, Early
  <2> QED BY <1>2, <2>1, <1>e, <1>m, <1>g DEF TagSubnets, AddThumbprint, Activate, EnsurePool,
             UntagSubnets,
         DeletePool
<1>3. CASE MakeStack \/ StackStops
  <2>1. CASE c # job.cluster
    BY <1>3, <2>1, <1>m, <1>g DEF MakeStack, StackStops
  <2>2. CASE c = job.cluster
    <3>1. CASE cloud'[c] = [cloud[c] EXCEPT !.stack = "made"]
      BY <3>1, <1>r DEF Resources
    <3>2. CASE MakeStack
      BY <3>1, <3>2, <2>2, <1>g DEF MakeStack, InCloud, There, CloudTyped
    <3>3. CASE StackStops
      <4>1. PICK i \in Stage(c)..3 : cloud'[c] = [cloud[c] EXCEPT !.stack = Stages[i]]
        BY <3>3, <2>2 DEF StackStops, InCloud, There, CloudTyped
      <4> QED BY <4>1, <1>r DEF Resources
    <3> QED BY <1>3, <3>2, <3>3
  <2> QED BY <2>1, <2>2
<1>4. CASE DestroyStack \/ DestroyStops
  <2>1. job.name \notin {None, "create", "list"} /\ job.at \notin Early
    BY <1>4 DEF DestroyStack, DestroyStops, Is, None, Early
  <2>2. PICK i \in 1..3 : Demolish(i)
    BY <1>4 DEF DestroyStack, DestroyStops
  <2>3. cloud'[c] = cloud[c]
    BY <2>1, <2>2, <1>e DEF Demolish, InCloud, CloudTyped
  <2> QED BY <2>3, <1>g
<1>5. CASE DestroyVpc
  <2>1. cloud'[c] = [cloud[c] EXCEPT !.tagged = "none"]
    BY <1>5 DEF DestroyVpc
  <2> QED BY <2>1, <1>r DEF Resources
<1>6. CASE DestroyElsewhere
  BY <1>6, <1>g DEF DestroyElsewhere, Names, CloudTyped
<1>7. ASSUME NEW d \in Cluster, PoolSettles(d) PROVE Goal
  <2>1. d # c
    BY <1>7, <1>r, EmptyDomain DEF PoolSettles
  <2> QED BY <1>7, <2>1, <1>g DEF PoolSettles, CloudTyped
<1> QED BY <1>1, <1>2, <1>3, <1>4, <1>5, <1>6, <1>7, CloudFrame DEF CloudChanges

LEMMA NoneStaysEmpty ==
  ASSUME Typed, HasCluster, Next
  PROVE  NoneIsEmpty'
<1> SUFFICES ASSUME NEW c \in Cluster, ~Exists(c)'
             PROVE  inside'[c] = Empty /\ ~cloud'[c].activated /\ cloud'[c].pools = << >>
  BY DEF NoneIsEmpty
<1>1. CASE Gone(c)
  BY <1>1 DEF Gone
<1>2. CASE ~Exists(c)
  BY <1>2, AddedInExisting, OnlyInExisting DEF Typed, NoneIsEmpty
<1>3. CASE job.name = "destroy" /\ job.at = "untag" /\ job.cluster = c
           /\ cloud'[c] = [cloud[c] EXCEPT !.tagged = "last gone"]
  <2>1. cloud[c] \in Resources
    BY DEF Typed, CloudTyped
  <2>2. Exists(c)'
    BY <1>3, <2>1 DEF HasCluster, None, Exists, Resources, Early
  <2> QED BY <2>2
<1> QED BY <1>1, <1>2, <1>3, CloudChange DEF CloudGrows, GoneElsewhere

-----------------------------------------------------------------------------
(* What a step may do to the command that runs.                            *)

LEMMA GotoIs ==
  ASSUME JobTyped, NEW at, Goto(at)
  PROVE  /\ job'.at = at
         /\ job'.name = job.name /\ job'.cluster = job.cluster /\ job'.pool = job.pool
         /\ job'.targets = job.targets /\ job'.todo = job.todo
         /\ job'.account = job.account /\ job'.policy = job.policy
BY DEF Goto, JobTyped, IsCommand

(* A command begins.                                                       *)
Begins(c) ==
  \/ job'.name = "reinstall" /\ job'.at = "crds"
  \/ job'.name = "nodepool" /\ job'.at = "record" /\ job'.pool \in Pool
  \/ job'.name = "drop pool" /\ job'.at = "pools" /\ job'.pool \in Pool
  \/ /\ job'.name = "account" /\ job'.at = "accounts" /\ job'.policy \in Policy
     /\ job'.targets = inside[c].targets
  \/ job'.name = "unlink" /\ job'.at = "role" /\ job'.account \in DOMAIN inside[c].accounts
  \/ job'.name = "configure" /\ job'.at = "accounts" /\ job'.todo = DOMAIN inside[c].accounts
  \/ job'.name = "import" /\ job'.at = "files" /\ job'.policy \in Policy

LEMMA CommandedIs ==
  ASSUME InsideTyped, Commanded
  PROVE  /\ job = Idle
         /\ UNCHANGED <<inside, roles, cloud, vpc, files, kube, abandoned, doomed, strayed>>
         /\ \/ job' = Idle /\ conf' = [conf EXCEPT !.selected = None]
            \/ /\ job'.name \in {"create", "list", "select", "destroy"} /\ job'.at = "locate"
               /\ job'.name \notin {"create", "list"} => job'.cluster \in Cluster /\ job'.todo = {}
               /\ UNCHANGED conf
            \/ \E c \in Cluster : Usable(c) /\ job'.cluster = c /\ Begins(c) /\ UNCHANGED conf
<1> USE DEF Idle, Task, Starts, KeepsCluster, KeepsCloud, workstation, history
<1>1. CASE StartCreate \/ StartList \/ StartSelect \/ StartDestroy \/ Reset
  BY <1>1 DEF StartCreate, StartList, StartSelect, StartDestroy, Reset
<1>2. CASE StartReinstall
  BY <1>2 DEF StartReinstall, Begins
<1>3. CASE StartNodepool
  <2>1. \A c \in Cluster : inside[c].pools \subseteq Pool /\ NextPools(c) \subseteq Pool
    BY DEF InsideTyped, Holding, NextPools
  <2>2. PICK c \in Cluster :
          /\ Usable(c)
          /\ \/ \E p \in NextPools(c) : Starts([Task("nodepool", "record", c) EXCEPT !.pool = p])
             \/ \E p \in inside[c].pools : Starts([Task("drop pool", "pools", c) EXCEPT !.pool = p])
    BY <1>3 DEF StartNodepool
  <2>3. job'.cluster = c /\ Begins(c) /\ job = Idle
    <3>1. CASE \E p \in NextPools(c) : Starts([Task("nodepool", "record", c) EXCEPT !.pool = p])
      <4>1. PICK p \in Pool : job' = [Task("nodepool", "record", c) EXCEPT !.pool = p]
        BY <2>1, <3>1
      <4> QED BY <3>1, <4>1 DEF Begins
    <3>2. CASE \E p \in inside[c].pools : Starts([Task("drop pool", "pools", c) EXCEPT !.pool = p])
      <4>1. PICK p \in Pool : job' = [Task("drop pool", "pools", c) EXCEPT !.pool = p]
        BY <2>1, <3>2
      <4> QED BY <3>2, <4>1 DEF Begins
    <3> QED BY <2>2, <3>1, <3>2
  <2>4. UNCHANGED <<inside, roles, cloud, vpc, files, kube, conf, abandoned, doomed, strayed>>
    BY <2>2
  <2> QED BY <2>2, <2>3, <2>4
<1>4. CASE StartAccount
  <2>1. PICK c \in Cluster :
          /\ Usable(c)
          /\ \/ \E a \in Account, p \in Policy :
                  Starts([Task("account", "accounts", c) EXCEPT
                            !.todo = {a}, !.policy = p, !.targets = inside[c].targets])
             \/ \E a \in DOMAIN inside[c].accounts : Starts([Task("unlink", "role", c) EXCEPT !.account = a])
    BY <1>4 DEF StartAccount
  <2>2. job'.cluster = c /\ Begins(c) /\ job = Idle
    <3>1. CASE \E a \in Account, p \in Policy :
                 Starts([Task("account", "accounts", c) EXCEPT
                           !.todo = {a}, !.policy = p, !.targets = inside[c].targets])
      <4>1. PICK a \in Account, p \in Policy :
              job' = [Task("account", "accounts", c) EXCEPT
                        !.todo = {a}, !.policy = p, !.targets = inside[c].targets]
        BY <3>1
      <4> QED BY <3>1, <4>1 DEF Begins
    <3>2. CASE \E a \in DOMAIN inside[c].accounts : Starts([Task("unlink", "role", c) EXCEPT !.account = a])
      <4>1. PICK a \in DOMAIN inside[c].accounts : job' = [Task("unlink", "role", c) EXCEPT !.account = a]
        BY <3>2
      <4> QED BY <3>2, <4>1 DEF Begins
    <3> QED BY <2>1, <3>1, <3>2
  <2>3. UNCHANGED <<inside, roles, cloud, vpc, files, kube, conf, abandoned, doomed, strayed>>
    BY <2>1
  <2> QED BY <2>1, <2>2, <2>3
<1>5. CASE StartConfigure
  BY <1>5 DEF StartConfigure, Begins
<1>6. CASE StartImport
  BY <1>6 DEF StartImport, Begins
<1> QED BY <1>1, <1>2, <1>3, <1>4, <1>5, <1>6 DEF Commanded

(* It goes on with what it has in hand, but for some steps.                *)
GoesOn ==
  /\ job'.name = job.name
  /\ job'.cluster = job.cluster \/ Resume \/ PromptCluster
  /\ job'.pool = job.pool \/ Resume \/ PromptPool \/ ConfigureNodepool \/ DeletePool
  /\ job'.account = job.account \/ PickAccount
  /\ job'.targets = job.targets \/ ConfigureTargets \/ ImportAccounts
  /\ job'.policy = job.policy
  /\ \/ job'.todo = job.todo
     \/ ConfigureTargets \/ EmptyCluster \/ UnlinkAccounts \/ PickAccount \/ SaveAccount \/ ImportAccounts

LEMMA JobChange ==
  ASSUME Typed, Next
  PROVE  job' = Idle \/ Commanded \/ GoesOn
<1> DEFINE Goal == job' = Idle \/ Commanded \/ GoesOn
<1> JobTyped
  BY DEF Typed
<1>g. ASSUME NEW at, Goto(at) PROVE GoesOn
  BY <1>g, GotoIs DEF GoesOn
<1>e. Ends => job' = Idle
  BY DEF Ends
<1>u. job' = job => GoesOn
  BY DEF GoesOn
<1>1. CASE Commanded
  BY <1>1
<1>2. CASE Creating
  <2>1. CASE Resume
    BY <2>1 DEF Resume, GoesOn, JobTyped, IsCommand
  <2>p. CASE PromptCluster
    <3>1. Ends \/ \E c \in Cluster : job' = [job EXCEPT !.at = "prompt pool", !.cluster = c]
      BY <2>p DEF PromptCluster
    <3> QED BY <2>p, <3>1, <1>e, WithCluster DEF GoesOn
  <2>q. CASE PromptPool
    <3>1. PICK p \in NextPools(job.cluster) : job' = [job EXCEPT !.at = "vpc", !.pool = p]
      BY <2>q DEF PromptPool
    <3> QED BY <2>q, <3>1, WithPool DEF GoesOn
  <2>2. CASE \/ NothingToResume \/ Decline \/ MakeVpc \/ MakeStack \/ StackStops \/ TagSubnets
             \/ AddThumbprint \/ EnsurePool \/ WaitForPool
    BY <2>2, <1>g, <1>e DEF NothingToResume, Decline, MakeVpc, MakeStack, StackStops, TagSubnets,
       AddThumbprint, EnsurePool, WaitForPool
  <2>3. CASE LoadTypes \/ SaveConfig \/ RecordPool \/ AddAdminRole \/ Activate \/ RemoveFiles
    BY <2>3, <1>g, <1>e DEF LoadTypes, SaveConfig, RecordPool, AddAdminRole, Activate, RemoveFiles
  <2> QED BY <1>2, <2>1, <2>p, <2>q, <2>2, <2>3 DEF Creating
<1>3. CASE Selecting
  <2>1. CASE \/ Locate \/ WriteKubeConfig \/ ListClusters \/ RefreshContexts \/ Connect \/ InstallComponents
    BY <2>1, <1>g, <1>e DEF Locate, WriteKubeConfig, ListClusters, RefreshContexts, Connect,
       InstallComponents
  <2>2. CASE ConfigureNodepool
    BY <2>2, <1>g DEF ConfigureNodepool, GoesOn, JobTyped, IsCommand
  <2>3. CASE ConfigureTargets
    BY <2>3, <1>g DEF ConfigureTargets, GoesOn, JobTyped, IsCommand
  <2> QED BY <1>3, <2>1, <2>2, <2>3 DEF Selecting
<1>4. CASE Destroying
  <2>1. CASE EmptyCluster
    BY <2>1, <1>g, <1>e DEF EmptyCluster, GoesOn, JobTyped, IsCommand
  <2>2. CASE UnlinkAccounts
    BY <2>2, <1>g DEF UnlinkAccounts, GoesOn, JobTyped, IsCommand
  <2>3. CASE DeletePool
    BY <2>3, <1>g DEF DeletePool, GoesOn, JobTyped, IsCommand
  <2>4. CASE \/ Deselect \/ UntagSubnets \/ ForgetPool \/ DestroyStack \/ DestroyStops
             \/ DestroyVpc \/ DestroyElsewhere \/ BreakOff
    BY <2>4, <1>g, <1>e, <1>u DEF Deselect, UntagSubnets, ForgetPool, DestroyStack, DestroyStops,
       DestroyVpc, DestroyElsewhere, BreakOff
  <2> QED BY <1>4, <2>1, <2>2, <2>3, <2>4 DEF Destroying
<1>5. CASE LinkAccounts
  <2> AccountSteps
    BY <1>5, LinkingSteps
  <2>1. CASE PickAccount
    <3>1. PICK a : job' \in {[job EXCEPT !.at = "make", !.account = a], [job EXCEPT !.todo = @ \ {a}]}
      BY <2>1 DEF PickAccount
    <3> QED BY <2>1, <3>1 DEF GoesOn, JobTyped, IsCommand
  <2>2. CASE SaveAccount \/ ImportAccounts
    BY <2>2 DEF SaveAccount, ImportAccounts, GoesOn, JobTyped, IsCommand
  <2>3. CASE \/ MakeServiceAccounts \/ SyncRole \/ Annotate \/ AccountsDone \/ SaveTargets
             \/ DeleteRole \/ DropAnnotations \/ DeleteAccount
    BY <2>3, <1>g, <1>e DEF MakeServiceAccounts, SyncRole, Annotate, AccountsDone, SaveTargets,
       DeleteRole, DropAnnotations, DeleteAccount
  <2> QED BY <2>1, <2>2, <2>3 DEF AccountSteps
<1>6. ASSUME NEW c \in Cluster, PoolSettles(c) \/ Operate(c) PROVE Goal
  BY <1>6, <1>u DEF PoolSettles, Operate, EnsureNamespace
<1> QED BY <1>1, <1>2, <1>3, <1>4, <1>5, <1>6, NextIs

(* The steps a command takes one after the other, by the actions.          *)
From(names, at, next) == job.name \in names /\ job.at = at /\ job'.at \in next

CreateMoves ==
  \/ Locate /\ From({"create"}, "locate", {"ask"})
  \/ Locate /\ From({"create"}, "relocate", {"kubeconfig"})
  \/ Resume /\ From({"create"}, "ask", {"vpc"})
  \/ (Decline \/ NothingToResume) /\ From({"create"}, "ask", {"prompt"})
  \/ PromptCluster /\ From({"create"}, "prompt", {"prompt pool"})
  \/ PromptPool /\ From({"create"}, "prompt pool", {"vpc"})
  \/ MakeVpc /\ From({"create"}, "vpc", {"stack"})
  \/ MakeStack /\ vpc = "made" /\ From({"create"}, "stack", {"tag"})
  \/ TagSubnets /\ From({"create"}, "tag", {"thumbprint"})
  \/ AddThumbprint /\ From({"create"}, "thumbprint", {"pool"})
  \/ EnsurePool /\ From({"create", "select", "nodepool"}, "pool", {"wait"})
  \/ WaitForPool /\ From({"create"}, "wait", {"relocate"})
  \/ WriteKubeConfig /\ From({"create"}, "kubeconfig", {"crds"})
  \/ LoadTypes /\ Reachable(job.cluster) /\ From({"create"}, "crds", {"config"})
  \/ SaveConfig /\ From({"create"}, "config", {"record"})
  \/ RecordPool /\ From({"create"}, "record", {"admin"})
  \/ AddAdminRole /\ From({"create"}, "admin", {"activate"})
  \/ Activate /\ From({"create"}, "activate", {"remove cluster file"})
  \/ RemoveFiles /\ From({"create"}, "remove cluster file", {"remove pool file"})

SelectMoves ==
  \/ /\ Locate /\ job.at \in {"locate", "relocate"}
     /\ job.name \notin {None, "create", "list"} /\ Exists(job.cluster)
     /\ IF job.name = "select" THEN job'.at = "kubeconfig" ELSE job'.at = "deselect"
  \/ Locate /\ job.at \in {"locate", "relocate"} /\ From({"list"}, job.at, {"selection"})
  \/ ListClusters /\ From({"list"}, "selection", {"contexts"})
  \/ RefreshContexts /\ From({"list"}, "contexts", {"kubeconfig"})
  \/ /\ WriteKubeConfig /\ GenerateKubeConfig(job.cluster)
     /\ From({"select"}, "kubeconfig", {"connect"})
  \/ /\ Connect /\ Reachable(job.cluster) /\ Here.config
     /\ From({"select"}, "connect", {"pools"})
  \/ ConfigureNodepool /\ From({"select"}, "pools", {"pool", "targets"})
  \/ WaitForPool /\ From({"select"}, "wait", {"record"})
  \/ RecordPool /\ From({"select"}, "record", {"targets"})
  \/ RecordPool /\ From({"nodepool"}, "record", {"pool"})
  \/ ConfigureTargets /\ From({"select"}, "targets", {"accounts", "install"})
  \/ InstallComponents /\ From({"select", "reinstall"}, "install", {"installed"})
  \/ LoadTypes /\ From({"reinstall"}, "crds", {"install"})

DestroyMoves ==
  \/ Deselect /\ From({"destroy"}, "deselect", {"empty"})
  \/ EmptyCluster /\ ~Reachable(job.cluster) /\ From({"destroy"}, "empty", {"untag"})
  \/ EmptyCluster /\ job'.todo = DOMAIN Here.accounts /\ From({"destroy"}, "empty", {"unlink"})
  \/ UnlinkAccounts /\ job.todo = {} /\ From({"destroy"}, "unlink", {"untag"})
  \/ UnlinkAccounts /\ From({"destroy"}, "unlink", {"unlink"})
  \/ UntagSubnets /\ From({"destroy"}, "untag", {"pools"})
  \/ DeletePool /\ There.pools = << >> /\ From({"destroy"}, "pools", {"stack"})
  \/ DeletePool /\ From({"destroy", "drop pool"}, "pools", {"gone"})
  \/ DeletePool /\ From({"destroy"}, "gone", {"pools"})
  \/ DeletePool /\ From({"drop pool"}, "gone", {"forget"})

LinkMoves ==
  \/ PickAccount /\ From(Linking, "accounts", {"make", "accounts"})
  \/ MakeServiceAccounts /\ MissingNamespaces = {} /\ From(Linking, "make", {"sync"})
  \/ SyncRole /\ From(Linking, "sync", {"annotate"})
  \/ Annotate /\ From(Linking, "annotate", {"save"})
  \/ SaveAccount /\ From(Linking, "save", {"accounts"})
  \/ SaveTargets /\ job.todo = {} /\ From({"select"}, "accounts", {"install"})
  \/ ImportAccounts /\ From({"import"}, "files", {"accounts"})
  \/ DeleteRole /\ From({"unlink"}, "role", {"annotations"})
  \/ DropAnnotations /\ From({"unlink"}, "annotations", {"object"})

Moves == CreateMoves \/ SelectMoves \/ DestroyMoves \/ LinkMoves

(* Steps of none of the commands.                                          *)
Elsewhere == job' = job /\ (DestroyVpc \/ DestroyElsewhere \/ \E c \in Cluster : PoolSettles(c) \/ Operate(c))

LEMMA MovesAre ==
  ASSUME Typed, HasCluster, Next, job' # Idle, ~Commanded
  PROVE  Moves \/ Elsewhere
<1> USE DEF From, Is
<1> DEFINE Goal == Moves \/ Elsewhere
<1> JobTyped
  BY DEF Typed
<1>g. ASSUME NEW at, Goto(at) PROVE job'.at = at
  BY <1>g, GotoIs
<1>e. ~Ends
  BY DEF Ends
<1>2. CASE Creating
  <2>1. CASE Resume \/ PromptCluster \/ PromptPool
    <3>1. /\ Resume => From({"create"}, "ask", {"vpc"})
          /\ PromptCluster => From({"create"}, "prompt", {"prompt pool"})
          /\ PromptPool => From({"create"}, "prompt pool", {"vpc"})
      BY <1>e DEF Resume, PromptCluster, PromptPool, JobTyped, IsCommand
    <3> QED BY <2>1, <3>1 DEF Moves, CreateMoves
  <2>2. CASE \/ NothingToResume \/ Decline \/ MakeVpc \/ MakeStack \/ StackStops \/ TagSubnets
             \/ AddThumbprint \/ EnsurePool
    <3>1. /\ NothingToResume \/ Decline => From({"create"}, "ask", {"prompt"})
          /\ MakeVpc => From({"create"}, "vpc", {"stack"})
          /\ MakeStack => vpc = "made" /\ From({"create"}, "stack", {"tag"})
          /\ ~StackStops
          /\ TagSubnets => From({"create"}, "tag", {"thumbprint"})
          /\ AddThumbprint => From({"create"}, "thumbprint", {"pool"})
          /\ EnsurePool => From({"create", "select", "nodepool"}, "pool", {"wait"})
      BY <1>g, <1>e DEF NothingToResume, Decline, MakeVpc, MakeStack, StackStops, TagSubnets,
         AddThumbprint, EnsurePool
    <3> QED BY <2>2, <3>1 DEF Moves, CreateMoves
  <2>w. CASE WaitForPool
    BY <2>w, <1>g, <1>e DEF WaitForPool, Moves, CreateMoves, SelectMoves
  <2>3. CASE LoadTypes \/ SaveConfig \/ RecordPool \/ AddAdminRole \/ Activate \/ RemoveFiles
    <3>1. /\ LoadTypes => \/ (Reachable(job.cluster) /\ From({"create"}, "crds", {"config"}))
                           \/ From({"reinstall"}, "crds", {"install"})
          /\ SaveConfig => From({"create"}, "config", {"record"})
          /\ RecordPool => \/ From({"create"}, "record", {"admin"})
                            \/ From({"select"}, "record", {"targets"})
                            \/ From({"nodepool"}, "record", {"pool"})
          /\ AddAdminRole => From({"create"}, "admin", {"activate"})
          /\ Activate => From({"create"}, "activate", {"remove cluster file"})
          /\ RemoveFiles => From({"create"}, "remove cluster file", {"remove pool file"})
      BY <1>g, <1>e DEF LoadTypes, SaveConfig, RecordPool, AddAdminRole, Activate, RemoveFiles
    <3> QED BY <2>3, <3>1 DEF Moves, CreateMoves, SelectMoves
  <2> QED BY <1>2, <2>1, <2>2, <2>w, <2>3 DEF Creating
<1>3. CASE Selecting
  <2>l. CASE Locate
    <3>1. CASE job.name \in {"create", "list"}
      BY <2>l, <3>1, <1>g DEF Locate, Moves, CreateMoves, SelectMoves
    <3>2. CASE job.name \notin {"create", "list"}
      <4>1. job.name # None
        BY <2>l DEF Locate, HasCluster, None
      <4>2. job.cluster \in Cluster /\ Listed[job.cluster] # None
        BY <2>l, <3>2, <4>1, <1>e DEF Locate, HasCluster
      <4>3. Exists(job.cluster)
        BY <4>2 DEF Listed
      <4>4. /\ job.at \in {"locate", "relocate"}
            /\ IF job.name = "select" THEN job'.at = "kubeconfig" ELSE job'.at = "deselect"
        BY <2>l, <3>2, <1>e, <1>g DEF Locate
      <4> QED BY <2>l, <3>2, <4>1, <4>3, <4>4 DEF Moves, SelectMoves
    <3> QED BY <3>1, <3>2
  <2>1. CASE \/ WriteKubeConfig \/ ListClusters \/ RefreshContexts \/ Connect \/ InstallComponents
    <3>1. /\ WriteKubeConfig => \/ From({"create"}, "kubeconfig", {"crds"})
                                 \/ /\ GenerateKubeConfig(job.cluster)
                                    /\ From({"select"}, "kubeconfig", {"connect"})
          /\ ListClusters => From({"list"}, "selection", {"contexts"})
          /\ RefreshContexts => From({"list"}, "contexts", {"kubeconfig"})
          /\ Connect => /\ Reachable(job.cluster) /\ Here.config
                        /\ From({"select"}, "connect", {"pools"})
          /\ InstallComponents => From({"select", "reinstall"}, "install", {"installed"})
      BY <1>g, <1>e DEF WriteKubeConfig, ListClusters, RefreshContexts, Connect, InstallComponents
    <3> QED BY <2>1, <3>1 DEF Moves, CreateMoves, SelectMoves
  <2>2. CASE ConfigureNodepool
    <3>1. \/ Goto("targets")
          \/ \E p \in NextPools(job.cluster) : job' = [job EXCEPT !.at = "pool", !.pool = p]
      BY <2>2 DEF ConfigureNodepool
    <3>2. job'.at \in {"pool", "targets"}
      BY <3>1, <1>g, WithPool
    <3>3. From({"select"}, "pools", {"pool", "targets"})
      BY <2>2, <3>2 DEF ConfigureNodepool
    <3> QED BY <2>2, <3>3 DEF Moves, SelectMoves
  <2>3. CASE ConfigureTargets
    <3>1. From({"select"}, "targets", {"accounts", "install"})
      BY <2>3, <1>g DEF ConfigureTargets, JobTyped, IsCommand
    <3> QED BY <2>3, <3>1 DEF Moves, SelectMoves
  <2> QED BY <1>3, <2>l, <2>1, <2>2, <2>3 DEF Selecting
<1>4. CASE Destroying
  <2>1. CASE EmptyCluster
    <3>1. job.name \in {"destroy"} /\ job.at = "empty"
      BY <2>1 DEF EmptyCluster
    <3>2. \/ Goto("untag") /\ ~Reachable(job.cluster)
          \/ job' = [job EXCEPT !.at = "unlink", !.todo = DOMAIN Here.accounts]
      BY <2>1, <1>e DEF EmptyCluster
    <3>3. CASE Goto("untag") /\ ~Reachable(job.cluster)
      BY <2>1, <3>1, <3>3, <1>g DEF Moves, DestroyMoves
    <3>4. CASE job' = [job EXCEPT !.at = "unlink", !.todo = DOMAIN Here.accounts]
      <4>1. job'.at = "unlink" /\ job'.todo = DOMAIN Here.accounts
        BY <3>4, WithTodo
      <4> QED BY <2>1, <3>1, <4>1 DEF Moves, DestroyMoves
    <3> QED BY <3>2, <3>3, <3>4
  <2>2. CASE UnlinkAccounts
    BY <2>2, <1>g DEF UnlinkAccounts, Moves, DestroyMoves, JobTyped, IsCommand
  <2>3. CASE DeletePool
    BY <2>3, <1>g DEF DeletePool, Moves, DestroyMoves, JobTyped, IsCommand
  <2>4. CASE \/ Deselect \/ UntagSubnets \/ ForgetPool \/ DestroyStack \/ DestroyStops
             \/ DestroyVpc \/ DestroyElsewhere \/ BreakOff
    <3>1. /\ Deselect => From({"destroy"}, "deselect", {"empty"})
          /\ UntagSubnets => From({"destroy"}, "untag", {"pools"})
          /\ ~ForgetPool /\ ~DestroyStack /\ ~DestroyStops /\ ~BreakOff
          /\ DestroyVpc \/ DestroyElsewhere => job' = job
      BY <1>g, <1>e DEF Deselect, UntagSubnets, ForgetPool, DestroyStack, DestroyStops,
         DestroyVpc, DestroyElsewhere, BreakOff
    <3> QED BY <2>4, <3>1 DEF Moves, DestroyMoves, Elsewhere
  <2> QED BY <1>4, <2>1, <2>2, <2>3, <2>4 DEF Destroying
<1>5. CASE LinkAccounts
  <2> AccountSteps
    BY <1>5, LinkingSteps
  <2>1. CASE PickAccount
    <3>1. PICK a : job' \in {[job EXCEPT !.at = "make", !.account = a], [job EXCEPT !.todo = @ \ {a}]}
      BY <2>1 DEF PickAccount
    <3>2. job.name \in Linking /\ job.at = "accounts"
      BY <2>1 DEF PickAccount
    <3>3. job'.at \in {"accounts", "make"}
      BY <3>1, <3>2 DEF JobTyped, IsCommand
    <3> QED BY <2>1, <3>2, <3>3 DEF Moves, LinkMoves
  <2>2. CASE SaveAccount \/ ImportAccounts
    BY <2>2 DEF SaveAccount, ImportAccounts, Moves, LinkMoves, JobTyped, IsCommand
  <2>3. CASE \/ MakeServiceAccounts \/ SyncRole \/ Annotate \/ AccountsDone \/ SaveTargets
             \/ DeleteRole \/ DropAnnotations \/ DeleteAccount
    <3>1. /\ MakeServiceAccounts => MissingNamespaces = {} /\ From(Linking, "make", {"sync"})
          /\ SyncRole => From(Linking, "sync", {"annotate"})
          /\ Annotate => From(Linking, "annotate", {"save"})
          /\ SaveTargets => job.todo = {} /\ From({"select"}, "accounts", {"install"})
          /\ DeleteRole => From({"unlink"}, "role", {"annotations"})
          /\ DropAnnotations => From({"unlink"}, "annotations", {"object"})
          /\ ~AccountsDone /\ ~DeleteAccount
      BY <1>g, <1>e DEF MakeServiceAccounts, SyncRole, Annotate, AccountsDone, SaveTargets,
         DeleteRole, DropAnnotations, DeleteAccount
    <3> QED BY <2>3, <3>1 DEF Moves, LinkMoves
  <2> QED BY <2>1, <2>2, <2>3 DEF AccountSteps
<1>6. ASSUME NEW c \in Cluster, PoolSettles(c) \/ Operate(c) PROVE Goal
  BY <1>6 DEF PoolSettles, Operate, EnsureNamespace, Elsewhere
<1> QED BY <1>2, <1>3, <1>4, <1>5, <1>6, NextIs

(* While a command goes on, what is made in its cluster stays.             *)
LEMMA Remains ==
  ASSUME Typed, HasCluster, Next, job' # Idle, NEW c \in Cluster, ~Untouched(c)
  PROVE  /\ Exists(c) => Exists(c)'
         /\ cloud[c].stack = "made" => cloud'[c].stack = "made"
         /\ cloud[c].thumb => cloud'[c].thumb
         /\ cloud[c].activated => cloud'[c].activated
         /\ cloud[c].tagged = "all" /\ job.name # "destroy" => cloud'[c].tagged = "all"
         /\ InsideGrows(c)
<1>1. cloud[c] \in Resources
  BY DEF Typed, CloudTyped
<1>2. InsideGrows(c)
  BY InsideChange
<1>3. CASE CloudGrows(c)
  BY <1>2, <1>3 DEF CloudGrows
<1>4. CASE job.name = "destroy" /\ cloud'[c] = [cloud[c] EXCEPT !.tagged = "last gone"]
  BY <1>1, <1>2, <1>4 DEF Resources, Exists
<1> QED BY <1>3, <1>4, CloudChange DEF GoneElsewhere

(* Others may have destroyed it only before a command's first steps in it. *)
LEMMA TouchedIs ==
  ASSUME job.name \notin {"select", "destroy"} \/ job.at \notin Early
  PROVE  ~Untouched(job.cluster)
BY DEF Untouched, Early

LEMMA HasClusterStays ==
  ASSUME Typed, HasCluster, Next, CloudTyped'
  PROVE  HasCluster'
<1> JobTyped /\ InsideTyped
  BY DEF Typed
<1>1. CASE job' = Idle
  BY <1>1 DEF Idle, HasCluster, Creates, None
<1>2. CASE Commanded
  BY <1>2, CommandedIs DEF Idle, HasCluster, Creates, Chosen, Stacked, Usable, Reachable, Begins,
     None, Exists, There, Early
<1>3. ASSUME ~Commanded, job' # Idle PROVE HasCluster'
  <2>1. GoesOn
    BY <1>3, JobChange
  <2>2. Moves \/ Elsewhere
    BY <1>3, MovesAre
  <2>n. /\ Resume => job'.cluster \in Cluster /\ job.name = "create"
        /\ PromptCluster => job'.cluster \in Cluster /\ job.name = "create"
    <3>1. Resume => job'.cluster = files.cluster /\ job.name = "create"
      BY DEF Resume, Is, JobTyped, IsCommand
    <3>2. Resume => files.cluster \in Cluster
      BY DEF Resume, Resumable, Typed, WorkTyped, Files
    <3>3. PromptCluster => job'.cluster \in Cluster /\ job.name = "create"
      BY <1>3 DEF PromptCluster, Ends, Is, JobTyped, IsCommand
    <3> QED BY <3>1, <3>2, <3>3
  <2>3. job.name # None \/ job' = job
    BY <2>2 DEF Moves, CreateMoves, SelectMoves, DestroyMoves, LinkMoves, From, Linking, Elsewhere,
       None
  <2>4. ASSUME job'.name \notin {None, "create", "list"}
        PROVE  job'.cluster \in Cluster /\ (job'.at \notin Early => Exists(job.cluster)')
    <3>1. job'.cluster = job.cluster /\ job.cluster \in Cluster /\ job'.name = job.name
      BY <2>1, <2>4, <2>n DEF GoesOn, HasCluster
    <3>2. CASE job.at \notin Early
      <4>1. Exists(job.cluster)
        BY <3>1, <3>2, <2>4 DEF HasCluster
      <4> QED BY <4>1, <3>1, <3>2, <1>3, Remains, TouchedIs
    <3>3. CASE job.at \in Early /\ job'.at \notin Early
      <4>1. (Locate \/ Connect) /\ Exists(job.cluster)
        BY <2>2, <3>3, <3>1, <2>4 DEF Moves, CreateMoves, SelectMoves, DestroyMoves, LinkMoves,
           From, Linking, Elsewhere, Early, Reachable
      <4>2. cloud' = cloud
        BY <4>1 DEF Locate, Connect, KeepsCloud
      <4> QED BY <4>1, <4>2, <3>1 DEF Exists
    <3> QED BY <3>1, <3>2, <3>3
  <2>5. Creates({"prompt pool"} \cup Chosen)' => job'.cluster \in Cluster
    <3>1. Creates({"prompt pool"} \cup Chosen)' =>
            Creates({"prompt pool"} \cup Chosen) \/ Resume \/ PromptCluster
      BY <2>1, <2>2 DEF GoesOn, Moves, CreateMoves, SelectMoves, DestroyMoves, LinkMoves, From,
         Elsewhere,
         Creates, Chosen, Linking
    <3> QED BY <3>1, <2>1, <2>n DEF GoesOn, HasCluster
  <2>6. ASSUME Creates(Stacked)' PROVE There'.stack = "made"
    <3>1. Creates(Stacked) \/ (MakeStack /\ vpc = "made")
      BY <2>1, <2>2, <2>6 DEF GoesOn, Moves, CreateMoves, SelectMoves, DestroyMoves, LinkMoves,
         From, Elsewhere,
         Creates, Stacked, Chosen, Linking
    <3>2. Creates(Chosen) /\ ~Resume /\ ~PromptCluster
      BY <3>1 DEF Creates, Stacked, Chosen, MakeStack, Resume, PromptCluster, Is
    <3>3. job'.cluster = job.cluster /\ job.cluster \in Cluster
      BY <3>2, <2>1 DEF GoesOn, HasCluster, Creates
    <3>4. CASE Creates(Stacked)
      <4>1. ~Untouched(job.cluster)
        BY <3>4, TouchedIs DEF Creates
      <4> QED BY <3>3, <3>4, <4>1, <1>3, Remains DEF HasCluster, There
    <3>5. CASE MakeStack /\ vpc = "made"
      <4>1. cloud[job.cluster] \in Resources
        BY <3>3 DEF Typed, CloudTyped
      <4>2. cloud'[job.cluster] = [cloud[job.cluster] EXCEPT !.stack = "made"]
        BY <3>3, <3>5 DEF MakeStack, InCloud, There, Typed, CloudTyped
      <4> QED BY <3>3, <4>1, <4>2 DEF There, Resources
    <3> QED BY <3>1, <3>4, <3>5
  <2>7. job'.name = None => job'.at = None
    BY <2>1, <2>3 DEF GoesOn, HasCluster
  <2> HIDE <1>3
  <2> QED BY <2>4, <2>5, <2>6, <2>7 DEF HasCluster
<1> QED BY <1>1, <1>2, <1>3

LEMMA HasPoolStays ==
  ASSUME Typed, HasCluster, HasPool, Next
  PROVE  HasPool'
<1> DEFINE Has == \/ Creates(Chosen)
                  \/ job.name \in {"select", "nodepool"} /\ job.at \in {"pool", "wait", "record"}
                  \/ job.name = "drop pool"
<1> JobTyped
  BY DEF Typed
<1>1. CASE job' = Idle
  BY <1>1 DEF Idle, HasPool, Creates, None
<1>2. CASE Commanded
  BY <1>2, CommandedIs DEF Typed, Idle, HasPool, Creates, Chosen, Begins, None
<1>3. ASSUME ~Commanded, job' # Idle, Has' PROVE job'.pool \in Pool
  <2>1. GoesOn
    BY <1>3, JobChange
  <2>2. Moves \/ Elsewhere
    BY <1>3, MovesAre
  <2>n. /\ Resume \/ PromptPool => job'.pool \in Pool
        /\ ConfigureNodepool => job'.pool \in Pool \/ job'.at = "targets"
        /\ DeletePool => job.name = "destroy" \/ job'.pool = job.pool
    <3>1. Resume => job'.pool = files.pool /\ files.pool \in Pool
      BY DEF Resume, Resumable, Typed, WorkTyped, Files, Pool, JobTyped, IsCommand
    <3>2. \A c : NextPools(c) \subseteq Pool
      BY DEF NextPools
    <3>3. ASSUME PromptPool PROVE job'.pool \in Pool
      <4>1. PICK p \in Pool : job' = [job EXCEPT !.at = "vpc", !.pool = p]
        BY <3>2, <3>3 DEF PromptPool
      <4> QED BY <4>1 DEF JobTyped, IsCommand
    <3>4. ConfigureNodepool => job'.pool \in Pool \/ job'.at = "targets"
      <4>1. \/ ~ConfigureNodepool \/ Goto("targets")
            \/ \E p \in NextPools(job.cluster) : job' = [job EXCEPT !.at = "pool", !.pool = p]
        BY DEF ConfigureNodepool
      <4>2. Goto("targets") => job'.at = "targets"
        BY GotoIs
      <4>3. ASSUME NEW p \in Pool, job' = [job EXCEPT !.at = "pool", !.pool = p] PROVE job'.pool \in Pool
        BY <4>3, WithPool
      <4> QED BY <3>2, <4>1, <4>2, <4>3
    <3>5. DeletePool => job.name = "destroy" \/ job'.pool = job.pool
      BY GotoIs DEF DeletePool, Is
    <3> QED BY <3>1, <3>3, <3>4, <3>5
  <2>3. Has \/ Resume \/ PromptPool \/ ConfigureNodepool
    BY <1>3, <2>1, <2>2 DEF GoesOn, Moves, CreateMoves, SelectMoves, DestroyMoves, LinkMoves, From,
       Elsewhere,
       Creates, Chosen, Linking
  <2>4. (ConfigureNodepool => job'.at # "targets") /\ (DeletePool => job.name # "destroy")
    BY <1>3, <2>1 DEF GoesOn, Creates, Chosen, ConfigureNodepool, Is
  <2>5. Has => job.pool \in Pool
    BY DEF HasPool
  <2> HIDE DEF Has
  <2> QED BY <2>1, <2>n, <2>3, <2>4, <2>5 DEF GoesOn
<1> QED BY <1>1, <1>2, <1>3 DEF HasPool

(* Where a command lists accounts, they stay while it goes on.             *)
LEMMA AccountsRemain ==
  ASSUME Typed, HasCluster, HasAccount, Next, job' # Idle, job.cluster \in Cluster,
         ~Untouched(job.cluster)
  PROVE  /\ DOMAIN Here.accounts \subseteq DOMAIN inside'[job.cluster].accounts
         /\ Here.made \subseteq inside'[job.cluster].made
         /\ ImportAccounts => job.todo \subseteq DOMAIN inside'[job.cluster].accounts
         /\ MakeServiceAccounts /\ MissingNamespaces = {} =>
              job.targets \X {job.account} \subseteq inside'[job.cluster].made
<1> /\ JobTyped /\ InsideTyped /\ InsideGrows(job.cluster)
  BY Remains DEF Typed
<1>h. Here \in Holding /\ Here.accounts \in Accounts
  BY DEF InsideTyped, Holding, Here
<1>1. /\ SaveAccount => DOMAIN Here.accounts \subseteq DOMAIN inside'[job.cluster].accounts
      /\ ImportAccounts => (DOMAIN Here.accounts) \cup job.todo \subseteq DOMAIN inside'[job.cluster].accounts
      /\ ~DeleteAccount
  <2>1. CASE SaveAccount
    <3>1. inside'[job.cluster].accounts =
            With(Here.accounts, job.account, [spec |-> Wanted(job.account), hash |-> Wanted(job.account)])
      BY <2>1, <1>h DEF SaveAccount, Change, InsideTyped, Holding
    <3>2. ~ImportAccounts /\ ~DeleteAccount
      BY <2>1 DEF SaveAccount, ImportAccounts, DeleteAccount, Is
    <3> QED BY <3>1, <3>2 DEF With
  <2>2. CASE ImportAccounts
    <3>1. inside'[job.cluster].accounts =
            Over(Here.accounts, [a \in job.todo |-> Imported([targets |-> job.targets, policy |-> job.policy])])
      BY <2>2, <1>h DEF ImportAccounts, Change, InsideTyped, Holding
    <3>2. ~SaveAccount /\ ~DeleteAccount
      BY <2>2 DEF SaveAccount, ImportAccounts, DeleteAccount, Is
    <3> QED BY <3>1, <3>2 DEF Over
  <2> QED BY <2>1, <2>2 DEF DeleteAccount, Ends
<1>2. MakeServiceAccounts =>
        \E S : /\ inside'[job.cluster].made = Here.made \cup S \X {job.account}
               /\ MissingNamespaces = {} => S = job.targets
  <2>1. ASSUME MakeServiceAccounts
        PROVE  \E S : /\ inside'[job.cluster].made = Here.made \cup S \X {job.account}
                      /\ MissingNamespaces = {} => S = job.targets
    <3>1. PICK S : /\ Change([Here EXCEPT !.made = @ \cup S \X {job.account}])
                   /\ MissingNamespaces = {} => S = job.targets
      BY <2>1 DEF MakeServiceAccounts
    <3>2. inside'[job.cluster] = [Here EXCEPT !.made = @ \cup S \X {job.account}]
      BY <3>1 DEF Change, InsideTyped
    <3>3. inside'[job.cluster].made = Here.made \cup S \X {job.account}
      BY <3>2, <1>h DEF Holding
    <3> QED BY <3>1, <3>3
  <2> QED BY <2>1
<1>3. /\ Here.made \subseteq inside'[job.cluster].made
      /\ MakeServiceAccounts /\ MissingNamespaces = {} =>
              job.targets \X {job.account} \subseteq inside'[job.cluster].made
  BY <1>2 DEF InsideGrows, Here
<1>4. DOMAIN Here.accounts \subseteq DOMAIN inside'[job.cluster].accounts
  BY <1>1 DEF InsideGrows, Here
<1> QED BY <1>1, <1>3, <1>4

LEMMA HasAccountStays ==
  ASSUME Typed, HasCluster, HasAccount, Next, job' # Idle, ~Commanded
  PROVE  HasAccount'
<1> /\ JobTyped /\ InsideTyped
  BY DEF Typed
<1> DEFINE Lists == job.name \in {"configure", "select"} \/ (job.name = "import" /\ job.at # "files")
<1> DEFINE Works == job.name \in Linking /\ job.at \in LinkSteps
<1>g. GoesOn
  BY JobChange
<1>m. Moves \/ Elsewhere
  BY MovesAre
<1>c. job.name \in Linking \cup {"unlink"} => job.cluster \in Cluster /\ job'.cluster = job.cluster
  BY <1>g DEF HasCluster, Linking, None, GoesOn, Resume, PromptCluster, Is
<1>u. CASE Untouched(job.cluster)
  <2>1. job.at \in Early /\ job.name \in {"select", "destroy"}
    BY <1>u DEF Untouched, Early
  <2>2. /\ ~Resume /\ ~PromptCluster /\ ~PickAccount /\ ~ConfigureTargets /\ ~ImportAccounts
        /\ ~EmptyCluster /\ ~UnlinkAccounts /\ ~SaveAccount
    BY <2>1 DEF Early, Resume, PromptCluster, PickAccount, ConfigureTargets, ImportAccounts,
       EmptyCluster, UnlinkAccounts, SaveAccount, Is
  <2>3. job'.name = job.name /\ job'.todo = job.todo
    BY <1>g, <2>2 DEF GoesOn
  <2>4. job'.at \notin LinkSteps
    BY <1>m, <2>1 DEF Moves, CreateMoves, SelectMoves, DestroyMoves, LinkMoves, From,
       Elsewhere, Linking, Early, LinkSteps
  <2>5. job'.name = "select" => job'.todo = {}
    BY <2>1, <2>3 DEF HasAccount
  <2> QED BY <2>1, <2>3, <2>4, <2>5 DEF HasAccount, LinkSteps
<1> SUFFICES ASSUME ~Untouched(job.cluster) PROVE HasAccount'
  BY <1>u
<1>0. job'.name = "select" /\ job'.at \in Early \cup {"relocate"} => job'.todo = {}
  <2> SUFFICES ASSUME job'.name = "select", job'.at \in Early \cup {"relocate"} PROVE job'.todo = {}
    OBVIOUS
  <2>1. job.name = "select" /\ job.at \in Early \cup {"relocate"}
    BY <1>m, <1>g DEF Moves, CreateMoves, SelectMoves, DestroyMoves, LinkMoves, From,
       Elsewhere, Linking, Early, GoesOn
  <2>2. /\ ~ConfigureTargets /\ ~EmptyCluster /\ ~UnlinkAccounts /\ ~PickAccount /\ ~SaveAccount
        /\ ~ImportAccounts
    BY <2>1 DEF Early, PickAccount, ConfigureTargets, ImportAccounts, EmptyCluster, UnlinkAccounts,
       SaveAccount, Is
  <2> QED BY <2>1, <2>2, <1>g DEF GoesOn, HasAccount
<1>r. job.name \in Linking \cup {"unlink"} =>
        /\ DOMAIN Here.accounts \subseteq DOMAIN Here'.accounts
        /\ Here.made \subseteq Here'.made
        /\ ImportAccounts => job.todo \subseteq DOMAIN Here'.accounts
        /\ MakeServiceAccounts /\ MissingNamespaces = {} => job.targets \X {job.account} \subseteq Here'.made
  <2>1. job.cluster \in Cluster /\ ~Untouched(job.cluster) =>
         /\ DOMAIN Here.accounts \subseteq DOMAIN inside'[job.cluster].accounts
         /\ Here.made \subseteq inside'[job.cluster].made
         /\ ImportAccounts => job.todo \subseteq DOMAIN inside'[job.cluster].accounts
         /\ MakeServiceAccounts /\ MissingNamespaces = {} =>
              job.targets \X {job.account} \subseteq inside'[job.cluster].made
    BY AccountsRemain
  <2>2. job.name \in Linking \cup {"unlink"} => Here' = inside'[job.cluster]
    BY <1>c DEF Here
  <2> QED BY <1>c, <2>1, <2>2
<1>1. job'.name \in {"account", "import"} => job'.policy \in Policy
  BY <1>g DEF GoesOn, HasAccount
<1>2. ASSUME Lists' PROVE job'.todo \subseteq DOMAIN Here'.accounts
  <2>1. job.name \in Linking
    BY <1>2, <1>g DEF GoesOn, Linking
  <2>2. Lists \/ ImportAccounts
    BY <1>2, <1>g, <1>m DEF GoesOn, Moves, CreateMoves, SelectMoves, DestroyMoves, LinkMoves, From,
       Elsewhere,
       Linking
  <2>3. CASE ImportAccounts
    <3>1. job'.todo = job.todo \cup DOMAIN Here.accounts
      BY <2>3 DEF ImportAccounts, JobTyped, IsCommand
    <3> QED BY <3>1, <2>1, <2>3, <1>r
  <2>4. CASE Lists /\ ~ImportAccounts
    <3>1. /\ PickAccount \/ SaveAccount => job'.todo \subseteq job.todo
          /\ ConfigureTargets => job'.todo \subseteq job.todo \cup DOMAIN Here.accounts
          /\ ~EmptyCluster /\ ~UnlinkAccounts
      <4>2. ASSUME PickAccount PROVE job'.todo \subseteq job.todo
        <5>1. PICK a : job' \in {[job EXCEPT !.at = "make", !.account = a], [job EXCEPT !.todo = @ \ {a}]}
          BY <4>2 DEF PickAccount
        <5>2. job'.todo = job.todo \/ job'.todo = job.todo \ {a}
          BY <5>1 DEF JobTyped, IsCommand
        <5> QED BY <5>2
      <4>3. SaveAccount => job'.todo \subseteq job.todo
        BY DEF SaveAccount, JobTyped, IsCommand
      <4>4. ConfigureTargets => job'.todo \subseteq job.todo \cup DOMAIN Here.accounts
        BY GotoIs DEF ConfigureTargets, JobTyped, IsCommand
      <4>5. ~EmptyCluster /\ ~UnlinkAccounts
        BY <2>1 DEF EmptyCluster, UnlinkAccounts, Is, Linking
      <4> QED BY <4>2, <4>3, <4>4, <4>5
    <3>2. job'.todo \subseteq job.todo \cup DOMAIN Here.accounts
      BY <3>1, <2>4, <1>g DEF GoesOn
    <3> QED BY <3>2, <2>1, <2>4, <1>r DEF HasAccount
  <2> QED BY <2>2, <2>3, <2>4
<1>3. ASSUME Works' PROVE job'.account \in job'.todo
  <2>1. CASE PickAccount
    <3>1. PICK a \in job.todo :
            job' \in {[job EXCEPT !.at = "make", !.account = a], [job EXCEPT !.todo = @ \ {a}]}
      BY <2>1 DEF PickAccount
    <3>2. job' = [job EXCEPT !.at = "make", !.account = a]
      BY <3>1, <2>1, <1>3 DEF PickAccount, Is, LinkSteps, JobTyped, IsCommand
    <3> QED BY <3>1, <3>2 DEF JobTyped, IsCommand
  <2>2. CASE ~PickAccount
    <3>0. ~SaveAccount /\ ~ImportAccounts
      BY <1>3 DEF SaveAccount, ImportAccounts, LinkSteps, JobTyped, IsCommand
    <3>1. Works
      BY <2>2, <3>0, <1>3, <1>g, <1>m DEF GoesOn, Moves, CreateMoves, SelectMoves, DestroyMoves,
         LinkMoves, From,
         Elsewhere, Linking, LinkSteps
    <3>2. ~ConfigureTargets /\ ~EmptyCluster /\ ~UnlinkAccounts
      BY <3>1 DEF ConfigureTargets, EmptyCluster, UnlinkAccounts, Is, Linking, LinkSteps
    <3> QED BY <2>2, <3>0, <3>1, <3>2, <1>g DEF GoesOn, HasAccount
  <2> QED BY <2>1, <2>2
<1>4. ASSUME job'.name = "unlink" PROVE job'.account \in DOMAIN Here'.accounts
  <2>1. job.name = "unlink" /\ ~PickAccount
    BY <1>4, <1>g DEF GoesOn, PickAccount, Is, Linking
  <2> QED BY <2>1, <1>g, <1>r DEF GoesOn, HasAccount
<1>5. ASSUME job'.name \in Linking, job'.at \in {"sync", "annotate", "save"}
      PROVE  job'.targets \X {job'.account} \subseteq Here'.made
  <2>1. job.name \in Linking /\ ~PickAccount /\ ~ConfigureTargets /\ ~ImportAccounts
    BY <1>5, <1>g, <1>m DEF GoesOn, Moves, CreateMoves, SelectMoves, DestroyMoves, LinkMoves, From,
       Elsewhere, Linking, PickAccount, ConfigureTargets, ImportAccounts, Is
  <2>2. job'.targets = job.targets /\ job'.account = job.account
    BY <2>1, <1>g DEF GoesOn
  <2>3. job.at \in {"sync", "annotate", "save"} \/ (MakeServiceAccounts /\ MissingNamespaces = {})
    BY <1>5, <1>g, <1>m DEF GoesOn, Moves, CreateMoves, SelectMoves, DestroyMoves, LinkMoves, From,
       Elsewhere, Linking
  <2> QED BY <2>1, <2>2, <2>3, <1>r DEF HasAccount
<1> HIDE DEF Lists, Works
<1> QED BY <1>0, <1>1, <1>2, <1>3, <1>4, <1>5 DEF HasAccount, Lists, Works

-----------------------------------------------------------------------------
(* The type invariant.                                                     *)

LEMMA IsInsideIs ==
  ASSUME NEW k
  PROVE  IsInside(k) <=> k \in Holding
<1>1. k.accounts \in Accounts <=> IsPartial(k.accounts, Account, AccountObject)
  BY PartialHas DEF Accounts
<1> QED BY <1>1 DEF IsInside, Holding

LEMMA InitTyped == Init => TypeInv
<1> SUFFICES ASSUME Init PROVE TypeInv
  OBVIOUS
<1>1. PICK active \in ActiveAtFirst, k \in FirstInside, selected \in Cluster \cup {None} :
        /\ selected \in active \cup {None}
        /\ inside = [c \in Cluster |-> IF c \in active THEN k ELSE Empty]
        /\ roles = [c \in Cluster |-> IF c \in active
                      THEN [a \in DOMAIN k.accounts |-> k.accounts[a].spec] ELSE << >>]
        /\ cloud = [c \in Cluster |-> IF c \in active THEN Whole(1) ELSE Nothing]
        /\ vpc = IF active = {} THEN "none" ELSE "made"
        /\ conf = [selected |-> selected,
                   known |-> [c \in Cluster |-> IF c \in active THEN "active" ELSE None]]
        /\ kube = IF selected = None THEN [contexts |-> {}, current |-> None]
                  ELSE [contexts |-> active, current |-> selected]
  BY DEF Init
<1>2. active \subseteq Cluster
  OBVIOUS
<1>k. k \in Holding
  BY IsInsideIs DEF IsServing
<1>i. InsideTyped
  BY <1>1, <1>k, EmptyIsHolding DEF InsideTyped
<1>r. RolesTyped
  <2>1. k.accounts \in Accounts
    BY <1>k DEF Holding
  <2>2. DOMAIN k.accounts \subseteq Account /\ \A a \in DOMAIN k.accounts : k.accounts[a] \in AccountObject
    BY <2>1, PartialIs DEF Accounts
  <2>3. \A a \in DOMAIN k.accounts : k.accounts[a].spec \in AccountSpec
    BY <2>2 DEF AccountObject
  <2>4. [a \in DOMAIN k.accounts |-> k.accounts[a].spec] \in [DOMAIN k.accounts -> AccountSpec]
    BY <2>3
  <2>5. [a \in DOMAIN k.accounts |-> k.accounts[a].spec] \in Roles
    BY <2>2, <2>4 DEF Roles, Partial
  <2>6. << >> \in Roles
    BY EmptyIsPartial DEF Roles
  <2> QED BY <1>1, <2>5, <2>6 DEF RolesTyped
<1>w. Whole(1) \in Resources
  <2>1. [q \in {1} |-> "ready"] \in [{1} -> PoolStates]
    BY DEF PoolStates
  <2>2. [{1} -> PoolStates] \subseteq Pools
    BY DEF Pools, Partial, Pool
  <2> QED BY <2>1, <2>2 DEF Whole, Resources
<1>c. CloudTyped
  BY <1>1, <1>w, NothingIsResources DEF CloudTyped
<1>n. NoneIsEmpty
  <2>1. SUFFICES ASSUME NEW c \in Cluster
                 PROVE  Exists(c) \/ (inside[c] = Empty /\ ~cloud[c].activated /\ cloud[c].pools = << >>)
    BY DEF NoneIsEmpty
  <2>2. CASE c \in active
    BY <1>1, <2>2 DEF Exists, Whole
  <2>3. CASE c \notin active
    BY <1>1, <2>3 DEF Nothing
  <2> QED BY <2>2, <2>3
<1>f. WorkTyped
  <2>1. files \in Files
    BY DEF Init, NoFiles, Files
  <2>2. conf \in Conf
    BY <1>1, <1>2 DEF Conf, Statuses
  <2>3. kube \in Kube
    BY <1>1, <1>2 DEF Kube
  <2>4. vpc \in {"none", "made"}
    BY <1>1
  <2> QED BY <2>1, <2>2, <2>3, <2>4 DEF WorkTyped
<1>h. HistoryTyped /\ BoundsTyped /\ JobTyped
  BY IdleIsCommand DEF Init, HistoryTyped, BoundsTyped, JobTyped
<1>j. HasCluster /\ HasPool /\ HasAccount
  BY DEF Init, Idle, HasCluster, HasPool, HasAccount, Creates, None, Linking
<1> QED BY <1>i, <1>r, <1>c, <1>n, <1>f, <1>h, <1>j DEF TypeInv, Typed

LEMMA HasAccountBegins ==
  ASSUME InsideTyped, Commanded
  PROVE  HasAccount'
<1>1. CASE job' = Idle
  BY <1>1 DEF Idle, HasAccount, None, Linking
<1>2. CASE job'.name \in {"create", "list", "select", "destroy"} /\ job'.at = "locate" /\ job'.name # "select"
  BY <1>2 DEF HasAccount, Linking
<1>3. CASE job'.name = "select" /\ job'.at = "locate" /\ job'.todo = {}
  BY <1>3 DEF HasAccount, LinkSteps, Early
<1>4. ASSUME NEW c \in Cluster, job'.cluster = c, Begins(c), UNCHANGED inside PROVE HasAccount'
  <2>1. Here'.accounts = inside[c].accounts
    BY <1>4 DEF Here
  <2> QED BY <1>4, <2>1 DEF Begins, HasAccount, Linking, LinkSteps
<1> QED BY <1>1, <1>2, <1>3, <1>4, CommandedIs

LEMMA TypeStays ==
  ASSUME TypeInv, [Next]_vars
  PROVE  TypeInv'
<1>1. CASE UNCHANGED vars
  <2> /\ UNCHANGED <<inside, roles, job, cloud, vpc, files, conf, kube, abandoned, doomed, strayed>>
      /\ UNCHANGED <<commands, faults>>
    BY <1>1 DEF vars, workstation, history, bounds
  <2>1. WorkTyped' /\ HistoryTyped' /\ BoundsTyped' /\ JobTyped'
    BY DEF TypeInv, Typed, WorkTyped, HistoryTyped, BoundsTyped, JobTyped, IsCommand
  <2>2. InsideTyped' /\ RolesTyped' /\ CloudTyped' /\ NoneIsEmpty'
    BY DEF TypeInv, Typed, InsideTyped, RolesTyped, CloudTyped, NoneIsEmpty, Exists
  <2>3. HasCluster' /\ HasPool' /\ HasAccount'
    <3>1. HasCluster'
      BY DEF TypeInv, HasCluster, Exists, There, Creates
    <3>2. HasPool'
      BY DEF TypeInv, HasPool, Creates
    <3>3. HasAccount'
      BY DEF TypeInv, HasAccount, Here
    <3> QED BY <3>1, <3>2, <3>3
  <2> QED BY <2>1, <2>2, <2>3 DEF TypeInv, Typed
<1>2. CASE Next
  <2> Typed /\ HasCluster /\ HasPool /\ HasAccount
    BY DEF TypeInv
  <2>1. WorkTyped' /\ HistoryTyped' /\ BoundsTyped' /\ JobTyped'
    BY <1>2, WorkStaysTyped, HistoryStaysTyped, BoundsStayTyped, JobStaysTyped DEF Typed
  <2>2. InsideTyped' /\ RolesTyped' /\ CloudTyped' /\ NoneIsEmpty'
    BY <1>2, InsideStaysTyped, RolesStayTyped, CloudStaysTyped, NoneStaysEmpty
  <2>3. HasCluster' /\ HasPool'
    BY <1>2, <2>2, HasClusterStays, HasPoolStays
  <2>4. HasAccount'
    <3>1. CASE job' = Idle
      BY <3>1 DEF Idle, HasAccount, None, Linking
    <3>2. CASE Commanded
      BY <3>2, HasAccountBegins DEF Typed
    <3> QED BY <1>2, <3>1, <3>2, HasAccountStays
  <2> QED BY <2>1, <2>2, <2>3, <2>4 DEF TypeInv, Typed
<1> QED BY <1>1, <1>2

LEMMA TypeInvariant == Spec => []TypeInv
<1>1. Init => TypeInv
  BY InitTyped
<1>2. TypeInv /\ [Next]_vars => TypeInv'
  BY TypeStays
<1> QED BY <1>1, <1>2, PTL DEF Spec

(* Types, and that a cluster without a stack holds nothing, is not shown   *)
(* as active and has no node pool.                                         *)
THEOREM ClustersTypeCorrect == Spec => []TypeOK
<1>1. TypeInv => TypeOK
  <2> SUFFICES ASSUME TypeInv PROVE TypeOK
    OBVIOUS
  <2> Typed
    BY DEF TypeInv
  <2>1. InsideTypeOK
    <3>1. \A c \in Cluster : IsInside(inside[c])
      BY IsInsideIs DEF Typed, InsideTyped
    <3>2. \A c \in Cluster : roles[c] \in Partial(Account, AccountSpec)
      BY DEF Typed, RolesTyped, Roles
    <3>3. \A c \in Cluster : IsPartial(roles[c], Account, AccountSpec)
      BY <3>2, PartialHas
    <3> QED BY <3>1, <3>3 DEF InsideTypeOK, Typed, InsideTyped, RolesTyped
  <2>2. ASSUME NEW c \in Cluster
        PROVE  /\ cloud[c] \in [stack : Range(Stages), activated : BOOLEAN, thumb : BOOLEAN,
                                tagged : {"none", "last gone", "all"}, pools : {cloud[c].pools}]
               /\ IsPartial(cloud[c].pools, Pool, {"creating", "ready", "failed", "deleting"})
    <3>1. cloud[c] \in Resources
      BY DEF Typed, CloudTyped
    <3>2. cloud[c].pools \in Partial(Pool, PoolStates)
      BY <3>1 DEF Resources, Pools
    <3>3. IsPartial(cloud[c].pools, Pool, PoolStates)
      BY <3>2, PartialHas
    <3>4. {"none", "roles", "eks", "made"} \subseteq Range(Stages)
      BY StagesAre DEF Range
    <3>5. cloud[c] \in [stack : Range(Stages), activated : BOOLEAN, thumb : BOOLEAN,
                        tagged : {"none", "last gone", "all"}, pools : {cloud[c].pools}]
      BY <3>1, <3>4 DEF Resources
    <3> QED BY <3>3, <3>5 DEF PoolStates
  <2>3. DOMAIN cloud = Cluster
    BY DEF Typed, CloudTyped
  <2>4. /\ vpc \in {"none", "made"} /\ IsCommand(job)
        /\ files \in [cluster : Cluster \cup {None}, newVpc : BOOLEAN, pool : 0..MaxPools]
        /\ conf \in [selected : Cluster \cup {None}, known : [Cluster -> Statuses]]
        /\ kube \in [contexts : SUBSET Cluster, current : Cluster \cup {None}]
    BY DEF Typed, WorkTyped, JobTyped, Files, Conf, Kube
  <2>5. abandoned \cup doomed \cup strayed \subseteq Cluster /\ commands \in Nat /\ faults \in Nat
    BY DEF Typed, HistoryTyped, BoundsTyped
  <2> QED BY <2>1, <2>2, <2>3, <2>4, <2>5 DEF TypeOK, Typed, NoneIsEmpty
<1> QED BY <1>1, TypeInvariant, PTL

-----------------------------------------------------------------------------
(* What the client knows while it relies on it.                            *)

Destroys(S) == job.name = "destroy" /\ job.at \in S
Emptying == {"empty", "unlink", "untag", "pools", "gone", "stack"}

KnownInv ==
  /\ Creates({"ask", "prompt"}) => Names \subseteq KnownNames
  /\ Creates({"prompt pool"}) => ~Exists(job.cluster)
  /\ job.name = "select" /\ job.at = "connect" /\ job.cluster \in kube.contexts =>
       kube.current = job.cluster
  /\ Destroys(Emptying) => job.cluster \in doomed /\ conf.selected # job.cluster

(* No cluster comes behind a command, but by what it makes, and its own    *)
(* does not go.                                                            *)
LEMMA ExistsStays ==
  ASSUME Typed, HasCluster, Next, job' # Idle, ~MakeStack, NEW c \in Cluster
  PROVE  /\ Exists(c)' => Exists(c)
         /\ ~Untouched(c) => Exists(c)' = Exists(c)
<1>1. cloud[c] \in Resources
  BY DEF Typed, CloudTyped
<1>2. ~StackStops
  BY DEF StackStops, Ends
<1>3. CASE CloudGrows(c)
  BY <1>2, <1>3 DEF CloudGrows, Exists
<1>4. CASE cloud'[c] = [cloud[c] EXCEPT !.tagged = "last gone"]
  BY <1>1, <1>4 DEF Resources, Exists
<1>5. CASE GoneElsewhere(c)
  BY <1>5 DEF GoneElsewhere, Exists
<1> QED BY <1>3, <1>4, <1>5, CloudChange

LEMMA KnownStays ==
  ASSUME TypeInv, KnownInv, Next
  PROVE  KnownInv'
<1> /\ Typed /\ HasCluster /\ HasPool /\ HasAccount /\ JobTyped /\ conf \in Conf
  BY DEF TypeInv, Typed, WorkTyped
<1>1. CASE job' = Idle
  BY <1>1 DEF KnownInv, Idle, Creates, Destroys, None
<1>2. CASE Commanded /\ job' # Idle
  <2>1. job'.at = "locate" \/ job'.name \notin {"create", "select", "list", "destroy"}
    BY <1>2, CommandedIs DEF Begins, Typed
  <2> QED BY <2>1 DEF KnownInv, Creates, Destroys, Emptying
<1>3. CASE ~Commanded /\ job' # Idle
  <2>g. GoesOn /\ (Moves \/ Elsewhere)
    BY <1>3, JobChange, MovesAre
  <2>m. MakeStack => job.name = "create" /\ job'.at = "tag"
    BY <1>3, GotoIs DEF MakeStack, Ends, Is
  <2>l. /\ conf'.known = conf.known \/ Locate
        /\ Locate => conf'.known = Listed
    BY <1>3, WorkFrame DEF WorkChanges, Locate, WriteKubeConfig, ListClusters, RefreshContexts,
       PromptCluster,
       PromptPool, MakeVpc, RemoveFiles, Connect, Deselect, Reset, DestroyVpc, workstation, Conf,
       Commanded
  <2>1. ASSUME Creates({"ask", "prompt"})' PROVE Names' \subseteq KnownNames'
    <3>1. Creates({"ask", "prompt"}) \/ Locate
      BY <2>1, <2>g DEF GoesOn, Moves, CreateMoves, SelectMoves, DestroyMoves, LinkMoves, From,
         Elsewhere,
         Creates, Linking
    <3>2. ~MakeStack
      BY <2>1, <2>m, <2>g DEF GoesOn, Creates, None
    <3>3. Names' \subseteq Names
      BY <3>2, <1>3, ExistsStays DEF Names, Exists
    <3>4. CASE Locate
      <4>1. \A c \in Names : conf'.known[c] # None
        BY <2>l, <3>4 DEF Names, Listed, None
      <4> QED BY <3>3, <4>1 DEF KnownNames, Names
    <3>5. CASE ~Locate
      <4>1. KnownNames' = KnownNames
        BY <2>l, <3>5 DEF KnownNames
      <4> QED BY <3>1, <3>3, <3>5, <4>1 DEF KnownInv
    <3> QED BY <3>4, <3>5
  <2>2. ASSUME Creates({"prompt pool"})' PROVE ~Exists(job.cluster)'
    <3>1. ~MakeStack
      BY <2>2, <2>m DEF Creates, None
    <3>2. \A c \in Cluster : ~Exists(c) => ~Exists(c)'
      BY <3>1, <1>3, ExistsStays
    <3>3. CASE PromptCluster
      <4>1. PICK c \in Cluster : c \notin KnownNames /\ job' = [job EXCEPT !.at = "prompt pool", !.cluster = c]
        BY <3>3, <1>3 DEF PromptCluster, Ends
      <4>2. Names \subseteq KnownNames
        BY <3>3 DEF PromptCluster, Is, KnownInv, Creates
      <4>3. ~Exists(c)
        BY <4>1, <4>2 DEF Names
      <4>4. job'.cluster = c
        BY <4>1 DEF JobTyped, IsCommand
      <4> QED BY <3>2, <4>3, <4>4 DEF Exists
    <3>4. CASE ~PromptCluster
      <4>1. Creates({"prompt pool"})
        BY <2>2, <3>4, <2>g DEF GoesOn, Moves, CreateMoves, SelectMoves, DestroyMoves, LinkMoves,
           From, Elsewhere,
           Creates, Linking
      <4>2. job'.cluster = job.cluster /\ job.cluster \in Cluster
        BY <3>4, <4>1, <2>g DEF GoesOn, HasCluster, Creates, Resume, Is
      <4> QED BY <3>2, <4>1, <4>2 DEF KnownInv, Exists
    <3> QED BY <3>3, <3>4
  <2>3. ASSUME job'.name = "select", job'.at = "connect", job'.cluster \in kube'.contexts
        PROVE  kube'.current = job'.cluster
    <3>1. job.name = "select" /\ job'.cluster = job.cluster /\ job.cluster \in Cluster
      BY <2>3, <2>g DEF GoesOn, Resume, PromptCluster, Is, HasCluster, None
    <3>2. CASE WriteKubeConfig
      <4>1. GenerateKubeConfig(job.cluster) /\ job.at = "kubeconfig"
        <5>1. \/ GenerateKubeConfig(job.cluster) \/ Ends
          BY <3>1, <3>2 DEF WriteKubeConfig
        <5> QED BY <5>1, <3>2, <1>3 DEF Ends, WriteKubeConfig, Is
      <4>2. kube'.contexts = Names
        BY <4>1 DEF GenerateKubeConfig
      <4> QED BY <2>3, <3>1, <4>1, <4>2 DEF GenerateKubeConfig, Current
    <3>3. CASE ~WriteKubeConfig
      <4>1. job.at = "connect"
        BY <2>3, <3>1, <3>3, <2>g DEF Moves, CreateMoves, SelectMoves, DestroyMoves, LinkMoves,
           From, Elsewhere,
           Linking
      <4>2. kube' = kube
        BY <1>3, <3>1, <3>3, <4>1, WorkFrame DEF WorkChanges, Locate, ListClusters,
           RefreshContexts, PromptCluster,
           PromptPool, MakeVpc, RemoveFiles, Connect, Deselect, Reset, DestroyVpc, workstation, Is
      <4> QED BY <2>3, <3>1, <4>1, <4>2 DEF KnownInv
    <3> QED BY <3>2, <3>3
  <2>4. ASSUME Destroys(Emptying)' PROVE job'.cluster \in doomed' /\ conf'.selected # job'.cluster
    <3>1. job.name = "destroy" /\ job'.cluster = job.cluster /\ job.cluster \in Cluster
      BY <2>4, <2>g DEF GoesOn, Resume, PromptCluster, Is, HasCluster, None, Destroys
    <3>2. CASE Deselect
      BY <3>1, <3>2 DEF Deselect, Conf, None
    <3>3. CASE ~Deselect
      <4>1. Destroys(Emptying)
        BY <2>4, <3>1, <3>3, <2>g DEF Moves, CreateMoves, SelectMoves, DestroyMoves, LinkMoves,
           From, Elsewhere,
           Linking, Destroys, Emptying
      <4>2. doomed' = doomed
        BY <1>3, <3>1, <3>3, HistoryFrame DEF HistoryChanges, Decline, PromptPool, UnlinkAccounts,
           BreakOff, Is
      <4>3. conf'.selected = conf.selected
        BY <1>3, <3>1, <3>3, <4>1, WorkFrame DEF WorkChanges, Locate, WriteKubeConfig,
           ListClusters, RefreshContexts,
           PromptCluster, PromptPool, MakeVpc, RemoveFiles, Connect, Reset, DestroyVpc,
           workstation, Is, Conf,
           Destroys, Emptying, Commanded
      <4> QED BY <3>1, <4>1, <4>2, <4>3 DEF KnownInv
    <3> QED BY <3>2, <3>3
  <2> QED BY <2>1, <2>2, <2>3, <2>4 DEF KnownInv
<1> QED BY <1>1, <1>2, <1>3

LEMMA KnownInvariant == Spec => []KnownInv
<1>1. Init => KnownInv
  BY DEF Init, Idle, KnownInv, Creates, Destroys, None
<1>2. ASSUME TypeInv, KnownInv, UNCHANGED vars PROVE KnownInv'
  BY <1>2 DEF vars, workstation, history, bounds, KnownInv, Creates, Destroys, Exists, Names,
     KnownNames
<1>3. TypeInv /\ KnownInv /\ [Next]_vars => KnownInv'
  BY <1>2, KnownStays
<1> QED BY <1>1, <1>3, TypeInvariant, PTL DEF Spec

(* The client's configuration and kubectl's, from one step to the next.    *)
Follows ==
  /\ conf'.selected # conf.selected /\ conf'.selected # None => kube'.current = conf'.selected
  /\ kube' # kube /\ conf'.selected # None /\ job.name # "select" =>
       kube'.current = conf'.selected \/ conf'.selected \notin Names

LEMMA StepFollows ==
  ASSUME TypeInv, KnownInv, Next
  PROVE  Follows
<1> /\ Typed /\ conf \in Conf /\ job.cluster \in Cluster \cup {None}
  BY DEF TypeInv, Typed, WorkTyped, JobTyped, IsCommand
<1>1. CASE conf' = conf /\ kube' = kube
  BY <1>1 DEF Follows
<1>2. CASE Locate
  BY <1>2 DEF Locate, Follows, Conf
<1>3. CASE WriteKubeConfig
  <2>1. conf' = conf
    BY <1>3 DEF WriteKubeConfig
  <2>2. CASE kube' = kube \/ job.name = "select"
    BY <2>1, <2>2 DEF Follows
  <2>3. CASE kube' # kube /\ job.name # "select"
    <3>1. GenerateKubeConfig(conf.selected)
      BY <1>3, <2>3 DEF WriteKubeConfig
    <3>2. conf.selected \in Names => kube'.current = conf.selected
      BY <3>1 DEF GenerateKubeConfig, Current
    <3> QED BY <2>1, <3>2 DEF Follows
  <2> QED BY <2>2, <2>3
<1>4. CASE ListClusters \/ Deselect \/ Reset
  <2>1. kube' = kube /\ conf'.selected \in {conf.selected, None}
    BY <1>4 DEF ListClusters, Deselect, Reset, Conf
  <2> QED BY <2>1 DEF Follows
<1>5. CASE Connect
  <2>1. kube' = kube /\ (conf' = conf \/ (conf'.selected = job.cluster /\ Reachable(job.cluster)))
    BY <1>5 DEF Connect, Conf
  <2>2. Reachable(job.cluster) => kube.current = job.cluster
    BY <1>5 DEF Connect, Is, KnownInv, Reachable
  <2> QED BY <2>1, <2>2 DEF Follows
<1>6. CASE PromptCluster \/ PromptPool \/ MakeVpc \/ RemoveFiles \/ DestroyVpc \/ RefreshContexts
  BY <1>6, <1>1 DEF PromptCluster, PromptPool, MakeVpc, RemoveFiles, DestroyVpc, RefreshContexts,
     workstation
<1> QED BY <1>1, <1>2, <1>3, <1>4, <1>5, <1>6, WorkFrame DEF WorkChanges

(* A cluster is selected only when kubectl's current context is its own,   *)
(* whoever destroys clusters meanwhile, and kubectl's context leaves the   *)
(* selected cluster only by a select that is not yet done, or because that *)
(* cluster is gone when kubectl's configuration is written.                *)
THEOREM KubectlStaysWithSelection == Spec => KubectlFollows
<1>1. TypeInv /\ KnownInv /\ [Next]_vars =>
        [LET was == conf.selected  is == conf'.selected
         IN  /\ is # was /\ is # None => kube'.current = is
             /\ kube' # kube /\ is # None /\ job.name # "select" =>
                  kube'.current = is \/ is \notin Names]_vars
  BY StepFollows DEF Follows
<1> QED BY <1>1, TypeInvariant, KnownInvariant, PTL DEF Spec, KubectlFollows

-----------------------------------------------------------------------------
(* What a creation has made, step by step.                                 *)

Released == {"remove cluster file", "remove pool file"}
Administered == Released \cup {"activate"}
Configured == Administered \cup {"record", "admin"}
Known == Configured \cup {"config"}
Trusted == Known \cup {"pool", "wait", "relocate", "kubeconfig", "crds"}
Tagged == Trusted \cup {"thumbprint"}

ProgressInv ==
  /\ Creates(Tagged) => There.tagged = "all"
  /\ Creates(Trusted) => There.thumb
  /\ Creates(Known) => Here.crds
  /\ Creates(Configured) => Here.config
  /\ Creates(Administered) => Here.admin
  /\ Creates(Released) => There.activated

LEMMA ProgressStays ==
  ASSUME TypeInv, ProgressInv, Next
  PROVE  ProgressInv'
<1> USE DEF Released, Administered, Configured, Known, Trusted, Tagged
<1> /\ Typed /\ HasCluster /\ JobTyped /\ CloudTyped /\ InsideTyped
  BY DEF TypeInv, Typed
<1>1. CASE job' = Idle
  BY <1>1 DEF ProgressInv, Idle, Creates, None
<1>2. CASE Commanded /\ job' # Idle
  <2>1. job'.at = "locate" \/ job'.name # "create"
    BY <1>2, CommandedIs DEF Begins
  <2> QED BY <2>1 DEF ProgressInv, Creates
<1>3. CASE ~Commanded /\ job' # Idle
  <2>g. GoesOn /\ (Moves \/ Elsewhere)
    BY <1>3, JobChange, MovesAre
  <2>1. CASE ~Creates(Tagged)'
    BY <2>1 DEF ProgressInv, Creates
  <2>2. CASE Creates(Tagged)'
    <3>1. /\ Creates(Tagged)' => Creates(Tagged) \/ TagSubnets
          /\ Creates(Trusted)' => Creates(Trusted) \/ AddThumbprint
          /\ Creates(Known)' => Creates(Known) \/ (LoadTypes /\ Reachable(job.cluster))
          /\ Creates(Configured)' => Creates(Configured) \/ SaveConfig
          /\ Creates(Administered)' => Creates(Administered) \/ AddAdminRole
          /\ Creates(Released)' => Creates(Released) \/ Activate
      BY <2>g DEF GoesOn, Moves, CreateMoves, SelectMoves, DestroyMoves, LinkMoves, From, Elsewhere,
         Creates, Linking
    <3>2. Creates(Stacked) /\ job.name = "create"
      BY <2>2, <2>g DEF GoesOn, Moves, CreateMoves, SelectMoves, DestroyMoves, LinkMoves, From,
         Elsewhere,
         Creates, Linking, Stacked, Chosen
    <3>3. job.cluster \in Cluster /\ job'.cluster = job.cluster
      BY <3>2, <2>g DEF GoesOn, HasCluster, Creates, Stacked, Chosen, Resume, PromptCluster, Is
    <3>4. There \in Resources /\ There' = cloud'[job.cluster] /\ Here \in Holding /\ Here' = inside'[job.cluster]
      BY <3>3 DEF There, Here, CloudTyped, InsideTyped
    <3>5. /\ There.tagged = "all" => There'.tagged = "all"
          /\ There.thumb => There'.thumb
          /\ There.activated => There'.activated
          /\ Here.crds => Here'.crds
          /\ Here.config => Here'.config
          /\ Here.admin => Here'.admin
      <4>1. ~Untouched(job.cluster)
        BY <3>2, TouchedIs
      <4> QED BY <4>1, <3>2, <3>3, <3>4, <1>3, Remains DEF There, Here, InsideGrows
    <3>6. ASSUME TagSubnets PROVE There'.tagged = "all"
      <4>1. cloud'[job.cluster] = [There EXCEPT !.tagged = "all"]
        BY <3>3, <3>6 DEF TagSubnets, InCloud, CloudTyped
      <4> QED BY <3>4, <4>1 DEF Resources
    <3>7. ASSUME AddThumbprint PROVE There'.thumb
      <4>1. cloud'[job.cluster] = [There EXCEPT !.thumb = TRUE]
        BY <3>3, <3>7 DEF AddThumbprint, InCloud, CloudTyped
      <4> QED BY <3>4, <4>1 DEF Resources
    <3>8. ASSUME Activate PROVE There'.activated
      <4>1. cloud'[job.cluster] = [There EXCEPT !.activated = TRUE]
        BY <3>3, <3>8 DEF Activate, InCloud, CloudTyped
      <4> QED BY <3>4, <4>1 DEF Resources
    <3>9. ASSUME LoadTypes, Reachable(job.cluster) PROVE Here'.crds
      <4>1. inside'[job.cluster] = [Here EXCEPT !.crds = TRUE]
        BY <3>3, <3>9 DEF LoadTypes, Change, InsideTyped
      <4> QED BY <3>4, <4>1 DEF Holding
    <3>10. ASSUME SaveConfig PROVE Here'.config
      <4>1. inside'[job.cluster] = [Here EXCEPT !.config = TRUE, !.targets = {}]
        BY <3>3, <3>10 DEF SaveConfig, Change, InsideTyped
      <4> QED BY <3>4, <4>1 DEF Holding
    <3>11. ASSUME AddAdminRole PROVE Here'.admin
      <4>1. inside'[job.cluster] = [Here EXCEPT !.admin = TRUE]
        BY <3>3, <3>11 DEF AddAdminRole, Change, InsideTyped
      <4> QED BY <3>4, <4>1 DEF Holding
    <3> HIDE DEF Released, Administered, Configured, Known, Trusted, Tagged
    <3> QED BY <3>1, <3>5, <3>6, <3>7, <3>8, <3>9, <3>10, <3>11 DEF ProgressInv
  <2> QED BY <2>1, <2>2
<1> QED BY <1>1, <1>2, <1>3

LEMMA ProgressInvariant == Spec => []ProgressInv
<1>1. Init => ProgressInv
  BY DEF Init, Idle, ProgressInv, Creates, None
<1>2. ASSUME ProgressInv, UNCHANGED vars PROVE ProgressInv'
  BY <1>2 DEF vars, ProgressInv, Creates, There, Here
<1>3. TypeInv /\ ProgressInv /\ [Next]_vars => ProgressInv'
  BY <1>2, ProgressStays
<1> QED BY <1>1, <1>3, TypeInvariant, PTL DEF Spec

(* What is given up or destroyed is so until it is created again.          *)
LEMMA StaysGivenUp ==
  ASSUME Next, NEW c,
         (c \in doomed /\ c \notin doomed') \/ (c \in abandoned /\ c \notin abandoned')
         \/ (c \in strayed /\ c \notin strayed')
  PROVE  PromptPool /\ Creates({"prompt pool"}) /\ c = job.cluster
<1>1. PromptPool => Creates({"prompt pool"})
  BY DEF PromptPool, Is, Creates
<1>2. ~PromptPool => doomed \subseteq doomed' /\ abandoned \subseteq abandoned' /\ strayed \subseteq strayed'
  BY HistoryFrame DEF HistoryChanges, Decline, Deselect, UnlinkAccounts, BreakOff
<1>3. PromptPool => /\ doomed' = doomed \ {job.cluster} /\ abandoned' = abandoned \ {job.cluster}
                    /\ strayed' = strayed \ {job.cluster}
  BY DEF PromptPool
<1> QED BY <1>1, <1>2, <1>3

LEMMA WholeStays ==
  ASSUME TypeInv, KnownInv, ProgressInv, ActiveIsWhole, Next
  PROVE  ActiveIsWhole'
<1> /\ Typed /\ HasCluster /\ JobTyped /\ CloudTyped /\ InsideTyped /\ NoneIsEmpty
  BY DEF TypeInv, Typed
<1> SUFFICES ASSUME NEW c \in Cluster, c \notin doomed', cloud'[c].activated
             PROVE  /\ cloud'[c].stack = "made" /\ cloud'[c].thumb /\ cloud'[c].tagged = "all"
                    /\ inside'[c].admin /\ inside'[c].crds /\ inside'[c].config
  BY DEF ActiveIsWhole
<1>r. cloud[c] \in Resources
  BY DEF CloudTyped
<1>e. Exists(c)
  BY AddedInExisting
<1>1. c \notin doomed
  BY <1>e, StaysGivenUp DEF KnownInv
<1>2. ~(job.name = "destroy" /\ job.at \in {"untag", "stack"} /\ job.cluster = c)
  BY <1>1 DEF KnownInv, Destroys, Emptying
<1>3. CloudGrows(c)
  BY <1>e, <1>2, CloudChange DEF Gone, GoneElsewhere
<1>4. InsideGrows(c)
  BY <1>2, InsideChange DEF Gone
<1>5. CASE cloud[c].activated
  BY <1>1, <1>3, <1>4, <1>5 DEF ActiveIsWhole, CloudGrows, InsideGrows
<1>6. CASE c = job.cluster /\ Activate
  <2>1. Creates({"activate"})
    BY <1>6 DEF Activate, Is, Creates
  <2>2. There.stack = "made" /\ There.tagged = "all" /\ There.thumb /\ Here.crds /\ Here.config /\ Here.admin
    BY <2>1 DEF HasCluster, ProgressInv, Creates, Stacked, Chosen, Released, Administered,
       Configured, Known,
       Trusted, Tagged
  <2> QED BY <1>3, <1>4, <1>6, <2>2 DEF There, Here, CloudGrows, InsideGrows
<1> QED BY <1>3, <1>5, <1>6 DEF CloudGrows

(* A cluster is shown as active only once all that a creation makes is     *)
(* there, however often it was interrupted and resumed, until it is        *)
(* destroyed.                                                              *)
THEOREM ActiveStaysWhole == Spec => []ActiveIsWhole
<1>1. ASSUME Init PROVE ActiveIsWhole
  <2>1. SUFFICES ASSUME NEW c \in Cluster, cloud[c].activated
                 PROVE  /\ cloud[c].stack = "made" /\ cloud[c].thumb /\ cloud[c].tagged = "all"
                        /\ inside[c].admin /\ inside[c].crds /\ inside[c].config
    BY DEF ActiveIsWhole
  <2>2. PICK active \in ActiveAtFirst, k \in FirstInside :
          /\ inside = [d \in Cluster |-> IF d \in active THEN k ELSE Empty]
          /\ cloud = [d \in Cluster |-> IF d \in active THEN Whole(1) ELSE Nothing]
    BY <1>1 DEF Init
  <2>3. c \in active
    BY <2>1, <2>2 DEF Nothing
  <2> QED BY <2>2, <2>3 DEF Whole, IsServing
<1>2. ASSUME ActiveIsWhole, UNCHANGED vars PROVE ActiveIsWhole'
  BY <1>2 DEF vars, history, ActiveIsWhole
<1>3. TypeInv /\ KnownInv /\ ProgressInv /\ ActiveIsWhole /\ [Next]_vars => ActiveIsWhole'
  BY <1>2, WholeStays
<1> QED BY <1>1, <1>3, TypeInvariant, KnownInvariant, ProgressInvariant, PTL DEF Spec

-----------------------------------------------------------------------------
(* What lets a creation be resumed: the files name what it has begun, from *)
(* the prompts to its end, and nothing is begun while they do not.         *)

Unfinished(c) == cloud[c].stack # "none" /\ ~cloud[c].activated
Clean == \A c \in Cluster \ (abandoned \cup doomed) : ~Unfinished(c)

ResumeInv ==
  /\ CreationsCanBeResumed
  /\ Creates(Chosen \ {"remove pool file"}) => files.cluster = job.cluster /\ files.pool = job.pool
  /\ Creates({"prompt", "prompt pool", "remove pool file"}) => Clean
  /\ Creates({"prompt pool"}) => files.cluster = job.cluster

(* A cluster becomes unfinished where its terraform is applied, and where  *)
(* one that was given up is named again.                                   *)
LEMMA UnfinishedBefore ==
  ASSUME TypeInv, KnownInv, Next,
         NEW c \in Cluster, c \notin abandoned', c \notin doomed', Unfinished(c)'
  PROVE  \/ c \notin abandoned \cup doomed /\ Unfinished(c)
         \/ c = job.cluster /\ (MakeStack \/ StackStops \/ PromptPool)
<1> /\ Typed /\ HasCluster /\ CloudTyped
  BY DEF TypeInv, Typed
<1>r. cloud[c] \in Resources
  BY DEF CloudTyped
<1>1. CASE c \in abandoned \cup doomed
  <2>1. c \in doomed => PromptPool /\ c = job.cluster
    BY StaysGivenUp
  <2>2. c \in abandoned => PromptPool /\ c = job.cluster
    BY StaysGivenUp
  <2> QED BY <1>1, <2>1, <2>2
<1>2. CASE c \notin abandoned \cup doomed
  <2>1. ~(job.name = "destroy" /\ job.at = "stack" /\ job.cluster = c)
    BY <1>2 DEF KnownInv, Destroys, Emptying
  <2>2. CASE CloudGrows(c)
    BY <1>2, <2>2 DEF CloudGrows, Unfinished
  <2>3. CASE \E t : cloud'[c] = [cloud[c] EXCEPT !.tagged = t]
    <3>1. PICK t : cloud'[c] = [cloud[c] EXCEPT !.tagged = t]
      BY <2>3
    <3> QED BY <1>2, <1>r, <3>1 DEF Resources, Unfinished
  <2>4. CASE cloud'[c].stack = "none"
    BY <2>4 DEF Unfinished
  <2> QED BY <2>1, <2>2, <2>3, <2>4, CloudChange DEF GoneElsewhere
<1> QED BY <1>1, <1>2

(* The files, from one step to the next.                                   *)
LEMMA PromptPoolIs ==
  ASSUME TypeInv, PromptPool
  PROVE  /\ Creates({"prompt pool"})
         /\ files'.cluster = files.cluster /\ files'.pool # 0
         /\ job'.at = "vpc" /\ job'.cluster = job.cluster /\ job'.pool = files'.pool
<1> files \in Files /\ IsCommand(job)
  BY DEF TypeInv, Typed, WorkTyped, JobTyped
<1>1. PICK p \in NextPools(job.cluster) :
        files' = [files EXCEPT !.pool = p] /\ job' = [job EXCEPT !.at = "vpc", !.pool = p]
  BY DEF PromptPool
<1>2. p # 0
  BY DEF NextPools, Pool
<1> QED BY <1>1, <1>2 DEF PromptPool, Is, Creates, Files, IsCommand

LEMMA FilesChange ==
  ASSUME TypeInv, Next
  PROVE  \/ files' = files
         \/ PromptCluster /\ Creates({"prompt"})
         \/ PromptPool /\ Creates({"prompt pool"})
         \/ RemoveFiles /\ Creates({"remove cluster file", "remove pool file"})
<1>1. files' = files \/ PromptCluster \/ PromptPool \/ RemoveFiles
  BY WorkFrame DEF WorkChanges, Locate, WriteKubeConfig, ListClusters, RefreshContexts, MakeVpc,
     Connect,
     Deselect, Reset, DestroyVpc, workstation
<1>2. PromptCluster => Creates({"prompt"})
  BY DEF PromptCluster, Is, Creates
<1>3. RemoveFiles => Creates({"remove cluster file", "remove pool file"})
  BY DEF RemoveFiles, Is, Creates
<1>4. PromptPool => Creates({"prompt pool"})
  BY DEF PromptPool, Is, Creates
<1> QED BY <1>1, <1>2, <1>3, <1>4

LEMMA ResumableStays ==
  ASSUME TypeInv, KnownInv, ProgressInv, ResumeInv, Next
  PROVE  CreationsCanBeResumed'
<1> SUFFICES ASSUME NEW c \in Cluster, c \notin abandoned', c \notin doomed', Unfinished(c)'
             PROVE  files'.cluster = c /\ files'.pool # 0
  BY DEF CreationsCanBeResumed, Unfinished
<1>k. CreationsCanBeResumed
  BY DEF ResumeInv
<1>1. CASE c = job.cluster /\ (MakeStack \/ StackStops)
  <2>1. Creates({"stack"}) /\ files' = files
    BY <1>1 DEF MakeStack, StackStops, Is, Creates, workstation
  <2>2. job.pool \in Pool
    BY <2>1 DEF TypeInv, HasPool, Creates, Chosen
  <2>3. job.pool # 0
    BY <2>2 DEF Pool
  <2> QED BY <1>1, <2>1, <2>3 DEF ResumeInv, Creates, Chosen
<1>2. CASE c = job.cluster /\ PromptPool
  BY <1>2, PromptPoolIs DEF ResumeInv
<1>3. CASE c \notin abandoned \cup doomed /\ Unfinished(c)
  <2>1. files.cluster = c /\ files.pool # 0
    BY <1>k, <1>3 DEF CreationsCanBeResumed, Unfinished
  <2>2. ~Creates({"prompt", "prompt pool", "remove pool file"})
    BY <1>3 DEF ResumeInv, Clean
  <2>3. ~Creates({"remove cluster file"})
    <3>1. Creates({"remove cluster file"}) => There.activated /\ files.cluster = job.cluster
      BY DEF ProgressInv, ResumeInv, Creates, Released, Chosen
    <3> QED BY <1>3, <2>1, <3>1 DEF Unfinished, There
  <2> QED BY <2>1, <2>2, <2>3, FilesChange DEF Creates
<1> QED BY <1>1, <1>2, <1>3, UnfinishedBefore

LEMMA CleanStays ==
  ASSUME TypeInv, KnownInv, ProgressInv, ResumeInv, Next,
         Creates({"prompt", "prompt pool", "remove pool file"})'
  PROVE  Clean'
<1> SUFFICES ASSUME NEW c \in Cluster, c \notin abandoned', c \notin doomed', Unfinished(c)'
             PROVE  FALSE
  BY DEF Clean
<1> /\ job'.name = "create" /\ job'.at \in {"prompt", "prompt pool", "remove pool file"}
    /\ job' # Idle
  <2>1. Idle.name = "none"
    BY DEF Idle, None
  <2> QED BY <2>1 DEF Creates
<1>1. ~(MakeStack \/ StackStops \/ PromptPool)
  <2>1. MakeStack => job'.at = "tag" \/ job' = Idle
    BY GotoIs DEF MakeStack, Ends, TypeInv, Typed
  <2>2. StackStops => job' = Idle
    BY DEF StackStops, Ends
  <2>3. PromptPool => job'.at = "vpc"
    BY PromptPoolIs
  <2> QED BY <2>1, <2>2, <2>3
<1>2. c \notin abandoned \cup doomed /\ Unfinished(c)
  BY <1>1, UnfinishedBefore
<1>3. files.cluster = c /\ files.pool # 0
  BY <1>2 DEF ResumeInv, CreationsCanBeResumed, Unfinished
<1>4. ~Creates({"prompt", "prompt pool", "remove pool file"})
  BY <1>2 DEF ResumeInv, Clean
<1>5. job' # Idle /\ ~Commanded
  BY CommandedIs DEF Begins, TypeInv, Typed
<1>6. Moves \/ Elsewhere
  BY <1>5, MovesAre DEF TypeInv
<1>7. GoesOn
  BY <1>5, JobChange DEF TypeInv
<1>8. Decline \/ NothingToResume \/ (RemoveFiles /\ Creates({"remove cluster file"}))
  BY <1>4, <1>6, <1>7 DEF GoesOn, Moves, CreateMoves, SelectMoves, DestroyMoves, LinkMoves, From,
     Elsewhere,
     Creates, Linking
<1>9. CASE Decline
  BY <1>3, <1>9 DEF Decline
<1>10. CASE NothingToResume
  BY <1>3, <1>10 DEF NothingToResume, Resumable, None
<1>11. CASE Creates({"remove cluster file"})
  <2>1. There.activated /\ files.cluster = job.cluster
    BY <1>11 DEF ProgressInv, ResumeInv, Creates, Released, Chosen
  <2> QED BY <1>2, <1>3, <2>1 DEF Unfinished, There
<1> QED BY <1>8, <1>9, <1>10, <1>11

LEMMA ResumeStays ==
  ASSUME TypeInv, KnownInv, ProgressInv, ResumeInv, Next
  PROVE  ResumeInv'
<1> /\ Typed /\ HasCluster /\ JobTyped /\ InsideTyped /\ files \in Files
  BY DEF TypeInv, Typed, WorkTyped
<1>1. CASE job' = Idle
  BY <1>1, ResumableStays DEF ResumeInv, Idle, Creates, None
<1>2. CASE Commanded /\ job' # Idle
  <2>1. job'.at = "locate" \/ job'.name # "create"
    BY <1>2, CommandedIs DEF Begins
  <2> QED BY <2>1, ResumableStays DEF ResumeInv, Creates, Chosen
<1>3. CASE ~Commanded /\ job' # Idle
  <2>g. GoesOn /\ (Moves \/ Elsewhere)
    BY <1>3, JobChange, MovesAre
  <2>1. /\ Resume => files' = files /\ job'.cluster = files.cluster /\ job'.pool = files.pool
        /\ PromptCluster => job'.cluster = files'.cluster
    <3>1. Resume => files' = files /\ job'.cluster = files.cluster /\ job'.pool = files.pool
      BY DEF Resume, workstation, JobTyped, IsCommand
    <3>2. ASSUME PromptCluster PROVE job'.cluster = files'.cluster
      <4>1. PICK c \in Cluster : /\ files' = [files EXCEPT !.cluster = c, !.newVpc = (vpc = "none")]
                                 /\ job' = [job EXCEPT !.at = "prompt pool", !.cluster = c]
        BY <1>3, <3>2 DEF PromptCluster, Ends
      <4> QED BY <4>1, WithCluster DEF Files
    <3> QED BY <3>1, <3>2
  <2>2. ASSUME Creates(Chosen \ {"remove pool file"})'
        PROVE  files'.cluster = job'.cluster /\ files'.pool = job'.pool
    <3>1. CASE Resume
      BY <2>1, <3>1
    <3>2. CASE PromptPool
      <4>1. files'.cluster = files.cluster /\ files.cluster = job.cluster
        BY <3>2, PromptPoolIs DEF ResumeInv
      <4> QED BY <3>2, <4>1, PromptPoolIs
    <3>3. CASE ~Resume /\ ~PromptPool
      <4>1. Creates(Chosen \ {"remove cluster file", "remove pool file"}) \/ (Elsewhere /\ Creates(Chosen \ {"remove pool file"}))
        BY <2>g, <2>2, <3>3 DEF GoesOn, Moves, CreateMoves, SelectMoves, DestroyMoves, LinkMoves,
           From, Elsewhere,
           Creates, Linking, Chosen
      <4>2. files' = files
        <5>1. Elsewhere => ~RemoveFiles
          BY <1>3 DEF Elsewhere, RemoveFiles, Goto, Ends, JobTyped, IsCommand, Is
        <5> QED BY <3>3, <4>1, <5>1, FilesChange DEF Creates, Chosen
      <4>3. job'.cluster = job.cluster /\ job'.pool = job.pool
        BY <2>g, <3>3, <4>1 DEF GoesOn, Creates, Chosen, PromptCluster, ConfigureNodepool,
           DeletePool, Is
      <4> QED BY <4>1, <4>2, <4>3 DEF ResumeInv, Creates
    <3> QED BY <3>1, <3>2, <3>3
  <2>3. ASSUME Creates({"prompt pool"})' PROVE files'.cluster = job'.cluster
    <3>1. PromptCluster \/ (Elsewhere /\ Creates({"prompt pool"}))
      BY <2>g, <2>3 DEF GoesOn, Moves, CreateMoves, SelectMoves, DestroyMoves, LinkMoves, From,
         Elsewhere,
         Creates, Linking
    <3>2. CASE Elsewhere /\ Creates({"prompt pool"}) /\ ~PromptCluster
      <4>1. files' = files
        BY <2>3, <3>2, FilesChange DEF Creates, Elsewhere, PromptPool, JobTyped, IsCommand
      <4> QED BY <3>2, <4>1 DEF ResumeInv, Elsewhere
    <3> QED BY <2>1, <3>1, <3>2
  <2> QED BY <2>2, <2>3, ResumableStays, CleanStays DEF ResumeInv
<1> QED BY <1>1, <1>2, <1>3

LEMMA ResumeInvariant == Spec => []ResumeInv
<1>1. ASSUME Init PROVE ResumeInv
  <2>1. CreationsCanBeResumed
    <3>1. SUFFICES ASSUME NEW c \in Cluster, cloud[c].stack # "none" PROVE cloud[c].activated
      BY DEF CreationsCanBeResumed
    <3>2. PICK active \in ActiveAtFirst :
            cloud = [d \in Cluster |-> IF d \in active THEN Whole(1) ELSE Nothing]
      BY <1>1 DEF Init
    <3> QED BY <3>1, <3>2 DEF Whole, Nothing
  <2> QED BY <1>1, <2>1 DEF Init, Idle, ResumeInv, Creates, None
<1>2. ASSUME ResumeInv, UNCHANGED vars PROVE ResumeInv'
  BY <1>2 DEF vars, workstation, history, ResumeInv, CreationsCanBeResumed, Clean, Unfinished,
     Creates
<1>3. TypeInv /\ KnownInv /\ ProgressInv /\ ResumeInv /\ [Next]_vars => ResumeInv'
  BY <1>2, ResumeStays
<1> QED BY <1>1, <1>3, TypeInvariant, KnownInvariant, ProgressInvariant, PTL DEF Spec

(* Whatever the cloud has of a cluster that is not active, the files name  *)
(* it with its node pool, so that the creation can be resumed wherever it  *)
(* broke off, unless the user declined to or destroys it.                  *)
THEOREM CreationsStayResumable == Spec => []CreationsCanBeResumed
<1>1. ResumeInv => CreationsCanBeResumed
  BY DEF ResumeInv
<1> QED BY <1>1, ResumeInvariant, PTL

-----------------------------------------------------------------------------
(* What a destruction has taken away before it comes to the cluster.       *)

EmptiedInv ==
  /\ Destroys({"stack"}) => There.pools = << >>
  /\ Destroys({"unlink"}) /\ job.cluster \notin strayed =>
       DOMAIN Here.accounts \cap DOMAIN roles[job.cluster] \subseteq job.todo
  /\ Destroys({"untag", "pools", "gone", "stack"}) /\ job.cluster \notin strayed
     /\ Reachable(job.cluster) =>
       DOMAIN Here.accounts \cap DOMAIN roles[job.cluster] = {}

(* While a cluster is emptied, its accounts stay and roles only go.        *)
LEMMA EmptyingChanges ==
  ASSUME TypeInv, Next, job' # Idle, Destroys(Emptying)
  PROVE  /\ job'.cluster = job.cluster /\ job.cluster \in Cluster
         /\ Here' = inside'[job.cluster] /\ Here'.accounts = Here.accounts
         /\ Reachable(job.cluster)' = Reachable(job.cluster)
         /\ roles'[job.cluster] = roles[job.cluster] \/ UnlinkAccounts
         /\ There' = cloud'[job.cluster]
         /\ There'.pools = There.pools \/ DeletePool \/ PoolSettles(job.cluster)
<1> /\ Typed /\ HasCluster /\ JobTyped /\ InsideTyped /\ CloudTyped /\ RolesTyped
  BY DEF TypeInv, Typed
<1>u. ~Untouched(job.cluster)
  BY TouchedIs DEF Destroys, Emptying, Early
<1>n. job.name = "destroy" /\ job.at \in Emptying /\ job # Idle
  BY DEF Destroys, Idle, None
<1>1. job.cluster \in Cluster
  BY <1>n DEF HasCluster, None
<1>2. ~Commanded
  BY <1>n, CommandedIs
<1>3. job'.cluster = job.cluster
  BY <1>2, <1>n, JobChange DEF GoesOn, Resume, PromptCluster, Is
<1>4. Here' = inside'[job.cluster] /\ There' = cloud'[job.cluster]
  BY <1>3 DEF Here, There
<1>5. InsideGrows(job.cluster)
  BY <1>1, <1>u, Remains
<1>6. Here'.accounts = Here.accounts
  <2>1. ~SaveAccount /\ ~ImportAccounts /\ ~DeleteAccount
    BY <1>n DEF SaveAccount, ImportAccounts, DeleteAccount, Is, Linking
  <2> QED BY <1>4, <1>5, <2>1 DEF InsideGrows, Here
<1>7. Reachable(job.cluster)' = Reachable(job.cluster)
  <2>1. kube' = kube /\ conf' = conf
    BY <1>n, <1>2, WorkFrame DEF WorkChanges, Locate, WriteKubeConfig, ListClusters,
       RefreshContexts,
       PromptCluster, PromptPool, MakeVpc, RemoveFiles, Connect, Deselect, DestroyVpc, workstation,
       Emptying,
       Is, Commanded
  <2>2. Exists(job.cluster)' = Exists(job.cluster)
    <3>1. ~MakeStack
      BY <1>n DEF MakeStack, Is
    <3> QED BY <1>1, <1>3, <1>u, <3>1, ExistsStays DEF Exists
  <2>3. inside'[job.cluster].admin = inside[job.cluster].admin
    BY <1>5, <1>n DEF InsideGrows, AddAdminRole, Is
  <2> QED BY <1>3, <2>1, <2>2, <2>3 DEF Reachable
<1>8. roles'[job.cluster] = roles[job.cluster] \/ UnlinkAccounts
  <2>1. ~LinkAccounts
    BY <1>n DEF LinkAccounts, AccountSteps, PickAccount, MakeServiceAccounts, SyncRole, Annotate,
       SaveAccount,
       AccountsDone, SaveTargets, ImportAccounts, DeleteRole, DropAnnotations, DeleteAccount, Is,
       Linking
  <2>2. DestroyElsewhere => roles'[job.cluster] = roles[job.cluster]
    BY <1>u DEF DestroyElsewhere, RolesTyped
  <2> QED BY <1>n, <2>1, <2>2, InsideFrame DEF InsideChanges, LoadTypes, SaveConfig, RecordPool,
       AddAdminRole, InstallComponents, ForgetPool, DestroyStack, DestroyStops, Operate,
       EnsureNamespace
<1>9. There'.pools = There.pools \/ DeletePool \/ PoolSettles(job.cluster)
  <2>1. cloud[job.cluster] \in Resources
    BY <1>1 DEF CloudTyped
  <2>2. CASE CloudGrows(job.cluster)
    BY <1>4, <1>n, <2>2 DEF CloudGrows, There, EnsurePool, Is
  <2>3. CASE cloud'[job.cluster] = [cloud[job.cluster] EXCEPT !.tagged = "last gone"]
    BY <1>4, <2>1, <2>3 DEF There, Resources
  <2> QED BY <1>1, <1>n, <1>u, <2>2, <2>3, CloudChange DEF GoneElsewhere
<1> QED BY <1>1, <1>3, <1>4, <1>6, <1>7, <1>8, <1>9

LEMMA EmptiedStays ==
  ASSUME TypeInv, KnownInv, EmptiedInv, Next
  PROVE  EmptiedInv'
<1> /\ Typed /\ HasCluster /\ JobTyped /\ CloudTyped /\ RolesTyped
  BY DEF TypeInv, Typed
<1>1. CASE job' = Idle
  BY <1>1 DEF EmptiedInv, Idle, Destroys, None
<1>2. CASE Commanded /\ job' # Idle
  <2>1. job'.at = "locate" \/ job'.name # "destroy"
    BY <1>2, CommandedIs DEF Begins, TypeInv, Typed
  <2> QED BY <2>1 DEF EmptiedInv, Destroys
<1>3. CASE ~Commanded /\ job' # Idle
  <2>g. GoesOn /\ (Moves \/ Elsewhere)
    BY <1>3, JobChange, MovesAre
  <2>1. CASE ~Destroys({"unlink", "untag", "pools", "gone", "stack"})'
    BY <2>1 DEF EmptiedInv, Destroys
  <2>2. CASE Destroys({"unlink", "untag", "pools", "gone", "stack"})'
    <3>1. /\ Destroys(Emptying)
          /\ Destroys({"stack"})' => Destroys({"stack"}) \/ (DeletePool /\ There.pools = << >>)
          /\ Destroys({"unlink"})' =>
               \/ Destroys({"unlink"})
               \/ EmptyCluster /\ job'.todo = DOMAIN Here.accounts
          /\ Destroys({"untag", "pools", "gone", "stack"})' =>
               \/ Destroys({"untag", "pools", "gone", "stack"})
               \/ EmptyCluster /\ ~Reachable(job.cluster)
               \/ UnlinkAccounts /\ job.todo = {} /\ Destroys({"unlink"})
      BY <2>g, <2>2 DEF GoesOn, Moves, CreateMoves, SelectMoves, DestroyMoves, LinkMoves, From,
         Elsewhere,
         Destroys, Emptying, Linking
    <3>2. /\ job'.cluster = job.cluster /\ job.cluster \in Cluster
          /\ Here' = inside'[job.cluster] /\ Here'.accounts = Here.accounts
          /\ Reachable(job.cluster)' = Reachable(job.cluster)
          /\ roles'[job.cluster] = roles[job.cluster] \/ UnlinkAccounts
          /\ There' = cloud'[job.cluster]
          /\ There'.pools = There.pools \/ DeletePool \/ PoolSettles(job.cluster)
      BY <1>3, <3>1, EmptyingChanges
    <3>3. job.cluster \in strayed => job.cluster \in strayed'
      BY <3>1, StaysGivenUp DEF Creates, Destroys
    <3>4. Destroys({"stack"})' => There'.pools = << >>
      <4>1. CASE DeletePool /\ There.pools = << >>
        <5>1. UNCHANGED cloud
          BY <3>1, <4>1 DEF DeletePool, Destroys, Is
        <5> QED BY <3>2, <4>1, <5>1 DEF There
      <4>2. CASE Destroys({"stack"})
        <5>1. There.pools = << >>
          BY <4>2 DEF EmptiedInv
        <5>2. ~DeletePool
          BY <4>2 DEF DeletePool, Destroys, Is
        <5>3. ~PoolSettles(job.cluster)
          BY <5>1 DEF PoolSettles, There
        <5> QED BY <3>2, <5>1, <5>2, <5>3
      <4> QED BY <3>1, <4>1, <4>2
    <3>5. Destroys({"unlink"})' /\ job.cluster \notin strayed' =>
            DOMAIN Here'.accounts \cap DOMAIN roles'[job.cluster] \subseteq job'.todo
      <4> SUFFICES ASSUME Destroys({"unlink"})', job.cluster \notin strayed'
                   PROVE  DOMAIN Here'.accounts \cap DOMAIN roles'[job.cluster] \subseteq job'.todo
        OBVIOUS
      <4>1. CASE EmptyCluster /\ job'.todo = DOMAIN Here.accounts
        BY <3>2, <4>1
      <4>2. CASE Destroys({"unlink"}) /\ ~UnlinkAccounts
        <5>1. DOMAIN Here.accounts \cap DOMAIN roles[job.cluster] \subseteq job.todo
          BY <3>3, <4>2 DEF EmptiedInv
        <5>2. job'.todo = job.todo
          BY <2>g, <4>2 DEF GoesOn, Destroys, ConfigureTargets, EmptyCluster, PickAccount,
             SaveAccount,
             ImportAccounts, Is, Linking
        <5> QED BY <3>2, <4>2, <5>1, <5>2
      <4>3. CASE Destroys({"unlink"}) /\ UnlinkAccounts
        <5>1. DOMAIN Here.accounts \cap DOMAIN roles[job.cluster] \subseteq job.todo
          BY <3>3, <4>3 DEF EmptiedInv
        <5>2. job.todo # {}
          <6>1. job.todo = {} => Goto("untag")
            BY <4>3 DEF UnlinkAccounts
          <6> QED BY <6>1, GotoIs DEF Destroys
        <5>3. PICK a \in job.todo :
                /\ job' = [job EXCEPT !.todo = @ \ {a}]
                /\ \/ roles' = [roles EXCEPT ![job.cluster] = Without(@, {a})]
                   \/ strayed' = strayed \cup {job.cluster}
          <6>1. ~(job.todo = {} /\ Goto("untag"))
            BY <5>2
          <6> QED BY <4>3, <6>1 DEF UnlinkAccounts
        <5>4. job'.todo = job.todo \ {a}
          BY <5>3 DEF JobTyped, IsCommand
        <5>5. roles'[job.cluster] = Without(roles[job.cluster], {a})
          BY <3>2, <5>3 DEF RolesTyped
        <5>6. DOMAIN roles'[job.cluster] = DOMAIN roles[job.cluster] \ {a}
          BY <5>5 DEF Without
        <5> QED BY <3>2, <5>1, <5>4, <5>6
      <4> QED BY <3>1, <4>1, <4>2, <4>3
    <3>6. Destroys({"untag", "pools", "gone", "stack"})' /\ job.cluster \notin strayed'
          /\ Reachable(job.cluster)' =>
            DOMAIN Here'.accounts \cap DOMAIN roles'[job.cluster] = {}
      <4> SUFFICES ASSUME Destroys({"untag", "pools", "gone", "stack"})', job.cluster \notin strayed',
                          Reachable(job.cluster)'
                   PROVE  DOMAIN Here'.accounts \cap DOMAIN roles'[job.cluster] = {}
        OBVIOUS
      <4>1. CASE Destroys({"untag", "pools", "gone", "stack"})
        <5>1. ~UnlinkAccounts
          BY <4>1 DEF UnlinkAccounts, Destroys, Is
        <5> QED BY <3>2, <3>3, <4>1, <5>1 DEF EmptiedInv
      <4>2. CASE UnlinkAccounts /\ job.todo = {} /\ Destroys({"unlink"})
        <5>1. DOMAIN Here.accounts \cap DOMAIN roles[job.cluster] = {}
          BY <3>3, <4>2 DEF EmptiedInv
        <5>2. roles' = roles
          BY <4>2 DEF UnlinkAccounts, KeepsCluster
        <5> QED BY <3>2, <5>1, <5>2
      <4> QED BY <3>1, <3>2, <4>1, <4>2
    <3> QED BY <3>2, <3>4, <3>5, <3>6 DEF EmptiedInv
  <2> QED BY <2>1, <2>2
<1> QED BY <1>1, <1>2, <1>3

LEMMA EmptiedInvariant == Spec => []EmptiedInv
<1>1. Init => EmptiedInv
  BY DEF Init, Idle, EmptiedInv, Destroys, None
<1>2. ASSUME EmptiedInv, UNCHANGED vars PROVE EmptiedInv'
  BY <1>2 DEF vars, workstation, history, EmptiedInv, Destroys, There, Here, Reachable, Exists
<1>3. TypeInv /\ KnownInv /\ EmptiedInv /\ [Next]_vars => EmptiedInv'
  BY <1>2, EmptiedStays
<1> QED BY <1>1, <1>3, TypeInvariant, KnownInvariant, PTL DEF Spec

(* A destroy that ends well leaves no node pool, no selection and no role  *)
(* of an account that the cluster had, where kubectl reached the cluster   *)
(* and no error of a deletion was ignored.                                 *)
THEOREM DestroyTakesAll == Spec => DestroyLeavesNothing
<1>1. ASSUME TypeInv, KnownInv, EmptiedInv, Next, NEW c \in Cluster,
             job.name = "destroy", job.cluster = c, Ends, Exists(c), cloud'[c].stack = "none"
      PROVE  /\ cloud[c].pools = << >> /\ conf.selected # c
             /\ Reachable(c) /\ c \notin strayed =>
                  DOMAIN inside[c].accounts \cap DOMAIN roles[c] = {}
  <2>1. Typed /\ HasCluster /\ cloud[c] \in Resources
    BY <1>1 DEF TypeInv, Typed, CloudTyped
  <2>2. job # Idle
    BY <1>1 DEF Idle, None
  <2>3. ~CloudGrows(c)
    BY <1>1 DEF CloudGrows, Exists
  <2>4. cloud'[c] # [cloud[c] EXCEPT !.tagged = "last gone"]
    BY <1>1, <2>1 DEF Exists, Resources
  <2>5. Destroys({"stack"})
    BY <1>1, <2>1, <2>2, <2>3, <2>4, CloudChange DEF Destroys, GoneElsewhere, Ends
  <2> QED BY <1>1, <2>5 DEF EmptiedInv, KnownInv, Destroys, Emptying, There, Here
<1>2. TypeInv /\ KnownInv /\ EmptiedInv /\ [Next]_vars =>
        [\A c \in Cluster :
           job.name = "destroy" /\ job.cluster = c /\ Ends /\ Exists(c)
           /\ cloud'[c].stack = "none" =>
             /\ cloud[c].pools = << >> /\ conf.selected # c
             /\ Reachable(c) /\ c \notin strayed =>
                  DOMAIN inside[c].accounts \cap DOMAIN roles[c] = {}]_vars
  BY <1>1
<1> QED BY <1>2, TypeInvariant, KnownInvariant, EmptiedInvariant, PTL DEF Spec, DestroyLeavesNothing

-----------------------------------------------------------------------------
(* Linked accounts.  What the steps of a command do to objects and roles.  *)

LEMMA RolesFrame ==
  ASSUME Next
  PROVE  roles' = roles \/ SyncRole \/ DeleteRole \/ UnlinkAccounts \/ DestroyElsewhere
<1>1. LinkAccounts => roles' = roles \/ SyncRole \/ DeleteRole
  BY DEF LinkAccounts, AccountSteps, PickAccount, MakeServiceAccounts, Annotate, SaveAccount,
     AccountsDone, SaveTargets, ImportAccounts, DropAnnotations, DeleteAccount
<1> QED BY <1>1, InsideFrame DEF InsideChanges, LoadTypes, SaveConfig, RecordPool, AddAdminRole,
     InstallComponents, ForgetPool, DestroyStack, DestroyStops, Operate, EnsureNamespace

LEMMA NamespacesStay ==
  ASSUME Typed, NEW c \in Cluster, InsideGrows(c)
  PROVE  inside[c].namespaces \subseteq inside'[c].namespaces
<1>1. CASE Operate(c)
  <2>1. PICK t : inside' = [inside EXCEPT ![c].namespaces = @ \cup {t}]
    BY <1>1 DEF Operate, EnsureNamespace
  <2>2. inside'[c] = [inside[c] EXCEPT !.namespaces = @ \cup {t}]
    BY <2>1 DEF Typed, InsideTyped
  <2>3. inside'[c].namespaces = inside[c].namespaces \cup {t}
    BY <2>2 DEF Typed, InsideTyped, Holding
  <2> QED BY <2>3
<1> QED BY <1>1 DEF InsideGrows

(* Where a step links or unlinks, it does so in the command's cluster.     *)
LEMMA LinksHere ==
  ASSUME TypeInv, job.name \in Linking \cup {"unlink"}
  PROVE  job.cluster \in Cluster /\ Here \in Holding /\ Here.accounts \in Accounts
BY DEF TypeInv, HasCluster, Linking, None, Typed, InsideTyped, Here, Holding

LEMMA SaveAccountIs ==
  ASSUME TypeInv, SaveAccount
  PROVE  /\ inside'[job.cluster].accounts =
              With(Here.accounts, job.account, [spec |-> Wanted(job.account), hash |-> Wanted(job.account)])
         /\ roles' = roles /\ job.name \in Linking /\ job.at = "save"
         /\ job'.at = "accounts" /\ job'.todo = job.todo \ {job.account}
         /\ UNCHANGED <<job.name, job.cluster, job.targets, job.account>>
<1>1. job.cluster \in Cluster /\ Here \in Holding
  BY LinksHere DEF SaveAccount, Is
<1>2. inside'[job.cluster] = [Here EXCEPT !.accounts =
        With(@, job.account, [spec |-> Wanted(job.account), hash |-> Wanted(job.account)])]
  BY <1>1 DEF SaveAccount, Change, TypeInv, Typed, InsideTyped
<1>3. inside'[job.cluster].accounts =
        With(Here.accounts, job.account, [spec |-> Wanted(job.account), hash |-> Wanted(job.account)])
  BY <1>1, <1>2 DEF Holding
<1>4. job' = [job EXCEPT !.at = "accounts", !.todo = @ \ {job.account}] /\ IsCommand(job)
  BY DEF SaveAccount, TypeInv, Typed, JobTyped
<1>5. /\ job'.at = "accounts" /\ job'.todo = job.todo \ {job.account}
      /\ UNCHANGED <<job.name, job.cluster, job.targets, job.account>>
  BY <1>4 DEF IsCommand
<1>6. roles' = roles /\ job.name \in Linking /\ job.at = "save"
  BY DEF SaveAccount, Is
<1> QED BY <1>3, <1>5, <1>6

LEMMA AccountsChange ==
  ASSUME TypeInv, Next, NEW c \in Cluster, InsideGrows(c), NEW a \in DOMAIN inside'[c].accounts
  PROVE  \/ a \in DOMAIN inside[c].accounts /\ inside'[c].accounts[a] = inside[c].accounts[a]
            /\ (SaveAccount /\ c = job.cluster => a # job.account)
         \/ c = job.cluster /\ SaveAccount /\ a = job.account
            /\ inside'[c].accounts[a].hash = Wanted(job.account)
         \/ c = job.cluster /\ ImportAccounts /\ inside'[c].accounts[a].hash = Unsynced
<1>1. CASE SaveAccount /\ c = job.cluster
  <2>1. inside'[c].accounts =
          With(inside[c].accounts, job.account, [spec |-> Wanted(job.account), hash |-> Wanted(job.account)])
    BY <1>1, SaveAccountIs DEF Here
  <2> QED BY <1>1, <2>1 DEF With
<1>2. CASE ImportAccounts /\ c = job.cluster
  <2>1. Here \in Holding
    BY <1>2, LinksHere DEF ImportAccounts, Is, Linking
  <2>2. inside'[c] = [Here EXCEPT !.accounts =
          Over(@, [d \in job.todo |-> Imported([targets |-> job.targets, policy |-> job.policy])])]
    BY <1>2 DEF ImportAccounts, Change, TypeInv, Typed, InsideTyped
  <2>3. inside'[c].accounts =
          Over(inside[c].accounts, [d \in job.todo |-> Imported([targets |-> job.targets, policy |-> job.policy])])
    BY <1>2, <2>1, <2>2 DEF Holding, Here
  <2>4. ~SaveAccount
    BY <1>2 DEF ImportAccounts, SaveAccount, Is
  <2> QED BY <1>2, <2>3, <2>4 DEF Over, Imported
<1>3. CASE DeleteAccount /\ c = job.cluster
  <2>1. Here \in Holding
    BY <1>3, LinksHere DEF DeleteAccount, Is
  <2>2. inside'[c] = [Here EXCEPT !.accounts = Without(@, {job.account})]
    BY <1>3 DEF DeleteAccount, Change, TypeInv, Typed, InsideTyped
  <2>3. inside'[c].accounts = Without(inside[c].accounts, {job.account})
    BY <1>3, <2>1, <2>2 DEF Holding, Here
  <2>4. ~SaveAccount
    BY <1>3 DEF DeleteAccount, SaveAccount, Is, Linking
  <2> QED BY <1>3, <2>3, <2>4 DEF Without
<1> QED BY <1>1, <1>2, <1>3 DEF InsideGrows

LEMMA RolesChange ==
  ASSUME TypeInv, Next, NEW c \in Cluster, NEW a,
         ~(c = job.cluster /\ a = job.account /\ (SyncRole \/ DeleteRole)),
         ~(c = job.cluster /\ UnlinkAccounts), inside'[c] # Empty, a \in DOMAIN roles[c]
  PROVE  a \in DOMAIN roles'[c] /\ roles'[c][a] = roles[c][a]
<1> RolesTyped /\ InsideTyped
  BY DEF TypeInv, Typed
<1>1. CASE SyncRole
  <2>1. roles' = [roles EXCEPT ![job.cluster] = With(@, job.account, Wanted(job.account))]
    BY <1>1 DEF SyncRole
  <2>2. CASE c # job.cluster
    BY <2>1, <2>2 DEF RolesTyped
  <2>3. CASE c = job.cluster
    <3>1. roles'[c] = With(roles[c], job.account, Wanted(job.account))
      BY <2>1, <2>3 DEF RolesTyped
    <3>2. a # job.account
      BY <1>1, <2>3
    <3> QED BY <3>1, <3>2 DEF With
  <2> QED BY <2>2, <2>3
<1>2. CASE DeleteRole
  <2>1. roles' = [roles EXCEPT ![job.cluster] = Without(@, {job.account})]
    BY <1>2 DEF DeleteRole
  <2>2. CASE c # job.cluster
    BY <2>1, <2>2 DEF RolesTyped
  <2>3. CASE c = job.cluster
    <3>1. roles'[c] = Without(roles[c], {job.account})
      BY <2>1, <2>3 DEF RolesTyped
    <3>2. a # job.account
      BY <1>2, <2>3
    <3> QED BY <3>1, <3>2 DEF Without
  <2> QED BY <2>2, <2>3
<1>3. CASE UnlinkAccounts
  <2>1. c # job.cluster
    BY <1>3
  <2>2. roles' = roles \/ \E b : roles' = [roles EXCEPT ![job.cluster] = Without(@, {b})]
    BY <1>3 DEF UnlinkAccounts, KeepsCluster
  <2> QED BY <2>1, <2>2 DEF RolesTyped
<1>4. CASE DestroyElsewhere
  <2>1. PICK d \in Cluster : /\ inside' = [inside EXCEPT ![d] = Empty]
                             /\ roles' = [roles EXCEPT ![d] = << >>]
    BY <1>4 DEF DestroyElsewhere, Names
  <2>2. c # d
    BY <2>1 DEF InsideTyped
  <2> QED BY <2>1, <2>2 DEF RolesTyped
<1> QED BY <1>1, <1>2, <1>3, <1>4, RolesFrame

LEMMA LinksStay ==
  ASSUME TypeInv, Next, NEW c \in Cluster, InsideGrows(c), NEW a, inside'[c] # Empty,
         ~(c = job.cluster /\ a = job.account /\ (SyncRole \/ DeleteRole \/ DropAnnotations)),
         ~(c = job.cluster /\ UnlinkAccounts), NEW t, Linked(c, a, t)
  PROVE  Linked(c, a, t)'
<1>1. a \in DOMAIN roles'[c] /\ roles'[c][a] = roles[c][a]
  BY RolesChange DEF Linked
<1>2. <<t, a>> \in inside'[c].linked
  <2>1. CASE Annotate /\ c = job.cluster
    <3>1. Here \in Holding
      BY <2>1, LinksHere DEF Annotate, Is
    <3>2. inside'[c] = [Here EXCEPT !.linked = @ \cup job.targets \X {job.account}]
      BY <2>1 DEF Annotate, Change, TypeInv, Typed, InsideTyped
    <3>3. inside'[c].linked = inside[c].linked \cup job.targets \X {job.account}
      BY <2>1, <3>1, <3>2 DEF Holding, Here
    <3> QED BY <3>3 DEF Linked
  <2>2. CASE DropAnnotations /\ c = job.cluster
    <3>1. Here \in Holding
      BY <2>2, LinksHere DEF DropAnnotations, Is
    <3>2. inside'[c] = [Here EXCEPT !.linked =
                          @ \ (Here.accounts[job.account].spec.targets \X {job.account})]
      BY <2>2 DEF DropAnnotations, Change, TypeInv, Typed, InsideTyped
    <3>3. inside'[c].linked =
            inside[c].linked \ (Here.accounts[job.account].spec.targets \X {job.account})
      BY <2>2, <3>1, <3>2 DEF Holding, Here
    <3>4. a # job.account
      BY <2>2
    <3> QED BY <3>3, <3>4 DEF Linked
  <2> QED BY <2>1, <2>2 DEF InsideGrows, Linked
<1> QED BY <1>1, <1>2 DEF Linked

LEMMA TargetsChange ==
  ASSUME TypeInv, Next, NEW c \in Cluster, InsideGrows(c)
  PROVE  \/ inside'[c].targets = inside[c].targets
         \/ c = job.cluster /\ SaveConfig /\ inside'[c].targets = {}
         \/ c = job.cluster /\ SaveTargets /\ inside'[c].targets = job.targets
<1>1. CASE SaveConfig /\ c = job.cluster
  <2>1. inside'[c] = [inside[c] EXCEPT !.config = TRUE, !.targets = {}] /\ inside[c] \in Holding
    BY <1>1 DEF SaveConfig, Change, TypeInv, Typed, InsideTyped, Here
  <2> QED BY <1>1, <2>1 DEF Holding
<1>2. CASE SaveTargets /\ c = job.cluster
  <2>1. inside'[c] = [inside[c] EXCEPT !.targets = job.targets] /\ inside[c] \in Holding
    BY <1>2 DEF SaveTargets, Change, TypeInv, Typed, InsideTyped, Here
  <2> QED BY <1>2, <2>1 DEF Holding
<1> QED BY <1>1, <1>2 DEF InsideGrows

(* What a command has linked of the account in its hands, and which it has *)
(* brought to its targets.                                                 *)
Changing == job.name \in {"configure", "select"} /\ job.at \in LinkSteps \cup {"accounts"}
HandInv ==
  job.name \in Linking =>
    /\ job.at \in {"annotate", "save"} =>
         job.account \in DOMAIN roles[job.cluster] /\ roles[job.cluster][job.account].targets = job.targets
    /\ job.at = "save" => job.targets \X {job.account} \subseteq Here.linked
TodoInv ==
  /\ Changing => \A a \in DOMAIN Here.accounts \ job.todo :
        job.targets \subseteq Here.accounts[a].hash.targets
  /\ job.name \in {"account", "import"} /\ job.at \in LinkSteps \cup {"accounts"} =>
       job.targets = Here.targets

(* Where a command links accounts, no other step touches its cluster.      *)
LEMMA LinkingGoesOn ==
  ASSUME TypeInv, Next, job' # Idle, ~Commanded, job'.name \in Linking,
         job'.at \in LinkSteps \cup {"accounts"}
  PROVE  /\ GoesOn /\ (Moves \/ Elsewhere) /\ job'.name = job.name
         /\ job.cluster \in Cluster /\ job'.cluster = job.cluster
         /\ Here' = inside'[job.cluster] /\ InsideGrows(job.cluster) /\ ~UnlinkAccounts
<1> Typed /\ HasCluster
  BY DEF TypeInv
<1>1. GoesOn /\ (Moves \/ Elsewhere)
  BY JobChange, MovesAre
<1>2. job'.name = job.name
  BY <1>1 DEF GoesOn
<1>3. job.cluster \in Cluster /\ job'.cluster = job.cluster
  BY <1>1, <1>2 DEF GoesOn, HasCluster, Linking, None, Resume, PromptCluster, Is
<1>4. Here' = inside'[job.cluster] /\ InsideGrows(job.cluster)
  <2>1. job.at \notin Early
    BY <1>1, <1>2 DEF Moves, CreateMoves, SelectMoves, DestroyMoves, LinkMoves, From, Elsewhere,
       Linking, LinkSteps, Early
  <2> QED BY <2>1, <1>3, TouchedIs, Remains DEF Here
<1>5. ~UnlinkAccounts
  BY <1>2 DEF UnlinkAccounts, Is, Linking
<1> QED BY <1>1, <1>2, <1>3, <1>4, <1>5

LEMMA HandStays ==
  ASSUME TypeInv, HandInv, Next
  PROVE  HandInv'
<1> /\ Typed /\ HasCluster /\ RolesTyped /\ InsideTyped /\ JobTyped
  BY DEF TypeInv, Typed
<1>1. CASE job' = Idle
  BY <1>1 DEF HandInv, Idle, Linking, None
<1>2. CASE Commanded /\ job' # Idle
  <2>1. job'.at \notin {"annotate", "save"}
    BY <1>2, CommandedIs DEF Begins
  <2> QED BY <2>1 DEF HandInv
<1>3. ASSUME ~Commanded, job' # Idle, job'.name \in Linking, job'.at \in {"annotate", "save"}
      PROVE  /\ job'.account \in DOMAIN roles'[job'.cluster]
             /\ roles'[job'.cluster][job'.account].targets = job'.targets
             /\ job'.at = "save" => job'.targets \X {job'.account} \subseteq Here'.linked
  <2>0. /\ GoesOn /\ (Moves \/ Elsewhere) /\ job.name \in Linking
        /\ job.cluster \in Cluster /\ job'.cluster = job.cluster
        /\ Here' = inside'[job.cluster] /\ InsideGrows(job.cluster)
    BY <1>3, LinkingGoesOn DEF LinkSteps
  <2>e. Elsewhere => job' = job
    BY DEF Elsewhere
  <2>1. /\ job'.at = "annotate" => SyncRole \/ (job.at = "annotate" /\ Elsewhere)
        /\ job'.at = "save" => (Annotate /\ job.at = "annotate") \/ (job.at = "save" /\ Elsewhere)
    BY <2>0, <2>e, <1>3 DEF Moves, CreateMoves, SelectMoves, DestroyMoves, LinkMoves, From, Linking
  <2>2. job'.targets = job.targets /\ job'.account = job.account
    <3>1. job.at \in {"sync", "annotate"} \/ job' = job
      BY <1>3, <2>1, <2>e DEF SyncRole, Is
    <3>2. job.at \in {"sync", "annotate"} => ~ConfigureTargets /\ ~ImportAccounts /\ ~PickAccount
      BY DEF ConfigureTargets, ImportAccounts, PickAccount, Is
    <3> QED BY <3>1, <3>2, <2>0 DEF GoesOn
  <2>3. CASE SyncRole
    <3>1. roles'[job.cluster] = With(roles[job.cluster], job.account, Wanted(job.account))
      BY <2>0, <2>3 DEF SyncRole, RolesTyped
    <3>2. job'.at = "annotate"
      BY <2>3, GotoIs DEF SyncRole
    <3> QED BY <3>1, <3>2, <2>0, <2>2 DEF With, Wanted
  <2>4. CASE Annotate /\ job.at = "annotate"
    <3>1. roles' = roles
      BY <2>4 DEF Annotate
    <3>2. inside'[job.cluster] = [Here EXCEPT !.linked = @ \cup job.targets \X {job.account}] /\ Here \in Holding
      BY <2>0, <2>4 DEF Annotate, Change, InsideTyped, Here
    <3>3. Here'.linked = Here.linked \cup job.targets \X {job.account}
      BY <2>0, <3>2 DEF Holding
    <3> QED BY <3>1, <3>3, <2>0, <2>2, <2>4 DEF HandInv
  <2>5. CASE Elsewhere /\ job.at \in {"annotate", "save"}
    <3>1. job' = job /\ job # Idle
      BY <1>3, <2>5 DEF Elsewhere
    <3>2. roles'[job.cluster] = roles[job.cluster]
      <4>1. ~Untouched(job.cluster)
        BY <2>5, TouchedIs DEF Early
      <4>2. DestroyElsewhere => roles'[job.cluster] = roles[job.cluster]
        BY <2>0, <4>1 DEF DestroyElsewhere, RolesTyped
      <4> QED BY <2>5, <3>1, <4>2 DEF Elsewhere, DestroyVpc, PoolSettles, Operate,
             EnsureNamespace, KeepsCluster
    <3>3. Here'.linked = Here.linked
      <4>1. ~Annotate /\ ~DropAnnotations /\ ~UnlinkAccounts
        BY <2>0, <2>5, <3>1, GotoIs DEF Annotate, DropAnnotations, UnlinkAccounts, Is, Linking
      <4> QED BY <2>0, <4>1 DEF InsideGrows, Here
    <3> QED BY <2>0, <2>5, <3>1, <3>2, <3>3 DEF HandInv
  <2> QED BY <1>3, <2>1, <2>3, <2>4, <2>5
<1> QED BY <1>1, <1>2, <1>3 DEF HandInv

(* An account that a command leaves out is linked in its targets already.  *)
LEMMA PickAccountIs ==
  ASSUME TypeInv, PickAccount
  PROVE  /\ job.name \in Linking /\ job.at = "accounts" /\ UNCHANGED <<inside, roles>>
         /\ UNCHANGED <<job.name, job.cluster, job.targets>>
         /\ \/ job'.at = "make" /\ job'.todo = job.todo
            \/ /\ job'.at = "accounts"
               /\ \E a \in DOMAIN Here.accounts :
                    job'.todo = job.todo \ {a} /\ Here.accounts[a].hash.targets = job.targets
<1> IsCommand(job)
  BY DEF TypeInv, Typed, JobTyped
<1>1. PICK a \in job.todo :
        job' = IF NeedsReconcile(a) THEN [job EXCEPT !.at = "make", !.account = a]
               ELSE [job EXCEPT !.todo = @ \ {a}]
  BY DEF PickAccount
<1>2. job.name \in Linking /\ job.at = "accounts" /\ UNCHANGED <<inside, roles>>
  BY DEF PickAccount, Is
<1>3. CASE NeedsReconcile(a)
  BY <1>1, <1>2, <1>3 DEF IsCommand
<1>4. CASE ~NeedsReconcile(a)
  <2>1. a \in DOMAIN Here.accounts /\ Here.accounts[a].hash.targets = job.targets
    BY <1>4 DEF NeedsReconcile, Wanted
  <2>2. /\ job'.at = "accounts" /\ job'.todo = job.todo \ {a}
        /\ UNCHANGED <<job.name, job.cluster, job.targets>>
    BY <1>1, <1>2, <1>4 DEF IsCommand
  <2> QED BY <1>2, <2>1, <2>2
<1> QED BY <1>3, <1>4

LEMMA TodoStays ==
  ASSUME TypeInv, TodoInv, Next
  PROVE  TodoInv'
<1> /\ Typed /\ HasCluster /\ InsideTyped /\ JobTyped
  BY DEF TypeInv, Typed
<1>1. CASE job' = Idle
  BY <1>1 DEF TodoInv, Changing, Idle, None
<1>2. CASE Commanded /\ job' # Idle
  <2>1. inside' = inside
    BY <1>2, CommandedIs
  <2>2. job'.name \in {"configure", "select"} =>
          job'.at = "locate" \/ job'.todo = DOMAIN inside[job'.cluster].accounts
    BY <1>2, CommandedIs DEF Begins
  <2>3. job'.name \in {"account", "import"} => job'.at = "files" \/ job'.targets = inside[job'.cluster].targets
    BY <1>2, CommandedIs DEF Begins
  <2> QED BY <2>1, <2>2, <2>3 DEF TodoInv, Changing, Here, LinkSteps
<1>3. CASE ~Commanded /\ job' # Idle
  <2>1. ASSUME Changing', NEW a \in DOMAIN Here'.accounts, a \notin job'.todo
        PROVE  job'.targets \subseteq Here'.accounts[a].hash.targets
    <3>0. /\ GoesOn /\ (Moves \/ Elsewhere) /\ job.name \in {"configure", "select"}
          /\ job.cluster \in Cluster /\ job'.cluster = job.cluster
          /\ Here' = inside'[job.cluster] /\ InsideGrows(job.cluster)
      BY <1>3, <2>1, LinkingGoesOn DEF Changing, Linking
    <3>1. Changing \/ ConfigureTargets
      BY <3>0, <2>1 DEF Changing, LinkSteps, Moves, CreateMoves, SelectMoves, DestroyMoves,
         LinkMoves, From,
         Linking, Elsewhere
    <3>2. CASE ConfigureTargets
      <4>1. inside' = inside /\ (job'.todo = DOMAIN Here.accounts \/ job'.at = "install")
        BY <3>2, GotoIs DEF ConfigureTargets, KeepsCluster, JobTyped, IsCommand
      <4>2. a \in DOMAIN Here.accounts
        BY <4>1, <3>0, <2>1 DEF Here
      <4> QED BY <4>1, <4>2, <2>1 DEF Changing, LinkSteps
    <3>3. CASE Changing
      <4>i. ~ImportAccounts /\ ~ConfigureTargets /\ ~EmptyCluster /\ ~UnlinkAccounts
        BY <3>3 DEF Changing, LinkSteps, ImportAccounts, ConfigureTargets, EmptyCluster,
           UnlinkAccounts, Is
      <4>t. job'.targets = job.targets
        BY <3>0, <4>i DEF GoesOn
      <4>1. CASE PickAccount
        <5>1. inside' = inside /\ Here' = Here
          BY <4>1, <3>0, PickAccountIs DEF Here
        <5>2. a \notin job.todo \/ Here.accounts[a].hash.targets = job.targets
          BY <4>1, <2>1, PickAccountIs
        <5> QED BY <3>3, <4>t, <5>1, <5>2, <2>1 DEF TodoInv
      <4>2. CASE SaveAccount /\ ~PickAccount
        <5>1. CASE a = job.account
          <6>1. Here'.accounts[a].hash = Wanted(job.account)
            BY <5>1, <4>2, <4>i, <2>1, <3>0, AccountsChange
          <6> QED BY <6>1, <4>t DEF Wanted
        <5>2. CASE a # job.account
          <6>1. a \notin job.todo
            BY <5>2, <4>2, <2>1, SaveAccountIs
          <6>2. a \in DOMAIN Here.accounts /\ Here'.accounts[a] = Here.accounts[a]
            BY <5>2, <4>2, <4>i, <2>1, <3>0, AccountsChange DEF Here
          <6> QED BY <6>1, <6>2, <4>t, <3>3 DEF TodoInv
        <5> QED BY <5>1, <5>2
      <4>3. CASE ~SaveAccount /\ ~PickAccount
        <5>1. job'.todo = job.todo
          BY <3>0, <4>3, <4>i DEF GoesOn
        <5>2. a \in DOMAIN Here.accounts /\ Here'.accounts[a] = Here.accounts[a]
          BY <4>3, <4>i, <2>1, <3>0, AccountsChange DEF Here
        <5> QED BY <5>1, <5>2, <4>t, <3>3, <2>1 DEF TodoInv
      <4> QED BY <4>1, <4>2, <4>3
    <3> QED BY <3>1, <3>2, <3>3
  <2>2. ASSUME job'.name \in {"account", "import"}, job'.at \in LinkSteps \cup {"accounts"}
        PROVE  job'.targets = Here'.targets
    <3>0. /\ GoesOn /\ (Moves \/ Elsewhere) /\ job.name \in {"account", "import"}
          /\ job.cluster \in Cluster /\ job'.cluster = job.cluster
          /\ Here' = inside'[job.cluster] /\ InsideGrows(job.cluster)
      BY <1>3, <2>2, LinkingGoesOn DEF Linking
    <3>1. job.at \in LinkSteps \cup {"accounts"} \/ ImportAccounts
      BY <3>0, <2>2 DEF LinkSteps, Moves, CreateMoves, SelectMoves, DestroyMoves, LinkMoves, From,
         Linking, Elsewhere
    <3>2. ~SaveConfig /\ ~SaveTargets /\ ~ConfigureTargets
      BY <3>0 DEF SaveConfig, SaveTargets, ConfigureTargets, Is
    <3>3. Here'.targets = Here.targets
      BY <3>0, <3>2 DEF InsideGrows, Here
    <3>4. CASE ImportAccounts
      BY <3>3, <3>4 DEF ImportAccounts, JobTyped, IsCommand
    <3>5. CASE job.at \in LinkSteps \cup {"accounts"} /\ ~ImportAccounts
      BY <3>0, <3>2, <3>3, <3>5 DEF GoesOn, TodoInv
    <3> QED BY <3>1, <3>4, <3>5
  <2> QED BY <2>1, <2>2 DEF TodoInv
<1> QED BY <1>1, <1>2, <1>3

(* Every account that says it is synced is linked in the targets it was    *)
(* synced with, but for the one in a command's hands, and these are all    *)
(* the targets of its cluster, but while a command changes these.          *)
Held(c) == c \notin strayed /\ c \notin doomed
HashLinked(c, a) == \A t \in inside[c].accounts[a].hash.targets : Linked(c, a, t)
InHand(c, a) ==
  /\ c = job.cluster /\ a = job.account
  /\ \/ job.name \in Linking /\ job.at \in {"annotate", "save"}
     \/ job.name = "unlink" /\ job.at \in {"annotations", "object"}
ChangesTargets(c) == Changing /\ c = job.cluster /\ job.targets \subseteq inside[c].namespaces
LinkInv ==
  \A c \in Cluster : Held(c) => \A a \in DOMAIN inside[c].accounts :
    inside[c].accounts[a].hash # Unsynced =>
      /\ InHand(c, a) \/ HashLinked(c, a)
      /\ inside[c].targets \subseteq inside[c].accounts[a].hash.targets \/ ChangesTargets(c)

(* A command that links accounts takes one of their steps, or breaks off.  *)
LEMMA LinkingNext ==
  ASSUME TypeInv, Next, job.name \in Linking \cup {"unlink"},
         job.at \in LinkSteps \cup {"accounts", "role", "annotations", "object"}
  PROVE  AccountSteps \/ job' = job \/ job.cluster \in strayed'
<1> USE DEF LinkSteps
<1>0. job # Idle
  <2>1. Idle.name = "none"
    BY DEF Idle, None
  <2> QED BY <2>1 DEF Linking
<1>1. ~Commanded
  BY <1>0, CommandedIs DEF TypeInv, Typed
<1>2. ~Creating
  BY DEF Creating, Resume, NothingToResume, Decline, PromptCluster, PromptPool, MakeVpc, MakeStack,
     StackStops,
     TagSubnets, AddThumbprint, EnsurePool, WaitForPool, LoadTypes, SaveConfig, RecordPool,
     AddAdminRole,
     Activate, RemoveFiles, Is
<1>3. ~Selecting
  BY DEF Selecting, Locate, WriteKubeConfig, ListClusters, RefreshContexts, Connect,
     ConfigureNodepool,
     ConfigureTargets, InstallComponents, Is
<1>4. Destroying => BreakOff \/ job' = job
  BY <1>0 DEF Destroying, Deselect, EmptyCluster, UnlinkAccounts, UntagSubnets, DeletePool,
     ForgetPool,
     DestroyStack, DestroyStops, DestroyVpc, DestroyElsewhere, Is, Linking
<1>5. BreakOff => job.cluster \in strayed'
  BY DEF BreakOff
<1>6. LinkAccounts => AccountSteps
  BY LinkingSteps
<1>7. ASSUME NEW c \in Cluster, PoolSettles(c) \/ Operate(c) PROVE job' = job
  BY <1>7 DEF PoolSettles, Operate, EnsureNamespace
<1> QED BY <1>1, <1>2, <1>3, <1>4, <1>5, <1>6, <1>7, NextIs

(* How a command lets go of an account, and of the targets.                *)
LEMMA LetsGo ==
  ASSUME TypeInv, Next, NEW c \in Cluster, NEW a, InHand(c, a)
  PROVE  InHand(c, a)' \/ SaveAccount \/ DeleteAccount \/ c \in strayed'
<1> JobTyped
  BY DEF TypeInv, Typed
<1>1. job.name \in Linking \cup {"unlink"} /\ job.at \in {"annotate", "save", "annotations", "object"}
      /\ c = job.cluster
  BY DEF InHand
<1>2. AccountSteps \/ job' = job \/ c \in strayed'
  BY <1>1, LinkingNext DEF LinkSteps
<1>3. AccountSteps => Annotate \/ SaveAccount \/ DropAnnotations \/ DeleteAccount
  BY <1>1 DEF AccountSteps, PickAccount, MakeServiceAccounts, SyncRole, AccountsDone, SaveTargets,
     ImportAccounts, DeleteRole, Is
<1>4. CASE Annotate
  <2>1. job.name \in Linking /\ Goto("save")
    BY <1>4 DEF Annotate, Is
  <2> QED BY <2>1, GotoIs DEF InHand
<1>5. CASE DropAnnotations
  <2>1. job.name = "unlink" /\ Goto("object")
    BY <1>5 DEF DropAnnotations, Is
  <2> QED BY <2>1, GotoIs DEF InHand
<1>6. CASE job' = job
  BY <1>6 DEF InHand
<1> QED BY <1>2, <1>3, <1>4, <1>5, <1>6

LEMMA ChangingGoes ==
  ASSUME TypeInv, Next, Changing
  PROVE  \/ Changing' /\ job'.cluster = job.cluster /\ job'.targets = job.targets
         \/ SaveTargets \/ (MakeServiceAccounts /\ MissingNamespaces # {}) \/ job.cluster \in strayed'
<1> JobTyped
  BY DEF TypeInv, Typed
<1>1. job.name \in {"configure", "select"} /\ job.at \in LinkSteps \cup {"accounts"}
  BY DEF Changing
<1>2. AccountSteps \/ job' = job \/ job.cluster \in strayed'
  BY <1>1, LinkingNext DEF Linking
<1>3. AccountSteps => PickAccount \/ MakeServiceAccounts \/ SyncRole \/ Annotate \/ SaveAccount \/ SaveTargets
  BY <1>1 DEF AccountSteps, AccountsDone, ImportAccounts, DeleteRole, DropAnnotations,
     DeleteAccount, Is
<1>4. CASE PickAccount
  BY <1>1, <1>4, PickAccountIs DEF Changing, LinkSteps
<1>5. CASE SaveAccount
  BY <1>1, <1>5, SaveAccountIs DEF Changing
<1>6. CASE (MakeServiceAccounts /\ MissingNamespaces = {}) \/ SyncRole \/ Annotate
  <2>1. Goto("sync") \/ Goto("annotate") \/ Goto("save")
    BY <1>6 DEF MakeServiceAccounts, SyncRole, Annotate
  <2> QED BY <1>1, <2>1, GotoIs DEF Changing, LinkSteps
<1>7. CASE job' = job
  BY <1>7 DEF Changing
<1> QED BY <1>2, <1>3, <1>4, <1>5, <1>6, <1>7

LEMMA LinkStays ==
  ASSUME TypeInv, KnownInv, HandInv, TodoInv, LinkInv, Next
  PROVE  LinkInv'
<1> /\ Typed /\ HasCluster /\ HasAccount /\ JobTyped /\ InsideTyped /\ NoneIsEmpty
  BY DEF TypeInv, Typed
<1> SUFFICES ASSUME NEW c \in Cluster, c \notin strayed', c \notin doomed',
                    NEW a \in DOMAIN inside'[c].accounts, inside'[c].accounts[a].hash # Unsynced
             PROVE  /\ InHand(c, a)' \/ HashLinked(c, a)'
                    /\ \/ inside'[c].targets \subseteq inside'[c].accounts[a].hash.targets
                       \/ ChangesTargets(c)'
  BY DEF LinkInv, Held
<1>e. inside'[c] # Empty
  BY DEF Empty
<1>1. InsideGrows(c)
  BY <1>e, InsideChange DEF Gone
<1>2. Held(c)
  <2>1. SUFFICES ASSUME PromptPool, Creates({"prompt pool"}), c = job.cluster PROVE FALSE
    BY StaysGivenUp DEF Held
  <2>2. inside'[c] = inside[c] /\ ~Exists(c)
    BY <2>1 DEF PromptPool, KeepsCluster, KnownInv
  <2> QED BY <2>2, <1>e DEF NoneIsEmpty
<1>3. ~(c = job.cluster /\ UnlinkAccounts)
  BY <1>2 DEF UnlinkAccounts, Is, KnownInv, Destroys, Emptying, Held
<1> DEFINE Kept == /\ a \in DOMAIN inside[c].accounts /\ inside'[c].accounts[a] = inside[c].accounts[a]
                   /\ (SaveAccount /\ c = job.cluster => a # job.account)
           Saved == c = job.cluster /\ SaveAccount /\ a = job.account
<1>4. Kept \/ (Saved /\ inside'[c].accounts[a].hash.targets = job.targets)
  BY <1>1, AccountsChange DEF Wanted
<1>k. Kept => /\ InHand(c, a) \/ HashLinked(c, a)
              /\ inside[c].targets \subseteq inside[c].accounts[a].hash.targets \/ ChangesTargets(c)
  BY <1>2 DEF LinkInv
<1>5. CASE Saved
  <2>0. job.name \in Linking /\ job.at = "save"
    BY <1>5, SaveAccountIs
  <2>1. InHand(c, a)' \/ HashLinked(c, a)'
    <3>1. ASSUME NEW t \in job.targets PROVE Linked(c, a, t)'
      <4>1. Linked(c, a, t)
        BY <1>5, <2>0 DEF HandInv, Linked, Here
      <4>2. ~SyncRole /\ ~DeleteRole /\ ~DropAnnotations
        BY <2>0 DEF SyncRole, DeleteRole, DropAnnotations, Is
      <4> QED BY <1>1, <1>3, <1>e, <4>1, <4>2, LinksStay
    <3>2. inside'[c].accounts[a].hash.targets = job.targets
      BY <1>4, <1>5
    <3> QED BY <3>1, <3>2 DEF HashLinked
  <2>2. inside'[c].targets \subseteq inside'[c].accounts[a].hash.targets \/ ChangesTargets(c)'
    <3>1. inside'[c].accounts[a].hash.targets = job.targets
      BY <1>4, <1>5
    <3>2. CASE job.name \in {"account", "import"}
      <4>1. job.targets = inside[c].targets
        BY <1>5, <2>0, <3>2 DEF TodoInv, LinkSteps, Here
      <4>2. inside'[c].targets = inside[c].targets
        BY <1>1, <1>5, <3>2, TargetsChange DEF SaveConfig, SaveTargets, Is
      <4> QED BY <3>1, <4>1, <4>2
    <3>3. CASE job.name \in {"configure", "select"}
      <4>1. Changing' /\ job'.cluster = c /\ job'.targets = job.targets
        BY <1>5, <3>3, SaveAccountIs DEF Changing
      <4>2. job.targets \subseteq inside[c].namespaces
        <5>1. job.targets \X {a} \subseteq Here.made
          BY <1>5, <2>0 DEF HasAccount
        <5>2. Here.made \subseteq Here.namespaces \X Account
          BY <1>5 DEF Here, InsideTyped, Holding
        <5>3. ASSUME NEW t \in job.targets PROVE t \in Here.namespaces
          <6>1. <<t, a>> \in Here.namespaces \X Account
            BY <5>1, <5>2
          <6> QED BY <6>1
        <5> QED BY <5>3, <1>5 DEF Here
      <4>3. inside[c].namespaces \subseteq inside'[c].namespaces
        BY <1>1, NamespacesStay
      <4> QED BY <4>1, <4>2, <4>3 DEF ChangesTargets
    <3> QED BY <2>0, <3>2, <3>3 DEF Linking
  <2> QED BY <2>1, <2>2
<1>6. CASE Kept
  <2>1. InHand(c, a)' \/ HashLinked(c, a)'
    <3>1. CASE InHand(c, a)
      <4>1. c = job.cluster /\ a = job.account
        BY <3>1 DEF InHand
      <4>2. ~SaveAccount
        BY <1>6, <4>1
      <4>3. ~DeleteAccount
        <5>1. SUFFICES ASSUME DeleteAccount PROVE FALSE
          OBVIOUS
        <5>2. Here \in Holding
          BY <5>1, LinksHere DEF DeleteAccount, Is
        <5>3. inside'[c] = [Here EXCEPT !.accounts = Without(@, {job.account})]
          BY <4>1, <5>1 DEF DeleteAccount, Change, InsideTyped
        <5>4. inside'[c].accounts = Without(Here.accounts, {job.account})
          BY <5>2, <5>3 DEF Holding
        <5> QED BY <4>1, <5>4 DEF Without
      <4> QED BY <3>1, <4>2, <4>3, LetsGo
    <3>2. CASE c = job.cluster /\ a = job.account /\ (SyncRole \/ DeleteRole \/ DropAnnotations)
      <4>1. /\ SyncRole => Goto("annotate") /\ job.name \in Linking
            /\ DeleteRole => Goto("annotations") /\ job.name = "unlink"
            /\ DropAnnotations => Goto("object") /\ job.name = "unlink"
        BY DEF SyncRole, DeleteRole, DropAnnotations, Is
      <4> QED BY <3>2, <4>1, GotoIs DEF InHand
    <3>3. CASE /\ HashLinked(c, a)
               /\ ~(c = job.cluster /\ a = job.account /\ (SyncRole \/ DeleteRole \/ DropAnnotations))
      <4>1. \A t : Linked(c, a, t) => Linked(c, a, t)'
        BY <1>1, <1>3, <1>e, <3>3, LinksStay
      <4> QED BY <3>3, <4>1, <1>6 DEF HashLinked
    <3> QED BY <1>6, <1>k, <3>1, <3>2, <3>3
  <2>2. inside'[c].targets \subseteq inside'[c].accounts[a].hash.targets \/ ChangesTargets(c)'
    <3>1. CASE c = job.cluster /\ SaveTargets
      <4>1. inside'[c].targets = job.targets \/ inside'[c].targets = inside[c].targets
        BY <1>1, <3>1, TargetsChange DEF SaveConfig, SaveTargets, Is
      <4>2. inside'[c].targets = job.targets
        <5>1. inside'[c] = [inside[c] EXCEPT !.targets = job.targets] /\ inside[c] \in Holding
          BY <3>1 DEF SaveTargets, Change, InsideTyped, Here
        <5> QED BY <5>1 DEF Holding
      <4>3. Changing /\ job.todo = {}
        BY <3>1 DEF SaveTargets, Is, Changing
      <4>4. job.targets \subseteq inside[c].accounts[a].hash.targets
        BY <1>6, <3>1, <4>3 DEF TodoInv, Here
      <4> QED BY <4>2, <4>4, <1>6
    <3>2. CASE ~(c = job.cluster /\ SaveTargets)
      <4>1. inside'[c].targets = inside[c].targets \/ inside'[c].targets = {}
        BY <1>1, <3>2, TargetsChange
      <4>2. CASE ChangesTargets(c)
        <5>1. MissingNamespaces = {}
          BY <4>2 DEF ChangesTargets, MissingNamespaces, Here
        <5>2. Changing' /\ job'.cluster = job.cluster /\ job'.targets = job.targets
          BY <3>2, <4>2, <5>1, ChangingGoes DEF ChangesTargets
        <5>3. inside[c].namespaces \subseteq inside'[c].namespaces
          BY <1>1, NamespacesStay
        <5> QED BY <4>2, <5>2, <5>3 DEF ChangesTargets
      <4>3. CASE inside[c].targets \subseteq inside[c].accounts[a].hash.targets
        BY <1>6, <4>1, <4>3
      <4> QED BY <1>6, <1>k, <4>2, <4>3
    <3> QED BY <3>1, <3>2
  <2> QED BY <2>1, <2>2
<1> HIDE DEF Kept, Saved
<1> QED BY <1>4, <1>5, <1>6

LEMMA LinkInvariant == Spec => [](HandInv /\ TodoInv /\ LinkInv)
<1>1. ASSUME Init PROVE HandInv /\ TodoInv /\ LinkInv
  <2>1. HandInv /\ TodoInv
    BY <1>1 DEF Init, Idle, HandInv, TodoInv, Changing, Linking, None
  <2>2. PICK active \in ActiveAtFirst, k \in FirstInside :
          /\ inside = [c \in Cluster |-> IF c \in active THEN k ELSE Empty]
          /\ roles = [c \in Cluster |-> IF c \in active
                        THEN [a \in DOMAIN k.accounts |-> k.accounts[a].spec] ELSE << >>]
    BY <1>1 DEF Init
  <2>3. SUFFICES ASSUME NEW c \in Cluster, NEW a \in DOMAIN inside[c].accounts
                 PROVE  /\ HashLinked(c, a)
                        /\ inside[c].targets \subseteq inside[c].accounts[a].hash.targets
    BY <2>1 DEF LinkInv
  <2>4. inside[c] = k /\ roles[c] = [b \in DOMAIN k.accounts |-> k.accounts[b].spec]
    BY <2>2 DEF Empty
  <2>5. /\ k.accounts[a].hash = k.accounts[a].spec /\ k.targets \subseteq k.accounts[a].spec.targets
        /\ k.accounts[a].spec.targets \X {a} \subseteq k.linked
    BY <2>4 DEF IsServing
  <2>6. ASSUME NEW t \in k.accounts[a].spec.targets PROVE Linked(c, a, t)
    <3>1. <<t, a>> \in k.linked
      BY <2>5
    <3> QED BY <3>1, <2>3, <2>4 DEF Linked
  <2> QED BY <2>4, <2>5, <2>6 DEF HashLinked
<1>2. ASSUME HandInv, TodoInv, LinkInv, UNCHANGED vars PROVE HandInv' /\ TodoInv' /\ LinkInv'
  BY <1>2 DEF vars, history, HandInv, TodoInv, LinkInv, Held, HashLinked, InHand, ChangesTargets,
     Changing,
     Here, Linked
<1>3. TypeInv /\ KnownInv /\ HandInv /\ TodoInv /\ LinkInv /\ [Next]_vars => HandInv' /\ TodoInv' /\ LinkInv'
  BY <1>2, HandStays, TodoStays, LinkStays
<1> QED BY <1>1, <1>3, TypeInvariant, KnownInvariant, PTL DEF Spec

(* Between two commands, an account that says it is synced is linked in    *)
(* every target the cluster has, unless a command about accounts broke     *)
(* off there.                                                              *)
THEOREM TargetsStayLinked == Spec => []TargetsAreLinked
<1>1. ASSUME LinkInv PROVE TargetsAreLinked
  <2>1. SUFFICES ASSUME job = Idle, NEW c \in Cluster, Held(c), NEW a \in DOMAIN inside[c].accounts,
                        inside[c].accounts[a].hash # Unsynced
                 PROVE  \A t \in inside[c].targets : Linked(c, a, t)
    BY DEF TargetsAreLinked, Held
  <2>2. job.name = "none"
    BY <2>1 DEF Idle, None
  <2>3. ~InHand(c, a) /\ ~ChangesTargets(c)
    BY <2>2 DEF InHand, ChangesTargets, Changing, Linking
  <2> QED BY <1>1, <2>1, <2>3 DEF LinkInv, HashLinked
<1> QED BY <1>1, LinkInvariant, PTL
=============================================================================
