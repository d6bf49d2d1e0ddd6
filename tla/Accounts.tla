------------------------------ MODULE Accounts ------------------------------
(***************************************************************************)
(* What a cluster holds of its targets and of the cloud roles linked to    *)
(* them: namespaces, linked service accounts, service accounts and roles.  *)
(*                                                                         *)
(* A linked account is an object in the cluster, a role in the cloud that  *)
(* trusts the service account of that name in the account's targets, and   *)
(* an annotation on each of these service accounts.  The CLI writes all    *)
(* three, one after the other, in commands that module Clusters starts and *)
(* that may break off after any step.  The operator makes the namespaces.  *)
(***************************************************************************)
EXTENDS FiniteSets, Integers, Maps

CONSTANTS
  Cluster,   \* names of clusters
  Target,    \* names of targets
  Account,   \* names of linked accounts
  Policy,    \* what an account's manifest may grant
  MaxPools   \* bound: the node pools of a cluster over time

ASSUME AccountsAssumption ==
  /\ IsFiniteSet(Cluster) /\ IsFiniteSet(Target) /\ IsFiniteSet(Account)
  /\ Policy # {} /\ MaxPools \in Nat

VARIABLES
  inside,  \* of each cluster, the objects in it: see Empty
  roles,   \* of each cluster, the roles linked to it, with what they were applied with
  job      \* the command that runs, with what it has in memory, or Idle

Pool == 1..MaxPools
None == "none"
AccountSpec == [targets : SUBSET Target, policy : Policy]
Unsynced == [targets |-> {}, policy |-> None]

(* targets: those in the ClusterConfig, config: it exists.  crds: the      *)
(* types are known.  pools: the Nodepool objects.  installed: components   *)
(* are recorded as installed.  operator: it runs.  admin: the admin role   *)
(* may log in.  made and linked: pairs of a target and a name of a service *)
(* account that exists, and of one with a role's annotation.               *)
Empty ==
  [crds |-> FALSE, config |-> FALSE, targets |-> {}, pools |-> {}, admin |-> FALSE,
   installed |-> FALSE, operator |-> FALSE, namespaces |-> {}, accounts |-> << >>,
   made |-> {}, linked |-> {}]

(* at: its next step.  todo: accounts it has still to go through.          *)
Idle ==
  [name |-> None, at |-> None, cluster |-> None, pool |-> 0, targets |-> {},
   todo |-> {}, account |-> None, policy |-> None]

AccountObject == [spec : AccountSpec, hash : AccountSpec \cup {Unsynced}]
IsInside(k) ==
  /\ k \in [crds : BOOLEAN, config : BOOLEAN, targets : SUBSET Target, pools : SUBSET Pool,
             admin : BOOLEAN, installed : BOOLEAN, operator : BOOLEAN,
             namespaces : SUBSET Target, accounts : {k.accounts},
             made : SUBSET (Target \X Account), linked : SUBSET (Target \X Account)]
  /\ IsPartial(k.accounts, Account, AccountObject)
  /\ k.linked \subseteq k.made /\ k.made \subseteq k.namespaces \X Account

InsideTypeOK ==
  /\ DOMAIN inside = Cluster /\ \A c \in Cluster : IsInside(inside[c])
  /\ DOMAIN roles = Cluster /\ \A c \in Cluster : IsPartial(roles[c], Account, AccountSpec)

(* A cluster with everything a creation makes, whose accounts are linked   *)
(* in the targets it has.                                                  *)
IsServing(k) ==
  /\ IsInside(k) /\ k.crds /\ k.config /\ k.admin
  /\ \A a \in DOMAIN k.accounts :
       /\ k.accounts[a].hash = k.accounts[a].spec
       /\ k.targets \subseteq k.accounts[a].spec.targets
       /\ k.accounts[a].spec.targets \X {a} \subseteq k.linked

Here == inside[job.cluster]
Is(name, at) == job.name \in name /\ job.at = at
Goto(at) == job' = [job EXCEPT !.at = at]
Ends == job' = Idle
Change(k) == inside' = [inside EXCEPT ![job.cluster] = k]
Linking == {"account", "configure", "select", "import"}

-----------------------------------------------------------------------------
(* reconcileAccount, for each account of job.todo.                         *)

(* The account as the command has it in memory.                            *)
Wanted(a) ==
  [targets |-> job.targets,
   policy |-> IF job.name = "account" THEN job.policy ELSE Here.accounts[a].spec.policy]

(* The hash in its annotation is that of another specification, or none.   *)
NeedsReconcile(a) ==
  a \notin DOMAIN Here.accounts \/ Here.accounts[a].hash # Wanted(a)

PickAccount ==
  /\ Is(Linking, "accounts")
  /\ \E a \in job.todo :
       job' = IF NeedsReconcile(a) THEN [job EXCEPT !.at = "make", !.account = a]
              ELSE [job EXCEPT !.todo = @ \ {a}]
  /\ UNCHANGED <<inside, roles>>

(* Mutant: as if Kubernetes made a namespace that is missing.              *)
NoneMissing == {}

MissingNamespaces == job.targets \ Here.namespaces

(* One for each target.  Those behind a target without a namespace are not *)
(* made, and the command fails.                                            *)
MakeServiceAccounts ==
  /\ Is(Linking, "make")
  /\ \/ /\ MissingNamespaces = {}
        /\ Change([Here EXCEPT !.made = @ \cup job.targets \X {job.account}])
        /\ Goto("sync")
     \/ /\ MissingNamespaces # {}
        /\ \E first \in SUBSET (job.targets \ MissingNamespaces) :
             Change([Here EXCEPT !.made = @ \cup first \X {job.account}])
        /\ Ends
  /\ UNCHANGED roles

(* SyncLinkedServiceAccount: terraform applies the role.                   *)
SyncRole ==
  /\ Is(Linking, "sync")
  /\ roles' = [roles EXCEPT ![job.cluster] = With(@, job.account, Wanted(job.account))]
  /\ Goto("annotate")
  /\ UNCHANGED inside

Annotate ==
  /\ Is(Linking, "annotate")
  /\ Change([Here EXCEPT !.linked = @ \cup job.targets \X {job.account}])
  /\ Goto("save")
  /\ UNCHANGED roles

(* UpdateHash and UpdateResource.                                          *)
SaveAccount ==
  /\ Is(Linking, "save")
  /\ LET spec == Wanted(job.account)
     IN  Change([Here EXCEPT !.accounts = With(@, job.account, [spec |-> spec, hash |-> spec])])
  /\ job' = [job EXCEPT !.at = "accounts", !.todo = @ \ {job.account}]
  /\ UNCHANGED roles

AccountsDone ==
  /\ Is({"account", "import"}, "accounts") /\ job.todo = {}
  /\ Ends
  /\ UNCHANGED <<inside, roles>>

(* addTargetPrompt and removeTargetPrompt, once the accounts are linked.   *)
SaveTargets ==
  /\ Is({"configure", "select"}, "accounts") /\ job.todo = {}
  /\ Change([Here EXCEPT !.targets = job.targets])
  /\ IF job.name = "select" THEN Goto("install") ELSE Ends
  /\ UNCHANGED roles

-----------------------------------------------------------------------------
(* An import, a deletion and the operator.                                 *)

(* Mutant: the files keep the annotation that says what was synced.        *)
ImportedAsSynced(spec) == [spec |-> spec, hash |-> spec]

(* An exported account has no annotations, and the object gets those of    *)
(* the file.                                                               *)
Imported(spec) == [spec |-> spec, hash |-> Unsynced]

ImportAccounts ==
  /\ Is({"import"}, "files")
  /\ Change([Here EXCEPT !.accounts =
       Over(@, [a \in job.todo |-> Imported([targets |-> job.targets, policy |-> job.policy])])])
  /\ job' = [job EXCEPT !.at = "accounts", !.targets = Here.targets,
                        !.todo = @ \cup DOMAIN Here.accounts]
  /\ UNCHANGED roles

(* DeleteLinkedServiceAccount, then the object.                            *)
DeleteRole ==
  /\ Is({"unlink"}, "role")
  /\ roles' = [roles EXCEPT ![job.cluster] = Without(@, {job.account})]
  /\ Goto("annotations")
  /\ UNCHANGED inside

DropAnnotations ==
  /\ Is({"unlink"}, "annotations")
  /\ Change([Here EXCEPT !.linked = @ \ (Here.accounts[job.account].spec.targets \X {job.account})])
  /\ Goto("object")
  /\ UNCHANGED roles

DeleteAccount ==
  /\ Is({"unlink"}, "object")
  /\ Change([Here EXCEPT !.accounts = Without(@, {job.account})])
  /\ Ends
  /\ UNCHANGED roles

AccountSteps ==
  \/ PickAccount \/ MakeServiceAccounts \/ SyncRole \/ Annotate \/ SaveAccount
  \/ AccountsDone \/ SaveTargets
  \/ ImportAccounts \/ DeleteRole \/ DropAnnotations \/ DeleteAccount

(* ensureNamespaceCreated, for one target; none is ever removed.           *)
EnsureNamespace(c) ==
  /\ inside[c].operator /\ inside[c].config
  /\ \E t \in inside[c].targets \ inside[c].namespaces :
       inside' = [inside EXCEPT ![c].namespaces = @ \cup {t}]
  /\ UNCHANGED <<roles, job>>

(* The role that an account was synced with may be taken by the pods of    *)
(* the target.                                                             *)
Linked(c, a, t) ==
  a \in DOMAIN roles[c] /\ t \in roles[c][a].targets /\ <<t, a>> \in inside[c].linked
=============================================================================
