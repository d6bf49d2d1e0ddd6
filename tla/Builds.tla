------------------------------- MODULE Builds -------------------------------
(***************************************************************************)
(* The builds of one image and the label that marks the latest.            *)
(*                                                                         *)
(* The app controller creates a build, with the label, for a tag it has    *)
(* not met.  The build controller takes the label from all builds but the  *)
(* newest.  It reads from a cache which a watch fills: changes reach it in *)
(* their order, but late, and each one queues its build.  A write based on *)
(* an outdated copy is refused.                                            *)
(***************************************************************************)
EXTENDS Settings, Sequences

CONSTANT SameSecond   \* may two builds get the same creation time?

ASSUME BuildsAssumption == SameSecond \in BOOLEAN

VARIABLES
  created,   \* creation time, in seconds, of each build that exists
  latest,    \* the builds with the label
  events,    \* changes the watch has not delivered: [build, latest]
  known,     \* the cache: whether each build it holds has the label
  bqueue,    \* builds to reconcile
  bjob       \* the pass under way: [build, todo], or NoJob

bvars == <<created, latest, events, known, bqueue, bjob>>

NoJob == [todo |-> {}]

Change == [build : Tags, latest : BOOLEAN]

BuildsTypeOK ==
  /\ IsPartial(created, Tags, Nat)
  /\ latest \subseteq DOMAIN created
  /\ events \in Seq(Change)
  /\ IsPartial(known, DOMAIN created, BOOLEAN)
  /\ bqueue \subseteq Tags
  /\ bjob \in [build : Tags, todo : SUBSET Tags] \cup {NoJob}

BuildsInit ==
  /\ created = << >> /\ latest = {} /\ events = << >>
  /\ known = << >> /\ bqueue = {} /\ bjob = NoJob

Newest(S) == CHOOSE b \in S : \A c \in S : created[c] <= created[b]

(* reconcileBuild of the app controller: an existing build is taken as it  *)
(* is, its label included.                                                 *)
CreateBuild(b) ==
  IF b \in DOMAIN created THEN UNCHANGED bvars
  ELSE /\ LET last == IF created = << >> THEN 0 ELSE created[Newest(DOMAIN created)]
          IN  \E now \in {last + 1} \cup (IF SameSecond THEN {last} ELSE {}) :
                created' = Over(created, [c \in {b} |-> now])
       /\ latest' = latest \cup {b}
       /\ events' = Append(events, [build |-> b, latest |-> TRUE])
       /\ UNCHANGED <<known, bqueue, bjob>>

DeliverBuild ==
  /\ events # << >>
  /\ known' = Over(known, [c \in {Head(events).build} |-> Head(events).latest])
  /\ bqueue' = bqueue \cup {Head(events).build}
  /\ events' = Tail(events)
  /\ UNCHANGED <<created, latest, bjob>>

(* Mutant: the pass keeps the build it was called for.                     *)
WinnerIsOwn(b, labelled) == b

(* The labelled build created after all others; b itself if none is later. *)
Winner(b, labelled) ==
  IF \E c \in labelled : created[c] > created[b] THEN Newest(labelled) ELSE b

BeginBuild(b) ==
  /\ bjob = NoJob /\ b \in bqueue
  /\ bqueue' = bqueue \ {b}
  /\ LET labelled == {c \in DOMAIN known : known[c]}
     IN  bjob' = IF known[b] /\ labelled # {Winner(b, labelled)}
                 THEN [build |-> b, todo |-> labelled \ {Winner(b, labelled)}]
                 ELSE NoJob
  /\ UNCHANGED <<created, latest, events, known>>

(* Mutant: the error of an update is logged and forgotten.                 *)
NotRetried == bqueue

Retried == bqueue \cup {bjob.build}

(* UpdateResource of one build, from the cache: refused if there is a      *)
(* newer version, and then the pass is queued again; nothing to do when    *)
(* the copy has lost the label.                                            *)
UnlabelBuild(c) ==
  /\ c \in bjob.todo
  /\ \/ /\ \E i \in DOMAIN events : events[i].build = c
        /\ bjob' = NoJob /\ bqueue' = Retried
        /\ UNCHANGED <<latest, events>>
     \/ /\ \A i \in DOMAIN events : events[i].build # c
        /\ latest' = latest \ {c}
        /\ events' = IF c \in latest THEN Append(events, [build |-> c, latest |-> FALSE])
                     ELSE events
        /\ bjob' = IF bjob.todo = {c} THEN NoJob ELSE [bjob EXCEPT !.todo = @ \ {c}]
        /\ UNCHANGED bqueue
  /\ UNCHANGED <<created, known>>

ReconcileBuild ==
  \/ \E b \in Tags : BeginBuild(b)
  \/ \E c \in Tags : UnlabelBuild(c)

BuildController == DeliverBuild \/ ReconcileBuild
=============================================================================
