----------------------------- MODULE AppsProofs -----------------------------
(***************************************************************************)
(* Proofs about Apps: what the controllers and the commands keep true,     *)
(* whatever the apps, targets and builds are and however long they run.    *)
(***************************************************************************)
EXTENDS Apps, MapProofs, WellFoundedInduction

-----------------------------------------------------------------------------
(* Data.                                                                   *)

(* The specs of apps, apps, passes and commands as sets.                   *)
AppSpec ==
  [tag : Tags, settings : Settable, scale : ScaleSpec, targets : Partial(Targets, TargetConfig)]
App == [spec : AppSpec, uid : Nat, version : Nat]
Pass ==
  [app : AppNames, spec : AppSpec, uid : Nat, pc : {"build", "targets"},
   todo : SUBSET Targets, invalid : SUBSET Targets]
Command ==
  [kind : {"deploy", "halt", "edit"}, app : AppNames, read : App, new : AppSpec]
  \cup [kind : {"addTarget", "removeTarget"}, targets : SUBSET Targets]

LEMMA SettableIs == Settable = Partial(Variables, Values)
BY DEF Settable, Partial

LEMMA AppSpecHas ==
  ASSUME NEW app
  PROVE  IsAppSpec(app) <=> app \in AppSpec
<1>1. ASSUME IsAppSpec(app) PROVE app \in AppSpec
  <2>1. app.targets \in Partial(Targets, TargetConfig)
    BY <1>1, PartialHas DEF IsAppSpec
  <2> QED BY <1>1, <2>1 DEF IsAppSpec, AppSpec
<1>2. ASSUME app \in AppSpec PROVE IsAppSpec(app)
  <2>1. IsPartial(app.targets, Targets, TargetConfig)
    BY <1>2, PartialHas DEF AppSpec
  <2> QED BY <1>2, <2>1 DEF IsAppSpec, AppSpec
<1> QED BY <1>1, <1>2

LEMMA AppHas ==
  ASSUME NEW a \in App
  PROVE  IsApp(a)
BY AppSpecHas DEF App, IsApp

LEMMA PassHas ==
  ASSUME NEW p \in Pass
  PROVE  IsPass(p)
BY AppSpecHas DEF Pass, IsPass

LEMMA CommandHas ==
  ASSUME NEW c \in Command
  PROVE  IsCommand(c)
<1>1. CASE c \in [kind : {"deploy", "halt", "edit"}, app : AppNames, read : App, new : AppSpec]
  <2>1. IsApp(c.read) /\ IsAppSpec(c.new)
    BY <1>1, AppHas, AppSpecHas
  <2> QED BY <1>1, <2>1 DEF IsCommand
<1>2. CASE c \in [kind : {"addTarget", "removeTarget"}, targets : SUBSET Targets]
  BY <1>2 DEF IsCommand
<1> QED BY <1>1, <1>2 DEF Command

LEMMA SpecsAreSpecs == Specs \cup FirstSpecs \subseteq AppSpec
BY AppsAssumption, AppSpecHas

(* The specification of an app target, and its hash.                       *)
LEMMA MadeIsAppTargetSpec ==
  ASSUME NEW a \in AppNames, NEW app \in AppSpec, NEW t \in Targets
  PROVE  newAppTargetForApp(a, app, t) \in AppTargetSpec
<1>1. app.targets \in Partial(Targets, TargetConfig)
  BY DEF AppSpec
<1>c. t \in DOMAIN app.targets => app.targets[t] \in TargetConfig
  BY <1>1, PartialIs
<1>2. DeployModeForTarget(app, t) \in Modes \ {""}
  BY <1>c DEF DeployModeForTarget, Modes, TargetConfig
<1>3. SettingsForTarget(app, t) \in Settable
  <2>1. app.settings \in Partial(Variables, Values)
    BY SettableIs DEF AppSpec
  <2>2. ASSUME t \in DOMAIN app.targets
        PROVE  app.targets[t].settings \in Partial(Variables, Values)
    BY <1>c, <2>2, SettableIs DEF TargetConfig
  <2>3. SettingsForTarget(app, t) \in Partial(Variables, Values)
    BY <2>1, <2>2, OverIsPartial DEF SettingsForTarget
  <2> QED BY <2>3, SettableIs
<1>4. ScaleSpecForTarget(app, t) \in [min : Nat \ {0}, max : Nat \ {0}]
  <2>1. app.scale \in ScaleSpec
    BY DEF AppSpec
  <2>2. t \in DOMAIN app.targets => app.targets[t].scale \in ScaleSpec
    BY <1>c DEF TargetConfig
  <2> QED BY <2>1, <2>2 DEF ScaleSpecForTarget, ScaleSpec
<1>5. (t \in DOMAIN app.targets /\ app.targets[t].ingress) \in BOOLEAN
  OBVIOUS
<1>6. app.tag \in Tags
  BY DEF AppSpec
<1> QED BY <1>2, <1>3, <1>4, <1>5, <1>6 DEF newAppTargetForApp, AppTargetSpec

LEMMA HashIsHash ==
  ASSUME NEW at \in AppTargetSpec
  PROVE  HashOf(at) \in HashSpec
BY DEF HashOf, HashSpec, AppTargetSpec

-----------------------------------------------------------------------------
(* Builds.                                                                 *)

BuildsTyped ==
  /\ created \in Partial(Tags, Nat)
  /\ latest \subseteq DOMAIN created
  /\ events \in Seq(Change)
  /\ known \in Partial(DOMAIN created, BOOLEAN)
  /\ bqueue \subseteq Tags
  /\ bjob \in [build : Tags, todo : SUBSET Tags] \cup {NoJob}

(* Beside the types: some build is the newest, the cache and what waits to *)
(* reach it know only builds that exist, and the controller works only on  *)
(* builds that the cache knows.                                            *)
BuildsInv ==
  /\ BuildsTyped
  /\ DOMAIN created # {} =>
       \E b \in DOMAIN created : \A c \in DOMAIN created : created[c] <= created[b]
  /\ \A i \in DOMAIN events : events[i].build \in DOMAIN created
  /\ bqueue \subseteq DOMAIN known
  /\ bjob # NoJob => bjob.build \in DOMAIN known /\ bjob.todo \subseteq DOMAIN known

LEMMA HeadAndTail ==
  ASSUME NEW S, NEW s \in Seq(S), s # << >>
  PROVE  /\ Head(s) \in S /\ \E i \in DOMAIN s : Head(s) = s[i]
         /\ Tail(s) \in Seq(S)
         /\ \A i \in DOMAIN Tail(s) : \E j \in DOMAIN s : Tail(s)[i] = s[j]
<1>1. Len(s) \in Nat \ {0} /\ DOMAIN s = 1..Len(s)
  OBVIOUS
<1>2. Head(s) = s[1] /\ 1 \in DOMAIN s /\ s[1] \in S
  BY <1>1
<1>3. /\ Tail(s) \in Seq(S)
      /\ \A i \in DOMAIN Tail(s) : Tail(s)[i] = s[i + 1] /\ i + 1 \in DOMAIN s
  BY <1>1
<1> QED BY <1>2, <1>3

LEMMA AppendIsSeq ==
  ASSUME NEW S, NEW s \in Seq(S), NEW e \in S
  PROVE  /\ Append(s, e) \in Seq(S)
         /\ \A i \in DOMAIN Append(s, e) : Append(s, e)[i] = e \/ \E j \in DOMAIN s : Append(s, e)[i] = s[j]
OBVIOUS

LEMMA BuildsInitially == BuildsInit => BuildsInv
<1> SUFFICES ASSUME BuildsInit PROVE BuildsInv
  OBVIOUS
<1>1. created \in Partial(Tags, Nat) /\ known \in Partial(DOMAIN created, BOOLEAN)
  BY EmptyIsPartial DEF BuildsInit
<1>2. events \in Seq(Change)
  BY DEF BuildsInit
<1> QED BY <1>1, <1>2 DEF BuildsInit, BuildsInv, BuildsTyped

(* The newest of the builds that exist: created last.                      *)
LEMMA NewestIsLast ==
  ASSUME BuildsInv, created # << >>
  PROVE  /\ Newest(DOMAIN created) \in DOMAIN created
         /\ \A c \in DOMAIN created : created[c] <= created[Newest(DOMAIN created)]
<1>1. DOMAIN created # {}
  BY EmptyDomain DEF BuildsInv, BuildsTyped
<1>2. \E b \in DOMAIN created : \A c \in DOMAIN created : created[c] <= created[b]
  BY <1>1 DEF BuildsInv
<1> QED BY <1>2 DEF Newest

(* A new build is created no earlier than all others, and later where      *)
(* creation times tell them apart.                                         *)
LEMMA NewBuild ==
  ASSUME BuildsInv, NEW b \in Tags, b \notin DOMAIN created, CreateBuild(b)
  PROVE  /\ created' \in Partial(Tags, Nat)
         /\ DOMAIN created' = DOMAIN created \cup {b}
         /\ \A c \in DOMAIN created : created'[c] = created[c] /\ created[c] <= created'[b]
         /\ SameSecond \/ \A c \in DOMAIN created : created[c] < created'[b]
<1> DEFINE last == IF created = << >> THEN 0 ELSE created[Newest(DOMAIN created)]
<1>1. created \in Partial(Tags, Nat) /\ \A c \in DOMAIN created : created[c] \in Nat
  BY PartialIs DEF BuildsInv, BuildsTyped
<1>2. last \in Nat /\ \A c \in DOMAIN created : created[c] <= last
  BY <1>1, NewestIsLast, EmptyDomain
<1>3. PICK now \in {last + 1} \cup (IF SameSecond THEN {last} ELSE {}) :
        created' = Over(created, [c \in {b} |-> now])
  BY DEF CreateBuild
<1> HIDE DEF last
<1>4. now \in Nat /\ last <= now /\ (SameSecond \/ last < now)
  BY <1>2, <1>3
<1>5. /\ DOMAIN created' = DOMAIN created \cup {b}
      /\ created'[b] = now
      /\ \A c \in DOMAIN created : created'[c] = created[c]
  BY <1>3 DEF Over
<1>6. created' \in Partial(Tags, Nat)
  <2>1. [c \in {b} |-> now] \in Partial(Tags, Nat)
    <3>1. [c \in {b} |-> now] \in [{b} -> Nat] /\ {b} \in SUBSET Tags
      BY <1>4
    <3> QED BY <3>1 DEF Partial
  <2> QED BY <2>1, <1>1, <1>3, OverIsPartial
<1>7. \A c \in DOMAIN created : created[c] <= now /\ (SameSecond \/ created[c] < now)
  BY <1>1, <1>2, <1>4
<1> QED BY <1>5, <1>6, <1>7

LEMMA CreateKeepsBuilds ==
  ASSUME BuildsInv, NEW b \in Tags, CreateBuild(b)
  PROVE  BuildsInv'
<1>1. CASE b \in DOMAIN created
  BY <1>1 DEF CreateBuild, bvars, BuildsInv, BuildsTyped
<1>2. CASE b \notin DOMAIN created
  <2>1. UNCHANGED <<known, bqueue, bjob>> /\ latest' = latest \cup {b}
        /\ events' = Append(events, [build |-> b, latest |-> TRUE])
    BY <1>2 DEF CreateBuild
  <2>2. /\ created' \in Partial(Tags, Nat)
        /\ DOMAIN created' = DOMAIN created \cup {b}
        /\ \A c \in DOMAIN created : created'[c] = created[c] /\ created[c] <= created'[b]
    BY <1>2, NewBuild
  <2>3. \A c \in DOMAIN created' : created'[c] <= created'[b]
    <3>1. created'[b] \in Nat
      BY <2>2, PartialIs
    <3> QED BY <2>2, <3>1
  <2>4. events \in Seq(Change)
    BY DEF BuildsInv, BuildsTyped
  <2> DEFINE new == [build |-> b, latest |-> TRUE]
  <2>n. new \in Change
    BY DEF Change
  <2>5. events' \in Seq(Change)
    BY <2>1, <2>4, <2>n, AppendIsSeq
  <2>6. \A i \in DOMAIN events' : events'[i].build \in DOMAIN created'
    BY <2>1, <2>2, <2>4 DEF BuildsInv
  <2>7. known \in Partial(DOMAIN created', BOOLEAN)
    BY <2>2, PartialIs DEF BuildsInv, BuildsTyped
  <2> QED BY <2>1, <2>2, <2>3, <2>5, <2>6, <2>7 DEF BuildsInv, BuildsTyped
<1> QED BY <1>1, <1>2

LEMMA DeliverKeepsBuilds ==
  ASSUME BuildsInv, DeliverBuild
  PROVE  BuildsInv'
<1>1. /\ known \in Partial(DOMAIN created, BOOLEAN)
      /\ events \in Seq(Change) /\ events # << >>
  BY DEF BuildsInv, BuildsTyped, DeliverBuild
<1>2. /\ Head(events) \in Change
      /\ Tail(events) \in Seq(Change)
      /\ \E i \in DOMAIN events : Head(events) = events[i]
      /\ \A i \in DOMAIN Tail(events) : \E j \in DOMAIN events : Tail(events)[i] = events[j]
  BY <1>1, HeadAndTail
<1>3. Head(events).build \in DOMAIN created
  BY <1>2 DEF BuildsInv
<1> DEFINE change == [c \in {Head(events).build} |-> Head(events).latest]
<1>4. change \in Partial(DOMAIN created, BOOLEAN)
  <2>1. change \in [{Head(events).build} -> BOOLEAN] /\ {Head(events).build} \in SUBSET DOMAIN created
    BY <1>2, <1>3 DEF Change
  <2> QED BY <2>1 DEF Partial
<1>5. /\ known' = Over(known, change) /\ bqueue' = bqueue \cup {Head(events).build}
      /\ events' = Tail(events) /\ UNCHANGED <<created, latest, bjob>>
  BY DEF DeliverBuild
<1>6. DOMAIN known' = DOMAIN known \cup {Head(events).build}
  BY <1>5 DEF Over
<1>7. known' \in Partial(DOMAIN created', BOOLEAN)
  BY <1>1, <1>4, <1>5, OverIsPartial
<1> QED BY <1>2, <1>5, <1>6, <1>7 DEF BuildsInv, BuildsTyped, Change

(* A pass takes the label from builds that the cache knows.                *)
LEMMA BeginKeepsBuilds ==
  ASSUME BuildsInv, NEW b \in Tags, BeginBuild(b)
  PROVE  BuildsInv'
<1> DEFINE labelled == {c \in DOMAIN known : known[c]}
           rest == labelled \ {Winner(b, labelled)}
<1>1. bjob' = NoJob \/ bjob' = [build |-> b, todo |-> rest]
  BY DEF BeginBuild
<1>r. rest \subseteq DOMAIN known
  OBVIOUS
<1> HIDE DEF rest
<1>2. DOMAIN known \subseteq Tags
  BY PartialIs DEF BuildsInv, BuildsTyped
<1>3. b \in DOMAIN known
  BY DEF BeginBuild, BuildsInv
<1>4. bjob' \in [build : Tags, todo : SUBSET Tags] \cup {NoJob}
  BY <1>1, <1>2, <1>r
<1>5. bjob' # NoJob => bjob'.build \in DOMAIN known /\ bjob'.todo \subseteq DOMAIN known
  BY <1>1, <1>3, <1>r
<1> QED BY <1>4, <1>5 DEF BeginBuild, BuildsInv, BuildsTyped

LEMMA JobIs ==
  ASSUME BuildsInv, NEW c \in bjob.todo
  PROVE  /\ bjob \in [build : Tags, todo : SUBSET Tags] /\ bjob # NoJob
         /\ bjob.build \in DOMAIN known /\ c \in DOMAIN known /\ c \in DOMAIN created
<1>1. bjob # NoJob
  BY DEF NoJob
<1> QED BY <1>1, PartialIs DEF BuildsInv, BuildsTyped

LEMMA UnlabelKeepsBuilds ==
  ASSUME BuildsInv, NEW c \in Tags, UnlabelBuild(c)
  PROVE  BuildsInv'
<1>1. /\ c \in bjob.todo /\ UNCHANGED <<created, known>>
  BY DEF UnlabelBuild
<1>2. /\ bjob \in [build : Tags, todo : SUBSET Tags]
      /\ bjob.build \in DOMAIN known /\ bjob.todo \subseteq DOMAIN known
      /\ c \in DOMAIN created
  BY <1>1, JobIs DEF BuildsInv
<1>3. events \in Seq(Change)
  BY DEF BuildsInv, BuildsTyped
<1>4. CASE bjob' = NoJob /\ bqueue' = Retried /\ UNCHANGED <<latest, events>>
  BY <1>1, <1>2, <1>4 DEF Retried, BuildsInv, BuildsTyped
<1>5. CASE /\ latest' = latest \ {c}
           /\ events' = IF c \in latest THEN Append(events, [build |-> c, latest |-> FALSE])
                        ELSE events
           /\ bjob' = IF bjob.todo = {c} THEN NoJob ELSE [bjob EXCEPT !.todo = @ \ {c}]
           /\ UNCHANGED bqueue
  <2>1. events' \in Seq(Change)
    <3>1. [build |-> c, latest |-> FALSE] \in Change
      BY DEF Change
    <3>2. events' = events \/ events' = Append(events, [build |-> c, latest |-> FALSE])
      BY <1>5
    <3> QED BY <1>3, <3>1, <3>2, AppendIsSeq
  <2>2. \A i \in DOMAIN events' : events'[i].build \in DOMAIN created
    <3>1. \A i \in DOMAIN events' : events'[i].build = c \/ events'[i].build \in DOMAIN created
      BY <1>3, <1>5 DEF BuildsInv
    <3> QED BY <3>1, <1>2
  <2>3. bjob' \in [build : Tags, todo : SUBSET Tags] \cup {NoJob}
    BY <1>2, <1>5
  <2>4. bjob' # NoJob => bjob'.build \in DOMAIN known /\ bjob'.todo \subseteq DOMAIN known
    BY <1>2, <1>5
  <2> QED BY <1>1, <1>5, <2>1, <2>2, <2>3, <2>4 DEF BuildsInv, BuildsTyped
<1> QED BY <1>4, <1>5 DEF UnlabelBuild

LEMMA ControllerKeepsBuilds == BuildsInv /\ BuildController => BuildsInv'
BY DeliverKeepsBuilds, BeginKeepsBuilds, UnlabelKeepsBuilds DEF BuildController, ReconcileBuild

-----------------------------------------------------------------------------
(* The label of the newest build.                                          *)

(* Every set of builds that exist has one that was created last.           *)
LEMMA SomeIsNewest ==
  ASSUME BuildsInv, NEW S \in SUBSET DOMAIN created, S # {}
  PROVE  Newest(S) \in S /\ \A c \in S : created[c] <= created[Newest(S)]
<1>1. \A c \in S : created[c] \in Nat
  BY PartialIs DEF BuildsInv, BuildsTyped
<1>2. PICK m \in Nat : \A c \in S : created[c] <= m
  <2>1. DOMAIN created # {}
    OBVIOUS
  <2>2. PICK b \in DOMAIN created : \A c \in DOMAIN created : created[c] <= created[b]
    BY <2>1 DEF BuildsInv
  <2>3. created[b] \in Nat
    BY PartialIs DEF BuildsInv, BuildsTyped
  <2> QED BY <2>2, <2>3
<1> DEFINE Ages == {m - created[c] : c \in S}
<1>3. Ages \subseteq Nat /\ Ages # {}
  BY <1>1, <1>2
<1>4. PICK least \in Ages : \A age \in Ages : ~(<<age, least>> \in OpToRel(<, Nat))
  BY <1>3, NatLessThanWellFounded, WFMin
<1>5. PICK b \in S : least = m - created[b]
  BY <1>4
<1>6. \A c \in S : created[c] <= created[b]
  <2> TAKE c \in S
  <2>1. m - created[c] \in Ages /\ least \in Nat /\ m - created[c] \in Nat
    BY <1>3, <1>4
  <2>2. ~(m - created[c] < least)
    BY <1>4, <2>1 DEF OpToRel
  <2> QED BY <1>1, <1>5, <2>2
<1> QED BY <1>5, <1>6 DEF Newest

(* Where no two builds are created in the same second: a pass that is      *)
(* under way takes the label only from builds that are not the newest, so  *)
(* the newest, which got it when it was created, keeps it until a newer    *)
(* one is created, however late the cache is.                              *)
LatestInv ==
  /\ BuildsInv
  /\ \A b, c \in DOMAIN created : created[b] = created[c] => b = c
  /\ NewestIsLatest
  /\ \A c \in bjob.todo : \E d \in DOMAIN created : created[c] < created[d]

LEMMA CreatedIsNat ==
  ASSUME BuildsInv, NEW c \in DOMAIN created
  PROVE  created[c] \in Nat
BY PartialIs DEF BuildsInv, BuildsTyped

(* Only the newest build is created no earlier than any other.             *)
LEMMA NewestIsOne ==
  ASSUME LatestInv, NEW S \in SUBSET DOMAIN created, NEW b \in S,
         \A c \in S : created[c] <= created[b]
  PROVE  Newest(S) = b
<1>1. Newest(S) \in S /\ created[b] <= created[Newest(S)]
  BY SomeIsNewest DEF LatestInv
<1>2. created[Newest(S)] <= created[b]
  BY <1>1
<1>3. created[b] \in Nat /\ created[Newest(S)] \in Nat
  BY <1>1, CreatedIsNat DEF LatestInv
<1> QED BY <1>1, <1>2, <1>3 DEF LatestInv

LEMMA CreateKeepsLatest ==
  ASSUME ~SameSecond, LatestInv, NEW b \in Tags, CreateBuild(b)
  PROVE  LatestInv'
<1>0. BuildsInv'
  BY CreateKeepsBuilds DEF LatestInv
<1>1. CASE b \in DOMAIN created
  BY <1>0, <1>1 DEF CreateBuild, bvars, LatestInv, NewestIsLatest, Newest
<1>2. CASE b \notin DOMAIN created
  <2>1. UNCHANGED bjob /\ latest' = latest \cup {b}
    BY <1>2 DEF CreateBuild
  <2>2. /\ DOMAIN created' = DOMAIN created \cup {b}
        /\ \A c \in DOMAIN created : created'[c] = created[c] /\ created[c] < created'[b]
    BY <1>2, NewBuild DEF LatestInv
  <2>3. created'[b] \in Nat /\ \A c \in DOMAIN created : created[c] \in Nat
    BY <1>0, <2>2, CreatedIsNat, PartialIs DEF LatestInv, BuildsInv, BuildsTyped
  <2>4. \A c, d \in DOMAIN created' : created'[c] = created'[d] => c = d
    BY <2>2, <2>3 DEF LatestInv
  <2>5. NewestIsLatest'
    <3>1. Newest(DOMAIN created)' = CHOOSE d \in DOMAIN created' : \A c \in DOMAIN created' : created'[c] <= created'[d]
      BY DEF Newest
    <3>2. b \in DOMAIN created' /\ \A c \in DOMAIN created' : created'[c] <= created'[b]
      BY <2>2, <2>3
    <3>3. \A d \in DOMAIN created' : (\A c \in DOMAIN created' : created'[c] <= created'[d]) => d = b
      BY <2>2, <2>3
    <3>4. Newest(DOMAIN created)' = b
      BY <3>1, <3>2, <3>3
    <3> QED BY <2>1, <3>4 DEF NewestIsLatest
  <2>6. \A c \in bjob'.todo : \E d \in DOMAIN created' : created'[c] < created'[d]
    <3> TAKE c \in bjob'.todo
    <3>1. c \in bjob.todo
      BY <2>1
    <3>2. PICK d \in DOMAIN created : created[c] < created[d]
      BY <3>1 DEF LatestInv
    <3>3. c \in DOMAIN created
      BY <3>1, JobIs DEF LatestInv
    <3> QED BY <2>2, <3>2, <3>3
  <2> QED BY <1>0, <2>4, <2>5, <2>6 DEF LatestInv
<1> QED BY <1>1, <1>2

LEMMA DeliverKeepsLatest ==
  ASSUME LatestInv, DeliverBuild
  PROVE  LatestInv'
<1>1. BuildsInv'
  BY DeliverKeepsBuilds DEF LatestInv
<1> QED BY <1>1 DEF LatestInv, DeliverBuild, NewestIsLatest, Newest

(* The winner was created after all others that have the label in the      *)
(* cache, be it the last of them or the build that the pass is for.        *)
LEMMA WinnerIsLast ==
  ASSUME LatestInv, NEW S \in SUBSET DOMAIN created, NEW b \in S, NEW c \in S \ {Winner(b, S)}
  PROVE  \E d \in DOMAIN created : created[c] < created[d]
<1>1. \A d \in S : created[d] \in Nat
  BY CreatedIsNat DEF LatestInv
<1>2. CASE \E d \in S : created[d] > created[b]
  <2>1. Winner(b, S) = Newest(S)
    BY <1>2 DEF Winner
  <2>2. Newest(S) \in S /\ created[c] <= created[Newest(S)]
    BY SomeIsNewest DEF LatestInv
  <2>3. created[c] # created[Newest(S)]
    BY <2>1, <2>2 DEF LatestInv
  <2>4. created[c] < created[Newest(S)]
    BY <1>1, <2>2, <2>3
  <2> QED BY <2>2, <2>4
<1>3. CASE ~ \E d \in S : created[d] > created[b]
  <2>1. Winner(b, S) = b
    BY <1>3 DEF Winner
  <2>2. created[c] # created[b]
    BY <2>1 DEF LatestInv
  <2>3. created[c] < created[b]
    BY <1>1, <1>3, <2>2
  <2> QED BY <2>3
<1> QED BY <1>2, <1>3

LEMMA BeginKeepsLatest ==
  ASSUME LatestInv, NEW b \in Tags, BeginBuild(b)
  PROVE  LatestInv'
<1> DEFINE labelled == {c \in DOMAIN known : known[c]}
           rest == labelled \ {Winner(b, labelled)}
<1>1. BuildsInv'
  BY BeginKeepsBuilds DEF LatestInv
<1>2. bjob' = NoJob \/ (known[b] /\ bjob' = [build |-> b, todo |-> rest])
  BY DEF BeginBuild
<1>3. labelled \subseteq DOMAIN created /\ (known[b] => b \in labelled)
  BY PartialIs DEF BeginBuild, LatestInv, BuildsInv, BuildsTyped
<1>4. known[b] => \A c \in rest : \E d \in DOMAIN created : created[c] < created[d]
  <2> HIDE DEF labelled
  <2> QED BY <1>3, WinnerIsLast
<1> HIDE DEF rest
<1>5. \A c \in bjob'.todo : \E d \in DOMAIN created : created[c] < created[d]
  BY <1>2, <1>4 DEF NoJob
<1>6. UNCHANGED <<created, latest>>
  BY DEF BeginBuild
<1> QED BY <1>1, <1>5, <1>6 DEF LatestInv, NewestIsLatest, Newest

LEMMA UnlabelKeepsLatest ==
  ASSUME LatestInv, NEW c \in Tags, UnlabelBuild(c)
  PROVE  LatestInv'
<1>1. BuildsInv' /\ c \in bjob.todo /\ UNCHANGED created
  BY UnlabelKeepsBuilds DEF LatestInv, UnlabelBuild
<1>2. bjob \in [build : Tags, todo : SUBSET Tags]
  BY <1>1, JobIs DEF LatestInv
<1>3. bjob'.todo \subseteq bjob.todo
  BY <1>2 DEF UnlabelBuild, NoJob
<1>4. created # << >> => Newest(DOMAIN created) # c
  <2> SUFFICES ASSUME created # << >> PROVE Newest(DOMAIN created) # c
    OBVIOUS
  <2>1. PICK d \in DOMAIN created : created[c] < created[d]
    BY <1>1 DEF LatestInv
  <2>2. created[d] <= created[Newest(DOMAIN created)] /\ Newest(DOMAIN created) \in DOMAIN created
    BY NewestIsLast DEF LatestInv
  <2>3. created[c] \in Nat /\ created[d] \in Nat /\ created[Newest(DOMAIN created)] \in Nat
    BY <1>1, <2>1, <2>2, CreatedIsNat, JobIs DEF LatestInv
  <2> QED BY <2>1, <2>2, <2>3
<1>5. latest' = latest \/ latest' = latest \ {c}
  BY DEF UnlabelBuild
<1>6. NewestIsLatest'
  BY <1>1, <1>4, <1>5 DEF LatestInv, NewestIsLatest, Newest
<1> QED BY <1>1, <1>3, <1>6 DEF LatestInv

LEMMA ControllerKeepsLatest == LatestInv /\ BuildController => LatestInv'
BY DeliverKeepsLatest, BeginKeepsLatest, UnlabelKeepsLatest DEF BuildController, ReconcileBuild

-----------------------------------------------------------------------------
(* Apps and app targets.                                                   *)

(* An app target has the name of its app and target, and an owner.         *)
AppTargetsInv ==
  /\ appTargets \in Partial(Objects, AppTarget)
  /\ \A n \in DOMAIN appTargets :
       /\ appTargets[n].hash = HashOf(appTargets[n].spec)
       /\ n = Named[appTargets[n].spec.app, appTargets[n].spec.target]
       /\ appTargets[n].owner \in AppNames \X Nat

(* A version that an edit was based on is never given again, as versions   *)
(* are counted up with every command that reads an app.                    *)
CommandsInv ==
  /\ apps \in Partial(AppNames, App) /\ commands \subseteq Command /\ edits \in Nat
  /\ \A a \in DOMAIN apps : apps[a].version <= edits
  /\ \A c \in commands : c.kind = "edit" =>
       /\ c.read.version < edits
       /\ c.app \in DOMAIN apps /\ apps[c.app].version = c.read.version => apps[c.app] = c.read

ControlInv ==
  /\ targets \subseteq Targets /\ namespaces \subseteq Targets
  /\ queue \subseteq AppNames /\ clusterDue \in BOOLEAN
  /\ job \in Pass \cup {NoPass}
  /\ faults \in Nat

AppsInv == BuildsInv /\ AppTargetsInv /\ CommandsInv /\ ControlInv

LEMMA AppsAreTyped == AppsInv => TypeOK
<1> SUFFICES ASSUME AppsInv PROVE TypeOK
  OBVIOUS
<1>1. BuildsTypeOK
  BY PartialHas DEF AppsInv, BuildsInv, BuildsTyped, BuildsTypeOK
<1>2. DOMAIN apps \subseteq AppNames /\ \A a \in DOMAIN apps : IsApp(apps[a])
  BY PartialIs, AppHas DEF AppsInv, CommandsInv
<1>3. IsPartial(appTargets, Objects, AppTarget)
  BY PartialHas DEF AppsInv, AppTargetsInv
<1>4. job = NoPass \/ IsPass(job)
  BY PassHas DEF AppsInv, ControlInv
<1>5. \A c \in commands : IsCommand(c)
  BY CommandHas DEF AppsInv, CommandsInv
<1> QED BY <1>1, <1>2, <1>3, <1>4, <1>5 DEF AppsInv, AppTargetsInv, CommandsInv, ControlInv, TypeOK

LEMMA BuildsStay == BuildsInv /\ UNCHANGED bvars => BuildsInv'
BY DEF BuildsInv, BuildsTyped, bvars

LEMMA AppTargetsStay == AppTargetsInv /\ UNCHANGED appTargets => AppTargetsInv'
BY DEF AppTargetsInv, HashOf

LEMMA CommandsStay == CommandsInv /\ UNCHANGED <<apps, commands, edits>> => CommandsInv'
BY DEF CommandsInv

LEMMA NamedIsObject ==
  ASSUME NEW a \in AppNames, NEW t \in Targets
  PROVE  Named[a, t] \in Objects
BY DEF Objects

LEMMA ExistingApp ==
  ASSUME AppsInv, NEW a \in DOMAIN apps
  PROVE  /\ a \in AppNames /\ apps[a] \in App /\ apps[a].spec \in AppSpec
         /\ apps[a].uid \in Nat /\ apps[a].version \in Nat
<1>1. apps \in Partial(AppNames, App)
  BY DEF AppsInv, AppTargetsInv, CommandsInv, ControlInv
<1>2. a \in AppNames /\ apps[a] \in App
  BY <1>1, PartialIs
<1> QED BY <1>2 DEF App

LEMMA ExistingAppTarget ==
  ASSUME AppsInv, NEW n \in DOMAIN appTargets
  PROVE  /\ n \in Objects /\ appTargets[n] \in AppTarget
         /\ appTargets[n].spec \in AppTargetSpec
         /\ appTargets[n].owner \in AppNames \X Nat /\ appTargets[n].owner[1] \in AppNames
<1>1. appTargets \in Partial(Objects, AppTarget)
  BY DEF AppsInv, AppTargetsInv, CommandsInv, ControlInv
<1>2. n \in Objects /\ appTargets[n] \in AppTarget
  BY <1>1, PartialIs
<1>3. appTargets[n].owner \in AppNames \X Nat
  BY DEF AppsInv, AppTargetsInv
<1> QED BY <1>2, <1>3 DEF AppTarget

LEMMA PassIs ==
  ASSUME AppsInv, job # NoPass
  PROVE  /\ job \in Pass /\ job.app \in AppNames /\ job.spec \in AppSpec /\ job.uid \in Nat
         /\ job.todo \subseteq Targets /\ job.invalid \subseteq Targets
BY DEF AppsInv, AppTargetsInv, CommandsInv, ControlInv, Pass

LEMMA InitGivesApps == Init => AppsInv
<1> SUFFICES ASSUME Init PROVE AppsInv
  OBVIOUS
<1>1. BuildsInv
  BY BuildsInitially DEF Init
<1>2. PICK spec \in FirstSpecs : apps = [a \in FirstApps |-> [spec |-> spec, uid |-> 0, version |-> 0]]
  BY DEF Init
<1>3. [spec |-> spec, uid |-> 0, version |-> 0] \in App
  BY SpecsAreSpecs DEF App
<1>4. apps \in [FirstApps -> App] /\ \A a \in FirstApps : apps[a].version = 0
  BY <1>2, <1>3
<1>5. apps \in Partial(AppNames, App)
  BY <1>4, AppsAssumption DEF Partial
<1>6. appTargets = << >> /\ DOMAIN appTargets = {}
  BY DEF Init
<1>7. appTargets \in Partial(Objects, AppTarget)
  BY <1>6, EmptyIsPartial
<1>8. targets \subseteq Targets
  BY AppsAssumption DEF Init
<1>9. queue \subseteq AppNames
  BY <1>4, AppsAssumption DEF Init
<1> QED BY <1>1, <1>4, <1>5, <1>6, <1>7, <1>8, <1>9 DEF Init, AppsInv, AppTargetsInv, CommandsInv, ControlInv

LEMMA BeginPassKeeps ==
  ASSUME AppsInv, NEW a \in AppNames, BeginPass(a)
  PROVE  AppsInv'
<1>1. queue' \subseteq AppNames /\ UNCHANGED <<apps, targets, namespaces, appTargets, clusterDue, commands, edits, faults, bvars>>
  BY DEF BeginPass, AppsInv, AppTargetsInv, CommandsInv, ControlInv
<1>2. job' \in Pass \cup {NoPass}
  <2>1. CASE a \notin DOMAIN apps
    BY <2>1 DEF BeginPass
  <2>2. CASE a \in DOMAIN apps
    <3>1. apps[a].spec \in AppSpec /\ apps[a].uid \in Nat
      BY <2>2, ExistingApp
    <3> QED BY <2>2, <3>1 DEF BeginPass, Pass
  <2> QED BY <2>1, <2>2
<1> QED BY <1>1, <1>2, BuildsStay, AppTargetsStay, CommandsStay DEF AppsInv, ControlInv

LEMMA SaveBuildKeeps ==
  ASSUME AppsInv, SaveBuild
  PROVE  AppsInv'
<1>1. job # NoPass
  BY DEF SaveBuild, NoPass
<1>2. job \in Pass /\ job.spec.tag \in Tags
  BY <1>1, PassIs DEF AppSpec
<1>3. BuildsInv'
  BY <1>2, CreateKeepsBuilds DEF SaveBuild, AppsInv
<1>4. job' \in Pass
  <2>1. targets \subseteq Targets
    BY DEF AppsInv, AppTargetsInv, CommandsInv, ControlInv
  <2>2. DOMAIN job.spec.targets \subseteq Targets
    BY <1>1, PassIs, PartialIs DEF AppSpec
  <2>3. job' = [job EXCEPT !.pc = "targets", !.todo = DOMAIN job.spec.targets \cap targets,
                           !.invalid = DOMAIN job.spec.targets \ targets]
    BY DEF SaveBuild
  <2> QED BY <1>2, <2>1, <2>2, <2>3 DEF Pass
<1>5. UNCHANGED <<apps, targets, namespaces, appTargets, queue, clusterDue, commands, edits, faults>>
  BY DEF SaveBuild
<1> QED BY <1>3, <1>4, <1>5, AppTargetsStay, CommandsStay DEF AppsInv, ControlInv

LEMMA SaveAppTargetKeeps ==
  ASSUME AppsInv, NEW t \in Targets, SaveAppTarget(t)
  PROVE  AppsInv'
<1> DEFINE n == Named[job.app, t]
           spec == newAppTargetForApp(job.app, job.spec, t)
           new == [spec |-> spec, hash |-> HashOf(spec), owner |-> OwnerOf(n)]
<1>0. job.pc = "targets"
  BY DEF SaveAppTarget
<1>1. job # NoPass
  BY <1>0 DEF NoPass
<1>2. job \in Pass /\ job.app \in AppNames /\ job.spec \in AppSpec /\ job.uid \in Nat
  BY <1>1, PassIs
<1>3. n \in Objects /\ spec \in AppTargetSpec /\ HashOf(spec) \in HashSpec
  BY <1>2, NamedIsObject, MadeIsAppTargetSpec, HashIsHash
<1>4. OwnerOf(n) \in AppNames \X Nat
  BY <1>2, ExistingAppTarget DEF OwnerOf
<1>5. spec.app = job.app /\ spec.target = t
  BY DEF newAppTargetForApp
<1>6. appTargets' = With(appTargets, n, new) /\ queue' \in {queue, queue \cup Told(OwnerOf(n))}
      /\ job' = [job EXCEPT !.todo = @ \ {t}]
      /\ UNCHANGED <<apps, targets, namespaces, clusterDue, commands, edits, faults, bvars>>
  BY DEF SaveAppTarget
<1> HIDE DEF n, spec
<1>7. new \in AppTarget
  BY <1>3, <1>4 DEF AppTarget
<1>8. appTargets' \in Partial(Objects, AppTarget)
  BY <1>3, <1>6, <1>7, WithIsPartial DEF AppsInv, AppTargetsInv, CommandsInv, ControlInv
<1>9. /\ DOMAIN appTargets' = DOMAIN appTargets \cup {n}
      /\ appTargets'[n] = new
      /\ \A m \in DOMAIN appTargets \ {n} : appTargets'[m] = appTargets[m]
  BY <1>6 DEF With
<1>10. \A m \in DOMAIN appTargets' :
         /\ appTargets'[m].hash = HashOf(appTargets'[m].spec)
         /\ m = Named[appTargets'[m].spec.app, appTargets'[m].spec.target]
         /\ appTargets'[m].owner \in AppNames \X Nat
  <2> TAKE m \in DOMAIN appTargets'
  <2>1. CASE m = n
    <3>1. appTargets'[m] = new /\ n = Named[spec.app, spec.target]
      BY <2>1, <1>5, <1>9 DEF n
    <3>2. new.spec = spec /\ new.hash = HashOf(spec) /\ new.owner \in AppNames \X Nat
      BY <1>4
    <3> HIDE DEF new
    <3> QED BY <2>1, <3>1, <3>2
  <2>2. CASE m # n
    BY <2>2, <1>9 DEF AppsInv, AppTargetsInv, CommandsInv, ControlInv
  <2> QED BY <2>1, <2>2
<1>11. job' \in Pass
  BY <1>2, <1>6 DEF Pass
<1>12. queue' \subseteq AppNames
  BY <1>4, <1>6 DEF Told, AppsInv, AppTargetsInv, CommandsInv, ControlInv
<1> QED BY <1>6, <1>8, <1>10, <1>11, <1>12, BuildsStay, CommandsStay DEF AppsInv, ControlInv, AppTargetsInv

(* Objects that go leave the others as they are.                           *)
LEMMA FewerAppTargets ==
  ASSUME AppsInv, NEW gone, appTargets' = Without(appTargets, gone)
  PROVE  /\ appTargets' \in Partial(Objects, AppTarget)
         /\ \A n \in DOMAIN appTargets' : n \in DOMAIN appTargets /\ appTargets'[n] = appTargets[n]
<1>1. appTargets' \in Partial(Objects, AppTarget)
  BY WithoutIsPartial DEF AppsInv, AppTargetsInv, CommandsInv, ControlInv
<1> QED BY <1>1 DEF Without

LEMMA RemoveInvalidKeeps ==
  ASSUME AppsInv, RemoveInvalid
  PROVE  AppsInv'
<1> DEFINE gone == {LookedUp(t) : t \in job.invalid} \cap DOMAIN appTargets
<1>1. /\ appTargets' = Without(appTargets, gone)
      /\ queue' = queue \cup UNION {Told(appTargets[n].owner) : n \in gone}
      /\ job' = NoPass
      /\ UNCHANGED <<apps, targets, namespaces, clusterDue, commands, edits, faults, bvars>>
  BY DEF RemoveInvalid
<1>2. gone \subseteq DOMAIN appTargets
  OBVIOUS
<1> HIDE DEF gone
<1>3. queue' \subseteq AppNames
  <2>1. \A n \in gone : Told(appTargets[n].owner) \subseteq AppNames
    BY <1>2, ExistingAppTarget DEF Told
  <2>2. UNION {Told(appTargets[n].owner) : n \in gone} \subseteq AppNames
    BY <2>1
  <2> QED BY <1>1, <2>2 DEF AppsInv, ControlInv
<1>4. /\ appTargets' \in Partial(Objects, AppTarget)
      /\ \A n \in DOMAIN appTargets' : n \in DOMAIN appTargets /\ appTargets'[n] = appTargets[n]
  BY <1>1, FewerAppTargets
<1> QED BY <1>1, <1>3, <1>4, BuildsStay, CommandsStay DEF AppsInv, ControlInv, AppTargetsInv

LEMMA CollectKeeps ==
  ASSUME AppsInv, NEW n \in Objects, Collect(n)
  PROVE  AppsInv'
<1>1. /\ appTargets' = Without(appTargets, {n})
      /\ queue' = queue \cup Told(appTargets[n].owner)
      /\ n \in DOMAIN appTargets
      /\ UNCHANGED <<apps, targets, namespaces, clusterDue, job, commands, edits, faults, bvars>>
  BY DEF Collect
<1>2. queue' \subseteq AppNames
  BY <1>1, ExistingAppTarget DEF Told, AppsInv, AppTargetsInv, CommandsInv, ControlInv
<1>3. /\ appTargets' \in Partial(Objects, AppTarget)
      /\ \A m \in DOMAIN appTargets' : m \in DOMAIN appTargets /\ appTargets'[m] = appTargets[m]
  BY <1>1, FewerAppTargets
<1> QED BY <1>1, <1>2, <1>3, BuildsStay, CommandsStay DEF AppsInv, ControlInv, AppTargetsInv

LEMMA PassFailsKeeps ==
  ASSUME AppsInv, PassFails
  PROVE  AppsInv'
<1>1. job # NoPass /\ job.app \in AppNames
  BY PassIs DEF PassFails
<1>2. queue' \subseteq AppNames
  BY <1>1, ExistingApp DEF PassFails, AppsInv, ControlInv
<1>n. faults \in Nat /\ faults' = faults + 1
  BY DEF PassFails, AppsInv, ControlInv
<1>3. faults' \in Nat
  BY <1>n
<1>4. /\ job' = NoPass
      /\ UNCHANGED <<apps, targets, namespaces, appTargets, clusterDue, commands, edits, bvars>>
  BY DEF PassFails
<1> QED BY <1>2, <1>3, <1>4, BuildsStay, AppTargetsStay, CommandsStay DEF AppsInv, ControlInv

LEMMA SyncClusterKeeps ==
  ASSUME AppsInv, SyncCluster
  PROVE  AppsInv'
<1>n. faults \in Nat /\ faults' \in {faults, faults + 1}
  BY DEF SyncCluster, AppsInv, ControlInv
<1>1. namespaces' \subseteq Targets /\ clusterDue' \in BOOLEAN /\ faults' \in Nat
  <2>1. namespaces' \subseteq Targets /\ clusterDue' \in BOOLEAN
    BY DEF SyncCluster, AppsInv, ControlInv
  <2> QED BY <2>1, <1>n
<1>2. UNCHANGED <<apps, targets, appTargets, queue, job, commands, edits, bvars>>
  BY DEF SyncCluster
<1> QED BY <1>1, <1>2, BuildsStay, AppTargetsStay, CommandsStay DEF AppsInv, ControlInv

-----------------------------------------------------------------------------
(* What users do.                                                          *)

LEMMA SavedApp ==
  ASSUME AppsInv, NEW a \in AppNames, NEW spec \in AppSpec, SaveApp(a, spec)
  PROVE  /\ apps' \in Partial(AppNames, App) /\ queue' \subseteq AppNames
         /\ DOMAIN apps' = DOMAIN apps \cup {a}
         /\ apps'[a].version = edits
         /\ \A b \in DOMAIN apps \ {a} : apps'[b] = apps[b]
<1> DEFINE uid == IF a \in DOMAIN apps THEN apps[a].uid ELSE edits
           new == [spec |-> spec, uid |-> uid, version |-> edits]
<1>1. apps' = With(apps, a, new) /\ queue' \in {queue, queue \cup {a}}
  BY DEF SaveApp
<1>2. edits \in Nat /\ uid \in Nat
  BY ExistingApp DEF AppsInv, AppTargetsInv, CommandsInv, ControlInv
<1> HIDE DEF uid
<1>3. new \in App /\ new.version = edits
  BY <1>2 DEF App
<1> HIDE DEF new
<1>4. apps' \in Partial(AppNames, App)
  BY <1>1, <1>3, WithIsPartial DEF AppsInv, AppTargetsInv, CommandsInv, ControlInv
<1> QED BY <1>1, <1>3, <1>4 DEF With, AppsInv, AppTargetsInv, CommandsInv, ControlInv

LEMMA CommandIs ==
  ASSUME AppsInv, NEW c \in commands
  PROVE  /\ c \in Command
         /\ c.kind \in {"deploy", "halt", "edit"} =>
              c.app \in AppNames /\ c.read \in App /\ c.new \in AppSpec
         /\ c.kind \in {"addTarget", "removeTarget"} => c.targets \subseteq Targets
         /\ c.kind = "edit" => c.read.version \in Nat
<1>1. c \in Command
  BY DEF AppsInv, AppTargetsInv, CommandsInv, ControlInv
<1>2. CASE c \in [kind : {"deploy", "halt", "edit"}, app : AppNames, read : App, new : AppSpec]
  BY <1>1, <1>2 DEF App
<1>3. CASE c \in [kind : {"addTarget", "removeTarget"}, targets : SUBSET Targets]
  BY <1>1, <1>3
<1> QED BY <1>1, <1>2, <1>3 DEF Command

(* What a save leaves of the invariant on versions: an app is saved with a *)
(* version that no pending edit was based on.                              *)
LEMMA SavesGiveNewVersions ==
  ASSUME AppsInv, edits' \in {edits, edits + 1}, commands' \subseteq commands,
         apps' \in Partial(AppNames, App),
         \A b \in DOMAIN apps' :
           apps'[b].version = edits \/ (b \in DOMAIN apps /\ apps'[b] = apps[b])
  PROVE  CommandsInv'
<1>1. edits \in Nat /\ edits' \in Nat /\ edits <= edits'
  BY DEF AppsInv, CommandsInv
<1>2. \A b \in DOMAIN apps' : apps'[b].version <= edits'
  <2> TAKE b \in DOMAIN apps'
  <2>1. ASSUME b \in DOMAIN apps PROVE apps[b].version \in Nat /\ apps[b].version <= edits
    BY <2>1, ExistingApp DEF AppsInv, CommandsInv
  <2> QED BY <1>1, <2>1
<1>3. ASSUME NEW c \in commands', c.kind = "edit"
      PROVE  /\ c.read.version < edits'
             /\ c.app \in DOMAIN apps' /\ apps'[c.app].version = c.read.version => apps'[c.app] = c.read
  <2>1. c \in commands
    OBVIOUS
  <2>2. c.read.version \in Nat
    BY <1>3, <2>1, CommandIs
  <2>3. /\ c.read.version < edits
        /\ c.app \in DOMAIN apps /\ apps[c.app].version = c.read.version => apps[c.app] = c.read
    BY <1>3, <2>1 DEF AppsInv, CommandsInv
  <2> QED BY <1>1, <2>2, <2>3
<1>4. commands' \subseteq Command
  BY DEF AppsInv, CommandsInv
<1> QED BY <1>1, <1>2, <1>3, <1>4 DEF CommandsInv

LEMMA LoadKeeps ==
  ASSUME AppsInv, NEW a \in AppNames, Load(a)
  PROVE  AppsInv'
<1>1. PICK spec \in AppSpec : SaveApp(a, spec)
  BY SpecsAreSpecs DEF Load
<1>2. /\ apps' \in Partial(AppNames, App) /\ queue' \subseteq AppNames
      /\ DOMAIN apps' = DOMAIN apps \cup {a}
      /\ apps'[a].version = edits
      /\ \A b \in DOMAIN apps \ {a} : apps'[b] = apps[b]
  BY <1>1, SavedApp
<1>3. /\ edits' = edits + 1
      /\ UNCHANGED <<targets, namespaces, appTargets, clusterDue, job, commands, faults, bvars>>
  BY DEF Load
<1>4. CommandsInv'
  BY <1>2, <1>3, SavesGiveNewVersions
<1> QED BY <1>2, <1>3, <1>4, BuildsStay, AppTargetsStay DEF AppsInv, ControlInv

LEMMA DeleteKeeps ==
  ASSUME AppsInv, NEW a \in AppNames, Delete(a)
  PROVE  AppsInv'
<1>1. /\ edits' = edits + 1 /\ apps' = Without(apps, {a}) /\ queue' = queue \cup {a}
      /\ UNCHANGED <<targets, namespaces, appTargets, clusterDue, job, commands, faults, bvars>>
  BY DEF Delete
<1>2. /\ apps' \in Partial(AppNames, App)
      /\ \A b \in DOMAIN apps' : b \in DOMAIN apps /\ apps'[b] = apps[b]
  BY <1>1, WithoutIsPartial DEF AppsInv, CommandsInv, Without
<1>3. CommandsInv'
  BY <1>1, <1>2, SavesGiveNewVersions
<1> QED BY <1>1, <1>2, <1>3, BuildsStay, AppTargetsStay DEF AppsInv, ControlInv

(* What a command makes of a spec is a spec.                               *)
LEMMA ChangedIsSpec ==
  ASSUME NEW kind, NEW spec \in AppSpec, NEW new \in Changed(kind, spec)
  PROVE  new \in AppSpec /\ kind \in {"deploy", "halt", "edit"}
<1>1. CASE kind = "deploy"
  BY <1>1 DEF Changed, AppSpec
<1>2. CASE kind = "halt"
  <2>1. PICK t \in DOMAIN spec.targets :
          new = [spec EXCEPT !.targets[t].mode = IF DeployModeForTarget(spec, t) = "halt" THEN "latest" ELSE "halt"]
    BY <1>2 DEF Changed
  <2> DEFINE mode == IF DeployModeForTarget(spec, t) = "halt" THEN "latest" ELSE "halt"
             config == [spec.targets[t] EXCEPT !.mode = mode]
             all == [spec.targets EXCEPT ![t] = config]
  <2>2. spec.targets \in Partial(Targets, TargetConfig) /\ spec.targets[t] \in TargetConfig
    BY PartialIs DEF AppSpec
  <2>3. mode \in Modes
    BY DEF Modes
  <2>4. new = [spec EXCEPT !.targets = all]
    BY <2>1
  <2> HIDE DEF mode
  <2>5. config \in TargetConfig
    BY <2>2, <2>3 DEF TargetConfig
  <2> HIDE DEF config
  <2>6. DOMAIN all \in SUBSET Targets /\ all \in [DOMAIN all -> TargetConfig]
    BY <2>2, <2>5, PartialIs
  <2>7. all \in Partial(Targets, TargetConfig)
    BY <2>6 DEF Partial
  <2> HIDE DEF all
  <2>8. new \in AppSpec
    BY <2>4, <2>7 DEF AppSpec
  <2> QED BY <1>2, <2>8
<1>3. CASE kind = "edit"
  BY <1>3, SpecsAreSpecs DEF Changed
<1>4. CASE kind \notin {"deploy", "halt", "edit"}
  BY <1>4 DEF Changed
<1> QED BY <1>1, <1>2, <1>3, <1>4

LEMMA ReadAppKeeps ==
  ASSUME AppsInv, NEW a \in AppNames, NEW kind, ReadApp(a, kind)
  PROVE  AppsInv'
<1>1. /\ a \in DOMAIN apps /\ edits' = edits + 1
      /\ UNCHANGED <<apps, targets, namespaces, appTargets, queue, clusterDue, job, faults, bvars>>
  BY DEF ReadApp
<1>2. PICK new \in Changed(kind, apps[a].spec) :
        commands' = commands \cup {[kind |-> kind, app |-> a, read |-> apps[a], new |-> new]}
  BY DEF ReadApp
<1>3. apps[a] \in App /\ new \in AppSpec /\ kind \in {"deploy", "halt", "edit"} /\ apps[a].version \in Nat
  BY <1>1, ExistingApp, ChangedIsSpec
<1> DEFINE command == [kind |-> kind, app |-> a, read |-> apps[a], new |-> new]
<1>4. command \in Command
  BY <1>3 DEF Command
<1>5. edits \in Nat /\ apps[a].version <= edits /\ commands \subseteq Command
  BY <1>1 DEF AppsInv, CommandsInv
<1>6. apps[a].version < edits'
  BY <1>1, <1>3, <1>5
<1>7. ASSUME NEW c \in commands', c.kind = "edit"
      PROVE  /\ c.read.version < edits'
             /\ c.app \in DOMAIN apps' /\ apps'[c.app].version = c.read.version => apps'[c.app] = c.read
  <2>1. CASE c = command
    BY <1>1, <1>6, <2>1
  <2>2. CASE c \in commands
    <3>1. c.read.version \in Nat
      BY <1>7, <2>2, CommandIs
    <3>2. /\ c.read.version < edits
          /\ c.app \in DOMAIN apps /\ apps[c.app].version = c.read.version => apps[c.app] = c.read
      BY <1>7, <2>2 DEF AppsInv, CommandsInv
    <3> QED BY <1>1, <1>5, <3>1, <3>2
  <2> QED BY <1>2, <2>1, <2>2
<1>8. \A b \in DOMAIN apps' : apps'[b].version <= edits'
  <2> TAKE b \in DOMAIN apps'
  <2>1. apps[b].version \in Nat /\ apps[b].version <= edits
    BY <1>1, ExistingApp DEF AppsInv, CommandsInv
  <2> QED BY <1>1, <1>5, <2>1
<1>9. commands' \subseteq Command /\ edits' \in Nat /\ apps' \in Partial(AppNames, App)
  BY <1>1, <1>2, <1>4, <1>5 DEF AppsInv, CommandsInv
<1>10. CommandsInv'
  BY <1>7, <1>8, <1>9 DEF CommandsInv
<1> QED BY <1>1, <1>10, BuildsStay, AppTargetsStay DEF AppsInv, ControlInv

LEMMA WriteAppKeeps ==
  ASSUME AppsInv, NEW c \in commands, WriteApp(c)
  PROVE  AppsInv'
<1>1. /\ c.kind \in {"deploy", "halt", "edit"} /\ commands' = commands \ {c}
      /\ UNCHANGED <<targets, namespaces, appTargets, clusterDue, job, edits, faults, bvars>>
      /\ \/ SaveApp(c.app, c.new)
         \/ UNCHANGED <<apps, queue>>
  BY DEF WriteApp
<1>2. CASE UNCHANGED <<apps, queue>>
  <2>1. CommandsInv'
    BY <1>1, <1>2 DEF AppsInv, CommandsInv
  <2> QED BY <1>1, <1>2, <2>1, BuildsStay, AppTargetsStay DEF AppsInv, ControlInv
<1>3. CASE SaveApp(c.app, c.new)
  <2>1. c.app \in AppNames /\ c.new \in AppSpec
    BY <1>1, CommandIs
  <2>2. /\ apps' \in Partial(AppNames, App) /\ queue' \subseteq AppNames
        /\ DOMAIN apps' = DOMAIN apps \cup {c.app}
        /\ apps'[c.app].version = edits
        /\ \A b \in DOMAIN apps \ {c.app} : apps'[b] = apps[b]
    BY <1>3, <2>1, SavedApp
  <2>3. CommandsInv'
    BY <1>1, <2>2, SavesGiveNewVersions
  <2> QED BY <1>1, <2>2, <2>3, BuildsStay, AppTargetsStay DEF AppsInv, ControlInv
<1> QED BY <1>1, <1>2, <1>3

LEMMA ReadTargetsKeeps ==
  ASSUME AppsInv, NEW kind, ReadTargets(kind)
  PROVE  AppsInv'
<1>1. /\ kind \in {"addTarget", "removeTarget"} /\ edits' = edits + 1
      /\ UNCHANGED <<apps, targets, namespaces, appTargets, queue, clusterDue, job, faults, bvars>>
  BY DEF ReadTargets
<1>2. PICK ts \in SUBSET Targets : commands' = commands \cup {[kind |-> kind, targets |-> ts]}
  BY DEF ReadTargets
<1> DEFINE command == [kind |-> kind, targets |-> ts]
<1>3. command \in Command /\ command.kind # "edit"
  BY <1>1 DEF Command
<1>4. edits \in Nat /\ commands \subseteq Command
  BY DEF AppsInv, CommandsInv
<1>5. \A b \in DOMAIN apps' : apps'[b].version <= edits'
  <2> TAKE b \in DOMAIN apps'
  <2>1. apps[b].version \in Nat /\ apps[b].version <= edits
    BY <1>1, ExistingApp DEF AppsInv, CommandsInv
  <2> QED BY <1>1, <1>4, <2>1
<1>6. ASSUME NEW c \in commands', c.kind = "edit"
      PROVE  /\ c.read.version < edits'
             /\ c.app \in DOMAIN apps' /\ apps'[c.app].version = c.read.version => apps'[c.app] = c.read
  <2>1. c \in commands
    BY <1>2, <1>3, <1>6
  <2>2. c.read.version \in Nat
    BY <1>6, <2>1, CommandIs
  <2>3. /\ c.read.version < edits
        /\ c.app \in DOMAIN apps /\ apps[c.app].version = c.read.version => apps[c.app] = c.read
    BY <1>6, <2>1 DEF AppsInv, CommandsInv
  <2> QED BY <1>1, <1>4, <2>2, <2>3
<1>7. commands' \subseteq Command /\ edits' \in Nat /\ apps' \in Partial(AppNames, App)
  BY <1>1, <1>2, <1>3, <1>4 DEF AppsInv, CommandsInv
<1>8. CommandsInv'
  BY <1>5, <1>6, <1>7 DEF CommandsInv
<1> QED BY <1>1, <1>8, BuildsStay, AppTargetsStay DEF AppsInv, ControlInv

LEMMA WriteTargetsKeeps ==
  ASSUME AppsInv, NEW c \in commands, WriteTargets(c)
  PROVE  AppsInv'
<1>1. /\ targets' = c.targets /\ commands' = commands \ {c}
      /\ c.kind \in {"addTarget", "removeTarget"}
      /\ UNCHANGED <<apps, namespaces, appTargets, job, edits, faults, bvars>>
  BY DEF WriteTargets
<1>2. targets' \subseteq Targets
  BY <1>1, CommandIs
<1>3. queue' \subseteq AppNames /\ clusterDue' \in BOOLEAN
  BY ExistingApp DEF WriteTargets, Concerned, AppsInv, ControlInv
<1>4. CommandsInv'
  BY <1>1 DEF AppsInv, CommandsInv
<1> QED BY <1>1, <1>2, <1>3, <1>4, BuildsStay, AppTargetsStay DEF AppsInv, ControlInv

LEMMA StepKeepsApps == AppsInv /\ [Next]_vars => AppsInv'
<1> SUFFICES ASSUME AppsInv, [Next]_vars PROVE AppsInv'
  OBVIOUS
<1>1. CASE AppController
  BY <1>1, BeginPassKeeps, SaveBuildKeeps, SaveAppTargetKeeps, RemoveInvalidKeeps DEF AppController
<1>2. CASE BuildController /\ UNCHANGED avars
  <2>1. BuildsInv'
    BY <1>2, ControllerKeepsBuilds DEF AppsInv
  <2> QED BY <1>2, <2>1, AppTargetsStay, CommandsStay DEF AppsInv, ControlInv, avars
<1>3. CASE UNCHANGED vars
  BY <1>3, BuildsStay, AppTargetsStay, CommandsStay DEF AppsInv, ControlInv, vars, avars
<1>4. CASE PassFails \/ SyncCluster \/ \E n \in Objects : Collect(n)
  BY <1>4, PassFailsKeeps, SyncClusterKeeps, CollectKeeps
<1>5. CASE \E a \in AppNames : Load(a) \/ Delete(a)
  BY <1>5, LoadKeeps, DeleteKeeps
<1>6. CASE \E a \in AppNames, k \in CommandNames : ReadApp(a, k)
  BY <1>6, ReadAppKeeps
<1>7. CASE \E k \in CommandNames : ReadTargets(k)
  BY <1>7, ReadTargetsKeeps
<1>8. CASE \E c \in commands : WriteApp(c) \/ WriteTargets(c)
  BY <1>8, WriteAppKeeps, WriteTargetsKeeps
<1> QED BY <1>1, <1>2, <1>3, <1>4, <1>5, <1>6, <1>7, <1>8 DEF Next

(* Everything is of its type, whatever users and controllers do: a pass    *)
(* writes only app targets that have all they need.                        *)
THEOREM AppsTypeCorrect == Spec => []TypeOK
<1>1. Spec => []AppsInv
  BY InitGivesApps, StepKeepsApps, PTL DEF Spec
<1> QED BY <1>1, AppsAreTyped, PTL

-----------------------------------------------------------------------------
(* The label.                                                              *)

LEMMA StepKeepsLatest ==
  ASSUME ~SameSecond
  PROVE  AppsInv /\ LatestInv /\ [Next]_vars => LatestInv'
<1> SUFFICES ASSUME AppsInv, LatestInv, [Next]_vars PROVE LatestInv'
  OBVIOUS
<1>1. CASE UNCHANGED bvars
  <2>1. BuildsInv'
    BY <1>1, BuildsStay DEF LatestInv
  <2> QED BY <1>1, <2>1 DEF LatestInv, NewestIsLatest, Newest, bvars
<1>2. CASE SaveBuild
  <2>1. job.pc = "build"
    BY <1>2 DEF SaveBuild
  <2>2. job # NoPass
    BY <2>1 DEF NoPass
  <2>3. job.spec.tag \in Tags /\ CreateBuild(job.spec.tag)
    BY <1>2, <2>2, PassIs DEF SaveBuild, AppSpec
  <2> QED BY <2>3, CreateKeepsLatest
<1>3. CASE BuildController
  BY <1>3, ControllerKeepsLatest
<1>4. UNCHANGED bvars \/ SaveBuild \/ BuildController
  BY DEF Next, vars, AppController, BeginPass, SaveAppTarget, RemoveInvalid, PassFails, SyncCluster,
         Collect, Load, Delete, ReadApp, ReadTargets, WriteApp, WriteTargets
<1> QED BY <1>1, <1>2, <1>3, <1>4

(* The build that was created last has the label at every moment, although *)
(* the build controller decides from a cache that may be behind, and tries *)
(* again what is refused -- as long as no two builds are created in the    *)
(* same second, which is all that creation times can tell apart.           *)
THEOREM NewestKeepsTheLabel ==
  ASSUME ~SameSecond
  PROVE  Spec => []NewestIsLatest
<1>1. Init => LatestInv
  <2> SUFFICES ASSUME Init PROVE LatestInv
    OBVIOUS
  <2>1. BuildsInv /\ created = << >> /\ bjob = NoJob
    BY BuildsInitially DEF Init, BuildsInit
  <2> QED BY <2>1 DEF LatestInv, NewestIsLatest, NoJob
<1>2. AppsInv /\ LatestInv /\ [Next]_vars => LatestInv'
  BY StepKeepsLatest
<1>3. LatestInv => NewestIsLatest
  BY DEF LatestInv
<1> QED BY <1>1, <1>2, <1>3, InitGivesApps, StepKeepsApps, PTL DEF Spec

-----------------------------------------------------------------------------
(* What steps never do.                                                    *)

(* An edited manifest is saved only over the app it was made of: no save   *)
(* in between, of whichever command, is undone.                            *)
THEOREM EditsAreNotLost == Spec => EditsSeeEachOther
<1> DEFINE Lost == \E c \in commands \ commands' :
                     c.kind = "edit" /\ apps' # apps /\ apps[c.app] # c.read
<1>1. AppsInv /\ [Next]_vars => ~Lost
  <2> SUFFICES ASSUME AppsInv, [Next]_vars, NEW c \in commands \ commands',
                      c.kind = "edit", apps' # apps
               PROVE  apps[c.app] = c.read
    OBVIOUS
  <2>1. \E d \in commands : WriteApp(d) \/ WriteTargets(d)
    BY DEF Next, vars, avars, AppController, BeginPass, SaveBuild, SaveAppTarget, RemoveInvalid, PassFails,
           SyncCluster, Collect, Load, Delete, ReadApp, ReadTargets
  <2>2. PICK d \in commands : WriteApp(d)
    BY <2>1 DEF WriteTargets
  <2>3. c = d
    BY <2>2 DEF WriteApp
  <2>4. Accepts(c)
    BY <2>2, <2>3 DEF WriteApp
  <2> QED BY <2>4 DEF Accepts, AppsInv, CommandsInv
<1>2. AppsInv /\ [Next]_vars =>
        [\A c \in commands \ commands' : c.kind = "edit" => apps' = apps \/ apps[c.app] = c.read]_vars
  BY <1>1
<1> QED BY <1>2, InitGivesApps, StepKeepsApps, PTL DEF Spec, EditsSeeEachOther

(* Only a new build or new settings give an app target a new hash, and     *)
(* with it new releases: mode, ingress and scale may change without.       *)
LEMMA SameHash ==
  ASSUME NEW a \in AppTargetSpec, NEW b \in AppTargetSpec,
         a.app = b.app, a.target = b.target, a.build = b.build, a.settings = b.settings
  PROVE  HashOf(a) = HashOf(b)
BY DEF HashOf, AppTargetSpec

(* Halting an app, resuming it or changing its scale keeps its releases:   *)
(* the hash that names them changes with build and settings only           *)
(* (newAppTargetForApp), unless the app target has a name that two apps    *)
(* would give one (GetAppTargetName) and passes from one to the other.     *)
THEOREM HashesStay == Spec => HaltKeepsReleases
<1>1. ASSUME AppsInv, AppsInv',
             NEW n \in DOMAIN appTargets \cap DOMAIN appTargets',
             appTargets'[n].hash # appTargets[n].hash
      PROVE  \/ appTargets'[n].spec.build # appTargets[n].spec.build
             \/ appTargets'[n].spec.settings # appTargets[n].spec.settings
             \/ Shared(n) /\ For(appTargets'[n]) # For(appTargets[n])
  <2> DEFINE old == appTargets[n].spec
             new == appTargets'[n].spec
  <2>1. appTargets \in Partial(Objects, AppTarget) /\ appTargets' \in Partial(Objects, AppTarget)
    BY <1>1 DEF AppsInv, AppTargetsInv
  <2>2. appTargets[n] \in AppTarget /\ appTargets'[n] \in AppTarget
    BY <2>1, PartialIs
  <2>3. old \in AppTargetSpec /\ new \in AppTargetSpec
    BY <2>2 DEF AppTarget
  <2>4. Named[old.app, old.target] = n /\ appTargets[n].hash = HashOf(old)
    BY <1>1 DEF AppsInv, AppTargetsInv
  <2>5. Named[new.app, new.target] = n /\ appTargets'[n].hash = HashOf(new)
    BY <1>1 DEF AppsInv, AppTargetsInv
  <2> HIDE DEF old, new
  <2>6. <<old.app, old.target>> \in AppNames \X Targets /\ <<new.app, new.target>> \in AppNames \X Targets
    BY <2>3 DEF AppTargetSpec
  <2>7. HashOf(old) # HashOf(new)
    BY <1>1, <2>4, <2>5
  <2>8. CASE <<old.app, old.target>> = <<new.app, new.target>>
    <3>1. old.build # new.build \/ old.settings # new.settings
      BY <2>3, <2>7, <2>8, SameHash
    <3> QED BY <3>1 DEF old, new
  <2>9. CASE <<old.app, old.target>> # <<new.app, new.target>>
    <3>1. Named[<<old.app, old.target>>] = n /\ Named[<<new.app, new.target>>] = n
      BY <2>4, <2>5
    <3>2. Shared(n)
      BY <2>6, <2>9, <3>1 DEF Shared
    <3> QED BY <2>9, <3>2 DEF For, old, new
  <2> QED BY <2>8, <2>9
<1>2. AppsInv /\ AppsInv' =>
        [\A n \in DOMAIN appTargets \cap DOMAIN appTargets' :
           appTargets'[n].hash # appTargets[n].hash =>
             \/ appTargets'[n].spec.build # appTargets[n].spec.build
             \/ appTargets'[n].spec.settings # appTargets[n].spec.settings
             \/ Shared(n) /\ For(appTargets'[n]) # For(appTargets[n])]_vars
  BY <1>1
<1> QED BY <1>2, InitGivesApps, StepKeepsApps, PTL DEF Spec, HaltKeepsReleases
=============================================================================
