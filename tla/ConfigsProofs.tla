--------------------------- MODULE ConfigsProofs ---------------------------
(***************************************************************************)
(* Proofs about Configs: what edits, passes, exports and imports keep true *)
(* of configs, releases and pods, for any apps, targets and contents.      *)
(***************************************************************************)
EXTENDS Configs, MapProofs, WellFoundedInduction, SequenceTheorems

-----------------------------------------------------------------------------
(* Types.                                                                  *)

Objects == {Object(l) : l \in Labels}
Record == [label : Labels, content : Contents]
MergedContents == Contents \cup {Over(b, a) : a, b \in Contents}
Entries == {Yaml(c) : c \in MergedContents} \cup {Value(v) : v \in Scalars}
Variables == {EnvName[k] : k \in DOMAIN EnvName} \cup {ConfigEnvVar}
Data == Partial(Variables, Entries)
Release == [uses : SUBSET SharedNames, config : Data]
Pass == [at : AppTargets, uses : SUBSET SharedNames, app : SUBSET MergedContents]
ConfigFiles == Partial(Labels, Contents)
Uses == Partial(AppTargets, SUBSET SharedNames)

ConfigsTyped ==
  /\ configs \in Partial(Objects, Record)
  /\ \A o \in DOMAIN configs : o = Object(configs[o].label)
ReleasesTyped ==
  /\ maps \in Partial(AppTargets \X Data, Data)
  /\ releases \in [AppTargets -> Seq(Release)]
PodsTyped ==
  /\ pods = [at \in AppTargets |-> pods[at]]
  /\ \A at \in AppTargets : IsData(pods[at])
PassTyped ==
  /\ queue \in SUBSET AppTargets /\ due \in SUBSET AppTargets
  /\ job \in Pass \cup {NoPass}
TransferTyped ==
  /\ files \in [configs : ConfigFiles, apps : Uses]
  /\ import \in [pc : {"none", "running", "done"}, todo : SUBSET Labels]
  /\ import.todo \subseteq DOMAIN files.configs
  /\ pristine \in BOOLEAN

TypeInv ==
  /\ ConfigsTyped /\ uses \in Uses /\ ReleasesTyped /\ PodsTyped /\ PassTyped /\ TransferTyped
  /\ steps \in Nat /\ faults \in Nat

-----------------------------------------------------------------------------
(* Data.                                                                   *)

LEMMA EntryIs ==
  ASSUME NEW x \in Entries
  PROVE  x[1] \in {"yaml", "host"} \/ (x[1] = "value" /\ x[2] \in Scalars)
BY DEF Entries, Yaml, Value

LEMMA DataIsData ==
  ASSUME NEW d \in Data
  PROVE  IsData(d)
<1>1. \A e \in DOMAIN d : d[e] \in Entries
  BY PartialIs DEF Data
<1> QED BY <1>1, EntryIs DEF IsData

LEMMA OverIsData ==
  ASSUME NEW f, NEW g, IsData(f), IsData(g)
  PROVE  IsData(Over(f, g))
BY DEF Over, IsData

LEMMA HostsAreData ==
  ASSUME NEW at
  PROVE  IsData(Hosts(at))
BY DEF Hosts, Host, IsData

(* A pass has in hand what its config map is made of.                      *)
LEMMA PassIs ==
  ASSUME PassTyped, job # NoPass
  PROVE  job \in Pass
BY DEF PassTyped

LEMMA FoundIs ==
  ASSUME ConfigsTyped, NEW type, NEW name, NEW target
  PROVE  Find(type, name, target) \in SUBSET Contents
<1>1. \A o \in DOMAIN configs : configs[o] \in Record
  BY PartialIs DEF ConfigsTyped
<1> QED BY <1>1 DEF Find, Record

LEMMA MergedIs ==
  ASSUME ConfigsTyped, NEW type, NEW name, NEW target
  PROVE  Merged(type, name, target) \in SUBSET MergedContents
<1> DEFINE base == Find(type, name, Base)
           own == Find(type, name, target)
<1>1. base \in SUBSET Contents /\ own \in SUBSET Contents
  BY FoundIs
<1> HIDE DEF base, own
<1>2. {Over(b, o) : o \in own, b \in base} \in SUBSET MergedContents
  BY <1>1 DEF MergedContents
<1>3. base \cup own \in SUBSET MergedContents
  BY <1>1 DEF MergedContents
<1> QED BY <1>2, <1>3 DEF Merged, base, own

LEMMA EnvMapsAre ==
  ASSUME NEW c \in MergedContents, NEW d \in EnvMaps(c)
  PROVE  d \in Data
<1> DEFINE keys == {k \in DOMAIN c \cap DOMAIN EnvName : c[k] \in Scalars}
           names == {EnvName[k] : k \in keys}
<1>1. PICK pick \in [names -> keys] :
        d = With([e \in names |-> Value(c[pick[e]])], ConfigEnvVar, Yaml(c))
  BY DEF EnvMaps
<1> DEFINE env == [e \in names |-> Value(c[pick[e]])]
<1>2. env \in Data
  <2>1. \A e \in names : c[pick[e]] \in Scalars
    BY <1>1
  <2>2. names \subseteq Variables
    BY DEF Variables
  <2> HIDE DEF names, keys
  <2>3. \A e \in names : Value(c[pick[e]]) \in Entries
    BY <2>1 DEF Entries
  <2> QED BY <2>2, <2>3, PartialIs DEF Data
<1>3. ConfigEnvVar \in Variables /\ Yaml(c) \in Entries
  BY DEF Variables, Entries
<1> QED BY <1>1, <1>2, <1>3, WithIsPartial DEF Data

LEMMA ConfigMapsAre ==
  ASSUME NEW app \in SUBSET MergedContents, NEW shared,
         DOMAIN shared \subseteq SharedNames,
         \A s \in DOMAIN shared : shared[s] \in MergedContents,
         NEW d \in ConfigMaps(app, shared)
  PROVE  d \in Data
<1> DEFINE names == {EnvName[s] : s \in DOMAIN shared}
           whole == [e \in names |-> Yaml(shared[CHOOSE s \in DOMAIN shared : EnvName[s] = e])]
<1>1. whole \in Data
  <2>1. names \subseteq Variables
    BY ConfigsAssumption DEF Variables
  <2>2. \A e \in names : \E s \in DOMAIN shared : EnvName[s] = e
    OBVIOUS
  <2>3. \A e \in names : (CHOOSE s \in DOMAIN shared : EnvName[s] = e) \in DOMAIN shared
    BY <2>2
  <2> HIDE DEF names
  <2>4. \A e \in names : Yaml(shared[CHOOSE s \in DOMAIN shared : EnvName[s] = e]) \in Entries
    BY <2>3 DEF Entries
  <2> QED BY <2>1, <2>4, PartialIs DEF Data
<1> HIDE DEF whole
<1>2. d = whole \/ \E c \in app : \E env \in EnvMaps(c) : d = Over(env, whole)
  BY DEF ConfigMaps, whole
<1> QED BY <1>1, <1>2, EnvMapsAre, OverIsPartial DEF Data

LEMMA SharedIs ==
  ASSUME ConfigsTyped, PassTyped, job # NoPass, \A s \in job.uses : Shared[s] # {}
  PROVE  \A s \in job.uses : (CHOOSE c \in Shared[s] : TRUE) \in MergedContents
<1> SUFFICES ASSUME NEW s \in job.uses PROVE (CHOOSE c \in Shared[s] : TRUE) \in MergedContents
  OBVIOUS
<1>1. Shared[s] = Merged("shared", s, job.at[2])
  BY DEF Shared
<1>2. Shared[s] \in SUBSET MergedContents /\ Shared[s] # {}
  BY <1>1, MergedIs
<1> QED BY <1>2

LEMMA MadeIs ==
  ASSUME ConfigsTyped, PassTyped, job # NoPass, \A s \in job.uses : Shared[s] # {},
         NEW made \in Made
  PROVE  made.name \in Data /\ made.data \in Data
<1> DEFINE shared == [s \in job.uses |-> CHOOSE c \in Shared[s] : TRUE]
<1>1. CASE made = [name |-> NoConfig, data |-> << >>]
  BY <1>1, EmptyIsPartial DEF NoConfig, Data
<1>2. CASE \E data \in ConfigMaps(job.app, shared) : made = [name |-> MapName(data), data |-> data]
  <2>1. job \in Pass
    BY PassIs
  <2>2. DOMAIN shared \subseteq SharedNames /\ \A s \in DOMAIN shared : shared[s] \in MergedContents
    BY <2>1, SharedIs DEF Pass
  <2>3. job.app \in SUBSET MergedContents
    BY <2>1 DEF Pass
  <2> HIDE DEF shared
  <2> QED BY <1>2, <2>2, <2>3, ConfigMapsAre DEF MapName
<1> QED BY <1>1, <1>2 DEF Made

(* A set of natural numbers has a first one.                               *)
LEMMA FirstIs ==
  ASSUME NEW S, S \subseteq Nat, S # {}
  PROVE  First(S) \in S /\ \A j \in S : First(S) <= j
<1>1. PICK least \in S : \A j \in S : ~(<<j, least>> \in OpToRel(<, Nat))
  BY NatLessThanWellFounded, WFMin
<1>2. \A j \in S : least <= j
  <2> TAKE j \in S
  <2>1. j \in Nat /\ least \in Nat /\ <<j, least>> \in Nat \X Nat
    OBVIOUS
  <2>2. ~(<<j, least>> \in OpToRel(<, Nat))
    BY <1>1
  <2>3. ~(j < least)
    BY <2>1, <2>2 DEF OpToRel
  <2> QED BY <2>1, <2>3
<1> QED BY <1>2 DEF First

LEMMA RemoveIs ==
  ASSUME NEW S, NEW s \in Seq(S), NEW i \in 1..Len(s)
  PROVE  Remove(s, i) \in Seq(S)
<1>1. Len(s) \in Nat /\ \A j \in 1..Len(s) : s[j] \in S
  BY LenProperties, ElementOfSeq
<1>2. SubSeq(s, 1, i - 1) \in Seq(S)
  <2>1. 1 \in Int /\ i - 1 \in Int /\ \A j \in 1..(i - 1) : s[j] \in S
    BY <1>1
  <2> QED BY <2>1, SubSeqProperties
<1>3. SubSeq(s, i + 1, Len(s)) \in Seq(S)
  <2>1. i + 1 \in Int /\ Len(s) \in Int /\ \A j \in (i + 1)..Len(s) : s[j] \in S
    BY <1>1
  <2> QED BY <2>1, SubSeqProperties
<1> QED BY <1>2, <1>3, ConcatProperties DEF Remove

LEMMA FittingIs ==
  ASSUME PassTyped, ReleasesTyped, job # NoPass, NEW config
  PROVE  Fitting(config) \subseteq 1..Len(releases[job.at]) /\ Fitting(config) \subseteq Nat
<1>1. releases[job.at] \in Seq(Release)
  BY PassIs DEF ReleasesTyped, Pass
<1>2. DOMAIN releases[job.at] = 1..Len(releases[job.at]) /\ Len(releases[job.at]) \in Nat
  BY <1>1, LenProperties
<1> QED BY <1>2 DEF Fitting

LEMMA OlderGoneIs ==
  ASSUME PassTyped, ReleasesTyped, job # NoPass, NEW config
  PROVE  OlderGone(config) \in Seq(Release)
<1>1. releases[job.at] \in Seq(Release)
  BY PassIs DEF ReleasesTyped, Pass
<1>2. CASE Fitting(config) = {}
  BY <1>1, <1>2 DEF OlderGone
<1>3. CASE Fitting(config) # {}
  <2>1. First(Fitting(config)) \in 1..Len(releases[job.at])
    BY <1>3, FittingIs, FirstIs
  <2> QED BY <1>1, <1>3, <2>1, RemoveIs DEF OlderGone
<1> QED BY <1>2, <1>3

LEMMA MapsWithIs ==
  ASSUME PassTyped, ReleasesTyped, job # NoPass, NEW made, made.name \in Data, made.data \in Data
  PROVE  MapsWith(made) \in Partial(AppTargets \X Data, Data)
<1>1. <<job.at, made.name>> \in AppTargets \X Data
  BY PassIs DEF Pass
<1>2. [m \in {<<job.at, made.name>>} |-> made.data] \in Partial(AppTargets \X Data, Data)
  BY <1>1, PartialIs
<1> QED BY <1>2, OverIsPartial DEF MapsWith, ReleasesTyped

LEMMA SaveIs ==
  ASSUME ConfigsTyped, NEW l \in Labels, NEW content \in Contents, Save(l, content)
  PROVE  /\ ConfigsTyped'
         /\ DOMAIN configs' = DOMAIN configs \cup {Object(l)}
         /\ configs'[Object(l)] = [label |-> l, content |-> content]
         /\ \A o \in DOMAIN configs \ {Object(l)} : configs'[o] = configs[o]
<1>1. configs' = With(configs, Object(l), [label |-> l, content |-> content])
  BY DEF Save
<1>2. Object(l) \in Objects /\ [label |-> l, content |-> content] \in Record
  BY DEF Objects, Record
<1>3. configs' \in Partial(Objects, Record)
  BY <1>1, <1>2, WithIsPartial DEF ConfigsTyped
<1>4. /\ DOMAIN configs' = DOMAIN configs \cup {Object(l)}
      /\ configs'[Object(l)] = [label |-> l, content |-> content]
      /\ \A o \in DOMAIN configs \ {Object(l)} : configs'[o] = configs[o]
  BY <1>1 DEF With
<1>5. [label |-> l, content |-> content].label = l
  OBVIOUS
<1>6. \A o \in DOMAIN configs' : o = Object(configs'[o].label)
  BY <1>4, <1>5 DEF ConfigsTyped
<1> QED BY <1>3, <1>4, <1>6 DEF ConfigsTyped

-----------------------------------------------------------------------------
(* Each step keeps the types.                                              *)

LEMMA InitTyped == Init => TypeInv
<1> SUFFICES ASSUME Init PROVE TypeInv
  OBVIOUS
<1> USE ConfigsAssumption
<1>1. ConfigsTyped
  <2>1. AreConfigs(configs)
    BY DEF Init
  <2> QED BY <2>1, PartialHas DEF AreConfigs, ConfigsTyped, Objects, Record
<1>2. uses \in Uses
  BY PartialHas DEF Init, Uses
<1>3. ReleasesTyped
  <2>1. << >> \in Seq(Release)
    BY EmptySeq
  <2> QED BY <2>1, EmptyIsPartial DEF Init, ReleasesTyped, Nothing
<1>4. PodsTyped
  BY DEF Init, PodsTyped, Nothing, IsData
<1>5. PassTyped
  <2>1. DOMAIN uses \subseteq AppTargets
    BY <1>2, PartialIs DEF Uses
  <2> QED BY <2>1 DEF Init, PassTyped
<1>6. TransferTyped
  BY EmptyIsPartial DEF Init, TransferTyped, NoFiles, NoImport, ConfigFiles, Uses
<1> QED BY <1>1, <1>2, <1>3, <1>4, <1>5, <1>6 DEF Init, TypeInv

LEMMA WatchersAre ==
  ASSUME uses \in Uses, NEW l
  PROVE  Watchers(l) \in SUBSET AppTargets
<1>1. DOMAIN uses \subseteq AppTargets
  BY PartialIs DEF Uses
<1> QED BY <1>1 DEF Watchers

(* What a step of a user, or of an import, saves.                          *)
LEMMA SaveTyped ==
  ASSUME TypeInv, NEW l \in Labels, NEW content \in Contents, Save(l, content)
  PROVE  ConfigsTyped' /\ queue' \in SUBSET AppTargets
<1>1. \A k : Watchers(k) \subseteq AppTargets
  BY WatchersAre DEF TypeInv
<1>2. queue \subseteq AppTargets /\ ConfigsTyped
  BY DEF TypeInv, PassTyped
<1>3. queue' \subseteq AppTargets
  BY <1>1, <1>2 DEF Save
<1> QED BY <1>2, <1>3, SaveIs

LEMMA PassesTyped ==
  ASSUME TypeInv, Crash \/ MakeRelease \/ PassFails \/ \E at \in AppTargets : BeginPass(at)
  PROVE  TypeInv'
<1> USE ConfigsAssumption
<1>0. /\ ConfigsTyped /\ uses \in Uses /\ ReleasesTyped /\ PodsTyped /\ PassTyped /\ TransferTyped
      /\ DOMAIN uses \subseteq AppTargets /\ \A at \in DOMAIN uses : uses[at] \in SUBSET SharedNames
  BY PartialIs DEF TypeInv, Uses
<1>1. ASSUME NEW at \in AppTargets, BeginPass(at) PROVE TypeInv'
  <2>1. PassTyped'
    <3>1. Merged("app", at[1], at[2]) \in SUBSET MergedContents
      BY <1>0, MergedIs
    <3>2. at \in DOMAIN uses =>
            [at |-> at, uses |-> uses[at], app |-> Merged("app", at[1], at[2])] \in Pass
      BY <1>0, <3>1 DEF Pass
    <3> QED BY <1>0, <1>1, <3>2 DEF BeginPass, PassTyped
  <2>2. UNCHANGED <<cluster, transfer, pristine, bounds>>
    BY <1>1 DEF BeginPass
  <2> QED BY <1>0, <2>1, <2>2
          DEF TypeInv, ConfigsTyped, ReleasesTyped, PodsTyped, TransferTyped, cluster, transfer, bounds
<1>2. CASE Crash
  <2>1. PassTyped'
    BY <1>0, <1>2 DEF Crash, PassTyped
  <2>2. UNCHANGED <<cluster, transfer, pristine, bounds>>
    BY <1>2 DEF Crash
  <2> QED BY <1>0, <2>1, <2>2
          DEF TypeInv, ConfigsTyped, ReleasesTyped, PodsTyped, TransferTyped, cluster, transfer, bounds
<1>3. CASE MakeRelease
  <2>0. job # NoPass /\ (\A s \in job.uses : Shared[s] # {}) /\ job \in Pass
    BY <1>0, <1>3, PassIs DEF MakeRelease
  <2>1. PICK made \in Made :
          /\ maps' = IF made.name = NoConfig THEN maps ELSE MapsWith(made)
          /\ IF NewestFits(made.name) THEN UNCHANGED <<releases, queue, due>>
             ELSE /\ releases' = [releases EXCEPT ![job.at] =
                       <<[uses |-> job.uses, config |-> made.name]>> \o OlderGone(made.name)]
                  /\ queue' = queue \cup {job.at}
                  /\ due' = due \cup {job.at}
    BY <1>3 DEF MakeRelease
  <2>2. made.name \in Data /\ made.data \in Data
    BY <1>0, <2>0, MadeIs
  <2>3. maps' \in Partial(AppTargets \X Data, Data)
    BY <1>0, <2>0, <2>1, <2>2, MapsWithIs DEF ReleasesTyped
  <2>4. releases' \in [AppTargets -> Seq(Release)]
    <3>1. [uses |-> job.uses, config |-> made.name] \in Release
      BY <2>0, <2>2 DEF Release, Pass
    <3>2. OlderGone(made.name) \in Seq(Release)
      BY <1>0, <2>0, OlderGoneIs
    <3>3. <<[uses |-> job.uses, config |-> made.name]>> \in Seq(Release)
      BY <3>1
    <3>4. <<[uses |-> job.uses, config |-> made.name]>> \o OlderGone(made.name) \in Seq(Release)
      BY <3>2, <3>3, ConcatProperties
    <3> QED BY <1>0, <2>1, <3>4 DEF ReleasesTyped
  <2>5. PassTyped'
    BY <1>0, <1>3, <2>0, <2>1 DEF MakeRelease, PassTyped, Pass
  <2>6. UNCHANGED <<configs, uses, pods, transfer, pristine, bounds>>
    BY <1>3 DEF MakeRelease
  <2> QED BY <1>0, <2>3, <2>4, <2>5, <2>6
          DEF TypeInv, ConfigsTyped, ReleasesTyped, PodsTyped, TransferTyped, transfer, bounds
<1>4. CASE PassFails
  <2>0. job # NoPass /\ job \in Pass
    BY <1>0, <1>4, PassIs DEF PassFails
  <2>1. ReleasesTyped'
    <3>1. CASE UNCHANGED <<maps, releases>>
      BY <1>0, <3>1 DEF ReleasesTyped
    <3>2. ASSUME \A s \in job.uses : Shared[s] # {}, NEW made \in Made, maps' = MapsWith(made),
                 releases' = [releases EXCEPT ![job.at] = OlderGone(made.name)]
          PROVE  ReleasesTyped'
      <4>1. made.name \in Data /\ made.data \in Data
        BY <1>0, <2>0, <3>2, MadeIs
      <4>2. maps' \in Partial(AppTargets \X Data, Data)
        BY <1>0, <2>0, <3>2, <4>1, MapsWithIs
      <4>3. OlderGone(made.name) \in Seq(Release)
        BY <1>0, <2>0, OlderGoneIs
      <4> QED BY <1>0, <3>2, <4>2, <4>3 DEF ReleasesTyped
    <3> QED BY <1>4, <3>1, <3>2 DEF PassFails
  <2>2. PassTyped'
    BY <1>0, <1>4, <2>0 DEF PassFails, PassTyped, Pass
  <2>3. UNCHANGED <<configs, uses, pods, transfer, pristine, steps>> /\ faults' = faults + 1
    BY <1>4 DEF PassFails
  <2> QED BY <1>0, <2>1, <2>2, <2>3
          DEF TypeInv, ConfigsTyped, PodsTyped, TransferTyped, transfer
<1> QED BY <1>1, <1>2, <1>3, <1>4

LEMMA ReconcileTyped ==
  ASSUME TypeInv, NEW at \in AppTargets, ReconcileRelease(at)
  PROVE  TypeInv'
<1> USE ConfigsAssumption
<1> DEFINE newest == Head(releases[at])
           m == <<at, newest.config>>
           data == IF newest.config # NoConfig /\ m \in DOMAIN maps THEN maps[m] ELSE << >>
           env == Environment(OwnEnv[at], data, Hosts(at))
<1>1. IsData(env)
  <2>1. IsData(data)
    <3>1. \A x \in DOMAIN maps : maps[x] \in Data
      BY PartialIs DEF TypeInv, ReleasesTyped
    <3>2. IsData(<< >>)
      BY DEF IsData
    <3>3. \A x \in DOMAIN maps : IsData(maps[x])
      BY <3>1, DataIsData
    <3> QED BY <3>2, <3>3
  <2> HIDE DEF data
  <2>2. IsData(Hosts(at)) /\ IsData(OwnEnv[at])
    BY HostsAreData
  <2> QED BY <2>1, <2>2, OverIsData DEF Environment
<1>2. pods' = [pods EXCEPT ![at] = env]
  BY DEF ReconcileRelease
<1> HIDE DEF env
<1>3. PodsTyped'
  <2>1. pods = [x \in AppTargets |-> pods[x]] /\ \A x \in AppTargets : IsData(pods[x])
    BY DEF TypeInv, PodsTyped
  <2>2. pods' = [x \in AppTargets |-> IF x = at THEN env ELSE pods[x]]
    BY <1>2, <2>1
  <2>3. pods' = [x \in AppTargets |-> pods'[x]]
    BY <2>2
  <2>4. \A x \in AppTargets : IsData(pods'[x])
    BY <1>1, <2>1, <2>2
  <2> QED BY <2>3, <2>4 DEF PodsTyped
<1>4. due' \in SUBSET AppTargets /\ UNCHANGED <<configs, uses, maps, releases, queue, job, transfer, pristine, bounds>>
  BY DEF ReconcileRelease, TypeInv, PassTyped
<1> QED BY <1>3, <1>4
        DEF TypeInv, ConfigsTyped, ReleasesTyped, PassTyped, TransferTyped, transfer, bounds

LEMMA UsersTyped ==
  ASSUME TypeInv,
         \/ \E l \in EditedLabels : Delete(l) \/ \E c \in Contents : Edit(l, c)
         \/ \E l \in EditedLabels, S \in SUBSET SharedNames : EditUses(l[2], S)
  PROVE  TypeInv'
<1> USE ConfigsAssumption
<1>0. /\ ConfigsTyped /\ uses \in Uses /\ ReleasesTyped /\ PodsTyped /\ PassTyped /\ TransferTyped
      /\ DOMAIN uses \subseteq AppTargets
  BY PartialIs DEF TypeInv, Uses
<1>e. ASSUME Edited PROVE steps' \in Nat /\ pristine' \in BOOLEAN
  <2>1. steps' = steps + EditCost /\ pristine' = FALSE
    BY <1>e DEF Edited
  <2>2. steps' \in Nat
    BY <2>1 DEF TypeInv
  <2> QED BY <2>1, <2>2
<1>1. ASSUME NEW l \in EditedLabels, NEW c \in Contents, Edit(l, c) PROVE TypeInv'
  <2>1. ConfigsTyped' /\ queue' \in SUBSET AppTargets
    BY <1>1, SaveTyped DEF Edit
  <2>2. Edited /\ UNCHANGED <<uses, maps, releases, pods, due, job, transfer, faults>>
    BY <1>1 DEF Edit
  <2> QED BY <1>0, <1>e, <2>1, <2>2
          DEF TypeInv, ReleasesTyped, PodsTyped, PassTyped, TransferTyped, transfer
<1>2. ASSUME NEW l \in EditedLabels, Delete(l) PROVE TypeInv'
  <2>1. configs' = Without(configs, {Object(l)}) /\ queue' = queue \cup Watchers(l)
    BY <1>2 DEF Delete
  <2>2. ConfigsTyped'
    BY <1>0, <2>1, WithoutIsPartial DEF ConfigsTyped, Without
  <2>3. queue' \in SUBSET AppTargets
    BY <1>0, <2>1, WatchersAre DEF PassTyped
  <2>4. Edited /\ UNCHANGED <<uses, maps, releases, pods, due, job, transfer, faults>>
    BY <1>2 DEF Delete
  <2> QED BY <1>0, <1>e, <2>2, <2>3, <2>4
          DEF TypeInv, ReleasesTyped, PodsTyped, PassTyped, TransferTyped, transfer
<1>3. ASSUME NEW a, NEW S \in SUBSET SharedNames, EditUses(a, S) PROVE TypeInv'
  <2> DEFINE changed == {at \in DOMAIN uses : at[1] = a /\ uses[at] # S}
  <2>1. /\ uses' = [at \in DOMAIN uses |-> IF at \in changed THEN S ELSE uses[at]]
        /\ queue' = queue \cup changed
    BY <1>3 DEF EditUses
  <2>2. uses' \in Uses
    <3>1. \A at \in DOMAIN uses : uses[at] \in SUBSET SharedNames
      BY <1>0, PartialIs DEF Uses
    <3> HIDE DEF changed
    <3> QED BY <1>0, <2>1, <3>1, PartialIs DEF Uses
  <2>3. queue' \in SUBSET AppTargets
    BY <1>0, <2>1 DEF PassTyped
  <2>4. Edited /\ UNCHANGED <<configs, maps, releases, pods, due, job, transfer, faults>>
    BY <1>3 DEF EditUses
  <2> QED BY <1>0, <1>e, <2>2, <2>3, <2>4
          DEF TypeInv, ConfigsTyped, ReleasesTyped, PodsTyped, PassTyped, TransferTyped, transfer
<1> QED BY <1>1, <1>2, <1>3

(* What an export adds to the files, and an import to the app targets.     *)
LEMMA ExportIs ==
  ASSUME TypeInv, Export
  PROVE  /\ files' \in [configs : ConfigFiles, apps : Uses]
         /\ DOMAIN files'.configs = DOMAIN files.configs \cup {configs[o].label : o \in DOMAIN configs}
         /\ \A o \in DOMAIN configs : files'.configs[configs[o].label] = configs[o].content
         /\ \A l \in DOMAIN files.configs :
              \/ files'.configs[l] = files.configs[l]
              \/ \E o \in DOMAIN configs : configs[o].label = l /\ files'.configs[l] = configs[o].content
         /\ files'.apps = Over(files.apps, uses)
<1> DEFINE labels == {configs[o].label : o \in DOMAIN configs}
           new == [l \in labels |-> configs[Object(l)].content]
<1>1. files' = [configs |-> Over(files.configs, new), apps |-> Over(files.apps, uses)]
  BY DEF Export
<1>2. \A o \in DOMAIN configs : configs[o] \in Record /\ o = Object(configs[o].label)
  BY PartialIs DEF TypeInv, ConfigsTyped
<1>3. \A o \in DOMAIN configs : configs[o].label \in Labels /\ configs[o].content \in Contents
  BY <1>2 DEF Record
<1>4. new \in ConfigFiles
  <2>1. labels \subseteq Labels
    BY <1>3
  <2>2. \A l \in labels : configs[Object(l)].content \in Contents
    BY <1>2, <1>3
  <2> HIDE DEF labels
  <2> QED BY <2>1, <2>2, PartialIs DEF ConfigFiles
<1>5. \A o \in DOMAIN configs : new[configs[o].label] = configs[o].content
  BY <1>2
<1>6. \A l \in DOMAIN new : \E o \in DOMAIN configs : configs[o].label = l /\ new[l] = configs[o].content
  BY <1>5
<1>7. DOMAIN new = labels
  OBVIOUS
<1> HIDE DEF new
<1>8. files.configs \in ConfigFiles /\ files.apps \in Uses /\ uses \in Uses
  BY DEF TypeInv, TransferTyped
<1>9. Over(files.configs, new) \in ConfigFiles /\ Over(files.apps, uses) \in Uses
  BY <1>4, <1>8, OverIsPartial DEF ConfigFiles, Uses
<1>10. files'.configs = Over(files.configs, new) /\ files'.apps = Over(files.apps, uses)
  BY <1>1
<1>11. files' \in [configs : ConfigFiles, apps : Uses]
  BY <1>1, <1>9
<1>12. /\ DOMAIN Over(files.configs, new) = DOMAIN files.configs \cup labels
       /\ \A l \in labels : Over(files.configs, new)[l] = new[l]
       /\ \A l \in DOMAIN files.configs \ labels : Over(files.configs, new)[l] = files.configs[l]
  BY <1>7 DEF Over
<1>13. \A o \in DOMAIN configs : files'.configs[configs[o].label] = configs[o].content
  BY <1>5, <1>10, <1>12
<1>14. \A l \in DOMAIN files.configs :
         \/ files'.configs[l] = files.configs[l]
         \/ \E o \in DOMAIN configs : configs[o].label = l /\ files'.configs[l] = configs[o].content
  BY <1>6, <1>7, <1>10, <1>12
<1> QED BY <1>10, <1>11, <1>12, <1>13, <1>14

LEMMA TransfersTyped ==
  ASSUME TypeInv,
         \/ \E l \in Labels : ImportConfig(l)
         \/ \E a \in AppNames : ImportApp(a)
         \/ Export \/ Rebuild \/ BeginImport \/ FinishImport \/ ImportFails
  PROVE  TypeInv'
<1> USE ConfigsAssumption
<1>0. /\ ConfigsTyped /\ uses \in Uses /\ ReleasesTyped /\ PodsTyped /\ PassTyped /\ TransferTyped
      /\ DOMAIN uses \subseteq AppTargets
  BY PartialIs DEF TypeInv, Uses
<1>f. /\ files.configs \in ConfigFiles /\ files.apps \in Uses
      /\ DOMAIN files.configs \subseteq Labels /\ DOMAIN files.apps \subseteq AppTargets
      /\ \A l \in DOMAIN files.configs : files.configs[l] \in Contents
  BY <1>0, PartialIs DEF TransferTyped, ConfigFiles, Uses
<1>m. Moved => steps' \in Nat
  BY DEF Moved, TypeInv
<1>1. ASSUME NEW l \in Labels, ImportConfig(l) PROVE TypeInv'
  <2>1. ConfigsTyped' /\ queue' \in SUBSET AppTargets
    <3>1. files.configs[l] \in Contents
      BY <1>0, <1>1, <1>f DEF ImportConfig, TransferTyped
    <3> QED BY <1>1, <3>1, SaveTyped DEF ImportConfig, LabelOfFile
  <2>2. /\ import' = [import EXCEPT !.todo = @ \ {l}]
        /\ UNCHANGED <<uses, maps, releases, pods, due, job, files, exported, pristine, bounds>>
    BY <1>1 DEF ImportConfig
  <2>3. TransferTyped'
    BY <1>0, <2>2 DEF TransferTyped
  <2> QED BY <1>0, <2>1, <2>2, <2>3
          DEF TypeInv, ReleasesTyped, PodsTyped, PassTyped, bounds
<1>2. ASSUME NEW a, ImportApp(a) PROVE TypeInv'
  <2> DEFINE ats == {at \in DOMAIN files.apps : at[1] = a}
             new == [at \in ats |-> files.apps[at]]
  <2>1. /\ uses' = Over(uses, new) /\ queue' = queue \cup ats
        /\ UNCHANGED <<configs, maps, releases, pods, due, job, transfer, pristine, bounds>>
    BY <1>2 DEF ImportApp
  <2>2. ats \subseteq AppTargets /\ \A at \in ats : files.apps[at] \in SUBSET SharedNames
    BY <1>f, PartialIs DEF Uses
  <2> HIDE DEF ats
  <2>3. new \in Uses
    BY <2>2, PartialIs DEF Uses
  <2>4. uses' \in Uses
    BY <1>0, <2>1, <2>3, OverIsPartial DEF Uses
  <2>5. queue' \in SUBSET AppTargets
    BY <1>0, <2>1, <2>2 DEF PassTyped
  <2> HIDE DEF new
  <2> QED BY <1>0, <2>1, <2>4, <2>5
          DEF TypeInv, ConfigsTyped, ReleasesTyped, PodsTyped, PassTyped, TransferTyped, transfer, bounds
<1>3. CASE Export
  <2>1. files' \in [configs : ConfigFiles, apps : Uses]
    BY <1>3, ExportIs
  <2>2. import' = NoImport /\ UNCHANGED <<cluster, queue, due, job, pristine, faults>> /\ Moved
    BY <1>3 DEF Export
  <2>3. TransferTyped'
    BY <1>0, <2>1, <2>2 DEF TransferTyped, NoImport
  <2> QED BY <1>0, <1>m, <2>2, <2>3
          DEF TypeInv, ConfigsTyped, ReleasesTyped, PodsTyped, PassTyped, cluster
<1>4. CASE Rebuild
  <2>1. ConfigsTyped' /\ uses' \in Uses
    BY <1>4, EmptyIsPartial DEF Rebuild, ConfigsTyped, Uses
  <2>2. ReleasesTyped'
    <3>1. << >> \in Seq(Release)
      BY EmptySeq
    <3>2. releases' = [at \in AppTargets |-> << >>] /\ maps' = << >>
      BY <1>4 DEF Rebuild, Nothing
    <3>3. releases' \in [AppTargets -> Seq(Release)]
      BY <3>1, <3>2
    <3> QED BY <3>2, <3>3, EmptyIsPartial DEF ReleasesTyped
  <2>3. PodsTyped' /\ PassTyped'
    BY <1>4 DEF Rebuild, PodsTyped, Nothing, IsData, PassTyped
  <2>4. TransferTyped'
    BY <1>0, <1>4 DEF Rebuild, TransferTyped, NoImport
  <2>5. Moved /\ faults' = faults
    BY <1>4 DEF Rebuild
  <2> QED BY <1>m, <2>1, <2>2, <2>3, <2>4, <2>5 DEF TypeInv
<1>5. CASE BeginImport \/ FinishImport \/ ImportFails
  <2>1. /\ UNCHANGED <<cluster, queue, due, job, files, pristine>>
        /\ Moved \/ UNCHANGED steps
        /\ UNCHANGED faults \/ faults' = faults + 1
    BY <1>5 DEF BeginImport, FinishImport, ImportFails, bounds
  <2>2. TransferTyped'
    <3>1. import' \in {[pc |-> "running", todo |-> DOMAIN files.configs], [import EXCEPT !.pc = "done"], NoImport}
      BY <1>5 DEF BeginImport, FinishImport, ImportFails
    <3> QED BY <1>0, <1>f, <2>1, <3>1 DEF TransferTyped, NoImport
  <2> QED BY <1>0, <1>m, <2>1, <2>2
          DEF TypeInv, ConfigsTyped, ReleasesTyped, PodsTyped, PassTyped, cluster
<1> QED BY <1>1, <1>2, <1>3, <1>4, <1>5

LEMMA StepTyped == TypeInv /\ [Next]_vars => TypeInv'
<1> SUFFICES ASSUME TypeInv, [Next]_vars PROVE TypeInv'
  OBVIOUS
<1>1. CASE Next
  <2>1. \/ Crash \/ MakeRelease \/ PassFails \/ \E at \in AppTargets : BeginPass(at)
        \/ \E at \in AppTargets : ReconcileRelease(at)
        \/ \E l \in EditedLabels : Delete(l) \/ \E c \in Contents : Edit(l, c)
        \/ \E l \in EditedLabels, S \in SUBSET SharedNames : EditUses(l[2], S)
        \/ \E l \in Labels : ImportConfig(l)
        \/ \E a \in AppNames : ImportApp(a)
        \/ Export \/ Rebuild \/ BeginImport \/ FinishImport \/ ImportFails
    BY <1>1 DEF Next
  <2> QED BY <2>1, PassesTyped, ReconcileTyped, UsersTyped, TransfersTyped
<1>2. CASE UNCHANGED vars
  BY <1>2 DEF vars, cluster, transfer, bounds, TypeInv, ConfigsTyped, ReleasesTyped, PodsTyped,
     PassTyped, TransferTyped
<1> QED BY <1>1, <1>2

LEMMA TypeInvariance == Spec => []TypeInv
BY InitTyped, StepTyped, PTL DEF Spec

LEMMA TypesAre == TypeInv => TypeOK
<1> SUFFICES ASSUME TypeInv PROVE TypeOK
  OBVIOUS
<1>1. AreConfigs(configs) /\ IsPartial(uses, AppTargets, SUBSET SharedNames)
  BY PartialHas DEF TypeInv, ConfigsTyped, AreConfigs, Objects, Record, Uses
<1>2. \A m \in DOMAIN maps : m[1] \in AppTargets /\ IsData(maps[m])
  <2>1. \A m \in DOMAIN maps : m \in AppTargets \X Data /\ maps[m] \in Data
    BY PartialIs DEF TypeInv, ReleasesTyped
  <2> QED BY <2>1, DataIsData
<1>3. DOMAIN releases = AppTargets /\ \A at \in AppTargets : \A i \in DOMAIN releases[at] : IsRelease(releases[at][i])
  <2>1. DOMAIN releases = AppTargets /\ \A at \in AppTargets : releases[at] \in Seq(Release)
    BY DEF TypeInv, ReleasesTyped
  <2>2. \A at \in AppTargets : \A i \in DOMAIN releases[at] : releases[at][i] \in Release
    BY <2>1
  <2>3. \A r \in Release : r.uses \subseteq SharedNames /\ r.config \in Data
    BY DEF Release
  <2> QED BY <2>1, <2>2, <2>3, DataIsData DEF IsRelease
<1>4. DOMAIN pods = AppTargets /\ \A at \in AppTargets : IsData(pods[at])
  BY DEF TypeInv, PodsTyped
<1>5. \/ job = NoPass
      \/ job.at \in AppTargets /\ job.uses \subseteq SharedNames /\ \A c \in job.app : IsContent(c)
  <2>1. \A c \in MergedContents : IsContent(c)
    BY DEF MergedContents, IsContent
  <2> QED BY <2>1 DEF TypeInv, PassTyped, Pass
<1>6. /\ IsPartial(files.configs, Labels, Contents)
      /\ IsPartial(files.apps, AppTargets, SUBSET SharedNames)
  BY PartialHas DEF TypeInv, TransferTyped, ConfigFiles, Uses
<1> QED BY <1>1, <1>2, <1>3, <1>4, <1>5, <1>6 DEF TypeOK, TypeInv, PassTyped, TransferTyped

(* Configs, config maps, releases, pods and files have their types,        *)
(* whatever users write: what reaches a pod's environment is a number or a *)
(* string, a whole config, or the host of an app (ToEnvMap).               *)
THEOREM ConfigsTypeCorrect == Spec => []TypeOK
BY TypeInvariance, TypesAre, PTL

-----------------------------------------------------------------------------
(* Edits.                                                                  *)

Words == STRING \cup {"app"}

LEMMA WordIs ==
  /\ <<"app">> \in Seq(Words)
  /\ \A s \in Seq(STRING) : s \in Seq(Words)
BY DEF Words

LEMMA CancelLeft ==
  ASSUME NEW S, NEW s \in Seq(S), NEW t \in Seq(S), NEW v \in Seq(S), s \o t = s \o v
  PROVE  t = v
<1>1. \A p, q, r \in Seq(S) : p \o q = p \o r => q = r
  BY ConcatSimplifications
<1> QED BY <1>1

LEMMA NamesAre ==
  ASSUME NEW l \in Labels, l[1] = "app"
  PROVE  /\ l[2] \in Seq(Words) /\ l[3] \in Seq(Words)
         /\ l = <<"app", l[2], l[3]>> /\ Object(l) = <<"app">> \o (l[2] \o l[3])
<1>1. AppNames \subseteq Seq(Words) /\ Targets \cup {Base} \subseteq Seq(Words)
  <2>1. \A at \in AppTargets : at[1] \in Seq(STRING)
    BY NamesAssumption
  <2>2. Base \in Seq(Words)
    BY DEF Base
  <2>3. Targets \subseteq Seq(Words)
    BY NamesAssumption, WordIs
  <2> QED BY <2>1, <2>2, <2>3, WordIs DEF AppNames
<1>2. l \in {"app"} \X AppNames \X (Targets \cup {Base})
  BY DEF Labels
<1>3. l[2] \in Seq(Words) /\ l[3] \in Seq(Words) /\ l = <<"app", l[2], l[3]>>
  BY <1>1, <1>2
<1>4. Object(l) = (<<"app">> \o l[2]) \o l[3]
  BY ZenonT(30) DEF Object
<1>5. <<"app">> \in Seq(Words)
  BY WordIs
<1> QED BY <1>3, <1>4, <1>5, ConcatAssociative

(* Two configs of apps have one object if they have the same words.        *)
LEMMA ObjectIs ==
  ASSUME NEW k \in Labels, NEW l \in Labels, k[1] = "app", l[1] = "app", Object(k) = Object(l)
  PROVE  k[2] \o k[3] = l[2] \o l[3]
<1>1. <<"app">> \o (k[2] \o k[3]) = <<"app">> \o (l[2] \o l[3])
  BY NamesAre
<1>2. k[2] \in Seq(Words) /\ k[3] \in Seq(Words) /\ l[2] \in Seq(Words) /\ l[3] \in Seq(Words)
  BY NamesAre
<1>3. k[2] \o k[3] \in Seq(Words) /\ l[2] \o l[3] \in Seq(Words)
  BY <1>2, ConcatProperties
<1>4. <<"app">> \in Seq(Words)
  BY WordIs
<1> QED BY <1>1, <1>3, <1>4, CancelLeft

(* An app has an object of its own for each of its targets and the base.   *)
LEMMA OwnObjects ==
  ASSUME NEW k \in Labels, NEW l \in Labels, k[1] = "app", l[1] = "app", k[2] = l[2],
         Object(k) = Object(l)
  PROVE  k = l
<1>1. l[2] \o k[3] = l[2] \o l[3]
  BY ObjectIs
<1>2. k[3] = l[3]
  BY <1>1, NamesAre, CancelLeft
<1> QED BY <1>2, NamesAre

(* Configs of other objects are found as they were before a save.          *)
LEMMA OthersFound ==
  ASSUME ConfigsTyped, NEW l \in Labels, NEW content \in Contents, Save(l, content),
         NEW a, NEW t, Object(<<"app", a, t>>) # Object(l)
  PROVE  Find("app", a, t)' = Find("app", a, t)
<1> DEFINE label == <<"app", a, t>>
           before == {o \in DOMAIN configs : configs[o].label = label}
           after == {o \in DOMAIN configs' : configs'[o].label = label}
<1>1. label # l
  OBVIOUS
<1>2. /\ DOMAIN configs' = DOMAIN configs \cup {Object(l)}
      /\ configs'[Object(l)].label = l
      /\ \A o \in DOMAIN configs \ {Object(l)} : configs'[o] = configs[o]
  <2>1. configs'[Object(l)] = [label |-> l, content |-> content]
    BY SaveIs
  <2>2. configs'[Object(l)].label = l
    BY <2>1
  <2> QED BY <2>2, SaveIs
<1>3. Object(l) \notin after
  BY <1>1, <1>2
<1>4. Object(l) \notin before
  BY DEF ConfigsTyped
<1> HIDE DEF label
<1>5. after = before /\ \A o \in before : configs'[o] = configs[o]
  BY <1>2, <1>3, <1>4
<1>6. Find("app", a, t) = {configs[o].content : o \in before}
  BY DEF Find, label
<1>7. Find("app", a, t)' = {configs'[o].content : o \in after}
  BY DEF Find, label
<1> QED BY <1>5, <1>6, <1>7

(* What an app gets in its other targets is not touched by an edit for one *)
(* target, nor what another app gets, unless its name, or its name and     *)
(* target, have the words of the name and target that are edited: an       *)
(* object is found by labels, and overwritten by name (NewAppConfig,       *)
(* SaveAppConfig, GetMergedConfigForType).                                 *)
THEOREM EditsStayInTheirTarget == Spec => EditsKeepToTheirTarget
<1>1. ASSUME TypeInv, NEW l \in EditedLabels, NEW c \in Contents, Edit(l, c), l[1] = "app", l[3] # Base,
             NEW a \in AppNames, NEW t \in Targets, <<a, t>> # <<l[2], l[3]>>, ~SharesName(a, t, l)
      PROVE  Merged("app", a, t)' = Merged("app", a, t)
  <2>1. Save(l, c) /\ l \in Labels /\ ConfigsTyped
    BY <1>1, ConfigsAssumption DEF Edit, TypeInv
  <2> DEFINE own == <<"app", a, t>>
             base == <<"app", a, Base>>
  <2>2. /\ own \in Labels /\ own[1] = "app" /\ own[2] = a /\ own[3] = t
        /\ base \in Labels /\ base[1] = "app" /\ base[2] = a /\ base[3] = Base
    BY DEF Labels
  <2> HIDE DEF own, base
  <2>3. own # l /\ base # l
    BY <1>1, <2>2
  <2>4. Object(own) # Object(l) /\ Object(base) # Object(l)
    <3>1. CASE a = l[2]
      BY <1>1, <2>1, <2>2, <2>3, <3>1, OwnObjects
    <3>2. CASE a # l[2]
      <4>1. l[2] \o l[3] # a \o t /\ l[2] \o l[3] # a
        BY <1>1, <3>2 DEF SharesName
      <4>2. a \o Base = a
        BY <2>2, NamesAre, ConcatEmptySeq DEF Base
      <4>3. Object(own) = Object(l) => a \o t = l[2] \o l[3]
        BY <1>1, <2>1, <2>2, ObjectIs
      <4>4. Object(base) = Object(l) => a \o Base = l[2] \o l[3]
        BY <1>1, <2>1, <2>2, ObjectIs
      <4> QED BY <4>1, <4>2, <4>3, <4>4
    <3> QED BY <3>1, <3>2
  <2>5. Find("app", a, t)' = Find("app", a, t)
    BY <2>1, <2>4, OthersFound DEF own
  <2>6. Find("app", a, Base)' = Find("app", a, Base)
    BY <2>1, <2>4, OthersFound DEF base
  <2> QED BY <2>5, <2>6 DEF Merged
<1> DEFINE Kept ==
      \A l \in EditedLabels, c \in Contents :
        Edit(l, c) /\ l[1] = "app" /\ l[3] # Base =>
          \A a \in AppNames, t \in Targets :
            <<a, t>> # <<l[2], l[3]>> /\ ~SharesName(a, t, l) =>
              Merged("app", a, t)' = Merged("app", a, t)
<1>2. TypeInv => Kept
  BY <1>1
<1>3. TypeInv /\ [Next]_vars => [Kept]_vars
  BY <1>2
<1> QED BY <1>3, TypeInvariance, PTL DEF Spec, EditsKeepToTheirTarget

-----------------------------------------------------------------------------
(* Exports and imports.                                                    *)

(* The files have what was exported last, and perhaps more; a cluster that *)
(* was only imported to has nothing but what is in the files, and as far   *)
(* as an import has come, an object for each file.                         *)
InFiles(f) ==
  \A o \in DOMAIN f : f[o].label \in DOMAIN files.configs /\ files.configs[f[o].label] = f[o].content

RestoreInv ==
  /\ exported \in Partial(Objects, Record) /\ \A o \in DOMAIN exported : o = Object(exported[o].label)
  /\ InFiles(exported)
  /\ import.pc = "done" => import.todo = {}
  /\ pristine => /\ InFiles(configs)
                 /\ uses = [at \in DOMAIN uses |-> uses[at]]
                 /\ \A at \in DOMAIN uses : at \in DOMAIN files.apps /\ uses[at] = files.apps[at]
                 /\ import.pc # "none" =>
                      \A l \in DOMAIN files.configs \ import.todo : Object(l) \in DOMAIN configs

(* An export of such a cluster leaves the files as they are.               *)
LEMMA ExportKeepsFiles ==
  ASSUME TypeInv, RestoreInv, Export, pristine
  PROVE  files' = files
<1>1. /\ \A o \in DOMAIN configs :
           configs[o].label \in DOMAIN files.configs /\ files.configs[configs[o].label] = configs[o].content
      /\ \A at \in DOMAIN uses : at \in DOMAIN files.apps /\ uses[at] = files.apps[at]
  BY DEF RestoreInv, InFiles
<1>2. files \in [configs : ConfigFiles, apps : Uses] /\ files' \in [configs : ConfigFiles, apps : Uses]
  BY ExportIs DEF TypeInv, TransferTyped
<1>3. files'.configs = files.configs
  <2>1. DOMAIN files'.configs = DOMAIN files.configs
    <3>1. DOMAIN files'.configs = DOMAIN files.configs \cup {configs[o].label : o \in DOMAIN configs}
      BY ExportIs
    <3> QED BY <1>1, <3>1
  <2>2. \A l \in DOMAIN files.configs : files'.configs[l] = files.configs[l]
    BY <1>1, ExportIs
  <2>3. /\ files.configs = [l \in DOMAIN files.configs |-> files.configs[l]]
        /\ files'.configs = [l \in DOMAIN files'.configs |-> files'.configs[l]]
    <3>1. files.configs \in ConfigFiles /\ files'.configs \in ConfigFiles
      BY <1>2
    <3> QED BY <3>1, PartialIs DEF ConfigFiles
  <2> QED BY <2>1, <2>2, <2>3
<1>4. files'.apps = files.apps
  <2>1. files'.apps = Over(files.apps, uses)
    BY ExportIs
  <2>2. files.apps \in Uses
    BY <1>2
  <2>3. files.apps = [at \in DOMAIN files.apps |-> files.apps[at]]
    BY <2>2, PartialIs DEF Uses
  <2> QED BY <1>1, <2>1, <2>3 DEF Over
<1> QED BY <1>2, <1>3, <1>4

LEMMA RestoreInit == Init => RestoreInv
BY EmptyIsPartial DEF Init, RestoreInv, InFiles, NoImport

(* A step that changes neither configs nor files nor app targets.          *)
LEMMA RestoreFrame ==
  ASSUME RestoreInv, UNCHANGED <<configs, uses, files, import, exported, pristine>>
  PROVE  RestoreInv'
BY DEF RestoreInv, InFiles

LEMMA RestoreStep ==
  ASSUME TypeInv, RestoreInv, Next
  PROVE  RestoreInv'
<1>t. TypeInv'
  BY StepTyped
<1>c. ConfigsTyped /\ ConfigsTyped'
  BY <1>t DEF TypeInv
<1>1. CASE \/ Crash \/ MakeRelease \/ PassFails
           \/ \E at \in AppTargets : BeginPass(at) \/ ReconcileRelease(at)
  BY <1>1, RestoreFrame DEF Crash, MakeRelease, PassFails, BeginPass, ReconcileRelease, cluster, transfer
<1>2. CASE \/ \E l \in EditedLabels : Delete(l) \/ \E c \in Contents : Edit(l, c)
           \/ \E a, S : EditUses(a, S)
  <2>1. ~pristine' /\ UNCHANGED <<files, import, exported>>
    BY <1>2 DEF Delete, Edit, EditUses, Edited, transfer
  <2> QED BY <2>1 DEF RestoreInv, InFiles
<1>3. ASSUME NEW l \in Labels, ImportConfig(l) PROVE RestoreInv'
  <2>1. /\ import.pc = "running" /\ l \in import.todo
        /\ Save(l, files.configs[l])
        /\ import' = [import EXCEPT !.todo = @ \ {l}]
        /\ UNCHANGED <<uses, files, exported, pristine>>
    BY <1>3 DEF ImportConfig, LabelOfFile
  <2>2. l \in DOMAIN files.configs /\ files.configs[l] \in Contents
    BY <2>1, PartialIs DEF TypeInv, TransferTyped, ConfigFiles
  <2>3. /\ DOMAIN configs' = DOMAIN configs \cup {Object(l)}
        /\ configs'[Object(l)] = [label |-> l, content |-> files.configs[l]]
        /\ \A o \in DOMAIN configs \ {Object(l)} : configs'[o] = configs[o]
    BY <1>c, <2>1, <2>2, SaveIs
  <2>4. import'.pc = "running" /\ import'.todo = import.todo \ {l}
    BY <2>1 DEF TypeInv, TransferTyped
  <2>5. pristine => InFiles(configs)'
    <3>1. configs'[Object(l)].label = l /\ configs'[Object(l)].content = files.configs[l]
      BY <2>3
    <3> QED BY <2>1, <2>2, <2>3, <3>1 DEF RestoreInv, InFiles
  <2> QED BY <2>1, <2>2, <2>3, <2>4, <2>5 DEF RestoreInv, InFiles
<1>4. ASSUME NEW a \in AppNames, ImportApp(a) PROVE RestoreInv'
  <2> DEFINE ats == {at \in DOMAIN files.apps : at[1] = a}
  <2>1. /\ uses' = Over(uses, [at \in ats |-> files.apps[at]])
        /\ UNCHANGED <<configs, files, import, exported, pristine>>
    BY <1>4 DEF ImportApp, transfer
  <2>2. /\ uses' = [at \in DOMAIN uses' |-> uses'[at]]
        /\ \A at \in DOMAIN uses' : IF at \in ats THEN uses'[at] = files.apps[at]
                                    ELSE at \in DOMAIN uses /\ uses'[at] = uses[at]
    BY <2>1 DEF Over
  <2> QED BY <2>1, <2>2 DEF RestoreInv, InFiles
<1>5. CASE Export
  <2>1. /\ exported' = configs /\ import' = NoImport /\ UNCHANGED <<configs, uses, pristine>>
    BY <1>5 DEF Export, cluster
  <2>2. InFiles(configs)'
    <3>1. \A o \in DOMAIN configs : /\ configs[o].label \in DOMAIN files'.configs
                                    /\ files'.configs[configs[o].label] = configs[o].content
      BY <1>5, ExportIs
    <3> QED BY <2>1, <3>1 DEF InFiles
  <2>3. pristine => files' = files
    BY <1>5, ExportKeepsFiles
  <2>4. import'.pc = "none"
    BY <2>1 DEF NoImport
  <2> QED BY <1>c, <2>1, <2>2, <2>3, <2>4 DEF RestoreInv, InFiles, ConfigsTyped
<1>6. CASE Rebuild
  <2>1. configs' = << >> /\ uses' = << >> /\ import'.pc = "none" /\ UNCHANGED <<files, exported>>
    BY <1>6 DEF Rebuild, NoImport
  <2>2. DOMAIN configs' = {} /\ DOMAIN uses' = {}
    BY <2>1
  <2>3. uses' = [at \in DOMAIN uses' |-> uses'[at]]
    BY <2>1
  <2> QED BY <2>1, <2>2, <2>3 DEF RestoreInv, InFiles
<1>7. CASE BeginImport \/ FinishImport \/ ImportFails
  <2>1. UNCHANGED <<configs, uses, files, exported, pristine>>
    BY <1>7 DEF BeginImport, FinishImport, ImportFails, cluster
  <2>2. \/ import' = [pc |-> "running", todo |-> DOMAIN files.configs]
        \/ import.pc = "running" /\ import.todo = {} /\ import' = [import EXCEPT !.pc = "done"]
        \/ import' = NoImport
    BY <1>7 DEF BeginImport, FinishImport, ImportFails
  <2>3. \/ import'.pc = "running" /\ import'.todo = DOMAIN files.configs
        \/ import.pc = "running" /\ import.todo = {} /\ import'.pc = "done" /\ import'.todo = {}
        \/ import'.pc = "none"
    BY <2>2 DEF NoImport, TypeInv, TransferTyped
  <2> QED BY <2>1, <2>3 DEF RestoreInv, InFiles
<1> QED BY <1>1, <1>2, <1>3, <1>4, <1>5, <1>6, <1>7 DEF Next

LEMMA RestoreInvariance == Spec => [](TypeInv /\ RestoreInv)
<1>1. TypeInv /\ RestoreInv /\ [Next]_vars => RestoreInv'
  <2>1. ASSUME RestoreInv, UNCHANGED vars PROVE RestoreInv'
    BY <2>1, RestoreFrame DEF vars, cluster, transfer
  <2> QED BY <2>1, RestoreStep
<1> QED BY <1>1, RestoreInit, TypeInvariance, PTL DEF Spec

(* Importing an export into a new cluster, however often it fails, is run  *)
(* again or exported from half way, gives back every config that was       *)
(* exported, and nothing else (ExportConfigs, ImportConfigs).              *)
THEOREM ImportsRestore == Spec => []ImportRestores
<1>1. ASSUME TypeInv, RestoreInv, pristine, import.pc = "done", NothingStale
      PROVE  configs = exported
  <2>1. /\ configs \in Partial(Objects, Record) /\ exported \in Partial(Objects, Record)
        /\ InFiles(configs) /\ InFiles(exported)
        /\ \A o \in DOMAIN configs : o = Object(configs[o].label)
        /\ \A o \in DOMAIN exported : o = Object(exported[o].label)
        /\ \A l \in DOMAIN files.configs : Object(l) \in DOMAIN configs
    BY <1>1 DEF TypeInv, ConfigsTyped, RestoreInv
  <2>2. DOMAIN configs = DOMAIN exported
    <3>1. DOMAIN exported \subseteq DOMAIN configs
      BY <2>1 DEF InFiles
    <3>2. DOMAIN configs \subseteq DOMAIN exported
      BY <1>1, <2>1 DEF InFiles, NothingStale
    <3> QED BY <3>1, <3>2
  <2>3. ASSUME NEW o \in DOMAIN configs PROVE configs[o] = exported[o]
    <3>1. configs[o] \in Record /\ exported[o] \in Record
      BY <2>1, <2>2, PartialIs
    <3>2. configs[o].label = exported[o].label
      BY <1>1, <2>1 DEF InFiles, NothingStale
    <3>3. configs[o].content = exported[o].content
      BY <2>1, <2>2, <3>2 DEF InFiles
    <3> QED BY <3>1, <3>2, <3>3 DEF Record
  <2>4. /\ configs = [o \in DOMAIN configs |-> configs[o]]
        /\ exported = [o \in DOMAIN exported |-> exported[o]]
    BY <2>1, PartialIs
  <2> QED BY <2>2, <2>3, <2>4
<1>2. TypeInv /\ RestoreInv => ImportRestores
  BY <1>1 DEF ImportRestores
<1> QED BY <1>2, RestoreInvariance, PTL

-----------------------------------------------------------------------------
(* One release.                                                            *)

(* The names a pass gives the config map it makes, as configs are now, and *)
(* whether keys of the app's config clash.                                 *)
MadeFor(at) ==
  LET app == Merged("app", at[1], at[2])
      shared == [s \in uses[at] |-> CHOOSE c \in Merged("shared", s, at[2]) : TRUE]
  IN  IF app = {} /\ uses[at] = {} THEN {NoConfig} ELSE ConfigMaps(app, shared)
Clashing(at) == \E c \in Merged("app", at[1], at[2]) : Clashes(c)

AllImported == \A l \in DOMAIN files.configs : Object(l) \in DOMAIN configs
PassIsCurrent ==
  /\ job.at \in DOMAIN uses /\ job.uses = uses[job.at]
  /\ job.app = Merged("app", job.at[1], job.at[2])
ReleaseFits(at) ==
  /\ Len(releases[at]) = 1
  /\ releases[at][1].uses = uses[at] /\ releases[at][1].config \in MadeFor(at)

(* Apps are imported after all configs; importing those again changes      *)
(* nothing.  Whatever pass is under way has therefore the configs of the   *)
(* files, and the one release of an app target is what a pass would make.  *)
OneReleaseInv ==
  pristine /\ OneFileEach =>
    /\ DOMAIN uses # {} => AllImported
    /\ job # NoPass => PassIsCurrent
    /\ \A at \in AppTargets :
         releases[at] # << >> => at \in DOMAIN uses /\ (Clashing(at) \/ ReleaseFits(at))

(* A label has one object, so that an app target has at most one config;   *)
(* unless keys clash, that makes one environment.                          *)
LEMMA OneMerged ==
  ASSUME ConfigsTyped, NEW type, NEW name, NEW target,
         NEW c \in Merged(type, name, target), NEW d \in Merged(type, name, target)
  PROVE  c = d
<1>1. ASSUME NEW t, NEW a \in Find(type, name, t), NEW b \in Find(type, name, t) PROVE a = b
  <2>1. PICK o \in DOMAIN configs : configs[o].label = <<type, name, t>> /\ a = configs[o].content
    BY DEF Find
  <2>2. PICK p \in DOMAIN configs : configs[p].label = <<type, name, t>> /\ b = configs[p].content
    BY DEF Find
  <2>3. o = Object(configs[o].label) /\ p = Object(configs[p].label)
    BY DEF ConfigsTyped
  <2> QED BY <2>1, <2>2, <2>3
<1> DEFINE base == Find(type, name, Base)
           own == Find(type, name, target)
<1>2. /\ \A a, b \in base : a = b
      /\ \A a, b \in own : a = b
  BY <1>1
<1>3. Merged(type, name, target) = IF base = {} \/ own = {} THEN base \cup own
                                   ELSE {Over(b, o) : o \in own, b \in base}
  BY DEF Merged
<1> HIDE DEF base, own
<1>4. CASE base = {} \/ own = {}
  BY <1>2, <1>3, <1>4
<1>5. CASE ~(base = {} \/ own = {})
  <2>1. PICK o \in own, b \in base : c = Over(b, o)
    BY <1>3, <1>5
  <2>2. PICK p \in own, e \in base : d = Over(e, p)
    BY <1>3, <1>5
  <2> QED BY <1>2, <2>1, <2>2
<1> QED BY <1>4, <1>5

LEMMA OneEnv ==
  ASSUME NEW c, ~Clashes(c), NEW d \in EnvMaps(c), NEW e \in EnvMaps(c)
  PROVE  d = e
<1> DEFINE keys == {k \in DOMAIN c \cap DOMAIN EnvName : c[k] \in Scalars}
           names == {EnvName[k] : k \in keys}
<1>1. PICK p \in [names -> keys] :
        /\ \A x \in names : EnvName[p[x]] = x
        /\ d = With([x \in names |-> Value(c[p[x]])], ConfigEnvVar, Yaml(c))
  BY DEF EnvMaps
<1>2. PICK q \in [names -> keys] :
        /\ \A x \in names : EnvName[q[x]] = x
        /\ e = With([x \in names |-> Value(c[q[x]])], ConfigEnvVar, Yaml(c))
  BY DEF EnvMaps
<1>3. \A k, j \in keys : EnvName[k] = EnvName[j] => k = j
  BY DEF Clashes
<1> HIDE DEF keys, names
<1>4. \A x \in names : p[x] = q[x]
  BY <1>1, <1>2, <1>3
<1>5. [x \in names |-> Value(c[p[x]])] = [x \in names |-> Value(c[q[x]])]
  BY <1>4
<1> QED BY <1>1, <1>2, <1>5

LEMMA OneMade ==
  ASSUME ConfigsTyped, NEW at, ~Clashing(at), NEW d \in MadeFor(at), NEW e \in MadeFor(at)
  PROVE  d = e
<1> DEFINE app == Merged("app", at[1], at[2])
           shared == [s \in uses[at] |-> CHOOSE c \in Merged("shared", s, at[2]) : TRUE]
           names == {EnvName[s] : s \in DOMAIN shared}
           whole == [x \in names |-> Yaml(shared[CHOOSE s \in DOMAIN shared : EnvName[s] = x])]
<1>1. MadeFor(at) = IF app = {} /\ uses[at] = {} THEN {NoConfig} ELSE ConfigMaps(app, shared)
  BY DEF MadeFor
<1>2. ConfigMaps(app, shared) =
        IF app = {} THEN {whole} ELSE UNION {{Over(env, whole) : env \in EnvMaps(c)} : c \in app}
  BY DEF ConfigMaps
<1>3. /\ \A a, b \in app : a = b
      /\ \A a \in app : ~Clashes(a)
  BY OneMerged DEF Clashing
<1> HIDE DEF app, shared, whole
<1>4. CASE app = {}
  BY <1>1, <1>2, <1>4
<1>5. CASE app # {}
  <2>1. PICK a \in app : \E env \in EnvMaps(a) : d = Over(env, whole)
    BY <1>1, <1>2, <1>5
  <2>2. PICK b \in app : \E env \in EnvMaps(b) : e = Over(env, whole)
    BY <1>1, <1>2, <1>5
  <2>3. a = b /\ ~Clashes(a)
    BY <1>3
  <2>4. PICK x \in EnvMaps(a) : d = Over(x, whole)
    BY <2>1
  <2>5. PICK y \in EnvMaps(a) : e = Over(y, whole)
    BY <2>2, <2>3
  <2>6. x = y
    BY <2>3, OneEnv
  <2> QED BY <2>4, <2>5, <2>6
<1> QED BY <1>4, <1>5

LEMMA MadeIsMadeFor ==
  ASSUME PassIsCurrent, NEW made \in Made
  PROVE  made.name \in MadeFor(job.at)
<1> DEFINE of == [s \in job.uses |-> CHOOSE c \in Shared[s] : TRUE]
           shared == [s \in uses[job.at] |-> CHOOSE c \in Merged("shared", s, job.at[2]) : TRUE]
<1>1. job.uses = uses[job.at] /\ job.app = Merged("app", job.at[1], job.at[2])
  BY DEF PassIsCurrent
<1>2. \A s \in job.uses : Shared[s] = Merged("shared", s, job.at[2])
  BY DEF Shared
<1>3. of = shared
  BY <1>1, <1>2
<1>4. MadeFor(job.at) = IF job.app = {} /\ job.uses = {} THEN {NoConfig} ELSE ConfigMaps(job.app, shared)
  BY <1>1 DEF MadeFor
<1>5. \/ job.app = {} /\ job.uses = {} /\ made = [name |-> NoConfig, data |-> << >>]
      \/ /\ ~(job.app = {} /\ job.uses = {})
         /\ \E data \in ConfigMaps(job.app, of) : made = [name |-> data, data |-> data]
  BY DEF Made, MapName
<1> HIDE DEF of, shared
<1> QED BY <1>3, <1>4, <1>5

(* A pass over an app target whose one release is current leaves it alone. *)
LEMMA NewestStays ==
  ASSUME TypeInv, job # NoPass, PassIsCurrent, ~Clashing(job.at), ReleaseFits(job.at), NEW made \in Made
  PROVE  NewestFits(made.name)
<1> DEFINE s == releases[job.at]
<1>1. s \in Seq(Release) /\ Len(s) = 1 /\ s[1].uses = job.uses /\ s[1].config \in MadeFor(job.at)
  BY PassIs DEF TypeInv, ReleasesTyped, Pass, ReleaseFits, PassIsCurrent
<1>2. made.name = s[1].config
  BY <1>1, MadeIsMadeFor, OneMade DEF TypeInv
<1>3. DOMAIN s = {1}
  BY <1>1, LenProperties
<1>4. Fitting(made.name) = {1}
  BY <1>1, <1>2, <1>3 DEF Fitting
<1>5. First({1}) = 1
  BY FirstIs
<1> QED BY <1>4, <1>5 DEF NewestFits

LEMMA FirstRelease ==
  ASSUME releases[job.at] = << >>, NEW config
  PROVE  ~NewestFits(config) /\ OlderGone(config) = << >>
<1>1. Fitting(config) = {}
  BY DEF Fitting
<1> QED BY <1>1 DEF NewestFits, OlderGone

(* Steps that leave configs and an app target alone.                       *)
LEMMA MadeKept ==
  ASSUME configs' = configs, NEW at
  PROVE  /\ Merged("app", at[1], at[2])' = Merged("app", at[1], at[2])
         /\ Clashing(at)' <=> Clashing(at)
         /\ uses'[at] = uses[at] => MadeFor(at)' = MadeFor(at)
<1>1. ASSUME NEW type, NEW name, NEW target
      PROVE  Merged(type, name, target)' = Merged(type, name, target)
  BY DEF Merged, Find
<1>2. Merged("app", at[1], at[2])' = Merged("app", at[1], at[2])
  BY <1>1
<1>3. Clashing(at)' <=> Clashing(at)
  BY <1>2 DEF Clashing
<1>4. ASSUME uses'[at] = uses[at] PROVE MadeFor(at)' = MadeFor(at)
  <2>1. \A s : Merged("shared", s, at[2])' = Merged("shared", s, at[2])
    BY <1>1
  <2>2. [s \in uses'[at] |-> CHOOSE c \in Merged("shared", s, at[2])' : TRUE]
          = [s \in uses[at] |-> CHOOSE c \in Merged("shared", s, at[2]) : TRUE]
    BY <1>4, <2>1
  <2> QED BY <1>2, <1>4, <2>2 DEF MadeFor
<1> QED BY <1>2, <1>3, <1>4

LEMMA ReleaseKept ==
  ASSUME configs' = configs, NEW at, uses'[at] = uses[at], releases'[at] = releases[at],
         Clashing(at) \/ ReleaseFits(at)
  PROVE  Clashing(at)' \/ ReleaseFits(at)'
BY MadeKept DEF ReleaseFits

LEMMA PassKept ==
  ASSUME configs' = configs, job' = job, job.at \in DOMAIN uses', uses'[job.at] = uses[job.at],
         PassIsCurrent
  PROVE  PassIsCurrent'
<1>1. Merged("app", job.at[1], job.at[2])' = Merged("app", job.at[1], job.at[2])
  BY DEF Merged, Find
<1> QED BY <1>1 DEF PassIsCurrent

(* Importing a config that is there again leaves it as it is.              *)
LEMMA ImportedAgain ==
  ASSUME TypeInv, RestoreInv, pristine, OneFileEach, AllImported, NEW l \in Labels, ImportConfig(l)
  PROVE  configs' = configs
<1>1. l \in DOMAIN files.configs /\ Save(l, files.configs[l]) /\ Object(l) \in DOMAIN configs
  BY DEF TypeInv, TransferTyped, ImportConfig, LabelOfFile, AllImported
<1>2. configs' = With(configs, Object(l), [label |-> l, content |-> files.configs[l]])
  BY <1>1 DEF Save
<1>3. ConfigsTyped
  BY DEF TypeInv
<1>4. configs[Object(l)] \in Record /\ configs = [o \in DOMAIN configs |-> configs[o]]
  BY <1>1, <1>3, PartialIs DEF ConfigsTyped
<1>5. Object(l) = Object(configs[Object(l)].label) /\ configs[Object(l)].label \in DOMAIN files.configs
      /\ files.configs[configs[Object(l)].label] = configs[Object(l)].content
  BY <1>1, <1>3 DEF ConfigsTyped, RestoreInv, InFiles
<1>6. configs[Object(l)].label = l
  BY <1>1, <1>5 DEF OneFileEach
<1>7. configs[Object(l)] = [label |-> l, content |-> files.configs[l]]
  BY <1>4, <1>5, <1>6 DEF Record
<1> QED BY <1>1, <1>2, <1>4, <1>7 DEF With

(* What a pass does to the releases of its own app target.                 *)
LEMMA PassesKeepOne ==
  ASSUME TypeInv, OneReleaseInv, pristine, OneFileEach, MakeRelease \/ PassFails
  PROVE  OneReleaseInv'
<1>1. /\ job # NoPass /\ job \in Pass /\ PassIsCurrent
      /\ UNCHANGED <<configs, uses, files, pristine>> /\ job' = NoPass
  BY PassIs DEF TypeInv, OneReleaseInv, MakeRelease, PassFails, transfer
<1>2. PICK at \in AppTargets : /\ at = job.at /\ at \in DOMAIN uses /\ uses[at] = job.uses
                              /\ DOMAIN releases = AppTargets
  BY <1>1 DEF Pass, PassIsCurrent, TypeInv, ReleasesTyped
<1>3. ASSUME releases'[at] # << >> PROVE Clashing(at)' \/ ReleaseFits(at)'
  <2>1. CASE releases'[at] = releases[at]
    BY <1>1, <1>2, <1>3, <2>1, ReleaseKept DEF OneReleaseInv
  <2>2. CASE releases'[at] # releases[at]
    <3>1. PICK made \in Made :
            /\ ~NewestFits(made.name)
            /\ \/ releases'[at] = <<[uses |-> job.uses, config |-> made.name]>> \o OlderGone(made.name)
               \/ releases'[at] = OlderGone(made.name)
      BY <1>1, <1>2, <2>2 DEF MakeRelease, PassFails
    <3>2. made.name \in MadeFor(at)
      BY <1>1, <1>2, MadeIsMadeFor
    <3>3. CASE Clashing(at)
      BY <1>1, <3>3, MadeKept
    <3>4. CASE ~Clashing(at)
      <4>1. releases[at] = << >>
        BY <1>1, <1>2, <3>1, <3>4, NewestStays DEF OneReleaseInv
      <4>2. OlderGone(made.name) = << >>
        BY <1>2, <4>1, FirstRelease
      <4>3. releases'[at] = <<[uses |-> job.uses, config |-> made.name]>>
        BY <1>3, <3>1, <4>2
      <4>4. MadeFor(at)' = MadeFor(at)
        BY <1>1, MadeKept
      <4> QED BY <1>1, <1>2, <3>2, <4>3, <4>4 DEF ReleaseFits
    <3> QED BY <3>3, <3>4
  <2> QED BY <2>1, <2>2
<1>4. ASSUME NEW x \in AppTargets, x # at PROVE releases'[x] = releases[x]
  BY <1>2, <1>4 DEF MakeRelease, PassFails
<1>5. \A x \in AppTargets :
        releases'[x] # << >> => x \in DOMAIN uses' /\ (Clashing(x)' \/ ReleaseFits(x)')
  <2> SUFFICES ASSUME NEW x \in AppTargets, releases'[x] # << >>
               PROVE  x \in DOMAIN uses' /\ (Clashing(x)' \/ ReleaseFits(x)')
    OBVIOUS
  <2>1. CASE x = at
    BY <1>1, <1>2, <1>3, <2>1
  <2>2. CASE x # at
    <3>1. releases'[x] = releases[x] /\ uses'[x] = uses[x]
      BY <1>1, <1>4, <2>2
    <3>2. x \in DOMAIN uses /\ (Clashing(x) \/ ReleaseFits(x))
      BY <3>1 DEF OneReleaseInv
    <3> QED BY <1>1, <3>1, <3>2, ReleaseKept
  <2> QED BY <2>1, <2>2
<1>6. DOMAIN uses' # {} => AllImported'
  BY <1>1 DEF OneReleaseInv, AllImported
<1> QED BY <1>1, <1>5, <1>6 DEF OneReleaseInv

(* Steps that give no app target other configs or other releases.          *)
LEMMA OneReleaseFrame ==
  ASSUME TypeInv, OneReleaseInv, pristine, OneFileEach,
         UNCHANGED <<configs, releases, files>>,
         \A at \in DOMAIN uses : at \in DOMAIN uses' /\ uses'[at] = uses[at],
         DOMAIN uses' # {} => AllImported,
         job' \in {job, NoPass} \/ PassIsCurrent'
  PROVE  OneReleaseInv'
<1>1. ASSUME NEW at \in AppTargets, releases'[at] # << >>
      PROVE  at \in DOMAIN uses' /\ (Clashing(at)' \/ ReleaseFits(at)')
  <2>1. releases'[at] = releases[at]
    OBVIOUS
  <2>2. at \in DOMAIN uses /\ (Clashing(at) \/ ReleaseFits(at))
    BY <1>1, <2>1 DEF OneReleaseInv
  <2>3. at \in DOMAIN uses' /\ uses'[at] = uses[at]
    BY <2>2
  <2> QED BY <2>1, <2>2, <2>3, ReleaseKept
<1>2. job' # NoPass => PassIsCurrent'
  <2>1. ASSUME job' # NoPass, job' = job PROVE PassIsCurrent'
    <3>1. PassIsCurrent
      BY <2>1 DEF OneReleaseInv
    <3>2. job.at \in DOMAIN uses' /\ uses'[job.at] = uses[job.at]
      BY <3>1 DEF PassIsCurrent
    <3> QED BY <2>1, <3>1, <3>2, PassKept
  <2> QED BY <2>1
<1>3. DOMAIN uses' # {} => AllImported'
  BY DEF AllImported
<1> QED BY <1>1, <1>2, <1>3 DEF OneReleaseInv

LEMMA OneReleaseStep ==
  ASSUME TypeInv, RestoreInv, OneReleaseInv, Next
  PROVE  OneReleaseInv'
<1>1. CASE Rebuild
  <2>1. /\ uses' = << >> /\ job' = NoPass
        /\ releases' = [at \in AppTargets |-> << >>]
    BY <1>1 DEF Rebuild, Nothing
  <2>2. DOMAIN uses' = {} /\ \A at \in AppTargets : releases'[at] = << >>
    BY <2>1
  <2> QED BY <2>1, <2>2 DEF OneReleaseInv
<1>2. CASE ~pristine'
  BY <1>2 DEF OneReleaseInv
<1> SUFFICES ASSUME pristine', ~Rebuild, OneFileEach' PROVE OneReleaseInv'
  BY <1>1, <1>2 DEF OneReleaseInv
<1>3. pristine
  BY DEF Next, BeginPass, ReconcileRelease, Crash, MakeRelease, PassFails, Delete, Edit, EditUses, Edited,
     ImportConfig, ImportApp, Export, BeginImport, FinishImport, ImportFails
<1>4. files' = files
  BY <1>3, ExportKeepsFiles
     DEF Next, BeginPass, ReconcileRelease, Crash, MakeRelease, PassFails, Delete, Edit, EditUses,
         ImportConfig, ImportApp, BeginImport, FinishImport, ImportFails, transfer
<1>5. OneFileEach
  BY <1>4 DEF OneFileEach
<1>6. DOMAIN uses # {} => AllImported
  BY <1>3, <1>5 DEF OneReleaseInv
<1>7. CASE MakeRelease \/ PassFails
  BY <1>3, <1>5, <1>7, PassesKeepOne
<1>8. CASE Crash \/ Export \/ BeginImport \/ FinishImport \/ ImportFails
           \/ \E at \in AppTargets : ReconcileRelease(at)
  <2>1. UNCHANGED <<configs, uses, releases>> /\ job' \in {job, NoPass}
    BY <1>8 DEF Crash, Export, BeginImport, FinishImport, ImportFails, ReconcileRelease, cluster
  <2> QED BY <1>3, <1>4, <1>5, <1>6, <2>1, OneReleaseFrame
<1>9. ASSUME NEW at \in AppTargets, BeginPass(at) PROVE OneReleaseInv'
  <2>1. UNCHANGED <<configs, uses, releases>>
    BY <1>9 DEF BeginPass, cluster
  <2>2. job' = NoPass \/ PassIsCurrent'
    <3>1. \/ job' = NoPass
          \/ /\ at \in DOMAIN uses
             /\ job' = [at |-> at, uses |-> uses[at], app |-> Merged("app", at[1], at[2])]
      BY <1>9 DEF BeginPass
    <3>2. Merged("app", at[1], at[2])' = Merged("app", at[1], at[2])
      BY <2>1 DEF Merged, Find
    <3>3. ASSUME at \in DOMAIN uses,
                 job' = [at |-> at, uses |-> uses[at], app |-> Merged("app", at[1], at[2])]
          PROVE  PassIsCurrent'
      <4>1. job'.at = at /\ job'.uses = uses[at] /\ job'.app = Merged("app", at[1], at[2])
        BY <3>3
      <4>2. Merged("app", job.at[1], job.at[2])' = Merged("app", at[1], at[2])
        BY <2>1, <4>1 DEF Merged, Find
      <4> QED BY <2>1, <3>3, <4>1, <4>2 DEF PassIsCurrent
    <3> QED BY <3>1, <3>3
  <2> QED BY <1>3, <1>4, <1>5, <1>6, <2>1, <2>2, OneReleaseFrame
<1>10. ASSUME NEW l \in Labels, ImportConfig(l) PROVE OneReleaseInv'
  <2>1. UNCHANGED <<uses, releases, job>>
    BY <1>10 DEF ImportConfig
  <2>2. CASE AllImported
    <3>1. configs' = configs
      BY <1>3, <1>5, <1>10, <2>2, ImportedAgain
    <3> QED BY <1>3, <1>4, <1>5, <2>1, <2>2, <3>1, OneReleaseFrame
  <2>3. CASE ~AllImported
    <3>1. DOMAIN uses = {}
      BY <1>6, <2>3
    <3>2. job = NoPass /\ \A at \in AppTargets : releases[at] = << >>
      BY <1>3, <1>5, <3>1 DEF OneReleaseInv, PassIsCurrent
    <3> QED BY <2>1, <3>1, <3>2 DEF OneReleaseInv
  <2> QED BY <2>2, <2>3
<1>11. ASSUME NEW a \in AppNames, ImportApp(a) PROVE OneReleaseInv'
  <2>1. UNCHANGED <<configs, releases, job>> /\ import.pc = "running" /\ import.todo = {}
        /\ \E ats \in SUBSET DOMAIN files.apps : uses' = Over(uses, [at \in ats |-> files.apps[at]])
    BY <1>11 DEF ImportApp, AppsMayFollow
  <2>2. \A at \in DOMAIN uses : uses[at] = files.apps[at]
    BY <1>3 DEF RestoreInv
  <2>3. \A at \in DOMAIN uses : at \in DOMAIN uses' /\ uses'[at] = uses[at]
    BY <2>1, <2>2 DEF Over
  <2>4. AllImported
    BY <1>3, <2>1 DEF RestoreInv, AllImported
  <2> QED BY <1>3, <1>4, <1>5, <2>1, <2>3, <2>4, OneReleaseFrame
<1>12. \/ MakeRelease \/ PassFails \/ Crash \/ Export \/ BeginImport \/ FinishImport \/ ImportFails
       \/ \E at \in AppTargets : ReconcileRelease(at)
       \/ \E at \in AppTargets : BeginPass(at)
       \/ \E l \in Labels : ImportConfig(l)
       \/ \E a \in AppNames : ImportApp(a)
  BY DEF Next, Delete, Edit, EditUses, Edited
<1> QED BY <1>7, <1>8, <1>9, <1>10, <1>11, <1>12

(* Importing an export into a new cluster makes one release for each app   *)
(* target, also when the import or a pass fails and is run again, when     *)
(* passes overlap the import, and for any configs whose keys do not clash  *)
(* (cluster.go:469, ConfigMap names of CreateConfigMap, reconcileAppReleases). *)
THEOREM ImportsMakeOneRelease == Spec => []ImportMakesOneRelease
<1>1. TypeInv /\ RestoreInv /\ OneReleaseInv /\ [Next]_vars => OneReleaseInv'
  <2>1. ASSUME TypeInv, OneReleaseInv, UNCHANGED vars PROVE OneReleaseInv'
    <3>1. CASE pristine' /\ OneFileEach'
      <4>1. pristine /\ OneFileEach /\ UNCHANGED <<configs, uses, releases, files, job>>
        BY <2>1, <3>1 DEF vars, cluster, transfer, OneFileEach
      <4> QED BY <2>1, <4>1, OneReleaseFrame DEF OneReleaseInv
    <3>2. CASE ~(pristine' /\ OneFileEach')
      BY <3>2 DEF OneReleaseInv
    <3> QED BY <3>1, <3>2
  <2> QED BY <2>1, OneReleaseStep
<1>2. Init => OneReleaseInv
  BY DEF Init, OneReleaseInv
<1>3. TypeInv /\ OneReleaseInv => ImportMakesOneRelease
  <2>1. ASSUME OneReleaseInv, pristine, OneFileEach, NEW at \in AppTargets, ~Clashing(at)
        PROVE  Len(releases[at]) <= 1
    <3>1. CASE releases[at] = << >>
      BY <3>1
    <3>2. CASE releases[at] # << >>
      <4>1. Len(releases[at]) = 1
        BY <2>1, <3>2 DEF OneReleaseInv, ReleaseFits
      <4> QED BY <4>1
    <3> QED BY <3>1, <3>2
  <2> QED BY <2>1 DEF ImportMakesOneRelease, Clashing
<1> QED BY <1>1, <1>2, <1>3, RestoreInvariance, PTL DEF Spec
=============================================================================
