------------------------------ MODULE Settings ------------------------------
(***************************************************************************)
(* What an app's manifest says for each of its targets.                    *)
(*                                                                         *)
(* An app has settings of its own, and for each of its targets settings    *)
(* that go over them.  Scale values are numbers of which 0 is "not set";   *)
(* environment variables and resources are functions from the names that   *)
(* are set; images, values and hosts are abstract.                         *)
(***************************************************************************)
EXTENDS Integers, Maps

CONSTANTS
  AppNames,
  Targets,   \* names of targets
  Tags,      \* image tags; an app's image and registry never change
  Values     \* values of environment variables and of resources

Modes == {"", "latest", "halt"}
ScaleSpec == [min : Nat, max : Nat]
Variables == {"env", "cpu"}
Settable == UNION {[S -> Values] : S \in SUBSET Variables}

TargetConfig == [mode : Modes, ingress : BOOLEAN, settings : Settable, scale : ScaleSpec]
IsAppSpec(app) ==
  /\ app \in [tag : Tags, settings : Settable, scale : ScaleSpec, targets : {app.targets}]
  /\ IsPartial(app.targets, Targets, TargetConfig)

SettingsForTarget(app, t) ==
  IF t \in DOMAIN app.targets THEN Over(app.settings, app.targets[t].settings) ELSE app.settings

(* min and max are laid over one by one; then an unset min is 1 and an     *)
(* unset max is min.  A max below min is not corrected here.               *)
ScaleSpecForTarget(app, t) ==
  LET given(f) == IF t \in DOMAIN app.targets /\ app.targets[t].scale[f] # 0
                  THEN app.targets[t].scale[f] ELSE app.scale[f]
      least == IF given("min") = 0 THEN 1 ELSE given("min")
  IN  [min |-> least, max |-> IF given("max") = 0 THEN least ELSE given("max")]

(* Mutant: the default is left out.                                        *)
ModeAsGiven(app, t) == IF t \in DOMAIN app.targets THEN app.targets[t].mode ELSE ""

DeployModeForTarget(app, t) ==
  IF t \in DOMAIN app.targets /\ app.targets[t].mode # "" THEN app.targets[t].mode ELSE "latest"

-----------------------------------------------------------------------------
(* The app target made of an app.                                          *)

AppTargetSpec ==
  [app : AppNames, target : Targets, build : Tags, mode : Modes \ {""}, ingress : BOOLEAN,
   settings : Settable, scale : [min : Nat \ {0}, max : Nat \ {0}]]

newAppTargetForApp(a, app, t) ==
  [app      |-> a,
   target   |-> t,
   build    |-> app.tag,
   mode     |-> DeployModeForTarget(app, t),
   ingress  |-> t \in DOMAIN app.targets /\ app.targets[t].ingress,
   settings |-> SettingsForTarget(app, t),
   scale    |-> ScaleSpecForTarget(app, t)]

(* Mutant: the deploy mode is hashed too.                                  *)
HashWithMode(at) == [at EXCEPT !.ingress = FALSE, !.scale = [min |-> 0, max |-> 0]]

HashSpec ==
  [app : AppNames, target : Targets, build : Tags, mode : {"latest"}, ingress : {FALSE},
   settings : Settable, scale : {[min |-> 0, max |-> 0]}]

(* The hash of an app target, from which releases get their names: of the  *)
(* whole spec with the deploy mode, the ingress and the scale blanked.     *)
HashOf(at) ==
  [at EXCEPT !.mode = "latest", !.ingress = FALSE, !.scale = [min |-> 0, max |-> 0]]
=============================================================================
