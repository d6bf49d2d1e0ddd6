----------------------------- MODULE MCConfigs -----------------------------
(***************************************************************************)
(* Instance of Configs for TLC: two apps with an app target each, of which  *)
(* web refers to web-production, whose base config has the name of web's    *)
(* config for production; two contents whose keys clash when they are       *)
(* merged, and a value that cannot be a variable.                           *)
(***************************************************************************)
EXTENDS Configs, TLC

Web == <<"web">>
WebProduction == <<"web", "production">>
Production == <<"production">>
TwoApps == {<<Web, Production>>, <<WebProduction, Production>>}
TwoTargets == {<<"staging">>, Production}

Dashed == [k \in {"log-level", "port", "tags"} |-> IF k = "tags" THEN "list" ELSE "1"]
Underscored == [k \in {"log_level"} |-> "2"]
TwoContents == {Dashed, Underscored}
OneAndTwo == {"1", "2"}

Variable ==
  [k \in {"port", "tags", "log-level", "log_level", "common"} |->
     CASE k = "port" -> "PORT" [] k = "tags" -> "TAGS" [] k = "common" -> "COMMON"
       [] OTHER -> "LOG_LEVEL"]
HostVariable ==
  [a \in {Web, WebProduction} |-> IF a = Web THEN "WEB_HOST" ELSE "WEB_PRODUCTION_HOST"]
WebRefersToOther ==
  [at \in AppTargets |-> IF at[1] = Web THEN {<<WebProduction, Production>>} ELSE {}]
OwnPort ==
  [at \in AppTargets |-> IF at[1] = Web THEN [e \in {"PORT"} |-> Value("2")] ELSE << >>]

Config(l, c) == Object(l) :> [label |-> l, content |-> c]
WebConfig ==
  {Config(<<"app", Web, Base>>, Dashed) @@ Config(<<"app", Web, Production>>, Dashed) @@
   Config(<<"shared", "common", Base>>, Dashed)}
ConfigsOfOneName ==
  {<<"app", Web, Production>>, <<"app", WebProduction, Base>>,
   <<"shared", "common", Base>>, <<"shared", "common", Production>>}
Using(S) == [at \in AppTargets |-> IF at[1] = Web THEN S ELSE {}]
UsesCommon == {Using({"common"})}
=============================================================================
