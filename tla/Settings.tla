------------------------------ MODULE Settings ------------------------------
(***************************************************************************)
(* How a process comes to its settings (main.go, internal/config): whether *)
(* the project it starts in is trusted, the layers of settings merged over *)
(* each other, and the instruction files put into the system prompt.       *)
(*                                                                         *)
(* A layer is a function of SettingKeys, Unset where it says nothing.  One *)
(* key stands for all that are merged alike: "model" for the texts,        *)
(* "servers" for the lists, "rewrite" for the switches, "gemini" and       *)
(* "groq" for the table of provider keys, "legacy" for the old key of the  *)
(* provider gemini.                                                        *)
(***************************************************************************)
EXTENDS Integers, Sequences, FiniteSets, SequencesExt

CONSTANTS
  UserFiles,     \* what ~/.baryo/config.yaml may hold
  ProjectFiles,  \* what .baryo/config.yaml may hold
  Environments,  \* what the BARYO_ variables may say
  CommandLines,  \* [kind, trust, yolo, terminal, set]
  MaxStarts,     \* processes started in the directory
  Unset, Junk,   \* no value; a text that is not a number
  Malformed      \* a file that is not YAML

\* A command line sets the texts and the parameters, and nothing else.
ASSUME SettingsAssumption ==
  /\ \A flags \in CommandLines :
       flags.trust \in BOOLEAN /\ flags.yolo \in BOOLEAN /\ DOMAIN flags.set \subseteq {"model", "tokens"}
  /\ \A file \in (UserFiles \cup ProjectFiles) \ {Unset, Malformed} : file.idle \in Int \cup {Unset, Junk}

VARIABLES
  project,   \* the project's config.yaml, Unset without one; one that says nothing
             \* stands for a project with skills only
  marker,    \* the directory is recorded under ~/.baryo/trusted
  consent,   \* the user has said yes to this directory (history)
  start,     \* the process being started
  starts
settingVars == <<project, marker, consent, start, starts>>

SettingKeys == {"model", "tokens", "rewrite", "servers", "idle", "days", "mode", "legacy", "gemini", "groq"}
Modes == {"auto", "confirm", "suggest"}   \* validPermissionModes
Default == [k \in SettingKeys |-> CASE k = "mode" -> "confirm" [] k = "days" -> 0 [] OTHER -> Unset]

\* loadFile: a value that is set replaces; days only when there are some.
FileSays(file, k) ==
  file \notin {Unset, Malformed} /\ file[k] /= Unset /\ (k = "days" => file[k] > 0)
LoadFile(cfg, file) == [k \in SettingKeys |-> IF FileSays(file, k) THEN file[k] ELSE cfg[k]]

\* applyEnv: numbers must parse, a switch is on for "yes" (and "true" and "1")
\* and off for any other text, the variable of the old key is also put into the
\* table, which for its provider has no other.
EnvKeys == SettingKeys \ {"servers", "idle", "gemini"}
EnvSays(env, k) == k \in EnvKeys /\ env[k] \notin {Unset, Junk}
EnvValue(env, k) == IF k = "rewrite" THEN env[k] = "yes" ELSE env[k]
ApplyEnv(cfg, env) ==
  [k \in SettingKeys |-> IF EnvSays(env, k) THEN EnvValue(env, k)
                  ELSE IF k = "gemini" /\ EnvSays(env, "legacy") THEN env.legacy
                  ELSE cfg[k]]

ValidMode(cfg) == [cfg EXCEPT !.mode = IF @ \in Modes THEN @ ELSE "confirm"]
BuildProviderKeys_LegacyWins(cfg) == [cfg EXCEPT !.gemini = IF cfg.legacy = Unset THEN @ ELSE cfg.legacy]

BuildProviderKeys(cfg) == [cfg EXCEPT !.gemini = IF @ = Unset THEN cfg.legacy ELSE @]
Load(trusted, user, env) ==
  LET files == LoadFile(Default, user)
  IN BuildProviderKeys(ValidMode(ApplyEnv(IF trusted THEN LoadFile(files, project) ELSE files, env)))
ApplyCLI(cfg, flags) ==
  [k \in SettingKeys |-> IF k \in DOMAIN flags.set THEN flags.set[k]
                  ELSE IF k = "mode" /\ flags.yolo THEN "auto" ELSE cfg[k]]

\* StreamIdleTimeoutDuration (minutes) and RewriteEnabled.
IdleTimeout(cfg) == IF cfg.idle \in {Unset, Junk} THEN 5 ELSE IF cfg.idle <= 0 THEN 5 ELSE cfg.idle
RewriteEnabled(cfg) == cfg.rewrite = Unset \/ cfg.rewrite = TRUE

----------------------------------------------------------------------------
Stopped == [at |-> "stopped"]
SettingsInit ==
  /\ project \in ProjectFiles /\ marker = FALSE /\ consent = FALSE
  /\ start = Stopped /\ starts = 0

\* resolveProjectTrust; the commands that only report never ask.
StartProcess ==
  /\ start.at \in {"stopped", "running"} /\ starts < MaxStarts
  /\ \E flags \in CommandLines, user \in UserFiles, env \in Environments :
       LET known == flags.trust \/ marker
           asks == ~known /\ project /= Unset /\ flags.kind = "chat" /\ flags.terminal
       IN start' = [at |-> IF asks THEN "asking" ELSE "loading", trusted |-> known,
                    flags |-> flags, user |-> user, env |-> env]
  /\ starts' = starts + 1
  /\ UNCHANGED <<project, marker, consent>>

\* promptProjectTrust: a yes holds although it may not be remembered.
PromptProjectTrust ==
  /\ start.at = "asking"
  /\ \/ /\ start' = [start EXCEPT !.at = "loading", !.trusted = TRUE]
        /\ marker' \in {marker, TRUE}
        /\ consent' = TRUE
     \/ /\ start' = [start EXCEPT !.at = "loading"]
        /\ UNCHANGED <<marker, consent>>
  /\ UNCHANGED <<project, starts>>

\* Load, ApplyCLI and LoadProjectInstructions: of each source of instructions
\* how it is put into the system prompt; the skill index is part of it.
LoadProjectInstructions(trusted, allowProjectFiles) ==
  [user |-> "plain",
   project |-> IF ~allowProjectFiles THEN "absent" ELSE IF trusted THEN "plain" ELSE "labelled",
   skills |-> IF trusted THEN "plain" ELSE "absent"]
Configure ==
  /\ start.at = "loading"
  /\ LET cfg == ApplyCLI(Load(start.trusted, start.user, start.env), start.flags)
     IN start' = [at |-> "running", trusted |-> start.trusted, flags |-> start.flags,
                  user |-> start.user, env |-> start.env, file |-> project, cfg |-> cfg,
                  idle |-> IdleTimeout(cfg), rewrite |-> RewriteEnabled(cfg),
                  prompt |-> LoadProjectInstructions(start.trusted, start.trusted \/ cfg.mode /= "auto")]
  /\ UNCHANGED <<project, marker, consent, starts>>

\* The project changes under the directory: a pull, another branch.
Pull ==
  /\ project' \in ProjectFiles \ {project} /\ start.at /= "running"
  /\ UNCHANGED <<marker, consent, start, starts>>

SettingsNext == StartProcess \/ PromptProjectTrust \/ Configure \/ Pull

----------------------------------------------------------------------------
Running == start.at = "running"

\* Nobody is trusted but by the flag or by an answer, and both count.
ConsentFirst ==
  Running => (start.flags.trust => start.trusted) /\ (start.trusted => start.flags.trust \/ consent)

\* What each layer says of a key, the lowest first; a project speaks only in a
\* directory that is trusted.
Says(k) ==
  LET lines == IF k \in DOMAIN start.flags.set THEN <<start.flags.set[k]>> ELSE <<>>
      env == IF EnvSays(start.env, k) THEN <<EnvValue(start.env, k)>> ELSE <<>>
      file(f) == IF FileSays(f, k) THEN <<f[k]>> ELSE <<>>
  IN <<Default[k]>> \o file(start.user) \o (IF start.trusted THEN file(start.file) ELSE <<>>) \o env \o lines

\* Every setting is the one of the highest layer that has it.  The exceptions:
\* a mode nobody knows is not the next layer's but "confirm", --yolo is above
\* the modes, and the old key of a provider is below the table of keys,
\* whichever layers they come from, except in the environment.
LayersHold ==
  Running => \A k \in SettingKeys \ {"gemini"} :
    start.cfg[k] = IF k = "mode"
                   THEN (IF start.flags.yolo THEN "auto"
                         ELSE IF Last(Says("mode")) \in Modes THEN Last(Says("mode")) ELSE "confirm")
                   ELSE Last(Says(k))
KeyHolds ==
  Running => start.cfg.gemini =
    IF EnvSays(start.env, "legacy") THEN start.env.legacy
    ELSE IF Last(Says("gemini")) /= Unset THEN Last(Says("gemini")) ELSE Last(Says("legacy"))

\* A project the user never trusted adds no skills, and its instructions are
\* labelled as its own or, with nobody to approve the calls, left out.
PromptHolds ==
  Running /\ ~start.trusted =>
    /\ start.prompt.skills = "absent"
    /\ start.prompt.project = IF start.cfg.mode = "auto" THEN "absent" ELSE "labelled"

\* Nobody's file makes every stream stall at once.
StreamsMayIdle == Running => start.idle > 0

\* Over any starts in a directory, whatever its files become in between, a
\* process runs with the settings of the highest layers, the project's counting
\* from the user's consent on and never before (config.go Load, main.go 105-145).
SettingsHold == ConsentFirst /\ LayersHold /\ KeyHolds /\ PromptHolds /\ StreamsMayIdle
=============================================================================
