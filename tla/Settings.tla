------------------------------ MODULE Settings ------------------------------
(* The settings of web_workbench/app.py and agentic_core/config.py: API keys   *)
(* in .env and in the environment of the process, provider profiles in         *)
(* config/agentic-core.local.yml over the profiles of the example file.        *)
(* PUT /api/settings/env and POST /api/provider-settings read a file, cut it   *)
(* and write it again, in the threads of one process, while chats load the     *)
(* configuration; the process may die anywhere and start again from its shell. *)
(* The .env of load_dotenv() and the one that is written are one file; nothing *)
(* in it refers to another variable, and dotenv can parse all of it.           *)
EXTENDS WebThreads, Naturals

CONSTANTS
    EnvKeys,       \* names of environment variables
    Github,        \* the one PUT /api/settings/env writes
    Shell,         \* EnvKeys -> the value the server's shell exports, or None
    Profiles,      \* ids of provider profiles
    Templates,     \* PROVIDER_TEMPLATE_IDS, all of them in the example file
    Custom,        \* the template whose name is the user's
    Example,       \* template -> profile in the example file
    ExampleActive, \* the active profile of the example file
    Identity,      \* name -> [id, key], _custom_provider_identity
    Forms,         \* what users send
    Values,        \* what stands behind a key, None for a key that is not there
    Reads,         \* what is written behind a key |-> what dotenv makes of it
    EnvAtFirst,    \* the contents .env may have before the first save
    MaxSaves       \* bound: saves there are in all

\* The entries of profiles.
Texts == UNION {{f.url, f.model} : f \in Forms}
           \cup UNION {{Example[p].url, Example[p].model} : p \in Templates}
Entries == [template : Profiles \cup {None}, key : EnvKeys, url : Texts, model : Texts]

ASSUME SettingsAssumption ==
    /\ Github \in EnvKeys /\ None \notin EnvKeys \cup Profiles \cup Entries
    /\ Custom \in Templates /\ Templates \subseteq Profiles
    /\ ExampleActive \in Templates /\ Example \in [Templates -> Entries]
    /\ None \in Values /\ {f.key : f \in Forms} \subseteq Values
    /\ Shell \in [EnvKeys -> Values] /\ EnvAtFirst \subseteq [EnvKeys -> Values]
    /\ Reads \in [Values -> Values] /\ \A v \in Values : Reads[v] = None <=> v = None
    /\ \A n \in DOMAIN Identity : Identity[n].id \in Profiles /\ Identity[n].key \in EnvKeys
    /\ \A f \in Forms : /\ {f.config, f.provider} \subseteq Profiles \cup {None}
                        /\ f.name \in DOMAIN Identity \cup {None}
                        /\ f.token => f.key # None
    /\ MaxSaves \in Nat

VARIABLES
    envFile,   \* .env: key -> what is written behind it, or None
    environ,   \* os.environ
    local,     \* the local YAML: its active profile and its profiles
    step,      \* thread -> where its save is
    task,      \* thread -> its form, the target it decided, what it has read
    saves,     \* how many saves there were
    wanted,    \* what .env had, and what users were told is saved
    tangled    \* whether two saves overlapped, or one was cut off

settingsVars == <<envFile, environ, local, step, task, saves, wanted, tangled>>

NoEnv == [k \in EnvKeys |-> None]
NoLocal == [active |-> None, items |-> [p \in Profiles |-> None]]
NoTask == [form |-> None, target |-> None, lines |-> NoEnv, data |-> NoLocal]
Steps == {"idle", "decide", "readEnv", "cutEnv", "writeEnv", "export", "readLocal",
          "cutLocal", "writeLocal", "reload"}

SettingsInit ==
    /\ envFile \in EnvAtFirst /\ environ = Shell /\ local = NoLocal
    /\ step = [t \in Web |-> "idle"]
    /\ task = [t \in Web |-> NoTask]
    /\ saves = 0
    /\ wanted = [keys |-> envFile, fresh |-> FALSE, active |-> None,
                 items |-> [p \in Profiles |-> None]]
    /\ tangled = FALSE

-----------------------------------------------------------------------------
(* Pure helpers.                                                              *)

Or(x, default) == IF x # None THEN x ELSE default

\* The entries of over replace those of under.
Over(over, under) == [k \in DOMAIN under |-> Or(over[k], under[k])]

\* load_dotenv(): the environment goes before the file; load_dotenv(path,
\* override=True): the file goes before the environment.  A key with nothing
\* behind it, KEY=, is there.
Parsed(file) == [k \in EnvKeys |-> Reads[file[k]]]
Dotenv(file, env) == Over(env, Parsed(file))
DotenvOverride(file, env) == Over(Parsed(file), env)

\* load_agentic_config: the example file with the local file merged over it.
ExampleItems ==
    [p \in Profiles |-> IF p \in Templates THEN Example[p] ELSE None]
Config(data) ==
    [active |-> Or(data.active, ExampleActive), items |-> Over(data.items, ExampleItems)]

\* _provider_from_active_profile and the key it names.
Provider(config, env) ==
    LET profile == config.items[config.active] IN
    [url |-> profile.url, model |-> profile.model, key |-> env[profile.key]]

\* What a save refuses, and the profile it is about: [id, key, template, base].
Refused == [id |-> None]
TokenTarget == [id |-> None, key |-> Github]
TemplateOf(p, profile) ==
    Or(profile.template, IF p \in Templates THEN p ELSE Custom)

\* A named profile made from the custom template, or refused.
NamedCustom(f, items) ==
    LET id == Identity[f.name].id IN
    IF items[id] # None /\ id # Custom THEN Refused
    ELSE [id |-> id, key |-> Identity[f.name].key, template |-> Custom,
          base |-> items[Custom]]

ExistingTarget(f, items) ==
    LET profile == items[f.config]
        provider == Or(f.provider, TemplateOf(f.config, profile))
    IN
    IF provider = Custom /\ f.name # None THEN NamedCustom(f, items)
    ELSE [id |-> f.config, key |-> profile.key, template |-> provider, base |-> profile]

NewTarget(f, config) ==
    LET provider == Or(f.provider, config.active)
        profile == config.items[provider]
        id == Identity[f.name].id
    IN
    IF profile = None \/ (f.name = None /\ provider = Custom) THEN Refused
    ELSE IF f.name = None THEN
        [id |-> provider, key |-> profile.key, template |-> provider, base |-> profile]
    ELSE IF provider = Custom THEN NamedCustom(f, config.items)
    ELSE IF config.items[id] # None /\ id # provider THEN Refused
    ELSE [id |-> id, key |-> Identity[f.name].key, template |-> provider, base |-> profile]

Target(f, config) ==
    IF f.config = None THEN NewTarget(f, config)
    ELSE IF config.items[f.config] = None THEN Refused
    ELSE ExistingTarget(f, config.items)

\* The entry _write_local_profile makes; a field that is not sent is the base's.
Entry(f, target) ==
    [template |-> target.template, key |-> target.key,
     url |-> Or(f.url, target.base.url), model |-> Or(f.model, target.base.model)]

Updates(f, target) ==
    [k \in EnvKeys |-> IF k = target.key THEN f.key ELSE None]

-----------------------------------------------------------------------------
StepTo(t, s) == step' = [step EXCEPT ![t] = s]
Saving(t) == step[t] # "idle"
HasUpdates(t) == task[t].form.key # None

\* The request arrives; a form without key, url and model is refused at once.
Submit(t) ==
    /\ step[t] = "idle" /\ saves < MaxSaves
    /\ saves' = saves + 1
    /\ \E f \in Forms : task' = [task EXCEPT ![t] = [NoTask EXCEPT !.form = f]]
    /\ tangled' = (tangled \/ \E u \in Web : Saving(u))
    /\ StepTo(t, "decide")
    /\ UNCHANGED <<envFile, environ, local, wanted>>

\* save_provider_settings loads the configuration and decides; the GitHub token
\* needs no configuration.
Decide(t) ==
    LET f == task[t].form
        target == IF f.token THEN TokenTarget
                  ELSE Target(f, Config(local))
    IN
    /\ step[t] = "decide"
    /\ environ' = IF f.token THEN environ ELSE Dotenv(envFile, environ)
    /\ IF target = Refused
       THEN StepTo(t, "idle") /\ task' = [task EXCEPT ![t] = NoTask]
       ELSE /\ StepTo(t, IF HasUpdates(t) THEN "readEnv" ELSE "readLocal")
            /\ task' = [task EXCEPT ![t].target = target]
    /\ UNCHANGED <<envFile, local, saves, wanted, tangled>>

\* _write_env_updates: read all lines, open for writing, write them back.
ReadEnv(t) ==
    /\ step[t] = "readEnv"
    /\ task' = [task EXCEPT ![t].lines = envFile]
    /\ StepTo(t, "cutEnv")
    /\ UNCHANGED <<envFile, environ, local, saves, wanted, tangled>>

CutEnv(t) ==
    /\ step[t] = "cutEnv"
    /\ envFile' = NoEnv
    /\ StepTo(t, "writeEnv")
    /\ UNCHANGED <<environ, local, task, saves, wanted, tangled>>

\* A write of the updates alone.
WriteEnvOnlyUpdates(t) ==
    /\ step[t] = "writeEnv"
    /\ envFile' = Updates(task[t].form, task[t].target)
    /\ StepTo(t, "export")
    /\ UNCHANGED <<environ, local, task, saves, wanted, tangled>>

WriteEnv(t) ==
    /\ step[t] = "writeEnv"
    /\ envFile' = Over(Updates(task[t].form, task[t].target), task[t].lines)
    /\ StepTo(t, "export")
    /\ UNCHANGED <<environ, local, task, saves, wanted, tangled>>

\* What a user is told when the answer is "saved".
Promise(f, target) ==
    [keys |-> Over(Updates(f, target), wanted.keys),
     fresh |-> (wanted.fresh \/ f.key # None),
     active |-> IF f.token THEN wanted.active ELSE target.id,
     items |-> IF f.token THEN wanted.items
               ELSE [wanted.items EXCEPT ![target.id] = Entry(f, target)]]
Finish(t) ==
    /\ wanted' = Promise(task[t].form, task[t].target)
    /\ StepTo(t, "idle")
    /\ task' = [task EXCEPT ![t] = NoTask]

\* os.environ takes the updates, then the whole file.  A token is answered here.
Export(t) ==
    LET updates == Updates(task[t].form, task[t].target) IN
    /\ step[t] = "export"
    /\ environ' = DotenvOverride(envFile, Over(updates, environ))
    /\ IF task[t].form.token THEN Finish(t)
       ELSE StepTo(t, "readLocal") /\ UNCHANGED <<task, wanted>>
    /\ UNCHANGED <<envFile, local, saves, tangled>>

\* _write_local_profile: read, change, open for writing, write.
ReadLocal(t) ==
    /\ step[t] = "readLocal"
    /\ task' = [task EXCEPT ![t].data = local]
    /\ StepTo(t, "cutLocal")
    /\ UNCHANGED <<envFile, environ, local, saves, wanted, tangled>>

CutLocal(t) ==
    /\ step[t] = "cutLocal"
    /\ local' = NoLocal
    /\ StepTo(t, "writeLocal")
    /\ UNCHANGED <<envFile, environ, task, saves, wanted, tangled>>

\* A write that keeps no other profile.
WriteLocalAlone(t) ==
    LET target == task[t].target IN
    /\ step[t] = "writeLocal"
    /\ local' = [active |-> target.id,
                 items |-> [p \in {target.id} |-> Entry(task[t].form, target)]]
    /\ StepTo(t, "reload")
    /\ UNCHANGED <<envFile, environ, task, saves, wanted, tangled>>

WriteLocal(t) ==
    LET target == task[t].target IN
    /\ step[t] = "writeLocal"
    /\ local' = [active |-> target.id,
                 items |-> [task[t].data.items EXCEPT
                              ![target.id] = Entry(task[t].form, target)]]
    /\ StepTo(t, "reload")
    /\ UNCHANGED <<envFile, environ, task, saves, wanted, tangled>>

\* The answer shows the configuration loaded again.
Reload(t) ==
    /\ step[t] = "reload"
    /\ environ' = Dotenv(envFile, environ)
    /\ Finish(t)
    /\ UNCHANGED <<envFile, local, saves, tangled>>

\* A chat, or GET /api/agent/default-config, loads the configuration.
Load ==
    /\ environ' = Dotenv(envFile, environ)
    /\ UNCHANGED <<envFile, local, step, task, saves, wanted, tangled>>

\* The server dies and starts again: its environment is its shell's.
SettingsDie ==
    /\ environ' = Shell
    /\ step' = [t \in Web |-> "idle"]
    /\ task' = [t \in Web |-> NoTask]
    /\ tangled' = (tangled \/ \E t \in Web : Saving(t))
    /\ wanted' = [wanted EXCEPT !.fresh = FALSE]
    /\ UNCHANGED <<envFile, local, saves>>

SettingsStep(t) ==
    \/ Decide(t) \/ ReadEnv(t) \/ CutEnv(t) \/ WriteEnv(t) \/ Export(t)
    \/ ReadLocal(t) \/ CutLocal(t) \/ WriteLocal(t) \/ Reload(t)

-----------------------------------------------------------------------------
(* Properties                                                                 *)

EnvFiles == [EnvKeys -> Values]
Locals == [active : Profiles \cup {None}, items : [Profiles -> Entries \cup {None}]]
Targets == [id : Profiles, key : EnvKeys, template : Profiles, base : Entries]
Tasks == [form : Forms \cup {None}, target : Targets \cup {TokenTarget, None},
          lines : EnvFiles, data : Locals]

\* The settings and the saves have their types.
SettingsTypeOK ==
    /\ envFile \in EnvFiles /\ environ \in EnvFiles
    /\ local \in Locals
    /\ step \in [Web -> Steps]
    /\ task \in [Web -> Tasks]
    /\ saves \in 0..MaxSaves
    /\ wanted \in [keys : EnvFiles, fresh : BOOLEAN, active : Profiles \cup {None},
                   items : [Profiles -> Entries \cup {None}]]
    /\ tangled \in BOOLEAN

\* The value a key has: of the shell and of .env as it was and was saved, the
\* shell's, until the first key is saved after a start; from then on the line of
\* .env, one that is blank as well as one that was saved.
InForce(k) ==
    LET line == Reads[wanted.keys[k]]
    IN  IF wanted.fresh THEN Or(line, Shell[k]) ELSE Or(Shell[k], line)

\* When no save has overlapped another and none was cut off, then between the
\* saves a chat gets the provider that was saved last with all that was ever
\* saved about it; every key has the value in force, whichever was saved, and no
\* other profile is lost: whatever .env held at first, after any series of saves
\* and restarts (app.py:485-567, 1004-1164, config.py:95-132).
LastSaveHolds ==
    LET env == Dotenv(envFile, environ)
        profile == wanted.items[wanted.active]
    IN
    ~tangled /\ (\A t \in Web : ~Saving(t)) =>
        /\ wanted.active # None =>
             Provider(Config(local), env)
               = [url |-> profile.url, model |-> profile.model, key |-> InForce(profile.key)]
        /\ \A k \in EnvKeys : env[k] = InForce(k)
        /\ \A p \in Profiles : local.items[p] = wanted.items[p]

=============================================================================
