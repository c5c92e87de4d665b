-------------------------- MODULE Settings_proofs --------------------------
(***************************************************************************)
(* Proofs about Settings, as a part of Server: for any keys, profiles,     *)
(* templates and forms, and any number of threads and saves.               *)
(***************************************************************************)
EXTENDS Database_proofs

\* What a step of the server is for the settings.
SettingsNext ==
    \/ \E t \in Web : Submit(t) \/ SettingsStep(t)
    \/ Load \/ SettingsDie
    \/ UNCHANGED settingsVars

LEMMA StepOfSettings ==
    ASSUME [Next]_vars
    PROVE  SettingsNext
  <1>1. CASE UNCHANGED vars
    BY <1>1 DEF vars, SettingsNext
  <1>2. ASSUME NEW t \in Threads, TakeRequest(t) \/ Serve(t)
        PROVE  SettingsNext
    BY <1>2 DEF TakeRequest, Serve, SettingsNext
  <1>3. ASSUME NEW t \in Web, TakeSave(t)
        PROVE  SettingsNext
    BY <1>3 DEF TakeSave, SettingsNext
  <1>4. CASE LoadConfig \/ ServerDies \/ OtherDies
    BY <1>4 DEF LoadConfig, ServerDies, OtherDies, SettingsNext
  <1> QED
    BY <1>1, <1>2, <1>3, <1>4 DEF Next

-----------------------------------------------------------------------------
(* The helpers' types.                                                        *)

LEMMA OverTyped ==
    ASSUME NEW f \in EnvFiles, NEW g \in EnvFiles
    PROVE  /\ Over(f, g) \in EnvFiles
           /\ \A k \in EnvKeys : Over(f, g)[k] = IF f[k] # None THEN f[k] ELSE g[k]
  BY DEF Over, Or, EnvFiles

LEMMA NothingTyped ==
    /\ None \in Values /\ NoEnv \in EnvFiles /\ Shell \in EnvFiles
    /\ NoLocal \in Locals /\ NoTask \in Tasks /\ Github \in EnvKeys
  <1>1. None \in Values
    BY SettingsAssumption
  <1>2. NoEnv \in EnvFiles /\ Shell \in EnvFiles
    BY <1>1, SettingsAssumption DEF NoEnv, EnvFiles
  <1>3. NoLocal \in Locals
    BY DEF NoLocal, Locals
  <1> HIDE DEF EnvFiles, Locals, NoEnv, NoLocal
  <1>4. NoTask \in Tasks
    BY <1>2, <1>3 DEF NoTask, Tasks
  <1> QED
    BY <1>1, <1>2, <1>3, <1>4, SettingsAssumption

\* What dotenv makes of a file.
LEMMA ParsedTyped ==
    ASSUME NEW f \in EnvFiles
    PROVE  /\ Parsed(f) \in EnvFiles
           /\ \A k \in EnvKeys : /\ Parsed(f)[k] = Reads[f[k]]
                                 /\ Reads[f[k]] = None <=> f[k] = None
  BY SettingsAssumption DEF Parsed, EnvFiles

\* The key a form sends is a value of the environment.
LEMMA UpdatesTyped ==
    ASSUME NEW f \in Forms, NEW target
    PROVE  /\ Updates(f, target) \in EnvFiles
           /\ \A k \in EnvKeys : Updates(f, target)[k] =
                IF k = target.key THEN f.key ELSE None
  <1>1. f.key \in Values /\ None \in Values
    BY SettingsAssumption
  <1> QED
    BY <1>1 DEF Updates, EnvFiles

\* A loaded configuration has an active profile, and an entry of each template.
LEMMA ConfigTyped ==
    ASSUME NEW data \in Locals
    PROVE  /\ Config(data).active \in Profiles
           /\ Config(data).items \in [Profiles -> Entries \cup {None}]
           /\ Config(data).items[Custom] \in Entries
           /\ \A p \in Profiles : data.items[p] # None =>
                Config(data).items[p] = data.items[p]
           /\ data.active # None => Config(data).active = data.active
  <1>1. ExampleItems \in [Profiles -> Entries \cup {None}]
    BY SettingsAssumption DEF ExampleItems
  <1>2. ExampleItems[Custom] \in Entries
    BY SettingsAssumption DEF ExampleItems
  <1>3. /\ data.active \in Profiles \cup {None}
        /\ data.items \in [Profiles -> Entries \cup {None}]
    BY DEF Locals
  <1>4. /\ Config(data).active = Or(data.active, ExampleActive)
        /\ Config(data).items = Over(data.items, ExampleItems)
    BY DEF Config
  <1>5. ExampleActive \in Profiles /\ Custom \in Profiles /\ None \notin Entries
    BY SettingsAssumption
  <1> HIDE DEF ExampleItems, Entries
  <1>6. DOMAIN ExampleItems = Profiles
    BY <1>1
  <1>7. Over(data.items, ExampleItems) =
          [k \in Profiles |-> IF data.items[k] # None THEN data.items[k] ELSE ExampleItems[k]]
    BY <1>6 DEF Over, Or
  <1>8. \A k \in Profiles : /\ data.items[k] \in Entries \cup {None}
                            /\ ExampleItems[k] \in Entries \cup {None}
    BY <1>1, <1>3
  <1>9. Config(data).items \in [Profiles -> Entries \cup {None}]
    BY <1>4, <1>7, <1>8
  <1>10. Config(data).items[Custom] \in Entries
    BY <1>2, <1>4, <1>5, <1>7, <1>8
  <1>11. \A p \in Profiles : data.items[p] # None => Config(data).items[p] = data.items[p]
    BY <1>4, <1>7
  <1>12. /\ Config(data).active \in Profiles
         /\ data.active # None => Config(data).active = data.active
    BY <1>3, <1>4, <1>5 DEF Or
  <1> QED
    BY <1>9, <1>10, <1>11, <1>12

\* What a save is about.
LEMMA NamedCustomTyped ==
    ASSUME NEW f \in Forms, f.name # None,
           NEW items \in [Profiles -> Entries \cup {None}], items[Custom] \in Entries
    PROVE  NamedCustom(f, items) \in Targets \cup {Refused}
  <1>1. /\ Identity[f.name].id \in Profiles /\ Identity[f.name].key \in EnvKeys
        /\ Custom \in Profiles
    BY SettingsAssumption
  <1> HIDE DEF Entries
  <1> QED
    BY <1>1 DEF NamedCustom, Targets

LEMMA TargetTyped ==
    ASSUME NEW f \in Forms, NEW data \in Locals, Target(f, Config(data)) # Refused
    PROVE  Target(f, Config(data)) \in Targets
  <1> DEFINE config == Config(data)
             items == config.items
  <1>1. /\ config.active \in Profiles
        /\ items \in [Profiles -> Entries \cup {None}]
        /\ items[Custom] \in Entries
    BY ConfigTyped
  <1>2. \A e \in Entries : e.template \in Profiles \cup {None} /\ e.key \in EnvKeys
    BY DEF Entries
  <1>3. /\ f.config \in Profiles \cup {None} /\ f.provider \in Profiles \cup {None}
        /\ f.name \in DOMAIN Identity \cup {None} /\ Custom \in Profiles
        /\ \A n \in DOMAIN Identity : Identity[n].id \in Profiles /\ Identity[n].key \in EnvKeys
    BY SettingsAssumption
  <1> HIDE DEF items, config, Entries
  <1>4. f.name # None => NamedCustom(f, items) \in Targets \cup {Refused}
    BY <1>1, NamedCustomTyped
  <1>5. CASE f.config # None
    <2>1. /\ Target(f, config) = ExistingTarget(f, items)
          /\ items[f.config] # None
      BY <1>5 DEF Target, config, items
    <2>2. /\ f.config \in Profiles
          /\ items[f.config] \in Entries
      BY <1>1, <1>3, <1>5, <2>1
    <2> DEFINE provider == Or(f.provider, TemplateOf(f.config, items[f.config]))
    <2>3. provider \in Profiles
      BY <1>2, <1>3, <2>2 DEF Or, TemplateOf
    <2>4. ExistingTarget(f, items) =
            IF provider = Custom /\ f.name # None THEN NamedCustom(f, items)
            ELSE [id |-> f.config, key |-> items[f.config].key, template |-> provider,
                  base |-> items[f.config]]
      BY DEF ExistingTarget
    <2> HIDE DEF provider
    <2>5. [id |-> f.config, key |-> items[f.config].key, template |-> provider,
           base |-> items[f.config]] \in Targets
      BY <1>2, <2>2, <2>3 DEF Targets
    <2> QED
      BY <1>4, <2>1, <2>4, <2>5 DEF config
  <1>6. CASE f.config = None
    <2> DEFINE provider == Or(f.provider, config.active)
               profile == items[provider]
               id == Identity[f.name].id
    <2>1. Target(f, config) = NewTarget(f, config)
      BY <1>6 DEF Target
    <2>2. provider \in Profiles
      BY <1>1, <1>3 DEF Or
    <2>3. NewTarget(f, config) =
            IF profile = None \/ (f.name = None /\ provider = Custom) THEN Refused
            ELSE IF f.name = None THEN
                [id |-> provider, key |-> profile.key, template |-> provider, base |-> profile]
            ELSE IF provider = Custom THEN NamedCustom(f, items)
            ELSE IF items[id] # None /\ id # provider THEN Refused
            ELSE [id |-> id, key |-> Identity[f.name].key, template |-> provider,
                  base |-> profile]
      BY DEF NewTarget, items
    <2> HIDE DEF provider
    <2>4. profile # None => profile \in Entries /\ profile.key \in EnvKeys
      BY <1>1, <1>2, <2>2
    <2>5. profile # None =>
            /\ [id |-> provider, key |-> profile.key, template |-> provider,
                base |-> profile] \in Targets
            /\ f.name # None =>
                 [id |-> id, key |-> Identity[f.name].key, template |-> provider,
                  base |-> profile] \in Targets
      BY <1>3, <2>2, <2>4 DEF Targets
    <2> HIDE DEF profile, id
    <2> QED
      BY <1>4, <2>1, <2>3, <2>5 DEF config
  <1> QED
    BY <1>5, <1>6

\* The entry it makes.
LEMMA EntryTyped ==
    ASSUME NEW f \in Forms, NEW target \in Targets
    PROVE  Entry(f, target) \in Entries /\ Entry(f, target) # None
  <1>1. f.url \in Texts /\ f.model \in Texts
    <2>1. {f.url, f.model} \in {{g.url, g.model} : g \in Forms}
      OBVIOUS
    <2> QED
      BY <2>1 DEF Texts
  <1>2. target.base.url \in Texts /\ target.base.model \in Texts
    BY DEF Targets, Entries
  <1>3. target.template \in Profiles \cup {None} /\ target.key \in EnvKeys
    BY DEF Targets
  <1> HIDE DEF Texts
  <1>4. Entry(f, target) \in Entries
    BY <1>1, <1>2, <1>3 DEF Entry, Entries, Or
  <1> QED
    BY <1>4, SettingsAssumption

-----------------------------------------------------------------------------
(* Types, and what a save knows at each of its steps.                         *)

LocalSteps == {"readLocal", "cutLocal", "writeLocal", "reload"}

\* A save has its form, and once it has decided the target it is about.
TaskOK(t) ==
    /\ Saving(t) => task[t].form \in Forms
    /\ step[t] \in {"readEnv", "cutEnv", "writeEnv", "export"} =>
         /\ task[t].form.key # None
         /\ task[t].target = TokenTarget \/ task[t].target \in Targets
         /\ ~task[t].form.token => task[t].target \in Targets
    /\ step[t] \in LocalSteps => task[t].target \in Targets /\ ~task[t].form.token

Typed == SettingsTypeOK /\ \A t \in Web : TaskOK(t)

LEMMA TypedInit == SettingsInit => Typed
  <1> SUFFICES ASSUME SettingsInit PROVE Typed
    OBVIOUS
  <1>1. /\ envFile \in EnvFiles /\ Shell \in EnvFiles /\ NoLocal \in Locals /\ NoTask \in Tasks
    BY NothingTyped, SettingsAssumption DEF SettingsInit, EnvFiles
  <1>2. NoLocal.items \in [Profiles -> Entries \cup {None}]
    BY <1>1 DEF Locals
  <1>3. MaxSaves \in Nat
    BY SettingsAssumption
  <1> HIDE DEF EnvFiles, Locals, Tasks, NoTask, Entries, NoEnv
  <1>4. wanted \in [keys : EnvFiles, fresh : BOOLEAN, active : Profiles \cup {None},
                    items : [Profiles -> Entries \cup {None}]]
    BY <1>1, <1>2 DEF SettingsInit, NoLocal
  <1>5. SettingsTypeOK
    <2>1. saves \in 0..MaxSaves
      BY <1>3 DEF SettingsInit
    <2>2. step \in [Web -> Steps]
      BY DEF SettingsInit, Steps
    <2>3. task \in [Web -> Tasks]
      BY <1>1 DEF SettingsInit
    <2> QED
      BY <1>1, <1>4, <2>1, <2>2, <2>3 DEF SettingsInit, SettingsTypeOK
  <1>6. \A t \in Web : TaskOK(t)
    BY DEF SettingsInit, TaskOK, Saving, LocalSteps
  <1> QED
    BY <1>5, <1>6 DEF Typed

LEMMA PromiseTyped ==
    ASSUME SettingsTypeOK, NEW f \in Forms, NEW target, target.key \in EnvKeys,
           ~f.token => target \in Targets
    PROVE  Promise(f, target) \in
             [keys : EnvFiles, fresh : BOOLEAN, active : Profiles \cup {None},
              items : [Profiles -> Entries \cup {None}]]
  <1>1. /\ wanted.keys \in EnvFiles /\ wanted.fresh \in BOOLEAN
        /\ wanted.active \in Profiles \cup {None}
        /\ wanted.items \in [Profiles -> Entries \cup {None}]
    BY DEF SettingsTypeOK
  <1>2. Over(Updates(f, target), wanted.keys) \in EnvFiles
    BY <1>1, UpdatesTyped, OverTyped
  <1>3. ~f.token => target.id \in Profiles /\ Entry(f, target) \in Entries
    BY EntryTyped DEF Targets
  <1> HIDE DEF EnvFiles, Entries, Entry, Targets
  <1>4. (IF f.token THEN wanted.items
         ELSE [wanted.items EXCEPT ![target.id] = Entry(f, target)])
           \in [Profiles -> Entries \cup {None}]
    BY <1>1, <1>3
  <1>5. (IF f.token THEN wanted.active ELSE target.id) \in Profiles \cup {None}
    BY <1>1, <1>3
  <1> QED
    BY <1>1, <1>2, <1>4, <1>5 DEF Promise

\* The key a save is about.
LEMMA TargetKey ==
    ASSUME NEW target, target = TokenTarget \/ target \in Targets
    PROVE  target.key \in EnvKeys
  BY NothingTyped DEF TokenTarget, Targets

\* A save's step leaves the other threads where they are.
LEMMA Moves ==
    ASSUME Typed, NEW t \in Web, NEW s \in Steps, NEW x \in Tasks,
           step' = [step EXCEPT ![t] = s], task' = [task EXCEPT ![t] = x]
    PROVE  /\ step' \in [Web -> Steps] /\ task' \in [Web -> Tasks]
           /\ step'[t] = s /\ task'[t] = x
           /\ \A u \in Web \ {t} : /\ step'[u] = step[u] /\ task'[u] = task[u]
                                  /\ TaskOK(u)'
  <1>1. step \in [Web -> Steps] /\ task \in [Web -> Tasks]
    BY DEF Typed, SettingsTypeOK
  <1> HIDE DEF Tasks, Steps
  <1>2. /\ step' \in [Web -> Steps] /\ task' \in [Web -> Tasks]
        /\ step'[t] = s /\ task'[t] = x
        /\ \A u \in Web \ {t} : step'[u] = step[u] /\ task'[u] = task[u]
    BY <1>1
  <1>3. \A u \in Web \ {t} : TaskOK(u)'
    BY <1>2 DEF Typed, TaskOK, Saving
  <1> QED
    BY <1>2, <1>3

\* A task with one thing more in it.
LEMMA TaskTyped ==
    ASSUME NEW x \in Tasks
    PROVE  /\ \A f \in Forms : [NoTask EXCEPT !.form = f] \in Tasks
                              /\ [NoTask EXCEPT !.form = f].form = f
           /\ \A y \in Targets \cup {TokenTarget} :
                /\ [x EXCEPT !.target = y] \in Tasks
                /\ [x EXCEPT !.target = y].target = y
                /\ [x EXCEPT !.target = y].form = x.form
           /\ \A y \in EnvFiles :
                /\ [x EXCEPT !.lines = y] \in Tasks
                /\ [x EXCEPT !.lines = y].lines = y
                /\ [x EXCEPT !.lines = y].form = x.form
                /\ [x EXCEPT !.lines = y].target = x.target
           /\ \A y \in Locals :
                /\ [x EXCEPT !.data = y] \in Tasks
                /\ [x EXCEPT !.data = y].data = y
                /\ [x EXCEPT !.data = y].form = x.form
                /\ [x EXCEPT !.data = y].target = x.target
  <1>1. NoTask \in Tasks
    BY NothingTyped
  <1> HIDE DEF EnvFiles, Locals, Targets, NoTask, TokenTarget
  <1> QED
    BY <1>1 DEF Tasks

\* A step that only changes the environment, and which learns the file.
LEMMA DotenvTyped ==
    ASSUME SettingsTypeOK
    PROVE  /\ Dotenv(envFile, environ) \in EnvFiles
           /\ \A k \in EnvKeys : Dotenv(envFile, environ)[k] =
                IF environ[k] # None THEN environ[k] ELSE Reads[envFile[k]]
  BY ParsedTyped, OverTyped DEF SettingsTypeOK, Dotenv

LEMMA DecideTyped ==
    ASSUME Typed, NEW t \in Web, Decide(t)
    PROVE  \/ /\ step' = [step EXCEPT ![t] = "idle"]
              /\ task' = [task EXCEPT ![t] = NoTask]
           \/ \E y \in Targets \cup {TokenTarget} :
                LET f == task[t].form IN
                /\ step' = [step EXCEPT ![t] = IF f.key # None THEN "readEnv" ELSE "readLocal"]
                /\ task' = [task EXCEPT ![t] = [task[t] EXCEPT !.target = y]]
                /\ ~f.token => y \in Targets
                /\ f.token => y = TokenTarget
  <1> DEFINE f == task[t].form
             target == IF f.token THEN TokenTarget ELSE Target(f, Config(local))
  <1>1. f \in Forms
    BY DEF Decide, Typed, TaskOK, Saving
  <1>2. local \in Locals /\ task \in [Web -> Tasks]
    BY DEF Typed, SettingsTypeOK
  <1>3. target # Refused => /\ target \in Targets \cup {TokenTarget}
                            /\ ~f.token => target \in Targets
                            /\ f.token => target = TokenTarget
    BY <1>1, <1>2, TargetTyped
  <1>4. IF target = Refused
        THEN /\ step' = [step EXCEPT ![t] = "idle"]
             /\ task' = [task EXCEPT ![t] = NoTask]
        ELSE /\ step' = [step EXCEPT ![t] = IF f.key # None THEN "readEnv" ELSE "readLocal"]
             /\ task' = [task EXCEPT ![t].target = target]
    BY DEF Decide, StepTo, HasUpdates
  <1> HIDE DEF target
  <1>5. task' = [task EXCEPT ![t].target = target] =>
          task' = [task EXCEPT ![t] = [task[t] EXCEPT !.target = target]]
    BY <1>2
  <1> QED
    BY <1>3, <1>4, <1>5

\* The form and the target of a thread at its step.
LEMMA TaskIs ==
    ASSUME Typed, NEW t \in Web, Saving(t)
    PROVE  /\ task[t] \in Tasks /\ task[t].form \in Forms
           /\ step[t] # "decide" =>
                /\ task[t].target \in Targets \cup {TokenTarget}
                /\ task[t].target.key \in EnvKeys
                /\ ~task[t].form.token => task[t].target \in Targets
           /\ Updates(task[t].form, task[t].target) \in EnvFiles
           /\ task[t].lines \in EnvFiles /\ task[t].data \in Locals
  <1>1. task[t] \in Tasks /\ step[t] \in Steps
    BY DEF Typed, SettingsTypeOK
  <1>2. TaskOK(t)
    BY DEF Typed
  <1>3. task[t].lines \in EnvFiles /\ task[t].data \in Locals
    <2> HIDE DEF EnvFiles, Locals
    <2> QED
      BY <1>1 DEF Tasks
  <1>4. task[t].form \in Forms
    BY <1>2 DEF TaskOK
  <1>5. Updates(task[t].form, task[t].target) \in EnvFiles
    BY <1>4, UpdatesTyped
  <1>6. step[t] # "decide" =>
          /\ task[t].target \in Targets \cup {TokenTarget}
          /\ ~task[t].form.token => task[t].target \in Targets
    <2> HIDE DEF Targets, TokenTarget
    <2> QED
      BY <1>1, <1>2 DEF TaskOK, Saving, LocalSteps, Steps
  <1> QED
    BY <1>1, <1>3, <1>4, <1>5, <1>6, TargetKey

WantedType ==
    [keys : EnvFiles, fresh : BOOLEAN, active : Profiles \cup {None},
     items : [Profiles -> Entries \cup {None}]]

\* The end of a save.
LEMMA FinishTyped ==
    ASSUME Typed, NEW t \in Web, Saving(t), step[t] # "decide", Finish(t)
    PROVE  /\ wanted' \in WantedType
           /\ step' \in [Web -> Steps] /\ task' \in [Web -> Tasks]
           /\ \A u \in Web : TaskOK(u)'
           /\ step'[t] = "idle"
           /\ \A u \in Web \ {t} : step'[u] = step[u] /\ task'[u] = task[u]
  <1>1. wanted' \in WantedType
    BY TaskIs, PromiseTyped DEF Finish, WantedType, Typed
  <1>2. /\ step' = [step EXCEPT ![t] = "idle"] /\ task' = [task EXCEPT ![t] = NoTask]
        /\ NoTask \in Tasks /\ "idle" \in Steps
    BY NothingTyped DEF Finish, StepTo, Steps
  <1>3. /\ step' \in [Web -> Steps] /\ task' \in [Web -> Tasks]
        /\ step'[t] = "idle"
        /\ \A u \in Web \ {t} : step'[u] = step[u] /\ task'[u] = task[u] /\ TaskOK(u)'
    BY <1>2, Moves
  <1>4. TaskOK(t)'
    BY <1>3 DEF TaskOK, Saving, LocalSteps
  <1> QED
    BY <1>1, <1>3, <1>4

\* The local file a save writes.
LEMMA WrittenTyped ==
    ASSUME NEW data \in Locals, NEW f \in Forms, NEW target \in Targets
    PROVE  [active |-> target.id,
            items |-> [data.items EXCEPT ![target.id] = Entry(f, target)]] \in Locals
  <1>1. data.items \in [Profiles -> Entries \cup {None}]
    <2> HIDE DEF Entries
    <2> QED
      BY DEF Locals
  <1>2. target.id \in Profiles /\ Entry(f, target) \in Entries
    BY EntryTyped DEF Targets
  <1> HIDE DEF Entries, Targets, Entry
  <1> QED
    BY <1>1, <1>2 DEF Locals

LEMMA TypedStep == Typed /\ SettingsNext => Typed'
  <1> SUFFICES ASSUME Typed, SettingsNext PROVE Typed'
    OBVIOUS
  <1>1. /\ envFile \in EnvFiles /\ environ \in EnvFiles /\ local \in Locals
        /\ step \in [Web -> Steps] /\ task \in [Web -> Tasks]
        /\ saves \in 0..MaxSaves /\ wanted \in WantedType /\ tangled \in BOOLEAN
        /\ \A u \in Web : TaskOK(u)
    BY DEF Typed, SettingsTypeOK, WantedType
  <1>2. /\ Dotenv(envFile, environ) \in EnvFiles
        /\ NoEnv \in EnvFiles /\ Shell \in EnvFiles /\ NoLocal \in Locals /\ NoTask \in Tasks
    BY DotenvTyped, NothingTyped DEF Typed
  <1>3. /\ envFile' \in EnvFiles /\ environ' \in EnvFiles /\ local' \in Locals
        /\ step' \in [Web -> Steps] /\ task' \in [Web -> Tasks]
        /\ saves' \in 0..MaxSaves /\ wanted' \in WantedType /\ tangled' \in BOOLEAN
        /\ \A u \in Web : TaskOK(u)'
        => Typed'
    BY DEF Typed, SettingsTypeOK, WantedType
  <1> HIDE DEF EnvFiles, Locals, Tasks, WantedType, NoEnv, NoLocal, NoTask
  <1>4. ASSUME NEW t \in Web, Submit(t) PROVE Typed'
    <2>1. PICK f \in Forms : task' = [task EXCEPT ![t] = [NoTask EXCEPT !.form = f]]
      BY <1>4 DEF Submit
    <2>2. /\ [NoTask EXCEPT !.form = f] \in Tasks /\ [NoTask EXCEPT !.form = f].form = f
          /\ "decide" \in Steps
      BY TaskTyped, <1>2 DEF Steps
    <2>3. /\ step' \in [Web -> Steps] /\ task' \in [Web -> Tasks]
          /\ step'[t] = "decide" /\ task'[t].form = f
          /\ \A u \in Web \ {t} : TaskOK(u)'
      <3> HIDE DEF Steps
      <3> QED
        BY <1>4, <2>1, <2>2, Moves DEF Submit, StepTo
    <2>4. TaskOK(t)'
      BY <2>3 DEF TaskOK, LocalSteps
    <2>5. saves' \in 0..MaxSaves
      BY <1>1, <1>4, SettingsAssumption DEF Submit
    <2>6. \A u \in Web : TaskOK(u)'
      BY <2>3, <2>4
    <2>7. tangled' \in BOOLEAN
      BY <1>4 DEF Submit
    <2> QED
      BY <1>1, <1>3, <1>4, <2>3, <2>5, <2>6, <2>7 DEF Submit
  <1>5. ASSUME NEW t \in Web, SettingsStep(t) PROVE Typed'
    <2>1. Saving(t) /\ TaskOK(t)
      BY <1>1, <1>5 DEF SettingsStep, Saving, Decide, ReadEnv, CutEnv, WriteEnv, Export,
         ReadLocal, CutLocal, WriteLocal, Reload
    <2>2. /\ task[t] \in Tasks /\ task[t].form \in Forms
          /\ Updates(task[t].form, task[t].target) \in EnvFiles
          /\ task[t].lines \in EnvFiles /\ task[t].data \in Locals
      BY <2>1, TaskIs
    <2>3. ASSUME NEW s \in Steps, NEW x \in Tasks,
                 step' = [step EXCEPT ![t] = s], task' = [task EXCEPT ![t] = x],
                 (step'[t] = s /\ task'[t] = x) => TaskOK(t)'
          PROVE  /\ step' \in [Web -> Steps] /\ task' \in [Web -> Tasks]
                 /\ \A u \in Web : TaskOK(u)'
      BY <2>3, Moves
    <2>4. task = [task EXCEPT ![t] = task[t]]
      BY <1>1
    <2>5. CASE Decide(t)
      <3>1. CASE /\ step' = [step EXCEPT ![t] = "idle"]
                 /\ task' = [task EXCEPT ![t] = NoTask]
        <4>1. "idle" \in Steps /\ (step'[t] = "idle" => TaskOK(t)')
          BY DEF Steps, TaskOK, Saving, LocalSteps
        <4>2. /\ step' \in [Web -> Steps] /\ task' \in [Web -> Tasks]
              /\ \A u \in Web : TaskOK(u)'
          <5> HIDE DEF Steps
          <5> QED
            BY <1>2, <2>3, <3>1, <4>1
        <4> QED
          BY <1>1, <1>2, <1>3, <2>5, <4>2 DEF Decide
      <3>2. CASE \E y \in Targets \cup {TokenTarget} :
                   LET f == task[t].form IN
                   /\ step' = [step EXCEPT ![t] =
                                 IF f.key # None THEN "readEnv" ELSE "readLocal"]
                   /\ task' = [task EXCEPT ![t] = [task[t] EXCEPT !.target = y]]
                   /\ ~f.token => y \in Targets
                   /\ f.token => y = TokenTarget
        <4> DEFINE f == task[t].form
                   s == IF f.key # None THEN "readEnv" ELSE "readLocal"
        <4>1. PICK y \in Targets \cup {TokenTarget} :
                /\ step' = [step EXCEPT ![t] = s]
                /\ task' = [task EXCEPT ![t] = [task[t] EXCEPT !.target = y]]
                /\ ~f.token => y \in Targets
          BY <3>2
        <4> DEFINE x == [task[t] EXCEPT !.target = y]
        <4>2. x \in Tasks /\ x.form = f /\ x.target = y
          BY <2>2, TaskTyped
        <4>3. f.token => f.key # None
          BY <2>2, SettingsAssumption
        <4>4. s \in Steps
          BY DEF Steps
        <4> HIDE DEF x, Steps, Targets, TokenTarget
        <4>5. (step'[t] = s /\ task'[t] = x) => TaskOK(t)'
          BY <2>2, <4>1, <4>2, <4>3, <4>4 DEF TaskOK, Saving, LocalSteps
        <4>6. task' = [task EXCEPT ![t] = x]
          BY <4>1 DEF x
        <4> HIDE DEF s
        <4>7. /\ step' \in [Web -> Steps] /\ task' \in [Web -> Tasks]
              /\ \A u \in Web : TaskOK(u)'
          BY <2>3, <4>1, <4>2, <4>4, <4>5, <4>6
        <4> QED
          BY <1>1, <1>2, <1>3, <2>5, <4>7 DEF Decide
      <3> QED
        BY <2>5, <3>1, <3>2, DecideTyped
    <2>6. CASE ReadEnv(t)
      <3> DEFINE x == [task[t] EXCEPT !.lines = envFile]
      <3>1. x \in Tasks /\ x.form = task[t].form /\ x.target = task[t].target
        BY <1>1, <2>2, TaskTyped
      <3>2. step' = [step EXCEPT ![t] = "cutEnv"] /\ task' = [task EXCEPT ![t] = x]
        BY <1>1, <2>6 DEF ReadEnv, StepTo
      <3> HIDE DEF x, Targets, TokenTarget
      <3>3. "cutEnv" \in Steps /\ ((step'[t] = "cutEnv" /\ task'[t] = x) => TaskOK(t)')
        BY <2>1, <2>2, <2>6, <3>1 DEF ReadEnv, TaskOK, Saving, LocalSteps, Steps
      <3>4. /\ step' \in [Web -> Steps] /\ task' \in [Web -> Tasks]
            /\ \A u \in Web : TaskOK(u)'
        <4> HIDE DEF Steps
        <4> QED
          BY <2>3, <3>1, <3>2, <3>3
      <3> QED
        BY <1>1, <1>2, <1>3, <2>6, <3>4 DEF ReadEnv
    <2>7. CASE CutEnv(t)
      <3> DEFINE x == task[t]
      <3>1. x \in Tasks /\ x.form = task[t].form /\ x.target = task[t].target
        BY <2>2
      <3>2. step' = [step EXCEPT ![t] = "writeEnv"] /\ task' = [task EXCEPT ![t] = x]
        BY <2>4, <2>7 DEF CutEnv, StepTo
      <3> HIDE DEF x, Targets, TokenTarget
      <3>3. "writeEnv" \in Steps /\ ((step'[t] = "writeEnv" /\ task'[t] = x) => TaskOK(t)')
        BY <2>1, <2>2, <2>7, <3>1 DEF CutEnv, TaskOK, Saving, LocalSteps, Steps
      <3>4. /\ step' \in [Web -> Steps] /\ task' \in [Web -> Tasks]
            /\ \A u \in Web : TaskOK(u)'
        <4> HIDE DEF Steps
        <4> QED
          BY <2>3, <3>1, <3>2, <3>3
      <3> QED
        BY <1>1, <1>2, <1>3, <2>7, <3>4 DEF CutEnv
    <2>8. CASE WriteEnv(t)
      <3> DEFINE x == task[t]
      <3>1. x \in Tasks /\ x.form = task[t].form /\ x.target = task[t].target
        BY <2>2
      <3>2. step' = [step EXCEPT ![t] = "export"] /\ task' = [task EXCEPT ![t] = x]
        BY <2>4, <2>8 DEF WriteEnv, StepTo
      <3> HIDE DEF x, Targets, TokenTarget
      <3>3. "export" \in Steps /\ ((step'[t] = "export" /\ task'[t] = x) => TaskOK(t)')
        BY <2>1, <2>2, <2>8, <3>1 DEF WriteEnv, TaskOK, Saving, LocalSteps, Steps
      <3>4. /\ step' \in [Web -> Steps] /\ task' \in [Web -> Tasks]
            /\ \A u \in Web : TaskOK(u)'
        <4> HIDE DEF Steps
        <4> QED
          BY <2>3, <3>1, <3>2, <3>3
      <3>5. envFile' \in EnvFiles
        BY <2>2, <2>8, OverTyped DEF WriteEnv
      <3> QED
        BY <1>1, <1>2, <1>3, <2>8, <3>4, <3>5 DEF WriteEnv
    <2>9. CASE Export(t)
      <3>1. environ' \in EnvFiles
        BY <1>1, <2>2, <2>9, ParsedTyped, OverTyped DEF Export, DotenvOverride
      <3>2. CASE task[t].form.token
        <4>1. Finish(t) /\ step[t] # "decide"
          BY <2>9, <3>2 DEF Export
        <4> QED
          BY <1>1, <1>3, <2>1, <2>9, <3>1, <4>1, FinishTyped DEF Export
      <3>3. CASE ~task[t].form.token
        <4>1. "readLocal" \in Steps /\ ((step'[t] = "readLocal" /\ task'[t] = task[t]) => TaskOK(t)')
          <5> HIDE DEF Targets, TokenTarget
          <5> QED
            BY <2>1, <2>2, <2>9, <3>3 DEF Export, TaskOK, Saving, LocalSteps, Steps
        <4>2. step' = [step EXCEPT ![t] = "readLocal"] /\ task' = [task EXCEPT ![t] = task[t]]
          BY <2>4, <2>9, <3>3 DEF Export, StepTo
        <4>3. /\ step' \in [Web -> Steps] /\ task' \in [Web -> Tasks]
              /\ \A u \in Web : TaskOK(u)'
          <5> HIDE DEF Steps
          <5> QED
            BY <2>2, <2>3, <4>1, <4>2
        <4> QED
          BY <1>1, <1>3, <2>9, <3>1, <3>3, <4>3 DEF Export
      <3> QED
        BY <3>2, <3>3
    <2>10. CASE ReadLocal(t)
      <3> DEFINE x == [task[t] EXCEPT !.data = local]
      <3>1. x \in Tasks /\ x.form = task[t].form /\ x.target = task[t].target
        BY <1>1, <2>2, TaskTyped
      <3>2. step' = [step EXCEPT ![t] = "cutLocal"] /\ task' = [task EXCEPT ![t] = x]
        BY <1>1, <2>10 DEF ReadLocal, StepTo
      <3> HIDE DEF x, Targets, TokenTarget
      <3>3. "cutLocal" \in Steps /\ ((step'[t] = "cutLocal" /\ task'[t] = x) => TaskOK(t)')
        BY <2>1, <2>2, <2>10, <3>1 DEF ReadLocal, TaskOK, Saving, LocalSteps, Steps
      <3>4. /\ step' \in [Web -> Steps] /\ task' \in [Web -> Tasks]
            /\ \A u \in Web : TaskOK(u)'
        <4> HIDE DEF Steps
        <4> QED
          BY <2>3, <3>1, <3>2, <3>3
      <3> QED
        BY <1>1, <1>2, <1>3, <2>10, <3>4 DEF ReadLocal
    <2>11. CASE CutLocal(t)
      <3> DEFINE x == task[t]
      <3>1. x \in Tasks /\ x.form = task[t].form /\ x.target = task[t].target
        BY <2>2
      <3>2. step' = [step EXCEPT ![t] = "writeLocal"] /\ task' = [task EXCEPT ![t] = x]
        BY <2>4, <2>11 DEF CutLocal, StepTo
      <3> HIDE DEF x, Targets, TokenTarget
      <3>3. "writeLocal" \in Steps /\ ((step'[t] = "writeLocal" /\ task'[t] = x) => TaskOK(t)')
        BY <2>1, <2>2, <2>11, <3>1 DEF CutLocal, TaskOK, Saving, LocalSteps, Steps
      <3>4. /\ step' \in [Web -> Steps] /\ task' \in [Web -> Tasks]
            /\ \A u \in Web : TaskOK(u)'
        <4> HIDE DEF Steps
        <4> QED
          BY <2>3, <3>1, <3>2, <3>3
      <3> QED
        BY <1>1, <1>2, <1>3, <2>11, <3>4 DEF CutLocal
    <2>12. CASE WriteLocal(t)
      <3> DEFINE x == task[t]
      <3>1. x \in Tasks /\ x.form = task[t].form /\ x.target = task[t].target
        BY <2>2
      <3>2. step' = [step EXCEPT ![t] = "reload"] /\ task' = [task EXCEPT ![t] = x]
        BY <2>4, <2>12 DEF WriteLocal, StepTo
      <3> HIDE DEF x, Targets, TokenTarget
      <3>3. "reload" \in Steps /\ ((step'[t] = "reload" /\ task'[t] = x) => TaskOK(t)')
        BY <2>1, <2>2, <2>12, <3>1 DEF WriteLocal, TaskOK, Saving, LocalSteps, Steps
      <3>4. /\ step' \in [Web -> Steps] /\ task' \in [Web -> Tasks]
            /\ \A u \in Web : TaskOK(u)'
        <4> HIDE DEF Steps
        <4> QED
          BY <2>3, <3>1, <3>2, <3>3
      <3>5. local' \in Locals
        BY <2>1, <2>2, <2>12, WrittenTyped DEF WriteLocal, TaskOK, LocalSteps
      <3> QED
        BY <1>1, <1>2, <1>3, <2>12, <3>4, <3>5 DEF WriteLocal
    <2>13. CASE Reload(t)
      <3>1. Finish(t) /\ step[t] # "decide"
        BY <2>13 DEF Reload
      <3> QED
        BY <1>1, <1>2, <1>3, <2>1, <2>13, <3>1, FinishTyped DEF Reload
    <2> QED
      BY <1>5, <2>5, <2>6, <2>7, <2>8, <2>9, <2>10, <2>11, <2>12, <2>13 DEF SettingsStep
  <1>6. CASE Load
    BY <1>1, <1>2, <1>3, <1>6 DEF Load, TaskOK, Saving
  <1>7. CASE SettingsDie
    <2>1. wanted' \in WantedType
      <3> HIDE DEF Entries
      <3> QED
        BY <1>1, <1>7 DEF SettingsDie, WantedType
    <2>2. step' = [u \in Web |-> "idle"] /\ task' = [u \in Web |-> NoTask]
      BY <1>7 DEF SettingsDie
    <2>3. \A u \in Web : TaskOK(u)'
      BY <2>2 DEF TaskOK, Saving, LocalSteps
    <2>4. step' \in [Web -> Steps] /\ task' \in [Web -> Tasks]
      BY <1>2, <2>2 DEF Steps
    <2> QED
      BY <1>1, <1>2, <1>3, <1>7, <2>1, <2>3, <2>4 DEF SettingsDie
  <1>8. CASE UNCHANGED settingsVars
    BY <1>1, <1>3, <1>8 DEF settingsVars, TaskOK, Saving
  <1> QED
    BY <1>4, <1>5, <1>6, <1>7, <1>8 DEF SettingsNext

-----------------------------------------------------------------------------
(* Where what was saved is, between the saves and during one.                 *)

Quiet == \A t \in Web : ~Saving(t)
OneSaver == \A t, u \in Web : Saving(t) /\ Saving(u) => t = u

\* The local file as it was saved last.
WantedLocal == [active |-> wanted.active, items |-> wanted.items]

\* The environment is what the shell exported and what was loaded of the file
\* since: behind the shell's values, before them once a key was saved.
EnvironKnows(keys, fresh) ==
    \A k \in EnvKeys :
        LET line == Reads[keys[k]]
        IN  IF fresh THEN environ[k] = Or(line, Shell[k])
            ELSE environ[k] \in {Shell[k], Or(Shell[k], line)}

Settled ==
    /\ envFile = wanted.keys
    /\ EnvironKnows(wanted.keys, wanted.fresh)
    /\ local = WantedLocal

\* What will be promised when the save of t ends.
Coming(t) == Promise(task[t].form, task[t].target)
NextLocal(t) ==
    [active |-> task[t].target.id,
     items |-> [wanted.items EXCEPT ![task[t].target.id] = Entry(task[t].form, task[t].target)]]

StageOK(t) ==
    /\ step[t] \in {"decide", "readEnv", "cutEnv"} => Settled
    /\ step[t] \in {"cutEnv", "writeEnv"} => task[t].lines = wanted.keys
    /\ step[t] = "writeEnv" => envFile = NoEnv /\ EnvironKnows(wanted.keys, wanted.fresh)
    /\ step[t] \in {"writeEnv", "export", "readLocal", "cutLocal"} => local = WantedLocal
    /\ step[t] = "export" =>
         /\ envFile = Coming(t).keys
         /\ \A k \in EnvKeys : Coming(t).keys[k] = None => environ[k] = Shell[k]
    /\ step[t] \in LocalSteps =>
         envFile = Coming(t).keys /\ EnvironKnows(Coming(t).keys, Coming(t).fresh)
    /\ step[t] \in {"cutLocal", "writeLocal"} => task[t].data = WantedLocal
    /\ step[t] = "reload" => local = NextLocal(t)

\* What was promised is complete.
Promised == wanted.active # None => wanted.items[wanted.active] # None

SettingsInv ==
    /\ Promised
    /\ ~tangled =>
         /\ OneSaver
         /\ Quiet => Settled
         /\ \A t \in Web : Saving(t) => StageOK(t)

LEMMA SettingsInvInit == SettingsInit => SettingsInv
  <1> SUFFICES ASSUME SettingsInit PROVE SettingsInv
    OBVIOUS
  <1>1. /\ wanted.keys = envFile /\ wanted.fresh = FALSE /\ wanted.active = None
        /\ wanted.items = [p \in Profiles |-> None]
    BY DEF SettingsInit
  <1>2. Settled
    BY <1>1 DEF SettingsInit, Settled, EnvironKnows, WantedLocal, NoLocal
  <1>3. Promised
    BY <1>1 DEF Promised
  <1>4. \A t \in Web : ~Saving(t)
    BY DEF SettingsInit, Saving
  <1> QED
    BY <1>2, <1>3, <1>4 DEF SettingsInv, OneSaver

\* Between the saves the last one holds.
LEMMA SettledHolds ==
    ASSUME Typed, SettingsInv
    PROVE  LastSaveHolds
  <1> SUFFICES ASSUME ~tangled, Quiet PROVE LastSaveHolds
    BY DEF LastSaveHolds, Quiet
  <1> DEFINE env == Dotenv(envFile, environ)
             profile == wanted.items[wanted.active]
  <1>1. Settled /\ Promised
    BY DEF SettingsInv
  <1>2. \A k \in EnvKeys : env[k] = IF environ[k] # None THEN environ[k] ELSE Reads[envFile[k]]
    BY DotenvTyped DEF Typed
  <1>3. wanted.active \in Profiles \cup {None} /\ local \in Locals /\ wanted.fresh \in BOOLEAN
    <2> HIDE DEF Entries, EnvFiles
    <2> QED
      BY DEF Typed, SettingsTypeOK
  <1>4. local.active = wanted.active /\ local.items = wanted.items
    BY <1>1 DEF Settled, WantedLocal
  <1>5. wanted.active # None =>
          /\ Config(local).active = wanted.active
          /\ Config(local).items[wanted.active] = profile
    BY <1>1, <1>3, <1>4, ConfigTyped DEF Promised
  <1>6. wanted.active # None =>
          /\ Provider(Config(local), env)
               = [url |-> profile.url, model |-> profile.model, key |-> env[profile.key]]
          /\ profile.key \in EnvKeys
    <2>1. wanted.active # None => profile \in Entries
      <3> HIDE DEF Entries
      <3> QED
        BY <1>1, <1>3, <1>4 DEF Promised, Locals
    <2> HIDE DEF env, profile
    <2> QED
      BY <1>5, <2>1 DEF Provider, Entries
  <1>7. \A k \in EnvKeys : env[k] = InForce(k)
    <2>1. envFile = wanted.keys /\ EnvironKnows(wanted.keys, wanted.fresh)
      BY <1>1 DEF Settled
    <2> HIDE DEF env
    <2>2. CASE wanted.fresh
      BY <1>2, <2>1, <2>2 DEF EnvironKnows, InForce, Or
    <2>3. CASE ~wanted.fresh
      BY <1>2, <2>1, <2>3 DEF EnvironKnows, InForce, Or
    <2> QED
      BY <1>3, <2>2, <2>3
  <1> QED
    <2> HIDE DEF env, profile
    <2> QED
      BY <1>4, <1>6, <1>7 DEF LastSaveHolds, env, profile

\* A save's promise, taken apart.
LEMMA PromiseIs ==
    ASSUME Typed, NEW f \in Forms, NEW target \in Targets \cup {TokenTarget},
           target.key \in EnvKeys, ~f.token => target \in Targets
    PROVE  LET p == Promise(f, target) IN
           /\ p.keys \in EnvFiles
           /\ p.keys = Over(Updates(f, target), wanted.keys)
           /\ \A k \in EnvKeys : p.keys[k] =
                IF k = target.key /\ f.key # None THEN f.key ELSE wanted.keys[k]
           /\ p.fresh = (wanted.fresh \/ f.key # None)
           /\ f.token => p.active = wanted.active /\ p.items = wanted.items
           /\ ~f.token =>
                /\ p.active = target.id
                /\ p.items = [wanted.items EXCEPT ![target.id] = Entry(f, target)]
           /\ f.key = None => p.keys = wanted.keys /\ p.fresh = wanted.fresh
  <1>1. /\ wanted.keys \in EnvFiles /\ Updates(f, target) \in EnvFiles
        /\ \A k \in EnvKeys : Updates(f, target)[k] = IF k = target.key THEN f.key ELSE None
    BY UpdatesTyped DEF Typed, SettingsTypeOK
  <1>2. /\ Over(Updates(f, target), wanted.keys) \in EnvFiles
        /\ \A k \in EnvKeys : Over(Updates(f, target), wanted.keys)[k] =
             IF k = target.key /\ f.key # None THEN f.key ELSE wanted.keys[k]
    BY <1>1, OverTyped
  <1>3. f.key = None => Over(Updates(f, target), wanted.keys) = wanted.keys
    <2> SUFFICES ASSUME f.key = None
                 PROVE  Over(Updates(f, target), wanted.keys) = wanted.keys
      OBVIOUS
    <2>1. \A k \in EnvKeys : Over(Updates(f, target), wanted.keys)[k] = wanted.keys[k]
      BY <1>2
    <2> QED
      BY <1>1, <1>2, <2>1 DEF EnvFiles
  <1>4. wanted.fresh \in BOOLEAN
    <2> HIDE DEF EnvFiles, Entries
    <2> QED
      BY DEF Typed, SettingsTypeOK
  <1>5. f.key = None => (wanted.fresh \/ f.key # None) = wanted.fresh
    BY <1>4, Zenon
  <1>6. Promise(f, target).fresh = (wanted.fresh \/ f.key # None)
    BY Zenon DEF Promise
  <1> HIDE DEF Updates, Over, Entry
  <1>7. LET p == Promise(f, target) IN
        /\ p.keys = Over(Updates(f, target), wanted.keys)
        /\ f.token => p.active = wanted.active /\ p.items = wanted.items
        /\ ~f.token =>
             /\ p.active = target.id
             /\ p.items = [wanted.items EXCEPT ![target.id] = Entry(f, target)]
    BY DEF Promise
  <1> HIDE DEF Promise
  <1> QED
    BY <1>2, <1>3, <1>5, <1>6, <1>7

\* What is coming is fixed once the target is.
LEMMA ComingStays ==
    ASSUME NEW t, wanted' = wanted,
           task'[t].form = task[t].form, task'[t].target = task[t].target
    PROVE  /\ Coming(t)' = Coming(t) /\ NextLocal(t)' = NextLocal(t)
           /\ WantedLocal' = WantedLocal
  <1>1. Coming(t)' = Promise(task'[t].form, task'[t].target)
    BY DEF Coming, Promise
  <1>2. NextLocal(t)' = [active |-> task'[t].target.id,
                         items |-> [wanted.items EXCEPT ![task'[t].target.id] =
                                      Entry(task'[t].form, task'[t].target)]]
    BY DEF NextLocal
  <1> QED
    BY <1>1, <1>2 DEF Coming, NextLocal, WantedLocal

\* What is coming, taken apart.
LEMMA ComingIs ==
    ASSUME Typed, NEW t \in Web, Saving(t), step[t] # "decide"
    PROVE  LET f == task[t].form
               key == task[t].target.key
           IN
           /\ key \in EnvKeys
           /\ Coming(t).keys \in EnvFiles
           /\ Coming(t).keys = Over(Updates(f, task[t].target), wanted.keys)
           /\ \A k \in EnvKeys : Coming(t).keys[k] =
                IF k = key /\ f.key # None THEN f.key ELSE wanted.keys[k]
           /\ Coming(t).fresh = (wanted.fresh \/ f.key # None)
           /\ f.token => Coming(t).active = wanted.active /\ Coming(t).items = wanted.items
           /\ ~f.token => /\ Coming(t).active = task[t].target.id
                          /\ Coming(t).items = NextLocal(t).items
                          /\ NextLocal(t).active = task[t].target.id
  <1>1. /\ task[t].form \in Forms
        /\ task[t].target \in Targets \cup {TokenTarget}
        /\ task[t].target.key \in EnvKeys
        /\ ~task[t].form.token => task[t].target \in Targets
    BY TaskIs
  <1> HIDE DEF Targets, TokenTarget, EnvFiles, Over, Updates
  <1> QED
    BY <1>1, PromiseIs DEF Coming, NextLocal

\* Saving keeps the promises complete.
LEMMA PromisedStep ==
    ASSUME Typed, Promised, SettingsNext
    PROVE  Promised'
  <1>1. CASE wanted' = wanted
    BY <1>1 DEF Promised
  <1>2. ASSUME NEW t \in Web, Finish(t), Saving(t), step[t] # "decide"
        PROVE  Promised'
    <2>1. wanted' = Coming(t)
      BY <1>2 DEF Finish, Coming
    <2>2. CASE task[t].form.token
      BY <1>2, <2>1, <2>2, ComingIs DEF Promised
    <2>3. CASE ~task[t].form.token
      <3>1. task[t].form \in Forms /\ task[t].target \in Targets
        BY <1>2, <2>3, TaskIs
      <3>2. /\ Entry(task[t].form, task[t].target) # None
            /\ task[t].target.id \in Profiles
        BY <3>1, EntryTyped DEF Targets
      <3>3. wanted.items \in [Profiles -> Entries \cup {None}]
        <4> HIDE DEF EnvFiles, Entries
        <4> QED
          BY DEF Typed, SettingsTypeOK
      <3>4. NextLocal(t).items[task[t].target.id] # None
        <4> HIDE DEF Entry, Entries, Targets
        <4> QED
          BY <3>2, <3>3 DEF NextLocal
      <3> QED
        BY <1>2, <2>1, <2>3, <3>4, ComingIs DEF Promised
    <2> QED
      BY <2>2, <2>3
  <1>3. CASE SettingsDie
    <2>1. wanted'.active = wanted.active /\ wanted'.items = wanted.items
      <3>1. wanted \in WantedType
        BY DEF Typed, SettingsTypeOK, WantedType
      <3> HIDE DEF EnvFiles, Entries
      <3> QED
        BY <1>3, <3>1 DEF SettingsDie, WantedType
    <2> QED
      BY <2>1 DEF Promised
  <1>4. ASSUME NEW t \in Web, SettingsStep(t), wanted' # wanted
        PROVE  Finish(t) /\ Saving(t) /\ step[t] # "decide"
    BY <1>4 DEF SettingsStep, Saving, Decide, ReadEnv, CutEnv, WriteEnv, Export,
       ReadLocal, CutLocal, WriteLocal, Reload
  <1>5. ASSUME NEW t \in Web, Submit(t) PROVE wanted' = wanted
    BY <1>5 DEF Submit
  <1>6. Load \/ UNCHANGED settingsVars => wanted' = wanted
    BY DEF Load, settingsVars
  <1> QED
    BY <1>1, <1>2, <1>3, <1>4, <1>5, <1>6 DEF SettingsNext

\* A save alone, before and after one of its steps.
LEMMA Alone ==
    ASSUME Typed, ~tangled, OneSaver, Promised', NEW t \in Web, Saving(t),
           \A u \in Web \ {t} : step'[u] = step[u],
           step'[t] = "idle" => Settled', step'[t] # "idle" => StageOK(t)'
    PROVE  SettingsInv'
  <1>1. \A u \in Web \ {t} : ~Saving(u)'
    BY DEF OneSaver, Saving
  <1> HIDE DEF Promised, Settled, StageOK
  <1> QED
    BY <1>1 DEF SettingsInv, OneSaver, Quiet, Saving

\* Loading the configuration teaches the environment what the file has, and
\* nothing else.
LEMMA LoadKnows ==
    ASSUME Typed, environ' \in {environ, Dotenv(envFile, environ)},
           NEW keys, NEW fresh, EnvironKnows(keys, fresh),
           \A k \in EnvKeys : envFile[k] \in {None, keys[k]}
    PROVE  \A k \in EnvKeys :
             LET line == Reads[keys[k]]
             IN  IF fresh THEN environ'[k] = Or(line, Shell[k])
                 ELSE environ'[k] \in {Shell[k], Or(Shell[k], line)}
  <1> SUFFICES ASSUME NEW k \in EnvKeys
               PROVE  LET line == Reads[keys[k]]
                      IN  IF fresh THEN environ'[k] = Or(line, Shell[k])
                          ELSE environ'[k] \in {Shell[k], Or(Shell[k], line)}
    OBVIOUS
  <1>1. environ'[k] \in {environ[k], Or(environ[k], Reads[envFile[k]])}
    BY DotenvTyped DEF Typed, Or
  <1>2. Reads[None] = None
    BY SettingsAssumption
  <1>3. Reads[envFile[k]] \in {None, Reads[keys[k]]}
    BY <1>2
  <1>4. CASE fresh
    <2>1. environ[k] = Or(Reads[keys[k]], Shell[k])
      BY <1>4 DEF EnvironKnows
    <2> QED
      BY <1>1, <1>3, <1>4, <2>1 DEF Or
  <1>5. CASE ~fresh
    <2>1. environ[k] \in {Shell[k], Or(Shell[k], Reads[keys[k]])}
      BY <1>5 DEF EnvironKnows
    <2> QED
      BY <1>1, <1>3, <1>5, <2>1 DEF Or
  <1> QED
    BY <1>4, <1>5

LEMMA SettledLoads ==
    ASSUME Typed, Settled, environ' \in {environ, Dotenv(envFile, environ)},
           UNCHANGED <<envFile, local, wanted>>
    PROVE  Settled'
  <1>1. \A k \in EnvKeys :
          LET line == Reads[wanted.keys[k]]
          IN  IF wanted.fresh THEN environ'[k] = Or(line, Shell[k])
              ELSE environ'[k] \in {Shell[k], Or(Shell[k], line)}
    BY LoadKnows DEF Settled
  <1> QED
    BY <1>1 DEF Settled, EnvironKnows, WantedLocal

\* What a save has done so far stands while others load the configuration.
LEMMA StageLoads ==
    ASSUME Typed, NEW t \in Web, Saving(t), StageOK(t), Load
    PROVE  StageOK(t)'
  <1>1. /\ UNCHANGED <<envFile, local, step, task, wanted>>
        /\ environ' = Dotenv(envFile, environ)
        /\ \A k \in EnvKeys : environ'[k] =
             IF environ[k] # None THEN environ[k] ELSE Reads[envFile[k]]
        /\ Reads[None] = None
    BY DotenvTyped, SettingsAssumption DEF Load, Typed
  <1>2. /\ Coming(t)' = Coming(t) /\ NextLocal(t)' = NextLocal(t)
        /\ WantedLocal' = WantedLocal
    BY <1>1, ComingStays
  <1>3. step[t] \in {"decide", "readEnv", "cutEnv"} => Settled'
    BY <1>1, SettledLoads DEF StageOK
  <1>4. step[t] = "writeEnv" => envFile' = NoEnv /\ EnvironKnows(wanted.keys, wanted.fresh)'
    BY <1>1 DEF StageOK, EnvironKnows, NoEnv, Or
  <1>5. step[t] = "export" =>
          /\ envFile' = Coming(t).keys
          /\ \A k \in EnvKeys : Coming(t).keys[k] = None => environ'[k] = Shell[k]
    BY <1>1 DEF StageOK
  <1>6. step[t] \in LocalSteps =>
          envFile' = Coming(t).keys /\ EnvironKnows(Coming(t).keys, Coming(t).fresh)'
    <2> SUFFICES ASSUME step[t] \in LocalSteps
                 PROVE  /\ envFile' = Coming(t).keys
                        /\ EnvironKnows(Coming(t).keys, Coming(t).fresh)'
      OBVIOUS
    <2>1. envFile = Coming(t).keys /\ EnvironKnows(Coming(t).keys, Coming(t).fresh)
      BY DEF StageOK
    <2>2. \A k \in EnvKeys : envFile[k] \in {None, Coming(t).keys[k]}
      BY <2>1
    <2>3. \A k \in EnvKeys :
            LET line == Reads[Coming(t).keys[k]]
            IN  IF Coming(t).fresh THEN environ'[k] = Or(line, Shell[k])
                ELSE environ'[k] \in {Shell[k], Or(Shell[k], line)}
      <3> HIDE DEF Coming, EnvironKnows
      <3> QED
        BY <1>1, <2>1, <2>2, LoadKnows
    <2> QED
      BY <1>1, <1>2, <2>1, <2>3 DEF EnvironKnows
  <1> HIDE DEF Settled, EnvironKnows, Coming, NextLocal, WantedLocal, LocalSteps
  <1> QED
    BY <1>1, <1>2, <1>3, <1>4, <1>5, <1>6 DEF StageOK

LEMMA SaveStep ==
    ASSUME Typed, SettingsInv, Promised', ~tangled, NEW t \in Web, SettingsStep(t)
    PROVE  SettingsInv'
  <1>1. /\ Saving(t) /\ OneSaver /\ StageOK(t) /\ Promised
        /\ step \in [Web -> Steps] /\ task \in [Web -> Tasks]
    <2>1. Saving(t)
      BY DEF SettingsStep, Saving, Decide, ReadEnv, CutEnv, WriteEnv, Export,
         ReadLocal, CutLocal, WriteLocal, Reload
    <2> QED
      BY <2>1 DEF SettingsInv, Typed, SettingsTypeOK
  <1>2. ASSUME NEW s \in Steps, step' = [step EXCEPT ![t] = s],
               s = "idle" => Settled', s # "idle" => StageOK(t)'
        PROVE  SettingsInv'
    <2>1. step'[t] = s /\ \A u \in Web \ {t} : step'[u] = step[u]
      <3> HIDE DEF Steps
      <3> QED
        BY <1>1, <1>2
    <2> HIDE DEF Settled, StageOK, SettingsInv, Promised, Typed
    <2> QED
      BY <1>1, <1>2, <2>1, Alone
  <1>3. ASSUME NEW s \in Steps, step' = [step EXCEPT ![t] = s] PROVE step'[t] = s
    BY <1>1, <1>3
  <1>4. step[t] # "decide" =>
          LET f == task[t].form
              key == task[t].target.key
          IN
          /\ key \in EnvKeys
          /\ Coming(t).keys = Over(Updates(f, task[t].target), wanted.keys)
          /\ \A k \in EnvKeys : Coming(t).keys[k] =
               IF k = key /\ f.key # None THEN f.key ELSE wanted.keys[k]
          /\ Coming(t).fresh = (wanted.fresh \/ f.key # None)
          /\ f.token => Coming(t).active = wanted.active /\ Coming(t).items = wanted.items
          /\ ~f.token => /\ Coming(t).active = task[t].target.id
                         /\ Coming(t).items = NextLocal(t).items
                         /\ NextLocal(t).active = task[t].target.id
    BY <1>1, ComingIs
  <1>5. CASE Decide(t)
    <2>1. Settled'
      BY <1>1, <1>5, SettledLoads DEF Decide, StageOK
    <2>2. CASE step' = [step EXCEPT ![t] = "idle"]
      BY <1>2, <2>1, <2>2 DEF Steps
    <2>3. ASSUME NEW y \in Targets \cup {TokenTarget},
                 step' = [step EXCEPT ![t] =
                            IF task[t].form.key # None THEN "readEnv" ELSE "readLocal"],
                 task' = [task EXCEPT ![t] = [task[t] EXCEPT !.target = y]],
                 ~task[t].form.token => y \in Targets
          PROVE  SettingsInv'
      <3>1. CASE task[t].form.key # None
        <4>1. step'[t] = "readEnv"
          BY <1>3, <2>3, <3>1 DEF Steps
        <4>2. StageOK(t)'
          BY <2>1, <4>1 DEF StageOK, LocalSteps
        <4> QED
          BY <1>2, <2>3, <3>1, <4>2 DEF Steps
      <3>2. CASE task[t].form.key = None
        <4>1. step'[t] = "readLocal"
          BY <1>3, <2>3, <3>2 DEF Steps
        <4>2. task[t].form \in Forms /\ task[t] \in Tasks
          BY <1>1, TaskIs
        <4>3. task'[t].form = task[t].form /\ task'[t].target = y
          BY <1>1, <2>3, <4>2, TaskTyped
        <4>4. y.key \in EnvKeys
          BY <2>3, TargetKey
        <4>5. wanted' = wanted
          BY <1>5 DEF Decide
        <4>6. /\ Promise(task[t].form, y).keys = wanted.keys
              /\ Promise(task[t].form, y).fresh = wanted.fresh
          <5> HIDE DEF Targets, TokenTarget, Promise
          <5> QED
            BY <2>3, <3>2, <4>2, <4>4, PromiseIs
        <4>7. Coming(t)' = Promise(task'[t].form, task'[t].target)
          BY <4>5 DEF Coming, Promise
        <4>8. Coming(t)'.keys = wanted'.keys /\ Coming(t)'.fresh = wanted'.fresh
          BY <4>3, <4>5, <4>6, <4>7
        <4>9. StageOK(t)'
          <5> HIDE DEF Coming
          <5> QED
            BY <2>1, <4>1, <4>8 DEF StageOK, LocalSteps, Settled, EnvironKnows
        <4> QED
          BY <1>2, <2>3, <3>2, <4>9 DEF Steps
      <3> QED
        BY <3>1, <3>2
    <2> QED
      BY <1>5, <2>2, <2>3, DecideTyped
  <1>6. CASE ReadEnv(t)
    <2>1. step[t] = "readEnv" /\ UNCHANGED wanted
      BY <1>6 DEF ReadEnv
    <2>2. step' = [step EXCEPT ![t] = "cutEnv"] /\ step'[t] = "cutEnv" /\ "cutEnv" \in Steps
      BY <1>3, <1>6 DEF ReadEnv, StepTo, Steps
    <2>3. /\ task'[t].form = task[t].form /\ task'[t].target = task[t].target
          /\ task'[t].lines = envFile
      <3>1. task' = [task EXCEPT ![t] = [task[t] EXCEPT !.lines = envFile]]
        BY <1>1, <1>6 DEF ReadEnv
      <3>2. task[t] \in Tasks /\ envFile \in EnvFiles
        BY <1>1, TaskIs DEF Typed, SettingsTypeOK
      <3> HIDE DEF Tasks
      <3> QED
        BY <1>1, <3>1, <3>2, TaskTyped
    <2>4. Settled'
      BY <1>1, <1>6, <2>1 DEF ReadEnv, StageOK, Settled, EnvironKnows, WantedLocal
    <2>9. StageOK(t)'
      <3> HIDE DEF Coming, NextLocal, WantedLocal, Updates, Over, Entry
      <3> QED
        BY <1>1, <1>6, <2>1, <2>2, <2>3, <2>4 DEF ReadEnv, StageOK, LocalSteps, Settled
    <2> QED
      BY <1>2, <2>2, <2>9
  <1>7. CASE CutEnv(t)
    <2>1. step[t] = "cutEnv" /\ UNCHANGED wanted
      BY <1>7 DEF CutEnv
    <2>2. step' = [step EXCEPT ![t] = "writeEnv"] /\ step'[t] = "writeEnv" /\ "writeEnv" \in Steps
      BY <1>3, <1>7 DEF CutEnv, StepTo, Steps
    <2>3. task' = task
      BY <1>7 DEF CutEnv
    <2>4. /\ Coming(t)' = Coming(t) /\ NextLocal(t)' = NextLocal(t)
          /\ WantedLocal' = WantedLocal
      BY <2>1, <2>3, ComingStays
    <2>9. StageOK(t)'
      <3> HIDE DEF Coming, NextLocal, WantedLocal, Updates, Over, Entry
      <3> QED
        BY <1>1, <1>7, <2>1, <2>2, <2>3, <2>4 DEF CutEnv, StageOK, LocalSteps, Settled, EnvironKnows, NoEnv
    <2> QED
      BY <1>2, <2>2, <2>9
  <1>8. CASE WriteEnv(t)
    <2>1. step[t] = "writeEnv" /\ UNCHANGED wanted
      BY <1>8 DEF WriteEnv
    <2>2. step' = [step EXCEPT ![t] = "export"] /\ step'[t] = "export" /\ "export" \in Steps
      BY <1>3, <1>8 DEF WriteEnv, StepTo, Steps
    <2>3. task' = task
      BY <1>8 DEF WriteEnv
    <2>4. /\ Coming(t)' = Coming(t) /\ NextLocal(t)' = NextLocal(t)
          /\ WantedLocal' = WantedLocal
      BY <2>1, <2>3, ComingStays
    <2>5. envFile' = Coming(t).keys
      BY <1>1, <1>4, <1>8, <2>1 DEF WriteEnv, StageOK
    <2>6. \A k \in EnvKeys : Coming(t).keys[k] = None => environ'[k] = Shell[k]
      <3>1. EnvironKnows(wanted.keys, wanted.fresh) /\ environ' = environ
        BY <1>1, <1>8, <2>1 DEF WriteEnv, StageOK
      <3>2. \A k \in EnvKeys : Coming(t).keys[k] = None => wanted.keys[k] = None
        <4> HIDE DEF Coming
        <4> QED
          BY <1>4, <2>1
      <3>3. Reads[None] = None
        BY SettingsAssumption
      <3> HIDE DEF Coming
      <3> QED
        BY <3>1, <3>2, <3>3 DEF EnvironKnows, Or
    <2>9. StageOK(t)'
      <3> HIDE DEF Coming, NextLocal, WantedLocal, Updates, Over, Entry
      <3> QED
        BY <1>1, <1>8, <2>1, <2>2, <2>3, <2>4, <2>5, <2>6 DEF WriteEnv, StageOK, LocalSteps
    <2> QED
      BY <1>2, <2>2, <2>9
  <1>9. CASE Export(t)
    <2> DEFINE f == task[t].form
               updates == Updates(f, task[t].target)
    <2>1. /\ step[t] = "export" /\ UNCHANGED <<envFile, local>>
          /\ envFile = Coming(t).keys /\ local = WantedLocal
          /\ \A k \in EnvKeys : Coming(t).keys[k] = None => environ[k] = Shell[k]
      BY <1>1, <1>9 DEF Export, StageOK
    <2>2. /\ envFile \in EnvFiles /\ environ \in EnvFiles /\ updates \in EnvFiles
          /\ f \in Forms /\ f.key # None
      BY <1>1, <2>1, TaskIs DEF Typed, SettingsTypeOK, TaskOK
    <2>3. \A k \in EnvKeys :
            /\ updates[k] = IF k = task[t].target.key THEN f.key ELSE None
            /\ environ'[k] = IF envFile[k] # None THEN Reads[envFile[k]]
                             ELSE IF updates[k] # None THEN updates[k] ELSE environ[k]
            /\ Reads[envFile[k]] = None <=> envFile[k] = None
      <3>1. Over(updates, environ) \in EnvFiles
        BY <2>2, OverTyped
      <3>2. environ' = Over(Parsed(envFile), Over(updates, environ))
        BY <1>9 DEF Export, DotenvOverride
      <3>4. /\ Parsed(envFile) \in EnvFiles
            /\ \A k \in EnvKeys : /\ Parsed(envFile)[k] = Reads[envFile[k]]
                                  /\ Reads[envFile[k]] = None <=> envFile[k] = None
        BY <2>2, ParsedTyped
      <3>3. \A k \in EnvKeys : updates[k] = IF k = task[t].target.key THEN f.key ELSE None
        BY <2>2, UpdatesTyped
      <3> HIDE DEF updates
      <3> QED
        BY <2>2, <3>1, <3>2, <3>3, <3>4, OverTyped
    <2>4. /\ Coming(t).fresh
          /\ \A k \in EnvKeys : environ'[k] = Or(Reads[Coming(t).keys[k]], Shell[k])
      <3>1. Coming(t).fresh
        <4> HIDE DEF Coming
        <4> QED
          BY <1>4, <2>1, <2>2
      <3> HIDE DEF updates, Coming
      <3>2. ASSUME NEW k \in EnvKeys
            PROVE  environ'[k] = Or(Reads[Coming(t).keys[k]], Shell[k])
        <4>1. CASE Coming(t).keys[k] = None
          <5>1. k = task[t].target.key => f.key = None
            BY <1>4, <2>1, <4>1
          <5>2. environ'[k] = environ[k] /\ Reads[Coming(t).keys[k]] = None
            BY <2>1, <2>2, <2>3, <4>1, <5>1
          <5> QED
            BY <2>1, <4>1, <5>2 DEF Or
        <4>2. CASE Coming(t).keys[k] # None
          BY <2>1, <2>3, <4>2 DEF Or
        <4> QED
          BY <4>1, <4>2
      <3> QED
        BY <3>1, <3>2
    <2>5. CASE f.token
      <3>1. Finish(t) /\ wanted' = Coming(t)
        BY <1>9, <2>5 DEF Export, Finish, Coming
      <3>2. Settled'
        <4>1. WantedLocal' = WantedLocal
          BY <1>4, <2>1, <2>5, <3>1 DEF WantedLocal
        <4> HIDE DEF Coming, WantedLocal
        <4> QED
          BY <2>1, <2>4, <3>1, <4>1 DEF Settled, EnvironKnows
      <3>3. step' = [step EXCEPT ![t] = "idle"] /\ "idle" \in Steps
        BY <3>1 DEF Finish, StepTo, Steps
      <3> QED
        BY <1>2, <3>2, <3>3
    <2>6. CASE ~f.token
      <3>1. /\ step' = [step EXCEPT ![t] = "readLocal"] /\ step'[t] = "readLocal"
            /\ "readLocal" \in Steps /\ UNCHANGED <<task, wanted>>
        BY <1>3, <1>9, <2>6 DEF Export, StepTo, Steps
      <3>2. Coming(t)' = Coming(t) /\ WantedLocal' = WantedLocal
        BY <3>1, ComingStays
      <3>3. StageOK(t)'
        <4> HIDE DEF Coming, WantedLocal
        <4> QED
          BY <2>1, <2>4, <3>1, <3>2 DEF StageOK, LocalSteps, EnvironKnows
      <3> QED
        BY <1>2, <3>1, <3>3
    <2> QED
      BY <2>5, <2>6
  <1>10. CASE ReadLocal(t)
    <2>1. step[t] = "readLocal" /\ UNCHANGED wanted
      BY <1>10 DEF ReadLocal
    <2>2. step' = [step EXCEPT ![t] = "cutLocal"] /\ step'[t] = "cutLocal" /\ "cutLocal" \in Steps
      BY <1>3, <1>10 DEF ReadLocal, StepTo, Steps
    <2>3. /\ task'[t].form = task[t].form /\ task'[t].target = task[t].target
          /\ task'[t].data = local
      <3>1. task' = [task EXCEPT ![t] = [task[t] EXCEPT !.data = local]]
        BY <1>1, <1>10 DEF ReadLocal
      <3>2. task[t] \in Tasks /\ local \in Locals
        BY <1>1, TaskIs DEF Typed, SettingsTypeOK
      <3> HIDE DEF Tasks
      <3> QED
        BY <1>1, <3>1, <3>2, TaskTyped
    <2>4. /\ Coming(t)' = Coming(t) /\ NextLocal(t)' = NextLocal(t)
          /\ WantedLocal' = WantedLocal
      BY <2>1, <2>3, ComingStays
    <2>9. StageOK(t)'
      <3> HIDE DEF Coming, NextLocal, WantedLocal, Updates, Over, Entry
      <3> QED
        BY <1>1, <1>10, <2>1, <2>2, <2>3, <2>4 DEF ReadLocal, StageOK, LocalSteps, EnvironKnows
    <2> QED
      BY <1>2, <2>2, <2>9
  <1>11. CASE CutLocal(t)
    <2>1. step[t] = "cutLocal" /\ UNCHANGED wanted
      BY <1>11 DEF CutLocal
    <2>2. step' = [step EXCEPT ![t] = "writeLocal"] /\ step'[t] = "writeLocal" /\ "writeLocal" \in Steps
      BY <1>3, <1>11 DEF CutLocal, StepTo, Steps
    <2>3. task' = task
      BY <1>11 DEF CutLocal
    <2>4. /\ Coming(t)' = Coming(t) /\ NextLocal(t)' = NextLocal(t)
          /\ WantedLocal' = WantedLocal
      BY <2>1, <2>3, ComingStays
    <2>9. StageOK(t)'
      <3> HIDE DEF Coming, NextLocal, WantedLocal, Updates, Over, Entry
      <3> QED
        BY <1>1, <1>11, <2>1, <2>2, <2>3, <2>4 DEF CutLocal, StageOK, LocalSteps, EnvironKnows
    <2> QED
      BY <1>2, <2>2, <2>9
  <1>12. CASE WriteLocal(t)
    <2>1. step[t] = "writeLocal" /\ UNCHANGED wanted
      BY <1>12 DEF WriteLocal
    <2>2. step' = [step EXCEPT ![t] = "reload"] /\ step'[t] = "reload" /\ "reload" \in Steps
      BY <1>3, <1>12 DEF WriteLocal, StepTo, Steps
    <2>3. task' = task
      BY <1>12 DEF WriteLocal
    <2>4. /\ Coming(t)' = Coming(t) /\ NextLocal(t)' = NextLocal(t)
          /\ WantedLocal' = WantedLocal
      BY <2>1, <2>3, ComingStays
    <2>5. local' = NextLocal(t)
      BY <1>1, <1>12, <2>1 DEF WriteLocal, StageOK, NextLocal, WantedLocal
    <2>9. StageOK(t)'
      <3> HIDE DEF Coming, NextLocal, WantedLocal, Updates, Over, Entry
      <3> QED
        BY <1>1, <1>12, <2>1, <2>2, <2>3, <2>4, <2>5 DEF WriteLocal, StageOK, LocalSteps, EnvironKnows
    <2> QED
      BY <1>2, <2>2, <2>9
  <1>13. CASE Reload(t)
    <2>1. /\ step[t] = "reload" /\ UNCHANGED <<envFile, local>>
          /\ envFile = Coming(t).keys /\ local = NextLocal(t)
          /\ EnvironKnows(Coming(t).keys, Coming(t).fresh)
          /\ ~task[t].form.token
      BY <1>1, <1>13 DEF Reload, StageOK, LocalSteps, Typed, TaskOK
    <2>2. Finish(t) /\ wanted' = Coming(t) /\ environ' = Dotenv(envFile, environ)
      BY <1>13 DEF Reload, Finish, Coming
    <2>3. \A k \in EnvKeys :
            LET line == Reads[Coming(t).keys[k]]
            IN  IF Coming(t).fresh THEN environ'[k] = Or(line, Shell[k])
                ELSE environ'[k] \in {Shell[k], Or(Shell[k], line)}
      <3>1. \A k \in EnvKeys : envFile[k] \in {None, Coming(t).keys[k]}
        BY <2>1
      <3> HIDE DEF Coming, EnvironKnows
      <3> QED
        BY <2>1, <2>2, <3>1, LoadKnows
    <2>4. WantedLocal' = NextLocal(t)
      BY <1>4, <2>1, <2>2 DEF WantedLocal, NextLocal
    <2>5. Settled'
      <3> HIDE DEF Coming, WantedLocal, NextLocal
      <3> QED
        BY <2>1, <2>2, <2>3, <2>4 DEF Settled, EnvironKnows
    <2>6. step' = [step EXCEPT ![t] = "idle"] /\ "idle" \in Steps
      BY <2>2 DEF Finish, StepTo, Steps
    <2> QED
      BY <1>2, <2>5, <2>6
  <1> QED
    BY <1>5, <1>6, <1>7, <1>8, <1>9, <1>10, <1>11, <1>12, <1>13 DEF SettingsStep

LEMMA SettingsInvStep == Typed /\ SettingsInv /\ SettingsNext => SettingsInv'
  <1> SUFFICES ASSUME Typed, SettingsInv, SettingsNext PROVE SettingsInv'
    OBVIOUS
  <1>1. Promised'
    BY PromisedStep DEF SettingsInv
  <1>2. CASE tangled'
    BY <1>1, <1>2 DEF SettingsInv
  <1>3. CASE ~tangled'
    <2>1. ~tangled
      BY <1>3 DEF SettingsNext, Submit, SettingsStep, Decide, ReadEnv, CutEnv, WriteEnv,
         Export, ReadLocal, CutLocal, WriteLocal, Reload, Load, SettingsDie, settingsVars
    <2>2. /\ Promised /\ OneSaver /\ (Quiet => Settled)
          /\ \A t \in Web : Saving(t) => StageOK(t)
      BY <2>1 DEF SettingsInv
    <2>3. ASSUME NEW t \in Web, Submit(t) PROVE SettingsInv'
      <3>1. Quiet /\ Settled
        BY <1>3, <2>2, <2>3 DEF Submit, Quiet
      <3>2. step'[t] = "decide" /\ \A u \in Web \ {t} : step'[u] = "idle"
        BY <2>3, <3>1 DEF Submit, StepTo, Quiet, Saving, Typed, SettingsTypeOK
      <3>3. Settled'
        BY <2>3, <3>1 DEF Submit, Settled, EnvironKnows, WantedLocal
      <3>4. StageOK(t)'
        BY <3>2, <3>3 DEF StageOK, LocalSteps
      <3> HIDE DEF Settled, StageOK, Promised
      <3> QED
        BY <1>1, <3>2, <3>4 DEF SettingsInv, OneSaver, Quiet, Saving
    <2>4. ASSUME NEW t \in Web, SettingsStep(t) PROVE SettingsInv'
      BY <1>1, <2>1, <2>4, SaveStep
    <2>5. CASE Load
      <3>1. \A t \in Web : Saving(t) => StageOK(t)'
        BY <2>2, <2>5, StageLoads
      <3>2. Settled => Settled'
        BY <2>2, <2>5, SettledLoads DEF Load
      <3> HIDE DEF Settled, StageOK, Promised
      <3> QED
        BY <1>1, <2>2, <2>5, <3>1, <3>2 DEF Load, SettingsInv, OneSaver, Quiet, Saving
    <2>6. CASE SettingsDie
      <3>1. Settled /\ \A t \in Web : ~Saving(t)'
        BY <1>3, <2>2, <2>6 DEF SettingsDie, Quiet, Saving
      <3>2. /\ wanted'.keys = wanted.keys /\ wanted'.fresh = FALSE
            /\ wanted'.active = wanted.active /\ wanted'.items = wanted.items
        <4>1. wanted \in WantedType
          BY DEF Typed, SettingsTypeOK, WantedType
        <4> HIDE DEF EnvFiles, Entries
        <4> QED
          BY <2>6, <4>1 DEF SettingsDie, WantedType
      <3>3. Settled'
        BY <2>6, <3>1, <3>2 DEF SettingsDie, Settled, EnvironKnows, WantedLocal
      <3> HIDE DEF Settled, StageOK, Promised
      <3> QED
        BY <1>1, <3>1, <3>3 DEF SettingsInv, OneSaver, Quiet
    <2>7. CASE UNCHANGED settingsVars
      BY <1>1, <2>2, <2>7 DEF settingsVars, SettingsInv, OneSaver, Quiet, Settled, StageOK,
         Saving, EnvironKnows, WantedLocal, NextLocal, Coming, Promise
    <2> QED
      BY <2>3, <2>4, <2>5, <2>6, <2>7 DEF SettingsNext
  <1> QED
    BY <1>2, <1>3

\* Every variable of the server has its type, for any threads, connections,
\* keys, profiles and forms.
THEOREM TypeCorrect == Spec => []TypeOK
  <1>1. Init => Typed
    BY TypedInit DEF Init
  <1>2. Typed /\ [Next]_vars => Typed'
    BY StepOfSettings, TypedStep
  <1>3. Typed => SettingsTypeOK
    BY DEF Typed
  <1>4. DatabaseInv => DatabaseTypeOK
    BY DEF DatabaseInv
  <1>5. SettingsTypeOK /\ DatabaseTypeOK => TypeOK
    BY DEF TypeOK
  <1> QED
    BY <1>1, <1>2, <1>3, <1>4, <1>5, DatabaseInvHolds, PTL DEF Spec

\* When no save has overlapped another and none was cut off, what was saved last
\* is what a chat gets, every key has the value in force and every other profile
\* is still there: whatever .env held before the first save, its blank lines
\* included, after any number of saves and restarts (app.py:485-567, 1004-1164,
\* config.py:95-132).
THEOREM LastSaveAlwaysHolds == Spec => []LastSaveHolds
  <1>1. Init => Typed /\ SettingsInv
    BY TypedInit, SettingsInvInit DEF Init
  <1>2. Typed /\ SettingsInv /\ [Next]_vars => (Typed /\ SettingsInv)'
    BY StepOfSettings, TypedStep, SettingsInvStep
  <1>3. Typed /\ SettingsInv => LastSaveHolds
    BY SettledHolds
  <1> QED
    BY <1>1, <1>2, <1>3, PTL DEF Spec

=============================================================================
