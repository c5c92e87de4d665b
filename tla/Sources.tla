------------------------------- MODULE Sources -------------------------------
(***************************************************************************)
(* The source catalog: the targets and their acquisition bindings, who     *)
(* writes them, and what a refresh collects.                               *)
(*                                                                         *)
(*   - the server's event loop imports YAML texts and toggles sources, one *)
(*     request at a time;                                                  *)
(*   - request threads submit shared pages to the inbox and roll the       *)
(*     source snapshot back;                                               *)
(*   - a refresh, with a database connection of its own, decides on        *)
(*     discovery, adds what it found, migrates config/sources.yml if       *)
(*     nothing was ever imported, and resolves the snapshot it collects;   *)
(*   - whoever observes sources records observations and moves the         *)
(*     lifecycle of their targets (no caller under src/ but the tests).    *)
(*                                                                         *)
(* One SQLite transaction is one step; a method that opens several, or     *)
(* reads before it opens one, is as many steps.  A row of                  *)
(* acquisition_bindings is a source and a binding config; its payload, the *)
(* history tables and the migration report are left out.  A source of a    *)
(* YAML text has one entry in it.                                          *)
(***************************************************************************)
EXTENDS Naturals, Sequences, FiniteSetsExt

CONSTANTS
    YamlSources,    \* sources that YAML texts name
    Found,          \* sources that discovery may find, which a text may name too
    Creators,       \* creators whose pages users share
    Versions,       \* YAML texts, different in meaning
    Entries,        \* the entries of the texts: binding configs
    Entry,          \* per text, the entry of each source it names
    Enabled,        \* whether an entry says enabled
    Connector,      \* the connector type of a binding config
    FileVersion,    \* the text in config/sources.yml
    Probe,          \* the binding config a discovery probe returns
    Share, Route,   \* the inbox and the RSSHub binding config of a creator
    Observations,   \* what may be observed of a source; ratios are percentages
    Profiles,       \* profile hashes
    MaxInputs,      \* bound on what comes from outside: requests, refreshes, events
    Loop, Refresh,  \* the event loop and the refresh in progress
    Observer,       \* who observes the sources
    None            \* no profile, no text, no source, no snapshot

Sources == YamlSources \cup Found \cup Creators
Configs == Entries \cup {Probe, Share, Route}
Rows == Sources \X Configs
Statuses ==
    {"absent", "candidate", "probation", "active", "paused", "rejected", "unhealthy",
     "retired"}
Actors == {Loop, Refresh, Observer} \cup Creators
Labels ==
    {"idle", "check", "import", "toggle", "bindings", "target", "targetReady", "share",
     "shareReady", "route", "item", "decide", "skip", "due", "search", "candidates",
     "accept", "bind", "record", "boot", "list", "draw", "store", "activate", "pointer",
     "collect", "ingest", "ingested", "observed", "transition"}

ASSUME SourcesAssumption ==
    /\ DOMAIN Entry = Versions
    /\ \A v \in Versions : /\ DOMAIN Entry[v] \subseteq YamlSources
                           /\ \A s \in DOMAIN Entry[v] : Entry[v][s] \in Entries
    /\ Enabled \in [Entries -> BOOLEAN]
    /\ Connector \in [Configs -> {"rss", "rsshub", "inbox"}]
    /\ Connector[Probe] = "rss" /\ Connector[Route] = "rsshub"
    /\ \A c \in Configs : Connector[c] = "inbox" <=> c = Share
    /\ Observations \subseteq [ok : BOOLEAN, useful : Nat, duplicate : 0..100,
                               failures : Nat, health : 0..100]
    /\ FileVersion \in Versions
    /\ MaxInputs \in Nat
    /\ Loop # Refresh /\ Observer \notin {Loop, Refresh}
    /\ {Loop, Refresh, Observer} \cap Creators = {}
    /\ None \notin Versions \cup Sources \cup Profiles
    /\ {Probe, Share, Route} \cap Entries = {}

VARIABLES
    status,     \* source_targets: the status of each target, or absent
    bound,      \* acquisition_bindings: the rows
    on,         \* the rows that are ACTIVE
    shared,     \* inbox_items: the creators of whom an item is stored
    observed,   \* source_observations: per target, in the order of their times
    imports,    \* source_imports: the texts imported
    snapshots,  \* source_snapshots, each the rows it resolves
    active,     \* active_source_snapshots: a snapshot and whether it is pinned
    anchored,   \* whether a snapshot has the anchor's id
    at,         \* where the event loop, the refresh and every other actor is
    text,       \* per importer, the text it imports
    toggle,     \* the toggle in progress: its source, direction and rows to do
    decision,   \* the source being observed, the status decided for it
    found,      \* the candidate that discovery adds
    goal,       \* what the refresh draws a snapshot for
    listed,     \* the targets it has listed for it
    drawn,      \* the rows it has drawn from them; then those it collects from
    using,      \* the profile hash it works with
    profile,    \* the profile hash, None for the neutral profile
    lastRun,    \* the last discovery run: whether there is one, its profile hash
    due,        \* what else makes a discovery due: see Quiet
    word,       \* history: what the last import or toggle said of each source
    asked,      \* history: what it said when the refresh looked, if it still does
    searched,   \* history: the profile hash of the last run that was not skipped
    inputs      \* how many inputs there have been

evidence == <<shared, observed, decision>>
rows == <<status, bound, on, evidence>>
pointer == <<snapshots, active, anchored>>
drawing == <<found, goal, listed, drawn, using>>
cadence == <<profile, lastRun, due, searched>>
history == <<word, asked>>
vars == <<rows, imports, pointer, at, text, toggle, drawing, cadence, history, inputs>>

Importers == {Loop, Refresh}
NoToggle == [source |-> None, enable |-> FALSE, todo |-> {}, clean |-> FALSE]
NoDecision == [source |-> None, next |-> "absent"]
NoRun == [any |-> FALSE, profile |-> None]
\* now: the interval has elapsed, or a follow or share event is newer than the
\* last run; late: one is newer than the run in progress.
Quiet == [now |-> FALSE, late |-> FALSE]
Unset == [set |-> FALSE, snapshot |-> {}, pinned |-> FALSE]

Init ==
    /\ status = [s \in Sources |-> "absent"] /\ bound = {} /\ on = {}
    /\ shared = {} /\ observed = [s \in Sources |-> <<>>] /\ decision = NoDecision
    /\ imports = {} /\ snapshots = {} /\ active = Unset /\ anchored = FALSE
    /\ at = [a \in Actors |-> "idle"]
    /\ text = [a \in Importers |-> None] /\ toggle = NoToggle
    /\ found = None /\ goal = "none" /\ listed = {} /\ drawn = {}
    /\ using = None
    /\ profile = None /\ lastRun = NoRun /\ due = Quiet /\ searched = None
    /\ word = [s \in Sources |-> "none"] /\ asked = [s \in Sources |-> "open"]
    /\ inputs = 0

\* One more of the inputs that the bound allows.
Input == inputs < MaxInputs /\ inputs' = inputs + 1

Goto(a, label) == at' = [at EXCEPT ![a] = label]
RowsOf(s) == {row \in bound : row[1] = s}
\* snapshot_to_sources_config: what a refresh fetches of the rows of a snapshot.
\* An inbox row stands for items that are stored already.
Fetched(some) == {row \in some : Connector[row[2]] # "inbox"}
HasFeed(s) == Fetched(RowsOf(s)) # {}
Collectable(s) ==
    /\ status[s] \in {"active", "probation"}
    /\ \E row \in Fetched(on) : row[1] = s
\* upsert_target: a target that is there stays as it is.
AddSource(s, initial) ==
    status' = [status EXCEPT ![s] = IF @ = "absent" THEN initial ELSE @]
\* add_binding: a row that is there is returned as it is.
AddRow(row) ==
    /\ bound' = bound \cup {row}
    /\ on' = IF row \in bound THEN on ELSE on \cup {row}

\* History: something new is said of some sources; what it was for the refresh
\* in progress no longer counts.
Say(sources, what) ==
    /\ word' = [s \in Sources |-> IF s \in sources THEN what[s] ELSE word[s]]
    /\ asked' = [s \in Sources |-> IF s \in sources THEN "open" ELSE asked[s]]
Open == [s \in Sources |-> "open"]
Words == {"none", "open", "on", "off"}

-----------------------------------------------------------------------------
(* import_yaml_text, by PUT /api/sources or by the migration of a refresh *)

ImportCalled(v) ==
    /\ Input
    /\ at[Loop] = "idle"
    /\ text' = [text EXCEPT ![Loop] = v]
    /\ Goto(Loop, "check")
    /\ UNCHANGED <<rows, imports, pointer, toggle, drawing, cadence, history>>

\* Where an importer goes when its import is done.
ImportDone(a) ==
    /\ Goto(a, IF a = Loop THEN "idle" ELSE "list")
    /\ text' = [text EXCEPT ![a] = None]
    /\ goal' = IF a = Loop THEN goal ELSE "migration"

\* A text that was imported before is not imported again, whatever was
\* imported since.
ImportChecks(a) ==
    /\ at[a] = "check"
    /\ IF text[a] \in imports THEN ImportDone(a)
                              ELSE Goto(a, "import") /\ UNCHANGED <<text, goal>>
    /\ UNCHANGED <<rows, imports, pointer, toggle, found, listed, drawn, using,
                   cadence, history, inputs>>

Named(a) == DOMAIN Entry[text[a]]
RowOf(a, s) == <<s, Entry[text[a]][s]>>
Superseded(a) ==
    {row \in on : /\ row[1] \in Named(a)
                  /\ row # RowOf(a, row[1])
                  /\ Connector[row[2]] = Connector[Entry[text[a]][row[1]]]}
NewRows(a) == {RowOf(a, s) : s \in Named(a)} \ bound
EnabledIn(a, s) == Enabled[Entry[text[a]][s]]

\* What the import says of a source: nothing certain if its entry was imported
\* before, since the row is kept as it is, or while it is being toggled.
ImportSays(a) == [s \in Sources |->
    IF s \notin Named(a) \/ s = toggle.source \/ RowOf(a, s) \in bound THEN "open"
    ELSE IF EnabledIn(a, s) THEN "on" ELSE "off"]

\* One transaction: per source, the target takes the status the text gives it,
\* the active rows of the same connector with another config go, and the row is
\* added unless it is there.
Imports(a) ==
    /\ at[a] = "import" /\ text[a] \notin imports
    /\ status' = [s \in Sources |->
          IF s \notin Named(a) THEN status[s]
          ELSE IF EnabledIn(a, s) THEN "active" ELSE "paused"]
    /\ bound' = bound \cup NewRows(a)
    /\ on' = (on \ Superseded(a)) \cup {row \in NewRows(a) : Enabled[row[2]]}
    /\ imports' = imports \cup {text[a]}
    /\ toggle' = [toggle EXCEPT !.clean = @ /\ toggle.source \notin Named(a)]
    /\ ImportDone(a)
    /\ Say(Named(a), ImportSays(a))
    /\ UNCHANGED <<evidence, pointer, found, listed, drawn, using, cadence, inputs>>

\* The database stays locked, or the other importer has recorded the text since
\* the check: nothing is written, and the request fails.  A refresh fails as a
\* whole: see RefreshRaises.
ImportRaises ==
    /\ at[Loop] = "import"
    /\ Goto(Loop, "idle")
    /\ text' = [text EXCEPT ![Loop] = None]
    /\ UNCHANGED <<rows, imports, pointer, toggle, drawing, cadence, history,
                   inputs>>

-----------------------------------------------------------------------------
(* set_legacy_source_enabled, by POST or PATCH /api/sources/{id} *)

ToggleCalled(s, enable) ==
    /\ Input
    /\ at[Loop] = "idle"
    /\ status[s] # "absent"
    /\ toggle' = [source |-> s, enable |-> enable, todo |-> RowsOf(s), clean |-> TRUE]
    /\ Goto(Loop, "toggle")
    /\ Say({s}, Open)
    /\ UNCHANGED <<rows, imports, pointer, text, drawing, cadence>>

\* The answer.  It says nothing certain of a source without bindings, or with
\* one that an import has meanwhile named.
ToggleEnds(clean) ==
    /\ toggle' = NoToggle
    /\ Goto(Loop, "idle")
    /\ Say({toggle.source}, [s \in Sources |->
          IF ~clean THEN "open" ELSE IF toggle.enable THEN "on" ELSE "off"])

ToggleSetsStatus ==
    /\ at[Loop] = "toggle"
    /\ status' = [status EXCEPT ![toggle.source] =
          IF toggle.enable THEN "active" ELSE "paused"]
    /\ IF toggle.todo = {} THEN ToggleEnds(FALSE)
       ELSE Goto(Loop, "bindings") /\ UNCHANGED <<toggle, history>>
    /\ UNCHANGED <<bound, on, evidence, imports, pointer, text, drawing, cadence, inputs>>

ToggleGoesOn(row) ==
    IF toggle.todo = {row} THEN ToggleEnds(toggle.clean)
    ELSE /\ toggle' = [toggle EXCEPT !.todo = @ \ {row}]
         /\ UNCHANGED <<at, history>>

\* Mutant: every toggle writes inactive.
ToggleSetsInactive ==
    /\ at[Loop] = "bindings"
    /\ \E row \in toggle.todo : on' = on \ {row} /\ ToggleGoesOn(row)
    /\ UNCHANGED <<status, bound, evidence, imports, pointer, text, drawing, cadence,
                   inputs>>

ToggleSetsBinding ==
    /\ at[Loop] = "bindings"
    /\ \E row \in toggle.todo :
          /\ on' = IF toggle.enable THEN on \cup {row} ELSE on \ {row}
          /\ ToggleGoesOn(row)
    /\ UNCHANGED <<status, bound, evidence, imports, pointer, text, drawing, cadence,
                   inputs>>

-----------------------------------------------------------------------------
(* InboxService.submit, by POST /api/inbox/items, for a creator's page *)

\* The tracking probe passes or fails.
SubmitCalled(c) ==
    /\ Input
    /\ at[c] = "idle"
    /\ \E ready \in {"target", "targetReady"} : Goto(c, ready)
    /\ UNCHANGED <<rows, imports, pointer, text, toggle, drawing, cadence, history>>

SubmitTarget(c) ==
    /\ at[c] \in {"target", "targetReady"}
    /\ AddSource(c, IF at[c] = "target" THEN "candidate" ELSE "probation")
    /\ Goto(c, IF at[c] = "target" THEN "share" ELSE "shareReady")
    /\ UNCHANGED <<bound, on, evidence, imports, pointer, text, toggle, drawing, cadence,
                   history, inputs>>

\* Each item has an inbox binding of its own; Share stands for all of them.
SubmitShare(c) ==
    /\ at[c] \in {"share", "shareReady"}
    /\ bound' = bound \cup {<<c, Share>>} /\ on' = on \cup {<<c, Share>>}
    /\ Goto(c, IF at[c] = "share" THEN "item" ELSE "route")
    /\ UNCHANGED <<status, evidence, imports, pointer, text, toggle, drawing, cadence,
                   history, inputs>>

SubmitRoute(c) ==
    /\ at[c] = "route"
    /\ AddRow(<<c, Route>>)
    /\ Goto(c, "item")
    /\ UNCHANGED <<status, evidence, imports, pointer, text, toggle, drawing, cadence,
                   history, inputs>>

\* The item itself: what a refresh merges.
SubmitItem(c) ==
    /\ at[c] = "item"
    /\ shared' = shared \cup {c}
    /\ Goto(c, "idle")
    /\ UNCHANGED <<status, bound, on, observed, decision, imports, pointer, text, toggle,
                   drawing, cadence, history, inputs>>

-----------------------------------------------------------------------------
(* Discovery, in the step discover_sources of a refresh *)

RefreshStarts ==
    /\ at[Refresh] = "idle"
    /\ Input
    /\ Goto(Refresh, "decide")
    /\ UNCHANGED <<rows, imports, pointer, text, toggle, found, goal, listed, drawn,
                   using, cadence, history>>

\* Fewer than six in ten targets are healthy, or one is unhealthy.
CoverageIsLow ==
    LET known == {s \in Sources : status[s] # "absent"}
        healthy == {s \in known : status[s] \in {"active", "probation"}}
    IN \/ known = {} \/ 10 * Cardinality(healthy) < 6 * Cardinality(known)
       \/ \E s \in known : status[s] = "unhealthy"

\* Mutant: the profile does not matter.
DueWhateverProfile ==
    \/ due.now \/ ~lastRun.any
    \/ CoverageIsLow

\* decide_source_discovery_due
Due ==
    \/ profile # None /\ profile # lastRun.profile
    \/ due.now \/ ~lastRun.any
    \/ CoverageIsLow

\* The profile the refresh resolved, the last run, the events since then and
\* the targets are read; the run takes its start time afterwards.
Decides ==
    /\ at[Refresh] = "decide"
    /\ using' = profile
    /\ Goto(Refresh, IF Due THEN "due" ELSE "skip")
    /\ UNCHANGED <<rows, imports, pointer, text, toggle, found, goal, listed, drawn,
                   cadence, history, inputs>>

\* What a refresh keeps of a discovery or of a snapshot it draws.
Dropped ==
    found' = None /\ goal' = "none" /\ listed' = {} /\ drawn' = {} /\ using' = None

\* append_run, whatever became of the run: what happened before it started is
\* behind it.
Recorded ==
    /\ lastRun' = [any |-> TRUE, profile |-> using]
    /\ due' = [now |-> due.late, late |-> FALSE]
    /\ Goto(Refresh, "boot") /\ Dropped
    /\ UNCHANGED profile

Skips ==
    /\ at[Refresh] = "skip"
    /\ Recorded /\ UNCHANGED searched
    /\ UNCHANGED <<rows, imports, pointer, text, toggle, history, inputs>>

SearchStarts ==
    /\ at[Refresh] = "due"
    /\ Goto(Refresh, "search")
    /\ UNCHANGED <<rows, imports, pointer, text, toggle, drawing, cadence, history,
                   inputs>>

\* Every query failed, or the agent did.
SearchDegrades ==
    /\ at[Refresh] = "search"
    /\ Recorded /\ searched' = using
    /\ UNCHANGED <<rows, imports, pointer, text, toggle, history, inputs>>

CandidatesFound ==
    /\ at[Refresh] = "search"
    /\ Goto(Refresh, "candidates")
    /\ UNCHANGED <<rows, imports, pointer, text, toggle, drawing, cadence, history,
                   inputs>>

\* A candidate that has no target is probed, and passes.  One that has a target
\* is not probed.
Accepts(s) ==
    /\ at[Refresh] = "candidates" /\ status[s] = "absent"
    /\ found' = s
    /\ Goto(Refresh, "accept")
    /\ UNCHANGED <<rows, imports, pointer, text, toggle, goal, listed, drawn, using,
                   cadence, history, inputs>>

\* A target that was added since it was probed stays as it is.
AddTarget ==
    /\ at[Refresh] = "accept"
    /\ AddSource(found, "probation")
    /\ Goto(Refresh, "bind")
    /\ UNCHANGED <<bound, on, evidence, imports, pointer, text, toggle, drawing, cadence,
                   history, inputs>>

AddBinding ==
    /\ at[Refresh] = "bind"
    /\ AddRow(<<found, Probe>>)
    /\ found' = None
    /\ Goto(Refresh, "candidates")
    /\ UNCHANGED <<status, evidence, imports, pointer, text, toggle, goal, listed, drawn,
                   using, cadence, history, inputs>>

\* No more candidates, or there was nothing to search for.
CandidatesDone ==
    /\ at[Refresh] \in {"search", "candidates"}
    /\ goal' = "discovery"
    /\ Goto(Refresh, "list")
    /\ UNCHANGED <<rows, imports, pointer, text, toggle, found, listed, drawn, using,
                   cadence, history, inputs>>

DiscoveryRecorded ==
    /\ at[Refresh] = "record"
    /\ Recorded /\ searched' = using
    /\ UNCHANGED <<rows, imports, pointer, text, toggle, history, inputs>>

-----------------------------------------------------------------------------
(* The step resolve_source_snapshot, and create_snapshot wherever it is called *)

\* Mutant: the file is not read.
BootsWithoutText ==
    /\ at[Refresh] = "boot"
    /\ IF imports # {} THEN Goto(Refresh, "pointer") /\ UNCHANGED <<text, goal>>
       ELSE /\ goal' = "anchor"
            /\ Goto(Refresh, IF anchored THEN "check" ELSE "list")
            /\ UNCHANGED text
    /\ UNCHANGED <<rows, imports, pointer, toggle, found, listed, drawn, using, cadence,
                   history, inputs>>

\* migrate_l4, if no text was ever imported: it draws an anchor first, unless a
\* migration that came to nothing has left one.
Boots ==
    /\ at[Refresh] = "boot"
    /\ IF imports # {} THEN Goto(Refresh, "pointer") /\ UNCHANGED <<text, goal>>
       ELSE /\ text' = [text EXCEPT ![Refresh] = FileVersion]
            /\ goal' = "anchor"
            /\ Goto(Refresh, IF anchored THEN "check" ELSE "list")
    /\ UNCHANGED <<rows, imports, pointer, toggle, found, listed, drawn, using,
                   cadence, history, inputs>>

\* create_snapshot reads the targets, then the bindings, then stores the rows
\* under the given id, unless the same rows are stored under another one.
ListTargets ==
    /\ at[Refresh] = "list"
    /\ listed' = {s \in Sources : status[s] \in {"active", "probation"}}
    /\ Goto(Refresh, "draw")
    /\ UNCHANGED <<rows, imports, pointer, text, toggle, found, goal, drawn, using,
                   cadence, history, inputs>>

\* Mutant: the status of the target is not asked.
ListAllBindings ==
    /\ at[Refresh] = "draw"
    /\ drawn' = on
    /\ listed' = {}
    /\ Goto(Refresh, "store")
    /\ UNCHANGED <<rows, imports, pointer, text, toggle, found, goal, using, cadence,
                   history, inputs>>

ListBindings ==
    /\ at[Refresh] = "draw"
    /\ drawn' = {row \in on : row[1] \in listed}
    /\ listed' = {}
    /\ Goto(Refresh, "store")
    /\ UNCHANGED <<rows, imports, pointer, text, toggle, found, goal, using, cadence,
                   history, inputs>>

StoreSnapshot ==
    /\ at[Refresh] = "store"
    /\ snapshots' = snapshots \cup {drawn}
    /\ anchored' = (anchored \/ (goal = "anchor" /\ drawn \notin snapshots))
    /\ Goto(Refresh, CASE goal = "discovery" -> "record"
                       [] goal = "anchor"    -> "check"
                       [] OTHER              -> "activate")
    /\ UNCHANGED <<rows, imports, active, text, toggle, drawing, cadence, history,
                   inputs>>

\* The snapshot after the migration, and the one to collect, are activated.
Activate ==
    /\ at[Refresh] = "activate"
    /\ active' = [set |-> TRUE, snapshot |-> drawn, pinned |-> FALSE]
    /\ Goto(Refresh, IF goal = "migration" THEN "pointer" ELSE "collect")
    /\ UNCHANGED <<rows, imports, snapshots, anchored, text, toggle, drawing, cadence,
                   history, inputs>>

\* A pinned snapshot is collected as it is.
ReadPointer ==
    /\ at[Refresh] = "pointer"
    /\ IF active.pinned
       THEN /\ drawn' = active.snapshot /\ goal' = "pinned" /\ Goto(Refresh, "collect")
            /\ UNCHANGED asked
       ELSE /\ goal' = "resolve" /\ Goto(Refresh, "list")
            /\ asked' = [s \in Sources |->
                  IF word[s] = "on" /\ ~HasFeed(s) THEN "open" ELSE word[s]]
            /\ UNCHANGED drawn
    /\ UNCHANGED <<rows, imports, pointer, text, toggle, found, listed, using,
                   cadence, word, inputs>>

RefreshCleared ==
    /\ Dropped
    /\ asked' = [s \in Sources |-> "open"]

\* The snapshot becomes the configuration that the collector fetches.
Collects ==
    /\ at[Refresh] = "collect"
    /\ drawn' = Fetched(drawn)
    /\ Goto(Refresh, "ingest")
    /\ UNCHANGED <<rows, imports, pointer, text, toggle, found, goal, listed, using,
                   cadence, history, inputs>>

\* _ingest_store: the inbox is merged into what was fetched, whatever the status
\* of its creators.
Merges ==
    /\ at[Refresh] = "ingest"
    /\ drawn' = drawn \cup {<<c, Share>> : c \in shared}
    /\ Goto(Refresh, "ingested")
    /\ UNCHANGED <<rows, imports, pointer, text, toggle, found, goal, listed, using,
                   cadence, history, inputs>>

RefreshEnds ==
    /\ at[Refresh] = "ingested"
    /\ Goto(Refresh, "idle") /\ RefreshCleared
    /\ UNCHANGED <<rows, imports, pointer, text, toggle, cadence, word, inputs>>

Discovering ==
    \/ at[Refresh] \in {"decide", "skip", "due", "search", "candidates", "accept", "bind",
                       "record"}
    \/ at[Refresh] \in {"list", "draw", "store"} /\ goal = "discovery"

\* An exception: discover_sources may fail, resolve_source_snapshot may not.
RefreshRaises ==
    /\ at[Refresh] # "idle"
    /\ Goto(Refresh, IF Discovering THEN "boot" ELSE "idle") /\ RefreshCleared
    /\ text' = [text EXCEPT ![Refresh] = None]
    /\ UNCHANGED <<rows, imports, pointer, toggle, cadence, word, inputs>>

-----------------------------------------------------------------------------
(* observe_and_transition: an observation is appended, the lifecycle is decided *)
(* from the target and its observations, and the new status is written          *)

Observes(s, o) ==
    /\ Input
    /\ at[Observer] = "idle"
    /\ status[s] # "absent"
    /\ observed' = [observed EXCEPT ![s] = Append(@, o)]
    /\ decision' = [source |-> s, next |-> "absent"]
    /\ Goto(Observer, "observed")
    /\ UNCHANGED <<status, bound, on, shared, imports, pointer, text, toggle, drawing,
                   cadence, history>>

\* decide_source_lifecycle, on the last six observations.
Recent(s) == {i \in DOMAIN observed[s] : i + 6 > Len(observed[s])}
Latest(s) == observed[s][Len(observed[s])]
Useful(s) == MapThenSumSet(LAMBDA i : observed[s][i].useful, Recent(s))
Duplicate(s) == MapThenSumSet(LAMBDA i : observed[s][i].duplicate, Recent(s))

\* Mutant: one good sample is enough.
WorthKeepingAtOnce(s) ==
    /\ \E i \in Recent(s) : observed[s][i].ok
    /\ Useful(s) >= 3
    /\ 2 * Duplicate(s) <= 100 * Cardinality(Recent(s))

\* At least two samples succeeded, three items were useful, and no more than half
\* were duplicates.
WorthKeeping(s) ==
    /\ \E i, j \in Recent(s) : i < j /\ observed[s][i].ok /\ observed[s][j].ok
    /\ Useful(s) >= 3
    /\ 2 * Duplicate(s) <= 100 * Cardinality(Recent(s))
Worthless(s) == Cardinality(Recent(s)) >= 3 /\ Useful(s) = 0

Decided(s) ==
    CASE status[s] = "probation" /\ WorthKeeping(s) -> "active"
      [] status[s] = "probation" /\ Worthless(s)    -> "rejected"
      [] /\ status[s] = "active"
         /\ Latest(s).failures >= 3 \/ Latest(s).health < 40 -> "unhealthy"
      [] status[s] = "unhealthy" /\ Latest(s).failures >= 6 -> "retired"
      [] /\ status[s] = "unhealthy" /\ Latest(s).failures < 6
         /\ Latest(s).ok /\ Latest(s).health >= 70  -> "paused"
      [] OTHER -> status[s]

DecidesLifecycle ==
    /\ at[Observer] = "observed"
    /\ LET s == decision.source IN
          IF Decided(s) = status[s]
          THEN Goto(Observer, "idle") /\ decision' = NoDecision
          ELSE /\ Goto(Observer, "transition")
               /\ decision' = [decision EXCEPT !.next = Decided(s)]
    /\ UNCHANGED <<status, bound, on, shared, observed, imports, pointer, text, toggle,
                   drawing, cadence, history, inputs>>

\* set_target_status, over whatever the status is by now.  What was said of the
\* source is no longer certain; nothing is said of one nobody spoke of.
Transitions ==
    /\ at[Observer] = "transition"
    /\ status' = [status EXCEPT ![decision.source] = decision.next]
    /\ decision' = NoDecision
    /\ toggle' = [toggle EXCEPT !.clean = @ /\ toggle.source # decision.source]
    /\ Goto(Observer, "idle")
    /\ Say({decision.source}, [s \in Sources |->
          IF word[s] = "none" THEN "none" ELSE "open"])
    /\ UNCHANGED <<bound, on, shared, observed, imports, pointer, text, drawing, cadence,
                   inputs>>

-----------------------------------------------------------------------------
(* The inspector, the world outside, and the end of the process *)

\* rollback_source_snapshot
Rollback(snapshot) ==
    /\ Input
    /\ snapshot \in snapshots
    /\ active' = [set |-> TRUE, snapshot |-> snapshot, pinned |-> TRUE]
    /\ UNCHANGED <<rows, imports, snapshots, anchored, at, text, toggle, drawing,
                   cadence, history>>

ProfileChanges(p) ==
    /\ Input
    /\ p # profile /\ profile' = p
    /\ UNCHANGED <<rows, imports, pointer, at, text, toggle, drawing, lastRun, due,
                   searched, history>>

TimePasses ==
    /\ Input
    /\ at[Refresh] = "idle" /\ lastRun.any
    /\ due' = [due EXCEPT !.now = TRUE]
    /\ UNCHANGED <<rows, imports, pointer, at, text, toggle, drawing, profile,
                   lastRun, searched, history>>

\* A follow or a share event is appended, before or after a run has started.
Follows ==
    /\ Input
    /\ due' = IF Discovering /\ at[Refresh] \notin {"decide", "skip", "due"}
              THEN [due EXCEPT !.late = TRUE] ELSE [due EXCEPT !.now = TRUE]
    /\ UNCHANGED <<rows, imports, pointer, at, text, toggle, drawing, profile,
                   lastRun, searched, history>>

Crash ==
    /\ at' = [a \in Actors |-> "idle"]
    /\ toggle' = NoToggle /\ decision' = NoDecision
    /\ text' = [a \in Importers |-> None]
    /\ RefreshCleared
    /\ UNCHANGED <<status, bound, on, shared, observed, imports, pointer, cadence, word,
                   inputs>>

LoopNext ==
    \/ \E v \in Versions : ImportCalled(v)
    \/ \E s \in Sources, enable \in BOOLEAN : ToggleCalled(s, enable)
    \/ ToggleSetsStatus
    \/ ToggleSetsBinding
    \/ ImportRaises
ImportNext(a) == ImportChecks(a) \/ Imports(a)
InboxNext(c) ==
    \/ SubmitCalled(c) \/ SubmitTarget(c) \/ SubmitShare(c) \/ SubmitRoute(c)
    \/ SubmitItem(c)
DiscoveryNext ==
    \/ RefreshStarts \/ Decides \/ Skips \/ SearchStarts \/ SearchDegrades
    \/ CandidatesFound \/ AddTarget \/ AddBinding \/ CandidatesDone
    \/ DiscoveryRecorded
    \/ \E s \in Found : Accepts(s)
SnapshotNext ==
    \/ Boots \/ ListTargets \/ ListBindings \/ StoreSnapshot \/ Activate
    \/ ReadPointer \/ Collects \/ Merges \/ RefreshEnds \/ RefreshRaises
ObserverNext ==
    \/ \E s \in Sources, o \in Observations : Observes(s, o)
    \/ DecidesLifecycle \/ Transitions
OutsideNext ==
    \/ \E snapshot \in snapshots : Rollback(snapshot)
    \/ \E p \in Profiles : ProfileChanges(p)
    \/ TimePasses \/ Follows \/ Crash

Next ==
    \/ LoopNext
    \/ \E a \in Importers : ImportNext(a)
    \/ \E c \in Creators : InboxNext(c)
    \/ DiscoveryNext
    \/ SnapshotNext
    \/ ObserverNext
    \/ OutsideNext

Spec == Init /\ [][Next]_vars

-----------------------------------------------------------------------------
\* Every variable stays in its range.
TypeOK ==
    /\ status \in [Sources -> Statuses]
    /\ bound \subseteq Rows /\ on \subseteq bound
    /\ shared \subseteq Creators
    /\ observed \in [Sources -> Seq(Observations)]
    /\ decision \in [source : Sources \cup {None}, next : Statuses]
    /\ at[Observer] \in {"observed", "transition"} => decision.source # None
    /\ at[Observer] = "transition" => decision.next # "absent"
    /\ imports \subseteq Versions
    /\ snapshots \subseteq SUBSET Rows
    /\ active \in [set : BOOLEAN, snapshot : SUBSET Rows, pinned : BOOLEAN]
    /\ anchored \in BOOLEAN
    /\ at \in [Actors -> Labels]
    /\ text \in [Importers -> Versions \cup {None}]
    /\ at[Loop] \in {"check", "import"} => text[Loop] # None
    /\ at[Refresh] \in {"check", "import"} \/ goal = "anchor" => text[Refresh] # None
    /\ toggle \in [source : Sources \cup {None}, enable : BOOLEAN,
                   todo : SUBSET bound, clean : BOOLEAN]
    /\ at[Loop] \in {"toggle", "bindings"} => toggle.source # None
    /\ found \in Found \cup {None}
    /\ at[Refresh] \in {"accept", "bind"} => found # None
    /\ goal \in {"none", "discovery", "anchor", "migration", "resolve", "pinned"}
    /\ listed \subseteq Sources /\ drawn \subseteq Rows
    /\ using \in Profiles \cup {None} /\ inputs \in 0..MaxInputs
    /\ profile \in Profiles \cup {None} /\ searched \in Profiles \cup {None}
    /\ lastRun \in [any : BOOLEAN, profile : Profiles \cup {None}]
    /\ due \in [now : BOOLEAN, late : BOOLEAN]
    /\ word \in [Sources -> Words]
    /\ asked \in [Sources -> Words]

\* The last word on a source stands: a source that a toggle, or an import with a
\* new entry, has switched on can be collected if it has anything to fetch, and
\* one that it has switched off cannot, whatever the inbox, discovery and
\* refreshes have done since.  Only an observed transition takes the word back.
LastWordHolds ==
    \A s \in Sources : /\ word[s] = "on" /\ HasFeed(s) => Collectable(s)
                       /\ word[s] = "off" => ~Collectable(s)

\* What a refresh collects without a pin agrees with the last word: of a source
\* that was off when the refresh looked, and still is, it has nothing but what
\* a user shared, and one that was on, with something to fetch, is fetched,
\* although targets and bindings are read one after the other.
CollectedAgrees ==
    at[Refresh] = "ingested" /\ goal = "resolve" =>
        \A s \in Sources :
            /\ asked[s] = "on" => \E row \in Fetched(drawn) : row[1] = s
            /\ asked[s] = "off" =>
                  \A row \in drawn : row[1] = s => row[2] = Share /\ s \in shared

\* Discovery and the inbox put a source on probation at most; what makes it active
\* is the user's word, or two observations that succeeded.
Earned(s) ==
    \E i, j \in DOMAIN observed[s] : i < j /\ observed[s][i].ok /\ observed[s][j].ok
PromotionIsEarned ==
    \A s \in Found \cup Creators :
        status[s] = "active" => word[s] # "none" \/ Earned(s)

\* The profile hash of the last discovery run was searched for: no run that was
\* skipped hides a change of the profile.
ProfileChangesAreSearched ==
    lastRun.profile # None => searched = lastRun.profile

\* The inductive form of the first two: a word fixes the status, a toggle in
\* progress leaves its source open, its status and the rows it has done set
\* unless something else has written them, and a refresh that looks keeps
\* targets, then rows, that agree with what it asked.
WordHolds(s) ==
    /\ word[s] = "on" => /\ status[s] = "active"
                         /\ HasFeed(s) => \E row \in Fetched(on) : row[1] = s
    /\ word[s] = "off" => status[s] = "paused"
ToggleHolds ==
    at[Loop] \in {"toggle", "bindings"} =>
        /\ word[toggle.source] = "open"
        /\ status[toggle.source] # "absent"
        /\ \A row \in toggle.todo : row[1] = toggle.source
        /\ toggle.clean /\ toggle.enable =>
              RowsOf(toggle.source) \subseteq on \cup toggle.todo
        /\ at[Loop] = "bindings" /\ toggle.clean =>
              status[toggle.source] = IF toggle.enable THEN "active" ELSE "paused"
LookHolds(s) ==
    goal = "resolve" =>
        /\ asked[s] \in {"on", "off"} => word[s] = asked[s]
        /\ asked[s] = "on" => HasFeed(s)
        /\ at[Refresh] = "draw" =>
              /\ asked[s] = "on" => s \in listed
              /\ asked[s] = "off" => s \notin listed
        /\ at[Refresh] \in {"store", "activate", "collect", "ingest", "ingested"} =>
              /\ asked[s] = "on" => \E row \in Fetched(drawn) : row[1] = s
              /\ asked[s] = "off" =>
                    \A row \in drawn : row[1] = s =>
                        at[Refresh] = "ingested" /\ row[2] = Share /\ s \in shared
Inv ==
    /\ \A s \in Sources : WordHolds(s)
    /\ ToggleHolds
    /\ \A s \in Sources : LookHolds(s)

\* "A changed binding is replaced by an explicit import": an import leaves an
\* enabled source that had an active binding with one.
ImportReplacesBinding ==
    [][\A a \in Importers :
         Imports(a) => \A s \in Named(a) :
             (\E row \in on : row[1] = s) /\ EnabledIn(a, s)
                 => \E row \in on' : row[1] = s]_vars
=============================================================================
