----------------------------- MODULE ProfileLoop -----------------------------
(***************************************************************************)
(* From context events to the effective profile of one user: the           *)
(* append-only event log, the immutable profile snapshots, the active      *)
(* pointer, and everybody who moves it.  Web threads append an event and   *)
(* compile the profile at once (POST /api/context/events); a refresh       *)
(* compiles it when the active snapshot does not match the events, and     *)
(* then resolves the profile it works with; the inspector rolls the        *)
(* pointer back.  All of them run in one server process and share one      *)
(* ProfileCompiler (a refresh does as soon as a first request has built    *)
(* the profile service; before that it has one of its own).                *)
(*                                                                         *)
(* The fields a model puts into a profile are abstracted: a snapshot is    *)
(* the set of events it is based on and whether its audit is its own.  An  *)
(* output that verify_profile_output refuses is a compilation that fails.  *)
(***************************************************************************)
EXTENDS Naturals, Sequences

CONSTANTS
    Events,      \* the events that may be posted
    Supersedes,  \* per event, the events its supersedes_event_ids name
    Threads,     \* the web threads that post events
    Refresh,     \* the refresh in progress: the lock admits one at a time
    None         \* no snapshot, no call

Actors == Threads \cup {Refresh}

ASSUME LoopAssumption ==
    /\ Supersedes \in [Events -> SUBSET Events]
    /\ Refresh \notin Threads
    /\ None \notin Actors
    /\ None \notin [basedOn : SUBSET Events, ownAudit : BOOLEAN]

VARIABLES
    log,        \* context_events, in the order they were appended
    snapshots,  \* profile_snapshots
    active,     \* the snapshot active_profiles points to, or None
    pc,         \* where each actor is
    post,       \* per thread, the event it posted
    seen,       \* per actor, the events its compilation reads
    lastAudit,  \* ProfileCompiler.last_audit: the actor whose call it describes
    listed,     \* the refresh's active_event_ids
    previous,   \* the snapshot the refresh compares them with
    profile     \* the snapshot the refresh resolved, None for the neutral profile

store == <<log, snapshots, active>>
refreshVars == <<listed, previous, profile>>
vars == <<store, pc, post, seen, lastAudit, refreshVars>>

Snapshot == [basedOn : SUBSET Events, ownAudit : BOOLEAN]

LogSet == {log[i] : i \in DOMAIN log}

\* active_events: the events no event of the same set supersedes.
ActiveOf(events) == {e \in events : \A f \in events : e \notin Supersedes[f]}

Goto(a, label) == pc' = [pc EXCEPT ![a] = label]
\* What a call read and posted goes with it when it returns.
Forget(t) ==
    /\ post' = [post EXCEPT ![t] = None]
    /\ seen' = [seen EXCEPT ![t] = {}]

Init ==
    /\ log = <<>> /\ snapshots = {} /\ active = None
    /\ pc = [a \in Actors |-> "idle"]
    /\ post = [t \in Threads |-> None]
    /\ seen = [a \in Actors |-> {}]
    /\ lastAudit = None
    /\ listed = {} /\ previous = None /\ profile = None

-----------------------------------------------------------------------------
(* The web threads *)

\* Mutant: an event that is there is appended again.
PostEventAgain(t) ==
    /\ pc[t] = "idle"
    /\ \E e \in Events :
          /\ log' = Append(log, e)
          /\ post' = [post EXCEPT ![t] = e]
    /\ Goto(t, "read")
    /\ UNCHANGED <<snapshots, active, seen, lastAudit, refreshVars>>

\* ContextEventRepository.append.  An event whose id is in the log differs in
\* recorded_at and is refused with 409: nothing changes, nothing is compiled.
PostEvent(t) ==
    /\ pc[t] = "idle"
    /\ \E e \in Events \ LogSet :
          /\ log' = Append(log, e)
          /\ post' = [post EXCEPT ![t] = e]
    /\ Goto(t, "read")
    /\ UNCHANGED <<snapshots, active, seen, lastAudit, refreshVars>>

\* The thread answers: compiled, with its snapshot.
Answer(t) ==
    /\ pc[t] = "compiled"
    /\ Forget(t)
    /\ Goto(t, "idle")
    /\ UNCHANGED <<store, lastAudit, refreshVars>>

-----------------------------------------------------------------------------
(* ProfileService.compile_current, by a thread or by the refresh *)

\* Mutant: the input has only the events the active snapshot does not know.
BuildInputPendingOnly ==
    ActiveOf(LogSet \ (IF active = None THEN {} ELSE active.basedOn))

\* Mutant: the event appended last is not in the input yet.
BuildInputLagging ==
    ActiveOf({log[i] : i \in 1..(Len(log) - 1)})

\* build_input: the events that are active now.
BuildInput == ActiveOf(LogSet)

ReadEvents(a) ==
    /\ pc[a] = "read"
    /\ seen' = [seen EXCEPT ![a] = BuildInput]
    /\ Goto(a, "model")
    /\ UNCHANGED <<store, post, lastAudit, refreshVars>>

\* run_typed returns, and its audit goes to the shared compiler.
RunModel(a) ==
    /\ pc[a] = "model"
    /\ lastAudit' = a
    /\ Goto(a, "activate")
    /\ UNCHANGED <<store, post, seen, refreshVars>>

\* save_and_activate: one transaction stores the snapshot, unless one with the
\* same hash is stored, and moves the pointer, whatever it points to by now.
Activate(a) ==
    /\ pc[a] = "activate"
    /\ LET draft == [basedOn |-> ActiveOf(seen[a]), ownAudit |-> lastAudit = a] IN
       /\ snapshots' = snapshots \cup {draft}
       /\ active' = draft
    /\ Goto(a, IF a = Refresh THEN "resolve" ELSE "compiled")
    /\ UNCHANGED <<log, post, seen, lastAudit, refreshVars>>

\* Mutant: the failed compilation leaves the refresh the neutral profile.
CompileFailsNeutral(a) ==
    /\ pc[a] \in {"model", "activate"}
    /\ lastAudit' \in {lastAudit, a}
    /\ IF a = Refresh
       THEN /\ Goto(a, "resolved")
            /\ UNCHANGED <<post, seen>>
       ELSE /\ Forget(a)
            /\ Goto(a, "idle")
    /\ UNCHANGED <<store, refreshVars>>

\* The model gives no output, the output is refused, or the transaction raises.
\* A thread answers accepted_degraded; the refresh resolves the active profile
\* and lets its step degrade, with the neutral profile if that read raises too.
CompileFails(a) ==
    /\ pc[a] \in {"model", "activate"}
    /\ lastAudit' \in {lastAudit, a}
    /\ IF a = Refresh
       THEN /\ \/ profile' = active /\ Goto(a, "resolved")
               \/ Goto(a, "neutral") /\ UNCHANGED profile
            /\ UNCHANGED <<post, seen>>
       ELSE /\ Forget(a)
            /\ Goto(a, "idle")
            /\ UNCHANGED profile
    /\ UNCHANGED <<store, listed, previous>>

-----------------------------------------------------------------------------
(* compile_resolve_profile of a refresh *)

\* A new L4WorkflowRunner comes to this step, whose callback lists the active
\* events and then reads the pointer, in two reads of the database.
RefreshLists ==
    /\ pc[Refresh] = "idle"
    /\ listed' = ActiveOf(LogSet)
    /\ Goto(Refresh, "compare")
    /\ UNCHANGED <<store, post, seen, lastAudit, previous, profile>>

\* Mutant: only a user without a profile is compiled.
PendingIfMissing == listed # {} /\ active = None

\* There are active events, and the active snapshot is not based on them.
Pending == listed # {} /\ (active = None \/ active.basedOn # listed)

RefreshCompares ==
    /\ pc[Refresh] = "compare"
    /\ previous' = IF listed = {} THEN None ELSE active
    /\ Goto(Refresh, IF Pending THEN "read" ELSE "resolve")
    /\ UNCHANGED <<store, post, seen, lastAudit, listed, profile>>

RefreshResolves ==
    /\ pc[Refresh] = "resolve"
    /\ profile' = active
    /\ Goto(Refresh, "done")
    /\ UNCHANGED <<store, post, seen, lastAudit, listed, previous>>

\* A read of the database raises: the step degrades with the neutral profile.
RefreshReadRaises ==
    /\ pc[Refresh] \in {"idle", "compare", "resolve"}
    /\ Goto(Refresh, "neutral")
    /\ UNCHANGED <<store, post, seen, lastAudit, refreshVars>>

\* The rest of the refresh, which does not touch the profile.
RefreshReturns ==
    /\ pc[Refresh] \in {"done", "resolved", "neutral"}
    /\ listed' = {} /\ previous' = None /\ profile' = None
    /\ seen' = [seen EXCEPT ![Refresh] = {}]
    /\ Goto(Refresh, "idle")
    /\ UNCHANGED <<store, post, lastAudit>>

-----------------------------------------------------------------------------
(* The inspector and the environment *)

\* WorkflowInspector.rollback_profile: the pointer moves, nothing pins it.
Rollback ==
    /\ \E s \in snapshots : active' = s
    /\ UNCHANGED <<log, snapshots, pc, post, seen, lastAudit, refreshVars>>

\* The server dies and is started again.
Crash ==
    /\ pc' = [a \in Actors |-> "idle"]
    /\ lastAudit' = None
    /\ listed' = {} /\ previous' = None /\ profile' = None
    /\ post' = [t \in Threads |-> None]
    /\ seen' = [a \in Actors |-> {}]
    /\ UNCHANGED store

Next ==
    \/ \E t \in Threads : PostEvent(t) \/ Answer(t)
    \/ \E a \in Actors : ReadEvents(a) \/ RunModel(a) \/ Activate(a) \/ CompileFails(a)
    \/ RefreshLists \/ RefreshCompares \/ RefreshResolves \/ RefreshReadRaises
    \/ RefreshReturns \/ Rollback \/ Crash

Spec == Init /\ [][Next]_vars

-----------------------------------------------------------------------------
(* Properties *)

Labels == {"idle", "read", "model", "activate", "compiled", "compare", "resolve",
           "resolved", "done", "neutral"}

\* The type invariant: an event is appended at most once, the pointer points
\* to a stored snapshot, and only the refresh resolves profiles.
TypeOK ==
    /\ log \in Seq(Events)
    /\ \A i, j \in DOMAIN log : log[i] = log[j] => i = j
    /\ snapshots \subseteq Snapshot
    /\ active \in snapshots \cup {None}
    /\ pc \in [Actors -> Labels]
    /\ \A t \in Threads : pc[t] \notin {"compare", "resolve", "resolved", "done", "neutral"}
    /\ pc[Refresh] # "compiled"
    /\ post \in [Threads -> Events \cup {None}]
    /\ seen \in [Actors -> SUBSET Events]
    /\ lastAudit \in Actors \cup {None}
    /\ listed \subseteq Events
    /\ previous \in snapshots \cup {None}
    /\ profile \in snapshots \cup {None}

\* A thread that answers "compiled" has activated a snapshot that knows the
\* event it posted: the snapshot is based on it, or on a log in which another
\* event supersedes it.
AnswerCoversPost ==
    \A t \in Threads : pc[t] = "compiled" =>
        /\ \E s \in snapshots : s.basedOn = seen[t]
        /\ post[t] \in seen[t] \/ \E e \in LogSet : post[t] \in Supersedes[e]

\* workflow.py:592: a refresh whose compilation fails, or is not needed, never
\* loses the context it knew: if it found an active profile it ends with one,
\* unless the read of the profile raises as well.
ContextIsNotLost ==
    pc[Refresh] \in {"resolved", "done"} /\ previous # None => profile # None

\* m9 finding F2: a refresh compiles pending events.  If refreshes keep getting
\* through this step undegraded and rollbacks stop, the active profile ends up
\* based on the active events and stays so, whatever slow compilations of older
\* events overwrote, rollbacks moved or crashes left uncompiled before.
Current == active # None /\ active.basedOn = ActiveOf(LogSet)
NoRollback == active' = active \/ log' # log \/ pc' # pc
RefreshesGetThrough == []<>(pc[Refresh] = "compare") /\ []<>(pc[Refresh] = "done")
ProfileConverges ==
    RefreshesGetThrough /\ <>[][NoRollback]_vars
        => <>[](ActiveOf(LogSet) = {} \/ Current)

\* docs/storage.md:23: the compiler's audit is stored with its snapshot.
AuditIsOwn == \A s \in snapshots : s.ownAudit

\* m3 decision :26: concurrent compilations leave whole snapshots only.  Whoever
\* compiles, fails, rolls back or dies, the store is a history of profiles: the
\* log only grows, a snapshot is kept as it is and based on exactly the events
\* active at one moment of the log, and the pointer is only at one of them.
History ==
    INSTANCE ProfileHistory WITH
        profiles <- {s.basedOn : s \in snapshots},
        current <- {s.basedOn : s \in {active} \ {None}}

ImplementsHistory == History!Spec

=============================================================================
