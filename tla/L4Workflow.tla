----------------------------- MODULE L4Workflow -----------------------------
(***************************************************************************)
(* One PipelineRunner process executing L4WorkflowRunner.refresh() again   *)
(* and again: the eleven fixed steps, the degradable ones, every write of  *)
(* the run's history in SQLite, the files, and a failure or a crash at any *)
(* of those points.  Concurrent calls are the subject of RefreshLock; here *)
(* a call that finds the lock held by a live process returns.              *)
(*                                                                         *)
(* Data is abstracted to what the steps tell apart: an ordering of signals *)
(* is its provenance (baseline or hybrid) and its length.                  *)
(***************************************************************************)
EXTENDS Naturals, Sequences

CONSTANTS
    MaxRuns,     \* bound on the refreshes that get as far as the lock
    MaxSignals,  \* bound on the length of an ordering (top_n)
    Faults       \* which faults the environment injects

FaultKinds == {
    "callback",  \* a step's own work raises before it changes anything
    "late",      \* a step's own work raises after it changed something
    "ranked",    \* append_ranked_signal raises after a prefix of the ordering
    "trace",     \* append_trace of a succeeded step raises
    "audit",     \* the status before a step, or append_trace of a failed step, raises
    "escape",    \* a write outside the try blocks raises
    "crash" }    \* the process dies

ASSUME WorkflowAssumption ==
    /\ MaxRuns \in Nat \ {0}
    /\ MaxSignals \in Nat \ {0}
    /\ Faults \subseteq FaultKinds

StepOrder == <<
    "persist_events", "compile_resolve_profile", "decide_discover_sources",
    "resolve_source_snapshot", "collect", "ingest_store", "baseline_score",
    "agent_assess", "validate_compose", "publish", "trace" >>
\* Mutants: a mandatory step marked degradable.
DegradableValidation ==
    {"compile_resolve_profile", "decide_discover_sources", "agent_assess",
     "validate_compose"}
DegradablePublish ==
    {"compile_resolve_profile", "decide_discover_sources", "agent_assess", "publish"}

Degradable == {"compile_resolve_profile", "decide_discover_sources", "agent_assess"}

Runs == 1..MaxRuns
Steps == 1..Len(StepOrder)
Kinds == {"none", "baseline", "hybrid"}
Ordering == [kind : Kinds, count : 0..MaxSignals]
NoOrdering == [kind |-> "none", count |-> 0]

VARIABLES
    pc,         \* where refresh() is
    run,        \* the last run that took the lock
    step,       \* the step being executed, as its sequence number
    lock,       \* refresh.lock: free, held by this process, or by a dead one
    runStatus,  \* workflow_runs.status, per run
    traces,     \* workflow_step_traces, per run in the order they were appended
    ranked,     \* ranked_signals, per run
    replayHash, \* whether the run's row carries usage.published_ordering_hash
    canonical,  \* canonical-items/latest.json: the run that wrote it, its items
    temp,       \* tmp/<request id>/signals.json of the current run
    latest,     \* data/signals/latest.json
    status,     \* refresh-status.json
    agentOn,    \* the agent_ranking flag as the runner read it at construction
    partial,    \* whether some source failed or was partial in collect
    degraded,   \* whether the runner has degraded_reasons
    baseline,   \* baseline_output
    output,     \* final_output
    hashed      \* usage.published_ordering_hash is set in memory

database == <<runStatus, traces, ranked, replayHash>>
files == <<canonical, temp, latest, status>>
memory == <<agentOn, partial, degraded, baseline, output, hashed>>
vars == <<pc, run, step, lock, database, files, memory>>

Name == StepOrder[step]
May(kind) == kind \in Faults

Init ==
    /\ pc = "idle" /\ run = 0 /\ step = 1 /\ lock = "free"
    /\ runStatus = [r \in Runs |-> "none"]
    /\ traces = [r \in Runs |-> <<>>]
    /\ ranked = [r \in Runs |-> NoOrdering]
    /\ replayHash = [r \in Runs |-> FALSE]
    /\ canonical = [run |-> 0, count |-> 0]
    /\ temp = NoOrdering
    /\ latest = [run |-> 0, ordering |-> NoOrdering]
    /\ status = [state |-> "idle", run |-> 0]
    /\ agentOn = TRUE /\ partial = FALSE /\ degraded = FALSE
    /\ baseline = NoOrdering /\ output = NoOrdering /\ hashed = FALSE

-----------------------------------------------------------------------------
(* Entering refresh() *)

\* The lock is free: take it and start over with fresh run attributes.
TakeLock ==
    /\ pc = "idle" /\ lock = "free" /\ run < MaxRuns
    /\ lock' = "held" /\ run' = run + 1 /\ step' = 1 /\ pc' = "create"
    /\ agentOn' \in BOOLEAN
    /\ partial' = FALSE /\ degraded' = FALSE
    /\ baseline' = NoOrdering /\ output' = NoOrdering /\ hashed' = FALSE
    /\ temp' = NoOrdering
    /\ UNCHANGED <<database, canonical, latest, status>>

\* Mutant: a stale lock is removed without a word.
RecoverStaleLockSilently ==
    /\ pc = "idle" /\ lock = "stale"
    /\ lock' = "free"
    /\ UNCHANGED <<pc, run, step, database, files, memory>>

\* The lock of a dead process: report it, remove it, run nothing.
RecoverStaleLock ==
    /\ pc = "idle" /\ lock = "stale"
    /\ lock' = "free"
    /\ status' = [state |-> "failed_stale_lock", run |-> 0]
    /\ UNCHANGED <<pc, run, step, database, canonical, temp, latest, memory>>

\* The row of the run, and then its first status, both before the try block.
CreateRun ==
    /\ pc = "create"
    /\ runStatus' = [runStatus EXCEPT ![run] = "RUNNING"]
    /\ pc' = "announce"
    /\ UNCHANGED <<run, step, lock, traces, ranked, replayHash, files, memory>>

Announce ==
    /\ pc = "announce"
    /\ status' = [state |-> "running", run |-> run]
    /\ pc' = "step"
    /\ UNCHANGED <<run, step, lock, database, canonical, temp, latest, memory>>

-----------------------------------------------------------------------------
(* The callbacks of the steps: what each changes when it succeeds *)

Succeed == pc' = "record"

\* persist_events and resolve_source_snapshot: their effects on the profile
\* and source stores are not part of this module.
QuietStep ==
    /\ Name \in {"persist_events", "compile_resolve_profile",
                 "resolve_source_snapshot", "trace"}
    /\ Succeed
    /\ UNCHANGED <<ranked, canonical, temp, latest, memory>>

\* A discovery run that degrades extends degraded_reasons and still succeeds.
DecideDiscoverSources ==
    /\ Name = "decide_discover_sources"
    /\ degraded' \in BOOLEAN /\ (degraded => degraded')
    /\ Succeed
    /\ UNCHANGED <<ranked, canonical, temp, latest, agentOn, partial, baseline, output,
                   hashed>>

Collect ==
    /\ Name = "collect"
    /\ partial' \in BOOLEAN
    /\ Succeed
    /\ UNCHANGED <<ranked, canonical, temp, latest, agentOn, degraded, baseline, output,
                   hashed>>

\* The canonical file is rewritten under this run's id.
IngestStore ==
    /\ Name = "ingest_store"
    /\ \E n \in 0..MaxSignals : canonical' = [run |-> run, count |-> n]
    /\ Succeed
    /\ UNCHANGED <<ranked, temp, latest, memory>>

\* Items below the relevance threshold are left out.
BaselineScore ==
    /\ Name = "baseline_score"
    /\ \E n \in 0..canonical.count : baseline' = [kind |-> "baseline", count |-> n]
    /\ Succeed
    /\ UNCHANGED <<ranked, canonical, temp, latest, agentOn, partial, degraded, output,
                   hashed>>

\* agent_ranking disabled: the baseline is the final output.
SkipAgent ==
    /\ Name = "agent_assess" /\ ~agentOn
    /\ output' = baseline
    /\ Succeed
    /\ UNCHANGED <<ranked, canonical, temp, latest, agentOn, partial, degraded, baseline,
                   hashed>>

\* HybridRankingService.rank up to the point where it starts to persist: near
\* duplicates are merged, so the hybrid ordering may be shorter than the
\* baseline, and it is empty exactly when the baseline is.
RankSignals ==
    /\ Name = "agent_assess" /\ agentOn
    /\ \E n \in 0..baseline.count :
          /\ n = 0 <=> baseline.count = 0
          /\ output' = [kind |-> "hybrid", count |-> n]
    /\ degraded' \in BOOLEAN /\ (degraded => degraded')
    /\ pc' = "persist"
    /\ UNCHANGED <<ranked, canonical, temp, latest, agentOn, partial, baseline, hashed>>

\* Mutant: any ordering the run already has is accepted.
ConflictsNever(ordering) == FALSE

\* persist_final_ordering: an empty ordering is not looked at, one that the
\* run already has is accepted, and a different one is refused.
Conflicts(ordering) ==
    /\ ordering.count # 0
    /\ ranked[run].count # 0
    /\ ranked[run] # ordering

Persisted(ordering) ==
    IF ordering.count = 0 \/ ranked[run].count # 0 THEN ranked[run] ELSE ordering

ValidateCompose ==
    /\ Name = "validate_compose"
    /\ canonical.run = run
    /\ ~Conflicts(output)
    /\ ranked' = [ranked EXCEPT ![run] = Persisted(output)]
    /\ hashed' = TRUE
    /\ temp' = output
    /\ Succeed
    /\ UNCHANGED <<canonical, latest, agentOn, partial, degraded, baseline, output>>

\* Copy next to latest.json, then an atomic replace.
Publish ==
    /\ Name = "publish"
    /\ latest' = [run |-> run, ordering |-> temp]
    /\ Succeed
    /\ UNCHANGED <<ranked, canonical, temp, memory>>

Callback ==
    \/ QuietStep \/ DecideDiscoverSources \/ Collect \/ IngestStore \/ BaselineScore
    \/ SkipAgent \/ RankSignals \/ ValidateCompose \/ Publish

\* _step shows the step in the status file and calls the callback.
RunStep ==
    /\ pc = "step"
    /\ status' = [state |-> "running", run |-> run]
    /\ Callback
    /\ UNCHANGED <<run, step, lock, runStatus, traces, replayHash>>

\* rank() appends the ordering one row, and one transaction, at a time.
PersistRanked ==
    /\ pc = "persist"
    /\ IF ranked[run].count < output.count
       THEN /\ ranked' = [ranked EXCEPT ![run] =
                             [kind |-> "hybrid", count |-> ranked[run].count + 1]]
            /\ UNCHANGED pc
       ELSE /\ Succeed
            /\ UNCHANGED ranked
    /\ UNCHANGED <<run, step, lock, runStatus, traces, replayHash, files, memory>>

-----------------------------------------------------------------------------
(* Failing steps *)

\* The callback raises before it changed anything (a connector, the agent, a
\* file that cannot be parsed), or validate_compose refuses the output.
StepRaises ==
    /\ pc = "step"
    /\ \/ May("callback")
       \/ Name = "validate_compose" /\ (canonical.run # run \/ Conflicts(output))
    /\ status' = [state |-> "running", run |-> run]
    /\ pc' = "handle"
    /\ UNCHANGED <<run, step, lock, database, canonical, temp, latest, memory>>

\* The callback raises half way: the canonical file is written and the store
\* append fails, or the ordering is persisted and the temp file is not.
StepRaisesLate ==
    /\ pc = "step" /\ May("late")
    /\ \/ /\ Name = "ingest_store"
          /\ \E n \in 0..MaxSignals : canonical' = [run |-> run, count |-> n]
          /\ UNCHANGED <<ranked, hashed>>
       \/ /\ Name = "validate_compose"
          /\ canonical.run = run /\ ~Conflicts(output)
          /\ ranked' = [ranked EXCEPT ![run] = Persisted(output)]
          /\ hashed' = TRUE
          /\ UNCHANGED canonical
    /\ status' = [state |-> "running", run |-> run]
    /\ pc' = "handle"
    /\ UNCHANGED <<run, step, lock, runStatus, traces, replayHash, temp, latest, agentOn,
                   partial, degraded, baseline, output>>

\* append_ranked_signal raises: the rows appended so far stay.
RankedRowRaises ==
    /\ pc = "persist" /\ May("ranked")
    /\ ranked[run].count < output.count
    /\ output' = NoOrdering
    /\ pc' = "handle"
    /\ UNCHANGED <<run, step, lock, database, files, agentOn, partial, degraded, baseline,
                   hashed>>

\* Mutant: the last step is taken for one that has a successor.
RecordSuccessUnbounded ==
    /\ pc = "record"
    /\ traces' = [traces EXCEPT ![run] =
                     Append(@, [sequence |-> step, status |-> "SUCCEEDED"])]
    /\ pc' = IF step > Len(StepOrder) THEN "conclude" ELSE "step"
    /\ step' = step + 1
    /\ UNCHANGED <<run, lock, runStatus, ranked, replayHash, files, memory>>

\* append_trace(SUCCEEDED) and on to the next step, or to the end.
RecordSuccess ==
    /\ pc = "record"
    /\ traces' = [traces EXCEPT ![run] =
                     Append(@, [sequence |-> step, status |-> "SUCCEEDED"])]
    /\ pc' = IF step = Len(StepOrder) THEN "conclude" ELSE "step"
    /\ step' = IF step = Len(StepOrder) THEN step ELSE step + 1
    /\ UNCHANGED <<run, lock, runStatus, ranked, replayHash, files, memory>>

\* The trace of a step whose work is done cannot be appended: the same except
\* branch handles it as a failure of the step.
RecordRaises ==
    /\ pc = "record" /\ May("trace")
    /\ pc' = "handle"
    /\ UNCHANGED <<run, step, lock, database, files, memory>>

\* The except branch of a degradable step: the run goes on, agent_assess with
\* the baseline in place of whatever it produced.
Degrade ==
    /\ pc = "handle" /\ Name \in Degradable
    /\ traces' = [traces EXCEPT ![run] =
                     Append(@, [sequence |-> step, status |-> "DEGRADED"])]
    /\ degraded' = TRUE
    /\ output' = IF Name = "agent_assess" THEN baseline ELSE output
    /\ step' = step + 1
    /\ pc' = "step"
    /\ UNCHANGED <<run, lock, runStatus, ranked, replayHash, files, agentOn, partial,
                   baseline, hashed>>

\* Mutant: the failure is recorded but not raised again.
RecordFailureSwallowed ==
    /\ pc = "handle" /\ Name \notin Degradable
    /\ traces' = [traces EXCEPT ![run] =
                     Append(@, [sequence |-> step, status |-> "FAILED"])]
    /\ pc' = IF step = Len(StepOrder) THEN "conclude" ELSE "step"
    /\ step' = IF step = Len(StepOrder) THEN step ELSE step + 1
    /\ UNCHANGED <<run, lock, runStatus, ranked, replayHash, files, memory>>

\* The except branch of any other step: record the failure and re-raise.
RecordFailure ==
    /\ pc = "handle" /\ Name \notin Degradable
    /\ traces' = [traces EXCEPT ![run] =
                     Append(@, [sequence |-> step, status |-> "FAILED"])]
    /\ pc' = "failing"
    /\ UNCHANGED <<run, step, lock, runStatus, ranked, replayHash, files, memory>>

\* The status file cannot be written before the step, or the except branch
\* cannot append its trace: that error ends the run, at a degradable step too.
AuditRaises ==
    /\ pc \in {"step", "handle"} /\ May("audit")
    /\ pc' = "failing"
    /\ UNCHANGED <<run, step, lock, database, files, memory>>

-----------------------------------------------------------------------------
(* Leaving refresh() *)

\* Mutant: only a partial connector makes a partial success.
OutcomeForgettingDegraded ==
    CASE pc = "failing" -> "FAILED"
      [] pc = "conclude" /\ partial -> "SUCCEEDED_PARTIAL"
      [] OTHER -> "SUCCEEDED"

\* The status the run ends in.
Outcome ==
    CASE pc = "failing" -> "FAILED"
      [] pc = "conclude" /\ (degraded \/ partial) -> "SUCCEEDED_PARTIAL"
      [] OTHER -> "SUCCEEDED"

\* update_run of the outcome.
EndRun ==
    /\ pc \in {"conclude", "failing"}
    /\ runStatus' = [runStatus EXCEPT ![run] = Outcome]
    /\ replayHash' = [replayHash EXCEPT ![run] = hashed]
    /\ pc' = "report"
    /\ UNCHANGED <<run, step, lock, traces, ranked, files, memory>>

\* The state refresh-status.json shows for the outcome of a run.
Shown(outcome, ordering) ==
    CASE outcome = "FAILED" -> "failed"
      [] outcome = "SUCCEEDED_PARTIAL" -> "succeeded_partial"
      [] outcome = "SUCCEEDED" /\ ordering.count = 0 -> "succeeded_empty"
      [] OTHER -> "succeeded"

Report ==
    /\ pc = "report"
    /\ status' = [state |-> Shown(runStatus[run], output), run |-> run]
    /\ pc' = "release"
    /\ UNCHANGED <<run, step, lock, database, canonical, temp, latest, memory>>

ReleaseLock ==
    /\ pc = "release"
    /\ lock' = "free"
    /\ pc' = "idle"
    /\ UNCHANGED <<run, step, database, files, memory>>

\* create_run, update_run or a write_status outside the try raises: refresh()
\* ends with the lock held, and this process refuses every later call.
Escape ==
    /\ May("escape")
    /\ pc \in {"create", "announce", "conclude", "failing", "report"}
    /\ pc' = "leaked"
    /\ UNCHANGED <<run, step, lock, database, files, memory>>

\* The process dies and is started again; its lock is now stale.
Crash ==
    /\ May("crash")
    /\ pc # "idle"
    /\ pc' = "idle"
    /\ lock' = "stale"
    /\ UNCHANGED <<run, step, database, files, memory>>

Next ==
    \/ TakeLock \/ RecoverStaleLock \/ CreateRun \/ Announce \/ RunStep \/ PersistRanked
    \/ StepRaises \/ StepRaisesLate \/ RankedRowRaises \/ RecordSuccess
    \/ RecordRaises \/ Degrade \/ RecordFailure \/ AuditRaises
    \/ EndRun \/ Report \/ ReleaseLock \/ Escape \/ Crash

Spec == Init /\ [][Next]_vars

-----------------------------------------------------------------------------
(* WorkflowInspector.replay *)

\* The ordering replay returns for a run, and whether it returns one at all.
Replay(r) ==
    IF ranked[r].count # 0 THEN [replayed |-> TRUE, ordering |-> ranked[r]]
    ELSE [replayed |-> replayHash[r], ordering |-> NoOrdering]

-----------------------------------------------------------------------------
(* Properties *)

Succeeded == {"SUCCEEDED", "SUCCEEDED_PARTIAL"}
Terminal == {"FAILED"} \cup Succeeded
\* m8: only profile, discovery and Agent failures let a refresh go on.
Mandatory == {1, 4, 5, 6, 7, 9, 10, 11}
Trace == [sequence : Steps, status : {"SUCCEEDED", "DEGRADED", "FAILED"}]

\* The type invariant: what each variable of refresh() and of its history ranges
\* over.
ControlType ==
    /\ pc \in {"idle", "create", "announce", "step", "persist", "record", "handle",
               "failing", "conclude", "report", "release", "leaked"}
    /\ run \in 0..MaxRuns
    /\ step \in Steps
    /\ lock \in {"free", "held", "stale"}

DatabaseType ==
    /\ runStatus \in [Runs -> {"none", "RUNNING"} \cup Terminal]
    /\ traces \in [Runs -> Seq(Trace)]
    /\ ranked \in [Runs -> Ordering]
    /\ replayHash \in [Runs -> BOOLEAN]

FilesType ==
    /\ canonical \in [run : 0..MaxRuns, count : 0..MaxSignals]
    /\ temp \in Ordering
    /\ latest \in [run : 0..MaxRuns, ordering : Ordering]
    /\ status \in [state : {"idle", "running", "failed_stale_lock", "failed",
                            "succeeded", "succeeded_partial", "succeeded_empty"},
                   run : 0..MaxRuns]

MemoryType ==
    /\ agentOn \in BOOLEAN /\ partial \in BOOLEAN
    /\ degraded \in BOOLEAN /\ hashed \in BOOLEAN
    /\ baseline \in Ordering /\ output \in Ordering

TypeOK == ControlType /\ DatabaseType /\ FilesType /\ MemoryType

\* The traces of a run tell its path: one per step, in order and without a gap;
\* only degradable steps degrade, only others fail, and nothing follows a
\* failure (m8: the trace of a canonical failure stops at ingest_store).
TracesTellThePath ==
    \A r \in Runs : \A i \in DOMAIN traces[r] :
        LET trace == traces[r][i] IN
        /\ trace.sequence = i
        /\ trace.status = "DEGRADED" => i \notin Mandatory
        /\ trace.status = "FAILED" =>
              /\ i \in Mandatory
              /\ i = Len(traces[r])
              /\ runStatus[r] \notin Succeeded

\* A run recorded as a success has done all eleven steps, has replaced
\* latest.json unless a later run did, can be replayed, and is only recorded as
\* SUCCEEDED when none of its steps degraded.
SuccessIsEarned ==
    \A r \in Runs : runStatus[r] \in Succeeded =>
        /\ Len(traces[r]) = Len(StepOrder)
        /\ latest.run >= r
        /\ replayHash[r]
        /\ runStatus[r] = "SUCCEEDED" =>
              \A i \in DOMAIN traces[r] : traces[r][i].status = "SUCCEEDED"

\* What latest.json shows was scored from a canonical file its own run stored,
\* and validated: each mandatory step before publish has succeeded (m8:
\* canonical and validation failures forbid scoring and publishing).
LatestIsValidated ==
    latest.run # 0 =>
        LET t == traces[latest.run] IN
        /\ Len(t) >= 9
        /\ \A i \in 1..9 : i \in Mandatory => t[i].status = "SUCCEEDED"

\* Once the run that wrote latest.json has ended, replaying it gives the ordering
\* that latest.json shows, whatever partial orderings, degradations or failures
\* the run met.
ReplayMatchesArtifact ==
    latest.run # 0 /\ runStatus[latest.run] \in Terminal =>
        /\ Replay(latest.run).replayed
        /\ \/ Replay(latest.run).ordering = latest.ordering
           \/ Replay(latest.run).ordering.count + latest.ordering.count = 0

\* When no refresh is in progress and the lock is free, refresh-status.json tells
\* how the last refresh ended, as its row and the artifact do.
StatusTellsTheTruth ==
    pc = "idle" /\ lock = "free" /\ run # 0 =>
        \/ status = [state |-> "failed_stale_lock", run |-> 0]
        \/ /\ status.run = run
           /\ CASE status.state = "failed" -> runStatus[run] = "FAILED"
                [] status.state = "succeeded_partial" ->
                      runStatus[run] = "SUCCEEDED_PARTIAL" /\ latest.run = run
                [] status.state = "succeeded_empty" ->
                      /\ runStatus[run] = "SUCCEEDED" /\ latest.run = run
                      /\ latest.ordering.count = 0
                [] status.state = "succeeded" ->
                      /\ runStatus[run] = "SUCCEEDED" /\ latest.run = run
                      /\ latest.ordering.count # 0
                [] OTHER -> FALSE

\* The eleven steps implement the lifecycle a reader of workflow_runs and of
\* latest.json relies on.
OutcomeOf(recorded) ==
    CASE recorded \in Succeeded -> "succeeded"
      [] recorded = "FAILED" -> "failed"
      [] recorded = "RUNNING" -> "running"
      [] OTHER -> "none"

Lifecycle == INSTANCE RefreshLifecycle WITH
    outcome <- [r \in Runs |-> OutcomeOf(runStatus[r])],
    current <- IF pc \in {"idle", "create", "leaked"} THEN 0 ELSE run,
    published <- latest.run

ImplementsLifecycle == Lifecycle!Spec

\* docs/agent-roadmap/l3-tool-contract-implementation-plan.md:96: a failed
\* refresh preserves the previous successful data/signals/latest.json.
FailedRunKeepsLatest ==
    \A r \in Runs : runStatus[r] = "FAILED" => latest.run # r

=============================================================================
