------------------------- MODULE L4Workflow_proofs -------------------------
(***************************************************************************)
(* Theorems about L4Workflow for any number of refreshes, any length of    *)
(* the orderings and any set of faults.                                    *)
(*                                                                         *)
(* The invariants checked by the runs are not inductive: what a step may   *)
(* do depends on how far the run has come, which only the traces, the      *)
(* artifact and the memory of the runner together tell.  Inv adds that     *)
(* bookkeeping: what is true of the current run at each step and of every  *)
(* run that has been left behind.                                          *)
(***************************************************************************)
EXTENDS L4Workflow, SequenceTheorems, TLAPS

-----------------------------------------------------------------------------
(* The inductive invariant *)

Stepping == {"step", "persist", "record", "handle"}
Flying == Stepping \cup {"announce", "conclude", "failing"}

\* Nothing is recorded of a run before create_run.
Untouched(r) ==
    runStatus[r] = "none" /\ traces[r] = <<>> /\ ranked[r].count = 0

FutureInv ==
    \A r \in Runs : r > run \/ (r = run /\ pc = "create") => Untouched(r)

\* The row of the run in progress.
RowInv ==
    /\ pc # "idle" => run # 0
    /\ pc \in Flying => runStatus[run] = "RUNNING"
    /\ pc \in {"report", "release"} => runStatus[run] \in Terminal

\* The traces of the run in progress: one per finished step, none of a failure,
\* and a degraded one is remembered in degraded_reasons.
PathInv ==
    /\ pc \in {"create", "announce"} => step = 1
    /\ pc = "announce" => traces[run] = <<>>
    /\ pc = "persist" => step = 8
    /\ pc \in Stepping => Len(traces[run]) = step - 1
    /\ pc = "conclude" => Len(traces[run]) = 11
    /\ pc \in Stepping \cup {"conclude"} =>
          \A i \in DOMAIN traces[run] :
              /\ traces[run][i].status # "FAILED"
              /\ traces[run][i].status = "DEGRADED" => degraded

\* The run in progress owns latest.json from its publish step on.
BeforePublish ==
    \/ pc \in {"create", "announce"}
    \/ pc \in Stepping /\ step < 10
    \/ pc = "step" /\ step = 10

AfterPublish ==
    \/ pc = "record" /\ step = 10
    \/ pc \in Stepping /\ step = 11
    \/ pc = "conclude"

OwnerInv ==
    /\ latest.run <= run
    /\ BeforePublish => latest.run < run
    /\ AfterPublish => latest.run = run

\* ranked_signals holds the given ordering of run r.
Holds(r, ordering) ==
    /\ ordering.count # 0 => ranked[r] = ordering
    /\ ordering.count = 0 => ranked[r].count = 0

Composed ==
    \/ pc = "record" /\ step = 9
    \/ pc \in Stepping /\ step >= 10
    \/ pc = "conclude"

\* What the agent stage leaves behind for validate_compose, and what that
\* leaves behind for publish.
SameEmptiness == output.count = 0 <=> baseline.count = 0
RowsNeedBaseline == ranked[run].count # 0 => baseline.count # 0

RankedInv ==
    /\ pc = "announce" => ranked[run].count = 0
    /\ pc \in Stepping /\ step < 8 => ranked[run].count = 0
    /\ pc = "step" /\ step = 8 => ranked[run].count = 0
    /\ pc = "persist" =>
          output.kind = "hybrid" /\ SameEmptiness /\ ranked[run].count <= output.count
    /\ pc \in {"record", "handle"} /\ step = 8 => RowsNeedBaseline
    /\ pc = "record" /\ step = 8 => SameEmptiness
    /\ pc = "step" /\ step = 9 => SameEmptiness /\ RowsNeedBaseline
    /\ Composed => hashed /\ Holds(run, temp)
    /\ pc = "failing" /\ latest.run = run => hashed

\* latest.json against the ordering and the hash the database keeps.
ReplayInv ==
    latest.run # 0 =>
        /\ Holds(latest.run, latest.ordering)
        /\ runStatus[latest.run] \in Terminal => replayHash[latest.run]

Inv ==
    /\ TypeOK /\ TracesTellThePath /\ SuccessIsEarned /\ LatestIsValidated
    /\ FutureInv /\ RowInv /\ PathInv /\ OwnerInv /\ RankedInv /\ ReplayInv

-----------------------------------------------------------------------------
(* The steps by number *)

\* Which step a name and which steps a set of names of the code stands for.
LEMMA StepTable ==
    /\ Len(StepOrder) = 11 /\ Steps = 1..11
    /\ \A s \in Steps :
          /\ StepOrder[s] = "publish" <=> s = 10
          /\ StepOrder[s] = "validate_compose" <=> s = 9
          /\ StepOrder[s] = "agent_assess" <=> s = 8
          /\ StepOrder[s] = "baseline_score" <=> s = 7
          /\ StepOrder[s] = "ingest_store" <=> s = 6
          /\ StepOrder[s] = "collect" <=> s = 5
          /\ StepOrder[s] = "decide_discover_sources" <=> s = 3
          /\ StepOrder[s] \in {"persist_events", "compile_resolve_profile",
                               "resolve_source_snapshot", "trace"} <=> s \in {1, 2, 4, 11}
          /\ StepOrder[s] \in Degradable <=> s \notin Mandatory
<1>1. Len(StepOrder) = 11 /\ Steps = 1..11
  BY DEF StepOrder, Steps
<1>2. SUFFICES ASSUME NEW s \in 1..11
               PROVE  /\ StepOrder[s] = "publish" <=> s = 10
                      /\ StepOrder[s] = "validate_compose" <=> s = 9
                      /\ StepOrder[s] = "agent_assess" <=> s = 8
                      /\ StepOrder[s] = "baseline_score" <=> s = 7
                      /\ StepOrder[s] = "ingest_store" <=> s = 6
                      /\ StepOrder[s] = "collect" <=> s = 5
                      /\ StepOrder[s] = "decide_discover_sources" <=> s = 3
                      /\ StepOrder[s] \in {"persist_events", "compile_resolve_profile",
                             "resolve_source_snapshot", "trace"} <=> s \in {1, 2, 4, 11}
                      /\ StepOrder[s] \in Degradable <=> s \notin Mandatory
  BY <1>1
<1> DEFINE Stands(n, name) == s = n => StepOrder[s] = name
<1>3. /\ Stands(1, "persist_events") /\ Stands(2, "compile_resolve_profile")
      /\ Stands(3, "decide_discover_sources") /\ Stands(4, "resolve_source_snapshot")
      /\ Stands(5, "collect") /\ Stands(6, "ingest_store")
      /\ Stands(7, "baseline_score") /\ Stands(8, "agent_assess")
      /\ Stands(9, "validate_compose") /\ Stands(10, "publish") /\ Stands(11, "trace")
  BY DEF StepOrder
<1>4. \/ s = 1 \/ s = 2 \/ s = 3 \/ s = 4 \/ s = 5 \/ s = 6
      \/ s = 7 \/ s = 8 \/ s = 9 \/ s = 10 \/ s = 11
  OBVIOUS
<1>5. QED
  BY <1>3, <1>4 DEF Degradable, Mandatory

-----------------------------------------------------------------------------
(* Types *)

LEMMA TypeInit == Init => TypeOK
<1> SUFFICES ASSUME Init PROVE TypeOK
  OBVIOUS
<1>1. NoOrdering \in Ordering
  BY WorkflowAssumption DEF NoOrdering, Ordering, Kinds
<1>2. ControlType
  BY WorkflowAssumption, StepTable DEF Init, ControlType
<1>3. DatabaseType
  BY <1>1 DEF Init, DatabaseType
<1>4. FilesType
  BY <1>1, WorkflowAssumption DEF Init, FilesType
<1>5. MemoryType
  BY <1>1 DEF Init, MemoryType
<1>6. QED
  BY <1>2, <1>3, <1>4, <1>5 DEF TypeOK

\* The parts of the state an action leaves alone keep their types.
LEMMA TypeFrame ==
    /\ DatabaseType /\ UNCHANGED database => DatabaseType'
    /\ FilesType /\ UNCHANGED files => FilesType'
    /\ MemoryType /\ UNCHANGED memory => MemoryType'
<1>1. DatabaseType /\ UNCHANGED database => DatabaseType'
  BY DEF DatabaseType, database
<1>2. FilesType /\ UNCHANGED files => FilesType'
  BY DEF FilesType, files
<1>3. MemoryType /\ UNCHANGED memory => MemoryType'
  BY DEF MemoryType, memory
<1>4. QED
  BY <1>1, <1>2, <1>3

LEMMA ControlTypeStep == TypeOK /\ [Next]_vars => ControlType'
<1> SUFFICES ASSUME TypeOK, [Next]_vars PROVE ControlType'
  OBVIOUS
<1> USE WorkflowAssumption, StepTable DEF TypeOK, ControlType
<1>1. CASE TakeLock \/ RecoverStaleLock \/ CreateRun \/ Announce
  BY <1>1 DEF TakeLock, RecoverStaleLock, CreateRun, Announce
<1>2. CASE RunStep
  BY <1>2 DEF RunStep, Callback, QuietStep, DecideDiscoverSources, Collect,
     IngestStore, BaselineScore, SkipAgent, RankSignals, ValidateCompose, Publish, Succeed
<1>3. CASE PersistRanked \/ StepRaises \/ StepRaisesLate \/ RankedRowRaises
  BY <1>3 DEF PersistRanked, StepRaises, StepRaisesLate, RankedRowRaises, Succeed
<1>4. CASE RecordSuccess
  BY <1>4 DEF RecordSuccess
<1>5. CASE Degrade
  BY <1>5 DEF Degrade, Name, Mandatory
<1>6. CASE RecordRaises \/ RecordFailure \/ AuditRaises \/ EndRun \/ Report
  BY <1>6 DEF RecordRaises, RecordFailure, AuditRaises, EndRun, Report
<1>7. CASE ReleaseLock \/ Escape \/ Crash \/ UNCHANGED vars
  BY <1>7 DEF ReleaseLock, Escape, Crash, vars
<1>8. QED
  BY <1>1, <1>2, <1>3, <1>4, <1>5, <1>6, <1>7 DEF Next

LEMMA DatabaseTypeStep == TypeOK /\ [Next]_vars => DatabaseType'
<1> SUFFICES ASSUME TypeOK, [Next]_vars PROVE DatabaseType'
  OBVIOUS
<1>0. /\ DatabaseType /\ run \in 0..MaxRuns /\ step \in Steps
      /\ output \in Ordering
  BY DEF TypeOK, ControlType, MemoryType
<1>1. CASE UNCHANGED database
  BY <1>0, <1>1, TypeFrame
<1>2. CASE CreateRun
  BY <1>0, <1>2 DEF CreateRun, DatabaseType
<1>3. CASE RunStep
  <2>1. CASE ValidateCompose
    <3>1. Persisted(output) \in Ordering \/ run \notin Runs
      BY <1>0 DEF Persisted, DatabaseType
    <3>2. QED
      BY <1>0, <1>3, <2>1, <3>1 DEF RunStep, ValidateCompose, DatabaseType
  <2>2. CASE UNCHANGED ranked
    BY <1>0, <1>3, <2>2 DEF RunStep, DatabaseType
  <2>3. QED
    BY <1>3, <2>1, <2>2 DEF RunStep, Callback, QuietStep, DecideDiscoverSources,
       Collect, IngestStore, BaselineScore, SkipAgent, RankSignals, Publish
<1>4. CASE PersistRanked
  <2>1. CASE UNCHANGED ranked
    BY <1>0, <1>4, <2>1 DEF PersistRanked, DatabaseType
  <2>2. CASE ranked[run].count < output.count /\ run \in Runs
    <3>1. [kind |-> "hybrid", count |-> ranked[run].count + 1] \in Ordering
      BY <1>0, <2>2, WorkflowAssumption DEF DatabaseType, Ordering, Kinds
    <3>2. QED
      BY <1>0, <1>4, <2>2, <3>1 DEF PersistRanked, DatabaseType
  <2>3. CASE run \notin Runs
    BY <1>0, <1>4, <2>3 DEF PersistRanked, DatabaseType
  <2>4. QED
    BY <1>4, <2>1, <2>2, <2>3 DEF PersistRanked
<1>5. CASE StepRaisesLate
  <2>1. CASE UNCHANGED ranked
    BY <1>0, <1>5, <2>1 DEF StepRaisesLate, DatabaseType
  <2>2. CASE ranked' = [ranked EXCEPT ![run] = Persisted(output)]
    <3>1. Persisted(output) \in Ordering \/ run \notin Runs
      BY <1>0 DEF Persisted, DatabaseType
    <3>2. QED
      BY <1>0, <1>5, <2>2, <3>1 DEF StepRaisesLate, DatabaseType
  <2>3. QED
    BY <1>5, <2>1, <2>2 DEF StepRaisesLate
<1>6. CASE RecordSuccess \/ Degrade \/ RecordFailure
  <2>1. PICK result \in {"SUCCEEDED", "DEGRADED", "FAILED"} :
          traces' = [traces EXCEPT ![run] =
                        Append(@, [sequence |-> step, status |-> result])]
    BY <1>6 DEF RecordSuccess, Degrade, RecordFailure
  <2>2. [sequence |-> step, status |-> result] \in Trace
    BY <1>0 DEF Trace
  <2>3. traces' \in [Runs -> Seq(Trace)]
    <3>1. run \in Runs => traces[run] \in Seq(Trace)
      BY <1>0 DEF DatabaseType
    <3>2. run \in Runs =>
             Append(traces[run], [sequence |-> step, status |-> result]) \in Seq(Trace)
      BY <2>2, <3>1, AppendProperties
    <3>3. QED
      BY <1>0, <2>1, <3>2 DEF DatabaseType
  <2>4. QED
    BY <1>0, <1>6, <2>3 DEF RecordSuccess, Degrade, RecordFailure, DatabaseType
<1>7. CASE EndRun
  <2>1. Outcome \in Terminal
    BY DEF Outcome, Terminal, Succeeded
  <2>2. replayHash' \in [Runs -> BOOLEAN]
    BY <1>0, <1>7 DEF EndRun, DatabaseType, TypeOK, MemoryType
  <2>3. runStatus' \in [Runs -> {"none", "RUNNING"} \cup Terminal]
    BY <1>0, <1>7, <2>1 DEF EndRun, DatabaseType
  <2>4. QED
    BY <1>0, <1>7, <2>2, <2>3 DEF EndRun, DatabaseType
<1>8. QED
  BY <1>1, <1>2, <1>3, <1>4, <1>5, <1>6, <1>7 DEF Next, TakeLock, RecoverStaleLock,
     Announce, StepRaises, RankedRowRaises, RecordRaises, AuditRaises, Report, ReleaseLock,
     Escape, Crash, vars, database

LEMMA FilesTypeStep == TypeOK /\ [Next]_vars => FilesType'
<1> SUFFICES ASSUME TypeOK, [Next]_vars PROVE FilesType'
  OBVIOUS
<1>0. FilesType /\ run \in 0..MaxRuns /\ output \in Ordering
  BY DEF TypeOK, ControlType, MemoryType
<1>00. NoOrdering \in Ordering
  BY WorkflowAssumption DEF NoOrdering, Ordering, Kinds
<1>1. CASE UNCHANGED files
  BY <1>0, <1>1, TypeFrame
<1>2. CASE TakeLock \/ RecoverStaleLock \/ Announce
  BY <1>0, <1>00, <1>2, WorkflowAssumption
     DEF TakeLock, RecoverStaleLock, Announce, FilesType
<1>3. CASE RunStep \/ StepRaises \/ StepRaisesLate
  <2>1. /\ status' = [state |-> "running", run |-> run]
        /\ \/ UNCHANGED canonical
           \/ \E n \in 0..MaxSignals : canonical' = [run |-> run, count |-> n]
        /\ temp' \in {temp, output}
        /\ latest' \in {latest, [run |-> run, ordering |-> temp]}
    BY <1>3 DEF RunStep, StepRaises, StepRaisesLate, Callback, QuietStep,
       DecideDiscoverSources, Collect, IngestStore, BaselineScore, SkipAgent,
       RankSignals, ValidateCompose, Publish
  <2>2. QED
    BY <1>0, <2>1 DEF FilesType
<1>4. CASE Report
  <2>1. Shown(runStatus[run], output) \in
            {"failed", "succeeded", "succeeded_partial", "succeeded_empty"}
    BY DEF Shown
  <2>2. QED
    BY <1>0, <1>4, <2>1 DEF Report, FilesType
<1>5. QED
  BY <1>1, <1>2, <1>3, <1>4 DEF Next, CreateRun, PersistRanked, RankedRowRaises,
     RecordSuccess, RecordRaises, Degrade, RecordFailure, AuditRaises, EndRun, ReleaseLock,
     Escape, Crash, vars, files

LEMMA MemoryTypeStep == TypeOK /\ [Next]_vars => MemoryType'
<1> SUFFICES ASSUME TypeOK, [Next]_vars PROVE MemoryType'
  OBVIOUS
<1>0. MemoryType /\ canonical.count \in 0..MaxSignals
  BY DEF TypeOK, FilesType
<1>00. NoOrdering \in Ordering
  BY WorkflowAssumption DEF NoOrdering, Ordering, Kinds
<1>1. CASE UNCHANGED memory
  BY <1>0, <1>1, TypeFrame
<1>2. CASE TakeLock
  BY <1>0, <1>00, <1>2 DEF TakeLock, MemoryType
<1>3. CASE RunStep
  <2>1. CASE BaselineScore
    <3>1. PICK n \in 0..canonical.count : baseline' = [kind |-> "baseline", count |-> n]
      BY <2>1 DEF BaselineScore
    <3>2. baseline' \in Ordering
      BY <1>0, <3>1, WorkflowAssumption DEF Ordering, Kinds
    <3>3. QED
      BY <1>0, <2>1, <3>2 DEF BaselineScore, MemoryType
  <2>2. CASE RankSignals
    <3>1. PICK n \in 0..baseline.count : output' = [kind |-> "hybrid", count |-> n]
      BY <2>2 DEF RankSignals
    <3>2. output' \in Ordering
      BY <1>0, <3>1, WorkflowAssumption DEF Ordering, Kinds, MemoryType
    <3>3. QED
      BY <1>0, <2>2, <3>2 DEF RankSignals, MemoryType
  <2>3. CASE QuietStep \/ IngestStore \/ Publish
    BY <1>0, <2>3, TypeFrame DEF QuietStep, IngestStore, Publish
  <2>4. CASE DecideDiscoverSources \/ Collect \/ SkipAgent \/ ValidateCompose
    BY <1>0, <2>4 DEF DecideDiscoverSources, Collect, SkipAgent, ValidateCompose,
       MemoryType
  <2>5. QED
    BY <1>3, <2>1, <2>2, <2>3, <2>4 DEF RunStep, Callback
<1>4. CASE StepRaisesLate \/ RankedRowRaises \/ Degrade
  BY <1>0, <1>00, <1>4 DEF StepRaisesLate, RankedRowRaises, Degrade, MemoryType
<1>5. QED
  BY <1>1, <1>2, <1>3, <1>4 DEF Next, RecoverStaleLock, CreateRun, Announce, PersistRanked,
     StepRaises, RecordSuccess, RecordRaises, RecordFailure, AuditRaises, EndRun,
     Report, ReleaseLock, Escape, Crash, vars, memory

\* Every variable of the refresh and of its history keeps the range it starts
\* in, over any number of refreshes and with any faults.
THEOREM TypeCorrect == Spec => []TypeOK
<1>1. TypeOK /\ [Next]_vars => TypeOK'
  BY ControlTypeStep, DatabaseTypeStep, FilesTypeStep, MemoryTypeStep DEF TypeOK
<1>2. QED
  BY <1>1, TypeInit, PTL DEF Spec

-----------------------------------------------------------------------------
(* What the actions do, in terms of step numbers and of whole traces *)

LEMMA StepOfAction ==
  ASSUME TypeOK
  PROVE  /\ Publish => step = 10
         /\ ValidateCompose => step = 9
         /\ SkipAgent \/ RankSignals => step = 8
         /\ BaselineScore => step = 7
         /\ IngestStore => step = 6
         /\ Collect => step = 5
         /\ DecideDiscoverSources => step = 3
         /\ QuietStep => step \in {1, 2, 4, 11}
         /\ StepRaisesLate => step \in {6, 9}
         /\ Degrade => step \in {2, 3, 8} /\ (Name = "agent_assess" <=> step = 8)
         /\ RecordFailure => step \in Mandatory
<1>1. step \in Steps
  BY DEF TypeOK, ControlType
<1>2. QED
  BY <1>1, StepTable DEF Publish, ValidateCompose, SkipAgent, RankSignals, BaselineScore,
     IngestStore, Collect, DecideDiscoverSources, QuietStep, StepRaisesLate, Degrade,
     RecordFailure, Name, Mandatory

\* A trace appended to a run's history leaves the rest of it as it was.
LEMMA AppendTrace ==
  ASSUME traces \in [Runs -> Seq(Trace)], run \in Runs, NEW t \in Trace,
         traces' = [traces EXCEPT ![run] = Append(@, t)]
  PROVE  /\ \A r \in Runs \ {run} : traces'[r] = traces[r]
         /\ Len(traces'[run]) = Len(traces[run]) + 1
         /\ DOMAIN traces'[run] = 1..(Len(traces[run]) + 1)
         /\ DOMAIN traces[run] = 1..Len(traces[run])
         /\ Len(traces[run]) \in Nat
         /\ \A i \in 1..Len(traces[run]) : traces'[run][i] = traces[run][i]
         /\ traces'[run][Len(traces[run]) + 1] = t
<1>1. traces[run] \in Seq(Trace)
  OBVIOUS
<1>2. traces'[run] = Append(traces[run], t)
  OBVIOUS
<1>3. QED
  BY <1>1, <1>2, AppendProperties, LenProperties

\* A run whose refresh is in progress is one of Runs.
LEMMA RunInRuns == TypeOK /\ RowInv /\ pc # "idle" => run \in Runs
BY WorkflowAssumption DEF TypeOK, ControlType, RowInv, Runs

\* Which actions touch which part of the history.
LEMMA HistoryFrame ==
  ASSUME TypeOK, [Next]_vars
  PROVE  /\ \/ UNCHANGED traces
            \/ RecordSuccess \/ Degrade \/ RecordFailure
         /\ \/ UNCHANGED runStatus
            \/ CreateRun \/ EndRun
         /\ \/ UNCHANGED ranked
            \/ PersistRanked
            \/ RunStep /\ ValidateCompose
            \/ StepRaisesLate /\ step = 9
         /\ \/ UNCHANGED latest
            \/ RunStep /\ Publish
         /\ UNCHANGED replayHash \/ EndRun
<1>1. StepRaisesLate => step = 9 \/ UNCHANGED ranked
  BY StepTable DEF StepRaisesLate, Name, TypeOK, ControlType
<1>2. RunStep => Publish \/ ValidateCompose \/ UNCHANGED <<ranked, latest>>
  BY DEF RunStep, Callback, QuietStep, DecideDiscoverSources, Collect,
     IngestStore, BaselineScore, SkipAgent, RankSignals
<1>3. Publish => UNCHANGED ranked
  BY DEF Publish
<1>4. ValidateCompose => UNCHANGED latest
  BY DEF ValidateCompose
<1>5. RunStep => UNCHANGED <<traces, runStatus, replayHash>>
  BY DEF RunStep
<1>6. CASE RunStep
  BY <1>2, <1>3, <1>4, <1>5, <1>6
<1>7. CASE StepRaisesLate
  BY <1>1, <1>7 DEF StepRaisesLate
<1>8. CASE ~RunStep /\ ~StepRaisesLate
  BY <1>8 DEF Next, vars, database, files, TakeLock, RecoverStaleLock, CreateRun, Announce,
     PersistRanked, StepRaises, RankedRowRaises, RecordSuccess, RecordRaises, Degrade,
     RecordFailure, AuditRaises, EndRun, Report, ReleaseLock, Escape, Crash
<1>9. QED
  BY <1>6, <1>7, <1>8

-----------------------------------------------------------------------------
(* The parts of the invariant, one by one *)

LEMMA FutureStep == Inv /\ [Next]_vars => FutureInv'
<1> SUFFICES ASSUME Inv, [Next]_vars, NEW r \in Runs,
                    r > run' \/ (r = run' /\ pc' = "create")
             PROVE  Untouched(r)'
  BY DEF FutureInv
<1> USE DEF Inv
<1>0. /\ r \in Nat /\ run \in Nat
      /\ DatabaseType
  BY WorkflowAssumption DEF TypeOK, ControlType, Runs
<1>1. CASE TakeLock
  <2>1. Untouched(r)
    BY <1>0, <1>1 DEF FutureInv, TakeLock
  <2>2. QED
    BY <1>1, <2>1 DEF TakeLock, Untouched, database
<1>2. CASE pc # "idle" /\ Next
  <2>1. run' = run /\ r > run
    BY <1>0, <1>2 DEF Next, RecoverStaleLock, CreateRun, Announce, RunStep, PersistRanked,
       StepRaises, StepRaisesLate, RankedRowRaises, RecordSuccess, RecordRaises,
       Degrade, RecordFailure, AuditRaises, EndRun, Report, ReleaseLock, Escape, Crash,
       Callback, QuietStep, DecideDiscoverSources, Collect, IngestStore, BaselineScore,
       SkipAgent, RankSignals, ValidateCompose, Publish, Succeed, TakeLock
  <2>2. Untouched(r)
    BY <2>1 DEF FutureInv
  <2>3. r # run
    BY <1>0, <2>1
  <2>4. traces'[r] = traces[r]
    BY <1>0, <2>3, HistoryFrame DEF DatabaseType, RecordSuccess, Degrade, RecordFailure
  <2>5. runStatus'[r] = runStatus[r]
    BY <1>0, <2>3, HistoryFrame DEF DatabaseType, CreateRun, EndRun
  <2>6. ranked'[r] = ranked[r]
    BY <1>0, <2>3, HistoryFrame
       DEF DatabaseType, PersistRanked, ValidateCompose, StepRaisesLate
  <2>7. QED
    BY <2>2, <2>4, <2>5, <2>6 DEF Untouched
<1>3. CASE pc = "idle" /\ ~TakeLock
  <2>1. UNCHANGED <<run, pc, traces, runStatus, ranked>>
    BY <1>3 DEF Next, RecoverStaleLock, CreateRun, Announce, RunStep, PersistRanked,
       StepRaises, StepRaisesLate, RankedRowRaises, RecordSuccess, RecordRaises,
       Degrade, RecordFailure, AuditRaises, EndRun, Report, ReleaseLock, Escape, Crash,
       vars, database
  <2>2. QED
    BY <2>1 DEF FutureInv, Untouched
<1>4. CASE UNCHANGED vars
  BY <1>4 DEF FutureInv, Untouched, vars, database
<1>5. QED
  BY <1>1, <1>2, <1>3, <1>4

LEMMA RowStep == Inv /\ [Next]_vars => RowInv'
<1> SUFFICES ASSUME Inv, [Next]_vars PROVE RowInv'
  OBVIOUS
<1> USE DEF Inv
<1>0. /\ run \in Nat /\ DatabaseType
      /\ pc # "idle" => run \in Runs
  BY RunInRuns DEF TypeOK, ControlType
<1>1. CASE TakeLock
  BY <1>0, <1>1 DEF TakeLock, RowInv, Flying, Stepping
<1>2. CASE CreateRun
  BY <1>0, <1>2 DEF CreateRun, RowInv, DatabaseType, Flying, Stepping
<1>3. CASE EndRun
  <2>1. Outcome \in Terminal
    BY DEF Outcome, Terminal, Succeeded
  <2>2. QED
    BY <1>0, <1>3, <2>1 DEF EndRun, RowInv, DatabaseType, Flying, Stepping
<1>4. CASE RunStep
  <2>1. pc' \in {"record", "persist"} /\ UNCHANGED <<run, runStatus>> /\ pc = "step"
    BY <1>4 DEF RunStep, Callback, QuietStep, DecideDiscoverSources, Collect, IngestStore,
       BaselineScore, SkipAgent, RankSignals, ValidateCompose, Publish, Succeed
  <2>2. QED
    BY <2>1 DEF RowInv, Flying, Stepping
<1>5. CASE RecordSuccess \/ RecordRaises \/ Degrade \/ RecordFailure \/ AuditRaises
  BY <1>5 DEF RecordSuccess, RecordRaises, Degrade, RecordFailure, AuditRaises, RowInv,
     Flying, Stepping, database
<1>6. CASE PersistRanked \/ StepRaises \/ StepRaisesLate \/ RankedRowRaises
  BY <1>6 DEF PersistRanked, StepRaises, StepRaisesLate, RankedRowRaises, Succeed, RowInv,
     Flying, Stepping, database
<1>7. CASE \/ Announce \/ Report \/ ReleaseLock \/ Escape \/ Crash \/ RecoverStaleLock
           \/ UNCHANGED vars
  BY <1>7 DEF Announce, Report, ReleaseLock, Escape, Crash, RecoverStaleLock, RowInv,
     Flying, Stepping, database, vars
<1>8. QED
  BY <1>1, <1>2, <1>3, <1>4, <1>5, <1>6, <1>7 DEF Next

LEMMA PathStep == Inv /\ [Next]_vars => PathInv'
<1> SUFFICES ASSUME Inv, [Next]_vars PROVE PathInv'
  OBVIOUS
<1> USE DEF Inv
<1>0. /\ pc # "idle" => run \in Runs
      /\ DatabaseType /\ step \in 1..11
  BY RunInRuns, StepTable DEF TypeOK, ControlType
<1>1. CASE TakeLock
  BY <1>1 DEF TakeLock, PathInv, Stepping
<1>2. CASE CreateRun
  <2>1. traces[run] = <<>> /\ pc = "create" /\ step = 1
    BY <1>0, <1>2 DEF CreateRun, FutureInv, Untouched, PathInv
  <2>2. QED
    BY <1>2, <2>1 DEF CreateRun, PathInv, Stepping
<1>2a. CASE Announce
  BY <1>0, <1>2a DEF Announce, PathInv, Stepping, database, memory
<1>3. CASE RunStep
  <2>1. /\ pc = "step" /\ UNCHANGED <<run, step, traces>>
        /\ pc' = "record" \/ (pc' = "persist" /\ step = 8)
        /\ degraded => degraded'
    BY <1>3, StepOfAction DEF RunStep, Callback, QuietStep, DecideDiscoverSources, Collect,
       IngestStore, BaselineScore, SkipAgent, RankSignals, ValidateCompose, Publish,
       Succeed, memory
  <2>2. QED
    BY <2>1 DEF PathInv, Stepping
<1>4. CASE PersistRanked \/ StepRaises \/ StepRaisesLate \/ RankedRowRaises \/ RecordRaises
  BY <1>4 DEF PersistRanked, StepRaises, StepRaisesLate, RankedRowRaises, RecordRaises,
     Succeed, PathInv, Stepping, database, memory
<1>5. CASE RecordSuccess
  <2>1. [sequence |-> step, status |-> "SUCCEEDED"] \in Trace
    BY <1>0, StepTable DEF Trace
  <2>2. QED
    BY <1>0, <1>5, <2>1, AppendTrace, StepTable
       DEF RecordSuccess, DatabaseType, PathInv, Stepping, memory
<1>6. CASE Degrade
  <2>1. [sequence |-> step, status |-> "DEGRADED"] \in Trace
    BY <1>0, StepTable DEF Trace
  <2>2. step # 11
    BY <1>6, StepOfAction
  <2>3. QED
    BY <1>0, <1>6, <2>1, <2>2, AppendTrace DEF Degrade, DatabaseType, PathInv, Stepping
<1>7. CASE RecordFailure \/ AuditRaises \/ EndRun \/ Report \/ ReleaseLock \/ Escape \/ Crash
  BY <1>7 DEF RecordFailure, AuditRaises, EndRun, Report, ReleaseLock, Escape, Crash,
     PathInv, Stepping
<1>8. CASE RecoverStaleLock \/ UNCHANGED vars
  BY <1>8 DEF RecoverStaleLock, vars, database, memory, PathInv, Stepping
<1>9. QED
  BY <1>1, <1>2, <1>2a, <1>3, <1>4, <1>5, <1>6, <1>7, <1>8 DEF Next

LEMMA PathTellsStep == Inv /\ [Next]_vars => TracesTellThePath'
<1> SUFFICES ASSUME Inv, [Next]_vars,
                    NEW r \in Runs, NEW i \in DOMAIN traces'[r]
             PROVE  /\ traces'[r][i].sequence = i
                    /\ traces'[r][i].status = "DEGRADED" => i \notin Mandatory
                    /\ traces'[r][i].status = "FAILED" =>
                          /\ i \in Mandatory
                          /\ i = Len(traces'[r])
                          /\ runStatus'[r] \notin Succeeded
  BY DEF TracesTellThePath
<1> USE DEF Inv
<1>0. /\ pc # "idle" => run \in Runs
      /\ DatabaseType /\ step \in Steps
  BY RunInRuns DEF TypeOK, ControlType
<1>1. ASSUME NEW result \in {"SUCCEEDED", "DEGRADED", "FAILED"},
             pc \in {"record", "handle"}, UNCHANGED runStatus,
             traces' = [traces EXCEPT ![run] =
                           Append(@, [sequence |-> step, status |-> result])],
             result = "DEGRADED" => step \notin Mandatory,
             result = "FAILED" => step \in Mandatory
      PROVE  /\ traces'[r][i].sequence = i
             /\ traces'[r][i].status = "DEGRADED" => i \notin Mandatory
             /\ traces'[r][i].status = "FAILED" =>
                   /\ i \in Mandatory
                   /\ i = Len(traces'[r])
                   /\ runStatus'[r] \notin Succeeded
  <2>1. run \in Runs /\ runStatus[run] = "RUNNING" /\ Len(traces[run]) = step - 1
    BY <1>0, <1>1 DEF RowInv, PathInv, Flying, Stepping
  <2>2. [sequence |-> step, status |-> result] \in Trace
    BY <1>0, <1>1 DEF Trace
  <2>3. /\ \A q \in Runs \ {run} : traces'[q] = traces[q]
        /\ Len(traces'[run]) = step
        /\ DOMAIN traces'[run] = 1..step
        /\ DOMAIN traces[run] = 1..(step - 1)
        /\ \A j \in 1..(step - 1) : traces'[run][j] = traces[run][j]
        /\ traces'[run][step] = [sequence |-> step, status |-> result]
    BY <1>0, <1>1, <2>1, <2>2, AppendTrace, StepTable DEF DatabaseType
  <2>4. CASE r # run
    BY <1>1, <2>3, <2>4 DEF TracesTellThePath
  <2>5. CASE r = run /\ i \in 1..(step - 1)
    BY <1>1, <2>1, <2>3, <2>5 DEF TracesTellThePath, PathInv, Stepping
  <2>6. CASE r = run /\ i = step
    BY <1>1, <2>1, <2>3, <2>6 DEF Succeeded
  <2>7. QED
    BY <1>0, <2>3, <2>4, <2>5, <2>6, StepTable
<1>2. CASE RecordSuccess \/ Degrade \/ RecordFailure
  <2>1. CASE RecordSuccess
    BY <1>1, <2>1 DEF RecordSuccess
  <2>2. CASE Degrade
    BY <1>1, <2>2, StepOfAction DEF Degrade, Mandatory
  <2>3. CASE RecordFailure
    BY <1>1, <2>3, StepOfAction DEF RecordFailure
  <2>4. QED
    BY <1>2, <2>1, <2>2, <2>3
<1>3. CASE UNCHANGED traces /\ UNCHANGED runStatus
  BY <1>3 DEF TracesTellThePath
<1>4. CASE UNCHANGED traces /\ CreateRun
  BY <1>0, <1>4 DEF CreateRun, DatabaseType, TracesTellThePath, Succeeded
<1>5. CASE UNCHANGED traces /\ EndRun
  <2>1. CASE r # run
    BY <1>0, <1>5, <2>1 DEF EndRun, DatabaseType, TracesTellThePath
  <2>2. CASE r = run /\ pc = "failing"
    <3>1. Outcome = "FAILED"
      BY <2>2 DEF Outcome
    <3>2. QED
      BY <1>0, <1>5, <2>2, <3>1 DEF EndRun, DatabaseType, TracesTellThePath, Succeeded
  <2>3. CASE r = run /\ pc = "conclude"
    BY <1>5, <2>3 DEF TracesTellThePath, PathInv
  <2>4. QED
    BY <1>5, <2>1, <2>2, <2>3 DEF EndRun
<1>6. QED
  BY <1>2, <1>3, <1>4, <1>5, HistoryFrame

LEMMA OwnerStep == Inv /\ [Next]_vars => OwnerInv'
<1> SUFFICES ASSUME Inv, [Next]_vars PROVE OwnerInv'
  OBVIOUS
<1> USE DEF Inv
<1>0. /\ run \in Nat /\ step \in 1..11 /\ latest.run \in Nat
      /\ pc \in {"create", "announce"} => step = 1
  BY StepTable DEF TypeOK, ControlType, FilesType, PathInv
<1>1. CASE TakeLock
  BY <1>0, <1>1 DEF TakeLock, OwnerInv, BeforePublish, AfterPublish, Stepping
<1>2. CASE RunStep
  <2>1. CASE Publish
    BY <1>0, <1>2, <2>1, StepOfAction DEF RunStep, Publish, Succeed, OwnerInv,
       BeforePublish, AfterPublish, Stepping
  <2>2. CASE ~Publish
    <3>1. /\ UNCHANGED <<latest, run, step>> /\ pc = "step"
          /\ pc' \in {"record", "persist"} /\ step # 10
      <4>1. pc = "step" /\ UNCHANGED <<run, step>>
        BY <1>2 DEF RunStep
      <4>2. CASE QuietStep \/ DecideDiscoverSources \/ Collect \/ IngestStore
        BY <4>1, <4>2, StepOfAction DEF QuietStep, DecideDiscoverSources, Collect,
           IngestStore, Succeed
      <4>3. CASE BaselineScore \/ SkipAgent
        BY <4>1, <4>3, StepOfAction DEF BaselineScore, SkipAgent, Succeed
      <4>4. CASE RankSignals
        BY <4>1, <4>4, StepOfAction DEF RankSignals
      <4>5. CASE ValidateCompose
        BY <4>1, <4>5, StepOfAction DEF ValidateCompose, Succeed
      <4>6. QED
        BY <1>2, <2>2, <4>2, <4>3, <4>4, <4>5 DEF RunStep, Callback
    <3>2. QED
      BY <1>0, <3>1 DEF OwnerInv, BeforePublish, AfterPublish, Stepping
  <2>3. QED
    BY <2>1, <2>2
<1>3. CASE PersistRanked \/ StepRaises \/ StepRaisesLate \/ RankedRowRaises \/ RecordRaises
  BY <1>0, <1>3, StepOfAction DEF PersistRanked, StepRaises, StepRaisesLate,
     RankedRowRaises, RecordRaises, Succeed, PathInv, files, OwnerInv, BeforePublish,
     AfterPublish, Stepping
<1>4. CASE RecordSuccess
  BY <1>0, <1>4, StepTable DEF RecordSuccess, files, OwnerInv, BeforePublish,
     AfterPublish, Stepping
<1>5. CASE Degrade
  BY <1>0, <1>5, StepOfAction DEF Degrade, files, OwnerInv, BeforePublish,
     AfterPublish, Stepping
<1>6. CASE CreateRun \/ Announce
  BY <1>0, <1>6 DEF CreateRun, Announce, files, OwnerInv, BeforePublish, AfterPublish,
     Stepping
<1>7. CASE RecordFailure \/ AuditRaises \/ EndRun \/ Report \/ ReleaseLock \/ Escape \/ Crash
  BY <1>0, <1>7 DEF RecordFailure, AuditRaises, EndRun, Report, ReleaseLock, Escape,
     Crash, files, OwnerInv, BeforePublish, AfterPublish, Stepping
<1>8. CASE RecoverStaleLock \/ UNCHANGED vars
  BY <1>8 DEF RecoverStaleLock, vars, files, OwnerInv, BeforePublish, AfterPublish,
     Stepping
<1>9. QED
  BY <1>1, <1>2, <1>3, <1>4, <1>5, <1>6, <1>7, <1>8 DEF Next

LEMMA ValidatedStep == Inv /\ [Next]_vars => LatestIsValidated'
<1> SUFFICES ASSUME Inv, [Next]_vars, latest'.run # 0 PROVE LatestIsValidated'
  BY DEF LatestIsValidated
<1> USE DEF Inv
<1>0. /\ pc # "idle" => run \in Runs
      /\ DatabaseType /\ FilesType /\ step \in Steps
  BY RunInRuns DEF TypeOK, ControlType
<1> DEFINE Validated(t) == /\ Len(t) >= 9
                           /\ \A i \in 1..9 : i \in Mandatory => t[i].status = "SUCCEEDED"
<1>1. CASE RunStep /\ Publish
  <2>1. /\ step = 10 /\ pc = "step" /\ run \in Runs
        /\ latest'.run = run /\ traces' = traces
    BY <1>0, <1>1, StepOfAction DEF RunStep, Publish
  <2>2. Len(traces[run]) = 9
    BY <2>1 DEF PathInv, Stepping
  <2>3. traces[run] \in Seq(Trace)
    BY <1>0, <2>1 DEF DatabaseType
  <2>4. ASSUME NEW i \in 1..9, i \in Mandatory
        PROVE  traces[run][i].status = "SUCCEEDED"
    <3>1. i \in DOMAIN traces[run] /\ traces[run][i] \in Trace
      BY <2>2, <2>3, LenProperties, ElementOfSeq
    <3>2. traces[run][i].status \in {"SUCCEEDED", "DEGRADED", "FAILED"}
      BY <3>1 DEF Trace
    <3>3. traces[run][i].status # "FAILED"
      BY <2>1, <3>1 DEF PathInv, Stepping
    <3>4. traces[run][i].status # "DEGRADED"
      BY <2>1, <2>4, <3>1 DEF TracesTellThePath
    <3>5. QED
      BY <3>2, <3>3, <3>4
  <2>5. QED
    BY <2>1, <2>2, <2>4 DEF LatestIsValidated
<1>2. CASE UNCHANGED latest
  <2>1. Validated(traces[latest.run]) /\ latest.run \in Runs
    BY <1>0, <1>2 DEF LatestIsValidated, FilesType, Runs
  <2>2. ASSUME NEW t \in Trace, run \in Runs,
               traces' = [traces EXCEPT ![run] = Append(@, t)]
        PROVE  Validated(traces'[latest.run])
    BY <1>0, <2>1, <2>2, AppendTrace DEF DatabaseType
  <2>3. CASE RecordSuccess \/ Degrade \/ RecordFailure
    <3>1. run \in Runs
      BY <1>0, <2>3 DEF RecordSuccess, Degrade, RecordFailure
    <3>2. PICK result \in {"SUCCEEDED", "DEGRADED", "FAILED"} :
             traces' = [traces EXCEPT ![run] =
                           Append(@, [sequence |-> step, status |-> result])]
      BY <2>3 DEF RecordSuccess, Degrade, RecordFailure
    <3>3. [sequence |-> step, status |-> result] \in Trace
      BY <1>0 DEF Trace
    <3>4. Validated(traces'[latest.run])
      BY <2>2, <3>1, <3>2, <3>3
    <3>5. QED
      BY <1>2, <3>4 DEF LatestIsValidated
  <2>4. CASE UNCHANGED traces
    BY <1>2, <2>4 DEF LatestIsValidated
  <2>5. QED
    BY <2>3, <2>4, HistoryFrame
<1>3. QED
  BY <1>1, <1>2, HistoryFrame

LEMMA EarnedStep == Inv /\ [Next]_vars => SuccessIsEarned'
<1> SUFFICES ASSUME Inv, [Next]_vars, NEW r \in Runs, runStatus'[r] \in Succeeded
             PROVE  /\ Len(traces'[r]) = Len(StepOrder)
                    /\ latest'.run >= r
                    /\ replayHash'[r]
                    /\ runStatus'[r] = "SUCCEEDED" =>
                          \A i \in DOMAIN traces'[r] : traces'[r][i].status = "SUCCEEDED"
  BY DEF SuccessIsEarned
<1> USE DEF Inv
<1>0. /\ pc # "idle" => run \in Runs
      /\ DatabaseType /\ latest.run \in Nat /\ run \in Nat /\ r \in Nat
  BY RunInRuns DEF TypeOK, ControlType, FilesType, Runs
<1>1. CASE runStatus'[r] = runStatus[r]
  <2>1. /\ Len(traces[r]) = Len(StepOrder)
        /\ latest.run >= r
        /\ replayHash[r]
        /\ runStatus[r] = "SUCCEEDED" =>
              \A i \in DOMAIN traces[r] : traces[r][i].status = "SUCCEEDED"
    BY <1>1 DEF SuccessIsEarned
  <2>2. pc \in Flying => r # run
    BY <1>1 DEF RowInv, Succeeded
  <2>3. traces'[r] = traces[r]
    BY <1>0, <2>2, HistoryFrame DEF RecordSuccess, Degrade, RecordFailure, DatabaseType,
       Flying, Stepping
  <2>4. replayHash'[r] = replayHash[r]
    BY <1>0, <2>2, HistoryFrame DEF EndRun, DatabaseType, Flying, Stepping
  <2>5. latest'.run >= r
    <3>1. CASE UNCHANGED latest
      BY <2>1, <3>1
    <3>2. CASE RunStep /\ Publish
      BY <1>0, <2>1, <3>2 DEF Publish, OwnerInv
    <3>3. QED
      BY <3>1, <3>2, HistoryFrame
  <2>6. QED
    BY <1>1, <2>1, <2>3, <2>4, <2>5
<1>2. CASE runStatus'[r] # runStatus[r]
  <2>1. EndRun /\ r = run
    BY <1>0, <1>2, HistoryFrame DEF CreateRun, EndRun, DatabaseType, Succeeded
  <2>2. run \in Runs /\ runStatus'[run] = Outcome
    BY <1>0, <2>1 DEF EndRun, DatabaseType
  <2>3. pc = "conclude" /\ (Outcome = "SUCCEEDED" => ~degraded)
    BY <2>1, <2>2 DEF EndRun, Outcome, Succeeded
  <2>4. Len(traces[run]) = Len(StepOrder) /\ latest.run = run /\ hashed
    BY <2>3, StepTable DEF PathInv, OwnerInv, AfterPublish, RankedInv, Composed
  <2>5. replayHash'[run]
    BY <1>0, <2>1, <2>2, <2>4 DEF EndRun, DatabaseType
  <2>6. Outcome = "SUCCEEDED" =>
           \A i \in DOMAIN traces[run] : traces[run][i].status = "SUCCEEDED"
    <3>1. SUFFICES ASSUME Outcome = "SUCCEEDED", NEW i \in DOMAIN traces[run]
                   PROVE  traces[run][i].status = "SUCCEEDED"
      OBVIOUS
    <3>2. traces[run] \in Seq(Trace)
      BY <1>0, <2>2 DEF DatabaseType
    <3>3. traces[run][i] \in Trace
      BY <3>2
    <3>4. traces[run][i].status \in {"SUCCEEDED", "DEGRADED", "FAILED"}
      BY <3>3 DEF Trace
    <3>5. QED
      BY <2>3, <3>1, <3>4 DEF PathInv
  <2>7. UNCHANGED <<traces, latest>>
    BY <2>1 DEF EndRun, files
  <2>8. QED
    BY <1>0, <2>1, <2>2, <2>4, <2>5, <2>6, <2>7
<1>3. QED
  BY <1>1, <1>2

\* The rows of the current run, through the agent stage and validate_compose.
LEMMA RankedStep == Inv /\ [Next]_vars => RankedInv'
<1> SUFFICES ASSUME Inv, [Next]_vars PROVE RankedInv'
  OBVIOUS
<1> USE DEF Inv
<1>a. \A o \in Ordering : o.count \in Nat
  BY WorkflowAssumption DEF Ordering
<1>0. /\ pc # "idle" => run \in Runs
      /\ ranked \in [Runs -> Ordering] /\ step \in 1..11
      /\ baseline \in Ordering /\ output \in Ordering /\ temp \in Ordering
      /\ \A o \in Ordering : o.count \in Nat
      /\ pc \in {"create", "announce"} => step = 1
      /\ pc = "persist" => step = 8
  BY <1>a, RunInRuns, StepTable DEF TypeOK, ControlType, DatabaseType, MemoryType,
     FilesType, PathInv
<1>1. CASE TakeLock
  BY <1>0, <1>1 DEF TakeLock, RankedInv, Composed, Stepping
<1>2. CASE CreateRun
  <2>1. ranked[run].count = 0 /\ run \in Runs
    BY <1>0, <1>2 DEF CreateRun, FutureInv, Untouched
  <2>2. QED
    BY <1>0, <1>2, <2>1 DEF CreateRun, RankedInv, Composed, Stepping
<1>2a. CASE Announce
  BY <1>0, <1>2a DEF Announce, RankedInv, Composed, Stepping, database, memory
<1>3. CASE RunStep
  <2>0. pc = "step" /\ run \in Runs /\ UNCHANGED <<run, step>>
    BY <1>0, <1>3 DEF RunStep
  <2>1. CASE ValidateCompose
    <3>1. step = 9 /\ pc' = "record" /\ hashed' = TRUE /\ temp' = output
      BY <2>1, StepOfAction DEF ValidateCompose, Succeed
    <3>2. /\ ranked'[run] = Persisted(output)
          /\ ~Conflicts(output) /\ SameEmptiness /\ RowsNeedBaseline
      BY <1>0, <2>0, <2>1, <3>1 DEF ValidateCompose, RankedInv
    <3>3. Holds(run, temp)'
      BY <1>0, <2>0, <3>1, <3>2
         DEF Holds, Persisted, Conflicts, SameEmptiness, RowsNeedBaseline
    <3>4. QED
      BY <2>0, <3>1, <3>3 DEF RankedInv, Composed, Stepping
  <2>2. CASE QuietStep \/ Publish
    BY <1>0, <2>0, <2>2, StepOfAction DEF QuietStep, Publish, Succeed, RankedInv, Composed,
       Stepping, memory, Holds
  <2>3. CASE DecideDiscoverSources \/ Collect \/ IngestStore
    BY <1>0, <2>0, <2>3, StepOfAction DEF DecideDiscoverSources, Collect, IngestStore,
       Succeed, RankedInv, Composed, Stepping
  <2>4. CASE BaselineScore
    BY <1>0, <2>0, <2>4, StepOfAction DEF BaselineScore, Succeed, RankedInv, Composed,
       Stepping
  <2>5. CASE SkipAgent
    BY <1>0, <2>0, <2>5, StepOfAction DEF SkipAgent, Succeed, RankedInv, Composed,
       Stepping, SameEmptiness, RowsNeedBaseline
  <2>6. CASE RankSignals
    <3>1. /\ output'.kind = "hybrid" /\ UNCHANGED <<ranked, baseline>>
          /\ output'.count = 0 <=> baseline.count = 0
          /\ output'.count \in Nat
          /\ step = 8 /\ pc' = "persist"
      BY <1>0, <2>6, StepOfAction DEF RankSignals
    <3>2. ranked[run].count = 0
      BY <2>0, <3>1 DEF RankedInv
    <3>3. QED
      BY <2>0, <3>1, <3>2 DEF RankedInv, Composed, Stepping, SameEmptiness
  <2>7. QED
    BY <1>3, <2>1, <2>2, <2>3, <2>4, <2>5, <2>6 DEF RunStep, Callback
<1>4. CASE PersistRanked
  <2>1. /\ pc = "persist" /\ step = 8 /\ run \in Runs /\ output.kind = "hybrid"
        /\ SameEmptiness /\ ranked[run].count <= output.count
        /\ ranked[run].count \in Nat /\ output.count \in Nat
        /\ UNCHANGED <<run, step, output, baseline, latest>>
    BY <1>0, <1>4 DEF PersistRanked, RankedInv, memory, files
  <2>2. CASE ranked[run].count < output.count
    <3>1. ranked'[run].count = ranked[run].count + 1 /\ pc' = "persist"
      BY <1>0, <1>4, <2>1, <2>2 DEF PersistRanked
    <3>2. QED
      BY <2>1, <2>2, <3>1 DEF RankedInv, Composed, Stepping, SameEmptiness
  <2>3. CASE ~(ranked[run].count < output.count)
    BY <1>4, <2>1, <2>3 DEF PersistRanked, Succeed, RankedInv, Composed, Stepping,
       SameEmptiness, RowsNeedBaseline
  <2>4. QED
    BY <2>2, <2>3
<1>5. CASE StepRaises
  BY <1>0, <1>5 DEF StepRaises, RankedInv, Composed, Stepping, RowsNeedBaseline, database,
     memory, Holds
<1>6. CASE StepRaisesLate
  <2>1. /\ pc = "step" /\ pc' = "handle" /\ UNCHANGED <<run, step>>
        /\ step = 9 \/ (step = 6 /\ UNCHANGED ranked)
    BY <1>0, <1>6, StepTable DEF StepRaisesLate, Name
  <2>2. QED
    BY <2>1 DEF RankedInv, Composed, Stepping
<1>7. CASE RankedRowRaises
  BY <1>0, <1>7 DEF RankedRowRaises, RankedInv, Composed, Stepping, SameEmptiness,
     RowsNeedBaseline, database
<1>8. CASE RecordSuccess
  BY <1>0, <1>8, StepTable DEF RecordSuccess, RankedInv, Composed, Stepping, SameEmptiness,
     RowsNeedBaseline, memory, files, Holds
<1>9. CASE RecordRaises
  BY <1>0, <1>9 DEF RecordRaises, RankedInv, Composed, Stepping, RowsNeedBaseline,
     database, memory, files, Holds
<1>10. CASE Degrade
  BY <1>0, <1>10, StepOfAction DEF Degrade, RankedInv, Composed, Stepping, SameEmptiness,
     RowsNeedBaseline
<1>11. CASE RecordFailure \/ AuditRaises
  <2>1. pc' = "failing" /\ UNCHANGED <<run, latest, hashed>> /\ pc \in {"step", "handle"}
    BY <1>11 DEF RecordFailure, AuditRaises, files, memory
  <2>2. latest.run = run => Composed
    BY <1>0, <2>1 DEF OwnerInv, BeforePublish, Composed, Stepping, TypeOK, ControlType
  <2>3. QED
    BY <2>1, <2>2 DEF RankedInv, Composed, Stepping
<1>12. CASE EndRun \/ Report \/ ReleaseLock \/ Escape \/ Crash \/ RecoverStaleLock
  BY <1>12 DEF EndRun, Report, ReleaseLock, Escape, Crash, RecoverStaleLock, RankedInv,
     Composed, Stepping
<1>13. CASE UNCHANGED vars
  BY <1>13 DEF vars, database, memory, files, RankedInv, Composed, Stepping, SameEmptiness,
     RowsNeedBaseline, Holds
<1>14. QED
  BY <1>1, <1>2, <1>2a, <1>3, <1>4, <1>5, <1>6, <1>7, <1>8, <1>9, <1>10, <1>11, <1>12, <1>13
     DEF Next

LEMMA ReplayStep == Inv /\ [Next]_vars => ReplayInv'
<1> SUFFICES ASSUME Inv, [Next]_vars, latest'.run # 0 PROVE ReplayInv'
  BY DEF ReplayInv
<1> USE DEF Inv
<1>0. /\ pc # "idle" => run \in Runs
      /\ DatabaseType /\ latest.run \in Nat /\ run \in Nat
      /\ latest.run # 0 => latest.run \in Runs
  BY RunInRuns DEF TypeOK, ControlType, FilesType, Runs
<1>1. CASE RunStep /\ Publish
  <2>1. /\ pc = "step" /\ step = 10 /\ latest' = [run |-> run, ordering |-> temp]
        /\ UNCHANGED <<runStatus, ranked, run>>
    BY <1>1, StepOfAction DEF RunStep, Publish
  <2>2. Holds(run, temp) /\ runStatus[run] = "RUNNING"
    BY <2>1 DEF RankedInv, Composed, RowInv, Flying, Stepping
  <2>3. QED
    BY <2>1, <2>2 DEF ReplayInv, Holds, Terminal, Succeeded
<1>2. CASE UNCHANGED latest
  <2>1. latest.run # 0 /\ latest.run \in Runs
    BY <1>0, <1>2
  <2>2. ranked'[latest.run] = ranked[latest.run]
    <3>1. CASE UNCHANGED ranked
      BY <3>1
    <3>2. CASE PersistRanked
      BY <1>0, <2>1, <3>2 DEF PersistRanked, OwnerInv, BeforePublish, Stepping, PathInv,
         DatabaseType
    <3>3. CASE RunStep /\ ValidateCompose
      BY <1>0, <2>1, <3>3, StepOfAction DEF RunStep, ValidateCompose, OwnerInv,
         BeforePublish, Stepping, DatabaseType
    <3>4. CASE StepRaisesLate /\ step = 9
      BY <1>0, <2>1, <3>4 DEF StepRaisesLate, OwnerInv, BeforePublish, Stepping,
         DatabaseType
    <3>5. QED
      BY <3>1, <3>2, <3>3, <3>4, HistoryFrame
  <2>3. runStatus'[latest.run] \in Terminal => replayHash'[latest.run]
    <3>1. CASE EndRun /\ latest.run = run
      <4>1. hashed /\ replayHash'[run] = hashed
        BY <1>0, <2>1, <3>1 DEF EndRun, RankedInv, Composed, DatabaseType
      <4>2. QED
        BY <3>1, <4>1
    <3>2. CASE EndRun /\ latest.run # run
      BY <1>0, <2>1, <3>2 DEF EndRun, ReplayInv, DatabaseType
    <3>3. CASE CreateRun
      <4>1. latest.run # run
        BY <1>0, <3>3 DEF CreateRun, OwnerInv, BeforePublish
      <4>2. QED
        BY <1>0, <2>1, <3>3, <4>1 DEF CreateRun, ReplayInv, DatabaseType
    <3>4. CASE UNCHANGED <<runStatus, replayHash>>
      BY <2>1, <3>4 DEF ReplayInv
    <3>5. QED
      BY <3>1, <3>2, <3>3, <3>4, HistoryFrame
  <2>4. QED
    BY <1>2, <2>1, <2>2, <2>3 DEF ReplayInv, Holds
<1>3. QED
  BY <1>1, <1>2, HistoryFrame

-----------------------------------------------------------------------------
(* The theorems *)

LEMMA InvInit == Init => Inv
<1> SUFFICES ASSUME Init PROVE Inv
  OBVIOUS
<1>1. TypeOK
  BY TypeInit
<1>2. \A r \in Runs : runStatus[r] = "none" /\ traces[r] = <<>> /\ ranked[r].count = 0
  BY DEF Init, NoOrdering
<1>3. TracesTellThePath /\ SuccessIsEarned /\ FutureInv
  BY <1>2 DEF TracesTellThePath, SuccessIsEarned, Succeeded, FutureInv, Untouched
<1>4. LatestIsValidated /\ ReplayInv /\ OwnerInv
  BY DEF Init, LatestIsValidated, ReplayInv, OwnerInv, BeforePublish, AfterPublish, Stepping
<1>5. RowInv /\ PathInv /\ RankedInv
  BY DEF Init, RowInv, PathInv, RankedInv, Flying, Stepping, Composed
<1>6. QED
  BY <1>1, <1>3, <1>4, <1>5 DEF Inv

LEMMA InvStep == Inv /\ [Next]_vars => Inv'
<1>1. Inv /\ [Next]_vars => TypeOK'
  BY ControlTypeStep, DatabaseTypeStep, FilesTypeStep, MemoryTypeStep DEF TypeOK, Inv
<1>2. QED
  BY <1>1, PathTellsStep, EarnedStep, ValidatedStep, FutureStep, RowStep, PathStep,
     OwnerStep, RankedStep, ReplayStep DEF Inv

THEOREM InvHolds == Spec => []Inv
BY InvInit, InvStep, PTL DEF Spec

\* The traces of every run, finished, failed or abandoned, are the gap-free
\* account of the steps it took.
THEOREM TracesAreFaithful == Spec => []TracesTellThePath
BY InvHolds, PTL DEF Inv

\* No run is recorded as a success without the eleven steps and the artifact.
THEOREM SuccessIsAlwaysEarned == Spec => []SuccessIsEarned
BY InvHolds, PTL DEF Inv

\* latest.json is never the output of a refresh that skipped or failed a
\* mandatory step before publish.
THEOREM LatestIsAlwaysValidated == Spec => []LatestIsValidated
BY InvHolds, PTL DEF Inv

\* The published ordering can be replayed from the database alone, whichever
\* of the two orderings won and whatever failed on the way.
THEOREM PublishedIsReplayable == Spec => []ReplayMatchesArtifact
<1>1. Inv => ReplayMatchesArtifact
  BY DEF Inv, ReplayInv, ReplayMatchesArtifact, Replay, Holds, NoOrdering, TypeOK, FilesType,
     Ordering
<1>2. QED
  BY <1>1, InvHolds, PTL

-----------------------------------------------------------------------------
(* The status file *)

\* What the status file says of the last run is so.
Truth ==
    /\ status.run = run
    /\ \/ status.state = "failed" /\ runStatus[run] = "FAILED"
       \/ /\ status.state = "succeeded_partial"
          /\ runStatus[run] = "SUCCEEDED_PARTIAL" /\ latest.run = run
       \/ /\ status.state = "succeeded_empty"
          /\ runStatus[run] = "SUCCEEDED" /\ latest.run = run
          /\ latest.ordering.count = 0
       \/ /\ status.state = "succeeded"
          /\ runStatus[run] = "SUCCEEDED" /\ latest.run = run
          /\ latest.ordering.count # 0

\* The output that Report looks at is what latest.json shows, and the status is
\* true from Report to the next refresh, or is that of a stale lock.
StatusInv ==
    /\ Composed => temp = output
    /\ AfterPublish => latest.ordering = output
    /\ pc = "report" /\ runStatus[run] \in Succeeded =>
          latest.run = run /\ latest.ordering = output
    /\ pc = "release" => Truth
    /\ pc = "idle" /\ lock = "free" /\ run # 0 =>
          status = [state |-> "failed_stale_lock", run |-> 0] \/ Truth

LEMMA StatusStep == Inv /\ StatusInv /\ [Next]_vars => StatusInv'
<1> SUFFICES ASSUME Inv, StatusInv, [Next]_vars PROVE StatusInv'
  OBVIOUS
<1> USE DEF Inv
<1>0. /\ run \in Nat /\ step \in 1..11 /\ latest.run \in Nat
      /\ pc # "idle" => run \in Runs
      /\ pc \in {"create", "announce"} => step = 1
      /\ pc = "persist" => step = 8
  BY RunInRuns, StepTable DEF TypeOK, ControlType, FilesType, PathInv
<1>1. CASE TakeLock
  BY <1>1 DEF TakeLock, StatusInv, Composed, AfterPublish, Stepping
<1>2. CASE RecoverStaleLock
  BY <1>2 DEF RecoverStaleLock, StatusInv, Composed, AfterPublish, Stepping
<1>3. CASE CreateRun \/ Announce
  BY <1>0, <1>3 DEF CreateRun, Announce, StatusInv, Composed, AfterPublish, Stepping
<1>4. CASE RunStep
  <2>1. pc = "step" /\ UNCHANGED <<run, step>>
    BY <1>4 DEF RunStep
  <2>2. CASE Publish
    BY <1>0, <2>1, <2>2, StepOfAction DEF Publish, memory, Succeed, StatusInv, Composed,
       AfterPublish, Stepping
  <2>3. CASE ValidateCompose
    BY <1>0, <2>1, <2>3, StepOfAction DEF ValidateCompose, Succeed, StatusInv, Composed,
       AfterPublish, Stepping
  <2>4. CASE QuietStep
    BY <1>0, <2>1, <2>4, StepOfAction DEF QuietStep, memory, Succeed, StatusInv, Composed,
       AfterPublish, Stepping
  <2>5. CASE DecideDiscoverSources \/ Collect \/ IngestStore
    BY <1>0, <2>1, <2>5, StepOfAction DEF DecideDiscoverSources, Collect, IngestStore,
       Succeed, StatusInv, Composed, AfterPublish, Stepping
  <2>6. CASE BaselineScore \/ SkipAgent
    BY <1>0, <2>1, <2>6, StepOfAction DEF BaselineScore, SkipAgent, Succeed, StatusInv,
       Composed, AfterPublish, Stepping
  <2>7. CASE RankSignals
    BY <1>0, <2>1, <2>7, StepOfAction DEF RankSignals, StatusInv, Composed, AfterPublish,
       Stepping
  <2>8. QED
    BY <1>4, <2>2, <2>3, <2>4, <2>5, <2>6, <2>7 DEF RunStep, Callback
<1>5. CASE PersistRanked \/ RankedRowRaises
  BY <1>0, <1>5 DEF PersistRanked, RankedRowRaises, Succeed, StatusInv, Composed,
     AfterPublish, Stepping
<1>6. CASE StepRaises \/ RecordRaises
  BY <1>0, <1>6 DEF StepRaises, RecordRaises, files, memory, StatusInv, Composed,
     AfterPublish, Stepping
<1>7. CASE StepRaisesLate
  BY <1>0, <1>7, StepOfAction DEF StepRaisesLate, StatusInv, Composed, AfterPublish,
     Stepping
<1>8. CASE RecordSuccess
  BY <1>0, <1>8, StepTable DEF RecordSuccess, files, memory, StatusInv, Composed,
     AfterPublish, Stepping
<1>9. CASE Degrade
  BY <1>0, <1>9, StepOfAction DEF Degrade, StatusInv, Composed, AfterPublish, Stepping
<1>10. CASE RecordFailure \/ AuditRaises \/ Escape \/ Crash
  BY <1>10 DEF RecordFailure, AuditRaises, Escape, Crash, StatusInv, Composed,
     AfterPublish, Stepping
<1>11. CASE EndRun
  <2>1. pc' = "report" /\ UNCHANGED <<run, latest, output>>
    BY <1>11 DEF EndRun, files, memory
  <2>2. runStatus'[run] = Outcome
    BY <1>0, <1>11 DEF EndRun, TypeOK, DatabaseType
  <2>3. Outcome \in Succeeded => pc = "conclude"
    BY <1>11 DEF EndRun, Outcome, Succeeded
  <2>4. pc = "conclude" => latest.run = run /\ latest.ordering = output
    BY DEF OwnerInv, StatusInv, AfterPublish
  <2>5. QED
    BY <2>1, <2>2, <2>3, <2>4 DEF StatusInv, Composed, AfterPublish, Stepping
<1>12. CASE Report
  <2>1. /\ pc' = "release" /\ UNCHANGED <<run, latest, runStatus>>
        /\ status' = [state |-> Shown(runStatus[run], output), run |-> run]
        /\ runStatus[run] \in Terminal
        /\ runStatus[run] \in Succeeded => latest.run = run /\ latest.ordering = output
    BY <1>12 DEF Report, database, RowInv, StatusInv
  <2>2. Truth'
    BY <2>1 DEF Truth, Shown, Terminal, Succeeded
  <2>3. QED
    BY <2>1, <2>2 DEF StatusInv, Composed, AfterPublish, Stepping
<1>13. CASE ReleaseLock
  BY <1>0, <1>13 DEF ReleaseLock, database, files, StatusInv, Truth, Composed, AfterPublish,
     Stepping
<1>14. CASE UNCHANGED vars
  BY <1>14 DEF vars, database, files, memory, StatusInv, Truth, Composed, AfterPublish,
     Stepping
<1>15. QED
  BY <1>1, <1>2, <1>3, <1>4, <1>5, <1>6, <1>7, <1>8, <1>9, <1>10, <1>11, <1>12, <1>13,
     <1>14 DEF Next

\* Between the refreshes the status file says how the last one ended, as its row
\* and the artifact do, or that a stale lock was removed.
THEOREM StatusAlwaysTellsTheTruth == Spec => []StatusTellsTheTruth
<1>1. Init => StatusInv
  BY DEF Init, StatusInv, Composed, AfterPublish, Stepping
<1>2. StatusInv => StatusTellsTheTruth
  BY DEF StatusInv, Truth, StatusTellsTheTruth
<1>3. QED
  BY <1>1, <1>2, StatusStep, InvHolds, PTL DEF Spec

-----------------------------------------------------------------------------
(* The refinement *)

LEMMA OutcomeOfTable ==
    /\ OutcomeOf("none") = "none" /\ OutcomeOf("RUNNING") = "running"
    /\ OutcomeOf("FAILED") = "failed"
    /\ OutcomeOf("SUCCEEDED") = "succeeded" /\ OutcomeOf("SUCCEEDED_PARTIAL") = "succeeded"
BY DEF OutcomeOf, Succeeded

\* The abstract variables of Lifecycle, under the refinement mapping.
OutcomeMap == [r \in Runs |-> OutcomeOf(runStatus[r])]
CurrentMap == IF pc \in {"idle", "create", "leaked"} THEN 0 ELSE run

LEMMA LifecycleInit == Init => Lifecycle!Init
BY OutcomeOfTable DEF Init, Lifecycle!Init

\* What does not touch the database's runs, the artifact or the presence of the
\* refresh is a stutter of the lifecycle.
LEMMA LifecycleStutter ==
  ASSUME UNCHANGED <<runStatus, latest>>, CurrentMap' = CurrentMap
  PROVE  UNCHANGED Lifecycle!lifecycleVars
BY DEF Lifecycle!lifecycleVars, CurrentMap

LEMMA LifecycleStep == Inv /\ [Next]_vars => [Lifecycle!Next]_(Lifecycle!lifecycleVars)
<1> SUFFICES ASSUME Inv, [Next]_vars
             PROVE  [Lifecycle!Next]_(Lifecycle!lifecycleVars)
  OBVIOUS
<1> USE DEF Inv
<1>0. /\ pc # "idle" => run \in Runs /\ run # 0
      /\ DatabaseType /\ run \in Nat /\ latest.run \in Nat
  BY RunInRuns DEF TypeOK, ControlType, FilesType, Runs
<1>1. CASE CreateRun
  <2>1. \A q \in Runs : q >= run => runStatus[q] = "none"
    BY <1>0, <1>1 DEF CreateRun, FutureInv, Untouched, Runs
  <2>2. run \in Runs /\ pc = "create" /\ pc' = "announce" /\ UNCHANGED <<run, latest>>
    BY <1>0, <1>1 DEF CreateRun, files
  <2>3. OutcomeMap' = [OutcomeMap EXCEPT ![run] = "running"]
    BY <1>0, <1>1, <2>2, OutcomeOfTable DEF CreateRun, OutcomeMap, DatabaseType
  <2>4. \A q \in Runs : q >= run => OutcomeMap[q] = "none"
    BY <2>1, OutcomeOfTable DEF OutcomeMap
  <2>5. OutcomeMap[run] = "none"
    BY <1>0, <2>2, <2>4
  <2>6. Lifecycle!Start(run)
    BY <2>2, <2>3, <2>4, <2>5 DEF Lifecycle!Start, OutcomeMap
  <2>7. QED
    BY <2>2, <2>6 DEF Lifecycle!Next
<1>2. CASE RunStep /\ Publish
  <2>1. /\ pc = "step" /\ step = 10 /\ pc' = "record"
        /\ latest'.run = run /\ UNCHANGED <<run, runStatus>>
    BY <1>2, StepOfAction DEF RunStep, Publish, Succeed
  <2>2. latest.run # run /\ runStatus[run] = "RUNNING"
    BY <1>0, <2>1 DEF OwnerInv, BeforePublish, RowInv, Flying, Stepping
  <2>3. Lifecycle!Publish
    BY <1>0, <2>1, <2>2, OutcomeOfTable DEF Lifecycle!Publish
  <2>4. QED
    BY <2>3 DEF Lifecycle!Next
<1>3. CASE EndRun
  <2>1. /\ pc \in {"conclude", "failing"} /\ pc' = "report"
        /\ UNCHANGED <<run, latest>> /\ run \in Runs /\ run # 0
        /\ runStatus[run] = "RUNNING"
        /\ runStatus' = [runStatus EXCEPT ![run] = Outcome]
    BY <1>0, <1>3 DEF EndRun, RowInv, Flying, files
  <2>2. OutcomeOf(Outcome) \in {"failed", "succeeded"}
    BY OutcomeOfTable DEF Outcome
  <2>3. OutcomeOf(Outcome) = "succeeded" => latest.run = run
    <3>1. CASE pc = "failing"
      <4>1. Outcome = "FAILED"
        BY <3>1 DEF Outcome
      <4>2. QED
        BY <4>1, OutcomeOfTable
    <3>2. CASE pc = "conclude"
      BY <3>2 DEF OwnerInv, AfterPublish
    <3>3. QED
      BY <2>1, <3>1, <3>2
  <2>4. Lifecycle!End(OutcomeOf(Outcome))
    BY <1>0, <2>1, <2>3, OutcomeOfTable DEF Lifecycle!End, DatabaseType
  <2>5. QED
    BY <2>2, <2>4 DEF Lifecycle!Next
<1>4. CASE ReleaseLock \/ Escape \/ Crash
  <2>1. /\ UNCHANGED <<runStatus, latest>> /\ pc' \in {"idle", "leaked"}
        /\ UNCHANGED run /\ pc # "idle"
    BY <1>4 DEF ReleaseLock, Escape, Crash, database, files
  <2>2. CASE pc \in {"create", "leaked"}
    BY <2>1, <2>2, LifecycleStutter DEF CurrentMap
  <2>3. CASE pc \notin {"create", "leaked"}
    <3>1. Lifecycle!Leave
      BY <1>0, <2>1, <2>3 DEF Lifecycle!Leave
    <3>2. QED
      BY <3>1 DEF Lifecycle!Next
  <2>4. QED
    BY <2>2, <2>3
<1>5. CASE TakeLock \/ RecoverStaleLock \/ UNCHANGED vars
  <2>1. UNCHANGED <<runStatus, latest>> /\ CurrentMap' = CurrentMap
    BY <1>5 DEF TakeLock, RecoverStaleLock, vars, database, files, CurrentMap
  <2>2. QED
    BY <2>1, LifecycleStutter
<1>6. CASE /\ ~CreateRun /\ ~EndRun /\ ~ReleaseLock /\ ~Escape /\ ~Crash
           /\ ~TakeLock /\ ~RecoverStaleLock /\ ~(UNCHANGED vars)
           /\ ~(RunStep /\ Publish)
  <2>1. UNCHANGED <<runStatus, latest>>
    BY <1>6, HistoryFrame
  <2>2. /\ UNCHANGED run
        /\ pc \notin {"idle", "create", "leaked"} /\ pc' \notin {"idle", "create", "leaked"}
    <3>1. CASE RunStep
      BY <3>1 DEF RunStep, Callback, QuietStep, DecideDiscoverSources, Collect,
         IngestStore, BaselineScore, SkipAgent, RankSignals, ValidateCompose, Publish,
         Succeed
    <3>2. CASE ~RunStep
      BY <1>6, <3>2 DEF Next, Announce, PersistRanked, StepRaises, StepRaisesLate,
         RankedRowRaises, RecordSuccess, RecordRaises, Degrade, RecordFailure, AuditRaises,
         Report, Succeed
    <3>3. QED
      BY <3>1, <3>2
  <2>3. QED
    BY <2>1, <2>2, LifecycleStutter DEF CurrentMap
<1>7. QED
  BY <1>1, <1>2, <1>3, <1>4, <1>5, <1>6

\* The eleven steps, with every fault, implement the lifecycle: runs happen one
\* at a time, end at most once, replace the artifact at most once and before
\* they end, and succeed only if they replaced it.
THEOREM WorkflowRefinesLifecycle == Spec => ImplementsLifecycle
BY InvHolds, LifecycleInit, LifecycleStep, PTL DEF Spec, ImplementsLifecycle, Lifecycle!Spec

=============================================================================
