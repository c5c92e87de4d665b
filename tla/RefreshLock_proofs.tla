------------------------- MODULE RefreshLock_proofs -------------------------
(***************************************************************************)
(* Proofs about RefreshLock, for any set of calls and processes.           *)
(*                                                                         *)
(* The protocol excludes a second refresh exactly when requests are        *)
(* serialised (SerialAcquire); what it promises without that is            *)
(* BusyMeansRunning, provided no exception escapes the try block and no    *)
(* pid is reused.                                                          *)
(***************************************************************************)
EXTENDS RefreshLock, TLAPS

(***************************************************************************)
(* Type correctness.                                                       *)
(***************************************************************************)

\* Every reachable state is well typed: whatever the interleaving and the
\* crashes, the files and runner attributes hold only what the model gives them.
THEOREM TypeCorrect == Spec => []TypeOK
<1>1. Init => TypeOK
  BY ConstantsAssumption
  DEF Init, TypeOK, NoFile, NoArtifact, NoRunner, PipelineStates, Active,
      Returned, Acquiring, Holding, Working
<1>2. TypeOK /\ [Next]_vars => TypeOK'
  <2> SUFFICES ASSUME TypeOK, [Next]_vars PROVE TypeOK'
    OBVIOUS
  <2> USE ConstantsAssumption
      DEF TypeOK, NoFile, PipelineStates, Active, Returned, Acquiring, Holding,
          Working, Goto, RunnerOf, ReportStep, dataVars
  <2>1. ASSUME NEW r \in Refreshes, Call(r) PROVE TypeOK'
    BY <2>1 DEF Call
  <2>2. ASSUME NEW r \in Refreshes, Acquire(r) PROVE TypeOK'
    <3>1. CASE CheckExists(r) BY <3>1 DEF CheckExists
    <3>2. CASE ReadOwner(r) BY <3>2 DEF ReadOwner
    <3>3. CASE ReportStale(r) BY <3>3 DEF ReportStale
    <3>4. CASE UnlinkStale(r) BY <3>4 DEF UnlinkStale
    <3>5. CASE CreateFile(r) BY <3>5 DEF CreateFile
    <3>6. CASE FillFile(r) BY <3>6 DEF FillFile
    <3> QED BY <2>2, <3>1, <3>2, <3>3, <3>4, <3>5, <3>6 DEF Acquire
  <2>3. ASSUME NEW r \in Refreshes, Body(r) PROVE TypeOK'
    <3>1. CASE Begin(r) BY <3>1 DEF Begin
    <3>2. CASE Ingest(r) BY <3>2 DEF Ingest
    <3>3. CASE NoteRunId(r) BY <3>3 DEF NoteRunId
    <3>4. CASE Score(r) BY <3>4 DEF Score
    <3>5. CASE Compose(r) BY <3>5 DEF Compose
    <3>6. CASE Publish(r)
      <4>1. ProcessOf[r] \in Processes OBVIOUS
      <4>2. RunnerOf(r).request \in Refreshes
        BY <3>6, <4>1 DEF Publish
      <4> QED BY <3>6, <4>2 DEF Publish
    <3>7. CASE WriteOutcome(r) BY <3>7 DEF WriteOutcome
    <3>8. CASE Release(r) BY <3>8 DEF Release
    <3> QED
      BY <2>3, <3>1, <3>2, <3>3, <3>4, <3>5, <3>6, <3>7, <3>8 DEF Body
  <2>4. ASSUME NEW r \in Refreshes, Fail(r) PROVE TypeOK'
    BY <2>4 DEF Fail
  <2>5. ASSUME NEW r \in Refreshes, Escape(r) PROVE TypeOK'
    BY <2>5 DEF Escape
  <2>6. ASSUME NEW p \in Processes, Crash(p) PROVE TypeOK'
    BY <2>6 DEF Crash, NoRunner
  <2>7. ASSUME NEW p \in Processes, ReusePid(p) PROVE TypeOK'
    BY <2>7 DEF ReusePid
  <2>8. CASE UNCHANGED vars
    BY <2>8 DEF vars
  <2> QED
    BY <2>1, <2>2, <2>3, <2>4, <2>5, <2>6, <2>7, <2>8 DEF Next
<1> QED
  BY <1>1, <1>2, PTL DEF Spec

-----------------------------------------------------------------------------
(***************************************************************************)
(* A busy answer is truthful.  The strengthening: whoever is named in the  *)
(* lock file is still running or died with its process, whose pid nobody   *)
(* else has.                                                               *)
(***************************************************************************)

NamedHolder ==
    lock.holder # None => pc[lock.holder] \in Holding \cup {"dead"}

DeadStaysDead ==
    \A r \in Refreshes : pc[r] = "dead" => ~alive[ProcessOf[r]]

\* If nothing raises outside the try and no pid is reused, a call refused with
\* already_running was refused because of a refresh that really was running:
\* no interleaving of acquire_lock and release_lock leaves the name of a
\* returned call in the lock file.
THEOREM BusyIsTruthful ==
    ASSUME ~Escapes, ~PidReuse
    PROVE  Spec => []BusyMeansRunning
<1>1. Init => NamedHolder /\ DeadStaysDead
  BY DEF Init, NamedHolder, DeadStaysDead, NoFile
<1>2. TypeOK /\ TypeOK' /\ NamedHolder /\ DeadStaysDead /\ [Next]_vars
        => (NamedHolder /\ DeadStaysDead)'
  <2> SUFFICES ASSUME TypeOK, TypeOK', NamedHolder, DeadStaysDead, [Next]_vars
               PROVE  (NamedHolder /\ DeadStaysDead)'
    OBVIOUS
  <2> USE ConstantsAssumption
      DEF TypeOK, NamedHolder, DeadStaysDead, NoFile, Active, Returned, Acquiring,
          Holding, Working, Goto, dataVars
  <2>1. ASSUME NEW r \in Refreshes, Call(r)
        PROVE  (NamedHolder /\ DeadStaysDead)'
    BY <2>1 DEF Call
  <2>2. ASSUME NEW r \in Refreshes, Acquire(r)
        PROVE  (NamedHolder /\ DeadStaysDead)'
    <3>1. CASE CheckExists(r) BY <3>1 DEF CheckExists
    <3>2. CASE ReadOwner(r) BY <3>2 DEF ReadOwner
    <3>3. CASE ReportStale(r) BY <3>3 DEF ReportStale
    <3>4. CASE UnlinkStale(r) BY <3>4 DEF UnlinkStale
    <3>5. CASE CreateFile(r) BY <3>5 DEF CreateFile
    <3>6. CASE FillFile(r) BY <3>6 DEF FillFile
    <3> QED BY <2>2, <3>1, <3>2, <3>3, <3>4, <3>5, <3>6 DEF Acquire
  <2>3. ASSUME NEW r \in Refreshes, Body(r)
        PROVE  (NamedHolder /\ DeadStaysDead)'
    <3>1. CASE Release(r)
      BY <3>1 DEF Release
    <3>2. CASE ~Release(r)
      <4>1. pc' = [pc EXCEPT ![r] = pc'[r]] /\ pc[r] \in Holding /\ pc'[r] \in Holding
        BY <2>3, <3>2
        DEF Body, Begin, Ingest, NoteRunId, Score, Compose, Publish, WriteOutcome
      <4>2. UNCHANGED <<lock, alive>>
        BY <2>3, <3>2
        DEF Body, Begin, Ingest, NoteRunId, Score, Compose, Publish, WriteOutcome
      <4> QED BY <4>1, <4>2
    <3> QED BY <3>1, <3>2
  <2>4. ASSUME NEW r \in Refreshes, Fail(r)
        PROVE  (NamedHolder /\ DeadStaysDead)'
    BY <2>4 DEF Fail
  <2>5. ASSUME NEW r \in Refreshes, Escape(r)
        PROVE  (NamedHolder /\ DeadStaysDead)'
    BY <2>5 DEF Escape
  <2>6. ASSUME NEW p \in Processes, Crash(p)
        PROVE  (NamedHolder /\ DeadStaysDead)'
    BY <2>6 DEF Crash
  <2>7. ASSUME NEW p \in Processes, ReusePid(p)
        PROVE  (NamedHolder /\ DeadStaysDead)'
    BY <2>7 DEF ReusePid
  <2>8. CASE UNCHANGED vars
    BY <2>8 DEF vars
  <2> QED
    BY <2>1, <2>2, <2>3, <2>4, <2>5, <2>6, <2>7, <2>8 DEF Next
<1>3. TypeOK /\ NamedHolder /\ DeadStaysDead => BusyMeansRunning
  BY ConstantsAssumption DEF TypeOK, NamedHolder, DeadStaysDead, BusyMeansRunning
<1> QED
  BY <1>1, <1>2, <1>3, TypeCorrect, PTL DEF Spec

-----------------------------------------------------------------------------
(***************************************************************************)
(* One request at a time.  With SerialAcquire the check-then-write of      *)
(* acquire_lock is not interrupted by another one, and the invariant       *)
(* follows the lock file from its creation to its unlinking.               *)
(***************************************************************************)

\* The calls that have not returned run in live processes.
LiveCalls ==
    \A r \in Refreshes : pc[r] \in Active => alive[ProcessOf[r]]

OneAcquirer ==
    \A r, q \in Refreshes : pc[r] \in Acquiring /\ pc[q] \in Acquiring => r = q

\* What the call inside acquire_lock knows of the lock file.
AcquirerView ==
    \A r \in Refreshes :
        /\ pc[r] = "create" => lock = NoFile
        /\ pc[r] = "fill" => lock = [creator |-> r, holder |-> None] /\ handle[r] = r
        /\ pc[r] \in {"stale", "unlink"} =>
               \A q \in Refreshes : pc[q] \notin Holding

LockInv ==
    /\ LiveCalls
    /\ OneAcquirer
    /\ AcquirerView
    /\ LockNamesHolder

\* A lock that names its holder has one holder.
LEMMA OneName == LockNamesHolder => MutualExclusion
  BY DEF LockNamesHolder, MutualExclusion

LEMMA LockInvStep ==
    ASSUME SerialAcquire, TypeOK, LockInv, [Next]_vars
    PROVE  LockInv'
<1> USE ConstantsAssumption
    DEF TypeOK, LockInv, LiveCalls, OneAcquirer, AcquirerView, LockNamesHolder,
        NoFile, Active, Returned, Acquiring, Holding, Working, Goto, dataVars
<1>1. ASSUME NEW r \in Refreshes, Call(r) PROVE LockInv'
  BY <1>1 DEF Call
<1>2. ASSUME NEW r \in Refreshes, Acquire(r) PROVE LockInv'
  <2>1. CASE CheckExists(r) BY <2>1 DEF CheckExists
  <2>2. CASE ReadOwner(r) BY <2>2 DEF ReadOwner
  <2>3. CASE ReportStale(r) BY <2>3 DEF ReportStale
  <2>4. CASE UnlinkStale(r) BY <2>4 DEF UnlinkStale
  <2>5. CASE CreateFile(r) BY <2>5 DEF CreateFile
  <2>6. CASE FillFile(r) BY <2>6 DEF FillFile
  <2> QED BY <1>2, <2>1, <2>2, <2>3, <2>4, <2>5, <2>6 DEF Acquire
<1>3. ASSUME NEW r \in Refreshes, Body(r) PROVE LockInv'
  <2>1. CASE Release(r)
    BY <2>1 DEF Release
  <2>2. CASE ~Release(r)
    <3>1. pc' = [pc EXCEPT ![r] = pc'[r]] /\ pc[r] \in Holding /\ pc'[r] \in Holding
      BY <1>3, <2>2
      DEF Body, Begin, Ingest, NoteRunId, Score, Compose, Publish, WriteOutcome
    <3>2. UNCHANGED <<lock, alive, handle>>
      BY <1>3, <2>2
      DEF Body, Begin, Ingest, NoteRunId, Score, Compose, Publish, WriteOutcome
    <3>3. LiveCalls' BY <3>1, <3>2
    <3>4. OneAcquirer' BY <3>1, <3>2
    <3>5. AcquirerView' BY <3>1, <3>2
    <3>6. LockNamesHolder' BY <3>1, <3>2
    <3> QED BY <3>3, <3>4, <3>5, <3>6
  <2> QED BY <2>1, <2>2
<1>4. ASSUME NEW r \in Refreshes, Fail(r) PROVE LockInv'
  BY <1>4 DEF Fail
<1>5. ASSUME NEW r \in Refreshes, Escape(r) PROVE LockInv'
  BY <1>5 DEF Escape
<1>6. ASSUME NEW p \in Processes, Crash(p) PROVE LockInv'
  BY <1>6 DEF Crash
<1>7. ASSUME NEW p \in Processes, ReusePid(p) PROVE LockInv'
  BY <1>7 DEF ReusePid
<1>8. CASE UNCHANGED vars
  BY <1>8 DEF vars
<1> QED
  BY <1>1, <1>2, <1>3, <1>4, <1>5, <1>6, <1>7, <1>8 DEF Next

\* With requests one at a time, the lock file of a running refresh names it, in
\* spite of crashes, leaked locks, reused pids and stale-lock recovery.
THEOREM SerialLockNamesHolder ==
    ASSUME SerialAcquire
    PROVE  Spec => []LockNamesHolder
<1>1. Init => LockInv
  BY DEF Init, LockInv, LiveCalls, OneAcquirer, AcquirerView, LockNamesHolder,
         Active, Acquiring, Holding, Working
<1>2. TypeOK /\ LockInv /\ [Next]_vars => LockInv'
  BY LockInvStep
<1>3. LockInv => LockNamesHolder
  BY DEF LockInv
<1> QED
  BY <1>1, <1>2, <1>3, TypeCorrect, PTL DEF Spec

\* With requests one at a time, no two refreshes run together.
THEOREM SerialMutualExclusion ==
    ASSUME SerialAcquire
    PROVE  Spec => []MutualExclusion
<1> QED
  BY SerialLockNamesHolder, OneName, PTL

-----------------------------------------------------------------------------
(***************************************************************************)
(* The shared data, one request at a time.  What the running call has set, *)
(* nobody else touches until it returns.                                   *)
(***************************************************************************)

\* At each stage, what the running call has put in the shared state so far.
DataOf(r) ==
    /\ pc[r] \in Holding \ {"locked"} => runner[ProcessOf[r]].request = r
    /\ pc[r] \in {"ingested", "noted"} => canonical = r
    /\ pc[r] \in {"noted", "scored"} => runner[ProcessOf[r]].input = r
    /\ pc[r] = "scored" => output[r] = r
    /\ pc[r] = "composed" => temp[r] = [run |-> r, input |-> r]

DataInv ==
    /\ \A r \in Refreshes : DataOf(r)
    /\ StatusShowsHolder
    /\ PublishedIsOwn

LEMMA DataInvStep ==
    ASSUME TypeOK, AcquirerView, MutualExclusion, DataInv, [Next]_vars
    PROVE  DataInv'
<1> USE ConstantsAssumption
    DEF TypeOK, MutualExclusion, DataInv, DataOf, StatusShowsHolder, PublishedIsOwn,
        Active, Returned, Acquiring, Holding, Working, Goto, RunnerOf, ReportStep, dataVars
<1>1. ASSUME NEW r \in Refreshes, Call(r) PROVE DataInv'
  BY <1>1 DEF Call
<1>2. ASSUME NEW r \in Refreshes, Acquire(r) PROVE DataInv'
  <2>1. CASE CheckExists(r) BY <2>1 DEF CheckExists
  <2>2. CASE ReadOwner(r) BY <2>2 DEF ReadOwner
  <2>3. CASE ReportStale(r) BY <2>3 DEF ReportStale, AcquirerView
  <2>4. CASE UnlinkStale(r) BY <2>4 DEF UnlinkStale
  <2>5. CASE CreateFile(r) BY <2>5 DEF CreateFile
  <2>6. CASE FillFile(r) BY <2>6 DEF FillFile
  <2> QED BY <1>2, <2>1, <2>2, <2>3, <2>4, <2>5, <2>6 DEF Acquire
<1>3. ASSUME NEW r \in Refreshes, Body(r) PROVE DataInv'
  <2>0. \A q \in Refreshes : q # r => pc[q] \notin Holding
    BY <1>3
    DEF Body, Begin, Ingest, NoteRunId, Score, Compose, Publish, WriteOutcome, Release
  <2>1. CASE Begin(r) BY <2>0, <2>1 DEF Begin
  <2>2. CASE Ingest(r) BY <2>0, <2>2 DEF Ingest
  <2>3. CASE NoteRunId(r) BY <2>0, <2>3 DEF NoteRunId
  <2>4. CASE Score(r) BY <2>0, <2>4 DEF Score
  <2>5. CASE Compose(r) BY <2>0, <2>5 DEF Compose
  <2>6. CASE Publish(r) BY <2>0, <2>6 DEF Publish
  <2>7. CASE WriteOutcome(r) BY <2>0, <2>7 DEF WriteOutcome
  <2>8. CASE Release(r) BY <2>0, <2>8 DEF Release
  <2> QED
    BY <1>3, <2>1, <2>2, <2>3, <2>4, <2>5, <2>6, <2>7, <2>8 DEF Body
<1>4. ASSUME NEW r \in Refreshes, Fail(r) PROVE DataInv'
  BY <1>4 DEF Fail
<1>5. ASSUME NEW r \in Refreshes, Escape(r) PROVE DataInv'
  BY <1>5 DEF Escape
<1>6. ASSUME NEW p \in Processes, Crash(p) PROVE DataInv'
  BY <1>6 DEF Crash
<1>7. ASSUME NEW p \in Processes, ReusePid(p) PROVE DataInv'
  BY <1>7 DEF ReusePid
<1>8. CASE UNCHANGED vars
  BY <1>8 DEF vars
<1> QED
  BY <1>1, <1>2, <1>3, <1>4, <1>5, <1>6, <1>7, <1>8 DEF Next

\* With requests one at a time, latest.json is always the artifact of the call
\* that published it, built from the items that call ingested, and the status
\* file shows the running call.
THEOREM SerialDataIsOwn ==
    ASSUME SerialAcquire
    PROVE  Spec => [](PublishedIsOwn /\ StatusShowsHolder)
<1>1. Init => LockInv /\ DataInv
  BY ConstantsAssumption
  DEF Init, LockInv, LiveCalls, OneAcquirer, AcquirerView, LockNamesHolder, DataInv,
      DataOf, StatusShowsHolder, PublishedIsOwn, Active, Acquiring, Holding, Working
<1>2. TypeOK /\ LockInv /\ DataInv /\ [Next]_vars => (LockInv /\ DataInv)'
  BY LockInvStep, DataInvStep, OneName DEF LockInv
<1>3. LockInv /\ DataInv => PublishedIsOwn /\ StatusShowsHolder
  BY DEF DataInv
<1> QED
  BY <1>1, <1>2, <1>3, TypeCorrect, PTL DEF Spec

\* With requests one at a time, the status file shows the call that runs.
THEOREM SerialStatusShowsHolder ==
    ASSUME SerialAcquire
    PROVE  Spec => []StatusShowsHolder
<1> QED
  BY SerialDataIsOwn, PTL

=============================================================================
