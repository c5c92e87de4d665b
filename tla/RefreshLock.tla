---------------------------- MODULE RefreshLock ----------------------------
(***************************************************************************)
(* The refresh lock of PipelineRunner and the state that calls of          *)
(* refresh() share: the lock file, the status file, the attributes of the  *)
(* one PipelineRunner object of a process, the canonical hand-off file,    *)
(* the per-request temporary signals file and data/signals/latest.json.    *)
(*                                                                         *)
(* A member of Refreshes is one call of refresh(); it stands for the       *)
(* request id that acquire_lock draws for it.  Calls of one process are    *)
(* threads that share the process' PipelineRunner (the web server); calls  *)
(* of different processes share only the files (the CLI).  Every file      *)
(* operation of acquire_lock is a step of its own.                         *)
(***************************************************************************)
EXTENDS Naturals

CONSTANTS
    Refreshes,      \* the calls of refresh(), each made at most once
    Processes,      \* the process ids they run under
    ProcessOf,      \* the process of each call
    None,           \* no call, no content
    SerialAcquire,  \* TRUE: no call starts while another is in acquire_lock
    Escapes,        \* TRUE: statements outside refresh()'s try may raise
    PidReuse        \* TRUE: the pid of a dead process may be given out again

ASSUME ConstantsAssumption ==
    /\ ProcessOf \in [Refreshes -> Processes]
    /\ None \notin Refreshes
    /\ SerialAcquire \in BOOLEAN
    /\ Escapes \in BOOLEAN
    /\ PidReuse \in BOOLEAN

VARIABLES
    pc,         \* where each call is
    alive,      \* which pids os.kill(pid, 0) finds
    lock,       \* refresh.lock: NoFile, or the call that created the file and
                \* the call whose request id and pid it holds (None: empty)
    handle,     \* per call, the creator of the lock file it has open for writing
    status,     \* refresh-status.json: the state and request id it shows
    runner,     \* per process, the PipelineRunner's request_id and current_run_id
    canonical,  \* whose ingest wrote canonical-items/latest.json
    output,     \* per call, whose canonical items its final_output was built from
    temp,       \* per request id, the content of tmp/<request id>/signals.json
    latest      \* signals/latest.json, with the call that put it there

vars == <<pc, alive, lock, handle, status, runner, canonical, output, temp, latest>>
dataVars == <<runner, canonical, output, temp, latest>>

NoFile == [creator |-> None, holder |-> None]
NoArtifact == [run |-> None, input |-> None]
NoRunner == [request |-> None, input |-> None]

\* Inside acquire_lock.
Acquiring == {"check", "read", "stale", "unlink", "create", "fill"}
\* Between taking the lock and releasing it.
Working == {"begun", "ingested", "noted", "scored", "composed"}
Holding == Working \cup {"locked", "published", "failing", "release"}
Returned == {"busy", "recovered", "raised", "done"}
Active == Acquiring \cup Holding

PipelineStates == {"idle", "running", "failed", "succeeded", "failed_stale_lock"}

Init ==
    /\ pc = [r \in Refreshes |-> "idle"]
    /\ alive = [p \in Processes |-> TRUE]
    /\ lock = NoFile
    /\ handle = [r \in Refreshes |-> None]
    /\ status = [state |-> "idle", request |-> None]
    /\ runner = [p \in Processes |-> NoRunner]
    /\ canonical = None
    /\ output = [r \in Refreshes |-> None]
    /\ temp = [r \in Refreshes |-> NoArtifact]
    /\ latest = [publisher |-> None, run |-> None, input |-> None]

Goto(r, label) == pc' = [pc EXCEPT ![r] = label]
RunnerOf(r) == runner[ProcessOf[r]]

-----------------------------------------------------------------------------
(* acquire_lock *)

\* POST /api/refresh, the refresh tool or the CLI enters refresh().
Call(r) ==
    /\ pc[r] = "idle"
    /\ alive[ProcessOf[r]]
    /\ SerialAcquire => \A q \in Refreshes : pc[q] \notin Acquiring
    /\ Goto(r, "check")
    /\ UNCHANGED <<alive, lock, handle, status, dataVars>>

\* lock_path.exists()
CheckExists(r) ==
    /\ pc[r] = "check"
    /\ Goto(r, IF lock = NoFile THEN "create" ELSE "read")
    /\ UNCHANGED <<alive, lock, handle, status, dataVars>>

\* Fault: the pid in the lock file is not probed.
ReadOwnerUnprobed(r) ==
    /\ pc[r] = "read"
    /\ Goto(r, IF lock.holder = None THEN "raised" ELSE "stale")
    /\ UNCHANGED <<alive, lock, handle, status, dataVars>>

\* Fault: a refused call releases the lock on its way out.
ReadOwnerReleasing(r) ==
    /\ pc[r] = "read"
    /\ Goto(r, "busy")
    /\ lock' = NoFile
    /\ UNCHANGED <<alive, handle, status, dataVars>>

\* Fault: a refused call reports itself in the status file.
ReadOwnerReporting(r) ==
    /\ pc[r] = "read"
    /\ Goto(r, "busy")
    /\ status' = [state |-> "idle", request |-> r]
    /\ UNCHANGED <<alive, lock, handle, dataVars>>

\* Parse the file and probe the pid in it.  A file that has gone, or is still
\* empty, makes parse_json_file raise out of refresh().
ReadOwner(r) ==
    /\ pc[r] = "read"
    /\ Goto(r, CASE lock.holder = None -> "raised"
                 [] lock.holder # None /\ alive[ProcessOf[lock.holder]] -> "busy"
                 [] OTHER -> "stale")
    /\ UNCHANGED <<alive, lock, handle, status, dataVars>>

\* Fault: the stale lock is reported in a state readers do not know.
ReportStaleUnknown(r) ==
    /\ pc[r] = "stale"
    /\ status' = [state |-> "stale", request |-> RunnerOf(r).request]
    /\ Goto(r, "unlink")
    /\ UNCHANGED <<alive, lock, handle, dataVars>>

\* write_status("failed_stale_lock"): the request id shown is whatever the
\* shared runner still carries.
ReportStale(r) ==
    /\ pc[r] = "stale"
    /\ status' = [state |-> "failed_stale_lock", request |-> RunnerOf(r).request]
    /\ Goto(r, "unlink")
    /\ UNCHANGED <<alive, lock, handle, dataVars>>

\* release_lock on the stale path: unlinks whatever file is there now.
UnlinkStale(r) ==
    /\ pc[r] = "unlink"
    /\ lock' = NoFile
    /\ Goto(r, "recovered")
    /\ UNCHANGED <<alive, handle, status, dataVars>>

\* write_text opens the path: a new empty file, or the present one truncated.
CreateFile(r) ==
    /\ pc[r] = "create"
    /\ lock' = [creator |-> IF lock = NoFile THEN r ELSE lock.creator,
                holder |-> None]
    /\ handle' = [handle EXCEPT ![r] = lock'.creator]
    /\ Goto(r, "fill")
    /\ UNCHANGED <<alive, status, dataVars>>

\* write_text writes and closes: the text goes to the file that was opened,
\* which may have been unlinked in the meantime.
FillFile(r) ==
    /\ pc[r] = "fill"
    /\ lock' = IF lock.creator = handle[r] THEN [lock EXCEPT !.holder = r] ELSE lock
    /\ Goto(r, "locked")
    /\ UNCHANGED <<alive, handle, status, dataVars>>

Acquire(r) ==
    \/ CheckExists(r) \/ ReadOwner(r) \/ ReportStale(r)
    \/ UnlinkStale(r) \/ CreateFile(r) \/ FillFile(r)

-----------------------------------------------------------------------------
(* The body of refresh() *)

\* request_id and the other run attributes are set on the shared runner, and
\* the status file says running.
Begin(r) ==
    /\ pc[r] = "locked"
    /\ runner' = [runner EXCEPT ![ProcessOf[r]].request = r]
    /\ status' = [state |-> "running", request |-> r]
    /\ Goto(r, "begun")
    /\ UNCHANGED <<alive, lock, handle, canonical, output, temp, latest>>

\* Every step reports itself in the status file, under the request id that the
\* shared runner carries.
ReportStep(r) == status' = [state |-> "running", request |-> RunnerOf(r).request]

\* ingest_adapter_output.run writes the canonical file under a new run id.
Ingest(r) ==
    /\ pc[r] = "begun"
    /\ ReportStep(r)
    /\ canonical' = r
    /\ Goto(r, "ingested")
    /\ UNCHANGED <<alive, lock, handle, runner, output, temp, latest>>

\* self.current_run_id = output.get("run_id")
NoteRunId(r) ==
    /\ pc[r] = "ingested"
    /\ runner' = [runner EXCEPT ![ProcessOf[r]].input = r]
    /\ Goto(r, "noted")
    /\ UNCHANGED <<alive, lock, handle, status, canonical, output, temp, latest>>

\* baseline_score and agent_assess read the canonical file back.
Score(r) ==
    /\ pc[r] = "noted"
    /\ ReportStep(r)
    /\ output' = [output EXCEPT ![r] = canonical]
    /\ Goto(r, "scored")
    /\ UNCHANGED <<alive, lock, handle, runner, canonical, temp, latest>>

\* validate_compose: the output's input_run_id must be the runner's
\* current_run_id; the artifact goes to the runner's request's temp dir.
Compose(r) ==
    /\ pc[r] = "scored"
    /\ output[r] = RunnerOf(r).input
    /\ ReportStep(r)
    /\ temp' = [temp EXCEPT ![RunnerOf(r).request] = [run |-> r, input |-> output[r]]]
    /\ Goto(r, "composed")
    /\ UNCHANGED <<alive, lock, handle, runner, canonical, output, latest>>

\* publish_signals: copy the temp file next to latest.json and replace it; a
\* missing temp file makes the copy raise.
Publish(r) ==
    /\ pc[r] = "composed"
    /\ RunnerOf(r).request # None
    /\ temp[RunnerOf(r).request] # NoArtifact
    /\ ReportStep(r)
    /\ latest' = [publisher |-> r,
                  run |-> temp[RunnerOf(r).request].run,
                  input |-> temp[RunnerOf(r).request].input]
    /\ Goto(r, "published")
    /\ UNCHANGED <<alive, lock, handle, runner, canonical, output, temp>>

\* Any step inside the try may raise, and so may the trace of publish and the
\* last step, when latest.json has been replaced.
Fail(r) ==
    /\ pc[r] \in Working \cup {"published"}
    /\ Goto(r, "failing")
    /\ UNCHANGED <<alive, lock, handle, status, dataVars>>

\* Fault: the failure path returns without releasing the lock.
WriteOutcomeUnreleased(r) ==
    /\ pc[r] \in {"published", "failing"}
    /\ status' = [state |-> IF pc[r] = "published" THEN "succeeded" ELSE "failed",
                  request |-> RunnerOf(r).request]
    /\ Goto(r, IF pc[r] = "published" THEN "release" ELSE "done")
    /\ UNCHANGED <<alive, lock, handle, dataVars>>

\* write_status of the outcome.
WriteOutcome(r) ==
    /\ pc[r] \in {"published", "failing"}
    /\ status' = [state |-> IF pc[r] = "published" THEN "succeeded" ELSE "failed",
                  request |-> RunnerOf(r).request]
    /\ Goto(r, "release")
    /\ UNCHANGED <<alive, lock, handle, dataVars>>

\* Fault: release_lock does not unlink the file.
ReleaseKeepingFile(r) ==
    /\ pc[r] = "release"
    /\ Goto(r, "done")
    /\ UNCHANGED <<alive, lock, handle, status, dataVars>>

\* release_lock unlinks the file without looking at it.
Release(r) ==
    /\ pc[r] = "release"
    /\ lock' = NoFile
    /\ Goto(r, "done")
    /\ UNCHANGED <<alive, handle, status, dataVars>>

\* create_run, update_run or a write_status outside the try raises: the call
\* returns to its caller and the lock file stays.
Escape(r) ==
    /\ Escapes
    /\ pc[r] \in {"locked", "published", "failing"}
    /\ runner' = [runner EXCEPT ![ProcessOf[r]].request =
                     IF pc[r] = "locked" THEN r ELSE @]
    /\ Goto(r, "raised")
    /\ UNCHANGED <<alive, lock, handle, status, canonical, output, temp, latest>>

Body(r) ==
    \/ Begin(r) \/ Ingest(r) \/ NoteRunId(r) \/ Score(r) \/ Compose(r)
    \/ Publish(r) \/ WriteOutcome(r) \/ Release(r)

-----------------------------------------------------------------------------
(* The environment *)

\* A process dies with every call it was running.
Crash(p) ==
    /\ alive[p]
    /\ alive' = [alive EXCEPT ![p] = FALSE]
    /\ pc' = [r \in Refreshes |->
                 IF ProcessOf[r] = p /\ pc[r] \in Active THEN "dead" ELSE pc[r]]
    /\ runner' = [runner EXCEPT ![p] = NoRunner]
    /\ UNCHANGED <<lock, handle, status, canonical, output, temp, latest>>

\* The operating system gives the pid to a new process.
ReusePid(p) ==
    /\ PidReuse
    /\ ~alive[p]
    /\ alive' = [alive EXCEPT ![p] = TRUE]
    /\ UNCHANGED <<pc, lock, handle, status, dataVars>>

Next ==
    \/ \E r \in Refreshes :
        Call(r) \/ Acquire(r) \/ Body(r) \/ Fail(r) \/ Escape(r)
    \/ \E p \in Processes : Crash(p) \/ ReusePid(p)

Spec == Init /\ [][Next]_vars

\* A thread that is scheduled goes on: no statement of refresh() waits for
\* another call.  Nothing obliges a call to be made or a process to crash.
Step(r) == Acquire(r) \/ Body(r) \/ Fail(r) \/ Escape(r)
FairSpec == Spec /\ \A r \in Refreshes : WF_vars(Step(r))

-----------------------------------------------------------------------------
(* Properties *)

TypeOK ==
    /\ pc \in [Refreshes -> Active \cup Returned \cup {"idle", "dead"}]
    /\ alive \in [Processes -> BOOLEAN]
    /\ lock \in [creator : Refreshes \cup {None}, holder : Refreshes \cup {None}]
    /\ handle \in [Refreshes -> Refreshes \cup {None}]
    /\ status \in [state : PipelineStates, request : Refreshes \cup {None}]
    /\ runner \in [Processes -> [request : Refreshes \cup {None},
                                 input : Refreshes \cup {None}]]
    /\ canonical \in Refreshes \cup {None}
    /\ output \in [Refreshes -> Refreshes \cup {None}]
    /\ temp \in [Refreshes -> [run : Refreshes \cup {None},
                               input : Refreshes \cup {None}]]
    /\ latest \in [publisher : Refreshes \cup {None}, run : Refreshes \cup {None},
                   input : Refreshes \cup {None}]

\* Two calls of refresh() are never both past acquire_lock, whatever processes
\* they run in: the lock file prevents a concurrent refresh.
MutualExclusion ==
    \A r, q \in Refreshes : pc[r] \in Holding /\ pc[q] \in Holding => r = q

\* While a call runs, the lock file is there and names that call: neither a
\* finishing call nor the stale-lock path has unlinked or rewritten it.
LockNamesHolder ==
    \A r \in Refreshes : pc[r] \in Holding => lock.holder = r

\* latest.json is what the call that published it composed, from the canonical
\* items that same call ingested, although the runner attributes, the canonical
\* file and the temp path are shared with every other call.
PublishedIsOwn ==
    /\ latest.run = latest.publisher
    /\ latest.input = latest.publisher

\* From its first status to its last, the call that runs is the one
\* refresh-status.json shows as running: refused and stale-lock calls, which
\* write through the same runner object, do not overwrite it.
StatusShowsHolder ==
    \A r \in Refreshes :
        pc[r] \in Working \cup {"published", "failing"} =>
            status = [state |-> "running", request |-> r]

\* already_running is told only while the call named in the lock file really
\* runs: no lock of a returned call can be taken for a running refresh.
BusyMeansRunning ==
    lock.holder # None /\ alive[ProcessOf[lock.holder]] => pc[lock.holder] \in Holding

\* A call that got into the lock file takes its name out again unless its
\* process dies, however the calls interleave; and the name a dead process has
\* left is taken out by the next call that finds it, unless that one dies too:
\* a crash does not make every later refresh already_running.
LockIsGivenBack ==
    /\ \A r \in Refreshes : lock.holder = r ~> (lock.holder # r \/ pc[r] = "dead")
    /\ \A r, q \in Refreshes :
         lock.holder = q /\ pc[q] = "dead" /\ pc[r] = "check"
            ~> (lock.holder # q \/ pc[r] = "dead")

=============================================================================
