-------------------------- MODULE RefreshLifecycle --------------------------
(***************************************************************************)
(* What a refresh promises to a reader of workflow_runs and of             *)
(* data/signals/latest.json, with none of the steps that bring it about.   *)
(*                                                                         *)
(* Runs happen one after another.  A run is recorded when it starts and    *)
(* ends at most once; it may replace the published artifact once, before   *)
(* it ends; it can only end in success if it did.  A run whose process     *)
(* dies, or whose bookkeeping raises, is abandoned and stays recorded as   *)
(* running.                                                                *)
(***************************************************************************)
EXTENDS Naturals

CONSTANT Runs   \* the run numbers, in the order the runs start

VARIABLES
    outcome,    \* per run: none, running, failed or succeeded
    current,    \* the run in progress, 0 if there is none
    published   \* the run whose output latest.json holds, 0 for none of them

lifecycleVars == <<outcome, current, published>>

Outcomes == {"none", "running", "failed", "succeeded"}

Init ==
    /\ outcome = [r \in Runs |-> "none"]
    /\ current = 0
    /\ published = 0

\* Run ids are fresh: a run starts after every run started before it.
Start(r) ==
    /\ current = 0
    /\ outcome[r] = "none"
    /\ \A q \in Runs : q >= r => outcome[q] = "none"
    /\ outcome' = [outcome EXCEPT ![r] = "running"]
    /\ current' = r
    /\ UNCHANGED published

Publish ==
    /\ current # 0
    /\ outcome[current] = "running"
    /\ published # current
    /\ published' = current
    /\ UNCHANGED <<outcome, current>>

End(result) ==
    /\ current # 0
    /\ outcome[current] = "running"
    /\ result = "succeeded" => published = current
    /\ outcome' = [outcome EXCEPT ![current] = result]
    /\ UNCHANGED <<current, published>>

\* The call returns, or the process is gone.
Leave ==
    /\ current # 0
    /\ current' = 0
    /\ UNCHANGED <<outcome, published>>

Next ==
    \/ \E r \in Runs : Start(r)
    \/ Publish
    \/ \E result \in {"failed", "succeeded"} : End(result)
    \/ Leave

Spec == Init /\ [][Next]_lifecycleVars
=============================================================================
