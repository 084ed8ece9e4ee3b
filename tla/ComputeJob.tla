------------------------------ MODULE ComputeJob ------------------------------
(***************************************************************************)
(* What one idempotency key promises: the task of the first submission is  *)
(* the task of the job, it is dispatched at most once, and a result is     *)
(* recorded only after the dispatch.  RemoteCompute implements it.         *)
(***************************************************************************)
EXTENDS Sequences

CONSTANTS Tasks, Outputs, None

VARIABLES
  phase,    \* NONE, SUBMITTED, RUNNING, SUCCEEDED or FAILED
  task,     \* the task the key stands for, or None
  runs,     \* tasks handed to the runner
  result    \* the recorded outputs, or None

vars == <<phase, task, runs, result>>

Init == phase = "NONE" /\ task = None /\ runs = <<>> /\ result = None

Accept ==
  /\ phase = "NONE" /\ phase' = "SUBMITTED"
  /\ task' \in Tasks
  /\ UNCHANGED <<runs, result>>

Start ==
  /\ phase = "SUBMITTED" /\ phase' = "RUNNING"
  /\ UNCHANGED <<task, runs, result>>

Dispatch ==
  /\ phase = "RUNNING" /\ runs = <<>>
  /\ runs' = <<task>>
  /\ UNCHANGED <<phase, task, result>>

Succeed ==
  /\ phase = "RUNNING" /\ runs = <<task>>
  /\ phase' = "SUCCEEDED"
  /\ result' \in Outputs
  /\ UNCHANGED <<task, runs>>

\* A success may still turn into a failure; a failure is final.
Fail ==
  /\ phase \in {"RUNNING", "SUCCEEDED"} /\ runs = <<task>>
  /\ phase' = "FAILED"
  /\ \/ UNCHANGED result
     \/ result = None /\ result' \in Outputs
  /\ UNCHANGED <<task, runs>>

Next == Accept \/ Start \/ Dispatch \/ Succeed \/ Fail

Spec == Init /\ [][Next]_vars

=============================================================================
