---------------------------- MODULE RemoteCompute ----------------------------
(***************************************************************************)
(* plugins/remote_compute/backend.py: DurableComputeBackend.submit and     *)
(* collect for one idempotency key, by callers that may die anywhere and   *)
(* try again.  Keys share nothing but the artifact store, whose puts are   *)
(* atomic here (ArtifactStore takes them apart).                           *)
(*                                                                         *)
(* A state file write is atomic (link or rename), but the directory fsync  *)
(* after it may raise, so a write that raises may have happened.  A reader *)
(* reads the file twice, to parse it and to compare its bytes.             *)
(***************************************************************************)
EXTENDS Naturals, Sequences, FiniteSets

CONSTANTS
  Callers,
  Tasks,       \* tasks submitted under this key; more than one is misuse
  Outputs,     \* output sets the runner may return
  MaxFaults,   \* bound: deaths and failed writes
  None

ASSUME ComputeAssumption ==
  /\ MaxFaults \in Nat
  /\ None \notin Tasks \cup Outputs

VARIABLES
  job,        \* the durable state file
  published,  \* outputs and manifests in the artifact store
  runs,       \* history: tasks handed to the runner, in order
  bundles,    \* history: what collect returned
  handles,    \* history: handles submit returned
  pc,
  loc,
  faults

vars == <<job, published, runs, bundles, handles, pc, loc, faults>>

-----------------------------------------------------------------------------

\* submitted_at tells two submissions of the same task apart: it is the caller here.
Handle == [task : Tasks, by : Callers]
NoHandle == [task |-> None, by |-> None]
NoJob == [handle |-> NoHandle, state |-> "NONE", outputs |-> None]
Job == [handle : Handle, state : {"SUBMITTED", "RUNNING", "SUCCEEDED", "FAILED"},
        outputs : Outputs \cup {None}]
Manifest(t, o) == [task |-> t, outputs |-> o]

Locals == [handle : Handle \cup {NoHandle}, outputs : Outputs \cup {None},
           seen : Job \cup {NoJob}, collects : BOOLEAN, raised : BOOLEAN]
NoLocals == [handle |-> NoHandle, outputs |-> None, seen |-> NoJob, collects |-> FALSE,
             raised |-> FALSE]

Init ==
  /\ job = NoJob /\ published = {} /\ runs = <<>> /\ bundles = {} /\ handles = {}
  /\ pc = [c \in Callers |-> "idle"]
  /\ loc = [c \in Callers |-> NoLocals]
  /\ faults = 0

Goto(c, l) == pc' = [pc EXCEPT ![c] = l]
histories == <<runs, bundles, handles>>

Raise(c) ==
  /\ Goto(c, "left")
  /\ loc' = [loc EXCEPT ![c].raised = TRUE]

ReturnHandle(c, h) ==
  /\ Goto(c, "left")
  /\ handles' = handles \cup {h}
  /\ loc' = [loc EXCEPT ![c].handle = h]

Faulty ==
  /\ faults < MaxFaults
  /\ faults' = faults + 1

-----------------------------------------------------------------------------
(* submit *)

Begin(c, t) ==
  /\ pc[c] = "idle"
  /\ Goto(c, "looking")
  /\ loc' = [loc EXCEPT ![c] = [NoLocals EXCEPT !.handle = [task |-> t, by |-> c]]]
  /\ UNCHANGED <<job, published, histories, faults>>

ReadState(c) ==
  /\ Goto(c, "comparing")
  /\ loc' = [loc EXCEPT ![c].seen = job]

Look(c) ==
  /\ pc[c] = "looking"
  /\ IF job = NoJob THEN Goto(c, "linking") /\ UNCHANGED loc ELSE ReadState(c)
  /\ UNCHANGED <<job, published, histories, faults>>

Bug_StateOverwritten(c) ==
  /\ pc[c] = "linking"
  /\ job' = [handle |-> loc[c].handle, state |-> "SUBMITTED", outputs |-> None]
  /\ Goto(c, "starting")
  /\ UNCHANGED <<published, histories, loc, faults>>

\* The exclusive link decides between submitters that both saw no job.
LinkState(c) ==
  /\ pc[c] = "linking"
  /\ IF job = NoJob
     THEN /\ job' = [handle |-> loc[c].handle, state |-> "SUBMITTED", outputs |-> None]
          /\ Goto(c, "starting")
          /\ UNCHANGED loc
     ELSE ReadState(c) /\ UNCHANGED job
  /\ UNCHANGED <<published, histories, faults>>

Bug_OwnHandleReturned(c) ==
  /\ pc[c] = "comparing" /\ ~loc[c].collects
  /\ IF loc[c].seen = job /\ job.handle.task = loc[c].handle.task
     THEN ReturnHandle(c, loc[c].handle)
     ELSE Raise(c) /\ UNCHANGED handles
  /\ UNCHANGED <<job, published, runs, bundles, faults>>

\* _load_existing_or_none: the persisted handle, or an integrity error, or a conflict.
ReturnExisting(c) ==
  /\ pc[c] = "comparing" /\ ~loc[c].collects
  /\ IF loc[c].seen = job /\ job.handle.task = loc[c].handle.task
     THEN ReturnHandle(c, job.handle)
     ELSE Raise(c) /\ UNCHANGED handles
  /\ UNCHANGED <<job, published, runs, bundles, faults>>

WriteRunning(c) ==
  /\ pc[c] = "starting"
  /\ job' = [job EXCEPT !.state = "RUNNING"]
  /\ Goto(c, "running")
  /\ UNCHANGED <<published, histories, loc, faults>>

\* The runner works, and returns usable outputs or not.
RunJob(c) ==
  /\ pc[c] = "running"
  /\ runs' = Append(runs, loc[c].handle.task)
  /\ \/ /\ \E o \in Outputs : loc' = [loc EXCEPT ![c].outputs = o]
        /\ Goto(c, "publishing")
     \/ Goto(c, "failing") /\ UNCHANGED loc
  /\ UNCHANGED <<job, published, bundles, handles, faults>>

\* The store refuses one of the puts; the state in memory has no outputs yet.
StoreRefuses(c) ==
  /\ pc[c] \in {"publishing", "manifest"}
  /\ loc' = [loc EXCEPT ![c].outputs = None]
  /\ Goto(c, "failing")
  /\ UNCHANGED <<job, published, histories, faults>>

PublishOutputs(c) ==
  /\ pc[c] = "publishing"
  /\ published' = published \cup {loc[c].outputs}
  /\ Goto(c, "manifest")
  /\ UNCHANGED <<job, histories, loc, faults>>

Bug_ManifestLater(c) ==
  /\ pc[c] = "manifest"
  /\ Goto(c, "closing")
  /\ UNCHANGED <<job, published, histories, loc, faults>>

PublishManifest(c) ==
  /\ pc[c] = "manifest"
  /\ published' = published \cup {Manifest(loc[c].handle.task, loc[c].outputs)}
  /\ Goto(c, "closing")
  /\ UNCHANGED <<job, histories, loc, faults>>

Succeeded(c) == [job EXCEPT !.state = "SUCCEEDED", !.outputs = loc[c].outputs]

WriteSucceeded(c) ==
  /\ pc[c] = "closing"
  /\ job' = Succeeded(c)
  /\ ReturnHandle(c, loc[c].handle)
  /\ UNCHANGED <<published, runs, bundles, faults>>

\* The write raises inside the try, before or after the rename took place.
WriteSucceededRaises(c) ==
  /\ pc[c] = "closing"
  /\ Faulty
  /\ job' \in {job, Succeeded(c)}
  /\ Goto(c, "failing")
  /\ UNCHANGED <<published, histories, loc>>

\* The state in memory has kept the outputs of a success that could not be written.
Failed(c) == [job EXCEPT !.state = "FAILED", !.outputs = loc[c].outputs]

Bug_RunAgain(c) ==
  /\ pc[c] = "failing"
  /\ Goto(c, "running")
  /\ UNCHANGED <<job, published, histories, loc, faults>>

WriteFailed(c) ==
  /\ pc[c] = "failing"
  /\ job' = Failed(c)
  /\ Raise(c)
  /\ UNCHANGED <<published, histories, faults>>

\* A write outside the try, or the one of FAILED itself, raises out of submit.
WriteRaises(c) ==
  /\ \/ pc[c] = "linking" /\ job = NoJob
        /\ job' \in {job, [handle |-> loc[c].handle, state |-> "SUBMITTED", outputs |-> None]}
     \/ pc[c] = "starting" /\ job' \in {job, [job EXCEPT !.state = "RUNNING"]}
     \/ pc[c] = "failing" /\ job' \in {job, Failed(c)}
  /\ Faulty
  /\ Raise(c)
  /\ UNCHANGED <<published, histories>>

-----------------------------------------------------------------------------
(* collect, with a handle that submit returned *)

BeginCollect(c, h) ==
  /\ pc[c] = "idle"
  /\ h \in handles
  /\ Goto(c, "comparing")
  /\ loc' = [loc EXCEPT ![c] = [NoLocals EXCEPT !.handle = h, !.seen = job, !.collects = TRUE]]
  /\ UNCHANGED <<job, published, histories, faults>>

Bug_FailedCollectable(j, h) ==
  /\ j.state \in {"SUCCEEDED", "RUNNING"}
  /\ j.handle = h

\* State, handle, manifest and every output are verified before the bundle is out.
Verified(j, h) ==
  /\ j.state = "SUCCEEDED"
  /\ j.handle = h
  /\ {j.outputs, Manifest(h.task, j.outputs)} \subseteq published

Collect(c) ==
  /\ pc[c] = "comparing" /\ loc[c].collects
  /\ IF loc[c].seen = job /\ Verified(job, loc[c].handle)
     THEN /\ bundles' = bundles \cup {[handle |-> loc[c].handle, outputs |-> job.outputs]}
          /\ Goto(c, "left")
          /\ UNCHANGED loc
     ELSE Raise(c) /\ UNCHANGED bundles
  /\ UNCHANGED <<job, published, runs, handles, faults>>

Leave(c) ==
  /\ pc[c] = "left"
  /\ Goto(c, "idle")
  /\ loc' = [loc EXCEPT ![c] = NoLocals]
  /\ UNCHANGED <<job, published, histories, faults>>

Die(c) ==
  /\ pc[c] # "idle"
  /\ Faulty
  /\ Goto(c, "idle")
  /\ loc' = [loc EXCEPT ![c] = NoLocals]
  /\ UNCHANGED <<job, published, histories>>

Step(c) ==
  \/ Look(c) \/ LinkState(c) \/ ReturnExisting(c) \/ Collect(c) \/ WriteRunning(c)
  \/ RunJob(c) \/ StoreRefuses(c) \/ PublishOutputs(c) \/ PublishManifest(c)
  \/ WriteSucceeded(c) \/ WriteFailed(c) \/ Leave(c)

Next == \E c \in Callers :
  \/ Step(c) \/ WriteSucceededRaises(c) \/ WriteRaises(c) \/ Die(c)
  \/ \E t \in Tasks : Begin(c, t)
  \/ \E h \in handles : BeginCollect(c, h)

Spec == Init /\ [][Next]_vars

-----------------------------------------------------------------------------
(* Properties *)

\* Type invariant of the state file, the store and the callers' locals.
TypeOK ==
  /\ job \in Job \cup {NoJob}
  /\ published \subseteq Outputs \cup {Manifest(t, o) : t \in Tasks, o \in Outputs}
  /\ runs \in Seq(Tasks)
  /\ bundles \subseteq [handle : Handle, outputs : Outputs]
  /\ handles \subseteq Handle
  /\ pc \in [Callers -> {"idle", "looking", "comparing", "linking", "starting", "running", "publishing",
                         "manifest", "closing", "failing", "left"}]
  /\ loc \in [Callers -> Locals]
  /\ faults \in 0..MaxFaults

\* The runner is handed one task per key, once: not again after a crash, a
\* failure or a concurrent submission (submit, _load_existing_or_none).
DispatchedOnce == Len(runs) <= 1

\* Every submit that returns gives the one handle that is persisted, so that any
\* of them can be inspected and collected later (_state_for_handle).
HandlesAgree == \A h \in handles : h = job.handle

\* A job in state SUCCEEDED can be collected, whoever died after which write:
\* its outputs and its manifest were published before (submit, collect).
SucceededIsCollectable == job.state = "SUCCEEDED" => Verified(job, job.handle)

\* The persisted job is well formed and what it claims of its outputs is there.
JobSound == TypeOK /\ SucceededIsCollectable

\* All collects of a key return the same outputs, those of the dispatched task,
\* although the state may turn from SUCCEEDED to FAILED between two of them.
CollectsAgree ==
  /\ Cardinality(bundles) <= 1
  /\ \A b \in bundles : runs = <<b.handle.task>> /\ b.outputs = job.outputs

\* All callers of a key are told one thing: one handle, and one bundle of outputs
\* (submit, collect).
CallersAgree == HandlesAgree /\ CollectsAgree

\* The key behaves as one job.
AbstractJob == INSTANCE ComputeJob WITH
  phase <- job.state, task <- job.handle.task, result <- job.outputs
ImplementsJob == AbstractJob!Spec

\* Expected to fail.  "Reusing an exact idempotency key returns the persisted
\* handle" (CORE-06B.md:25): no fault, the same task, and a job that was there.
RepeatReturnsHandle ==
  faults = 0 => \A c \in Callers :
    /\ loc[c].raised /\ ~loc[c].collects
    /\ loc[c].seen # NoJob
    => loc[c].handle.task # job.handle.task

=============================================================================
