-------------------------- MODULE RemoteComputeProofs --------------------------
(***************************************************************************)
(* Proofs about RemoteCompute, for any number of callers, tasks, output    *)
(* sets and faults: a key dispatches once, its callers are told one        *)
(* thing, and it implements ComputeJob step by step.                       *)
(*                                                                         *)
(* The argument: whoever linked the state file works on the job it         *)
(* recorded, and as the recorded handle names its submitter nobody else    *)
(* does.  The state file, the runner and the store only move with that     *)
(* caller, so what it knows of them stays true.                            *)
(***************************************************************************)
EXTENDS RemoteCompute, TLAPS, FiniteSetTheorems

\* From the link of the state file to the end of submit.
Working == {"starting", "running", "publishing", "manifest", "closing", "failing"}
Places == {"idle", "looking", "comparing", "linking", "left"} \cup Working

\* What is ever put into the store.
Storable == Outputs \cup {Manifest(t, o) : t \in Tasks, o \in Outputs}

\* What a caller at l with locals x knows of the job j, the runs r and the store p.
Knows(c, l, x, j, r, p) ==
  /\ l \in Working \cup {"looking", "linking", "comparing"} => x.handle \in Handle
  /\ l \in Working \cup {"looking", "linking"} => x.handle.by = c
  /\ l \in {"looking", "linking", "starting", "running"} => x.outputs = None
  /\ l \in Working => x.handle = j.handle
  /\ l = "starting" => j.state = "SUBMITTED"
  /\ l \in {"running", "publishing", "manifest", "closing"} => j.state = "RUNNING"
  /\ l = "failing" => j.state = "RUNNING" \/ (j.state = "SUCCEEDED" /\ x.outputs = j.outputs)
  /\ l = "running" => r = <<>>
  /\ l \in {"publishing", "manifest", "closing", "failing"} => r # <<>>
  /\ l \in {"publishing", "manifest", "closing"} => x.outputs \in Outputs
  /\ l \in {"manifest", "closing"} => x.outputs \in p
  /\ l = "closing" => Manifest(x.handle.task, x.outputs) \in p

\* What the state file says of the runs, the store and what callers were told.
Tells(j, r, p, b, h) ==
  /\ r = <<>> \/ (r = <<j.handle.task>> /\ j # NoJob)
  /\ j.state = "NONE" => j = NoJob
  /\ j.state = "SUBMITTED" => r = <<>>
  /\ j.state \in {"SUBMITTED", "RUNNING"} => j.outputs = None
  /\ j.state \in {"SUCCEEDED", "FAILED"} => r # <<>>
  /\ j.state = "SUCCEEDED" =>
       j.outputs \in Outputs /\ {j.outputs, Manifest(j.handle.task, j.outputs)} \subseteq p
  /\ \A x \in b :
       x.handle = j.handle /\ x.outputs = j.outputs /\ j.state \in {"SUCCEEDED", "FAILED"}
  /\ \A x \in h : x = j.handle

ComputeInv ==
  /\ TypeOK
  /\ Tells(job, runs, published, bundles, handles)
  /\ \A c \in Callers : Knows(c, pc[c], loc[c], job, runs, published)

-----------------------------------------------------------------------------

\* What the proofs below take from the invariant, for the caller c that steps.
LEMMA Parts ==
  ASSUME ComputeInv, NEW c \in Callers
  PROVE  /\ job \in Job \cup {NoJob} /\ runs \in Seq(Tasks)
         /\ published \subseteq Storable
         /\ bundles \subseteq [handle : Handle, outputs : Outputs] /\ handles \subseteq Handle
         /\ pc[c] \in Places /\ loc[c] \in Locals
         /\ faults \in 0..MaxFaults /\ MaxFaults \in Nat
         /\ Tells(job, runs, published, bundles, handles)
         /\ Knows(c, pc[c], loc[c], job, runs, published)
BY ComputeAssumption DEF ComputeInv, TypeOK, Places, Working, Storable

LEMMA JobTypes ==
  /\ NoJob \notin Job
  /\ NoHandle \notin Handle
  /\ NoJob.state = "NONE" /\ NoJob.handle = NoHandle /\ NoJob.outputs = None
  /\ \A j \in Job \cup {NoJob} :
       /\ j # NoJob <=> j \in Job
       /\ j # NoJob <=> j.handle \in Handle
       /\ j = NoJob <=> j.state = "NONE"
BY ComputeAssumption DEF Job, NoJob, Handle, NoHandle

\* Only one caller works on the key: the one the state file names.
LEMMA OneWorker ==
  ASSUME ComputeInv, NEW c \in Callers, pc[c] \in Working
  PROVE  /\ job \in Job /\ loc[c].handle = job.handle
         /\ \A d \in Callers \ {c} : pc[d] \notin Working
<1>1. loc[c].handle = job.handle /\ job.handle \in Handle /\ job.handle.by = c
  BY Parts DEF Knows
<1>2. job \in Job
  BY <1>1, Parts, JobTypes
<1>3. ASSUME NEW d \in Callers, pc[d] \in Working PROVE d = c
  <2>1. loc[d].handle = job.handle /\ loc[d].handle.by = d
    BY <1>3, Parts DEF Knows
  <2>2. QED
    BY <1>1, <2>1
<1>4. QED
  BY <1>1, <1>2, <1>3

LEMMA NobodyWorksYet ==
  ASSUME ComputeInv, job = NoJob
  PROVE  /\ \A d \in Callers : pc[d] \notin Working
         /\ runs = <<>> /\ bundles = {} /\ handles = {}
<1>1. \A d \in Callers : pc[d] \notin Working
  BY OneWorker, JobTypes
<1>2. runs = <<>> /\ bundles = {} /\ handles = {}
  BY JobTypes DEF ComputeInv, TypeOK, Tells
<1>3. QED
  BY <1>1, <1>2

\* A step of c to the place l with locals x, once it is shown that nobody else
\* works on the key or that the step is none of theirs.
LEMMA CallerMoves ==
  ASSUME ComputeInv, NEW c \in Callers, NEW l \in Places, NEW x \in Locals,
         pc' = [pc EXCEPT ![c] = l], loc' = [loc EXCEPT ![c] = x],
         job' \in Job \cup {NoJob}, runs' \in Seq(Tasks),
         published' \subseteq Storable,
         published \subseteq published',
         bundles' \subseteq [handle : Handle, outputs : Outputs], handles' \subseteq Handle,
         faults' \in 0..MaxFaults,
         \/ job' = job /\ runs' = runs
         \/ \A d \in Callers \ {c} : pc[d] \notin Working,
         Tells(job', runs', published', bundles', handles'),
         Knows(c, l, x, job', runs', published')
  PROVE  ComputeInv'
<1>1. TypeOK'
  BY DEF ComputeInv, TypeOK, Places, Working, Storable
<1>2. ASSUME NEW d \in Callers PROVE Knows(d, pc'[d], loc'[d], job', runs', published')
  <2>1. CASE d = c
    BY <2>1 DEF ComputeInv, TypeOK
  <2>2. CASE d # c
    <3>1. pc'[d] = pc[d] /\ loc'[d] = loc[d]
      BY <2>2 DEF ComputeInv, TypeOK
    <3>2. Knows(d, pc[d], loc[d], job, runs, published)
      BY DEF ComputeInv
    <3>3. CASE job' = job /\ runs' = runs
      BY <3>1, <3>2, <3>3 DEF Knows
    <3>4. CASE pc[d] \notin Working
      BY <3>1, <3>2, <3>4 DEF Knows, Working
    <3>5. QED
      BY <2>2, <3>3, <3>4
  <2>3. QED
    BY <2>1, <2>2
<1>3. QED
  BY <1>1, <1>2 DEF ComputeInv

\* A step that leaves the state file, the runner and the store alone.
LEMMA QuietMoves ==
  ASSUME ComputeInv, NEW c \in Callers, NEW l \in Places, NEW x \in Locals,
         pc' = [pc EXCEPT ![c] = l], loc' = [loc EXCEPT ![c] = x],
         job' = job, runs' = runs, published' = published,
         bundles' = bundles, handles' = handles, faults' \in 0..MaxFaults,
         Knows(c, l, x, job, runs, published)
  PROVE  ComputeInv'
<1>1. /\ job' \in Job \cup {NoJob} /\ runs' \in Seq(Tasks)
      /\ published' \subseteq Storable
      /\ published \subseteq published'
      /\ bundles' \subseteq [handle : Handle, outputs : Outputs] /\ handles' \subseteq Handle
      /\ Tells(job', runs', published', bundles', handles')
      /\ Knows(c, l, x, job', runs', published')
  BY Parts
<1>2. (job' = job /\ runs' = runs) \/ \A d \in Callers \ {c} : pc[d] \notin Working
  OBVIOUS
<1>3. QED
  BY <1>1, <1>2, CallerMoves

\* A caller that is nowhere in submit or collect needs to know nothing.
LEMMA AwayKnows ==
  \A c, x, j, r, p : Knows(c, "left", x, j, r, p) /\ Knows(c, "idle", x, j, r, p)
BY DEF Knows, Working

LEMMA Raised ==
  ASSUME ComputeInv, NEW c \in Callers, Raise(c)
  PROVE  \E x \in Locals : pc' = [pc EXCEPT ![c] = "left"] /\ loc' = [loc EXCEPT ![c] = x]
<1>0. loc[c] \in Locals
  BY Parts
<1>1. [loc[c] EXCEPT !.raised = TRUE] \in Locals
  BY <1>0 DEF Locals
<1>2. loc' = [loc EXCEPT ![c] = [loc[c] EXCEPT !.raised = TRUE]]
  BY DEF Raise
<1>3. QED
  BY <1>1, <1>2 DEF Raise, Goto

LEMMA InitComputeInv == Init => ComputeInv
<1> SUFFICES ASSUME Init PROVE ComputeInv
  OBVIOUS
<1>1. NoLocals \in Locals
  BY DEF NoLocals, Locals
<1>2. TypeOK
  BY <1>1, ComputeAssumption DEF Init, TypeOK
<1>3. Tells(job, runs, published, bundles, handles)
  BY DEF Init, Tells, NoJob
<1>4. \A c \in Callers : Knows(c, pc[c], loc[c], job, runs, published)
  BY AwayKnows DEF Init
<1>5. QED
  BY <1>2, <1>3, <1>4 DEF ComputeInv

-----------------------------------------------------------------------------
(* One lemma per group of actions *)

\* The way in, the way out, and death: nothing but the caller moves.
LEMMA AloneStep ==
  ASSUME ComputeInv, NEW c \in Callers,
         Look(c) \/ Leave(c) \/ Die(c) \/ StoreRefuses(c)
         \/ (\E t \in Tasks : Begin(c, t)) \/ (\E h \in handles : BeginCollect(c, h))
  PROVE  ComputeInv'
<1>0. /\ loc[c] \in Locals /\ Knows(c, pc[c], loc[c], job, runs, published)
      /\ faults \in 0..MaxFaults /\ MaxFaults \in Nat
      /\ job \in Job \cup {NoJob} /\ handles \subseteq Handle
  BY Parts
<1>1. /\ job' = job /\ runs' = runs /\ published' = published
      /\ bundles' = bundles /\ handles' = handles
  BY DEF Look, Leave, Die, StoreRefuses, Begin, BeginCollect, histories
<1>2. faults' \in 0..MaxFaults
  <2>1. faults' = faults \/ (faults < MaxFaults /\ faults' = faults + 1)
    BY DEF Look, Leave, Die, StoreRefuses, Begin, BeginCollect, Faulty
  <2>2. QED
    BY <1>0, <2>1
<1>3. NoLocals \in Locals
  BY DEF NoLocals, Locals
<1>4. CASE Leave(c) \/ Die(c)
  <2>1. pc' = [pc EXCEPT ![c] = "idle"] /\ loc' = [loc EXCEPT ![c] = NoLocals]
    BY <1>4 DEF Leave, Die, Goto
  <2>2. Knows(c, "idle", NoLocals, job, runs, published) /\ "idle" \in Places
    BY AwayKnows DEF Places
  <2>3. QED
    BY <1>1, <1>2, <1>3, <2>1, <2>2, QuietMoves
<1>5. CASE Look(c) /\ job = NoJob
  <2>1. /\ pc[c] = "looking"
        /\ pc' = [pc EXCEPT ![c] = "linking"] /\ loc' = [loc EXCEPT ![c] = loc[c]]
    <3>1. loc' = loc /\ pc[c] = "looking" /\ pc' = [pc EXCEPT ![c] = "linking"]
      BY <1>5 DEF Look, Goto
    <3>2. loc \in [Callers -> Locals]
      BY DEF ComputeInv, TypeOK
    <3>3. QED
      BY <3>1, <3>2
  <2>2. Knows(c, "linking", loc[c], job, runs, published) /\ "linking" \in Places
    BY <1>0, <2>1 DEF Knows, Working, Places
  <2>3. QED
    BY <1>0, <1>1, <1>2, <2>1, <2>2, QuietMoves
<1>6. CASE Look(c) /\ job # NoJob
  <2> DEFINE x == [loc[c] EXCEPT !.seen = job]
  <2>1. /\ pc[c] = "looking"
        /\ pc' = [pc EXCEPT ![c] = "comparing"] /\ loc' = [loc EXCEPT ![c] = x]
    BY <1>6 DEF Look, ReadState, Goto
  <2>2. x \in Locals /\ x.handle = loc[c].handle
    BY <1>0 DEF Locals
  <2> HIDE DEF x
  <2>3. Knows(c, "comparing", x, job, runs, published) /\ "comparing" \in Places
    BY <1>0, <2>1, <2>2 DEF Knows, Working, Places
  <2>4. QED
    BY <1>1, <1>2, <2>1, <2>2, <2>3, QuietMoves
<1>7. CASE StoreRefuses(c)
  <2> DEFINE x == [loc[c] EXCEPT !.outputs = None]
  <2>1. /\ pc[c] \in {"publishing", "manifest"}
        /\ pc' = [pc EXCEPT ![c] = "failing"] /\ loc' = [loc EXCEPT ![c] = x]
    BY <1>7 DEF StoreRefuses, Goto
  <2>2. x \in Locals /\ x.handle = loc[c].handle /\ x.outputs = None
    BY <1>0 DEF Locals
  <2> HIDE DEF x
  <2>3. Knows(c, "failing", x, job, runs, published) /\ "failing" \in Places
    BY <1>0, <2>1, <2>2 DEF Knows, Working, Places
  <2>4. QED
    BY <1>1, <1>2, <2>1, <2>2, <2>3, QuietMoves
<1>8. ASSUME NEW t \in Tasks, Begin(c, t) PROVE ComputeInv'
  <2> DEFINE x == [NoLocals EXCEPT !.handle = [task |-> t, by |-> c]]
  <2>1. pc' = [pc EXCEPT ![c] = "looking"] /\ loc' = [loc EXCEPT ![c] = x]
    BY <1>8 DEF Begin, Goto
  <2>2. x \in Locals /\ x.handle \in Handle /\ x.handle.by = c /\ x.outputs = None
    BY DEF Locals, NoLocals, Handle
  <2> HIDE DEF x
  <2>3. Knows(c, "looking", x, job, runs, published) /\ "looking" \in Places
    BY <2>2 DEF Knows, Working, Places
  <2>4. QED
    BY <1>1, <1>2, <2>1, <2>2, <2>3, QuietMoves
<1>9. ASSUME NEW h \in handles, BeginCollect(c, h) PROVE ComputeInv'
  <2> DEFINE x == [NoLocals EXCEPT !.handle = h, !.seen = job, !.collects = TRUE]
  <2>1. pc' = [pc EXCEPT ![c] = "comparing"] /\ loc' = [loc EXCEPT ![c] = x]
    BY <1>9 DEF BeginCollect, Goto
  <2>2. x \in Locals /\ x.handle \in Handle
    BY <1>0 DEF Locals, NoLocals
  <2> HIDE DEF x
  <2>3. Knows(c, "comparing", x, job, runs, published) /\ "comparing" \in Places
    BY <2>2 DEF Knows, Working, Places
  <2>4. QED
    BY <1>1, <1>2, <2>1, <2>2, <2>3, QuietMoves
<1>10. QED
  BY <1>4, <1>5, <1>6, <1>7, <1>8, <1>9

\* The state file appears: by the link that succeeds, whether or not it then raises.
LEMMA LinkStep ==
  ASSUME ComputeInv, NEW c \in Callers, pc[c] = "linking", job = NoJob,
         job' = [handle |-> loc[c].handle, state |-> "SUBMITTED", outputs |-> None],
         NEW l \in {"starting", "left"}, NEW x \in Locals,
         l = "starting" => x = loc[c],
         pc' = [pc EXCEPT ![c] = l], loc' = [loc EXCEPT ![c] = x],
         UNCHANGED <<published, histories>>, faults' \in 0..MaxFaults
  PROVE  ComputeInv'
<1>1. loc[c].handle \in Handle /\ loc[c].handle.by = c /\ loc[c].outputs = None
  BY Parts DEF Knows
<1>2. job' \in Job \cup {NoJob}
  BY <1>1 DEF Job
<1>3. /\ \A d \in Callers : pc[d] \notin Working
      /\ runs = <<>> /\ bundles = {} /\ handles = {}
  BY NobodyWorksYet
<1>4. /\ runs' = runs /\ published' = published /\ bundles' = bundles /\ handles' = handles
  BY DEF histories
<1>5. Tells(job', runs', published', bundles', handles')
  BY <1>3, <1>4 DEF Tells
<1>6. l \in Places /\ Knows(c, l, x, job', runs', published')
  BY <1>1 DEF Knows, Working, Places
<1>7. /\ runs' \in Seq(Tasks) /\ published' \subseteq Storable /\ published \subseteq published'
      /\ bundles' \subseteq [handle : Handle, outputs : Outputs] /\ handles' \subseteq Handle
  BY <1>4, Parts
<1>8. (job' = job /\ runs' = runs) \/ \A d \in Callers \ {c} : pc[d] \notin Working
  BY <1>3
<1>9. QED
  BY <1>2, <1>5, <1>6, <1>7, <1>8, CallerMoves

LEMMA LinkStateStep ==
  ASSUME ComputeInv, NEW c \in Callers, LinkState(c)
  PROVE  ComputeInv'
<1>0. /\ loc[c] \in Locals /\ Knows(c, pc[c], loc[c], job, runs, published)
      /\ faults \in 0..MaxFaults /\ job \in Job \cup {NoJob}
  BY Parts
<1>1. faults' \in 0..MaxFaults /\ pc[c] = "linking" /\ UNCHANGED <<published, histories>>
  BY <1>0 DEF LinkState
<1>2. CASE job = NoJob
  <2>1. /\ job' = [handle |-> loc[c].handle, state |-> "SUBMITTED", outputs |-> None]
        /\ pc' = [pc EXCEPT ![c] = "starting"] /\ loc' = [loc EXCEPT ![c] = loc[c]]
    <3>1. /\ job' = [handle |-> loc[c].handle, state |-> "SUBMITTED", outputs |-> None]
          /\ pc' = [pc EXCEPT ![c] = "starting"] /\ loc' = loc
      BY <1>2 DEF LinkState, Goto
    <3>2. loc \in [Callers -> Locals]
      BY DEF ComputeInv, TypeOK
    <3>3. QED
      BY <3>1, <3>2
  <2>2. QED
    BY <1>0, <1>1, <1>2, <2>1, LinkStep
<1>3. CASE job # NoJob
  <2> DEFINE x == [loc[c] EXCEPT !.seen = job]
  <2>1. /\ pc' = [pc EXCEPT ![c] = "comparing"] /\ loc' = [loc EXCEPT ![c] = x] /\ job' = job
    BY <1>3 DEF LinkState, ReadState, Goto
  <2>2. x \in Locals /\ x.handle = loc[c].handle
    BY <1>0 DEF Locals
  <2> HIDE DEF x
  <2>3. Knows(c, "comparing", x, job, runs, published) /\ "comparing" \in Places
    BY <1>0, <1>1, <2>2 DEF Knows, Working, Places
  <2>4. /\ runs' = runs /\ published' = published /\ bundles' = bundles /\ handles' = handles
    BY <1>1 DEF histories
  <2>5. QED
    BY <1>1, <2>1, <2>2, <2>3, <2>4, QuietMoves
<1>4. QED
  BY <1>2, <1>3

\* What callers are told is what is persisted at that moment.
LEMMA AnswerStep ==
  ASSUME ComputeInv, NEW c \in Callers, ReturnExisting(c) \/ Collect(c)
  PROVE  ComputeInv'
<1>0. /\ loc[c] \in Locals /\ Knows(c, pc[c], loc[c], job, runs, published)
      /\ job \in Job \cup {NoJob} /\ runs \in Seq(Tasks) /\ published \subseteq Storable
      /\ bundles \subseteq [handle : Handle, outputs : Outputs] /\ handles \subseteq Handle
      /\ faults \in 0..MaxFaults /\ Tells(job, runs, published, bundles, handles)
  BY Parts
<1>1. /\ pc[c] = "comparing" /\ loc[c].handle \in Handle
      /\ job' = job /\ runs' = runs /\ published' = published /\ faults' = faults
  <2>1. pc[c] = "comparing"
    BY DEF ReturnExisting, Collect
  <2>2. loc[c].handle \in Handle
    BY <1>0, <2>1 DEF Knows
  <2>3. QED
    BY <2>1, <2>2 DEF ReturnExisting, Collect
<1>2. /\ handles' \subseteq handles \cup {job.handle}
      /\ handles' # handles => job.handle.task = loc[c].handle.task
  BY DEF ReturnExisting, ReturnHandle, Collect
<1>3. /\ bundles' \subseteq bundles \cup {[handle |-> loc[c].handle, outputs |-> job.outputs]}
      /\ bundles' # bundles => Verified(job, loc[c].handle)
  BY DEF ReturnExisting, Collect
<1>4. handles' \subseteq Handle /\ \A h \in handles' : h = job.handle
  <2>1. CASE handles' = handles
    BY <1>0, <2>1 DEF Tells
  <2>2. CASE handles' # handles
    <3>1. job.handle.task \in Tasks
      BY <1>1, <1>2, <2>2 DEF Handle
    <3>2. job \in Job
      BY <1>0, <3>1, ComputeAssumption DEF NoJob, NoHandle
    <3>3. job.handle \in Handle
      BY <3>2 DEF Job
    <3>4. QED
      BY <1>0, <1>2, <3>3 DEF Tells
  <2>3. QED
    BY <2>1, <2>2
<1>5. /\ bundles' \subseteq [handle : Handle, outputs : Outputs]
      /\ \A b \in bundles' : b.handle = job.handle /\ b.outputs = job.outputs
                             /\ job.state \in {"SUCCEEDED", "FAILED"}
  <2>1. CASE bundles' = bundles
    BY <1>0, <2>1 DEF Tells
  <2>2. CASE bundles' # bundles
    <3> DEFINE b0 == [handle |-> loc[c].handle, outputs |-> job.outputs]
    <3>1. job.state = "SUCCEEDED" /\ job.handle = loc[c].handle
      BY <1>3, <2>2 DEF Verified
    <3>2. job.outputs \in Outputs
      BY <1>0, <3>1 DEF Tells
    <3>3. b0 \in [handle : Handle, outputs : Outputs] /\ b0.handle = job.handle
          /\ b0.outputs = job.outputs
      BY <1>1, <3>1, <3>2
    <3>4. bundles' \subseteq bundles \cup {b0}
      BY <1>3
    <3> HIDE DEF b0
    <3>5. QED
      BY <1>0, <3>1, <3>3, <3>4 DEF Tells
  <2>3. QED
    BY <2>1, <2>2
<1>6. Tells(job', runs', published', bundles', handles')
  BY <1>0, <1>1, <1>4, <1>5 DEF Tells
<1>7. PICK x \in Locals : pc' = [pc EXCEPT ![c] = "left"] /\ loc' = [loc EXCEPT ![c] = x]
  <2>1. CASE Raise(c)
    BY <2>1, Raised
  <2>2. CASE ReturnHandle(c, job.handle) /\ handles' \subseteq Handle
    <3> DEFINE x == [loc[c] EXCEPT !.handle = job.handle]
    <3>1. pc' = [pc EXCEPT ![c] = "left"] /\ loc' = [loc EXCEPT ![c] = x] /\ job.handle \in handles'
      BY <2>2 DEF ReturnHandle, Goto
    <3>2. job.handle \in Handle
      BY <2>2, <3>1
    <3>3. x \in Locals
      BY <1>0, <3>2 DEF Locals
    <3>4. QED
      BY <3>1, <3>3
  <2>3. CASE Goto(c, "left") /\ UNCHANGED loc
    <3>1. loc \in [Callers -> Locals]
      BY DEF ComputeInv, TypeOK
    <3>2. loc' = [loc EXCEPT ![c] = loc[c]]
      BY <2>3, <3>1
    <3>3. QED
      BY <1>0, <2>3, <3>2 DEF Goto
  <2>4. QED
    BY <1>4, <2>1, <2>2, <2>3 DEF ReturnExisting, Collect
<1>8. /\ job' \in Job \cup {NoJob} /\ runs' \in Seq(Tasks) /\ published' \subseteq Storable
      /\ published \subseteq published' /\ faults' \in 0..MaxFaults /\ "left" \in Places
      /\ Knows(c, "left", x, job', runs', published')
  BY <1>0, <1>1, AwayKnows DEF Places
<1>9. (job' = job /\ runs' = runs) \/ \A d \in Callers \ {c} : pc[d] \notin Working
  BY <1>1
<1>10. QED
  BY <1>4, <1>5, <1>6, <1>7, <1>8, <1>9, CallerMoves

\* The one who works: the job, the runner and the store move with it.
LEMMA WorkerMoves ==
  ASSUME ComputeInv, NEW c \in Callers, pc[c] \in Working, NEW l \in Places, NEW x \in Locals,
         pc' = [pc EXCEPT ![c] = l], loc' = [loc EXCEPT ![c] = x],
         job' \in Job, runs' \in Seq(Tasks), published' \subseteq Storable,
         published \subseteq published', bundles' = bundles, handles' \subseteq Handle,
         faults' = faults \/ Faulty,
         Tells(job', runs', published', bundles', handles'),
         Knows(c, l, x, job', runs', published')
  PROVE  ComputeInv'
<1>1. faults' \in 0..MaxFaults
  BY Parts DEF Faulty
<1>2. bundles' \subseteq [handle : Handle, outputs : Outputs] /\ job' \in Job \cup {NoJob}
  BY Parts
<1>3. (job' = job /\ runs' = runs) \/ \A d \in Callers \ {c} : pc[d] \notin Working
  BY OneWorker
<1>4. QED
  BY <1>1, <1>2, <1>3, CallerMoves

LEMMA RunStep ==
  ASSUME ComputeInv, NEW c \in Callers, WriteRunning(c) \/ RunJob(c)
  PROVE  ComputeInv'
<1>0. /\ loc[c] \in Locals /\ Knows(c, pc[c], loc[c], job, runs, published)
      /\ runs \in Seq(Tasks) /\ published \subseteq Storable /\ handles \subseteq Handle
      /\ Tells(job, runs, published, bundles, handles)
  BY Parts
<1>1. pc[c] \in Working
  BY DEF WriteRunning, RunJob, Working
<1>2. job \in Job /\ loc[c].handle = job.handle
  BY <1>1, OneWorker
<1>3. job # NoJob /\ job.state # "NONE" /\ job.handle.task \in Tasks
  BY <1>2, JobTypes DEF Job, Handle
<1>4. CASE WriteRunning(c)
  <2>1. /\ pc[c] = "starting" /\ pc' = [pc EXCEPT ![c] = "running"]
        /\ job' = [job EXCEPT !.state = "RUNNING"]
        /\ runs' = runs /\ published' = published /\ bundles' = bundles /\ handles' = handles
        /\ faults' = faults
    BY <1>4 DEF WriteRunning, Goto, histories
  <2>2. loc' = [loc EXCEPT ![c] = loc[c]]
    BY <1>4 DEF WriteRunning, ComputeInv, TypeOK
  <2>3. /\ job' \in Job /\ job'.handle = job.handle /\ job'.outputs = job.outputs
        /\ job'.state = "RUNNING"
    BY <1>2, <2>1 DEF Job
  <2>4. job.state = "SUBMITTED" /\ loc[c].outputs = None /\ runs = <<>>
    BY <1>0, <2>1 DEF Knows, Tells
  <2>5. Tells(job', runs', published', bundles', handles')
    BY <1>0, <2>1, <2>3, <2>4 DEF Tells
  <2>6. "running" \in Places /\ Knows(c, "running", loc[c], job', runs', published')
    BY <1>0, <1>2, <2>1, <2>3, <2>4 DEF Knows, Working, Places
  <2>7. /\ runs' \in Seq(Tasks) /\ published' \subseteq Storable /\ published \subseteq published'
        /\ handles' \subseteq Handle /\ (faults' = faults \/ Faulty)
    BY <1>0, <2>1
  <2>8. QED
    BY <1>0, <1>1, <2>1, <2>2, <2>3, <2>5, <2>6, <2>7, WorkerMoves
<1>5. CASE RunJob(c)
  <2>1. /\ pc[c] = "running" /\ job' = job /\ published' = published
        /\ bundles' = bundles /\ handles' = handles /\ faults' = faults
    BY <1>5 DEF RunJob
  <2>2. job.state = "RUNNING" /\ loc[c].outputs = None /\ runs = <<>>
    BY <1>0, <2>1 DEF Knows
  <2>3. runs' = <<job.handle.task>> /\ runs' # <<>> /\ runs' \in Seq(Tasks)
    BY <1>2, <1>3, <1>5, <2>2 DEF RunJob
  <2>4. Tells(job', runs', published', bundles', handles')
    BY <1>0, <1>3, <2>1, <2>2, <2>3 DEF Tells
  <2>5. /\ published' \subseteq Storable /\ published \subseteq published'
        /\ handles' \subseteq Handle /\ (faults' = faults \/ Faulty) /\ job' \in Job
    BY <1>0, <1>2, <2>1
  <2>6. CASE pc' = [pc EXCEPT ![c] = "failing"] /\ UNCHANGED loc
    <3>1. loc' = [loc EXCEPT ![c] = loc[c]]
      BY <2>6 DEF ComputeInv, TypeOK
    <3>2. "failing" \in Places /\ Knows(c, "failing", loc[c], job', runs', published')
      BY <1>0, <1>2, <2>1, <2>2, <2>3 DEF Knows, Working, Places
    <3>3. QED
      BY <1>0, <1>1, <2>1, <2>3, <2>4, <2>5, <2>6, <3>1, <3>2, WorkerMoves
  <2>7. ASSUME NEW o \in Outputs, loc' = [loc EXCEPT ![c].outputs = o],
               pc' = [pc EXCEPT ![c] = "publishing"]
        PROVE  ComputeInv'
    <3> DEFINE x == [loc[c] EXCEPT !.outputs = o]
    <3>1. loc' = [loc EXCEPT ![c] = x]
      BY <2>7
    <3>2. x \in Locals /\ x.handle = loc[c].handle /\ x.outputs = o
      BY <1>0 DEF Locals
    <3> HIDE DEF x
    <3>3. "publishing" \in Places /\ Knows(c, "publishing", x, job', runs', published')
      BY <1>0, <1>2, <2>1, <2>2, <2>3, <3>2 DEF Knows, Working, Places
    <3>4. QED
      BY <1>1, <2>1, <2>3, <2>4, <2>5, <2>7, <3>1, <3>2, <3>3, WorkerMoves
  <2>8. QED
    BY <1>5, <2>6, <2>7 DEF RunJob, Goto
<1>6. QED
  BY <1>4, <1>5

LEMMA PublishStep ==
  ASSUME ComputeInv, NEW c \in Callers, PublishOutputs(c) \/ PublishManifest(c)
  PROVE  ComputeInv'
<1>0. /\ loc[c] \in Locals /\ Knows(c, pc[c], loc[c], job, runs, published)
      /\ runs \in Seq(Tasks) /\ published \subseteq Storable /\ handles \subseteq Handle
      /\ Tells(job, runs, published, bundles, handles)
  BY Parts
<1>1. pc[c] \in Working /\ pc[c] \in {"publishing", "manifest"}
  BY DEF PublishOutputs, PublishManifest, Working
<1>2. job \in Job /\ loc[c].handle = job.handle /\ loc[c].outputs \in Outputs
  BY <1>0, <1>1, OneWorker DEF Knows
<1>3. loc[c].handle.task \in Tasks
  BY <1>2 DEF Job, Handle
<1>4. /\ job' = job /\ runs' = runs /\ bundles' = bundles /\ handles' = handles
      /\ faults' = faults /\ loc' = loc
  BY DEF PublishOutputs, PublishManifest, histories
<1>5. published' \subseteq Storable /\ published \subseteq published'
  BY <1>0, <1>2, <1>3 DEF PublishOutputs, PublishManifest, Storable
<1>6. Tells(job', runs', published', bundles', handles')
  BY <1>0, <1>4, <1>5 DEF Tells
<1>7. loc' = [loc EXCEPT ![c] = loc[c]]
  BY <1>4 DEF ComputeInv, TypeOK
<1>8. PICK l \in Places : /\ pc' = [pc EXCEPT ![c] = l]
                          /\ Knows(c, l, loc[c], job', runs', published')
  <2>1. CASE PublishOutputs(c)
    <3>1. pc[c] = "publishing" /\ pc' = [pc EXCEPT ![c] = "manifest"] /\ loc[c].outputs \in published'
      BY <2>1 DEF PublishOutputs, Goto
    <3>2. Knows(c, "manifest", loc[c], job', runs', published')
      BY <1>0, <1>2, <1>4, <3>1 DEF Knows, Working
    <3>3. QED
      BY <3>1, <3>2 DEF Places, Working
  <2>2. CASE PublishManifest(c)
    <3>1. /\ pc[c] = "manifest" /\ pc' = [pc EXCEPT ![c] = "closing"]
          /\ Manifest(loc[c].handle.task, loc[c].outputs) \in published'
      BY <2>2 DEF PublishManifest, Goto
    <3>2. Knows(c, "closing", loc[c], job', runs', published')
      BY <1>0, <1>2, <1>4, <1>5, <3>1 DEF Knows, Working
    <3>3. QED
      BY <3>1, <3>2 DEF Places, Working
  <2>3. QED
    BY <2>1, <2>2
<1>9. /\ job' \in Job /\ runs' \in Seq(Tasks) /\ handles' \subseteq Handle
      /\ (faults' = faults \/ Faulty)
  BY <1>0, <1>2, <1>4
<1>10. QED
  BY <1>0, <1>1, <1>4, <1>5, <1>6, <1>7, <1>8, <1>9, WorkerMoves

\* What a write of SUCCEEDED or of FAILED leaves in the state file.
LEMMA SucceededFits ==
  ASSUME ComputeInv, NEW c \in Callers, pc[c] = "closing"
  PROVE  /\ Succeeded(c) \in Job /\ Succeeded(c).handle = job.handle
         /\ Succeeded(c).state = "SUCCEEDED" /\ Succeeded(c).outputs = loc[c].outputs
         /\ loc[c].outputs \in Outputs
         /\ Tells(Succeeded(c), runs, published, bundles, handles)
<1>0. Knows(c, pc[c], loc[c], job, runs, published) /\ Tells(job, runs, published, bundles, handles)
  BY Parts
<1>1. job \in Job /\ loc[c].handle = job.handle
  BY OneWorker DEF Working
<1>2. /\ loc[c].outputs \in Outputs /\ job.state = "RUNNING" /\ runs # <<>>
      /\ {loc[c].outputs, Manifest(job.handle.task, loc[c].outputs)} \subseteq published
  BY <1>0, <1>1 DEF Knows
<1>3. /\ Succeeded(c) \in Job /\ Succeeded(c).handle = job.handle
      /\ Succeeded(c).state = "SUCCEEDED" /\ Succeeded(c).outputs = loc[c].outputs
  BY <1>1, <1>2 DEF Succeeded, Job
<1>4. bundles = {}
  BY <1>0, <1>2 DEF Tells
<1>5. Succeeded(c) # NoJob
  BY <1>3, JobTypes
<1>6. Tells(Succeeded(c), runs, published, bundles, handles)
  BY <1>0, <1>2, <1>3, <1>4, <1>5 DEF Tells
<1>7. QED
  BY <1>2, <1>3, <1>6

LEMMA FailedFits ==
  ASSUME ComputeInv, NEW c \in Callers, pc[c] = "failing"
  PROVE  /\ Failed(c) \in Job /\ Failed(c).handle = job.handle
         /\ Failed(c).state = "FAILED" /\ Failed(c).outputs = loc[c].outputs
         /\ Tells(Failed(c), runs, published, bundles, handles)
<1>0. /\ loc[c] \in Locals /\ Knows(c, pc[c], loc[c], job, runs, published)
      /\ Tells(job, runs, published, bundles, handles)
  BY Parts
<1>1. job \in Job
  BY OneWorker DEF Working
<1>2. /\ runs # <<>> /\ loc[c].outputs \in Outputs \cup {None}
      /\ job.state = "RUNNING" \/ (job.state = "SUCCEEDED" /\ loc[c].outputs = job.outputs)
  BY <1>0 DEF Knows, Locals
<1>3. /\ Failed(c) \in Job /\ Failed(c).handle = job.handle
      /\ Failed(c).state = "FAILED" /\ Failed(c).outputs = loc[c].outputs
  BY <1>1, <1>2 DEF Failed, Job
<1>4. Failed(c) # NoJob
  BY <1>3, JobTypes
<1>5. \A b \in bundles : b.handle = job.handle /\ b.outputs = loc[c].outputs
  BY <1>0, <1>2 DEF Tells
<1>6. Tells(Failed(c), runs, published, bundles, handles)
  BY <1>0, <1>2, <1>3, <1>4, <1>5 DEF Tells
<1>7. QED
  BY <1>3, <1>6

\* submit ends, with its handle or by raising, after a write that took place or not.
LEMMA CloseStep ==
  ASSUME ComputeInv, NEW c \in Callers,
         WriteSucceeded(c) \/ WriteSucceededRaises(c) \/ WriteFailed(c)
  PROVE  ComputeInv'
<1>0. /\ loc[c] \in Locals /\ Knows(c, pc[c], loc[c], job, runs, published)
      /\ runs \in Seq(Tasks) /\ published \subseteq Storable /\ handles \subseteq Handle
      /\ Tells(job, runs, published, bundles, handles)
  BY Parts
<1>1. pc[c] \in Working
  BY DEF WriteSucceeded, WriteSucceededRaises, WriteFailed, Working
<1>2. job \in Job /\ loc[c].handle = job.handle /\ job.handle \in Handle
  BY <1>1, OneWorker DEF Job
<1>3. /\ runs' = runs /\ published' = published /\ bundles' = bundles
      /\ faults' = faults \/ Faulty
  BY DEF WriteSucceeded, WriteSucceededRaises, WriteFailed, histories
<1>4. runs' \in Seq(Tasks) /\ published' \subseteq Storable /\ published \subseteq published'
  BY <1>0, <1>3
<1>5. CASE WriteSucceeded(c)
  <2> DEFINE x == [loc[c] EXCEPT !.handle = loc[c].handle]
  <2>1. /\ pc[c] = "closing" /\ job' = Succeeded(c)
        /\ pc' = [pc EXCEPT ![c] = "left"] /\ loc' = [loc EXCEPT ![c] = x]
        /\ handles' = handles \cup {loc[c].handle}
    BY <1>5 DEF WriteSucceeded, ReturnHandle, Goto
  <2>2. x \in Locals
    BY <1>0, <1>2 DEF Locals
  <2> HIDE DEF x
  <2>3. /\ job' \in Job /\ job'.handle = job.handle
        /\ Tells(job', runs, published, bundles, handles)
    BY <2>1, SucceededFits
  <2>4. Tells(job', runs', published', bundles', handles') /\ handles' \subseteq Handle
    <3>1. \A h \in handles' : h \in handles \/ h = job'.handle
      BY <1>2, <2>1, <2>3
    <3>2. QED
      BY <1>0, <1>2, <1>3, <2>3, <3>1 DEF Tells
  <2>5. "left" \in Places /\ Knows(c, "left", x, job', runs', published')
    BY AwayKnows DEF Places
  <2>6. QED
    BY <1>1, <1>3, <1>4, <2>1, <2>2, <2>3, <2>4, <2>5, WorkerMoves
<1>6. CASE WriteSucceededRaises(c)
  <2>1. /\ pc[c] = "closing" /\ job' \in {job, Succeeded(c)} /\ handles' = handles
        /\ pc' = [pc EXCEPT ![c] = "failing"] /\ loc' = loc
    BY <1>6 DEF WriteSucceededRaises, Goto, histories
  <2>2. loc' = [loc EXCEPT ![c] = loc[c]]
    BY <2>1 DEF ComputeInv, TypeOK
  <2>3. /\ job' \in Job /\ Tells(job', runs, published, bundles, handles)
        /\ job'.handle = job.handle
        /\ job'.state = "RUNNING" \/ (job'.state = "SUCCEEDED" /\ loc[c].outputs = job'.outputs)
    <3>1. CASE job' = job
      BY <1>0, <1>2, <2>1, <3>1 DEF Knows
    <3>2. CASE job' = Succeeded(c)
      BY <2>1, <3>2, SucceededFits
    <3>3. QED
      BY <2>1, <3>1, <3>2
  <2>4. Tells(job', runs', published', bundles', handles') /\ handles' \subseteq Handle
    BY <1>0, <1>3, <2>1, <2>3
  <2>5. "failing" \in Places /\ Knows(c, "failing", loc[c], job', runs', published')
    BY <1>0, <1>2, <1>3, <2>1, <2>3 DEF Knows, Working, Places
  <2>6. QED
    BY <1>0, <1>1, <1>3, <1>4, <2>1, <2>2, <2>3, <2>4, <2>5, WorkerMoves
<1>7. CASE WriteFailed(c)
  <2>1. pc[c] = "failing" /\ job' = Failed(c) /\ handles' = handles
    BY <1>7 DEF WriteFailed, histories
  <2>2. PICK x \in Locals : pc' = [pc EXCEPT ![c] = "left"] /\ loc' = [loc EXCEPT ![c] = x]
    BY <1>7, Raised DEF WriteFailed
  <2>3. /\ job' \in Job /\ Tells(job', runs', published', bundles', handles')
        /\ handles' \subseteq Handle
    BY <1>0, <1>3, <2>1, FailedFits
  <2>4. "left" \in Places /\ Knows(c, "left", x, job', runs', published')
    BY AwayKnows DEF Places
  <2>5. QED
    BY <1>1, <1>3, <1>4, <2>2, <2>3, <2>4, WorkerMoves
<1>8. QED
  BY <1>5, <1>6, <1>7

\* A write that raises out of submit has happened or has not.
LEMMA WriteRaisesStep ==
  ASSUME ComputeInv, NEW c \in Callers, WriteRaises(c)
  PROVE  ComputeInv'
<1>0. /\ Knows(c, pc[c], loc[c], job, runs, published)
      /\ runs \in Seq(Tasks) /\ published \subseteq Storable /\ handles \subseteq Handle
      /\ Tells(job, runs, published, bundles, handles)
      /\ faults \in 0..MaxFaults /\ MaxFaults \in Nat
  BY Parts
<1>1. /\ runs' = runs /\ published' = published /\ bundles' = bundles /\ handles' = handles
      /\ Faulty
  BY DEF WriteRaises, histories
<1>2. faults' \in 0..MaxFaults
  BY <1>0, <1>1 DEF Faulty
<1>3. PICK x \in Locals : pc' = [pc EXCEPT ![c] = "left"] /\ loc' = [loc EXCEPT ![c] = x]
  BY Raised DEF WriteRaises
<1>4. "left" \in Places /\ \A j, r, p : Knows(c, "left", x, j, r, p)
  BY AwayKnows DEF Places
<1>5. CASE job' = job
  BY <1>1, <1>2, <1>3, <1>4, <1>5, QuietMoves
<1>6. CASE pc[c] = "linking" /\ job' # job
  <2>1. /\ job = NoJob
        /\ job' = [handle |-> loc[c].handle, state |-> "SUBMITTED", outputs |-> None]
        /\ UNCHANGED <<published, histories>>
    BY <1>6 DEF WriteRaises
  <2>2. QED
    BY <1>2, <1>3, <1>6, <2>1, LinkStep
<1>7. CASE pc[c] \in Working /\ job' # job
  <2>1. job \in Job
    BY <1>7, OneWorker
  <2>2. job' \in Job /\ Tells(job', runs, published, bundles, handles)
    <3>1. CASE pc[c] = "starting"
      <4>1. job' = [job EXCEPT !.state = "RUNNING"]
        BY <1>7, <3>1 DEF WriteRaises
      <4>2. job' \in Job /\ job'.handle = job.handle /\ job'.outputs = job.outputs
            /\ job'.state = "RUNNING" /\ job' # NoJob
        BY <2>1, <4>1, JobTypes DEF Job, NoJob
      <4>3. job.state = "SUBMITTED" /\ runs = <<>>
        BY <1>0, <3>1 DEF Knows, Tells
      <4>4. Tells(job', runs, published, bundles, handles)
        BY <1>0, <4>2, <4>3 DEF Tells
      <4>5. QED
        BY <4>2, <4>4
    <3>2. CASE pc[c] = "failing"
      BY <1>7, <3>2, FailedFits DEF WriteRaises
    <3>3. QED
      BY <1>7, <3>1, <3>2 DEF WriteRaises, Working
  <2>3. Tells(job', runs', published', bundles', handles')
    BY <1>1, <2>2
  <2>4. /\ runs' \in Seq(Tasks) /\ published' \subseteq Storable /\ published \subseteq published'
        /\ handles' \subseteq Handle /\ (faults' = faults \/ Faulty)
        /\ Knows(c, "left", x, job', runs', published')
    BY <1>0, <1>1, <1>4
  <2>5. QED
    BY <1>1, <1>3, <1>4, <1>7, <2>2, <2>3, <2>4, WorkerMoves
<1>8. QED
  BY <1>5, <1>6, <1>7 DEF WriteRaises, Working

LEMMA ComputeInvStep == ComputeInv /\ [Next]_vars => ComputeInv'
<1>1. CASE Next
  <2>1. ASSUME ComputeInv, NEW c \in Callers, Step(c) PROVE ComputeInv'
    BY <2>1, AloneStep, LinkStateStep, AnswerStep, RunStep, PublishStep, CloseStep DEF Step
  <2>2. ASSUME ComputeInv, NEW c \in Callers, ~Step(c),
               \/ WriteSucceededRaises(c) \/ WriteRaises(c) \/ Die(c)
               \/ \E t \in Tasks : Begin(c, t)
               \/ \E h \in handles : BeginCollect(c, h)
        PROVE  ComputeInv'
    BY <2>2, AloneStep, CloseStep, WriteRaisesStep
  <2>3. QED
    BY <1>1, <2>1, <2>2 DEF Next
<1>2. ASSUME ComputeInv, UNCHANGED vars PROVE ComputeInv'
  BY <1>2 DEF vars, ComputeInv, TypeOK
<1>3. QED
  BY <1>1, <1>2

LEMMA ComputeInvHolds == Spec => []ComputeInv
BY InitComputeInv, ComputeInvStep, PTL DEF Spec

-----------------------------------------------------------------------------

\* The runner is handed one task per key, once, for any number of submissions,
\* deaths and writes that raised (submit, _load_existing_or_none).
THEOREM OneDispatch == Spec => []DispatchedOnce
<1>1. ASSUME ComputeInv PROVE DispatchedOnce
  <2>1. runs = <<>> \/ runs = <<job.handle.task>>
    BY <1>1 DEF ComputeInv, Tells
  <2>2. Len(<<>>) = 0 /\ \A t : Len(<<t>>) = 1
    OBVIOUS
  <2>3. Len(runs) = 0 \/ Len(runs) = 1
    BY <2>1, <2>2
  <2>4. QED
    BY <2>3 DEF DispatchedOnce
<1>2. QED
  BY <1>1, ComputeInvHolds, PTL

\* A state file that says SUCCEEDED can be collected: what it names was published,
\* whoever died after which write.
THEOREM JobIsSound == Spec => []JobSound
<1>1. ASSUME ComputeInv PROVE JobSound
  <2>1. TypeOK /\ Tells(job, runs, published, bundles, handles)
    BY <1>1 DEF ComputeInv
  <2>2. QED
    BY <2>1 DEF JobSound, SucceededIsCollectable, Verified, Tells
<1>2. QED
  BY <1>1, ComputeInvHolds, PTL

\* All callers are told one handle and one bundle, by submit and by collect, also
\* when a success turns into a failure between two collects.
THEOREM OneAnswer == Spec => []CallersAgree
<1>1. ASSUME ComputeInv PROVE CallersAgree
  <2>1. /\ Tells(job, runs, published, bundles, handles)
        /\ bundles \subseteq [handle : Handle, outputs : Outputs]
    BY <1>1 DEF ComputeInv, TypeOK
  <2>2. \A b, d \in bundles : b = d
    BY <2>1 DEF Tells
  <2>3. Cardinality(bundles) <= 1
    <3>1. CASE bundles = {}
      BY <3>1, FS_EmptySet
    <3>2. CASE bundles # {}
      <4>1. PICK b \in bundles : bundles = {b}
        BY <2>2, <3>2
      <4>2. QED
        <5>1. Cardinality({b}) = 1
          BY FS_Singleton
        <5>2. QED
          BY <4>1, <5>1
    <3>3. QED
      BY <3>1, <3>2
  <2>4. \A b \in bundles : runs = <<b.handle.task>> /\ b.outputs = job.outputs
    BY <2>1 DEF Tells
  <2>5. HandlesAgree
    BY <2>1 DEF HandlesAgree, Tells
  <2>6. QED
    BY <2>3, <2>4, <2>5 DEF CallersAgree, CollectsAgree
<1>2. QED
  BY <1>1, ComputeInvHolds, PTL

-----------------------------------------------------------------------------
(* The key behaves as one job *)

LEMMA AbstractInit == Init => AbstractJob!Init
BY DEF Init, AbstractJob!Init, NoJob, NoHandle

\* The first write, by the link, or by a link that raised: the job is accepted.
LEMMA LinkIsAccept ==
  ASSUME ComputeInv, NEW c \in Callers, pc[c] = "linking", job = NoJob,
         job' = [handle |-> loc[c].handle, state |-> "SUBMITTED", outputs |-> None],
         runs' = runs
  PROVE  AbstractJob!Accept
<1>1. loc[c].handle.task \in Tasks
  BY Parts DEF Knows, Handle
<1>2. QED
  BY <1>1 DEF AbstractJob!Accept, NoJob

LEMMA RunningIsStart ==
  ASSUME ComputeInv, NEW c \in Callers, pc[c] = "starting",
         job' = [job EXCEPT !.state = "RUNNING"], runs' = runs
  PROVE  AbstractJob!Start
<1>1. job \in Job /\ job.state = "SUBMITTED"
  BY OneWorker, Parts DEF Knows, Working
<1>2. QED
  BY <1>1 DEF AbstractJob!Start, Job

LEMMA SucceededIsSucceed ==
  ASSUME ComputeInv, NEW c \in Callers, pc[c] = "closing", job' = Succeeded(c), runs' = runs
  PROVE  AbstractJob!Succeed
<1>1. job.state = "RUNNING" /\ runs = <<job.handle.task>>
  BY Parts DEF Knows, Tells
<1>2. QED
  BY <1>1, SucceededFits DEF AbstractJob!Succeed

\* A failure keeps the outputs of a success whose write raised, written or not.
LEMMA FailedIsFail ==
  ASSUME ComputeInv, NEW c \in Callers, pc[c] = "failing", job' = Failed(c), runs' = runs
  PROVE  AbstractJob!Fail
<1>1. /\ runs = <<job.handle.task>> /\ loc[c].outputs \in Outputs \cup {None}
      /\ \/ job.state = "RUNNING" /\ job.outputs = None
         \/ job.state = "SUCCEEDED" /\ loc[c].outputs = job.outputs
  BY Parts DEF Knows, Tells, Locals
<1>2. QED
  BY <1>1, FailedFits DEF AbstractJob!Fail

LEMMA AbstractStep == ComputeInv /\ [Next]_vars => [AbstractJob!Next]_AbstractJob!vars
<1> SUFFICES ASSUME ComputeInv, [Next]_vars PROVE [AbstractJob!Next]_AbstractJob!vars
  OBVIOUS
<1>1. CASE job' = job /\ runs' = runs
  BY <1>1 DEF AbstractJob!vars
<1>2. ASSUME NEW c \in Callers, RunJob(c) PROVE AbstractJob!Dispatch
  <2>1. /\ pc[c] = "running" /\ job' = job /\ runs' = Append(runs, loc[c].handle.task)
    BY <1>2 DEF RunJob
  <2>2. job.state = "RUNNING" /\ runs = <<>> /\ loc[c].handle = job.handle
    BY <2>1, Parts DEF Knows, Working
  <2>3. runs' = <<job.handle.task>>
    BY <2>1, <2>2
  <2>4. QED
    BY <2>1, <2>2, <2>3 DEF AbstractJob!Dispatch
<1>3. ASSUME NEW c \in Callers, LinkState(c) \/ WriteRunning(c) \/ WriteSucceeded(c) \/ WriteFailed(c),
             job' # job
      PROVE  AbstractJob!Next
  <2>1. runs' = runs
    BY <1>3 DEF LinkState, WriteRunning, WriteSucceeded, WriteFailed, histories
  <2>2. CASE LinkState(c)
    BY <1>3, <2>1, <2>2, LinkIsAccept DEF LinkState, AbstractJob!Next
  <2>3. CASE WriteRunning(c)
    BY <2>1, <2>3, RunningIsStart DEF WriteRunning, AbstractJob!Next
  <2>4. CASE WriteSucceeded(c)
    BY <2>1, <2>4, SucceededIsSucceed DEF WriteSucceeded, AbstractJob!Next
  <2>5. CASE WriteFailed(c)
    BY <2>1, <2>5, FailedIsFail DEF WriteFailed, AbstractJob!Next
  <2>6. QED
    BY <1>3, <2>2, <2>3, <2>4, <2>5
<1>4. ASSUME NEW c \in Callers, WriteSucceededRaises(c) \/ WriteRaises(c), job' # job
      PROVE  AbstractJob!Next
  <2>1. runs' = runs
    BY <1>4 DEF WriteSucceededRaises, WriteRaises, histories
  <2>2. CASE WriteSucceededRaises(c)
    BY <1>4, <2>1, <2>2, SucceededIsSucceed DEF WriteSucceededRaises, AbstractJob!Next
  <2>3. CASE WriteRaises(c)
    BY <1>4, <2>1, <2>3, LinkIsAccept, RunningIsStart, FailedIsFail
       DEF WriteRaises, AbstractJob!Next
  <2>4. QED
    BY <1>4, <2>2, <2>3
<1>5. ASSUME NEW c \in Callers,
             \/ Look(c) \/ ReturnExisting(c) \/ Collect(c) \/ StoreRefuses(c) \/ PublishOutputs(c)
             \/ PublishManifest(c) \/ Leave(c) \/ Die(c)
             \/ (\E t \in Tasks : Begin(c, t)) \/ (\E h \in handles : BeginCollect(c, h))
      PROVE  job' = job /\ runs' = runs
  BY <1>5 DEF Look, ReturnExisting, Collect, StoreRefuses, PublishOutputs, PublishManifest, Leave,
              Die, Begin, BeginCollect, histories
<1>6. CASE Next /\ ~(job' = job /\ runs' = runs)
  <2>1. PICK c \in Callers :
          \/ Step(c) \/ WriteSucceededRaises(c) \/ WriteRaises(c) \/ Die(c)
          \/ \E t \in Tasks : Begin(c, t)
          \/ \E h \in handles : BeginCollect(c, h)
    BY <1>6 DEF Next
  <2>2. \/ RunJob(c) \/ LinkState(c) \/ WriteRunning(c) \/ WriteSucceeded(c) \/ WriteFailed(c)
        \/ WriteSucceededRaises(c) \/ WriteRaises(c)
    BY <1>5, <1>6, <2>1 DEF Step
  <2>3. CASE RunJob(c)
    BY <1>2, <2>3 DEF AbstractJob!Next
  <2>4. CASE ~RunJob(c)
    <3>1. runs' = runs
      BY <2>2, <2>4 DEF LinkState, WriteRunning, WriteSucceeded, WriteFailed,
                        WriteSucceededRaises, WriteRaises, histories
    <3>2. QED
      BY <1>3, <1>4, <1>6, <2>2, <2>4, <3>1
  <2>5. QED
    BY <2>3, <2>4
<1>7. CASE UNCHANGED vars
  BY <1>1, <1>7 DEF vars, histories
<1>8. QED
  BY <1>1, <1>6, <1>7

\* submit and collect, for any number of callers that die anywhere, implement one
\* job that is accepted, started, dispatched and closed once.
THEOREM ComputeImplementsJob == Spec => ImplementsJob
<1>1. Spec => AbstractJob!Init /\ [][AbstractJob!Next]_AbstractJob!vars
  BY AbstractInit, AbstractStep, ComputeInvHolds, PTL DEF Spec
<1>2. QED
  BY <1>1 DEF ImplementsJob, AbstractJob!Spec

=============================================================================
