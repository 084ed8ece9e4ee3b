---------------------------- MODULE WebRunsProofs ----------------------------
(***************************************************************************)
(* Proofs about WebRuns, for any number of runs, requests and workers: no  *)
(* two workers drive the same run, and an approval decides the call it     *)
(* names.  The first is what the proofs about AgentLoop assume of its      *)
(* drivers, as far as the server is concerned.                             *)
(***************************************************************************)
EXTENDS WebRuns, TLAPS

\* What a thread inside RuntimeService holds.
DriverSound(t) ==
  /\ driver[t].at = "idle" <=> driver[t].run = None
  /\ driver[t].at = "deciding" =>
       driver[t].call \in Call /\ driver[t].named \in {None, driver[t].call}

\* The future a worker works on is there and running.
WorkerSound(w) ==
  driver[w].run # None =>
    /\ driver[w].job \in DOMAIN jobs[driver[w].run]
    /\ jobs[driver[w].run][driver[w].job].state = "running"

\* A request is about a run, and is a driver only while it starts that run.
RequestSound(q) ==
  /\ request[q].at # "idle" => request[q].run \in Runs
  /\ driver[q].at # "idle" => request[q].at = "driving"

\* Only the last future of a run can be unfinished, and what waits in the queue
\* is a future that is queued, once.
FutureBooks ==
  /\ \A r \in Runs : Len(jobs[r]) <= MaxJobs
  /\ \A r \in Runs : \A n \in DOMAIN jobs[r] : jobs[r][n].state # "done" => n = Len(jobs[r])
  /\ \A i \in DOMAIN queue : /\ queue[i][2] \in DOMAIN jobs[queue[i][1]]
                             /\ jobs[queue[i][1]][queue[i][2]].state = "queued"
  /\ \A i, j \in DOMAIN queue : queue[i] = queue[j] => i = j

RunsSound == \A r \in Runs : run[r].status = "WAITING_APPROVAL" => run[r].call \in Call

ServerInv ==
  /\ TypeOK /\ RunsSound
  /\ \A t \in Threads : DriverSound(t)
  /\ \A w \in Workers : WorkerSound(w)
  /\ \A q \in Requests : RequestSound(q)
  /\ FutureBooks /\ OneWorkerPerRun
  /\ ApprovalDecidesNamedCall

-----------------------------------------------------------------------------
(* The pieces the steps are made of *)

LEMMA IdleTyped ==
  /\ NotDriving \in Driving /\ NotAsking \in Asking
  /\ NotDriving.run = None /\ NotDriving.at = "idle" /\ NotAsking.at = "idle"
<1>1. MaxJobs \in Nat /\ MaxCalls \in Nat
  BY WebAssumption
<1>2. 0 \in 0..MaxJobs /\ 0 \in 0..MaxCalls
  BY <1>1
<1>3. QED
  BY <1>2 DEF NotDriving, Driving, NotAsking, Asking, Statuses

LEMMA InitServer == Init => ServerInv
<1> SUFFICES ASSUME Init PROVE ServerInv
  OBVIOUS
<1>1. MaxJobs \in Nat /\ MaxCalls \in Nat /\ MaxKills \in Nat
  BY WebAssumption
<1>2. TypeOK
  <2>1. run \in [Runs -> [status : Statuses, call : 0..MaxCalls]]
    BY <1>1 DEF Init, Statuses
  <2>2. jobs \in [Runs -> Seq(Job)] /\ queue \in Seq(Runs \X (1..MaxJobs))
    BY DEF Init
  <2>3. driver \in [Threads -> Driving] /\ request \in [Requests -> Asking]
    BY IdleTyped DEF Init
  <2>4. closed \in BOOLEAN /\ kills \in 0..MaxKills
    <3>1. closed = FALSE /\ kills = 0
      BY DEF Init
    <3>2. 0 \in 0..MaxKills
      BY <1>1
    <3>3. QED
      BY <3>1, <3>2
  <2>5. seen \in [Runs -> SUBSET Call]
    BY DEF Init
  <2>6. decided \subseteq (Call \cup {None}) \X Call
    BY DEF Init
  <2>7. QED
    BY <2>1, <2>2, <2>3, <2>4, <2>5, <2>6 DEF TypeOK
<1>3. FutureBooks
  BY <1>1 DEF Init, FutureBooks
<1>4. RunsSound /\ OneWorkerPerRun /\ ApprovalDecidesNamedCall
  BY IdleTyped DEF Init, RunsSound, OneWorkerPerRun, ApprovalDecidesNamedCall, Threads
<1>5. /\ \A t \in Threads : DriverSound(t)
      /\ \A w \in Workers : WorkerSound(w)
      /\ \A q \in Requests : RequestSound(q)
  BY IdleTyped DEF Init, DriverSound, WorkerSound, RequestSound, Threads
<1>6. QED
  BY <1>2, <1>3, <1>4, <1>5 DEF ServerInv

\* Where no future, nothing in the queue and no worker's run changes, the books
\* stay in order.
LEMMA BooksKept ==
  ASSUME ServerInv, UNCHANGED <<jobs, queue>>,
         \A w \in Workers : driver'[w].run = driver[w].run /\ driver'[w].job = driver[w].job
  PROVE  FutureBooks' /\ OneWorkerPerRun' /\ \A w \in Workers : WorkerSound(w)'
BY DEF ServerInv, FutureBooks, OneWorkerPerRun, WorkerSound

\* What changing one future does to all of them.
LEMMA JobChanged ==
  ASSUME TypeOK, NEW r \in Runs, NEW n \in DOMAIN jobs[r], NEW job \in Job,
         jobs' = [jobs EXCEPT ![r] = [jobs[r] EXCEPT ![n] = job]]
  PROVE  /\ jobs' \in [Runs -> Seq(Job)]
         /\ \A s \in Runs : Len(jobs'[s]) = Len(jobs[s]) /\ DOMAIN jobs'[s] = DOMAIN jobs[s]
         /\ jobs'[r][n] = job
         /\ \A s \in Runs : \A m \in DOMAIN jobs[s] :
              s # r \/ m # n => jobs'[s][m] = jobs[s][m]
<1>1. jobs \in [Runs -> Seq(Job)] /\ jobs[r] \in Seq(Job)
  BY DEF TypeOK
<1> DEFINE changed == [jobs[r] EXCEPT ![n] = job]
<1>2. /\ changed \in Seq(Job) /\ Len(changed) = Len(jobs[r]) /\ DOMAIN changed = DOMAIN jobs[r]
      /\ changed[n] = job /\ \A m \in DOMAIN jobs[r] : m # n => changed[m] = jobs[r][m]
  BY <1>1
<1>3. jobs' = [jobs EXCEPT ![r] = changed]
  OBVIOUS
<1> HIDE DEF changed
<1>4. QED
  BY <1>1, <1>2, <1>3

\* What a step of a thread inside RuntimeService keeps, when it stays inside.
LEMMA DriverMoved ==
  ASSUME ServerInv, NEW t \in Threads, driver[t].at # "idle", NEW x \in Driving,
         x.run = driver[t].run, x.job = driver[t].job, x.at # "idle",
         x.at = "deciding" => x.call \in Call /\ x.named \in {None, x.call},
         driver' = [driver EXCEPT ![t] = x],
         run' \in [Runs -> [status : Statuses, call : 0..MaxCalls]], RunsSound',
         decided' \subseteq (Call \cup {None}) \X Call, ApprovalDecidesNamedCall',
         UNCHANGED <<jobs, queue, request, seen, closed, kills>>
  PROVE  ServerInv'
<1>1. TypeOK /\ driver \in [Threads -> Driving]
  BY DEF ServerInv, TypeOK
<1>2. TypeOK'
  BY <1>1 DEF TypeOK
<1>3. /\ driver'[t] = x
      /\ \A u \in Threads : u # t => driver'[u] = driver[u]
      /\ \A u \in Threads : driver'[u].run = driver[u].run /\ driver'[u].job = driver[u].job
  BY <1>1
<1>4. \A u \in Threads : DriverSound(u)'
  <2> SUFFICES ASSUME NEW u \in Threads PROVE DriverSound(u)'
    OBVIOUS
  <2>1. DriverSound(u) /\ DriverSound(t)
    BY DEF ServerInv
  <2>2. CASE u = t
    BY <1>3, <2>1, <2>2 DEF DriverSound
  <2>3. CASE u # t
    BY <1>3, <2>1, <2>3 DEF DriverSound
  <2>4. QED
    BY <2>2, <2>3
<1>5. FutureBooks' /\ OneWorkerPerRun' /\ \A w \in Workers : WorkerSound(w)'
  BY <1>3, BooksKept DEF Threads
<1>6. \A q \in Requests : RequestSound(q)'
  BY <1>3 DEF ServerInv, RequestSound, Threads
<1>7. QED
  BY <1>2, <1>4, <1>5, <1>6 DEF ServerInv

\* What a step of a request keeps that leaves the drivers and the books alone.
LEMMA RequestMoved ==
  ASSUME ServerInv, NEW q \in Requests, driver[q].at = "idle", NEW x \in Asking,
         x.at # "idle" => x.run \in Runs,
         request' = [request EXCEPT ![q] = x],
         seen' \in [Runs -> SUBSET Call],
         UNCHANGED <<run, jobs, queue, driver, decided, closed, kills>>
  PROVE  ServerInv'
<1>1. TypeOK /\ request \in [Requests -> Asking]
  BY DEF ServerInv, TypeOK
<1>2. TypeOK'
  BY <1>1 DEF TypeOK
<1>3. FutureBooks' /\ OneWorkerPerRun' /\ \A w \in Workers : WorkerSound(w)'
  BY BooksKept
<1>4. \A p \in Requests : RequestSound(p)'
  BY <1>1 DEF ServerInv, RequestSound
<1>5. /\ RunsSound' /\ ApprovalDecidesNamedCall' /\ \A t \in Threads : DriverSound(t)'
  BY DEF ServerInv, RunsSound, ApprovalDecidesNamedCall, DriverSound
<1>6. QED
  BY <1>2, <1>3, <1>4, <1>5 DEF ServerInv

-----------------------------------------------------------------------------
(* The steps *)

LEMMA RequestsStep ==
  ASSUME ServerInv, NEW q \in Requests,
         \/ Look(q) \/ Inspect(q) \/ Check(q) \/ Reply(q)
         \/ \E r \in Runs : BeginDetail(q, r) \/ BeginResume(q, r) \/ BeginApprove(q, r)
  PROVE  ServerInv'
<1>1. /\ TypeOK /\ request[q] \in Asking /\ RequestSound(q)
      /\ seen \in [Runs -> SUBSET Call]
      /\ run \in [Runs -> [status : Statuses, call : 0..MaxCalls]]
      /\ jobs \in [Runs -> Seq(Job)]
      /\ UNCHANGED <<run, jobs, queue, driver, decided, closed, kills>>
  BY DEF ServerInv, TypeOK, Look, Inspect, Check, Reply, BeginDetail, BeginResume, BeginApprove, Ask
<1>2. driver[q].at = "idle"
  BY <1>1 DEF RequestSound, Look, Inspect, Check, Reply, BeginDetail, BeginResume, BeginApprove, Ask
<1>3. ASSUME NEW r \in Runs, BeginDetail(q, r) \/ BeginResume(q, r) \/ BeginApprove(q, r)
      PROVE  ServerInv'
  <2>1. PICK a \in BOOLEAN, c \in Call \cup {None}, l \in {"looking", "submitting"} :
          Ask(q, r, a, c, l)
    BY <1>1, <1>3 DEF BeginDetail, BeginResume, BeginApprove
  <2> DEFINE x == [NotAsking EXCEPT !.run = r, !.approves = a, !.named = c, !.at = l]
  <2>2. x \in Asking /\ x.run = r
    BY IdleTyped DEF Asking
  <2>3. request' = [request EXCEPT ![q] = x] /\ seen' = seen
    BY <2>1 DEF Ask
  <2> HIDE DEF x
  <2>4. QED
    BY <1>1, <1>2, <2>2, <2>3, RequestMoved
<1>4. CASE Look(q)
  <2> DEFINE x == [request[q] EXCEPT !.future = Len(jobs[request[q].run]), !.at = "inspecting"]
  <2>1. request[q].run \in Runs
    BY <1>1, <1>4 DEF Look, RequestSound
  <2>2. Len(jobs[request[q].run]) \in 0..MaxJobs
    BY <1>1, <2>1, WebAssumption DEF ServerInv, FutureBooks
  <2>3. x \in Asking /\ x.run \in Runs
    BY <1>1, <2>1, <2>2 DEF Asking
  <2>4. request' = [request EXCEPT ![q] = x] /\ seen' = seen
    BY <1>4 DEF Look, ServerInv, TypeOK
  <2> HIDE DEF x
  <2>5. QED
    BY <1>1, <1>2, <2>3, <2>4, RequestMoved
<1>5. CASE Inspect(q)
  <2> DEFINE r == request[q].run
             x == [request[q] EXCEPT !.status = run[r].status, !.at = "checking"]
  <2>1. r \in Runs
    BY <1>1, <1>5 DEF Inspect, RequestSound
  <2>2. x \in Asking /\ x.run \in Runs
    BY <1>1, <2>1 DEF Asking
  <2>3. request' = [request EXCEPT ![q] = x]
    BY <1>5 DEF Inspect, ServerInv, TypeOK
  <2>4. seen' \in [Runs -> SUBSET Call]
    BY <1>1, <1>5, <2>1 DEF Inspect, ServerInv, RunsSound
  <2> HIDE DEF x
  <2>5. QED
    BY <1>1, <1>2, <2>2, <2>3, <2>4, RequestMoved
<1>6. CASE Check(q)
  <2> DEFINE x == [request[q] EXCEPT !.pending = Pending(request[q].run, request[q].future),
                                     !.at = "left"]
  <2>1. request[q].run \in Runs /\ Pending(request[q].run, request[q].future) \in BOOLEAN
    BY <1>1, <1>6 DEF Check, RequestSound, Pending
  <2>2. x \in Asking /\ x.run \in Runs
    BY <1>1, <2>1 DEF Asking
  <2>3. request' = [request EXCEPT ![q] = x] /\ seen' = seen
    BY <1>6 DEF Check, ServerInv, TypeOK
  <2> HIDE DEF x
  <2>4. QED
    BY <1>1, <1>2, <2>2, <2>3, RequestMoved
<1>7. CASE Reply(q)
  <2>1. request' = [request EXCEPT ![q] = NotAsking] /\ seen' = seen
    BY <1>7 DEF Reply
  <2>2. QED
    BY <1>1, <1>2, <2>1, IdleTyped, RequestMoved
<1>8. QED
  BY <1>3, <1>4, <1>5, <1>6, <1>7

LEMMA StartStep ==
  ASSUME ServerInv, NEW q \in Requests, NEW r \in Runs, BeginStart(q, r)
  PROVE  ServerInv'
<1> DEFINE x == [NotDriving EXCEPT !.run = r, !.at = "loop"]
           y == [NotAsking EXCEPT !.run = r, !.at = "driving"]
<1>1. /\ TypeOK /\ q \in Threads /\ driver \in [Threads -> Driving]
      /\ request \in [Requests -> Asking]
      /\ run \in [Runs -> [status : Statuses, call : 0..MaxCalls]]
  BY DEF ServerInv, TypeOK, Threads
<1>2. x \in Driving /\ x.run = r /\ x.at = "loop" /\ y \in Asking /\ y.run = r /\ y.at = "driving"
  BY IdleTyped DEF Driving, Asking
<1>3. /\ driver' = [driver EXCEPT ![q] = x] /\ request' = [request EXCEPT ![q] = y]
      /\ run' = [run EXCEPT ![r].status = "ACTIVE"]
      /\ UNCHANGED <<jobs, queue, seen, decided, closed, kills>>
  BY DEF BeginStart
<1> HIDE DEF x, y
<1>4. TypeOK'
  BY <1>1, <1>2, <1>3 DEF TypeOK, Statuses
<1>5. \A w \in Workers : driver'[w] = driver[w]
  BY <1>1, <1>3, WebAssumption DEF Threads
<1>6. FutureBooks' /\ OneWorkerPerRun' /\ \A w \in Workers : WorkerSound(w)'
  BY <1>3, <1>5, BooksKept
<1>7. r # None
  BY WebAssumption
<1>8. /\ \A t \in Threads : DriverSound(t)'
      /\ \A p \in Requests : RequestSound(p)'
  BY <1>1, <1>2, <1>3, <1>7 DEF ServerInv, DriverSound, RequestSound, Threads
<1>9. RunsSound' /\ ApprovalDecidesNamedCall'
  BY <1>1, <1>3 DEF ServerInv, RunsSound, ApprovalDecidesNamedCall
<1>10. QED
  BY <1>4, <1>6, <1>8, <1>9 DEF ServerInv

LEMMA SubmitStep ==
  ASSUME ServerInv, NEW q \in Requests, Submit(q)
  PROVE  ServerInv'
<1> DEFINE r == request[q].run
<1>1. /\ TypeOK /\ request[q] \in Asking /\ RequestSound(q) /\ request[q].at = "submitting"
      /\ request \in [Requests -> Asking]
      /\ jobs \in [Runs -> Seq(Job)] /\ queue \in Seq(Runs \X (1..MaxJobs))
      /\ UNCHANGED <<run, driver, seen, decided, closed, kills>>
  BY DEF ServerInv, TypeOK, Submit
<1>2. r \in Runs /\ driver[q].at = "idle"
  BY <1>1 DEF RequestSound
<1>3. CASE UNCHANGED <<jobs, queue>>
  <2>1. PICK x \in {NotAsking, [request[q] EXCEPT !.at = "looking"]} :
          request' = [request EXCEPT ![q] = x]
    <3>1. \/ request' = [request EXCEPT ![q].at = "looking"]
          \/ request' = [request EXCEPT ![q] = NotAsking]
      BY DEF Submit
    <3>2. QED
      BY <1>1, <3>1
  <2>2. x \in Asking /\ (x.at # "idle" => x.run \in Runs)
    BY <1>1, <1>2, IdleTyped DEF Asking
  <2>3. seen' \in [Runs -> SUBSET Call]
    BY <1>1 DEF TypeOK
  <2>4. QED
    BY <1>1, <1>2, <1>3, <2>1, <2>2, <2>3, RequestMoved
<1>4. CASE ~UNCHANGED <<jobs, queue>>
  <2> DEFINE job == [approves |-> request[q].approves, named |-> request[q].named,
                     state |-> "queued", error |-> FALSE]
             x == [request[q] EXCEPT !.at = "looking"]
  <2>1. /\ ~Pending(r, Len(jobs[r])) /\ Len(jobs[r]) < MaxJobs
        /\ jobs' = [jobs EXCEPT ![r] = Append(jobs[r], job)]
        /\ queue' = Append(queue, <<r, Len(jobs[r]) + 1>>)
        /\ request' = [request EXCEPT ![q] = x]
    BY <1>1, <1>4 DEF Submit, Enqueue
  <2>2. job \in Job /\ x \in Asking /\ x.run = r /\ x.at = "looking"
    BY <1>1 DEF Job, Asking
  <2>3. job.state = "queued"
    OBVIOUS
  <2> HIDE DEF job, x, r
  <2>4. PICK n \in Nat : n = Len(jobs[r]) + 1 /\ n \in 1..MaxJobs
    BY <1>1, <1>2, <2>1, WebAssumption
  <2>5. /\ jobs' \in [Runs -> Seq(Job)]
        /\ \A s \in Runs : s # r => jobs'[s] = jobs[s]
        /\ Len(jobs'[r]) = n /\ DOMAIN jobs'[r] = DOMAIN jobs[r] \cup {n}
        /\ jobs'[r][n] = job /\ n \notin DOMAIN jobs[r]
        /\ \A m \in DOMAIN jobs[r] : jobs'[r][m] = jobs[r][m]
    <3>1. /\ jobs[r] \in Seq(Job) /\ jobs' \in [Runs -> Seq(Job)]
          /\ \A s \in Runs : s # r => jobs'[s] = jobs[s]
          /\ jobs'[r] = Append(jobs[r], job)
      BY <1>1, <1>2, <2>1, <2>2
    <3>2. /\ Len(jobs'[r]) = n /\ DOMAIN jobs'[r] = DOMAIN jobs[r] \cup {n}
          /\ jobs'[r][n] = job /\ n \notin DOMAIN jobs[r]
          /\ \A m \in DOMAIN jobs[r] : jobs'[r][m] = jobs[r][m]
      BY <2>2, <2>4, <3>1
    <3>3. QED
      BY <3>1, <3>2
  <2>6. PICK k \in Nat : k = Len(queue) + 1
    BY <1>1
  <2>7. /\ queue' \in Seq(Runs \X (1..MaxJobs)) /\ DOMAIN queue' = DOMAIN queue \cup {k}
        /\ k \notin DOMAIN queue /\ queue'[k] = <<r, n>>
        /\ \A i \in DOMAIN queue : queue'[i] = queue[i]
    <3>1. <<r, n>> \in Runs \X (1..MaxJobs) /\ queue' = Append(queue, <<r, n>>)
      BY <1>2, <2>1, <2>4
    <3>2. QED
      BY <1>1, <2>6, <3>1
  <2>8. \A m \in DOMAIN jobs[r] : jobs[r][m].state = "done"
    <3>1. Len(jobs[r]) # 0 => jobs[r][Len(jobs[r])].state = "done"
      BY <2>1 DEF Pending
    <3>2. \A m \in DOMAIN jobs[r] : jobs[r][m].state # "done" => m = Len(jobs[r])
      BY <1>2 DEF ServerInv, FutureBooks
    <3>3. DOMAIN jobs[r] = 1..Len(jobs[r]) /\ Len(jobs[r]) \in Nat
      BY <1>1, <1>2
    <3>4. QED
      BY <3>1, <3>2, <3>3
  <2>9. FutureBooks'
    <3>1. \A s \in Runs : Len(jobs'[s]) <= MaxJobs
      BY <2>4, <2>5 DEF ServerInv, FutureBooks
    <3>2. \A s \in Runs : \A m \in DOMAIN jobs'[s] :
            jobs'[s][m].state # "done" => m = Len(jobs'[s])
      BY <2>5, <2>8 DEF ServerInv, FutureBooks
    <3>3. \A i \in DOMAIN queue :
            /\ queue[i] \in Runs \X (1..MaxJobs)
            /\ queue[i][1] \in Runs /\ queue[i][2] \in DOMAIN jobs[queue[i][1]]
            /\ jobs[queue[i][1]][queue[i][2]].state = "queued"
      BY <1>1 DEF ServerInv, FutureBooks
    <3>4. \A i \in DOMAIN queue' : /\ queue'[i][2] \in DOMAIN jobs'[queue'[i][1]]
                                   /\ jobs'[queue'[i][1]][queue'[i][2]].state = "queued"
      <4> SUFFICES ASSUME NEW i \in DOMAIN queue'
                   PROVE  /\ queue'[i][2] \in DOMAIN jobs'[queue'[i][1]]
                          /\ jobs'[queue'[i][1]][queue'[i][2]].state = "queued"
        OBVIOUS
      <4>1. CASE i = k
        BY <2>3, <2>5, <2>7, <4>1 DEF job
      <4>2. CASE i \in DOMAIN queue
        BY <2>5, <2>7, <3>3, <4>2
      <4>3. QED
        BY <2>7, <4>1, <4>2
    <3>5. \A i, j \in DOMAIN queue' : queue'[i] = queue'[j] => i = j
      <4>1. \A i \in DOMAIN queue : queue[i] # <<r, n>>
        BY <2>5, <3>3
      <4>2. \A i, j \in DOMAIN queue : queue[i] = queue[j] => i = j
        BY DEF ServerInv, FutureBooks
      <4>3. QED
        BY <2>7, <4>1, <4>2
    <3>6. QED
      BY <3>1, <3>2, <3>4, <3>5 DEF FutureBooks
  <2>10. \A w \in Workers : WorkerSound(w)'
    <3>1. \A w \in Workers : driver[w].run \in Runs \cup {None}
      BY <1>1 DEF TypeOK, Driving, Threads
    <3>2. QED
      BY <1>1, <2>5, <3>1 DEF ServerInv, WorkerSound
  <2>11. TypeOK'
    BY <1>1, <2>1, <2>2, <2>5, <2>7 DEF TypeOK
  <2>12. \A p \in Requests : RequestSound(p)'
    BY <1>1, <1>2, <2>1, <2>2 DEF ServerInv, RequestSound
  <2>13. /\ RunsSound' /\ ApprovalDecidesNamedCall' /\ OneWorkerPerRun'
         /\ \A t \in Threads : DriverSound(t)'
    BY <1>1 DEF ServerInv, RunsSound, ApprovalDecidesNamedCall, OneWorkerPerRun, DriverSound
  <2>14. QED
    BY <2>9, <2>10, <2>11, <2>12, <2>13 DEF ServerInv
<1>5. QED
  BY <1>3, <1>4

LEMMA TakeStep ==
  ASSUME ServerInv, NEW w \in Workers, Take(w)
  PROVE  ServerInv'
<1>1. /\ TypeOK /\ w \in Threads /\ driver[w].at = "idle" /\ queue # <<>>
      /\ driver \in [Threads -> Driving]
      /\ jobs \in [Runs -> Seq(Job)] /\ queue \in Seq(Runs \X (1..MaxJobs))
      /\ UNCHANGED <<run, request, seen, decided, closed, kills>>
  BY DEF ServerInv, TypeOK, Take, Threads
<1>2. PICK r \in Runs, n \in 1..MaxJobs :
        /\ queue[1] = <<r, n>> /\ 1 \in DOMAIN queue
        /\ n \in DOMAIN jobs[r] /\ jobs[r][n].state = "queued"
  <2>1. queue[1] \in Runs \X (1..MaxJobs) /\ 1 \in DOMAIN queue
    BY <1>1
  <2>2. QED
    BY <2>1 DEF ServerInv, FutureBooks
<1> DEFINE job == [jobs[r][n] EXCEPT !.state = "running"]
           x == [NotDriving EXCEPT !.run = r, !.job = n, !.named = jobs[r][n].named,
                   !.at = IF jobs[r][n].approves THEN "begin" ELSE "loop"]
<1>3. /\ jobs' = [jobs EXCEPT ![r] = [jobs[r] EXCEPT ![n] = job]]
      /\ driver' = [driver EXCEPT ![w] = x]
      /\ queue' = Tail(queue)
  <2>1. Head(queue) = <<r, n>> /\ Head(queue)[1] = r /\ Head(queue)[2] = n
    BY <1>1, <1>2
  <2>2. jobs' = [jobs EXCEPT ![r][n].state = "running"] /\ queue' = Tail(queue)
    BY <2>1 DEF Take
  <2>3. driver' = [driver EXCEPT ![w] = x]
    BY <2>1 DEF Take
  <2>4. QED
    BY <1>1, <1>2, <2>2, <2>3
<1>4. /\ job \in Job /\ job.state = "running"
      /\ x \in Driving /\ x.run = r /\ x.job = n /\ x.at \in {"begin", "loop"}
  <2>1. jobs[r][n] \in Job /\ n \in 0..MaxJobs
    BY <1>1, <1>2, WebAssumption
  <2>2. QED
    BY <2>1, IdleTyped DEF Job, Driving
<1> HIDE DEF job, x
<1>5. /\ jobs' \in [Runs -> Seq(Job)]
      /\ \A s \in Runs : Len(jobs'[s]) = Len(jobs[s]) /\ DOMAIN jobs'[s] = DOMAIN jobs[s]
      /\ jobs'[r][n] = job
      /\ \A s \in Runs : \A m \in DOMAIN jobs[s] :
           s # r \/ m # n => jobs'[s][m] = jobs[s][m]
  BY <1>1, <1>2, <1>3, <1>4, JobChanged
<1>6. /\ queue' \in Seq(Runs \X (1..MaxJobs))
      /\ \A i \in DOMAIN queue' : /\ i + 1 \in DOMAIN queue /\ i \in Nat /\ i + 1 # 1
                                  /\ queue'[i] = queue[i + 1]
  BY <1>1, <1>3
<1>7. /\ driver' \in [Threads -> Driving] /\ driver'[w] = x
      /\ \A t \in Threads : t # w => driver'[t] = driver[t]
      /\ Workers \subseteq Threads /\ Requests \subseteq Threads /\ w \notin Requests
      /\ r # None
  BY <1>1, <1>3, <1>4, WebAssumption DEF Threads
<1>8. \A v \in Workers : driver[v].run # r
  <2> SUFFICES ASSUME NEW v \in Workers, driver[v].run = r PROVE FALSE
    OBVIOUS
  <2>1. driver[v].job \in DOMAIN jobs[r] /\ jobs[r][driver[v].job].state = "running"
    BY <1>7 DEF ServerInv, WorkerSound
  <2>2. \A m \in DOMAIN jobs[r] : jobs[r][m].state # "done" => m = Len(jobs[r])
    BY DEF ServerInv, FutureBooks
  <2>3. QED
    BY <1>2, <2>1, <2>2
<1>9. FutureBooks'
  <2>1. \A s \in Runs : Len(jobs'[s]) <= MaxJobs
    BY <1>5 DEF ServerInv, FutureBooks
  <2>2. \A s \in Runs : \A m \in DOMAIN jobs'[s] :
          jobs'[s][m].state # "done" => m = Len(jobs'[s])
    BY <1>2, <1>5 DEF ServerInv, FutureBooks
  <2>3. \A i, j \in DOMAIN queue : queue[i] = queue[j] => i = j
    BY DEF ServerInv, FutureBooks
  <2>4. \A i \in DOMAIN queue :
          /\ queue[i] \in Runs \X (1..MaxJobs)
          /\ queue[i][1] \in Runs /\ queue[i][2] \in DOMAIN jobs[queue[i][1]]
          /\ jobs[queue[i][1]][queue[i][2]].state = "queued"
    BY <1>1 DEF ServerInv, FutureBooks
  <2>5. \A i \in DOMAIN queue : i # 1 => queue[i][1] # r \/ queue[i][2] # n
    BY <1>2, <2>3, <2>4
  <2>6. \A i \in DOMAIN queue' : /\ queue'[i][2] \in DOMAIN jobs'[queue'[i][1]]
                                 /\ jobs'[queue'[i][1]][queue'[i][2]].state = "queued"
    BY <1>5, <1>6, <2>4, <2>5
  <2>7. \A i, j \in DOMAIN queue' : queue'[i] = queue'[j] => i = j
    BY <1>6, <2>3
  <2>8. QED
    BY <2>1, <2>2, <2>6, <2>7 DEF FutureBooks
<1>10. \A v \in Workers : WorkerSound(v)'
  <2> SUFFICES ASSUME NEW v \in Workers, driver'[v].run # None
               PROVE  /\ driver'[v].job \in DOMAIN jobs'[driver'[v].run]
                      /\ jobs'[driver'[v].run][driver'[v].job].state = "running"
    BY DEF WorkerSound
  <2>1. CASE v = w
    BY <1>2, <1>4, <1>5, <1>7, <2>1
  <2>2. CASE v # w
    <3>1. driver[v].run \in Runs /\ driver[v].run # r /\ driver'[v] = driver[v]
      BY <1>1, <1>7, <1>8, <2>2 DEF Driving
    <3>2. QED
      BY <1>5, <3>1 DEF ServerInv, WorkerSound
  <2>3. QED
    BY <2>1, <2>2
<1>11. OneWorkerPerRun'
  BY <1>4, <1>7, <1>8 DEF ServerInv, OneWorkerPerRun
<1>12. TypeOK'
  BY <1>1, <1>5, <1>6, <1>7 DEF TypeOK
<1>13. /\ \A t \in Threads : DriverSound(t)'
       /\ \A q \in Requests : RequestSound(q)'
  BY <1>1, <1>4, <1>7 DEF ServerInv, DriverSound, RequestSound
<1>14. RunsSound' /\ ApprovalDecidesNamedCall'
  BY <1>1 DEF ServerInv, RunsSound, ApprovalDecidesNamedCall
<1>15. QED
  BY <1>9, <1>10, <1>11, <1>12, <1>13, <1>14 DEF ServerInv

LEMMA InsideStep ==
  ASSUME ServerInv, NEW t \in Threads,
         \/ BuildApproval(t) \/ ApplyApproval(t) \/ Stay(t) \/ Decide(t)
         \/ StartCall(t) \/ FinishCall(t)
  PROVE  ServerInv'
<1> DEFINE r == driver[t].run
<1>1. /\ TypeOK /\ RunsSound /\ driver[t] \in Driving /\ driver[t].at # "idle" /\ DriverSound(t)
      /\ run \in [Runs -> [status : Statuses, call : 0..MaxCalls]]
      /\ driver \in [Threads -> Driving]
      /\ UNCHANGED <<jobs, queue, request, seen, closed, kills>>
  BY DEF ServerInv, TypeOK, BuildApproval, ApplyApproval, Stay, Decide, StartCall, FinishCall
<1>2. r \in Runs /\ run[r] \in [status : Statuses, call : 0..MaxCalls]
  BY <1>1 DEF DriverSound, Driving
<1>3. MaxCalls \in Nat /\ decided \subseteq (Call \cup {None}) \X Call /\ ApprovalDecidesNamedCall
  BY WebAssumption DEF ServerInv, TypeOK
\* Leaving or staying at a place without a decision changes no local.
<1>4. ASSUME NEW l \in {"loop", "executing", "returning"}
      PROVE  LET x == [driver[t] EXCEPT !.at = l]
                 y == [driver[t] EXCEPT !.at = l, !.error = TRUE]
             IN  /\ x \in Driving /\ x.run = r /\ x.job = driver[t].job /\ x.at = l
                 /\ y \in Driving /\ y.run = r /\ y.job = driver[t].job /\ y.at = l
  BY <1>1 DEF Driving
<1>5. CASE BuildApproval(t)
  <2>1. UNCHANGED <<run, decided>> /\ RunsSound' /\ ApprovalDecidesNamedCall'
    BY <1>1, <1>3, <1>5 DEF BuildApproval, RunsSound, ApprovalDecidesNamedCall
  <2>2. CASE Acceptable(t)
    <3> DEFINE x == [driver[t] EXCEPT !.at = "deciding", !.call = run[r].call]
    <3>1. run[r].call \in Call /\ driver[t].named \in {None, run[r].call}
      BY <1>1, <1>2, <2>2 DEF Acceptable, RunsSound
    <3>2. /\ x \in Driving /\ x.run = r /\ x.job = driver[t].job /\ x.at = "deciding"
          /\ x.call \in Call /\ x.named \in {None, x.call}
      BY <1>1, <1>2, <3>1 DEF Driving
    <3>3. driver' = [driver EXCEPT ![t] = x]
      BY <1>1, <1>5, <2>2 DEF BuildApproval
    <3> HIDE DEF x
    <3>4. QED
      BY <1>1, <1>3, <2>1, <3>2, <3>3, DriverMoved
  <2>3. CASE ~Acceptable(t)
    <3> DEFINE x == [driver[t] EXCEPT !.at = "returning", !.error = TRUE]
    <3>1. x \in Driving /\ x.run = r /\ x.job = driver[t].job /\ x.at = "returning"
      BY <1>4
    <3>2. driver' = [driver EXCEPT ![t] = x]
      BY <1>1, <1>5, <2>3 DEF BuildApproval, Fails
    <3> HIDE DEF x
    <3>3. QED
      BY <1>1, <1>3, <2>1, <3>1, <3>2, DriverMoved
  <2>4. QED
    BY <2>2, <2>3
<1>6. CASE ApplyApproval(t)
  <2>1. CASE run[r] = [status |-> "WAITING_APPROVAL", call |-> driver[t].call]
    <3>1. PICK s \in {"ADMITTED", "STOPPED"}, l \in {"loop", "returning"} :
            /\ run' = [run EXCEPT ![r].status = s]
            /\ driver' = [driver EXCEPT ![t].at = l]
      BY <1>6, <2>1 DEF ApplyApproval, Write, At
    <3> DEFINE x == [driver[t] EXCEPT !.at = l]
    <3>2. x \in Driving /\ x.run = r /\ x.job = driver[t].job /\ x.at = l
      BY <1>4
    <3>3. driver' = [driver EXCEPT ![t] = x]
      BY <1>1, <3>1
    <3> HIDE DEF x
    <3>4. run' \in [Runs -> [status : Statuses, call : 0..MaxCalls]] /\ RunsSound'
      BY <1>1, <1>2, <3>1 DEF RunsSound, Statuses
    <3>5. /\ decided' = decided \cup {<<driver[t].named, driver[t].call>>}
          /\ driver[t].call \in Call /\ driver[t].named \in {None, driver[t].call}
      BY <1>1, <1>6, <2>1 DEF ApplyApproval, DriverSound
    <3>6. decided' \subseteq (Call \cup {None}) \X Call /\ ApprovalDecidesNamedCall'
      BY <1>3, <3>5 DEF ApprovalDecidesNamedCall
    <3>7. QED
      BY <1>1, <3>2, <3>3, <3>4, <3>6, DriverMoved
  <2>2. CASE run[r] # [status |-> "WAITING_APPROVAL", call |-> driver[t].call]
    <3> DEFINE x == [driver[t] EXCEPT !.at = "returning", !.error = TRUE]
    <3>1. x \in Driving /\ x.run = r /\ x.job = driver[t].job /\ x.at = "returning"
      BY <1>4
    <3>2. driver' = [driver EXCEPT ![t] = x] /\ UNCHANGED <<run, decided>>
      BY <1>1, <1>6, <2>2 DEF ApplyApproval, Fails
    <3>3. RunsSound' /\ ApprovalDecidesNamedCall'
      BY <1>1, <1>3, <3>2 DEF RunsSound, ApprovalDecidesNamedCall
    <3> HIDE DEF x
    <3>4. QED
      BY <1>1, <1>3, <3>1, <3>2, <3>3, DriverMoved
  <2>3. QED
    BY <2>1, <2>2
<1>7. CASE Stay(t)
  <2> DEFINE x == [driver[t] EXCEPT !.at = "returning"]
  <2>1. x \in Driving /\ x.run = r /\ x.job = driver[t].job /\ x.at = "returning"
    BY <1>4
  <2>2. driver' = [driver EXCEPT ![t] = x] /\ UNCHANGED <<run, decided>>
    BY <1>1, <1>7 DEF Stay, At
  <2>3. RunsSound' /\ ApprovalDecidesNamedCall'
    BY <1>1, <1>3, <2>2 DEF RunsSound, ApprovalDecidesNamedCall
  <2> HIDE DEF x
  <2>4. QED
    BY <1>1, <1>3, <2>1, <2>2, <2>3, DriverMoved
<1>8. CASE Decide(t)
  <2>1. /\ driver[t].at = "loop" /\ driver' = [driver EXCEPT ![t] = driver[t]]
        /\ decided' = decided
    BY <1>1, <1>8 DEF Decide
  <2>2. PICK s \in {"STOPPED", "WAITING_APPROVAL", "ADMITTED"}, n \in 0..MaxCalls :
          /\ run' = [run EXCEPT ![r] = [status |-> s, call |-> n]]
          /\ s = "WAITING_APPROVAL" => n \in Call
    <3>1. CASE Write(t, "STOPPED")
      <4>1. run[r].call \in 0..MaxCalls
            /\ [run[r] EXCEPT !.status = "STOPPED"] = [status |-> "STOPPED", call |-> run[r].call]
        BY <1>2
      <4>2. run' = [run EXCEPT ![r] = [run[r] EXCEPT !.status = "STOPPED"]]
        BY <1>1, <1>2, <3>1 DEF Write
      <4>3. QED
        BY <4>1, <4>2
    <3>2. CASE ~Write(t, "STOPPED")
      <4>1. run[r].call + 1 \in Call /\ run[r].call + 1 \in 0..MaxCalls
        BY <1>2, <1>3, <1>8, <3>2 DEF Decide, Call
      <4>2. QED
        BY <1>8, <3>2, <4>1 DEF Decide
    <3>3. QED
      BY <3>1, <3>2
  <2>3. run' \in [Runs -> [status : Statuses, call : 0..MaxCalls]] /\ RunsSound'
    BY <1>1, <1>2, <2>2 DEF RunsSound, Statuses
  <2>4. ApprovalDecidesNamedCall'
    BY <1>3, <2>1 DEF ApprovalDecidesNamedCall
  <2>5. QED
    BY <1>1, <1>3, <2>1, <2>3, <2>4, DriverMoved
<1>9. CASE StartCall(t) \/ FinishCall(t)
  <2>1. PICK s \in {"INTERRUPTED", "ACTIVE"}, l \in {"executing", "loop"} :
          /\ run' = [run EXCEPT ![r].status = s]
          /\ driver' = [driver EXCEPT ![t].at = l]
          /\ decided' = decided
    BY <1>9 DEF StartCall, FinishCall, Write, At
  <2> DEFINE x == [driver[t] EXCEPT !.at = l]
  <2>2. x \in Driving /\ x.run = r /\ x.job = driver[t].job /\ x.at = l
    BY <1>4
  <2>3. driver' = [driver EXCEPT ![t] = x]
    BY <1>1, <2>1
  <2> HIDE DEF x
  <2>4. run' \in [Runs -> [status : Statuses, call : 0..MaxCalls]] /\ RunsSound'
    BY <1>1, <1>2, <2>1 DEF RunsSound, Statuses
  <2>5. ApprovalDecidesNamedCall'
    BY <1>3, <2>1 DEF ApprovalDecidesNamedCall
  <2>6. QED
    BY <1>1, <1>3, <2>1, <2>2, <2>3, <2>4, <2>5, DriverMoved
<1>10. QED
  BY <1>5, <1>6, <1>7, <1>8, <1>9

LEMMA ReturnStep ==
  ASSUME ServerInv, NEW t \in Threads, Return(t)
  PROVE  ServerInv'
<1>1. /\ TypeOK /\ driver[t] \in Driving /\ driver[t].at = "returning" /\ DriverSound(t)
      /\ driver \in [Threads -> Driving] /\ request \in [Requests -> Asking]
      /\ jobs \in [Runs -> Seq(Job)] /\ queue \in Seq(Runs \X (1..MaxJobs))
      /\ UNCHANGED <<run, queue, seen, decided, closed, kills>>
      /\ driver' = [driver EXCEPT ![t] = NotDriving]
  BY DEF ServerInv, TypeOK, Return
<1>2. /\ Workers \subseteq Threads /\ Requests \subseteq Threads /\ Workers \cap Requests = {}
      /\ Threads = Workers \cup Requests
  BY WebAssumption DEF Threads
<1>3. /\ driver' \in [Threads -> Driving] /\ driver'[t] = NotDriving
      /\ \A u \in Threads : u # t => driver'[u] = driver[u]
  BY <1>1, IdleTyped
<1>4. \A u \in Threads : DriverSound(u)'
  BY <1>3, IdleTyped DEF ServerInv, DriverSound
<1>5. OneWorkerPerRun'
  BY <1>2, <1>3, IdleTyped DEF ServerInv, OneWorkerPerRun
<1>6. RunsSound' /\ ApprovalDecidesNamedCall'
  BY <1>1 DEF ServerInv, RunsSound, ApprovalDecidesNamedCall
<1>7. CASE t \in Workers
  <2>1. PICK r \in Runs : r = driver[t].run
    BY <1>1 DEF DriverSound, Driving
  <2>2. PICK n \in DOMAIN jobs[r] : n = driver[t].job /\ jobs[r][n].state = "running"
    <3>1. r # None
      BY WebAssumption
    <3>2. QED
      BY <1>7, <2>1, <3>1 DEF ServerInv, WorkerSound
  <2> DEFINE job == [jobs[r][n] EXCEPT !.state = "done", !.error = driver[t].error]
  <2>3. jobs' = [jobs EXCEPT ![r] = [jobs[r] EXCEPT ![n] = job]] /\ request' = request
    <3>1. /\ jobs' = [jobs EXCEPT ![r][n].state = "done", ![r][n].error = driver[t].error]
          /\ request' = request
      BY <1>7, <2>1, <2>2 DEF Return
    <3>2. QED
      BY <1>1, <2>2, <3>1
  <2>4. job \in Job /\ job.state = "done"
    <3>1. jobs[r][n] \in Job /\ driver[t].error \in BOOLEAN
      BY <1>1, <2>2 DEF Driving
    <3>2. QED
      BY <3>1 DEF Job
  <2> HIDE DEF job
  <2>5. /\ jobs' \in [Runs -> Seq(Job)]
        /\ \A s \in Runs : Len(jobs'[s]) = Len(jobs[s]) /\ DOMAIN jobs'[s] = DOMAIN jobs[s]
        /\ jobs'[r][n] = job
        /\ \A s \in Runs : \A m \in DOMAIN jobs[s] :
             s # r \/ m # n => jobs'[s][m] = jobs[s][m]
    BY <1>1, <2>3, <2>4, JobChanged
  <2>6. FutureBooks'
    <3>1. \A i \in DOMAIN queue :
            /\ queue[i] \in Runs \X (1..MaxJobs)
            /\ queue[i][1] \in Runs /\ queue[i][2] \in DOMAIN jobs[queue[i][1]]
            /\ jobs[queue[i][1]][queue[i][2]].state = "queued"
      BY <1>1 DEF ServerInv, FutureBooks
    <3>2. \A i \in DOMAIN queue : /\ queue[i][2] \in DOMAIN jobs'[queue[i][1]]
                                  /\ jobs'[queue[i][1]][queue[i][2]].state = "queued"
      BY <2>2, <2>5, <3>1
    <3>3. \A s \in Runs : Len(jobs'[s]) <= MaxJobs
      BY <2>5 DEF ServerInv, FutureBooks
    <3>4. \A s \in Runs : \A m \in DOMAIN jobs'[s] :
            jobs'[s][m].state # "done" => m = Len(jobs'[s])
      BY <2>4, <2>5 DEF ServerInv, FutureBooks
    <3>5. QED
      BY <1>1, <3>2, <3>3, <3>4 DEF ServerInv, FutureBooks
  <2>7. \A v \in Workers : WorkerSound(v)'
    <3> SUFFICES ASSUME NEW v \in Workers, driver'[v].run # None
                 PROVE  /\ driver'[v].job \in DOMAIN jobs'[driver'[v].run]
                        /\ jobs'[driver'[v].run][driver'[v].job].state = "running"
      BY DEF WorkerSound
    <3>1. v # t /\ driver'[v] = driver[v]
      BY <1>2, <1>3, IdleTyped
    <3>2. driver[v].run \in Runs /\ driver[v].run # r
      BY <1>1, <1>2, <1>7, <2>1, <3>1 DEF Driving, ServerInv, OneWorkerPerRun
    <3>3. QED
      BY <2>5, <3>1, <3>2 DEF ServerInv, WorkerSound
  <2>8. TypeOK'
    BY <1>1, <1>3, <2>3, <2>5 DEF TypeOK
  <2>9. \A q \in Requests : RequestSound(q)'
    BY <1>2, <1>3, <1>7, <2>3 DEF ServerInv, RequestSound
  <2>10. QED
    BY <1>4, <1>5, <1>6, <2>6, <2>7, <2>8, <2>9 DEF ServerInv
<1>8. CASE t \notin Workers
  <2>1. jobs' = jobs /\ request' = [request EXCEPT ![t].at = "looking"] /\ t \in Requests
    BY <1>2, <1>8 DEF Return
  <2>2. FutureBooks' /\ \A w \in Workers : WorkerSound(w)'
    BY <1>1, <1>2, <1>3, <1>8, <2>1, BooksKept
  <2>3. request' \in [Requests -> Asking] /\ request'[t].run \in Runs
    BY <1>1, <2>1 DEF Asking, ServerInv, RequestSound
  <2>4. TypeOK'
    BY <1>1, <1>3, <2>1, <2>3 DEF TypeOK
  <2>5. \A q \in Requests : RequestSound(q)'
    BY <1>1, <1>2, <1>3, <2>1, <2>3, IdleTyped DEF ServerInv, RequestSound
  <2>6. QED
    BY <1>4, <1>5, <1>6, <2>2, <2>4, <2>5 DEF ServerInv
<1>9. QED
  BY <1>7, <1>8

LEMMA CloseStep == ASSUME ServerInv, Close PROVE ServerInv'
<1>0. \A r \in Runs : /\ jobs[r] \in Seq(Job)
                      /\ DOMAIN jobs[r] = 1..Len(jobs[r]) /\ Len(jobs[r]) \in Nat
                      /\ \A n \in DOMAIN jobs[r] : jobs[r][n] \in Job
  <2>1. \A r \in Runs : jobs[r] \in Seq(Job)
    BY DEF ServerInv, TypeOK
  <2>2. QED
    BY <2>1
<1> DEFINE Cancelled(r, n) ==
             IF <<r, n>> \in ToSet(queue)
             THEN [jobs[r][n] EXCEPT !.state = "done", !.error = TRUE]
             ELSE jobs[r][n]
<1>1. /\ TypeOK /\ queue' = <<>> /\ closed' = TRUE
      /\ jobs \in [Runs -> Seq(Job)]
      /\ jobs' = [r \in Runs |-> [n \in DOMAIN jobs[r] |-> Cancelled(r, n)]]
      /\ UNCHANGED <<run, driver, request, seen, decided, kills>>
  BY DEF ServerInv, TypeOK, Close
<1>2. ASSUME NEW r \in Runs, NEW n \in DOMAIN jobs[r]
      PROVE  /\ Cancelled(r, n) \in Job
             /\ Cancelled(r, n).state # "done" => jobs[r][n].state # "done"
             /\ jobs[r][n].state = "running" => Cancelled(r, n).state = "running"
  <2>1. jobs[r][n] \in Job
    BY <1>0
  <2>2. <<r, n>> \in ToSet(queue) => jobs[r][n].state = "queued"
    BY DEF ToSet, ServerInv, FutureBooks
  <2>3. CASE <<r, n>> \in ToSet(queue)
    BY <2>1, <2>2, <2>3 DEF Job
  <2>4. CASE <<r, n>> \notin ToSet(queue)
    BY <2>1, <2>4
  <2>5. QED
    BY <2>3, <2>4
<1>3. ASSUME NEW r \in Runs
      PROVE  /\ jobs'[r] \in Seq(Job) /\ Len(jobs'[r]) = Len(jobs[r])
             /\ DOMAIN jobs'[r] = DOMAIN jobs[r]
             /\ \A n \in DOMAIN jobs[r] : jobs'[r][n] = Cancelled(r, n)
  <2>1. jobs'[r] = [n \in DOMAIN jobs[r] |-> Cancelled(r, n)]
    BY <1>1
  <2>2. DOMAIN jobs[r] = 1..Len(jobs[r]) /\ Len(jobs[r]) \in Nat
    BY <1>0
  <2>3. \A n \in DOMAIN jobs[r] : Cancelled(r, n) \in Job
    BY <1>2
  <2> HIDE DEF Cancelled
  <2>4. QED
    BY <2>1, <2>2, <2>3
<1> HIDE DEF Cancelled
<1>4. jobs' \in [Runs -> Seq(Job)]
  <2>1. jobs' = [r \in Runs |-> jobs'[r]]
    BY <1>1
  <2>2. QED
    BY <1>3, <2>1
<1>5. TypeOK'
  BY <1>1, <1>4 DEF TypeOK
<1>6. FutureBooks'
  <2>1. \A r \in Runs : Len(jobs'[r]) <= MaxJobs
    BY <1>3 DEF ServerInv, FutureBooks
  <2>2. \A r \in Runs : \A n \in DOMAIN jobs'[r] :
          jobs'[r][n].state # "done" => n = Len(jobs'[r])
    BY <1>2, <1>3 DEF ServerInv, FutureBooks
  <2>3. QED
    BY <1>1, <2>1, <2>2 DEF FutureBooks
<1>7. \A w \in Workers : WorkerSound(w)'
  <2>1. \A w \in Workers : driver[w].run \in Runs \cup {None}
    BY <1>1 DEF TypeOK, Driving, Threads
  <2>2. QED
    BY <1>1, <1>2, <1>3, <2>1 DEF ServerInv, WorkerSound
<1>8. /\ RunsSound' /\ ApprovalDecidesNamedCall' /\ OneWorkerPerRun'
      /\ \A t \in Threads : DriverSound(t)'
      /\ \A q \in Requests : RequestSound(q)'
  BY <1>1 DEF ServerInv, RunsSound, ApprovalDecidesNamedCall, OneWorkerPerRun, DriverSound,
              RequestSound
<1>9. QED
  BY <1>5, <1>6, <1>7, <1>8 DEF ServerInv

LEMMA KillStep == ASSUME ServerInv, Kill PROVE ServerInv'
<1>1. /\ TypeOK /\ UNCHANGED <<run, seen, decided>> /\ closed' = FALSE
      /\ kills \in Nat /\ kills < MaxKills /\ kills' = kills + 1
      /\ jobs' = [r \in Runs |-> <<>>] /\ queue' = <<>>
      /\ driver' = [t \in Threads |-> NotDriving]
      /\ request' = [q \in Requests |-> NotAsking]
  BY WebAssumption DEF ServerInv, TypeOK, Kill
<1>2. MaxJobs \in Nat /\ MaxKills \in Nat
  BY WebAssumption
<1>3. jobs' \in [Runs -> Seq(Job)] /\ queue' \in Seq(Runs \X (1..MaxJobs))
  BY <1>1
<1>4. driver' \in [Threads -> Driving] /\ request' \in [Requests -> Asking]
  BY <1>1, IdleTyped
<1>5. TypeOK'
  <2>1. kills' \in 0..MaxKills /\ closed' \in BOOLEAN
    <3>1. kills + 1 \in 0..MaxKills
      BY <1>1, <1>2
    <3>2. QED
      BY <1>1, <3>1
  <2>2. /\ run' \in [Runs -> [status : Statuses, call : 0..MaxCalls]]
        /\ seen' \in [Runs -> SUBSET Call] /\ decided' \subseteq (Call \cup {None}) \X Call
    BY <1>1 DEF TypeOK
  <2>3. QED
    BY <1>3, <1>4, <2>1, <2>2 DEF TypeOK
<1>6. FutureBooks'
  BY <1>1, <1>2 DEF FutureBooks
<1>7. /\ OneWorkerPerRun' /\ RunsSound' /\ ApprovalDecidesNamedCall'
  BY <1>1, IdleTyped DEF ServerInv, RunsSound, OneWorkerPerRun, ApprovalDecidesNamedCall, Threads
<1>8. /\ \A t \in Threads : DriverSound(t)'
      /\ \A w \in Workers : WorkerSound(w)'
      /\ \A q \in Requests : RequestSound(q)'
  BY <1>1, IdleTyped DEF DriverSound, WorkerSound, RequestSound, Threads
<1>9. QED
  BY <1>5, <1>6, <1>7, <1>8 DEF ServerInv

LEMMA NextServer == ServerInv /\ [Next]_vars => ServerInv'
<1> SUFFICES ASSUME ServerInv, [Next]_vars PROVE ServerInv'
  OBVIOUS
<1>1. CASE Next
  BY <1>1, SubmitStep, RequestsStep, StartStep, TakeStep, InsideStep, ReturnStep, CloseStep, KillStep
     DEF Next, DriverStep
<1>2. CASE UNCHANGED vars
  <2>1. FutureBooks' /\ OneWorkerPerRun' /\ \A w \in Workers : WorkerSound(w)'
    BY <1>2, BooksKept DEF vars
  <2>2. TypeOK'
    BY <1>2 DEF vars, ServerInv, TypeOK
  <2>3. /\ RunsSound' /\ ApprovalDecidesNamedCall'
        /\ \A t \in Threads : DriverSound(t)'
        /\ \A q \in Requests : RequestSound(q)'
    BY <1>2 DEF vars, ServerInv, RunsSound, ApprovalDecidesNamedCall, DriverSound, RequestSound
  <2>4. QED
    BY <2>1, <2>2, <2>3 DEF ServerInv
<1>3. QED
  BY <1>1, <1>2

LEMMA ServerHolds == Spec => []ServerInv
<1>1. QED
  BY InitServer, NextServer, PTL DEF Spec

-----------------------------------------------------------------------------

\* However requests, workers, a closing server and its death interleave, no two
\* workers drive the same run (_submit_background, _future_lock).
THEOREM WorkersKeepApart == Spec => []WorkersSound
<1>1. ServerInv => WorkersSound
  BY DEF ServerInv, WorkersSound
<1>2. QED
  BY <1>1, ServerHolds, PTL

\* An approval that was given for one call never decides another, however late the
\* worker applies it (record_approval, _approve_run).
THEOREM ApprovalsStayBound == Spec => []ApprovalDecidesNamedCall
<1>1. ServerInv => ApprovalDecidesNamedCall
  BY DEF ServerInv
<1>2. QED
  BY <1>1, ServerHolds, PTL

=============================================================================
