------------------------------- MODULE WebRuns -------------------------------
(***************************************************************************)
(* web/app.py: the threads of the local server around one set of runs.     *)
(* Requests start runs (and drive them in the request thread), submit      *)
(* resumes and approvals to a pool of workers with at most one unfinished  *)
(* future per run, and show runs from three looks at shared state that no  *)
(* lock holds together.                                                    *)
(*                                                                         *)
(* A driver is a thread inside RuntimeService.start_run, resume_run or     *)
(* record_approval.  Its loop is AgentLoop's, taken one ledger event at a  *)
(* time; all runs here are of the workflow kind, the only kind with        *)
(* futures.                                                                *)
(***************************************************************************)
EXTENDS Naturals, Sequences, FiniteSets, SequencesExt

CONSTANTS
  Runs,
  Requests,    \* threads of the ThreadingHTTPServer
  Workers,     \* threads of the executor
  MaxCalls,    \* bound: tool calls of one run
  MaxJobs,     \* bound: submissions for one run in the life of the server
  MaxKills,    \* bound: deaths of the server process
  None

ASSUME WebAssumption ==
  /\ MaxCalls \in Nat \ {0} /\ MaxJobs \in Nat \ {0} /\ MaxKills \in Nat
  /\ None \notin Runs \cup Nat
  /\ Requests \cap Workers = {}

VARIABLES
  run,      \* what the ledger says of each run
  jobs,     \* every future of a run, oldest first; _futures holds the last
  queue,    \* the executor's queue of <<run, index of its job>>
  driver,   \* what each thread is doing inside RuntimeService
  request,  \* the local variables of each request
  seen,     \* history: calls a reply has shown as waiting for approval
  decided,  \* history: <<call the approval named, call it decided>>
  closed,   \* close() was called
  kills

vars == <<run, jobs, queue, driver, request, seen, decided, closed, kills>>

-----------------------------------------------------------------------------

Threads == Workers \cup Requests
Statuses == {"NEW", "ACTIVE", "ADMITTED", "WAITING_APPROVAL", "INTERRUPTED", "STOPPED"}
Call == 1..MaxCalls

\* ADMITTED is an ACTIVE run whose last call may be executed.
Job == [approves : BOOLEAN, named : Call \cup {None}, state : {"queued", "running", "done"},
        error : BOOLEAN]

Driving == [run : Runs \cup {None}, job : 0..MaxJobs, named : Call \cup {None}, call : 0..MaxCalls,
            at : {"idle", "begin", "deciding", "loop", "executing", "returning"}, error : BOOLEAN]
NotDriving == [run |-> None, job |-> 0, named |-> None, call |-> 0, at |-> "idle", error |-> FALSE]

Asking == [run : Runs \cup {None}, approves : BOOLEAN, named : Call \cup {None}, future : 0..MaxJobs,
           status : Statuses, pending : BOOLEAN,
           at : {"idle", "submitting", "driving", "looking", "inspecting", "checking", "left"}]
NotAsking == [run |-> None, approves |-> FALSE, named |-> None, future |-> 0, status |-> "NEW",
              pending |-> FALSE, at |-> "idle"]

Init ==
  /\ run = [r \in Runs |-> [status |-> "NEW", call |-> 0]]
  /\ jobs = [r \in Runs |-> <<>>] /\ queue = <<>>
  /\ driver = [t \in Threads |-> NotDriving]
  /\ request = [q \in Requests |-> NotAsking]
  /\ seen = [r \in Runs |-> {}] /\ decided = {}
  /\ closed = FALSE /\ kills = 0

Pending(r, n) == n # 0 /\ jobs[r][n].state # "done"

-----------------------------------------------------------------------------
(* Requests *)

\* RuntimeService.start_run: a new id, and the loop in this very thread.
BeginStart(q, r) ==
  /\ request[q].at = "idle"
  /\ run[r].status = "NEW"
  /\ run' = [run EXCEPT ![r].status = "ACTIVE"]
  /\ driver' = [driver EXCEPT ![q] = [NotDriving EXCEPT !.run = r, !.at = "loop"]]
  /\ request' = [request EXCEPT ![q] = [NotAsking EXCEPT !.run = r, !.at = "driving"]]
  /\ UNCHANGED <<jobs, queue, seen, decided, closed, kills>>

Ask(q, r, approves, named, where) ==
  /\ request[q].at = "idle"
  /\ run[r].status # "NEW"
  /\ request' = [request EXCEPT ![q] =
       [NotAsking EXCEPT !.run = r, !.approves = approves, !.named = named, !.at = where]]
  /\ UNCHANGED <<run, jobs, queue, driver, seen, decided, closed, kills>>

BeginDetail(q, r) == Ask(q, r, FALSE, None, "looking")
BeginResume(q, r) == Ask(q, r, FALSE, None, "submitting")
\* The page names the call it showed; the interface allows not to.
BeginApprove(q, r) == \E c \in seen[r] \cup {None} : Ask(q, r, TRUE, c, "submitting")

Enqueue(q, r) ==
  /\ jobs' = [jobs EXCEPT ![r] = Append(@, [approves |-> request[q].approves,
                named |-> request[q].named, state |-> "queued", error |-> FALSE])]
  /\ queue' = Append(queue, <<r, Len(jobs[r]) + 1>>)

Bug_FutureUnchecked(q) ==
  /\ request[q].at = "submitting"
  /\ Len(jobs[request[q].run]) < MaxJobs
  /\ Enqueue(q, request[q].run)
  /\ request' = [request EXCEPT ![q].at = "looking"]
  /\ UNCHANGED <<run, driver, seen, decided, closed, kills>>

\* _submit_background, under _future_lock: dropped while a future is unfinished.
Submit(q) ==
  /\ request[q].at = "submitting"
  /\ LET r == request[q].run
     IN IF Pending(r, Len(jobs[r]))
        THEN request' = [request EXCEPT ![q].at = "looking"] /\ UNCHANGED <<jobs, queue>>
        ELSE IF closed
             THEN request' = [request EXCEPT ![q] = NotAsking] /\ UNCHANGED <<jobs, queue>>
             ELSE /\ Len(jobs[r]) < MaxJobs
                  /\ Enqueue(q, r)
                  /\ request' = [request EXCEPT ![q].at = "looking"]
  /\ UNCHANGED <<run, driver, seen, decided, closed, kills>>

\* _run_detail: take the future, project the ledger, ask the future again.
Look(q) ==
  /\ request[q].at = "looking"
  /\ request' = [request EXCEPT ![q].future = Len(jobs[request[q].run]), ![q].at = "inspecting"]
  /\ UNCHANGED <<run, jobs, queue, driver, seen, decided, closed, kills>>

Inspect(q) ==
  /\ request[q].at = "inspecting"
  /\ LET r == request[q].run
     IN /\ request' = [request EXCEPT ![q].status = run[r].status, ![q].at = "checking"]
        /\ seen' = IF run[r].status = "WAITING_APPROVAL"
                   THEN [seen EXCEPT ![r] = @ \cup {run[r].call}] ELSE seen
  /\ UNCHANGED <<run, jobs, queue, driver, decided, closed, kills>>

Check(q) ==
  /\ request[q].at = "checking"
  /\ request' = [request EXCEPT ![q].pending = Pending(request[q].run, request[q].future),
                                ![q].at = "left"]
  /\ UNCHANGED <<run, jobs, queue, driver, seen, decided, closed, kills>>

Reply(q) ==
  /\ request[q].at = "left"
  /\ request' = [request EXCEPT ![q] = NotAsking]
  /\ UNCHANGED <<run, jobs, queue, driver, seen, decided, closed, kills>>

-----------------------------------------------------------------------------
(* Drivers *)

Take(w) ==
  /\ driver[w].at = "idle"
  /\ queue # <<>>
  /\ LET r == Head(queue)[1]
         n == Head(queue)[2]
     IN /\ jobs' = [jobs EXCEPT ![r][n].state = "running"]
        /\ driver' = [driver EXCEPT ![w] = [NotDriving EXCEPT !.run = r, !.job = n,
             !.named = jobs[r][n].named,
             !.at = IF jobs[r][n].approves THEN "begin" ELSE "loop"]]
  /\ queue' = Tail(queue)
  /\ UNCHANGED <<run, request, seen, decided, closed, kills>>

At(t, where) == driver' = [driver EXCEPT ![t].at = where]
Fails(t) == driver' = [driver EXCEPT ![t].at = "returning", ![t].error = TRUE]
Write(t, status) == run' = [run EXCEPT ![driver[t].run].status = status]

Bug_AnyPendingCall(t) == run[driver[t].run].status = "WAITING_APPROVAL"

\* record_approval accepts the one pending call, if it is the one named.
Acceptable(t) ==
  /\ run[driver[t].run].status = "WAITING_APPROVAL"
  /\ driver[t].named \in {None, run[driver[t].run].call}

BuildApproval(t) ==
  /\ driver[t].at = "begin"
  /\ IF Acceptable(t)
     THEN driver' = [driver EXCEPT ![t].at = "deciding", ![t].call = run[driver[t].run].call]
     ELSE Fails(t)
  /\ UNCHANGED <<run, jobs, queue, request, seen, decided, closed, kills>>

\* The loop finds the run waiting for that very call, and records the decision.
ApplyApproval(t) ==
  /\ driver[t].at = "deciding"
  /\ IF run[driver[t].run] = [status |-> "WAITING_APPROVAL", call |-> driver[t].call]
     THEN /\ decided' = decided \cup {<<driver[t].named, driver[t].call>>}
          /\ \/ Write(t, "ADMITTED") /\ At(t, "loop")
             \/ Write(t, "STOPPED") /\ At(t, "returning")
     ELSE Fails(t) /\ UNCHANGED <<run, decided>>
  /\ UNCHANGED <<jobs, queue, request, seen, closed, kills>>

\* The loop leaves a run alone that waits, was interrupted or has ended ...
Stay(t) ==
  /\ driver[t].at = "loop"
  /\ run[driver[t].run].status \in {"WAITING_APPROVAL", "INTERRUPTED", "STOPPED"}
  /\ At(t, "returning")
  /\ UNCHANGED <<run, jobs, queue, request, seen, decided, closed, kills>>

\* ... asks the provider for an active one ...
Decide(t) ==
  /\ driver[t].at = "loop"
  /\ run[driver[t].run].status = "ACTIVE"
  /\ LET r == driver[t].run
     IN \/ Write(t, "STOPPED")
        \/ /\ run[r].call < MaxCalls
           /\ \E s \in {"WAITING_APPROVAL", "ADMITTED"} :
                run' = [run EXCEPT ![r] = [status |-> s, call |-> run[r].call + 1]]
  /\ UNCHANGED <<driver, jobs, queue, request, seen, decided, closed, kills>>

\* ... and executes an admitted call, during which the ledger shows a start
\* without an end.
StartCall(t) ==
  /\ driver[t].at = "loop"
  /\ run[driver[t].run].status = "ADMITTED"
  /\ Write(t, "INTERRUPTED")
  /\ At(t, "executing")
  /\ UNCHANGED <<jobs, queue, request, seen, decided, closed, kills>>

FinishCall(t) ==
  /\ driver[t].at = "executing"
  /\ Write(t, "ACTIVE")
  /\ At(t, "loop")
  /\ UNCHANGED <<jobs, queue, request, seen, decided, closed, kills>>

Return(t) ==
  /\ driver[t].at = "returning"
  /\ driver' = [driver EXCEPT ![t] = NotDriving]
  /\ IF t \in Workers
     THEN /\ jobs' = [jobs EXCEPT ![driver[t].run][driver[t].job].state = "done",
                                  ![driver[t].run][driver[t].job].error = driver[t].error]
          /\ UNCHANGED request
     ELSE request' = [request EXCEPT ![t].at = "looking"] /\ UNCHANGED jobs
  /\ UNCHANGED <<run, queue, seen, decided, closed, kills>>

-----------------------------------------------------------------------------
(* The server *)

Bug_QueueDropped ==
  /\ ~closed
  /\ closed' = TRUE
  /\ queue' = <<>>
  /\ UNCHANGED <<run, jobs, driver, request, seen, decided, kills>>

\* close(): running operations go on, queued ones are cancelled.
Close ==
  /\ ~closed
  /\ closed' = TRUE
  /\ queue' = <<>>
  /\ jobs' = [r \in Runs |-> [n \in DOMAIN jobs[r] |->
                IF <<r, n>> \in ToSet(queue) THEN [jobs[r][n] EXCEPT !.state = "done", !.error = TRUE]
                ELSE jobs[r][n]]]
  /\ UNCHANGED <<run, driver, request, seen, decided, kills>>

\* The process dies and a new one is started on the same state root.
Kill ==
  /\ kills < MaxKills
  /\ kills' = kills + 1
  /\ jobs' = [r \in Runs |-> <<>>] /\ queue' = <<>>
  /\ driver' = [t \in Threads |-> NotDriving]
  /\ request' = [q \in Requests |-> NotAsking]
  /\ closed' = FALSE
  /\ UNCHANGED <<run, seen, decided>>

DriverStep(t) ==
  \/ BuildApproval(t) \/ ApplyApproval(t) \/ Stay(t) \/ Decide(t)
  \/ StartCall(t) \/ FinishCall(t) \/ Return(t)

Next ==
  \/ \E q \in Requests :
       \/ Submit(q) \/ Look(q) \/ Inspect(q) \/ Check(q) \/ Reply(q)
       \/ \E r \in Runs : BeginStart(q, r) \/ BeginDetail(q, r) \/ BeginResume(q, r) \/ BeginApprove(q, r)
  \/ \E w \in Workers : Take(w)
  \/ \E t \in Threads : DriverStep(t)
  \/ Close \/ Kill

Spec == Init /\ [][Next]_vars

\* A worker that has something to do does it, and every tool call ends.
FairSpec == Spec /\ \A w \in Workers : WF_vars(Take(w) \/ DriverStep(w))

-----------------------------------------------------------------------------
(* Properties *)

\* Type invariant of the runs as the ledger has them, the futures and the threads.
TypeOK ==
  /\ run \in [Runs -> [status : Statuses, call : 0..MaxCalls]]
  /\ jobs \in [Runs -> Seq(Job)]
  /\ queue \in Seq(Runs \X (1..MaxJobs))
  /\ driver \in [Threads -> Driving]
  /\ request \in [Requests -> Asking]
  /\ seen \in [Runs -> SUBSET Call]
  /\ decided \subseteq (Call \cup {None}) \X Call
  /\ closed \in BOOLEAN
  /\ kills \in 0..MaxKills

\* However requests interleave, no two workers ever drive the same run: this is
\* what AgentLoop's safety rests on (_submit_background).  A run's own starting
\* request is outside this guard.
OneWorkerPerRun ==
  \A v, w \in Workers : v # w /\ driver[v].run # None => driver[v].run # driver[w].run

\* The server's book-keeping of futures is consistent with its worker threads.
WorkersSound == TypeOK /\ OneWorkerPerRun

\* An approval that names a call never decides another one, although it is
\* applied later by another thread, when the run may have moved on
\* (record_approval, _approve_run).
ApprovalDecidesNamedCall == \A d \in decided : d[1] \in {None, d[2]}

\* A page that polls while background_pending is set does not poll for ever:
\* each future is finished, cancelled or gone with its server (close).
FuturesSettle ==
  \A r \in Runs, n \in 1..MaxJobs :
    (n <= Len(jobs[r]) /\ Pending(r, n)) ~> (n > Len(jobs[r]) \/ ~Pending(r, n))

\* Expected to fail.  "Join a completed worker before projecting the ledger.
\* This closes the small race where the future is marked done just after
\* inspection read a transient INTERRUPTED state" (app.py:613): as long as the
\* server lives, a reply shows a run with a future as interrupted only while that
\* future is pending.
TransientNotShown ==
  kills = 0 /\ ~closed => \A q \in Requests :
    request[q].at = "left" /\ request[q].future # 0 /\ request[q].status = "INTERRUPTED" =>
      request[q].pending

=============================================================================
