------------------------------ MODULE AgentLoop ------------------------------
(***************************************************************************)
(* core/agent_loop.py: AgentLoop.run() driving ONE run against the shared  *)
(* append-only RunLedger, the ArtifactStore and the ArtifactLineage.       *)
(*                                                                         *)
(* A driver is a thread or process inside run(): the web server's request  *)
(* threads and background workers, or a CLI process.  Every ledger append  *)
(* and every ledger read is one atomic step (an append holds the file lock *)
(* and re-reads the file); everything a driver holds between two steps is  *)
(* volatile and is lost by Crash.  The decision provider, the tool         *)
(* executors and the operator are the environment.                         *)
(*                                                                         *)
(* A materialized call is named by the position of its                     *)
(* TOOL_CALL_MATERIALIZED event: the server draws fresh ids, and a         *)
(* position in an append-only log is fresh.                                *)
(*                                                                         *)
(* An operator named Bug_... is the definition below it with one mistake   *)
(* in it; nothing uses it.  It records a change of the code that the       *)
(* properties of the runs must notice.                                     *)
(***************************************************************************)
EXTENDS Naturals, Sequences, FiniteSets

CONSTANTS
  Drivers,        \* threads and processes that may call run() for this run
  Requests,       \* RunRequests carrying this run_id, one per request digest
  Tools,          \* tool names a provider may propose
  AllowedTools,   \* those the registry knows and the ToolPolicy allows
  ApprovalTools,  \* those ToolPolicy.requires_approval holds for
  Artifacts,      \* content identities
  InitialInputs,  \* RunRequest.input_artifact_ids, published beforehand
  ApprovalIds,    \* distinguishes two ApprovalRecords for the same call
  MaxDecisions, MaxToolCalls, MaxSteps,   \* SERVER_RUN_HARD_LIMITS
  MaxDrafts,      \* bound: drafts in one ToolResult
  MaxCrashes,     \* bound: driver deaths in one behaviour
  None

ASSUME LimitsAssumption ==
  /\ MaxDecisions \in Nat \ {0}
  /\ MaxToolCalls \in Nat \ {0}
  /\ MaxSteps \in Nat \ {0}
  /\ MaxDrafts \in Nat
  /\ MaxCrashes \in Nat

ASSUME SetsAssumption ==
  /\ AllowedTools \subseteq Tools
  /\ ApprovalTools \subseteq Tools
  /\ InitialInputs \subseteq Artifacts
  /\ None \notin Requests \cup Tools

VARIABLES
  ledger,    \* the run's events in append order
  store,     \* artifacts whose object and metadata are published
  lineage,   \* persisted provenance relations
  effects,   \* history: the call of every executor invocation, in order
  crashes,   \* driver deaths so far
  pc,        \* where each driver is inside run()
  loc        \* each driver's local variables

durable == <<ledger, store, lineage>>
vars == <<ledger, store, lineage, effects, crashes, pc, loc>>

-----------------------------------------------------------------------------
(* Values *)

RunTerminals == {"RUN_STOPPED", "RUN_REJECTED", "BUDGET_EXHAUSTED"}

Action == [kind : {"stop", "review", "call"},
           tool : Tools \cup {None},
           inputs : SUBSET Artifacts]
ProviderActions ==
  {[kind |-> k, tool |-> None, inputs |-> {}] : k \in {"stop", "review"}}
    \cup {[kind |-> "call", tool |-> t, inputs |-> ins] : t \in Tools, ins \in SUBSET Artifacts}

Call == [tool : Tools, inputs : SUBSET Artifacts]
ApprovalRecord == [call : Nat, decision : {"APPROVED", "REJECTED"}, id : ApprovalIds]

Drafts == UNION {[1..n -> Artifacts] : n \in 0..MaxDrafts}
Contents(s) == {s[i] : i \in DOMAIN s}

\* One ledger event: its type, the call it is about (0 for none), its payload.
Event ==
  [type : {"RUN_STARTED"}, call : {0}, data : Requests]
    \cup [type : {"DECISION_RECORDED"}, call : {0}, data : Action]
    \cup [type : {"TOOL_CALL_MATERIALIZED"}, call : Nat, data : Call]
    \cup [type : {"APPROVAL_RECORDED"}, call : Nat, data : ApprovalRecord]
    \cup [type : {"TOOL_EXECUTION_SUCCEEDED"}, call : Nat, data : Drafts]
    \cup [type : {"APPROVAL_REQUIRED", "TOOL_CALL_REJECTED", "TOOL_EXECUTION_STARTED",
                  "TOOL_EXECUTION_FAILED", "REVIEW_REQUESTED"} \cup RunTerminals,
          call : Nat, data : {None}]
Ev(type, call, data) == [type |-> type, call |-> call, data |-> data]

PCs == {"idle", "initialize", "start_run", "reconcile", "top",
        "record_approval", "reject_call", "reject_run",
        "check_exhausted", "exhaust", "decide", "stop", "review", "materialize",
        "require_approval", "start_call", "execute", "put", "succeed", "fail",
        "project"}

Locals == [request : Requests \cup {None},
           approval : ApprovalRecord \cup {None},
           resume : BOOLEAN,     \* approval_resume
           ret : BOOLEAN,        \* run() returns after the current execution
           snap : Nat,           \* the ledger's length at the read still in use
           call : Nat,           \* the call in hand, 0 for none
           proposal : Action \cup {None},
           outs : Drafts]
NoLocals == [request |-> None, approval |-> None, resume |-> FALSE, ret |-> FALSE,
             snap |-> 0, call |-> 0, proposal |-> None, outs |-> <<>>]

-----------------------------------------------------------------------------
(* The projection of the ledger (_project, _counts, _visible_artifacts) *)

OfType(type) == {i \in DOMAIN ledger : ledger[i].type = type}
Where(type, c) == {i \in OfType(type) : ledger[i].call = c}
Has(type, c) == Where(type, c) # {}
AtMostOne(S) == \A x, y \in S : x = y

Calls == OfType("TOOL_CALL_MATERIALIZED")
Required(c) == Has("APPROVAL_REQUIRED", c)
Decided(c, decision) ==
  \E i \in Where("APPROVAL_RECORDED", c) : ledger[i].data.decision = decision
Bug_StartedOnceFinished(c) ==
  Has("TOOL_EXECUTION_SUCCEEDED", c) \/ Has("TOOL_EXECUTION_FAILED", c)
Started(c) == Has("TOOL_EXECUTION_STARTED", c)
Finished(c) == Where("TOOL_EXECUTION_SUCCEEDED", c) \cup Where("TOOL_EXECUTION_FAILED", c)
Resolved(c) ==
  IF Decided(c, "REJECTED") THEN Has("TOOL_CALL_REJECTED", c) ELSE Finished(c) # {}

Bug_RecordedStillPending ==
  {c \in Calls : ~Resolved(c) /\ ~Started(c) /\ Required(c)}
PendingApproval ==
  {c \in Calls : ~Resolved(c) /\ ~Started(c) /\ Required(c) /\ ~Has("APPROVAL_RECORDED", c)}
Bug_AnyRecordExecutes ==
  {c \in Calls : ~Resolved(c) /\ ~Started(c) /\ (Required(c) => Has("APPROVAL_RECORDED", c))}
PendingExecution ==
  {c \in Calls : ~Resolved(c) /\ ~Started(c) /\ (Required(c) => Decided(c, "APPROVED"))}
Interrupted == \E c \in Calls : Started(c) /\ ~Resolved(c)
LastType == IF ledger = <<>> THEN "NONE" ELSE ledger[Len(ledger)].type
Terminal == \E i \in DOMAIN ledger : ledger[i].type \in RunTerminals
WaitingReview ==
  /\ OfType("REVIEW_REQUESTED") # {}
  /\ Calls = {} \/ LastType = "REVIEW_REQUESTED"

\* _project raises RunStateError on a ledger without this.
Projectable ==
  /\ \A c \in Calls :
       /\ AtMostOne(Where("APPROVAL_RECORDED", c))
       /\ AtMostOne(Where("TOOL_CALL_REJECTED", c))
       /\ AtMostOne(Where("TOOL_EXECUTION_STARTED", c))
       /\ AtMostOne(Finished(c))
       /\ \A i \in Where("APPROVAL_RECORDED", c) : ledger[i].data.call = c
       /\ Required(c) /\ Has("TOOL_CALL_REJECTED", c) => Has("APPROVAL_RECORDED", c)
  /\ Terminal => LastType \in RunTerminals
  /\ AtMostOne(PendingApproval \cup PendingExecution)

Decisions == Cardinality(OfType("DECISION_RECORDED"))
ToolCalls == Cardinality(Calls)
Steps == ToolCalls     \* every materialization draws a step_id of its own
Bug_LimitOffByOne == Decisions > MaxDecisions \/ ToolCalls > MaxToolCalls \/ Steps > MaxSteps
LimitReached == Decisions >= MaxDecisions \/ ToolCalls >= MaxToolCalls \/ Steps >= MaxSteps
LimitExceeded == Decisions > MaxDecisions \/ ToolCalls > MaxToolCalls \/ Steps > MaxSteps

Visible(n) ==
  InitialInputs \cup
    UNION {Contents(ledger[i].data) : i \in {j \in OfType("TOOL_EXECUTION_SUCCEEDED") : j <= n}}

\* The relations _project_success derives from the success event at position i.
Relations(i) ==
  LET c    == ledger[i].call
      ins  == ledger[c].data.inputs
      outs == Contents(ledger[i].data)
      Rel(kind, s, o) == [event |-> i, kind |-> kind, subject |-> s, object |-> o]
  IN  {Rel("PRODUCED_BY", o, c) : o \in outs}
        \cup {Rel("DERIVED_FROM", o, a) : o \in outs, a \in ins}
        \cup {Rel("CONSUMED_BY", a, c) : a \in ins}

\* RunStatus as _result and RunInspector report it.
Status ==
  IF ledger = <<>> THEN "NEW"
  ELSE IF Terminal THEN LastType
  ELSE IF Interrupted THEN "INTERRUPTED"
  ELSE IF PendingApproval # {} THEN "WAITING_APPROVAL"
  ELSE IF WaitingReview THEN "WAITING_REVIEW"
  ELSE "ACTIVE"

-----------------------------------------------------------------------------
(* Steps shared by the actions *)

At(d, label) == pc[d] = label
Goto(d, label) == pc' = [pc EXCEPT ![d] = label]
\* run() returns a RunResult or raises: either way the locals are gone.
Return(d) ==
  /\ pc' = [pc EXCEPT ![d] = "idle"]
  /\ loc' = [loc EXCEPT ![d] = NoLocals]
Log(type, call, data) == ledger' = Append(ledger, Ev(type, call, data))

-----------------------------------------------------------------------------
(* run(): entry *)

Init ==
  /\ ledger = <<>>
  /\ store = InitialInputs
  /\ lineage = {}
  /\ effects = <<>>
  /\ crashes = 0
  /\ pc = [d \in Drivers |-> "idle"]
  /\ loc = [d \in Drivers |-> NoLocals]

\* The operator (CLI, web, API) calls run(request, approval).
Invoke(d, r, a) ==
  /\ At(d, "idle")
  /\ Goto(d, "initialize")
  /\ loc' = [loc EXCEPT ![d].request = r, ![d].approval = a]
  /\ UNCHANGED <<durable, effects, crashes>>

\* _initialize_or_validate: the read and its checks.
Initialize(d) ==
  /\ At(d, "initialize")
  /\ \/ /\ ledger = <<>>
        /\ Goto(d, "start_run")
        /\ UNCHANGED loc
     \/ /\ ledger # <<>>
        /\ Cardinality(OfType("RUN_STARTED")) = 1
        /\ \A i \in OfType("RUN_STARTED") : ledger[i].data = loc[d].request
        /\ Goto(d, "reconcile")
        /\ loc' = [loc EXCEPT ![d].snap = Len(ledger)]
     \/ /\ ledger # <<>>
        /\ \/ Cardinality(OfType("RUN_STARTED")) # 1
           \/ \E i \in OfType("RUN_STARTED") : ledger[i].data # loc[d].request
        /\ Return(d)
  /\ UNCHANGED <<durable, effects, crashes>>

StartRun(d) ==
  /\ At(d, "start_run")
  /\ Log("RUN_STARTED", 0, loc[d].request)
  /\ Goto(d, "reconcile")
  /\ loc' = [loc EXCEPT ![d].snap = Len(ledger) + 1]
  /\ UNCHANGED <<store, lineage, effects, crashes>>

\* _reconcile_success_lineage over the events read on entry, or
\* _project_success of the success event just appended.
Due(d) ==
  IF At(d, "reconcile")
  THEN UNION {Relations(i) : i \in {j \in OfType("TOOL_EXECUTION_SUCCEEDED") : j <= loc[d].snap}}
  ELSE Relations(loc[d].snap)

AddRelation(d) ==
  /\ pc[d] \in {"reconcile", "project"}
  /\ \E r \in Due(d) \ lineage : lineage' = lineage \cup {r}
  /\ UNCHANGED <<ledger, store, effects, crashes, pc, loc>>

Bug_ReconcileSkipped(d) ==
  /\ At(d, "reconcile")
  /\ Goto(d, "top")
  /\ loc' = [loc EXCEPT ![d].snap = 0]
  /\ UNCHANGED <<durable, effects, crashes>>

FinishReconcile(d) ==
  /\ At(d, "reconcile")
  /\ Due(d) \subseteq lineage
  /\ Goto(d, "top")
  /\ loc' = [loc EXCEPT ![d].snap = 0]
  /\ UNCHANGED <<durable, effects, crashes>>

FinishProject(d) ==
  /\ At(d, "project")
  /\ Due(d) \subseteq lineage
  /\ IF loc[d].ret
     THEN Return(d)
     ELSE /\ Goto(d, "top")
          /\ loc' = [loc EXCEPT ![d].snap = 0, ![d].call = 0, ![d].outs = <<>>]
  /\ UNCHANGED <<durable, effects, crashes>>

-----------------------------------------------------------------------------
(* run(): the top of the loop, a fresh read and one branch *)

\* The supplied approval is the one already recorded for the approved call.
AlreadyRecorded(a) ==
  \E c \in PendingExecution :
    /\ Decided(c, "APPROVED")
    /\ \E i \in Where("APPROVAL_RECORDED", c) : ledger[i].data = a

\* The supplied approval binds the pending call (assert_binds_to).
AnswersPending(a) == a # None /\ a.call \in PendingApproval

\* The loop goes past its approval branches.
PastApproval(d) ==
  /\ Projectable /\ ~Terminal /\ ~Interrupted /\ PendingApproval = {}
  /\ loc[d].approval = None \/ AlreadyRecorded(loc[d].approval)

TopReturns(d) ==
  /\ At(d, "top")
  /\ \/ ~Projectable
     \/ Terminal
     \/ Interrupted
     \/ PendingApproval # {} /\ ~AnswersPending(loc[d].approval)
     \/ PendingApproval = {} /\ loc[d].approval # None /\ ~AlreadyRecorded(loc[d].approval)
     \/ PendingApproval = {} /\ WaitingReview
  /\ Return(d)
  /\ UNCHANGED <<durable, effects, crashes>>

TakeApproval(d) ==
  /\ At(d, "top")
  /\ Projectable /\ ~Terminal /\ ~Interrupted
  /\ AnswersPending(loc[d].approval)
  /\ Goto(d, "record_approval")
  /\ loc' = [loc EXCEPT ![d].call = loc[d].approval.call]
  /\ UNCHANGED <<durable, effects, crashes>>

TakePending(d) ==
  /\ At(d, "top")
  /\ PastApproval(d) /\ ~WaitingReview
  /\ \E c \in PendingExecution :
       IF LimitExceeded
       THEN /\ Goto(d, "check_exhausted")
            /\ loc' = [loc EXCEPT ![d].approval = None]
       ELSE LET resume == loc[d].resume \/ Decided(c, "APPROVED")
            IN  /\ Goto(d, "start_call")
                /\ loc' = [loc EXCEPT ![d].approval = None, ![d].call = c,
                                      ![d].resume = resume, ![d].ret = resume]
  /\ UNCHANGED <<durable, effects, crashes>>

Bug_ReviewIgnored(d) ==
  /\ At(d, "top")
  /\ PastApproval(d) /\ PendingExecution = {}
  /\ Goto(d, IF LimitReached THEN "check_exhausted" ELSE "decide")
  /\ loc' = [loc EXCEPT ![d].snap = Len(ledger), ![d].approval = None]
  /\ UNCHANGED <<durable, effects, crashes>>

AskProvider(d) ==
  /\ At(d, "top")
  /\ PastApproval(d) /\ ~WaitingReview /\ PendingExecution = {}
  /\ Goto(d, IF LimitReached THEN "check_exhausted" ELSE "decide")
  /\ loc' = [loc EXCEPT ![d].snap = Len(ledger), ![d].approval = None]
  /\ UNCHANGED <<durable, effects, crashes>>

-----------------------------------------------------------------------------
(* run(): the approval branch *)

RecordApproval(d) ==
  /\ At(d, "record_approval")
  /\ Log("APPROVAL_RECORDED", loc[d].call, loc[d].approval)
  /\ IF loc[d].approval.decision = "REJECTED"
     THEN Goto(d, "reject_call") /\ UNCHANGED loc
     ELSE /\ Goto(d, "top")
          /\ loc' = [loc EXCEPT ![d].approval = None, ![d].resume = TRUE, ![d].call = 0]
  /\ UNCHANGED <<store, lineage, effects, crashes>>

RejectCall(d) ==
  /\ At(d, "reject_call")
  /\ Log("TOOL_CALL_REJECTED", loc[d].call, None)
  /\ Goto(d, "reject_run")
  /\ UNCHANGED <<store, lineage, effects, crashes, loc>>

RejectRun(d) ==
  /\ At(d, "reject_run")
  /\ Log("RUN_REJECTED", loc[d].call, None)
  /\ Return(d)
  /\ UNCHANGED <<store, lineage, effects, crashes>>

(* _append_hard_limit: its own read, then the append *)

CheckExhausted(d) ==
  /\ At(d, "check_exhausted")
  /\ IF OfType("BUDGET_EXHAUSTED") # {}
     THEN Return(d)
     ELSE Goto(d, "exhaust") /\ UNCHANGED loc
  /\ UNCHANGED <<durable, effects, crashes>>

Exhaust(d) ==
  /\ At(d, "exhaust")
  /\ Log("BUDGET_EXHAUSTED", 0, None)
  /\ Return(d)
  /\ UNCHANGED <<store, lineage, effects, crashes>>

-----------------------------------------------------------------------------
(* run(): the provider's decision *)

\* StopIteration, or an ActionError from an invalid action: nothing is appended.
Bug_ProviderRetried(d) ==
  /\ At(d, "decide")
  /\ Goto(d, "top")
  /\ UNCHANGED <<durable, effects, crashes, loc>>

ProviderDeclines(d) ==
  /\ At(d, "decide")
  /\ Return(d)
  /\ UNCHANGED <<durable, effects, crashes>>

Decide(d, action) ==
  /\ At(d, "decide")
  /\ Log("DECISION_RECORDED", 0, action)
  /\ Goto(d, IF action.kind = "call" THEN "materialize" ELSE action.kind)
  /\ loc' = [loc EXCEPT ![d].proposal = action]
  /\ UNCHANGED <<store, lineage, effects, crashes>>

StopRun(d) ==
  /\ At(d, "stop")
  /\ Log("RUN_STOPPED", 0, None)
  /\ Return(d)
  /\ UNCHANGED <<store, lineage, effects, crashes>>

RequestReview(d) ==
  /\ At(d, "review")
  /\ Log("REVIEW_REQUESTED", 0, None)
  /\ Return(d)
  /\ UNCHANGED <<store, lineage, effects, crashes>>

\* registry.resolve, visibility against the loop's own snapshot, policy.check.
Acceptable(d) ==
  /\ loc[d].proposal.tool \in AllowedTools
  /\ loc[d].proposal.inputs \subseteq Visible(loc[d].snap)

\* Any refusal raises; an argument schema may refuse what is otherwise acceptable.
RefuseProposal(d) ==
  /\ At(d, "materialize")
  /\ Return(d)
  /\ UNCHANGED <<durable, effects, crashes>>

Bug_WrongIdentity(d) ==
  /\ At(d, "materialize")
  /\ Acceptable(d)
  /\ Log("TOOL_CALL_MATERIALIZED", Len(ledger) + 2,
         [tool |-> loc[d].proposal.tool, inputs |-> loc[d].proposal.inputs])
  /\ Goto(d, IF loc[d].proposal.tool \in ApprovalTools THEN "require_approval" ELSE "start_call")
  /\ loc' = [loc EXCEPT ![d].call = Len(ledger) + 2, ![d].proposal = None,
                        ![d].snap = 0, ![d].ret = FALSE]
  /\ UNCHANGED <<store, lineage, effects, crashes>>

Materialize(d) ==
  /\ At(d, "materialize")
  /\ Acceptable(d)
  /\ Log("TOOL_CALL_MATERIALIZED", Len(ledger) + 1,
         [tool |-> loc[d].proposal.tool, inputs |-> loc[d].proposal.inputs])
  /\ Goto(d, IF loc[d].proposal.tool \in ApprovalTools THEN "require_approval" ELSE "start_call")
  /\ loc' = [loc EXCEPT ![d].call = Len(ledger) + 1, ![d].proposal = None,
                        ![d].snap = 0, ![d].ret = FALSE]
  /\ UNCHANGED <<store, lineage, effects, crashes>>

Bug_ApprovalNotAwaited(d) ==
  /\ At(d, "require_approval")
  /\ Log("APPROVAL_REQUIRED", loc[d].call, None)
  /\ Goto(d, "start_call")
  /\ UNCHANGED <<store, lineage, effects, crashes, loc>>

RequireApproval(d) ==
  /\ At(d, "require_approval")
  /\ Log("APPROVAL_REQUIRED", loc[d].call, None)
  /\ Return(d)
  /\ UNCHANGED <<store, lineage, effects, crashes>>

-----------------------------------------------------------------------------
(* _execute_call *)

StartCall(d) ==
  /\ At(d, "start_call")
  /\ Log("TOOL_EXECUTION_STARTED", loc[d].call, None)
  /\ Goto(d, "execute")
  /\ UNCHANGED <<store, lineage, effects, crashes, loc>>

\* The executor runs; it raises or returns an invalid result, or returns drafts.
Execute(d) ==
  /\ At(d, "execute")
  /\ effects' = Append(effects, loc[d].call)
  /\ \/ Goto(d, "fail") /\ UNCHANGED loc
     \/ \E outs \in Drafts :
          /\ Goto(d, "put")
          /\ loc' = [loc EXCEPT ![d].outs = outs]
  /\ UNCHANGED <<durable, crashes>>

\* store.put of the next draft whose content is not published yet.
PutDraft(d) ==
  /\ At(d, "put")
  /\ \E i \in DOMAIN loc[d].outs :
       /\ loc[d].outs[i] \notin store
       /\ \A j \in 1..(i - 1) : loc[d].outs[j] \in store
       /\ store' = store \cup {loc[d].outs[i]}
  /\ UNCHANGED <<ledger, lineage, effects, crashes, pc, loc>>

PutFails(d) ==
  /\ At(d, "put")
  /\ Goto(d, "fail")
  /\ UNCHANGED <<durable, effects, crashes, loc>>

Bug_PutAbandoned(d) ==
  /\ At(d, "put")
  /\ Goto(d, "succeed")
  /\ UNCHANGED <<durable, effects, crashes, loc>>

FinishPut(d) ==
  /\ At(d, "put")
  /\ Contents(loc[d].outs) \subseteq store
  /\ Goto(d, "succeed")
  /\ UNCHANGED <<durable, effects, crashes, loc>>

\* LedgerEvent refuses a repeated output id, outside the try block: two drafts
\* with the same bytes make the append raise.
DuplicateFree(outs) == \A i, j \in DOMAIN outs : outs[i] = outs[j] => i = j

Succeed(d) ==
  /\ At(d, "succeed")
  /\ DuplicateFree(loc[d].outs)
  /\ Log("TOOL_EXECUTION_SUCCEEDED", loc[d].call, loc[d].outs)
  /\ Goto(d, "project")
  /\ loc' = [loc EXCEPT ![d].snap = Len(ledger) + 1]
  /\ UNCHANGED <<store, lineage, effects, crashes>>

SuccessRefused(d) ==
  /\ At(d, "succeed")
  /\ ~DuplicateFree(loc[d].outs)
  /\ Return(d)
  /\ UNCHANGED <<durable, effects, crashes>>

Fail(d) ==
  /\ At(d, "fail")
  /\ Log("TOOL_EXECUTION_FAILED", loc[d].call, None)
  /\ IF loc[d].ret
     THEN Return(d)
     ELSE /\ Goto(d, "top")
          /\ loc' = [loc EXCEPT ![d].call = 0, ![d].outs = <<>>]
  /\ UNCHANGED <<store, lineage, effects, crashes>>

-----------------------------------------------------------------------------
\* The process dies, or an I/O or contract error leaves run() between two steps.
Crash(d) ==
  /\ ~At(d, "idle")
  /\ crashes < MaxCrashes
  /\ crashes' = crashes + 1
  /\ Return(d)
  /\ UNCHANGED <<durable, effects>>

Appends(d) ==
  \/ StartRun(d) \/ RecordApproval(d) \/ RejectCall(d) \/ RejectRun(d) \/ Exhaust(d)
  \/ (\E action \in ProviderActions : Decide(d, action))
  \/ StopRun(d) \/ RequestReview(d) \/ Materialize(d) \/ RequireApproval(d)
  \/ StartCall(d) \/ Succeed(d) \/ Fail(d)

Locally(d) ==
  \/ Initialize(d) \/ FinishReconcile(d) \/ FinishProject(d) \/ TopReturns(d)
  \/ TakeApproval(d) \/ TakePending(d) \/ AskProvider(d) \/ CheckExhausted(d)
  \/ ProviderDeclines(d) \/ RefuseProposal(d) \/ PutFails(d) \/ FinishPut(d)
  \/ SuccessRefused(d)

Outside(d) == AddRelation(d) \/ PutDraft(d) \/ Execute(d)

\* One step of run() itself, under the control of the code.
DriverStep(d) == Appends(d) \/ Locally(d) \/ Outside(d)

ApprovalsInHand ==
  {None} \cup {[call |-> c, decision |-> x, id |-> i] :
                 c \in Calls, x \in {"APPROVED", "REJECTED"}, i \in ApprovalIds}

Next ==
  \E d \in Drivers :
    \/ \E r \in Requests, a \in ApprovalsInHand : Invoke(d, r, a)
    \/ DriverStep(d)
    \/ Crash(d)

Spec == Init /\ [][Next]_vars

\* run() is synchronous code that always takes its next step; nothing obliges an
\* operator to call it, and a process may die.
FairSpec == Spec /\ \A d \in Drivers : WF_vars(DriverStep(d))

-----------------------------------------------------------------------------
(* Properties *)

\* Every variable stays in its type, events and drivers point into the part of
\* the ledger that exists, and a driver holds what its place in run() needs.
TypeOK ==
  /\ ledger \in Seq(Event)
  /\ \A i \in DOMAIN ledger : ledger[i].call <= i
  /\ InitialInputs \subseteq store /\ store \subseteq Artifacts
  /\ effects \in Seq(Nat)
  /\ crashes \in 0..MaxCrashes
  /\ pc \in [Drivers -> PCs]
  /\ loc \in [Drivers -> Locals]
  /\ \A d \in Drivers :
       /\ loc[d].snap <= Len(ledger) /\ loc[d].call <= Len(ledger)
       /\ ~At(d, "idle") => loc[d].request \in Requests
       /\ At(d, "materialize") => loc[d].proposal \in Action
       /\ At(d, "record_approval") => loc[d].approval \in ApprovalRecord

\* run() drives a tool at most once per materialized call, whatever crashes and
\* resumes come between (the idempotency key is never presented twice).
ExecutedAtMostOnce == \A i, j \in DOMAIN effects : effects[i] = effects[j] => i = j

\* A call the operator rejected never runs, neither before nor after.
RejectedNeverExecuted == \A i \in DOMAIN effects : ~Decided(effects[i], "REJECTED")

\* The loop never writes a ledger its own strict reader (_project) refuses: no
\* sequence of runs, approvals and crashes makes a run permanently unreadable.
LedgerProjectable ==
  ledger # <<>> => Projectable /\ Cardinality(OfType("RUN_STARTED")) = 1

\* A call the ledger says needs approval starts only after that very call was
\* approved.
ApprovalPrecedesStart ==
  \A i \in OfType("TOOL_EXECUTION_STARTED") : Required(ledger[i].call) =>
    \E j \in Where("APPROVAL_RECORDED", ledger[i].call) :
      j < i /\ ledger[j].data.decision = "APPROVED"

\* The server's limits hold across every restart.  Several drivers may each pass
\* the check before another's decision is appended, so each further driver can add
\* one; a single driver that stops on a limit leaves no admitted call unexecuted.
HardLimits ==
  LET further == Cardinality(Drivers) - 1
  IN  /\ Decisions <= MaxDecisions + further
      /\ ToolCalls <= MaxToolCalls + further
      /\ Steps <= MaxSteps + further
      /\ further = 0 /\ OfType("BUDGET_EXHAUSTED") # {} => PendingExecution = {}

\* A further decision is recorded only when the lineage of every recorded
\* success is complete, even if the driver that recorded it died before
\* projecting it.
SuccessesProjectedFirst ==
  [][Len(ledger') > Len(ledger) /\ ledger'[Len(ledger')].type = "DECISION_RECORDED"
       => \A i \in OfType("TOOL_EXECUTION_SUCCEEDED") : Relations(i) \subseteq lineage]_vars

\* Lineage says nothing the ledger does not: each relation stems from a recorded
\* success, and both artifacts it relates are published.
LineageSound ==
  \A r \in lineage :
    /\ r.event \in OfType("TOOL_EXECUTION_SUCCEEDED") /\ r \in Relations(r.event)
    /\ r.subject \in store /\ (r.kind = "DERIVED_FROM" => r.object \in store)

\* Every input a tool runs on was visible in the run before its call was
\* materialized: an initial input or the output of an earlier success.
InputsVisible == \A c \in Calls : ledger[c].data.inputs \subseteq Visible(c)

\* The data of a run is closed: a tool reads only what the run had before its
\* call, and the lineage derives only what is published and recorded, also when
\* a publication was cut short (_execute_call, _project_success).
DataFlowSound == LineageSound /\ InputsVisible

\* Every call of run() comes back: the limits bound the loop.
RunReturns == \A d \in Drivers : ~At(d, "idle") ~> At(d, "idle")

\* Abstract view: what the operator is promised about statuses and executions.
Lifecycle == INSTANCE RunLifecycle WITH
  status <- Status,
  denied <- {c \in Calls : Decided(c, "REJECTED")}
ImplementsLifecycle == Lifecycle!Spec

-----------------------------------------------------------------------------
(* Documented behaviour the code does not have *)

\* docs/v2/MOLLY_CORE_SIMPLIFICATION_REFACTOR_SPEC_V1_1_BR1_HARDENED.md:72 and
\* docs/v2/reports/CORE-02.md:84: a call of a tool whose policy requires approval
\* does not run without an ApprovalRecord for it.
ApprovalToolsWaitForApproval ==
  \A i \in DOMAIN effects :
    ledger[effects[i]].data.tool \in ApprovalTools => Decided(effects[i], "APPROVED")

\* agent_loop.py:345: "a materialized call has multiple execution starts" is a
\* state the ledger is not supposed to reach.
OneStartPerCall == \A c \in Calls : AtMostOne(Where("TOOL_EXECUTION_STARTED", c))

\* tests/molly/test_core02_agent_loop.py:612-630: after a rejection the run is
\* REJECTED; no further decision is asked of the provider.
NoDecisionAfterRejection ==
  \A i \in OfType("APPROVAL_RECORDED"), j \in OfType("DECISION_RECORDED") :
    ledger[i].data.decision = "REJECTED" => j < i

\* tests/molly/test_core02_agent_loop.py:253-272 and docs/v2/reports/CORE-02.md:136:
\* what a tool returns wrongly becomes a TOOL_EXECUTION_FAILED; only the death of
\* the driver leaves a call interrupted.
OnlyDeathInterrupts ==
  crashes = 0 /\ (\A d \in Drivers : At(d, "idle")) => ~Interrupted

=============================================================================
