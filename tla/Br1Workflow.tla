----------------------------- MODULE Br1Workflow -----------------------------
(***************************************************************************)
(* plugins/br1_inverse_design: the BR1 run.  AgentLoop with a provider     *)
(* that is code, Br1WorkflowProvider, and the six tools it drives one      *)
(* after the other, prepare, preflight, train, generate, predict and       *)
(* evaluate, each bound at execution to the run's own recorded successes.  *)
(*                                                                         *)
(* The provider sits between the loop's read and the recorded decision:    *)
(* it freezes the parsed request once per run, then reads the ledger once  *)
(* per stage while other drivers may append.  What a stage produces is     *)
(* named by what it was made of and, where the content carries the run     *)
(* and step, by the call.                                                  *)
(*                                                                         *)
(* The loop is AgentLoop's at a coarser grain: what one handler appends in *)
(* a row is one step, and lineage and publication, which the provider      *)
(* never reads, are left out.  AgentLoop takes those steps apart.          *)
(***************************************************************************)
EXTENDS AgentLoop, FiniteSetsExt, SequencesExt

CONSTANTS
  Raw,       \* the run's one uploaded dataset
  Accepted,  \* it is of a reviewed or cleaned schema already
  Specs,     \* valid requests the language model may make of the goal
  Usable,    \* those whose target is supported and in the dataset
  Preview,   \* the intent of the plan a request confirms, or None (see Br1Plans)
  MaxMeets   \* bound: times a driver is met inside the provider by another that enters

ASSUME WorkflowAssumption ==
  /\ Usable \subseteq Specs /\ Preview \in [Requests -> Specs \cup {None}] /\ None \notin Specs
  /\ Accepted \in BOOLEAN /\ MaxMeets \in Nat

VARIABLES
  ask,    \* each driver's place inside Br1WorkflowProvider.next_action
  met,    \* the drivers inside the provider that another has met there
  meets   \* how many were met so far

allvars == <<vars, ask, met, meets>>

-----------------------------------------------------------------------------
(* Stages and what they make *)

Stages == <<"prepare", "preflight", "train", "generate", "predict", "evaluate">>
Br1Tools == Contents(Stages)
\* prepare asks for approval itself, the remote ones by the policy.
Br1ApprovalTools == {"prepare", "train", "generate", "predict"}

Makes == [prepare |-> "cleaned", preflight |-> "preflight", train |-> "model",
          generate |-> "candidates", predict |-> "predictions", evaluate |-> "top_n"]

\* The upload is a dataset, raw, reviewed or cleaned: what a later stage makes is
\* refused as one (DatasetGate.inspect).
ASSUME RawAssumption == Raw.kind \notin {Makes[t] : t \in Br1Tools \ {"prepare"}}

\* The content of a remote stage names the run and the step, hence the call; the
\* others make the same of the same inputs.
Remote == {"train", "generate", "predict"}
Product(tool, inputs, c) ==
  IF tool \in Remote THEN [kind |-> Makes[tool], of |-> {}, by |-> c]
  ELSE [kind |-> Makes[tool], of |-> inputs, by |-> 0]
Of(a) == IF a.by = 0 THEN a.of ELSE ledger[a.by].data.inputs

Ended(tool, n) ==
  {i \in OfType("TOOL_EXECUTION_SUCCEEDED") : i <= n /\ ledger[ledger[i].call].data.tool = tool}
\* _success_artifact: the output of the last success that has the stage's schema.
Found(tool, n) ==
  IF Ended(tool, n) = {} THEN None
  ELSE CHOOSE a \in Contents(ledger[Max(Ended(tool, n))].data) : a.kind = Makes[tool]

\* The ends of stages are what the reads that follow can tell apart.
Ends(n) == {i \in 1..n : ledger[i].type \in
             {"TOOL_EXECUTION_SUCCEEDED", "TOOL_EXECUTION_FAILED", "TOOL_CALL_REJECTED"}}

Bug_RejectionForgotten(n) ==
  LET ends == {i \in Ends(n) : ledger[i].type # "TOOL_CALL_REJECTED"}
  IN ends # {} /\ ledger[Max(ends)].type # "TOOL_EXECUTION_SUCCEEDED"

\* _latest_aborted_stage: the last stage to end failed or was rejected.
Aborted(n) ==
  Ends(n) # {} /\ ledger[Max(Ends(n))].type # "TOOL_EXECUTION_SUCCEEDED"

-----------------------------------------------------------------------------
(* The provider: the frozen intent *)

NoAsk == [phase |-> "none", intent |-> None, from |-> 0]
Asking(d, phase, intent) == ask' = [ask EXCEPT ![d] = [NoAsk EXCEPT !.phase = phase, !.intent = intent]]
Choosing(d, intent) ==
  ask' = [ask EXCEPT ![d] = [phase |-> "choose", intent |-> intent,
                             from |-> Max({0} \cup Ends(Len(ledger)))]]
Frozen == OfType("BR1_INTENT_FROZEN")
FrozenIntent == ledger[CHOOSE i \in Frozen : TRUE].data

\* The loop finds nothing to do and asks the provider, unless a limit is reached.
\* _intent: the one the run has frozen, else the confirmed plan's, else ask the model.
Consult(d) ==
  /\ At(d, "top") /\ PastApproval(d) /\ ~WaitingReview /\ PendingExecution = {}
  /\ IF LimitReached
     THEN Log("BUDGET_EXHAUSTED", 0, None) /\ Return(d) /\ UNCHANGED ask
     ELSE /\ Goto(d, "decide")
          /\ loc' = [loc EXCEPT ![d].snap = Len(ledger), ![d].approval = None]
          /\ CASE Frozen # {} -> Choosing(d, FrozenIntent)
               [] Frozen = {} /\ Preview[loc[d].request] # None ->
                    Asking(d, "freeze", Preview[loc[d].request])
               [] OTHER -> Asking(d, "parse", None)
          /\ UNCHANGED ledger
  /\ UNCHANGED <<store, lineage, effects, crashes>>

\* parse_br1_request: the model reads the same goal differently at times.
Parse(d) ==
  /\ At(d, "decide") /\ ask[d].phase = "parse"
  /\ \E s \in Specs : Asking(d, "freeze", s)
  /\ UNCHANGED vars

Bug_OwnIntentKept(d) ==
  /\ At(d, "decide") /\ ask[d].phase = "freeze"
  /\ IF Frozen = {} THEN Log("BR1_INTENT_FROZEN", 0, ask[d].intent) ELSE UNCHANGED ledger
  /\ Choosing(d, ask[d].intent)
  /\ UNCHANGED <<store, lineage, effects, crashes, pc, loc>>

\* _persist_intent: the event id is the run's, so the second append is refused
\* and the first one's intent is taken.
Freeze(d) ==
  /\ At(d, "decide") /\ ask[d].phase = "freeze"
  /\ IF Frozen = {}
     THEN Log("BR1_INTENT_FROZEN", 0, ask[d].intent) /\ Choosing(d, ask[d].intent)
     ELSE UNCHANGED ledger /\ Choosing(d, FrozenIntent)
  /\ UNCHANGED <<store, lineage, effects, crashes, pc, loc>>

\* The model or its profile is not available, the answer is invalid, or the dataset
\* does not have the target: nothing is appended.
ProviderRaises(d) ==
  /\ ask[d].phase = "parse" \/ (ask[d].phase = "choose" /\ ask[d].intent \notin Usable)
  /\ ProviderDeclines(d)
  /\ ask' = [ask EXCEPT ![d] = NoAsk]

-----------------------------------------------------------------------------
(* The provider: the next stage *)

\* The ledger's lengths that the reads of d may have found, as far as it matters.
Moments(d) == {ask[d].from} \cup {i \in Ends(Len(ledger)) : i > ask[d].from}
\* n reads, one after the other.
Looks(d, n) ==
  LET looks[k \in 0..n] ==
        IF k = 0 THEN {<<>>}
        ELSE UNION {{Append(s, m) : m \in {x \in Moments(d) : s = <<>> \/ Last(s) <= x}} : s \in looks[k - 1]}
  IN looks[n]

Missing(found) == {k \in DOMAIN Stages : found[k] = None /\ ~(k = 1 /\ Accepted)}
\* The inputs of stage k.
Inputs(k, found) ==
  LET dataset == IF found[1] = None THEN Raw ELSE found[1]
  IN CASE k = 1 -> {Raw}
       [] k = 2 -> {dataset}
       [] k = 3 -> {dataset, found[2]}
       [] k = 4 -> {found[3]}
       [] k = 5 -> {found[3], found[4]}
       [] k = 6 -> {found[4], found[5]}

Choice(found, aborted, spec) ==
  IF aborted \/ found[6] # None
  THEN [kind |-> "stop", tool |-> None, inputs |-> {}, spec |-> spec]
  ELSE LET k == Min(Missing(found))
       IN [kind |-> "call", tool |-> Stages[k], inputs |-> Inputs(k, found), spec |-> spec]

\* next_action from the first stage read on; the loop records the decision and what
\* follows from it.  Only inputs that were visible when the loop read are accepted.
Choose(d) ==
  /\ At(d, "decide") /\ ask[d].phase = "choose" /\ ask[d].intent \in Usable
  /\ \E at \in Looks(d, Len(Stages) + 1) :
       LET found == [k \in DOMAIN Stages |-> Found(Stages[k], at[k])]
           action == Choice(found, Aborted(at[Len(Stages) + 1]), ask[d].intent)
           c == Len(ledger) + 2
           admitted == <<Ev("DECISION_RECORDED", 0, action),
                         Ev("TOOL_CALL_MATERIALIZED", c, [tool |-> action.tool, inputs |-> action.inputs])>>
       IN \/ /\ action.kind = "stop"
             /\ ledger' = ledger \o <<Ev("DECISION_RECORDED", 0, action), Ev("RUN_STOPPED", 0, None)>>
             /\ Return(d)
          \/ /\ action.kind = "call" /\ ~(action.inputs \subseteq Visible(loc[d].snap))
             /\ Log("DECISION_RECORDED", 0, action)
             /\ Return(d)
          \/ /\ action.kind = "call" /\ action.inputs \subseteq Visible(loc[d].snap)
             /\ action.tool \in ApprovalTools
             /\ ledger' = ledger \o admitted \o <<Ev("APPROVAL_REQUIRED", c, None)>>
             /\ Return(d)
          \/ /\ action.kind = "call" /\ action.inputs \subseteq Visible(loc[d].snap)
             /\ action.tool \notin ApprovalTools
             /\ ledger' = ledger \o admitted \o <<Ev("TOOL_EXECUTION_STARTED", c, None)>>
             /\ Goto(d, "execute")
             /\ loc' = [loc EXCEPT ![d].call = c, ![d].snap = 0, ![d].ret = FALSE]
  /\ ask' = [ask EXCEPT ![d] = NoAsk]
  /\ UNCHANGED <<store, lineage, effects, crashes>>

-----------------------------------------------------------------------------
(* The tools *)

Bug_InputsNotRequired(tool, a, from) ==
  \E i \in Ended(tool, Len(ledger)) : a \in Contents(ledger[i].data)

\* successful_output_event: a success of this run made a, from at least these inputs.
Recorded(tool, a, from) ==
  \E i \in Ended(tool, Len(ledger)) :
    a \in Contents(ledger[i].data) /\ from \subseteq ledger[ledger[i].call].data.inputs

\* The executors take their inputs by position; each position holds one kind.
Input(inputs, kind) == CHOOSE a \in inputs : a.kind = kind

\* What each service demands before it runs.  Training: the preflight is of this
\* very dataset.
TrainBound(inputs) ==
  LET preflight == Input(inputs, "preflight") IN Of(preflight) = inputs \ {preflight}
GenerateBound(inputs) == Recorded("train", Input(inputs, "model"), {})
PredictBound(inputs) ==
  /\ Recorded("train", Input(inputs, "model"), {})
  /\ Recorded("generate", Input(inputs, "candidates"), {Input(inputs, "model")})
\* Evaluation also finds the candidates' identity inside the predictions.
EvaluateBound(inputs) ==
  LET candidates == Input(inputs, "candidates")
      predictions == Input(inputs, "predictions")
  IN /\ Recorded("generate", candidates, {})
     /\ Recorded("predict", predictions, {candidates})
     /\ candidates \in Of(predictions)

Bound(tool, inputs) ==
  CASE tool = "train" -> TrainBound(inputs)
    [] tool = "generate" -> GenerateBound(inputs)
    [] tool = "predict" -> PredictBound(inputs)
    [] tool = "evaluate" -> EvaluateBound(inputs)
    [] OTHER -> TRUE

\* The executor refuses what is not bound and may fail on anything else; the loop
\* records its end.
EndStage(d) ==
  LET c == loc[d].call
      tool == ledger[c].data.tool
      inputs == ledger[c].data.inputs
  IN /\ At(d, "execute")
     /\ effects' = Append(effects, c)
     /\ \/ Log("TOOL_EXECUTION_FAILED", c, None)
        \/ Bound(tool, inputs) /\ Log("TOOL_EXECUTION_SUCCEEDED", c, <<Product(tool, inputs, c)>>)
     /\ IF loc[d].ret
        THEN Return(d)
        ELSE Goto(d, "top") /\ loc' = [loc EXCEPT ![d].call = 0]
     /\ UNCHANGED <<store, lineage, crashes, ask>>

-----------------------------------------------------------------------------
(* The loop *)

\* run() is entered with the run's request, another is refused at once, and with an
\* approval of the call that waits for one, or without.
\* Others may be inside the provider then, where they stay long.
Enter(d) ==
  LET inside == {e \in Drivers : At(e, "decide")}
      answers == {a \in ApprovalsInHand : a # None /\ a.call \in PendingApproval}
  IN /\ At(d, "idle") /\ \A e \in Drivers : At(e, "idle") \/ At(e, "decide")
     /\ met' = inside
     /\ meets' = meets + Cardinality(inside \ met)
     /\ meets' <= MaxMeets
     /\ \E r \in Requests, a \in {None} \cup answers :
          /\ IF ledger = <<>> THEN Log("RUN_STARTED", 0, r)
             ELSE UNCHANGED ledger /\ \A i \in OfType("RUN_STARTED") : ledger[i].data = r
          /\ loc' = [loc EXCEPT ![d].request = r, ![d].approval = a]
     /\ Goto(d, "top")
     /\ UNCHANGED <<store, lineage, effects, crashes, ask>>

Answering(d, decision) ==
  /\ At(d, "top") /\ Projectable /\ ~Terminal /\ ~Interrupted
  /\ AnswersPending(loc[d].approval) /\ loc[d].approval.decision = decision

Approve(d) ==
  /\ Answering(d, "APPROVED")
  /\ Log("APPROVAL_RECORDED", loc[d].approval.call, loc[d].approval)
  /\ loc' = [loc EXCEPT ![d].approval = None, ![d].resume = TRUE]
  /\ UNCHANGED <<store, lineage, effects, crashes, pc, ask>>

\* The driver may die before it closes the run.
Reject(d) ==
  LET c == loc[d].approval.call
      rejected == <<Ev("APPROVAL_RECORDED", c, loc[d].approval), Ev("TOOL_CALL_REJECTED", c, None)>>
  IN /\ Answering(d, "REJECTED")
     /\ \/ ledger' = ledger \o rejected \o <<Ev("RUN_REJECTED", c, None)>> /\ UNCHANGED crashes
        \/ crashes < MaxCrashes /\ crashes' = crashes + 1 /\ ledger' = ledger \o rejected
     /\ Return(d)
     /\ UNCHANGED <<store, lineage, effects, ask>>

\* The one call that may be executed is started, or the run ends on a limit that
\* another driver pushed it over.
StartStage(d) ==
  /\ At(d, "top") /\ PastApproval(d) /\ ~WaitingReview
  /\ \E c \in PendingExecution :
       IF LimitExceeded
       THEN Log("BUDGET_EXHAUSTED", 0, None) /\ Return(d)
       ELSE /\ Log("TOOL_EXECUTION_STARTED", c, None)
            /\ Goto(d, "execute")
            /\ loc' = [loc EXCEPT ![d].call = c, ![d].ret = loc[d].resume \/ Decided(c, "APPROVED")]
  /\ UNCHANGED <<store, lineage, effects, crashes, ask>>

DriverOf(d) ==
  \/ Consult(d) \/ Parse(d) \/ Freeze(d) \/ ProviderRaises(d) \/ Choose(d)
  \/ Approve(d) \/ Reject(d) \/ StartStage(d) \/ EndStage(d)
  \/ TopReturns(d) /\ UNCHANGED ask

WorkflowStep(d) == DriverOf(d) /\ met' = {e \in met : pc'[e] = "decide"} /\ UNCHANGED meets

WorkflowInit == Init /\ ask = [d \in Drivers |-> NoAsk] /\ met = {} /\ meets = 0
WorkflowNext == \E d \in Drivers : Enter(d) \/ WorkflowStep(d)
WorkflowSpec == WorkflowInit /\ [][WorkflowNext]_allvars

-----------------------------------------------------------------------------
(* Properties *)

\* Whoever drives the run, however often the model is asked: one intent is frozen,
\* the confirmed plan's where there was one, and every decision is made for it
\* (_persist_intent, _load_frozen_intent).
IntentAgreed ==
  /\ AtMostOne(Frozen)
  /\ \A i \in OfType("DECISION_RECORDED") :
       \E j \in Frozen : j < i /\ ledger[i].data.spec = ledger[j].data
  /\ \A i \in OfType("RUN_STARTED"), j \in Frozen :
       Preview[ledger[i].data] # None => ledger[j].data = Preview[ledger[i].data]

\* A recorded Top-N is of one chain: predictions of one model for candidates made
\* with that same model, which was trained on the dataset its own preflight passed,
\* the uploaded one or what prepare made of it.  Drivers that read the ledger at
\* different moments may well propose other combinations (_success_artifact,
\* successful_output_event).
OneChain(candidates, predictions) ==
  \E model \in Of(candidates) :
    /\ model.kind = "model" /\ Of(candidates) = {model} /\ Of(predictions) = {model, candidates}
    /\ \E preflight, dataset \in Of(model) :
         /\ Of(model) = {preflight, dataset} /\ preflight.kind = "preflight"
         /\ Of(preflight) = {dataset}
         /\ dataset \in {Raw, Product("prepare", {Raw}, 0)}
ChainExact ==
  \A i \in Ended("evaluate", Len(ledger)) :
    \E candidates, predictions \in ledger[ledger[i].call].data.inputs :
      OneChain(candidates, predictions)

\* After a stage failed or was rejected, at most one more stage is decided on by
\* each other driver that was already choosing, until a stage succeeds
\* (_latest_aborted_stage, read last).
AbortStops ==
  \A i \in OfType("TOOL_EXECUTION_FAILED") \cup OfType("TOOL_CALL_REJECTED") :
    Cardinality({j \in OfType("DECISION_RECORDED") :
      /\ j > i /\ ledger[j].data.kind = "call"
      /\ \A k \in OfType("TOOL_EXECUTION_SUCCEEDED") : ~(i < k /\ k < j)})
      <= Cardinality(Drivers) - 1

=============================================================================
