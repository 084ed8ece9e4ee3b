--------------------------- MODULE AgentLoopProofs ---------------------------
(***************************************************************************)
(* Proofs about AgentLoop and Br1Workflow, for every value of their        *)
(* constants.                                                              *)
(*                                                                         *)
(* However many drivers work on a run: its types, the flow of its data and *)
(* (for finitely many) its limits.  When one driver at a time does, however*)
(* often it dies and the run is resumed: a tool runs at most once per call,*)
(* never for a rejected one and not before its approval; the ledger stays  *)
(* readable; lineage is complete before the next decision; and the loop    *)
(* implements the life cycle of a run.                                     *)
(*                                                                         *)
(* Two drivers do break the last ones (AgentLoop!OneStartPerCall fails):   *)
(* the assumption is what the code relies on and does not enforce.         *)
(*                                                                         *)
(* The BR1 run on top of the loop (Br1Workflow), however many drivers it   *)
(* has: one intent, one chain of artifacts, and an end after an abort.     *)
(***************************************************************************)
EXTENDS Br1Workflow, TLAPS, FiniteSetTheorems

(***************************************************************************)
(* Appending to the ledger                                                 *)
(***************************************************************************)

\* What Append does, element by element: the form the provers use below.
LEMMA AppendFacts ==
  ASSUME NEW S, NEW s \in Seq(S), NEW e \in S
  PROVE  /\ Append(s, e) \in Seq(S)
         /\ Len(Append(s, e)) = Len(s) + 1
         /\ Len(s) \in Nat
         /\ DOMAIN s = 1..Len(s)
         /\ DOMAIN Append(s, e) = 1..(Len(s) + 1)
         /\ \A i \in 1..Len(s) : Append(s, e)[i] = s[i]
         /\ Append(s, e)[Len(s) + 1] = e
  OBVIOUS

\* An event that is well formed and refers to no later position keeps the part of
\* TypeOK about the ledger.
LEMMA LogTyped ==
  ASSUME TypeOK, NEW e \in Event, e.call <= Len(ledger) + 1, ledger' = Append(ledger, e)
  PROVE  /\ ledger' \in Seq(Event)
         /\ \A i \in DOMAIN ledger' : ledger'[i].call <= i
         /\ Len(ledger') = Len(ledger) + 1
         /\ Len(ledger) \in Nat
<1>1. ledger \in Seq(Event)
  BY DEF TypeOK
<1>2. \A i \in DOMAIN ledger : ledger[i].call <= i
  BY DEF TypeOK
<1>3. /\ ledger' \in Seq(Event)
      /\ Len(ledger') = Len(ledger) + 1 /\ Len(ledger) \in Nat
      /\ DOMAIN ledger = 1..Len(ledger) /\ DOMAIN ledger' = 1..(Len(ledger) + 1)
      /\ \A i \in 1..Len(ledger) : ledger'[i] = ledger[i]
      /\ ledger'[Len(ledger) + 1] = e
  BY <1>1, AppendFacts
<1>4. QED
  BY <1>2, <1>3

(***************************************************************************)
(* Typing: nothing is assumed of the number of drivers                     *)
(***************************************************************************)

LEMMA EmptyDrafts == <<>> \in Drafts
  BY LimitsAssumption DEF Drafts

LEMMA NoLocalsTyped == NoLocals \in Locals
  BY EmptyDrafts DEF NoLocals, Locals

LEMMA InitTyped == Init => TypeOK
<1> SUFFICES ASSUME Init PROVE TypeOK
  OBVIOUS
<1>1. NoLocals \in Locals /\ NoLocals.snap = 0 /\ NoLocals.call = 0
  BY NoLocalsTyped DEF NoLocals
<1>2. QED
  BY <1>1, LimitsAssumption, SetsAssumption DEF Init, TypeOK, PCs, At

\* A step of driver d that keeps the shared state typed, moves d to a label and
\* leaves it locals fit for that label preserves TypeOK.
LEMMA DriverMoves ==
  ASSUME TypeOK, NEW d \in Drivers, NEW label \in PCs, NEW x \in Locals,
         pc' = [pc EXCEPT ![d] = label],
         loc' = [loc EXCEPT ![d] = x],
         ledger' \in Seq(Event), \A i \in DOMAIN ledger' : ledger'[i].call <= i,
         Len(ledger) \in Nat, Len(ledger') \in Nat, Len(ledger) <= Len(ledger'),
         InitialInputs \subseteq store', store' \subseteq Artifacts,
         effects' \in Seq(Nat), crashes' \in 0..MaxCrashes,
         x.snap <= Len(ledger'), x.call <= Len(ledger'),
         label # "idle" => x.request \in Requests,
         label = "materialize" => x.proposal \in Action,
         label = "record_approval" => x.approval \in ApprovalRecord
  PROVE  TypeOK'
<1>1. pc' \in [Drivers -> PCs] /\ loc' \in [Drivers -> Locals]
  BY DEF TypeOK
<1>2. ASSUME NEW e \in Drivers
      PROVE  /\ loc'[e].snap <= Len(ledger') /\ loc'[e].call <= Len(ledger')
             /\ pc'[e] # "idle" => loc'[e].request \in Requests
             /\ pc'[e] = "materialize" => loc'[e].proposal \in Action
             /\ pc'[e] = "record_approval" => loc'[e].approval \in ApprovalRecord
  <2>1. CASE e = d
    BY <2>1 DEF TypeOK
  <2>2. CASE e # d
    <3>1. pc'[e] = pc[e] /\ loc'[e] = loc[e] /\ loc[e] \in Locals
      BY <2>2 DEF TypeOK
    <3>2. loc[e].snap \in Nat /\ loc[e].call \in Nat
      BY <3>1 DEF Locals
    <3>3. /\ loc[e].snap <= Len(ledger) /\ loc[e].call <= Len(ledger)
          /\ pc[e] # "idle" => loc[e].request \in Requests
          /\ pc[e] = "materialize" => loc[e].proposal \in Action
          /\ pc[e] = "record_approval" => loc[e].approval \in ApprovalRecord
      BY DEF TypeOK, At
    <3>4. QED
      BY <3>1, <3>2, <3>3
  <2>3. QED
    BY <2>1, <2>2
<1>3. QED
  BY <1>1, <1>2 DEF TypeOK, At

\* The parts of a typed state that a step of driver d starts from.
LEMMA DriverParts ==
  ASSUME TypeOK, NEW d \in Drivers
  PROVE  /\ loc[d] \in Locals /\ pc[d] \in PCs
         /\ loc[d].request \in Requests \cup {None}
         /\ loc[d].approval \in ApprovalRecord \cup {None}
         /\ loc[d].resume \in BOOLEAN /\ loc[d].ret \in BOOLEAN
         /\ loc[d].snap \in Nat /\ loc[d].call \in Nat
         /\ loc[d].proposal \in Action \cup {None} /\ loc[d].outs \in Drafts
         /\ loc[d].snap <= Len(ledger) /\ loc[d].call <= Len(ledger)
         /\ pc[d] # "idle" => loc[d].request \in Requests
         /\ pc[d] = "materialize" => loc[d].proposal \in Action
         /\ pc[d] = "record_approval" => loc[d].approval \in ApprovalRecord
         /\ ledger \in Seq(Event) /\ Len(ledger) \in Nat
         /\ \A i \in DOMAIN ledger : ledger[i].call <= i
         /\ InitialInputs \subseteq store /\ store \subseteq Artifacts
         /\ effects \in Seq(Nat) /\ crashes \in 0..MaxCrashes
<1>1. loc[d] \in Locals /\ pc[d] \in PCs
  BY DEF TypeOK
<1>2. /\ loc[d].request \in Requests \cup {None}
      /\ loc[d].approval \in ApprovalRecord \cup {None}
      /\ loc[d].resume \in BOOLEAN /\ loc[d].ret \in BOOLEAN
      /\ loc[d].snap \in Nat /\ loc[d].call \in Nat
      /\ loc[d].proposal \in Action \cup {None} /\ loc[d].outs \in Drafts
  BY <1>1 DEF Locals
<1>3. ledger \in Seq(Event) /\ Len(ledger) \in Nat
  BY DEF TypeOK
<1>4. QED
  BY <1>1, <1>2, <1>3 DEF TypeOK, At

\* A step that appends nothing.
LEMMA QuietMove ==
  ASSUME TypeOK, NEW d \in Drivers, NEW label \in PCs, NEW x \in Locals,
         pc' = [pc EXCEPT ![d] = label],
         loc' = [loc EXCEPT ![d] = x],
         ledger' = ledger, store' = store,
         effects' \in Seq(Nat), crashes' \in 0..MaxCrashes,
         x.snap <= Len(ledger), x.call <= Len(ledger),
         label # "idle" => x.request \in Requests,
         label = "materialize" => x.proposal \in Action,
         label = "record_approval" => x.approval \in ApprovalRecord
  PROVE  TypeOK'
<1>1. /\ ledger' \in Seq(Event) /\ \A i \in DOMAIN ledger' : ledger'[i].call <= i
      /\ Len(ledger) \in Nat /\ Len(ledger') \in Nat /\ Len(ledger) <= Len(ledger')
      /\ InitialInputs \subseteq store' /\ store' \subseteq Artifacts
  BY DriverParts
<1>2. x.snap <= Len(ledger') /\ x.call <= Len(ledger')
  OBVIOUS
<1>3. QED
  BY <1>1, <1>2, DriverMoves

\* A step that appends one event.
LEMMA LoggedMove ==
  ASSUME TypeOK, NEW d \in Drivers, NEW label \in PCs, NEW x \in Locals,
         pc' = [pc EXCEPT ![d] = label],
         loc' = [loc EXCEPT ![d] = x],
         NEW e \in Event, e.call <= Len(ledger) + 1, ledger' = Append(ledger, e),
         store' = store, effects' = effects, crashes' = crashes,
         x.snap <= Len(ledger) + 1, x.call <= Len(ledger) + 1,
         label # "idle" => x.request \in Requests,
         label = "materialize" => x.proposal \in Action,
         label = "record_approval" => x.approval \in ApprovalRecord
  PROVE  TypeOK'
<1>1. /\ ledger' \in Seq(Event) /\ Len(ledger') = Len(ledger) + 1 /\ Len(ledger) \in Nat
      /\ \A i \in DOMAIN ledger' : ledger'[i].call <= i
  BY LogTyped
<1>2. Len(ledger') \in Nat /\ Len(ledger) <= Len(ledger')
  BY <1>1
<1>3. /\ InitialInputs \subseteq store' /\ store' \subseteq Artifacts
      /\ effects' \in Seq(Nat) /\ crashes' \in 0..MaxCrashes
  BY DriverParts
<1>4. x.snap <= Len(ledger') /\ x.call <= Len(ledger')
  BY <1>1
<1>5. QED
  BY <1>1, <1>2, <1>3, <1>4, DriverMoves

\* run() returns: the locals are gone.
LEMMA QuietReturn ==
  ASSUME TypeOK, NEW d \in Drivers, Return(d), ledger' = ledger, store' = store,
         effects' = effects, crashes' \in 0..MaxCrashes
  PROVE  TypeOK'
<1>1. NoLocals \in Locals /\ NoLocals.snap = 0 /\ NoLocals.call = 0 /\ "idle" \in PCs
  BY NoLocalsTyped DEF NoLocals, PCs
<1>2. effects' \in Seq(Nat) /\ 0 <= Len(ledger)
  BY DriverParts
<1>3. QED
  BY <1>1, <1>2, QuietMove DEF Return

LEMMA LoggedReturn ==
  ASSUME TypeOK, NEW d \in Drivers, Return(d),
         NEW e \in Event, e.call <= Len(ledger) + 1, ledger' = Append(ledger, e),
         store' = store, effects' = effects, crashes' = crashes
  PROVE  TypeOK'
<1>1. NoLocals \in Locals /\ NoLocals.snap = 0 /\ NoLocals.call = 0 /\ "idle" \in PCs
  BY NoLocalsTyped DEF NoLocals, PCs
<1>2. 0 <= Len(ledger) + 1
  BY DriverParts
<1>3. QED
  BY <1>1, <1>2, LoggedMove DEF Return

LEMMA InvokeTyped ==
  ASSUME TypeOK, NEW d \in Drivers, NEW r \in Requests, NEW a \in ApprovalsInHand,
         Invoke(d, r, a)
  PROVE  TypeOK'
<1> DEFINE x == [loc[d] EXCEPT !.request = r, !.approval = a]
<1>1. a \in ApprovalRecord \cup {None}
  <2>1. \A c \in Calls : c \in Nat
    BY DriverParts DEF Calls, OfType
  <2>2. QED
    BY <2>1 DEF ApprovalsInHand, ApprovalRecord
<1>2. /\ x \in Locals /\ x.snap = loc[d].snap /\ x.call = loc[d].call /\ x.request = r
  BY <1>1, DriverParts DEF Locals
<1>3. loc' = [loc EXCEPT ![d] = x] /\ pc' = [pc EXCEPT ![d] = "initialize"]
  BY DEF Invoke, Goto
<1>4. "initialize" \in PCs
  BY DEF PCs
<1>5. QED
  BY <1>2, <1>3, <1>4, DriverParts, QuietMove, ZenonT(60) DEF Invoke, durable

\* Every event the loop logs is in Event.
LEMMA EventsTyped ==
  /\ \A r \in Requests : Ev("RUN_STARTED", 0, r) \in Event
  /\ \A a \in Action : Ev("DECISION_RECORDED", 0, a) \in Event
  /\ \A c \in Nat, k \in Call : Ev("TOOL_CALL_MATERIALIZED", c, k) \in Event
  /\ \A c \in Nat, a \in ApprovalRecord : Ev("APPROVAL_RECORDED", c, a) \in Event
  /\ \A c \in Nat, o \in Drafts : Ev("TOOL_EXECUTION_SUCCEEDED", c, o) \in Event
  /\ \A c \in Nat, t \in {"APPROVAL_REQUIRED", "TOOL_CALL_REJECTED", "TOOL_EXECUTION_STARTED",
                          "TOOL_EXECUTION_FAILED", "REVIEW_REQUESTED"} \cup RunTerminals :
       Ev(t, c, None) \in Event
  /\ \A t, c, x : Ev(t, c, x).type = t /\ Ev(t, c, x).call = c /\ Ev(t, c, x).data = x
BY DEF Event, Ev

\* Every action that appends an event keeps the types.
LEMMA AppendsTyped == ASSUME TypeOK, NEW d \in Drivers, Appends(d) PROVE TypeOK'
<1> USE DEF Log, Goto, At
<1>0. /\ 0 <= Len(ledger) + 1 /\ loc[d].call <= Len(ledger) + 1
      /\ loc[d].snap <= Len(ledger) + 1 /\ loc[d].call \in Nat
      /\ Len(ledger) + 1 \in Nat /\ loc[d] \in Locals
      /\ pc[d] # "idle" => loc[d].request \in Requests
  BY DriverParts
<1>1. CASE StartRun(d)
  <2> DEFINE x == [loc[d] EXCEPT !.snap = Len(ledger) + 1]
  <2>1. x \in Locals /\ x.snap = Len(ledger) + 1 /\ x.call = loc[d].call /\ x.request = loc[d].request
    BY <1>0 DEF Locals
  <2>2. loc[d].request \in Requests /\ "reconcile" \in PCs
    BY <1>0, <1>1 DEF StartRun, PCs
  <2>3. Ev("RUN_STARTED", 0, loc[d].request) \in Event /\ Ev("RUN_STARTED", 0, loc[d].request).call = 0
    BY <2>2, EventsTyped
  <2>4. /\ loc' = [loc EXCEPT ![d] = x] /\ pc' = [pc EXCEPT ![d] = "reconcile"]
        /\ ledger' = Append(ledger, Ev("RUN_STARTED", 0, loc[d].request))
        /\ store' = store /\ effects' = effects /\ crashes' = crashes
    BY <1>1 DEF StartRun
  <2>5. x.snap <= Len(ledger) + 1 /\ x.call <= Len(ledger) + 1
    BY <1>0, <2>1
  <2> HIDE DEF x
  <2>6. QED
    BY <1>0, <2>1, <2>2, <2>3, <2>4, <2>5, LoggedMove
<1>2. CASE RecordApproval(d)
  <2> DEFINE e == Ev("APPROVAL_RECORDED", loc[d].call, loc[d].approval)
  <2>1. e \in Event /\ e.call <= Len(ledger) + 1
    BY <1>0, <1>2, DriverParts, EventsTyped DEF RecordApproval
  <2>2. loc[d].request \in Requests /\ {"reject_call", "top"} \subseteq PCs
    BY <1>0, <1>2 DEF RecordApproval, PCs
  <2>3. CASE loc[d].approval.decision = "REJECTED"
    <3>1. loc' = [loc EXCEPT ![d] = loc[d]] /\ pc' = [pc EXCEPT ![d] = "reject_call"]
      BY <1>2, <2>3 DEF RecordApproval, TypeOK
    <3>2. QED
      BY <1>0, <1>2, <2>1, <2>2, <3>1, LoggedMove DEF RecordApproval
  <2>4. CASE loc[d].approval.decision # "REJECTED"
    <3> DEFINE x == [loc[d] EXCEPT !.approval = None, !.resume = TRUE, !.call = 0]
    <3>1. /\ x \in Locals /\ x.snap = loc[d].snap /\ x.call = 0
          /\ x.request = loc[d].request
      BY <1>0 DEF Locals
    <3>2. /\ loc' = [loc EXCEPT ![d] = x] /\ pc' = [pc EXCEPT ![d] = "top"]
          /\ ledger' = Append(ledger, e)
          /\ store' = store /\ effects' = effects /\ crashes' = crashes
      BY <1>2, <2>4 DEF RecordApproval
    <3> HIDE DEF x, e
    <3>3. QED
      BY <1>0, <2>1, <2>2, <3>1, <3>2, LoggedMove
  <2>5. QED
    BY <2>3, <2>4
<1>3. CASE RejectCall(d)
  <2>1. /\ Ev("TOOL_CALL_REJECTED", loc[d].call, None) \in Event
        /\ Ev("TOOL_CALL_REJECTED", loc[d].call, None).call <= Len(ledger) + 1
    BY <1>0, EventsTyped
  <2>2. loc' = [loc EXCEPT ![d] = loc[d]] /\ "reject_run" \in PCs /\ loc[d].request \in Requests
    BY <1>0, <1>3 DEF RejectCall, TypeOK, PCs
  <2>3. QED
    BY <1>0, <1>3, <2>1, <2>2, LoggedMove DEF RejectCall
<1>4. CASE RejectRun(d)
  <2>1. /\ Ev("RUN_REJECTED", loc[d].call, None) \in Event
        /\ Ev("RUN_REJECTED", loc[d].call, None).call <= Len(ledger) + 1
    BY <1>0, EventsTyped DEF RunTerminals
  <2>2. QED
    BY <1>4, <2>1, LoggedReturn DEF RejectRun
<1>5. CASE Exhaust(d)
  <2>1. Ev("BUDGET_EXHAUSTED", 0, None) \in Event /\ Ev("BUDGET_EXHAUSTED", 0, None).call = 0
    BY EventsTyped DEF RunTerminals
  <2>2. QED
    BY <1>0, <1>5, <2>1, LoggedReturn DEF Exhaust
<1>6. ASSUME NEW action \in ProviderActions, Decide(d, action) PROVE TypeOK'
  <2> DEFINE x == [loc[d] EXCEPT !.proposal = action]
             label == IF action.kind = "call" THEN "materialize" ELSE action.kind
  <2>1. action \in Action /\ action.kind \in {"stop", "review", "call"}
    BY DEF ProviderActions, Action
  <2>2. label \in PCs /\ label # "idle" /\ label # "record_approval"
    BY <2>1 DEF PCs
  <2>3. /\ x \in Locals /\ x.snap = loc[d].snap /\ x.call = loc[d].call
        /\ x.request = loc[d].request /\ x.proposal \in Action
    BY <1>0, <2>1 DEF Locals
  <2>4. Ev("DECISION_RECORDED", 0, action) \in Event /\ Ev("DECISION_RECORDED", 0, action).call = 0
    BY <2>1, EventsTyped
  <2>5. /\ loc' = [loc EXCEPT ![d] = x] /\ pc' = [pc EXCEPT ![d] = label]
        /\ ledger' = Append(ledger, Ev("DECISION_RECORDED", 0, action))
        /\ store' = store /\ effects' = effects /\ crashes' = crashes
        /\ loc[d].request \in Requests
    BY <1>0, <1>6 DEF Decide
  <2> HIDE DEF x, label
  <2>6. QED
    BY <1>0, <2>2, <2>3, <2>4, <2>5, LoggedMove
<1>7. CASE StopRun(d)
  <2>1. Ev("RUN_STOPPED", 0, None) \in Event /\ Ev("RUN_STOPPED", 0, None).call = 0
    BY EventsTyped DEF RunTerminals
  <2>2. QED
    BY <1>0, <1>7, <2>1, LoggedReturn DEF StopRun
<1>8. CASE RequestReview(d)
  <2>1. Ev("REVIEW_REQUESTED", 0, None) \in Event /\ Ev("REVIEW_REQUESTED", 0, None).call = 0
    BY EventsTyped
  <2>2. QED
    BY <1>0, <1>8, <2>1, LoggedReturn DEF RequestReview
<1>9. CASE Materialize(d)
  <2> DEFINE x == [loc[d] EXCEPT !.call = Len(ledger) + 1, !.proposal = None,
                                 !.snap = 0, !.ret = FALSE]
             k == [tool |-> loc[d].proposal.tool, inputs |-> loc[d].proposal.inputs]
             label == IF loc[d].proposal.tool \in ApprovalTools
                      THEN "require_approval" ELSE "start_call"
             e == Ev("TOOL_CALL_MATERIALIZED", Len(ledger) + 1, k)
  <2>1. k \in Call
    <3>1. loc[d].proposal \in Action
      BY <1>9, DriverParts DEF Materialize
    <3>2. loc[d].proposal.tool \in Tools /\ loc[d].proposal.inputs \in SUBSET Artifacts
      BY <1>9, <3>1, SetsAssumption DEF Materialize, Acceptable, Action
    <3>3. QED
      BY <3>2 DEF Call
  <2>2. e \in Event /\ e.call = Len(ledger) + 1
    BY <1>0, <2>1, EventsTyped
  <2>3. /\ x \in Locals /\ x.snap = 0 /\ x.call = Len(ledger) + 1
        /\ x.request = loc[d].request
    BY <1>0 DEF Locals
  <2>4. label \in {"require_approval", "start_call"} /\ {"require_approval", "start_call"} \subseteq PCs
    BY DEF PCs
  <2>5. /\ loc' = [loc EXCEPT ![d] = x] /\ pc' = [pc EXCEPT ![d] = label]
        /\ ledger' = Append(ledger, e)
        /\ store' = store /\ effects' = effects /\ crashes' = crashes
        /\ loc[d].request \in Requests
    BY <1>0, <1>9 DEF Materialize
  <2>6. /\ x.snap <= Len(ledger) + 1 /\ x.call <= Len(ledger) + 1
        /\ e.call <= Len(ledger) + 1
        /\ label \in PCs /\ label # "materialize" /\ label # "record_approval"
    BY <1>0, <2>2, <2>3, <2>4
  <2> HIDE DEF x, label, e
  <2>7. QED
    BY <2>2, <2>3, <2>5, <2>6, LoggedMove
<1>10. CASE RequireApproval(d)
  <2>1. /\ Ev("APPROVAL_REQUIRED", loc[d].call, None) \in Event
        /\ Ev("APPROVAL_REQUIRED", loc[d].call, None).call <= Len(ledger) + 1
    BY <1>0, EventsTyped
  <2>2. QED
    BY <1>10, <2>1, LoggedReturn DEF RequireApproval
<1>11. CASE StartCall(d)
  <2>1. /\ Ev("TOOL_EXECUTION_STARTED", loc[d].call, None) \in Event
        /\ Ev("TOOL_EXECUTION_STARTED", loc[d].call, None).call <= Len(ledger) + 1
    BY <1>0, EventsTyped
  <2>2. loc' = [loc EXCEPT ![d] = loc[d]] /\ "execute" \in PCs /\ loc[d].request \in Requests
    BY <1>0, <1>11 DEF StartCall, TypeOK, PCs
  <2>3. QED
    BY <1>0, <1>11, <2>1, <2>2, LoggedMove DEF StartCall
<1>12. CASE Succeed(d)
  <2> DEFINE x == [loc[d] EXCEPT !.snap = Len(ledger) + 1]
             e == Ev("TOOL_EXECUTION_SUCCEEDED", loc[d].call, loc[d].outs)
  <2>1. /\ x \in Locals /\ x.snap = Len(ledger) + 1 /\ x.call = loc[d].call
        /\ x.request = loc[d].request
    BY <1>0 DEF Locals
  <2>2. e \in Event /\ e.call <= Len(ledger) + 1
    BY <1>0, DriverParts, EventsTyped
  <2>3. /\ loc' = [loc EXCEPT ![d] = x] /\ pc' = [pc EXCEPT ![d] = "project"]
        /\ "project" \in PCs /\ loc[d].request \in Requests
        /\ ledger' = Append(ledger, e)
        /\ store' = store /\ effects' = effects /\ crashes' = crashes
    BY <1>0, <1>12 DEF Succeed, PCs
  <2>4. x.snap <= Len(ledger) + 1 /\ x.call <= Len(ledger) + 1
    BY <1>0, <2>1
  <2> HIDE DEF x, e
  <2>5. QED
    BY <2>1, <2>2, <2>3, <2>4, LoggedMove
<1>13. CASE Fail(d)
  <2> DEFINE e == Ev("TOOL_EXECUTION_FAILED", loc[d].call, None)
  <2>1. e \in Event /\ e.call <= Len(ledger) + 1
    BY <1>0, EventsTyped
  <2>2. CASE loc[d].ret
    BY <1>13, <2>1, <2>2, LoggedReturn DEF Fail
  <2>3. CASE ~loc[d].ret
    <3> DEFINE x == [loc[d] EXCEPT !.call = 0, !.outs = <<>>]
    <3>1. /\ x \in Locals /\ x.snap = loc[d].snap /\ x.call = 0
          /\ x.request = loc[d].request
      BY <1>0, EmptyDrafts DEF Locals
    <3>2. /\ loc' = [loc EXCEPT ![d] = x] /\ pc' = [pc EXCEPT ![d] = "top"]
          /\ "top" \in PCs /\ loc[d].request \in Requests
          /\ ledger' = Append(ledger, e)
          /\ store' = store /\ effects' = effects /\ crashes' = crashes
      BY <1>0, <1>13, <2>3 DEF Fail, PCs
    <3> HIDE DEF x, e
    <3>3. QED
      BY <1>0, <2>1, <3>1, <3>2, LoggedMove
  <2>4. QED
    BY <2>2, <2>3
<1>14. QED
  BY <1>1, <1>2, <1>3, <1>4, <1>5, <1>6, <1>7, <1>8, <1>9, <1>10, <1>11, <1>12, <1>13
     DEF Appends

\* Every action that leaves the shared state alone keeps the types.
LEMMA LocallyTyped == ASSUME TypeOK, NEW d \in Drivers, Locally(d) PROVE TypeOK'
<1> USE DEF Goto, At, durable
<1>0. /\ 0 <= Len(ledger) /\ Len(ledger) <= Len(ledger) /\ Len(ledger) \in Nat
      /\ loc[d] \in Locals
      /\ effects \in Seq(Nat) /\ crashes \in 0..MaxCrashes
      /\ loc[d].snap <= Len(ledger) /\ loc[d].call <= Len(ledger)
      /\ pc[d] # "idle" => loc[d].request \in Requests
      /\ loc = [loc EXCEPT ![d] = loc[d]]
  BY DriverParts DEF TypeOK
<1>1. ASSUME UNCHANGED <<durable, effects, crashes>>, Return(d) PROVE TypeOK'
  BY <1>0, <1>1, QuietReturn
<1>2. ASSUME UNCHANGED <<durable, effects, crashes, loc>>, NEW label \in PCs,
             Goto(d, label), label # "materialize", label # "record_approval", pc[d] # "idle"
      PROVE  TypeOK'
  BY <1>0, <1>2, QuietMove
\* The loop moves on with new locals that stay within the ledger.
<1>3. ASSUME UNCHANGED <<durable, effects, crashes>>, NEW label \in PCs, NEW x \in Locals,
             pc' = [pc EXCEPT ![d] = label], loc' = [loc EXCEPT ![d] = x],
             x.request = loc[d].request, pc[d] # "idle",
             label # "materialize", label # "record_approval",
             x.snap <= Len(ledger), x.call <= Len(ledger)
      PROVE  TypeOK'
  BY <1>0, <1>3, QuietMove
<1>4. CASE Initialize(d)
  <2> DEFINE x == [loc[d] EXCEPT !.snap = Len(ledger)]
  <2>1. x \in Locals /\ x.request = loc[d].request /\ x.snap = Len(ledger) /\ x.call = loc[d].call
    BY <1>0 DEF Locals
  <2>2. {"start_run", "reconcile"} \subseteq PCs
    BY DEF PCs
  <2>3. \/ Goto(d, "start_run") /\ UNCHANGED loc
        \/ Goto(d, "reconcile") /\ loc' = [loc EXCEPT ![d] = x]
        \/ Return(d)
    BY <1>4 DEF Initialize
  <2>4. UNCHANGED <<durable, effects, crashes>> /\ pc[d] # "idle"
    BY <1>4 DEF Initialize
  <2> HIDE DEF x
  <2>5. QED
    BY <1>0, <1>1, <1>2, <1>3, <2>1, <2>2, <2>3, <2>4
<1>5. CASE FinishReconcile(d)
  <2> DEFINE x == [loc[d] EXCEPT !.snap = 0]
  <2>1. x \in Locals /\ x.request = loc[d].request /\ x.snap = 0 /\ x.call = loc[d].call
    BY <1>0 DEF Locals
  <2>2. /\ loc' = [loc EXCEPT ![d] = x] /\ pc' = [pc EXCEPT ![d] = "top"] /\ "top" \in PCs
        /\ UNCHANGED <<durable, effects, crashes>> /\ pc[d] # "idle"
    BY <1>5 DEF FinishReconcile, PCs
  <2> HIDE DEF x
  <2>3. QED
    BY <1>0, <1>3, <2>1, <2>2
<1>6. CASE FinishProject(d)
  <2> DEFINE x == [loc[d] EXCEPT !.snap = 0, !.call = 0, !.outs = <<>>]
  <2>1. x \in Locals /\ x.request = loc[d].request /\ x.snap = 0 /\ x.call = 0
    BY <1>0, EmptyDrafts DEF Locals
  <2>2. /\ \/ loc' = [loc EXCEPT ![d] = x] /\ pc' = [pc EXCEPT ![d] = "top"]
           \/ Return(d)
        /\ UNCHANGED <<durable, effects, crashes>> /\ pc[d] # "idle" /\ "top" \in PCs
    BY <1>6 DEF FinishProject, PCs
  <2> HIDE DEF x
  <2>3. QED
    BY <1>0, <1>1, <1>3, <2>1, <2>2
<1>7. CASE TopReturns(d)
  BY <1>1, <1>7 DEF TopReturns
<1>8. CASE TakeApproval(d)
  <2> DEFINE x == [loc[d] EXCEPT !.call = loc[d].approval.call]
  <2>1. loc[d].approval \in ApprovalRecord /\ loc[d].approval.call \in DOMAIN ledger
    BY <1>8, DriverParts DEF TakeApproval, AnswersPending, PendingApproval, Calls, OfType
  <2>2. loc[d].approval.call \in Nat /\ loc[d].approval.call <= Len(ledger)
    BY <2>1, DriverParts
  <2>3. /\ x \in Locals /\ x.request = loc[d].request /\ x.snap = loc[d].snap
        /\ x.call = loc[d].approval.call /\ x.approval = loc[d].approval
    BY <1>0, <2>2 DEF Locals
  <2>4. /\ loc' = [loc EXCEPT ![d] = x] /\ pc' = [pc EXCEPT ![d] = "record_approval"]
        /\ UNCHANGED <<durable, effects, crashes>> /\ pc[d] # "idle"
        /\ "record_approval" \in PCs
    BY <1>8 DEF TakeApproval, PCs
  <2>5. /\ x.snap <= Len(ledger) /\ x.call <= Len(ledger) /\ x.request \in Requests
        /\ x.approval \in ApprovalRecord /\ effects' \in Seq(Nat) /\ crashes' \in 0..MaxCrashes
        /\ ledger' = ledger /\ store' = store
    BY <1>0, <2>1, <2>2, <2>3, <2>4
  <2> HIDE DEF x
  <2>6. QED
    BY <2>3, <2>4, <2>5, QuietMove
<1>9. CASE TakePending(d)
  <2>1. PICK c \in PendingExecution :
          IF LimitExceeded
          THEN /\ Goto(d, "check_exhausted")
               /\ loc' = [loc EXCEPT ![d].approval = None]
          ELSE LET resume == loc[d].resume \/ Decided(c, "APPROVED")
               IN  /\ Goto(d, "start_call")
                   /\ loc' = [loc EXCEPT ![d].approval = None, ![d].call = c,
                                         ![d].resume = resume, ![d].ret = resume]
    BY <1>9 DEF TakePending
  <2> DEFINE resume == loc[d].resume \/ Decided(c, "APPROVED")
             x == [loc[d] EXCEPT !.approval = None]
             y == [loc[d] EXCEPT !.approval = None, !.call = c, !.resume = resume, !.ret = resume]
  <2>2. c \in Nat /\ c <= Len(ledger)
    BY <1>0, DriverParts DEF PendingExecution, Calls, OfType
  <2>3. x \in Locals /\ x.request = loc[d].request /\ x.snap = loc[d].snap /\ x.call = loc[d].call
    BY <1>0 DEF Locals
  <2>4. resume \in BOOLEAN
    BY <1>0 DEF Locals, Decided
  <2>5. \/ pc' = [pc EXCEPT ![d] = "check_exhausted"] /\ loc' = [loc EXCEPT ![d] = x]
        \/ pc' = [pc EXCEPT ![d] = "start_call"] /\ loc' = [loc EXCEPT ![d] = y]
    BY <2>1
  <2>6. /\ {"check_exhausted", "start_call"} \subseteq PCs
        /\ UNCHANGED <<durable, effects, crashes>> /\ pc[d] # "idle"
    BY <1>9 DEF TakePending, PCs
  <2> HIDE DEF resume
  <2>7. y \in Locals /\ y.request = loc[d].request /\ y.snap = loc[d].snap /\ y.call = c
    BY <1>0, <2>2, <2>4 DEF Locals
  <2> HIDE DEF x, y
  <2>8. QED
    BY <1>0, <1>3, <2>2, <2>3, <2>5, <2>6, <2>7
<1>10. CASE AskProvider(d)
  <2> DEFINE x == [loc[d] EXCEPT !.snap = Len(ledger), !.approval = None]
  <2>1. x \in Locals /\ x.request = loc[d].request /\ x.snap = Len(ledger) /\ x.call = loc[d].call
    BY <1>0 DEF Locals
  <2>2. /\ loc' = [loc EXCEPT ![d] = x]
        /\ Goto(d, "check_exhausted") \/ Goto(d, "decide")
        /\ {"check_exhausted", "decide"} \subseteq PCs
        /\ UNCHANGED <<durable, effects, crashes>> /\ pc[d] # "idle"
    BY <1>10 DEF AskProvider, PCs
  <2> HIDE DEF x
  <2>3. QED
    BY <1>0, <1>3, <2>1, <2>2
<1>11. CASE CheckExhausted(d)
  <2>1. /\ Return(d) \/ (Goto(d, "exhaust") /\ UNCHANGED loc)
        /\ "exhaust" \in PCs /\ UNCHANGED <<durable, effects, crashes>> /\ pc[d] # "idle"
    BY <1>11 DEF CheckExhausted, PCs
  <2>2. QED
    BY <1>1, <1>2, <2>1
<1>12. CASE ProviderDeclines(d)
  BY <1>1, <1>12 DEF ProviderDeclines
<1>13. CASE RefuseProposal(d)
  BY <1>1, <1>13 DEF RefuseProposal
<1>14. CASE PutFails(d) \/ FinishPut(d)
  <2>1. /\ Goto(d, "fail") \/ Goto(d, "succeed")
        /\ {"fail", "succeed"} \subseteq PCs
        /\ UNCHANGED <<durable, effects, crashes, loc>> /\ pc[d] # "idle"
    BY <1>14 DEF PutFails, FinishPut, PCs
  <2>2. QED
    BY <1>2, <2>1
<1>15. CASE SuccessRefused(d)
  BY <1>1, <1>15 DEF SuccessRefused
<1>16. QED
  BY <1>4, <1>5, <1>6, <1>7, <1>8, <1>9, <1>10, <1>11, <1>12, <1>13, <1>14, <1>15
     DEF Locally

\* So do the steps on the lineage, the store and the tools.
LEMMA OutsideTyped == ASSUME TypeOK, NEW d \in Drivers, Outside(d) PROVE TypeOK'
<1> USE DEF At, Goto, durable
<1>1. CASE AddRelation(d)
  BY <1>1 DEF AddRelation, TypeOK
<1>2. CASE PutDraft(d)
  <2>1. \A i \in DOMAIN loc[d].outs : loc[d].outs[i] \in Artifacts
    <3>1. loc[d].outs \in UNION {[1..n -> Artifacts] : n \in 0..MaxDrafts}
      BY DriverParts DEF Drafts
    <3>2. PICK n \in 0..MaxDrafts : loc[d].outs \in [1..n -> Artifacts]
      BY <3>1
    <3>3. QED
      BY <3>2
  <2>2. InitialInputs \subseteq store' /\ store' \subseteq Artifacts
    BY <1>2, <2>1, DriverParts DEF PutDraft
  <2>3. QED
    BY <1>2, <2>2 DEF PutDraft, TypeOK
<1>3. CASE Execute(d)
  <2>1. effects' \in Seq(Nat)
    BY <1>3, DriverParts, AppendFacts DEF Execute
  <2>2. /\ ledger' = ledger /\ store' = store /\ crashes' = crashes
        /\ pc[d] = "execute" /\ {"fail", "put"} \subseteq PCs
    BY <1>3 DEF Execute, PCs
  <2>3. CASE Goto(d, "fail") /\ UNCHANGED loc
    <3>1. loc' = [loc EXCEPT ![d] = loc[d]]
      BY <2>3 DEF TypeOK
    <3>2. QED
      BY <2>1, <2>2, <2>3, <3>1, DriverParts, QuietMove
  <2>4. ASSUME NEW outs \in Drafts, Goto(d, "put"), loc' = [loc EXCEPT ![d].outs = outs]
        PROVE  TypeOK'
    <3> DEFINE x == [loc[d] EXCEPT !.outs = outs]
    <3>1. /\ x \in Locals /\ x.request = loc[d].request /\ x.snap = loc[d].snap
          /\ x.call = loc[d].call
      BY DriverParts DEF Locals
    <3>2. loc' = [loc EXCEPT ![d] = x]
      BY <2>4
    <3>3. x.snap <= Len(ledger) /\ x.call <= Len(ledger) /\ x.request \in Requests
          /\ crashes' \in 0..MaxCrashes
      BY <2>2, <3>1, DriverParts
    <3> HIDE DEF x
    <3>4. QED
      BY <2>1, <2>2, <2>4, <3>1, <3>2, <3>3, QuietMove
  <2>5. QED
    BY <1>3, <2>3, <2>4 DEF Execute
<1>4. QED
  BY <1>1, <1>2, <1>3 DEF Outside

LEMMA CrashTyped == ASSUME TypeOK, NEW d \in Drivers, Crash(d) PROVE TypeOK'
<1>1. crashes' \in 0..MaxCrashes
  BY DriverParts, LimitsAssumption DEF Crash
<1>2. QED
  BY <1>1, QuietReturn DEF Crash, durable

LEMMA NextTyped == TypeOK /\ [Next]_vars => TypeOK'
<1> SUFFICES ASSUME TypeOK, [Next]_vars PROVE TypeOK'
  OBVIOUS
<1>1. CASE UNCHANGED vars
  BY <1>1 DEF vars, TypeOK, At
<1>2. CASE Next
  <2>1. PICK d \in Drivers :
          \/ \E r \in Requests, a \in ApprovalsInHand : Invoke(d, r, a)
          \/ DriverStep(d)
          \/ Crash(d)
    BY <1>2 DEF Next
  <2>2. QED
    BY <2>1, InvokeTyped, AppendsTyped, LocallyTyped, OutsideTyped, CrashTyped DEF DriverStep
<1>3. QED
  BY <1>1, <1>2

\* Whatever the drivers, requests, tools and limits, every event, every local
\* variable and every place in run() is of its type, and nothing a driver holds
\* refers to a part of the ledger that does not exist.
THEOREM Typing == Spec => []TypeOK
<1>1. QED
  BY InitTyped, NextTyped, PTL DEF Spec

(***************************************************************************)
(* What a step may touch, whoever takes it                                 *)
(***************************************************************************)

StepOf(d) ==
  \/ \E r \in Requests, a \in ApprovalsInHand : Invoke(d, r, a)
  \/ DriverStep(d)
  \/ Crash(d)

\* A driver's place and locals are its own.
LEMMA OthersStay ==
  ASSUME TypeOK, NEW d \in Drivers, StepOf(d), NEW e \in Drivers, e # d
  PROVE  pc'[e] = pc[e] /\ loc'[e] = loc[e]
<1> USE DEF Goto, Return
<1>1. pc \in [Drivers -> PCs] /\ loc \in [Drivers -> Locals]
  BY DEF TypeOK
<1>2. CASE Appends(d)
  BY <1>1, <1>2 DEF Appends, StartRun, RecordApproval, RejectCall, RejectRun, Exhaust, Decide,
     StopRun, RequestReview, Materialize, RequireApproval, StartCall, Succeed, Fail
<1>3. CASE Locally(d)
  BY <1>1, <1>3 DEF Locally, Initialize, FinishReconcile, FinishProject, TopReturns, TakeApproval,
     TakePending, AskProvider, CheckExhausted, ProviderDeclines, RefuseProposal, PutFails,
     FinishPut, SuccessRefused
<1>4. CASE Outside(d)
  BY <1>1, <1>4 DEF Outside, AddRelation, PutDraft, Execute
<1>5. CASE Crash(d) \/ \E r \in Requests, a \in ApprovalsInHand : Invoke(d, r, a)
  BY <1>1, <1>5 DEF Crash, Invoke
<1>6. QED
  BY <1>2, <1>3, <1>4, <1>5 DEF StepOf, DriverStep

\* Where each event is appended, and what such a step leaves alone.
LEMMA LoggedEvent ==
  ASSUME TypeOK, NEW d \in Drivers, Appends(d)
  PROVE  /\ UNCHANGED <<store, lineage, effects, crashes>>
         /\ \E e \in Event :
              /\ ledger' = Append(ledger, e)
              /\ pc[d] = "start_run" => e.type = "RUN_STARTED"
              /\ pc[d] = "record_approval" => e.type = "APPROVAL_RECORDED"
              /\ pc[d] = "reject_call" => e.type = "TOOL_CALL_REJECTED"
              /\ pc[d] = "reject_run" => e.type = "RUN_REJECTED"
              /\ pc[d] = "exhaust" => e.type = "BUDGET_EXHAUSTED"
              /\ pc[d] = "decide" => e.type = "DECISION_RECORDED"
              /\ pc[d] = "stop" => e.type = "RUN_STOPPED"
              /\ pc[d] = "review" => e.type = "REVIEW_REQUESTED"
              /\ pc[d] = "materialize" => e.type = "TOOL_CALL_MATERIALIZED"
              /\ pc[d] = "require_approval" => e.type = "APPROVAL_REQUIRED"
              /\ pc[d] = "start_call" => e.type = "TOOL_EXECUTION_STARTED"
              /\ pc[d] = "succeed" => e.type = "TOOL_EXECUTION_SUCCEEDED"
              /\ pc[d] = "fail" => e.type = "TOOL_EXECUTION_FAILED"
              /\ pc[d] \in {"record_approval", "reject_call", "require_approval", "start_call",
                            "succeed", "fail"} => e.call = loc[d].call
              /\ pc[d] = "record_approval" => e.data = loc[d].approval
              /\ pc[d] = "materialize" => e.data.inputs = loc[d].proposal.inputs
              /\ pc[d] = "succeed" => e.data = loc[d].outs
<1> USE DEF At, Log
<1>1. /\ loc[d].call \in Nat /\ loc[d].outs \in Drafts /\ Len(ledger) + 1 \in Nat
      /\ pc[d] # "idle" => loc[d].request \in Requests
      /\ pc[d] = "materialize" => loc[d].proposal \in Action
      /\ pc[d] = "record_approval" => loc[d].approval \in ApprovalRecord
  BY DriverParts
<1>2. CASE StartRun(d)
  BY <1>1, <1>2, EventsTyped DEF StartRun
<1>3. CASE RecordApproval(d)
  BY <1>1, <1>3, EventsTyped DEF RecordApproval
<1>4. CASE RejectCall(d)
  BY <1>1, <1>4, EventsTyped DEF RejectCall
<1>5. CASE RejectRun(d)
  BY <1>1, <1>5, EventsTyped DEF RejectRun, RunTerminals
<1>6. CASE Exhaust(d)
  BY <1>6, EventsTyped DEF Exhaust, RunTerminals
<1>7. CASE \E action \in ProviderActions : Decide(d, action)
  <2>1. ProviderActions \subseteq Action
    BY DEF ProviderActions, Action
  <2>2. QED
    BY <1>7, <2>1, EventsTyped DEF Decide
<1>8. CASE StopRun(d)
  BY <1>8, EventsTyped DEF StopRun, RunTerminals
<1>9. CASE RequestReview(d)
  BY <1>9, EventsTyped DEF RequestReview
<1>10. CASE Materialize(d)
  <2> DEFINE k == [tool |-> loc[d].proposal.tool, inputs |-> loc[d].proposal.inputs]
  <2>1. k \in Call /\ k.inputs = loc[d].proposal.inputs
    BY <1>1, <1>10, SetsAssumption DEF Materialize, Acceptable, Action, Call
  <2>2. /\ ledger' = Append(ledger, Ev("TOOL_CALL_MATERIALIZED", Len(ledger) + 1, k))
        /\ pc[d] = "materialize" /\ UNCHANGED <<store, lineage, effects, crashes>>
    BY <1>10 DEF Materialize
  <2> HIDE DEF k
  <2>3. QED
    BY <1>1, <2>1, <2>2, EventsTyped
<1>11. CASE RequireApproval(d)
  BY <1>1, <1>11, EventsTyped DEF RequireApproval
<1>12. CASE StartCall(d)
  BY <1>1, <1>12, EventsTyped DEF StartCall
<1>13. CASE Succeed(d)
  BY <1>1, <1>13, EventsTyped DEF Succeed
<1>14. CASE Fail(d)
  BY <1>1, <1>14, EventsTyped DEF Fail
<1>15. QED
  BY <1>2, <1>3, <1>4, <1>5, <1>6, <1>7, <1>8, <1>9, <1>10, <1>11, <1>12, <1>13, <1>14
     DEF Appends

-----------------------------------------------------------------------------
(***************************************************************************)
(* The data of a run is closed, for any number of drivers                  *)
(***************************************************************************)

Succeeded == OfType("TOOL_EXECUTION_SUCCEEDED")

\* What a driver's place says of the call and of the outputs in its hands.  The
\* ledger and the store only grow, so no other driver can undo it.
FlowAt(d) ==
  /\ pc[d] \in {"start_call", "execute", "put", "succeed"} => loc[d].call \in Calls
  /\ pc[d] = "succeed" => Contents(loc[d].outs) \subseteq store
  /\ pc[d] = "project" => loc[d].snap \in Succeeded

\* The inductive strengthening of DataFlowSound: every success is of a call that
\* was materialized, and what it lists is published.
FlowInv ==
  /\ TypeOK
  /\ DataFlowSound
  /\ \A i \in Succeeded : ledger[i].call \in Calls /\ Contents(ledger[i].data) \subseteq store
  /\ \A d \in Drivers : FlowAt(d)

\* What a driver's place says survives every step that only adds.
LEMMA FlowAtKept ==
  ASSUME NEW d \in Drivers, FlowAt(d), pc'[d] = pc[d], loc'[d] = loc[d],
         Calls \subseteq Calls', store \subseteq store', Succeeded \subseteq Succeeded'
  PROVE  FlowAt(d)'
BY DEF FlowAt

LEMMA TypesAfterLog ==
  ASSUME TypeOK, NEW e \in Event, ledger' = Append(ledger, e)
  PROVE  /\ Len(ledger) \in Nat
         /\ DOMAIN ledger = 1..Len(ledger) /\ DOMAIN ledger' = 1..(Len(ledger) + 1)
         /\ \A i \in DOMAIN ledger : ledger'[i] = ledger[i]
         /\ ledger'[Len(ledger) + 1] = e
         /\ \A t : OfType(t)' = OfType(t) \cup (IF e.type = t THEN {Len(ledger) + 1} ELSE {})
<1>1. ledger \in Seq(Event)
  BY DEF TypeOK
<1>2. /\ Len(ledger) \in Nat
      /\ DOMAIN ledger = 1..Len(ledger) /\ DOMAIN ledger' = 1..(Len(ledger) + 1)
      /\ \A i \in DOMAIN ledger : ledger'[i] = ledger[i]
      /\ ledger'[Len(ledger) + 1] = e
  BY <1>1, AppendFacts
<1>3. DOMAIN ledger' = DOMAIN ledger \cup {Len(ledger) + 1} /\ Len(ledger) + 1 \notin DOMAIN ledger
  BY <1>2
<1>4. \A t : OfType(t)' = OfType(t) \cup (IF e.type = t THEN {Len(ledger) + 1} ELSE {})
  BY <1>2, <1>3 DEF OfType
<1>5. QED
  BY <1>2, <1>4

\* What is visible is published: initial inputs and outputs of successes.
LEMMA VisiblePublished == ASSUME FlowInv, NEW n PROVE Visible(n) \subseteq store
BY DEF FlowInv, TypeOK, Visible, Succeeded

\* What was visible stays so, and a later position sees no less.
LEMMA VisibleGrows ==
  ASSUME TypeOK, NEW n \in Nat, NEW m \in Nat, n <= m
  PROVE  /\ Visible(n) \subseteq Visible(m)
         /\ \A e \in Event : ledger' = Append(ledger, e) => Visible(n) \subseteq Visible(m)'
<1>1. \A i \in DOMAIN ledger : i \in Nat
  BY DEF TypeOK
<1>2. Visible(n) \subseteq Visible(m)
  BY <1>1 DEF Visible, OfType
<1>3. ASSUME NEW e \in Event, ledger' = Append(ledger, e)
      PROVE  Visible(n) \subseteq Visible(m)'
  <2>1. \A i \in OfType("TOOL_EXECUTION_SUCCEEDED") :
          i \in OfType("TOOL_EXECUTION_SUCCEEDED")' /\ ledger'[i] = ledger[i]
    BY <1>3, TypesAfterLog DEF OfType
  <2>2. QED
    BY <1>1, <2>1 DEF Visible, OfType
<1>4. QED
  BY <1>2, <1>3

\* A step that appends nothing and adds no relation.
LEMMA FlowQuiet ==
  ASSUME FlowInv, TypeOK', ledger' = ledger, store \subseteq store', lineage' = lineage,
         \A d \in Drivers : FlowAt(d)'
  PROVE  FlowInv'
<1>1. /\ Calls' = Calls /\ Succeeded' = Succeeded
      /\ OfType("TOOL_EXECUTION_SUCCEEDED")' = OfType("TOOL_EXECUTION_SUCCEEDED")
  BY DEF Calls, Succeeded, OfType
<1>2. \A n : Visible(n)' = Visible(n) /\ Relations(n)' = Relations(n)
  BY <1>1 DEF Visible, Relations
<1>3. InputsVisible'
  BY <1>1, <1>2 DEF FlowInv, DataFlowSound, InputsVisible
<1>4. LineageSound'
  BY <1>1, <1>2 DEF FlowInv, DataFlowSound, LineageSound
<1>5. QED
  BY <1>1, <1>3, <1>4 DEF FlowInv, DataFlowSound

\* The relations of a success are fixed once it is recorded.
LEMMA RelationsFixed ==
  ASSUME TypeOK, NEW e \in Event, ledger' = Append(ledger, e),
         NEW i \in Succeeded, ledger[i].call \in Calls
  PROVE  Relations(i)' = Relations(i)
<1>1. ledger'[i] = ledger[i] /\ ledger'[ledger[i].call] = ledger[ledger[i].call]
  BY TypesAfterLog DEF Succeeded, Calls, OfType
<1>2. QED
  BY <1>1 DEF Relations

\* An append that materializes a call only on visible inputs, and records a success
\* only of a call and with what is published.
LEMMA FlowLogs ==
  ASSUME FlowInv, TypeOK', NEW e \in Event, ledger' = Append(ledger, e),
         store' = store, lineage' = lineage,
         e.type = "TOOL_CALL_MATERIALIZED" => e.data.inputs \subseteq Visible(Len(ledger)),
         e.type = "TOOL_EXECUTION_SUCCEEDED" =>
           e.call \in Calls /\ Contents(e.data) \subseteq store,
         \A d \in Drivers : FlowAt(d)'
  PROVE  FlowInv'
<1>0. Len(ledger) + 1 \in Nat
  BY TypesAfterLog DEF FlowInv
<1> PICK n \in Nat : n = Len(ledger) + 1
  BY <1>0
<1>1. /\ TypeOK /\ LineageSound /\ InputsVisible
      /\ \A i \in Succeeded : ledger[i].call \in Calls /\ Contents(ledger[i].data) \subseteq store
  BY DEF FlowInv, DataFlowSound
<1>2. /\ n \in Nat /\ Len(ledger) \in Nat /\ Len(ledger) <= n
      /\ \A i \in DOMAIN ledger : ledger'[i] = ledger[i] /\ i \in Nat
      /\ ledger'[n] = e
      /\ Calls' = Calls \cup (IF e.type = "TOOL_CALL_MATERIALIZED" THEN {n} ELSE {})
      /\ Succeeded' = Succeeded \cup (IF e.type = "TOOL_EXECUTION_SUCCEEDED" THEN {n} ELSE {})
  BY <1>1, TypesAfterLog DEF Calls, Succeeded
<1>3. Calls \subseteq DOMAIN ledger /\ Succeeded \subseteq DOMAIN ledger
  BY DEF Calls, Succeeded, OfType
<1>4. \A i \in Succeeded' : ledger'[i].call \in Calls' /\ Contents(ledger'[i].data) \subseteq store'
  BY <1>1, <1>2, <1>3
<1>5. InputsVisible'
  <2> SUFFICES ASSUME NEW c \in Calls' PROVE ledger'[c].data.inputs \subseteq Visible(c)'
    BY DEF InputsVisible
  <2>1. CASE c \in Calls
    <3>1. c \in Nat /\ c <= c /\ ledger'[c] = ledger[c]
      BY <1>2, <1>3, <2>1
    <3>2. Visible(c) \subseteq Visible(c)'
      BY <1>1, <3>1, VisibleGrows
    <3>3. QED
      BY <1>1, <2>1, <3>1, <3>2 DEF InputsVisible
  <2>2. CASE c \notin Calls
    <3>1. e.type = "TOOL_CALL_MATERIALIZED" /\ c = n
      BY <1>2, <2>2
    <3>2. Visible(Len(ledger)) \subseteq Visible(n)'
      BY <1>1, <1>2, VisibleGrows
    <3>3. QED
      BY <1>2, <3>1, <3>2
  <2>3. QED
    BY <2>1, <2>2
<1>6. LineageSound'
  <2> SUFFICES ASSUME NEW r \in lineage
               PROVE  /\ r.event \in Succeeded' /\ r \in Relations(r.event)'
                      /\ r.subject \in store /\ (r.kind = "DERIVED_FROM" => r.object \in store)
    BY DEF LineageSound, Succeeded
  <2>1. /\ r.event \in Succeeded /\ r \in Relations(r.event)
        /\ r.subject \in store /\ (r.kind = "DERIVED_FROM" => r.object \in store)
    BY <1>1 DEF LineageSound, Succeeded
  <2>2. Relations(r.event)' = Relations(r.event)
    BY <1>1, <2>1, RelationsFixed
  <2>3. QED
    BY <1>2, <2>1, <2>2
<1>7. QED
  BY <1>1, <1>4, <1>5, <1>6 DEF FlowInv, DataFlowSound

LEMMA InitFlow == Init => FlowInv
<1> SUFFICES ASSUME Init PROVE FlowInv
  OBVIOUS
<1>1. TypeOK
  BY InitTyped
<1>2. ledger = <<>> /\ lineage = {} /\ \A d \in Drivers : pc[d] = "idle"
  BY DEF Init
<1>3. Calls = {} /\ Succeeded = {}
  BY <1>2 DEF Calls, Succeeded, OfType
<1>4. QED
  BY <1>1, <1>2, <1>3 DEF FlowInv, DataFlowSound, LineageSound, InputsVisible, FlowAt

LEMMA AppendsFlow ==
  ASSUME FlowInv, TypeOK', NEW d \in Drivers, Appends(d) PROVE FlowInv'
<1> USE DEF At, Goto, Log
<1>1. TypeOK /\ pc \in [Drivers -> PCs] /\ loc \in [Drivers -> Locals] /\ FlowAt(d)
  BY DEF FlowInv, TypeOK
<1>2. PICK e \in Event :
        /\ ledger' = Append(ledger, e)
        /\ e.type = "TOOL_CALL_MATERIALIZED" <=> pc[d] = "materialize"
        /\ e.type = "TOOL_EXECUTION_SUCCEEDED" <=> pc[d] = "succeed"
        /\ pc[d] = "materialize" => e.data.inputs = loc[d].proposal.inputs
        /\ pc[d] = "succeed" => e.call = loc[d].call /\ e.data = loc[d].outs
  BY <1>1, LoggedEvent, ZenonT(60)
     DEF Appends, StartRun, RecordApproval, RejectCall, RejectRun, Exhaust, Decide, StopRun,
         RequestReview, Materialize, RequireApproval, StartCall, Succeed, Fail
<1>3. /\ store' = store /\ lineage' = lineage
      /\ ledger'[Len(ledger) + 1] = e /\ Len(ledger) \in Nat
      /\ Calls' = Calls \cup (IF e.type = "TOOL_CALL_MATERIALIZED" THEN {Len(ledger) + 1} ELSE {})
      /\ Succeeded' = Succeeded
           \cup (IF e.type = "TOOL_EXECUTION_SUCCEEDED" THEN {Len(ledger) + 1} ELSE {})
  BY <1>1, <1>2, LoggedEvent, TypesAfterLog DEF Calls, Succeeded
<1>4. \A x \in Drivers \ {d} : FlowAt(x)'
  <2> SUFFICES ASSUME NEW x \in Drivers, x # d PROVE FlowAt(x)'
    OBVIOUS
  <2>1. pc'[x] = pc[x] /\ loc'[x] = loc[x]
    BY <1>1, OthersStay DEF StepOf, DriverStep
  <2>2. QED
    BY <1>3, <2>1, FlowAtKept DEF FlowInv
<1>5. CASE Materialize(d)
  <2>1. /\ loc'[d].call = Len(ledger) + 1 /\ pc'[d] \in {"require_approval", "start_call"}
        /\ loc[d].proposal.inputs \subseteq Visible(loc[d].snap) /\ pc[d] = "materialize"
    BY <1>1, <1>5 DEF Materialize, Acceptable, Locals
  <2>2. FlowAt(d)'
    BY <1>2, <1>3, <2>1 DEF FlowAt
  <2>3. e.data.inputs = loc[d].proposal.inputs
    BY <1>2, <2>1
  <2>4. e.data.inputs \subseteq Visible(Len(ledger))
    <3>1. loc[d].snap \in Nat /\ loc[d].snap <= Len(ledger)
      BY <1>1, DriverParts
    <3>2. Visible(loc[d].snap) \subseteq Visible(Len(ledger))
      BY <1>1, <1>3, <3>1, VisibleGrows
    <3>3. QED
      BY <2>1, <2>3, <3>2
  <2>5. e.type # "TOOL_EXECUTION_SUCCEEDED" /\ \A x \in Drivers : FlowAt(x)'
    BY <1>2, <1>4, <2>1, <2>2
  <2>6. QED
    BY <1>2, <1>3, <2>4, <2>5, FlowLogs
<1>6. CASE Succeed(d)
  <2>1. /\ pc[d] = "succeed" /\ pc'[d] = "project" /\ loc'[d].snap = Len(ledger) + 1
    BY <1>1, <1>6 DEF Succeed, Locals
  <2>2. e.call = loc[d].call /\ e.data = loc[d].outs
    BY <1>2, <2>1
  <2>3. e.call \in Calls /\ Contents(e.data) \subseteq store
    BY <1>1, <2>1, <2>2 DEF FlowAt
  <2>4. FlowAt(d)'
    BY <1>2, <1>3, <2>1 DEF FlowAt
  <2>5. e.type # "TOOL_CALL_MATERIALIZED" /\ \A x \in Drivers : FlowAt(x)'
    BY <1>2, <1>4, <2>1, <2>4
  <2>6. QED
    BY <1>2, <1>3, <2>3, <2>5, FlowLogs
<1>7. CASE ~Materialize(d) /\ ~Succeed(d)
  <2>1. pc[d] \notin {"materialize", "succeed"}
    BY <1>7 DEF Appends, StartRun, RecordApproval, RejectCall, RejectRun, Exhaust, Decide,
       StopRun, RequestReview, RequireApproval, StartCall, Fail
  <2>2. FlowAt(d)'
    <3>1. CASE StartCall(d)
      <4>1. pc[d] = "start_call" /\ pc'[d] = "execute" /\ loc'[d] = loc[d]
        BY <1>1, <3>1 DEF StartCall
      <4>2. QED
        BY <1>1, <1>3, <4>1 DEF FlowAt
    <3>2. CASE ~StartCall(d)
      <4>1. \A a \in ProviderActions : a.kind \in {"stop", "review", "call"}
        BY DEF ProviderActions
      <4>2. pc'[d] \notin {"start_call", "execute", "put", "succeed", "project"}
        BY <1>1, <1>7, <3>2, <4>1
           DEF Appends, Return, StartRun, RecordApproval, RejectCall, RejectRun, Exhaust, Decide,
               StopRun, RequestReview, RequireApproval, Fail
      <4>3. QED
        BY <4>2 DEF FlowAt
    <3>3. QED
      BY <3>1, <3>2
  <2>3. \A x \in Drivers : FlowAt(x)'
    BY <1>4, <2>2
  <2>4. QED
    BY <1>2, <1>3, <2>1, <2>3, FlowLogs
<1>8. QED
  BY <1>5, <1>6, <1>7

LEMMA LocallyFlow ==
  ASSUME FlowInv, TypeOK', NEW d \in Drivers,
         Locally(d) \/ Crash(d) \/ \E r \in Requests, a \in ApprovalsInHand : Invoke(d, r, a)
  PROVE  FlowInv'
<1> USE DEF At, Goto
<1>1. /\ ledger' = ledger /\ store' = store /\ lineage' = lineage
  BY DEF Locally, Crash, Invoke, durable, Initialize, FinishReconcile,
         FinishProject, TopReturns, TakeApproval, TakePending, AskProvider, CheckExhausted,
         ProviderDeclines, RefuseProposal, PutFails, FinishPut, SuccessRefused
<1>2. TypeOK /\ pc \in [Drivers -> PCs] /\ loc \in [Drivers -> Locals] /\ FlowAt(d)
  BY DEF FlowInv, TypeOK
<1>3. Calls' = Calls /\ Succeeded' = Succeeded
  BY <1>1 DEF Calls, Succeeded, OfType
<1>4. FlowAt(d)'
  <2>1. CASE TakePending(d)
    <3>1. pc'[d] = "check_exhausted" \/ (pc'[d] = "start_call" /\ loc'[d].call \in PendingExecution)
      BY <1>2, <2>1 DEF TakePending, Locals
    <3>2. PendingExecution \subseteq Calls
      BY DEF PendingExecution
    <3>3. QED
      BY <1>3, <3>1, <3>2 DEF FlowAt
  <2>2. CASE FinishPut(d)
    <3>1. /\ pc[d] = "put" /\ pc'[d] = "succeed" /\ loc'[d] = loc[d]
          /\ Contents(loc[d].outs) \subseteq store
      BY <1>2, <2>2 DEF FinishPut
    <3>2. QED
      BY <1>1, <1>2, <1>3, <3>1 DEF FlowAt
  <2>3. CASE ~TakePending(d) /\ ~FinishPut(d)
    <3>1. pc'[d] \notin {"start_call", "execute", "put", "succeed", "project"}
      BY <1>2, <2>3
         DEF Locally, Crash, Invoke, Return, Initialize, FinishReconcile, FinishProject, TopReturns,
             TakeApproval, AskProvider, CheckExhausted, ProviderDeclines, RefuseProposal, PutFails,
             SuccessRefused
    <3>2. QED
      BY <3>1 DEF FlowAt
  <2>4. QED
    BY <2>1, <2>2, <2>3
<1>5. ASSUME NEW x \in Drivers PROVE FlowAt(x)'
  <2>1. CASE x = d
    BY <1>4, <2>1
  <2>2. CASE x # d
    <3>1. pc'[x] = pc[x] /\ loc'[x] = loc[x]
      BY <1>2, <2>2, OthersStay DEF StepOf, DriverStep
    <3>2. QED
      BY <1>1, <1>3, <3>1, FlowAtKept DEF FlowInv
  <2>3. QED
    BY <2>1, <2>2
<1>6. QED
  BY <1>1, <1>5, FlowQuiet

LEMMA OutsideFlow ==
  ASSUME FlowInv, TypeOK', NEW d \in Drivers, Outside(d) PROVE FlowInv'
<1> USE DEF At, Goto
<1>1. TypeOK /\ pc \in [Drivers -> PCs] /\ loc \in [Drivers -> Locals] /\ FlowAt(d)
  BY DEF FlowInv, TypeOK
<1>2. ledger' = ledger /\ store \subseteq store'
  BY DEF Outside, AddRelation, PutDraft, Execute, durable
<1>3. Calls' = Calls /\ Succeeded' = Succeeded
  BY <1>2 DEF Calls, Succeeded, OfType
<1>4. FlowAt(d)'
  <2>1. CASE Execute(d)
    <3>1. /\ pc[d] = "execute" /\ pc'[d] \in {"fail", "put"}
          /\ loc'[d].call = loc[d].call
      BY <1>1, <2>1 DEF Execute, Locals
    <3>2. QED
      BY <1>1, <1>3, <3>1 DEF FlowAt
  <2>2. CASE AddRelation(d) \/ PutDraft(d)
    BY <1>1, <1>2, <1>3, <2>2, FlowAtKept DEF AddRelation, PutDraft
  <2>3. QED
    BY <2>1, <2>2 DEF Outside
<1>5. ASSUME NEW x \in Drivers PROVE FlowAt(x)'
  <2>1. CASE x = d
    BY <1>4, <2>1
  <2>2. CASE x # d
    <3>1. pc'[x] = pc[x] /\ loc'[x] = loc[x]
      BY <1>1, <2>2, OthersStay DEF StepOf, DriverStep
    <3>2. QED
      BY <1>2, <1>3, <3>1, FlowAtKept DEF FlowInv
  <2>3. QED
    BY <2>1, <2>2
<1>6. CASE PutDraft(d) \/ Execute(d)
  <2>1. lineage' = lineage
    BY <1>6 DEF PutDraft, Execute, durable
  <2>2. QED
    BY <1>2, <1>5, <2>1, FlowQuiet
<1>7. CASE AddRelation(d)
  <2>1. PICK r \in Due(d) : lineage' = lineage \cup {r}
    BY <1>7 DEF AddRelation
  <2>2. PICK i \in Succeeded : r \in Relations(i)
    BY <1>1, <1>7, <2>1 DEF AddRelation, Due, FlowAt, Succeeded
  <2>3. /\ store' = store /\ ledger' = ledger
        /\ LineageSound /\ InputsVisible
        /\ ledger[i].call \in Calls /\ Contents(ledger[i].data) \subseteq store
    BY <1>7 DEF FlowInv, DataFlowSound, AddRelation
  <2>4. ledger[ledger[i].call].data.inputs \subseteq store
    BY <2>3, VisiblePublished DEF InputsVisible
  <2>5. /\ r.event = i /\ r.subject \in store
        /\ r.kind = "DERIVED_FROM" => r.object \in store
    BY <2>2, <2>3, <2>4 DEF Relations
  <2>6. \A n : Relations(n)' = Relations(n) /\ Visible(n)' = Visible(n)
    BY <2>3 DEF Relations, Visible, OfType
  <2>7. LineageSound'
    BY <1>3, <2>1, <2>2, <2>3, <2>5, <2>6 DEF LineageSound, Succeeded
  <2>8. InputsVisible'
    BY <1>3, <2>3, <2>6 DEF InputsVisible
  <2>9. QED
    BY <1>3, <1>5, <2>3, <2>7, <2>8 DEF FlowInv, DataFlowSound
<1>8. QED
  BY <1>6, <1>7 DEF Outside

LEMMA NextFlow == FlowInv /\ [Next]_vars => FlowInv'
<1> SUFFICES ASSUME FlowInv, [Next]_vars PROVE FlowInv'
  OBVIOUS
<1>1. TypeOK'
  BY NextTyped DEF FlowInv
<1>2. CASE UNCHANGED vars
  <2>1. \A d \in Drivers : FlowAt(d)'
    BY <1>2, FlowAtKept DEF vars, FlowInv, Calls, Succeeded, OfType
  <2>2. QED
    BY <1>1, <1>2, <2>1, FlowQuiet DEF vars
<1>3. CASE Next
  <2>1. PICK d \in Drivers : StepOf(d)
    BY <1>3 DEF Next, StepOf
  <2>2. QED
    BY <1>1, <2>1, AppendsFlow, LocallyFlow, OutsideFlow DEF StepOf, DriverStep
<1>4. QED
  BY <1>2, <1>3

\* Whatever number of drivers work on a run and wherever they die, a tool reads only
\* what the run had before its call, and the lineage relates only what is published
\* and recorded (_visible_artifacts, _execute_call, _project_success).
THEOREM DataFlow == Spec => []DataFlowSound
<1>1. FlowInv => DataFlowSound
  BY DEF FlowInv
<1>2. QED
  BY <1>1, InitFlow, NextFlow, PTL DEF Spec

(***************************************************************************)
(* The limits, for any finite number of drivers                            *)
(***************************************************************************)

\* Drivers that may still append a decision, or a call, on an earlier look.
Consulting == {d \in Drivers : pc[d] = "decide"}
Proposing == {d \in Drivers : pc[d] \in {"decide", "materialize"}}

\* What is recorded and what may still be recorded by those past the check.
LimitsInv ==
  /\ TypeOK
  /\ Decisions + Cardinality(Consulting) <= MaxDecisions + Cardinality(Drivers) - 1
  /\ ToolCalls + Cardinality(Proposing) <= MaxToolCalls + Cardinality(Drivers) - 1
  /\ ToolCalls + Cardinality(Proposing) <= MaxSteps + Cardinality(Drivers) - 1

LEMMA CountsFinite ==
  ASSUME TypeOK, NEW t
  PROVE  IsFiniteSet(OfType(t)) /\ Cardinality(OfType(t)) \in Nat
<1>1. OfType(t) \subseteq 1..Len(ledger) /\ Len(ledger) \in Nat
  BY DEF TypeOK, OfType
<1>2. IsFiniteSet(1..Len(ledger))
  BY <1>1, FS_Interval
<1>3. IsFiniteSet(OfType(t))
  BY <1>1, <1>2, FS_Subset
<1>4. QED
  BY <1>3, FS_CardinalityType

LEMMA CountAfterLog ==
  ASSUME TypeOK, NEW e \in Event, ledger' = Append(ledger, e), NEW t
  PROVE  Cardinality(OfType(t)') = Cardinality(OfType(t)) + (IF e.type = t THEN 1 ELSE 0)
<1>1. Len(ledger) + 1 \notin OfType(t)
  BY TypesAfterLog DEF OfType
<1>2. OfType(t)' = OfType(t) \cup (IF e.type = t THEN {Len(ledger) + 1} ELSE {})
  BY TypesAfterLog
<1>3. IsFiniteSet(OfType(t)) /\ Cardinality(OfType(t)) \in Nat
  BY CountsFinite
<1>4. CASE e.type = t
  <2>1. OfType(t)' = OfType(t) \cup {Len(ledger) + 1}
    BY <1>2, <1>4
  <2>2. QED
    BY <1>1, <1>3, <1>4, <2>1, FS_AddElement
<1>5. CASE e.type # t
  BY <1>2, <1>3, <1>5
<1>6. QED
  BY <1>4, <1>5

LEMMA InitLimits == ASSUME IsFiniteSet(Drivers) PROVE Init => LimitsInv
<1> SUFFICES ASSUME Init PROVE LimitsInv
  OBVIOUS
<1>1. TypeOK
  BY InitTyped
<1>2. ledger = <<>> /\ \A d \in Drivers : pc[d] = "idle"
  BY DEF Init
<1>3. /\ OfType("DECISION_RECORDED") = {} /\ Calls = {} /\ Consulting = {} /\ Proposing = {}
  BY <1>2 DEF OfType, Calls, Consulting, Proposing
<1>4. Cardinality(Drivers) \in Nat /\ Cardinality({}) = 0
  BY FS_CardinalityType, FS_EmptySet
<1>5. QED
  BY <1>1, <1>3, <1>4, LimitsAssumption DEF LimitsInv, Decisions, ToolCalls

\* Only the drivers' own steps move them past the check or back.
LEMMA LimitsStep ==
  ASSUME IsFiniteSet(Drivers), LimitsInv, TypeOK', NEW d \in Drivers, StepOf(d)
  PROVE  LimitsInv'
<1> USE DEF At, Goto
<1>1. TypeOK /\ pc \in [Drivers -> PCs]
  BY DEF LimitsInv, TypeOK
<1>2. \A x \in Drivers \ {d} : pc'[x] = pc[x]
  BY <1>1, OthersStay
<1>3. /\ IsFiniteSet(Consulting) /\ IsFiniteSet(Proposing)
      /\ Cardinality(Consulting) \in Nat /\ Cardinality(Proposing) \in Nat
      /\ Cardinality(Consulting) <= Cardinality(Drivers)
      /\ Cardinality(Proposing) <= Cardinality(Drivers)
      /\ Cardinality(Drivers) \in Nat
  <2>1. Consulting \subseteq Drivers /\ Proposing \subseteq Drivers
    BY DEF Consulting, Proposing
  <2>2. QED
    BY <2>1, FS_Subset, FS_CardinalityType
<1>4. /\ Cardinality(Consulting') \in Nat /\ Cardinality(Proposing') \in Nat
      /\ Cardinality(Consulting') <= Cardinality(Drivers)
      /\ Cardinality(Proposing') <= Cardinality(Drivers)
  <2>1. Consulting' \subseteq Drivers /\ Proposing' \subseteq Drivers
    BY DEF Consulting, Proposing
  <2>2. QED
    BY <2>1, FS_Subset, FS_CardinalityType
<1>5. Decisions \in Nat /\ ToolCalls \in Nat
  BY <1>1, CountsFinite DEF Decisions, ToolCalls, Calls
<1>6. /\ Decisions + Cardinality(Consulting) <= MaxDecisions + Cardinality(Drivers) - 1
      /\ ToolCalls + Cardinality(Proposing) <= MaxToolCalls + Cardinality(Drivers) - 1
      /\ ToolCalls + Cardinality(Proposing) <= MaxSteps + Cardinality(Drivers) - 1
      /\ MaxDecisions \in Nat /\ MaxToolCalls \in Nat /\ MaxSteps \in Nat
  BY LimitsAssumption DEF LimitsInv
<1>7. ASSUME Consulting' \subseteq Consulting
      PROVE  Cardinality(Consulting') <= Cardinality(Consulting)
  BY <1>3, <1>7, FS_Subset
<1>8. ASSUME Proposing' \subseteq Proposing
      PROVE  Cardinality(Proposing') <= Cardinality(Proposing)
  BY <1>3, <1>8, FS_Subset
<1>9. CASE \E action \in ProviderActions : Decide(d, action)
  <2>1. PICK action \in ProviderActions : Decide(d, action)
    BY <1>9
  <2>2. /\ pc[d] = "decide" /\ pc'[d] \in {"materialize", "stop", "review"}
    BY <1>1, <2>1 DEF Decide, ProviderActions
  <2>3. PICK e \in Event : ledger' = Append(ledger, e) /\ e.type = "DECISION_RECORDED"
    BY <1>1, <1>9, <2>2, LoggedEvent DEF Appends
  <2>4. Decisions' = Decisions + 1 /\ ToolCalls' = ToolCalls
    BY <1>1, <1>5, <2>3, CountAfterLog DEF Decisions, ToolCalls, Calls
  <2>5. Consulting' = Consulting \ {d} /\ d \in Consulting /\ Proposing' \subseteq Proposing
    BY <1>2, <2>2 DEF Consulting, Proposing
  <2>6. Cardinality(Consulting') = Cardinality(Consulting) - 1
    BY <1>3, <2>5, FS_RemoveElement
  <2>7. QED
    BY <1>3, <1>4, <1>5, <1>6, <1>8, <2>4, <2>5, <2>6 DEF LimitsInv
<1>10. CASE Materialize(d)
  <2>1. pc[d] = "materialize" /\ pc'[d] \in {"require_approval", "start_call"}
    BY <1>1, <1>10 DEF Materialize
  <2>2. PICK e \in Event : ledger' = Append(ledger, e) /\ e.type = "TOOL_CALL_MATERIALIZED"
    BY <1>1, <1>10, <2>1, LoggedEvent DEF Appends
  <2>3. Decisions' = Decisions /\ ToolCalls' = ToolCalls + 1
    BY <1>1, <1>5, <2>2, CountAfterLog DEF Decisions, ToolCalls, Calls
  <2>4. Proposing' = Proposing \ {d} /\ d \in Proposing /\ Consulting' \subseteq Consulting
    BY <1>2, <2>1 DEF Consulting, Proposing
  <2>5. Cardinality(Proposing') = Cardinality(Proposing) - 1
    BY <1>3, <2>4, FS_RemoveElement
  <2>6. QED
    BY <1>3, <1>4, <1>5, <1>6, <1>7, <2>3, <2>4, <2>5 DEF LimitsInv
<1>11. CASE AskProvider(d)
  <2>1. /\ ledger' = ledger
        /\ \/ LimitReached /\ pc'[d] = "check_exhausted"
           \/ ~LimitReached /\ pc'[d] = "decide"
    BY <1>1, <1>11 DEF AskProvider, durable
  <2>2. Decisions' = Decisions /\ ToolCalls' = ToolCalls
    BY <2>1 DEF Decisions, ToolCalls, Calls, OfType
  <2>3. CASE LimitReached
    <3>1. Consulting' \subseteq Consulting /\ Proposing' \subseteq Proposing
      BY <1>2, <2>1, <2>3 DEF Consulting, Proposing
    <3>2. QED
      BY <1>3, <1>4, <1>5, <1>6, <1>7, <1>8, <2>2, <3>1 DEF LimitsInv
  <2>4. CASE ~LimitReached
    <3>1. Decisions < MaxDecisions /\ ToolCalls < MaxToolCalls /\ ToolCalls < MaxSteps
      BY <1>5, <1>6, <2>4 DEF LimitReached, Steps
    <3>2. QED
      BY <1>3, <1>4, <1>5, <1>6, <2>2, <3>1 DEF LimitsInv
  <2>5. QED
    BY <2>3, <2>4
<1>12. CASE ~((\E action \in ProviderActions : Decide(d, action)) \/ Materialize(d) \/ AskProvider(d))
  <2>1. Consulting' \subseteq Consulting /\ Proposing' \subseteq Proposing
    <3>1. CASE pc'[d] \notin {"decide", "materialize"} \/ pc'[d] = pc[d]
      BY <1>2, <3>1 DEF Consulting, Proposing
    <3>2. pc'[d] \notin {"decide", "materialize"} \/ pc'[d] = pc[d]
      BY <1>1, <1>12
         DEF StepOf, DriverStep, Appends, Locally, Outside, Crash, Invoke, Return, StartRun,
             RecordApproval, RejectCall, RejectRun, Exhaust, StopRun, RequestReview,
             RequireApproval, StartCall, Succeed, Fail, Initialize, FinishReconcile,
             FinishProject, TopReturns, TakeApproval, TakePending, CheckExhausted,
             ProviderDeclines, RefuseProposal, PutFails, FinishPut, SuccessRefused,
             AddRelation, PutDraft, Execute
    <3>3. QED
      BY <3>1, <3>2
  <2>2. Decisions' = Decisions /\ ToolCalls' = ToolCalls
    <3>1. CASE Appends(d)
      <4>1. PICK e \in Event :
              /\ ledger' = Append(ledger, e)
              /\ e.type \notin {"DECISION_RECORDED", "TOOL_CALL_MATERIALIZED"}
        BY <1>1, <1>12, <3>1, LoggedEvent
           DEF Appends, StartRun, RecordApproval, RejectCall, RejectRun, Exhaust, StopRun,
               RequestReview, RequireApproval, StartCall, Succeed, Fail
      <4>2. QED
        BY <1>1, <1>5, <4>1, CountAfterLog DEF Decisions, ToolCalls, Calls
    <3>2. CASE ~Appends(d)
      <4>1. ledger' = ledger
        BY <3>2
           DEF StepOf, DriverStep, Locally, Outside, Crash, Invoke, durable, Initialize,
               FinishReconcile, FinishProject, TopReturns, TakeApproval, TakePending, AskProvider,
               CheckExhausted, ProviderDeclines, RefuseProposal, PutFails, FinishPut,
               SuccessRefused, AddRelation, PutDraft, Execute
      <4>2. QED
        BY <4>1 DEF Decisions, ToolCalls, Calls, OfType
    <3>3. QED
      BY <3>1, <3>2
  <2>3. QED
    BY <1>3, <1>4, <1>5, <1>6, <1>7, <1>8, <2>1, <2>2 DEF LimitsInv
<1>13. QED
  BY <1>9, <1>10, <1>11, <1>12

LEMMA NextLimits ==
  ASSUME IsFiniteSet(Drivers) PROVE LimitsInv /\ [Next]_vars => LimitsInv'
<1> SUFFICES ASSUME LimitsInv, [Next]_vars PROVE LimitsInv'
  OBVIOUS
<1>1. TypeOK'
  BY NextTyped DEF LimitsInv
<1>2. CASE UNCHANGED vars
  BY <1>1, <1>2 DEF vars, LimitsInv, Decisions, ToolCalls, Calls, OfType, Consulting, Proposing
<1>3. CASE Next
  <2>1. PICK d \in Drivers : StepOf(d)
    BY <1>3 DEF Next, StepOf
  <2>2. QED
    BY <1>1, <2>1, LimitsStep
<1>4. QED
  BY <1>2, <1>3

-----------------------------------------------------------------------------
(***************************************************************************)
(* One driver at a time: executions, rejections and approvals              *)
(***************************************************************************)

\* The calls some event of a kind is about.
StartedCalls == {ledger[i].call : i \in OfType("TOOL_EXECUTION_STARTED")}
RequiredCalls == {ledger[i].call : i \in OfType("APPROVAL_REQUIRED")}
RecordedCalls == {ledger[i].call : i \in OfType("APPROVAL_RECORDED")}
DecidedPositions(decision) ==
  {i \in OfType("APPROVAL_RECORDED") : ledger[i].data.decision = decision}
ApprovedCalls == {ledger[i].call : i \in DecidedPositions("APPROVED")}
RejectedCalls == {ledger[i].call : i \in DecidedPositions("REJECTED")}

\* What the place of a driver in run() says of the call in its hand.  The read at
\* the top of the loop established it; only the driver's own appends come between.
CallInHand ==
  \A d \in Drivers :
    /\ pc[d] = "require_approval" => loc[d].call \notin StartedCalls
    /\ pc[d] = "record_approval" => loc[d].call \in RequiredCalls \ StartedCalls
    /\ pc[d] = "start_call" =>
         /\ loc[d].call \notin StartedCalls \cup RejectedCalls
         /\ loc[d].call \in RequiredCalls => loc[d].call \in ApprovedCalls
    /\ pc[d] = "execute" => loc[d].call \in StartedCalls \ Contents(effects)

\* The inductive strengthening of the three properties.
ExecutionInv ==
  /\ TypeOK
  /\ Contents(effects) \subseteq StartedCalls
  /\ RecordedCalls \subseteq RequiredCalls
  /\ RejectedCalls \cap StartedCalls = {}
  /\ ExecutedAtMostOnce
  /\ ApprovalPrecedesStart
  /\ CallInHand

-----------------------------------------------------------------------------
(* What appending an event does to these sets *)

\* The calls an event can be about are positions of the ledger (or 0): the number
\* of the call to be materialized next is fresh.
LEMMA CallsBehind ==
  ASSUME TypeOK
  PROVE  /\ StartedCalls \subseteq 0..Len(ledger)
         /\ RequiredCalls \subseteq 0..Len(ledger)
         /\ RejectedCalls \subseteq 0..Len(ledger)
<1>1. \A i \in DOMAIN ledger : ledger[i].call \in 0..Len(ledger)
  <2> SUFFICES ASSUME NEW i \in DOMAIN ledger PROVE ledger[i].call \in 0..Len(ledger)
    OBVIOUS
  <2>1. ledger[i] \in Event /\ ledger[i].call <= i /\ i \in 1..Len(ledger) /\ Len(ledger) \in Nat
    BY DEF TypeOK
  <2>2. ledger[i].call \in Nat
    BY <2>1 DEF Event
  <2>3. QED
    BY <2>1, <2>2
<1>2. QED
  BY <1>1 DEF StartedCalls, RequiredCalls, RejectedCalls, DecidedPositions, OfType

\* The positions of the events of one type after an append.
LEMMA PositionsAfter ==
  ASSUME TypeOK, NEW e \in Event, ledger' = Append(ledger, e)
  PROVE  /\ Len(ledger) \in Nat
         /\ DOMAIN ledger = 1..Len(ledger) /\ DOMAIN ledger' = 1..(Len(ledger) + 1)
         /\ \A i \in DOMAIN ledger : ledger'[i] = ledger[i]
         /\ ledger'[Len(ledger) + 1] = e
<1>1. ledger \in Seq(Event)
  BY DEF TypeOK
<1>2. QED
  BY <1>1, AppendFacts

LEMMA SetsAfterLog ==
  ASSUME TypeOK, NEW e \in Event, ledger' = Append(ledger, e)
  PROVE  /\ StartedCalls' = IF e.type = "TOOL_EXECUTION_STARTED"
                            THEN StartedCalls \cup {e.call} ELSE StartedCalls
         /\ RequiredCalls' = IF e.type = "APPROVAL_REQUIRED"
                             THEN RequiredCalls \cup {e.call} ELSE RequiredCalls
         /\ RecordedCalls' = IF e.type = "APPROVAL_RECORDED"
                             THEN RecordedCalls \cup {e.call} ELSE RecordedCalls
         /\ ApprovedCalls' = IF e.type = "APPROVAL_RECORDED" /\ e.data.decision = "APPROVED"
                             THEN ApprovedCalls \cup {e.call} ELSE ApprovedCalls
         /\ RejectedCalls' = IF e.type = "APPROVAL_RECORDED" /\ e.data.decision = "REJECTED"
                             THEN RejectedCalls \cup {e.call} ELSE RejectedCalls
<1> DEFINE n == Len(ledger) + 1
<1>1. /\ DOMAIN ledger' = DOMAIN ledger \cup {n} /\ n \notin DOMAIN ledger
      /\ \A i \in DOMAIN ledger : ledger'[i] = ledger[i]
      /\ ledger'[n] = e
  BY PositionsAfter
<1> HIDE DEF n
<1>2. StartedCalls' = IF e.type = "TOOL_EXECUTION_STARTED"
                      THEN StartedCalls \cup {e.call} ELSE StartedCalls
  BY <1>1 DEF StartedCalls, OfType
<1>3. RequiredCalls' = IF e.type = "APPROVAL_REQUIRED"
                       THEN RequiredCalls \cup {e.call} ELSE RequiredCalls
  BY <1>1 DEF RequiredCalls, OfType
<1>4. RecordedCalls' = IF e.type = "APPROVAL_RECORDED"
                       THEN RecordedCalls \cup {e.call} ELSE RecordedCalls
  BY <1>1 DEF RecordedCalls, OfType
<1>5. ApprovedCalls' = IF e.type = "APPROVAL_RECORDED" /\ e.data.decision = "APPROVED"
                       THEN ApprovedCalls \cup {e.call} ELSE ApprovedCalls
  BY <1>1 DEF ApprovedCalls, DecidedPositions, OfType
<1>6. RejectedCalls' = IF e.type = "APPROVAL_RECORDED" /\ e.data.decision = "REJECTED"
                       THEN RejectedCalls \cup {e.call} ELSE RejectedCalls
  BY <1>1 DEF RejectedCalls, DecidedPositions, OfType
<1>7. QED
  BY <1>2, <1>3, <1>4, <1>5, <1>6

\* The order of starts and approvals survives an append that starts only an
\* approved call and requires approval only for a call not started yet.
LEMMA OrderAfterLog ==
  ASSUME TypeOK, ApprovalPrecedesStart, NEW e \in Event, ledger' = Append(ledger, e),
         e.type = "TOOL_EXECUTION_STARTED" => (e.call \in RequiredCalls => e.call \in ApprovedCalls),
         e.type = "APPROVAL_REQUIRED" => e.call \notin StartedCalls
  PROVE  ApprovalPrecedesStart'
<1> DEFINE n == Len(ledger) + 1
<1>1. /\ DOMAIN ledger' = DOMAIN ledger \cup {n} /\ n \notin DOMAIN ledger
      /\ \A i \in DOMAIN ledger : ledger'[i] = ledger[i] /\ i < n
      /\ ledger'[n] = e
  BY PositionsAfter
<1> HIDE DEF n
<1> DEFINE NeedsApproval(c, log) ==
             \E k \in DOMAIN log : log[k].type = "APPROVAL_REQUIRED" /\ log[k].call = c
           ApprovedBefore(c, i, log) ==
             \E j \in DOMAIN log : /\ log[j].type = "APPROVAL_RECORDED" /\ log[j].call = c
                                   /\ j < i /\ log[j].data.decision = "APPROVED"
<1>2. \A i \in DOMAIN ledger :
        ledger[i].type = "TOOL_EXECUTION_STARTED" /\ NeedsApproval(ledger[i].call, ledger)
          => ApprovedBefore(ledger[i].call, i, ledger)
  BY DEF ApprovalPrecedesStart, OfType, Required, Has, Where
<1>3. SUFFICES ASSUME NEW i \in DOMAIN ledger', ledger'[i].type = "TOOL_EXECUTION_STARTED",
                      NeedsApproval(ledger'[i].call, ledger')
               PROVE  ApprovedBefore(ledger'[i].call, i, ledger')
  BY DEF ApprovalPrecedesStart, OfType, Required, Has, Where
<1>4. CASE i = n
  <2>1. e.call \in RequiredCalls
    BY <1>1, <1>3, <1>4 DEF RequiredCalls, OfType
  <2>2. e.call \in ApprovedCalls
    BY <1>1, <1>3, <1>4, <2>1
  <2>3. QED
    BY <1>1, <1>4, <2>2 DEF ApprovedCalls, DecidedPositions, OfType
<1>5. CASE i \in DOMAIN ledger
  <2>1. ledger[i].call \in StartedCalls
    BY <1>1, <1>3, <1>5 DEF StartedCalls, OfType
  <2>2. NeedsApproval(ledger[i].call, ledger)
    BY <1>1, <1>3, <1>5, <2>1
  <2>3. ApprovedBefore(ledger[i].call, i, ledger)
    BY <1>1, <1>2, <1>3, <1>5, <2>2
  <2>4. QED
    BY <1>1, <1>5, <2>3
<1>6. QED
  BY <1>1, <1>4, <1>5

\* Appending to the executions keeps them distinct when the call is new.
LEMMA EffectsAfterExecute ==
  ASSUME TypeOK, ExecutedAtMostOnce, NEW c \in Nat, c \notin Contents(effects),
         effects' = Append(effects, c)
  PROVE  ExecutedAtMostOnce' /\ Contents(effects') = Contents(effects) \cup {c}
<1> DEFINE n == Len(effects) + 1
<1>0. effects \in Seq(Nat)
  BY DEF TypeOK
<1>1. /\ DOMAIN effects' = DOMAIN effects \cup {n} /\ n \notin DOMAIN effects
      /\ \A i \in DOMAIN effects : effects'[i] = effects[i]
      /\ effects'[n] = c
  BY <1>0, AppendFacts
<1> HIDE DEF n
<1>2. \A i \in DOMAIN effects : effects[i] # c
  BY DEF Contents
<1>3. QED
  BY <1>1, <1>2 DEF ExecutedAtMostOnce, Contents

-----------------------------------------------------------------------------
(* The invariant is inductive when there is one driver *)

Holding == {"require_approval", "record_approval", "start_call", "execute"}

LEMMA InitExecution == Init => ExecutionInv
<1> SUFFICES ASSUME Init PROVE ExecutionInv
  OBVIOUS
<1>1. TypeOK
  BY InitTyped
<1>2. ledger = <<>> /\ effects = <<>> /\ \A d \in Drivers : pc[d] = "idle"
  BY DEF Init
<1>3. DOMAIN ledger = {} /\ DOMAIN effects = {}
  BY <1>2
<1>4. QED
  BY <1>1, <1>2, <1>3
     DEF ExecutionInv, StartedCalls, RecordedCalls, RejectedCalls, DecidedPositions, OfType,
         ExecutedAtMostOnce, ApprovalPrecedesStart, CallInHand, Contents

\* The only driver leaves the places where CallInHand says anything.
LEMMA HandsEmpty ==
  ASSUME AtMostOne(Drivers), NEW d \in Drivers, pc'[d] \notin Holding
  PROVE  CallInHand'
BY DEF AtMostOne, Holding, CallInHand

\* A step that appends nothing and runs no tool.
LEMMA QuietExecution ==
  ASSUME ExecutionInv, TypeOK', ledger' = ledger, effects' = effects, CallInHand'
  PROVE  ExecutionInv'
<1>1. /\ StartedCalls' = StartedCalls /\ RecordedCalls' = RecordedCalls
      /\ RequiredCalls' = RequiredCalls /\ RejectedCalls' = RejectedCalls
  BY DEF StartedCalls, RecordedCalls, RequiredCalls, RejectedCalls, DecidedPositions, OfType
<1>2. ApprovalPrecedesStart'
  BY DEF ExecutionInv, ApprovalPrecedesStart, OfType, Required, Has, Where
<1>3. ExecutedAtMostOnce' /\ Contents(effects') = Contents(effects)
  BY DEF ExecutionInv, ExecutedAtMostOnce
<1>4. QED
  BY <1>1, <1>2, <1>3 DEF ExecutionInv

\* A step that appends an event of no importance to the executions.
LEMMA PlainLog ==
  ASSUME ExecutionInv, TypeOK', NEW e \in Event, ledger' = Append(ledger, e), effects' = effects,
         e.type \notin {"TOOL_EXECUTION_STARTED", "APPROVAL_REQUIRED", "APPROVAL_RECORDED"},
         CallInHand'
  PROVE  ExecutionInv'
<1>1. TypeOK /\ ApprovalPrecedesStart
  BY DEF ExecutionInv
<1>2. /\ StartedCalls' = StartedCalls /\ RecordedCalls' = RecordedCalls
      /\ RequiredCalls' = RequiredCalls /\ RejectedCalls' = RejectedCalls
  BY <1>1, SetsAfterLog
<1>3. ApprovalPrecedesStart'
  BY <1>1, OrderAfterLog
<1>4. ExecutedAtMostOnce' /\ Contents(effects') = Contents(effects)
  BY DEF ExecutionInv, ExecutedAtMostOnce
<1>5. QED
  BY <1>2, <1>3, <1>4 DEF ExecutionInv

LEMMA LocallyExecution ==
  ASSUME AtMostOne(Drivers), ExecutionInv, TypeOK', NEW d \in Drivers, Locally(d)
  PROVE  ExecutionInv'
<1> USE DEF At, Goto
<1>1. /\ ledger' = ledger /\ effects' = effects
      /\ TypeOK /\ pc \in [Drivers -> PCs] /\ loc \in [Drivers -> Locals]
      /\ \A e \in Drivers : e = d
  BY DEF Locally, durable, ExecutionInv, TypeOK, AtMostOne, Initialize, FinishReconcile,
         FinishProject, TopReturns, TakeApproval, TakePending, AskProvider, CheckExhausted,
         ProviderDeclines, RefuseProposal, PutFails, FinishPut, SuccessRefused
<1>2. /\ StartedCalls' = StartedCalls /\ RequiredCalls' = RequiredCalls
      /\ ApprovedCalls' = ApprovedCalls /\ RejectedCalls' = RejectedCalls
  BY <1>1 DEF StartedCalls, RequiredCalls, ApprovedCalls, RejectedCalls, DecidedPositions, OfType
<1>3. CASE TakeApproval(d)
  <2>1. /\ pc'[d] = "record_approval" /\ loc'[d].call = loc[d].approval.call
        /\ loc[d].approval.call \in PendingApproval
    BY <1>1, <1>3 DEF TakeApproval, AnswersPending, Locals
  <2>2. loc[d].approval.call \in RequiredCalls \ StartedCalls
    BY <2>1 DEF PendingApproval, RequiredCalls, StartedCalls, Required, Started, Has, Where
  <2>3. CallInHand'
    BY <1>1, <1>2, <2>1, <2>2 DEF CallInHand
  <2>4. QED
    BY <1>1, <2>3, QuietExecution
<1>4. CASE TakePending(d)
  <2>1. PICK c \in PendingExecution :
          \/ pc'[d] = "check_exhausted"
          \/ pc'[d] = "start_call" /\ loc'[d].call = c
    BY <1>1, <1>4 DEF TakePending, Locals
  <2>2. c \in Calls /\ c \notin StartedCalls
    BY DEF PendingExecution, StartedCalls, Started, Has, Where
  <2>3. c \in RequiredCalls => c \in ApprovedCalls
    BY DEF PendingExecution, RequiredCalls, Required, Has, Where, Decided, ApprovedCalls,
           DecidedPositions
  <2>4. c \notin RejectedCalls
    <3>1. ASSUME c \in RejectedCalls PROVE FALSE
      <4>1. PICK i \in Where("APPROVAL_RECORDED", c) : ledger[i].data.decision = "REJECTED"
        BY <3>1 DEF RejectedCalls, DecidedPositions, Where
      <4>2. c \in RequiredCalls
        <5>1. c \in RecordedCalls
          BY <4>1 DEF RecordedCalls, Where
        <5>2. QED
          BY <5>1 DEF ExecutionInv
      <4>3. Required(c)
        BY <4>2 DEF RequiredCalls, Required, Has, Where
      <4>4. PICK j \in Where("APPROVAL_RECORDED", c) : ledger[j].data.decision = "APPROVED"
        BY <4>3 DEF PendingExecution, Decided
      <4>5. i = j
        BY <1>4, <2>2 DEF TakePending, PastApproval, Projectable, AtMostOne
      <4>6. QED
        BY <4>1, <4>4, <4>5
    <3>2. QED
      BY <3>1
  <2>5. CallInHand'
    BY <1>1, <1>2, <2>1, <2>2, <2>3, <2>4 DEF CallInHand
  <2>6. QED
    BY <1>1, <2>5, QuietExecution
<1>5. CASE ~TakeApproval(d) /\ ~TakePending(d)
  <2>1. pc'[d] \notin Holding
    BY <1>1, <1>5
       DEF Locally, Return, Holding, Initialize, FinishReconcile, FinishProject, TopReturns,
           AskProvider, CheckExhausted, ProviderDeclines, RefuseProposal, PutFails, FinishPut,
           SuccessRefused
  <2>2. QED
    BY <1>1, <2>1, HandsEmpty, QuietExecution
<1>6. QED
  BY <1>3, <1>4, <1>5

LEMMA OutsideExecution ==
  ASSUME AtMostOne(Drivers), ExecutionInv, TypeOK', NEW d \in Drivers, Outside(d)
  PROVE  ExecutionInv'
<1> USE DEF At, Goto
<1>1. /\ TypeOK /\ pc \in [Drivers -> PCs] /\ ExecutedAtMostOnce
  BY DEF ExecutionInv, TypeOK
<1>2. ledger' = ledger
  BY DEF Outside, AddRelation, PutDraft, Execute, durable
<1>3. /\ StartedCalls' = StartedCalls /\ RecordedCalls' = RecordedCalls
      /\ RequiredCalls' = RequiredCalls /\ RejectedCalls' = RejectedCalls
      /\ ApprovedCalls' = ApprovedCalls
  BY <1>2 DEF StartedCalls, RecordedCalls, RequiredCalls, RejectedCalls, ApprovedCalls,
              DecidedPositions, OfType
<1>4. CASE AddRelation(d) \/ PutDraft(d)
  <2>1. effects' = effects /\ pc' = pc /\ loc' = loc
    BY <1>4 DEF AddRelation, PutDraft
  <2>2. CallInHand'
    BY <1>3, <2>1 DEF ExecutionInv, CallInHand
  <2>3. QED
    BY <1>2, <2>1, <2>2, QuietExecution
<1>5. CASE Execute(d)
  <2>1. /\ loc[d].call \in Nat /\ loc[d].call \in StartedCalls \ Contents(effects)
        /\ effects' = Append(effects, loc[d].call) /\ pc'[d] \notin Holding
    BY <1>1, <1>5, DriverParts DEF Execute, ExecutionInv, CallInHand, Holding
  <2>2. ExecutedAtMostOnce' /\ Contents(effects') = Contents(effects) \cup {loc[d].call}
    BY <1>1, <2>1, EffectsAfterExecute
  <2>3. ApprovalPrecedesStart'
    BY <1>2 DEF ExecutionInv, ApprovalPrecedesStart, OfType, Required, Has, Where
  <2>4. CallInHand'
    BY <2>1, HandsEmpty
  <2>5. QED
    BY <1>3, <2>1, <2>2, <2>3, <2>4 DEF ExecutionInv
<1>6. QED
  BY <1>4, <1>5 DEF Outside

LEMMA AppendsExecution ==
  ASSUME AtMostOne(Drivers), ExecutionInv, TypeOK', NEW d \in Drivers, Appends(d)
  PROVE  ExecutionInv'
<1> USE DEF At, Goto, Log
<1>1. /\ effects' = effects /\ TypeOK /\ ApprovalPrecedesStart
      /\ pc \in [Drivers -> PCs] /\ loc \in [Drivers -> Locals] /\ \A e \in Drivers : e = d
      /\ Contents(effects') = Contents(effects) /\ (ExecutedAtMostOnce => ExecutedAtMostOnce')
  BY DEF Appends, ExecutionInv, TypeOK, AtMostOne, ExecutedAtMostOnce, StartRun, RecordApproval,
         RejectCall, RejectRun, Exhaust, Decide, StopRun, RequestReview, Materialize,
         RequireApproval, StartCall, Succeed, Fail
<1>2. loc[d].call \in Nat /\ loc[d].outs \in Drafts /\ Len(ledger) \in Nat
  BY <1>1, DriverParts
<1>3. CASE RecordApproval(d)
  <2> DEFINE e == Ev("APPROVAL_RECORDED", loc[d].call, loc[d].approval)
  <2>1. e \in Event /\ e.type = "APPROVAL_RECORDED" /\ e.call = loc[d].call /\ ledger' = Append(ledger, e)
    BY <1>1, <1>2, <1>3, DriverParts, EventsTyped DEF RecordApproval
  <2>2. e.call \in RequiredCalls \ StartedCalls
    BY <1>3, <2>1 DEF ExecutionInv, CallInHand, RecordApproval
  <2> HIDE DEF e
  <2>3. /\ StartedCalls' = StartedCalls /\ RequiredCalls' = RequiredCalls
        /\ RecordedCalls' = RecordedCalls \cup {e.call}
        /\ RejectedCalls' \subseteq RejectedCalls \cup {e.call}
    BY <1>1, <2>1, SetsAfterLog
  <2>4. ApprovalPrecedesStart'
    BY <1>1, <2>1, OrderAfterLog
  <2>5. pc'[d] \notin Holding
    BY <1>1, <1>3 DEF RecordApproval, Holding
  <2>6. CallInHand'
    BY <2>5, HandsEmpty
  <2>7. QED
    BY <1>1, <2>2, <2>3, <2>4, <2>6 DEF ExecutionInv
<1>4. CASE RequireApproval(d)
  <2> DEFINE e == Ev("APPROVAL_REQUIRED", loc[d].call, None)
  <2>1. e \in Event /\ e.type = "APPROVAL_REQUIRED" /\ e.call = loc[d].call /\ ledger' = Append(ledger, e)
    BY <1>2, <1>4, EventsTyped DEF RequireApproval
  <2>2. e.call \notin StartedCalls
    BY <1>4, <2>1 DEF ExecutionInv, CallInHand, RequireApproval
  <2> HIDE DEF e
  <2>3. /\ StartedCalls' = StartedCalls /\ RequiredCalls' = RequiredCalls \cup {e.call}
        /\ RecordedCalls' = RecordedCalls /\ RejectedCalls' = RejectedCalls
    BY <1>1, <2>1, SetsAfterLog
  <2>4. ApprovalPrecedesStart'
    BY <1>1, <2>1, <2>2, OrderAfterLog
  <2>5. pc'[d] \notin Holding
    BY <1>1, <1>4 DEF RequireApproval, Return, Holding
  <2>6. CallInHand'
    BY <2>5, HandsEmpty
  <2>7. QED
    BY <1>1, <2>3, <2>4, <2>6 DEF ExecutionInv
<1>5. CASE StartCall(d)
  <2> DEFINE e == Ev("TOOL_EXECUTION_STARTED", loc[d].call, None)
  <2>1. e \in Event /\ e.type = "TOOL_EXECUTION_STARTED" /\ e.call = loc[d].call /\ ledger' = Append(ledger, e)
    BY <1>2, <1>5, EventsTyped DEF StartCall
  <2>2. /\ e.call \notin StartedCalls \cup RejectedCalls
        /\ e.call \in RequiredCalls => e.call \in ApprovedCalls
    BY <1>5, <2>1 DEF ExecutionInv, CallInHand, StartCall
  <2>3. pc'[d] = "execute" /\ loc' = loc
    BY <1>1, <1>5 DEF StartCall
  <2> HIDE DEF e
  <2>4. /\ StartedCalls' = StartedCalls \cup {e.call} /\ RequiredCalls' = RequiredCalls
        /\ RecordedCalls' = RecordedCalls /\ RejectedCalls' = RejectedCalls
    BY <1>1, <2>1, SetsAfterLog
  <2>5. ApprovalPrecedesStart'
    BY <1>1, <2>1, <2>2, OrderAfterLog
  <2>6. e.call \in StartedCalls' \ Contents(effects')
    BY <1>1, <2>2, <2>4 DEF ExecutionInv
  <2>7. CallInHand'
    BY <1>1, <2>1, <2>3, <2>6 DEF CallInHand
  <2>8. QED
    BY <1>1, <2>2, <2>4, <2>5, <2>7 DEF ExecutionInv
<1>6. CASE Materialize(d)
  <2> DEFINE k == [tool |-> loc[d].proposal.tool, inputs |-> loc[d].proposal.inputs]
             e == Ev("TOOL_CALL_MATERIALIZED", Len(ledger) + 1, k)
  <2>1. loc[d].proposal \in Action
    BY <1>1, <1>6, DriverParts DEF Materialize
  <2>2. k \in Call
    BY <1>6, <2>1, SetsAssumption DEF Materialize, Acceptable, Action, Call
  <2>3. e \in Event /\ e.type = "TOOL_CALL_MATERIALIZED" /\ ledger' = Append(ledger, e)
    <3>1. ledger' = Append(ledger, e)
      BY <1>6 DEF Materialize
    <3>2. Len(ledger) + 1 \in Nat
      BY <1>2
    <3> HIDE DEF k
    <3>3. e \in Event /\ e.type = "TOOL_CALL_MATERIALIZED"
      BY <2>2, <3>2, EventsTyped
    <3>4. QED
      BY <3>1, <3>3
  <2>4. /\ pc'[d] \in {"require_approval", "start_call"}
        /\ loc'[d].call = Len(ledger) + 1
    BY <1>1, <1>6 DEF Materialize, Locals
  <2> HIDE DEF e
  <2>5. /\ StartedCalls' = StartedCalls /\ RequiredCalls' = RequiredCalls
        /\ RejectedCalls' = RejectedCalls
    BY <1>1, <2>3, SetsAfterLog
  <2>6. Len(ledger) + 1 \notin StartedCalls \cup RequiredCalls \cup RejectedCalls
    BY <1>1, <1>2, CallsBehind
  <2>7. CallInHand'
    BY <1>1, <2>4, <2>5, <2>6 DEF CallInHand
  <2>8. QED
    BY <1>1, <2>3, <2>7, PlainLog
\* What remains appends an event no execution depends on and holds no call.
<1>7. CASE ~(RecordApproval(d) \/ RequireApproval(d) \/ StartCall(d) \/ Materialize(d))
  <2>1. pc'[d] \notin Holding
    <3>1. \A a \in ProviderActions : a.kind \in {"stop", "review", "call"}
      BY DEF ProviderActions
    <3>2. QED
      BY <1>1, <1>7, <3>1
         DEF Appends, Holding, Return, StartRun, RejectCall, RejectRun, Exhaust, Decide,
             StopRun, RequestReview, Succeed, Fail
  <2>2. \E e \in Event : /\ ledger' = Append(ledger, e)
                         /\ e.type \notin {"TOOL_EXECUTION_STARTED", "APPROVAL_REQUIRED",
                                           "APPROVAL_RECORDED"}
    <3>1. CASE StartRun(d)
      <4>1. Ev("RUN_STARTED", 0, loc[d].request) \in Event
        BY <1>1, <3>1, DriverParts, EventsTyped DEF StartRun
      <4>2. QED
        BY <3>1, <4>1, EventsTyped DEF StartRun
    <3>2. CASE RejectCall(d)
      BY <1>2, <3>2, EventsTyped DEF RejectCall
    <3>3. CASE RejectRun(d)
      BY <1>2, <3>3, EventsTyped DEF RejectRun, RunTerminals
    <3>4. CASE Exhaust(d)
      BY <3>4, EventsTyped DEF Exhaust, RunTerminals
    <3>5. ASSUME NEW a \in ProviderActions, Decide(d, a)
          PROVE  \E e \in Event : /\ ledger' = Append(ledger, e)
                                  /\ e.type = "DECISION_RECORDED"
      <4>1. a \in Action
        BY DEF ProviderActions, Action
      <4>2. QED
        BY <3>5, <4>1, EventsTyped DEF Decide
    <3>6. CASE StopRun(d)
      BY <3>6, EventsTyped DEF StopRun, RunTerminals
    <3>7. CASE RequestReview(d)
      BY <3>7, EventsTyped DEF RequestReview
    <3>8. CASE Succeed(d)
      BY <1>2, <3>8, EventsTyped DEF Succeed
    <3>9. CASE Fail(d)
      BY <1>2, <3>9, EventsTyped DEF Fail
    <3>10. QED
      BY <1>7, <3>1, <3>2, <3>3, <3>4, <3>5, <3>6, <3>7, <3>8, <3>9 DEF Appends
  <2>3. CallInHand'
    BY <2>1, HandsEmpty
  <2>4. QED
    BY <1>1, <2>2, <2>3, PlainLog
<1>8. QED
  BY <1>3, <1>4, <1>5, <1>6, <1>7

LEMMA NextExecution ==
  ASSUME AtMostOne(Drivers), ExecutionInv, [Next]_vars
  PROVE  ExecutionInv'
<1>1. TypeOK /\ TypeOK' /\ pc \in [Drivers -> PCs]
  <2>1. TypeOK
    BY DEF ExecutionInv
  <2>2. QED
    BY <2>1, NextTyped DEF TypeOK
<1>2. CASE UNCHANGED vars
  <2>1. CallInHand'
    BY <1>2 DEF vars, ExecutionInv, CallInHand, StartedCalls, RequiredCalls, RejectedCalls,
                ApprovedCalls, DecidedPositions, OfType, Contents
  <2>2. QED
    BY <1>1, <1>2, <2>1, QuietExecution DEF vars
<1>3. CASE Next
  <2>1. PICK d \in Drivers :
          \/ \E r \in Requests, a \in ApprovalsInHand : Invoke(d, r, a)
          \/ DriverStep(d)
          \/ Crash(d)
    BY <1>3 DEF Next
  <2>2. CASE (\E r \in Requests, a \in ApprovalsInHand : Invoke(d, r, a)) \/ Crash(d)
    <3>1. ledger' = ledger /\ effects' = effects /\ pc'[d] \notin Holding
      BY <1>1, <2>2 DEF Invoke, Crash, Return, Goto, durable, Holding
    <3>2. QED
      BY <1>1, <3>1, HandsEmpty, QuietExecution
  <2>3. CASE DriverStep(d)
    BY <1>1, <2>3, AppendsExecution, LocallyExecution, OutsideExecution DEF DriverStep
  <2>4. QED
    BY <2>1, <2>2, <2>3
<1>4. QED
  BY <1>2, <1>3

-----------------------------------------------------------------------------
(* The theorems *)

LEMMA InvariantImplies ==
  ExecutionInv => ExecutedAtMostOnce /\ RejectedNeverExecuted /\ ApprovalPrecedesStart
<1> SUFFICES ASSUME ExecutionInv PROVE RejectedNeverExecuted
  BY DEF ExecutionInv
<1> SUFFICES ASSUME NEW i \in DOMAIN effects, Decided(effects[i], "REJECTED") PROVE FALSE
  BY DEF RejectedNeverExecuted
<1>1. effects[i] \in StartedCalls
  BY DEF ExecutionInv, Contents
<1>2. effects[i] \in RejectedCalls
  BY DEF Decided, RejectedCalls, DecidedPositions, Where
<1>3. QED
  BY <1>1, <1>2 DEF ExecutionInv

\* run(): with one driver at a time, for any tools, limits, requests and approvals
\* and however often the driver dies and the run is resumed, no materialized call
\* reaches its executor twice.
THEOREM AtMostOnce ==
  ASSUME AtMostOne(Drivers) PROVE Spec => []ExecutedAtMostOnce
<1>1. ExecutionInv /\ [Next]_vars => ExecutionInv'
  BY NextExecution
<1>2. ExecutionInv => ExecutedAtMostOnce
  BY InvariantImplies
<1>3. QED
  BY <1>1, <1>2, InitExecution, PTL DEF Spec

\* Under the same assumption no call with a recorded rejection is ever executed.
THEOREM RejectionHolds ==
  ASSUME AtMostOne(Drivers) PROVE Spec => []RejectedNeverExecuted
<1>1. ExecutionInv /\ [Next]_vars => ExecutionInv'
  BY NextExecution
<1>2. ExecutionInv => RejectedNeverExecuted
  BY InvariantImplies
<1>3. QED
  BY <1>1, <1>2, InitExecution, PTL DEF Spec

\* Under the same assumption the start of a call that required approval comes
\* after the record that approves that very call.
THEOREM ApprovalFirst ==
  ASSUME AtMostOne(Drivers) PROVE Spec => []ApprovalPrecedesStart
<1>1. ExecutionInv /\ [Next]_vars => ExecutionInv'
  BY NextExecution
<1>2. ExecutionInv => ApprovalPrecedesStart
  BY InvariantImplies
<1>3. QED
  BY <1>1, <1>2, InitExecution, PTL DEF Spec

-----------------------------------------------------------------------------
(***************************************************************************)
(* What one driver at a time keeps true of the ledger                      *)
(***************************************************************************)

ExecutionEnds == OfType("TOOL_EXECUTION_SUCCEEDED") \cup OfType("TOOL_EXECUTION_FAILED")
FinishedCalls == {ledger[i].call : i \in ExecutionEnds}
RefusedCalls == {ledger[i].call : i \in OfType("TOOL_CALL_REJECTED")}

\* The calls that may still be executed: neither started nor rejected.
Open == Calls \ (StartedCalls \cup RejectedCalls)

OnePerCall(S) == \A i, j \in S : ledger[i].call = ledger[j].call => i = j

\* What the events say together: everything happens to a call at most once, in
\* order, and there is at most one call to go on with.
Books ==
  /\ OnePerCall(OfType("APPROVAL_RECORDED"))
  /\ OnePerCall(OfType("TOOL_CALL_REJECTED"))
  /\ OnePerCall(OfType("TOOL_EXECUTION_STARTED"))
  /\ OnePerCall(ExecutionEnds)
  /\ \A i \in OfType("APPROVAL_RECORDED") : ledger[i].data.call = ledger[i].call
  /\ RefusedCalls \subseteq RejectedCalls
  /\ FinishedCalls \subseteq StartedCalls /\ StartedCalls \subseteq Calls
  /\ AtMostOne(Open)
  /\ AtMostOne(OfType("RUN_STARTED")) /\ (ledger # <<>> => OfType("RUN_STARTED") # {})
  /\ Terminal => LastType \in RunTerminals
  /\ OfType("BUDGET_EXHAUSTED") # {} => Open = {}

\* The lineage of these successes is complete.
Done(S) == \A i \in S : Relations(i) \subseteq lineage

\* What the place of the driver says of the run: its status, the call in hand and
\* what has been projected.  Only this driver appends, so it stays true.
Undecided == {"check_exhausted", "exhaust", "decide", "materialize"}
Active == Undecided \cup {"reject_call", "reject_run", "stop", "review", "require_approval",
                          "start_call", "project"}
Executing == {"execute", "put", "succeed", "fail"}

AloneAt(d) ==
  /\ pc[d] = "start_run" => Status = "NEW"
  /\ pc[d] \in {"reconcile", "top"} => ledger # <<>>
  /\ pc[d] = "record_approval" =>
       /\ Status = "WAITING_APPROVAL"
       /\ loc[d].call \in Open \ RecordedCalls /\ loc[d].approval.call = loc[d].call
  /\ pc[d] \in Active => Status = "ACTIVE"
  /\ pc[d] = "reject_call" => loc[d].call \in RejectedCalls \ RefusedCalls
  /\ pc[d] \in Undecided => Open = {}
  /\ pc[d] \in {"require_approval", "start_call"} => loc[d].call \in Open
  /\ pc[d] = "require_approval" => loc[d].call \notin RequiredCalls
  /\ pc[d] \in Executing =>
       /\ Status = "INTERRUPTED" /\ Open = {}
       /\ loc[d].call \in StartedCalls \ FinishedCalls
       /\ StartedCalls \subseteq FinishedCalls \cup {loc[d].call}
  /\ pc[d] \in {"reconcile", "project"} => loc[d].snap = Len(ledger)
  /\ pc[d] = "project" => Done(Succeeded \ {loc[d].snap})
  /\ pc[d] \notin {"idle", "initialize", "start_run", "reconcile", "project"} => Done(Succeeded)

AloneInv ==
  /\ ExecutionInv /\ FlowInv /\ LimitsInv
  /\ Books
  /\ \A d \in Drivers : AloneAt(d)

-----------------------------------------------------------------------------
(* Reading the ledger: the projection in terms of these sets *)

\* The operators of _project and the sets of calls say the same.
LEMMA CallViews ==
  \A c : /\ Started(c) <=> c \in StartedCalls
         /\ Required(c) <=> c \in RequiredCalls
         /\ Has("APPROVAL_RECORDED", c) <=> c \in RecordedCalls
         /\ Has("TOOL_CALL_REJECTED", c) <=> c \in RefusedCalls
         /\ Finished(c) # {} <=> c \in FinishedCalls
         /\ Decided(c, "APPROVED") <=> c \in ApprovedCalls
         /\ Decided(c, "REJECTED") <=> c \in RejectedCalls
<1> TAKE c
<1>1. /\ Started(c) <=> c \in StartedCalls
      /\ Required(c) <=> c \in RequiredCalls
      /\ Has("APPROVAL_RECORDED", c) <=> c \in RecordedCalls
      /\ Has("TOOL_CALL_REJECTED", c) <=> c \in RefusedCalls
  BY DEF Started, Required, Has, Where, StartedCalls, RequiredCalls, RecordedCalls, RefusedCalls
<1>2. Finished(c) # {} <=> c \in FinishedCalls
  BY DEF Finished, Where, FinishedCalls, ExecutionEnds
<1>3. /\ Decided(c, "APPROVED") <=> c \in ApprovedCalls
      /\ Decided(c, "REJECTED") <=> c \in RejectedCalls
  BY DEF Decided, Where, ApprovedCalls, RejectedCalls, DecidedPositions
<1>4. QED
  BY <1>1, <1>2, <1>3

LEMMA RecordsSplit ==
  TypeOK /\ Books => /\ RecordedCalls = ApprovedCalls \cup RejectedCalls
                     /\ ApprovedCalls \cap RejectedCalls = {}
<1> SUFFICES ASSUME TypeOK, Books
             PROVE  /\ RecordedCalls = ApprovedCalls \cup RejectedCalls
                    /\ ApprovedCalls \cap RejectedCalls = {}
  OBVIOUS
<1>1. \A i \in OfType("APPROVAL_RECORDED") : ledger[i].data.decision \in {"APPROVED", "REJECTED"}
  <2> SUFFICES ASSUME NEW i \in OfType("APPROVAL_RECORDED")
               PROVE  ledger[i].data.decision \in {"APPROVED", "REJECTED"}
    OBVIOUS
  <2>1. ledger[i] \in Event /\ ledger[i].type = "APPROVAL_RECORDED"
    BY DEF TypeOK, OfType
  <2>2. ledger[i].data \in ApprovalRecord
    BY <2>1 DEF Event, RunTerminals
  <2>3. QED
    BY <2>2 DEF ApprovalRecord
<1>2. RecordedCalls = ApprovedCalls \cup RejectedCalls
  BY <1>1 DEF RecordedCalls, ApprovedCalls, RejectedCalls, DecidedPositions
<1>3. ApprovedCalls \cap RejectedCalls = {}
  BY DEF Books, OnePerCall, ApprovedCalls, RejectedCalls, DecidedPositions
<1>4. QED
  BY <1>2, <1>3

LEMMA PendingCalls ==
  ExecutionInv /\ Books =>
    /\ Interrupted <=> ~(StartedCalls \subseteq FinishedCalls)
    /\ PendingApproval = (Open \cap RequiredCalls) \ RecordedCalls
    /\ PendingExecution = {c \in Open : c \in RequiredCalls => c \in ApprovedCalls}
    /\ PendingApproval \cup PendingExecution = Open
<1> SUFFICES ASSUME ExecutionInv, Books
             PROVE  /\ Interrupted <=> ~(StartedCalls \subseteq FinishedCalls)
                    /\ PendingApproval = (Open \cap RequiredCalls) \ RecordedCalls
                    /\ PendingExecution = {c \in Open : c \in RequiredCalls => c \in ApprovedCalls}
                    /\ PendingApproval \cup PendingExecution = Open
  OBVIOUS
<1>1. /\ RecordedCalls \subseteq RequiredCalls /\ RejectedCalls \cap StartedCalls = {}
      /\ FinishedCalls \subseteq StartedCalls /\ StartedCalls \subseteq Calls
      /\ RecordedCalls = ApprovedCalls \cup RejectedCalls /\ ApprovedCalls \cap RejectedCalls = {}
  BY RecordsSplit DEF ExecutionInv, Books
<1>2. \A c : Resolved(c) <=> IF c \in RejectedCalls THEN c \in RefusedCalls ELSE c \in FinishedCalls
  BY CallViews DEF Resolved
<1>3. Interrupted <=> \E c \in Calls : c \in StartedCalls /\ ~Resolved(c)
  BY CallViews DEF Interrupted
<1>4. PendingApproval = {c \in Calls : ~Resolved(c) /\ c \notin StartedCalls
                                        /\ c \in RequiredCalls /\ c \notin RecordedCalls}
  BY CallViews DEF PendingApproval
<1>5. PendingExecution = {c \in Calls : ~Resolved(c) /\ c \notin StartedCalls
                                         /\ (c \in RequiredCalls => c \in ApprovedCalls)}
  BY CallViews DEF PendingExecution
<1>6. Interrupted <=> ~(StartedCalls \subseteq FinishedCalls)
  BY <1>1, <1>2, <1>3
<1>7. PendingApproval = (Open \cap RequiredCalls) \ RecordedCalls
  BY <1>1, <1>2, <1>4 DEF Open
<1>8. PendingExecution = {c \in Open : c \in RequiredCalls => c \in ApprovedCalls}
  BY <1>1, <1>2, <1>5 DEF Open
<1>9. PendingApproval \cup PendingExecution = Open
  <2>1. \A c \in Open : c \notin RejectedCalls
    BY DEF Open
  <2>2. QED
    BY <1>1, <1>7, <1>8, <2>1
<1>10. QED
  BY <1>6, <1>7, <1>8, <1>9

Settled == StartedCalls \subseteq FinishedCalls
Awaited == (Open \cap RequiredCalls) \ RecordedCalls

\* RunStatus in these terms.
StatusReads ==
  /\ Status = "NEW" <=> ledger = <<>>
  /\ Status = "ACTIVE" <=>
       ledger # <<>> /\ ~Terminal /\ Settled /\ Awaited = {} /\ ~WaitingReview
  /\ Status = "WAITING_APPROVAL" <=> ledger # <<>> /\ ~Terminal /\ Settled /\ Awaited # {}
  /\ Status = "INTERRUPTED" <=> ledger # <<>> /\ ~Terminal /\ ~Settled
  /\ Status = "WAITING_REVIEW" <=>
       ledger # <<>> /\ ~Terminal /\ Settled /\ Awaited = {} /\ WaitingReview
  /\ Terminal => Status = LastType /\ LastType \in RunTerminals

LEMMA StatusViews == ExecutionInv /\ Books => StatusReads
<1> SUFFICES ASSUME ExecutionInv, Books PROVE StatusReads
  OBVIOUS
<1>1. (Interrupted <=> ~Settled) /\ PendingApproval = Awaited
  BY PendingCalls DEF Settled, Awaited
<1>2. Terminal => LastType \in RunTerminals /\ ledger # <<>>
  BY DEF Books, Terminal
<1>3. QED
  BY <1>1, <1>2 DEF Status, RunTerminals, StatusReads

-----------------------------------------------------------------------------
(* Appending one event *)

\* What else an append does to the sets: the executions of SetsAfterLog, and these.
LEMMA BooksAfterLog ==
  ASSUME TypeOK, NEW e \in Event, ledger' = Append(ledger, e)
  PROVE  /\ Calls' = Calls \cup (IF e.type = "TOOL_CALL_MATERIALIZED" THEN {Len(ledger) + 1} ELSE {})
         /\ ExecutionEnds' = ExecutionEnds \cup (IF e.type \in {"TOOL_EXECUTION_SUCCEEDED", "TOOL_EXECUTION_FAILED"}
                               THEN {Len(ledger) + 1} ELSE {})
         /\ FinishedCalls' = FinishedCalls
              \cup (IF e.type \in {"TOOL_EXECUTION_SUCCEEDED", "TOOL_EXECUTION_FAILED"}
                    THEN {e.call} ELSE {})
         /\ RefusedCalls' = RefusedCalls \cup (IF e.type = "TOOL_CALL_REJECTED" THEN {e.call} ELSE {})
         /\ ledger' # <<>> /\ LastType' = e.type
         /\ Terminal' <=> Terminal \/ e.type \in RunTerminals
         /\ WaitingReview' =>
              \/ e.type = "REVIEW_REQUESTED"
              \/ WaitingReview /\ Calls = {} /\ e.type # "TOOL_CALL_MATERIALIZED"
<1>0. Len(ledger) + 1 \in Nat
  BY TypesAfterLog
<1> PICK n \in Nat : n = Len(ledger) + 1
  BY <1>0
<1>1. /\ DOMAIN ledger' = DOMAIN ledger \cup {n} /\ n \notin DOMAIN ledger
      /\ \A i \in DOMAIN ledger : ledger'[i] = ledger[i]
      /\ ledger'[n] = e /\ Len(ledger') = n
      /\ \A t : OfType(t)' = OfType(t) \cup (IF e.type = t THEN {n} ELSE {})
  BY TypesAfterLog, AppendFacts DEF TypeOK
<1>2. \A t : OfType(t) \subseteq DOMAIN ledger
  BY DEF OfType
<1>3. Calls' = Calls \cup (IF e.type = "TOOL_CALL_MATERIALIZED" THEN {n} ELSE {})
  BY <1>1 DEF Calls
<1>4. ExecutionEnds' = ExecutionEnds \cup (IF e.type \in {"TOOL_EXECUTION_SUCCEEDED", "TOOL_EXECUTION_FAILED"}
                         THEN {n} ELSE {})
  BY <1>1 DEF ExecutionEnds
<1>5. FinishedCalls' = FinishedCalls
        \cup (IF e.type \in {"TOOL_EXECUTION_SUCCEEDED", "TOOL_EXECUTION_FAILED"}
              THEN {e.call} ELSE {})
  <2>1. \A i \in ExecutionEnds : ledger'[i] = ledger[i]
    BY <1>1, <1>2 DEF ExecutionEnds
  <2>2. FinishedCalls' = {ledger'[i].call : i \in ExecutionEnds'}
    BY DEF FinishedCalls
  <2>3. CASE e.type \in {"TOOL_EXECUTION_SUCCEEDED", "TOOL_EXECUTION_FAILED"}
    <3>1. ExecutionEnds' = ExecutionEnds \cup {n}
      BY <1>4, <2>3
    <3>2. ledger'[n].call = e.call
      BY <1>1
    <3>3. {ledger'[i].call : i \in ExecutionEnds'} = {ledger[i].call : i \in ExecutionEnds} \cup {e.call}
      BY <2>1, <3>1, <3>2
    <3>4. QED
      BY <2>2, <2>3, <3>3 DEF FinishedCalls
  <2>4. CASE e.type \notin {"TOOL_EXECUTION_SUCCEEDED", "TOOL_EXECUTION_FAILED"}
    BY <1>4, <2>1, <2>2, <2>4 DEF FinishedCalls
  <2>5. QED
    BY <2>3, <2>4
<1>6. RefusedCalls' = RefusedCalls \cup (IF e.type = "TOOL_CALL_REJECTED" THEN {e.call} ELSE {})
  <2>1. \A i \in OfType("TOOL_CALL_REJECTED") : ledger'[i] = ledger[i]
    BY <1>1, <1>2
  <2>2. CASE e.type = "TOOL_CALL_REJECTED"
    <3>1. OfType("TOOL_CALL_REJECTED")' = OfType("TOOL_CALL_REJECTED") \cup {n}
      BY <1>1, <2>2
    <3>2. ledger'[n].call = e.call
      BY <1>1
    <3>3. QED
      BY <2>1, <2>2, <3>1, <3>2 DEF RefusedCalls
  <2>3. CASE e.type # "TOOL_CALL_REJECTED"
    <3>1. OfType("TOOL_CALL_REJECTED")' = OfType("TOOL_CALL_REJECTED")
      BY <1>1, <2>3
    <3>2. QED
      BY <2>1, <2>3, <3>1 DEF RefusedCalls
  <2>4. QED
    BY <2>2, <2>3
<1>7. ledger' # <<>> /\ LastType' = e.type
  <2>1. ledger' # <<>>
    <3>1. DOMAIN <<>> = {}
      OBVIOUS
    <3>2. n \in DOMAIN ledger'
      BY <1>1
    <3>3. QED
      BY <3>1, <3>2
  <2>2. QED
    BY <1>1, <2>1 DEF LastType
<1>8. Terminal' <=> Terminal \/ e.type \in RunTerminals
  BY <1>1 DEF Terminal
<1>9. WaitingReview' =>
        \/ e.type = "REVIEW_REQUESTED"
        \/ WaitingReview /\ Calls = {} /\ e.type # "TOOL_CALL_MATERIALIZED"
  BY <1>1, <1>3, <1>7 DEF WaitingReview
<1>10. QED
  BY <1>3, <1>4, <1>5, <1>6, <1>7, <1>8, <1>9

\* Adding one event about a call that has none of its kind keeps them unique.
LEMMA UniqueAfterLog ==
  ASSUME TypeOK, NEW e \in Event, ledger' = Append(ledger, e),
         NEW S, NEW T, S \subseteq DOMAIN ledger, OnePerCall(S),
         \/ T = S
         \/ T = S \cup {Len(ledger) + 1} /\ \A i \in S : ledger[i].call # e.call
  PROVE  \A i, j \in T : ledger'[i].call = ledger'[j].call => i = j
<1>0. Len(ledger) + 1 \in Nat
  BY TypesAfterLog
<1> PICK n \in Nat : n = Len(ledger) + 1
  BY <1>0
<1>1. /\ \A i \in DOMAIN ledger : ledger'[i] = ledger[i]
      /\ ledger'[n] = e
  BY TypesAfterLog
<1>2. QED
  BY <1>1 DEF OnePerCall

\* The books stay in order when each event comes when it is due.
LEMMA BooksLogs ==
  ASSUME ExecutionInv, Books, NEW e \in Event, ledger' = Append(ledger, e), ~Terminal,
         e.type = "RUN_STARTED" <=> ledger = <<>>,
         e.type = "APPROVAL_RECORDED" => e.call \notin RecordedCalls /\ e.data.call = e.call,
         e.type = "TOOL_CALL_REJECTED" => e.call \in RejectedCalls \ RefusedCalls,
         e.type = "TOOL_EXECUTION_STARTED" => e.call \in Calls \ StartedCalls,
         e.type \in {"TOOL_EXECUTION_SUCCEEDED", "TOOL_EXECUTION_FAILED"} =>
           e.call \in StartedCalls \ FinishedCalls,
         e.type \in {"TOOL_CALL_MATERIALIZED", "BUDGET_EXHAUSTED"} => Open = {}
  PROVE  Books'
<1>1. TypeOK
  BY DEF ExecutionInv
<1>2. /\ StartedCalls' = IF e.type = "TOOL_EXECUTION_STARTED"
                         THEN StartedCalls \cup {e.call} ELSE StartedCalls
      /\ RejectedCalls \subseteq RejectedCalls'
  BY <1>1, SetsAfterLog
<1>3. /\ Calls' = Calls \cup (IF e.type = "TOOL_CALL_MATERIALIZED" THEN {Len(ledger) + 1} ELSE {})
      /\ ExecutionEnds' = ExecutionEnds \cup (IF e.type \in {"TOOL_EXECUTION_SUCCEEDED", "TOOL_EXECUTION_FAILED"}
                            THEN {Len(ledger) + 1} ELSE {})
      /\ FinishedCalls' = FinishedCalls
           \cup (IF e.type \in {"TOOL_EXECUTION_SUCCEEDED", "TOOL_EXECUTION_FAILED"}
                 THEN {e.call} ELSE {})
      /\ RefusedCalls' = RefusedCalls \cup (IF e.type = "TOOL_CALL_REJECTED" THEN {e.call} ELSE {})
      /\ ledger' # <<>> /\ LastType' = e.type
      /\ Terminal' <=> Terminal \/ e.type \in RunTerminals
  BY <1>1, BooksAfterLog
<1>4. /\ \A t : OfType(t)' = OfType(t) \cup (IF e.type = t THEN {Len(ledger) + 1} ELSE {})
      /\ \A i \in DOMAIN ledger : ledger'[i] = ledger[i]
      /\ ledger'[Len(ledger) + 1] = e
      /\ \A t : OfType(t) \subseteq DOMAIN ledger
  BY <1>1, TypesAfterLog DEF OfType
<1>5. OnePerCall(OfType("APPROVAL_RECORDED"))'
  <2> DEFINE T == OfType("APPROVAL_RECORDED")
  <2>1. \/ T' = T
        \/ T' = T \cup {Len(ledger) + 1} /\ \A i \in T : ledger[i].call # e.call
    BY <1>4 DEF RecordedCalls
  <2>2. T \subseteq DOMAIN ledger /\ OnePerCall(T)
    BY <1>4 DEF Books
  <2> HIDE DEF T
  <2>3. \A i, j \in T' : ledger'[i].call = ledger'[j].call => i = j
    BY <1>1, <2>1, <2>2, UniqueAfterLog
  <2>4. QED
    BY <2>3 DEF OnePerCall, T
<1>6. OnePerCall(OfType("TOOL_CALL_REJECTED"))'
  <2> DEFINE T == OfType("TOOL_CALL_REJECTED")
  <2>1. \/ T' = T
        \/ T' = T \cup {Len(ledger) + 1} /\ \A i \in T : ledger[i].call # e.call
    BY <1>4 DEF RefusedCalls
  <2>2. T \subseteq DOMAIN ledger /\ OnePerCall(T)
    BY <1>4 DEF Books
  <2> HIDE DEF T
  <2>3. \A i, j \in T' : ledger'[i].call = ledger'[j].call => i = j
    BY <1>1, <2>1, <2>2, UniqueAfterLog
  <2>4. QED
    BY <2>3 DEF OnePerCall, T
<1>7. OnePerCall(OfType("TOOL_EXECUTION_STARTED"))'
  <2> DEFINE T == OfType("TOOL_EXECUTION_STARTED")
  <2>1. \/ T' = T
        \/ T' = T \cup {Len(ledger) + 1} /\ \A i \in T : ledger[i].call # e.call
    BY <1>4 DEF StartedCalls
  <2>2. T \subseteq DOMAIN ledger /\ OnePerCall(T)
    BY <1>4 DEF Books
  <2> HIDE DEF T
  <2>3. \A i, j \in T' : ledger'[i].call = ledger'[j].call => i = j
    BY <1>1, <2>1, <2>2, UniqueAfterLog
  <2>4. QED
    BY <2>3 DEF OnePerCall, T
<1>8. OnePerCall(ExecutionEnds)'
  <2>1. \/ ExecutionEnds' = ExecutionEnds
        \/ ExecutionEnds' = ExecutionEnds \cup {Len(ledger) + 1} /\ \A i \in ExecutionEnds : ledger[i].call # e.call
    BY <1>3 DEF FinishedCalls
  <2>2. ExecutionEnds \subseteq DOMAIN ledger /\ OnePerCall(ExecutionEnds)
    BY <1>4 DEF Books, ExecutionEnds
  <2>3. \A i, j \in ExecutionEnds' : ledger'[i].call = ledger'[j].call => i = j
    BY <1>1, <2>1, <2>2, UniqueAfterLog
  <2>4. QED
    BY <2>3 DEF OnePerCall
<1>9. \A i \in OfType("APPROVAL_RECORDED")' : ledger'[i].data.call = ledger'[i].call
  BY <1>4 DEF Books
<1>10. /\ RefusedCalls' \subseteq RejectedCalls'
       /\ FinishedCalls' \subseteq StartedCalls' /\ StartedCalls' \subseteq Calls'
  BY <1>2, <1>3 DEF Books
<1>11. AtMostOne(Open)' /\ (Open = {} /\ e.type # "TOOL_CALL_MATERIALIZED" => Open' = {})
  <2>1. Open' \subseteq Open \cup (IF e.type = "TOOL_CALL_MATERIALIZED" THEN {Len(ledger) + 1} ELSE {})
    BY <1>2, <1>3 DEF Open
  <2>2. QED
    BY <2>1 DEF Books, AtMostOne
<1>12. AtMostOne(OfType("RUN_STARTED"))' /\ OfType("RUN_STARTED")' # {}
  <2>1. ledger = <<>> => OfType("RUN_STARTED") = {}
    BY DEF OfType
  <2>2. OfType("RUN_STARTED")' = OfType("RUN_STARTED")
                                   \cup (IF e.type = "RUN_STARTED" THEN {Len(ledger) + 1} ELSE {})
    BY <1>4
  <2>3. QED
    BY <2>1, <2>2 DEF Books, AtMostOne
<1>13. Terminal' => LastType' \in RunTerminals
  BY <1>3
<1>14. OfType("BUDGET_EXHAUSTED")' # {} => Open' = {}
  <2>1. OfType("BUDGET_EXHAUSTED") = {}
    BY DEF Terminal, OfType, RunTerminals
  <2>2. OfType("BUDGET_EXHAUSTED")' # {} => e.type = "BUDGET_EXHAUSTED"
    BY <1>4, <2>1
  <2>3. QED
    BY <1>11, <2>2
<1>15. QED
  BY <1>3, <1>5, <1>6, <1>7, <1>8, <1>9, <1>10, <1>11, <1>12, <1>13, <1>14 DEF Books

\* A step that appends nothing leaves the books and the status as they are.
LEMMA BooksQuiet ==
  ASSUME ledger' = ledger
  PROVE  /\ Books' = Books /\ Status' = Status /\ Open' = Open /\ Succeeded' = Succeeded
         /\ StartedCalls' = StartedCalls /\ FinishedCalls' = FinishedCalls
         /\ RequiredCalls' = RequiredCalls /\ RecordedCalls' = RecordedCalls
         /\ RejectedCalls' = RejectedCalls /\ RefusedCalls' = RefusedCalls
         /\ \A i : Relations(i)' = Relations(i)
BY DEF Books, Status, Open, Succeeded, StartedCalls, FinishedCalls, RequiredCalls, RecordedCalls,
       RejectedCalls, RefusedCalls, Relations, OnePerCall, ExecutionEnds, DecidedPositions, OfType, Calls,
       Terminal, LastType, Interrupted, PendingApproval, WaitingReview, Resolved, Started,
       Required, Has, Where, Decided, Finished, AtMostOne

\* What was projected stays so.
LEMMA DoneKept ==
  ASSUME FlowInv, NEW S \in SUBSET Succeeded, Done(S), lineage \subseteq lineage',
         \/ ledger' = ledger
         \/ \E e \in Event : ledger' = Append(ledger, e)
  PROVE  \A i \in S : Relations(i)' \subseteq lineage'
<1> SUFFICES ASSUME NEW i \in S PROVE Relations(i)' \subseteq lineage'
  OBVIOUS
<1>1. TypeOK /\ i \in Succeeded /\ ledger[i].call \in Calls
  BY DEF FlowInv
<1>2. CASE ledger' = ledger
  <2>1. Relations(i)' = Relations(i)
    BY <1>2 DEF Relations
  <2>2. QED
    BY <2>1 DEF Done
<1>3. ASSUME NEW e \in Event, ledger' = Append(ledger, e) PROVE Relations(i)' \subseteq lineage'
  <2>1. Relations(i)' = Relations(i)
    BY <1>1, <1>3, RelationsFixed
  <2>2. QED
    BY <2>1 DEF Done
<1>4. QED
  BY <1>2, <1>3

-----------------------------------------------------------------------------
(* Every step of the one driver keeps it *)

LEMMA InitAlone == ASSUME AtMostOne(Drivers) PROVE Init => AloneInv
<1> SUFFICES ASSUME Init PROVE AloneInv
  OBVIOUS
<1>1. IsFiniteSet(Drivers)
  <2>1. CASE Drivers = {}
    BY <2>1, FS_EmptySet
  <2>2. CASE Drivers # {}
    <3>1. PICK d : d \in Drivers
      BY <2>2
    <3>2. Drivers = {d}
      BY <3>1 DEF AtMostOne
    <3>3. QED
      BY <3>2, FS_Singleton
  <2>3. QED
    BY <2>1, <2>2
<1>2. ExecutionInv /\ FlowInv /\ LimitsInv
  BY <1>1, InitExecution, InitFlow, InitLimits
<1>3. ledger = <<>> /\ \A d \in Drivers : pc[d] = "idle"
  BY DEF Init
<1>4. \A t : OfType(t) = {}
  BY <1>3 DEF OfType
<1>5. ~Terminal
  BY <1>3 DEF Terminal
<1>6. Books
  BY <1>3, <1>4, <1>5
     DEF Books, OnePerCall, ExecutionEnds, RefusedCalls, FinishedCalls, StartedCalls, Open, Calls, AtMostOne
<1>7. \A d \in Drivers : AloneAt(d)
  BY <1>3 DEF AloneAt, Active, Undecided, Executing
<1>8. QED
  BY <1>2, <1>6, <1>7 DEF AloneInv

LEMMA AppendsAlone ==
  ASSUME AtMostOne(Drivers), AloneInv, ExecutionInv', NEW d \in Drivers, Appends(d)
  PROVE  Books' /\ AloneAt(d)'
<1> USE DEF At, Goto
<1>1. /\ TypeOK /\ ExecutionInv /\ FlowInv /\ Books /\ AloneAt(d) /\ StatusReads
      /\ pc \in [Drivers -> PCs] /\ loc \in [Drivers -> Locals]
  BY StatusViews DEF AloneInv, ExecutionInv, TypeOK
<1>2. PICK e \in Event :
        /\ ledger' = Append(ledger, e)
        /\ pc[d] = "start_run" <=> e.type = "RUN_STARTED"
        /\ pc[d] = "record_approval" <=> e.type = "APPROVAL_RECORDED"
        /\ pc[d] = "reject_call" <=> e.type = "TOOL_CALL_REJECTED"
        /\ pc[d] = "reject_run" <=> e.type = "RUN_REJECTED"
        /\ pc[d] = "exhaust" <=> e.type = "BUDGET_EXHAUSTED"
        /\ pc[d] = "decide" <=> e.type = "DECISION_RECORDED"
        /\ pc[d] = "stop" <=> e.type = "RUN_STOPPED"
        /\ pc[d] = "review" <=> e.type = "REVIEW_REQUESTED"
        /\ pc[d] = "materialize" <=> e.type = "TOOL_CALL_MATERIALIZED"
        /\ pc[d] = "require_approval" <=> e.type = "APPROVAL_REQUIRED"
        /\ pc[d] = "start_call" <=> e.type = "TOOL_EXECUTION_STARTED"
        /\ pc[d] = "succeed" <=> e.type = "TOOL_EXECUTION_SUCCEEDED"
        /\ pc[d] = "fail" <=> e.type = "TOOL_EXECUTION_FAILED"
        /\ pc[d] \in {"record_approval", "reject_call", "require_approval", "start_call",
                      "succeed", "fail"} => e.call = loc[d].call
        /\ pc[d] = "record_approval" => e.data = loc[d].approval
        /\ pc[d] \in {"start_run", "record_approval", "reject_call", "reject_run", "exhaust",
                      "decide", "stop", "review", "materialize", "require_approval", "start_call",
                      "succeed", "fail"}
  BY <1>1, LoggedEvent, ZenonT(60)
     DEF Appends, StartRun, RecordApproval, RejectCall, RejectRun, Exhaust, Decide, StopRun,
         RequestReview, Materialize, RequireApproval, StartCall, Succeed, Fail
<1>3. /\ StartedCalls' = IF e.type = "TOOL_EXECUTION_STARTED"
                         THEN StartedCalls \cup {e.call} ELSE StartedCalls
      /\ RequiredCalls' = IF e.type = "APPROVAL_REQUIRED"
                          THEN RequiredCalls \cup {e.call} ELSE RequiredCalls
      /\ RecordedCalls' = IF e.type = "APPROVAL_RECORDED"
                          THEN RecordedCalls \cup {e.call} ELSE RecordedCalls
      /\ RejectedCalls' = IF e.type = "APPROVAL_RECORDED" /\ e.data.decision = "REJECTED"
                          THEN RejectedCalls \cup {e.call} ELSE RejectedCalls
  BY <1>1, <1>2, SetsAfterLog
<1>4. /\ Calls' = Calls \cup (IF e.type = "TOOL_CALL_MATERIALIZED" THEN {Len(ledger) + 1} ELSE {})
      /\ FinishedCalls' = FinishedCalls
           \cup (IF e.type \in {"TOOL_EXECUTION_SUCCEEDED", "TOOL_EXECUTION_FAILED"}
                 THEN {e.call} ELSE {})
      /\ RefusedCalls' = RefusedCalls \cup (IF e.type = "TOOL_CALL_REJECTED" THEN {e.call} ELSE {})
      /\ ledger' # <<>>
      /\ Terminal' <=> Terminal \/ e.type \in RunTerminals
      /\ WaitingReview' =>
           \/ e.type = "REVIEW_REQUESTED"
           \/ WaitingReview /\ Calls = {} /\ e.type # "TOOL_CALL_MATERIALIZED"
  BY <1>1, <1>2, BooksAfterLog
<1>5. /\ Len(ledger') = Len(ledger) + 1 /\ Len(ledger) \in Nat
      /\ Succeeded' = Succeeded
           \cup (IF e.type = "TOOL_EXECUTION_SUCCEEDED" THEN {Len(ledger) + 1} ELSE {})
  BY <1>1, <1>2, AppendFacts, TypesAfterLog DEF TypeOK, Succeeded
<1>6. /\ ~Terminal /\ (e.type = "RUN_STARTED" <=> ledger = <<>>)
      /\ pc[d] # "start_run" => Done(Succeeded)
      /\ pc[d] \notin {"start_run", "record_approval", "succeed", "fail"} => Status = "ACTIVE"
  <2>1. /\ pc[d] = "start_run" => Status = "NEW"
        /\ pc[d] = "record_approval" => Status = "WAITING_APPROVAL"
        /\ pc[d] \in {"succeed", "fail"} => Status = "INTERRUPTED"
        /\ pc[d] \notin {"start_run", "record_approval", "succeed", "fail"} => Status = "ACTIVE"
    BY <1>1, <1>2 DEF AloneAt, Active, Undecided, Executing
  <2>2. ledger = <<>> => ~Terminal
    BY DEF Terminal
  <2>3. Status \in {"WAITING_APPROVAL", "INTERRUPTED", "ACTIVE"} => ~Terminal /\ ledger # <<>>
    BY <1>1 DEF StatusReads
  <2>4. ~Terminal /\ (e.type = "RUN_STARTED" <=> ledger = <<>>)
    BY <1>1, <1>2, <2>1, <2>2, <2>3 DEF StatusReads
  <2>5. pc[d] # "start_run" => Done(Succeeded)
    BY <1>1, <1>2 DEF AloneAt
  <2>6. QED
    BY <2>1, <2>4, <2>5
<1>7. Books'
  <2>1. /\ e.type = "APPROVAL_RECORDED" => e.call \notin RecordedCalls /\ e.data.call = e.call
        /\ e.type = "TOOL_CALL_REJECTED" => e.call \in RejectedCalls \ RefusedCalls
        /\ e.type = "TOOL_EXECUTION_STARTED" => e.call \in Calls \ StartedCalls
        /\ e.type \in {"TOOL_EXECUTION_SUCCEEDED", "TOOL_EXECUTION_FAILED"} =>
             e.call \in StartedCalls \ FinishedCalls
        /\ e.type \in {"TOOL_CALL_MATERIALIZED", "BUDGET_EXHAUSTED"} => Open = {}
    BY <1>1, <1>2 DEF AloneAt, Undecided, Executing, Open
  <2>2. QED
    BY <1>1, <1>2, <1>6, <2>1, BooksLogs
<1>8. StatusReads'
  <2>1. (ExecutionInv /\ Books => StatusReads)'
    BY StatusViews, PTL
  <2>2. QED
    BY <1>7, <2>1
<1>9. pc[d] # "start_run" => \A i \in Succeeded : Relations(i)' \subseteq lineage'
  <2>1. lineage' = lineage
    BY <1>1, LoggedEvent
  <2>2. QED
    BY <1>1, <1>2, <1>6, <2>1, DoneKept
<1>10. CASE StartRun(d)
  <2>1. pc'[d] = "reconcile" /\ loc'[d].snap = Len(ledger) + 1
    BY <1>1, <1>10 DEF StartRun, Locals
  <2>2. QED
    BY <1>4, <1>5, <1>7, <2>1 DEF AloneAt, Active, Undecided, Executing
<1>11. CASE RecordApproval(d)
  <2>1. /\ pc[d] = "record_approval" /\ e.type = "APPROVAL_RECORDED"
        /\ e.call = loc[d].call /\ e.data = loc[d].approval
        /\ \/ /\ e.data.decision = "REJECTED" /\ pc'[d] = "reject_call" /\ loc'[d] = loc[d]
           \/ pc'[d] = "top"
    BY <1>1, <1>2, <1>11 DEF RecordApproval
  <2>2. Succeeded' = Succeeded /\ Done(Succeeded)'
    <3>1. Succeeded' = Succeeded
      BY <1>5, <2>1
    <3>2. QED
      BY <1>9, <2>1, <3>1 DEF Done
  <2>3. CASE pc'[d] = "top"
    BY <1>4, <1>7, <2>2, <2>3 DEF AloneAt, Active, Undecided, Executing
  <2>4. CASE pc'[d] = "reject_call"
    <3>1. e.data.decision = "REJECTED" /\ loc'[d] = loc[d]
      BY <2>1, <2>4
    <3>2. /\ e.call \in Open \ RecordedCalls /\ Status = "WAITING_APPROVAL"
          /\ AtMostOne(Open) /\ RefusedCalls \subseteq RejectedCalls
      BY <1>1, <2>1 DEF AloneAt, Books
    <3>3. /\ StartedCalls' = StartedCalls /\ FinishedCalls' = FinishedCalls /\ Calls' = Calls
          /\ RejectedCalls' = RejectedCalls \cup {e.call} /\ RefusedCalls' = RefusedCalls
      BY <1>3, <1>4, <2>1, <3>1
    <3>4. Open' = {}
      BY <3>2, <3>3 DEF Open, AtMostOne
    <3>5. Settled' /\ Awaited' = {}
      BY <1>1, <3>2, <3>3, <3>4 DEF StatusReads, Settled, Awaited
    <3>6. ~Terminal' /\ ~WaitingReview'
      BY <1>4, <1>6, <2>1, <3>2 DEF RunTerminals, Open
    <3>7. Status' = "ACTIVE"
      BY <1>4, <1>8, <3>5, <3>6 DEF StatusReads
    <3>8. e.call \in RejectedCalls' \ RefusedCalls'
      BY <3>2, <3>3 DEF Open
    <3>9. QED
      BY <1>7, <2>1, <2>2, <2>4, <3>1, <3>7, <3>8 DEF AloneAt, Active, Undecided, Executing
  <2>5. QED
    BY <2>1, <2>3, <2>4
<1>12. CASE RejectCall(d) \/ \E action \in ProviderActions : Decide(d, action)
  <2>1. /\ \/ e.type = "TOOL_CALL_REJECTED" /\ pc'[d] = "reject_run"
           \/ /\ e.type = "DECISION_RECORDED" /\ pc[d] = "decide"
              /\ pc'[d] \in {"stop", "review", "materialize"}
        /\ pc[d] \in {"reject_call", "decide"}
    <3>1. \A a \in ProviderActions : a.kind \in {"stop", "review", "call"}
      BY DEF ProviderActions
    <3>2. QED
      BY <1>1, <1>2, <1>12, <3>1 DEF RejectCall, Decide
  <2>2. /\ StartedCalls' = StartedCalls /\ FinishedCalls' = FinishedCalls /\ Calls' = Calls
        /\ RejectedCalls' = RejectedCalls /\ RequiredCalls' = RequiredCalls
        /\ RecordedCalls' = RecordedCalls /\ Succeeded' = Succeeded
    BY <1>3, <1>4, <1>5, <2>1
  <2>3. Open' = Open /\ Settled' = Settled /\ Awaited' = Awaited
    BY <2>2 DEF Open, Settled, Awaited
  <2>4. Settled /\ Awaited = {} /\ ~WaitingReview
    BY <1>1, <1>6, <2>1 DEF StatusReads
  <2>5. Status' = "ACTIVE"
    BY <1>4, <1>6, <1>8, <2>1, <2>3, <2>4 DEF StatusReads, RunTerminals
  <2>6. Done(Succeeded)'
    BY <1>9, <2>1, <2>2 DEF Done
  <2>7. pc[d] = "decide" => Open' = {}
    BY <1>1, <2>3 DEF AloneAt, Undecided
  <2>8. QED
    BY <1>7, <2>1, <2>5, <2>6, <2>7 DEF AloneAt, Active, Undecided, Executing
<1>13. CASE Materialize(d)
  <2>1. /\ e.type = "TOOL_CALL_MATERIALIZED" /\ pc[d] = "materialize"
        /\ pc'[d] \in {"require_approval", "start_call"} /\ loc'[d].call = Len(ledger) + 1
    BY <1>1, <1>2, <1>13 DEF Materialize, Locals
  <2>2. /\ StartedCalls' = StartedCalls /\ FinishedCalls' = FinishedCalls
        /\ Calls' = Calls \cup {Len(ledger) + 1}
        /\ RejectedCalls' = RejectedCalls /\ RequiredCalls' = RequiredCalls
        /\ RecordedCalls' = RecordedCalls /\ Succeeded' = Succeeded
    BY <1>3, <1>4, <1>5, <2>1
  <2>3. Len(ledger) + 1 \notin StartedCalls \cup RejectedCalls \cup RequiredCalls
    BY <1>1, <1>5, CallsBehind
  <2>4. Settled /\ Open = {}
    BY <1>1, <1>6, <2>1 DEF StatusReads, AloneAt, Undecided
  <2>5. Open' = {Len(ledger) + 1} /\ Settled'
    BY <2>2, <2>3, <2>4 DEF Open, Settled
  <2>6. Awaited' = {}
    BY <2>2, <2>3, <2>5 DEF Awaited
  <2>7. Status' = "ACTIVE"
    BY <1>4, <1>6, <1>8, <2>1, <2>5, <2>6 DEF StatusReads, RunTerminals
  <2>8. Done(Succeeded)'
    BY <1>9, <2>1, <2>2 DEF Done
  <2>9. QED
    BY <1>7, <2>1, <2>2, <2>3, <2>5, <2>7, <2>8 DEF AloneAt, Active, Undecided, Executing
<1>14. CASE StartCall(d)
  <2>1. /\ e.type = "TOOL_EXECUTION_STARTED" /\ pc[d] = "start_call" /\ e.call = loc[d].call
        /\ pc'[d] = "execute" /\ loc'[d] = loc[d]
    BY <1>1, <1>2, <1>14 DEF StartCall
  <2>2. /\ StartedCalls' = StartedCalls \cup {e.call} /\ FinishedCalls' = FinishedCalls
        /\ Calls' = Calls /\ RejectedCalls' = RejectedCalls /\ Succeeded' = Succeeded
    BY <1>3, <1>4, <1>5, <2>1
  <2>3. Settled /\ e.call \in Open /\ FinishedCalls \subseteq StartedCalls /\ AtMostOne(Open)
    BY <1>1, <1>6, <2>1 DEF StatusReads, AloneAt, Books
  <2>4. Open' = {}
    BY <2>2, <2>3 DEF Open, AtMostOne
  <2>5. /\ e.call \in StartedCalls' \ FinishedCalls'
        /\ StartedCalls' \subseteq FinishedCalls' \cup {e.call}
    BY <2>2, <2>3 DEF Open, Settled
  <2>6. ~Settled'
    BY <2>5 DEF Settled
  <2>7. Status' = "INTERRUPTED"
    BY <1>4, <1>6, <1>8, <2>1, <2>6 DEF StatusReads, RunTerminals
  <2>8. Done(Succeeded)'
    BY <1>9, <2>1, <2>2 DEF Done
  <2>9. QED
    BY <1>7, <2>1, <2>4, <2>5, <2>7, <2>8 DEF AloneAt, Active, Undecided, Executing
<1>15. CASE Succeed(d)
  <2>1. /\ e.type = "TOOL_EXECUTION_SUCCEEDED" /\ pc[d] = "succeed" /\ e.call = loc[d].call
        /\ pc'[d] = "project" /\ loc'[d].snap = Len(ledger) + 1
    BY <1>1, <1>2, <1>15 DEF Succeed, Locals
  <2>2. /\ StartedCalls' = StartedCalls /\ FinishedCalls' = FinishedCalls \cup {e.call}
        /\ Calls' = Calls /\ RejectedCalls' = RejectedCalls
        /\ Succeeded' = Succeeded \cup {Len(ledger) + 1}
    BY <1>3, <1>4, <1>5, <2>1
  <2>3. /\ StartedCalls \subseteq FinishedCalls \cup {e.call} /\ Open = {}
        /\ e.call \in StartedCalls /\ StartedCalls \subseteq Calls
    BY <1>1, <2>1 DEF AloneAt, Executing, Books
  <2>4. Settled' /\ Open' = {} /\ Calls # {}
    BY <2>2, <2>3 DEF Settled, Open
  <2>5. Awaited' = {}
    BY <2>4 DEF Awaited
  <2>6. Status' = "ACTIVE"
    BY <1>4, <1>6, <1>8, <2>1, <2>4, <2>5 DEF StatusReads, RunTerminals
  <2>7. Succeeded' \ {loc'[d].snap} \subseteq Succeeded
    BY <2>1, <2>2
  <2>8. Done(Succeeded \ {loc[d].snap})'
    BY <1>9, <2>1, <2>7 DEF Done
  <2>9. QED
    BY <1>5, <1>7, <2>1, <2>6, <2>8 DEF AloneAt, Active, Undecided, Executing
<1>16. CASE Fail(d)
  <2>1. /\ pc[d] = "fail" /\ e.type = "TOOL_EXECUTION_FAILED" /\ pc'[d] \in {"idle", "top"}
    BY <1>1, <1>2, <1>16 DEF Fail, Return
  <2>2. Succeeded' = Succeeded
    BY <1>5, <2>1
  <2>3. Done(Succeeded)'
    BY <1>9, <2>1, <2>2 DEF Done
  <2>4. QED
    BY <1>4, <1>7, <2>1, <2>3 DEF AloneAt, Active, Undecided, Executing
<1>17. CASE RejectRun(d) \/ Exhaust(d) \/ StopRun(d) \/ RequestReview(d) \/ RequireApproval(d)
  <2>1. pc'[d] = "idle"
    BY <1>1, <1>17 DEF Return, RejectRun, Exhaust, StopRun, RequestReview, RequireApproval
  <2>2. QED
    BY <1>7, <2>1 DEF AloneAt, Active, Undecided, Executing
<1>18. QED
  BY <1>10, <1>11, <1>12, <1>13, <1>14, <1>15, <1>16, <1>17 DEF Appends

LEMMA QuietAlone ==
  ASSUME AtMostOne(Drivers), AloneInv, NEW d \in Drivers,
         Locally(d) \/ Outside(d) \/ Crash(d)
           \/ \E r \in Requests, a \in ApprovalsInHand : Invoke(d, r, a)
  PROVE  Books' /\ AloneAt(d)'
<1> USE DEF At, Goto
<1>1. /\ TypeOK /\ ExecutionInv /\ FlowInv /\ Books /\ AloneAt(d) /\ StatusReads
      /\ pc \in [Drivers -> PCs] /\ loc \in [Drivers -> Locals]
  BY StatusViews DEF AloneInv, ExecutionInv, TypeOK
<1>2. ledger' = ledger /\ lineage \subseteq lineage'
  BY DEF Locally, Outside, Crash, Invoke, durable, Initialize, FinishReconcile, FinishProject,
         TopReturns, TakeApproval, TakePending, AskProvider, CheckExhausted, ProviderDeclines,
         RefuseProposal, PutFails, FinishPut, SuccessRefused, AddRelation, PutDraft, Execute
<1>3. /\ Books' /\ Status' = Status /\ Open' = Open /\ Succeeded' = Succeeded
      /\ StartedCalls' = StartedCalls /\ FinishedCalls' = FinishedCalls
      /\ RequiredCalls' = RequiredCalls /\ RecordedCalls' = RecordedCalls
      /\ RejectedCalls' = RejectedCalls /\ RefusedCalls' = RefusedCalls
      /\ \A i : Relations(i)' = Relations(i)
      /\ Len(ledger') = Len(ledger)
  BY <1>1, <1>2, BooksQuiet
<1>4. Done(Succeeded) => Done(Succeeded)'
  BY <1>2, <1>3 DEF Done
<1>5. /\ PendingApproval = Awaited /\ PendingApproval \cup PendingExecution = Open
      /\ Interrupted <=> ~Settled
  BY <1>1, PendingCalls DEF Awaited, Settled
\* The place and what it needs stay, while relations may be added.
<1>6. CASE pc'[d] = pc[d] /\ loc'[d] = loc[d]
  <2>1. Done(Succeeded \ {loc[d].snap}) => Done(Succeeded \ {loc[d].snap})'
    BY <1>2, <1>3, <1>6 DEF Done
  <2>2. QED
    BY <1>1, <1>2, <1>3, <1>4, <1>6, <2>1 DEF AloneAt
<1>7. CASE pc'[d] \in {"idle", "initialize"}
  BY <1>3, <1>7 DEF AloneAt, Active, Undecided, Executing
<1>8. CASE Initialize(d)
  <2>1. \/ ledger = <<>> /\ pc'[d] = "start_run"
        \/ ledger # <<>> /\ pc'[d] = "reconcile" /\ loc'[d].snap = Len(ledger)
        \/ pc'[d] = "idle"
    BY <1>1, <1>8 DEF Initialize, Return, Locals
  <2>2. ledger = <<>> => Status' = "NEW"
    BY <1>1, <1>3 DEF StatusReads
  <2>3. QED
    BY <1>2, <1>3, <2>1, <2>2 DEF AloneAt, Active, Undecided, Executing
<1>9. CASE FinishReconcile(d)
  <2>1. /\ pc[d] = "reconcile" /\ pc'[d] = "top" /\ Due(d) \subseteq lineage
        /\ loc[d].snap = Len(ledger) /\ ledger # <<>>
    BY <1>1, <1>9 DEF FinishReconcile, AloneAt
  <2>2. \A i \in Succeeded : i <= loc[d].snap
    BY <1>1, <2>1 DEF Succeeded, OfType, TypeOK
  <2>3. Done(Succeeded)
    BY <2>1, <2>2 DEF Due, Done, Succeeded
  <2>4. QED
    BY <1>2, <1>3, <1>4, <2>1, <2>3 DEF AloneAt, Active, Undecided, Executing
<1>10. CASE FinishProject(d)
  <2>1. /\ pc[d] = "project" /\ pc'[d] \in {"top", "idle"} /\ Relations(loc[d].snap) \subseteq lineage
        /\ Done(Succeeded \ {loc[d].snap}) /\ Status = "ACTIVE"
    BY <1>1, <1>10 DEF FinishProject, Due, Return, AloneAt, Active
  <2>2. Done(Succeeded) /\ ledger # <<>>
    BY <1>1, <2>1 DEF Done, StatusReads
  <2>3. QED
    BY <1>2, <1>3, <1>4, <2>1, <2>2 DEF AloneAt, Active, Undecided, Executing
<1>11. CASE TakeApproval(d)
  <2>1. /\ pc[d] = "top" /\ pc'[d] = "record_approval" /\ ~Terminal /\ ~Interrupted
        /\ loc[d].approval.call \in PendingApproval
        /\ loc'[d].call = loc[d].approval.call /\ loc'[d].approval = loc[d].approval
    BY <1>1, <1>11 DEF TakeApproval, AnswersPending, Locals
  <2>2. Done(Succeeded) /\ ledger # <<>>
    BY <1>1, <2>1 DEF AloneAt
  <2>3. Status = "WAITING_APPROVAL" /\ loc'[d].call \in Open \ RecordedCalls
    BY <1>1, <1>5, <2>1, <2>2 DEF StatusReads, Awaited
  <2>4. QED
    BY <1>3, <1>4, <2>1, <2>2, <2>3 DEF AloneAt, Active, Undecided, Executing
\* Past the approval branches the run is active.
<1>12. ASSUME pc[d] = "top", PastApproval(d), ~WaitingReview
       PROVE  Status = "ACTIVE" /\ Done(Succeeded)
  <2>1. Done(Succeeded) /\ ledger # <<>>
    BY <1>1, <1>12 DEF AloneAt
  <2>2. QED
    BY <1>1, <1>5, <1>12, <2>1 DEF PastApproval, StatusReads
<1>13. CASE TakePending(d)
  <2>1. ~LimitExceeded
    <3>1. Drivers = {d}
      BY DEF AtMostOne
    <3>2. Cardinality(Drivers) = 1
      BY <3>1, FS_Singleton
    <3>3. IsFiniteSet(Drivers)
      BY <3>1, FS_Singleton
    <3>4. Cardinality(Consulting) \in Nat /\ Cardinality(Proposing) \in Nat
      <4>1. Consulting \subseteq Drivers /\ Proposing \subseteq Drivers
        BY DEF Consulting, Proposing
      <4>2. QED
        BY <3>3, <4>1, FS_Subset, FS_CardinalityType
    <3>5. Decisions \in Nat /\ ToolCalls \in Nat
      BY <1>1, CountsFinite DEF Decisions, ToolCalls, Calls
    <3>6. QED
      BY <3>2, <3>4, <3>5, LimitsAssumption DEF AloneInv, LimitsInv, LimitExceeded, Steps
  <2>2. /\ pc[d] = "top" /\ pc'[d] = "start_call" /\ loc'[d].call \in PendingExecution
        /\ PastApproval(d) /\ ~WaitingReview
    BY <1>1, <1>13, <2>1 DEF TakePending, Locals
  <2>3. QED
    BY <1>3, <1>4, <1>5, <1>12, <2>2 DEF AloneAt, Active, Undecided, Executing
<1>14. CASE AskProvider(d)
  <2>1. /\ pc[d] = "top" /\ pc'[d] \in {"check_exhausted", "decide"}
        /\ PastApproval(d) /\ ~WaitingReview /\ PendingExecution = {}
    BY <1>1, <1>14 DEF AskProvider
  <2>2. Open = {}
    BY <1>5, <2>1 DEF PastApproval
  <2>3. QED
    BY <1>3, <1>4, <1>12, <2>1, <2>2 DEF AloneAt, Active, Undecided, Executing
<1>15. CASE CheckExhausted(d)
  <2>1. pc[d] = "check_exhausted" /\ pc'[d] \in {"exhaust", "idle"}
    BY <1>1, <1>15 DEF CheckExhausted, Return
  <2>2. QED
    BY <1>1, <1>3, <1>4, <2>1 DEF AloneAt, Active, Undecided, Executing
<1>16. CASE Execute(d) \/ PutFails(d) \/ FinishPut(d)
  <2>1. /\ pc[d] \in {"execute", "put"} /\ pc'[d] \in {"put", "fail", "succeed"}
        /\ loc'[d].call = loc[d].call
    BY <1>1, <1>16 DEF Execute, PutFails, FinishPut, Locals
  <2>2. QED
    BY <1>1, <1>3, <1>4, <2>1 DEF AloneAt, Active, Undecided, Executing
<1>17. QED
  <2>1. CASE Outside(d) \/ Crash(d) \/ \E r \in Requests, a \in ApprovalsInHand : Invoke(d, r, a)
    BY <1>1, <1>3, <1>6, <1>7, <1>16, <2>1
       DEF Outside, AddRelation, PutDraft, Crash, Return, Invoke
  <2>2. CASE TopReturns(d) \/ ProviderDeclines(d) \/ RefuseProposal(d) \/ SuccessRefused(d)
    BY <1>1, <1>7, <2>2 DEF TopReturns, ProviderDeclines, RefuseProposal, SuccessRefused, Return
  <2>3. CASE Locally(d)
    BY <1>3, <1>8, <1>9, <1>10, <1>11, <1>13, <1>14, <1>15, <1>16, <2>2, <2>3 DEF Locally
  <2>4. QED
    BY <2>1, <2>3

LEMMA NextAlone ==
  ASSUME AtMostOne(Drivers) PROVE AloneInv /\ [Next]_vars => AloneInv'
<1> SUFFICES ASSUME AloneInv, [Next]_vars PROVE AloneInv'
  OBVIOUS
<1>1. ExecutionInv' /\ FlowInv' /\ LimitsInv'
  <2>1. IsFiniteSet(Drivers)
    <3>1. CASE Drivers = {}
      BY <3>1, FS_EmptySet
    <3>2. ASSUME NEW d \in Drivers PROVE IsFiniteSet(Drivers)
      <4>1. Drivers = {d}
        BY DEF AtMostOne
      <4>2. QED
        BY <4>1, FS_Singleton
    <3>3. QED
      BY <3>1, <3>2
  <2>2. ExecutionInv /\ FlowInv /\ LimitsInv
    BY DEF AloneInv
  <2>3. QED
    BY <2>1, <2>2, NextExecution, NextFlow, NextLimits
<1>2. CASE UNCHANGED vars
  <2>1. Books'
    BY <1>2, BooksQuiet DEF AloneInv, vars
  <2>2. ASSUME NEW d \in Drivers PROVE AloneAt(d)'
    <3>1. AloneAt(d)
      BY DEF AloneInv
    <3>2. /\ pc' = pc /\ loc' = loc /\ lineage' = lineage /\ ledger' = ledger
      BY <1>2 DEF vars
    <3>3. QED
      BY <3>1, <3>2, BooksQuiet DEF AloneAt, Done
  <2>3. QED
    BY <1>1, <2>1, <2>2 DEF AloneInv
<1>3. CASE Next
  <2>1. PICK d \in Drivers : StepOf(d)
    BY <1>3 DEF Next, StepOf
  <2>2. Books' /\ AloneAt(d)'
    BY <1>1, <2>1, AppendsAlone, QuietAlone DEF StepOf, DriverStep
  <2>3. QED
    BY <1>1, <2>2 DEF AloneInv, AtMostOne
<1>4. QED
  BY <1>2, <1>3

LEMMA AloneHolds == ASSUME AtMostOne(Drivers) PROVE Spec => []AloneInv
<1>1. Init => AloneInv
  BY InitAlone
<1>2. AloneInv /\ [Next]_vars => AloneInv'
  BY NextAlone
<1>3. QED
  BY <1>1, <1>2, PTL DEF Spec

-----------------------------------------------------------------------------
(* What follows from it *)

LEMMA AloneProjectable == AloneInv => LedgerProjectable
<1> SUFFICES ASSUME AloneInv, ledger # <<>>
             PROVE  Projectable /\ Cardinality(OfType("RUN_STARTED")) = 1
  BY DEF LedgerProjectable
<1>1. ExecutionInv /\ Books
  BY DEF AloneInv
<1>2. \A c : /\ AtMostOne(Where("APPROVAL_RECORDED", c))
             /\ AtMostOne(Where("TOOL_CALL_REJECTED", c))
             /\ AtMostOne(Where("TOOL_EXECUTION_STARTED", c))
             /\ AtMostOne(Finished(c))
             /\ \A i \in Where("APPROVAL_RECORDED", c) : ledger[i].data.call = c
  BY <1>1 DEF Books, OnePerCall, AtMostOne, Where, Finished, ExecutionEnds
<1>3. \A c : Has("TOOL_CALL_REJECTED", c) => Has("APPROVAL_RECORDED", c)
  <2>1. RefusedCalls \subseteq RejectedCalls /\ RejectedCalls \subseteq RecordedCalls
    BY <1>1, RecordsSplit DEF Books, ExecutionInv
  <2>2. QED
    BY <2>1, CallViews
<1>4. Terminal => LastType \in RunTerminals
  BY <1>1 DEF Books
<1>5. AtMostOne(PendingApproval \cup PendingExecution)
  BY <1>1, PendingCalls DEF Books
<1>6. Cardinality(OfType("RUN_STARTED")) = 1
  <2>1. PICK i : i \in OfType("RUN_STARTED")
    BY <1>1 DEF Books
  <2>2. OfType("RUN_STARTED") = {i}
    BY <1>1, <2>1 DEF Books, AtMostOne
  <2>3. QED
    BY <2>2, FS_Singleton
<1>7. QED
  BY <1>2, <1>3, <1>4, <1>5, <1>6 DEF Projectable

\* With one driver at a time, whatever was run, approved, rejected or cut short, the
\* strict reader of the next run() accepts the ledger (_project).
THEOREM LedgerReadable ==
  ASSUME AtMostOne(Drivers) PROVE Spec => []LedgerProjectable
<1>1. QED
  BY AloneHolds, AloneProjectable, PTL

LEMMA LimitsCounted ==
  LimitsInv /\ IsFiniteSet(Drivers) =>
    LET further == Cardinality(Drivers) - 1
    IN  /\ Decisions <= MaxDecisions + further
        /\ ToolCalls <= MaxToolCalls + further
        /\ Steps <= MaxSteps + further
<1> SUFFICES ASSUME LimitsInv, IsFiniteSet(Drivers)
             PROVE  /\ Decisions <= MaxDecisions + (Cardinality(Drivers) - 1)
                    /\ ToolCalls <= MaxToolCalls + (Cardinality(Drivers) - 1)
                    /\ Steps <= MaxSteps + (Cardinality(Drivers) - 1)
  OBVIOUS
<1>1. Consulting \subseteq Drivers /\ Proposing \subseteq Drivers
  BY DEF Consulting, Proposing
<1>2. /\ Cardinality(Consulting) \in Nat /\ Cardinality(Proposing) \in Nat
      /\ Cardinality(Drivers) \in Nat
  BY <1>1, FS_Subset, FS_CardinalityType
<1>3. Decisions \in Nat /\ ToolCalls \in Nat
  BY CountsFinite DEF LimitsInv, Decisions, ToolCalls, Calls
<1>4. QED
  BY <1>2, <1>3, LimitsAssumption DEF LimitsInv, Steps

\* The limits on decisions, calls and steps hold across every restart, by at most
\* one for each driver beyond the first; and a single driver that stopped on a limit
\* has left no admitted call behind (AgentLoop.run, _append_hard_limit).
THEOREM LimitsHold ==
  ASSUME IsFiniteSet(Drivers) PROVE Spec => []HardLimits
<1>1. LimitsInv /\ [Next]_vars => LimitsInv'
  BY NextLimits
<1>2. Init => LimitsInv
  BY InitLimits
<1>3. CASE AtMostOne(Drivers)
  <2>1. AloneInv => HardLimits
    <3> SUFFICES ASSUME AloneInv PROVE HardLimits
      OBVIOUS
    <3>1. OfType("BUDGET_EXHAUSTED") # {} => PendingExecution = {}
      BY PendingCalls DEF AloneInv, Books
    <3>2. QED
      BY <3>1, LimitsCounted DEF AloneInv, HardLimits
  <2>2. Spec => []AloneInv
    BY <1>3, AloneHolds
  <2>3. QED
    BY <2>1, <2>2, PTL
<1>4. CASE ~AtMostOne(Drivers)
  <2>1. Cardinality(Drivers) - 1 # 0
    <3>1. PICK x \in Drivers, y \in Drivers : x # y
      BY <1>4 DEF AtMostOne
    <3>2. IsFiniteSet({x, y}) /\ Cardinality({x, y}) = 2
      <4>1. IsFiniteSet({x}) /\ Cardinality({x}) = 1
        BY FS_Singleton
      <4>2. IsFiniteSet({x} \cup {y}) /\ Cardinality({x} \cup {y}) = Cardinality({x}) + 1
        <5>1. y \notin {x}
          BY <3>1
        <5>2. QED
          BY <4>1, <5>1, FS_AddElement
      <4>3. {x, y} = {x} \cup {y}
        OBVIOUS
      <4>4. QED
        BY <4>1, <4>2, <4>3
    <3>3. Cardinality({x, y}) <= Cardinality(Drivers) /\ Cardinality(Drivers) \in Nat
      <4>1. {x, y} \subseteq Drivers
        OBVIOUS
      <4>2. QED
        BY <4>1, FS_Subset, FS_CardinalityType
    <3>4. QED
      BY <3>2, <3>3
  <2>2. LimitsInv => HardLimits
    BY <2>1, LimitsCounted DEF HardLimits
  <2>3. QED
    BY <1>1, <1>2, <2>2, PTL DEF Spec
<1>5. QED
  BY <1>3, <1>4

LEMMA DecisionAfterProjection ==
  ASSUME AloneInv, [Next]_vars, Len(ledger') > Len(ledger),
         ledger'[Len(ledger')].type = "DECISION_RECORDED"
  PROVE  \A i \in OfType("TOOL_EXECUTION_SUCCEEDED") : Relations(i) \subseteq lineage
<1>1. TypeOK
  BY DEF AloneInv, ExecutionInv
<1>2. ledger' # ledger
  <2>1. Len(ledger) \in Nat
    BY <1>1 DEF TypeOK
  <2>2. QED
    BY <2>1
<1>3. PICK d \in Drivers : StepOf(d)
  BY <1>2 DEF Next, StepOf, vars
<1>4. Appends(d)
  BY <1>2, <1>3
     DEF StepOf, DriverStep, Locally, Outside, Crash, Invoke, durable, Initialize,
         FinishReconcile, FinishProject, TopReturns, TakeApproval, TakePending, AskProvider,
         CheckExhausted, ProviderDeclines, RefuseProposal, PutFails, FinishPut,
         SuccessRefused, AddRelation, PutDraft, Execute
<1>5. PICK e \in Event :
        ledger' = Append(ledger, e) /\ (e.type = "DECISION_RECORDED" => pc[d] = "decide")
  BY <1>1, <1>4, LoggedEvent
     DEF At, Appends, StartRun, RecordApproval, RejectCall, RejectRun, Exhaust, Decide, StopRun,
         RequestReview, Materialize, RequireApproval, StartCall, Succeed, Fail
<1>6. ledger'[Len(ledger')] = e
  BY <1>1, <1>5, AppendFacts DEF TypeOK
<1>7. Done(Succeeded)
  BY <1>5, <1>6 DEF AloneInv, AloneAt
<1>8. QED
  BY <1>7 DEF Done, Succeeded

\* With one driver at a time no decision is recorded before the lineage of every
\* success is complete, also of those whose driver died before projecting it
\* (_reconcile_success_lineage, _project_success).
THEOREM ProjectedFirst ==
  ASSUME AtMostOne(Drivers) PROVE Spec => SuccessesProjectedFirst
<1>1. AloneInv /\ [Next]_vars =>
        [Len(ledger') > Len(ledger) /\ ledger'[Len(ledger')].type = "DECISION_RECORDED"
           => \A i \in OfType("TOOL_EXECUTION_SUCCEEDED") : Relations(i) \subseteq lineage]_vars
  BY DecisionAfterProjection
<1>2. Spec => []AloneInv
  BY AloneHolds
<1>3. QED
  BY <1>1, <1>2, PTL DEF Spec, SuccessesProjectedFirst

-----------------------------------------------------------------------------
(* The loop implements the life cycle of a run *)

LEMMA LifecycleInit == Init => Lifecycle!Init
<1> SUFFICES ASSUME Init PROVE Lifecycle!Init
  OBVIOUS
<1>1. ledger = <<>> /\ effects = <<>>
  BY DEF Init
<1>2. Calls = {} /\ Status = "NEW"
  BY <1>1 DEF Calls, OfType, Status
<1>3. QED
  BY <1>1, <1>2 DEF Lifecycle!Init

Denied == {c \in Calls : Decided(c, "REJECTED")}

LEMMA DeniedView == Denied = Calls \cap RejectedCalls
BY CallViews DEF Denied

\* The status changes as the life cycle allows, and nothing else.
LEMMA StatusMoves ==
  ASSUME effects' = effects, Denied' = Denied,
         Status' = Status \/ <<Status, Status'>> \in Lifecycle!Moves
  PROVE  Lifecycle!Next \/ UNCHANGED Lifecycle!vars
BY DEF Lifecycle!Next, Lifecycle!Move, Lifecycle!vars, Denied

LEMMA QuietLifecycle ==
  ASSUME AloneInv, NEW d \in Drivers,
         Locally(d) \/ Outside(d) \/ Crash(d)
           \/ \E r \in Requests, a \in ApprovalsInHand : Invoke(d, r, a)
  PROVE  Lifecycle!Next \/ UNCHANGED Lifecycle!vars
<1> USE DEF At, Goto
<1>1. ledger' = ledger
  BY DEF Locally, Outside, Crash, Invoke, durable, Initialize, FinishReconcile, FinishProject,
         TopReturns, TakeApproval, TakePending, AskProvider, CheckExhausted, ProviderDeclines,
         RefuseProposal, PutFails, FinishPut, SuccessRefused, AddRelation, PutDraft, Execute
<1>2. Denied' = Denied /\ Status' = Status
  BY <1>1, BooksQuiet DEF Denied, Calls, Decided, Where, OfType
<1>3. CASE Execute(d)
  <2>1. /\ pc[d] = "execute" /\ effects' = Append(effects, loc[d].call)
        /\ Status = "INTERRUPTED" /\ loc[d].call \in StartedCalls
        /\ loc[d].call \in StartedCalls \ Contents(effects)
        /\ RejectedCalls \cap StartedCalls = {}
    BY <1>3 DEF Execute, AloneInv, AloneAt, Executing, ExecutionInv, CallInHand
  <2>2. loc[d].call \notin Denied
    BY <2>1, DeniedView
  <2>3. Contents(effects') = Contents(effects) \cup {loc[d].call}
    <3>1. TypeOK /\ ExecutedAtMostOnce /\ loc[d].call \in Nat
      BY DriverParts DEF AloneInv, ExecutionInv
    <3>2. QED
      BY <2>1, <3>1, EffectsAfterExecute
  <2>4. loc[d].call \in Lifecycle!Ran(effects') \ (Lifecycle!Ran(effects) \cup Denied)
    BY <2>1, <2>2, <2>3 DEF Lifecycle!Ran, Contents
  <2>5. Lifecycle!RunTool
    BY <1>2, <2>1, <2>4 DEF Lifecycle!RunTool, Denied
  <2>6. QED
    BY <2>5 DEF Lifecycle!Next
<1>4. CASE ~Execute(d)
  <2>1. effects' = effects
    BY <1>4
       DEF Locally, Outside, Crash, Invoke, Initialize, FinishReconcile, FinishProject,
           TopReturns, TakeApproval, TakePending, AskProvider, CheckExhausted, ProviderDeclines,
           RefuseProposal, PutFails, FinishPut, SuccessRefused, AddRelation, PutDraft
  <2>2. QED
    BY <1>2, <2>1, StatusMoves
<1>5. QED
  BY <1>3, <1>4

LEMMA AppendsLifecycle ==
  ASSUME AloneInv, ExecutionInv', Books', NEW d \in Drivers, Appends(d)
  PROVE  Lifecycle!Next \/ UNCHANGED Lifecycle!vars
<1>1. TypeOK /\ ExecutionInv /\ Books /\ AloneAt(d) /\ StatusReads /\ StatusReads'
  <2>1. (ExecutionInv /\ Books => StatusReads)'
    BY StatusViews, PTL
  <2>2. QED
    BY <2>1, StatusViews DEF AloneInv, ExecutionInv
<1>2. PICK e \in Event :
        /\ ledger' = Append(ledger, e)
        /\ e.type = "RUN_STARTED" => pc[d] = "start_run"
        /\ e.type = "APPROVAL_RECORDED" => pc[d] = "record_approval"
        /\ e.type = "APPROVAL_REQUIRED" => pc[d] = "require_approval"
        /\ e.type = "TOOL_EXECUTION_STARTED" => pc[d] = "start_call"
        /\ e.type \in {"TOOL_EXECUTION_SUCCEEDED", "TOOL_EXECUTION_FAILED"} =>
             pc[d] \in Executing
        /\ e.type \in RunTerminals \cup {"TOOL_CALL_REJECTED", "DECISION_RECORDED",
                                         "REVIEW_REQUESTED", "TOOL_CALL_MATERIALIZED"} =>
             pc[d] \in Active
        /\ e.type = "TOOL_CALL_MATERIALIZED" => pc[d] \in Undecided
        /\ e.type \in {"APPROVAL_RECORDED", "APPROVAL_REQUIRED", "TOOL_EXECUTION_STARTED",
                       "TOOL_EXECUTION_SUCCEEDED", "TOOL_EXECUTION_FAILED"} => e.call = loc[d].call
        /\ e.type \in RunTerminals \cup
             {"RUN_STARTED", "DECISION_RECORDED", "TOOL_CALL_MATERIALIZED", "APPROVAL_REQUIRED",
              "APPROVAL_RECORDED", "TOOL_CALL_REJECTED", "TOOL_EXECUTION_STARTED",
              "TOOL_EXECUTION_SUCCEEDED", "TOOL_EXECUTION_FAILED", "REVIEW_REQUESTED"}
  BY <1>1, LoggedEvent, ZenonT(60)
     DEF At, Appends, StartRun, RecordApproval, RejectCall, RejectRun, Exhaust, Decide, StopRun,
         RequestReview, Materialize, RequireApproval, StartCall, Succeed, Fail, RunTerminals,
         Executing, Active, Undecided
<1>3. /\ StartedCalls' = IF e.type = "TOOL_EXECUTION_STARTED"
                         THEN StartedCalls \cup {e.call} ELSE StartedCalls
      /\ RequiredCalls' = IF e.type = "APPROVAL_REQUIRED"
                          THEN RequiredCalls \cup {e.call} ELSE RequiredCalls
      /\ RecordedCalls' = IF e.type = "APPROVAL_RECORDED"
                          THEN RecordedCalls \cup {e.call} ELSE RecordedCalls
      /\ RejectedCalls' = IF e.type = "APPROVAL_RECORDED" /\ e.data.decision = "REJECTED"
                          THEN RejectedCalls \cup {e.call} ELSE RejectedCalls
  BY <1>1, <1>2, SetsAfterLog
<1>4. /\ Calls' = Calls \cup (IF e.type = "TOOL_CALL_MATERIALIZED" THEN {Len(ledger) + 1} ELSE {})
      /\ FinishedCalls' = FinishedCalls
           \cup (IF e.type \in {"TOOL_EXECUTION_SUCCEEDED", "TOOL_EXECUTION_FAILED"}
                 THEN {e.call} ELSE {})
      /\ ledger' # <<>> /\ LastType' = e.type
      /\ Terminal' <=> Terminal \/ e.type \in RunTerminals
      /\ WaitingReview' =>
           \/ e.type = "REVIEW_REQUESTED"
           \/ WaitingReview /\ Calls = {} /\ e.type # "TOOL_CALL_MATERIALIZED"
  BY <1>1, <1>2, BooksAfterLog
<1>5. effects' = effects
  BY <1>1, LoggedEvent
<1>6. Denied = Calls \cap RejectedCalls /\ Denied' = Calls' \cap RejectedCalls'
  <2>1. (Denied = Calls \cap RejectedCalls)'
    BY DeniedView, PTL
  <2>2. QED
    BY <2>1, DeniedView
<1>7. ~Terminal /\ StartedCalls \subseteq Calls /\ AtMostOne(Open)
  <2>1. Status \in {"NEW", "WAITING_APPROVAL", "INTERRUPTED", "ACTIVE"}
    BY <1>1, <1>2 DEF AloneAt, Active, Undecided, Executing
  <2>2. ledger = <<>> => ~Terminal
    BY DEF Terminal
  <2>3. QED
    BY <1>1, <2>1, <2>2 DEF StatusReads, Books
<1>8. e.type # "APPROVAL_RECORDED" => Denied' = Denied
  <2>1. Len(ledger) + 1 \notin RejectedCalls
    BY <1>1, CallsBehind, TypesAfterLog DEF TypeOK
  <2>2. QED
    BY <1>3, <1>4, <1>6, <2>1
<1>9. ASSUME Status' = Status \/ <<Status, Status'>> \in Lifecycle!Moves,
             e.type # "APPROVAL_RECORDED"
      PROVE  Lifecycle!Next \/ UNCHANGED Lifecycle!vars
  BY <1>5, <1>8, <1>9, StatusMoves
<1>10. CASE e.type = "RUN_STARTED"
  <2>1. Status = "NEW" /\ ledger = <<>>
    BY <1>1, <1>2, <1>10 DEF AloneAt, StatusReads
  <2>2. \A t : OfType(t) = {}
    BY <2>1 DEF OfType
  <2>3. Calls = {} /\ StartedCalls = {} /\ RequiredCalls = {} /\ ~WaitingReview
    BY <2>2 DEF Calls, StartedCalls, RequiredCalls, WaitingReview
  <2>4. ~Terminal' /\ ~WaitingReview' /\ StartedCalls' = {} /\ RequiredCalls' = {}
    BY <1>3, <1>4, <1>7, <1>10, <2>3 DEF RunTerminals
  <2>5. Settled' /\ Awaited' = {}
    BY <2>4 DEF Settled, Awaited
  <2>6. Status' = "ACTIVE"
    BY <1>1, <1>4, <2>4, <2>5 DEF StatusReads
  <2>7. QED
    BY <1>9, <1>10, <2>1, <2>6 DEF Lifecycle!Moves
<1>11. CASE e.type \in RunTerminals
  <2>1. Status = "ACTIVE"
    BY <1>1, <1>2, <1>11 DEF AloneAt
  <2>2. Status' = e.type
    BY <1>1, <1>4, <1>11 DEF StatusReads
  <2>3. <<Status, Status'>> \in Lifecycle!Moves
    BY <1>11, <2>1, <2>2 DEF Lifecycle!Moves, Lifecycle!Final, RunTerminals
  <2>4. QED
    BY <1>9, <1>11, <2>3 DEF RunTerminals
<1>12. CASE e.type \in {"TOOL_CALL_REJECTED", "DECISION_RECORDED", "TOOL_CALL_MATERIALIZED",
                       "REVIEW_REQUESTED"}
  <2>1. Status = "ACTIVE" /\ Settled /\ Awaited = {} /\ ~WaitingReview
    BY <1>1, <1>2, <1>12 DEF AloneAt, StatusReads
  <2>2. StartedCalls' = StartedCalls /\ FinishedCalls' = FinishedCalls /\ Settled'
    BY <1>3, <1>4, <1>12, <2>1 DEF Settled
  <2>3. Awaited' = {}
    <3>1. Open' \subseteq Open \cup {Len(ledger) + 1}
      BY <1>3, <1>4, <1>12 DEF Open
    <3>2. RequiredCalls' = RequiredCalls /\ RecordedCalls' = RecordedCalls
      BY <1>3, <1>12
    <3>3. Len(ledger) + 1 \notin RequiredCalls
      BY <1>1, CallsBehind, TypesAfterLog DEF TypeOK
    <3>4. QED
      BY <2>1, <3>1, <3>2, <3>3 DEF Awaited
  <2>4. ~Terminal'
    BY <1>4, <1>7, <1>12 DEF RunTerminals
  <2>5. Status' \in {"ACTIVE", "WAITING_REVIEW"}
    BY <1>1, <1>4, <2>2, <2>3, <2>4 DEF StatusReads
  <2>6. QED
    BY <1>9, <1>12, <2>1, <2>5 DEF Lifecycle!Moves
<1>13. CASE e.type = "APPROVAL_REQUIRED"
  <2>1. /\ Status = "ACTIVE" /\ Settled
        /\ e.call \in Open /\ e.call \notin RequiredCalls
    BY <1>1, <1>2, <1>13 DEF AloneAt, Active, StatusReads
  <2>2. /\ StartedCalls' = StartedCalls /\ FinishedCalls' = FinishedCalls
        /\ RejectedCalls' = RejectedCalls /\ Calls' = Calls /\ RecordedCalls' = RecordedCalls
        /\ RequiredCalls' = RequiredCalls \cup {e.call}
    BY <1>3, <1>4, <1>13
  <2>3. e.call \notin RecordedCalls
    BY <1>1, <2>1 DEF ExecutionInv
  <2>4. Settled' /\ e.call \in Awaited'
    BY <2>1, <2>2, <2>3 DEF Settled, Awaited, Open
  <2>5. ~Terminal'
    BY <1>4, <1>7, <1>13 DEF RunTerminals
  <2>6. Status' = "WAITING_APPROVAL"
    BY <1>1, <1>4, <2>4, <2>5 DEF StatusReads
  <2>7. QED
    BY <1>9, <1>13, <2>1, <2>6 DEF Lifecycle!Moves
<1>14. CASE e.type = "TOOL_EXECUTION_STARTED"
  <2>1. Status = "ACTIVE" /\ e.call \in Open
    BY <1>1, <1>2, <1>14 DEF AloneAt, Active
  <2>2. StartedCalls' = StartedCalls \cup {e.call} /\ FinishedCalls' = FinishedCalls
    BY <1>3, <1>4, <1>14
  <2>3. ~Settled'
    BY <1>1, <2>1, <2>2 DEF Settled, Open, Books
  <2>4. ~Terminal'
    BY <1>4, <1>7, <1>14 DEF RunTerminals
  <2>5. Status' = "INTERRUPTED"
    BY <1>1, <1>4, <2>3, <2>4 DEF StatusReads
  <2>6. QED
    BY <1>9, <1>14, <2>1, <2>5 DEF Lifecycle!Moves
<1>15. CASE e.type \in {"TOOL_EXECUTION_SUCCEEDED", "TOOL_EXECUTION_FAILED"}
  <2>1. /\ Status = "INTERRUPTED" /\ Open = {} /\ e.call \in StartedCalls
        /\ StartedCalls \subseteq FinishedCalls \cup {e.call}
    BY <1>1, <1>2, <1>15 DEF AloneAt
  <2>2. /\ StartedCalls' = StartedCalls /\ FinishedCalls' = FinishedCalls \cup {e.call}
        /\ RejectedCalls' = RejectedCalls /\ Calls' = Calls
    BY <1>3, <1>4, <1>15
  <2>3. Settled' /\ Awaited' = {}
    BY <2>1, <2>2 DEF Settled, Awaited, Open
  <2>4. ~Terminal' /\ ~WaitingReview'
    BY <1>4, <1>7, <1>15, <2>1 DEF RunTerminals
  <2>5. Status' = "ACTIVE"
    BY <1>1, <1>4, <2>3, <2>4 DEF StatusReads
  <2>6. QED
    BY <1>9, <1>15, <2>1, <2>5 DEF Lifecycle!Moves
<1>16. CASE e.type = "APPROVAL_RECORDED"
  <2>1. Status = "WAITING_APPROVAL" /\ Settled /\ e.call \in Open \ RecordedCalls
    BY <1>1, <1>2, <1>16 DEF AloneAt, StatusReads
  <2>2. /\ StartedCalls' = StartedCalls /\ FinishedCalls' = FinishedCalls /\ Calls' = Calls
        /\ RecordedCalls' = RecordedCalls \cup {e.call}
        /\ RejectedCalls' = RejectedCalls
             \cup (IF e.data.decision = "REJECTED" THEN {e.call} ELSE {})
    BY <1>3, <1>4, <1>16
  <2>3. Settled' /\ Awaited' = {}
    BY <1>7, <2>1, <2>2 DEF Settled, Awaited, Open, AtMostOne
  <2>4. ~Terminal' /\ ~WaitingReview'
    BY <1>4, <1>7, <1>16, <2>1 DEF RunTerminals, Open
  <2>5. Status' = "ACTIVE"
    BY <1>1, <1>4, <2>3, <2>4 DEF StatusReads
  <2>6. CASE e.data.decision = "REJECTED"
    <3>1. e.call \in Calls /\ e.call \notin Denied
      BY <1>6, <2>1 DEF Open
    <3>2. Denied' = Denied \cup {e.call}
      BY <1>6, <2>2, <2>6, <3>1
    <3>3. Lifecycle!Deny
      BY <1>5, <2>1, <2>5, <3>1, <3>2 DEF Lifecycle!Deny, Denied
    <3>4. QED
      BY <3>3 DEF Lifecycle!Next
  <2>7. CASE e.data.decision # "REJECTED"
    <3>1. Denied' = Denied
      BY <1>6, <2>2, <2>7
    <3>2. QED
      BY <1>5, <2>1, <2>5, <3>1, StatusMoves DEF Lifecycle!Moves
  <2>8. QED
    BY <2>6, <2>7
<1>17. QED
  BY <1>2, <1>10, <1>11, <1>12, <1>13, <1>14, <1>15, <1>16

LEMMA NextLifecycle ==
  AloneInv /\ AloneInv' /\ [Next]_vars => [Lifecycle!Next]_(Lifecycle!vars)
<1> SUFFICES ASSUME AloneInv, AloneInv', [Next]_vars
             PROVE  Lifecycle!Next \/ UNCHANGED Lifecycle!vars
  OBVIOUS
<1>1. CASE UNCHANGED vars
  <2>1. effects' = effects /\ ledger' = ledger
    BY <1>1 DEF vars
  <2>2. Denied' = Denied /\ Status' = Status
    BY <2>1, BooksQuiet DEF Denied, Calls, Decided, Where, OfType
  <2>3. QED
    BY <2>1, <2>2, StatusMoves
<1>2. CASE Next
  <2>1. PICK d \in Drivers : StepOf(d)
    BY <1>2 DEF Next, StepOf
  <2>2. CASE Appends(d)
    BY <2>2, AppendsLifecycle DEF AloneInv
  <2>3. CASE ~Appends(d)
    BY <2>1, <2>3, QuietLifecycle DEF StepOf, DriverStep
  <2>4. QED
    BY <2>2, <2>3
<1>3. QED
  BY <1>1, <1>2

\* With one driver at a time the loop keeps the life cycle it promises: each step
\* changes the RunStatus as the life cycle allows, a tool runs only between the
\* durable start and end of its call, and never after the call's rejection.
THEOREM LoopImplementsLifecycle ==
  ASSUME AtMostOne(Drivers) PROVE Spec => ImplementsLifecycle
<1>1. Spec => []AloneInv
  BY AloneHolds
<1>2. QED
  BY <1>1, LifecycleInit, NextLifecycle, PTL DEF Spec, ImplementsLifecycle, Lifecycle!Spec

(***************************************************************************)
(* The BR1 run: what the steps of its drivers share                        *)
(***************************************************************************)

\* A log is a sequence, whatever its events carry.
IsLog(s) == s \in Seq(Contents(s))

\* What appending a few events does.
LEMMA LogExtended ==
  ASSUME NEW s, NEW t, IsLog(s), IsLog(t)
  PROVE  /\ IsLog(s \o t) /\ Len(s) \in Nat /\ Len(t) \in Nat
         /\ Len(s \o t) = Len(s) + Len(t)
         /\ DOMAIN s = 1..Len(s) /\ DOMAIN (s \o t) = 1..(Len(s) + Len(t))
         /\ \A i \in 1..Len(s) : (s \o t)[i] = s[i]
         /\ \A i \in 1..Len(t) : (s \o t)[Len(s) + i] = t[i]
<1> DEFINE S == Contents(s) \cup Contents(t)
           st == s \o t
<1>1. s \in Seq(S) /\ t \in Seq(S)
  BY DEF IsLog
<1> HIDE DEF S
<1>2. /\ st \in Seq(S) /\ Len(s) \in Nat /\ Len(t) \in Nat
      /\ Len(st) = Len(s) + Len(t)
      /\ DOMAIN s = 1..Len(s) /\ DOMAIN st = 1..(Len(s) + Len(t))
      /\ \A i \in 1..Len(s) : st[i] = s[i]
      /\ \A i \in 1..Len(t) : st[Len(s) + i] = t[i]
  BY <1>1
<1> HIDE DEF st
<1>3. IsLog(st)
  BY <1>2, SMTT(30) DEF IsLog, Contents
<1>4. QED
  BY <1>2, <1>3 DEF st

\* Appending one event.
LEMMA LogAppended ==
  ASSUME NEW s, NEW e, IsLog(s)
  PROVE  /\ IsLog(Append(s, e)) /\ Len(s) \in Nat
         /\ Len(Append(s, e)) = Len(s) + 1
         /\ DOMAIN s = 1..Len(s) /\ DOMAIN Append(s, e) = 1..(Len(s) + 1)
         /\ \A i \in 1..Len(s) : Append(s, e)[i] = s[i]
         /\ Append(s, e)[Len(s) + 1] = e
<1> DEFINE S == Contents(s) \cup {e}
           st == Append(s, e)
<1>1. s \in Seq(S) /\ e \in S
  BY DEF IsLog
<1> HIDE DEF S
<1>2. /\ st \in Seq(S) /\ Len(s) \in Nat /\ Len(st) = Len(s) + 1
      /\ DOMAIN s = 1..Len(s) /\ DOMAIN st = 1..(Len(s) + 1)
      /\ \A i \in 1..Len(s) : st[i] = s[i]
      /\ st[Len(s) + 1] = e
  BY <1>1, AppendFacts
<1> HIDE DEF st
<1>3. IsLog(st)
  BY <1>2 DEF IsLog, Contents
<1>4. QED
  BY <1>2, <1>3 DEF st
(***************************************************************************)
(* The invariants of the BR1 run                                           *)
(***************************************************************************)

\* Where a driver may be inside the provider.
AskStates == [phase : {"none", "parse", "freeze", "choose"}, intent : Specs \cup {None}, from : Nat]

\* A driver holds what its place needs: the run has started, its request is the
\* run's own, the call it executes was materialized.
RunTyped ==
  /\ IsLog(ledger)
  /\ pc \in [Drivers -> PCs] /\ loc \in [Drivers -> Locals] /\ ask \in [Drivers -> AskStates]
  /\ \A j \in Frozen : ledger[j].data \in Specs
  /\ \A d \in Drivers :
       /\ ask[d].phase # "none" => pc[d] = "decide"
       /\ ask[d].phase = "freeze" => ask[d].intent \in Specs
       /\ ask[d].from <= Len(ledger)
       /\ pc[d] # "idle" => ledger # <<>> /\ loc[d].request \in Requests
       /\ pc[d] = "execute" => loc[d].call \in Calls

\* Whoever is inside the provider will freeze the confirmed plan's intent where there
\* is one, and chooses for the frozen one.
IntentInv ==
  /\ IntentAgreed
  /\ \A d \in Drivers :
       /\ pc[d] # "idle" => \A i \in OfType("RUN_STARTED") : ledger[i].data = loc[d].request
       /\ ask[d].phase = "parse" => Preview[loc[d].request] = None
       /\ ask[d].phase = "freeze" /\ Preview[loc[d].request] # None
            => ask[d].intent = Preview[loc[d].request]
       /\ ask[d].phase = "choose" => \E j \in Frozen : ledger[j].data = ask[d].intent

\* What a call of each stage was given, as far as the provider sees to it.
Datasets == {Raw, Product("prepare", {Raw}, 0)}
Shaped(tool, inputs) ==
  \/ tool = "prepare" /\ inputs = {Raw}
  \/ tool = "preflight" /\ \E x \in Datasets : inputs = {x}
  \/ /\ tool = "train"
     /\ \E p \in inputs, x \in Datasets : p.kind = "preflight" /\ p.by = 0 /\ inputs = {x, p}
  \/ tool = "generate" /\ \E m \in inputs : m.kind = "model" /\ inputs = {m}
  \/ /\ tool = "predict"
     /\ \E m, c \in inputs : m.kind = "model" /\ c.kind = "candidates" /\ inputs = {m, c}
  \/ /\ tool = "evaluate"
     /\ \E c, p \in inputs : c.kind = "candidates" /\ p.kind = "predictions" /\ inputs = {c, p}

\* What the services see to: still true of the longer ledger.
Upheld(tool, inputs) ==
  /\ tool = "train" => TrainBound(inputs)
  /\ tool = "generate" => GenerateBound(inputs)
  /\ tool = "predict" => PredictBound(inputs)
  /\ tool = "evaluate" =>
       /\ Recorded("generate", Input(inputs, "candidates"), {})
       /\ Recorded("predict", Input(inputs, "predictions"), {Input(inputs, "candidates")})

ChainInv ==
  /\ \A c \in Calls : Shaped(ledger[c].data.tool, ledger[c].data.inputs)
  /\ \A i \in OfType("TOOL_EXECUTION_SUCCEEDED") :
       LET c == ledger[i].call
       IN /\ c \in Calls
          /\ \A tool \in {ledger[c].data.tool}, inputs \in {ledger[c].data.inputs} :
               ledger[i].data = <<Product(tool, inputs, c)>> /\ Upheld(tool, inputs)

\* The stages that did not succeed, the calls decided on after one of them while no
\* stage succeeded, and the drivers that may still decide on what they read before it.
Aborts == OfType("TOOL_EXECUTION_FAILED") \cup OfType("TOOL_CALL_REJECTED")
DecidedAfter(i) ==
  {j \in OfType("DECISION_RECORDED") :
     /\ j > i /\ ledger[j].data.kind = "call"
     /\ \A k \in OfType("TOOL_EXECUTION_SUCCEEDED") : ~(i < k /\ k < j)}
Late(i) == {d \in Drivers : ask[d].phase = "choose" /\ ask[d].from < i}
AbortInv ==
  \A i \in Aborts :
    /\ Cardinality(DecidedAfter(i)) <= Cardinality(Drivers) - 1
    /\ (\A k \in OfType("TOOL_EXECUTION_SUCCEEDED") : k < i) =>
         Cardinality(DecidedAfter(i)) + Cardinality(Late(i)) <= Cardinality(Drivers) - 1

(***************************************************************************)
(* The last event of a kind, and the reads one after the other             *)
(***************************************************************************)

\* Every nonempty set of naturals has a least element.
LEMMA LeastOf ==
  ASSUME NEW T \in SUBSET Nat, T # {}
  PROVE  \E x \in T : \A y \in T : x <= y
<1> DEFINE R == {p \in Nat \X Nat : p[1] < p[2]}
<1>1. IsWellFoundedOn(R, Nat)
  BY NatLessThanWellFounded DEF OpToRel
<1>2. \A x, y \in Nat : <<y, x>> \in R <=> y < x
  OBVIOUS
<1> HIDE DEF R
<1>3. PICK x \in T : \A y \in T : ~(<<y, x>> \in R)
  BY <1>1, WFMin
<1>4. ASSUME NEW y \in T PROVE x <= y
  <2>1. x \in Nat /\ y \in Nat /\ ~(y < x)
    BY <1>2, <1>3
  <2>2. QED
    BY <2>1
<1>5. QED
  BY <1>4

\* What Max chooses among positions up to n.
LEMMA GreatestUpTo ==
  ASSUME NEW n \in Nat, NEW S \in SUBSET (0..n), S # {}
  PROVE  Max(S) \in S /\ \A x \in S : x <= Max(S)
<1> DEFINE T == {n - x : x \in S}
<1>1. T \in SUBSET Nat /\ T # {}
  <2>1. \A x \in S : n - x \in Nat
    OBVIOUS
  <2>2. QED
    BY <2>1
<1> HIDE DEF T
<1>2. PICK y \in T : \A z \in T : y <= z
  BY <1>1, LeastOf
<1>3. PICK m \in S : y = n - m
  BY DEF T
<1>4. \A x \in S : m >= x
  <2> SUFFICES ASSUME NEW x \in S PROVE m >= x
    OBVIOUS
  <2>1. n - m <= n - x
    BY <1>2, <1>3 DEF T
  <2>2. QED
    BY <2>1
<1>5. Max(S) \in S /\ \A x \in S : Max(S) >= x
  BY <1>4 DEF Max
<1>6. QED
  BY <1>5

\* Every read is at one of the moments that d may find.
LEMMA LooksTyped ==
  ASSUME NEW d, NEW at \in Looks(d, Len(Stages) + 1)
  PROVE  at[7] \in Moments(d)
<1> DEFINE M == Moments(d)
           OfLength(k) == {s \in Seq(M) : Len(s) = k}
           Longer(L) == UNION {{Append(s, m) : m \in {x \in Moments(d) : s = <<>> \/ Last(s) <= x}} : s \in L}
           Body(f) == [k \in 0..7 |-> IF k = 0 THEN {<<>>} ELSE Longer(f[k - 1])]
           L0 == {<<>>}
           L1 == Longer(L0)
           L2 == Longer(L1)
           L3 == Longer(L2)
           L4 == Longer(L3)
           L5 == Longer(L4)
           L6 == Longer(L5)
           L7 == Longer(L6)
           g == [k \in 0..7 |-> IF k = 0 THEN L0 ELSE IF k = 1 THEN L1 ELSE IF k = 2 THEN L2
                                ELSE IF k = 3 THEN L3 ELSE IF k = 4 THEN L4 ELSE IF k = 5 THEN L5
                                ELSE IF k = 6 THEN L6 ELSE L7]
           looks == CHOOSE f : f = Body(f)
<1>1. at \in looks[7]
  <2>1. Len(Stages) + 1 = 7
    BY DEF Stages
  <2>2. Looks(d, 7) = looks[7]
    BY DEF Looks
  <2>3. QED
    BY <2>1, <2>2
<1>2. ASSUME NEW k \in Nat, NEW L \in SUBSET OfLength(k)
      PROVE  Longer(L) \in SUBSET OfLength(k + 1)
  <2> SUFFICES ASSUME NEW s \in L, NEW m \in M PROVE Append(s, m) \in OfLength(k + 1)
    OBVIOUS
  <2>1. s \in Seq(M) /\ Len(s) = k
    OBVIOUS
  <2> HIDE DEF M
  <2>2. QED
    BY <2>1
<1>3. L0 \in SUBSET OfLength(0)
  OBVIOUS
<1> HIDE DEF Longer, OfLength, L0, M
<1>4. g = Body(g)
  <2>1. /\ g[0] = {<<>>} /\ g[1] = Longer(g[0]) /\ g[2] = Longer(g[1]) /\ g[3] = Longer(g[2])
        /\ g[4] = Longer(g[3]) /\ g[5] = Longer(g[4]) /\ g[6] = Longer(g[5]) /\ g[7] = Longer(g[6])
    BY DEF L0
  <2> HIDE DEF L1, L2, L3, L4, L5, L6, L7
  <2>2. g = [k \in 0..7 |-> g[k]]
    OBVIOUS
  <2> HIDE DEF g
  <2>3. \A k \in 0..7 : g[k] = IF k = 0 THEN {<<>>} ELSE Longer(g[k - 1])
    <3>1. ASSUME NEW k \in 1..7 PROVE g[k] = Longer(g[k - 1])
      <4>1. k \in {1, 2, 3, 4, 5, 6, 7}
        OBVIOUS
      <4>2. /\ g[1] = Longer(g[1 - 1]) /\ g[2] = Longer(g[2 - 1]) /\ g[3] = Longer(g[3 - 1])
            /\ g[4] = Longer(g[4 - 1]) /\ g[5] = Longer(g[5 - 1]) /\ g[6] = Longer(g[6 - 1])
            /\ g[7] = Longer(g[7 - 1])
        <5>1. /\ 1 - 1 = 0 /\ 2 - 1 = 1 /\ 3 - 1 = 2 /\ 4 - 1 = 3 /\ 5 - 1 = 4 /\ 6 - 1 = 5
              /\ 7 - 1 = 6
          OBVIOUS
        <5>2. QED
          BY <2>1, <5>1, Zenon
      <4>3. QED
        BY <4>1, <4>2
    <3>2. ASSUME NEW k \in 0..7 PROVE g[k] = IF k = 0 THEN {<<>>} ELSE Longer(g[k - 1])
      <4>1. CASE k = 0
        BY <2>1, <4>1
      <4>2. CASE k # 0
        <5>1. k \in 1..7
          BY <4>2
        <5>2. QED
          BY <3>1, <4>2, <5>1
      <4>3. QED
        BY <4>1, <4>2
    <3>3. QED
      BY <3>2
  <2>4. QED
    BY <2>2, <2>3
<1>5. looks = Body(looks)
  <2> HIDE DEF Body, g
  <2>1. QED
    BY <1>4
<1> HIDE DEF looks
<1>6. /\ looks[0] = {<<>>} /\ looks[1] = Longer(looks[0]) /\ looks[2] = Longer(looks[1])
      /\ looks[3] = Longer(looks[2]) /\ looks[4] = Longer(looks[3]) /\ looks[5] = Longer(looks[4])
      /\ looks[6] = Longer(looks[5]) /\ looks[7] = Longer(looks[6])
  <2>1. \A k \in 0..7 : looks[k] = Body(looks)[k]
    BY <1>5
  <2>2. \A k \in 1..7 : looks[k] = Longer(looks[k - 1])
    BY <2>1
  <2>3. QED
    BY <2>1, <2>2
<1>7. looks[1] \in SUBSET OfLength(1)
  BY <1>2, <1>3, <1>6 DEF L0
<1>8. looks[2] \in SUBSET OfLength(2)
  BY <1>2, <1>6, <1>7
<1>9. looks[3] \in SUBSET OfLength(3)
  BY <1>2, <1>6, <1>8
<1>10. looks[4] \in SUBSET OfLength(4)
  BY <1>2, <1>6, <1>9
<1>11. looks[5] \in SUBSET OfLength(5)
  BY <1>2, <1>6, <1>10
<1>12. looks[6] \in SUBSET OfLength(6)
  BY <1>2, <1>6, <1>11
<1>13. looks[7] \in SUBSET OfLength(7)
  BY <1>2, <1>6, <1>12
<1>14. at \in Seq(M) /\ Len(at) = 7
  BY <1>1, <1>13 DEF OfLength
<1>15. at[7] \in M
  <2>1. 7 \in 1..Len(at)
    BY <1>14
  <2>2. \A q \in Seq(M) : \A i \in 1..Len(q) : q[i] \in M
    OBVIOUS
  <2>3. QED
    BY <1>14, <2>1, <2>2
<1>16. QED
  BY <1>15 DEF M


(***************************************************************************)
(* What a step of driver d does, as far as the invariants tell             *)
(***************************************************************************)

Fresh == (Len(ledger) + 1)..Len(ledger')

\* The ledger only grows.
Grown == IsLog(ledger') /\ Len(ledger) <= Len(ledger') /\ \A i \in 1..Len(ledger) : ledger'[i] = ledger[i]

\* Who appends an event of each type, and with what.
Appended(d) ==
  \A i \in Fresh :
    /\ ledger'[i].type = "RUN_STARTED" => ledger = <<>> /\ ledger'[i].data = loc'[d].request
    /\ ledger'[i].type = "BR1_INTENT_FROZEN" =>
         /\ Frozen = {} /\ i = Len(ledger) + 1
         /\ pc[d] = "decide" /\ ask[d].phase = "freeze" /\ ledger'[i].data = ask[d].intent
    /\ ledger'[i].type = "DECISION_RECORDED" =>
         /\ i = Len(ledger) + 1 /\ ask[d].phase = "choose" /\ ask'[d].phase = "none"
         /\ ledger'[i].data.spec = ask[d].intent
         /\ ledger'[i].data.kind = "call" => \E n \in Moments(d) : ~Aborted(n)
    /\ ledger'[i].type = "TOOL_CALL_MATERIALIZED" =>
         Shaped(ledger'[i].data.tool, ledger'[i].data.inputs)
    /\ ledger'[i].type = "TOOL_EXECUTION_SUCCEEDED" =>
         LET c == ledger'[i].call
             tool == ledger[c].data.tool
             inputs == ledger[c].data.inputs
         IN c \in Calls /\ ledger'[i].data = <<Product(tool, inputs, c)>> /\ Bound(tool, inputs)
    /\ ledger'[i].type \in {"TOOL_EXECUTION_FAILED", "TOOL_CALL_REJECTED"} => ask'[d].phase = "none"

\* Where the step leaves d itself.
Placed(d) ==
  /\ ask'[d].phase # "none" => pc'[d] = "decide"
  /\ ask'[d].from <= Len(ledger)
  /\ pc'[d] # "idle" => ledger' # <<>> /\ loc'[d].request \in Requests
  /\ pc'[d] # "idle" => IF pc[d] = "idle"
                        THEN \A i \in OfType("RUN_STARTED") : ledger[i].data = loc'[d].request
                        ELSE loc'[d].request = loc[d].request
  /\ pc'[d] = "execute" => loc'[d].call \in Calls'
  /\ ask'[d].phase = "parse" => Preview[loc'[d].request] = None
  /\ ask'[d].phase = "freeze" =>
       /\ ask'[d].intent \in Specs
       /\ Preview[loc'[d].request] # None /\ ask[d].phase # "parse"
            => ask'[d].intent = Preview[loc'[d].request]
  /\ ask'[d].phase = "choose" =>
       /\ \E j \in Frozen' : ledger'[j].data = ask'[d].intent
       /\ \A i \in Ends(Len(ledger)) : i <= ask'[d].from

\* Only d moves.
OnlyMoves(d) ==
  \E label \in PCs, x \in Locals, y \in AskStates :
    /\ pc' = [pc EXCEPT ![d] = label] /\ loc' = [loc EXCEPT ![d] = x] /\ ask' = [ask EXCEPT ![d] = y]

Moved(d) == Grown /\ Appended(d) /\ Placed(d) /\ OnlyMoves(d)

LEMMA NothingNew ==
  ASSUME IsLog(ledger), ledger' = ledger
  PROVE  Grown /\ Fresh = {} /\ \A d : Appended(d)
<1>1. Len(ledger) \in Nat
  BY DEF IsLog
<1>2. Fresh = {}
  BY <1>1 DEF Fresh
<1>3. QED
  BY <1>1, <1>2 DEF Grown, Appended

LEMMA OneNew ==
  ASSUME IsLog(ledger), NEW t, NEW c, NEW x, Log(t, c, x)
  PROVE  /\ Grown /\ Fresh = {Len(ledger) + 1} /\ Len(ledger) \in Nat /\ Len(ledger') = Len(ledger) + 1
         /\ ledger'[Len(ledger) + 1].type = t /\ ledger'[Len(ledger) + 1].call = c
         /\ ledger'[Len(ledger) + 1].data = x /\ ledger' # <<>>
         /\ DOMAIN ledger = 1..Len(ledger) /\ DOMAIN ledger' = 1..(Len(ledger) + 1)
<1> DEFINE e == Ev(t, c, x)
<1>1. e.type = t /\ e.call = c /\ e.data = x
  BY DEF Ev
<1> HIDE DEF e
<1>2. ledger' = Append(ledger, e)
  BY DEF Log, e
<1>3. /\ IsLog(ledger') /\ Len(ledger) \in Nat
      /\ Len(ledger') = Len(ledger) + 1
      /\ DOMAIN ledger = 1..Len(ledger) /\ DOMAIN ledger' = 1..(Len(ledger) + 1)
      /\ \A i \in 1..Len(ledger) : ledger'[i] = ledger[i]
      /\ ledger'[Len(ledger) + 1] = e
  BY <1>2, LogAppended
<1>4. Fresh = {Len(ledger) + 1}
  BY <1>3 DEF Fresh
<1>5. ledger' # <<>>
  BY <1>3
<1>6. QED
  BY <1>1, <1>3, <1>4, <1>5 DEF Grown

\* Up to three events in a row.
LEMMA RowNew ==
  ASSUME IsLog(ledger), NEW a, NEW b, NEW c,
         ledger' = ledger \o <<a, b>> \/ ledger' = ledger \o <<a, b, c>>
  PROVE  /\ Grown /\ Len(ledger) \in Nat /\ ledger' # <<>>
         /\ Len(ledger') \in {Len(ledger) + 2, Len(ledger) + 3}
         /\ DOMAIN ledger' = 1..Len(ledger')
         /\ ledger'[Len(ledger) + 1] = a /\ ledger'[Len(ledger) + 2] = b
         /\ \A i \in Fresh : \/ i = Len(ledger) + 1 \/ i = Len(ledger) + 2
                             \/ i = Len(ledger) + 3 /\ ledger'[i] = c
<1>1. /\ IsLog(<<a, b>>) /\ Len(<<a, b>>) = 2 /\ <<a, b>>[1] = a /\ <<a, b>>[2] = b
  BY DEF IsLog, Contents
<1>2. /\ IsLog(<<a, b, c>>) /\ Len(<<a, b, c>>) = 3
      /\ <<a, b, c>>[1] = a /\ <<a, b, c>>[2] = b /\ <<a, b, c>>[3] = c
  BY DEF IsLog, Contents
<1>3. CASE ledger' = ledger \o <<a, b>>
  <2>1. /\ IsLog(ledger') /\ Len(ledger) \in Nat /\ Len(ledger') = Len(ledger) + 2
        /\ DOMAIN ledger' = 1..(Len(ledger) + 2)
        /\ \A i \in 1..Len(ledger) : ledger'[i] = ledger[i]
        /\ \A i \in 1..2 : ledger'[Len(ledger) + i] = <<a, b>>[i]
    BY <1>1, <1>3, LogExtended
  <2>2. ledger'[Len(ledger) + 1] = a /\ ledger'[Len(ledger) + 2] = b
    BY <1>1, <2>1
  <2>3. \A i \in Fresh : i = Len(ledger) + 1 \/ i = Len(ledger) + 2
    BY <2>1 DEF Fresh
  <2>4. QED
    BY <2>1, <2>2, <2>3 DEF Grown
<1>4. CASE ledger' = ledger \o <<a, b, c>>
  <2>1. /\ IsLog(ledger') /\ Len(ledger) \in Nat /\ Len(ledger') = Len(ledger) + 3
        /\ DOMAIN ledger' = 1..(Len(ledger) + 3)
        /\ \A i \in 1..Len(ledger) : ledger'[i] = ledger[i]
        /\ \A i \in 1..3 : ledger'[Len(ledger) + i] = <<a, b, c>>[i]
    BY <1>2, <1>4, LogExtended
  <2>2. ledger'[Len(ledger) + 1] = a /\ ledger'[Len(ledger) + 2] = b /\ ledger'[Len(ledger) + 3] = c
    BY <1>2, <2>1
  <2>3. \A i \in Fresh : i = Len(ledger) + 1 \/ i = Len(ledger) + 2 \/ i = Len(ledger) + 3
    BY <2>1 DEF Fresh
  <2>4. QED
    BY <2>1, <2>2, <2>3 DEF Grown
<1>5. QED
  BY <1>3, <1>4

LEMMA RowsJoin ==
  ASSUME IsLog(ledger), NEW a, NEW b, NEW c
  PROVE  ledger \o <<a, b>> \o <<c>> = ledger \o <<a, b, c>>
<1> DEFINE S == Contents(ledger) \cup {a, b, c}
<1>1. ledger \in Seq(S) /\ <<a, b>> \in Seq(S) /\ <<c>> \in Seq(S) /\ <<a, b, c>> \in Seq(S)
  BY DEF IsLog
<1> HIDE DEF S
<1>2. <<a, b>> \o <<c>> = <<a, b, c>>
  <2> DEFINE s == <<a, b>> \o <<c>>
             t == <<a, b, c>>
  <2>1. s \in Seq(S) /\ Len(s) = 3 /\ s[1] = a /\ s[2] = b /\ s[3] = c
    BY <1>1
  <2>2. t \in Seq(S) /\ Len(t) = 3 /\ t[1] = a /\ t[2] = b /\ t[3] = c
    BY <1>1
  <2> HIDE DEF s, t
  <2>3. s = [i \in 1..3 |-> s[i]] /\ t = [i \in 1..3 |-> t[i]]
    BY <2>1, <2>2
  <2>4. \A i \in 1..3 : s[i] = t[i]
    BY <2>1, <2>2
  <2>5. s = t
    BY <2>3, <2>4
  <2>6. QED
    BY <2>5 DEF s, t
<1>3. ledger \o <<a, b>> \o <<c>> = ledger \o (<<a, b>> \o <<c>>)
  BY <1>1
<1>4. QED
  BY <1>2, <1>3

\* What driver d holds.
LEMMA AskParts ==
  ASSUME RunTyped, NEW d \in Drivers
  PROVE  /\ pc[d] \in PCs /\ loc[d] \in Locals /\ ask[d] \in AskStates
         /\ ask[d].phase \in {"none", "parse", "freeze", "choose"}
         /\ ask[d].intent \in Specs \cup {None} /\ ask[d].from \in Nat
         /\ loc[d].approval \in ApprovalRecord \cup {None} /\ loc[d].resume \in BOOLEAN
         /\ loc[d].ret \in BOOLEAN
         /\ IsLog(ledger) /\ Len(ledger) \in Nat /\ DOMAIN ledger = 1..Len(ledger)
         /\ ask[d].phase # "none" => pc[d] = "decide"
         /\ ask[d].phase = "freeze" => ask[d].intent \in Specs
         /\ ask[d].from <= Len(ledger)
         /\ pc[d] # "idle" => ledger # <<>> /\ loc[d].request \in Requests
         /\ pc[d] = "execute" => loc[d].call \in Calls
<1>1. pc[d] \in PCs /\ loc[d] \in Locals /\ ask[d] \in AskStates
  BY DEF RunTyped
<1>2. /\ ask[d].phase \in {"none", "parse", "freeze", "choose"}
      /\ ask[d].intent \in Specs \cup {None} /\ ask[d].from \in Nat
  BY <1>1 DEF AskStates
<1>3. /\ loc[d].approval \in ApprovalRecord \cup {None} /\ loc[d].resume \in BOOLEAN
      /\ loc[d].ret \in BOOLEAN
  BY <1>1 DEF Locals
<1>4. IsLog(ledger)
  BY DEF RunTyped
<1>5. Len(ledger) \in Nat /\ DOMAIN ledger = 1..Len(ledger)
  BY <1>4 DEF IsLog
<1>6. QED
  BY <1>1, <1>2, <1>3, <1>4, <1>5 DEF RunTyped

\* The state d is left in.
LEMMA MovesTo ==
  ASSUME RunTyped, NEW d \in Drivers, NEW label \in PCs, NEW x \in Locals, NEW y \in AskStates,
         pc' = [pc EXCEPT ![d] = label], loc' = [loc EXCEPT ![d] = x], ask' = [ask EXCEPT ![d] = y]
  PROVE  OnlyMoves(d) /\ pc'[d] = label /\ loc'[d] = x /\ ask'[d] = y
<1>1. OnlyMoves(d)
  BY DEF OnlyMoves
<1>2. QED
  BY <1>1 DEF RunTyped

\* A driver that returns is idle and outside the provider.
LEMMA Returns ==
  ASSUME RunTyped, NEW d \in Drivers, Return(d),
         (ask[d].phase = "none" /\ ask' = ask) \/ ask' = [ask EXCEPT ![d] = NoAsk]
  PROVE  OnlyMoves(d) /\ Placed(d) /\ ask'[d].phase = "none"
<1>1. NoLocals \in Locals /\ "idle" \in PCs
  BY NoLocalsTyped DEF PCs
<1>2. PICK y \in AskStates : ask' = [ask EXCEPT ![d] = y] /\ y.phase = "none" /\ y.from <= Len(ledger)
  <2>1. NoAsk \in AskStates /\ NoAsk.phase = "none" /\ NoAsk.from = 0
    BY DEF NoAsk, AskStates
  <2>2. 0 <= Len(ledger) /\ ask[d].from <= Len(ledger) /\ ask[d] \in AskStates
    BY AskParts
  <2>3. CASE ask' = [ask EXCEPT ![d] = NoAsk]
    BY <2>1, <2>2, <2>3
  <2>4. CASE ask[d].phase = "none" /\ ask' = ask
    <3>1. ask' = [ask EXCEPT ![d] = ask[d]]
      BY <2>4 DEF RunTyped
    <3>2. QED
      BY <2>2, <2>4, <3>1
  <2>5. QED
    BY <2>3, <2>4
<1>3. OnlyMoves(d) /\ pc'[d] = "idle" /\ loc'[d] = NoLocals /\ ask'[d] = y
  BY <1>1, <1>2, MovesTo DEF Return
<1>4. QED
  BY <1>2, <1>3 DEF Placed


(***************************************************************************)
(* The actions, one by one                                                 *)
(***************************************************************************)

LEMMA EnterMoves == ASSUME RunTyped, NEW d \in Drivers, Enter(d) PROVE Moved(d)
<1> DEFINE answers == {a \in ApprovalsInHand : a # None /\ a.call \in PendingApproval}
<1>1. PICK r \in Requests, a \in {None} \cup answers :
        /\ IF ledger = <<>> THEN Log("RUN_STARTED", 0, r)
           ELSE UNCHANGED ledger /\ \A i \in OfType("RUN_STARTED") : ledger[i].data = r
        /\ loc' = [loc EXCEPT ![d].request = r, ![d].approval = a]
  BY DEF Enter
<1>2. pc[d] = "idle" /\ pc' = [pc EXCEPT ![d] = "top"] /\ ask' = ask
  BY DEF Enter, At, Goto
<1>3. ask[d].phase = "none" /\ ask[d].from <= Len(ledger)
  BY <1>2, AskParts
<1>4. a \in ApprovalRecord \cup {None}
  <2>1. \A c \in Calls : c \in Nat
    BY AskParts DEF Calls, OfType
  <2>2. QED
    BY <2>1 DEF ApprovalsInHand, ApprovalRecord
<1> DEFINE x == [loc[d] EXCEPT !.request = r, !.approval = a]
<1>5. x \in Locals /\ x.request = r
  BY <1>4, AskParts DEF Locals
<1>6. loc' = [loc EXCEPT ![d] = x] /\ ask' = [ask EXCEPT ![d] = ask[d]] /\ "top" \in PCs
  BY <1>1, <1>2 DEF RunTyped, PCs
<1> HIDE DEF x
<1>7. OnlyMoves(d) /\ pc'[d] = "top" /\ loc'[d] = x /\ ask'[d] = ask[d]
  BY <1>2, <1>5, <1>6, AskParts, MovesTo
<1>8. CASE ledger = <<>>
  <2>1. Log("RUN_STARTED", 0, r)
    BY <1>1, <1>8
  <2>2. Grown /\ ledger' # <<>> /\ Fresh = {Len(ledger) + 1}
        /\ ledger'[Len(ledger) + 1].type = "RUN_STARTED" /\ ledger'[Len(ledger) + 1].data = r
    BY <2>1, OneNew, AskParts
  <2>3. Appended(d)
    BY <1>5, <1>7, <1>8, <2>2 DEF Appended
  <2>4. OfType("RUN_STARTED") = {}
    BY <1>8 DEF OfType
  <2>5. Placed(d)
    BY <1>2, <1>3, <1>5, <1>7, <2>2, <2>4 DEF Placed
  <2>6. QED
    BY <1>7, <2>2, <2>3, <2>5 DEF Moved
<1>9. CASE ledger # <<>>
  <2>1. ledger' = ledger /\ \A i \in OfType("RUN_STARTED") : ledger[i].data = r
    BY <1>1, <1>9
  <2>2. Grown /\ Appended(d)
    BY <2>1, NothingNew, AskParts
  <2>3. Placed(d)
    BY <1>2, <1>3, <1>5, <1>7, <1>9, <2>1 DEF Placed
  <2>4. QED
    BY <1>7, <2>2, <2>3 DEF Moved
<1>10. QED
  BY <1>8, <1>9

\* The provider chooses from the last end of a stage on.
LEMMA LastEnd ==
  ASSUME IsLog(ledger)
  PROVE  LET m == Max({0} \cup Ends(Len(ledger)))
         IN m \in Nat /\ m <= Len(ledger) /\ \A i \in Ends(Len(ledger)) : i <= m
<1> DEFINE S == {0} \cup Ends(Len(ledger))
<1>1. Len(ledger) \in Nat
  BY DEF IsLog
<1>2. S \in SUBSET (0..Len(ledger)) /\ S # {}
  BY <1>1 DEF Ends
<1>3. Max(S) \in S /\ \A i \in S : i <= Max(S)
  BY <1>1, <1>2, GreatestUpTo
<1>4. \A i \in Ends(Len(ledger)) : i <= Max(S)
  BY <1>3
<1> DEFINE m == Max(S)
<1> HIDE DEF m
<1>5. m \in 0..Len(ledger)
  BY <1>2, <1>3 DEF m
<1>6. m \in Nat /\ m <= Len(ledger)
  BY <1>1, <1>5
<1>7. QED
  BY <1>4, <1>6 DEF m

\* Consult and Freeze: d goes to choose for an intent that is frozen.
LEMMA ChoosesFor ==
  ASSUME RunTyped, NEW d \in Drivers, NEW intent \in Specs, Choosing(d, intent),
         NEW x \in Locals, pc' = [pc EXCEPT ![d] = "decide"], loc' = [loc EXCEPT ![d] = x],
         x.request = loc[d].request, pc[d] # "idle", ledger' # <<>>,
         \E j \in Frozen' : ledger'[j].data = intent
  PROVE  OnlyMoves(d) /\ Placed(d)
<1> DEFINE m == Max({0} \cup Ends(Len(ledger)))
           y == [phase |-> "choose", intent |-> intent, from |-> m]
<1>1. m \in Nat /\ m <= Len(ledger) /\ \A i \in Ends(Len(ledger)) : i <= m
  BY LastEnd, AskParts
<1>2. ask' = [ask EXCEPT ![d] = y]
  BY DEF Choosing
<1> HIDE DEF m
<1>3. y \in AskStates /\ y.phase = "choose" /\ y.intent = intent /\ y.from = m
  BY <1>1 DEF AskStates
<1>4. "decide" \in PCs
  BY DEF PCs
<1> HIDE DEF y
<1>5. OnlyMoves(d) /\ pc'[d] = "decide" /\ loc'[d] = x /\ ask'[d] = y
  BY <1>2, <1>3, <1>4, MovesTo, ZenonT(60)
<1>6. loc[d].request \in Requests
  BY AskParts
<1>7. QED
  BY <1>1, <1>3, <1>5, <1>6 DEF Placed

\* Consult and Parse: d goes on with an intent of its own, or none yet.
LEMMA GoesOnAsking ==
  ASSUME RunTyped, NEW d \in Drivers, NEW phase \in {"parse", "freeze"}, NEW intent \in Specs \cup {None},
         Asking(d, phase, intent),
         NEW x \in Locals, pc' = [pc EXCEPT ![d] = "decide"], loc' = [loc EXCEPT ![d] = x],
         x.request = loc[d].request, pc[d] # "idle", ledger' # <<>>,
         phase = "parse" => Preview[loc[d].request] = None,
         phase = "freeze" => /\ intent \in Specs
                             /\ Preview[loc[d].request] # None /\ ask[d].phase # "parse"
                                  => intent = Preview[loc[d].request]
  PROVE  OnlyMoves(d) /\ Placed(d)
<1> DEFINE y == [NoAsk EXCEPT !.phase = phase, !.intent = intent]
<1>1. y \in AskStates /\ y.phase = phase /\ y.intent = intent /\ y.from = 0
  BY DEF NoAsk, AskStates
<1>2. ask' = [ask EXCEPT ![d] = y] /\ "decide" \in PCs
  BY DEF Asking, PCs
<1> HIDE DEF y
<1>3. OnlyMoves(d) /\ pc'[d] = "decide" /\ loc'[d] = x /\ ask'[d] = y
  BY <1>1, <1>2, MovesTo
<1>4. loc[d].request \in Requests /\ 0 <= Len(ledger)
  BY AskParts
<1>5. QED
  BY <1>1, <1>3, <1>4 DEF Placed

LEMMA FrozenChosen ==
  ASSUME RunTyped, Frozen # {}
  PROVE  FrozenIntent \in Specs /\ \E j \in Frozen : ledger[j].data = FrozenIntent
BY DEF RunTyped, FrozenIntent

LEMMA ConsultMoves == ASSUME RunTyped, NEW d \in Drivers, Consult(d) PROVE Moved(d)
<1>1. pc[d] = "top" /\ ask[d].phase = "none" /\ ledger # <<>> /\ loc[d].request \in Requests
  BY AskParts DEF Consult, At
<1>2. CASE LimitReached
  <2>1. Log("BUDGET_EXHAUSTED", 0, None) /\ Return(d) /\ ask' = ask
    BY <1>2 DEF Consult
  <2>2. Grown /\ Fresh = {Len(ledger) + 1} /\ ledger'[Len(ledger) + 1].type = "BUDGET_EXHAUSTED"
    BY <2>1, OneNew, AskParts
  <2>3. Appended(d)
    BY <2>2 DEF Appended
  <2>4. QED
    BY <1>1, <2>1, <2>2, <2>3, Returns DEF Moved
<1>3. CASE ~LimitReached
  <2> DEFINE x == [loc[d] EXCEPT !.snap = Len(ledger), !.approval = None]
  <2>1. /\ pc' = [pc EXCEPT ![d] = "decide"] /\ loc' = [loc EXCEPT ![d] = x] /\ ledger' = ledger
    BY <1>3 DEF Consult, Goto
  <2>2. x \in Locals /\ x.request = loc[d].request
    BY AskParts DEF Locals
  <2>3. Grown /\ Appended(d) /\ Frozen' = Frozen
    BY <2>1, NothingNew, AskParts DEF Frozen, OfType
  <2>4. CASE Frozen # {}
    <3>1. Choosing(d, FrozenIntent)
      BY <1>3, <2>4 DEF Consult
    <3>2. FrozenIntent \in Specs /\ \E j \in Frozen' : ledger'[j].data = FrozenIntent
      BY <2>1, <2>3, <2>4, FrozenChosen
    <3> HIDE DEF x
    <3>3. OnlyMoves(d) /\ Placed(d)
      BY <1>1, <2>1, <2>2, <3>1, <3>2, ChoosesFor
    <3>4. QED
      BY <2>3, <3>3 DEF Moved
  <2>5. CASE Frozen = {} /\ Preview[loc[d].request] # None
    <3>1. Asking(d, "freeze", Preview[loc[d].request])
      BY <1>3, <2>5 DEF Consult
    <3>2. Preview[loc[d].request] \in Specs
      BY <1>1, <2>5, WorkflowAssumption
    <3> HIDE DEF x
    <3>3. OnlyMoves(d) /\ Placed(d)
      BY <1>1, <2>1, <2>2, <3>1, <3>2, GoesOnAsking
    <3>4. QED
      BY <2>3, <3>3 DEF Moved
  <2>6. CASE Frozen = {} /\ Preview[loc[d].request] = None
    <3>1. Asking(d, "parse", None)
      BY <1>3, <2>6 DEF Consult
    <3> HIDE DEF x
    <3>2. OnlyMoves(d) /\ Placed(d)
      BY <1>1, <2>1, <2>2, <2>6, <3>1, GoesOnAsking
    <3>3. QED
      BY <2>3, <3>2 DEF Moved
  <2>7. QED
    BY <2>4, <2>5, <2>6
<1>4. QED
  BY <1>2, <1>3

LEMMA ParseMoves == ASSUME RunTyped, NEW d \in Drivers, Parse(d) PROVE Moved(d)
<1>1. pc[d] = "decide" /\ ask[d].phase = "parse" /\ ledger' = ledger /\ pc' = pc /\ loc' = loc
  BY DEF Parse, At, vars
<1>2. PICK s \in Specs : Asking(d, "freeze", s)
  BY DEF Parse
<1>3. /\ pc' = [pc EXCEPT ![d] = "decide"] /\ loc' = [loc EXCEPT ![d] = loc[d]]
      /\ loc[d] \in Locals /\ ledger' # <<>>
  BY <1>1, AskParts DEF RunTyped
<1>4. OnlyMoves(d) /\ Placed(d)
  BY <1>1, <1>2, <1>3, GoesOnAsking
<1>5. Grown /\ Appended(d)
  BY <1>1, NothingNew, AskParts
<1>6. QED
  BY <1>4, <1>5 DEF Moved

LEMMA FreezeMoves == ASSUME RunTyped, NEW d \in Drivers, Freeze(d) PROVE Moved(d)
<1>1. pc[d] = "decide" /\ ask[d].phase = "freeze" /\ pc' = pc /\ loc' = loc
  BY DEF Freeze, At
<1>2. /\ pc' = [pc EXCEPT ![d] = "decide"] /\ loc' = [loc EXCEPT ![d] = loc[d]]
      /\ loc[d] \in Locals /\ ledger # <<>> /\ ask[d].intent \in Specs
  BY <1>1, AskParts DEF RunTyped
<1>3. CASE Frozen = {}
  <2>1. Log("BR1_INTENT_FROZEN", 0, ask[d].intent) /\ Choosing(d, ask[d].intent)
    BY <1>3 DEF Freeze
  <2>2. /\ Grown /\ Fresh = {Len(ledger) + 1} /\ ledger' # <<>>
        /\ ledger'[Len(ledger) + 1].type = "BR1_INTENT_FROZEN"
        /\ ledger'[Len(ledger) + 1].data = ask[d].intent
        /\ Len(ledger) \in Nat /\ DOMAIN ledger' = 1..(Len(ledger) + 1)
    BY <2>1, OneNew, AskParts
  <2>3. Appended(d)
    BY <1>1, <1>3, <2>2 DEF Appended
  <2>4. Len(ledger) + 1 \in Frozen'
    BY <2>2 DEF Frozen, OfType
  <2>5. OnlyMoves(d) /\ Placed(d)
    BY <1>1, <1>2, <2>1, <2>2, <2>4, ChoosesFor
  <2>6. QED
    BY <2>2, <2>3, <2>5 DEF Moved
<1>4. CASE Frozen # {}
  <2>1. ledger' = ledger /\ Choosing(d, FrozenIntent)
    BY <1>4 DEF Freeze
  <2>2. Grown /\ Appended(d) /\ Frozen' = Frozen
    BY <2>1, NothingNew, AskParts DEF Frozen, OfType
  <2>3. FrozenIntent \in Specs /\ \E j \in Frozen' : ledger'[j].data = FrozenIntent
    BY <1>4, <2>1, <2>2, FrozenChosen
  <2>4. OnlyMoves(d) /\ Placed(d)
    BY <1>1, <1>2, <2>1, <2>3, ChoosesFor
  <2>5. QED
    BY <2>2, <2>4 DEF Moved
<1>5. QED
  BY <1>3, <1>4

LEMMA DeclineMoves == ASSUME RunTyped, NEW d \in Drivers, ProviderRaises(d) PROVE Moved(d)
<1>1. Return(d) /\ ledger' = ledger /\ ask' = [ask EXCEPT ![d] = NoAsk]
  BY DEF ProviderRaises, ProviderDeclines, durable
<1>2. QED
  BY <1>1, NothingNew, AskParts, Returns DEF Moved

LEMMA LeaveMoves ==
  ASSUME RunTyped, NEW d \in Drivers, TopReturns(d), UNCHANGED ask PROVE Moved(d)
<1>1. Return(d) /\ ledger' = ledger /\ pc[d] = "top"
  BY DEF TopReturns, durable, At
<1>2. ask[d].phase = "none"
  BY <1>1, AskParts
<1>3. QED
  BY <1>1, <1>2, NothingNew, AskParts, Returns DEF Moved

LEMMA ApproveMoves == ASSUME RunTyped, NEW d \in Drivers, Approve(d) PROVE Moved(d)
<1>1. /\ pc[d] = "top" /\ pc' = pc /\ ask' = ask
      /\ Log("APPROVAL_RECORDED", loc[d].approval.call, loc[d].approval)
  BY DEF Approve, Answering, At
<1> DEFINE x == [loc[d] EXCEPT !.approval = None, !.resume = TRUE]
<1>2. /\ pc' = [pc EXCEPT ![d] = "top"] /\ loc' = [loc EXCEPT ![d] = x]
      /\ ask' = [ask EXCEPT ![d] = ask[d]] /\ "top" \in PCs
  BY <1>1 DEF Approve, RunTyped, PCs
<1>3. x \in Locals /\ x.request = loc[d].request
  BY AskParts DEF Locals
<1> HIDE DEF x
<1>4. OnlyMoves(d) /\ pc'[d] = "top" /\ loc'[d] = x /\ ask'[d] = ask[d]
  BY <1>2, <1>3, AskParts, MovesTo
<1>5. Grown /\ Fresh = {Len(ledger) + 1} /\ ledger' # <<>>
      /\ ledger'[Len(ledger) + 1].type = "APPROVAL_RECORDED"
  BY <1>1, OneNew, AskParts
<1>6. Appended(d)
  BY <1>5 DEF Appended
<1>7. Placed(d)
  <2>1. loc[d].request \in Requests /\ ask[d].phase = "none" /\ ask[d].from <= Len(ledger)
    BY <1>1, AskParts
  <2>2. QED
    BY <1>1, <1>3, <1>4, <1>5, <2>1 DEF Placed
<1>8. QED
  BY <1>4, <1>5, <1>6, <1>7 DEF Moved

LEMMA RejectMoves == ASSUME RunTyped, NEW d \in Drivers, Reject(d) PROVE Moved(d)
<1> DEFINE c == loc[d].approval.call
           a == Ev("APPROVAL_RECORDED", c, loc[d].approval)
           b == Ev("TOOL_CALL_REJECTED", c, None)
           z == Ev("RUN_REJECTED", c, None)
<1>1. /\ pc[d] = "top" /\ Return(d) /\ ask' = ask
      /\ ledger' = ledger \o <<a, b>> \o <<z>> \/ ledger' = ledger \o <<a, b>>
  BY DEF Reject, Answering, At
<1>2. a.type = "APPROVAL_RECORDED" /\ b.type = "TOOL_CALL_REJECTED" /\ z.type = "RUN_REJECTED"
  BY DEF Ev
<1> HIDE DEF a, b, z
<1>3. ledger \o <<a, b>> \o <<z>> = ledger \o <<a, b, z>>
  BY AskParts, RowsJoin
<1>4. /\ Grown
      /\ ledger'[Len(ledger) + 1] = a /\ ledger'[Len(ledger) + 2] = b
      /\ \A i \in Fresh : \/ i = Len(ledger) + 1 \/ i = Len(ledger) + 2
                          \/ i = Len(ledger) + 3 /\ ledger'[i] = z
  <2>1. IsLog(ledger) /\ (ledger' = ledger \o <<a, b>> \/ ledger' = ledger \o <<a, b, z>>)
    BY <1>1, <1>3, AskParts
  <2>2. QED
    BY <2>1, RowNew
<1>5. ask[d].phase = "none"
  BY <1>1, AskParts
<1>6. OnlyMoves(d) /\ Placed(d) /\ ask'[d].phase = "none"
  BY <1>1, <1>5, Returns
<1>7. Appended(d)
  BY <1>2, <1>4, <1>6 DEF Appended
<1>8. QED
  BY <1>4, <1>6, <1>7 DEF Moved

LEMMA StartMoves == ASSUME RunTyped, NEW d \in Drivers, StartStage(d) PROVE Moved(d)
<1>1. pc[d] = "top" /\ ask' = ask /\ ask[d].phase = "none" /\ ask[d].from <= Len(ledger)
      /\ loc[d].request \in Requests
  BY AskParts DEF StartStage, At
<1>2. PICK c \in PendingExecution :
        IF LimitExceeded
        THEN Log("BUDGET_EXHAUSTED", 0, None) /\ Return(d)
        ELSE /\ Log("TOOL_EXECUTION_STARTED", c, None)
             /\ Goto(d, "execute")
             /\ loc' = [loc EXCEPT ![d].call = c, ![d].ret = loc[d].resume \/ Decided(c, "APPROVED")]
  BY DEF StartStage
<1>3. CASE LimitExceeded
  <2>1. Log("BUDGET_EXHAUSTED", 0, None) /\ Return(d)
    BY <1>2, <1>3
  <2>2. Grown /\ Fresh = {Len(ledger) + 1} /\ ledger'[Len(ledger) + 1].type = "BUDGET_EXHAUSTED"
    BY <2>1, OneNew, AskParts
  <2>3. Appended(d)
    BY <2>2 DEF Appended
  <2>4. QED
    BY <1>1, <2>1, <2>2, <2>3, Returns DEF Moved
<1>4. CASE ~LimitExceeded
  <2> DEFINE x == [loc[d] EXCEPT !.call = c, !.ret = loc[d].resume \/ Decided(c, "APPROVED")]
  <2>1. /\ Log("TOOL_EXECUTION_STARTED", c, None) /\ pc' = [pc EXCEPT ![d] = "execute"]
        /\ loc' = [loc EXCEPT ![d] = x]
    BY <1>2, <1>4 DEF Goto
  <2>2. /\ Grown /\ Fresh = {Len(ledger) + 1} /\ ledger' # <<>> /\ Len(ledger) \in Nat
        /\ ledger'[Len(ledger) + 1].type = "TOOL_EXECUTION_STARTED"
        /\ DOMAIN ledger = 1..Len(ledger) /\ DOMAIN ledger' = 1..(Len(ledger) + 1)
    BY <2>1, OneNew, AskParts
  <2>3. Appended(d)
    BY <2>2 DEF Appended
  <2>4. c \in Calls /\ c \in Nat /\ c \in Calls'
    BY <2>2 DEF PendingExecution, Calls, OfType, Grown
  <2>5. x \in Locals /\ x.request = loc[d].request /\ x.call = c
    <3>1. (loc[d].resume \/ Decided(c, "APPROVED")) \in BOOLEAN
      OBVIOUS
    <3>2. QED
      BY <2>4, <3>1, AskParts DEF Locals
  <2>6. ask' = [ask EXCEPT ![d] = ask[d]] /\ "execute" \in PCs
    BY <1>1 DEF RunTyped, PCs
  <2> HIDE DEF x
  <2>7. OnlyMoves(d) /\ pc'[d] = "execute" /\ loc'[d] = x /\ ask'[d] = ask[d]
    BY <2>1, <2>5, <2>6, AskParts, MovesTo
  <2>8. Placed(d)
    BY <1>1, <2>2, <2>4, <2>5, <2>7 DEF Placed
  <2>9. QED
    BY <2>2, <2>3, <2>7, <2>8 DEF Moved
<1>5. QED
  BY <1>3, <1>4

LEMMA EndMoves == ASSUME RunTyped, NEW d \in Drivers, EndStage(d) PROVE Moved(d)
<1> DEFINE c == loc[d].call
           tool == ledger[c].data.tool
           inputs == ledger[c].data.inputs
<1>1. /\ pc[d] = "execute" /\ ask' = ask /\ ask[d].phase = "none" /\ ask[d].from <= Len(ledger)
      /\ loc[d].request \in Requests /\ c \in Calls
  BY AskParts DEF EndStage, At
<1>2. \/ Log("TOOL_EXECUTION_FAILED", c, None)
      \/ Bound(tool, inputs) /\ Log("TOOL_EXECUTION_SUCCEEDED", c, <<Product(tool, inputs, c)>>)
  BY DEF EndStage
<1>3. Grown /\ ledger' # <<>> /\ Fresh = {Len(ledger) + 1}
  BY <1>2, OneNew, AskParts
<1>4. /\ OnlyMoves(d) /\ Placed(d) /\ ask'[d].phase = "none"
  <2>1. CASE loc[d].ret
    <3>1. Return(d)
      BY <2>1 DEF EndStage
    <3>2. QED
      BY <1>1, <3>1, Returns
  <2>2. CASE ~loc[d].ret
    <3> DEFINE x == [loc[d] EXCEPT !.call = 0]
    <3>1. pc' = [pc EXCEPT ![d] = "top"] /\ loc' = [loc EXCEPT ![d] = x]
      BY <2>2 DEF EndStage, Goto
    <3>2. x \in Locals /\ x.request = loc[d].request
      BY AskParts DEF Locals
    <3>3. ask' = [ask EXCEPT ![d] = ask[d]] /\ "top" \in PCs
      BY <1>1 DEF RunTyped, PCs
    <3> HIDE DEF x
    <3>4. OnlyMoves(d) /\ pc'[d] = "top" /\ loc'[d] = x /\ ask'[d] = ask[d]
      BY <3>1, <3>2, <3>3, AskParts, MovesTo
    <3>5. Placed(d)
      BY <1>1, <1>3, <3>2, <3>4 DEF Placed
    <3>6. QED
      BY <1>1, <3>4, <3>5
  <2>3. QED
    BY <2>1, <2>2
<1>5. Appended(d)
  <2>1. CASE Log("TOOL_EXECUTION_FAILED", c, None)
    <3>1. ledger'[Len(ledger) + 1].type = "TOOL_EXECUTION_FAILED"
      BY <2>1, OneNew, AskParts
    <3>2. QED
      BY <1>3, <1>4, <3>1 DEF Appended
  <2>2. CASE Bound(tool, inputs) /\ Log("TOOL_EXECUTION_SUCCEEDED", c, <<Product(tool, inputs, c)>>)
    <3>1. /\ ledger'[Len(ledger) + 1].type = "TOOL_EXECUTION_SUCCEEDED"
          /\ ledger'[Len(ledger) + 1].call = c
          /\ ledger'[Len(ledger) + 1].data = <<Product(tool, inputs, c)>>
      BY <2>2, OneNew, AskParts
    <3>2. QED
      BY <1>1, <1>3, <2>2, <3>1 DEF Appended
  <2>3. QED
    BY <1>2, <2>1, <2>2
<1>6. QED
  BY <1>3, <1>4, <1>5 DEF Moved

LEMMA StagesListed ==
  /\ DOMAIN Stages = 1..6 /\ Len(Stages) = 6
  /\ Stages[1] = "prepare" /\ Stages[2] = "preflight" /\ Stages[3] = "train"
  /\ Stages[4] = "generate" /\ Stages[5] = "predict" /\ Stages[6] = "evaluate"
  BY DEF Stages

\* What a stage makes is of its own kind.
LEMMA ProductKind ==
  ASSUME NEW tool, NEW inputs, NEW c
  PROVE  /\ Product(tool, inputs, c).kind = Makes[tool]
         /\ tool \notin Remote => /\ Product(tool, inputs, c) = Product(tool, inputs, 0)
                                  /\ Product(tool, inputs, c).by = 0
         /\ tool \in Remote => Product(tool, inputs, c).by = c
  BY DEF Product

\* _success_artifact finds what a recorded success of the stage made.
LEMMA FoundMade ==
  ASSUME RunTyped, ChainInv, NEW tool, NEW n, Found(tool, n) # None
  PROVE  \E c \in Calls :
           /\ ledger[c].data.tool = tool
           /\ Found(tool, n) = Product(tool, ledger[c].data.inputs, c)
<1>1. Len(ledger) \in Nat /\ DOMAIN ledger = 1..Len(ledger)
  BY DEF RunTyped, IsLog
<1>2. Ended(tool, n) # {} /\ Ended(tool, n) \in SUBSET (0..Len(ledger))
  <2>1. Ended(tool, n) # {}
    BY DEF Found
  <2>2. \A i \in Ended(tool, n) : i \in DOMAIN ledger
    BY DEF Ended, OfType
  <2>3. QED
    BY <1>1, <2>1, <2>2
<1> DEFINE m == Max(Ended(tool, n))
<1>3. m \in Ended(tool, n)
  BY <1>1, <1>2, GreatestUpTo
<1>4. Found(tool, n) = CHOOSE a \in Contents(ledger[m].data) : a.kind = Makes[tool]
  BY <1>2 DEF Found
<1> HIDE DEF m
<1> DEFINE c == ledger[m].call
           p == Product(tool, ledger[c].data.inputs, c)
<1>5. c \in Calls /\ ledger[c].data.tool = tool /\ ledger[m].data = <<p>>
  BY <1>3 DEF Ended, ChainInv
<1>6. p.kind = Makes[tool]
  BY ProductKind
<1> HIDE DEF p
<1>7. Contents(<<p>>) = {p}
  BY DEF Contents
<1>8. Found(tool, n) = p
  BY <1>4, <1>5, <1>6, <1>7
<1>9. QED
  BY <1>5, <1>8 DEF p

LEMMA FoundKinds ==
  ASSUME RunTyped, ChainInv, NEW n
  PROVE  /\ Found("prepare", n) # None => Found("prepare", n) = Product("prepare", {Raw}, 0)
         /\ Found("preflight", n) # None =>
              Found("preflight", n).kind = "preflight" /\ Found("preflight", n).by = 0
         /\ Found("train", n) # None => Found("train", n).kind = "model"
         /\ Found("generate", n) # None => Found("generate", n).kind = "candidates"
         /\ Found("predict", n) # None => Found("predict", n).kind = "predictions"
<1>1. /\ Makes["prepare"] = "cleaned" /\ Makes["preflight"] = "preflight" /\ Makes["train"] = "model"
      /\ Makes["generate"] = "candidates" /\ Makes["predict"] = "predictions"
  BY DEF Makes
<1>2. "prepare" \notin Remote /\ "preflight" \notin Remote
  BY DEF Remote
<1>3. ASSUME Found("prepare", n) # None PROVE Found("prepare", n) = Product("prepare", {Raw}, 0)
  <2>1. PICK c \in Calls : /\ ledger[c].data.tool = "prepare"
                           /\ Found("prepare", n) = Product("prepare", ledger[c].data.inputs, c)
    BY <1>3, FoundMade
  <2>2. ledger[c].data.inputs = {Raw}
    BY <2>1 DEF ChainInv, Shaped
  <2>3. QED
    BY <1>2, <2>1, <2>2, ProductKind
<1>4. ASSUME NEW tool, Found(tool, n) # None
      PROVE  Found(tool, n).kind = Makes[tool] /\ (tool \notin Remote => Found(tool, n).by = 0)
  BY <1>4, FoundMade, ProductKind
<1>5. QED
  BY <1>1, <1>2, <1>3, <1>4

\* The next stage is proposed with inputs of the kinds it takes, and not after an abort.
LEMMA ChoiceShaped ==
  ASSUME RunTyped, ChainInv, NEW at, NEW aborted \in BOOLEAN, NEW spec, NEW found,
         found = [k \in DOMAIN Stages |-> Found(Stages[k], at[k])],
         Choice(found, aborted, spec).kind = "call"
  PROVE  /\ ~aborted
         /\ Shaped(Choice(found, aborted, spec).tool, Choice(found, aborted, spec).inputs)
<1>1. ~aborted /\ found[6] = None
  BY DEF Choice
<1> DEFINE k == Min(Missing(found))
<1>2. /\ Choice(found, aborted, spec).tool = Stages[k]
      /\ Choice(found, aborted, spec).inputs = Inputs(k, found)
  BY <1>1 DEF Choice
<1>3. k \in Missing(found) /\ \A j \in Missing(found) : k <= j
  <2>1. Missing(found) \in SUBSET Nat /\ Missing(found) # {}
    BY <1>1, StagesListed DEF Missing
  <2>2. \E x \in Missing(found) : \A y \in Missing(found) : x <= y
    BY <2>1, LeastOf
  <2>3. QED
    BY <2>2 DEF Min
<1> HIDE DEF k
<1>4. k \in 1..6 /\ \A j \in 1..6 : j < k => j \notin Missing(found)
  <2>1. \A j \in Missing(found) : j \in 1..6
    BY StagesListed DEF Missing
  <2>2. QED
    BY <1>3, <2>1
<1>5. \A j \in 2..6 : j < k => found[j] # None
  <2>1. \A j \in 2..6 : j \in 1..6 /\ j # 1
    OBVIOUS
  <2>2. QED
    BY <1>4, <2>1, StagesListed DEF Missing
<1>6. /\ found[1] = Found("prepare", at[1]) /\ found[2] = Found("preflight", at[2])
      /\ found[3] = Found("train", at[3]) /\ found[4] = Found("generate", at[4])
      /\ found[5] = Found("predict", at[5])
  BY StagesListed
<1> DEFINE dataset == IF found[1] = None THEN Raw ELSE found[1]
<1>7. dataset \in Datasets
  BY <1>6, FoundKinds DEF Datasets
<1> HIDE DEF dataset
<1>8. /\ found[2] # None => found[2].kind = "preflight" /\ found[2].by = 0
      /\ found[3] # None => found[3].kind = "model"
      /\ found[4] # None => found[4].kind = "candidates"
      /\ found[5] # None => found[5].kind = "predictions"
  BY <1>6, FoundKinds
<1>9. Inputs(k, found) = CASE k = 1 -> {Raw}
                           [] k = 2 -> {dataset}
                           [] k = 3 -> {dataset, found[2]}
                           [] k = 4 -> {found[3]}
                           [] k = 5 -> {found[3], found[4]}
                           [] k = 6 -> {found[4], found[5]}
  BY DEF Inputs, dataset
<1>10. CASE k = 1
  BY <1>1, <1>2, <1>9, <1>10, StagesListed DEF Shaped
<1>11. CASE k = 2
  BY <1>1, <1>2, <1>7, <1>9, <1>11, StagesListed DEF Shaped
<1>12. CASE k = 3
  <2>1. found[2].kind = "preflight" /\ found[2].by = 0 /\ Inputs(k, found) = {dataset, found[2]}
    BY <1>5, <1>8, <1>9, <1>12
  <2>2. Shaped("train", {dataset, found[2]})
    BY <1>7, <2>1 DEF Shaped
  <2>3. QED
    BY <1>1, <1>2, <1>12, <2>1, <2>2, StagesListed
<1>13. CASE k = 4
  <2>1. found[3].kind = "model" /\ Inputs(k, found) = {found[3]}
    BY <1>5, <1>8, <1>9, <1>13
  <2>2. Shaped("generate", {found[3]})
    BY <2>1 DEF Shaped
  <2>3. QED
    BY <1>1, <1>2, <1>13, <2>1, <2>2, StagesListed
<1>14. CASE k = 5
  <2>1. found[3].kind = "model" /\ found[4].kind = "candidates" /\ Inputs(k, found) = {found[3], found[4]}
    BY <1>5, <1>8, <1>9, <1>14
  <2>2. Shaped("predict", {found[3], found[4]})
    BY <2>1 DEF Shaped
  <2>3. QED
    BY <1>1, <1>2, <1>14, <2>1, <2>2, StagesListed
<1>15. CASE k = 6
  <2>1. /\ found[4].kind = "candidates" /\ found[5].kind = "predictions"
        /\ Inputs(k, found) = {found[4], found[5]}
    BY <1>5, <1>8, <1>9, <1>15
  <2>2. Shaped("evaluate", {found[4], found[5]})
    BY <2>1 DEF Shaped
  <2>3. QED
    BY <1>1, <1>2, <1>15, <2>1, <2>2, StagesListed
<1>16. k = 1 \/ k = 2 \/ k = 3 \/ k = 4 \/ k = 5 \/ k = 6
  BY <1>4
<1>17. QED
  BY <1>10, <1>11, <1>12, <1>13, <1>14, <1>15, <1>16

LEMMA ChooseMoves == ASSUME RunTyped, ChainInv, NEW d \in Drivers, Choose(d) PROVE Moved(d)
<1>1. /\ pc[d] = "decide" /\ ask[d].phase = "choose" /\ ask' = [ask EXCEPT ![d] = NoAsk]
      /\ ledger # <<>> /\ loc[d].request \in Requests /\ IsLog(ledger)
  BY AskParts DEF Choose, At
<1> DEFINE Seen(at) == [k \in DOMAIN Stages |-> Found(Stages[k], at[k])]
           ActionOf(at) == Choice(Seen(at), Aborted(at[Len(Stages) + 1]), ask[d].intent)
           n == Len(ledger)
           Decision(act) == Ev("DECISION_RECORDED", 0, act)
           NewCall(act) == Ev("TOOL_CALL_MATERIALIZED", n + 2, [tool |-> act.tool, inputs |-> act.inputs])
<1>2. PICK at \in Looks(d, Len(Stages) + 1) :
        \/ /\ ActionOf(at).kind = "stop"
           /\ ledger' = ledger \o <<Decision(ActionOf(at)), Ev("RUN_STOPPED", 0, None)>>
           /\ Return(d)
        \/ /\ ActionOf(at).kind = "call"
           /\ Log("DECISION_RECORDED", 0, ActionOf(at))
           /\ Return(d)
        \/ /\ ActionOf(at).kind = "call"
           /\ ledger' = ledger \o <<Decision(ActionOf(at)), NewCall(ActionOf(at))>>
                               \o <<Ev("APPROVAL_REQUIRED", n + 2, None)>>
           /\ Return(d)
        \/ /\ ActionOf(at).kind = "call"
           /\ ledger' = ledger \o <<Decision(ActionOf(at)), NewCall(ActionOf(at))>>
                               \o <<Ev("TOOL_EXECUTION_STARTED", n + 2, None)>>
           /\ Goto(d, "execute")
           /\ loc' = [loc EXCEPT ![d].call = n + 2, ![d].snap = 0, ![d].ret = FALSE]
  BY DEF Choose
<1> DEFINE act == ActionOf(at)
<1>3. /\ act.spec = ask[d].intent
      /\ act.kind = "call" => /\ Shaped(act.tool, act.inputs)
                              /\ \E m \in Moments(d) : ~Aborted(m)
  <2>1. act.spec = ask[d].intent
    BY DEF Choice
  <2>2. ASSUME act.kind = "call" PROVE ~Aborted(at[Len(Stages) + 1]) /\ Shaped(act.tool, act.inputs)
    <3>1. Aborted(at[Len(Stages) + 1]) \in BOOLEAN
      BY DEF Aborted
    <3>2. QED
      BY <2>2, <3>1, ChoiceShaped
  <2>3. Len(Stages) + 1 = 7 /\ at[7] \in Moments(d)
    BY StagesListed, LooksTyped
  <2>4. QED
    BY <2>1, <2>2, <2>3
<1> DEFINE a == Decision(act)
           b == NewCall(act)
<1>4. a.type = "DECISION_RECORDED" /\ a.data = act
  BY DEF Ev
<1>5. /\ b.type = "TOOL_CALL_MATERIALIZED" /\ b.data.tool = act.tool /\ b.data.inputs = act.inputs
  BY DEF Ev
<1>6. \A t, c, x : Ev(t, c, x).type = t
  BY DEF Ev
<1> HIDE DEF a, b, act
<1>7. CASE act.kind = "stop" /\ ledger' = ledger \o <<a, Ev("RUN_STOPPED", 0, None)>> /\ Return(d)
  <2> DEFINE z == Ev("RUN_STOPPED", 0, None)
  <2>1. OnlyMoves(d) /\ Placed(d) /\ ask'[d].phase = "none"
    BY <1>1, <1>7, Returns
  <2>2. z.type = "RUN_STOPPED"
    BY <1>6
  <2> HIDE DEF z
  <2>3. ledger' = ledger \o <<a, z>>
    BY <1>7 DEF z
  <2>4. /\ Grown /\ Len(ledger) \in Nat /\ ledger'[Len(ledger) + 1] = a /\ ledger'[Len(ledger) + 2] = z
        /\ \A i \in Fresh : \/ i = Len(ledger) + 1 \/ i = Len(ledger) + 2
                            \/ i = Len(ledger) + 3 /\ ledger'[i] = z
    BY <1>1, <2>3, RowNew
  <2>5. Appended(d)
    BY <1>1, <1>3, <1>4, <1>7, <2>1, <2>2, <2>4 DEF Appended
  <2>6. QED
    BY <2>1, <2>4, <2>5 DEF Moved
<1>8. CASE act.kind = "call" /\ Log("DECISION_RECORDED", 0, act) /\ Return(d)
  <2>1. OnlyMoves(d) /\ Placed(d) /\ ask'[d].phase = "none"
    BY <1>1, <1>8, Returns
  <2>2. /\ Grown /\ Fresh = {Len(ledger) + 1} /\ ledger'[Len(ledger) + 1].type = "DECISION_RECORDED"
        /\ ledger'[Len(ledger) + 1].data = act
    BY <1>1, <1>8, OneNew
  <2>3. Appended(d)
    BY <1>1, <1>3, <2>1, <2>2 DEF Appended
  <2>4. QED
    BY <2>1, <2>2, <2>3 DEF Moved
<1>9. ASSUME NEW z, z.type \in {"APPROVAL_REQUIRED", "TOOL_EXECUTION_STARTED"}, act.kind = "call",
             ledger' = ledger \o <<a, b>> \o <<z>>, ask'[d].phase = "none"
      PROVE  /\ Grown /\ Appended(d) /\ ledger' # <<>> /\ Len(ledger) \in Nat
             /\ Len(ledger) + 2 \in Calls'
  <2>1. ledger' = ledger \o <<a, b, z>>
    BY <1>1, <1>9, RowsJoin
  <2>2. /\ Grown /\ Len(ledger) \in Nat /\ ledger' # <<>>
        /\ ledger'[Len(ledger) + 1] = a /\ ledger'[Len(ledger) + 2] = b
        /\ \A i \in Fresh : \/ i = Len(ledger) + 1 \/ i = Len(ledger) + 2
                            \/ i = Len(ledger) + 3 /\ ledger'[i] = z
        /\ Len(ledger') \in {Len(ledger) + 2, Len(ledger) + 3} /\ DOMAIN ledger' = 1..Len(ledger')
    BY <1>1, <2>1, RowNew
  <2>3. Appended(d)
    BY <1>1, <1>3, <1>4, <1>5, <1>9, <2>2 DEF Appended
  <2>4. Len(ledger) + 2 \in Calls'
    <3>1. Len(ledger) + 2 \in DOMAIN ledger'
      <4>1. DOMAIN ledger' = 1..Len(ledger') /\ Len(ledger) \in Nat
        BY <2>2
      <4>2. Len(ledger') \in {Len(ledger) + 2, Len(ledger) + 3}
        BY <2>2
      <4>3. \A j \in Nat : \A k \in {j + 2, j + 3} : j + 2 \in 1..k
        OBVIOUS
      <4>4. QED
        BY <4>1, <4>2, <4>3
    <3>2. ledger'[Len(ledger) + 2].type = "TOOL_CALL_MATERIALIZED"
      BY <1>5, <2>2
    <3>3. QED
      BY <3>1, <3>2 DEF Calls, OfType
  <2>5. QED
    BY <2>2, <2>3, <2>4
<1>10. CASE /\ act.kind = "call" /\ Return(d)
            /\ ledger' = ledger \o <<a, b>> \o <<Ev("APPROVAL_REQUIRED", n + 2, None)>>
  <2>1. OnlyMoves(d) /\ Placed(d) /\ ask'[d].phase = "none"
    BY <1>1, <1>10, Returns
  <2>2. Grown /\ Appended(d)
    BY <1>6, <1>9, <1>10, <2>1
  <2>3. QED
    BY <2>1, <2>2 DEF Moved
<1>11. CASE /\ act.kind = "call" /\ Goto(d, "execute")
            /\ loc' = [loc EXCEPT ![d].call = n + 2, ![d].snap = 0, ![d].ret = FALSE]
            /\ ledger' = ledger \o <<a, b>> \o <<Ev("TOOL_EXECUTION_STARTED", n + 2, None)>>
  <2> DEFINE x == [loc[d] EXCEPT !.call = n + 2, !.snap = 0, !.ret = FALSE]
  <2>1. x \in Locals /\ x.request = loc[d].request /\ x.call = Len(ledger) + 2
    <3>1. n + 2 \in Nat /\ 0 \in Nat /\ loc[d] \in Locals
      BY AskParts
    <3> HIDE DEF n
    <3>2. x \in Locals /\ x.request = loc[d].request /\ x.call = n + 2
      BY <3>1 DEF Locals
    <3>3. QED
      BY <3>2 DEF n
  <2>2. NoAsk \in AskStates /\ NoAsk.phase = "none" /\ NoAsk.from = 0 /\ "execute" \in PCs
    BY DEF NoAsk, AskStates, PCs
  <2>3. pc' = [pc EXCEPT ![d] = "execute"] /\ loc' = [loc EXCEPT ![d] = x]
    BY <1>11 DEF Goto
  <2> HIDE DEF x
  <2>4. OnlyMoves(d) /\ pc'[d] = "execute" /\ loc'[d] = x /\ ask'[d] = NoAsk
    BY <1>1, <2>1, <2>2, <2>3, MovesTo, ZenonT(60)
  <2>5. Grown /\ Appended(d) /\ ledger' # <<>> /\ Len(ledger) \in Nat /\ Len(ledger) + 2 \in Calls'
    <3> DEFINE z == Ev("TOOL_EXECUTION_STARTED", n + 2, None)
    <3>1. z.type = "TOOL_EXECUTION_STARTED"
      BY <1>6
    <3>2. ledger' = ledger \o <<a, b>> \o <<z>> /\ ask'[d].phase = "none"
      BY <1>11, <2>2, <2>4
    <3> HIDE DEF z
    <3>3. QED
      BY <1>9, <1>11, <3>1, <3>2
  <2>6. Placed(d)
    BY <1>1, <2>1, <2>2, <2>4, <2>5 DEF Placed
  <2>7. QED
    BY <2>4, <2>5, <2>6 DEF Moved
<1>12. QED
  BY <1>2, <1>7, <1>8, <1>10, <1>11 DEF a, b, act

\* Every step of the run is a step of one driver, or changes nothing that is read here.
LEMMA WorkflowMoves ==
  ASSUME RunTyped, ChainInv, [WorkflowNext]_allvars
  PROVE  \/ \E d \in Drivers : Moved(d)
         \/ UNCHANGED <<ledger, pc, loc, ask>>
<1>1. CASE UNCHANGED allvars
  BY <1>1 DEF allvars, vars
<1>2. ASSUME NEW d \in Drivers, Enter(d) \/ DriverOf(d) PROVE Moved(d)
  <2>1. CASE Enter(d)
    BY <2>1, EnterMoves
  <2>2. CASE Consult(d)
    BY <2>2, ConsultMoves
  <2>3. CASE Parse(d)
    BY <2>3, ParseMoves
  <2>4. CASE Freeze(d)
    BY <2>4, FreezeMoves
  <2>5. CASE ProviderRaises(d)
    BY <2>5, DeclineMoves
  <2>6. CASE Choose(d)
    BY <2>6, ChooseMoves
  <2>7. CASE Approve(d)
    BY <2>7, ApproveMoves
  <2>8. CASE Reject(d)
    BY <2>8, RejectMoves
  <2>9. CASE StartStage(d)
    BY <2>9, StartMoves
  <2>10. CASE EndStage(d)
    BY <2>10, EndMoves
  <2>11. CASE TopReturns(d) /\ UNCHANGED ask
    BY <2>11, LeaveMoves
  <2>12. QED
    BY <1>2, <2>1, <2>2, <2>3, <2>4, <2>5, <2>6, <2>7, <2>8, <2>9, <2>10, <2>11 DEF DriverOf
<1>3. QED
  BY <1>1, <1>2 DEF WorkflowNext, WorkflowStep

(***************************************************************************)
(* The invariants are kept                                                 *)
(***************************************************************************)

\* Events stay where they are; new ones come after them.
LEMMA TypesGrow ==
  ASSUME IsLog(ledger), Grown, NEW t
  PROVE  /\ OfType(t)' = OfType(t) \cup {i \in Fresh : ledger'[i].type = t}
         /\ \A i \in OfType(t) : i \in 1..Len(ledger) /\ ledger'[i] = ledger[i]
         /\ \A i \in Fresh : i \in Nat /\ i > Len(ledger) /\ i <= Len(ledger')
         /\ Len(ledger) \in Nat /\ Len(ledger') \in Nat
<1>1. /\ Len(ledger) \in Nat /\ Len(ledger') \in Nat
      /\ DOMAIN ledger = 1..Len(ledger) /\ DOMAIN ledger' = 1..Len(ledger')
  BY DEF Grown, IsLog
<1>2. \A i \in 1..Len(ledger) : i \in 1..Len(ledger') /\ ledger'[i] = ledger[i]
  BY <1>1 DEF Grown
<1>3. \A i \in Fresh : i \in Nat /\ i > Len(ledger) /\ i <= Len(ledger') /\ i \in 1..Len(ledger')
  BY <1>1 DEF Fresh
<1>4. \A i \in 1..Len(ledger') : i \in 1..Len(ledger) \/ i \in Fresh
  BY <1>1 DEF Fresh
<1>5. \A i \in OfType(t) : i \in 1..Len(ledger) /\ ledger'[i] = ledger[i] /\ ledger[i].type = t
  BY <1>1, <1>2 DEF OfType
<1>6. OfType(t)' = OfType(t) \cup {i \in Fresh : ledger'[i].type = t}
  <2>1. OfType(t)' = {i \in 1..Len(ledger') : ledger'[i].type = t}
    BY <1>1 DEF OfType
  <2>2. OfType(t) = {i \in 1..Len(ledger) : ledger[i].type = t}
    BY <1>1 DEF OfType
  <2>3. QED
    BY <1>2, <1>3, <1>4, <2>1, <2>2
<1>7. QED
  BY <1>1, <1>3, <1>5, <1>6

\* The others keep their places.
LEMMA OthersKeep ==
  ASSUME RunTyped, NEW d \in Drivers, OnlyMoves(d)
  PROVE  /\ pc' \in [Drivers -> PCs] /\ loc' \in [Drivers -> Locals] /\ ask' \in [Drivers -> AskStates]
         /\ \A e \in Drivers : e # d => pc'[e] = pc[e] /\ loc'[e] = loc[e] /\ ask'[e] = ask[e]
  BY DEF OnlyMoves, RunTyped

LEMMA TypedKept == ASSUME RunTyped, NEW d \in Drivers, Moved(d) PROVE RunTyped'
<1>1. IsLog(ledger) /\ Grown /\ Appended(d) /\ Placed(d) /\ OnlyMoves(d)
  BY DEF RunTyped, Moved
<1>2. /\ pc' \in [Drivers -> PCs] /\ loc' \in [Drivers -> Locals] /\ ask' \in [Drivers -> AskStates]
      /\ \A e \in Drivers : e # d => pc'[e] = pc[e] /\ loc'[e] = loc[e] /\ ask'[e] = ask[e]
  BY <1>1, OthersKeep
<1>3. \A j \in Frozen' : ledger'[j].data \in Specs
  <2>1. /\ Frozen' = Frozen \cup {i \in Fresh : ledger'[i].type = "BR1_INTENT_FROZEN"}
        /\ \A i \in Frozen : ledger'[i] = ledger[i]
    BY <1>1, TypesGrow DEF Frozen
  <2>2. \A i \in Fresh : ledger'[i].type = "BR1_INTENT_FROZEN" => ledger'[i].data \in Specs
    <3>1. ask[d].phase = "freeze" => ask[d].intent \in Specs
      BY AskParts
    <3>2. QED
      BY <1>1, <3>1 DEF Appended
  <2>3. QED
    BY <2>1, <2>2 DEF RunTyped
<1>4. ASSUME NEW e \in Drivers
      PROVE  /\ ask'[e].phase # "none" => pc'[e] = "decide"
             /\ ask'[e].phase = "freeze" => ask'[e].intent \in Specs
             /\ ask'[e].from <= Len(ledger')
             /\ pc'[e] # "idle" => ledger' # <<>> /\ loc'[e].request \in Requests
             /\ pc'[e] = "execute" => loc'[e].call \in Calls'
  <2>1. /\ Len(ledger) \in Nat /\ Len(ledger') \in Nat /\ Len(ledger) <= Len(ledger')
        /\ Calls \subseteq Calls'
    BY <1>1, TypesGrow DEF Grown, Calls
  <2>2. CASE e = d
    <3>1. ask'[d].from \in Nat
      BY <1>2 DEF AskStates
    <3>2. ask'[d].from <= Len(ledger')
      BY <1>1, <2>1, <3>1 DEF Placed
    <3>3. QED
      BY <1>1, <2>2, <3>2 DEF Placed
  <2>3. CASE e # d
    <3>1. pc'[e] = pc[e] /\ loc'[e] = loc[e] /\ ask'[e] = ask[e]
      BY <1>2, <2>3
    <3>2. ask[e].from <= Len(ledger')
      BY <2>1, AskParts
    <3>3. ledger # <<>> => ledger' # <<>>
      <4>1. ledger # <<>> => Len(ledger) > 0
        BY <1>1 DEF IsLog
      <4>2. Len(ledger') > 0 => ledger' # <<>>
        OBVIOUS
      <4>3. QED
        BY <2>1, <4>1, <4>2
    <3>4. QED
      BY <2>1, <3>1, <3>2, <3>3, AskParts
  <2>4. QED
    BY <2>2, <2>3
<1>5. QED
  BY <1>1, <1>2, <1>3, <1>4 DEF RunTyped, Grown

LEMMA IntentKept == ASSUME RunTyped, IntentInv, NEW d \in Drivers, Moved(d) PROVE IntentInv'
<1>1. IsLog(ledger) /\ Grown /\ Appended(d) /\ Placed(d) /\ OnlyMoves(d)
  BY DEF RunTyped, Moved
<1>2. \A e \in Drivers : e # d => pc'[e] = pc[e] /\ loc'[e] = loc[e] /\ ask'[e] = ask[e]
  BY <1>1, OthersKeep
<1>3. \A t : /\ OfType(t)' = OfType(t) \cup {i \in Fresh : ledger'[i].type = t}
             /\ \A i \in OfType(t) : i \in 1..Len(ledger) /\ ledger'[i] = ledger[i]
  BY <1>1, TypesGrow
<1>4. /\ \A i \in Fresh : i \in Nat /\ i > Len(ledger) /\ Len(ledger) \in Nat
  BY <1>1, TypesGrow
<1>5. ledger = <<>> => \A t : OfType(t) = {}
  BY DEF OfType
<1>6. AtMostOne(Frozen)'
  <2>1. \A i \in Fresh : ledger'[i].type = "BR1_INTENT_FROZEN" => Frozen = {} /\ i = Len(ledger) + 1
    BY <1>1 DEF Appended
  <2>2. Frozen' = Frozen \cup {i \in Fresh : ledger'[i].type = "BR1_INTENT_FROZEN"}
    BY <1>3 DEF Frozen
  <2>3. \A x, y \in Frozen : x = y
    BY DEF IntentInv, IntentAgreed, AtMostOne
  <2>4. QED
    BY <2>1, <2>2, <2>3 DEF AtMostOne
<1>7. ASSUME NEW i \in OfType("DECISION_RECORDED")'
      PROVE  \E j \in Frozen' : j < i /\ ledger'[i].data.spec = ledger'[j].data
  <2>1. Frozen \subseteq Frozen' /\ \A j \in Frozen : ledger'[j] = ledger[j] /\ j \in 1..Len(ledger)
    BY <1>3 DEF Frozen
  <2>2. CASE i \in OfType("DECISION_RECORDED")
    BY <1>3, <2>1, <2>2 DEF IntentInv, IntentAgreed
  <2>3. CASE i \in Fresh /\ ledger'[i].type = "DECISION_RECORDED"
    <3>1. ask[d].phase = "choose" /\ ledger'[i].data.spec = ask[d].intent
      BY <1>1, <2>3 DEF Appended
    <3>2. PICK j \in Frozen : ledger[j].data = ask[d].intent
      BY <3>1 DEF IntentInv
    <3>3. j < i
      BY <1>4, <2>1, <2>3
    <3>4. QED
      BY <2>1, <3>1, <3>2, <3>3
  <2>4. QED
    BY <1>3, <2>2, <2>3
<1>8. ASSUME NEW i \in OfType("RUN_STARTED")', NEW j \in Frozen', Preview[ledger'[i].data] # None
      PROVE  ledger'[j].data = Preview[ledger'[i].data]
  <2>1. j \in Frozen \/ (j \in Fresh /\ ledger'[j].type = "BR1_INTENT_FROZEN")
    BY <1>3 DEF Frozen
  <2>2. CASE i \in OfType("RUN_STARTED") /\ j \in Frozen
    <3>1. ledger'[i] = ledger[i] /\ ledger'[j] = ledger[j]
      BY <1>3, <2>2 DEF Frozen
    <3>2. QED
      BY <1>8, <2>2, <3>1 DEF IntentInv, IntentAgreed
  <2>3. CASE i \in OfType("RUN_STARTED") /\ j \in Fresh /\ ledger'[j].type = "BR1_INTENT_FROZEN"
    <3>1. pc[d] = "decide" /\ ask[d].phase = "freeze" /\ ledger'[j].data = ask[d].intent
      BY <1>1, <2>3 DEF Appended
    <3>2. ledger'[i] = ledger[i] /\ ledger[i].data = loc[d].request
      BY <1>3, <2>3, <3>1 DEF IntentInv
    <3>3. QED
      BY <1>8, <3>1, <3>2 DEF IntentInv
  <2>4. CASE i \in Fresh /\ ledger'[i].type = "RUN_STARTED"
    <3>1. ledger = <<>>
      BY <1>1, <2>4 DEF Appended
    <3>2. \A e \in Drivers : pc[e] = "idle" /\ ask[e].phase = "none"
      BY <3>1, AskParts
    <3>3. Frozen = {} /\ ~(j \in Fresh /\ ledger'[j].type = "BR1_INTENT_FROZEN")
      BY <1>1, <1>5, <3>1, <3>2 DEF Appended, Frozen
    <3>4. QED
      BY <2>1, <3>3
  <2>5. QED
    BY <1>3, <2>1, <2>2, <2>3, <2>4
<1>9. ASSUME NEW e \in Drivers
      PROVE  /\ pc'[e] # "idle" => \A i \in OfType("RUN_STARTED")' : ledger'[i].data = loc'[e].request
             /\ ask'[e].phase = "parse" => Preview[loc'[e].request] = None
             /\ ask'[e].phase = "freeze" /\ Preview[loc'[e].request] # None
                  => ask'[e].intent = Preview[loc'[e].request]
             /\ ask'[e].phase = "choose" => \E j \in Frozen' : ledger'[j].data = ask'[e].intent
  <2>1. ASSUME pc'[e] # "idle", NEW i \in OfType("RUN_STARTED")'
        PROVE  ledger'[i].data = loc'[e].request
    <3>1. CASE i \in OfType("RUN_STARTED")
      <4>1. ledger'[i] = ledger[i]
        BY <1>3, <3>1
      <4>2. CASE e # d
        BY <1>2, <2>1, <3>1, <4>1, <4>2 DEF IntentInv
      <4>3. CASE e = d /\ pc[d] = "idle"
        BY <1>1, <2>1, <3>1, <4>1, <4>3 DEF Placed
      <4>4. CASE e = d /\ pc[d] # "idle"
        <5>1. loc'[d].request = loc[d].request
          BY <1>1, <2>1, <4>4 DEF Placed
        <5>2. ledger[i].data = loc[d].request
          BY <3>1, <4>4 DEF IntentInv
        <5>3. QED
          BY <4>1, <4>4, <5>1, <5>2
      <4>5. QED
        BY <4>2, <4>3, <4>4
    <3>2. CASE i \in Fresh /\ ledger'[i].type = "RUN_STARTED"
      <4>1. ledger = <<>> /\ ledger'[i].data = loc'[d].request
        BY <1>1, <3>2 DEF Appended
      <4>2. pc[e] = "idle"
        BY <4>1, AskParts
      <4>3. e = d
        BY <1>2, <2>1, <4>2
      <4>4. QED
        BY <4>1, <4>3
    <3>3. QED
      BY <1>3, <3>1, <3>2
  <2>2. CASE e # d
    <3>1. pc'[e] = pc[e] /\ loc'[e] = loc[e] /\ ask'[e] = ask[e]
      BY <1>2, <2>2
    <3>2. \A j \in Frozen : j \in Frozen' /\ ledger'[j] = ledger[j]
      BY <1>3 DEF Frozen
    <3>3. QED
      BY <2>1, <3>1, <3>2 DEF IntentInv
  <2>3. CASE e = d
    <3>1. ask'[d].phase = "parse" => Preview[loc'[d].request] = None
      BY <1>1 DEF Placed
    <3>2. ask'[d].phase = "choose" => \E j \in Frozen' : ledger'[j].data = ask'[d].intent
      BY <1>1 DEF Placed
    <3>3. ASSUME ask'[d].phase = "freeze", Preview[loc'[d].request] # None
          PROVE  ask'[d].intent = Preview[loc'[d].request]
      <4>1. CASE ask[d].phase # "parse"
        BY <1>1, <3>3, <4>1 DEF Placed
      <4>2. CASE ask[d].phase = "parse"
        <5>1. pc[d] = "decide" /\ Preview[loc[d].request] = None
          BY <4>2, AskParts DEF IntentInv
        <5>2. pc'[d] # "idle" /\ loc'[d].request = loc[d].request
          BY <1>1, <3>3, <5>1 DEF Placed
        <5>3. QED
          BY <3>3, <5>1, <5>2
      <4>3. QED
        BY <4>1, <4>2
    <3>4. QED
      BY <2>1, <2>3, <3>1, <3>2, <3>3
  <2>4. QED
    BY <2>2, <2>3
<1>10. IntentAgreed'
  BY <1>6, <1>7, <1>8 DEF IntentAgreed
<1>11. QED
  BY <1>9, <1>10 DEF IntentInv

\* What a recorded success says does not change.
LEMMA RecordedKept ==
  ASSUME RunTyped, ChainInv, Grown, NEW tool, NEW a, NEW from, Recorded(tool, a, from)
  PROVE  Recorded(tool, a, from)'
<1>1. PICK i \in Ended(tool, Len(ledger)) :
        a \in Contents(ledger[i].data) /\ from \subseteq ledger[ledger[i].call].data.inputs
  BY DEF Recorded
<1>2. /\ i \in OfType("TOOL_EXECUTION_SUCCEEDED") /\ ledger[ledger[i].call].data.tool = tool
      /\ ledger[i].call \in OfType("TOOL_CALL_MATERIALIZED")
  BY DEF Ended, ChainInv, Calls
<1>3. /\ i \in OfType("TOOL_EXECUTION_SUCCEEDED")' /\ i \in 1..Len(ledger) /\ ledger'[i] = ledger[i]
      /\ ledger'[ledger[i].call] = ledger[ledger[i].call]
      /\ Len(ledger) \in Nat /\ Len(ledger') \in Nat
  BY <1>2, TypesGrow DEF RunTyped
<1>4. i <= Len(ledger')
  BY <1>3 DEF Grown
<1>5. i \in Ended(tool, Len(ledger))'
  BY <1>2, <1>3, <1>4 DEF Ended
<1>6. QED
  BY <1>1, <1>3, <1>5 DEF Recorded

\* A dataset is neither the preflight nor anything made later.
LEMMA DatasetKind ==
  ASSUME NEW x \in Datasets
  PROVE  x.kind \notin {"preflight", "model", "candidates", "predictions"}
<1>1. /\ Makes["prepare"] = "cleaned" /\ Makes["preflight"] = "preflight" /\ Makes["train"] = "model"
      /\ Makes["generate"] = "candidates" /\ Makes["predict"] = "predictions"
  BY DEF Makes
<1>2. Product("prepare", {Raw}, 0).kind = "cleaned"
  BY <1>1, ProductKind
<1>3. {"preflight", "train", "generate", "predict"} \subseteq Br1Tools \ {"prepare"}
  <2>1. \A k \in 1..6 : Stages[k] \in Br1Tools
    BY StagesListed DEF Br1Tools, Contents
  <2>2. QED
    BY <2>1, StagesListed
<1>4. Raw.kind \notin {"preflight", "model", "candidates", "predictions"}
  BY <1>1, <1>3, RawAssumption
<1>5. QED
  BY <1>2, <1>4 DEF Datasets

\* The one input of a kind.
LEMMA TheInput ==
  ASSUME NEW inputs, NEW a \in inputs, NEW kind, a.kind = kind, \A b \in inputs : b.kind = kind => b = a
  PROVE  Input(inputs, kind) = a
  BY DEF Input

LEMMA TrainInputs ==
  ASSUME NEW inputs, Shaped("train", inputs)
  PROVE  \E p \in inputs, x \in Datasets :
           /\ p.kind = "preflight" /\ p.by = 0 /\ inputs = {x, p} /\ x # p
           /\ Input(inputs, "preflight") = p
<1>1. PICK p \in inputs, x \in Datasets : p.kind = "preflight" /\ p.by = 0 /\ inputs = {x, p}
  BY DEF Shaped
<1>2. x.kind # "preflight"
  BY DatasetKind
<1>3. Input(inputs, "preflight") = p
  <2>1. \A b \in inputs : b.kind = "preflight" => b = p
    BY <1>1, <1>2
  <2>2. QED
    BY <1>1, <2>1, TheInput
<1>4. QED
  BY <1>1, <1>2, <1>3

LEMMA GenerateInputs ==
  ASSUME NEW inputs, Shaped("generate", inputs)
  PROVE  \E m \in inputs : m.kind = "model" /\ inputs = {m} /\ Input(inputs, "model") = m
<1>1. PICK m \in inputs : m.kind = "model" /\ inputs = {m}
  BY DEF Shaped
<1>2. Input(inputs, "model") = m
  <2>1. \A b \in inputs : b.kind = "model" => b = m
    BY <1>1
  <2>2. QED
    BY <1>1, <2>1, TheInput
<1>3. QED
  BY <1>1, <1>2

LEMMA PredictInputs ==
  ASSUME NEW inputs, Shaped("predict", inputs)
  PROVE  \E m, c \in inputs :
           /\ m.kind = "model" /\ c.kind = "candidates" /\ inputs = {m, c}
           /\ Input(inputs, "model") = m /\ Input(inputs, "candidates") = c
<1>1. PICK m \in inputs, c \in inputs : m.kind = "model" /\ c.kind = "candidates" /\ inputs = {m, c}
  BY DEF Shaped
<1>2. Input(inputs, "model") = m
  <2>1. \A b \in inputs : b.kind = "model" => b = m
    BY <1>1
  <2>2. QED
    BY <1>1, <2>1, TheInput
<1>3. Input(inputs, "candidates") = c
  <2>1. \A b \in inputs : b.kind = "candidates" => b = c
    BY <1>1
  <2>2. QED
    BY <1>1, <2>1, TheInput
<1>4. QED
  BY <1>1, <1>2, <1>3

LEMMA EvaluateInputs ==
  ASSUME NEW inputs, Shaped("evaluate", inputs)
  PROVE  \E c, p \in inputs :
           /\ c.kind = "candidates" /\ p.kind = "predictions" /\ inputs = {c, p}
           /\ Input(inputs, "candidates") = c /\ Input(inputs, "predictions") = p
<1>1. PICK c \in inputs, p \in inputs : c.kind = "candidates" /\ p.kind = "predictions" /\ inputs = {c, p}
  BY DEF Shaped
<1>2. Input(inputs, "candidates") = c
  <2>1. \A b \in inputs : b.kind = "candidates" => b = c
    BY <1>1
  <2>2. QED
    BY <1>1, <2>1, TheInput
<1>3. Input(inputs, "predictions") = p
  <2>1. \A b \in inputs : b.kind = "predictions" => b = p
    BY <1>1
  <2>2. QED
    BY <1>1, <2>1, TheInput
<1>4. QED
  BY <1>1, <1>2, <1>3

LEMMA UpheldKept ==
  ASSUME RunTyped, ChainInv, Grown, NEW tool, NEW inputs, Shaped(tool, inputs), Upheld(tool, inputs)
  PROVE  Upheld(tool, inputs)'
<1>1. ASSUME tool = "train" PROVE TrainBound(inputs)'
  <2>1. PICK p \in inputs : p.by = 0 /\ Input(inputs, "preflight") = p
    BY <1>1, TrainInputs
  <2>2. p.of = inputs \ {p}
    BY <1>1, <2>1 DEF Upheld, TrainBound, Of
  <2>3. QED
    BY <2>1, <2>2 DEF TrainBound, Of
<1>2. ASSUME tool = "generate" PROVE GenerateBound(inputs)'
  BY <1>2, RecordedKept DEF Upheld, GenerateBound
<1>3. ASSUME tool = "predict" PROVE PredictBound(inputs)'
  BY <1>3, RecordedKept DEF Upheld, PredictBound
<1>4. ASSUME tool = "evaluate"
      PROVE  /\ Recorded("generate", Input(inputs, "candidates"), {})'
             /\ Recorded("predict", Input(inputs, "predictions"), {Input(inputs, "candidates")})'
  BY <1>4, RecordedKept DEF Upheld
<1>5. QED
  BY <1>1, <1>2, <1>3, <1>4 DEF Upheld

LEMMA BoundUpheld ==
  ASSUME NEW tool, NEW inputs, Bound(tool, inputs)
  PROVE  Upheld(tool, inputs)
<1>1. tool = "train" => TrainBound(inputs)
  BY DEF Bound
<1>2. tool = "generate" => GenerateBound(inputs)
  BY DEF Bound
<1>3. tool = "predict" => PredictBound(inputs)
  BY DEF Bound
<1>4. tool = "evaluate" => EvaluateBound(inputs)
  BY DEF Bound
<1>5. QED
  BY <1>1, <1>2, <1>3, <1>4 DEF Upheld, EvaluateBound

LEMMA ChainKept == ASSUME RunTyped, ChainInv, NEW d \in Drivers, Moved(d) PROVE ChainInv'
<1>1. IsLog(ledger) /\ Grown /\ Appended(d)
  BY DEF RunTyped, Moved
<1>2. \A t : /\ OfType(t)' = OfType(t) \cup {i \in Fresh : ledger'[i].type = t}
             /\ \A i \in OfType(t) : ledger'[i] = ledger[i]
  BY <1>1, TypesGrow
<1>3. \A c \in Calls : c \in Calls' /\ ledger'[c] = ledger[c]
  BY <1>2 DEF Calls
<1>4. ASSUME NEW c \in Calls' PROVE Shaped(ledger'[c].data.tool, ledger'[c].data.inputs)
  <2>1. CASE c \in Calls
    BY <1>3, <2>1 DEF ChainInv
  <2>2. CASE c \in Fresh /\ ledger'[c].type = "TOOL_CALL_MATERIALIZED"
    BY <1>1, <2>2 DEF Appended
  <2>3. QED
    BY <1>2, <2>1, <2>2 DEF Calls
<1>5. ASSUME NEW i \in OfType("TOOL_EXECUTION_SUCCEEDED")'
      PROVE  /\ ledger'[i].call \in Calls'
             /\ \A tool \in {ledger'[ledger'[i].call].data.tool},
                   inputs \in {ledger'[ledger'[i].call].data.inputs} :
                  ledger'[i].data = <<Product(tool, inputs, ledger'[i].call)>> /\ Upheld(tool, inputs)'
  <2> DEFINE c == ledger'[i].call
  <2>1. c \in Calls
    BY <1>1, <1>2 DEF ChainInv, Appended
  <2>2. c \in Calls' /\ ledger'[c] = ledger[c]
    BY <1>3, <2>1
  <2>3. ASSUME NEW tool, NEW inputs, tool = ledger[c].data.tool, inputs = ledger[c].data.inputs
        PROVE  ledger'[i].data = <<Product(tool, inputs, c)>> /\ Upheld(tool, inputs)'
    <3>1. ledger'[i].data = <<Product(tool, inputs, c)>> /\ Upheld(tool, inputs)
      <4>1. CASE i \in OfType("TOOL_EXECUTION_SUCCEEDED")
        BY <1>2, <2>3, <4>1 DEF ChainInv
      <4>2. CASE i \in Fresh /\ ledger'[i].type = "TOOL_EXECUTION_SUCCEEDED"
        <5>1. ledger'[i].data = <<Product(tool, inputs, c)>> /\ Bound(tool, inputs)
          BY <1>1, <2>3, <4>2 DEF Appended
        <5>2. QED
          BY <5>1, BoundUpheld
      <4>3. QED
        BY <1>2, <4>1, <4>2
    <3>2. Shaped(tool, inputs)
      BY <2>1, <2>3 DEF ChainInv
    <3>3. QED
      BY <1>1, <3>1, <3>2, UpheldKept
  <2>4. QED
    BY <2>2, <2>3
<1>6. QED
  BY <1>4, <1>5 DEF ChainInv

\* A recorded artifact was made by a call of the stage, which its service let run.
LEMMA RecordedMade ==
  ASSUME RunTyped, ChainInv, NEW tool \in Remote, NEW a, NEW from, Recorded(tool, a, from)
  PROVE  \E c \in Calls, inputs \in {Of(a)} :
           /\ a = Product(tool, inputs, c) /\ a.by = c /\ from \subseteq inputs
           /\ Shaped(tool, inputs) /\ Upheld(tool, inputs)
<1>1. PICK i \in Ended(tool, Len(ledger)) :
        a \in Contents(ledger[i].data) /\ from \subseteq ledger[ledger[i].call].data.inputs
  BY DEF Recorded
<1> DEFINE c == ledger[i].call
           inputs == ledger[c].data.inputs
<1>2. /\ c \in Calls /\ ledger[c].data.tool = tool
      /\ ledger[i].data = <<Product(tool, inputs, c)>> /\ Upheld(tool, inputs)
  BY DEF Ended, ChainInv
<1>3. Shaped(tool, inputs)
  BY <1>2 DEF ChainInv
<1> DEFINE p == Product(tool, inputs, c)
<1>4. p.by = c
  BY ProductKind
<1>5. a = p
  <2> HIDE DEF p
  <2>1. Contents(<<p>>) = {p}
    BY DEF Contents
  <2>2. ledger[i].data = <<p>>
    BY <1>2 DEF p
  <2>3. QED
    BY <1>1, <2>1, <2>2
<1>6. c # 0
  BY <1>2 DEF Calls, OfType, RunTyped, IsLog
<1>7. Of(a) = inputs
  BY <1>4, <1>5, <1>6 DEF Of
<1>8. QED
  BY <1>1, <1>2, <1>3, <1>4, <1>5, <1>7

LEMMA ChainHolds == ASSUME RunTyped, ChainInv PROVE ChainExact
<1> SUFFICES ASSUME NEW i \in Ended("evaluate", Len(ledger))
             PROVE  \E candidates, predictions \in ledger[ledger[i].call].data.inputs :
                      OneChain(candidates, predictions)
  BY DEF ChainExact
<1>1. \A t : t \in {"train", "generate", "predict"} => t \in Remote
  BY DEF Remote
<1> DEFINE inputs == ledger[ledger[i].call].data.inputs
<1>2. Shaped("evaluate", inputs) /\ Upheld("evaluate", inputs)
  BY DEF Ended, ChainInv
<1>3. PICK c \in inputs, p \in inputs :
        /\ c.kind = "candidates" /\ p.kind = "predictions"
        /\ Input(inputs, "candidates") = c /\ Input(inputs, "predictions") = p
  BY <1>2, EvaluateInputs
<1>4. Recorded("generate", c, {}) /\ Recorded("predict", p, {c})
  BY <1>2, <1>3 DEF Upheld
\* The candidates were made with one model.
<1>5. PICK g \in Calls : /\ c.by = g /\ Shaped("generate", Of(c)) /\ Upheld("generate", Of(c))
  BY <1>1, <1>4, RecordedMade
<1>6. PICK m \in Of(c) : m.kind = "model" /\ Of(c) = {m} /\ Input(Of(c), "model") = m
  BY <1>5, GenerateInputs
\* The predictions are of these candidates, by the model they were made with.
<1>7. c \in Of(p) /\ Shaped("predict", Of(p)) /\ Upheld("predict", Of(p))
  BY <1>1, <1>4, RecordedMade
<1>8. PICK n \in Of(p), b \in Of(p) :
        /\ n.kind = "model" /\ b.kind = "candidates" /\ Of(p) = {n, b}
        /\ Input(Of(p), "model") = n /\ Input(Of(p), "candidates") = b
  BY <1>7, PredictInputs
<1>9. c = b
  BY <1>3, <1>7, <1>8
<1>10. Recorded("generate", b, {n})
  BY <1>7, <1>8 DEF Upheld, PredictBound
<1>11. n \in Of(b)
  <2>1. "generate" \in Remote
    BY <1>1
  <2> DEFINE from == {n}
  <2>2. Recorded("generate", b, from)
    BY <1>10
  <2> HIDE DEF from
  <2>3. \E t \in Calls, s \in {Of(b)} : from \subseteq s
    BY <2>1, <2>2, RecordedMade
  <2>4. QED
    BY <2>3 DEF from
<1>12. n = m /\ Of(p) = {m, c}
  BY <1>6, <1>8, <1>9, <1>11
\* The model was trained on the dataset its own preflight passed.
<1>13. Recorded("train", m, {})
  BY <1>5, <1>6 DEF Upheld, GenerateBound
<1>14. Shaped("train", Of(m)) /\ Upheld("train", Of(m))
  <2>1. "train" \in Remote
    BY <1>1
  <2>2. \E t \in Calls, s \in {Of(m)} : Shaped("train", s) /\ Upheld("train", s)
    BY <1>13, <2>1, RecordedMade
  <2>3. QED
    BY <2>2
<1>15. PICK f \in Of(m), x \in Datasets :
         /\ f.kind = "preflight" /\ Of(m) = {x, f} /\ x # f /\ Input(Of(m), "preflight") = f
  BY <1>14, TrainInputs
<1>16. Of(f) = {x}
  <2>1. Of(f) = Of(m) \ {f}
    BY <1>14, <1>15 DEF Upheld, TrainBound
  <2>2. QED
    BY <1>15, <2>1
<1>17. x \in Of(m) /\ Of(m) = {f, x} /\ x \in {Raw, Product("prepare", {Raw}, 0)}
  BY <1>15 DEF Datasets
<1>18. OneChain(c, p)
  BY <1>6, <1>12, <1>15, <1>16, <1>17 DEF OneChain
<1>19. QED
  BY <1>18

\* A driver that read no further back than an abort proposes a stage only once another
\* has succeeded.
LEMMA AbortSeen ==
  ASSUME RunTyped, NEW d \in Drivers, NEW i \in Aborts, i <= ask[d].from,
         NEW n \in Moments(d), ~Aborted(n)
  PROVE  \E k \in OfType("TOOL_EXECUTION_SUCCEEDED") : i < k
<1>1. /\ Len(ledger) \in Nat /\ DOMAIN ledger = 1..Len(ledger)
      /\ ask[d].from \in Nat /\ ask[d].from <= Len(ledger)
  BY AskParts
<1>2. n \in Nat /\ ask[d].from <= n /\ n <= Len(ledger)
  BY <1>1 DEF Moments, Ends
<1>3. /\ i \in 1..Len(ledger) /\ ledger[i].type \in {"TOOL_EXECUTION_FAILED", "TOOL_CALL_REJECTED"}
  BY <1>1 DEF Aborts, OfType
<1>4. i \in Ends(n)
  <2>1. i \in 1..n
    BY <1>1, <1>2, <1>3
  <2>2. QED
    BY <1>3, <2>1 DEF Ends
<1> DEFINE m == Max(Ends(n))
<1>5. m \in Ends(n) /\ i <= m
  <2>1. Ends(n) \in SUBSET (0..n) /\ Ends(n) # {}
    BY <1>2, <1>4 DEF Ends
  <2>2. QED
    BY <1>2, <1>4, <2>1, GreatestUpTo
<1>6. ledger[m].type = "TOOL_EXECUTION_SUCCEEDED"
  BY <1>4 DEF Aborted
<1> HIDE DEF m
<1>7. m \in 1..Len(ledger) /\ m # i
  BY <1>1, <1>2, <1>3, <1>5, <1>6 DEF Ends
<1>8. m \in OfType("TOOL_EXECUTION_SUCCEEDED") /\ i < m
  BY <1>1, <1>3, <1>5, <1>6, <1>7 DEF OfType
<1>9. QED
  BY <1>8

LEMMA CountsTyped ==
  ASSUME IsFiniteSet(Drivers), RunTyped, NEW i
  PROVE  /\ IsFiniteSet(DecidedAfter(i)) /\ Cardinality(DecidedAfter(i)) \in Nat
         /\ IsFiniteSet(Late(i)) /\ Cardinality(Late(i)) \in Nat
<1>1. Len(ledger) \in Nat /\ DOMAIN ledger = 1..Len(ledger)
  BY DEF RunTyped, IsLog
<1>2. DecidedAfter(i) \subseteq 1..Len(ledger) /\ Late(i) \subseteq Drivers
  BY <1>1 DEF DecidedAfter, OfType, Late
<1>3. IsFiniteSet(1..Len(ledger))
  BY <1>1, FS_Interval
<1>4. IsFiniteSet(DecidedAfter(i)) /\ IsFiniteSet(Late(i))
  BY <1>2, <1>3, FS_Subset
<1>5. QED
  BY <1>4, FS_CardinalityType

LEMMA AbortKept ==
  ASSUME IsFiniteSet(Drivers), RunTyped, RunTyped', AbortInv, NEW d \in Drivers, Moved(d)
  PROVE  AbortInv'
<1>1. IsLog(ledger) /\ Grown /\ Appended(d) /\ Placed(d) /\ OnlyMoves(d)
  BY DEF RunTyped, Moved
<1>2. \A e \in Drivers : e # d => ask'[e] = ask[e]
  BY <1>1, OthersKeep
<1>3. \A t : /\ OfType(t)' = OfType(t) \cup {i \in Fresh : ledger'[i].type = t}
             /\ \A i \in OfType(t) : i \in 1..Len(ledger) /\ ledger'[i] = ledger[i]
  BY <1>1, TypesGrow
<1>4. Len(ledger) \in Nat /\ \A i \in Fresh : i \in Nat /\ i > Len(ledger)
  BY <1>1, TypesGrow
<1>5. \A i \in Fresh : ledger'[i].type = "DECISION_RECORDED" => i = Len(ledger) + 1
  BY <1>1 DEF Appended
<1>6. Cardinality(Drivers) \in Nat
  BY FS_CardinalityType
<1> DEFINE Successes == OfType("TOOL_EXECUTION_SUCCEEDED")
           Quiet(i) == \A k \in Successes : k < i
<1> SUFFICES ASSUME NEW i \in Aborts'
             PROVE  /\ Cardinality(DecidedAfter(i)') <= Cardinality(Drivers) - 1
                    /\ (\A k \in Successes' : k < i) =>
                         Cardinality(DecidedAfter(i)') + Cardinality(Late(i)') <= Cardinality(Drivers) - 1
  BY DEF AbortInv
<1>7. /\ Cardinality(DecidedAfter(i)) \in Nat /\ Cardinality(Late(i)) \in Nat
      /\ IsFiniteSet(DecidedAfter(i)) /\ IsFiniteSet(Late(i))
  BY CountsTyped
<1>8. /\ Cardinality(DecidedAfter(i)') \in Nat /\ Cardinality(Late(i)') \in Nat
      /\ IsFiniteSet(DecidedAfter(i)') /\ IsFiniteSet(Late(i)')
  <2>1. Len(ledger') \in Nat /\ DOMAIN ledger' = 1..Len(ledger')
    BY DEF RunTyped, IsLog
  <2>2. DecidedAfter(i)' \subseteq 1..Len(ledger') /\ Late(i)' \subseteq Drivers
    BY <2>1 DEF DecidedAfter, OfType, Late
  <2>3. IsFiniteSet(1..Len(ledger'))
    BY <2>1, FS_Interval
  <2>4. IsFiniteSet(DecidedAfter(i)') /\ IsFiniteSet(Late(i)')
    BY <2>2, <2>3, FS_Subset
  <2>5. QED
    BY <2>4, FS_CardinalityType
\* An abort that was there already.
<1>9. CASE i \in Aborts
  <2>1. i \in 1..Len(ledger) /\ i \notin Successes
    BY <1>3, <1>9 DEF Aborts, OfType
  <2>2. i \in Ends(Len(ledger))
    BY <1>9, <2>1 DEF Aborts, OfType, Ends
  <2>3. Late(i)' \subseteq Late(i) \ {d}
    <3>1. ask'[d].phase = "choose" => i <= ask'[d].from
      BY <1>1, <2>2 DEF Placed
    <3>2. ask'[d].from \in Nat
      BY DEF RunTyped, AskStates
    <3>3. d \notin Late(i)'
      BY <2>1, <3>1, <3>2 DEF Late
    <3>4. QED
      BY <1>2, <3>3 DEF Late
  <2> DEFINE next == Len(ledger) + 1
             New == {j \in Fresh : /\ ledger'[j].type = "DECISION_RECORDED"
                                   /\ ledger'[j].data.kind = "call"
                                   /\ \A k \in Successes : ~(i < k /\ k < j)}
  <2>4. DecidedAfter(i)' = DecidedAfter(i) \cup New
    <3>1. ASSUME NEW j, j \in 1..Len(ledger) \/ j = next
          PROVE  (\A k \in Successes' : ~(i < k /\ k < j)) <=> (\A k \in Successes : ~(i < k /\ k < j))
      <4>1. Successes' = Successes \cup {k \in Fresh : ledger'[k].type = "TOOL_EXECUTION_SUCCEEDED"}
        BY <1>3
      <4>2. \A k \in Fresh : ~(k < j)
        BY <1>4, <3>1
      <4>3. QED
        BY <4>1, <4>2
    <3>2. \A j \in Fresh : j > i
      BY <1>4, <2>1
    <3>3. DecidedAfter(i)' = {j \in OfType("DECISION_RECORDED")' :
                                /\ j > i /\ ledger'[j].data.kind = "call"
                                /\ \A k \in Successes' : ~(i < k /\ k < j)}
      BY DEF DecidedAfter
    <3>4. DecidedAfter(i) = {j \in OfType("DECISION_RECORDED") :
                                /\ j > i /\ ledger[j].data.kind = "call"
                                /\ \A k \in Successes : ~(i < k /\ k < j)}
      BY DEF DecidedAfter
    <3> HIDE DEF Successes
    <3>5. QED
      BY <1>3, <1>5, <3>1, <3>2, <3>3, <3>4
  <2>5. /\ Cardinality(DecidedAfter(i)) <= Cardinality(Drivers) - 1
        /\ Quiet(i) => Cardinality(DecidedAfter(i)) + Cardinality(Late(i)) <= Cardinality(Drivers) - 1
    BY <1>9 DEF AbortInv
  <2>6. (\A k \in Successes' : k < i) => Quiet(i)
    BY <1>3
  <2>7. CASE New = {}
    <3>1. DecidedAfter(i)' = DecidedAfter(i)
      BY <2>4, <2>7
    <3>2. Late(i)' \subseteq Late(i)
      BY <2>3
    <3>3. Cardinality(Late(i)') <= Cardinality(Late(i))
      BY <1>7, <3>2, FS_Subset
    <3>4. Cardinality(DecidedAfter(i)') = Cardinality(DecidedAfter(i))
      BY <3>1
    <3> HIDE DEF Quiet, New, Successes
    <3>5. QED
      BY <1>6, <1>7, <1>8, <2>5, <2>6, <3>3, <3>4
  <2>8. CASE New # {}
    <3>1. New = {next} /\ next \in Fresh /\ ledger'[next].type = "DECISION_RECORDED"
          /\ ledger'[next].data.kind = "call" /\ \A k \in Successes : ~(i < k /\ k < next)
      BY <1>5, <2>8
    <3>2. /\ ask[d].phase = "choose" /\ \E n \in Moments(d) : ~Aborted(n)
      BY <1>1, <3>1 DEF Appended
    <3>3. ASSUME NEW k \in Successes PROVE k < i
      <4>1. k \in 1..Len(ledger) /\ k # i /\ ~(i < k /\ k < next)
        BY <1>3, <2>1, <3>1
      <4>2. QED
        BY <1>4, <2>1, <4>1
    <3>4. d \in Late(i)
      <4>1. ask[d].from \in Nat
        BY AskParts
      <4>2. ~(i <= ask[d].from)
        <5>1. ASSUME i <= ask[d].from PROVE FALSE
          <6>1. PICK k \in Successes : i < k
            BY <1>9, <3>2, <5>1, AbortSeen
          <6>2. k < i /\ k \in 1..Len(ledger)
            BY <1>3, <3>3
          <6>3. QED
            BY <1>4, <2>1, <6>1, <6>2
        <5>2. QED
          BY <5>1
      <4>3. ask[d].from < i
        BY <2>1, <4>1, <4>2
      <4>4. QED
        BY <3>2, <4>3 DEF Late
    <3>5. Cardinality(Late(i) \ {d}) = Cardinality(Late(i)) - 1 /\ IsFiniteSet(Late(i) \ {d})
      BY <1>7, <3>4, FS_RemoveElement
    <3>6. Cardinality(Late(i)') <= Cardinality(Late(i)) - 1
      BY <2>3, <3>5, FS_Subset
    <3>7. next \notin DecidedAfter(i)
      <4>1. \A j \in DecidedAfter(i) : j \in 1..Len(ledger)
        BY <1>3 DEF DecidedAfter
      <4>2. QED
        BY <1>4, <4>1
    <3>8. Cardinality(DecidedAfter(i)') = Cardinality(DecidedAfter(i)) + 1
      <4>1. DecidedAfter(i)' = DecidedAfter(i) \cup {next}
        BY <2>4, <3>1
      <4>2. QED
        BY <1>7, <3>7, <4>1, FS_AddElement
    <3>9. Cardinality(DecidedAfter(i)) + Cardinality(Late(i)) <= Cardinality(Drivers) - 1
      BY <2>5, <3>3
    <3> HIDE DEF New, Successes
    <3>10. QED
      BY <1>6, <1>7, <1>8, <3>6, <3>8, <3>9
  <2>9. QED
    BY <2>7, <2>8
\* An abort that d has just recorded: it is not choosing itself.
<1>10. CASE i \in Fresh /\ ledger'[i].type \in {"TOOL_EXECUTION_FAILED", "TOOL_CALL_REJECTED"}
  <2>1. ask'[d].phase = "none"
    BY <1>1, <1>10 DEF Appended
  <2>2. Late(i)' \subseteq Drivers \ {d}
    BY <2>1 DEF Late
  <2>3. Cardinality(Drivers \ {d}) = Cardinality(Drivers) - 1 /\ IsFiniteSet(Drivers \ {d})
    BY FS_RemoveElement
  <2>4. Cardinality(Late(i)') <= Cardinality(Drivers) - 1
    BY <2>2, <2>3, FS_Subset
  <2>5. DecidedAfter(i)' = {}
    <3>1. \A j \in OfType("DECISION_RECORDED")' : ~(j > i)
      <4>1. \A j \in OfType("DECISION_RECORDED")' : j \in 1..Len(ledger) \/ j = Len(ledger) + 1
        BY <1>3, <1>5
      <4>2. i \in Nat /\ i > Len(ledger)
        BY <1>4, <1>10
      <4>3. QED
        BY <1>4, <4>1, <4>2
    <3>2. QED
      BY <3>1 DEF DecidedAfter
  <2>6. Cardinality(DecidedAfter(i)') = 0
    BY <2>5, FS_EmptySet
  <2>7. QED
    BY <1>6, <1>8, <2>4, <2>6
<1>11. i \in Aborts \/ (i \in Fresh /\ ledger'[i].type \in {"TOOL_EXECUTION_FAILED", "TOOL_CALL_REJECTED"})
  BY <1>3 DEF Aborts
<1>12. QED
  BY <1>9, <1>10, <1>11

LEMMA WorkflowStarts ==
  ASSUME WorkflowInit
  PROVE  RunTyped /\ IntentInv /\ ChainInv /\ (IsFiniteSet(Drivers) => AbortInv)
<1>1. /\ ledger = <<>> /\ pc = [d \in Drivers |-> "idle"] /\ loc = [d \in Drivers |-> NoLocals]
      /\ ask = [d \in Drivers |-> NoAsk]
  BY DEF WorkflowInit, Init
<1>2. /\ NoAsk \in AskStates /\ NoAsk.phase = "none" /\ NoAsk.from = 0 /\ "idle" \in PCs
      /\ NoLocals \in Locals
  BY NoLocalsTyped DEF NoAsk, AskStates, PCs
<1>3. \A t : OfType(t) = {}
  BY <1>1 DEF OfType
<1>4. IsLog(ledger) /\ Len(ledger) = 0
  BY <1>1 DEF IsLog, Contents
<1>5. RunTyped
  BY <1>1, <1>2, <1>3, <1>4 DEF RunTyped, Frozen
<1>6. IntentInv
  BY <1>1, <1>2, <1>3 DEF IntentInv, IntentAgreed, AtMostOne, Frozen
<1>7. ChainInv
  BY <1>3 DEF ChainInv, Calls
<1>8. AbortInv
  BY <1>3 DEF AbortInv, Aborts
<1>9. QED
  BY <1>5, <1>6, <1>7, <1>8

\* Nothing an invariant reads changes: the met drivers are counted for TLC alone.
LEMMA WorkflowStutters ==
  ASSUME UNCHANGED <<ledger, pc, loc, ask>>
  PROVE  /\ RunTyped => RunTyped'
         /\ IntentInv => IntentInv'
         /\ ChainInv => ChainInv'
         /\ AbortInv => AbortInv'
<1>1. RunTyped => RunTyped'
  BY DEF RunTyped, Frozen, Calls, OfType
<1>2. IntentInv => IntentInv'
  BY DEF IntentInv, IntentAgreed, AtMostOne, Frozen, OfType
<1>3. ChainInv => ChainInv'
  <2>1. \A tool, a, from : Recorded(tool, a, from) <=> Recorded(tool, a, from)'
    BY DEF Recorded, Ended, OfType
  <2>2. \A inputs : TrainBound(inputs) <=> TrainBound(inputs)'
    BY DEF TrainBound, Of
  <2>3. \A tool, inputs : Upheld(tool, inputs) <=> Upheld(tool, inputs)'
    BY <2>1, <2>2 DEF Upheld, GenerateBound, PredictBound
  <2>4. \A type : OfType(type)' = OfType(type)
    BY DEF OfType
  <2>5. QED
    BY <2>3, <2>4 DEF ChainInv, Calls
<1>4. AbortInv => AbortInv'
  BY DEF AbortInv, Aborts, DecidedAfter, Late, OfType
<1>5. QED
  BY <1>1, <1>2, <1>3, <1>4

\* The three invariants hold together; the first two do not need the drivers counted.
LEMMA WorkflowKeeps ==
  ASSUME RunTyped, ChainInv, [WorkflowNext]_allvars
  PROVE  /\ RunTyped' /\ ChainInv'
         /\ IntentInv => IntentInv'
         /\ IsFiniteSet(Drivers) /\ AbortInv => AbortInv'
<1>1. CASE UNCHANGED <<ledger, pc, loc, ask>>
  BY <1>1, WorkflowStutters
<1>2. ASSUME NEW d \in Drivers, Moved(d)
      PROVE  /\ RunTyped' /\ ChainInv'
             /\ IntentInv => IntentInv'
             /\ IsFiniteSet(Drivers) /\ AbortInv => AbortInv'
  <2>1. RunTyped'
    BY <1>2, TypedKept
  <2>2. ChainInv'
    BY <1>2, ChainKept
  <2>3. IntentInv => IntentInv'
    BY <1>2, IntentKept
  <2>4. IsFiniteSet(Drivers) /\ AbortInv => AbortInv'
    BY <1>2, <2>1, AbortKept
  <2>5. QED
    BY <2>1, <2>2, <2>3, <2>4
<1>3. QED
  BY <1>1, <1>2, WorkflowMoves

\* However many drivers work on a BR1 run and however often the model is asked, one
\* intent is frozen, the confirmed plan's where there is one, and every decision is
\* made for it (_persist_intent, _load_frozen_intent).
THEOREM OneIntentPerRun == WorkflowSpec => []IntentAgreed
<1>1. WorkflowInit => RunTyped /\ ChainInv /\ IntentInv
  BY WorkflowStarts
<1>2. RunTyped /\ ChainInv /\ IntentInv /\ [WorkflowNext]_allvars => (RunTyped /\ ChainInv /\ IntentInv)'
  BY WorkflowKeeps
<1>3. IntentInv => IntentAgreed
  BY DEF IntentInv
<1>4. QED
  BY <1>1, <1>2, <1>3, PTL DEF WorkflowSpec

\* Every Top-N that is recorded is of one chain of artifacts, however the drivers'
\* reads and calls interleave (_success_artifact, successful_output_event).
THEOREM TopNOfOneChain == WorkflowSpec => []ChainExact
<1>1. WorkflowInit => RunTyped /\ ChainInv
  BY WorkflowStarts
<1>2. RunTyped /\ ChainInv /\ [WorkflowNext]_allvars => (RunTyped /\ ChainInv)'
  BY WorkflowKeeps
<1>3. RunTyped /\ ChainInv => ChainExact
  BY ChainHolds
<1>4. QED
  BY <1>1, <1>2, <1>3, PTL DEF WorkflowSpec

\* After a stage failed or was rejected, each driver that was then choosing adds at
\* most one more call, the one that recorded the end none (_latest_aborted_stage).
THEOREM AbortIsFinal == ASSUME IsFiniteSet(Drivers) PROVE WorkflowSpec => []AbortStops
<1>1. WorkflowInit => RunTyped /\ ChainInv /\ AbortInv
  BY WorkflowStarts
<1>2. RunTyped /\ ChainInv /\ AbortInv /\ [WorkflowNext]_allvars => (RunTyped /\ ChainInv /\ AbortInv)'
  BY WorkflowKeeps
<1>3. AbortInv => AbortStops
  BY DEF AbortInv, AbortStops, Aborts, DecidedAfter
<1>4. QED
  BY <1>1, <1>2, <1>3, PTL DEF WorkflowSpec

=============================================================================
