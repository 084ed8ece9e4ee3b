---------------------------- MODULE RunLifecycle ----------------------------
(***************************************************************************)
(* What a run promises to whoever operates it, without drivers, ledger     *)
(* positions or crashes: the statuses of core/runs.py RunStatus as the     *)
(* durable record shows them, which tool executions may happen in which    *)
(* status, and which statuses are final.  AgentLoop implements it when one *)
(* driver at a time works on the run.                                      *)
(***************************************************************************)
EXTENDS Naturals, Sequences

VARIABLES
  status,    \* the RunStatus an observer reads
  effects,   \* calls whose executor was invoked, in order
  denied     \* calls the operator rejected

vars == <<status, effects, denied>>

Final == {"RUN_STOPPED", "RUN_REJECTED", "BUDGET_EXHAUSTED"}

Moves ==
  {<<"NEW", "ACTIVE">>,
   <<"ACTIVE", "WAITING_APPROVAL">>, <<"WAITING_APPROVAL", "ACTIVE">>,
   <<"ACTIVE", "INTERRUPTED">>, <<"INTERRUPTED", "ACTIVE">>,
   <<"ACTIVE", "WAITING_REVIEW">>}
    \cup ({"ACTIVE"} \X Final)

Ran(calls) == {calls[i] : i \in DOMAIN calls}

Init == status = "NEW" /\ effects = <<>> /\ denied = {}

Move ==
  /\ <<status, status'>> \in Moves
  /\ UNCHANGED <<effects, denied>>

\* A rejection is a decision on the call the run was waiting for.
Deny ==
  /\ status = "WAITING_APPROVAL"
  /\ status' = "ACTIVE"
  /\ \E c \in denied' \ denied : denied' = denied \cup {c}
  /\ UNCHANGED effects

\* A tool runs between the durable start of its call and the durable end, once,
\* and never after its rejection.
RunTool ==
  /\ status = "INTERRUPTED"
  /\ \E c \in Ran(effects') \ (Ran(effects) \cup denied) : effects' = Append(effects, c)
  /\ UNCHANGED <<status, denied>>

Next == Move \/ Deny \/ RunTool

Spec == Init /\ [][Next]_vars

=============================================================================
