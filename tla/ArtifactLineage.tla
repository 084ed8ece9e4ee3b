--------------------------- MODULE ArtifactLineage ---------------------------
(***************************************************************************)
(* core/lineage.py as AgentLoop uses it: every driver of every run opens   *)
(* its own ArtifactLineage on the one lineage.jsonl of the state root and  *)
(* projects the durable success events of its run into it.  The instance   *)
(* remembers which identities it knows and, once strict, refuses to read a *)
(* file with any other.                                                    *)
(*                                                                         *)
(* One read of the file is a step and one locked append is a step; what    *)
(* happens inside them is the matter of RunLedger.                         *)
(***************************************************************************)
EXTENDS Naturals, Sequences, FiniteSets, SequencesExt, FiniteSetsExt

CONSTANTS
  Drivers,
  Runs,
  Steps, Artifacts,
  Successes,    \* the success events runs may record
  MaxDeaths,    \* bound
  None

ASSUME LineageAssumption ==
  /\ Successes \subseteq [run : Runs, step : Steps, inputs : SUBSET Artifacts, outputs : SUBSET Artifacts]
  /\ MaxDeaths \in Nat
  /\ None \notin Runs \cup Successes

VARIABLES
  recorded,  \* success events in the ledger, in order
  lineage,   \* the complete lines of lineage.jsonl
  pc,
  loc,       \* each driver's ArtifactLineage and its place in the projection
  deaths

vars == <<recorded, lineage, pc, loc, deaths>>

-----------------------------------------------------------------------------
(* Relations *)

Identity == Steps \cup Artifacts
\* relation_id is a digest of the success event and the triple; distinct
\* relations have distinct ids and a repeated projection has the same one.
Relation == [kind : {"PRODUCED_BY", "DERIVED_FROM", "CONSUMED_BY"},
             subject : Artifacts, object : Identity, success : Successes]

Rel(k, s, o, e) == [kind |-> k, subject |-> s, object |-> o, success |-> e]

\* What _project_success adds for one event.
Projection(e) ==
  {Rel("PRODUCED_BY", a, e.step, e) : a \in e.outputs}
    \cup {Rel("DERIVED_FROM", p[1], p[2], e) : p \in e.outputs \X e.inputs}
    \cup {Rel("CONSUMED_BY", a, e.step, e) : a \in e.inputs}

Identities(relations) == {r.subject : r \in relations} \cup {r.object : r \in relations}

\* events is the driver's snapshot of its run, as positions of the ledger, todo
\* those it has not finished and at the one in hand.
Locals == [run : Runs \cup {None}, events : SUBSET Nat, todo : SUBSET Nat, at : Nat,
           known : SUBSET Identity, strict : BOOLEAN, due : SUBSET Relation,
           adding : Relation \cup {None}, failed : BOOLEAN]
NoLocals == [run |-> None, events |-> {}, todo |-> {}, at |-> 0, known |-> {}, strict |-> FALSE,
             due |-> {}, adding |-> None, failed |-> FALSE]

Init ==
  /\ recorded = <<>> /\ lineage = <<>>
  /\ pc = [d \in Drivers |-> "idle"]
  /\ loc = [d \in Drivers |-> NoLocals]
  /\ deaths = 0

Goto(d, l) == pc' = [pc EXCEPT ![d] = l]

\* _check_known for every line: a strict instance reads only identities it knows.
ReadRaises(d) == loc[d].strict /\ ~(Identities(ToSet(lineage)) \subseteq loc[d].known)

-----------------------------------------------------------------------------

\* A driver records the success of a tool call before it projects it.
Record(e) ==
  /\ e \notin ToSet(recorded)
  /\ recorded' = Append(recorded, e)
  /\ UNCHANGED <<lineage, pc, loc, deaths>>

Snapshot(r) == {i \in DOMAIN recorded : recorded[i].run = r}

\* A new service, a new instance, a snapshot of the run's events.
Open(d, r) ==
  /\ pc[d] = "idle"
  /\ loc' = [loc EXCEPT ![d] =
       [NoLocals EXCEPT !.run = r, !.events = Snapshot(r), !.todo = Snapshot(r)]]
  /\ Goto(d, "next")
  /\ UNCHANGED <<recorded, lineage, deaths>>

\* The success events of a snapshot are taken in the order of the ledger.
First(S) == {i \in S : \A j \in S : i <= j}

\* register_step and register_artifact: the first one hydrates, then strict.
Bug_NoHydration(d) ==
  /\ pc[d] = "next"
  /\ \E i \in First(loc[d].todo) :
       LET e == recorded[i]
       IN loc' = [loc EXCEPT ![d].known = @ \cup {e.step} \cup e.inputs \cup e.outputs,
                             ![d].strict = TRUE, ![d].at = i,
                             ![d].due = Projection(e)]
  /\ Goto(d, "projecting")
  /\ UNCHANGED <<recorded, lineage, deaths>>

Register(d) ==
  /\ pc[d] = "next"
  /\ \E i \in First(loc[d].todo) :
       LET e == recorded[i]
           hydrated == IF loc[d].strict THEN {} ELSE Identities(ToSet(lineage))
       IN loc' = [loc EXCEPT ![d].known = @ \cup hydrated \cup {e.step} \cup e.inputs \cup e.outputs,
                             ![d].strict = TRUE, ![d].at = i,
                             ![d].due = Projection(e)]
  /\ Goto(d, "projecting")
  /\ UNCHANGED <<recorded, lineage, deaths>>

Raise(d) ==
  /\ loc' = [loc EXCEPT ![d].failed = TRUE]
  /\ Goto(d, "left")

\* add_relation_idempotent looks for the relation without the lock ...  The
\* order in which the relations of one event are taken does not matter here.
Look(d, r) ==
  /\ pc[d] = "projecting"
  /\ r \in loc[d].due
  /\ ~ReadRaises(d)
  /\ IF r \in ToSet(lineage)
     THEN loc' = [loc EXCEPT ![d].due = @ \ {r}] /\ UNCHANGED pc
     ELSE loc' = [loc EXCEPT ![d].due = @ \ {r}, ![d].adding = r] /\ Goto(d, "adding")
  /\ UNCHANGED <<recorded, lineage, deaths>>

LookRaises(d) ==
  /\ pc[d] = "projecting"
  /\ loc[d].due # {}
  /\ ReadRaises(d)
  /\ Raise(d)
  /\ UNCHANGED <<recorded, lineage, deaths>>

\* ... and add_relation reads it again under the lock before it appends.
Bug_DuplicateUnchecked(d) == ReadRaises(d)
Refused(d) == ReadRaises(d) \/ loc[d].adding \in ToSet(lineage)

AddRelation(d) ==
  /\ pc[d] = "adding"
  /\ ~Refused(d)
  /\ lineage' = Append(lineage, loc[d].adding)
  /\ loc' = [loc EXCEPT ![d].adding = None]
  /\ Goto(d, "projecting")
  /\ UNCHANGED <<recorded, deaths>>

AddRaises(d) ==
  /\ pc[d] = "adding"
  /\ Refused(d)
  /\ Raise(d)
  /\ UNCHANGED <<recorded, lineage, deaths>>

\* The next success event, or all of them are projected.
Bug_LaterEventsSkipped(d) ==
  /\ pc[d] = "projecting"
  /\ loc[d].due = {}
  /\ loc' = [loc EXCEPT ![d].todo = {}, ![d].at = 0]
  /\ Goto(d, "next")
  /\ UNCHANGED <<recorded, lineage, deaths>>

FinishEvent(d) ==
  /\ pc[d] = "projecting"
  /\ loc[d].due = {}
  /\ loc' = [loc EXCEPT ![d].todo = @ \ {loc[d].at}, ![d].at = 0]
  /\ Goto(d, "next")
  /\ UNCHANGED <<recorded, lineage, deaths>>

Reconciled(d) ==
  /\ pc[d] = "next"
  /\ loc[d].todo = {}
  /\ Goto(d, "left")
  /\ UNCHANGED <<recorded, lineage, loc, deaths>>

\* The loop of run() comes around after another success: the same instance
\* reconciles the new snapshot, from its first event on.
Again(d) ==
  /\ pc[d] = "left"
  /\ ~loc[d].failed
  /\ Snapshot(loc[d].run) # loc[d].events
  /\ loc' = [loc EXCEPT ![d].events = Snapshot(loc[d].run), ![d].todo = Snapshot(loc[d].run)]
  /\ Goto(d, "next")
  /\ UNCHANGED <<recorded, lineage, deaths>>

Leave(d) ==
  /\ pc[d] = "left"
  /\ Goto(d, "idle")
  /\ loc' = [loc EXCEPT ![d] = NoLocals]
  /\ UNCHANGED <<recorded, lineage, deaths>>

Die(d) ==
  /\ pc[d] # "idle"
  /\ deaths < MaxDeaths
  /\ deaths' = deaths + 1
  /\ Goto(d, "idle")
  /\ loc' = [loc EXCEPT ![d] = NoLocals]
  /\ UNCHANGED <<recorded, lineage>>

Step(d) ==
  \/ Register(d) \/ LookRaises(d) \/ AddRelation(d) \/ AddRaises(d)
  \/ FinishEvent(d) \/ Reconciled(d) \/ Leave(d)
  \/ \E r \in loc[d].due : Look(d, r)

Next ==
  \/ \E e \in Successes : Record(e)
  \/ \E d \in Drivers : Step(d) \/ Again(d) \/ Die(d) \/ \E r \in Runs : Open(d, r)

Spec == Init /\ [][Next]_vars

\* A driver inside the code is scheduled, and somebody keeps resuming each run.
FairSpec ==
  /\ Spec
  /\ \A d \in Drivers : WF_vars(Step(d))
  /\ \A r \in Runs : SF_vars(\E d \in Drivers : Open(d, r))

-----------------------------------------------------------------------------
(* Properties *)

\* Type invariant of the file and of the drivers' instances.
TypeOK ==
  /\ recorded \in Seq(Successes)
  /\ lineage \in Seq(Relation)
  /\ pc \in [Drivers -> {"idle", "next", "projecting", "adding", "left"}]
  /\ loc \in [Drivers -> Locals]
  /\ deaths \in 0..MaxDeaths

\* However many drivers project the same success, no relation is in the file
\* twice, so that the next reader does not find a duplicate id (_read_relations).
NoDuplicateRelation == IsInjective(lineage)

\* A reconciliation that ends without raising has left nothing out of any success
\* of its snapshot, whoever died in an earlier projection: the provider is asked
\* only after that (_reconcile_success_lineage).
ReconciledIsComplete ==
  \A d \in Drivers :
    pc[d] = "left" /\ ~loc[d].failed =>
      \A i \in loc[d].events : Projection(recorded[i]) \subseteq ToSet(lineage)

\* The file every run of the state root depends on: typed, no relation in it twice,
\* and nothing missing where a driver was told it is complete, whoever raced and
\* whoever died between two appends.
FileSound == TypeOK /\ NoDuplicateRelation /\ ReconciledIsComplete

\* As long as every run is resumed again, each recorded success ends up fully
\* projected, although drivers make each other fail on the way.
EventuallyProjected ==
  \A e \in Successes : e \in ToSet(recorded) ~> Projection(e) \subseteq ToSet(lineage)

\* Expected to fail.  "missing relations can be repaired idempotently"
\* (CORE-02.md:105) and "identical semantic facts are returned unchanged"
\* (lineage.py:358): two drivers that project the same success both get through.
RepeatedProjectionAgrees ==
  \A d \in Drivers : loc[d].failed => loc[d].adding = None

\* Expected to fail.  The relations of one run say nothing that another run's
\* projection could object to ("conflicting semantics fail closed",
\* CORE-02.md:105, names the only reason to fail).
OtherRunsDoNotMatter ==
  \A d \in Drivers : loc[d].failed =>
    \E c \in Drivers \ {d} : loc[c].run = loc[d].run

=============================================================================
