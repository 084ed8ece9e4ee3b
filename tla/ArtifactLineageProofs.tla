------------------------- MODULE ArtifactLineageProofs -------------------------
(***************************************************************************)
(* Proofs about ArtifactLineage, for any number of drivers, runs, deaths   *)
(* and successes: no relation gets into the file twice, and whoever ends a *)
(* reconciliation without an error has everything in the file.             *)
(***************************************************************************)
EXTENDS ArtifactLineage, TLAPS

\* What a driver at l with locals x knows of the ledger led and the file lin: what
\* it has gone past is in the file, and of the event in hand only what it still
\* holds is not.
Holds(l, x, led, lin) ==
  /\ x.events \subseteq DOMAIN led /\ x.todo \subseteq x.events
  /\ \A i \in x.events \ x.todo : Projection(led[i]) \subseteq ToSet(lin)
  /\ l \in {"projecting", "adding"} => x.at \in x.todo
  /\ l = "projecting" => Projection(led[x.at]) \subseteq ToSet(lin) \cup x.due
  /\ l = "adding" =>
       /\ x.adding \in Relation
       /\ Projection(led[x.at]) \subseteq ToSet(lin) \cup x.due \cup {x.adding}
  /\ l = "left" /\ ~x.failed => x.todo = {}

LineageInv ==
  /\ TypeOK
  /\ NoDuplicateRelation
  /\ \A d \in Drivers : Holds(pc[d], loc[d], recorded, lineage)

\* The ledger and the file only grow.
Grown ==
  /\ \A i \in DOMAIN recorded : i \in DOMAIN recorded' /\ recorded'[i] = recorded[i]
  /\ ToSet(lineage) \subseteq ToSet(lineage')

-----------------------------------------------------------------------------

\* What is derived from a success is made of its run's steps and artifacts.
LEMMA ProjectionTyped == \A e \in Successes : Projection(e) \subseteq Relation
<1> SUFFICES ASSUME NEW e \in Successes PROVE Projection(e) \subseteq Relation
  OBVIOUS
<1>1. e.step \in Identity /\ e.inputs \subseteq Artifacts /\ e.outputs \subseteq Artifacts
  BY LineageAssumption DEF Identity
<1>2. Artifacts \subseteq Identity
  BY DEF Identity
<1>3. \A a \in Artifacts, o \in Identity, k \in {"PRODUCED_BY", "DERIVED_FROM", "CONSUMED_BY"} :
        Rel(k, a, o, e) \in Relation
  BY DEF Rel, Relation
<1>4. \A p \in e.outputs \X e.inputs : p[1] \in Artifacts /\ p[2] \in Identity
  BY <1>1, <1>2
<1>5. QED
  BY <1>1, <1>3, <1>4 DEF Projection

LEMMA SuccessTyped ==
  \A e \in Successes : /\ e.step \in Identity
                       /\ e.inputs \subseteq Identity /\ e.outputs \subseteq Identity
BY LineageAssumption DEF Identity

LEMMA IdentitiesTyped ==
  ASSUME lineage \in Seq(Relation) PROVE Identities(ToSet(lineage)) \subseteq Identity
<1>1. \A r \in ToSet(lineage) : r \in Relation
  BY DEF ToSet
<1>2. \A r \in Relation : r.subject \in Identity /\ r.object \in Identity
  BY DEF Relation, Identity
<1>3. QED
  BY <1>1, <1>2 DEF Identities

\* Appending a relation that is not in the file yet.
LEMMA LineAdded ==
  ASSUME lineage \in Seq(Relation), NEW r \in Relation, lineage' = Append(lineage, r)
  PROVE  /\ lineage' \in Seq(Relation)
         /\ ToSet(lineage') = ToSet(lineage) \cup {r}
         /\ NoDuplicateRelation /\ r \notin ToSet(lineage) => NoDuplicateRelation'
<1>1. PICK n \in Nat : n = Len(lineage) + 1
  OBVIOUS
<1>2. /\ lineage' \in Seq(Relation)
      /\ DOMAIN lineage' = DOMAIN lineage \cup {n} /\ n \notin DOMAIN lineage
      /\ \A i \in DOMAIN lineage : lineage'[i] = lineage[i]
      /\ lineage'[n] = r
  BY <1>1
<1>3. ToSet(lineage') = ToSet(lineage) \cup {r}
  BY <1>2 DEF ToSet
<1>4. NoDuplicateRelation /\ r \notin ToSet(lineage) => NoDuplicateRelation'
  BY <1>2 DEF NoDuplicateRelation, IsInjective, ToSet
<1>5. QED
  BY <1>2, <1>3, <1>4

LEMMA SuccessRecorded ==
  ASSUME recorded \in Seq(Successes), NEW e \in Successes, recorded' = Append(recorded, e)
  PROVE  /\ recorded' \in Seq(Successes)
         /\ \A i \in DOMAIN recorded : i \in DOMAIN recorded' /\ recorded'[i] = recorded[i]
OBVIOUS

\* What a driver knows stays so when others record and project.
LEMMA HoldsStays ==
  ASSUME Grown, NEW l, NEW x, Holds(l, x, recorded, lineage)
  PROVE  Holds(l, x, recorded', lineage')
<1>1. x.events \subseteq DOMAIN recorded' /\ \A i \in x.events : recorded'[i] = recorded[i]
  BY DEF Grown, Holds
<1>2. l \in {"projecting", "adding"} => x.at \in x.events
  BY DEF Holds
<1>3. QED
  BY <1>1, <1>2 DEF Grown, Holds

LEMMA NoLocalsHold ==
  /\ NoLocals \in Locals
  /\ \A led, lin : Holds("idle", NoLocals, led, lin)
<1>1. NoLocals \in Locals
  BY DEF NoLocals, Locals
<1>2. \A led, lin : Holds("idle", NoLocals, led, lin)
  BY DEF NoLocals, Holds
<1>3. QED
  BY <1>1, <1>2

LEMMA InitLineage == Init => LineageInv
<1> SUFFICES ASSUME Init PROVE LineageInv
  OBVIOUS
<1>1. deaths \in 0..MaxDeaths
  BY LineageAssumption DEF Init
<1>2. recorded \in Seq(Successes) /\ lineage \in Seq(Relation)
  BY DEF Init
<1>3. pc \in [Drivers -> {"idle", "next", "projecting", "adding", "left"}] /\ loc \in [Drivers -> Locals]
  BY NoLocalsHold DEF Init
<1>4. NoDuplicateRelation
  BY DEF Init, NoDuplicateRelation, IsInjective
<1>5. \A d \in Drivers : Holds(pc[d], loc[d], recorded, lineage)
  BY NoLocalsHold DEF Init
<1>6. QED
  BY <1>1, <1>2, <1>3, <1>4, <1>5 DEF LineageInv, TypeOK

\* The frame of every step of a driver.
LEMMA DriverMoved ==
  ASSUME LineageInv, NEW d \in Drivers, NEW x \in Locals,
         NEW l \in {"idle", "next", "projecting", "adding", "left"},
         pc' = [pc EXCEPT ![d] = l], loc' = [loc EXCEPT ![d] = x],
         recorded' = recorded, deaths' \in 0..MaxDeaths,
         lineage' \in Seq(Relation), NoDuplicateRelation', ToSet(lineage) \subseteq ToSet(lineage'),
         Holds(l, x, recorded, lineage')
  PROVE  LineageInv'
<1>1. TypeOK /\ pc \in [Drivers -> {"idle", "next", "projecting", "adding", "left"}]
      /\ loc \in [Drivers -> Locals]
  BY DEF LineageInv, TypeOK
<1>2. TypeOK'
  BY <1>1 DEF TypeOK
<1>3. Grown
  BY DEF Grown
<1>4. ASSUME NEW c \in Drivers PROVE Holds(pc'[c], loc'[c], recorded', lineage')
  <2>1. CASE c = d
    BY <1>1, <2>1
  <2>2. CASE c # d
    <3>1. pc'[c] = pc[c] /\ loc'[c] = loc[c] /\ Holds(pc[c], loc[c], recorded, lineage)
      BY <1>1, <2>2 DEF LineageInv
    <3>2. QED
      BY <1>3, <3>1, HoldsStays
  <2>3. QED
    BY <2>1, <2>2
<1>5. QED
  BY <1>2, <1>4 DEF LineageInv

LEMMA RecordLineage == ASSUME LineageInv, NEW e \in Successes, Record(e) PROVE LineageInv'
<1>1. /\ TypeOK /\ recorded \in Seq(Successes) /\ recorded' = Append(recorded, e)
      /\ UNCHANGED <<lineage, pc, loc, deaths>>
  BY DEF LineageInv, TypeOK, Record
<1>2. recorded' \in Seq(Successes) /\ Grown
  BY <1>1, SuccessRecorded DEF Grown
<1>3. TypeOK' /\ NoDuplicateRelation'
  BY <1>1, <1>2 DEF LineageInv, TypeOK, NoDuplicateRelation
<1>4. \A d \in Drivers : Holds(pc[d], loc[d], recorded', lineage')
  BY <1>2, HoldsStays DEF LineageInv
<1>5. QED
  BY <1>1, <1>3, <1>4 DEF LineageInv

LEMMA DriverLineage ==
  ASSUME LineageInv, NEW d \in Drivers,
         Step(d) \/ Again(d) \/ Die(d) \/ \E r \in Runs : Open(d, r)
  PROVE  LineageInv'
<1> USE DEF Goto
<1>1. /\ TypeOK /\ NoDuplicateRelation /\ Holds(pc[d], loc[d], recorded, lineage)
      /\ recorded \in Seq(Successes) /\ lineage \in Seq(Relation)
      /\ loc \in [Drivers -> Locals] /\ loc[d] \in Locals /\ deaths \in 0..MaxDeaths
      /\ pc \in [Drivers -> {"idle", "next", "projecting", "adding", "left"}]
      /\ recorded' = recorded
  BY DEF LineageInv, TypeOK, Step, Again, Die, Open, Register, LookRaises, AddRelation, AddRaises,
         FinishEvent, Reconciled, Leave, Look
<1>2. CASE ~AddRelation(d)
  <2>1. lineage' = lineage /\ NoDuplicateRelation'
    BY <1>1, <1>2
       DEF Step, Again, Die, Open, Register, LookRaises, AddRaises, FinishEvent, Reconciled, Leave,
           Look, NoDuplicateRelation
  <2>2. ASSUME NEW x \in Locals, NEW l \in {"idle", "next", "projecting", "adding", "left"},
               pc' = [pc EXCEPT ![d] = l], loc' = [loc EXCEPT ![d] = x], deaths' = deaths,
               Holds(l, x, recorded, lineage)
        PROVE  LineageInv'
    BY <1>1, <2>1, <2>2, DriverMoved
  <2>3. \A r \in Runs : Snapshot(r) \subseteq DOMAIN recorded /\ Snapshot(r) \subseteq Nat
    BY <1>1 DEF Snapshot
  <2>4. ASSUME NEW r \in Runs, Open(d, r) PROVE LineageInv'
    <3> DEFINE x == [NoLocals EXCEPT !.run = r, !.events = Snapshot(r), !.todo = Snapshot(r)]
    <3>1. x \in Locals /\ x.events = Snapshot(r) /\ x.todo = Snapshot(r)
      BY <2>3, NoLocalsHold DEF Locals
    <3>2. pc' = [pc EXCEPT ![d] = "next"] /\ loc' = [loc EXCEPT ![d] = x] /\ deaths' = deaths
      BY <2>4 DEF Open
    <3> HIDE DEF x
    <3>3. Holds("next", x, recorded, lineage)
      BY <2>3, <3>1 DEF Holds
    <3>4. QED
      BY <2>2, <3>1, <3>2, <3>3
  <2>5. CASE Register(d)
    <3>1. PICK i \in loc[d].todo :
            LET e == recorded[i]
                hydrated == IF loc[d].strict THEN {} ELSE Identities(ToSet(lineage))
            IN loc' = [loc EXCEPT ![d].known = @ \cup hydrated \cup {e.step} \cup e.inputs \cup e.outputs,
                                  ![d].strict = TRUE, ![d].at = i,
                                  ![d].due = Projection(e)]
      BY <2>5 DEF Register, First
    <3>2. i \in Nat /\ recorded[i] \in Successes
      BY <1>1 DEF Locals, Holds
    <3> DEFINE e == recorded[i]
               known == loc[d].known \cup (IF loc[d].strict THEN {} ELSE Identities(ToSet(lineage)))
                          \cup {e.step} \cup e.inputs \cup e.outputs
               x == [loc[d] EXCEPT !.known = known, !.strict = TRUE, !.at = i, !.due = Projection(e)]
    <3>3. known \subseteq Identity
      BY <1>1, <3>2, IdentitiesTyped, SuccessTyped DEF Locals
    <3>4. Projection(e) \subseteq Relation
      BY <3>2, ProjectionTyped
    <3>5. loc' = [loc EXCEPT ![d] = x]
      BY <1>1, <3>1
    <3> HIDE DEF known, e
    <3>6. /\ x \in Locals /\ x.events = loc[d].events /\ x.todo = loc[d].todo /\ x.at = i
          /\ x.due = Projection(e)
      BY <1>1, <3>2, <3>3, <3>4 DEF Locals
    <3> HIDE DEF x
    <3>7. Holds("projecting", x, recorded, lineage)
      BY <1>1, <3>1, <3>6 DEF Holds, e
    <3>8. pc' = [pc EXCEPT ![d] = "projecting"] /\ deaths' = deaths
      BY <2>5 DEF Register
    <3>9. QED
      BY <2>2, <3>5, <3>6, <3>7, <3>8
  <2>6. ASSUME NEW r \in loc[d].due, Look(d, r) PROVE LineageInv'
    <3>1. pc[d] = "projecting" /\ deaths' = deaths /\ r \in Relation
      BY <1>1, <2>6 DEF Look, Locals
    <3>2. CASE r \in ToSet(lineage)
      <4> DEFINE x == [loc[d] EXCEPT !.due = loc[d].due \ {r}]
      <4>1. /\ x \in Locals /\ x.events = loc[d].events /\ x.todo = loc[d].todo /\ x.at = loc[d].at
            /\ x.due = loc[d].due \ {r}
        BY <1>1 DEF Locals
      <4>2. pc' = [pc EXCEPT ![d] = "projecting"] /\ loc' = [loc EXCEPT ![d] = x]
        BY <1>1, <2>6, <3>1, <3>2 DEF Look
      <4> HIDE DEF x
      <4>3. Holds("projecting", x, recorded, lineage)
        BY <1>1, <3>1, <3>2, <4>1 DEF Holds
      <4>4. QED
        BY <2>2, <3>1, <4>1, <4>2, <4>3
    <3>3. CASE r \notin ToSet(lineage)
      <4> DEFINE x == [loc[d] EXCEPT !.due = loc[d].due \ {r}, !.adding = r]
      <4>1. /\ x \in Locals /\ x.events = loc[d].events /\ x.todo = loc[d].todo /\ x.at = loc[d].at
            /\ x.due = loc[d].due \ {r} /\ x.adding = r
        BY <1>1, <3>1 DEF Locals
      <4>2. pc' = [pc EXCEPT ![d] = "adding"] /\ loc' = [loc EXCEPT ![d] = x]
        BY <1>1, <2>6, <3>3 DEF Look
      <4> HIDE DEF x
      <4>3. Holds("adding", x, recorded, lineage)
        BY <1>1, <3>1, <4>1 DEF Holds
      <4>4. QED
        BY <2>2, <3>1, <4>1, <4>2, <4>3
    <3>4. QED
      BY <3>2, <3>3
  <2>7. CASE LookRaises(d) \/ AddRaises(d)
    <3> DEFINE x == [loc[d] EXCEPT !.failed = TRUE]
    <3>1. x \in Locals /\ x.events = loc[d].events /\ x.todo = loc[d].todo /\ x.failed = TRUE
      BY <1>1 DEF Locals
    <3>2. pc' = [pc EXCEPT ![d] = "left"] /\ loc' = [loc EXCEPT ![d] = x] /\ deaths' = deaths
      BY <1>1, <2>7 DEF LookRaises, AddRaises, Raise
    <3> HIDE DEF x
    <3>3. Holds("left", x, recorded, lineage)
      BY <1>1, <3>1 DEF Holds
    <3>4. QED
      BY <2>2, <3>1, <3>2, <3>3
  <2>8. CASE FinishEvent(d)
    <3> DEFINE x == [loc[d] EXCEPT !.todo = loc[d].todo \ {loc[d].at}, !.at = 0]
    <3>1. x \in Locals /\ x.events = loc[d].events /\ x.todo = loc[d].todo \ {loc[d].at}
      BY <1>1 DEF Locals
    <3>2. pc' = [pc EXCEPT ![d] = "next"] /\ loc' = [loc EXCEPT ![d] = x] /\ deaths' = deaths
      BY <1>1, <2>8 DEF FinishEvent
    <3>3. Projection(recorded[loc[d].at]) \subseteq ToSet(lineage)
      BY <1>1, <2>8 DEF FinishEvent, Holds
    <3> HIDE DEF x
    <3>4. Holds("next", x, recorded, lineage)
      BY <1>1, <3>1, <3>3 DEF Holds
    <3>5. QED
      BY <2>2, <3>1, <3>2, <3>4
  <2>9. CASE Reconciled(d)
    <3>1. /\ pc' = [pc EXCEPT ![d] = "left"] /\ loc' = [loc EXCEPT ![d] = loc[d]]
          /\ deaths' = deaths /\ loc[d].todo = {}
      BY <1>1, <2>9 DEF Reconciled
    <3>2. Holds("left", loc[d], recorded, lineage)
      BY <1>1, <3>1 DEF Holds
    <3>3. QED
      BY <1>1, <2>2, <3>1, <3>2
  <2>10. CASE Again(d)
    <3> DEFINE s == Snapshot(loc[d].run)
               x == [loc[d] EXCEPT !.events = s, !.todo = s]
    <3>1. s \subseteq DOMAIN recorded /\ s \subseteq Nat
      BY <1>1 DEF Snapshot
    <3> HIDE DEF s
    <3>2. x \in Locals /\ x.events = s /\ x.todo = s
      BY <1>1, <3>1 DEF Locals
    <3>3. pc' = [pc EXCEPT ![d] = "next"] /\ loc' = [loc EXCEPT ![d] = x] /\ deaths' = deaths
      BY <1>1, <2>10 DEF Again, s
    <3> HIDE DEF x
    <3>4. Holds("next", x, recorded, lineage)
      BY <3>1, <3>2 DEF Holds
    <3>5. QED
      BY <2>2, <3>2, <3>3, <3>4
  <2>11. CASE Leave(d)
    <3>1. pc' = [pc EXCEPT ![d] = "idle"] /\ loc' = [loc EXCEPT ![d] = NoLocals] /\ deaths' = deaths
      BY <2>11 DEF Leave
    <3>2. QED
      BY <2>2, <3>1, NoLocalsHold
  <2>12. CASE Die(d)
    <3>1. /\ pc' = [pc EXCEPT ![d] = "idle"] /\ loc' = [loc EXCEPT ![d] = NoLocals]
          /\ deaths' = deaths + 1 /\ deaths < MaxDeaths
      BY <2>12 DEF Die
    <3>2. deaths' \in 0..MaxDeaths
      BY <1>1, <3>1, LineageAssumption
    <3>3. QED
      BY <1>1, <2>1, <3>1, <3>2, NoLocalsHold, DriverMoved
  <2>13. QED
    BY <1>2, <2>4, <2>5, <2>6, <2>7, <2>8, <2>9, <2>10, <2>11, <2>12 DEF Step
<1>3. CASE AddRelation(d)
  <2> DEFINE x == [loc[d] EXCEPT !.adding = None]
  <2>1. /\ pc[d] = "adding" /\ lineage' = Append(lineage, loc[d].adding) /\ deaths' = deaths
        /\ loc[d].adding \notin ToSet(lineage)
    BY <1>3 DEF AddRelation, Refused
  <2>2. /\ x \in Locals /\ x.events = loc[d].events /\ x.todo = loc[d].todo /\ x.at = loc[d].at
        /\ x.due = loc[d].due
    BY <1>1 DEF Locals
  <2>3. pc' = [pc EXCEPT ![d] = "projecting"] /\ loc' = [loc EXCEPT ![d] = x]
    BY <1>1, <1>3 DEF AddRelation
  <2>4. loc[d].adding \in Relation
    BY <1>1, <2>1 DEF Holds
  <2>5. /\ lineage' \in Seq(Relation) /\ NoDuplicateRelation'
        /\ ToSet(lineage') = ToSet(lineage) \cup {loc[d].adding}
    BY <1>1, <2>1, <2>4, LineAdded
  <2> HIDE DEF x
  <2>6. Holds("projecting", x, recorded, lineage')
    BY <1>1, <2>1, <2>2, <2>5 DEF Holds
  <2>7. QED
    BY <1>1, <2>1, <2>2, <2>3, <2>5, <2>6, DriverMoved
<1>4. QED
  BY <1>2, <1>3

LEMMA NextLineage == LineageInv /\ [Next]_vars => LineageInv'
<1> SUFFICES ASSUME LineageInv, [Next]_vars PROVE LineageInv'
  OBVIOUS
<1>1. CASE Next
  BY <1>1, RecordLineage, DriverLineage DEF Next
<1>2. CASE UNCHANGED vars
  BY <1>2 DEF vars, LineageInv, TypeOK, NoDuplicateRelation
<1>3. QED
  BY <1>1, <1>2

-----------------------------------------------------------------------------

\* Whoever races and whoever dies between two appends: no relation is in
\* lineage.jsonl twice, and a reconciliation that ends without raising has left
\* nothing of its snapshot out (_reconcile_success_lineage, add_relation).
THEOREM FileStaysSound == Spec => []FileSound
<1>1. LineageInv => FileSound
  <2> SUFFICES ASSUME LineageInv PROVE ReconciledIsComplete
    BY DEF LineageInv, FileSound
  <2>1. QED
    BY DEF LineageInv, Holds, ReconciledIsComplete
<1>2. QED
  BY <1>1, InitLineage, NextLineage, PTL DEF Spec

=============================================================================
