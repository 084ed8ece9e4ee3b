---------------------------- MODULE MCBr1Science ----------------------------
EXTENDS Br1Science, TLC
CONSTANTS d1, d2, s1, s2, x, y, z, c1, c2

TwoDocuments == {d1, d2}
Sources == d1 :> s1 @@ d2 :> s2
Places == d1 :> {1, 2, 3} @@ d2 :> {1}
LongOnes == {}
Fields == {"molecule_identity", "property_id", "property_value", "unit", "measurement_condition"}
All(c) == [field : Fields, candidate : {c}]
Record(i, m, v, u, c, e) == [id |-> i, molecule |-> m, resolved |-> TRUE, value |-> v, unit |-> u,
                     claims |-> None, condition |-> c, evidence |-> e]
Good(i, v) == Record(i, x, v, "fraction", c1, All(Candidate(d1, 1)))
Also(r) == {Good(1, 640), r}
Answers == <<
  {},
  {Good(1, 655), Good(2, 640), Good(3, 670)},
  {Good(1, 640), Good(2, 640), Good(3, 655)},
  Also(Record(2, x, 67000, "percent", c1, All(Candidate(d1, 2)))),
  Also(Record(2, x, 67000, "percent", c2, All(Candidate(d1, 2)))),
  Also(Record(2, y, 640, "other", c1, All(Candidate(d1, 1)))),
  Also([Record(2, x, 670, "other", c1, All(Candidate(d1, 1))) EXCEPT !.claims = "NORMALIZED"]),
  Also([Good(2, 640) EXCEPT !.resolved = FALSE]),
  Also([Good(2, 640) EXCEPT !.condition = "UNKNOWN"]),
  Also(Record(2, None, 640, "fraction", None, All(Candidate(d1, 1)))),
  Also([Good(2, 640) EXCEPT !.evidence = {e \in @ : e.field # "unit"}]),
  Also(Record(2, y, 640, "fraction", c1, All(Candidate(d1, 3)))),
  {Record(1, y, 640, "fraction", c1, All(Candidate(d2, 1)))} >>
Names == DOMAIN Answers

BothWays == {[target |-> "homo_lumo_gap", direction |-> "MAX"],
             [target |-> "quantum_yield", direction |-> "MIN"]}
Raw(m, col, orb) == [shaped |-> TRUE, smiles |-> m, column |-> col, orbitals |-> orb]
Kinds == {
  [Raw(x, 1, None) EXCEPT !.shaped = FALSE],
  Raw(None, 1, None),
  Raw(x, 1, None),
  Raw(x, None, None),
  Raw(x, None, [occupied |-> 1, unoccupied |-> 3]),
  Raw(y, 2, None) }
Uploaded == UNION {[1..n -> Kinds] : n \in 1..3}
NoMolecules == {x}
Batches == {<<x, y, x>>, <<None, x>>, <<z, y, x>>, <<y, y>>}
Values == 0..1
=============================================================================
