-------------------------- MODULE MCArtifactLineage --------------------------
(* Small instances of ArtifactLineage for TLC. *)
EXTENDS ArtifactLineage

CONSTANTS d1, d2, r1, r2, s1, s2, s3, a1, a2

TwoDrivers == {d1, d2}
TwoRuns == {r1, r2}
AllSteps == {s1, s2, s3}
AllArtifacts == {a1, a2}

Success(r, s, ins, outs) == [run |-> r, step |-> s, inputs |-> ins, outputs |-> outs]

\* Run r1 makes a1 and then uses it; run r2 makes a2.
Narrow == {Success(r1, s1, {}, {a1}), Success(r1, s2, {a1}, {}), Success(r2, s3, {}, {a2})}

=============================================================================
