---------------------------- MODULE MCBr1Workflow ----------------------------
(* Small instances of Br1Workflow for TLC. *)
EXTENDS Br1Workflow, TLC

CONSTANTS d1, d2, rAsk, rPlan, p1, sA, sB, sBad

TwoDrivers == {d1, d2}
\* One run may be asked for with a plan that was confirmed, and without.
TwoRequests == {rAsk, rPlan}
Plans == [r \in {rAsk, rPlan} |-> IF r = rPlan THEN sA ELSE None]
OneApprovalId == {p1}
ThreeSpecs == {sA, sB, sBad}
TwoSpecs == {sA, sB}

Upload == [kind |-> "uploaded", of |-> {}, by |-> 0]
Uploads == {Upload}

\* Drivers are only compared with each other.
Symmetric == Permutations(Drivers)

=============================================================================
