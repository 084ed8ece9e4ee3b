------------------------------ MODULE MCBr1Plans ------------------------------
(* Small instances of Br1Plans for TLC. *)
EXTENDS Br1Plans, TLC

CONSTANTS q1, q2, p1, p2, v1, v2, x1, x2, g1, g2, i1, i2

TwoRequests == {q1, q2}
OneRef == {p1}
TwoRefs == {p1, p2}
TwoProfiles == {v1, v2}
TwoRuntimes == {x1, x2}
OneCompiles == {x1}
OneGoal == {g1}
TwoGoals == {g1, g2}
OneIntent == {i1}

\* All of these are only compared for equality.
Symmetric == Permutations(Requests) \cup Permutations(Refs) \cup Permutations(Profiles)
               \cup Permutations(Goals)

=============================================================================
