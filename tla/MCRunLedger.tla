----------------------------- MODULE MCRunLedger -----------------------------
(* Small instances of RunLedger for TLC. *)
EXTENDS RunLedger

CONSTANTS p1, p2, x1, x2, x3

TwoProcesses == {p1, p2}
ThreeIds == {x1, x2, x3}

=============================================================================
