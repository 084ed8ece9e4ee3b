------------------------------ MODULE MCWebRuns ------------------------------
(* Small instances of WebRuns for TLC. *)
EXTENDS WebRuns, TLC

CONSTANTS r1, r2, q1, q2, w1, w2

OneRun == {r1}
TwoRuns == {r1, r2}
TwoRequests == {q1, q2}
OneRequest == {q1}
OneWorker == {w1}
TwoWorkers == {w1, w2}

\* Threads and runs are only compared with each other.
Symmetric == Permutations(Requests) \cup Permutations(Workers)

=============================================================================
