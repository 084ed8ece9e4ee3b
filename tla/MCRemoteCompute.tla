--------------------------- MODULE MCRemoteCompute ---------------------------
(* Small instances of RemoteCompute for TLC. *)
EXTENDS RemoteCompute, TLC

CONSTANTS c1, c2, c3, t1, t2, o1, o2

ThreeCallers == {c1, c2, c3}
TwoTasks == {t1, t2}
TwoOutputs == {o1, o2}

\* Callers, tasks and outputs are only compared with each other.
Symmetric == Permutations(Callers) \cup Permutations(Tasks) \cup Permutations(Outputs)

=============================================================================
