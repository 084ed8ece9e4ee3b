----------------------------- MODULE MCHostGates -----------------------------
(* Small instances of HostGates for TLC. *)
EXTENDS HostGates, TLC

CONSTANTS t1, t2, quick, slow

TwoThreads == {t1, t2}
BothProviders == {quick, slow}
Intervals == [p \in BothProviders |-> IF p = slow THEN 2 ELSE 1]
OneSlotEach == [p \in BothProviders |-> 1]
SomeDelays == {0, 1}

\* Threads are only compared with each other.
Symmetric == Permutations(Threads)

=============================================================================
