----------------------- MODULE MCFullTextAcquisition -----------------------
(* Small instances of FullTextAcquisition for TLC. *)
EXTENDS FullTextAcquisition, TLC

CONSTANTS c1, c2, m1, m2, s1, b1, b2, t1, t2

TwoCallers == {c1, c2}
TwoMedia == {m1, m2}
OneSchema == {s1}
TwoBodies == {b1, b2}
TwoStamps == {t1, t2}
Types == t1 :> m1 @@ t2 :> m2

\* Callers and bodies are only compared for equality.
Symmetric == Permutations(Callers) \cup Permutations(Bodies)

=============================================================================
