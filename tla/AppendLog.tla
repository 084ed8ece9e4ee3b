------------------------------ MODULE AppendLog ------------------------------
(***************************************************************************)
(* What the persisted Core logs promise their callers: facts with unique   *)
(* ids are only ever added at the end, and a fact whose append returned is *)
(* never lost, whatever stops in between.  RunLedger implements it.        *)
(***************************************************************************)
EXTENDS Sequences, SequencesExt

CONSTANT Ids

VARIABLES
  log,     \* ids of the recorded facts, oldest first
  acked    \* ids whose append has returned to its caller

vars == <<log, acked>>

Init == log = <<>> /\ acked = {}

Add ==
  /\ \E x \in Ids \ ToSet(log) : log' = Append(log, x)
  /\ UNCHANGED acked

Acknowledge ==
  /\ \E x \in ToSet(log) : acked' = acked \cup {x}
  /\ UNCHANGED log

\* A stop of the machine may lose a suffix nobody was told of.
Lose ==
  /\ IsPrefix(log', log)
  /\ acked \subseteq ToSet(log')
  /\ UNCHANGED acked

Next == Add \/ Acknowledge \/ Lose

Spec == Init /\ [][Next]_vars

=============================================================================
