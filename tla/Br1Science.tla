----------------------------- MODULE Br1Science -----------------------------
(***************************************************************************)
(* plugins/br1_inverse_design, the data: one run from its dataset, which   *)
(* is a file somebody uploaded or a dataset that came out of the evidence  *)
(* review, to the ranked list.  Cleaning and ranking run in the host; to   *)
(* train, to generate and to predict are commands on another machine, over *)
(* a connection that may fail and with a time limit at either end.         *)
(*                                                                         *)
(* Which stage may run when, and on whose artifacts, is Br1Workflow; that  *)
(* a stage's job is dispatched once is RemoteCompute.  Here a stage that   *)
(* fails ends the run.  Products that no later stage reads are forgotten.  *)
(***************************************************************************)
EXTENDS EvidenceReview, Sequences, SequencesExt

CONSTANTS
  Aims,            \* targets and directions a run may have
  Uploads,         \* sequences of raw records
  MaxRows,         \* max_rows
  Unparsable,      \* SMILES the chemistry library refuses
  CandidateCount, TopN,
  Samples,         \* batches the generator may write: molecules, or None for no molecule
  MaxAttempts,     \* max_attempts
  Scores,          \* finite values the predictor may return
  Walltime, ConnectTimeout, KillGrace, Margin  \* in ticks of one clock

ASSUME ScienceAssumption ==
  /\ Aims \subseteq [target : {"quantum_yield", "homo_lumo_gap"}, direction : {"MAX", "MIN"}]
  /\ MaxRows \in Nat \ {0} /\ MaxAttempts \in Nat \ {0}
  /\ CandidateCount \in Nat /\ TopN \in 1..CandidateCount
  /\ Scores \subseteq Int
  /\ \A upload \in Uploads : upload \in Seq(Range(upload)) /\ \A r \in Range(upload) : r.shaped \in BOOLEAN
  /\ \A batch \in Samples : batch \in Seq(Range(batch))
  /\ {Walltime, ConnectTimeout, KillGrace, Margin} \subseteq Nat \ {0}

VARIABLES
  aim,        \* the target property and the direction
  raw,        \* the upload, or None for a reviewed dataset
  phase,      \* the stage that is to be done, or how the run ended
  cleaned,    \* prepare's result
  candidates, \* in the order they were found
  predictions,
  top,
  local,      \* what the host waits for in a remote stage, and how long already
  remote      \* the command on the other machine: state, time, and its work so far

science == <<aim, raw, phase, cleaned, candidates, predictions, top, local, remote>>
both == <<store, science>>

NoWait == [step |-> "none", elapsed |-> 0]
NoCommand == [state |-> "none", elapsed |-> 0, attempts |-> 0, found |-> <<>>, scores |-> <<>>]

Upload == raw # None
RemoteStages == {"train", "generate", "predict"}
Ends == {"done", "failed"}

\* SUPPORTED_PROPERTIES of the OLED domain.
OledProperty == "PLQY"

ScienceInit ==
  /\ aim \in Aims
  /\ \/ raw \in Uploads /\ phase = "prepare" /\ store = {}
     \/ raw = None /\ phase = "preflight" /\ EvidenceInit
  /\ cleaned = None /\ candidates = <<>> /\ predictions = <<>> /\ top = <<>>
  /\ local = NoWait /\ remote = NoCommand

-----------------------------------------------------------------------------
(* Cleaning *)

\* A gap is computed from the orbitals and read from its column without them.  A
\* cell that is missing, no number or not finite is None.
Value(r) ==
  IF aim.target = "homo_lumo_gap" /\ r.orbitals # None
  THEN r.orbitals.unoccupied - r.orbitals.occupied
  ELSE r.column

Finite(r) == Value(r) # None

Row0 == [rows |-> <<>>, seen |-> {}, invalid |-> 0, duplicates |-> 0]

Bug_SeenBeforeRead(sofar, r) ==
  CASE ~r.shaped \/ r.smiles = None -> [sofar EXCEPT !.invalid = @ + 1]
    [] r.shaped /\ r.smiles # None /\ r.smiles \in sofar.seen -> [sofar EXCEPT !.duplicates = @ + 1]
    [] OTHER ->
         IF Finite(r) THEN [sofar EXCEPT !.rows = Append(@, [smiles |-> r.smiles, value |-> Value(r)]),
                                         !.seen = @ \cup {r.smiles}]
         ELSE [sofar EXCEPT !.invalid = @ + 1, !.seen = @ \cup {r.smiles}]

\* One turn of the loop: the first check that fails counts the record.
CleanOne(sofar, r) ==
  CASE ~r.shaped \/ r.smiles = None \/ ~Finite(r) -> [sofar EXCEPT !.invalid = @ + 1]
    [] r.shaped /\ r.smiles # None /\ Finite(r) /\ r.smiles \in sofar.seen ->
         [sofar EXCEPT !.duplicates = @ + 1]
    [] OTHER -> [sofar EXCEPT !.rows = Append(@, [smiles |-> r.smiles, value |-> Value(r)]),
                              !.seen = @ \cup {r.smiles}]

Considered == SubSeq(raw, 1, Min({MaxRows, Len(raw)}))

\* prepare_raw_dataset: no usable row and the stage fails.
PrepareUpload ==
  /\ phase = "prepare"
  /\ LET result == FoldLeft(CleanOne, Row0, Considered)
     IN IF result.rows = <<>> THEN phase' = "failed" /\ UNCHANGED cleaned
        ELSE /\ cleaned' = [rows |-> result.rows, invalid |-> result.invalid,
                            duplicates |-> result.duplicates, truncated |-> Len(raw) - Len(Considered)]
             /\ phase' = "preflight"
  /\ UNCHANGED <<aim, raw, candidates, predictions, top, local, remote>>

\* ApplicabilityService and DatasetGate: rows of another property are not rows of
\* the target.  Cleaning gives every row the target and a finite value.
PreflightUpload ==
  /\ phase = "preflight" /\ Upload
  /\ phase' = "train"
  /\ UNCHANGED <<aim, raw, cleaned, candidates, predictions, top, local, remote>>

PreflightReviewed ==
  /\ phase = "preflight" /\ ~Upload
  /\ \E d \in Of("dataset") :
       phase' = IF d.rows # {} /\ OledProperty = aim.target THEN "train" ELSE "failed"
  /\ UNCHANGED <<aim, raw, cleaned, candidates, predictions, top, local, remote>>

-----------------------------------------------------------------------------
(* A remote stage: the host's side *)

Steps == <<"directory", "upload", "command", "fetch output", "fetch report">>

Bug_NoGrace == Walltime + ConnectTimeout + Margin

\* _subprocess_timeout_sec.
LocalLimit == Walltime + ConnectTimeout + KillGrace + Margin

Wait(step) == local' = [step |-> step, elapsed |-> 0]

BeginStage ==
  /\ phase \in RemoteStages /\ local.step = "none"
  /\ Wait("directory") /\ remote' = NoCommand
  /\ UNCHANGED <<aim, raw, phase, cleaned, candidates, predictions, top>>

Transfer ==
  /\ local.step \in {"directory", "upload", "fetch output"}
  /\ Wait(Steps[1 + CHOOSE i \in 1..4 : Steps[i] = local.step])
  /\ UNCHANGED <<aim, raw, phase, cleaned, candidates, predictions, top, remote>>

\* ssh or scp ends with a status that is not zero, or the command is not a success:
\* nothing of the stage is published.
Fail ==
  /\ phase' = "failed" /\ local' = NoWait
  /\ UNCHANGED <<aim, raw, cleaned, candidates, predictions, top, remote>>

TransferFails == local.step \notin {"none", "command"} /\ Fail

\* ssh cannot reach the machine, or sees that the connection is dead: three probes
\* are not answered.  A command that was started is left running.
ConnectionLost == local.step = "command" /\ Fail

\* ConnectTimeout.
Refused ==
  local.step = "command" /\ remote.state = "none" /\ local.elapsed = ConnectTimeout /\ Fail

CommandFails == local.step = "command" /\ remote.state = "broken" /\ Fail

\* asyncio.wait_for: the local ssh is killed.
TimedOut == local.step = "command" /\ local.elapsed = LocalLimit /\ Fail

CommandReturns ==
  /\ local.step = "command" /\ remote.state = "done"
  /\ Wait("fetch output")
  /\ UNCHANGED <<aim, raw, phase, cleaned, candidates, predictions, top, remote>>

\* Both files are there: the stage's artifacts are published in one call.
StageEnds ==
  /\ local.step = "fetch report"
  /\ local' = NoWait
  /\ CASE phase = "train" ->
            phase' = "generate" /\ raw' = <<>> /\ cleaned' = None /\ UNCHANGED <<candidates, predictions>>
       [] phase = "generate" ->
            phase' = "predict" /\ candidates' = remote.found /\ UNCHANGED <<raw, cleaned, predictions>>
       [] phase = "predict" ->
            /\ phase' = "evaluate" /\ UNCHANGED <<raw, cleaned, candidates>>
            /\ predictions' = [i \in 1..Len(candidates) |->
                                 [id |-> candidates[i].id, molecule |-> candidates[i].molecule,
                                  value |-> remote.scores[i]]]
  /\ remote' = NoCommand
  /\ UNCHANGED <<aim, top>>

-----------------------------------------------------------------------------
(* A remote stage: the other machine *)

Rest == <<aim, raw, phase, cleaned, candidates, predictions, top, local>>

\* ConnectTimeout bounds how late the command starts.
CommandStarts ==
  /\ local.step = "command" /\ remote.state = "none"
  /\ remote' = [NoCommand EXCEPT !.state = "running"]
  /\ UNCHANGED Rest

Running == remote.state = "running"
Ended(how) == remote' = [remote EXCEPT !.state = how]

\* Training keeps the molecules the library can parse and needs one.
Trained ==
  /\ Running /\ phase = "train"
  /\ Ended(IF \E r \in Range(cleaned.rows) : r.smiles \notin Unparsable THEN "done" ELSE "broken")
  /\ UNCHANGED Rest

Bug_KeepsRepeats(found, m) ==
  IF m = None \/ Len(found) = CandidateCount THEN found ELSE Append(found, m)

\* One line of the generator's file.
Keep(found, m) ==
  IF m = None \/ m \in Range(found) \/ Len(found) = CandidateCount THEN found ELSE Append(found, m)

Attempt ==
  /\ Running /\ phase = "generate"
  /\ Len(remote.found) < CandidateCount /\ remote.attempts < MaxAttempts
  /\ \E batch \in Samples :
       remote' = [remote EXCEPT !.attempts = @ + 1, !.found = FoldLeft(Keep, @, batch)]
  /\ UNCHANGED Rest

\* Fewer than were asked for is a failure.
Enough == Len(remote.found) >= CandidateCount

\* A candidate's identifier is a digest, so identifiers come in any order.
Generated ==
  /\ Running /\ phase = "generate"
  /\ Len(remote.found) = CandidateCount \/ remote.attempts = MaxAttempts
  /\ IF ~Enough THEN Ended("broken")
     ELSE \E ids \in SetToSeqs(1..Len(remote.found)) :
            remote' = [remote EXCEPT !.state = "done", !.attempts = 0,
              !.found = [i \in DOMAIN @ |-> [id |-> ids[i], molecule |-> @[i]]]]
  /\ UNCHANGED Rest

\* One score for each row, by position, or the command fails.
Predicted ==
  /\ Running /\ phase = "predict"
  /\ \E scores \in [1..Len(candidates) -> Scores] :
       remote' = [remote EXCEPT !.state = "done", !.scores = scores]
  /\ UNCHANGED Rest

\* A script raises: a file is missing, the library fails, scores are too few or
\* not finite.  Or it ends, however, when nobody waits for it any more.
CommandBreaks == Running /\ Ended("broken") /\ UNCHANGED Rest

Bug_BareCommand == FALSE

\* _render_remote_command puts every command under timeout(1).
Wrapped == TRUE

\* timeout --signal=TERM --kill-after: the first signal a command may survive.
Terminated == Wrapped /\ Running /\ remote.elapsed >= Walltime /\ Ended("broken") /\ UNCHANGED Rest
Overdue == Wrapped /\ Running /\ remote.elapsed >= Walltime + KillGrace

\* Time passes, up to what is due.
Tick ==
  /\ Running \/ local.step = "command"
  /\ ~Overdue
  /\ local.step = "command" =>
       /\ local.elapsed < LocalLimit
       /\ remote.state = "none" => local.elapsed < ConnectTimeout
  /\ remote' = IF Running THEN [remote EXCEPT !.elapsed = Min({@ + 1, LocalLimit})] ELSE remote
  /\ local' = IF local.step = "command" THEN [local EXCEPT !.elapsed = @ + 1] ELSE local
  /\ UNCHANGED <<aim, raw, phase, cleaned, candidates, predictions, top>>

-----------------------------------------------------------------------------
(* The ranked list *)

Bug_AlwaysUpwards(a, b) == a.value < b.value \/ (a.value = b.value /\ a.id < b.id)

Before(a, b) ==
  \/ a.value = b.value /\ a.id < b.id
  \/ IF aim.direction = "MAX" THEN a.value > b.value ELSE a.value < b.value

\* TopNEvaluationService.run: sorted, and cut.
Evaluate ==
  /\ phase = "evaluate"
  /\ \E ranked \in SetToSeqs(Range(predictions)) :
       /\ \A i, j \in DOMAIN ranked : i < j => Before(ranked[i], ranked[j])
       /\ top' = SubSeq(ranked, 1, Min({TopN, Len(predictions)}))
  /\ phase' = "done"
  /\ UNCHANGED <<aim, raw, cleaned, candidates, predictions, local, remote>>

-----------------------------------------------------------------------------

Host ==
  \/ PrepareUpload \/ PreflightUpload \/ PreflightReviewed \/ Evaluate
  \/ BeginStage \/ Transfer \/ TransferFails \/ StageEnds
  \/ ConnectionLost \/ Refused \/ CommandFails \/ TimedOut \/ CommandReturns

Machine ==
  \/ CommandStarts \/ Trained \/ Attempt \/ Generated \/ Predicted \/ CommandBreaks \/ Terminated

ScienceNext ==
  \/ (Host \/ Machine \/ Tick) /\ UNCHANGED store
  \/ ~Upload /\ phase = "preflight" /\ EvidenceNext /\ UNCHANGED science

\* The host goes on, time passes and what is due by then happens; a transfer, which
\* has a time limit too (_run_checked), ends well or not.  The command, the
\* connection it runs on and the people owe nothing.
Due == Refused \/ TimedOut \/ (Overdue /\ Terminated)

Fairness ==
  /\ WF_both((PrepareUpload \/ PreflightUpload \/ BeginStage \/ Transfer \/ TransferFails
              \/ StageEnds \/ Evaluate) /\ UNCHANGED store)
  /\ WF_both(Due /\ UNCHANGED store)
  /\ WF_both(Tick /\ UNCHANGED store)

ScienceSpec == ScienceInit /\ [][ScienceNext]_both /\ Fairness

-----------------------------------------------------------------------------
(* Properties *)

\* The cleaned rows are, in source order, the first usable record of every SMILES,
\* and the report accounts for each of the others exactly once: an unusable record
\* neither hides a later good one nor is counted as its duplicate
\* (prepare_raw_dataset).
CleaningAccounts ==
  cleaned # None =>
    LET usable == {i \in 1..Min({MaxRows, Len(raw)}) :
                     raw[i].shaped /\ raw[i].smiles # None /\ Finite(raw[i])}
        first == {i \in usable : \A j \in usable : j < i => raw[j].smiles # raw[i].smiles}
    IN /\ Len(cleaned.rows) = Cardinality(first)
       /\ \A i \in first : cleaned.rows[Cardinality({j \in first : j <= i})] =
                             [smiles |-> raw[i].smiles, value |-> Value(raw[i])]
       /\ cleaned.duplicates = Cardinality(usable \ first)
       /\ Len(cleaned.rows) + cleaned.duplicates + cleaned.invalid + cleaned.truncated = Len(raw)

\* What is predicted and ranked is exactly as many molecules as were asked for, no
\* two the same, however many attempts that took and whatever the generator repeated
\* (the generation script).
CandidatesExact ==
  candidates # <<>> =>
    /\ Len(candidates) = CandidateCount
    /\ \A i, j \in DOMAIN candidates : i # j =>
         candidates[i].molecule # candidates[j].molecule /\ candidates[i].id # candidates[j].id

\* Of those the list is the best: nothing left out is better than anything
\* kept, in the direction that was asked for, and what is equally good is told apart
\* by its identifier, so the list depends on the predictions alone (TopNEvaluationService).
RankingExact ==
  phase = "done" =>
    LET at == [i \in DOMAIN top |-> IF aim.direction = "MAX" THEN -top[i].value ELSE top[i].value]
        cost(p) == IF aim.direction = "MAX" THEN -p.value ELSE p.value
    IN /\ Len(top) = TopN
       /\ \A i, j \in DOMAIN top : i < j =>
            at[i] < at[j] \/ (at[i] = at[j] /\ top[i].id < top[j].id)
       /\ \A p \in Range(predictions) \ Range(top) : \A i \in DOMAIN top :
            at[i] < cost(p) \/ (at[i] = cost(p) /\ top[i].id < p.id)

\* What a run hands out keeps what was asked for: so many molecules, the best of them.
ListExact == CandidatesExact /\ RankingExact

\* The host never gives a command up for its own time limit while the command is
\* still running: connecting, the command's limit and the time it may take to die
\* all fit into what the host waits (_subprocess_timeout_sec).
TimeLimitLeavesNothingRunning ==
  [][local.step = "command" /\ local.elapsed = LocalLimit /\ local' = NoWait => ~Running]_both

\* A command that lost its host still ends, and a host that lost its command too
\* (_render_remote_command, _run_checked_async).
WaitsEnd ==
  /\ Running ~> ~Running
  /\ local.step # "none" ~> local.step = "none"

=============================================================================
