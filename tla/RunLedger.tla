------------------------------ MODULE RunLedger ------------------------------
(***************************************************************************)
(* core/ledger.py and core/_persistence.py: one events.jsonl file, read    *)
(* without a lock by anybody and appended under an exclusive flock, one    *)
(* system call at a time.  A process is a thread or a process holding its  *)
(* own RunLedger; flock excludes them from each other alike.               *)
(*                                                                         *)
(* A line is a complete event; the bytes after the last newline are tail.  *)
(* The digest of an event is the chain of ids that led to it, an injective *)
(* stand-in for SHA-256.  ArtifactLineage persists through the same two    *)
(* helpers in the same order.                                              *)
(***************************************************************************)
EXTENDS Naturals, Sequences, SequencesExt

CONSTANTS
  Processes,
  Ids,         \* event ids callers use; a retry may use one again
  MaxStops,    \* bound: process deaths, failed writes and power losses
  Garbage,     \* a line no parser accepts
  None

ASSUME RunLedgerAssumption ==
  /\ MaxStops \in Nat
  /\ None \notin Ids \cup Processes

VARIABLES
  file,     \* the complete lines
  tail,     \* the event whose bytes follow the last newline, or None
  durable,  \* how many lines the last fsync made permanent
  lock,     \* the holder of the flock, or None
  pc,       \* what each process is doing
  loc,      \* its local variables
  acked,    \* history: ids whose append() returned
  stops     \* stops so far

vars == <<file, tail, durable, lock, pc, loc, acked, stops>>

-----------------------------------------------------------------------------
(* Events and their chain *)

Event == [id : Ids, previous : Seq(Ids)]

ASSUME NoEventAssumption == None \notin Event /\ Garbage \notin Event

NoDigest == <<>>
Digest(e) == Append(e.previous, e.id)

\* previous_event_sha256 of an event that follows these lines.
LastDigest(lines) == IF lines = <<>> THEN NoDigest ELSE Digest(Last(lines))

\* What _read_events demands of line number n.
Accepted(lines, n) ==
  /\ lines[n] # Garbage
  /\ \A i \in 1..(n - 1) : lines[i].id # lines[n].id
  /\ lines[n].previous = LastDigest(SubSeq(lines, 1, n - 1))

Intact(lines) == \A n \in DOMAIN lines : Accepted(lines, n)

IdsOf(lines) == {lines[i].id : i \in {k \in DOMAIN lines : lines[k] # Garbage}}

Locals == [event : Event \cup {None}, at : Nat, known : SUBSET Ids, torn : BOOLEAN,
           outcome : {"none", "returned", "raised"}]
NoLocals == [event |-> None, at |-> 0, known |-> {}, torn |-> FALSE, outcome |-> "none"]

Init ==
  /\ file = <<>> /\ tail = None /\ durable = 0 /\ lock = None
  /\ pc = [p \in Processes |-> "idle"]
  /\ loc = [p \in Processes |-> NoLocals]
  /\ acked = {} /\ stops = 0

Goto(p, l) == pc' = [pc EXCEPT ![p] = l]
disk == <<file, tail, durable>>

-----------------------------------------------------------------------------
(* append(): locked_append, _read_events, append_all, fsync, unlock *)

BeginAppend(p, x) ==
  /\ pc[p] = "idle"
  /\ Goto(p, "locking")
  /\ loc' = [loc EXCEPT ![p] = [NoLocals EXCEPT !.event = [id |-> x, previous |-> NoDigest]]]
  /\ UNCHANGED <<disk, lock, acked, stops>>

Lock(p) ==
  /\ pc[p] = "locking"
  /\ lock = None
  /\ lock' = p
  /\ Goto(p, "preparing")
  /\ UNCHANGED <<disk, loc, acked, stops>>

Unlock(p) == lock' = None
Leave(p, outcome) ==
  /\ Goto(p, "left")
  /\ loc' = [loc EXCEPT ![p].outcome = outcome]

\* The ledger is unreadable, or the id is taken: append() raises under the lock.
Bug_TornTailIgnored(p) == ~Intact(file) \/ loc[p].event.id \in IdsOf(file)
Refused(p) == tail # None \/ ~Intact(file) \/ loc[p].event.id \in IdsOf(file)

RefuseAppend(p) ==
  /\ pc[p] = "preparing"
  /\ Refused(p)
  /\ Unlock(p)
  /\ Leave(p, "raised")
  /\ UNCHANGED <<disk, acked, stops>>

Prepare(p) ==
  /\ pc[p] = "preparing"
  /\ ~Refused(p)
  /\ loc' = [loc EXCEPT ![p].event.previous = LastDigest(file), ![p].torn = tail # None]
  /\ Goto(p, "writing")
  /\ UNCHANGED <<disk, lock, acked, stops>>

\* os.write may take fewer bytes than it is given.
WriteSome(p) ==
  /\ pc[p] = "writing"
  /\ tail' = loc[p].event
  /\ Goto(p, "written_some")
  /\ UNCHANGED <<file, durable, lock, loc, acked, stops>>

\* Bytes appended behind a torn fragment would end up on its line.
WriteRest(p) ==
  /\ pc[p] \in {"writing", "written_some"}
  /\ file' = Append(file, IF loc[p].torn THEN Garbage ELSE loc[p].event)
  /\ tail' = None
  /\ Goto(p, "syncing")
  /\ UNCHANGED <<durable, lock, loc, acked, stops>>

\* The write fails, for want of space say: the exception passes the finally.
WriteFails(p) ==
  /\ pc[p] \in {"writing", "written_some"}
  /\ stops < MaxStops
  /\ stops' = stops + 1
  /\ Unlock(p)
  /\ Leave(p, "raised")
  /\ UNCHANGED <<disk, acked>>

Bug_NoFsync(p) ==
  /\ pc[p] = "syncing"
  /\ Goto(p, "unlocking")
  /\ UNCHANGED <<disk, lock, loc, acked, stops>>

Sync(p) ==
  /\ pc[p] = "syncing"
  /\ durable' = Len(file)
  /\ Goto(p, "unlocking")
  /\ UNCHANGED <<file, tail, lock, loc, acked, stops>>

Release(p) ==
  /\ pc[p] = "unlocking"
  /\ Unlock(p)
  /\ Leave(p, "returned")
  /\ acked' = acked \cup {loc[p].event.id}
  /\ UNCHANGED <<disk, stops>>

-----------------------------------------------------------------------------
(* events: a reader holds no lock and meets the file as it is, line by line *)

BeginRead(p) ==
  /\ pc[p] = "idle"
  /\ Goto(p, "reading")
  /\ loc' = [loc EXCEPT ![p] = [NoLocals EXCEPT !.known = acked]]
  /\ UNCHANGED <<disk, lock, acked, stops>>

ReadLine(p) ==
  /\ pc[p] = "reading"
  /\ loc[p].at < Len(file)
  /\ IF Accepted(file, loc[p].at + 1)
     THEN loc' = [loc EXCEPT ![p].at = @ + 1] /\ UNCHANGED pc
     ELSE Leave(p, "raised")
  /\ UNCHANGED <<disk, lock, acked, stops>>

Bug_LastLineLeftOut(p) ==
  /\ pc[p] = "reading"
  /\ loc[p].at + 1 >= Len(file)
  /\ Leave(p, IF tail = None THEN "returned" ELSE "raised")
  /\ UNCHANGED <<disk, lock, acked, stops>>

Bug_RetryTruncated(p) ==
  /\ pc[p] = "reading"
  /\ loc[p].at = Len(file)
  /\ IF tail = None THEN Leave(p, "returned") ELSE loc' = [loc EXCEPT ![p].at = 0] /\ UNCHANGED pc
  /\ UNCHANGED <<disk, lock, acked, stops>>

\* The end of the file: bytes without a newline are a truncated line.
ReadEnd(p) ==
  /\ pc[p] = "reading"
  /\ loc[p].at = Len(file)
  /\ Leave(p, IF tail = None THEN "returned" ELSE "raised")
  /\ UNCHANGED <<disk, lock, acked, stops>>

Finish(p) ==
  /\ pc[p] = "left"
  /\ Goto(p, "idle")
  /\ loc' = [loc EXCEPT ![p] = NoLocals]
  /\ UNCHANGED <<disk, lock, acked, stops>>

-----------------------------------------------------------------------------
(* What stops a process or the machine *)

Die(p) ==
  /\ pc[p] # "idle"
  /\ stops < MaxStops
  /\ stops' = stops + 1
  /\ lock' = IF lock = p THEN None ELSE lock
  /\ Goto(p, "idle")
  /\ loc' = [loc EXCEPT ![p] = NoLocals]
  /\ UNCHANGED <<disk, acked>>

\* The bytes no fsync covered survive up to some point of the file.
PowerLoss ==
  /\ stops < MaxStops
  /\ stops' = stops + 1
  /\ \E n \in durable..Len(file) :
       /\ file' = SubSeq(file, 1, n)
       /\ \/ tail' = None
          \/ n < Len(file) /\ file[n + 1] # Garbage /\ tail' = file[n + 1]
          \/ n = Len(file) /\ tail' = tail
       /\ durable' = n
  /\ lock' = None
  /\ pc' = [p \in Processes |-> "idle"]
  /\ loc' = [p \in Processes |-> NoLocals]
  /\ UNCHANGED acked

Step(p) ==
  \/ Lock(p) \/ RefuseAppend(p) \/ Prepare(p) \/ WriteRest(p) \/ Sync(p) \/ Release(p)
  \/ ReadLine(p) \/ ReadEnd(p) \/ Finish(p)

Next ==
  \/ \E p \in Processes :
       \/ Step(p) \/ WriteSome(p) \/ WriteFails(p) \/ BeginRead(p) \/ Die(p)
       \/ \E x \in Ids : BeginAppend(p, x)
  \/ PowerLoss

Spec == Init /\ [][Next]_vars

\* Every process that is inside the code is scheduled, and flock is granted to
\* a waiter that keeps meeting it free.
FairSpec ==
  Spec /\ \A p \in Processes :
    /\ SF_vars(Lock(p))
    /\ WF_vars(RefuseAppend(p) \/ Prepare(p) \/ WriteRest(p) \/ Sync(p) \/ Release(p)
               \/ ReadLine(p) \/ ReadEnd(p) \/ Finish(p))

-----------------------------------------------------------------------------
(* Properties *)

PCs == {"idle", "locking", "preparing", "writing", "written_some", "syncing", "unlocking",
        "reading", "left"}

\* Type invariant of the file, the lock and the processes' locals.
TypeOK ==
  /\ file \in Seq(Event \cup {Garbage})
  /\ tail \in Event \cup {None}
  /\ durable \in 0..Len(file)
  /\ lock \in Processes \cup {None}
  /\ pc \in [Processes -> PCs]
  /\ loc \in [Processes -> Locals]
  /\ acked \subseteq Ids
  /\ stops \in 0..MaxStops

\* Whatever interleaving of writers, deaths and power losses led here, the next
\* reader that meets no torn tail accepts every complete line: the digest chain
\* is continuous and no event id occurs twice (_read_events, append).
CompleteLinesReadable == Intact(file)

\* An event whose append() returned is in the file after any later stop: fsync
\* comes before the return (locked_append).
AcknowledgedSurvive == acked \subseteq IdsOf(file)

\* A snapshot that events returns holds every event acknowledged before the
\* read began, although it was taken without the lock.
SnapshotComplete ==
  \A p \in Processes :
    pc[p] = "left" /\ loc[p].event = None /\ loc[p].outcome = "returned" =>
      loc[p].known \subseteq IdsOf(SubSeq(file, 1, loc[p].at))

\* What the next process finds, after any stop, is a sound file: typed, readable
\* line by line, and with every event somebody was told is recorded; and what a
\* reader is given lacks none of them.
LedgerSound == TypeOK /\ CompleteLinesReadable /\ AcknowledgedSurvive /\ SnapshotComplete

\* Callers of append() and events always get an answer: the flock is given back
\* on every path out of locked_append.
CallsReturn == \A p \in Processes : pc[p] # "idle" ~> pc[p] = "idle"

\* The file is the append-only log of facts its callers count on.
AbstractLog == INSTANCE AppendLog WITH log <- [i \in DOMAIN file |-> file[i].id]
ImplementsLog == AbstractLog!Spec

\* Expected to fail.  events says "Return a read-only snapshot without changing
\* authoritative state" (ledger.py:250): with every process alive and every
\* write successful, a read answers.
HealthyReadAnswers ==
  stops = 0 => \A p \in Processes :
    pc[p] = "left" /\ loc[p].event = None => loc[p].outcome = "returned"

=============================================================================
