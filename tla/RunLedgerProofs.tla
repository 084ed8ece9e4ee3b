--------------------------- MODULE RunLedgerProofs ---------------------------
(***************************************************************************)
(* Proofs about RunLedger, for any number of processes, ids and stops: the *)
(* file stays readable, what was acknowledged stays in it, a reader misses *)
(* nothing that was acknowledged before it began, and the whole implements *)
(* AppendLog.                                                              *)
(***************************************************************************)
EXTENDS RunLedger, TLAPS, SequenceTheorems

Holding == {"preparing", "writing", "written_some", "syncing", "unlocking"}

\* What an appender has established, from its place in locked_append.
Appending(p) ==
  /\ pc[p] \in Holding => lock = p
  /\ pc[p] \in Holding \cup {"locking"} => loc[p].event \in Event
  /\ pc[p] \in {"writing", "written_some"} =>
       /\ loc[p].event.previous = LastDigest(file)
       /\ loc[p].event.id \notin IdsOf(file)
  /\ pc[p] \in {"syncing", "unlocking"} => loc[p].event.id \in IdsOf(file)
  /\ pc[p] = "unlocking" => durable = Len(file)
  /\ ~loc[p].torn

\* What a reader has: the first lines, as they still are, and what was acknowledged
\* before it began.
Reading(p) ==
  /\ pc[p] = "reading" => loc[p].event = None /\ loc[p].known \subseteq acked
  /\ loc[p].at <= Len(file)
  /\ pc[p] = "left" /\ loc[p].event = None /\ loc[p].outcome = "returned" =>
       loc[p].known \subseteq IdsOf(SubSeq(file, 1, loc[p].at))

LedgerInv ==
  /\ TypeOK
  /\ Intact(file)
  /\ acked \subseteq IdsOf(SubSeq(file, 1, durable))
  /\ \A p \in Processes : Appending(p) /\ Reading(p)

-----------------------------------------------------------------------------
(* Sequences of lines *)

\* The first k lines are determined by what they are.
LEMMA SameStart ==
  ASSUME NEW S, NEW s \in Seq(S), NEW t \in Seq(S), NEW k \in Nat,
         k <= Len(s), k <= Len(t), \A i \in 1..k : s[i] = t[i]
  PROVE  SubSeq(s, 1, k) = SubSeq(t, 1, k)
<1>1. /\ Len(s) \in Nat /\ Len(t) \in Nat /\ k \in Int
      /\ \A i \in 1..k : s[i] \in S /\ t[i] \in S
  BY LenProperties, ElementOfSeq
<1>2. /\ SubSeq(s, 1, k) \in Seq(S) /\ SubSeq(t, 1, k) \in Seq(S)
      /\ Len(SubSeq(s, 1, k)) = k /\ Len(SubSeq(t, 1, k)) = k
      /\ \A i \in 1..k : SubSeq(s, 1, k)[i] = s[i] /\ SubSeq(t, 1, k)[i] = t[i]
  BY <1>1, SubSeqProperties
<1>3. QED
  BY <1>2, SeqEqual

\* The first n lines of a file, one by one.
LEMMA Start ==
  ASSUME NEW S, NEW s \in Seq(S), NEW n \in 0..Len(s)
  PROVE  /\ SubSeq(s, 1, n) \in Seq(S)
         /\ Len(SubSeq(s, 1, n)) = n
         /\ DOMAIN SubSeq(s, 1, n) = 1..n
         /\ DOMAIN s = 1..Len(s) /\ Len(s) \in Nat
         /\ \A i \in 1..n : SubSeq(s, 1, n)[i] = s[i]
<1>1. Len(s) \in Nat /\ n \in Int /\ \A i \in 1..n : s[i] \in S
  BY LenProperties, ElementOfSeq
<1>2. /\ SubSeq(s, 1, n) \in Seq(S) /\ Len(SubSeq(s, 1, n)) = n
      /\ \A i \in 1..n : SubSeq(s, 1, n)[i] = s[i]
  BY <1>1, SubSeqProperties
<1>3. QED
  BY <1>1, <1>2, LenProperties

\* Whether a line is accepted depends on the lines up to it.
LEMMA AcceptedByStart ==
  ASSUME NEW S, NEW s \in Seq(S), NEW t \in Seq(S), NEW n \in Nat \ {0},
         n <= Len(s), n <= Len(t), \A i \in 1..n : s[i] = t[i]
  PROVE  Accepted(s, n) <=> Accepted(t, n)
<1>1. SubSeq(s, 1, n - 1) = SubSeq(t, 1, n - 1)
  BY SameStart
<1>2. s[n] = t[n] /\ \A i \in 1..(n - 1) : s[i] = t[i]
  OBVIOUS
<1>3. QED
  BY <1>1, <1>2 DEF Accepted

\* A line at the end of which the digest and the id are right is accepted.
LEMMA IntactAppend ==
  ASSUME NEW s \in Seq(Event \cup {Garbage}), Intact(s), NEW e \in Event,
         e.previous = LastDigest(s), e.id \notin IdsOf(s)
  PROVE  /\ Append(s, e) \in Seq(Event \cup {Garbage})
         /\ Intact(Append(s, e))
         /\ IdsOf(Append(s, e)) = IdsOf(s) \cup {e.id}
<1> DEFINE t == Append(s, e)
<1>1. /\ t \in Seq(Event \cup {Garbage}) /\ Len(t) = Len(s) + 1 /\ Len(s) \in Nat
      /\ DOMAIN s = 1..Len(s) /\ DOMAIN t = 1..(Len(s) + 1)
      /\ \A i \in 1..Len(s) : t[i] = s[i]
      /\ t[Len(s) + 1] = e
  BY AppendProperties, LenProperties
<1> HIDE DEF t
<1>2. \A i \in DOMAIN s : s[i] # Garbage
  BY DEF Intact, Accepted
<1>3. e # Garbage
  BY NoEventAssumption
<1>4. IdsOf(t) = IdsOf(s) \cup {e.id}
  BY <1>1, <1>2, <1>3 DEF IdsOf
<1>5. ASSUME NEW n \in DOMAIN t PROVE Accepted(t, n)
  <2>1. CASE n = Len(s) + 1
    <3>1. SubSeq(t, 1, n - 1) = SubSeq(s, 1, Len(s))
      BY <1>1, <2>1, SameStart
    <3>2. SubSeq(t, 1, n - 1) = s
      BY <3>1, SubSeqFull
    <3>3. \A i \in 1..(n - 1) : t[i].id # e.id
      BY <1>1, <1>2, <2>1 DEF IdsOf
    <3>4. QED
      BY <1>1, <1>3, <2>1, <3>2, <3>3 DEF Accepted
  <2>2. CASE n \in 1..Len(s)
    <3>1. Accepted(s, n)
      BY <1>1, <2>2 DEF Intact
    <3>2. QED
      BY <1>1, <2>2, <3>1, AcceptedByStart
  <2>3. QED
    BY <1>1, <2>1, <2>2
<1>6. QED
  BY <1>1, <1>4, <1>5 DEF Intact, t

\* The first lines of a readable file are readable, and hold no other ids.
LEMMA IntactStart ==
  ASSUME NEW s \in Seq(Event \cup {Garbage}), Intact(s), NEW n \in 0..Len(s)
  PROVE  Intact(SubSeq(s, 1, n)) /\ IdsOf(SubSeq(s, 1, n)) \subseteq IdsOf(s)
<1> DEFINE t == SubSeq(s, 1, n)
<1>1. /\ t \in Seq(Event \cup {Garbage}) /\ Len(t) = n /\ DOMAIN t = 1..n
      /\ DOMAIN s = 1..Len(s) /\ Len(s) \in Nat
      /\ \A i \in 1..n : t[i] = s[i]
  BY Start
<1> HIDE DEF t
<1>2. ASSUME NEW k \in DOMAIN t PROVE Accepted(t, k)
  <2>1. Accepted(s, k)
    BY <1>1 DEF Intact
  <2>2. QED
    BY <1>1, <2>1, AcceptedByStart
<1>3. IdsOf(t) \subseteq IdsOf(s)
  BY <1>1 DEF IdsOf
<1>4. QED
  BY <1>2, <1>3 DEF Intact, t

LEMMA DigestTyped ==
  ASSUME NEW s \in Seq(Event \cup {Garbage}), Intact(s)
  PROVE  LastDigest(s) \in Seq(Ids)
<1>1. CASE s = <<>>
  BY <1>1, EmptySeq DEF LastDigest, NoDigest
<1>2. CASE s # <<>>
  <2>1. Len(s) \in DOMAIN s
    BY <1>2, EmptySeq, LenProperties
  <2>2. s[Len(s)] \in Event
    BY <2>1, LenProperties, ElementOfSeq DEF Intact, Accepted
  <2>3. s[Len(s)].previous \in Seq(Ids) /\ s[Len(s)].id \in Ids
    BY <2>2 DEF Event
  <2>4. Append(s[Len(s)].previous, s[Len(s)].id) \in Seq(Ids)
    BY <2>3, AppendProperties
  <2>5. QED
    BY <1>2, <2>4 DEF LastDigest, Last, Digest
<1>3. QED
  BY <1>1, <1>2

-----------------------------------------------------------------------------
(* Steps *)

LEMMA InitLedgerInv == Init => LedgerInv
<1> SUFFICES ASSUME Init PROVE LedgerInv
  OBVIOUS
<1>1. NoLocals \in Locals
  BY DEF NoLocals, Locals
<1>2. file \in Seq(Event \cup {Garbage}) /\ Len(file) = 0 /\ DOMAIN file = {}
  BY EmptySeq DEF Init
<1>3. TypeOK
  BY <1>1, <1>2, RunLedgerAssumption DEF Init, TypeOK, PCs
<1>4. Intact(file) /\ acked = {}
  BY <1>2 DEF Init, Intact
<1>5. \A p \in Processes : Appending(p) /\ Reading(p)
  BY <1>2 DEF Init, NoLocals, Appending, Reading, Holding
<1>6. QED
  BY <1>3, <1>4, <1>5 DEF LedgerInv

\* What a process knows is not disturbed by another that only adds lines, takes the
\* lock when it is free, and touches the disk when it holds it.
LEMMA OthersUndisturbed ==
  ASSUME LedgerInv, NEW p \in Processes, NEW q \in Processes, q # p,
         pc'[q] = pc[q], loc'[q] = loc[q],
         file' \in Seq(Event \cup {Garbage}), Len(file) <= Len(file'),
         \A i \in 1..Len(file) : file'[i] = file[i],
         acked \subseteq acked',
         lock' = lock \/ lock \in {None, p},
         UNCHANGED <<file, durable>> \/ pc[p] \in Holding
  PROVE  Appending(q)' /\ Reading(q)'
<1>1. Appending(p) /\ Appending(q) /\ Reading(q) /\ p # None /\ q # None
  BY RunLedgerAssumption DEF LedgerInv
<1>2. pc[q] \in Holding => lock' = lock /\ UNCHANGED <<file, durable>>
  BY <1>1 DEF Appending
<1>3. Appending(q)'
  BY <1>1, <1>2 DEF Appending, Holding
<1>4. file \in Seq(Event \cup {Garbage}) /\ loc[q].at \in Nat /\ Len(file) \in Nat
      /\ Len(file') \in Nat
  BY LenProperties DEF LedgerInv, TypeOK, Locals
<1>5. SubSeq(file', 1, loc[q].at) = SubSeq(file, 1, loc[q].at)
  BY <1>1, <1>4, SameStart DEF Reading
<1>6. Reading(q)'
  <2>1. loc'[q].at <= Len(file')
    BY <1>1, <1>4 DEF Reading
  <2>2. pc'[q] = "left" /\ loc'[q].event = None /\ loc'[q].outcome = "returned" =>
          loc'[q].known \subseteq IdsOf(SubSeq(file', 1, loc'[q].at))
    BY <1>1, <1>5 DEF Reading
  <2>3. QED
    BY <1>1, <2>1, <2>2 DEF Reading
<1>7. QED
  BY <1>3, <1>6

\* A step of p: what it does to the shared state, and what p knows afterwards.
LEMMA ProcessMoves ==
  ASSUME LedgerInv, NEW p \in Processes, NEW l \in PCs, NEW x \in Locals,
         pc' = [pc EXCEPT ![p] = l], loc' = [loc EXCEPT ![p] = x],
         file' \in Seq(Event \cup {Garbage}), Len(file) <= Len(file'),
         \A i \in 1..Len(file) : file'[i] = file[i],
         tail' \in Event \cup {None}, durable' \in 0..Len(file'),
         lock' \in Processes \cup {None}, stops' \in 0..MaxStops,
         acked \subseteq acked', acked' \subseteq Ids,
         lock' = lock \/ lock \in {None, p},
         UNCHANGED <<file, durable>> \/ pc[p] \in Holding,
         Intact(file'), acked' \subseteq IdsOf(SubSeq(file', 1, durable')),
         Appending(p)', Reading(p)'
  PROVE  LedgerInv'
<1>1. TypeOK'
  BY DEF LedgerInv, TypeOK
<1>2. ASSUME NEW q \in Processes, q # p PROVE Appending(q)' /\ Reading(q)'
  <2>1. pc'[q] = pc[q] /\ loc'[q] = loc[q]
    BY <1>2 DEF LedgerInv, TypeOK
  <2>2. QED
    BY <1>2, <2>1, OthersUndisturbed
<1>3. QED
  BY <1>1, <1>2 DEF LedgerInv

\* The parts of the invariant that a step of p starts from.
LEMMA Parts ==
  ASSUME LedgerInv, NEW p \in Processes
  PROVE  /\ file \in Seq(Event \cup {Garbage}) /\ Len(file) \in Nat /\ DOMAIN file = 1..Len(file)
         /\ Intact(file) /\ durable \in 0..Len(file)
         /\ tail \in Event \cup {None} /\ lock \in Processes \cup {None} /\ stops \in 0..MaxStops
         /\ acked \subseteq Ids /\ acked \subseteq IdsOf(SubSeq(file, 1, durable))
         /\ pc[p] \in PCs /\ loc[p] \in Locals
         /\ loc[p].event \in Event \cup {None} /\ loc[p].at \in Nat /\ loc[p].known \subseteq Ids
         /\ loc[p].torn = FALSE /\ loc[p].outcome \in {"none", "returned", "raised"}
         /\ Appending(p) /\ Reading(p)
<1>1. TypeOK /\ Appending(p) /\ Reading(p) /\ loc[p] \in Locals
  BY DEF LedgerInv, TypeOK
<1>2. QED
  BY <1>1, LenProperties DEF LedgerInv, TypeOK, Locals, Appending

\* A step that leaves the disk and the history as they are.
LEMMA QuietMoves ==
  ASSUME LedgerInv, NEW p \in Processes, NEW l \in PCs, NEW x \in Locals,
         pc' = [pc EXCEPT ![p] = l], loc' = [loc EXCEPT ![p] = x],
         UNCHANGED <<file, durable, acked>>,
         tail' \in Event \cup {None}, lock' \in Processes \cup {None}, stops' \in 0..MaxStops,
         lock' = lock \/ lock \in {None, p},
         Appending(p)', Reading(p)'
  PROVE  LedgerInv'
<1>1. /\ file' \in Seq(Event \cup {Garbage}) /\ Len(file') = Len(file) /\ Len(file) \in Nat
      /\ durable' \in 0..Len(file') /\ Intact(file')
      /\ acked' \subseteq Ids /\ acked' \subseteq IdsOf(SubSeq(file', 1, durable'))
  BY Parts
<1>2. /\ Len(file) <= Len(file') /\ \A i \in 1..Len(file) : file'[i] = file[i]
      /\ acked \subseteq acked' /\ UNCHANGED <<file, durable>>
  BY <1>1
<1>3. QED
  BY <1>1, <1>2, ProcessMoves

\* append(): what happens under the lock.
LEMMA AppendStep ==
  ASSUME LedgerInv, NEW p \in Processes,
         \/ \E x \in Ids : BeginAppend(p, x)
         \/ Lock(p) \/ RefuseAppend(p) \/ Prepare(p) \/ WriteSome(p) \/ WriteRest(p)
         \/ WriteFails(p) \/ Sync(p) \/ Release(p)
  PROVE  LedgerInv'
<1> USE RunLedgerAssumption
<1>0. /\ file \in Seq(Event \cup {Garbage}) /\ Len(file) \in Nat /\ DOMAIN file = 1..Len(file)
      /\ Intact(file) /\ durable \in 0..Len(file)
      /\ tail \in Event \cup {None} /\ lock \in Processes \cup {None} /\ stops \in 0..MaxStops
      /\ acked \subseteq Ids /\ acked \subseteq IdsOf(SubSeq(file, 1, durable))
      /\ loc[p].event \in Event \cup {None} /\ loc[p].at \in Nat /\ loc[p].known \subseteq Ids
      /\ loc[p].torn = FALSE
      /\ pc \in [Processes -> PCs] /\ loc \in [Processes -> Locals]
      /\ Appending(p) /\ Reading(p)
  BY Parts DEF LedgerInv, TypeOK
<1>1. ASSUME NEW x \in Ids, BeginAppend(p, x) PROVE LedgerInv'
  <2> DEFINE y == [NoLocals EXCEPT !.event = [id |-> x, previous |-> NoDigest]]
  <2>1. [id |-> x, previous |-> NoDigest] \in Event
    BY EmptySeq DEF Event, NoDigest
  <2>2. y \in Locals /\ y.event # None /\ ~y.torn /\ y.at = 0 /\ y.event \in Event
    BY <2>1, NoEventAssumption DEF Locals, NoLocals
  <2> HIDE DEF y
  <2>3. pc' = [pc EXCEPT ![p] = "locking"] /\ loc' = [loc EXCEPT ![p] = y]
    BY <1>1 DEF BeginAppend, Goto, y
  <2>4. UNCHANGED <<file, tail, durable, lock, acked, stops>>
    BY <1>1 DEF BeginAppend, disk
  <2>5. pc'[p] = "locking" /\ loc'[p] = y
    BY <1>0, <2>3
  <2>6. Appending(p)'
    BY <2>2, <2>5 DEF Appending, Holding
  <2>7. Reading(p)'
    BY <1>0, <2>2, <2>4, <2>5 DEF Reading
  <2>8. QED
    BY <1>0, <2>2, <2>3, <2>4, <2>6, <2>7, QuietMoves DEF PCs
<1>2. CASE Lock(p)
  <2>1. pc' = [pc EXCEPT ![p] = "preparing"] /\ loc' = [loc EXCEPT ![p] = loc[p]]
    BY <1>0, <1>2 DEF Lock, Goto
  <2>2. /\ UNCHANGED <<file, tail, durable, acked, stops>>
        /\ lock = None /\ lock' = p /\ pc[p] = "locking"
    BY <1>2 DEF Lock, disk
  <2>3. Appending(p)' /\ Reading(p)'
    BY <1>0, <2>1, <2>2 DEF Appending, Reading, Holding
  <2>4. QED
    BY <2>1, <2>2, <2>3, <1>0, QuietMoves DEF PCs
<1>3. CASE RefuseAppend(p) \/ WriteFails(p)
  <2> DEFINE y == [loc[p] EXCEPT !.outcome = "raised"]
  <2>1. pc' = [pc EXCEPT ![p] = "left"] /\ loc' = [loc EXCEPT ![p] = y]
    BY <1>0, <1>3 DEF RefuseAppend, WriteFails, Leave, Goto
  <2>2. /\ UNCHANGED <<file, tail, durable, acked>> /\ stops' \in 0..MaxStops
        /\ lock' = None /\ pc[p] \in Holding
    BY <1>0, <1>3 DEF RefuseAppend, WriteFails, Unlock, disk, Holding
  <2>3. y \in Locals /\ y.event = loc[p].event /\ y.at = loc[p].at /\ y.torn = loc[p].torn
        /\ y.outcome = "raised"
    BY <1>0 DEF Locals
  <2> HIDE DEF y
  <2>4. Appending(p)' /\ Reading(p)'
    BY <1>0, <2>1, <2>2, <2>3 DEF Appending, Reading, Holding
  <2>5. lock = p
    BY <1>0, <2>2 DEF Appending
  <2>6. QED
    BY <2>1, <2>2, <2>3, <2>4, <2>5, <1>0, QuietMoves DEF PCs
<1>4. CASE Prepare(p)
  <2> DEFINE y == [loc[p] EXCEPT !.event.previous = LastDigest(file), !.torn = tail # None]
  <2>1. pc' = [pc EXCEPT ![p] = "writing"] /\ loc' = [loc EXCEPT ![p] = y]
    BY <1>0, <1>4 DEF Prepare, Goto
  <2>2. /\ UNCHANGED <<file, tail, durable, lock, acked, stops>>
        /\ pc[p] = "preparing" /\ tail = None /\ loc[p].event.id \notin IdsOf(file)
    BY <1>4 DEF Prepare, Refused, disk
  <2>3. loc[p].event \in Event /\ lock = p
    BY <1>0, <2>2 DEF Appending, Holding
  <2>4. LastDigest(file) \in Seq(Ids)
    BY <1>0, DigestTyped
  <2>5. /\ y \in Locals /\ y.event \in Event /\ y.event.id = loc[p].event.id
        /\ y.event.previous = LastDigest(file) /\ ~y.torn /\ y.at = loc[p].at
    <3>1. [loc[p].event EXCEPT !.previous = LastDigest(file)] \in Event
      BY <2>3, <2>4 DEF Event
    <3>2. /\ [loc[p].event EXCEPT !.previous = LastDigest(file)].id = loc[p].event.id
          /\ [loc[p].event EXCEPT !.previous = LastDigest(file)].previous = LastDigest(file)
      BY <2>3 DEF Event
    <3>3. /\ loc[p] \in Locals /\ (tail # None) = FALSE
          /\ y = [loc[p] EXCEPT !.event = [loc[p].event EXCEPT !.previous = LastDigest(file)],
                                !.torn = FALSE]
      BY <1>0, <2>2
    <3>4. QED
      BY <3>1, <3>2, <3>3 DEF Locals
  <2> HIDE DEF y
  <2>6. Appending(p)' /\ Reading(p)'
    BY <1>0, <2>1, <2>2, <2>3, <2>5 DEF Appending, Reading, Holding
  <2>7. QED
    BY <2>1, <2>2, <2>5, <2>6, <1>0, QuietMoves DEF PCs
<1>5. CASE WriteSome(p)
  <2>1. pc' = [pc EXCEPT ![p] = "written_some"] /\ loc' = [loc EXCEPT ![p] = loc[p]]
    BY <1>0, <1>5 DEF WriteSome, Goto
  <2>2. /\ UNCHANGED <<file, durable, lock, acked, stops>>
        /\ tail' = loc[p].event /\ pc[p] = "writing"
    BY <1>5 DEF WriteSome
  <2>3. Appending(p)' /\ Reading(p)'
    BY <1>0, <2>1, <2>2 DEF Appending, Reading, Holding
  <2>4. QED
    BY <2>1, <2>2, <2>3, <1>0, QuietMoves DEF PCs
<1>6. CASE WriteRest(p)
  <2> DEFINE e == loc[p].event
  <2>1. pc' = [pc EXCEPT ![p] = "syncing"] /\ loc' = [loc EXCEPT ![p] = loc[p]]
    BY <1>0, <1>6 DEF WriteRest, Goto
  <2>2. /\ UNCHANGED <<durable, lock, acked, stops>>
        /\ file' = Append(file, e) /\ tail' = None /\ pc[p] \in {"writing", "written_some"}
    BY <1>0, <1>6 DEF WriteRest
  <2>3. e \in Event /\ e.previous = LastDigest(file) /\ e.id \notin IdsOf(file) /\ lock = p
    BY <1>0, <2>2 DEF Appending, Holding
  <2>4. /\ file' \in Seq(Event \cup {Garbage}) /\ Intact(file')
        /\ IdsOf(file') = IdsOf(file) \cup {e.id}
    BY <1>0, <2>2, <2>3, IntactAppend
  <2>5. Len(file') = Len(file) + 1 /\ \A i \in 1..Len(file) : file'[i] = file[i]
    BY <1>0, <2>2, <2>3, AppendProperties
  <2>6. SubSeq(file', 1, durable') = SubSeq(file, 1, durable)
    BY <1>0, <2>2, <2>4, <2>5, SameStart
  <2>7. Appending(p)'
    BY <1>0, <2>1, <2>2, <2>3, <2>4 DEF Appending, Holding
  <2>8. loc[p].event # None /\ loc'[p] = loc[p] /\ pc'[p] = "syncing"
    BY <1>0, <2>1, <2>3, NoEventAssumption
  <2>9. Reading(p)'
    BY <1>0, <2>5, <2>8 DEF Reading
  <2>10. acked' \subseteq IdsOf(SubSeq(file', 1, durable')) /\ durable' \in 0..Len(file')
    <3>1. SubSeq(file', 1, durable') = SubSeq(file, 1, durable) /\ acked' = acked
      BY <2>2, <2>6
    <3>2. acked' \subseteq IdsOf(SubSeq(file', 1, durable'))
      BY <1>0, <3>1
    <3>3. durable' \in 0..Len(file')
      BY <1>0, <2>2, <2>5
    <3>4. QED
      BY <3>2, <3>3
  <2>11. pc[p] \in Holding /\ "syncing" \in PCs
    BY <2>2 DEF Holding, PCs
  <2> HIDE DEF e
  <2>12. /\ loc[p] \in Locals /\ Len(file) <= Len(file') /\ tail' \in Event \cup {None}
         /\ lock' \in Processes \cup {None} /\ stops' \in 0..MaxStops
         /\ acked \subseteq acked' /\ acked' \subseteq Ids /\ lock' = lock
    BY <1>0, <2>2, <2>5
  <2>13. QED
    BY <2>1, <2>4, <2>5, <2>7, <2>9, <2>10, <2>11, <2>12, ProcessMoves
<1>7. CASE Sync(p)
  <2>1. pc' = [pc EXCEPT ![p] = "unlocking"] /\ loc' = [loc EXCEPT ![p] = loc[p]]
    BY <1>0, <1>7 DEF Sync, Goto
  <2>2. /\ UNCHANGED <<file, tail, lock, acked, stops>>
        /\ durable' = Len(file) /\ pc[p] = "syncing"
    BY <1>7 DEF Sync
  <2>3. Appending(p)' /\ Reading(p)'
    BY <1>0, <2>1, <2>2 DEF Appending, Reading, Holding
  <2>4. acked' \subseteq IdsOf(SubSeq(file', 1, durable')) /\ durable' \in 0..Len(file')
    <3>1. IdsOf(SubSeq(file, 1, durable)) \subseteq IdsOf(file)
      BY <1>0, IntactStart
    <3>2. SubSeq(file', 1, durable') = file
      BY <1>0, <2>2, SubSeqFull
    <3>3. acked' \subseteq IdsOf(file)
      BY <1>0, <2>2, <3>1
    <3>4. durable' \in 0..Len(file')
      BY <1>0, <2>2
    <3>5. QED
      BY <3>2, <3>3, <3>4
  <2>5. /\ loc[p] \in Locals /\ file' \in Seq(Event \cup {Garbage}) /\ Len(file) <= Len(file')
        /\ \A i \in 1..Len(file) : file'[i] = file[i]
        /\ tail' \in Event \cup {None} /\ Intact(file')
        /\ lock' \in Processes \cup {None} /\ stops' \in 0..MaxStops
        /\ acked \subseteq acked' /\ acked' \subseteq Ids /\ lock' = lock
    BY <1>0, <2>2
  <2>6. pc[p] \in Holding /\ "unlocking" \in PCs
    BY <2>2 DEF Holding, PCs
  <2>7. QED
    BY <2>1, <2>3, <2>4, <2>5, <2>6, ProcessMoves
<1>8. CASE Release(p)
  <2> DEFINE y == [loc[p] EXCEPT !.outcome = "returned"]
  <2>1. pc' = [pc EXCEPT ![p] = "left"] /\ loc' = [loc EXCEPT ![p] = y]
    BY <1>0, <1>8 DEF Release, Leave, Goto
  <2>2. /\ UNCHANGED <<file, tail, durable, stops>>
        /\ lock' = None /\ pc[p] = "unlocking" /\ acked' = acked \cup {loc[p].event.id}
    BY <1>8 DEF Release, Unlock, disk
  <2>3. /\ loc[p].event \in Event /\ lock = p /\ durable = Len(file)
        /\ loc[p].event.id \in IdsOf(file)
    BY <1>0, <2>2 DEF Appending, Holding
  <2>4. /\ y \in Locals /\ y.event = loc[p].event /\ y.event # None /\ y.at = loc[p].at
        /\ y.torn = loc[p].torn
    BY <1>0, <2>3, NoEventAssumption DEF Locals
  <2> HIDE DEF y
  <2>5. Appending(p)' /\ Reading(p)'
    BY <1>0, <2>1, <2>2, <2>3, <2>4 DEF Appending, Reading, Holding
  <2>6. SubSeq(file, 1, durable) = file /\ loc[p].event.id \in Ids
    BY <1>0, <2>3, SubSeqFull DEF Event
  <2>7. acked' \subseteq IdsOf(SubSeq(file', 1, durable')) /\ acked' \subseteq Ids
    BY <1>0, <2>2, <2>3, <2>6
  <2>8. pc[p] \in Holding /\ "left" \in PCs
    BY <2>2 DEF Holding, PCs
  <2>9. /\ file' \in Seq(Event \cup {Garbage}) /\ Len(file) <= Len(file')
        /\ \A i \in 1..Len(file) : file'[i] = file[i]
        /\ tail' \in Event \cup {None} /\ durable' \in 0..Len(file') /\ Intact(file')
        /\ lock' \in Processes \cup {None} /\ stops' \in 0..MaxStops
        /\ acked \subseteq acked' /\ lock \in {None, p}
    BY <1>0, <2>2, <2>3
  <2>10. QED
    BY <2>1, <2>4, <2>5, <2>7, <2>8, <2>9, ProcessMoves
<1>9. QED
  BY <1>1, <1>2, <1>3, <1>4, <1>5, <1>6, <1>7, <1>8

\* events: what a reader does, and the ends of a call.
LEMMA ReadStep ==
  ASSUME LedgerInv, NEW p \in Processes,
         BeginRead(p) \/ ReadLine(p) \/ ReadEnd(p) \/ Finish(p) \/ Die(p)
  PROVE  LedgerInv'
<1>0. /\ file \in Seq(Event \cup {Garbage}) /\ Len(file) \in Nat
      /\ Intact(file) /\ durable \in 0..Len(file)
      /\ tail \in Event \cup {None} /\ lock \in Processes \cup {None} /\ stops \in 0..MaxStops
      /\ acked \subseteq Ids /\ acked \subseteq IdsOf(SubSeq(file, 1, durable))
      /\ loc[p].at \in Nat /\ loc[p].torn = FALSE
      /\ pc \in [Processes -> PCs] /\ loc \in [Processes -> Locals] /\ MaxStops \in Nat
      /\ Appending(p) /\ Reading(p)
  BY Parts, RunLedgerAssumption DEF LedgerInv, TypeOK
<1>1. CASE BeginRead(p)
  <2> DEFINE y == [NoLocals EXCEPT !.known = acked]
  <2>1. /\ y \in Locals /\ y.event = None /\ ~y.torn /\ y.at = 0 /\ y.known = acked
    BY <1>0 DEF Locals, NoLocals
  <2> HIDE DEF y
  <2>2. pc' = [pc EXCEPT ![p] = "reading"] /\ loc' = [loc EXCEPT ![p] = y]
    BY <1>1 DEF BeginRead, Goto, y
  <2>3. UNCHANGED <<file, tail, durable, lock, acked, stops>>
    BY <1>1 DEF BeginRead, disk
  <2>4. pc'[p] = "reading" /\ loc'[p] = y
    BY <1>0, <2>2
  <2>5. Appending(p)'
    BY <2>1, <2>4 DEF Appending, Holding
  <2>6. Reading(p)'
    BY <1>0, <2>1, <2>3, <2>4 DEF Reading
  <2>7. QED
    BY <1>0, <2>1, <2>2, <2>3, <2>5, <2>6, QuietMoves DEF PCs
<1>2. CASE Finish(p) \/ Die(p)
  <2>1. /\ NoLocals \in Locals /\ ~NoLocals.torn /\ NoLocals.at = 0
    BY DEF Locals, NoLocals
  <2>2. pc' = [pc EXCEPT ![p] = "idle"] /\ loc' = [loc EXCEPT ![p] = NoLocals]
    BY <1>2 DEF Finish, Die, Goto
  <2>3. UNCHANGED <<file, tail, durable, acked>> /\ stops' \in 0..MaxStops
    BY <1>0, <1>2 DEF Finish, Die, disk
  <2>4. lock' = lock \/ (lock = p /\ lock' = None)
    BY <1>2 DEF Finish, Die
  <2>5. pc'[p] = "idle" /\ loc'[p] = NoLocals
    BY <1>0, <2>2
  <2>6. Appending(p)'
    BY <2>1, <2>5 DEF Appending, Holding
  <2>7. Reading(p)'
    BY <1>0, <2>1, <2>3, <2>5 DEF Reading
  <2>8. QED
    BY <1>0, <2>1, <2>2, <2>3, <2>4, <2>6, <2>7, QuietMoves DEF PCs
<1>3. CASE ReadLine(p) \/ ReadEnd(p)
  <2>1. /\ UNCHANGED <<file, tail, durable, lock, acked, stops>> /\ pc[p] = "reading"
    BY <1>3 DEF ReadLine, ReadEnd, disk
  <2>2. loc[p].event = None /\ loc[p].known \subseteq acked /\ loc[p] \in Locals
    BY <1>0, <2>1 DEF Reading
  <2>3. CASE ReadLine(p) /\ Accepted(file, loc[p].at + 1)
    <3> DEFINE y == [loc[p] EXCEPT !.at = @ + 1]
    <3>1. /\ y \in Locals /\ y.event = loc[p].event /\ ~y.torn /\ y.at = loc[p].at + 1
          /\ y.known = loc[p].known
      <4>1. loc[p].at + 1 \in Nat /\ y = [loc[p] EXCEPT !.at = loc[p].at + 1]
        BY <1>0
      <4>2. QED
        BY <1>0, <2>2, <4>1 DEF Locals
    <3>2. /\ pc' = [pc EXCEPT ![p] = "reading"] /\ loc' = [loc EXCEPT ![p] = y]
          /\ loc[p].at < Len(file)
      BY <1>0, <2>1, <2>3 DEF ReadLine
    <3> HIDE DEF y
    <3>3. pc'[p] = "reading" /\ loc'[p] = y
      BY <1>0, <3>2
    <3>4. Appending(p)'
      BY <3>1, <3>3 DEF Appending, Holding
    <3>5. Reading(p)'
      BY <1>0, <2>1, <2>2, <3>1, <3>2, <3>3 DEF Reading
    <3>6. QED
      BY <1>0, <2>1, <3>1, <3>2, <3>4, <3>5, QuietMoves DEF PCs
  <2>4. CASE ~(ReadLine(p) /\ Accepted(file, loc[p].at + 1))
    <3>1. PICK o \in {"returned", "raised"} :
            /\ pc' = [pc EXCEPT ![p] = "left"]
            /\ loc' = [loc EXCEPT ![p] = [loc[p] EXCEPT !.outcome = o]]
            /\ o = "returned" => loc[p].at = Len(file)
      BY <1>0, <1>3, <2>4 DEF ReadLine, ReadEnd, Leave, Goto
    <3> DEFINE y == [loc[p] EXCEPT !.outcome = o]
    <3>2. /\ y \in Locals /\ y.event = loc[p].event /\ ~y.torn /\ y.at = loc[p].at
          /\ y.known = loc[p].known /\ y.outcome = o
      BY <1>0, <2>2 DEF Locals
    <3>3. pc'[p] = "left" /\ loc'[p] = y /\ loc' = [loc EXCEPT ![p] = y]
      BY <1>0, <3>1
    <3> HIDE DEF y
    <3>4. Appending(p)'
      BY <3>2, <3>3 DEF Appending, Holding
    <3>5. IdsOf(SubSeq(file, 1, durable)) \subseteq IdsOf(file) /\ SubSeq(file, 1, Len(file)) = file
      BY <1>0, IntactStart, SubSeqFull
    <3>6. o = "returned" => loc[p].known \subseteq IdsOf(SubSeq(file, 1, loc[p].at))
      BY <1>0, <2>2, <3>1, <3>5
    <3>7. Reading(p)'
      BY <1>0, <2>1, <3>2, <3>3, <3>6 DEF Reading
    <3>8. QED
      BY <1>0, <2>1, <3>1, <3>2, <3>3, <3>4, <3>7, QuietMoves DEF PCs
  <2>5. QED
    BY <2>3, <2>4
<1>4. QED
  BY <1>1, <1>2, <1>3

\* The machine stops: what no fsync covered may be gone, nobody has the lock.
LEMMA PowerLossStep ==
  ASSUME LedgerInv, PowerLoss
  PROVE  LedgerInv'
<1>0. /\ file \in Seq(Event \cup {Garbage}) /\ Len(file) \in Nat
      /\ Intact(file) /\ durable \in 0..Len(file) /\ tail \in Event \cup {None}
      /\ stops \in 0..MaxStops /\ MaxStops \in Nat
      /\ acked \subseteq Ids /\ acked \subseteq IdsOf(SubSeq(file, 1, durable))
  BY LenProperties, RunLedgerAssumption DEF LedgerInv, TypeOK
<1>1. PICK n \in durable..Len(file) :
        /\ file' = SubSeq(file, 1, n) /\ durable' = n
        /\ \/ tail' = None
           \/ n < Len(file) /\ file[n + 1] # Garbage /\ tail' = file[n + 1]
           \/ n = Len(file) /\ tail' = tail
  BY DEF PowerLoss
<1>2. /\ file' \in Seq(Event \cup {Garbage}) /\ Len(file') = n
      /\ \A i \in 1..n : file'[i] = file[i]
  BY <1>0, <1>1, Start
<1>3. Intact(file')
  BY <1>0, <1>1, IntactStart
<1>4. SubSeq(file', 1, durable) = SubSeq(file, 1, durable)
  BY <1>0, <1>1, <1>2, SameStart
<1>5. SubSeq(file', 1, durable') = file'
  BY <1>1, <1>2, SubSeqFull
<1>6. IdsOf(SubSeq(file', 1, durable)) \subseteq IdsOf(file')
  <2>1. durable \in 0..Len(file')
    BY <1>0, <1>1, <1>2
  <2>2. QED
    BY <1>2, <1>3, <2>1, IntactStart
<1>7. /\ lock' = None /\ acked' = acked /\ stops' \in 0..MaxStops
      /\ pc' = [p \in Processes |-> "idle"] /\ loc' = [p \in Processes |-> NoLocals]
  BY <1>0 DEF PowerLoss
<1>8. acked' \subseteq IdsOf(SubSeq(file', 1, durable'))
  BY <1>0, <1>4, <1>5, <1>6, <1>7
<1>9. NoLocals \in Locals /\ ~NoLocals.torn /\ NoLocals.at = 0
  BY DEF Locals, NoLocals
<1>10. tail' \in Event \cup {None}
  <2>1. n < Len(file) => file[n + 1] \in Event \cup {Garbage}
    BY <1>0, <1>1, ElementOfSeq
  <2>2. QED
    BY <1>0, <1>1, <2>1
<1>11. TypeOK'
  BY <1>0, <1>1, <1>2, <1>7, <1>9, <1>10 DEF TypeOK, PCs
<1>12. \A p \in Processes : Appending(p)' /\ Reading(p)'
  BY <1>0, <1>1, <1>2, <1>7, <1>9 DEF Appending, Reading, Holding
<1>13. QED
  BY <1>3, <1>8, <1>11, <1>12 DEF LedgerInv

LEMMA LedgerInvStep == LedgerInv /\ [Next]_vars => LedgerInv'
<1> SUFFICES ASSUME LedgerInv, [Next]_vars PROVE LedgerInv'
  OBVIOUS
<1>1. CASE Next
  BY <1>1, AppendStep, ReadStep, PowerLossStep DEF Next, Step
<1>2. CASE UNCHANGED vars
  BY <1>2 DEF vars, LedgerInv, TypeOK, Appending, Reading
<1>3. QED
  BY <1>1, <1>2

LEMMA LedgerInvHolds == Spec => []LedgerInv
<1>1. QED
  BY InitLedgerInv, LedgerInvStep, PTL DEF Spec

-----------------------------------------------------------------------------

\* Whatever is written, torn, killed or lost: the file is typed and readable line by
\* line, nothing acknowledged is missing from it, and a snapshot that was returned
\* lacks nothing that was acknowledged before it was begun (locked_append,
\* RunLedger.append, _read_events).
THEOREM FileSurvives == Spec => []LedgerSound
<1>1. LedgerInv => LedgerSound
  <2> SUFFICES ASSUME LedgerInv PROVE LedgerSound
    OBVIOUS
  <2>1. TypeOK /\ Intact(file)
    BY DEF LedgerInv
  <2>2. IdsOf(SubSeq(file, 1, durable)) \subseteq IdsOf(file)
    BY <2>1, IntactStart DEF TypeOK
  <2>3. AcknowledgedSurvive
    BY <2>2 DEF LedgerInv, AcknowledgedSurvive
  <2>4. SnapshotComplete
    BY DEF LedgerInv, Reading, SnapshotComplete
  <2>5. QED
    BY <2>1, <2>3, <2>4 DEF LedgerSound, CompleteLinesReadable
<1>2. QED
  BY <1>1, LedgerInvHolds, PTL

-----------------------------------------------------------------------------
(* The abstract log *)

LogOf(lines) == [i \in DOMAIN lines |-> lines[i].id]

\* The ids of readable lines are the log they implement.
LEMMA LogTyped ==
  ASSUME NEW s \in Seq(Event \cup {Garbage}), Intact(s)
  PROVE  /\ LogOf(s) \in Seq(Ids) /\ Len(LogOf(s)) = Len(s) /\ Len(s) \in Nat
         /\ \A i \in 1..Len(s) : LogOf(s)[i] = s[i].id
         /\ ToSet(LogOf(s)) = IdsOf(s)
<1>1. Len(s) \in Nat /\ DOMAIN s = 1..Len(s)
  BY LenProperties
<1>2. \A i \in 1..Len(s) : s[i] # Garbage /\ s[i].id \in Ids
  <2> SUFFICES ASSUME NEW i \in 1..Len(s) PROVE s[i] # Garbage /\ s[i].id \in Ids
    OBVIOUS
  <2>1. s[i] # Garbage
    BY <1>1 DEF Intact, Accepted
  <2>2. s[i] \in Event
    BY <1>1, <2>1, ElementOfSeq
  <2>3. QED
    BY <2>1, <2>2 DEF Event
<1>3. LogOf(s) \in [1..Len(s) -> Ids]
  BY <1>1, <1>2 DEF LogOf
<1>4. LogOf(s) \in Seq(Ids) /\ Len(LogOf(s)) = Len(s)
  BY <1>1, <1>3, SeqDef, LenProperties
<1>5. ToSet(LogOf(s)) = IdsOf(s)
  BY <1>1, <1>2 DEF ToSet, IdsOf, LogOf
<1>6. QED
  BY <1>1, <1>3, <1>4, <1>5 DEF LogOf

\* A line added at the end is a fact added at the end.
LEMMA LogAppend ==
  ASSUME NEW s \in Seq(Event \cup {Garbage}), Intact(s), NEW e \in Event,
         Intact(Append(s, e))
  PROVE  LogOf(Append(s, e)) = Append(LogOf(s), e.id)
<1> DEFINE t == Append(s, e)
<1>1. /\ t \in Seq(Event \cup {Garbage}) /\ Len(t) = Len(s) + 1
      /\ \A i \in 1..Len(s) : t[i] = s[i]
      /\ t[Len(s) + 1] = e
  BY AppendProperties
<1> HIDE DEF t
<1>2. Intact(t) /\ e.id \in Ids
  BY DEF t, Event
<1>3. /\ LogOf(s) \in Seq(Ids) /\ Len(LogOf(s)) = Len(s) /\ Len(s) \in Nat
      /\ \A i \in 1..Len(s) : LogOf(s)[i] = s[i].id
  BY LogTyped
<1>4. /\ LogOf(t) \in Seq(Ids) /\ Len(LogOf(t)) = Len(t)
      /\ \A i \in 1..Len(t) : LogOf(t)[i] = t[i].id
  BY <1>1, <1>2, LogTyped
<1>5. /\ Append(LogOf(s), e.id) \in Seq(Ids) /\ Len(Append(LogOf(s), e.id)) = Len(s) + 1
      /\ \A i \in 1..Len(s) : Append(LogOf(s), e.id)[i] = s[i].id
      /\ Append(LogOf(s), e.id)[Len(s) + 1] = e.id
  BY <1>2, <1>3, AppendProperties
<1>6. \A i \in 1..Len(LogOf(t)) : LogOf(t)[i] = Append(LogOf(s), e.id)[i]
  BY <1>1, <1>3, <1>4, <1>5
<1>7. QED
  BY <1>1, <1>3, <1>4, <1>5, <1>6, SeqEqual DEF t

\* The first lines are the first facts.
LEMMA LogStart ==
  ASSUME NEW s \in Seq(Event \cup {Garbage}), Intact(s), NEW n \in 0..Len(s)
  PROVE  IsPrefix(LogOf(SubSeq(s, 1, n)), LogOf(s))
<1> DEFINE t == SubSeq(s, 1, n)
<1>1. t \in Seq(Event \cup {Garbage}) /\ Len(t) = n /\ \A i \in 1..n : t[i] = s[i]
  BY Start
<1>2. Intact(t)
  BY IntactStart
<1> HIDE DEF t
<1>3. /\ LogOf(s) \in Seq(Ids) /\ Len(LogOf(s)) = Len(s) /\ Len(s) \in Nat
      /\ \A i \in 1..Len(s) : LogOf(s)[i] = s[i].id
  BY LogTyped
<1>4. /\ LogOf(t) \in Seq(Ids) /\ Len(LogOf(t)) = n
      /\ \A i \in 1..n : LogOf(t)[i] = t[i].id
  BY <1>1, <1>2, LogTyped
<1>5. SubSeq(LogOf(t), 1, n) = SubSeq(LogOf(s), 1, n)
  BY <1>1, <1>3, <1>4, SameStart
<1>6. QED
  BY <1>3, <1>4, <1>5 DEF IsPrefix, t

LEMMA StepSimulated ==
  ASSUME LedgerInv, LedgerInv', [Next]_vars
  PROVE  [AbstractLog!Next]_<<LogOf(file), acked>>
<1>0. /\ file \in Seq(Event \cup {Garbage}) /\ Intact(file)
      /\ \A p \in Processes : Appending(p)
  BY DEF LedgerInv, TypeOK
<1>1. CASE UNCHANGED <<file, acked>>
  BY <1>1 DEF LogOf
<1>2. ASSUME NEW p \in Processes, WriteRest(p) PROVE AbstractLog!Add
  <2>1. /\ pc[p] \in {"writing", "written_some"} /\ ~loc[p].torn
        /\ file' = Append(file, loc[p].event) /\ acked' = acked
    BY <1>0, <1>2 DEF WriteRest, Appending
  <2>2. loc[p].event \in Event /\ loc[p].event.id \notin IdsOf(file) /\ loc[p].event.id \in Ids
    BY <1>0, <2>1 DEF Appending, Holding, Event
  <2>3. Intact(Append(file, loc[p].event))
    BY <2>1 DEF LedgerInv
  <2>4. LogOf(file') = Append(LogOf(file), loc[p].event.id) /\ ToSet(LogOf(file)) = IdsOf(file)
    BY <1>0, <2>1, <2>2, <2>3, LogAppend, LogTyped
  <2>5. \E x \in Ids \ ToSet(LogOf(file)) : LogOf(file') = Append(LogOf(file), x)
    BY <2>2, <2>4
  <2>6. QED
    BY <2>1, <2>5 DEF AbstractLog!Add, AbstractLog!ToSet, ToSet, LogOf
<1>3. ASSUME NEW p \in Processes, Release(p) PROVE AbstractLog!Acknowledge
  <2>1. /\ pc[p] = "unlocking" /\ acked' = acked \cup {loc[p].event.id} /\ file' = file
    BY <1>3 DEF Release, disk
  <2>2. \E x \in ToSet(LogOf(file)) : acked' = acked \cup {x}
    BY <1>0, <2>1, LogTyped DEF Appending
  <2>3. LogOf(file') = LogOf(file)
    BY <2>1
  <2>4. QED
    BY <2>2, <2>3 DEF AbstractLog!Acknowledge, AbstractLog!ToSet, ToSet, LogOf
<1>4. CASE PowerLoss
  <2>1. PICK n \in durable..Len(file) : file' = SubSeq(file, 1, n) /\ acked' = acked
    BY <1>4 DEF PowerLoss
  <2>2. n \in 0..Len(file)
    BY <1>0, <2>1, LenProperties DEF LedgerInv, TypeOK
  <2>3. IsPrefix(LogOf(file'), LogOf(file))
    BY <1>0, <2>1, <2>2, LogStart
  <2>4. /\ file' \in Seq(Event \cup {Garbage}) /\ Intact(file') /\ durable' \in 0..Len(file')
        /\ acked' \subseteq IdsOf(SubSeq(file', 1, durable'))
    BY DEF LedgerInv, TypeOK
  <2>5. acked \subseteq ToSet(LogOf(file'))
    <3>1. ToSet(LogOf(file')) = IdsOf(file')
      BY <2>4, LogTyped
    <3>2. IdsOf(SubSeq(file', 1, durable')) \subseteq IdsOf(file')
      BY <2>4, IntactStart
    <3>3. QED
      BY <2>1, <2>4, <3>1, <3>2
  <2>6. QED
    BY <2>1, <2>3, <2>5 DEF AbstractLog!Next, AbstractLog!Lose, AbstractLog!IsPrefix, IsPrefix,
       AbstractLog!ToSet, ToSet, LogOf
<1>5. QED
  <2>1. CASE \E p \in Processes : WriteRest(p) \/ Release(p)
    BY <1>2, <1>3, <2>1 DEF AbstractLog!Next
  <2>2. CASE PowerLoss
    BY <1>4, <2>2
  <2>3. CASE ~PowerLoss /\ ~\E p \in Processes : WriteRest(p) \/ Release(p)
    <3>1. UNCHANGED <<file, acked>>
      BY <2>3 DEF Next, Step, Lock, RefuseAppend, Prepare, Sync, ReadLine, ReadEnd, Finish,
         WriteSome, WriteFails, BeginRead, Die, BeginAppend, disk, vars
    <3>2. QED
      BY <1>1, <3>1
  <2>4. QED
    BY <2>1, <2>2, <2>3

\* The file, one system call at a time and through every stop, is the log of facts
\* that its callers count on: facts are added at its end, an acknowledged one is
\* there, and a stop takes away only what nobody was told of (locked_append).
THEOREM LedgerImplementsLog == Spec => ImplementsLog
<1>1. Init => AbstractLog!Init
  <2> SUFFICES ASSUME Init PROVE AbstractLog!Init
    OBVIOUS
  <2>1. file \in Seq(Event \cup {Garbage}) /\ Intact(file) /\ Len(file) = 0
    BY InitLedgerInv, EmptySeq DEF Init, LedgerInv, TypeOK
  <2>2. LogOf(file) = <<>>
    BY <2>1, LogTyped, EmptySeq
  <2>3. QED
    BY <2>2 DEF Init, AbstractLog!Init, LogOf
<1>2. LedgerInv /\ LedgerInv' /\ [Next]_vars => [AbstractLog!Next]_AbstractLog!vars
  BY StepSimulated DEF AbstractLog!vars, LogOf
<1>3. QED
  BY <1>1, <1>2, LedgerInvHolds, PTL DEF Spec, ImplementsLog, AbstractLog!Spec

=============================================================================
