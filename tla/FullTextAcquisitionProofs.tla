---------------------- MODULE FullTextAcquisitionProofs ----------------------
(***************************************************************************)
(* Proofs about FullTextAcquisition and the two components it is made of,  *)
(* ArtifactStore and AcquisitionCache, for any number of callers, bodies   *)
(* and types.  Neither component is disturbed by the other: a step of the  *)
(* whole is a step of the cache or none, and a step of the store or none,  *)
(* so what is shown of the store alone holds in the whole.  The argument   *)
(* for both is that their files only appear, never change and never go, so *)
(* what a caller has seen or written of them is still so when it acts.     *)
(***************************************************************************)
EXTENDS FullTextAcquisition, TLAPS, FiniteSetTheorems

(***************************************************************************)
(* The store                                                               *)
(***************************************************************************)

\* What each caller knows from its place in the code.
Knows(c) ==
  /\ pc[c] \in {"object", "linking object", "metadata", "linking metadata", "answering"}
       => mine[c] \in Record
  /\ pc[c] \in {"metadata", "linking metadata", "answering"} => object
  /\ pc[c] = "answering" => record # None
  /\ pc[c] = "reading" => mine[c] = record /\ record # None

\* What was returned is the record that is there, and the call agreed with it.
Told ==
  /\ \A r \in reads : r = record
  /\ \A a \in answers : a[2] = record /\ a[1].media = record.media

StoreInv ==
  /\ TypeOK
  /\ record # None => object
  /\ \A c \in Callers : Knows(c)
  /\ Told

\* Neither file is ever changed or taken away.
Grows == (object => object') /\ (record # None => record' = record)

-----------------------------------------------------------------------------

LEMMA InitStoreInv == Init => StoreInv
<1> SUFFICES ASSUME Init PROVE StoreInv
  OBVIOUS
<1>1. TypeOK
  BY DEF Init, TypeOK
<1>2. QED
  BY <1>1 DEF Init, StoreInv, Knows, Told

\* The invariant of the callers that do not act follows from that of the files.
LEMMA OthersKnow ==
  ASSUME StoreInv, Grows, record' \in Record \cup {None},
         NEW c \in Callers, NEW l, NEW m,
         pc' = [pc EXCEPT ![c] = l], mine' = [mine EXCEPT ![c] = m]
  PROVE  \A d \in Callers : d # c => Knows(d)'
<1> SUFFICES ASSUME NEW d \in Callers, d # c PROVE Knows(d)'
  OBVIOUS
<1>1. pc'[d] = pc[d] /\ mine'[d] = mine[d]
  BY DEF StoreInv, TypeOK
<1>2. Knows(d)
  BY DEF StoreInv
<1>3. QED
  BY <1>1, <1>2, NoneIsNoRecord DEF Knows, Grows

LEMMA PutStep ==
  ASSUME StoreInv, NEW c \in Callers, Put(c)
  PROVE  StoreInv' /\ Grows
<1>0. TypeOK /\ Knows(c) /\ Told /\ (record # None => object)
  BY DEF StoreInv
<1>1. ASSUME NEW m \in Media, NEW s \in Schemas \cup {None}, BeginPut(c, m, s)
      PROVE  StoreInv' /\ Grows
  <2> DEFINE r == [media |-> m, schema |-> s, by |-> c]
  <2>1. r \in Record
    BY DEF Record
  <2>2. /\ pc' = [pc EXCEPT ![c] = "object"] /\ mine' = [mine EXCEPT ![c] = r]
        /\ UNCHANGED <<object, record, answers, reads>>
    BY <1>1 DEF BeginPut, Goto, Keep
  <2>3. TypeOK' /\ Told' /\ Grows
    BY <1>0, <2>1, <2>2 DEF TypeOK, Told, Grows
  <2>4. Knows(c)'
    BY <1>0, <2>1, <2>2 DEF TypeOK, Knows
  <2>5. QED
    BY <1>0, <2>2, <2>3, <2>4, OthersKnow DEF StoreInv, TypeOK
<1>2. CASE FindObject(c) \/ LinkObject(c)
  <2> DEFINE l == IF FindObject(c) /\ ~object THEN "linking object" ELSE "metadata"
  <2>1. /\ pc' = [pc EXCEPT ![c] = l]
        /\ l = "metadata" => object'
        /\ pc[c] \in {"object", "linking object"}
        /\ object => object'
        /\ object' \in BOOLEAN
        /\ UNCHANGED <<record, mine, answers, reads>>
    <3>1. CASE FindObject(c)
      BY <1>0, <3>1 DEF FindObject, Goto, TypeOK
    <3>2. CASE LinkObject(c)
      <4>1. ~FindObject(c)
        BY <3>2 DEF FindObject, LinkObject
      <4>2. QED
        BY <3>2, <4>1 DEF LinkObject, Goto
    <3>3. QED
      BY <1>2, <3>1, <3>2
  <2>2. mine' = [mine EXCEPT ![c] = mine[c]] /\ l \in {"linking object", "metadata"}
    BY <1>0, <2>1 DEF TypeOK
  <2> HIDE DEF l
  <2>3. TypeOK' /\ Told' /\ Grows
    BY <1>0, <2>1, <2>2 DEF TypeOK, Told, Grows
  <2>4. Knows(c)'
    BY <1>0, <2>1, <2>2 DEF TypeOK, Knows
  <2>5. QED
    BY <1>0, <2>1, <2>2, <2>3, <2>4, OthersKnow DEF StoreInv, TypeOK, Grows
<1>3. CASE FindRecord(c) \/ LinkRecord(c)
  <2>1. PICK l \in {"linking metadata", "answering"} :
          /\ pc' = [pc EXCEPT ![c] = l]
          /\ l = "answering" => record' # None
          /\ pc[c] \in {"metadata", "linking metadata"}
          /\ record' = record \/ (record = None /\ record' = mine[c])
          /\ UNCHANGED <<object, mine, answers, reads>>
    BY <1>0, <1>3, NoneIsNoRecord DEF FindRecord, LinkRecord, Goto, Knows
  <2>2. mine' = [mine EXCEPT ![c] = mine[c]] /\ mine[c] \in Record /\ object
    BY <1>0, <2>1 DEF TypeOK, Knows
  <2>3. TypeOK' /\ Grows
    BY <1>0, <2>1, <2>2 DEF TypeOK, Grows
  <2>4. Told'
    BY <1>0, <2>1, NoneIsNoRecord DEF TypeOK, Told
  <2>5. Knows(c)'
    BY <1>0, <2>1, <2>2 DEF TypeOK, Knows
  <2>6. QED
    BY <1>0, <2>1, <2>2, <2>3, <2>4, <2>5, OthersKnow DEF StoreInv, TypeOK
<1>4. CASE LinkRaises(c)
  <2>1. /\ pc' = [pc EXCEPT ![c] = "idle"] /\ mine' = [mine EXCEPT ![c] = None]
        /\ object => object'
        /\ object' \in BOOLEAN
        /\ record' = record \/ (record = None /\ record' = mine[c] /\ object)
        /\ pc[c] \in {"linking object", "linking metadata"}
        /\ UNCHANGED <<answers, reads>>
    BY <1>0, <1>4 DEF LinkRaises, Leave, Goto, Keep, Knows, TypeOK
  <2>2. mine[c] \in Record
    BY <1>0, <2>1 DEF Knows
  <2>3. TypeOK' /\ Grows
    BY <1>0, <2>1, <2>2 DEF TypeOK, Grows
  <2>4. Told'
    BY <1>0, <2>1, NoneIsNoRecord DEF TypeOK, Told
  <2>5. Knows(c)'
    BY <1>0, <2>1 DEF TypeOK, Knows
  <2>6. (record # None => object)'
    BY <1>0, <2>1
  <2>7. QED
    BY <2>1, <2>3, <2>4, <2>5, <2>6, OthersKnow DEF StoreInv, TypeOK
<1>5. CASE Answer(c)
  <2>1. /\ pc' = [pc EXCEPT ![c] = "idle"] /\ mine' = [mine EXCEPT ![c] = None]
        /\ pc[c] = "answering"
        /\ \/ answers' = answers
           \/ /\ answers' = answers \cup {<<mine[c], record>>}
              /\ record.media = mine[c].media
        /\ UNCHANGED <<object, record, reads>>
    BY <1>5 DEF Answer, Leave, Goto, Keep, Compatible
  <2>2. mine[c] \in Record /\ record \in Record
    BY <1>0, <2>1 DEF Knows, TypeOK
  <2>3. TypeOK' /\ Grows
    <3>1. <<mine[c], record>> \in Record \X Record
      BY <2>2
    <3>2. answers' \subseteq Record \X Record
      BY <1>0, <2>1, <3>1 DEF TypeOK
    <3>3. QED
      BY <1>0, <2>1, <3>2 DEF TypeOK, Grows
  <2>4. Told'
    BY <1>0, <2>1 DEF Told
  <2>5. Knows(c)'
    BY <1>0, <2>1 DEF TypeOK, Knows
  <2>6. QED
    BY <1>0, <2>1, <2>3, <2>4, <2>5, OthersKnow DEF StoreInv, TypeOK
<1>6. QED
  BY <1>1, <1>2, <1>3, <1>4, <1>5 DEF Put

LEMMA ReadStep ==
  ASSUME StoreInv, NEW c \in Callers, ReadRecord(c) \/ ReadObject(c) \/ Die(c)
  PROVE  StoreInv' /\ Grows
<1>0. TypeOK /\ Knows(c) /\ Told /\ (record # None => object)
  BY DEF StoreInv
<1>1. CASE ReadRecord(c)
  <2>1. /\ pc' = [pc EXCEPT ![c] = "reading"] /\ mine' = [mine EXCEPT ![c] = record]
        /\ record # None
        /\ UNCHANGED <<object, record, answers, reads>>
    BY <1>1 DEF ReadRecord, Goto, Keep
  <2>2. TypeOK' /\ Told' /\ Grows
    BY <1>0, <2>1 DEF TypeOK, Told, Grows
  <2>3. Knows(c)'
    BY <1>0, <2>1 DEF TypeOK, Knows
  <2>4. QED
    BY <1>0, <2>1, <2>2, <2>3, OthersKnow DEF StoreInv, TypeOK
<1>2. CASE ReadObject(c) \/ Die(c)
  <2>1. /\ pc' = [pc EXCEPT ![c] = "idle"] /\ mine' = [mine EXCEPT ![c] = None]
        /\ reads' = reads \/ (pc[c] = "reading" /\ reads' = reads \cup {mine[c]})
        /\ UNCHANGED <<object, record, answers>>
    BY <1>2 DEF ReadObject, Die, Leave, Goto, Keep
  <2>2. pc[c] = "reading" => mine[c] = record /\ mine[c] \in Record
    BY <1>0 DEF Knows, TypeOK
  <2>3. TypeOK' /\ Told' /\ Grows
    BY <1>0, <2>1, <2>2 DEF TypeOK, Told, Grows
  <2>4. Knows(c)'
    BY <1>0, <2>1 DEF TypeOK, Knows
  <2>5. QED
    BY <1>0, <2>1, <2>3, <2>4, OthersKnow DEF StoreInv, TypeOK
<1>3. QED
  BY <1>1, <1>2

LEMMA StoreInvStep == StoreInv /\ [Next]_vars => StoreInv' /\ [Grows]_vars
<1> SUFFICES ASSUME StoreInv, [Next]_vars PROVE StoreInv' /\ [Grows]_vars
  OBVIOUS
<1>1. CASE Next
  BY <1>1, PutStep, ReadStep DEF Next
<1>2. CASE UNCHANGED vars
  BY <1>2 DEF vars, StoreInv, TypeOK, Knows, Told
<1>3. QED
  BY <1>1, <1>2

LEMMA StoreInvHolds == Spec => []StoreInv
<1>1. QED
  BY InitStoreInv, StoreInvStep, PTL DEF Spec

-----------------------------------------------------------------------------

\* Whatever overlaps, fails or dies, every put and every read of a content was
\* told the same record (put, _existing_record).
THEOREM OneRecordForAll == Spec => []OneRecord
<1>1. StoreInv => OneRecord
  BY DEF StoreInv, Told, OneRecord
<1>2. QED
  BY <1>1, StoreInvHolds, PTL

\* A record never stands without its object (the order of put's two links).
THEOREM RecordAfterObject == Spec => []RecordHasObject
<1>1. StoreInv => RecordHasObject
  BY DEF StoreInv, Knows, RecordHasObject
<1>2. QED
  BY <1>1, StoreInvHolds, PTL

\* No two callers whose puts succeeded differ about the media type.
THEOREM OneMediaType == Spec => []MediaAgrees
<1>1. StoreInv => MediaAgrees
  BY DEF StoreInv, Told, MediaAgrees
<1>2. QED
  BY <1>1, StoreInvHolds, PTL

\* A published file is never replaced or removed (_publish_no_replace).
THEOREM NothingReplaced == Spec => [][Grows]_vars
<1>1. QED
  BY InitStoreInv, StoreInvStep, PTL DEF Spec

-----------------------------------------------------------------------------
(***************************************************************************)
(* The cache, and the whole                                                *)
(***************************************************************************)

Places == {"idle", "fetching", "put", "probing", "body", "entry", "linking", "left"}

\* What a fetcher at l with locals x knows of the body file b and the manifest m.
Holds(l, x, b, m) ==
  /\ l \in {"fetching", "put", "probing", "body", "entry", "linking"} => x.retrieved \in Stamps
  /\ l \in {"put", "probing", "body", "entry", "linking"} => x.body \in Bodies
  /\ l = "probing" /\ x.sawEntry => m # None
  /\ l \in {"entry", "linking"} => b = x.body
  /\ l = "left" /\ x.outcome = "hit" => x.entry \in Cache!Manifest
  /\ l = "left" /\ x.outcome = "filled" => x.retrieved \in Stamps

CacheInv ==
  /\ Cache!TypeOK
  /\ Cache!ManifestDescribesBody
  /\ \A b \in given : b = bodyFile
  /\ \A c \in Callers : Holds(fetching[c], loc[c], bodyFile, manifestFile)

CacheGrows ==
  /\ bodyFile # None => bodyFile' = bodyFile
  /\ manifestFile # None => manifestFile' = manifestFile

-----------------------------------------------------------------------------
(* The composition *)

LEMMA StepOfCache == [AcquisitionNext]_all => [Cache!Next]_Cache!vars
<1>1. ASSUME NEW c \in Callers, Fetch(c) PROVE Cache!Next
  BY <1>1 DEF Fetch, Cache!Next
<1>2. ASSUME NEW c \in Callers, Acquired(c) PROVE Cache!Next
  BY <1>2 DEF Acquired, Cache!Next, Cache!Step
<1>3. ASSUME NEW c \in Callers, Elsewhere(c) PROVE UNCHANGED Cache!vars
  BY <1>3 DEF Elsewhere, cache, Cache!vars
<1>4. QED
  BY <1>1, <1>2, <1>3 DEF AcquisitionNext, all, cache, Cache!vars

\* What acquire_full_text hands to the store has a content type.
LEMMA SeenTypeIsMedia ==
  ASSUME CacheInv, NEW c \in Callers, Acquired(c)
  PROVE  SeenType(c) \in Media
<1>1. Holds(fetching[c], loc[c], bodyFile, manifestFile)
  BY DEF CacheInv
<1>2. /\ fetching[c] = "left" /\ loc[c].outcome \in {"hit", "filled"}
  BY DEF Acquired
<1>3. CASE loc[c].outcome = "hit"
  <2>1. loc[c].entry.retrieved \in Stamps
    BY <1>1, <1>2, <1>3 DEF Holds, Cache!Manifest
  <2>2. QED
    BY <1>3, <2>1, AcquisitionAssumption DEF SeenType
<1>4. CASE loc[c].outcome = "filled"
  BY <1>1, <1>2, <1>4, AcquisitionAssumption DEF Holds, SeenType
<1>5. QED
  BY <1>2, <1>3, <1>4

LEMMA StepOfStore == CacheInv /\ [AcquisitionNext]_all => [Next]_vars
<1>1. ASSUME NEW c \in Callers, Fetch(c) PROVE UNCHANGED vars
  BY <1>1 DEF Fetch
<1>2. ASSUME CacheInv, NEW c \in Callers, Acquired(c) PROVE Next
  <2>1. SeenType(c) \in Media /\ BeginPut(c, SeenType(c), None)
    BY <1>2, SeenTypeIsMedia DEF Acquired
  <2>2. QED
    BY <2>1 DEF Next, Put
<1>3. ASSUME NEW c \in Callers, Elsewhere(c) PROVE Next
  BY <1>3 DEF Elsewhere, Next
<1>4. QED
  BY <1>1, <1>2, <1>3 DEF AcquisitionNext, all

-----------------------------------------------------------------------------
(* The cache *)

LEMMA NoLocalsFit == Cache!NoLocals \in Cache!Locals /\ \A b, m : Holds("idle", Cache!NoLocals, b, m)
BY DEF Cache!NoLocals, Cache!Locals, Holds

LEMMA InitCacheInv == Cache!Init => CacheInv
<1> SUFFICES ASSUME Cache!Init PROVE CacheInv
  OBVIOUS
<1>1. Cache!TypeOK
  BY NoLocalsFit, AcquisitionAssumption DEF Cache!Init, Cache!TypeOK
<1>2. QED
  BY <1>1, NoLocalsFit DEF Cache!Init, CacheInv, Cache!ManifestDescribesBody

\* The parts of the invariant a step of c starts from.
LEMMA CacheParts ==
  ASSUME CacheInv, NEW c \in Callers
  PROVE  /\ loc[c] \in Cache!Locals /\ Holds(fetching[c], loc[c], bodyFile, manifestFile)
         /\ bodyFile \in Bodies \cup {None} /\ manifestFile \in Cache!Manifest \cup {None}
         /\ manifestFile # None => bodyFile = manifestFile.body
         /\ given \subseteq Bodies /\ \A b \in given : b = bodyFile
         /\ deaths \in 0..MaxDeaths /\ MaxDeaths \in Nat /\ None \notin Bodies
BY AcquisitionAssumption DEF CacheInv, Cache!TypeOK, Cache!ManifestDescribesBody

\* A step of one fetcher, to l with locals x.
LEMMA FetcherMoves ==
  ASSUME CacheInv, NEW c \in Callers, NEW l \in Places, NEW x \in Cache!Locals,
         fetching' = [fetching EXCEPT ![c] = l], loc' = [loc EXCEPT ![c] = x],
         bodyFile' \in Bodies \cup {None}, manifestFile' \in Cache!Manifest \cup {None},
         CacheGrows, manifestFile' # None => bodyFile' = manifestFile'.body,
         given' \subseteq Bodies, \A b \in given' : b = bodyFile',
         deaths' \in 0..MaxDeaths,
         Holds(l, x, bodyFile', manifestFile')
  PROVE  CacheInv'
<1>1. Cache!TypeOK'
  BY DEF CacheInv, Cache!TypeOK, Places
<1>2. ASSUME NEW d \in Callers PROVE Holds(fetching'[d], loc'[d], bodyFile', manifestFile')
  <2>1. CASE d = c
    BY <2>1 DEF CacheInv, Cache!TypeOK
  <2>2. CASE d # c
    <3>1. fetching'[d] = fetching[d] /\ loc'[d] = loc[d]
      BY <2>2 DEF CacheInv, Cache!TypeOK
    <3>2. Holds(fetching[d], loc[d], bodyFile, manifestFile) /\ None \notin Bodies
      BY CacheParts
    <3>3. QED
      BY <3>1, <3>2 DEF Holds, CacheGrows
  <2>3. QED
    BY <2>1, <2>2
<1>3. QED
  BY <1>1, <1>2 DEF CacheInv, Cache!ManifestDescribesBody

\* A step that leaves the files and the answers alone.
LEMMA FetcherAlone ==
  ASSUME CacheInv, NEW c \in Callers, NEW l \in Places, NEW x \in Cache!Locals,
         fetching' = [fetching EXCEPT ![c] = l], loc' = [loc EXCEPT ![c] = x],
         UNCHANGED <<bodyFile, manifestFile, given>>, deaths' \in 0..MaxDeaths,
         Holds(l, x, bodyFile, manifestFile)
  PROVE  CacheInv'
<1>1. /\ bodyFile' \in Bodies \cup {None} /\ manifestFile' \in Cache!Manifest \cup {None}
      /\ manifestFile' # None => bodyFile' = manifestFile'.body
      /\ given' \subseteq Bodies /\ \A b \in given' : b = bodyFile'
      /\ Holds(l, x, bodyFile', manifestFile')
  BY CacheParts
<1>2. CacheGrows
  BY DEF CacheGrows
<1>3. QED
  BY <1>1, <1>2, FetcherMoves

\* _verified_cache_entry, with the entry and the bytes at hand.
LEMMA AnswerMoves ==
  ASSUME CacheInv, NEW c \in Callers, NEW o \in {"hit", "filled"},
         NEW e \in Cache!Manifest \cup {None}, NEW b \in Bodies,
         Cache!Answer(c, o, e, b), o = "hit" => e \in Cache!Manifest,
         o = "filled" => loc[c].retrieved \in Stamps
  PROVE  /\ given' \subseteq given \cup {b}
         /\ \E x \in Cache!Locals :
              /\ fetching' = [fetching EXCEPT ![c] = "left"] /\ loc' = [loc EXCEPT ![c] = x]
              /\ \A f, m : Holds("left", x, f, m)
<1>0. loc[c] \in Cache!Locals
  BY CacheParts
<1>1. CASE e.body = b
  <2> DEFINE x == [loc[c] EXCEPT !.outcome = o, !.entry = e, !.body = b]
  <2>1. /\ fetching' = [fetching EXCEPT ![c] = "left"] /\ loc' = [loc EXCEPT ![c] = x]
        /\ given' = given \cup {b}
    BY <1>1 DEF Cache!Answer, Cache!Goto, CacheInv, Cache!TypeOK
  <2>2. x \in Cache!Locals /\ x.outcome = o /\ x.entry = e /\ x.retrieved = loc[c].retrieved
    BY <1>0 DEF Cache!Locals
  <2> HIDE DEF x
  <2>3. \A f, m : Holds("left", x, f, m)
    BY <2>2 DEF Holds
  <2>4. QED
    BY <2>1, <2>2, <2>3
<1>2. CASE e.body # b
  <2> DEFINE x == [loc[c] EXCEPT !.outcome = "raised"]
  <2>1. /\ fetching' = [fetching EXCEPT ![c] = "left"] /\ loc' = [loc EXCEPT ![c] = x]
        /\ given' = given
    BY <1>2 DEF Cache!Answer, Cache!Leave, Cache!Goto
  <2>2. x \in Cache!Locals /\ x.outcome = "raised"
    BY <1>0 DEF Cache!Locals
  <2> HIDE DEF x
  <2>3. \A f, m : Holds("left", x, f, m)
    BY <2>2 DEF Holds
  <2>4. QED
    BY <2>1, <2>2, <2>3
<1>3. QED
  BY <1>1, <1>2

\* A fetcher that gives up.
LEMMA LeaveMoves ==
  ASSUME CacheInv, NEW c \in Callers, NEW o \in {"status", "raised"}, Cache!Leave(c, o)
  PROVE  \E x \in Cache!Locals :
           /\ fetching' = [fetching EXCEPT ![c] = "left"] /\ loc' = [loc EXCEPT ![c] = x]
           /\ \A f, m : Holds("left", x, f, m)
<1> DEFINE x == [loc[c] EXCEPT !.outcome = o]
<1>0. loc[c] \in Cache!Locals
  BY CacheParts
<1>1. fetching' = [fetching EXCEPT ![c] = "left"] /\ loc' = [loc EXCEPT ![c] = x]
  BY DEF Cache!Leave, Cache!Goto
<1>2. x \in Cache!Locals /\ x.outcome = o
  BY <1>0 DEF Cache!Locals
<1> HIDE DEF x
<1>3. \A f, m : Holds("left", x, f, m)
  BY <1>2 DEF Holds
<1>4. QED
  BY <1>1, <1>2, <1>3

LEMMA LocSame == CacheInv /\ UNCHANGED loc => \A c \in Callers : loc' = [loc EXCEPT ![c] = loc[c]]
BY DEF CacheInv, Cache!TypeOK

\* Neither the files nor the answers are touched.
LEMMA FetchStep ==
  ASSUME CacheInv, NEW c \in Callers,
         \/ Cache!GetMiss(c) \/ Cache!GetPartial(c) \/ Cache!FetchSucceeds(c) \/ Cache!FetchFails(c)
         \/ Cache!ProbeEntry(c) \/ Cache!ProbeBody(c) \/ Cache!Finish(c) \/ Cache!Die(c)
  PROVE  CacheInv'
<1>0. /\ loc[c] \in Cache!Locals /\ Holds(fetching[c], loc[c], bodyFile, manifestFile)
      /\ deaths \in 0..MaxDeaths /\ MaxDeaths \in Nat
  BY CacheParts
<1>1. /\ UNCHANGED <<bodyFile, manifestFile, given>>
      /\ deaths' = deaths \/ (deaths < MaxDeaths /\ deaths' = deaths + 1)
  BY DEF Cache!GetMiss, Cache!GetPartial, Cache!FetchSucceeds, Cache!FetchFails, Cache!ProbeEntry,
         Cache!ProbeBody, Cache!Finish, Cache!Die, Cache!files
<1>2. deaths' \in 0..MaxDeaths
  BY <1>0, <1>1
<1>3. CASE \E o \in {"status", "raised"} : Cache!Leave(c, o)
  <2>1. PICK x \in Cache!Locals :
          /\ fetching' = [fetching EXCEPT ![c] = "left"] /\ loc' = [loc EXCEPT ![c] = x]
          /\ Holds("left", x, bodyFile, manifestFile)
    BY <1>3, LeaveMoves
  <2>2. QED
    BY <1>1, <1>2, <2>1, FetcherAlone DEF Places
<1>4. CASE Cache!Finish(c) \/ Cache!Die(c)
  <2>1. fetching' = [fetching EXCEPT ![c] = "idle"] /\ loc' = [loc EXCEPT ![c] = Cache!NoLocals]
    BY <1>4 DEF Cache!Finish, Cache!Die, Cache!Goto
  <2>2. "idle" \in Places
    BY DEF Places
  <2>3. QED
    BY <1>1, <1>2, <2>1, <2>2, NoLocalsFit, FetcherAlone
<1>5. CASE Cache!GetMiss(c)
  <2>1. PICK t \in Stamps : loc' = [loc EXCEPT ![c] = [Cache!NoLocals EXCEPT !.retrieved = t]]
    BY <1>5 DEF Cache!GetMiss
  <2> DEFINE x == [Cache!NoLocals EXCEPT !.retrieved = t]
  <2>2. fetching' = [fetching EXCEPT ![c] = "fetching"] /\ loc' = [loc EXCEPT ![c] = x]
    BY <1>5, <2>1 DEF Cache!GetMiss, Cache!Goto
  <2>3. x \in Cache!Locals /\ x.retrieved \in Stamps
    BY DEF Cache!Locals, Cache!NoLocals
  <2> HIDE DEF x
  <2>4. "fetching" \in Places /\ Holds("fetching", x, bodyFile, manifestFile)
    BY <2>3 DEF Holds, Places
  <2>5. QED
    BY <1>1, <1>2, <2>2, <2>3, <2>4, FetcherAlone
<1>6. CASE Cache!FetchSucceeds(c)
  <2>1. PICK b \in Bodies : loc' = [loc EXCEPT ![c].body = b]
    BY <1>6 DEF Cache!FetchSucceeds
  <2> DEFINE x == [loc[c] EXCEPT !.body = b]
  <2>2. /\ fetching[c] = "fetching"
        /\ fetching' = [fetching EXCEPT ![c] = "put"] /\ loc' = [loc EXCEPT ![c] = x]
    BY <1>6, <2>1 DEF Cache!FetchSucceeds, Cache!Goto
  <2>3. x \in Cache!Locals /\ x.body = b /\ x.retrieved = loc[c].retrieved
    BY <1>0 DEF Cache!Locals
  <2> HIDE DEF x
  <2>4. "put" \in Places /\ Holds("put", x, bodyFile, manifestFile)
    BY <1>0, <2>2, <2>3 DEF Holds, Places
  <2>5. QED
    BY <1>1, <1>2, <2>2, <2>3, <2>4, FetcherAlone
<1>7. CASE Cache!ProbeEntry(c)
  <2> DEFINE x == [loc[c] EXCEPT !.sawEntry = (manifestFile # None)]
  <2>2. /\ fetching[c] = "put"
        /\ fetching' = [fetching EXCEPT ![c] = "probing"] /\ loc' = [loc EXCEPT ![c] = x]
    BY <1>7 DEF Cache!ProbeEntry, Cache!Goto
  <2>3. /\ x \in Cache!Locals /\ (x.sawEntry => manifestFile # None)
        /\ x.body = loc[c].body /\ x.retrieved = loc[c].retrieved
    BY <1>0 DEF Cache!Locals
  <2> HIDE DEF x
  <2>4. "probing" \in Places /\ Holds("probing", x, bodyFile, manifestFile)
    BY <1>0, <2>2, <2>3 DEF Holds, Places
  <2>5. QED
    BY <1>1, <1>2, <2>2, <2>3, <2>4, FetcherAlone
<1>8. CASE Cache!ProbeBody(c) /\ ~Cache!Leave(c, "raised")
  <2>1. /\ fetching[c] = "probing" /\ fetching' = [fetching EXCEPT ![c] = "body"]
        /\ loc' = [loc EXCEPT ![c] = loc[c]]
    BY <1>8, LocSame DEF Cache!ProbeBody, Cache!Goto
  <2>2. "body" \in Places /\ Holds("body", loc[c], bodyFile, manifestFile)
    BY <1>0, <2>1 DEF Holds, Places
  <2>3. QED
    BY <1>0, <1>1, <1>2, <2>1, <2>2, FetcherAlone
<1>9. CASE Cache!GetPartial(c) \/ Cache!FetchFails(c)
  BY <1>3, <1>9 DEF Cache!GetPartial, Cache!FetchFails
<1>10. QED
  BY <1>3, <1>4, <1>5, <1>6, <1>7, <1>8, <1>9

\* The body is linked, by this fetcher or before it.
LEMMA CommitBodyStep ==
  ASSUME CacheInv, NEW c \in Callers, Cache!CommitBody(c)
  PROVE  CacheInv'
<1>0. /\ loc[c] \in Cache!Locals /\ Holds(fetching[c], loc[c], bodyFile, manifestFile)
      /\ bodyFile \in Bodies \cup {None} /\ manifestFile \in Cache!Manifest \cup {None}
      /\ manifestFile # None => bodyFile = manifestFile.body
      /\ given \subseteq Bodies /\ \A b \in given : b = bodyFile
      /\ deaths \in 0..MaxDeaths /\ None \notin Bodies
  BY CacheParts
<1>1. /\ fetching[c] = "body" /\ UNCHANGED <<manifestFile, given, deaths>>
      /\ bodyFile' = IF bodyFile = None THEN loc[c].body ELSE bodyFile
  BY DEF Cache!CommitBody
<1>2. loc[c].body \in Bodies
  BY <1>0, <1>1 DEF Holds
<1>3. /\ bodyFile' \in Bodies \cup {None}
      /\ bodyFile # None => bodyFile' = bodyFile
  BY <1>0, <1>1, <1>2
<1>4. /\ manifestFile' # None => bodyFile' = manifestFile'.body
      /\ \A b \in given' : b = bodyFile'
  <2>1. CASE bodyFile # None
    BY <1>0, <1>1, <1>3, <2>1
  <2>2. CASE bodyFile = None
    <3>1. given = {}
      BY <1>0, <2>2
    <3>2. manifestFile = None
      <4>1. manifestFile # None => manifestFile.body \in Bodies
        BY <1>0 DEF Cache!Manifest
      <4>2. QED
        BY <1>0, <2>2, <4>1
    <3>3. QED
      BY <1>1, <3>1, <3>2
  <2>3. QED
    BY <2>1, <2>2
<1>5. PICK l \in Places, x \in Cache!Locals :
        /\ fetching' = [fetching EXCEPT ![c] = l] /\ loc' = [loc EXCEPT ![c] = x]
        /\ Holds(l, x, bodyFile', manifestFile')
  <2>1. CASE Cache!Leave(c, "raised")
    BY <2>1, LeaveMoves DEF Places
  <2>2. CASE ~Cache!Leave(c, "raised")
    <3>1. /\ bodyFile' = loc[c].body /\ fetching' = [fetching EXCEPT ![c] = "entry"]
          /\ loc' = [loc EXCEPT ![c] = loc[c]]
      BY <2>2, LocSame DEF Cache!CommitBody, Cache!Goto
    <3>2. Holds("entry", loc[c], bodyFile', manifestFile')
      BY <1>0, <1>1, <1>2, <3>1 DEF Holds
    <3>3. QED
      BY <1>0, <3>1, <3>2 DEF Places
  <2>3. QED
    BY <2>1, <2>2
<1>6. CacheGrows /\ manifestFile' \in Cache!Manifest \cup {None} /\ given' \subseteq Bodies
      /\ deaths' \in 0..MaxDeaths
  BY <1>0, <1>1, <1>3 DEF CacheGrows
<1>7. QED
  BY <1>3, <1>4, <1>5, <1>6, FetcherMoves

\* The manifest: found, linked by this fetcher, or linked by another meanwhile.
LEMMA EntryStep ==
  ASSUME CacheInv, NEW c \in Callers, Cache!GetHit(c) \/ Cache!CheckEntry(c) \/ Cache!LinkEntry(c)
  PROVE  CacheInv'
<1>0. /\ loc[c] \in Cache!Locals /\ Holds(fetching[c], loc[c], bodyFile, manifestFile)
      /\ bodyFile \in Bodies \cup {None} /\ manifestFile \in Cache!Manifest \cup {None}
      /\ manifestFile # None => bodyFile = manifestFile.body
      /\ given \subseteq Bodies /\ \A b \in given : b = bodyFile
      /\ deaths \in 0..MaxDeaths /\ None \notin Bodies
  BY CacheParts
<1>1. bodyFile' = bodyFile /\ deaths' = deaths
  BY DEF Cache!GetHit, Cache!CheckEntry, Cache!LinkEntry, Cache!files
<1>2. fetching[c] \in {"entry", "linking"} =>
        /\ loc[c].body \in Bodies /\ loc[c].body = bodyFile
        /\ Cache!Mine(c) \in Cache!Manifest /\ Cache!Mine(c).body = bodyFile
        /\ loc[c].retrieved \in Stamps
  BY <1>0 DEF Holds, Cache!Mine, Cache!Manifest
<1>3. /\ manifestFile' \in Cache!Manifest \cup {None}
      /\ manifestFile # None => manifestFile' = manifestFile
      /\ manifestFile' # None => bodyFile' = manifestFile'.body
  <2>1. CASE Cache!GetHit(c) \/ Cache!CheckEntry(c)
    BY <1>0, <1>1, <2>1 DEF Cache!GetHit, Cache!CheckEntry, Cache!files
  <2>2. CASE Cache!LinkEntry(c)
    BY <1>0, <1>1, <1>2, <2>2 DEF Cache!LinkEntry
  <2>3. QED
    BY <2>1, <2>2
<1>4. PICK l \in Places, x \in Cache!Locals :
        /\ fetching' = [fetching EXCEPT ![c] = l] /\ loc' = [loc EXCEPT ![c] = x]
        /\ Holds(l, x, bodyFile', manifestFile')
        /\ given' \subseteq given \cup {bodyFile} /\ given' \subseteq Bodies
  <2>1. CASE Cache!GetHit(c)
    <3>1. /\ bodyFile \in Bodies /\ manifestFile \in Cache!Manifest
          /\ Cache!Answer(c, "hit", manifestFile, bodyFile)
      BY <1>0, <2>1 DEF Cache!GetHit
    <3>2. /\ given' \subseteq given \cup {bodyFile}
          /\ \E x \in Cache!Locals :
               /\ fetching' = [fetching EXCEPT ![c] = "left"] /\ loc' = [loc EXCEPT ![c] = x]
               /\ \A f, m : Holds("left", x, f, m)
      BY <3>1, AnswerMoves
    <3>3. QED
      BY <1>0, <3>1, <3>2 DEF Places
  <2>2. CASE Cache!CheckEntry(c) /\ manifestFile = None
    <3>1. /\ fetching[c] = "entry" /\ fetching' = [fetching EXCEPT ![c] = "linking"]
          /\ loc' = [loc EXCEPT ![c] = loc[c]] /\ given' = given
      BY <2>2, LocSame DEF Cache!CheckEntry, Cache!Goto
    <3>2. Holds("linking", loc[c], bodyFile', manifestFile')
      BY <1>0, <1>1, <3>1 DEF Holds
    <3>3. QED
      BY <1>0, <3>1, <3>2 DEF Places
  <2>3. CASE Cache!CheckEntry(c) /\ manifestFile # None /\ manifestFile # Cache!Mine(c)
    <3>1. Cache!Leave(c, "raised") /\ given' = given
      BY <2>3 DEF Cache!CheckEntry
    <3>2. QED
      BY <1>0, <3>1, LeaveMoves DEF Places
  <2>4. CASE Cache!CheckEntry(c) /\ manifestFile # None /\ manifestFile = Cache!Mine(c)
    <3>1. /\ fetching[c] = "entry" /\ Cache!Answer(c, "filled", manifestFile, loc[c].body)
      BY <2>4 DEF Cache!CheckEntry
    <3>2. /\ given' \subseteq given \cup {loc[c].body}
          /\ \E x \in Cache!Locals :
               /\ fetching' = [fetching EXCEPT ![c] = "left"] /\ loc' = [loc EXCEPT ![c] = x]
               /\ \A f, m : Holds("left", x, f, m)
      BY <1>0, <1>2, <3>1, AnswerMoves
    <3>3. QED
      BY <1>0, <1>2, <3>1, <3>2 DEF Places
  <2>5. CASE Cache!LinkEntry(c)
    <3>1. /\ fetching[c] = "linking" /\ Cache!Answer(c, "filled", manifestFile', loc[c].body)
      BY <2>5 DEF Cache!LinkEntry
    <3>2. /\ given' \subseteq given \cup {loc[c].body}
          /\ \E x \in Cache!Locals :
               /\ fetching' = [fetching EXCEPT ![c] = "left"] /\ loc' = [loc EXCEPT ![c] = x]
               /\ \A f, m : Holds("left", x, f, m)
      BY <1>2, <1>3, <3>1, AnswerMoves
    <3>3. QED
      BY <1>0, <1>2, <3>1, <3>2 DEF Places
  <2>6. QED
    BY <2>1, <2>2, <2>3, <2>4, <2>5
<1>5. /\ CacheGrows /\ bodyFile' \in Bodies \cup {None} /\ deaths' \in 0..MaxDeaths
      /\ \A b \in given' : b = bodyFile'
  BY <1>0, <1>1, <1>3, <1>4 DEF CacheGrows
<1>6. QED
  BY <1>3, <1>4, <1>5, FetcherMoves

LEMMA CacheInvStep == CacheInv /\ [Cache!Next]_Cache!vars => CacheInv'
<1>1. ASSUME CacheInv, NEW c \in Callers,
             Cache!Step(c) \/ Cache!GetMiss(c) \/ Cache!GetHit(c) \/ Cache!GetPartial(c) \/ Cache!Die(c)
      PROVE  CacheInv'
  BY <1>1, FetchStep, CommitBodyStep, EntryStep DEF Cache!Step
<1>2. ASSUME CacheInv, UNCHANGED Cache!vars PROVE CacheInv'
  BY <1>2 DEF Cache!vars, CacheInv, Cache!TypeOK, Cache!ManifestDescribesBody
<1>3. QED
  BY <1>1, <1>2 DEF Cache!Next

LEMMA CacheInvHolds == AcquisitionSpec => []CacheInv
BY InitCacheInv, CacheInvStep, StepOfCache, PTL DEF AcquisitionSpec, AcquisitionInit


-----------------------------------------------------------------------------

\* The files a restart finds belong together and every answer ever given for the
\* request was the same bytes, whichever fetchers raced and died (put,
\* _verified_cache_entry).
THEOREM CacheIsSound == AcquisitionSpec => []CacheSound
<1>1. ASSUME CacheInv PROVE CacheSound
  <2>1. \A a, b \in given : a = b
    BY <1>1 DEF CacheInv
  <2>2. Cardinality(given) <= 1
    <3>1. CASE given = {}
      BY <3>1, FS_EmptySet
    <3>2. CASE given # {}
      <4>1. PICK b \in given : given = {b}
        BY <2>1, <3>2
      <4>2. Cardinality({b}) = 1
        BY FS_Singleton
      <4>3. QED
        BY <4>1, <4>2
    <3>3. QED
      BY <3>1, <3>2
  <2>3. Cache!Cardinality(given) = Cardinality(given)
    BY DEF Cache!Cardinality, Cardinality
  <2>4. Cache!AnswersAgree
    BY <2>2, <2>3 DEF Cache!AnswersAgree
  <2>5. QED
    BY <1>1, <2>4 DEF CacheInv, CacheSound, Cache!CacheSound
<1>2. QED
  BY <1>1, CacheInvHolds, PTL

\* An orphaned body stays one: who could complete it has passed the probe, and
\* nobody passes it any more.
LEMMA OrphansStay ==
  ASSUME CacheInv, Cache!Orphaned, [Cache!Next]_Cache!vars
  PROVE  Cache!Orphaned' /\ given' = given /\ \A c \in Callers : ~Cache!GetMiss(c)
<1>1. /\ bodyFile # None /\ manifestFile = None
      /\ \A c \in Callers : fetching[c] \notin {"body", "entry", "linking"}
  BY DEF Cache!Orphaned
<1>2. \A c \in Callers : ~Cache!GetMiss(c)
  BY <1>1 DEF Cache!GetMiss, Cache!Miss
<1>3. fetching \in [Callers -> Places]
  BY DEF CacheInv, Cache!TypeOK, Places
<1>4. ASSUME NEW c \in Callers,
             Cache!Step(c) \/ Cache!GetMiss(c) \/ Cache!GetHit(c) \/ Cache!GetPartial(c) \/ Cache!Die(c)
      PROVE  Cache!Orphaned' /\ given' = given
  <2>1. \/ Cache!FetchSucceeds(c) \/ Cache!FetchFails(c) \/ Cache!ProbeEntry(c) \/ Cache!ProbeBody(c)
        \/ Cache!Finish(c) \/ Cache!GetPartial(c) \/ Cache!Die(c)
    BY <1>1, <1>2, <1>4 DEF Cache!Step, Cache!CommitBody, Cache!CheckEntry, Cache!LinkEntry,
                            Cache!GetHit
  <2>2. UNCHANGED <<bodyFile, manifestFile, given>>
    BY <2>1 DEF Cache!FetchSucceeds, Cache!FetchFails, Cache!ProbeEntry, Cache!ProbeBody,
                Cache!Finish, Cache!GetPartial, Cache!Die, Cache!files
  <2>3. PICK l \in Places \ {"body", "entry", "linking"} : fetching' = [fetching EXCEPT ![c] = l]
    <3>1. CASE Cache!ProbeBody(c)
      <4>1. fetching[c] = "probing" /\ loc[c].sawEntry \in BOOLEAN
            /\ (loc[c].sawEntry => manifestFile # None)
        BY <3>1, CacheParts DEF Cache!ProbeBody, Holds, Cache!Locals
      <4>2. loc[c].sawEntry # (bodyFile # None)
        BY <1>1, <4>1
      <4>3. Cache!Leave(c, "raised")
        BY <3>1, <4>2 DEF Cache!ProbeBody
      <4>4. fetching' = [fetching EXCEPT ![c] = "left"]
        BY <4>3 DEF Cache!Leave, Cache!Goto
      <4>5. QED
        BY <4>4 DEF Places
    <3>2. CASE ~Cache!ProbeBody(c)
      BY <2>1, <3>2 DEF Cache!FetchSucceeds, Cache!FetchFails, Cache!ProbeEntry, Cache!Finish,
                        Cache!GetPartial, Cache!Die, Cache!Leave, Cache!Goto, Places
    <3>3. QED
      BY <3>1, <3>2
  <2>4. \A d \in Callers : fetching'[d] \notin {"body", "entry", "linking"}
    BY <1>1, <1>3, <2>3
  <2>5. QED
    BY <1>1, <2>2, <2>4 DEF Cache!Orphaned
<1>5. CASE UNCHANGED Cache!vars
  BY <1>1, <1>2, <1>5 DEF Cache!vars, Cache!Orphaned
<1>6. QED
  BY <1>2, <1>4, <1>5 DEF Cache!Next

\* What the cache has come to is final: once an answer was given nobody asks the
\* network again, and a body without a manifest is never served, completed or
\* replaced, also by those who were on their way when it was orphaned (get, put).
THEOREM OutcomeFinal == AcquisitionSpec => OutcomeIsFinal
<1>1. ASSUME CacheInv, [AcquisitionNext]_all
      PROVE  [Cache!OrphanFailsClosed /\ Cache!SettledStaysLocal]_Cache!vars
  <2>1. Cache!OrphanFailsClosed
    BY <1>1, StepOfCache, OrphansStay DEF Cache!OrphanFailsClosed
  <2>2. Cache!SettledStaysLocal
    <3>1. ASSUME NEW c \in Callers, Cache!GetMiss(c) PROVE given = {}
      BY <1>1, <3>1, CacheParts DEF Cache!GetMiss, Cache!Miss
    <3>2. QED
      BY <3>1 DEF Cache!SettledStaysLocal
  <2>3. QED
    BY <2>1, <2>2
<1>2. QED
  BY <1>1, CacheInvHolds, PTL DEF AcquisitionSpec, OutcomeIsFinal, Cache!OutcomeIsFinal

\* What is acquired reaches the store as any put does, so what holds of the store
\* for every sequence of calls holds of it here.
THEOREM AcquisitionKeepsStore == AcquisitionSpec => Spec
BY CacheInvHolds, StepOfStore, PTL DEF AcquisitionSpec, AcquisitionInit, Spec

\* The three promises of the store, with the acquisition cache in front of it and
\* other tools beside it (put, read, verify).
THEOREM StoreSoundInAcquisition ==
  AcquisitionSpec => []OneRecord /\ []RecordHasObject /\ []MediaAgrees
BY AcquisitionKeepsStore, OneRecordForAll, RecordAfterObject, OneMediaType, PTL

=============================================================================
