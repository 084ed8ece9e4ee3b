-------------------------- MODULE AcquisitionCache --------------------------
(***************************************************************************)
(* acquisition/cache.py and AcquisitionService._fetch_request: fetchers    *)
(* that ask for the same request, each going through get, the network and  *)
(* put, with no lock between them.  Different cache identities share no    *)
(* file, so one identity is modelled.                                      *)
(*                                                                         *)
(* The two files are only ever created, the body before the manifest, and  *)
(* by an atomic no-replace link, so get's four existence tests and reads   *)
(* give what one look at its last test would; put's tests do not, and are  *)
(* separate steps.  What the transport does in a fetch is HostGates.       *)
(***************************************************************************)
EXTENDS Naturals, FiniteSets

CONSTANTS
  Fetchers,
  Bodies,      \* byte strings a provider may answer with
  Stamps,      \* retrieved_at values; two fetches may read the same clock
  MaxDeaths,   \* bound
  None

VARIABLES
  bodyFile,      \* bodies/<identity>, or None
  manifestFile,  \* entries/<identity>.json, or None
  pc,
  loc,           \* what each fetcher holds
  answers,       \* history: every 2xx answer handed to a caller
  deaths

files == <<bodyFile, manifestFile>>
vars == <<bodyFile, manifestFile, pc, loc, answers, deaths>>

-----------------------------------------------------------------------------

\* Request binding and status are the same for all fetchers of an identity.
Manifest == [body : Bodies, retrieved : Stamps]

Locals == [body : Bodies \cup {None}, retrieved : Stamps \cup {None},
           sawEntry : BOOLEAN, entry : Manifest \cup {None},
           outcome : {"none", "hit", "filled", "status", "raised"}]
NoLocals == [body |-> None, retrieved |-> None, sawEntry |-> FALSE, entry |-> None,
             outcome |-> "none"]

Mine(f) == [body |-> loc[f].body, retrieved |-> loc[f].retrieved]

Init ==
  /\ bodyFile = None /\ manifestFile = None
  /\ pc = [f \in Fetchers |-> "idle"]
  /\ loc = [f \in Fetchers |-> NoLocals]
  /\ answers = {} /\ deaths = 0

Goto(f, l) == pc' = [pc EXCEPT ![f] = l]

Leave(f, outcome) ==
  /\ Goto(f, "left")
  /\ loc' = [loc EXCEPT ![f].outcome = outcome]

\* _verified_cache_entry lets an answer out only with an entry for its bytes.
Answer(f, outcome, entry, body) ==
  IF entry.body = body
  THEN /\ Goto(f, "left")
       /\ loc' = [loc EXCEPT ![f].outcome = outcome, ![f].entry = entry, ![f].body = body]
       /\ answers' = answers \cup {body}
  ELSE Leave(f, "raised") /\ UNCHANGED answers

-----------------------------------------------------------------------------
(* get *)

Miss == bodyFile = None /\ manifestFile = None
Partial == (bodyFile = None) # (manifestFile = None)

\* retrieved_at is taken before the network is asked.
GetMiss(f) ==
  /\ pc[f] = "idle"
  /\ Miss
  /\ \E t \in Stamps : loc' = [loc EXCEPT ![f] = [NoLocals EXCEPT !.retrieved = t]]
  /\ Goto(f, "fetching")
  /\ UNCHANGED <<files, answers, deaths>>

GetHit(f) ==
  /\ pc[f] = "idle"
  /\ bodyFile # None /\ manifestFile # None
  /\ Answer(f, "hit", manifestFile, bodyFile)
  /\ UNCHANGED <<files, deaths>>

GetPartial(f) ==
  /\ pc[f] = "idle"
  /\ Partial
  /\ Leave(f, "raised")
  /\ UNCHANGED <<files, answers, deaths>>

-----------------------------------------------------------------------------
(* The network, and the validations of the response *)

Bug_AnsweredBeforePut(f) ==
  /\ pc[f] = "fetching"
  /\ \E b \in Bodies : loc' = [loc EXCEPT ![f].body = b] /\ answers' = answers \cup {b}
  /\ Goto(f, "put")
  /\ UNCHANGED <<files, deaths>>

FetchSucceeds(f) ==
  /\ pc[f] = "fetching"
  /\ \E b \in Bodies : loc' = [loc EXCEPT ![f].body = b]
  /\ Goto(f, "put")
  /\ UNCHANGED <<files, answers, deaths>>

\* Another status is returned without an entry; a refused response raises.
FetchFails(f) ==
  /\ pc[f] = "fetching"
  /\ \E o \in {"status", "raised"} : Leave(f, o)
  /\ UNCHANGED <<files, answers, deaths>>

-----------------------------------------------------------------------------
(* put *)

ProbeEntry(f) ==
  /\ pc[f] = "put"
  /\ loc' = [loc EXCEPT ![f].sawEntry = manifestFile # None]
  /\ Goto(f, "probing")
  /\ UNCHANGED <<files, answers, deaths>>

Bug_PartialCompleted(f) ==
  /\ pc[f] = "probing"
  /\ Goto(f, "body")
  /\ UNCHANGED <<files, loc, answers, deaths>>

\* The manifest was looked for earlier: the pair may be complete by now and
\* still look partial.
ProbeBody(f) ==
  /\ pc[f] = "probing"
  /\ IF loc[f].sawEntry # (bodyFile # None)
     THEN Leave(f, "raised")
     ELSE Goto(f, "body") /\ UNCHANGED loc
  /\ UNCHANGED <<files, answers, deaths>>

Bug_BodyTrusted(f) ==
  /\ pc[f] = "body"
  /\ bodyFile' = IF bodyFile = None THEN loc[f].body ELSE bodyFile
  /\ Goto(f, "entry")
  /\ UNCHANGED <<manifestFile, loc, answers, deaths>>

\* Link the body unless there is one, and compare what is there with mine.
CommitBody(f) ==
  /\ pc[f] = "body"
  /\ bodyFile' = IF bodyFile = None THEN loc[f].body ELSE bodyFile
  /\ IF bodyFile' = loc[f].body
     THEN Goto(f, "entry") /\ UNCHANGED loc
     ELSE Leave(f, "raised")
  /\ UNCHANGED <<manifestFile, answers, deaths>>

\* An existing manifest must be mine in everything but stored_at.
CheckEntry(f) ==
  /\ pc[f] = "entry"
  /\ IF manifestFile = None
     THEN Goto(f, "linking") /\ UNCHANGED <<loc, answers>>
     ELSE IF manifestFile = Mine(f)
          THEN Answer(f, "filled", manifestFile, loc[f].body)
          ELSE Leave(f, "raised") /\ UNCHANGED answers
  /\ UNCHANGED <<files, deaths>>

\* Whoever loses the race for the link returns the winner's manifest as it is.
LinkEntry(f) ==
  /\ pc[f] = "linking"
  /\ manifestFile' = IF manifestFile = None THEN Mine(f) ELSE manifestFile
  /\ Answer(f, "filled", manifestFile', loc[f].body)
  /\ UNCHANGED <<bodyFile, deaths>>

Finish(f) ==
  /\ pc[f] = "left"
  /\ Goto(f, "idle")
  /\ loc' = [loc EXCEPT ![f] = NoLocals]
  /\ UNCHANGED <<files, answers, deaths>>

Die(f) ==
  /\ pc[f] # "idle"
  /\ deaths < MaxDeaths
  /\ deaths' = deaths + 1
  /\ Goto(f, "idle")
  /\ loc' = [loc EXCEPT ![f] = NoLocals]
  /\ UNCHANGED <<files, answers>>

Step(f) ==
  \/ FetchSucceeds(f) \/ FetchFails(f)
  \/ ProbeEntry(f) \/ ProbeBody(f) \/ CommitBody(f) \/ CheckEntry(f) \/ LinkEntry(f)
  \/ Finish(f)

Next == \E f \in Fetchers : Step(f) \/ GetMiss(f) \/ GetHit(f) \/ GetPartial(f) \/ Die(f)

Spec == Init /\ [][Next]_vars

-----------------------------------------------------------------------------
(* Properties *)

\* Type invariant of the two files and the fetchers' locals.
TypeOK ==
  /\ bodyFile \in Bodies \cup {None}
  /\ manifestFile \in Manifest \cup {None}
  /\ pc \in [Fetchers -> {"idle", "fetching", "put", "probing", "body", "entry", "linking", "left"}]
  /\ loc \in [Fetchers -> Locals]
  /\ answers \subseteq Bodies
  /\ deaths \in 0..MaxDeaths

\* A manifest is never there without the very bytes it describes, whichever
\* fetchers raced for the two links and whoever died between them (put).
ManifestDescribesBody == manifestFile # None => bodyFile = manifestFile.body

\* All 2xx answers ever given for one request are the same bytes, from the cache
\* or from the network, although providers may answer concurrent fetches
\* differently (put, _verified_cache_entry).
AnswersAgree == Cardinality(answers) <= 1

\* The files a restart finds are well formed and belong together, and what was
\* handed out of them is one body.
CacheSound == TypeOK /\ ManifestDescribesBody /\ AnswersAgree

\* A body whose fillers died or gave up before the manifest is a partial entry
\* for good: nobody serves it, asks the network again for it or completes it, a
\* fetcher that was already on its way included (get, put).
Orphaned ==
  /\ bodyFile # None /\ manifestFile = None
  /\ \A f \in Fetchers : pc[f] \notin {"body", "entry", "linking"}
OrphanFailsClosed ==
  Orphaned => Orphaned' /\ answers' = answers /\ \A f \in Fetchers : ~GetMiss(f)

\* Once a caller holds a 2xx answer, no later request goes to the network
\* (get, "a valid second request is a verified cache hit without a network call").
SettledStaysLocal == \A f \in Fetchers : GetMiss(f) => answers = {}

\* What the cache has come to is final: an answer is given again and an orphan is
\* never completed.
OutcomeIsFinal == [][OrphanFailsClosed /\ SettledStaysLocal]_vars

\* Expected to fail.  "A concurrent identical fill may therefore have a different
\* timestamp [...] the existing manifest remains authoritative" (cache.py:416):
\* with every fetcher alive and every answer the same, filling never raises.
IdenticalFillsSucceed ==
  Cardinality(Bodies) = 1 /\ deaths = 0 =>
    \A f \in Fetchers : loc[f].outcome = "raised" => loc[f].body = None

=============================================================================
