------------------------- MODULE FullTextAcquisition -------------------------
(***************************************************************************)
(* acquire_full_text, end to end: callers fetch one source through the     *)
(* acquisition cache and hand the bytes, with the content type of the      *)
(* response they saw, to the ArtifactStore.  Other tools put and read the  *)
(* same bytes.                                                             *)
(*                                                                         *)
(* All callers ask for one DOI.  What the resolver says of it is cached    *)
(* too and never changes, so they choose one source and share one cache    *)
(* identity.  That its answers are all the same bytes (AnswersAgree) is    *)
(* why one content of the store is enough.                                 *)
(***************************************************************************)
EXTENDS ArtifactStore, Integers

CONSTANTS
  Bodies,
  Stamps,     \* what a manifest says of a response besides its body
  Type,       \* the content type in each
  MaxDeaths

ASSUME AcquisitionAssumption ==
  /\ MaxDeaths \in Nat
  /\ None \notin Bodies \cup Stamps
  /\ Type \in [Stamps -> Media]

VARIABLES bodyFile, manifestFile, fetching, loc, given, deaths

Cache == INSTANCE AcquisitionCache WITH Fetchers <- Callers, pc <- fetching, answers <- given

cache == <<bodyFile, manifestFile, fetching, loc, given, deaths>>
all == <<vars, cache>>

AcquisitionInit == Init /\ Cache!Init

\* The fetcher's way through the cache; an answer with another status, or an
\* exception, ends it.
Fetch(c) ==
  /\ pc[c] = "idle"
  /\ \/ Cache!GetMiss(c) \/ Cache!GetHit(c) \/ Cache!GetPartial(c) \/ Cache!Die(c)
     \/ Cache!Step(c) /\ (fetching[c] = "left" => loc[c].outcome \in {"status", "raised"})
  /\ UNCHANGED vars

\* A hit has the manifest's content type, and whoever filled the cache its own
\* response's, also when the manifest is another's.
SeenType(c) == Type[IF loc[c].outcome = "hit" THEN loc[c].entry.retrieved ELSE loc[c].retrieved]

\* The bytes leave acquire_full_text as a draft, and publication begins.
Acquired(c) ==
  /\ fetching[c] = "left" /\ loc[c].outcome \in {"hit", "filled"}
  /\ Cache!Finish(c)
  /\ BeginPut(c, SeenType(c), None)

\* The rest of publication, and the other tools' calls.
Elsewhere(c) ==
  /\ fetching[c] = "idle"
  /\ Put(c) \/ ReadRecord(c) \/ ReadObject(c) \/ Die(c)
  /\ UNCHANGED cache

AcquisitionNext == \E c \in Callers : Fetch(c) \/ Acquired(c) \/ Elsewhere(c)

AcquisitionSpec == AcquisitionInit /\ [][AcquisitionNext]_all

-----------------------------------------------------------------------------
(* Properties *)

\* The cache is sound (AcquisitionCache!CacheSound), although what it serves is
\* published at the same time.
CacheSound == Cache!CacheSound

\* What the cache has come to is final (AcquisitionCache!OutcomeIsFinal).
OutcomeIsFinal == Cache!OutcomeIsFinal

\* Expected to fail.  "the existing manifest remains authoritative" (cache.py:417):
\* what is published has the content type that the manifest says.  A fetcher that
\* lost the link to the manifest hands on the type it saw itself; if that is stored,
\* the store refuses every later hit.
PublishedAsCached ==
  [][\A c \in Callers : Acquired(c) => SeenType(c) = Type[manifestFile.retrieved]]_all

=============================================================================
