--------------------------- MODULE EvidenceReview ---------------------------
(***************************************************************************)
(* evidence/, domains/oled and core/reviews.py: from a canonical document  *)
(* to a reviewed dataset.  Five tools, called by a model in any order and  *)
(* with any artifacts of the store as their inputs, and one host operation,*)
(* the review.  An artifact is named by its content, so the store is a set *)
(* and a call that is made again changes nothing; a call that raises       *)
(* publishes nothing and is no step.                                       *)
(*                                                                         *)
(* Candidates, packets and requests are digests of what they hold, so they *)
(* are represented by it.  A locator is part of its candidate.  Numbers    *)
(* are thousandths of a fraction, and the tests of values stay away from   *)
(* the last bit of the tolerance.                                          *)
(***************************************************************************)
EXTENDS Integers, FiniteSets, FiniteSetsExt

CONSTANTS
  Documents,      \* canonical documents
  Source,         \* the source file each was parsed from
  Telling,        \* the places in each whose text has an alias or whose cells have hints
  Long,           \* candidates whose text is above the packet's limit, not the candidate's
  MaxCandidates,  \* config.max_candidates
  Replies,        \* answers the structured provider may give
  Records,        \* the set of records in each
  Tolerance,      \* duplicate_tolerance, in thousandths
  MaxArtifacts,   \* bound: artifacts besides the documents
  None

ASSUME EvidenceAssumption ==
  /\ Telling \in [Documents -> SUBSET Nat] /\ \A d \in Documents : IsFiniteSet(Telling[d])
  /\ DOMAIN Source = Documents /\ DOMAIN Records = Replies
  /\ MaxCandidates \in Nat /\ MaxArtifacts \in Nat /\ Tolerance \in 0..1000

VARIABLE store  \* the artifacts published so far

Of(kind) == {a \in store : a.kind = kind}

EvidenceInit == store = {[kind |-> "document", name |-> d] : d \in Documents}

Publish(a) == store' = store \cup {a}

Room == Cardinality(store) < MaxArtifacts + Cardinality(Documents)

-----------------------------------------------------------------------------
(* Candidates and the request *)

Candidate(d, p) == [document |-> d, at |-> p]

\* One candidate for each telling place, in the order of their identifiers and
\* silently cut.
Candidates(d) ==
  {Candidate(d, p) : p \in {q \in Telling[d] :
     Cardinality({r \in Telling[d] : r < q}) < MaxCandidates}}

Bundle(d) == [kind |-> "bundle", document |-> d]

\* oled_extract_evidence.
Extract(document) == Publish(Bundle(document.name))

\* A packet for each candidate; one that is too long, or none at all, and there is
\* no request.
Mappable(bundle) ==
  Candidates(bundle.document) # {} /\ Candidates(bundle.document) \cap Long = {}

-----------------------------------------------------------------------------
(* What a record means *)

\* A condition is None if it is UNSPECIFIED; one that is there may still be UNKNOWN.
Specified(r) == r.condition \notin {None, "UNKNOWN"}

Whole == 1000
Measure(value, unit, normalized) == [value |-> value, unit |-> unit, normalized |-> normalized]

\* NormalizedProperty.from_mapping: a record that brings its status is taken at its
\* word; otherwise fractions and percentages are normalized.
Normal(r) ==
  CASE r.claims # None -> Measure(r.value, r.unit, r.claims = "NORMALIZED")
    [] r.claims = None /\ None \in {r.value, r.unit} -> Measure(None, None, FALSE)
    [] r.claims = None /\ r.unit = "percent" -> Measure(r.value \div 100, "fraction", TRUE)
    [] r.claims = None /\ r.unit = "fraction" -> Measure(r.value, "fraction", TRUE)
    [] OTHER -> Measure(None, r.unit, FALSE)

\* A normalized value is a fraction of one, whatever its unit is called.
WellFormed(r) ==
  Normal(r).normalized => None \notin {Normal(r).value, Normal(r).unit} /\ Normal(r).value \in 0..Whole

Needed(r) ==
  {"property_id"} \cup (IF r.molecule = None THEN {} ELSE {"molecule_identity"})
  \cup (IF Normal(r).value = None THEN {} ELSE {"property_value"})
  \cup (IF Normal(r).unit = None THEN {} ELSE {"unit"})
  \cup (IF r.condition = None THEN {} ELSE {"measurement_condition"})

Cited(r) == {e.candidate : e \in r.evidence}

\* _check_evidence_bindings: every reference is into the bundle, and every field
\* that is there has one.
Evidenced(r, bundle) ==
  /\ r.evidence # {}
  /\ Cited(r) \subseteq Candidates(bundle.document)
  /\ Needed(r) \subseteq {e.field : e \in r.evidence}

\* The request's digest is over the bundle, and the answer must carry it.
Mapping(request, reply) == [kind |-> "mapping", request |-> request, reply |-> reply]
Mapped(mapping) == Records[mapping.reply]

\* from_provider_payload.
Acceptable(reply, bundle) ==
  /\ Cardinality({r.id : r \in Records[reply]}) = Cardinality(Records[reply])
  /\ \A r \in Records[reply] : WellFormed(r) /\ Evidenced(r, bundle)

\* oled_contextual_map: the provider's answer, if it is one for this request.
Map(bundle) ==
  /\ Mappable(bundle)
  /\ \E reply \in Replies : Acceptable(reply, bundle) /\ Publish(Mapping(bundle, reply))

-----------------------------------------------------------------------------
(* Validation *)

Resolved(r) == r.resolved /\ r.molecule # None

\* _record_issue.
Issue(r) == ~Resolved(r) \/ ~Normal(r).normalized \/ ~Specified(r)

\* comparison_key.
Key(r) == <<r.molecule, Normal(r).unit, r.condition>>

Close(a, b) ==
  None \notin {Normal(a).value, Normal(b).value} /\
  Normal(a).value - Normal(b).value \in -Tolerance..Tolerance

Bug_ComparedWithFirst(records, r) ==
  LET group == {s \in records : Key(s) = Key(r)}
  IN \E a \in group : (\A b \in group : a.id <= b.id) /\ \E b \in group : a # b /\ ~Close(a, b)

\* The records of one key conflict unless each is close to each.
Conflicting(records, r) ==
  \E a, b \in {s \in records : Key(s) = Key(r)} : a # b /\ ~Close(a, b)

Bug_AnySource(bundle, mapping) == TRUE

\* OledRecord: the evidence must be of the bundle's source.  That the mapping was
\* made from this bundle is not asked.
SameSource(bundle, mapping) ==
  \A r \in Mapped(mapping) : \A c \in Cited(r) : Source[c.document] = Source[bundle.document]

Report(bundle, mapping, flagged) ==
  [kind |-> "report", bundle |-> bundle, mapping |-> mapping,
   passed |-> {r.id : r \in Mapped(mapping) \ flagged}, blocked |-> flagged # {}]

\* oled_validate_records.
Validate(bundle, mapping) ==
  /\ SameSource(bundle, mapping)
  /\ Publish(Report(bundle, mapping,
       {r \in Mapped(mapping) : Issue(r) \/ Conflicting(Mapped(mapping), r)}))

-----------------------------------------------------------------------------
(* Review and export *)

ReviewBundle(report) == [kind |-> "review bundle", report |-> report]
ReviewRecord(a, decision) == [kind |-> "review", artifact |-> a, decision |-> decision]
Dataset(review, rows) == [kind |-> "dataset", review |-> review, rows |-> rows]

\* oled_prepare_review_bundle, ReviewBundleBuilder.build.
Prepare(document, bundle, mapping, report) ==
  /\ report.bundle = bundle /\ report.mapping = mapping
  /\ bundle.document = document.name
  /\ Publish(ReviewBundle(report))

\* RuntimeService.create_review, by a person, of any artifact, as often as they like.
Review(a, decision) == Publish(ReviewRecord(a, decision))

Bug_AnyApproval(b, review) == review.decision = "APPROVED" /\ ~b.report.blocked

\* assert_matches and the three gates of DatasetExporter.export.
Exportable(b, review) ==
  /\ review.artifact = b /\ review.decision = "APPROVED"
  /\ ~b.report.blocked
  /\ b.report.passed = {r.id : r \in Mapped(b.report.mapping)}

Row(r, b) ==
  [id |-> r.id, molecule |-> r.molecule, condition |-> r.condition, value |-> Normal(r).value,
   unit |-> Normal(r).unit, cited |-> Cited(r), bundle |-> b.report.bundle,
   mapping |-> b.report.mapping, source |-> Source[b.report.bundle.document]]

\* oled_export_reviewed_dataset.
Export(b, review) ==
  /\ Exportable(b, review)
  /\ Publish(Dataset(review, {Row(r, b) : r \in Mapped(b.report.mapping)}))

EvidenceNext ==
  /\ Room
  /\ \/ \E d \in Of("document") : Extract(d)
     \/ \E b \in Of("bundle") : Map(b)
     \/ \E b \in Of("bundle"), m \in Of("mapping") : Validate(b, m)
     \/ \E d \in Of("document"), b \in Of("bundle"), m \in Of("mapping"), r \in Of("report") :
          Prepare(d, b, m, r)
     \/ \E a \in Of("document") \cup Of("review bundle"), decision \in {"APPROVED", "REJECTED"} :
          Review(a, decision)
     \/ \E b \in Of("review bundle"), r \in Of("review") : Export(b, r)

EvidenceSpec == EvidenceInit /\ [][EvidenceNext]_store

-----------------------------------------------------------------------------
(* Properties *)

\* A row can be followed back: what it cites are candidates of the request its
\* mapping answered, in a document of the very source the row names, whatever
\* bundles and mappings the model combined (Evidenced, OledRecord).
RowsTraceable ==
  \A d \in Of("dataset") : \A row \in d.rows :
    /\ row.cited # {} /\ row.cited \subseteq Candidates(row.mapping.request.document)
    /\ \A c \in row.cited : Source[c.document] = row.source
    /\ row.mapping.request \in store /\ row.bundle \in store

\* A dataset is what somebody approved: all the records the approved bundle's
\* mapping holds, none dropped on the way from the provider's answer to the rows,
\* every one of them validated and traceable (export, assert_matches,
\* ReviewBundleBuilder).
ExportedAsReviewed ==
  /\ RowsTraceable
  /\ \A d \in Of("dataset") :
    LET b == d.review.artifact IN
    /\ d.review \in store /\ d.review.decision = "APPROVED" /\ b \in Of("review bundle")
    /\ {row.id : row \in d.rows} = {r.id : r \in Mapped(b.report.mapping)}
    /\ \A row \in d.rows : row.mapping = b.report.mapping /\ row.bundle = b.report.bundle
    /\ \A row \in d.rows :
         None \notin {row.molecule, row.value, row.unit, row.condition} /\ row.condition # "UNKNOWN"

\* Rows about one molecule, unit and condition never disagree by more than the
\* tolerance, any two of them and not only neighbours (validate_records).
RowsAgree ==
  \A d \in Of("dataset") : \A a, b \in d.rows :
    <<a.molecule, a.unit, a.condition>> = <<b.molecule, b.unit, b.condition>> =>
      a.value - b.value \in -Tolerance..Tolerance

\* Expected to fail.  "Missing, unsupported, non-finite, or out-of-range values
\* remain unresolved and block reviewed export" (docs/v2/reports/CORE-05.md:82): a
\* provider that calls a value normalized is believed about any unit.
UnitsSupported == \A d \in Of("dataset") : \A row \in d.rows : row.unit = "fraction"

\* Expected to fail: the candidates a row cites are those of the bundle it names.
\* oled_validate_records takes another bundle of the same source.
BundleIsTheRequest == \A d \in Of("dataset") : \A row \in d.rows : row.bundle = row.mapping.request

=============================================================================
