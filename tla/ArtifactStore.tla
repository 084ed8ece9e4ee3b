---------------------------- MODULE ArtifactStore ----------------------------
(***************************************************************************)
(* core/artifacts.py, ArtifactStore: callers in any thread or process put, *)
(* read and ask for one content.  Its object and its metadata are two      *)
(* files, each published whole by a hard link that never replaces, with no *)
(* lock around both.  Contents share nothing, so one is enough.            *)
(*                                                                         *)
(* Nobody but the store writes under its root, so bytes that are read have *)
(* the digest they are named for.  A process may die; the disk keeps what  *)
(* it was given.                                                           *)
(***************************************************************************)
EXTENDS FiniteSets

CONSTANTS
  Callers,
  Media,     \* media_type
  Schemas,   \* <<schema_name, schema_version>>, as one value
  None

ASSUME StoreAssumption == None \notin Schemas

\* by stands for stored_at: the time of the call that made the record.
Record == [media : Media, schema : Schemas \cup {None}, by : Callers]

ASSUME NoneIsNoRecord == None \notin Record

VARIABLES
  object,   \* the object file is there
  record,   \* what the metadata file holds, or None
  pc,
  mine,     \* each caller's record: the requested one, or the one it read
  answers,  \* history: <<requested record, returned record>> of every put
  reads     \* history: records that verify, read or read_metadata returned

vars == <<object, record, pc, mine, answers, reads>>

-----------------------------------------------------------------------------

Init ==
  /\ object = FALSE
  /\ record = None
  /\ pc = [c \in Callers |-> "idle"]
  /\ mine = [c \in Callers |-> None]
  /\ answers = {}
  /\ reads = {}

Goto(c, l) == pc' = [pc EXCEPT ![c] = l]
Keep(c, r) == mine' = [mine EXCEPT ![c] = r]
Leave(c) == Goto(c, "idle") /\ Keep(c, None)

\* _assert_compatible_intrinsic_metadata.
Compatible(existing, requested) ==
  /\ existing.media = requested.media
  /\ None \in {existing.schema, requested.schema} \/ existing.schema = requested.schema

-----------------------------------------------------------------------------
(* put: the object first, then the metadata *)

BeginPut(c, media, schema) ==
  /\ pc[c] = "idle"
  /\ Goto(c, "object")
  /\ Keep(c, [media |-> media, schema |-> schema, by |-> c])
  /\ UNCHANGED <<object, record, answers, reads>>

FindObject(c) ==
  /\ pc[c] = "object"
  /\ Goto(c, IF object THEN "metadata" ELSE "linking object")
  /\ UNCHANGED <<object, record, mine, answers, reads>>

Bug_ObjectLater(c) ==
  /\ pc[c] = "linking object"
  /\ Goto(c, "metadata")
  /\ UNCHANGED <<object, record, mine, answers, reads>>

\* _publish_no_replace, whoever links first, and the bytes read back.
LinkObject(c) ==
  /\ pc[c] = "linking object"
  /\ object' = TRUE
  /\ Goto(c, "metadata")
  /\ UNCHANGED <<record, mine, answers, reads>>

FindRecord(c) ==
  /\ pc[c] = "metadata"
  /\ Goto(c, IF record = None THEN "linking metadata" ELSE "answering")
  /\ UNCHANGED <<object, record, mine, answers, reads>>

Bug_RecordReplaced(c) ==
  /\ pc[c] = "linking metadata"
  /\ record' = mine[c]
  /\ Goto(c, "answering")
  /\ UNCHANGED <<object, mine, answers, reads>>

\* Who comes second keeps the first caller's record.
LinkRecord(c) ==
  /\ pc[c] = "linking metadata"
  /\ record' = IF record = None THEN mine[c] ELSE record
  /\ Goto(c, "answering")
  /\ UNCHANGED <<object, mine, answers, reads>>

\* The temporary file or the directory cannot be written or synced: put raises,
\* before the link or after it.
LinkRaises(c) ==
  /\ \/ pc[c] = "linking object" /\ object' \in {object, TRUE} /\ UNCHANGED record
     \/ /\ pc[c] = "linking metadata"
        /\ record' \in {record, IF record = None THEN mine[c] ELSE record}
        /\ UNCHANGED object
  /\ Leave(c)
  /\ UNCHANGED <<answers, reads>>

Bug_NotCompared(c) ==
  /\ pc[c] = "answering"
  /\ answers' = answers \cup {<<mine[c], record>>}
  /\ Leave(c)
  /\ UNCHANGED <<object, record, reads>>

\* _existing_record: the record that is there now, if it does not contradict.
Answer(c) ==
  /\ pc[c] = "answering"
  /\ answers' = IF object /\ Compatible(record, mine[c])
                THEN answers \cup {<<mine[c], record>>} ELSE answers
  /\ Leave(c)
  /\ UNCHANGED <<object, record, reads>>

-----------------------------------------------------------------------------
(* verify, read, get_metadata and read_metadata *)

ReadRecord(c) ==
  /\ pc[c] = "idle"
  /\ record # None
  /\ Goto(c, "reading")
  /\ Keep(c, record)
  /\ UNCHANGED <<object, record, answers, reads>>

ReadObject(c) ==
  /\ pc[c] = "reading"
  /\ reads' = IF object THEN reads \cup {mine[c]} ELSE reads
  /\ Leave(c)
  /\ UNCHANGED <<object, record, answers>>

Die(c) ==
  /\ pc[c] # "idle"
  /\ Leave(c)
  /\ UNCHANGED <<object, record, answers, reads>>

Put(c) ==
  \/ \E m \in Media, s \in Schemas \cup {None} : BeginPut(c, m, s)
  \/ FindObject(c) \/ LinkObject(c) \/ FindRecord(c) \/ LinkRecord(c) \/ LinkRaises(c) \/ Answer(c)

Next == \E c \in Callers : Put(c) \/ ReadRecord(c) \/ ReadObject(c) \/ Die(c)

Spec == Init /\ [][Next]_vars

-----------------------------------------------------------------------------
(* Properties *)

\* Type invariant of the two files, the callers and the histories.
TypeOK ==
  /\ object \in BOOLEAN
  /\ record \in Record \cup {None}
  /\ pc \in [Callers -> {"idle", "object", "linking object", "metadata", "linking metadata",
                         "answering", "reading"}]
  /\ mine \in [Callers -> Record \cup {None}]
  /\ answers \subseteq Record \X Record
  /\ reads \subseteq Record

\* Everybody who was ever told of this content was told the same record, the
\* first published, however puts overlap, fail or die ("returning the first
\* record", put).
OneRecord == \A r \in reads \cup {a[2] : a \in answers} : r = record

\* Metadata vouches for bytes: at every moment, and whatever dies or fails between
\* the two files, a record that can be read has its object (put's order).
RecordHasObject ==
  /\ record # None => object
  /\ \A c \in Callers : pc[c] = "reading" => object

\* No two callers whose puts succeeded differ about the media type, also when both
\* looked before either had published (_existing_record after the link).
MediaAgrees == \A a, b \in answers : a[1].media = b[1].media

\* Expected to fail.  "Reject contradictory assertions about one content
\* identity.  Optional schema fields are first-publication metadata.  A later
\* call may omit them, or may repeat a value already recorded" (artifacts.py:233).
SchemasAgree ==
  \A a, b \in answers :
    None \in {a[1].schema, b[1].schema} \/ a[1].schema = b[1].schema

=============================================================================
