---------------------------- MODULE RecordStore ----------------------------
(***************************************************************************)
(* The metadata plane of one QSTE workspace: storage/database.py.          *)
(*                                                                         *)
(* Four append-only tables are kept in one SQLite file: records, lineage   *)
(* edges, events, and the AUTOINCREMENT counter of the events.  Every      *)
(* writer runs inside BEGIN IMMEDIATE ... COMMIT, so a whole operation is  *)
(* one action here; a transaction that raises is rolled back and changes   *)
(* nothing.  RecordStore.verify() is the exception: it is a sequence of    *)
(* autocommit SELECTs that other connections may write between, so it is   *)
(* modelled step by step, running against any interleaving of writers.     *)
(*                                                                         *)
(* A document is what a caller hands to the store: its identity, its type, *)
(* the typed references found anywhere inside it, and a body that stands   *)
(* for all the remaining bytes.  Two documents are the same canonical      *)
(* bytes exactly when they are equal.                                      *)
(***************************************************************************)
EXTENDS Naturals, FiniteSets

CONSTANTS
    Ids,               \* record identities
    Types,             \* record types
    Relations,         \* relation names that occur in a caller's reference
    LineageRelations,  \* LINEAGE_RELATIONS
    Bodies,            \* distinguishable record contents
    Documents,         \* the documents callers submit
    Acquisition,       \* the type "AcquisitionEvent"
    NoRecord,          \* the absent record identity (None)
    MaxEvents,         \* bound: events appended in a behaviour
    MaxEdges           \* bound: edges present when a caller adds one more

Reference == [target : Ids, type : Types, relation : Relations]

Document == [id : Ids, type : Types, refs : SUBSET Reference,
             body : Bodies, sequence : Nat]

ASSUME DocumentsAssumption ==
    /\ Documents \subseteq Document
    /\ NoRecord \notin Ids
    /\ MaxEvents \in Nat
    /\ MaxEdges \in Nat

VARIABLES
    records,       \* the stored records, as documents
    edges,         \* lineage edges
    events,        \* event rows
    counter,       \* sqlite_sequence entry of the events table
    acknowledged,  \* history: documents some writer was told are stored
    step,          \* which SELECT the running verify() is at
    fetched,       \* the rows that verify() has fetched so far
    verdict        \* outcome of the last completed verify()

tables == <<records, edges, events, counter>>
verification == <<step, fetched, verdict>>
vars == <<tables, acknowledged, verification>>

Edge == [source : Ids, target : Ids, relation : Relations \cup LineageRelations]
Event == [sequence : Nat \ {0}, subject : Ids, receipt : Ids \cup {NoRecord}]

-----------------------------------------------------------------------------
(* Reading the tables *)

IdsOf(docs) == {d.id : d \in docs}

EventNumbers == {e.sequence : e \in events}

\* SELECT COALESCE(MAX(event_sequence), 0) FROM events
LastSequence == CHOOSE m \in EventNumbers \cup {0} : \A n \in EventNumbers : n <= m

NextSequence == LastSequence + 1

\* Mutant: AUTOINCREMENT without the increment.
ReusedNumber == counter

\* The number AUTOINCREMENT gives the next row: one above the largest ever used.
AutoNumber == counter + 1

Edges(docs) ==
    UNION {{[source |-> d.id, target |-> r.target, relation |-> r.relation] :
                r \in d.refs} : d \in docs}

\* every typed reference of docs names a record of that type among stored
Resolved(docs, stored) ==
    \A d \in docs : \A r \in d.refs :
        \E s \in stored : s.id = r.target /\ s.type = r.type

DistinctIds(docs) == \A d, e \in docs : d.id = e.id => d = e

\* an identity already stored must carry the very same bytes
SameBytes(docs) == \A d \in docs : \A s \in records : d.id = s.id => d = s

-----------------------------------------------------------------------------
(* Writers *)

\* Mutant: references are trusted instead of looked up.
StoreBatchTrusting(docs) ==
    /\ docs # {}
    /\ DistinctIds(docs)
    /\ SameBytes(docs)
    /\ records' = records \cup docs
    /\ edges' = edges \cup Edges(docs)
    /\ acknowledged' = acknowledged \cup docs

\* Mutant: INSERT OR REPLACE, the second writer of an identity wins.
StoreBatchReplacing(docs) ==
    /\ docs # {}
    /\ DistinctIds(docs)
    /\ LET kept == {s \in records : s.id \notin IdsOf(docs)}
       IN  /\ Resolved(docs, kept \cup docs)
           /\ records' = kept \cup docs
           /\ edges' = edges \cup Edges(docs)
    /\ acknowledged' = acknowledged \cup docs

\* The body both insert operations share, inside their transaction.
StoreBatch(docs) ==
    /\ docs # {}
    /\ DistinctIds(docs)
    /\ SameBytes(docs)
    /\ Resolved(docs, records \cup docs)
    /\ records' = records \cup docs
    /\ edges' = edges \cup Edges(docs)
    /\ acknowledged' = acknowledged \cup docs

InsertRecords(docs) ==
    /\ StoreBatch(docs)
    /\ UNCHANGED <<events, counter, verification>>

\* Mutant: the caller's own number stays in the domain event.
Unstamped(docs, domain) == docs

\* The domain event of the batch, if any, receives its number before it is
\* canonicalised, so a replay of the same batch no longer has the same bytes.
Stamped(docs, domain) ==
    {IF d.id = domain THEN [d EXCEPT !.sequence = NextSequence] ELSE d : d \in docs}

InsertRecordsWithEvent(docs, domain, subject, receipt) ==
    /\ Cardinality(events) < MaxEvents
    /\ domain # NoRecord => \E d \in docs : d.id = domain /\ d.type = Acquisition
    /\ StoreBatch(Stamped(docs, domain))
    /\ subject \in IdsOf(records')
    /\ receipt \in IdsOf(records') \cup {NoRecord}
    /\ events' = events \cup
         {[sequence |-> NextSequence, subject |-> subject, receipt |-> receipt]}
    /\ counter' = IF NextSequence > counter THEN NextSequence ELSE counter
    /\ UNCHANGED verification

AppendEvent(subject, receipt) ==
    /\ Cardinality(events) < MaxEvents
    /\ subject \in IdsOf(records)
    /\ receipt \in IdsOf(records) \cup {NoRecord}
    /\ counter' = AutoNumber
    /\ events' = events \cup
         {[sequence |-> AutoNumber, subject |-> subject, receipt |-> receipt]}
    /\ UNCHANGED <<records, edges, acknowledged, verification>>

\* An edge that exists already violates UNIQUE and is rejected.
AddEdge(edge) ==
    /\ Cardinality(edges) < MaxEdges
    /\ edge.relation \in LineageRelations
    /\ {edge.source, edge.target} \subseteq IdsOf(records)
    /\ edge \notin edges
    /\ edges' = edges \cup {edge}
    /\ UNCHANGED <<records, events, counter, acknowledged, verification>>

CreateDescendant(parent, d, relation) ==
    /\ Cardinality(edges) < MaxEdges
    /\ relation \in LineageRelations
    /\ d.id # parent
    /\ parent \in IdsOf(records)
    /\ SameBytes({d})
    /\ Resolved({d}, records \cup {d})
    /\ records' = records \cup {d}
    /\ edges' = edges \cup Edges({d}) \cup
         {[source |-> d.id, target |-> parent, relation |-> relation]}
    /\ acknowledged' = acknowledged \cup {d}
    /\ UNCHANGED <<events, counter, verification>>

-----------------------------------------------------------------------------
(* verify(): one autocommit SELECT at a time *)

EndsVerify(ok) ==
    /\ step' = "idle"
    /\ fetched' = [records |-> {}, edges |-> {}]
    /\ verdict' = IF ok THEN "verified" ELSE "failed"

\* Mutant: the edges are fetched before the records that require them.
EdgesFirst == [begin |-> "edges", edges |-> "records", records |-> "check"]

\* What verify() does after each of its steps.
FetchOrder == [begin |-> "records", records |-> "edges", edges |-> "check"]

\* PRAGMA integrity_check and foreign_key_check.  The foreign keys hold in
\* every committed state, so this step only opens the window.
BeginVerify ==
    /\ step = "idle"
    /\ IF /\ \A e \in edges : {e.source, e.target} \subseteq IdsOf(records)
          /\ \A v \in events : {v.subject, v.receipt} \subseteq IdsOf(records) \cup {NoRecord}
       THEN step' = FetchOrder["begin"] /\ UNCHANGED <<fetched, verdict>>
       ELSE EndsVerify(FALSE)
    /\ UNCHANGED <<tables, acknowledged>>

FetchRecords ==
    /\ step = "records"
    /\ fetched' = [fetched EXCEPT !.records = records]
    /\ step' = FetchOrder["records"]
    /\ UNCHANGED <<tables, acknowledged, verdict>>

FetchEdges ==
    /\ step = "edges"
    /\ fetched' = [fetched EXCEPT !.edges = edges]
    /\ step' = FetchOrder["edges"]
    /\ UNCHANGED <<tables, acknowledged, verdict>>

\* validate_reference_closure, the required edges and the relation names, on
\* the fetched rows; then iter_events() reads the events as they are by now.
CheckRows ==
    /\ step = "check"
    /\ EndsVerify(/\ DistinctIds(fetched.records)
                  /\ Resolved(fetched.records, fetched.records)
                  /\ Edges(fetched.records) \subseteq fetched.edges
                  /\ \A e \in fetched.edges : e.relation \in LineageRelations
                  /\ EventNumbers = 1 .. Cardinality(events))
    /\ UNCHANGED <<tables, acknowledged>>

-----------------------------------------------------------------------------

Init ==
    /\ records = {}
    /\ edges = {}
    /\ events = {}
    /\ counter = 0
    /\ acknowledged = {}
    /\ step = "idle"
    /\ fetched = [records |-> {}, edges |-> {}]
    /\ verdict = "none"

\* The one producer of acquisitions (ingress) submits each as the domain event
\* and the subject of its own transaction; no other caller stores one.
Plain(docs) == \A d \in docs : d.type # Acquisition

Ingested(docs, domain) == \A d \in docs : d.type = Acquisition <=> d.id = domain

Write ==
    \/ \E docs \in SUBSET Documents : Plain(docs) /\ InsertRecords(docs)
    \/ \E docs \in SUBSET Documents, subject \in Ids, receipt \in Ids \cup {NoRecord} :
         Plain(docs) /\ InsertRecordsWithEvent(docs, NoRecord, subject, receipt)
    \/ \E docs \in SUBSET Documents, domain \in Ids, receipt \in Ids \cup {NoRecord} :
         /\ Ingested(docs, domain)
         /\ InsertRecordsWithEvent(docs, domain, domain, receipt)
    \/ \E subject \in Ids, receipt \in Ids \cup {NoRecord} : AppendEvent(subject, receipt)
    \/ \E edge \in [source : Ids, target : Ids, relation : LineageRelations] : AddEdge(edge)
    \/ \E parent \in Ids, d \in Documents, relation \in LineageRelations :
         Plain({d}) /\ CreateDescendant(parent, d, relation)

Verify == BeginVerify \/ FetchRecords \/ FetchEdges \/ CheckRows

Next == Write \/ Verify

Spec == Init /\ [][Next]_vars

-----------------------------------------------------------------------------
(* Properties *)

\* Type invariant: stored rows have the shape of their table.
TypeOK ==
    /\ records \subseteq Document
    /\ edges \subseteq Edge
    /\ events \subseteq Event
    /\ counter \in Nat
    /\ acknowledged \subseteq Document
    /\ step \in {"idle", "records", "edges", "check"}
    /\ fetched \in [records : SUBSET Document, edges : SUBSET Edge]
    /\ verdict \in {"none", "verified", "failed"}

\* The workspace is closed after any mix of batches, replays, conflicting
\* rewrites and hand-made edges: an identity has one content, every reference
\* inside a record names a stored record of the claimed type and is also an
\* edge, and edges and events join stored records only.
ClosedWorkspace ==
    /\ \A r, s \in records : r.id = s.id => r = s
    /\ \A r \in records : \A ref \in r.refs :
         /\ \E s \in records : s.id = ref.target /\ s.type = ref.type
         /\ [source |-> r.id, target |-> ref.target, relation |-> ref.relation] \in edges
    /\ \A e \in edges : {e.source, e.target} \subseteq IdsOf(records)
    /\ \A v \in events : {v.subject, v.receipt} \subseteq IdsOf(records) \cup {NoRecord}

\* Event numbers are 1..n without a gap or a repetition although two different
\* mechanisms (MAX + 1 and AUTOINCREMENT) hand them out.
EventsGapless ==
    /\ EventNumbers = 1 .. Cardinality(events)
    /\ counter = Cardinality(events)

\* What a caller was told is stored stays stored, byte for byte: no later
\* batch, replay or rewrite under the same identity changes it.
AcknowledgedStored == acknowledged \subseteq records

\* The number serialised inside an AcquisitionEvent is the number of the very
\* event row that was appended for it, whatever else appended events meanwhile.
AcquisitionOrder ==
    \A r \in records : r.type = Acquisition =>
        \E e \in events : e.sequence = r.sequence /\ e.subject = r.id

\* verify() never rejects a workspace that only RecordStore has written, even
\* when other connections write between its SELECTs: the records are fetched
\* before the edges they require.
VerifyAccepts == verdict # "failed"

\* Every edge carries a registered lineage relation, the condition add_edge()
\* refuses to break ("unknown P3 lineage relation").
EdgesListed == \A e \in edges : e.relation \in LineageRelations

\* The store implements the abstract log of AppendOnlyLog: no commit takes
\* back a record, an edge or an event, or shows a record before its edges.
Log == INSTANCE AppendOnlyLog WITH
    stored <- records,
    lineage <- edges,
    log <- [n \in 1 .. Cardinality(events) |->
               CHOOSE e \in events : e.sequence = n]

ImplementsLog == Log!Spec

=============================================================================
