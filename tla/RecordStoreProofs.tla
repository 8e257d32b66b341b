------------------------- MODULE RecordStoreProofs -------------------------
(***************************************************************************)
(* Theorems about RecordStore, for every set of documents, identities and  *)
(* relations and for every bound.                                          *)
(*                                                                         *)
(* The argument: event numbers are exactly 1..counter (NumbersOK), which   *)
(* makes MAX + 1 and AUTOINCREMENT agree; a batch is admitted only when it *)
(* is closed together with what is stored (ClosedOK); both are inductive   *)
(* with the type invariant.  What verify() has fetched is a part of what   *)
(* is stored, and its edges were fetched after its records (FetchedOK), so *)
(* on top of the first invariant verify() cannot fail.                     *)
(***************************************************************************)
EXTENDS RecordStore, FiniteSetTheorems, SequenceTheorems, TLAPS

NumbersOK ==
    /\ IsFiniteSet(events)
    /\ EventsGapless

StoreInv ==
    /\ TypeOK
    /\ NumbersOK
    /\ ClosedWorkspace
    /\ AcknowledgedStored

(***************************************************************************)
(* Lemmas about the operators                                              *)
(***************************************************************************)

\* The edges of a set of documents, element by element.
LEMMA EdgesDef ==
    ASSUME NEW docs
    PROVE  \A e : e \in Edges(docs) <=>
             \E d \in docs : \E r \in d.refs :
                e = [source |-> d.id, target |-> r.target, relation |-> r.relation]
BY DEF Edges

\* Documents only give rise to well-formed edges.
LEMMA EdgesType ==
    ASSUME NEW docs, docs \subseteq Document
    PROVE  Edges(docs) \subseteq Edge
BY EdgesDef DEF Edge, Document, Reference

\* While the numbers are 1..n, the last one is n: MAX + 1 and AUTOINCREMENT
\* hand out the same next number.
LEMMA LastIsCounter ==
    ASSUME NumbersOK
    PROVE  /\ counter \in Nat
           /\ LastSequence = counter
           /\ NextSequence = counter + 1
           /\ AutoNumber = counter + 1
<1> DEFINE P(m) == m \in EventNumbers \cup {0} /\ \A n \in EventNumbers : n <= m
<1>1. counter \in Nat /\ EventNumbers = 1 .. counter
  BY FS_CardinalityType DEF NumbersOK, EventsGapless
<1>2. P(counter)
  BY <1>1
<1>3. \A m : P(m) => m = counter
  BY <1>1
<1>4. LastSequence = counter
  BY <1>2, <1>3 DEF LastSequence
<1> QED BY <1>1, <1>4 DEF NextSequence, AutoNumber

\* Appending the next number keeps the numbers gapless.
LEMMA AppendGapless ==
    ASSUME NumbersOK, NEW subject, NEW receipt,
           events' = events \cup
             {[sequence |-> counter + 1, subject |-> subject, receipt |-> receipt]},
           counter' = counter + 1
    PROVE  NumbersOK'
<1> DEFINE new == [sequence |-> counter + 1, subject |-> subject, receipt |-> receipt]
<1>1. counter \in Nat /\ EventNumbers = 1 .. counter /\ Cardinality(events) = counter
  BY FS_CardinalityType DEF NumbersOK, EventsGapless
<1>2. new \notin events
  BY <1>1 DEF EventNumbers
<1>3. IsFiniteSet(events') /\ Cardinality(events') = counter + 1
  BY <1>1, <1>2, FS_AddElement DEF NumbersOK
<1>4. EventNumbers' = EventNumbers \cup {counter + 1}
  <2>1. events' = events \cup {new} /\ new.sequence = counter + 1
    OBVIOUS
  <2>2. EventNumbers' = {e.sequence : e \in events \cup {new}}
    BY <2>1 DEF EventNumbers
  <2> HIDE DEF new
  <2> QED BY <2>1, <2>2 DEF EventNumbers
<1>5. EventNumbers' = 1 .. counter + 1
  BY <1>1, <1>4
<1> QED BY <1>3, <1>5 DEF NumbersOK, EventsGapless

\* The stamped batch consists of documents again.
LEMMA StampedType ==
    ASSUME NumbersOK, NEW docs, docs \subseteq Document, NEW domain
    PROVE  Stamped(docs, domain) \subseteq Document
<1>1. NextSequence \in Nat
  BY LastIsCounter
<1>2. ASSUME NEW d \in docs
      PROVE  (IF d.id = domain THEN [d EXCEPT !.sequence = NextSequence] ELSE d) \in Document
  BY <1>1 DEF Document
<1> QED BY <1>2 DEF Stamped

(***************************************************************************)
(* The writers keep the workspace closed                                   *)
(***************************************************************************)

\* A batch that passed its checks leaves records and edges closed.
LEMMA BatchKeepsClosed ==
    ASSUME StoreInv, NEW docs, docs \subseteq Document, StoreBatch(docs)
    PROVE  /\ records' \subseteq Document
           /\ edges' \subseteq Edge
           /\ acknowledged' \subseteq Document
           /\ AcknowledgedStored'
           /\ IdsOf(records) \subseteq IdsOf(records')
           /\ \A r, s \in records' : r.id = s.id => r = s
           /\ \A r \in records' : \A ref \in r.refs :
                /\ \E s \in records' : s.id = ref.target /\ s.type = ref.type
                /\ [source |-> r.id, target |-> ref.target,
                    relation |-> ref.relation] \in edges'
           /\ \A e \in edges' : {e.source, e.target} \subseteq IdsOf(records')
<1> USE DEF StoreInv
<1>1. /\ records' = records \cup docs
      /\ edges' = edges \cup Edges(docs)
      /\ acknowledged' = acknowledged \cup docs
      /\ \A d, e \in docs : d.id = e.id => d = e
      /\ \A d \in docs : \A s \in records : d.id = s.id => d = s
      /\ \A d \in docs : \A r \in d.refs :
           \E s \in records' : s.id = r.target /\ s.type = r.type
  BY DEF StoreBatch, DistinctIds, SameBytes, Resolved
<1>2. /\ records' \subseteq Document
      /\ edges' \subseteq Edge
      /\ acknowledged' \subseteq Document
      /\ AcknowledgedStored'
  BY <1>1, EdgesType DEF TypeOK, AcknowledgedStored
<1>3. IdsOf(records) \subseteq IdsOf(records')
  BY <1>1 DEF IdsOf
<1>4. \A r, s \in records' : r.id = s.id => r = s
  BY <1>1 DEF ClosedWorkspace
<1>5. ASSUME NEW r \in records', NEW ref \in r.refs
      PROVE  /\ \E s \in records' : s.id = ref.target /\ s.type = ref.type
             /\ [source |-> r.id, target |-> ref.target, relation |-> ref.relation] \in edges'
  <2>1. CASE r \in docs
    BY <2>1, <1>1, EdgesDef
  <2>2. CASE r \in records
    BY <2>2, <1>1 DEF ClosedWorkspace
  <2> QED BY <2>1, <2>2, <1>1
<1>6. ASSUME NEW e \in edges'
      PROVE  {e.source, e.target} \subseteq IdsOf(records')
  <2>1. CASE e \in edges
    BY <2>1, <1>3 DEF ClosedWorkspace
  <2>2. CASE e \in Edges(docs)
    <3>1. PICK d \in docs : \E r \in d.refs :
             e = [source |-> d.id, target |-> r.target, relation |-> r.relation]
      BY <2>2, EdgesDef
    <3>2. PICK r \in d.refs :
             e = [source |-> d.id, target |-> r.target, relation |-> r.relation]
      BY <3>1
    <3>3. \E s \in records' : s.id = r.target
      BY <1>1
    <3> QED BY <3>2, <3>3, <1>1 DEF IdsOf
  <2> QED BY <2>1, <2>2, <1>1
<1> QED BY <1>2, <1>3, <1>4, <1>5, <1>6

\* Events that joined stored records still do after the records grew.
LEMMA EventsStayClosed ==
    ASSUME ClosedWorkspace, IdsOf(records) \subseteq IdsOf(records')
    PROVE  \A v \in events : {v.subject, v.receipt} \subseteq IdsOf(records') \cup {NoRecord}
BY DEF ClosedWorkspace

\* insert_records() keeps the invariant.
LEMMA InsertRecordsInv ==
    ASSUME StoreInv, NEW docs \in SUBSET Documents, InsertRecords(docs)
    PROVE  StoreInv'
<1>1. docs \subseteq Document /\ StoreBatch(docs)
  BY DocumentsAssumption DEF InsertRecords
<1>2. UNCHANGED <<events, counter, verification>>
  BY DEF InsertRecords
<1>3. NumbersOK'
  BY <1>2 DEF StoreInv, NumbersOK, EventsGapless, EventNumbers
<1>4. TypeOK'
  BY <1>1, <1>2, BatchKeepsClosed DEF StoreInv, TypeOK, verification
<1>5. ClosedWorkspace'
  BY <1>1, <1>2, BatchKeepsClosed, EventsStayClosed DEF StoreInv, ClosedWorkspace
<1> QED BY <1>1, <1>3, <1>4, <1>5, BatchKeepsClosed DEF StoreInv

\* insert_records_with_event() keeps it, stamped domain event included.
LEMMA InsertRecordsWithEventInv ==
    ASSUME StoreInv, NEW docs \in SUBSET Documents, NEW domain,
           NEW subject \in Ids, NEW receipt \in Ids \cup {NoRecord},
           InsertRecordsWithEvent(docs, domain, subject, receipt)
    PROVE  StoreInv'
<1> DEFINE batch == Stamped(docs, domain)
           new == [sequence |-> counter + 1, subject |-> subject, receipt |-> receipt]
<1>1. counter \in Nat /\ NextSequence = counter + 1
  BY LastIsCounter DEF StoreInv
<1>2. batch \subseteq Document /\ StoreBatch(batch)
  BY DocumentsAssumption, StampedType DEF InsertRecordsWithEvent, StoreInv
<1>3. /\ events' = events \cup {new}
      /\ counter' = counter + 1
      /\ subject \in IdsOf(records')
      /\ receipt \in IdsOf(records') \cup {NoRecord}
      /\ UNCHANGED verification
  BY <1>1 DEF InsertRecordsWithEvent
<1>4. NumbersOK'
  BY <1>3, AppendGapless DEF StoreInv
<1>5. TypeOK'
  <2>1. new \in Event
    BY <1>1 DEF Event
  <2> QED BY <1>1, <1>2, <1>3, <2>1, BatchKeepsClosed DEF StoreInv, TypeOK, verification
<1>6. \A v \in events' : {v.subject, v.receipt} \subseteq IdsOf(records') \cup {NoRecord}
  BY <1>2, <1>3, BatchKeepsClosed, EventsStayClosed DEF StoreInv
<1>7. ClosedWorkspace'
  BY <1>2, <1>6, BatchKeepsClosed DEF ClosedWorkspace
<1> QED BY <1>2, <1>4, <1>5, <1>7, BatchKeepsClosed DEF StoreInv

\* append_event() keeps it: AUTOINCREMENT hands out the next number.
LEMMA AppendEventInv ==
    ASSUME StoreInv, NEW subject \in Ids, NEW receipt \in Ids \cup {NoRecord},
           AppendEvent(subject, receipt)
    PROVE  StoreInv'
<1> DEFINE new == [sequence |-> counter + 1, subject |-> subject, receipt |-> receipt]
<1>1. counter \in Nat /\ AutoNumber = counter + 1
  BY LastIsCounter DEF StoreInv
<1>2. /\ events' = events \cup {new}
      /\ counter' = counter + 1
      /\ subject \in IdsOf(records)
      /\ receipt \in IdsOf(records) \cup {NoRecord}
      /\ UNCHANGED <<records, edges, acknowledged, verification>>
  BY <1>1 DEF AppendEvent
<1>3. NumbersOK'
  BY <1>2, AppendGapless DEF StoreInv
<1>4. new \in Event
  BY <1>1 DEF Event
<1>5. TypeOK'
  BY <1>1, <1>2, <1>4 DEF StoreInv, TypeOK, verification
<1>6. ClosedWorkspace'
  BY <1>2 DEF StoreInv, ClosedWorkspace, IdsOf
<1> QED BY <1>2, <1>3, <1>5, <1>6 DEF StoreInv, AcknowledgedStored

\* add_edge() keeps it: both ends are stored.
LEMMA AddEdgeInv ==
    ASSUME StoreInv,
           NEW edge \in [source : Ids, target : Ids, relation : LineageRelations],
           AddEdge(edge)
    PROVE  StoreInv'
<1>1. edge \in Edge
  BY DEF Edge
<1>2. NumbersOK'
  BY DEF AddEdge, StoreInv, NumbersOK, EventsGapless, EventNumbers
<1>3. TypeOK'
  BY <1>1 DEF AddEdge, StoreInv, TypeOK, verification
<1>4. ClosedWorkspace'
  BY DEF AddEdge, StoreInv, ClosedWorkspace, IdsOf
<1> QED BY <1>2, <1>3, <1>4 DEF AddEdge, StoreInv, AcknowledgedStored

\* create_descendant is a batch of one document plus one more edge.
LEMMA CreateDescendantInv ==
    ASSUME StoreInv, NEW parent \in Ids, NEW d \in Documents,
           NEW relation \in LineageRelations, CreateDescendant(parent, d, relation)
    PROVE  StoreInv'
<1> DEFINE link == [source |-> d.id, target |-> parent, relation |-> relation]
<1>1. d \in Document /\ Edges({d}) \subseteq Edge
  BY DocumentsAssumption, EdgesType
<1>2. /\ records' = records \cup {d}
      /\ edges' = edges \cup Edges({d}) \cup {link}
      /\ acknowledged' = acknowledged \cup {d}
      /\ UNCHANGED <<events, counter, verification>>
      /\ parent \in IdsOf(records)
      /\ \A s \in records : d.id = s.id => d = s
      /\ \A r \in d.refs : \E s \in records' : s.id = r.target /\ s.type = r.type
  BY DEF CreateDescendant, SameBytes, Resolved
<1>3. link \in Edge
  BY <1>1 DEF Document, Edge
<1>4. NumbersOK'
  BY <1>2 DEF StoreInv, NumbersOK, EventsGapless, EventNumbers
<1>5. TypeOK'
  BY <1>1, <1>2, <1>3 DEF StoreInv, TypeOK, verification
<1>6. AcknowledgedStored'
  BY <1>2 DEF StoreInv, AcknowledgedStored
<1>7. IdsOf(records) \subseteq IdsOf(records') /\ d.id \in IdsOf(records')
  BY <1>2 DEF IdsOf
<1>8. \A r, s \in records' : r.id = s.id => r = s
  BY <1>2 DEF StoreInv, ClosedWorkspace
<1>9. ASSUME NEW r \in records', NEW ref \in r.refs
      PROVE  /\ \E s \in records' : s.id = ref.target /\ s.type = ref.type
             /\ [source |-> r.id, target |-> ref.target, relation |-> ref.relation] \in edges'
  <2>1. CASE r = d
    BY <2>1, <1>2, EdgesDef
  <2>2. CASE r \in records
    BY <2>2, <1>2 DEF StoreInv, ClosedWorkspace
  <2> QED BY <2>1, <2>2, <1>2
<1>10. ASSUME NEW e \in edges'
       PROVE  {e.source, e.target} \subseteq IdsOf(records')
  <2>1. CASE e \in edges
    BY <2>1, <1>7 DEF StoreInv, ClosedWorkspace
  <2>2. CASE e \in Edges({d})
    <3>1. PICK r \in d.refs :
             e = [source |-> d.id, target |-> r.target, relation |-> r.relation]
      BY <2>2, EdgesDef
    <3>2. \E s \in records' : s.id = r.target
      BY <1>2
    <3> QED BY <3>1, <3>2, <1>7 DEF IdsOf
  <2>3. CASE e = link
    BY <2>3, <1>2, <1>7
  <2> QED BY <2>1, <2>2, <2>3, <1>2
<1>11. \A v \in events' : {v.subject, v.receipt} \subseteq IdsOf(records') \cup {NoRecord}
  BY <1>2, <1>7, EventsStayClosed DEF StoreInv
<1>12. ClosedWorkspace'
  BY <1>8, <1>9, <1>10, <1>11 DEF ClosedWorkspace
<1> QED BY <1>4, <1>5, <1>6, <1>12 DEF StoreInv

\* verify() writes nothing but its own variables.
LEMMA VerifyInv ==
    ASSUME StoreInv, Verify
    PROVE  StoreInv'
<1>1. UNCHANGED <<records, edges, events, counter, acknowledged>>
  BY DEF Verify, BeginVerify, FetchRecords, FetchEdges, CheckRows, tables
<1>2. /\ step' \in {"idle", "records", "edges", "check"}
      /\ fetched' \in [records : SUBSET Document, edges : SUBSET Edge]
      /\ verdict' \in {"none", "verified", "failed"}
  BY DEF StoreInv, TypeOK, Verify, BeginVerify, FetchRecords, FetchEdges, CheckRows,
         EndsVerify, FetchOrder
<1> QED BY <1>1, <1>2 DEF StoreInv, TypeOK, NumbersOK, EventsGapless, EventNumbers,
                          ClosedWorkspace, IdsOf, AcknowledgedStored

\* Every operation of RecordStore (storage/database.py) keeps the tables typed,
\* numbered, closed and durable: the invariant the theorems below rest on.
THEOREM StoreCorrect == Spec => []StoreInv
<1>1. Init => StoreInv
  <2> SUFFICES ASSUME Init PROVE StoreInv
    OBVIOUS
  <2>1. IsFiniteSet(events) /\ Cardinality(events) = 0 /\ EventNumbers = {}
    BY FS_EmptySet DEF Init, EventNumbers
  <2>2. NumbersOK
    BY <2>1 DEF Init, NumbersOK, EventsGapless
  <2> QED BY <2>2 DEF Init, StoreInv, TypeOK, ClosedWorkspace, AcknowledgedStored
<1>2. StoreInv /\ [Next]_vars => StoreInv'
  <2> SUFFICES ASSUME StoreInv, [Next]_vars PROVE StoreInv'
    OBVIOUS
  <2>1. CASE Write
    BY <2>1, InsertRecordsInv, InsertRecordsWithEventInv, AppendEventInv, AddEdgeInv,
       CreateDescendantInv DEF Write
  <2>2. CASE Verify
    BY <2>2, VerifyInv
  <2>3. CASE UNCHANGED vars
    BY <2>3 DEF vars, tables, verification, StoreInv, TypeOK, NumbersOK, EventsGapless,
                EventNumbers, ClosedWorkspace, IdsOf, AcknowledgedStored
  <2> QED BY <2>1, <2>2, <2>3 DEF Next
<1> QED BY <1>1, <1>2, PTL DEF Spec

\* Type correctness of the store (storage/database.py, the STRICT tables).
THEOREM TypeCorrect == Spec => []TypeOK
BY StoreCorrect, PTL DEF StoreInv

\* No sequence of writers opens the workspace's reference closure.
THEOREM AlwaysClosed == Spec => []ClosedWorkspace
BY StoreCorrect, PTL DEF StoreInv

\* The two ways of numbering events never leave a gap or reuse a number.
THEOREM AlwaysGapless == Spec => []EventsGapless
BY StoreCorrect, PTL DEF StoreInv, NumbersOK

\* Acknowledged documents stay stored with their bytes.
THEOREM AlwaysDurable == Spec => []AcknowledgedStored
BY StoreCorrect, PTL DEF StoreInv

(***************************************************************************)
(* verify() against concurrent writers                                     *)
(***************************************************************************)

\* What verify() has fetched so far: a part of what is stored, closed as soon
\* as the records are there, with every required edge once the edges are.
FetchedOK ==
    /\ fetched.records \subseteq records
    /\ fetched.edges \subseteq edges
    /\ step \in {"edges", "check"} => Resolved(fetched.records, fetched.records)
    /\ step = "check" => Edges(fetched.records) \subseteq fetched.edges
    /\ verdict # "failed"

\* The tables only grow.
LEMMA TablesGrow ==
    ASSUME Write
    PROVE  records \subseteq records' /\ edges \subseteq edges' /\ UNCHANGED verification
BY DEF Write, InsertRecords, InsertRecordsWithEvent, StoreBatch, AppendEvent, AddEdge,
       CreateDescendant

\* Each SELECT of verify() adds rows that fit the rows fetched before it.
LEMMA VerifyKeepsFetched ==
    ASSUME Relations \subseteq LineageRelations, StoreInv, FetchedOK, Verify
    PROVE  FetchedOK'
<1> USE DEF FetchedOK
<1>1. fetched \in [records : SUBSET Document, edges : SUBSET Edge]
  BY DEF StoreInv, TypeOK
<1>2. UNCHANGED <<records, edges>>
  BY DEF Verify, BeginVerify, FetchRecords, FetchEdges, CheckRows, tables
<1>3. CASE BeginVerify
  <2>1. /\ \A e \in edges : {e.source, e.target} \subseteq IdsOf(records)
        /\ \A v \in events : {v.subject, v.receipt} \subseteq IdsOf(records) \cup {NoRecord}
    BY DEF StoreInv, ClosedWorkspace
  <2>2. step' = "records" /\ UNCHANGED <<fetched, verdict>>
    BY <1>3, <2>1 DEF BeginVerify, FetchOrder
  <2> QED BY <1>2, <2>2
<1>4. CASE FetchRecords
  <2>1. /\ step' = "edges"
        /\ fetched' = [fetched EXCEPT !.records = records]
        /\ verdict' = verdict
    BY <1>4 DEF FetchRecords, FetchOrder
  <2>2. fetched'.records = records /\ fetched'.edges = fetched.edges
    BY <1>1, <2>1
  <2>3. Resolved(records, records)
    BY DEF StoreInv, ClosedWorkspace, Resolved
  <2>4. Resolved(fetched'.records, fetched'.records)
    BY <2>2, <2>3
  <2> QED BY <1>2, <2>1, <2>2, <2>4 DEF Resolved
<1>5. CASE FetchEdges
  <2>1. /\ step = "edges"
        /\ step' = "check"
        /\ fetched' = [fetched EXCEPT !.edges = edges]
        /\ verdict' = verdict
    BY <1>5 DEF FetchEdges, FetchOrder
  <2>2. fetched'.records = fetched.records /\ fetched'.edges = edges
    BY <1>1, <2>1
  <2>3. Edges(fetched.records) \subseteq edges
    BY EdgesDef DEF StoreInv, ClosedWorkspace
  <2>4. Resolved(fetched'.records, fetched'.records)
    BY <2>1, <2>2
  <2>5. Edges(fetched'.records) \subseteq fetched'.edges
    BY <2>2, <2>3
  <2> QED BY <1>2, <2>1, <2>2, <2>4, <2>5 DEF Resolved, Edges
<1>6. CASE CheckRows
  <2>1. DistinctIds(fetched.records)
    BY DEF StoreInv, ClosedWorkspace, DistinctIds
  <2>2. \A e \in fetched.edges : e.relation \in LineageRelations
    BY <1>1 DEF Edge
  <2>3. EventNumbers = 1 .. Cardinality(events)
    BY DEF StoreInv, NumbersOK, EventsGapless
  <2>4. /\ step' = "idle"
        /\ fetched' = [records |-> {}, edges |-> {}]
        /\ verdict' = "verified"
    BY <1>6, <2>1, <2>2, <2>3 DEF CheckRows, EndsVerify
  <2> QED BY <2>4
<1> QED BY <1>3, <1>4, <1>5, <1>6 DEF Verify

\* Provided callers only name lineage relations, verify() accepts the workspace
\* however other writers are interleaved with its SELECTs.
THEOREM VerifyNeverRejects ==
    ASSUME Relations \subseteq LineageRelations
    PROVE  Spec => []VerifyAccepts
<1>1. Init => FetchedOK
  BY DEF Init, FetchedOK
<1>2. StoreInv /\ FetchedOK /\ [Next]_vars => FetchedOK'
  <2> SUFFICES ASSUME StoreInv, FetchedOK, [Next]_vars PROVE FetchedOK'
    OBVIOUS
  <2>1. CASE Write
    BY <2>1, TablesGrow DEF FetchedOK, verification, Resolved, Edges
  <2>2. CASE Verify
    BY <2>2, VerifyKeepsFetched
  <2>3. CASE UNCHANGED vars
    BY <2>3 DEF vars, tables, verification, FetchedOK, Resolved, Edges
  <2> QED BY <2>1, <2>2, <2>3 DEF Next
<1>3. FetchedOK => VerifyAccepts
  BY DEF FetchedOK, VerifyAccepts
<1> QED BY <1>1, <1>2, <1>3, StoreCorrect, PTL DEF Spec

(***************************************************************************)
(* The number inside an acquisition                                        *)
(***************************************************************************)

\* A batch whose acquisitions have their event row keeps all acquisitions so.
LEMMA AcquisitionKept ==
    ASSUME AcquisitionOrder, events \subseteq events', NEW docs,
           records' = records \cup docs,
           \A d \in docs : d.type = Acquisition =>
              \E e \in events' : e.sequence = d.sequence /\ e.subject = d.id
    PROVE  AcquisitionOrder'
BY DEF AcquisitionOrder

\* Every stored AcquisitionEvent carries the number of its own event row.
THEOREM AcquisitionsOrdered == Spec => []AcquisitionOrder
<1>1. Init => AcquisitionOrder
  BY DEF Init, AcquisitionOrder
<1>2. StoreInv /\ AcquisitionOrder /\ [Next]_vars => AcquisitionOrder'
  <2> SUFFICES ASSUME StoreInv, AcquisitionOrder, [Next]_vars PROVE AcquisitionOrder'
    OBVIOUS
  <2>1. ASSUME NEW docs \in SUBSET Documents, Plain(docs), InsertRecords(docs)
        PROVE  AcquisitionOrder'
    BY <2>1, AcquisitionKept DEF InsertRecords, StoreBatch, Plain
  <2>2. ASSUME NEW docs \in SUBSET Documents, NEW subject \in Ids,
               NEW receipt \in Ids \cup {NoRecord}, Plain(docs),
               InsertRecordsWithEvent(docs, NoRecord, subject, receipt)
        PROVE  AcquisitionOrder'
    <3>1. Stamped(docs, NoRecord) = docs
      BY DocumentsAssumption DEF Stamped, Document
    <3> QED BY <2>2, <3>1, AcquisitionKept DEF InsertRecordsWithEvent, StoreBatch, Plain
  <2>3. ASSUME NEW docs \in SUBSET Documents, NEW domain \in Ids,
               NEW receipt \in Ids \cup {NoRecord}, Ingested(docs, domain),
               InsertRecordsWithEvent(docs, domain, domain, receipt)
        PROVE  AcquisitionOrder'
    <3> DEFINE new == [sequence |-> NextSequence, subject |-> domain, receipt |-> receipt]
    <3>1. events' = events \cup {new} /\ records' = records \cup Stamped(docs, domain)
      BY <2>3 DEF InsertRecordsWithEvent, StoreBatch
    <3>2. ASSUME NEW d \in Stamped(docs, domain), d.type = Acquisition
          PROVE  d.sequence = NextSequence /\ d.id = domain
      <4>1. PICK c \in docs :
               d = IF c.id = domain THEN [c EXCEPT !.sequence = NextSequence] ELSE c
        BY DEF Stamped
      <4>2. c \in Document
        BY DocumentsAssumption
      <4>3. d.type = c.type
        BY <4>1, <4>2 DEF Document
      <4>4. c.id = domain
        BY <2>3, <3>2, <4>3 DEF Ingested
      <4> QED BY <4>1, <4>2, <4>4 DEF Document
    <3>3. new \in events' /\ new.sequence = NextSequence /\ new.subject = domain
      BY <3>1
    <3> HIDE DEF new
    <3> QED BY <3>1, <3>2, <3>3, AcquisitionKept
  <2>4. ASSUME NEW subject \in Ids, NEW receipt \in Ids \cup {NoRecord},
               AppendEvent(subject, receipt)
        PROVE  AcquisitionOrder'
    BY <2>4, AcquisitionKept DEF AppendEvent, AcquisitionOrder
  <2>5. ASSUME NEW edge, AddEdge(edge)
        PROVE  AcquisitionOrder'
    BY <2>5 DEF AddEdge, AcquisitionOrder
  <2>6. ASSUME NEW parent \in Ids, NEW d \in Documents, NEW relation \in LineageRelations,
               Plain({d}), CreateDescendant(parent, d, relation)
        PROVE  AcquisitionOrder'
    BY <2>6, AcquisitionKept DEF CreateDescendant, Plain
  <2>7. CASE Verify \/ UNCHANGED vars
    BY <2>7 DEF Verify, BeginVerify, FetchRecords, FetchEdges, CheckRows, vars, tables,
                AcquisitionOrder
  <2> QED BY <2>1, <2>2, <2>3, <2>4, <2>5, <2>6, <2>7 DEF Next, Write
<1> QED BY <1>1, <1>2, StoreCorrect, PTL DEF Spec

(***************************************************************************)
(* The store implements the append-only log                                *)
(***************************************************************************)

NumbersUnique == \A e, f \in events : e.sequence = f.sequence => e = f

EventNumbered(n) == CHOOSE e \in events : e.sequence = n

LogOf == [n \in 1 .. Cardinality(events) |-> EventNumbered(n)]

\* A step leaves the event table alone or appends the row numbered counter + 1.
LEMMA EventStep ==
    ASSUME StoreInv, [Next]_vars
    PROVE  \/ events' = events
           \/ \E new \in Event : new.sequence = counter + 1 /\ events' = events \cup {new}
<1>1. /\ counter \in Nat
      /\ NextSequence = counter + 1
      /\ AutoNumber = counter + 1
  BY LastIsCounter DEF StoreInv
<1>2. ASSUME NEW docs, NEW domain, NEW subject \in Ids, NEW receipt \in Ids \cup {NoRecord},
             InsertRecordsWithEvent(docs, domain, subject, receipt)
      PROVE  \E new \in Event : new.sequence = counter + 1 /\ events' = events \cup {new}
  <2> DEFINE new == [sequence |-> counter + 1, subject |-> subject, receipt |-> receipt]
  <2>1. new \in Event /\ new.sequence = counter + 1
    BY <1>1 DEF Event
  <2> QED BY <1>1, <1>2, <2>1 DEF InsertRecordsWithEvent
<1>3. ASSUME NEW subject \in Ids, NEW receipt \in Ids \cup {NoRecord},
             AppendEvent(subject, receipt)
      PROVE  \E new \in Event : new.sequence = counter + 1 /\ events' = events \cup {new}
  <2> DEFINE new == [sequence |-> counter + 1, subject |-> subject, receipt |-> receipt]
  <2>1. new \in Event /\ new.sequence = counter + 1
    BY <1>1 DEF Event
  <2> QED BY <1>1, <1>3, <2>1 DEF AppendEvent
<1>4. CASE Write
  BY <1>2, <1>3, <1>4 DEF Write, InsertRecords, AddEdge, CreateDescendant
<1>5. CASE Verify \/ UNCHANGED vars
  BY <1>5 DEF Verify, BeginVerify, FetchRecords, FetchEdges, CheckRows, vars, tables
<1> QED BY <1>4, <1>5 DEF Next

\* No two event rows ever share a number.
LEMMA UniqueStep ==
    ASSUME StoreInv, NumbersUnique, [Next]_vars
    PROVE  NumbersUnique'
<1>1. EventNumbers = 1 .. counter /\ counter \in Nat
  BY LastIsCounter DEF StoreInv, NumbersOK, EventsGapless
<1>2. \A e \in events : e.sequence # counter + 1
  BY <1>1 DEF EventNumbers
<1> QED BY <1>2, EventStep DEF NumbersUnique

\* The event numbered n is there, and is the only one.
LEMMA EventNumberedIs ==
    ASSUME StoreInv, NumbersUnique
    PROVE  /\ \A n \in 1 .. counter : EventNumbered(n) \in events
           /\ \A e \in events : EventNumbered(e.sequence) = e
<1>1. EventNumbers = 1 .. counter
  BY DEF StoreInv, NumbersOK, EventsGapless
<1>2. \A n \in 1 .. counter : \E e \in events : e.sequence = n
  BY <1>1 DEF EventNumbers
<1> QED BY <1>2 DEF EventNumbered, NumbersUnique

\* The event rows, read in order, are a sequence of events.
LEMMA LogType ==
    ASSUME StoreInv, NumbersUnique
    PROVE  LogOf \in Seq(Event) /\ Len(LogOf) = counter
<1>1. Cardinality(events) = counter /\ counter \in Nat /\ events \subseteq Event
  BY DEF StoreInv, NumbersOK, EventsGapless, TypeOK
<1>2. LogOf \in [1 .. counter -> Event]
  BY <1>1, EventNumberedIs DEF LogOf
<1>3. LogOf \in Seq(Event)
  BY <1>1, <1>2, SeqDef
<1>4. DOMAIN LogOf = 1 .. counter /\ DOMAIN LogOf = 1 .. Len(LogOf) /\ Len(LogOf) \in Nat
  BY <1>2, <1>3, LenProperties
<1> QED BY <1>1, <1>3, <1>4

\* One more row is one more entry at the end of the log.
LEMMA LogStep ==
    ASSUME StoreInv, StoreInv', NumbersUnique, NumbersUnique', [Next]_vars
    PROVE  \/ LogOf' = LogOf
           \/ /\ Len(LogOf') = Len(LogOf) + 1
              /\ SubSeq(LogOf', 1, Len(LogOf)) = LogOf
<1>1. CASE events' = events
  BY <1>1 DEF LogOf, EventNumbered
<1>2. CASE \E new \in Event : new.sequence = counter + 1 /\ events' = events \cup {new}
  <2>1. PICK new \in Event : new.sequence = counter + 1 /\ events' = events \cup {new}
    BY <1>2
  <2>2. /\ Cardinality(events) = counter
        /\ counter \in Nat
        /\ EventNumbers = 1 .. counter
        /\ Cardinality(events') = counter'
        /\ counter' \in Nat
        /\ EventNumbers' = 1 .. counter'
    BY DEF StoreInv, NumbersOK, EventsGapless, TypeOK
  <2>3. counter' = counter + 1
    <3>1. counter + 1 \in EventNumbers'
      BY <2>1 DEF EventNumbers
    <3>2. \A n \in EventNumbers' : n <= counter + 1
      BY <2>1, <2>2 DEF EventNumbers
    <3> QED BY <2>2, <3>1, <3>2
  <2>4. \A n \in 1 .. counter : LogOf'[n] = LogOf[n]
    <3> SUFFICES ASSUME NEW n \in 1 .. counter PROVE LogOf'[n] = LogOf[n]
      OBVIOUS
    <3>1. EventNumbered(n) \in events /\ EventNumbered(n).sequence = n
      BY <2>2, EventNumberedIs DEF EventNumbered, EventNumbers
    <3>2. EventNumbered(n) \in events'
      BY <2>1, <3>1
    <3>3. EventNumbered(n)' = EventNumbered(n)
      BY <3>1, <3>2 DEF EventNumbered, NumbersUnique
    <3> QED BY <2>2, <2>3, <3>3 DEF LogOf
  <2>5. LogOf \in Seq(Event) /\ Len(LogOf) = counter
    BY LogType
  <2>6. LogOf' \in Seq(Event) /\ Len(LogOf') = counter'
    <3>1. LogOf' \in [1 .. counter' -> Event]
      <4>1. \A n \in 1 .. counter' : \E e \in events' : e.sequence = n
        BY <2>2 DEF EventNumbers
      <4>2. \A n \in 1 .. counter' : EventNumbered(n)' \in events'
        BY <4>1 DEF EventNumbered
      <4>3. events' \subseteq Event
        BY DEF StoreInv, TypeOK
      <4> QED BY <2>2, <4>2, <4>3 DEF LogOf
    <3>2. LogOf' \in Seq(Event)
      BY <2>2, <3>1, SeqDef
    <3>3. DOMAIN LogOf' = 1 .. counter' /\ DOMAIN LogOf' = 1 .. Len(LogOf') /\ Len(LogOf') \in Nat
      BY <3>1, <3>2, LenProperties
    <3> QED BY <2>2, <3>2, <3>3
  <2>7. SubSeq(LogOf', 1, counter) = LogOf
    <3> DEFINE prefix == SubSeq(LogOf', 1, counter)
    <3>1. /\ prefix \in Seq(Event)
          /\ Len(prefix) = counter
          /\ \A n \in 1 .. counter : prefix[n] = LogOf'[n]
      BY <2>2, <2>3, <2>6, SubSeqProperties
    <3> HIDE DEF prefix
    <3> QED BY <2>4, <2>5, <3>1, SeqEqual
  <2> QED BY <2>2, <2>3, <2>5, <2>6, <2>7
<1> QED BY <1>1, <1>2, EventStep

\* Every step of the store is a commit of the abstract log or a stutter.
LEMMA CommitStep ==
    ASSUME StoreInv, StoreInv', NumbersUnique, NumbersUnique', [Next]_vars
    PROVE  Log!Commit
<1>1. records \subseteq records' /\ edges \subseteq edges'
  BY TablesGrow DEF Next, Verify, BeginVerify, FetchRecords, FetchEdges, CheckRows, vars, tables
<1>2. /\ \A r, s \in records' : r.id = s.id => r = s
      /\ \A r \in records' : \A ref \in r.refs :
           [source |-> r.id, target |-> ref.target, relation |-> ref.relation] \in edges'
  BY DEF StoreInv, ClosedWorkspace
<1> QED BY <1>1, <1>2, LogStep DEF Log!Commit, LogOf, EventNumbered

\* The tables implement the abstract append-only log, step for step.
THEOREM StoreImplementsLog == Spec => ImplementsLog
<1>1. Init => Log!Init
  <2> SUFFICES ASSUME Init PROVE Log!Init
    OBVIOUS
  <2>1. records = {} /\ edges = {} /\ events = {} /\ Cardinality(events) = 0
    BY FS_EmptySet DEF Init
  <2>2. LogOf = << >>
    BY <2>1 DEF LogOf
  <2> QED BY <2>1, <2>2 DEF Log!Init, LogOf, EventNumbered
<1>2. Init => NumbersUnique
  BY DEF Init, NumbersUnique
<1>3. StoreInv /\ NumbersUnique /\ [Next]_vars => NumbersUnique'
  BY UniqueStep
<1>4. StoreInv /\ StoreInv' /\ NumbersUnique /\ NumbersUnique' /\ [Next]_vars => Log!Commit
  BY CommitStep
<1> QED BY <1>1, <1>2, <1>3, <1>4, StoreCorrect, PTL DEF Spec, ImplementsLog, Log!Spec

=============================================================================
