--------------------------- MODULE MCRecordStore ---------------------------
(***************************************************************************)
(* Documents for model checking RecordStore: a source, a conflicting       *)
(* rewrite of it, an acquisition and its receipt that refer to each other  *)
(* (as ingress writes them), and a document that claims the source is a    *)
(* receipt.                                                                *)
(***************************************************************************)
EXTENDS RecordStore

MCIds == {"s", "a", "r"}
MCTypes == {"SourceRecord", "AcquisitionEvent", "OperationReceipt"}
MCBodies == {"b1", "b2"}

Ref(target, type, relation) ==
    [target |-> target, type |-> type, relation |-> relation]

Doc(id, type, refs, body, sequence) ==
    [id |-> id, type |-> type, refs |-> refs, body |-> body, sequence |-> sequence]

Source == Doc("s", "SourceRecord", {}, "b1", 0)
RewrittenSource == Doc("s", "SourceRecord", {}, "b2", 0)
\* ingress submits the placeholder event_sequence 1
Acquired ==
    Doc("a", "AcquisitionEvent",
        {Ref("s", "SourceRecord", "acquired_from"), Ref("r", "OperationReceipt", "depends_on")},
        "b1", 1)
Receipt ==
    Doc("r", "OperationReceipt",
        {Ref("s", "SourceRecord", "depends_on"), Ref("a", "AcquisitionEvent", "depends_on")},
        "b1", 0)
Mistyped == Doc("r", "OperationReceipt", {Ref("s", "OperationReceipt", "depends_on")}, "b1", 0)
\* caller-supplied evidence that holds a reference with a relation of its own
Unlisted == Doc("r", "OperationReceipt", {Ref("s", "SourceRecord", "invented")}, "b1", 0)

MCDocuments == {Source, RewrittenSource, Acquired, Receipt, Mistyped}
MCUnlistedDocuments == {Source, Acquired, Receipt, Unlisted}

MCLineageRelations == {"acquired_from", "depends_on"}
MCRelations == MCLineageRelations \cup {"invented"}
=============================================================================
