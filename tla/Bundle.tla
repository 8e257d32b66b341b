------------------------------- MODULE Bundle -------------------------------
(***************************************************************************)
(* Sealing a private bundle, and reading one: storage/bundle.py.           *)
(*                                                                         *)
(* seal_private() compares the objects with their registrations, takes the *)
(* records, the events, the edges and the objects from the workspace in    *)
(* four readings between which others may write, writes them to a stage of *)
(* its own, has a reader verify the stage, and renames it to its place.    *)
(* Nothing keeps the writers out: that a bundle is the workspace of one    *)
(* moment rests on what the reader refuses.                                *)
(*                                                                         *)
(* Lineage is what the records refer to: the store adds both in one        *)
(* transaction.  Files, digests and the order of the lists are left out;   *)
(* a dense array is one more content, read and copied with the others.     *)
(***************************************************************************)
EXTENDS Integers, Sequences, FiniteSets

CONSTANTS
    Sealers,         \* processes that seal
    Names,           \* bundle identities
    Authority,       \* the authority manifest, a record that refers to nothing
    NoBytes          \* the absent content

VARIABLES
    records, events, objects, registered,   \* the workspace
    seals,           \* what each sealer has read
    bundles          \* the bundles in their places

EdgesOf(docs) == UNION {{<<d.id, r>> : r \in d.refs} : d \in docs}
IdsOf(docs) == {d.id : d \in docs}
Log(q) == {<<n, q[n]>> : n \in DOMAIN q}

Empty == [records |-> {}, events |-> {}, edges |-> {}, artifacts |-> {}]
Idle == [step |-> "idle", name |-> NoBytes, read |-> Empty]

\* Mutant (BytesIncluded): the objects are copied before the records are read.
CopyFirst == [
    begin |-> "registrations", registrations |-> "objects", objects |-> "copy",
    copy |-> "records", records |-> "events", events |-> "edges", edges |-> "finish"]

\* The order of the readings.
StepAfter == [
    begin |-> "registrations", registrations |-> "objects", objects |-> "records",
    records |-> "events", events |-> "edges", edges |-> "copy", copy |-> "finish"]

-----------------------------------------------------------------------------
(* The reader *)

Closed(b) == \A r \in b.records : r.refs \subseteq IdsOf(b.records)

\* The numbers are 1 .. n, and what an event is about is in the bundle.
EventsResolve(b) ==
    /\ {e[1] : e \in b.events} = 1 .. Cardinality(b.events)
    /\ \A e \in b.events :
          /\ e[2].subject \in IdsOf(b.records)
          /\ e[2].receipt \in IdsOf(b.records) /\ e[2].receipt[1] = "receipt"

\* Mutant (Snapshot): the ends of an edge are not looked up.
ReferencesHaveEdges(b) == EdgesOf(b.records) \subseteq b.edges

\* Both ends of every edge are in the bundle, and no reference is without its edge.
LineageResolves(b) ==
    /\ \A e \in b.edges : {e[1], e[2]} \subseteq IdsOf(b.records)
    /\ EdgesOf(b.records) \subseteq b.edges

\* verify()
Accepts(b) == /\ Closed(b) /\ Authority \in b.records
              /\ EventsResolve(b) /\ LineageResolves(b)

-----------------------------------------------------------------------------
(* Sealing *)

\* A sealer goes on with what it has read, or gives up and removes its stage.
Continue(s, read) ==
    seals' = [seals EXCEPT ![s].read = read, ![s].step = StepAfter[seals[s].step]]
GiveUp(s) == seals' = [seals EXCEPT ![s] = Idle]

BeginSeal(s, name) ==
    /\ seals[s] = Idle /\ name \notin DOMAIN bundles
    /\ seals' = [seals EXCEPT ![s] = [step |-> StepAfter["begin"], name |-> name, read |-> Empty]]
    /\ UNCHANGED bundles

\* verify_workspace_storage(): the registrations, and then the objects, which must be the same.
\* (What it asks of the metadata holds between any two writes.)
ReadRegistrations(s) ==
    /\ seals[s].step = "registrations"
    /\ Continue(s, [Empty EXCEPT !.artifacts = registered])
    /\ UNCHANGED bundles

CompareObjects(s) ==
    /\ seals[s].step = "objects"
    /\ IF objects = seals[s].read.artifacts THEN Continue(s, Empty) ELSE GiveUp(s)
    /\ UNCHANGED bundles

\* The authority is added to the records, which must be closed.
ReadRecords(s) ==
    LET read == [seals[s].read EXCEPT !.records = records \cup {Authority}]
    IN  /\ seals[s].step = "records"
        /\ IF Closed(read) THEN Continue(s, read) ELSE GiveUp(s)
        /\ UNCHANGED bundles

ReadEvents(s) ==
    /\ seals[s].step = "events"
    /\ Continue(s, [seals[s].read EXCEPT !.events = Log(events)])
    /\ UNCHANGED bundles

ReadEdges(s) ==
    /\ seals[s].step = "edges"
    /\ Continue(s, [seals[s].read EXCEPT !.edges = EdgesOf(records)])
    /\ UNCHANGED bundles

CopyArtifacts(s) ==
    /\ seals[s].step = "copy"
    /\ IF registered \subseteq objects
       THEN Continue(s, [seals[s].read EXCEPT !.artifacts = registered])
       ELSE GiveUp(s)
    /\ UNCHANGED bundles

\* Mutant (SealedForever): the stage replaces what is in its place.
Takes(s) == TRUE

\* A directory is not renamed to one that has files.
Vacant(s) == seals[s].name \notin DOMAIN bundles

Placed(name, b) ==
    [n \in DOMAIN bundles \cup {name} |-> IF n = name THEN b ELSE bundles[n]]

\* The stage is verified and renamed.
Finish(s) ==
    /\ seals[s].step = "finish"
    /\ bundles' = IF Accepts(seals[s].read) /\ Vacant(s)
                  THEN Placed(seals[s].name, seals[s].read) ELSE bundles
    /\ GiveUp(s)

\* A call of another process, when nothing comes between its steps.
SealAtOnce(name) ==
    LET b == [records |-> records \cup {Authority}, events |-> Log(events),
              edges |-> EdgesOf(records), artifacts |-> registered]
    IN  /\ name \notin DOMAIN bundles /\ objects = registered /\ Accepts(b)
        /\ bundles' = Placed(name, b)
        /\ UNCHANGED seals

\* The process is stopped: its stage remains, and is never read.
StopSeal(s) == seals[s] # Idle /\ GiveUp(s) /\ UNCHANGED bundles

Init == seals = [s \in Sealers |-> Idle] /\ bundles = [n \in {} |-> Empty]

Seal(s) ==
    \/ \E name \in Names : BeginSeal(s, name)
    \/ ReadRegistrations(s) \/ CompareObjects(s)
    \/ ReadRecords(s) \/ ReadEvents(s) \/ ReadEdges(s) \/ CopyArtifacts(s)
    \/ Finish(s)

Next ==
    \/ \E s \in Sealers : Seal(s) \/ StopSeal(s)
    \/ \E name \in Names : SealAtOnce(name)

-----------------------------------------------------------------------------
(* Properties *)

\* The workspace as it was at one moment, when its log had k events.
At(k) == [records |-> {r \in records : r.id[2] <= k} \cup {Authority},
          events |-> {<<n, events[n]>> : n \in 1 .. k},
          edges |-> EdgesOf({r \in records : r.id[2] <= k})]

\* A sealed bundle has the records, the events and the lineage of one moment of the workspace,
\* although they were read one after the other while others wrote.
Snapshot ==
    \A n \in DOMAIN bundles : \E k \in 0 .. Len(events) :
       LET b == bundles[n]
       IN  /\ b.records = At(k).records /\ b.events = At(k).events /\ b.edges = At(k).edges

\* A sealed bundle has the bytes of every artifact it has a record of.
BytesIncluded ==
    \A n \in DOMAIN bundles : \A r \in bundles[n].records :
       r.bytes # NoBytes => r.bytes \in bundles[n].artifacts

\* Every record of a sealed bundle is held by another record, an event or the manifest: with any
\* one of them and its own edges left out, and the manifest rewritten to match, the reader
\* refuses what is left.
NoSilentOmission ==
    \A n \in DOMAIN bundles : \A r \in bundles[n].records :
       LET b == bundles[n]
       IN  ~Accepts([b EXCEPT !.records = @ \ {r}, !.edges = {e \in @ : e[1] # r.id}])

\* A sealed bundle is never replaced, changed or taken back.
Kept == \A n \in DOMAIN bundles : n \in DOMAIN bundles' /\ bundles'[n] = bundles[n]
=============================================================================
