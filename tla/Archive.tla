------------------------------ MODULE Archive ------------------------------
(***************************************************************************)
(* One workspace that files are taken into and captured from while bundles *)
(* of it are sealed: Ingress, Adapter and Bundle over the same metadata    *)
(* and objects, in any order of their steps.  Beside ingress and the       *)
(* adapters, whose every transaction ends in one event with a receipt of   *)
(* its own, there is one kind of writer that appends events alone: a       *)
(* governance action tells the members of its closure, in transactions     *)
(* that follow the one its receipt was stored in.                          *)
(***************************************************************************)
EXTENDS Integers, Sequences, FiniteSets

CONSTANTS
    Importers, Surface, Inputs, Policies, NoBytes, MaxEvents,   \* of Ingress
    Sealers, Names, Authority,                                  \* of Bundle
    Clients, Captures, Maxima, Arrays, MaxAnswers,              \* of Adapter
    Told             \* bound: the roles of what events are appended about

VARIABLES records, events, objects, registered, calls, seals, bundles, jobs

workspace == <<records, events, objects, registered>>
vars == <<workspace, calls, seals, bundles, jobs>>

I == INSTANCE Ingress
B == INSTANCE Bundle
A == INSTANCE Adapter

\* The manifest is a record of no transaction of the workspace.
ASSUME ArchiveAssumption ==
    /\ I!SoundInputs
    /\ Authority.id = <<"authority", 0>> /\ Authority.refs = {} /\ Authority.bytes = NoBytes
    /\ Maxima \subseteq Nat \ {0} /\ MaxAnswers \in Nat

\* _propagate_event(): about a record that is stored, with a receipt that is stored.
PropagateEvent(subject, receipt) ==
    /\ Len(events) < MaxEvents
    /\ subject.id[1] \in Told /\ receipt.id[1] = "receipt"
    /\ events' = Append(events, [subject |-> subject.id, receipt |-> receipt.id])
    /\ UNCHANGED <<records, objects, registered>>

Init == I!Init /\ B!Init /\ A!Init

Next ==
    \/ I!Next /\ UNCHANGED <<seals, bundles, jobs>>
    \/ B!Next /\ UNCHANGED <<workspace, calls, jobs>>
    \/ A!Next /\ UNCHANGED <<calls, seals, bundles>>
    \/ \E subject, receipt \in records :
          PropagateEvent(subject, receipt) /\ UNCHANGED <<calls, seals, bundles, jobs>>

Spec == Init /\ [][Next]_vars

-----------------------------------------------------------------------------
(* Properties *)

\* The records, the log, the objects and what the processes hold have their shapes; what is
\* registered is kept, and no two records have one name.
TypeOK ==
    /\ \A r \in records : r.id[2] \in DOMAIN events /\ r.refs \subseteq I!IdsOf(records)
    /\ \A r, s \in records : r.id = s.id => r = s
    /\ \A n \in DOMAIN events :
          {events[n].subject, events[n].receipt} \subseteq I!IdsOf(records)
    /\ registered \subseteq objects
    /\ \A p \in Importers : calls[p].input \in Inputs \cup {NoBytes}
    /\ \A c \in Clients : jobs[c].op \in {"none", "encode", "intervene", "decode"}
    /\ DOMAIN bundles \subseteq Names
    /\ \A s \in Sealers : seals[s].step \in {"idle"} \cup {B!StepAfter[x] : x \in DOMAIN B!StepAfter}

AcquisitionsBacked == I!AcquisitionsBacked
AperturesWithin == I!AperturesWithin
Snapshot == B!Snapshot
BytesIncluded == B!BytesIncluded
NoSilentOmission == B!NoSilentOmission
SealedForever == [][B!Kept]_vars
CapturesBacked == A!CapturesBacked
CaptureWithinAperture == A!CaptureWithinAperture
CatalogueWhole == A!CatalogueWhole
OnlyAddressable == A!OnlyAddressable
=============================================================================
