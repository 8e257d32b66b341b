------------------------------ MODULE Ingress ------------------------------
(***************************************************************************)
(* What comes into a workspace: ingress/service.py.                        *)
(*                                                                         *)
(* A local file is read, decoded and kept: its bytes first, as content     *)
(* addressed objects that are registered one by one, its records last, in  *)
(* one transaction with one event.  A call that fails stores a receipt     *)
(* alone, a call that is stopped nothing more than it had.  An aperture is *)
(* derived from what was taken in, and never wider.                        *)
(*                                                                         *)
(* A record is named by its role and the number of the event that ended    *)
(* its transaction; the log is the sequence of the events.  A rate is what *)
(* the source was sampled at, and 0 for what is not sampled.               *)
(***************************************************************************)
EXTENDS Integers, Sequences, FiniteSets

CONSTANTS
    Importers,       \* processes that take files in
    Surface,         \* what the apparatus admits: kinds, operations, rates, channels
    Inputs,          \* files as they are offered, and how
    Policies,        \* what an aperture is asked for
    NoBytes,         \* the absent content
    MaxEvents        \* bound: events of a behaviour

\* What a module that takes an instance of this one assumes.
SoundInputs ==
    /\ Surface.rates \subseteq Nat \ {0}
    /\ Surface.channels \in Nat \ {0}
    /\ MaxEvents \in Nat
    /\ \A input \in Inputs : input.rate \in Nat
    /\ \A policy \in Policies : policy.frequency \in Nat

VARIABLES
    records, events, \* the metadata
    objects,         \* contents that are in the object store
    registered,      \* contents that are registered
    calls            \* what each importer has still to do

workspace == <<records, events, objects, registered>>

Idle == [left |-> <<>>, linked |-> FALSE, input |-> NoBytes]

Now == Len(events) + 1
Id(role) == <<role, Now>>

\* A record: what it refers to, the content it names, and what else it says.
Record(role, refs, bytes, data) ==
    [id |-> Id(role), refs |-> refs, bytes |-> bytes, data |-> data]
Plain(role, refs) == Record(role, refs, NoBytes, NoBytes)

IdsOf(docs) == {d.id : d \in docs}

\* One transaction: the records of a batch and an event about one of them.
Store(docs, subject) ==
    /\ Len(events) < MaxEvents
    /\ \A d \in docs : d.refs \subseteq IdsOf(records \cup docs)
    /\ records' = records \cup docs
    /\ events' = Append(events, [subject |-> subject, receipt |-> Id("receipt")])

-----------------------------------------------------------------------------
(* Apparatus *)

Apparatus == {r \in records : r.id[1] = "apparatus"}

\* declare_apparatus()
DeclareApparatus ==
    /\ Store({Plain("apparatus", {}), Plain("receipt", {Id("apparatus")})}, Id("apparatus"))
    /\ UNCHANGED <<objects, registered, calls>>

-----------------------------------------------------------------------------
(* Taking a file in *)

\* What the transform of an audio file asks of the apparatus.
Required(input) ==
    {"decode"} \cup (IF input.target # 0 THEN {"resample"} ELSE {})
               \cup (IF input.normalized THEN {"normalize"} ELSE {})

\* _decode(): whether the content can be decoded on the surface.
Decodable(input) ==
    /\ input.wellformed
    /\ CASE input.kind = "audio" ->
              Required(input) \subseteq Surface.operations /\ input.rate \in Surface.rates
         [] input.kind = "observations" -> "parse_observations" \in Surface.operations
         [] input.kind = "text" -> TRUE

\* The tests before any byte is kept: permission, place and size of the file, rights.
Admitted(input) == input.allowed /\ input.kind \in Surface.kinds /\ Decodable(input)

\* A channel more than the apparatus has is only found when the bytes are kept.
WithinChannels(input) == input.channels <= Surface.channels

\* _record_failed_attempt(): about itself, with the apparatus as request.
FailedAttempt(apparatus) == Store({Plain("receipt", {apparatus.id})}, Id("receipt"))

\* Mutant (AcquisitionsBacked): what is decoded is not kept.
OriginalOnly(input) == <<input.bytes>>

\* The contents to keep, in the order they are kept in.
Contents(input) ==
    IF input.derivative = NoBytes THEN <<input.bytes>> ELSE <<input.bytes, input.derivative>>

BeginIngest(p, apparatus, input) ==
    /\ calls[p] = Idle
    /\ IF Admitted(input)
       THEN /\ calls' = [calls EXCEPT ![p] =
                   [left |-> Contents(input), linked |-> FALSE, input |-> input]]
            /\ UNCHANGED workspace
       ELSE FailedAttempt(apparatus) /\ UNCHANGED <<objects, registered, calls>>

\* put_bytes(): the object is linked, whether or not it was there.
PutBytes(p) ==
    /\ calls[p].left # <<>> /\ ~calls[p].linked
    /\ objects' = objects \cup {Head(calls[p].left)}
    /\ calls' = [calls EXCEPT ![p].linked = TRUE]
    /\ UNCHANGED <<records, events, registered>>

\* register_artifact(): of an object that is there.
Register(p) ==
    /\ calls[p].linked
    /\ registered' = registered \cup ({Head(calls[p].left)} \cap objects)
    /\ calls' = [calls EXCEPT ![p].left = Tail(@), ![p].linked = FALSE]
    /\ UNCHANGED <<records, events, objects>>

Result(input) == IF input.derivative = NoBytes THEN "original" ELSE "derivative"

\* The rates of what is kept: that of its source, and its own.
RatesOf(input) ==
    [source |-> input.rate, own |-> IF input.target = 0 THEN input.rate ELSE input.target]

Original(input) ==
    Record("original",
           {Id("source")} \cup (IF Result(input) = "original" THEN {Id("acquisition")} ELSE {}),
           input.bytes, RatesOf(input))
Derivatives(input) ==
    IF input.derivative = NoBytes THEN {}
    ELSE {Record("derivative", {Id("original"), Id("acquisition")}, input.derivative,
                 RatesOf(input))}

Acquisition(apparatus, input) ==
    Plain("acquisition", {apparatus.id, Id("source"), Id(Result(input)), Id("receipt"),
                          Id("original")})

Observed(input) == input.kind # "text"
Observations(input) ==
    IF Observed(input) THEN {Plain("observation", {Id("acquisition")})} ELSE {}

\* Mutant (NoSilentOmission): the receipt has the acquisition and the result as outputs only.
ReceiptOfResult(apparatus, input) ==
    Plain("receipt", {Id("source"), apparatus.id, Id("acquisition"), Id(Result(input))})

Receipt(apparatus, input) ==
    Plain("receipt", {Id("source"), apparatus.id, Id("acquisition"), Id(Result(input))}
                     \cup IdsOf(Observations(input)))

\* The end of _prepare(): everything that was taken in, or a receipt of the failure.
CommitIngest(p, apparatus) ==
    LET input == calls[p].input
    IN  /\ calls[p] # Idle /\ calls[p].left = <<>>
        /\ IF WithinChannels(input)
           THEN Store({Plain("source", {}), Original(input), Acquisition(apparatus, input),
                       Receipt(apparatus, input)} \cup Derivatives(input) \cup Observations(input),
                      Id("acquisition"))
           ELSE FailedAttempt(apparatus)
        /\ calls' = [calls EXCEPT ![p] = Idle]
        /\ UNCHANGED <<objects, registered>>

\* The process is stopped: what it has kept remains.
Stop(p) ==
    /\ calls[p] # Idle
    /\ calls' = [calls EXCEPT ![p] = Idle]
    /\ UNCHANGED workspace

-----------------------------------------------------------------------------
(* Apertures *)

\* Mutant (AperturesWithin): the rate of the derivative opens the range.
DerivedNyquist(rates) == rates.own \div 2

Nyquist(rates) == rates.source \div 2

\* _derive_ranges(): what is sampled below half of its source's rate, and no more than asked for.
Upper(rates, policy) ==
    IF policy.frequency # 0 /\ policy.frequency < Nyquist(rates)
    THEN policy.frequency ELSE Nyquist(rates)

Permitted(policy) == Surface.operations \cap policy.operations

\* The acquisition a result of ingress names: other artifacts have none.
AcquisitionsOf(artifact) == {i \in artifact.refs : i[1] = "acquisition"}

\* derive_aperture(): a call that is refused raises, and stores nothing.
DeriveAperture(apparatus, artifact, policy) ==
    /\ policy.authorized /\ Permitted(policy) # {}
    /\ artifact.bytes # NoBytes /\ AcquisitionsOf(artifact) # {}
    /\ LET inputs == {apparatus.id, artifact.id}
       IN  Store({Record("aperture", inputs \cup {Id("run")} \cup AcquisitionsOf(artifact), NoBytes,
                         [upper |-> Upper(artifact.data, policy), of |-> artifact.id,
                          operations |-> Permitted(policy)]),
                  Plain("run", inputs \cup {Id("aperture")} \cup AcquisitionsOf(artifact)),
                  Plain("receipt", inputs \cup {Id("run"), Id("aperture")})}, Id("aperture"))
    /\ UNCHANGED <<objects, registered, calls>>

-----------------------------------------------------------------------------
Init ==
    /\ records = {} /\ events = <<>> /\ objects = {} /\ registered = {}
    /\ calls = [p \in Importers |-> Idle]

Ingest(p) ==
    \/ \E a \in Apparatus, input \in Inputs : BeginIngest(p, a, input)
    \/ PutBytes(p)
    \/ Register(p)
    \/ \E a \in Apparatus : CommitIngest(p, a)

Next ==
    \/ DeclareApparatus
    \/ \E p \in Importers : Ingest(p) \/ Stop(p)
    \/ \E a \in Apparatus, artifact \in records, policy \in Policies :
          DeriveAperture(a, artifact, policy)

-----------------------------------------------------------------------------
(* Properties *)

\* Whatever was stopped, refused or found too late: an acquisition that is stored has its
\* source, its receipt, and an original and a result whose bytes are kept and registered.
AcquisitionsBacked ==
    \A a \in records : a.id[1] = "acquisition" =>
       /\ {<<"source", a.id[2]>>, <<"original", a.id[2]>>, <<"receipt", a.id[2]>>} \subseteq a.refs
       /\ events[a.id[2]].subject = a.id
       /\ \A r \in records :
             r.id \in a.refs /\ r.bytes # NoBytes => r.bytes \in registered \cap objects

\* Resampling never opens an aperture wider than what was taken in: its range is within half
\* the rate of the source of its input, and its operations within those of the apparatus.
AperturesWithin ==
    \A a \in records : a.id[1] = "aperture" =>
       \A r \in records : r.id = a.data.of =>
          /\ 2 * a.data.upper <= r.data.source
          /\ a.data.operations \subseteq Surface.operations
=============================================================================
