------------------------------ MODULE Adapter ------------------------------
(***************************************************************************)
(* Captures of external representations: adapters/service.py, over the     *)
(* metadata and the objects that Ingress fills.                            *)
(*                                                                         *)
(* A capture is what another program made of an artifact that was taken    *)
(* in, under an aperture of that artifact.  Its bytes, its array of native *)
(* values and the manifest of the array are kept one by one, then its      *)
(* records are stored in one transaction.  Candidates, interventions and   *)
(* decoded waveforms are derived from what was captured and from nothing   *)
(* else; what fails, and what is only answered, leaves a receipt.          *)
(*                                                                         *)
(* An array is named by a fresh identity, and its manifest by the array.   *)
(* What the receipts, the specifications and the claims say is left out,   *)
(* and how a write of an array may be cut short (ObjectStore has both).    *)
(***************************************************************************)
EXTENDS Integers, Sequences, FiniteSets

CONSTANTS
    Importers, Surface, Inputs, Policies, NoBytes, MaxEvents,
    Clients,         \* processes that use the adapters
    Captures,        \* captures as they are offered
    Maxima,          \* how many candidates an enumeration may ask for
    Arrays,          \* bound: identities of arrays
    MaxAnswers       \* bound: calls that leave a receipt alone

VARIABLES
    records, events, objects, registered,   \* the workspace
    calls,           \* what each importer has still to do; no client changes it
    jobs             \* what each client has still to do

workspace == <<records, events, objects, registered>>

I == INSTANCE Ingress

Idle == [op |-> "none", left |-> <<>>, on |-> NoBytes, with |-> NoBytes, bytes |-> NoBytes]

Of(role) == {r \in records : r.id[1] = role}
Artifacts == {r \in records : r.bytes # NoBytes}
Manifest(array) == <<"manifest", array>>

\* _receipt_outcome() without records: a receipt about the request.
Answer(request) == I!Store({I!Plain("receipt", {request.id})}, request.id)

Answered == {e \in DOMAIN events : {r \in records : r.id[2] = e} \subseteq Of("receipt")}

\* _fail(): what is not authorized, not well formed or not available stores that alone.
AnswerOnly(request) ==
    /\ Cardinality(Answered) < MaxAnswers
    /\ Answer(request)
    /\ UNCHANGED <<objects, registered, jobs>>

\* probe(): in any context; nothing is run.
Probe(context) == AnswerOnly(context)

\* support and address, of a candidate that was captured.
Inspect(candidate) == AnswerOnly(candidate)

\* account, and the four operations of the surface that no capture makes available.
Decline(request) == AnswerOnly(request)

-----------------------------------------------------------------------------
(* Captures *)

\* Mutant (CaptureWithinAperture): the aperture of another artifact will do.
PermitsEncode(aperture, artifact) == "encode" \in aperture.data.operations

\* _require_aperture()
ApertureAdmits(aperture, artifact) ==
    aperture.data.of = artifact.id /\ "encode" \in aperture.data.operations

\* _validate_capture(): exact in itself, and of the bytes of the artifact.
Valid(capture, artifact) == capture.wellformed /\ capture.source = artifact.bytes

\* Mutant (CapturesBacked): the manifest of the array is kept and not registered.
StepsButLast(capture, array) ==
    << <<"put", capture.bytes>>, <<"put", array>>, <<"register", array>>,
       <<"put", Manifest(array)>>, <<"register", capture.bytes>> >>

\* What is kept, in its order: write_array() registers the array by itself.
EncodeSteps(capture, array) ==
    << <<"put", capture.bytes>>, <<"put", array>>, <<"register", array>>,
       <<"put", Manifest(array)>>, <<"register", capture.bytes>>,
       <<"register", Manifest(array)>> >>

\* Identities are drawn at random: one that is in use is not drawn again.
Fresh(array) == array \notin objects /\ \A c \in Clients : jobs[c].bytes # array

BeginEncode(c, artifact, aperture, capture) ==
    /\ jobs[c] = Idle
    /\ IF ApertureAdmits(aperture, artifact) /\ Valid(capture, artifact)
       THEN /\ \E array \in Arrays :
                  /\ Fresh(array)
                  /\ jobs' = [jobs EXCEPT ![c] =
                        [op |-> "encode", left |-> EncodeSteps(capture, array),
                         on |-> <<artifact.id, aperture.id>>, with |-> capture, bytes |-> array]]
            /\ UNCHANGED workspace
       ELSE AnswerOnly(artifact)

\* put_bytes() or write_array(), and the registration of an object that is there.
Step(c) ==
    /\ jobs[c].left # <<>>
    /\ LET what == Head(jobs[c].left)[2]
       IN  \/ /\ Head(jobs[c].left)[1] = "put"
              /\ objects' = objects \cup {what}
              /\ UNCHANGED registered
           \/ /\ Head(jobs[c].left)[1] = "register"
              /\ registered' = registered \cup ({what} \cap objects)
              /\ UNCHANGED objects
    /\ jobs' = [jobs EXCEPT ![c].left = Tail(@)]
    /\ UNCHANGED <<records, events>>

Ready(c, op) == jobs[c].op = op /\ jobs[c].left = <<>>
Finished(c) == jobs' = [jobs EXCEPT ![c] = Idle] /\ UNCHANGED <<objects, registered>>

\* The capture itself, and the manifest of its array.
CaptureRecords(job) ==
    {I!Record("capture", {job.on[1]}, job.with.bytes, NoBytes),
     I!Record("dense", {I!Id("capture")}, Manifest(job.bytes), NoBytes)}

\* The instance keeps the catalogue of the candidates.
Instance(job) ==
    I!Record("instance",
             {job.on[1], job.on[2]} \cup {I!Id(r) : r \in {"spec", "receipt", "dense", "capture",
                                                        "family", "intervention"}},
             NoBytes, [catalogue |-> job.with.candidates, of |-> job.on])

\* What the target is, and what may be done with it.
Descriptions ==
    {I!Plain("spec", {}), I!Plain("mapping", {I!Id("spec")}), I!Plain("intervention", {})}

\* The family of the instance, and the claim that nothing else of the target is seen.
Boundaries ==
    {I!Plain("family", {I!Id("spec"), I!Id("mapping"), I!Id("instance")}),
     I!Plain("boundary", {I!Id("instance"), I!Id("capture")})}

EncodeReceipt(job) ==
    I!Plain("receipt", {job.on[1], job.on[2]}
                       \cup {I!Id(r) : r \in {"instance", "capture", "dense", "boundary"}})

CommitEncode(c) ==
    /\ Ready(c, "encode")
    /\ I!Store(CaptureRecords(jobs[c]) \cup Descriptions \cup Boundaries
                \cup {Instance(jobs[c]), EncodeReceipt(jobs[c])},
               I!Id("instance"))
    /\ Finished(c)

-----------------------------------------------------------------------------
(* Candidates *)

\* Mutant (CatalogueWhole): as many as were asked for.
UpTo(catalogue, maximum) == {n \in DOMAIN catalogue : n <= maximum}

\* All or none: a catalogue that is longer than asked for is not cut.
Listed(catalogue, maximum) ==
    IF Len(catalogue) <= maximum THEN DOMAIN catalogue ELSE {}

\* enumerate()
Enumerate(instance, maximum) ==
    LET listed == Listed(instance.data.catalogue, maximum)
        candidate(n) ==
            [I!Record("candidate", {instance.id}, NoBytes,
                      [n |-> n, addressable |-> instance.data.catalogue[n]])
               EXCEPT !.id = <<"candidate", I!Now, n>>]
        candidates == {candidate(n) : n \in listed}
    IN  IF listed # {}
        THEN /\ I!Store(candidates \cup
                        {I!Plain("receipt", {instance.id} \cup I!IdsOf(candidates))}, instance.id)
             /\ UNCHANGED <<objects, registered, jobs>>
        ELSE AnswerOnly(instance)

-----------------------------------------------------------------------------
(* What is derived from a capture *)

\* Mutant (OnlyAddressable): any candidate may be intervened on.
AnyCandidate(candidate) == TRUE

Addressable(candidate) == candidate.data.addressable

Derive(c, op, request, bytes) ==
    /\ jobs' = [jobs EXCEPT ![c] =
          [op |-> op, left |-> << <<"put", bytes>>, <<"register", bytes>> >>,
           on |-> request.id, with |-> NoBytes, bytes |-> bytes]]
    /\ UNCHANGED workspace

\* _intervene(): the description of an intervention, the same bytes whenever it is repeated.
BeginIntervene(c, candidate) ==
    /\ jobs[c] = Idle
    /\ IF Addressable(candidate)
       THEN Derive(c, "intervene", candidate, <<"intervention", candidate.id>>)
       ELSE AnswerOnly(candidate)

CaptureOf(instance) == CHOOSE r \in Of("capture") : r.id \in instance.refs

\* _decode(): the waveform that is in the capture, which is read again.
BeginDecode(c, instance) ==
    LET bytes == CaptureOf(instance).bytes
    IN  /\ jobs[c] = Idle
        /\ IF bytes \in objects
           THEN Derive(c, "decode", instance, <<"waveform", bytes>>)
           ELSE AnswerOnly(instance)

CommitDerived(c, op) ==
    /\ Ready(c, op)
    /\ I!Store({I!Record(op, {jobs[c].on}, jobs[c].bytes, NoBytes),
                I!Plain("receipt", {jobs[c].on, I!Id(op)})}, jobs[c].on)
    /\ Finished(c)

\* The process is stopped: what it has kept remains.
StopClient(c) == jobs[c] # Idle /\ jobs' = [jobs EXCEPT ![c] = Idle] /\ UNCHANGED workspace

-----------------------------------------------------------------------------
Init == jobs = [c \in Clients |-> Idle]

Use(c) ==
    \/ \E artifact \in Artifacts, aperture \in Of("aperture"), capture \in Captures :
          BeginEncode(c, artifact, aperture, capture)
    \/ \E candidate \in Of("candidate") : BeginIntervene(c, candidate)
    \/ \E instance \in Of("instance") : BeginDecode(c, instance)
    \/ Step(c)
    \/ CommitEncode(c)
    \/ CommitDerived(c, "intervene")
    \/ CommitDerived(c, "decode")
    \/ StopClient(c)

Next ==
    \/ \E c \in Clients : Use(c)
    \/ \E instance \in Of("instance"), maximum \in Maxima : Enumerate(instance, maximum)
    \/ \E context \in I!Apparatus : Probe(context)
    \/ \E candidate \in Of("candidate") : Inspect(candidate)
    \/ \E request \in Of("instance") \cup Of("candidate") : Decline(request)

-----------------------------------------------------------------------------
(* Properties *)

Kept(bytes) == bytes \in registered \cap objects

\* However calls interleave and stop: whatever a stored record names is kept and registered, an
\* array with its manifest, so that a capture can be read and decoded for ever.
CapturesBacked ==
    \A r \in records : r.bytes # NoBytes =>
       /\ Kept(r.bytes)
       /\ r.id[1] = "dense" => \E array \in Arrays : r.bytes = Manifest(array) /\ Kept(array)

\* What is captured, and all that is derived from it, goes back to one artifact that was taken
\* in, and to an aperture of that artifact which lets it be encoded.
CaptureWithinAperture ==
    \A i \in Of("instance") :
       /\ i.data.of[1] \in I!IdsOf(Of("original") \cup Of("derivative"))
       /\ \A a \in Of("aperture") : a.id = i.data.of[2] =>
             a.data.of = i.data.of[1] /\ "encode" \in a.data.operations \cap Surface.operations
       /\ \A s, k \in records : s.id = i.data.of[1] /\ k.id = CaptureOf(i).id =>
             /\ s.id \in k.refs
             /\ \E capture \in Captures : capture.bytes = k.bytes /\ capture.source = s.bytes

\* An enumeration that stores a candidate stores the whole catalogue of its instance, each as
\* it was captured.
CatalogueWhole ==
    \A e \in DOMAIN events :
       LET found == {r \in Of("candidate") : r.id[2] = e}
       IN  found # {} =>
              \E i \in Of("instance") :
                 /\ events[e].subject = i.id
                 /\ {<<r.data.n, r.data.addressable>> : r \in found}
                       = {<<n, i.data.catalogue[n]>> : n \in DOMAIN i.data.catalogue}

\* Nothing is derived from a candidate that its capture did not make addressable.
OnlyAddressable ==
    \A r \in Of("intervene") : \A k \in Of("candidate") : k.id \in r.refs =>
       \E i \in Of("instance") : i.id \in k.refs /\ i.data.catalogue[k.data.n]
=============================================================================
