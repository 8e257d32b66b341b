--------------------------- MODULE ArchiveProofs ---------------------------
(***************************************************************************)
(* Theorems about Archive, for every set of processes, inputs, policies,   *)
(* captures and names, and for every bound.                                *)
(*                                                                         *)
(* The argument: a transaction only adds records that bear the number of   *)
(* its event, so the workspace of the moment when its log had k events can *)
(* be told from the records and the log of any later moment (Before, LogTo *)
(* and EdgesTo), and stays what it was (WorkspaceGrows).  A sealer holds   *)
(* three such moments, the one of the records before that of the log and   *)
(* that before that of the edges (SealOK).  The receipt of the last event  *)
(* the log has of a transaction is among its records, so that a reader who *)
(* accepts what was read has found the moments to be one (AcceptedIsOne).  *)
(*                                                                         *)
(* A client knows of its steps that those behind it are done, and keeps    *)
(* with them the artifact and the aperture it checked when it began        *)
(* (JobOK).  When none is left, all it names is registered; its records    *)
(* are stored with what they go back to, and keep it (CapturesInv).        *)
(***************************************************************************)
EXTENDS Archive, SharedLemmas

Before(k) == {r \in records : r.id[2] <= k} \cup {Authority}
LogTo(k) == {<<n, events[n]>> : n \in 1 .. k}
EdgesTo(k) == B!EdgesOf({r \in records : r.id[2] <= k})

\* What has bytes and an acquisition is what was taken in: no capture is.
TakenInOK(r) == r.id[1] \in {"original", "derivative"} /\ r.data.source \in Nat

\* What holds of one record: its number, its receipt, and what it rests on.
RecordOK(r) ==
    /\ r.id[2] \in DOMAIN events /\ r.id[1] # "authority"
    /\ r.refs \subseteq I!IdsOf(records)
    /\ events[r.id[2]].receipt = <<"receipt", r.id[2]>>
    /\ r.bytes # NoBytes => r.bytes \in registered
    /\ r.bytes # NoBytes /\ I!AcquisitionsOf(r) # {} => TakenInOK(r)

\* Something of its transaction refers to it, another record or the event.
HeldOK(r) ==
    \/ events[r.id[2]].subject = r.id
    \/ events[r.id[2]].receipt = r.id
    \/ \E e \in records : e # r /\ e.id[2] = r.id[2] /\ r.id \in e.refs

AcquisitionOK(r) ==
    r.id[1] = "acquisition" =>
       /\ {<<"source", r.id[2]>>, <<"original", r.id[2]>>, <<"receipt", r.id[2]>>} \subseteq r.refs
       /\ events[r.id[2]].subject = r.id

ApertureOK(r) ==
    r.id[1] = "aperture" =>
       /\ r.data.of \in I!IdsOf(records) /\ r.data.of[1] \in {"original", "derivative"}
       /\ \A s \in records : s.id = r.data.of => 2 * r.data.upper <= s.data.source
       /\ r.data.operations \subseteq Surface.operations

LogInv ==
    /\ Sequence(events)
    /\ \A r, s \in records : r.id = s.id => r = s
    /\ \A n \in DOMAIN events : {events[n].subject, events[n].receipt} \subseteq I!IdsOf(records)
    /\ \A r \in records : RecordOK(r) /\ HeldOK(r) /\ AcquisitionOK(r) /\ ApertureOK(r)
    /\ registered \subseteq objects

\* What an importer has kept of what it has to keep.
CallOK(c) ==
    /\ c \in [left : {c.left}, linked : BOOLEAN, input : {c.input}]
    /\ c # I!Idle =>
          /\ c.input \in Inputs
          /\ \/ c.left = I!Contents(c.input)
             \/ /\ c.input.derivative # NoBytes /\ c.left = <<c.input.derivative>>
                /\ c.input.bytes \in registered
             \/ /\ c.left = <<>> /\ c.input.bytes \in registered
                /\ c.input.derivative # NoBytes => c.input.derivative \in registered
    /\ c.linked => c.left # <<>> /\ Head(c.left) \in objects

CallsInv == DOMAIN calls = Importers /\ \A p \in Importers : CallOK(calls[p])

Steps == {"idle", "registrations", "objects", "records", "events", "edges", "copy", "finish"}

\* What a sealer has read, and when.
SealOK(q) ==
    /\ q \in [step : Steps, name : {q.name}, read : {q.read}]
    /\ q.read \in [records : {q.read.records}, events : {q.read.events},
                   edges : {q.read.edges}, artifacts : {q.read.artifacts}]
    /\ q.step # "idle" => q.name \in Names
    /\ \E k, m, e \in 0 .. Len(events) :
          /\ k <= m /\ m <= e
          /\ q.step \in {"events", "edges", "copy", "finish"} => q.read.records = Before(k)
          /\ q.step \in {"edges", "copy", "finish"} => q.read.events = LogTo(m)
          /\ q.step \in {"copy", "finish"} => q.read.edges = EdgesTo(e)
    /\ q.step = "finish" => \A r \in q.read.records :
                               r.bytes # NoBytes => r.bytes \in q.read.artifacts

SealsInv == DOMAIN seals = Sealers /\ \A s \in Sealers : SealOK(seals[s])

\* A bundle is the workspace of one moment, with the bytes it names.
BundleOK(b) ==
    /\ b \in [records : {b.records}, events : {b.events}, edges : {b.edges},
             artifacts : {b.artifacts}]
    /\ \E k \in 0 .. Len(events) :
          b.records = Before(k) /\ b.events = LogTo(k) /\ b.edges = EdgesTo(k)
    /\ \A r \in b.records : r.bytes # NoBytes => r.bytes \in b.artifacts

BundlesInv == DOMAIN bundles \subseteq Names /\ \A n \in DOMAIN bundles : BundleOK(bundles[n])

\* A step of a client that is behind it: the bytes are there, the registration is.
Performed(step) == IF step[1] = "put" THEN step[2] \in objects ELSE step[2] \in registered

StepsOf(j) ==
    IF j.op = "encode" THEN A!EncodeSteps(j.with, j.bytes)
    ELSE << <<"put", j.bytes>>, <<"register", j.bytes>> >>

\* What is left of a list of steps when k of them are behind.
After(steps, k) == [i \in 1 .. Len(steps) - k |-> steps[i + k]]

\* A capture of what was taken in, under an aperture of it.
Within(artifact, aperture, capture) ==
    /\ artifact.id[1] \in {"original", "derivative"} /\ capture.source = artifact.bytes
    /\ aperture.id[1] = "aperture" /\ A!ApertureAdmits(aperture, artifact)

\* What a client has performed of its steps, and what it does them for.
JobOK(j) ==
    /\ j \in [op : {"none", "encode", "intervene", "decode"}, left : {j.left}, on : {j.on},
              with : {j.with}, bytes : {j.bytes}]
    /\ j.op = "none" => j.left = <<>>
    /\ j.op # "none" => \E k \in 0 .. Len(StepsOf(j)) :
                          /\ j.left = After(StepsOf(j), k)
                          /\ \A i \in 1 .. k : Performed(StepsOf(j)[i])
    /\ j.op = "encode" =>
          /\ j.with \in Captures /\ j.bytes \in Arrays
          /\ \E artifact, aperture \in records :
                j.on = <<artifact.id, aperture.id>> /\ Within(artifact, aperture, j.with)
    /\ j.op = "intervene" =>
          \E k \in records : k.id = j.on /\ k.id[1] = "candidate" /\ k.data.addressable
    /\ j.op = "decode" => \E i \in records : i.id = j.on /\ i.id[1] = "instance"

JobsInv == DOMAIN jobs = Clients /\ \A c \in Clients : JobOK(jobs[c])

\* A dense record has the manifest of an array that is registered.
DenseOK(r) ==
    r.id[1] = "dense" => \E array \in Arrays : r.bytes = A!Manifest(array) /\ array \in registered

\* An instance is of one artifact, one aperture of it and one capture, of its own transaction.
InstanceOK(r) ==
    r.id[1] = "instance" =>
       \E artifact, aperture, k \in records, capture \in Captures :
          /\ r.data.of = <<artifact.id, aperture.id>> /\ Within(artifact, aperture, capture)
          /\ k.id = <<"capture", r.id[2]>> /\ k.id \in r.refs
          /\ k.bytes = capture.bytes /\ artifact.id \in k.refs
          /\ \A x \in r.refs : x[1] = "capture" => x = k.id

\* A candidate is one of the whole catalogue of the instance its transaction is about.
CandidateOK(r) ==
    r.id[1] = "candidate" =>
       \E i \in records :
          /\ i.id[1] = "instance" /\ events[r.id[2]].subject = i.id /\ r.refs = {i.id}
          /\ r.data.n \in DOMAIN i.data.catalogue
          /\ r.data.addressable = i.data.catalogue[r.data.n]
          /\ \A n \in DOMAIN i.data.catalogue :
                \E k \in records : k.id[1] = "candidate" /\ k.id[2] = r.id[2] /\ k.data.n = n

\* An intervention is on one candidate, which was captured as addressable.
InterveneOK(r) ==
    r.id[1] = "intervene" =>
       \E k \in records : k.id[1] = "candidate" /\ r.refs = {k.id} /\ k.data.addressable

CapturedRoles == {"dense", "instance", "candidate", "intervene"}

CaptureOK(r) == DenseOK(r) /\ InstanceOK(r) /\ CandidateOK(r) /\ InterveneOK(r)

CapturesInv == \A r \in records : CaptureOK(r)

OthersInv == SealsInv /\ BundlesInv /\ JobsInv /\ CapturesInv

IInv == LogInv /\ CallsInv /\ SealsInv /\ BundlesInv /\ JobsInv /\ CapturesInv

\* A step adds at most one transaction, and takes nothing back.
WorkspaceGrows ==
    /\ records \subseteq records' /\ \A r \in records' \ records : r.id[2] = Len(events) + 1
    /\ Sequence(events) /\ Sequence(events') /\ Len(events) <= Len(events')
    /\ \A n \in DOMAIN events : n \in DOMAIN events' /\ events'[n] = events[n]
    /\ registered \subseteq registered' /\ objects \subseteq objects'

\* What others than clients store is no part of a capture.
NotCaptured(docs) == \A d \in docs : d.id[1] \notin CapturedRoles

NoneCaptured == NotCaptured(records' \ records)

-----------------------------------------------------------------------------
(* Lemmas about the operators *)

\* The references of a set of records, one by one.
LEMMA EdgesDef ==
    ASSUME NEW docs
    PROVE  \A e : e \in B!EdgesOf(docs) <=> \E d \in docs : \E r \in d.refs : e = <<d.id, r>>
BY DEF B!EdgesOf

\* The positions of a sequence are the numbers up to its length.
LEMMA LengthNat ==
    ASSUME NEW q, Sequence(q)
    PROVE  Len(q) \in Nat /\ DOMAIN q = 1 .. Len(q)
BY Appended

\* A moment of the past stays what it was.
LEMMA PastKept ==
    ASSUME LogInv, WorkspaceGrows, NEW k \in 0 .. Len(events)
    PROVE  /\ k \in 0 .. Len(events')
           /\ Before(k)' = Before(k) /\ LogTo(k)' = LogTo(k) /\ EdgesTo(k)' = EdgesTo(k)
<1>1. /\ Len(events) \in Nat /\ DOMAIN events = 1 .. Len(events)
      /\ Len(events') \in Nat /\ Len(events) <= Len(events')
  BY LengthNat DEF LogInv, WorkspaceGrows
<1>2. {r \in records' : r.id[2] <= k} = {r \in records : r.id[2] <= k}
  BY <1>1 DEF WorkspaceGrows
<1>3. \A n \in 1 .. k : events'[n] = events[n]
  BY <1>1 DEF WorkspaceGrows
<1>4. Before(k)' = Before(k)
  BY <1>2 DEF Before
<1>5. LogTo(k)' = LogTo(k)
  BY <1>3 DEF LogTo
<1>6. EdgesTo(k)' = EdgesTo(k)
  BY <1>2 DEF EdgesTo, B!EdgesOf
<1> QED BY <1>1, <1>4, <1>5, <1>6

\* All of it is the present.
LEMMA Present ==
    ASSUME LogInv
    PROVE  /\ Len(events) \in Nat /\ Before(Len(events)) = records \cup {Authority}
           /\ LogTo(Len(events)) = B!Log(events) /\ EdgesTo(Len(events)) = B!EdgesOf(records)
<1>1. Len(events) \in Nat /\ DOMAIN events = 1 .. Len(events)
  BY LengthNat DEF LogInv
<1>2. {r \in records : r.id[2] <= Len(events)} = records
  BY <1>1 DEF LogInv, RecordOK
<1>3. Before(Len(events)) = records \cup {Authority}
  BY <1>2 DEF Before
<1>4. LogTo(Len(events)) = B!Log(events)
  BY <1>1 DEF LogTo, B!Log
<1>5. EdgesTo(Len(events)) = B!EdgesOf(records)
  BY <1>2 DEF EdgesTo
<1> QED BY <1>1, <1>3, <1>4, <1>5

-----------------------------------------------------------------------------
(* What a transaction stores *)

\* A batch of transaction n, about a subject, on the workspace as it is.
DocOK(d, docs, subject, n) ==
    /\ d.id[2] = n /\ d.id[1] # "authority"
    /\ d.bytes # NoBytes => d.bytes \in registered
    /\ d.bytes # NoBytes /\ I!AcquisitionsOf(d) # {} => TakenInOK(d)
    /\ \/ d.id = subject
       \/ d.id = <<"receipt", n>>
       \/ \E e \in docs : e # d /\ d.id \in e.refs
    /\ d.id[1] = "acquisition" =>
          /\ {<<"source", n>>, <<"original", n>>, <<"receipt", n>>} \subseteq d.refs
          /\ subject = d.id
    /\ d.id[1] = "aperture" =>
          /\ d.data.of \in I!IdsOf(records) /\ d.data.of[1] \in {"original", "derivative"}
          /\ \A s \in records : s.id = d.data.of => 2 * d.data.upper <= s.data.source
          /\ d.data.operations \subseteq Surface.operations

BatchOK(docs, subject, n) ==
    /\ \A d \in docs : DocOK(d, docs, subject, n)
    /\ \A d, e \in docs : d.id = e.id => d = e
    /\ subject \in I!IdsOf(records) \cup I!IdsOf(docs) /\ <<"receipt", n>> \in I!IdsOf(docs)

\* One transaction: documents, receipt, event and edges under the next event number.
LEMMA StoreKeeps ==
    ASSUME LogInv, NEW docs, NEW subject, NEW n, n = Len(events) + 1, BatchOK(docs, subject, n),
           I!Store(docs, subject), UNCHANGED <<objects, registered>>
    PROVE  LogInv' /\ WorkspaceGrows
<1>1. PICK e : e = [subject |-> subject, receipt |-> <<"receipt", n>>]
  OBVIOUS
<1>2. /\ records' = records \cup docs /\ events' = Append(events, e)
      /\ \A d \in docs : d.refs \subseteq I!IdsOf(records \cup docs)
  BY <1>1 DEF I!Store, I!Id, I!Now
<1>3. Sequence(events)
  BY DEF LogInv
<1>4. /\ Sequence(events') /\ Len(events) \in Nat /\ DOMAIN events = 1 .. Len(events)
      /\ DOMAIN events' = 1 .. Len(events) + 1 /\ Len(events') = Len(events) + 1
      /\ events'[n] = e
      /\ \A i \in DOMAIN events : i \in DOMAIN events' /\ events'[i] = events[i]
  BY <1>2, <1>3, Appended
<1>5. \A d \in docs : d.id[2] = n
  BY DEF BatchOK, DocOK
<1>6. WorkspaceGrows
  BY <1>2, <1>3, <1>4, <1>5 DEF WorkspaceGrows
<1>7. \A r \in records : r.id[2] \in DOMAIN events /\ r.id[2] # n
  BY <1>4 DEF LogInv, RecordOK
<1>8. \A r, s \in records' : r.id = s.id => r = s
  BY <1>2, <1>5, <1>7 DEF LogInv, BatchOK
<1>9. I!IdsOf(records) \subseteq I!IdsOf(records') /\ I!IdsOf(docs) \subseteq I!IdsOf(records')
  BY <1>2 DEF I!IdsOf
<1>10. \A i \in DOMAIN events' :
          {events'[i].subject, events'[i].receipt} \subseteq I!IdsOf(records')
  <2>1. e.subject = subject /\ e.receipt = <<"receipt", n>>
    BY <1>1
  <2> QED BY <2>1, <1>4, <1>9 DEF LogInv, BatchOK
<1>11. ASSUME NEW r \in records
       PROVE  RecordOK(r)' /\ HeldOK(r)' /\ AcquisitionOK(r)' /\ ApertureOK(r)'
  <2>1. RecordOK(r) /\ HeldOK(r) /\ AcquisitionOK(r) /\ ApertureOK(r)
    BY DEF LogInv
  <2>2. r.id[2] \in DOMAIN events' /\ events'[r.id[2]] = events[r.id[2]]
    BY <1>4, <1>7
  <2>3. RecordOK(r)'
    BY <2>1, <2>2, <1>9 DEF RecordOK
  <2>4. HeldOK(r)'
    BY <2>1, <2>2, <1>2 DEF HeldOK
  <2>5. AcquisitionOK(r)'
    BY <2>1, <2>2 DEF AcquisitionOK
  <2>6. ApertureOK(r)'
    <3>1. SUFFICES ASSUME r.id[1] = "aperture" PROVE ApertureOK(r)'
      BY DEF ApertureOK
    <3>2. PICK t \in records : t.id = r.data.of
      BY <2>1, <3>1 DEF ApertureOK, I!IdsOf
    <3>3. \A s \in records' : s.id = r.data.of => s = t
      BY <3>2, <1>2, <1>8
    <3> QED BY <2>1, <3>1, <3>2, <3>3, <1>9 DEF ApertureOK
  <2> QED BY <2>3, <2>4, <2>5, <2>6
<1>12. ASSUME NEW r \in docs
       PROVE  RecordOK(r)' /\ HeldOK(r)' /\ AcquisitionOK(r)' /\ ApertureOK(r)'
  <2>1. DocOK(r, docs, subject, n)
    BY DEF BatchOK
  <2>2. /\ r.id[2] = n /\ events'[n].subject = subject /\ events'[n].receipt = <<"receipt", n>>
        /\ n \in DOMAIN events'
    BY <1>1, <1>4, <1>5
  <2>3. RecordOK(r)'
    BY <2>1, <2>2, <1>2 DEF DocOK, RecordOK
  <2>4. HeldOK(r)'
    BY <2>1, <2>2, <1>2, <1>5 DEF DocOK, HeldOK
  <2>5. AcquisitionOK(r)'
    BY <2>1, <2>2 DEF DocOK, AcquisitionOK
  <2>6. ApertureOK(r)'
    <3>1. SUFFICES ASSUME r.id[1] = "aperture" PROVE ApertureOK(r)'
      BY DEF ApertureOK
    <3>2. PICK t \in records : t.id = r.data.of
      BY <2>1, <3>1 DEF DocOK, I!IdsOf
    <3>3. \A s \in records' : s.id = r.data.of => s = t
      BY <3>2, <1>2, <1>8
    <3> QED BY <2>1, <3>1, <3>2, <3>3, <1>9 DEF DocOK, ApertureOK
  <2> QED BY <2>3, <2>4, <2>5, <2>6
<1> QED BY <1>2, <1>4, <1>6, <1>8, <1>10, <1>11, <1>12 DEF LogInv

\* An event alone is about records that are stored.
LEMMA PropagateKeeps ==
    ASSUME LogInv, NEW subject \in records, NEW receipt \in records,
           PropagateEvent(subject, receipt)
    PROVE  LogInv' /\ WorkspaceGrows /\ NoneCaptured
<1>1. PICK e : e = [subject |-> subject.id, receipt |-> receipt.id]
  OBVIOUS
<1>2. events' = Append(events, e) /\ UNCHANGED <<records, objects, registered>>
  BY <1>1 DEF PropagateEvent
<1>3. Sequence(events)
  BY DEF LogInv
<1>4. /\ Sequence(events') /\ Len(events) \in Nat /\ DOMAIN events = 1 .. Len(events)
      /\ DOMAIN events' = 1 .. Len(events) + 1 /\ Len(events') = Len(events) + 1
      /\ events'[Len(events) + 1] = e
      /\ \A i \in DOMAIN events : i \in DOMAIN events' /\ events'[i] = events[i]
  BY <1>2, <1>3, Appended
<1>5. WorkspaceGrows
  BY <1>2, <1>3, <1>4 DEF WorkspaceGrows
<1>6. \A i \in DOMAIN events' : {events'[i].subject, events'[i].receipt} \subseteq I!IdsOf(records')
  BY <1>1, <1>2, <1>4 DEF LogInv, I!IdsOf
<1>7. ASSUME NEW r \in records
      PROVE  RecordOK(r)' /\ HeldOK(r)' /\ AcquisitionOK(r)' /\ ApertureOK(r)'
  <2>1. RecordOK(r) /\ HeldOK(r) /\ AcquisitionOK(r) /\ ApertureOK(r)
    BY DEF LogInv
  <2>2. r.id[2] \in DOMAIN events' /\ events'[r.id[2]] = events[r.id[2]]
    BY <2>1, <1>4 DEF RecordOK
  <2> QED BY <2>1, <2>2, <1>2 DEF RecordOK, TakenInOK, HeldOK, AcquisitionOK, ApertureOK, I!IdsOf
<1>8. NoneCaptured
  BY <1>2 DEF NoneCaptured, NotCaptured
<1> QED BY <1>2, <1>4, <1>5, <1>6, <1>7, <1>8 DEF LogInv

-----------------------------------------------------------------------------
(* What others do leaves standing *)

\* Bytes are only added, and registered when they are there.
LEMMA ObjectsGrow ==
    ASSUME LogInv, UNCHANGED <<records, events>>, objects \subseteq objects',
           registered \subseteq registered', registered' \subseteq objects'
    PROVE  LogInv' /\ WorkspaceGrows /\ NoneCaptured
<1>1. WorkspaceGrows
  BY DEF LogInv, WorkspaceGrows
<1>2. ASSUME NEW r \in records
      PROVE  RecordOK(r)' /\ HeldOK(r)' /\ AcquisitionOK(r)' /\ ApertureOK(r)'
  BY DEF LogInv, RecordOK, HeldOK, AcquisitionOK, ApertureOK, I!IdsOf
<1>3. NoneCaptured
  BY DEF NoneCaptured, NotCaptured
<1> QED BY <1>1, <1>2, <1>3 DEF LogInv, I!IdsOf

\* What an importer has done stays done while the workspace grows.
LEMMA CallKept ==
    ASSUME WorkspaceGrows, NEW c, CallOK(c)
    PROVE  CallOK(c)'
BY DEF WorkspaceGrows, CallOK

\* Importers that make no step keep their part of the invariant.
LEMMA CallsKept ==
    ASSUME WorkspaceGrows, CallsInv, UNCHANGED calls
    PROVE  CallsInv'
<1>1. ASSUME NEW p \in Importers PROVE CallOK(calls[p])'
  <2>1. PICK c : c = calls[p]
    OBVIOUS
  <2>2. CallOK(c)'
    BY <2>1, CallKept DEF CallsInv
  <2> QED BY <2>1, <2>2
<1> QED BY <1>1 DEF CallsInv

\* The moments a sealer has read stay moments of the workspace.
LEMMA SealKept ==
    ASSUME LogInv, WorkspaceGrows, NEW q, SealOK(q)
    PROVE  SealOK(q)'
<1>1. PICK k, m, e \in 0 .. Len(events) :
         /\ k <= m /\ m <= e
         /\ q.step \in {"events", "edges", "copy", "finish"} => q.read.records = Before(k)
         /\ q.step \in {"edges", "copy", "finish"} => q.read.events = LogTo(m)
         /\ q.step \in {"copy", "finish"} => q.read.edges = EdgesTo(e)
  BY DEF SealOK
<1>2. k \in 0 .. Len(events') /\ m \in 0 .. Len(events') /\ e \in 0 .. Len(events')
  BY PastKept
<1>3. Before(k)' = Before(k) /\ LogTo(m)' = LogTo(m) /\ EdgesTo(e)' = EdgesTo(e)
  BY PastKept
<1> QED BY <1>1, <1>2, <1>3 DEF SealOK

\* Sealers that make no step keep their part of the invariant.
LEMMA SealsKept ==
    ASSUME LogInv, WorkspaceGrows, SealsInv, UNCHANGED seals
    PROVE  SealsInv'
<1>1. ASSUME NEW s \in Sealers PROVE SealOK(seals[s])'
  <2>1. PICK q : q = seals[s]
    OBVIOUS
  <2>2. SealOK(q)'
    BY <2>1, SealKept DEF SealsInv
  <2> QED BY <2>1, <2>2
<1> QED BY <1>1 DEF SealsInv

\* The moment a sealed bundle shows stays one.
LEMMA BundleKept ==
    ASSUME LogInv, WorkspaceGrows, NEW b, BundleOK(b)
    PROVE  BundleOK(b)'
<1>1. PICK k \in 0 .. Len(events) :
         b.records = Before(k) /\ b.events = LogTo(k) /\ b.edges = EdgesTo(k)
  BY DEF BundleOK
<1>2. /\ k \in 0 .. Len(events')
      /\ Before(k)' = Before(k) /\ LogTo(k)' = LogTo(k) /\ EdgesTo(k)' = EdgesTo(k)
  BY PastKept
<1> QED BY <1>1, <1>2 DEF BundleOK

\* The sealed bundles keep their part of the invariant.
LEMMA BundlesKept ==
    ASSUME LogInv, WorkspaceGrows, BundlesInv, UNCHANGED bundles
    PROVE  BundlesInv'
<1>1. ASSUME NEW n \in DOMAIN bundles PROVE BundleOK(bundles[n])'
  <2>1. PICK b : b = bundles[n]
    OBVIOUS
  <2>2. BundleOK(b)'
    BY <2>1, BundleKept DEF BundlesInv
  <2> QED BY <2>1, <2>2
<1> QED BY <1>1 DEF BundlesInv

\* What a client has to do does not depend on the workspace.
LEMMA StepsConstant ==
    ASSUME NEW j
    PROVE  StepsOf(j)' = StepsOf(j)
BY DEF StepsOf, A!EncodeSteps, A!Manifest

\* What a client has done stays done while the workspace grows.
LEMMA JobKept ==
    ASSUME WorkspaceGrows, NEW j, JobOK(j)
    PROVE  JobOK(j)'
<1>1. PICK steps : steps = StepsOf(j)
  OBVIOUS
<1>2. StepsOf(j)' = steps
  BY <1>1, StepsConstant
<1>3. \A step : Performed(step) => Performed(step)'
  BY DEF Performed, WorkspaceGrows
<1>4. records \subseteq records'
  BY DEF WorkspaceGrows
<1>5. j.op # "none" => \E k \in 0 .. Len(steps) : /\ j.left = After(steps, k)
                                               /\ \A i \in 1 .. k : Performed(steps[i])
  BY <1>1 DEF JobOK
<1>6. j.op # "none" => \E k \in 0 .. Len(steps) : /\ j.left = After(steps, k)
                                               /\ \A i \in 1 .. k : Performed(steps[i])'
  BY <1>3, <1>5
<1>7. (j.op # "none" => \E k \in 0 .. Len(StepsOf(j)) :
                           /\ j.left = After(StepsOf(j), k)
                           /\ \A i \in 1 .. k : Performed(StepsOf(j)[i]))'
  BY <1>2, <1>6 DEF After
<1>8. (j.op = "encode" =>
          /\ j.with \in Captures /\ j.bytes \in Arrays
          /\ \E artifact, aperture \in records :
                j.on = <<artifact.id, aperture.id>> /\ Within(artifact, aperture, j.with))'
  BY <1>4 DEF JobOK, Within, A!ApertureAdmits
<1> QED BY <1>4, <1>7, <1>8 DEF JobOK

\* Clients that make no step keep their part of the invariant.
LEMMA JobsKept ==
    ASSUME WorkspaceGrows, JobsInv, UNCHANGED jobs
    PROVE  JobsInv'
<1>1. ASSUME NEW c \in Clients PROVE JobOK(jobs[c])'
  <2>1. PICK j : j = jobs[c]
    OBVIOUS
  <2>2. JobOK(j)'
    BY <2>1, JobKept DEF JobsInv
  <2> QED BY <2>1, <2>2
<1> QED BY <1>1 DEF JobsInv

\* What a capture, and what was derived from it, goes back to is never taken back.
LEMMA CaptureKept ==
    ASSUME LogInv, WorkspaceGrows, NEW r \in records, CaptureOK(r)
    PROVE  CaptureOK(r)'
<1>1. records \subseteq records' /\ registered \subseteq registered'
  BY DEF WorkspaceGrows
<1>2. DenseOK(r)'
  BY <1>1 DEF CaptureOK, DenseOK, A!Manifest
<1>3. InstanceOK(r)'
  BY <1>1 DEF CaptureOK, InstanceOK, Within, A!ApertureAdmits
<1>4. CandidateOK(r)'
  <2>1. events'[r.id[2]] = events[r.id[2]]
    BY DEF LogInv, RecordOK, WorkspaceGrows
  <2> QED BY <1>1, <2>1 DEF CaptureOK, CandidateOK
<1>5. InterveneOK(r)'
  BY <1>1 DEF CaptureOK, InterveneOK
<1> QED BY <1>2, <1>3, <1>4, <1>5 DEF CaptureOK

\* Whoever stores no part of a capture keeps what is known of those that are stored.
LEMMA CapturesKept ==
    ASSUME LogInv, WorkspaceGrows, CapturesInv, NoneCaptured
    PROVE  CapturesInv'
<1>1. ASSUME NEW r \in records' PROVE CaptureOK(r)'
  <2>1. CASE r \in records
    BY <2>1, CaptureKept DEF CapturesInv
  <2>2. CASE r \notin records
    BY <2>2 DEF NoneCaptured, NotCaptured, CapturedRoles, CaptureOK, DenseOK, InstanceOK, CandidateOK, InterveneOK
  <2> QED BY <2>1, <2>2
<1> QED BY <1>1 DEF CapturesInv

\* A step of ingress or of governance leaves alone what sealers and clients have.
LEMMA OthersKept ==
    ASSUME IInv, LogInv', WorkspaceGrows, NoneCaptured, UNCHANGED <<seals, bundles, jobs>>
    PROVE  OthersInv'
BY SealsKept, BundlesKept, JobsKept, CapturesKept DEF IInv, OthersInv

-----------------------------------------------------------------------------
(* Ingress *)

\* A batch of the next transaction keeps everything but what the caller does with its call.
LEMMA BatchStored ==
    ASSUME IInv, NEW docs, NEW subject, BatchOK(docs, subject, Len(events) + 1),
           NotCaptured(docs), I!Store(docs, subject), UNCHANGED <<objects, registered, seals, bundles, jobs>>
    PROVE  LogInv' /\ WorkspaceGrows /\ OthersInv'
<1>1. LogInv' /\ WorkspaceGrows
  BY StoreKeeps DEF IInv
<1>2. NoneCaptured
  BY DEF NoneCaptured, NotCaptured, I!Store
<1> QED BY <1>1, <1>2, OthersKept

\* One importer goes on.
LEMMA CallChanged ==
    ASSUME WorkspaceGrows, CallsInv, NEW p \in Importers, NEW c, CallOK(c)',
           calls' = [calls EXCEPT ![p] = c]
    PROVE  CallsInv'
<1>1. ASSUME NEW q \in Importers PROVE CallOK(calls[q])'
  <2>1. CASE q = p
    <3>1. calls'[q] = c
      BY <2>1 DEF CallsInv
    <3> QED BY <3>1
  <2>2. CASE q # p
    <3>1. PICK d : d = calls[q]
      OBVIOUS
    <3>2. CallOK(d)'
      BY <3>1, CallKept DEF CallsInv
    <3>3. calls'[q] = d
      BY <2>2, <3>1 DEF CallsInv
    <3> QED BY <3>2, <3>3
  <2> QED BY <2>1, <2>2
<1> QED BY <1>1 DEF CallsInv

\* A call that has not begun claims nothing.
LEMMA IdleOK == CallOK(I!Idle) /\ CallOK(I!Idle)'
  BY DEF CallOK, I!Idle

\* declare_apparatus() is one transaction over new documents.
LEMMA DeclareApparatusOK ==
    ASSUME IInv, I!DeclareApparatus, UNCHANGED <<seals, bundles, jobs>>
    PROVE  IInv'
<1>1. PICK n, a, r : /\ n = Len(events) + 1 /\ a = I!Plain("apparatus", {})
                     /\ r = I!Plain("receipt", {I!Id("apparatus")})
  OBVIOUS
<1>2. /\ a.id = <<"apparatus", n>> /\ a.bytes = NoBytes
      /\ r.id = <<"receipt", n>> /\ r.bytes = NoBytes
  BY <1>1 DEF I!Plain, I!Record, I!Id, I!Now
<1>3. I!Store({a, r}, a.id) /\ UNCHANGED <<objects, registered, calls>>
  BY <1>1, <1>2 DEF I!DeclareApparatus, I!Id, I!Now
<1>4. BatchOK({a, r}, a.id, n) /\ NotCaptured({a, r})
  BY <1>2 DEF BatchOK, DocOK, NotCaptured, CapturedRoles, I!IdsOf
<1>5. LogInv' /\ WorkspaceGrows /\ OthersInv'
  BY <1>1, <1>3, <1>4, BatchStored
<1> QED BY <1>3, <1>5, CallsKept DEF IInv, OthersInv

\* A failed import stores a receipt and touches no object.
LEMMA FailedAttemptOK ==
    ASSUME IInv, NEW apparatus, I!FailedAttempt(apparatus),
           UNCHANGED <<objects, registered, seals, bundles, jobs>>
    PROVE  LogInv' /\ WorkspaceGrows /\ OthersInv'
<1>1. PICK n, r : n = Len(events) + 1 /\ r = I!Plain("receipt", {apparatus.id})
  OBVIOUS
<1>2. r.id = <<"receipt", n>> /\ r.bytes = NoBytes
  BY <1>1 DEF I!Plain, I!Record, I!Id, I!Now
<1>3. I!Store({r}, r.id)
  BY <1>1, <1>2 DEF I!FailedAttempt, I!Id, I!Now
<1>4. BatchOK({r}, r.id, n) /\ NotCaptured({r})
  BY <1>2 DEF BatchOK, DocOK, NotCaptured, CapturedRoles, I!IdsOf
<1> QED BY <1>1, <1>3, <1>4, BatchStored

\* ingest() opens its input: nothing is registered yet.
LEMMA BeginIngestOK ==
    ASSUME IInv, NEW p \in Importers, NEW apparatus, NEW input \in Inputs,
           I!BeginIngest(p, apparatus, input), UNCHANGED <<seals, bundles, jobs>>
    PROVE  IInv'
<1>1. CASE I!Admitted(input)
  <2>1. PICK c : c = [left |-> I!Contents(input), linked |-> FALSE, input |-> input]
    OBVIOUS
  <2>2. calls' = [calls EXCEPT ![p] = c] /\ UNCHANGED workspace
    BY <1>1, <2>1 DEF I!BeginIngest, I!workspace, workspace
  <2>3. LogInv' /\ WorkspaceGrows /\ NoneCaptured
    BY <2>2, ObjectsGrow DEF IInv, LogInv, workspace
  <2>4. CallOK(c)'
    BY <2>1 DEF CallOK
  <2>5. CallsInv'
    BY <2>2, <2>3, <2>4, CallChanged DEF IInv
  <2> QED BY <2>3, <2>5, OthersKept DEF IInv, OthersInv
<1>2. CASE ~I!Admitted(input)
  <2>1. I!FailedAttempt(apparatus) /\ UNCHANGED <<objects, registered, calls>>
    BY <1>2 DEF I!BeginIngest
  <2> QED BY <2>1, FailedAttemptOK, CallsKept DEF IInv, OthersInv
<1> QED BY <1>1, <1>2

\* put_bytes() adds an object and no row.
LEMMA PutBytesOK ==
    ASSUME IInv, NEW p \in Importers, I!PutBytes(p), UNCHANGED <<seals, bundles, jobs>>
    PROVE  IInv'
<1>1. PICK c : c = calls[p]
  OBVIOUS
<1>2. PICK d : d = [c EXCEPT !.linked = TRUE]
  OBVIOUS
<1>3. CallOK(c)
  BY <1>1 DEF IInv, CallsInv
<1>4. /\ c.left # <<>> /\ objects' = objects \cup {Head(c.left)}
      /\ UNCHANGED <<records, events, registered>>
  BY <1>1 DEF I!PutBytes
<1>5. calls' = [calls EXCEPT ![p] = d]
  BY <1>1, <1>2 DEF I!PutBytes
<1>6. LogInv' /\ WorkspaceGrows /\ NoneCaptured
  BY <1>4, ObjectsGrow DEF IInv, LogInv
<1>7. CallOK(d)'
  <2>1. c # I!Idle
    BY <1>4 DEF I!Idle
  <2>2. /\ d.left = c.left /\ d.linked /\ d.input = c.input
        /\ d \in [left : {d.left}, linked : BOOLEAN, input : {d.input}]
    BY <1>2, <1>3 DEF CallOK
  <2> QED BY <1>3, <1>4, <2>1, <2>2 DEF CallOK
<1>8. CallsInv'
  BY <1>5, <1>6, <1>7, CallChanged DEF IInv
<1> QED BY <1>6, <1>8, OthersKept DEF IInv, OthersInv

\* A registration is of an object that is there, and leaves one less to register.
LEMMA RegisterOK ==
    ASSUME IInv, NEW p \in Importers, I!Register(p), UNCHANGED <<seals, bundles, jobs>>
    PROVE  IInv'
<1>1. PICK c : c = calls[p]
  OBVIOUS
<1>2. PICK d : d = [c EXCEPT !.left = Tail(@), !.linked = FALSE]
  OBVIOUS
<1>3. CallOK(c) /\ c.linked
  BY <1>1 DEF IInv, CallsInv, I!Register
<1>4. c # I!Idle /\ c.input \in Inputs /\ c.left # <<>> /\ Head(c.left) \in objects
  BY <1>3 DEF I!Idle, CallOK
<1>5. /\ registered' = registered \cup {Head(c.left)}
      /\ UNCHANGED <<records, events, objects>>
  BY <1>1, <1>4 DEF I!Register
<1>6. calls' = [calls EXCEPT ![p] = d]
  BY <1>1, <1>2 DEF I!Register
<1>7. LogInv' /\ WorkspaceGrows /\ NoneCaptured
  BY <1>4, <1>5, ObjectsGrow DEF IInv, LogInv
<1>8. CallOK(d)'
  <2>1. /\ d.left = Tail(c.left) /\ ~d.linked /\ d.input = c.input
        /\ d \in [left : {d.left}, linked : BOOLEAN, input : {d.input}]
    BY <1>2, <1>3 DEF CallOK
  <2>2. CASE c.left = I!Contents(c.input) /\ c.input.derivative = NoBytes
    <3>1. Head(c.left) = c.input.bytes /\ Tail(c.left) = <<>>
      BY <2>2 DEF I!Contents
    <3> QED BY <2>1, <2>2, <3>1, <1>4, <1>5 DEF CallOK
  <2>3. CASE c.left = I!Contents(c.input) /\ c.input.derivative # NoBytes
    <3>1. Head(c.left) = c.input.bytes /\ Tail(c.left) = <<c.input.derivative>>
      BY <2>3 DEF I!Contents
    <3> QED BY <2>1, <2>3, <3>1, <1>4, <1>5 DEF CallOK
  <2>4. CASE /\ c.input.derivative # NoBytes /\ c.left = <<c.input.derivative>>
             /\ c.input.bytes \in registered
    <3>1. Head(c.left) = c.input.derivative /\ Tail(c.left) = <<>>
      BY <2>4
    <3> QED BY <2>1, <2>4, <3>1, <1>4, <1>5 DEF CallOK
  <2> QED BY <1>3, <1>4, <2>2, <2>3, <2>4 DEF CallOK
<1>9. CallsInv'
  BY <1>6, <1>7, <1>8, CallChanged DEF IInv
<1> QED BY <1>7, <1>9, OthersKept DEF IInv, OthersInv

\* A call that stops leaves what it has registered.
LEMMA StopOK ==
    ASSUME IInv, NEW p \in Importers, I!Stop(p), UNCHANGED <<seals, bundles, jobs>>
    PROVE  IInv'
<1>1. calls' = [calls EXCEPT ![p] = I!Idle] /\ UNCHANGED workspace
  BY DEF I!Stop, I!workspace, workspace
<1>2. LogInv' /\ WorkspaceGrows /\ NoneCaptured
  BY <1>1, ObjectsGrow DEF IInv, LogInv, workspace
<1>3. CallsInv'
  <2>1. PICK c : c = I!Idle
    OBVIOUS
  <2> QED BY <1>1, <1>2, <2>1, IdleOK, CallChanged DEF IInv
<1> QED BY <1>2, <1>3, OthersKept DEF IInv, OthersInv

\* What an importer stores when its bytes are kept.
LEMMA TakenIn ==
    ASSUME IInv, NEW apparatus, NEW input \in Inputs, input.bytes \in registered,
           input.derivative # NoBytes => input.derivative \in registered
    PROVE  BatchOK({I!Plain("source", {}), I!Original(input), I!Acquisition(apparatus, input),
                    I!Receipt(apparatus, input)}
                      \cup I!Derivatives(input) \cup I!Observations(input),
                   I!Id("acquisition"), Len(events) + 1)
           /\ NotCaptured({I!Plain("source", {}), I!Original(input),
                           I!Acquisition(apparatus, input), I!Receipt(apparatus, input)}
                              \cup I!Derivatives(input) \cup I!Observations(input))
<1>1. PICK n, src, org, acq, rec, drv, obs :
         /\ n = Len(events) + 1
         /\ src = I!Plain("source", {}) /\ org = I!Original(input)
         /\ acq = I!Acquisition(apparatus, input) /\ rec = I!Receipt(apparatus, input)
         /\ drv = I!Derivatives(input) /\ obs = I!Observations(input)
  OBVIOUS
<1>2. /\ src.id = <<"source", n>> /\ src.bytes = NoBytes
      /\ org.id = <<"original", n>> /\ org.bytes = input.bytes /\ org.data.source = input.rate
      /\ acq.id = <<"acquisition", n>> /\ acq.bytes = NoBytes
      /\ rec.id = <<"receipt", n>> /\ rec.bytes = NoBytes
  BY <1>1 DEF I!Plain, I!Record, I!Original, I!RatesOf, I!Acquisition, I!Receipt, I!Id, I!Now
<1>3. ASSUME NEW d \in drv
      PROVE  /\ drv = {d} /\ d.id = <<"derivative", n>> /\ d.bytes = input.derivative
             /\ d.data.source = input.rate
             /\ input.derivative # NoBytes /\ d.id \in acq.refs
  <2>1. /\ input.derivative # NoBytes
        /\ drv = {I!Record("derivative", {I!Id("original"), I!Id("acquisition")},
                          input.derivative, I!RatesOf(input))}
    BY <1>1 DEF I!Derivatives
  <2>2. d = I!Record("derivative", {I!Id("original"), I!Id("acquisition")},
                     input.derivative, I!RatesOf(input))
    BY <2>1
  <2>3. I!Result(input) = "derivative"
    BY <2>1 DEF I!Result
  <2>4. <<"derivative", n>> \in acq.refs
    BY <2>3, <1>1 DEF I!Acquisition, I!Plain, I!Record, I!Id, I!Now
  <2> QED BY <2>1, <2>2, <2>4, <1>1 DEF I!Record, I!RatesOf, I!Id, I!Now
<1>4. ASSUME NEW d \in obs
      PROVE  obs = {d} /\ d.id = <<"observation", n>> /\ d.bytes = NoBytes /\ d.id \in rec.refs
  <2>1. obs = {I!Plain("observation", {I!Id("acquisition")})}
    BY <1>1 DEF I!Observations
  <2>2. d = I!Plain("observation", {I!Id("acquisition")})
    BY <2>1
  <2>3. d.id \in I!IdsOf(obs)
    BY DEF I!IdsOf
  <2>4. I!IdsOf(obs) \subseteq rec.refs
    BY <1>1 DEF I!Receipt, I!Plain, I!Record
  <2> QED BY <2>1, <2>2, <2>3, <2>4, <1>1 DEF I!Plain, I!Record, I!Id, I!Now
<1>5. {<<"source", n>>, <<"original", n>>, <<"receipt", n>>} \subseteq acq.refs
  BY <1>1 DEF I!Acquisition, I!Plain, I!Record, I!Id, I!Now
<1>6. input.rate \in Nat
  BY ArchiveAssumption DEF I!SoundInputs
<1> DEFINE docs == {src, org, acq, rec} \cup drv \cup obs
<1>7. ASSUME NEW d \in docs PROVE DocOK(d, docs, <<"acquisition", n>>, n)
  <2> USE DEF DocOK, TakenInOK
  <2>1. CASE d \in {acq, rec}
    BY <2>1, <1>2, <1>5
  <2>2. CASE d \in {src, org}
    <3>1. acq \in docs /\ acq # d /\ d.id \in acq.refs
      BY <2>2, <1>2, <1>5
    <3> QED BY <2>2, <3>1, <1>2, <1>6
  <2>3. CASE d \in drv
    <3>1. acq \in docs /\ acq # d /\ d.id \in acq.refs
      BY <2>3, <1>2, <1>3
    <3> QED BY <2>3, <3>1, <1>3, <1>6
  <2>4. CASE d \in obs
    <3>1. rec \in docs /\ rec # d /\ d.id \in rec.refs
      BY <2>4, <1>2, <1>4
    <3> QED BY <2>4, <3>1, <1>4
  <2> QED BY <2>1, <2>2, <2>3, <2>4
<1>8. \A d, e \in docs : d.id = e.id => d = e
  BY <1>2, <1>3, <1>4
<1>9. {<<"acquisition", n>>, <<"receipt", n>>} \subseteq I!IdsOf(docs)
  BY <1>2 DEF I!IdsOf
<1>10. BatchOK(docs, <<"acquisition", n>>, n)
  BY <1>7, <1>8, <1>9 DEF BatchOK
<1>11. NotCaptured(docs)
  BY <1>2, <1>3, <1>4 DEF NotCaptured, CapturedRoles
<1> QED BY <1>1, <1>10, <1>11 DEF I!Id, I!Now

\* The transaction of ingest() comes after the last registration.
LEMMA CommitIngestOK ==
    ASSUME IInv, NEW p \in Importers, NEW apparatus, I!CommitIngest(p, apparatus),
           UNCHANGED <<seals, bundles, jobs>>
    PROVE  IInv'
<1>1. PICK input : input = calls[p].input
  OBVIOUS
<1>2. /\ calls[p] # I!Idle /\ calls[p].left = <<>> /\ calls' = [calls EXCEPT ![p] = I!Idle]
      /\ UNCHANGED <<objects, registered>>
  BY DEF I!CommitIngest
<1>3. /\ input \in Inputs /\ input.bytes \in registered
      /\ input.derivative # NoBytes => input.derivative \in registered
  <2>1. CallOK(calls[p]) /\ calls[p].left = <<>>
    BY <1>2 DEF IInv, CallsInv
  <2>2. I!Contents(input) # <<>> /\ <<input.derivative>> # <<>>
    BY DEF I!Contents
  <2> QED BY <1>1, <1>2, <2>1, <2>2 DEF CallOK
<1>4. LogInv' /\ WorkspaceGrows /\ OthersInv'
  <2>1. CASE I!WithinChannels(input)
    <3>1. PICK docs, subject :
             /\ docs = {I!Plain("source", {}), I!Original(input), I!Acquisition(apparatus, input),
                        I!Receipt(apparatus, input)} \cup I!Derivatives(input)
                                                    \cup I!Observations(input)
             /\ subject = I!Id("acquisition")
      OBVIOUS
    <3>2. I!Store(docs, subject)
      BY <1>1, <2>1, <3>1 DEF I!CommitIngest
    <3>3. BatchOK(docs, subject, Len(events) + 1)
      BY <1>3, <3>1, TakenIn
    <3>4. NotCaptured(docs)
      BY <1>3, <3>1, TakenIn
    <3> QED BY <1>2, <3>2, <3>3, <3>4, BatchStored
  <2>2. CASE ~I!WithinChannels(input)
    BY <1>1, <1>2, <2>2, FailedAttemptOK DEF I!CommitIngest
  <2> QED BY <2>1, <2>2
<1>5. CallsInv'
  <2>1. PICK c : c = I!Idle
    OBVIOUS
  <2> QED BY <1>2, <1>4, <2>1, IdleOK, CallChanged DEF IInv
<1> QED BY <1>4, <1>5 DEF IInv, OthersInv

\* Half of the source's rate is the most.
LEMMA UpperWithin ==
    ASSUME NEW rates, NEW policy, rates.source \in Nat, policy.frequency \in Nat
    PROVE  2 * I!Upper(rates, policy) <= rates.source
<1>1. I!Nyquist(rates) \in Nat /\ 2 * I!Nyquist(rates) <= rates.source
  BY DEF I!Nyquist
<1> QED BY <1>1 DEF I!Upper

\* derive_aperture() stores a view of an artifact that is recorded.
LEMMA DeriveApertureOK ==
    ASSUME IInv, NEW apparatus, NEW artifact \in records, NEW policy \in Policies,
           I!DeriveAperture(apparatus, artifact, policy), UNCHANGED <<seals, bundles, jobs>>
    PROVE  IInv'
<1>1. PICK n, inputs, ap, run, rec :
         /\ n = Len(events) + 1 /\ inputs = {apparatus.id, artifact.id}
         /\ ap = I!Record("aperture", inputs \cup {I!Id("run")} \cup I!AcquisitionsOf(artifact),
                          NoBytes,
                          [upper |-> I!Upper(artifact.data, policy), of |-> artifact.id,
                           operations |-> I!Permitted(policy)])
         /\ run = I!Plain("run", inputs \cup {I!Id("aperture")} \cup I!AcquisitionsOf(artifact))
         /\ rec = I!Plain("receipt", inputs \cup {I!Id("run"), I!Id("aperture")})
  OBVIOUS
<1>2. /\ ap.id = <<"aperture", n>> /\ ap.bytes = NoBytes
      /\ ap.data = [upper |-> I!Upper(artifact.data, policy), of |-> artifact.id,
                    operations |-> I!Permitted(policy)]
      /\ run.id = <<"run", n>> /\ run.bytes = NoBytes /\ run.id \in ap.refs
      /\ rec.id = <<"receipt", n>> /\ rec.bytes = NoBytes
  BY <1>1 DEF I!Record, I!Plain, I!Id, I!Now
<1>3. I!Store({ap, run, rec}, ap.id) /\ UNCHANGED <<objects, registered, calls>>
  BY <1>1, <1>2 DEF I!DeriveAperture, I!Id, I!Now
<1>4. /\ ap.data.of \in I!IdsOf(records) /\ ap.data.of[1] \in {"original", "derivative"}
      /\ \A s \in records : s.id = ap.data.of => 2 * ap.data.upper <= s.data.source
      /\ ap.data.operations \subseteq Surface.operations
  <2>1. artifact.id[1] \in {"original", "derivative"} /\ artifact.data.source \in Nat
    BY DEF IInv, LogInv, RecordOK, TakenInOK, I!DeriveAperture
  <2>2. policy.frequency \in Nat
    BY ArchiveAssumption DEF I!SoundInputs
  <2>3. 2 * I!Upper(artifact.data, policy) <= artifact.data.source
    BY <2>1, <2>2, UpperWithin
  <2>4. \A s \in records : s.id = artifact.id => s = artifact
    BY DEF IInv, LogInv
  <2> QED BY <1>2, <2>1, <2>3, <2>4 DEF I!IdsOf, I!Permitted
<1>5. BatchOK({ap, run, rec}, ap.id, n)
  <2>1. \A d \in {ap, run, rec} : DocOK(d, {ap, run, rec}, ap.id, n)
    BY <1>2, <1>4 DEF DocOK, I!IdsOf
  <2> QED BY <1>2, <2>1 DEF BatchOK, I!IdsOf
<1>6. NotCaptured({ap, run, rec})
  BY <1>2 DEF NotCaptured, CapturedRoles
<1>7. LogInv' /\ WorkspaceGrows /\ OthersInv'
  BY <1>1, <1>3, <1>5, <1>6, BatchStored
<1> QED BY <1>3, <1>7, CallsKept DEF IInv, OthersInv

\* An event about stored records refers to earlier records only.
LEMMA PropagateEventOK ==
    ASSUME IInv, NEW subject \in records, NEW receipt \in records,
           PropagateEvent(subject, receipt), UNCHANGED <<calls, seals, bundles, jobs>>
    PROVE  IInv'
<1>1. LogInv' /\ WorkspaceGrows /\ NoneCaptured
  BY PropagateKeeps DEF IInv
<1> QED BY <1>1, OthersKept, CallsKept DEF IInv, OthersInv

\* Every operation of Ingress keeps the invariant.
LEMMA IngressOK ==
    ASSUME IInv, I!Next, UNCHANGED <<seals, bundles, jobs>>
    PROVE  IInv'
BY DeclareApparatusOK, BeginIngestOK, PutBytesOK, RegisterOK, CommitIngestOK, StopOK,
   DeriveApertureOK DEF I!Next, I!Ingest

-----------------------------------------------------------------------------
(* Sealing *)

\* Who accepts what was read has found the three moments to be one: an event between the first
\* and the second would have no receipt, an edge after the second would lack an end.
LEMMA AcceptedIsOne ==
    ASSUME LogInv, NEW b, NEW k \in 0 .. Len(events), NEW m \in 0 .. Len(events),
           NEW e \in 0 .. Len(events), k <= m, m <= e,
           b.records = Before(k), b.events = LogTo(m), b.edges = EdgesTo(e), B!Accepts(b)
    PROVE  b.records = Before(m) /\ b.edges = EdgesTo(m)
<1>1. Len(events) \in Nat /\ DOMAIN events = 1 .. Len(events)
  BY LengthNat DEF LogInv
<1>2. \A r \in records : /\ r.id[2] \in 1 .. Len(events) /\ r.id[1] # "authority"
                         /\ events[r.id[2]].receipt = <<"receipt", r.id[2]>>
  BY <1>1 DEF LogInv, RecordOK
<1>3. Authority.id = <<"authority", 0>>
  BY ArchiveAssumption
<1>4. \A i \in B!IdsOf(b.records) : i = <<"authority", 0>> \/ i[2] <= k
  BY <1>3 DEF B!IdsOf, Before
<1>5. ASSUME NEW r \in records, r.id[2] <= m PROVE r.id[2] <= k
  <2>1. <<r.id[2], events[r.id[2]]>> \in b.events
    BY <1>2, <1>5 DEF LogTo
  <2>2. events[r.id[2]].receipt \in B!IdsOf(b.records)
    BY <2>1 DEF B!Accepts, B!EventsResolve
  <2>3. <<"receipt", r.id[2]>> # <<"authority", 0>>
    OBVIOUS
  <2> QED BY <2>2, <2>3, <1>2, <1>4
<1>6. {r \in records : r.id[2] <= k} = {r \in records : r.id[2] <= m}
  BY <1>1, <1>2, <1>5
<1>7. ASSUME NEW r \in records, r.id[2] <= e, r.refs # {} PROVE r.id[2] <= m
  <2>1. PICK i : i \in r.refs
    BY <1>7
  <2>2. <<r.id, i>> \in EdgesTo(e)
    BY <2>1, <1>7 DEF EdgesTo, B!EdgesOf
  <2>3. r.id \in B!IdsOf(b.records)
    BY <2>2 DEF B!Accepts, B!LineageResolves
  <2>4. r.id # <<"authority", 0>>
    BY <1>2
  <2> QED BY <2>3, <2>4, <1>1, <1>2, <1>4
<1>8. EdgesTo(e) = EdgesTo(m)
  <2>1. \A x : x \in EdgesTo(e) <=>
                \E d \in records : d.id[2] <= e /\ \E r \in d.refs : x = <<d.id, r>>
    BY EdgesDef DEF EdgesTo
  <2>2. \A x : x \in EdgesTo(m) <=>
                \E d \in records : d.id[2] <= m /\ \E r \in d.refs : x = <<d.id, r>>
    BY EdgesDef DEF EdgesTo
  <2>3. \A d \in records : d.id[2] <= m => d.id[2] <= e
    BY <1>1, <1>2
  <2> QED BY <2>1, <2>2, <2>3, <1>7
<1> QED BY <1>6, <1>8 DEF Before

\* A reader of the workspace leaves it as it is.
LEMMA ReadOnly ==
    ASSUME IInv, UNCHANGED <<workspace, calls, jobs>>
    PROVE  LogInv' /\ WorkspaceGrows /\ NoneCaptured /\ CallsInv' /\ JobsInv' /\ CapturesInv'
<1>1. LogInv' /\ WorkspaceGrows /\ NoneCaptured
  BY ObjectsGrow DEF IInv, LogInv, workspace
<1> QED BY <1>1, CallsKept, JobsKept, CapturesKept DEF IInv

\* One sealer goes on.
LEMMA SealChanged ==
    ASSUME IInv, UNCHANGED <<workspace, calls, jobs>>, NEW s \in Sealers, NEW q, SealOK(q),
           seals' = [seals EXCEPT ![s] = q]
    PROVE  SealsInv'
<1>1. WorkspaceGrows
  BY ReadOnly
<1>2. ASSUME NEW o \in Sealers PROVE SealOK(seals[o])'
  <2>1. PICK d : d = IF o = s THEN q ELSE seals[o]
    OBVIOUS
  <2>2. SealOK(d)'
    BY <2>1, <1>1, SealKept DEF IInv, SealsInv
  <2>3. seals'[o] = d
    BY <2>1 DEF IInv, SealsInv
  <2> QED BY <2>2, <2>3
<1> QED BY <1>2 DEF IInv, SealsInv

\* Nothing read is nothing to answer for.
LEMMA EmptySeal ==
    ASSUME LogInv, NEW q, NEW t \in {"idle", "registrations", "objects", "records"}, NEW name,
           t # "idle" => name \in Names,
           NEW read, q = [step |-> t, name |-> name, read |-> read],
           read \in [records : {read.records}, events : {read.events},
                     edges : {read.edges}, artifacts : {read.artifacts}]
    PROVE  SealOK(q)
<1>1. Len(events) \in Nat
  BY LengthNat DEF LogInv
<1>2. q.step = t /\ q.name = name /\ q.read = read
  OBVIOUS
<1>3. q \in [step : Steps, name : {q.name}, read : {q.read}]
  <2>1. t \in Steps
    BY DEF Steps
  <2>2. [step |-> t, name |-> name, read |-> read] \in [step : Steps, name : {name}, read : {read}]
    BY <2>1
  <2> QED BY <1>2, <2>2
<1> QED BY <1>1, <1>2, <1>3 DEF SealOK

\* A sealer that gives up holds no reading.
LEMMA GiveUpOK ==
    ASSUME IInv, UNCHANGED <<workspace, calls, jobs>>, NEW s \in Sealers, B!GiveUp(s)
    PROVE  SealsInv'
<1>1. PICK q, read : read = B!Empty /\ q = [step |-> "idle", name |-> NoBytes, read |-> read]
  OBVIOUS
<1>2. read \in [records : {read.records}, events : {read.events},
                edges : {read.edges}, artifacts : {read.artifacts}]
  BY <1>1 DEF B!Empty
<1>3. SealOK(q)
  BY <1>1, <1>2, EmptySeal DEF IInv
<1>4. seals' = [seals EXCEPT ![s] = q]
  BY <1>1 DEF B!GiveUp, B!Idle
<1> QED BY <1>3, <1>4, SealChanged

\* What a sealer that goes on has become.
LEMMA Continued ==
    ASSUME IInv, NEW s \in Sealers, NEW t \in Steps, B!StepAfter[seals[s].step] = t,
           seals[s].step # "idle", NEW read, B!Continue(s, read)
    PROVE  \E d : /\ d.step = t /\ d.read = read /\ d.name \in Names
                  /\ d \in [step : Steps, name : {d.name}, read : {d.read}]
                  /\ seals' = [seals EXCEPT ![s] = d]
<1>1. PICK q : q = seals[s]
  OBVIOUS
<1>2. PICK d : d = [q EXCEPT !.read = read, !.step = t]
  OBVIOUS
<1>3. q \in [step : Steps, name : {q.name}, read : {q.read}] /\ q.name \in Names
  BY <1>1 DEF IInv, SealsInv, SealOK
<1>4. /\ d.step = t /\ d.read = read /\ d.name \in Names
      /\ d \in [step : Steps, name : {d.name}, read : {d.read}]
  BY <1>2, <1>3
<1>5. seals' = [seals EXCEPT ![s] = d]
  BY <1>1, <1>2 DEF B!Continue
<1> QED BY <1>4, <1>5

\* The readings of a sealer that has none to answer for.
LEMMA Unread ==
    ASSUME LogInv, NEW d, d.step \in {"idle", "registrations", "objects", "records"},
           d \in [step : Steps, name : {d.name}, read : {d.read}], d.name \in Names,
           d.read \in [records : {d.read.records}, events : {d.read.events},
                       edges : {d.read.edges}, artifacts : {d.read.artifacts}]
    PROVE  SealOK(d)
<1>1. Len(events) \in Nat
  BY LengthNat DEF LogInv
<1> QED BY <1>1 DEF SealOK

\* A sealer begins with no reading.
LEMMA BeginSealOK ==
    ASSUME IInv, UNCHANGED <<workspace, calls, jobs>>, NEW s \in Sealers, NEW name \in Names,
           B!BeginSeal(s, name)
    PROVE  SealsInv'
<1>1. PICK q, read : read = B!Empty
                     /\ q = [step |-> "registrations", name |-> name, read |-> read]
  OBVIOUS
<1>2. read \in [records : {read.records}, events : {read.events},
                edges : {read.edges}, artifacts : {read.artifacts}]
  BY <1>1 DEF B!Empty
<1>3. SealOK(q)
  BY <1>1, <1>2, EmptySeal DEF IInv
<1>4. seals' = [seals EXCEPT ![s] = q]
  BY <1>1 DEF B!BeginSeal, B!StepAfter
<1> QED BY <1>3, <1>4, SealChanged

\* The first reading of a sealer is of this moment.
LEMMA ReadRegistrationsOK ==
    ASSUME IInv, UNCHANGED <<workspace, calls, jobs>>, NEW s \in Sealers, B!ReadRegistrations(s)
    PROVE  SealsInv'
<1>1. PICK read : read = [B!Empty EXCEPT !.artifacts = registered]
  OBVIOUS
<1>2. read \in [records : {read.records}, events : {read.events},
                edges : {read.edges}, artifacts : {read.artifacts}]
  BY <1>1 DEF B!Empty
<1>3. /\ B!StepAfter[seals[s].step] = "objects" /\ "objects" \in Steps
      /\ seals[s].step # "idle" /\ B!Continue(s, read)
  BY <1>1 DEF B!ReadRegistrations, B!StepAfter, Steps
<1>4. PICK d : /\ d.step = "objects" /\ d.read = read /\ d.name \in Names
               /\ d \in [step : Steps, name : {d.name}, read : {d.read}]
               /\ seals' = [seals EXCEPT ![s] = d]
  BY <1>3, Continued
<1>5. SealOK(d)
  BY <1>2, <1>4, Unread DEF IInv
<1> QED BY <1>4, <1>5, SealChanged

\* Comparing rows with objects reads no record.
LEMMA CompareObjectsOK ==
    ASSUME IInv, UNCHANGED <<workspace, calls, jobs>>, NEW s \in Sealers, B!CompareObjects(s)
    PROVE  SealsInv'
<1>1. CASE B!GiveUp(s)
  BY <1>1, GiveUpOK
<1>2. CASE B!Continue(s, B!Empty)
  <2>1. PICK read : read = B!Empty
    OBVIOUS
  <2>2. read \in [records : {read.records}, events : {read.events},
                  edges : {read.edges}, artifacts : {read.artifacts}]
    BY <2>1 DEF B!Empty
  <2>3. /\ B!StepAfter[seals[s].step] = "records" /\ "records" \in Steps
        /\ seals[s].step # "idle" /\ B!Continue(s, read)
    BY <1>2, <2>1 DEF B!CompareObjects, B!StepAfter, Steps
  <2>4. PICK d : /\ d.step = "records" /\ d.read = read /\ d.name \in Names
                 /\ d \in [step : Steps, name : {d.name}, read : {d.read}]
                 /\ seals' = [seals EXCEPT ![s] = d]
    BY <2>3, Continued
  <2>5. SealOK(d)
    BY <2>2, <2>4, Unread DEF IInv
  <2> QED BY <2>4, <2>5, SealChanged
<1> QED BY <1>1, <1>2 DEF B!CompareObjects

\* The records are read at this moment, no earlier than the registrations.
LEMMA ReadRecordsOK ==
    ASSUME IInv, UNCHANGED <<workspace, calls, jobs>>, NEW s \in Sealers, B!ReadRecords(s)
    PROVE  SealsInv'
<1>1. PICK q, read : q = seals[s] /\ read = [q.read EXCEPT !.records = records \cup {Authority}]
  OBVIOUS
<1>2. CASE B!GiveUp(s)
  BY <1>2, GiveUpOK
<1>3. CASE B!Continue(s, read)
  <2>1. SealOK(q)
    BY <1>1 DEF IInv, SealsInv
  <2>2. /\ read.records = records \cup {Authority}
        /\ read \in [records : {read.records}, events : {read.events},
                     edges : {read.edges}, artifacts : {read.artifacts}]
    BY <1>1, <2>1 DEF SealOK
  <2>3. B!StepAfter[seals[s].step] = "events" /\ "events" \in Steps /\ seals[s].step # "idle"
    BY DEF B!ReadRecords, B!StepAfter, Steps
  <2>4. PICK d : /\ d.step = "events" /\ d.read = read /\ d.name \in Names
                 /\ d \in [step : Steps, name : {d.name}, read : {d.read}]
                 /\ seals' = [seals EXCEPT ![s] = d]
    BY <1>3, <2>3, Continued
  <2>5. SealOK(d)
    <3>1. /\ Len(events) \in 0 .. Len(events) /\ Len(events) <= Len(events)
          /\ Before(Len(events)) = records \cup {Authority}
      BY Present DEF IInv
    <3>2. d.read.records = Before(Len(events))
      BY <2>2, <2>4, <3>1
    <3> QED BY <2>2, <2>4, <3>1, <3>2 DEF SealOK
  <2> QED BY <2>4, <2>5, SealChanged
<1> QED BY <1>1, <1>2, <1>3 DEF B!ReadRecords

\* The events are read at this moment, no earlier than the records.
LEMMA ReadEventsOK ==
    ASSUME IInv, UNCHANGED <<workspace, calls, jobs>>, NEW s \in Sealers, B!ReadEvents(s)
    PROVE  SealsInv'
<1>1. PICK q, read : q = seals[s] /\ read = [q.read EXCEPT !.events = B!Log(events)]
  OBVIOUS
<1>2. SealOK(q) /\ q.step = "events"
  BY <1>1 DEF IInv, SealsInv, B!ReadEvents
<1>3. /\ read.events = B!Log(events) /\ read.records = q.read.records
      /\ read \in [records : {read.records}, events : {read.events},
                   edges : {read.edges}, artifacts : {read.artifacts}]
  BY <1>1, <1>2 DEF SealOK
<1>4. /\ B!StepAfter[seals[s].step] = "edges" /\ "edges" \in Steps
      /\ seals[s].step # "idle" /\ B!Continue(s, read)
  BY <1>1 DEF B!ReadEvents, B!StepAfter, Steps
<1>5. PICK d : /\ d.step = "edges" /\ d.read = read /\ d.name \in Names
               /\ d \in [step : Steps, name : {d.name}, read : {d.read}]
               /\ seals' = [seals EXCEPT ![s] = d]
  BY <1>4, Continued
<1>6. SealOK(d)
  <2>1. PICK k \in 0 .. Len(events) : q.read.records = Before(k)
    BY <1>2 DEF SealOK
  <2>2. Len(events) \in 0 .. Len(events) /\ k <= Len(events)
        /\ LogTo(Len(events)) = B!Log(events)
    BY <2>1, Present DEF IInv
  <2> QED BY <1>3, <1>5, <2>1, <2>2 DEF SealOK
<1> QED BY <1>5, <1>6, SealChanged

\* The edges are read at this moment, no earlier than the events.
LEMMA ReadEdgesOK ==
    ASSUME IInv, UNCHANGED <<workspace, calls, jobs>>, NEW s \in Sealers, B!ReadEdges(s)
    PROVE  SealsInv'
<1>1. PICK q, read : q = seals[s] /\ read = [q.read EXCEPT !.edges = B!EdgesOf(records)]
  OBVIOUS
<1>2. SealOK(q) /\ q.step = "edges"
  BY <1>1 DEF IInv, SealsInv, B!ReadEdges
<1>3. /\ read.edges = B!EdgesOf(records)
      /\ read.records = q.read.records /\ read.events = q.read.events
      /\ read \in [records : {read.records}, events : {read.events},
                   edges : {read.edges}, artifacts : {read.artifacts}]
  BY <1>1, <1>2 DEF SealOK
<1>4. /\ B!StepAfter[seals[s].step] = "copy" /\ "copy" \in Steps
      /\ seals[s].step # "idle" /\ B!Continue(s, read)
  BY <1>1 DEF B!ReadEdges, B!StepAfter, Steps
<1>5. PICK d : /\ d.step = "copy" /\ d.read = read /\ d.name \in Names
               /\ d \in [step : Steps, name : {d.name}, read : {d.read}]
               /\ seals' = [seals EXCEPT ![s] = d]
  BY <1>4, Continued
<1>6. SealOK(d)
  <2>1. PICK k, m \in 0 .. Len(events) :
           k <= m /\ q.read.records = Before(k) /\ q.read.events = LogTo(m)
    BY <1>2 DEF SealOK
  <2>2. Len(events) \in 0 .. Len(events) /\ m <= Len(events)
        /\ EdgesTo(Len(events)) = B!EdgesOf(records)
    BY <2>1, Present DEF IInv
  <2> QED BY <1>3, <1>5, <2>1, <2>2 DEF SealOK
<1> QED BY <1>5, <1>6, SealChanged

\* The bytes of the records that were read are registered by now.
LEMMA CopyArtifactsOK ==
    ASSUME IInv, UNCHANGED <<workspace, calls, jobs>>, NEW s \in Sealers, B!CopyArtifacts(s)
    PROVE  SealsInv'
<1>1. PICK q, read : q = seals[s] /\ read = [q.read EXCEPT !.artifacts = registered]
  OBVIOUS
<1>2. CASE B!GiveUp(s)
  BY <1>2, GiveUpOK
<1>3. CASE B!Continue(s, read)
  <2>1. SealOK(q) /\ q.step = "copy"
    BY <1>1 DEF IInv, SealsInv, B!CopyArtifacts
  <2>2. /\ read.artifacts = registered /\ read.edges = q.read.edges
        /\ read.records = q.read.records /\ read.events = q.read.events
        /\ read \in [records : {read.records}, events : {read.events},
                     edges : {read.edges}, artifacts : {read.artifacts}]
    BY <1>1, <2>1 DEF SealOK
  <2>3. B!StepAfter[seals[s].step] = "finish" /\ "finish" \in Steps /\ seals[s].step # "idle"
    BY DEF B!CopyArtifacts, B!StepAfter, Steps
  <2>4. PICK d : /\ d.step = "finish" /\ d.read = read /\ d.name \in Names
                 /\ d \in [step : Steps, name : {d.name}, read : {d.read}]
                 /\ seals' = [seals EXCEPT ![s] = d]
    BY <1>3, <2>3, Continued
  <2>5. PICK k, m, e \in 0 .. Len(events) :
           /\ k <= m /\ m <= e /\ q.read.records = Before(k)
           /\ q.read.events = LogTo(m) /\ q.read.edges = EdgesTo(e)
    BY <2>1 DEF SealOK
  <2>6. \A r \in read.records : r.bytes # NoBytes => r.bytes \in read.artifacts
    BY <2>2, <2>5, ArchiveAssumption DEF Before, IInv, LogInv, RecordOK
  <2>7. SealOK(d)
    BY <2>2, <2>4, <2>5, <2>6 DEF SealOK
  <2> QED BY <2>4, <2>7, SealChanged
<1> QED BY <1>1, <1>2, <1>3 DEF B!CopyArtifacts

\* What is put in its place is the workspace of a moment, and nothing is put in another's.
LEMMA PlacedOK ==
    ASSUME IInv, UNCHANGED <<workspace, calls, jobs>>, NEW name \in Names, NEW b, BundleOK(b),
           bundles' = B!Placed(name, b)
    PROVE  BundlesInv'
<1>1. LogInv /\ WorkspaceGrows
  BY ReadOnly DEF IInv
<1>2. ASSUME NEW n \in DOMAIN bundles' PROVE BundleOK(bundles[n])'
  <2>1. PICK c : c = IF n = name THEN b ELSE bundles[n]
    OBVIOUS
  <2>2. bundles'[n] = c /\ (n = name \/ n \in DOMAIN bundles)
    BY <2>1 DEF B!Placed
  <2>3. BundleOK(c)
    BY <2>1, <2>2 DEF IInv, BundlesInv
  <2>4. BundleOK(c)'
    BY <1>1, <2>3, BundleKept
  <2> QED BY <2>2, <2>4
<1>3. DOMAIN bundles' \subseteq Names
  BY DEF B!Placed, IInv, BundlesInv
<1> QED BY <1>2, <1>3 DEF BundlesInv

\* What the sealer's reader accepts was one moment (AcceptedIsOne), and becomes a bundle.
LEMMA FinishOK ==
    ASSUME IInv, UNCHANGED <<workspace, calls, jobs>>, NEW s \in Sealers, B!Finish(s)
    PROVE  SealsInv' /\ BundlesInv'
<1>1. SealsInv'
  BY GiveUpOK DEF B!Finish
<1>2. CASE UNCHANGED bundles
  BY <1>2, ReadOnly, BundlesKept, <1>1 DEF IInv
<1>3. CASE B!Accepts(seals[s].read) /\ bundles' = B!Placed(seals[s].name, seals[s].read)
  <2>1. PICK q, b, name : q = seals[s] /\ b = q.read /\ name = q.name
    OBVIOUS
  <2>2. SealOK(q) /\ q.step = "finish"
    BY <2>1 DEF IInv, SealsInv, B!Finish
  <2>3. PICK k, m, e \in 0 .. Len(events) :
           /\ k <= m /\ m <= e /\ b.records = Before(k)
           /\ b.events = LogTo(m) /\ b.edges = EdgesTo(e)
    BY <2>1, <2>2 DEF SealOK
  <2>4. b.records = Before(m) /\ b.edges = EdgesTo(m)
    BY <1>3, <2>1, <2>3, AcceptedIsOne DEF IInv
  <2>5. BundleOK(b) /\ name \in Names
    BY <2>1, <2>2, <2>3, <2>4 DEF BundleOK, SealOK
  <2> QED BY <1>3, <2>1, <2>5, <1>1, PlacedOK
<1> QED BY <1>1, <1>2, <1>3 DEF B!Finish

\* A seal within one transaction shows the present moment.
LEMMA SealAtOnceOK ==
    ASSUME IInv, UNCHANGED <<workspace, calls, jobs>>, NEW name \in Names, B!SealAtOnce(name)
    PROVE  SealsInv' /\ BundlesInv'
<1>1. PICK b : b = [records |-> records \cup {Authority}, events |-> B!Log(events),
                    edges |-> B!EdgesOf(records), artifacts |-> registered]
  OBVIOUS
<1>2. bundles' = B!Placed(name, b) /\ UNCHANGED seals
  BY <1>1 DEF B!SealAtOnce
<1>3. BundleOK(b)
  <2>1. /\ Len(events) \in 0 .. Len(events) /\ Before(Len(events)) = records \cup {Authority}
        /\ LogTo(Len(events)) = B!Log(events) /\ EdgesTo(Len(events)) = B!EdgesOf(records)
    BY Present DEF IInv
  <2>2. \A r \in b.records : r.bytes # NoBytes => r.bytes \in b.artifacts
    BY <1>1, ArchiveAssumption DEF IInv, LogInv, RecordOK
  <2> QED BY <1>1, <2>1, <2>2 DEF BundleOK
<1> QED BY <1>2, <1>3, PlacedOK, ReadOnly, SealsKept DEF IInv

\* Every operation of Bundle keeps the invariant.
LEMMA BundleStepOK ==
    ASSUME IInv, UNCHANGED <<workspace, calls, jobs>>, B!Next
    PROVE  IInv'
<1>1. SealsInv' /\ BundlesInv'
  <2>1. ASSUME NEW s \in Sealers, B!Seal(s) PROVE SealsInv' /\ BundlesInv'
    <3>1. CASE \/ \E name \in Names : B!BeginSeal(s, name)
               \/ B!ReadRegistrations(s) \/ B!CompareObjects(s) \/ B!ReadRecords(s)
               \/ B!ReadEvents(s) \/ B!ReadEdges(s) \/ B!CopyArtifacts(s)
      <4>1. SealsInv'
        BY <3>1, BeginSealOK, ReadRegistrationsOK, CompareObjectsOK, ReadRecordsOK,
           ReadEventsOK, ReadEdgesOK, CopyArtifactsOK
      <4>2. UNCHANGED bundles
        BY <3>1 DEF B!BeginSeal, B!ReadRegistrations, B!CompareObjects, B!ReadRecords,
           B!ReadEvents, B!ReadEdges, B!CopyArtifacts
      <4> QED BY <4>1, <4>2, ReadOnly, BundlesKept DEF IInv
    <3> QED BY <2>1, <3>1, FinishOK DEF B!Seal
  <2>2. ASSUME NEW s \in Sealers, B!StopSeal(s) PROVE SealsInv' /\ BundlesInv'
    BY <2>2, GiveUpOK, ReadOnly, BundlesKept DEF B!StopSeal, IInv
  <2>3. ASSUME NEW name \in Names, B!SealAtOnce(name) PROVE SealsInv' /\ BundlesInv'
    BY <2>3, SealAtOnceOK
  <2> QED BY <2>1, <2>2, <2>3 DEF B!Next
<1> QED BY <1>1, ReadOnly DEF IInv

-----------------------------------------------------------------------------
(* Captures *)

\* What is stored of a capture, and of what is derived from it, is what was checked.
CapturesOf(docs) == \A d \in docs : CaptureOK(d)

\* One client goes on.
LEMMA JobChanged ==
    ASSUME WorkspaceGrows, JobsInv, NEW c \in Clients, NEW j, JobOK(j)',
           jobs' = [jobs EXCEPT ![c] = j]
    PROVE  JobsInv'
<1>1. ASSUME NEW d \in Clients PROVE JobOK(jobs[d])'
  <2>1. CASE d = c
    <3>1. jobs'[d] = j
      BY <2>1 DEF JobsInv
    <3> QED BY <3>1
  <2>2. CASE d # c
    <3>1. PICK k : k = jobs[d]
      OBVIOUS
    <3>2. JobOK(k)'
      BY <3>1, JobKept DEF JobsInv
    <3>3. jobs'[d] = k
      BY <2>2, <3>1 DEF JobsInv
    <3> QED BY <3>2, <3>3
  <2> QED BY <2>1, <2>2
<1> QED BY <1>1 DEF JobsInv

\* A client that has nothing to do claims nothing.
LEMMA IdleJob == JobOK(A!Idle) /\ JobOK(A!Idle)'
BY DEF JobOK, A!Idle

\* A step of a client leaves importers, sealers and bundles what they are.
LEMMA ClientStep ==
    ASSUME IInv, LogInv', WorkspaceGrows, JobsInv', CapturesInv',
           UNCHANGED <<calls, seals, bundles>>
    PROVE  IInv'
BY CallsKept, SealsKept, BundlesKept DEF IInv

\* A transaction of a client.
LEMMA ClientStores ==
    ASSUME IInv, NEW docs, NEW subject, BatchOK(docs, subject, Len(events) + 1),
           I!Store(docs, subject), UNCHANGED <<objects, registered>>, CapturesOf(docs)'
    PROVE  LogInv' /\ WorkspaceGrows /\ CapturesInv'
<1>1. LogInv' /\ WorkspaceGrows
  BY StoreKeeps DEF IInv
<1>2. ASSUME NEW r \in records' PROVE CaptureOK(r)'
  <2>1. CASE r \in records
    BY <1>1, <2>1, CaptureKept DEF IInv, CapturesInv
  <2>2. CASE r \in docs
    BY <2>2 DEF CapturesOf
  <2> QED BY <2>1, <2>2 DEF I!Store
<1> QED BY <1>1, <1>2 DEF CapturesInv

\* What an adapter stores is what a transaction of ingress is.
LEMMA SameStore ==
    /\ \A docs, subject : A!I!Store(docs, subject) <=> I!Store(docs, subject)
    /\ \A role : A!I!Id(role) = <<role, Len(events) + 1>>
    /\ \A role, refs, bytes, data :
          A!I!Record(role, refs, bytes, data)
             = [id |-> <<role, Len(events) + 1>>, refs |-> refs, bytes |-> bytes, data |-> data]
BY DEF A!I!Store, I!Store, A!I!Id, I!Id, A!I!Now, I!Now, A!I!Record, A!I!IdsOf, I!IdsOf

\* An answer is a receipt about a record.
LEMMA AnswerOnlyOK ==
    ASSUME IInv, NEW request \in records, A!AnswerOnly(request),
           UNCHANGED <<calls, seals, bundles>>
    PROVE  IInv'
<1>1. PICK n, r : n = Len(events) + 1 /\ r = A!I!Plain("receipt", {request.id})
  OBVIOUS
<1>2. r.id = <<"receipt", n>> /\ r.bytes = NoBytes
  BY <1>1, SameStore DEF A!I!Plain
<1>3. I!Store({r}, request.id) /\ UNCHANGED <<objects, registered, jobs>>
  BY <1>1, SameStore DEF A!AnswerOnly, A!Answer
<1>4. BatchOK({r}, request.id, n)
  BY <1>2 DEF BatchOK, DocOK, I!IdsOf
<1>5. CapturesOf({r})'
  BY <1>2 DEF CapturesOf, CaptureOK, DenseOK, InstanceOK, CandidateOK, InterveneOK
<1>6. LogInv' /\ WorkspaceGrows /\ CapturesInv'
  BY <1>1, <1>3, <1>4, <1>5, ClientStores
<1> QED BY <1>3, <1>6, JobsKept, ClientStep DEF IInv

\* Before the first step all of them are left.
LEMMA NothingBehind ==
    ASSUME NEW steps, Sequence(steps)
    PROVE  After(steps, 0) = steps
<1>1. Len(steps) \in Nat /\ DOMAIN steps = 1 .. Len(steps)
  BY LengthNat
<1> QED BY <1>1 DEF After, Sequence

\* One step on.
LEMMA OneBehind ==
    ASSUME NEW steps, Sequence(steps), NEW k \in 0 .. Len(steps), After(steps, k) # <<>>
    PROVE  /\ k + 1 \in 1 .. Len(steps) /\ Head(After(steps, k)) = steps[k + 1]
           /\ Tail(After(steps, k)) = After(steps, k + 1)
<1>1. Len(steps) \in Nat /\ DOMAIN steps = 1 .. Len(steps)
  BY LengthNat
<1>2. PICK q : q = After(steps, k)
  OBVIOUS
<1>3. k < Len(steps)
  <2>1. CASE k = Len(steps)
    <3>1. 1 .. Len(steps) - k = {}
      BY <1>1, <2>1
    <3> QED BY <3>1 DEF After
  <2>2. \A m \in Nat : \A i \in 0 .. m : i = m \/ i < m
    OBVIOUS
  <2>3. k = Len(steps) \/ k < Len(steps)
    BY <1>1, <2>2
  <2> QED BY <2>1, <2>3
<1>4. \A i \in 1 .. Len(steps) - k : i + k \in 1 .. Len(steps)
  BY <1>1
<1>5. q \in Seq({steps[i] : i \in DOMAIN steps}) /\ Len(q) = Len(steps) - k
      /\ \A i \in 1 .. Len(steps) - k : q[i] = steps[i + k]
  BY <1>1, <1>2, <1>3, <1>4 DEF After
<1>6. Head(q) = steps[k + 1]
  BY <1>1, <1>3, <1>5
<1>7. Tail(q) = After(steps, k + 1)
  <2> DEFINE n == Len(steps) - k - 1
  <2>1. n \in Nat /\ n = Len(steps) - (k + 1) /\ Len(q) = n + 1 /\ q # <<>>
    BY <1>1, <1>2, <1>3, <1>5
  <2>2. PICK t : t = Tail(q)
    OBVIOUS
  <2>3. /\ t \in Seq({steps[i] : i \in DOMAIN steps}) /\ Len(t) = n
        /\ \A i \in 1 .. n : t[i] = q[i + 1]
    BY <1>5, <2>1, <2>2
  <2>4. \A i \in 1 .. n : q[i + 1] = steps[i + (k + 1)]
    <3>1. ASSUME NEW i \in 1 .. n PROVE q[i + 1] = steps[i + (k + 1)]
      <4>1. i + 1 \in 1 .. Len(steps) - k /\ (i + 1) + k = i + (k + 1)
        BY <1>1, <2>1
      <4> QED BY <4>1, <1>5
    <3> QED BY <3>1
  <2>5. t = [i \in 1 .. n |-> t[i]]
    BY <2>1, <2>3
  <2>6. t = [i \in 1 .. n |-> steps[i + (k + 1)]]
    BY <2>3, <2>4, <2>5
  <2> QED BY <2>1, <2>2, <2>6 DEF After
<1> QED BY <1>1, <1>2, <1>3, <1>6, <1>7

\* What is to be registered was put before.
LEMMA StepsForm ==
    ASSUME NEW j
    PROVE  /\ Sequence(StepsOf(j))
           /\ \A i \in 1 .. Len(StepsOf(j)) :
                 \/ StepsOf(j)[i][1] = "put"
                 \/ /\ StepsOf(j)[i][1] = "register"
                    /\ \E h \in 1 .. i - 1 : StepsOf(j)[h] = <<"put", StepsOf(j)[i][2]>>
<1>1. CASE j.op = "encode"
  <2>1. PICK a, b, m : a = j.with.bytes /\ b = j.bytes /\ m = A!Manifest(j.bytes)
    OBVIOUS
  <2>2. PICK q : q = << <<"put", a>>, <<"put", b>>, <<"register", b>>, <<"put", m>>,
                        <<"register", a>>, <<"register", m>> >>
    OBVIOUS
  <2>3. StepsOf(j) = q
    BY <1>1, <2>1, <2>2 DEF StepsOf, A!EncodeSteps
  <2>4. Sequence(q) /\ Len(q) = 6
    BY <2>2 DEF Sequence
  <2>5. /\ q[1] = <<"put", a>> /\ q[2] = <<"put", b>> /\ q[3] = <<"register", b>>
        /\ q[4] = <<"put", m>> /\ q[5] = <<"register", a>> /\ q[6] = <<"register", m>>
    BY <2>2
  <2>6. \A i \in 1 .. 6 :
           \/ q[i][1] = "put"
           \/ q[i][1] = "register" /\ \E h \in 1 .. i - 1 : q[h] = <<"put", q[i][2]>>
    BY <2>5
  <2> QED BY <2>3, <2>4, <2>6
<1>2. CASE j.op # "encode"
  <2>1. PICK q : q = << <<"put", j.bytes>>, <<"register", j.bytes>> >>
    OBVIOUS
  <2>2. StepsOf(j) = q /\ Sequence(q) /\ Len(q) = 2
    BY <1>2, <2>1 DEF StepsOf, Sequence
  <2>3. q[1] = <<"put", j.bytes>> /\ q[2] = <<"register", j.bytes>>
    BY <2>1
  <2> QED BY <2>2, <2>3
<1> QED BY <1>1, <1>2

\* A job that begins has all of its steps left.
LEMMA BegunOK ==
    ASSUME NEW op \in {"encode", "intervene", "decode"}, NEW on, NEW with, NEW bytes, NEW left,
           NEW j, j = [op |-> op, left |-> left, on |-> on, with |-> with, bytes |-> bytes],
           left = StepsOf(j),
           op = "encode" =>
              /\ with \in Captures /\ bytes \in Arrays
              /\ \E artifact, aperture \in records :
                    on = <<artifact.id, aperture.id>> /\ Within(artifact, aperture, with),
           op = "intervene" =>
              \E k \in records : k.id = on /\ k.id[1] = "candidate" /\ k.data.addressable,
           op = "decode" => \E i \in records : i.id = on /\ i.id[1] = "instance"
    PROVE  JobOK(j)
<1>1. j.op = op /\ j.left = left /\ j.on = on /\ j.with = with /\ j.bytes = bytes
  OBVIOUS
<1>2. j \in [op : {"none", "encode", "intervene", "decode"}, left : {j.left}, on : {j.on},
             with : {j.with}, bytes : {j.bytes}]
  OBVIOUS
<1>3. Sequence(StepsOf(j)) /\ Len(StepsOf(j)) \in Nat
  BY StepsForm, LengthNat
<1>4. 0 \in 0 .. Len(StepsOf(j)) /\ j.left = After(StepsOf(j), 0)
      /\ \A i \in 1 .. 0 : Performed(StepsOf(j)[i])
  BY <1>1, <1>3, NothingBehind
<1> QED BY <1>1, <1>2, <1>4 DEF JobOK

\* A client begins: the workspace is as it was.
LEMMA Begun ==
    ASSUME IInv, NEW c \in Clients, NEW j, JobOK(j), jobs' = [jobs EXCEPT ![c] = j],
           UNCHANGED <<workspace, calls, seals, bundles>>
    PROVE  IInv'
<1>1. LogInv' /\ WorkspaceGrows /\ NoneCaptured
  BY ObjectsGrow DEF IInv, LogInv, workspace
<1>2. JobsInv'
  BY <1>1, JobKept, JobChanged DEF IInv
<1> QED BY <1>1, <1>2, ClientStep, CapturesKept DEF IInv

\* encode() has checked the aperture and the capture before a byte is kept.
LEMMA BeginEncodeOK ==
    ASSUME IInv, NEW c \in Clients, NEW artifact \in A!Artifacts, NEW aperture \in A!Of("aperture"),
           NEW capture \in Captures, A!BeginEncode(c, artifact, aperture, capture),
           UNCHANGED <<calls, seals, bundles>>
    PROVE  IInv'
<1>1. artifact \in records /\ artifact.bytes # NoBytes
      /\ aperture \in records /\ aperture.id[1] = "aperture"
  BY DEF A!Artifacts, A!Of
<1>2. CASE A!ApertureAdmits(aperture, artifact) /\ A!Valid(capture, artifact)
  <2>1. PICK array \in Arrays :
           jobs' = [jobs EXCEPT ![c] =
              [op |-> "encode", left |-> A!EncodeSteps(capture, array),
               on |-> <<artifact.id, aperture.id>>, with |-> capture, bytes |-> array]]
    BY <1>2 DEF A!BeginEncode
  <2>2. PICK j, left, on :
           /\ left = A!EncodeSteps(capture, array) /\ on = <<artifact.id, aperture.id>>
           /\ j = [op |-> "encode", left |-> left, on |-> on, with |-> capture, bytes |-> array]
    OBVIOUS
  <2>3. left = StepsOf(j)
    BY <2>2 DEF StepsOf
  <2>4. aperture.data.of[1] \in {"original", "derivative"}
    BY <1>1 DEF IInv, LogInv, ApertureOK
  <2>5. Within(artifact, aperture, capture)
    BY <1>1, <1>2, <2>4 DEF Within, A!ApertureAdmits, A!Valid
  <2>6. JobOK(j)
    BY <1>1, <2>2, <2>3, <2>5, BegunOK
  <2> QED BY <1>2, <2>1, <2>2, <2>6, Begun DEF A!BeginEncode, A!workspace, workspace
<1>3. CASE ~(A!ApertureAdmits(aperture, artifact) /\ A!Valid(capture, artifact))
  BY <1>1, <1>3, AnswerOnlyOK DEF A!BeginEncode
<1> QED BY <1>2, <1>3

\* intervene() has looked at the candidate.
LEMMA BeginInterveneOK ==
    ASSUME IInv, NEW c \in Clients, NEW candidate \in A!Of("candidate"),
           A!BeginIntervene(c, candidate), UNCHANGED <<calls, seals, bundles>>
    PROVE  IInv'
<1>1. candidate \in records /\ candidate.id[1] = "candidate"
  BY DEF A!Of
<1>2. CASE A!Addressable(candidate)
  <2>1. PICK j, left, on, bytes :
           /\ bytes = <<"intervention", candidate.id>> /\ on = candidate.id
           /\ left = << <<"put", bytes>>, <<"register", bytes>> >>
           /\ j = [op |-> "intervene", left |-> left, on |-> on, with |-> NoBytes, bytes |-> bytes]
    OBVIOUS
  <2>2. jobs' = [jobs EXCEPT ![c] = j] /\ UNCHANGED workspace
    BY <1>2, <2>1 DEF A!BeginIntervene, A!Derive, A!workspace, workspace
  <2>3. left = StepsOf(j)
    BY <2>1 DEF StepsOf
  <2>4. JobOK(j)
    BY <1>1, <1>2, <2>1, <2>3, BegunOK DEF A!Addressable
  <2> QED BY <2>2, <2>4, Begun
<1>3. CASE ~A!Addressable(candidate)
  BY <1>1, <1>3, AnswerOnlyOK DEF A!BeginIntervene
<1> QED BY <1>2, <1>3

\* decode() has found the bytes of the capture.
LEMMA BeginDecodeOK ==
    ASSUME IInv, NEW c \in Clients, NEW instance \in A!Of("instance"),
           A!BeginDecode(c, instance), UNCHANGED <<calls, seals, bundles>>
    PROVE  IInv'
<1>1. instance \in records /\ instance.id[1] = "instance"
  BY DEF A!Of
<1>2. CASE A!CaptureOf(instance).bytes \in objects
  <2>1. PICK j, left, on, bytes :
           /\ bytes = <<"waveform", A!CaptureOf(instance).bytes>> /\ on = instance.id
           /\ left = << <<"put", bytes>>, <<"register", bytes>> >>
           /\ j = [op |-> "decode", left |-> left, on |-> on, with |-> NoBytes, bytes |-> bytes]
    OBVIOUS
  <2>2. jobs' = [jobs EXCEPT ![c] = j] /\ UNCHANGED workspace
    BY <1>2, <2>1 DEF A!BeginDecode, A!Derive, A!workspace, workspace
  <2>3. left = StepsOf(j)
    BY <2>1 DEF StepsOf
  <2>4. JobOK(j)
    BY <1>1, <2>1, <2>3, BegunOK
  <2> QED BY <2>2, <2>4, Begun
<1>3. CASE ~(A!CaptureOf(instance).bytes \in objects)
  BY <1>1, <1>3, AnswerOnlyOK DEF A!BeginDecode
<1> QED BY <1>2, <1>3

\* What a step does is done when the next begins.
LEMMA StepOK ==
    ASSUME IInv, NEW c \in Clients, A!Step(c), UNCHANGED <<calls, seals, bundles>>
    PROVE  IInv'
<1>1. PICK j : j = jobs[c]
  OBVIOUS
<1>2. PICK d : d = [j EXCEPT !.left = Tail(@)]
  OBVIOUS
<1>3. JobOK(j) /\ j.left # <<>>
  BY <1>1 DEF IInv, JobsInv, A!Step
<1>4. PICK steps : steps = StepsOf(j)
  OBVIOUS
<1>5. Sequence(steps) /\ Len(steps) \in Nat
  BY <1>4, StepsForm, LengthNat
<1>6. PICK k \in 0 .. Len(steps) :
         j.left = After(steps, k) /\ \A i \in 1 .. k : Performed(steps[i])
  BY <1>3, <1>4 DEF JobOK
<1>7. /\ k + 1 \in 1 .. Len(steps) /\ Head(j.left) = steps[k + 1]
      /\ Tail(j.left) = After(steps, k + 1)
  BY <1>3, <1>5, <1>6, OneBehind
<1>8. PICK what : what = steps[k + 1][2]
  OBVIOUS
<1>9. \/ steps[k + 1][1] = "put"
      \/ steps[k + 1][1] = "register" /\ \E h \in 1 .. k : steps[h] = <<"put", what>>
  <2>1. (k + 1) - 1 = k
    BY <1>5
  <2> QED BY <1>4, <1>7, <1>8, <2>1, StepsForm
<1>10. steps[k + 1][1] = "register" => what \in objects
  <2>1. \A h : steps[h] = <<"put", what>> /\ Performed(steps[h]) => what \in objects
    BY DEF Performed
  <2> QED BY <1>6, <1>9, <2>1
<1>11. /\ UNCHANGED <<records, events>> /\ jobs' = [jobs EXCEPT ![c] = d]
       /\ \/ /\ steps[k + 1][1] = "put" /\ objects' = objects \cup {what}
             /\ UNCHANGED registered
          \/ /\ steps[k + 1][1] = "register" /\ registered' = registered \cup {what}
             /\ UNCHANGED objects
  BY <1>1, <1>2, <1>7, <1>8, <1>10 DEF A!Step
<1>12. /\ registered \subseteq registered' /\ objects \subseteq objects'
       /\ registered' \subseteq objects' /\ Performed(steps[k + 1])'
  <2>1. registered \subseteq objects
    BY DEF IInv, LogInv
  <2> QED BY <1>8, <1>10, <1>11, <2>1 DEF Performed
<1>13. LogInv' /\ WorkspaceGrows /\ NoneCaptured
  BY <1>11, <1>12, ObjectsGrow DEF IInv
<1>14. JobOK(d)'
  <2>1. JobOK(j)'
    BY <1>3, <1>13, JobKept
  <2>2. /\ d.left = After(steps, k + 1) /\ d.op = j.op /\ d.on = j.on
        /\ d.with = j.with /\ d.bytes = j.bytes /\ j.op # "none"
        /\ d \in [op : {"none", "encode", "intervene", "decode"}, left : {d.left},
                  on : {d.on}, with : {d.with}, bytes : {d.bytes}]
    BY <1>2, <1>3, <1>7 DEF JobOK
  <2>3. StepsOf(d) = steps /\ StepsOf(d)' = steps
    BY <1>4, <2>2, StepsConstant DEF StepsOf
  <2>4. \A i \in 1 .. k + 1 : Performed(steps[i])'
    <3>1. ASSUME NEW i \in 1 .. k + 1 PROVE Performed(steps[i])'
      <4>1. i \in 1 .. k \/ i = k + 1
        BY <1>5
      <4>2. CASE i \in 1 .. k
        <5>1. Performed(steps[i])
          BY <1>6, <4>2
        <5> QED BY <1>12, <5>1 DEF Performed
      <4> QED BY <1>12, <4>1, <4>2
    <3> QED BY <3>1
  <2>5. (d.op # "none" => \E n \in 0 .. Len(StepsOf(d)) :
                            /\ d.left = After(StepsOf(d), n)
                            /\ \A i \in 1 .. n : Performed(StepsOf(d)[i]))'
    <3>1. k + 1 \in 0 .. Len(steps)
      BY <1>5, <1>7
    <3> QED BY <2>2, <2>3, <2>4, <3>1 DEF After
  <2> QED BY <2>1, <2>2, <2>5 DEF JobOK
<1>15. JobsInv'
  BY <1>11, <1>13, <1>14, JobChanged DEF IInv
<1> QED BY <1>13, <1>15, ClientStep, CapturesKept DEF IInv

\* A client that is stopped leaves what it has kept.
LEMMA StopClientOK ==
    ASSUME IInv, NEW c \in Clients, A!StopClient(c), UNCHANGED <<calls, seals, bundles>>
    PROVE  IInv'
<1>1. PICK j : j = A!Idle
  OBVIOUS
<1>2. JobOK(j)
  BY <1>1, IdleJob
<1> QED BY <1>1, <1>2, Begun DEF A!StopClient, A!workspace, workspace

\* A client whose steps are all behind it.
LEMMA ReadyOK ==
    ASSUME IInv, NEW c \in Clients, NEW op \in {"encode", "intervene", "decode"}, A!Ready(c, op)
    PROVE  /\ JobOK(jobs[c]) /\ jobs[c].op = op
           /\ \A i \in 1 .. Len(StepsOf(jobs[c])) : Performed(StepsOf(jobs[c])[i])
<1>1. PICK j : j = jobs[c]
  OBVIOUS
<1>2. JobOK(j) /\ j.op = op /\ j.left = <<>>
  BY <1>1 DEF IInv, JobsInv, A!Ready
<1>3. PICK steps : steps = StepsOf(j) /\ Sequence(steps) /\ Len(steps) \in Nat
  BY StepsForm, LengthNat
<1>4. PICK k \in 0 .. Len(steps) :
         j.left = After(steps, k) /\ \A i \in 1 .. k : Performed(steps[i])
  BY <1>2, <1>3 DEF JobOK
<1>5. k = Len(steps)
  <2>1. DOMAIN After(steps, k) = 1 .. Len(steps) - k /\ DOMAIN j.left = {}
    BY <1>2 DEF After
  <2>2. \A m \in Nat : \A i \in 0 .. m : 1 .. m - i = {} => i = m
    OBVIOUS
  <2> QED BY <1>3, <1>4, <2>1, <2>2
<1> QED BY <1>1, <1>2, <1>3, <1>4, <1>5

\* A client ends with its transaction.
LEMMA Ended ==
    ASSUME IInv, NEW c \in Clients, NEW docs, NEW subject, BatchOK(docs, subject, Len(events) + 1),
           I!Store(docs, subject), CapturesOf(docs)', A!Finished(c),
           UNCHANGED <<calls, seals, bundles>>
    PROVE  IInv'
<1>1. LogInv' /\ WorkspaceGrows /\ CapturesInv'
  BY ClientStores DEF A!Finished
<1>2. PICK j : j = A!Idle
  OBVIOUS
<1>3. JobsInv'
  BY <1>1, <1>2, IdleJob, JobChanged DEF A!Finished, IInv
<1> QED BY <1>1, <1>3, ClientStep

\* A derived record and its receipt are about what was asked for.
LEMMA CommitDerivedOK ==
    ASSUME IInv, NEW c \in Clients, NEW op \in {"intervene", "decode"}, A!CommitDerived(c, op),
           UNCHANGED <<calls, seals, bundles>>
    PROVE  IInv'
<1>1. PICK j, n, d, r : /\ j = jobs[c] /\ n = Len(events) + 1
                        /\ d = A!I!Record(op, {j.on}, j.bytes, NoBytes)
                        /\ r = A!I!Plain("receipt", {j.on, A!I!Id(op)})
  OBVIOUS
<1>2. /\ d.id = <<op, n>> /\ d.refs = {j.on} /\ d.bytes = j.bytes
      /\ r.id = <<"receipt", n>> /\ r.bytes = NoBytes /\ d.id \in r.refs
  BY <1>1, SameStore DEF A!I!Plain
<1>3. I!Store({d, r}, j.on) /\ A!Finished(c)
  BY <1>1, SameStore DEF A!CommitDerived
<1>4. /\ JobOK(j) /\ j.op = op
      /\ \A i \in 1 .. Len(StepsOf(j)) : Performed(StepsOf(j)[i])
  BY <1>1, ReadyOK DEF A!CommitDerived
<1>5. j.bytes \in registered
  <2>1. PICK q : q = << <<"put", j.bytes>>, <<"register", j.bytes>> >>
    OBVIOUS
  <2>2. StepsOf(j) = q /\ Len(q) = 2 /\ q[2] = <<"register", j.bytes>>
    BY <1>4, <2>1 DEF StepsOf
  <2>3. Performed(q[2])
    BY <1>4, <2>2
  <2> QED BY <2>2, <2>3 DEF Performed
<1>6. PICK on \in records : on.id = j.on /\ on.id[1] \in {"candidate", "instance"}
  BY <1>4 DEF JobOK
<1>7. BatchOK({d, r}, j.on, n)
  <2>1. DocOK(d, {d, r}, j.on, n)
    <3>1. I!AcquisitionsOf(d) = {}
      BY <1>2, <1>6 DEF I!AcquisitionsOf
    <3> QED BY <1>2, <1>5, <3>1 DEF DocOK
  <2>2. DocOK(r, {d, r}, j.on, n)
    BY <1>2 DEF DocOK
  <2>3. j.on \in I!IdsOf(records)
    BY <1>6 DEF I!IdsOf
  <2> QED BY <1>2, <2>1, <2>2, <2>3 DEF BatchOK, I!IdsOf
<1>8. CapturesOf({d, r})'
  <2>1. CaptureOK(r)'
    BY <1>2 DEF CaptureOK, DenseOK, InstanceOK, CandidateOK, InterveneOK
  <2>2. InterveneOK(d)'
    <3>1. records \subseteq records'
      BY <1>3 DEF I!Store
    <3> QED BY <1>2, <1>4, <3>1 DEF JobOK, InterveneOK
  <2>3. CaptureOK(d)'
    BY <1>2, <2>2 DEF CaptureOK, DenseOK, InstanceOK, CandidateOK
  <2> QED BY <2>1, <2>3 DEF CapturesOf
<1> QED BY <1>1, <1>3, <1>7, <1>8, Ended

\* enumerate() stores the whole catalogue in one transaction.
LEMMA EnumerateOK ==
    ASSUME IInv, NEW instance \in A!Of("instance"), NEW maximum, A!Enumerate(instance, maximum),
           UNCHANGED <<calls, seals, bundles>>
    PROVE  IInv'
<1>1. instance \in records /\ instance.id[1] = "instance"
  BY DEF A!Of
<1>2. PICK n, listed : n = Len(events) + 1 /\ listed = A!Listed(instance.data.catalogue, maximum)
  OBVIOUS
<1> DEFINE candidate(k) ==
             [A!I!Record("candidate", {instance.id}, NoBytes,
                         [n |-> k, addressable |-> instance.data.catalogue[k]])
                EXCEPT !.id = <<"candidate", A!I!Now, k>>]
<1>3. CASE listed = {}
  BY <1>1, <1>2, <1>3, AnswerOnlyOK DEF A!Enumerate
<1>4. CASE listed # {}
  <2>1. listed = DOMAIN instance.data.catalogue
    BY <1>2, <1>4 DEF A!Listed
  <2>2. PICK found, r : /\ found = {candidate(k) : k \in listed}
                        /\ r = A!I!Plain("receipt", {instance.id} \cup A!I!IdsOf(found))
    OBVIOUS
  <2>3. I!Store(found \cup {r}, instance.id) /\ UNCHANGED <<objects, registered, jobs>>
    BY <1>2, <1>4, <2>2, SameStore DEF A!Enumerate
  <2>4. \A k : /\ candidate(k).id = <<"candidate", n, k>> /\ candidate(k).refs = {instance.id}
               /\ candidate(k).bytes = NoBytes /\ candidate(k).data.n = k
               /\ candidate(k).data.addressable = instance.data.catalogue[k]
    BY <1>2, SameStore DEF A!I!Now
  <2> HIDE DEF candidate
  <2>5. \A d \in found : \E k \in listed :
           /\ d.id = <<"candidate", n, k>> /\ d.refs = {instance.id} /\ d.bytes = NoBytes
           /\ d.data.n = k /\ d.data.addressable = instance.data.catalogue[k] /\ d = candidate(k)
    BY <2>2, <2>4
  <2>6. /\ r.id = <<"receipt", n>> /\ r.bytes = NoBytes
        /\ \A d \in found : d.id \in r.refs
    BY <1>2, <2>2, SameStore DEF A!I!Plain, A!I!IdsOf
  <2>7. BatchOK(found \cup {r}, instance.id, n)
    <3>1. ASSUME NEW d \in found PROVE DocOK(d, found \cup {r}, instance.id, n)
      <4>1. d.id[1] = "candidate" /\ d.id[2] = n /\ d.bytes = NoBytes
        BY <2>5
      <4>2. r # d /\ d.id \in r.refs
        BY <2>6, <4>1
      <4> QED BY <4>1, <4>2 DEF DocOK
    <3>2. DocOK(r, found \cup {r}, instance.id, n)
      BY <2>6 DEF DocOK
    <3>3. \A d, e \in found \cup {r} : d.id = e.id => d = e
      <4>1. ASSUME NEW d \in found, NEW e \in found, d.id = e.id PROVE d = e
        <5>1. PICK k \in listed : d.id = <<"candidate", n, k>> /\ d = candidate(k)
          BY <2>5
        <5>2. PICK m \in listed : e.id = <<"candidate", n, m>> /\ e = candidate(m)
          BY <2>5
        <5>3. d.id[3] = k /\ e.id[3] = m
          BY <5>1, <5>2
        <5> QED BY <4>1, <5>1, <5>2, <5>3
      <4>2. \A d \in found : d.id # r.id
        <5>1. \A d \in found : d.id[1] = "candidate"
          BY <2>5
        <5> QED BY <2>6, <5>1
      <4> QED BY <4>1, <4>2
    <3>4. instance.id \in I!IdsOf(records) /\ <<"receipt", n>> \in I!IdsOf(found \cup {r})
      BY <1>1, <2>6 DEF I!IdsOf
    <3> QED BY <3>1, <3>2, <3>3, <3>4 DEF BatchOK
  <2>8. /\ records' = records \cup found \cup {r} /\ events'[n].subject = instance.id
    <3>1. PICK e, id, receipt : /\ id = instance.id /\ receipt = I!Id("receipt")
                                /\ e = [subject |-> id, receipt |-> receipt]
      OBVIOUS
    <3>2. records' = records \cup found \cup {r} /\ events' = Append(events, e)
      BY <2>3, <3>1 DEF I!Store
    <3>3. events'[n] = e
      BY <1>2, <3>2, Appended DEF IInv, LogInv
    <3>4. e.subject = id
      BY <3>1
    <3> QED BY <3>1, <3>2, <3>3, <3>4
  <2>9. CapturesOf(found \cup {r})'
    <3>1. CaptureOK(r)'
      BY <2>6 DEF CaptureOK, DenseOK, InstanceOK, CandidateOK, InterveneOK
    <3>2. \A k \in listed : candidate(k) \in records'
      BY <2>2, <2>8
    <3>3. ASSUME NEW d \in found PROVE CaptureOK(d)'
      <4>1. PICK k \in listed :
               /\ d.id = <<"candidate", n, k>> /\ d.refs = {instance.id} /\ d.data.n = k
               /\ d.data.addressable = instance.data.catalogue[k]
        BY <2>5
      <4>2. \A m \in DOMAIN instance.data.catalogue :
               \E x \in records' : x.id[1] = "candidate" /\ x.id[2] = n /\ x.data.n = m
        BY <2>1, <2>4, <3>2
      <4>3. instance \in records' /\ d.id[2] = n
        BY <1>1, <2>8, <4>1
      <4>4. CandidateOK(d)'
        BY <1>1, <2>1, <2>8, <4>1, <4>2, <4>3 DEF CandidateOK
      <4> QED BY <4>1, <4>4 DEF CaptureOK, DenseOK, InstanceOK, InterveneOK
    <3> QED BY <3>1, <3>3 DEF CapturesOf
  <2>10. LogInv' /\ WorkspaceGrows /\ CapturesInv'
    BY <1>2, <2>3, <2>7, <2>9, ClientStores
  <2> QED BY <2>3, <2>10, JobsKept, ClientStep DEF IInv
<1> QED BY <1>3, <1>4

\* The transaction of encode() comes after the last registration.
LEMMA CommitEncodeOK ==
    ASSUME IInv, NEW c \in Clients, A!CommitEncode(c), UNCHANGED <<calls, seals, bundles>>
    PROVE  IInv'
<1>1. PICK j, n : j = jobs[c] /\ n = Len(events) + 1
  OBVIOUS
<1>2. /\ JobOK(j) /\ j.op = "encode"
      /\ \A i \in 1 .. Len(StepsOf(j)) : Performed(StepsOf(j)[i])
  BY <1>1, ReadyOK DEF A!CommitEncode
<1>3. PICK artifact, aperture \in records :
         j.on = <<artifact.id, aperture.id>> /\ Within(artifact, aperture, j.with)
  BY <1>2 DEF JobOK
<1>4. j.on[1] = artifact.id /\ j.on[2] = aperture.id /\ j.with \in Captures /\ j.bytes \in Arrays
  BY <1>2, <1>3 DEF JobOK
<1>5. {j.with.bytes, j.bytes, A!Manifest(j.bytes)} \subseteq registered
  <2>1. PICK a, b, m : a = j.with.bytes /\ b = j.bytes /\ m = A!Manifest(j.bytes)
    OBVIOUS
  <2>2. PICK q : q = << <<"put", a>>, <<"put", b>>, <<"register", b>>, <<"put", m>>,
                        <<"register", a>>, <<"register", m>> >>
    OBVIOUS
  <2>3. StepsOf(j) = q /\ Len(q) = 6
    BY <1>2, <2>1, <2>2 DEF StepsOf, A!EncodeSteps
  <2>4. q[3] = <<"register", b>> /\ q[5] = <<"register", a>> /\ q[6] = <<"register", m>>
    BY <2>2
  <2>5. Performed(q[3]) /\ Performed(q[5]) /\ Performed(q[6])
    BY <1>2, <2>3
  <2> QED BY <2>1, <2>4, <2>5 DEF Performed
<1>6. PICK cap, den, spec, map, itv, fam, bnd, ins, rec :
         /\ cap = A!I!Record("capture", {j.on[1]}, j.with.bytes, NoBytes)
         /\ den = A!I!Record("dense", {A!I!Id("capture")}, A!Manifest(j.bytes), NoBytes)
         /\ spec = A!I!Plain("spec", {}) /\ map = A!I!Plain("mapping", {A!I!Id("spec")})
         /\ itv = A!I!Plain("intervention", {})
         /\ fam = A!I!Plain("family", {A!I!Id("spec"), A!I!Id("mapping"), A!I!Id("instance")})
         /\ bnd = A!I!Plain("boundary", {A!I!Id("instance"), A!I!Id("capture")})
         /\ ins = A!Instance(j) /\ rec = A!EncodeReceipt(j)
  OBVIOUS
<1>7. /\ cap.id = <<"capture", n>> /\ cap.refs = {artifact.id} /\ cap.bytes = j.with.bytes
      /\ den.id = <<"dense", n>> /\ den.refs = {cap.id} /\ den.bytes = A!Manifest(j.bytes)
  BY <1>1, <1>4, <1>6, SameStore
<1>8. /\ spec.id = <<"spec", n>> /\ spec.bytes = NoBytes
      /\ map.id = <<"mapping", n>> /\ map.bytes = NoBytes /\ map.refs = {spec.id}
      /\ itv.id = <<"intervention", n>> /\ itv.bytes = NoBytes
  BY <1>1, <1>6, SameStore DEF A!I!Plain
<1>9. /\ fam.id = <<"family", n>> /\ fam.bytes = NoBytes /\ map.id \in fam.refs
      /\ bnd.id = <<"boundary", n>> /\ bnd.bytes = NoBytes /\ cap.id \in bnd.refs
  BY <1>1, <1>6, <1>7, <1>8, SameStore DEF A!I!Plain
<1>10. /\ ins.id = <<"instance", n>> /\ ins.bytes = NoBytes
       /\ ins.data.of = <<artifact.id, aperture.id>>
  BY <1>1, <1>3, <1>6, SameStore DEF A!Instance
<1>11. ins.refs = {artifact.id, aperture.id, <<"spec", n>>, <<"receipt", n>>, <<"dense", n>>,
                   <<"capture", n>>, <<"family", n>>, <<"intervention", n>>}
  BY <1>1, <1>4, <1>6, SameStore DEF A!Instance
<1>12. /\ rec.id = <<"receipt", n>> /\ rec.bytes = NoBytes
       /\ bnd.id \in rec.refs
  BY <1>1, <1>6, <1>9, SameStore DEF A!EncodeReceipt, A!I!Plain
<1> DEFINE docs == {cap, den, spec, map, itv, fam, bnd, ins, rec}
<1>13. I!Store(docs, <<"instance", n>>) /\ A!Finished(c)
  <2>1. A!CaptureRecords(j) = {cap, den}
    BY <1>6 DEF A!CaptureRecords
  <2>2. A!Descriptions = {spec, map, itv}
    BY <1>6 DEF A!Descriptions
  <2>3. A!Boundaries = {fam, bnd}
    BY <1>6 DEF A!Boundaries
  <2>4. A!CaptureRecords(j) \cup A!Descriptions \cup A!Boundaries
           \cup {A!Instance(j), A!EncodeReceipt(j)} = docs
    BY <1>6, <2>1, <2>2, <2>3
  <2>5. A!I!Id("instance") = <<"instance", n>>
    BY <1>1, SameStore
  <2> HIDE DEF docs
  <2> QED BY <1>1, <2>4, <2>5, SameStore DEF A!CommitEncode
<1>14. \A d \in docs : d.id[2] = n /\ d.id[1] \notin {"authority", "acquisition", "aperture"}
  BY <1>7, <1>8, <1>9, <1>10, <1>12
<1>15. \A d, e \in docs : d.id = e.id => d = e
  <2>1. ASSUME NEW d \in docs, NEW e \in docs, d.id = e.id PROVE d = e
    <3>1. d.id[1] = e.id[1]
      BY <2>1
    <3>2. /\ cap.id[1] = "capture" /\ den.id[1] = "dense" /\ spec.id[1] = "spec"
          /\ map.id[1] = "mapping" /\ itv.id[1] = "intervention" /\ fam.id[1] = "family"
          /\ bnd.id[1] = "boundary" /\ ins.id[1] = "instance" /\ rec.id[1] = "receipt"
      BY <1>7, <1>8, <1>9, <1>10, <1>12
    <3> QED BY <3>1, <3>2
  <2> QED BY <2>1
<1>16. \A d \in docs : d.bytes # NoBytes =>
          d.bytes \in registered /\ I!AcquisitionsOf(d) = {}
  <2>1. artifact.id[1] \in {"original", "derivative"}
    BY <1>3 DEF Within
  <2>2. I!AcquisitionsOf(cap) = {} /\ I!AcquisitionsOf(den) = {}
    BY <1>7, <2>1 DEF I!AcquisitionsOf
  <2> QED BY <1>5, <1>7, <1>8, <1>9, <1>10, <1>12, <2>2
<1>17. ASSUME NEW d \in docs
       PROVE  \/ d.id = <<"instance", n>> \/ d.id = <<"receipt", n>>
              \/ \E e \in docs : e # d /\ d.id \in e.refs
  <2>1. CASE d \in {ins, rec}
    BY <2>1, <1>10, <1>12
  <2>2. CASE d \in {cap, den, itv, fam, spec}
    <3>1. ins # d /\ d.id \in ins.refs
      BY <2>2, <1>7, <1>8, <1>9, <1>10, <1>11
    <3> QED BY <3>1
  <2>3. CASE d = map
    <3>1. fam # d /\ d.id \in fam.refs
      BY <2>3, <1>8, <1>9
    <3> QED BY <3>1
  <2>4. CASE d = bnd
    <3>1. rec # d /\ d.id \in rec.refs
      BY <2>4, <1>9, <1>12
    <3> QED BY <3>1
  <2> QED BY <2>1, <2>2, <2>3, <2>4
<1>18. {<<"instance", n>>, <<"receipt", n>>} \subseteq I!IdsOf(docs)
  BY <1>10, <1>12 DEF I!IdsOf
<1>19. CapturesOf(docs)'
  <2>1. DenseOK(den)'
    <3>1. UNCHANGED registered
      BY <1>13 DEF A!Finished
    <3> QED BY <1>4, <1>5, <1>7, <3>1 DEF DenseOK, A!Manifest
  <2>2. InstanceOK(ins)'
    <3>1. artifact \in records' /\ aperture \in records' /\ cap \in records'
      BY <1>3, <1>13 DEF I!Store
    <3>2. Within(artifact, aperture, j.with)'
      BY <1>3 DEF Within, A!ApertureAdmits
    <3>3. \A x \in ins.refs : x[1] = "capture" => x = cap.id
      <4>1. artifact.id[1] # "capture" /\ aperture.id[1] # "capture"
        BY <1>3 DEF Within
      <4> QED BY <1>7, <1>11, <4>1
    <3>4. cap.id = <<"capture", ins.id[2]>> /\ cap.id \in ins.refs
      BY <1>7, <1>10, <1>11
    <3> QED BY <1>4, <1>7, <1>10, <3>1, <3>2, <3>3, <3>4 DEF InstanceOK
  <2>3. CaptureOK(den)' /\ CaptureOK(ins)'
    BY <1>7, <1>10, <2>1, <2>2 DEF CaptureOK, DenseOK, InstanceOK, CandidateOK, InterveneOK
  <2>4. \A d \in docs : d \in {den, ins} \/ d.id[1] \notin CapturedRoles
    BY <1>7, <1>8, <1>9, <1>12 DEF CapturedRoles
  <2>5. \A d : d.id[1] \notin CapturedRoles => CaptureOK(d)'
    BY DEF CaptureOK, DenseOK, InstanceOK, CandidateOK, InterveneOK, CapturedRoles
  <2> HIDE DEF docs
  <2> QED BY <2>3, <2>4, <2>5 DEF CapturesOf
<1> HIDE DEF docs
<1>20. BatchOK(docs, <<"instance", n>>, n)
  <2>1. \A d \in docs : DocOK(d, docs, <<"instance", n>>, n)
    BY <1>14, <1>16, <1>17 DEF DocOK
  <2> QED BY <1>15, <1>18, <2>1 DEF BatchOK
<1> QED BY <1>1, <1>13, <1>19, <1>20, Ended

\* Every operation of Adapter keeps the invariant.
LEMMA AdapterOK ==
    ASSUME IInv, A!Next, UNCHANGED <<calls, seals, bundles>>
    PROVE  IInv'
<1>1. ASSUME NEW c \in Clients, A!Use(c) PROVE IInv'
  BY <1>1, BeginEncodeOK, BeginInterveneOK, BeginDecodeOK, StepOK, CommitEncodeOK,
     CommitDerivedOK, StopClientOK DEF A!Use
<1>2. ASSUME NEW instance \in A!Of("instance"), NEW maximum \in Maxima,
             A!Enumerate(instance, maximum)
      PROVE  IInv'
  BY <1>2, EnumerateOK
<1>3. ASSUME NEW request \in records, A!AnswerOnly(request) PROVE IInv'
  BY <1>3, AnswerOnlyOK
<1>4. A!I!Apparatus \subseteq records /\ A!Of("candidate") \subseteq records
      /\ A!Of("instance") \subseteq records
  BY DEF A!I!Apparatus, A!Of
<1> QED BY <1>1, <1>2, <1>3, <1>4 DEF A!Next, A!Probe, A!Inspect, A!Decline

-----------------------------------------------------------------------------
(* Theorems *)

\* An empty workspace with idle calls and jobs satisfies it.
LEMMA InitHolds == Init => IInv
<1> SUFFICES ASSUME Init PROVE IInv
  OBVIOUS
<1>1. LogInv
  BY EmptySequence DEF Init, I!Init, LogInv
<1>2. CallsInv
  BY IdleOK DEF Init, I!Init, CallsInv
<1>3. SealsInv
  <2>1. PICK q, read : read = B!Empty /\ q = [step |-> "idle", name |-> NoBytes, read |-> read]
    OBVIOUS
  <2>2. read \in [records : {read.records}, events : {read.events},
                  edges : {read.edges}, artifacts : {read.artifacts}]
    BY <2>1 DEF B!Empty
  <2>3. SealOK(q)
    BY <2>1, <2>2, <1>1, EmptySeal
  <2>4. seals = [s \in Sealers |-> q]
    BY <2>1 DEF Init, B!Init, B!Idle
  <2> QED BY <2>3, <2>4 DEF SealsInv
<1>4. BundlesInv
  BY DEF Init, B!Init, BundlesInv
<1>5. JobsInv
  <2>1. PICK j : j = A!Idle
    OBVIOUS
  <2>2. JobOK(j)
    BY <2>1 DEF JobOK, A!Idle
  <2> QED BY <2>1, <2>2 DEF Init, A!Init, JobsInv
<1>6. CapturesInv
  BY DEF Init, I!Init, CapturesInv
<1> QED BY <1>1, <1>2, <1>3, <1>4, <1>5, <1>6 DEF IInv

\* Every step of importers, clients, sealers and governance keeps the invariant.
THEOREM ArchiveStep == IInv /\ [Next]_vars => IInv'
<1> SUFFICES ASSUME IInv, [Next]_vars PROVE IInv'
  OBVIOUS
<1>1. CASE I!Next /\ UNCHANGED <<seals, bundles, jobs>>
  BY <1>1, IngressOK
<1>2. CASE B!Next /\ UNCHANGED <<workspace, calls, jobs>>
  BY <1>2, BundleStepOK
<1>3. CASE A!Next /\ UNCHANGED <<calls, seals, bundles>>
  BY <1>3, AdapterOK
<1>4. ASSUME NEW subject \in records, NEW receipt \in records,
             PropagateEvent(subject, receipt), UNCHANGED <<calls, seals, bundles, jobs>>
      PROVE  IInv'
  BY <1>4, PropagateEventOK
<1>5. CASE UNCHANGED vars
  <2>1. UNCHANGED <<workspace, calls, jobs>> /\ UNCHANGED <<seals, bundles, jobs>>
    BY <1>5 DEF vars
  <2> QED BY <2>1, ReadOnly, OthersKept DEF IInv, OthersInv
<1> QED BY <1>1, <1>2, <1>3, <1>4, <1>5 DEF Next

\* The metadata is closed, names are unique, and what is registered is kept.
THEOREM ArchiveTypes == Spec => []TypeOK
<1>1. IInv => TypeOK
  <2> SUFFICES ASSUME IInv PROVE TypeOK
    OBVIOUS
  <2>1. \A p \in Importers : calls[p].input \in Inputs \cup {NoBytes}
    BY DEF IInv, CallsInv, CallOK, I!Idle
  <2>2. {B!StepAfter[x] : x \in DOMAIN B!StepAfter} = Steps \ {"idle"}
    BY DEF B!StepAfter, Steps
  <2>3. \A s \in Sealers : seals[s].step \in Steps
    BY DEF IInv, SealsInv, SealOK
  <2>4. /\ \A r \in records : r.id[2] \in DOMAIN events /\ r.refs \subseteq I!IdsOf(records)
        /\ \A r, s \in records : r.id = s.id => r = s
        /\ \A n \in DOMAIN events :
              {events[n].subject, events[n].receipt} \subseteq I!IdsOf(records)
        /\ registered \subseteq objects
    BY DEF IInv, LogInv, RecordOK
  <2>5. DOMAIN bundles \subseteq Names
    BY DEF IInv, BundlesInv
  <2>6. \A c \in Clients : jobs[c].op \in {"none", "encode", "intervene", "decode"}
    BY DEF IInv, JobsInv, JobOK
  <2> QED BY <2>1, <2>2, <2>3, <2>4, <2>5, <2>6 DEF TypeOK
<1> QED BY <1>1, InitHolds, ArchiveStep, PTL DEF Spec

\* However calls are stopped, refused or late: an acquisition that is stored has its source, its
\* receipt and its bytes.
THEOREM IngestWhole == Spec => []AcquisitionsBacked
<1>1. IInv => AcquisitionsBacked
  BY DEF IInv, LogInv, RecordOK, AcquisitionOK, AcquisitionsBacked, I!AcquisitionsBacked
<1> QED BY <1>1, InitHolds, ArchiveStep, PTL DEF Spec

\* An aperture is never wider than what was taken in.
THEOREM AperturesNarrow == Spec => []AperturesWithin
<1>1. IInv => AperturesWithin
  BY DEF IInv, LogInv, ApertureOK, AperturesWithin, I!AperturesWithin
<1> QED BY <1>1, InitHolds, ArchiveStep, PTL DEF Spec

\* A bundle that was read in pieces while others wrote is the workspace of one moment.
THEOREM BundlesAreMoments == Spec => []Snapshot
<1>1. IInv => Snapshot
  <2> SUFFICES ASSUME IInv, NEW n \in DOMAIN bundles
               PROVE  \E k \in 0 .. Len(events) :
                         /\ bundles[n].records = B!At(k).records
                         /\ bundles[n].events = B!At(k).events
                         /\ bundles[n].edges = B!At(k).edges
    BY DEF Snapshot, B!Snapshot
  <2>1. \A k : /\ B!At(k).records = Before(k) /\ B!At(k).events = LogTo(k)
              /\ B!At(k).edges = EdgesTo(k)
    BY DEF B!At, Before, LogTo, EdgesTo
  <2> QED BY <2>1 DEF IInv, BundlesInv, BundleOK
<1> QED BY <1>1, InitHolds, ArchiveStep, PTL DEF Spec

\* A bundle has the bytes of every artifact it has a record of.
THEOREM BundlesWithBytes == Spec => []BytesIncluded
<1>1. IInv => BytesIncluded
  BY DEF IInv, BundlesInv, BundleOK, BytesIncluded, B!BytesIncluded
<1> QED BY <1>1, InitHolds, ArchiveStep, PTL DEF Spec

\* No record of a bundle can be left out so that the reader would not see it.
THEOREM OmissionsSeen == Spec => []NoSilentOmission
<1>1. IInv => NoSilentOmission
  <2> SUFFICES ASSUME IInv, NEW n \in DOMAIN bundles, NEW r \in bundles[n].records,
                      NEW c, c = [bundles[n] EXCEPT !.records = @ \ {r},
                                                    !.edges = {e \in @ : e[1] # r.id}],
                      B!Accepts(c)
               PROVE  FALSE
    BY DEF NoSilentOmission, B!NoSilentOmission
  <2>1. PICK b : b = bundles[n]
    OBVIOUS
  <2>2. BundleOK(b)
    BY <2>1 DEF IInv, BundlesInv
  <2>3. c.records = b.records \ {r} /\ c.events = b.events
    BY <2>1, <2>2 DEF BundleOK
  <2>4. PICK k \in 0 .. Len(events) : b.records = Before(k) /\ b.events = LogTo(k)
    BY <2>2 DEF BundleOK
  <2>5. r \in records /\ r.id[2] <= k
    BY <2>1, <2>3, <2>4 DEF Before, B!Accepts
  <2>6. r.id \notin B!IdsOf(c.records)
    <3>1. \A s \in records : s.id = r.id => s = r
      BY <2>5 DEF IInv, LogInv
    <3>2. Authority.id # r.id
      BY <2>5, ArchiveAssumption DEF IInv, LogInv, RecordOK
    <3> QED BY <2>3, <2>4, <3>1, <3>2 DEF Before, B!IdsOf
  <2>7. <<r.id[2], events[r.id[2]]>> \in c.events
    <3>1. Len(events) \in Nat /\ DOMAIN events = 1 .. Len(events)
      BY LengthNat DEF IInv, LogInv
    <3>2. r.id[2] \in 1 .. k
      BY <2>5, <3>1 DEF IInv, LogInv, RecordOK
    <3> QED BY <2>3, <2>4, <3>2 DEF LogTo
  <2>8. events[r.id[2]].subject # r.id /\ events[r.id[2]].receipt # r.id
    BY <2>6, <2>7 DEF B!Accepts, B!EventsResolve
  <2>9. ASSUME NEW e \in records, e # r, e.id[2] = r.id[2], r.id \in e.refs
        PROVE  FALSE
    <3>1. e \in c.records
      BY <2>3, <2>4, <2>5, <2>9 DEF Before
    <3> QED BY <3>1, <2>6, <2>9 DEF B!Accepts, B!Closed
  <2> QED BY <2>5, <2>8, <2>9 DEF IInv, LogInv, HeldOK
<1> QED BY <1>1, InitHolds, ArchiveStep, PTL DEF Spec

\* Whoever seals the same name at the same time: a bundle that is in its place stays as it is.
THEOREM BundlesStay == Spec => SealedForever
<1>1. [Next]_vars => [B!Kept]_vars
  <2> SUFFICES ASSUME Next PROVE B!Kept
    OBVIOUS
  <2>1. ASSUME NEW name, NEW b, name \notin DOMAIN bundles, bundles' = B!Placed(name, b)
        PROVE  B!Kept
    BY <2>1 DEF B!Kept, B!Placed
  <2>2. ASSUME NEW s \in Sealers, B!Finish(s) PROVE B!Kept
    <3>1. CASE UNCHANGED bundles
      BY <3>1 DEF B!Kept
    <3> QED BY <2>1, <2>2, <3>1 DEF B!Finish, B!Vacant
  <2>3. ASSUME NEW name \in Names, B!SealAtOnce(name) PROVE B!Kept
    BY <2>1, <2>3 DEF B!SealAtOnce
  <2>4. CASE UNCHANGED bundles
    BY <2>4 DEF B!Kept
  <2>5. CASE B!Next
    BY <2>2, <2>3, <2>4, <2>5
    DEF B!Next, B!Seal, B!BeginSeal, B!ReadRegistrations, B!CompareObjects, B!ReadRecords,
        B!ReadEvents, B!ReadEdges, B!CopyArtifacts, B!StopSeal
  <2> QED BY <2>4, <2>5 DEF Next
<1> QED BY <1>1, PTL DEF Spec, SealedForever

\* However calls interleave and stop: what a stored record names is kept and registered, an
\* array with its manifest, so that a capture can be decoded for ever.
THEOREM CapturesKeptForever == Spec => []CapturesBacked
<1>1. IInv => CapturesBacked
  <2> SUFFICES ASSUME IInv, NEW r \in records, r.bytes # NoBytes
               PROVE  /\ A!Kept(r.bytes)
                      /\ r.id[1] = "dense" => \E array \in Arrays :
                            r.bytes = A!Manifest(array) /\ A!Kept(array)
    BY DEF CapturesBacked, A!CapturesBacked
  <2>1. r.bytes \in registered /\ registered \subseteq objects
    BY DEF IInv, LogInv, RecordOK
  <2>2. DenseOK(r)
    BY DEF IInv, CapturesInv, CaptureOK
  <2> QED BY <2>1, <2>2 DEF DenseOK, A!Kept
<1> QED BY <1>1, InitHolds, ArchiveStep, PTL DEF Spec

\* What is captured goes back to one artifact that was taken in, and to an aperture of it that
\* permits the encoding.
THEOREM CapturesWithin == Spec => []CaptureWithinAperture
<1>1. IInv => CaptureWithinAperture
  <2> SUFFICES ASSUME IInv, NEW i \in records, i.id[1] = "instance"
               PROVE  /\ i.data.of[1] \in A!I!IdsOf(A!Of("original") \cup A!Of("derivative"))
                      /\ \A a \in A!Of("aperture") : a.id = i.data.of[2] =>
                            /\ a.data.of = i.data.of[1]
                            /\ "encode" \in a.data.operations \cap Surface.operations
                      /\ \A s, k \in records : s.id = i.data.of[1] /\ k.id = A!CaptureOf(i).id =>
                            /\ s.id \in k.refs
                            /\ \E capture \in Captures :
                                  capture.bytes = k.bytes /\ capture.source = s.bytes
    BY DEF CaptureWithinAperture, A!CaptureWithinAperture, A!Of
  <2>1. PICK artifact, aperture, c \in records, capture \in Captures :
           /\ i.data.of = <<artifact.id, aperture.id>> /\ Within(artifact, aperture, capture)
           /\ c.id = <<"capture", i.id[2]>> /\ c.id \in i.refs
           /\ c.bytes = capture.bytes /\ artifact.id \in c.refs
           /\ \A x \in i.refs : x[1] = "capture" => x = c.id
    BY DEF IInv, CapturesInv, CaptureOK, InstanceOK
  <2>2. i.data.of[1] = artifact.id /\ i.data.of[2] = aperture.id
    BY <2>1
  <2>3. \A r, s \in records : r.id = s.id => r = s
    BY DEF IInv, LogInv
  <2>4. artifact \in A!Of("original") \cup A!Of("derivative")
    BY <2>1 DEF Within, A!Of
  <2>5. aperture.data.operations \subseteq Surface.operations
    BY <2>1 DEF Within, IInv, LogInv, ApertureOK
  <2>6. A!CaptureOf(i) = c
    <3>1. c \in A!Of("capture")
      BY <2>1 DEF A!Of
    <3>2. \A r \in A!Of("capture") : r.id \in i.refs => r = c
      BY <2>1, <2>3 DEF A!Of
    <3> QED BY <2>1, <3>1, <3>2 DEF A!CaptureOf
  <2>7. i.data.of[1] \in A!I!IdsOf(A!Of("original") \cup A!Of("derivative"))
    BY <2>2, <2>4 DEF A!I!IdsOf
  <2>8. \A a \in A!Of("aperture") : a.id = i.data.of[2] =>
           a.data.of = i.data.of[1] /\ "encode" \in a.data.operations \cap Surface.operations
    BY <2>1, <2>2, <2>3, <2>5 DEF Within, A!ApertureAdmits, A!Of
  <2>9. \A s, k \in records : s.id = i.data.of[1] /\ k.id = c.id => s = artifact /\ k = c
    BY <2>2, <2>3
  <2>10. capture.source = artifact.bytes
    BY <2>1 DEF Within
  <2> QED BY <2>1, <2>6, <2>7, <2>8, <2>9, <2>10
<1> QED BY <1>1, InitHolds, ArchiveStep, PTL DEF Spec

\* A catalogue is enumerated whole or not at all, each candidate as it was captured.
THEOREM CataloguesWhole == Spec => []CatalogueWhole
<1>1. IInv => CatalogueWhole
  <2> SUFFICES ASSUME IInv, NEW e \in DOMAIN events, NEW found,
                      found = {r \in A!Of("candidate") : r.id[2] = e}, found # {}
               PROVE  \E i \in A!Of("instance") :
                         /\ events[e].subject = i.id
                         /\ {<<r.data.n, r.data.addressable>> : r \in found}
                               = {<<n, i.data.catalogue[n]>> : n \in DOMAIN i.data.catalogue}
    BY DEF CatalogueWhole, A!CatalogueWhole
  <2>1. \A r \in found : /\ r \in records /\ r.id[1] = "candidate" /\ r.id[2] = e
                         /\ CandidateOK(r)
    BY DEF IInv, CapturesInv, CaptureOK, A!Of
  <2>2. PICK r \in found : TRUE
    OBVIOUS
  <2>3. PICK i \in records :
           /\ i.id[1] = "instance" /\ events[e].subject = i.id
           /\ \A n \in DOMAIN i.data.catalogue :
                 \E k \in records : k.id[1] = "candidate" /\ k.id[2] = e /\ k.data.n = n
    <3>1. CandidateOK(r) /\ r.id[1] = "candidate" /\ r.id[2] = e
      BY <2>1, <2>2
    <3>2. PICK i \in records :
             /\ i.id[1] = "instance" /\ events[r.id[2]].subject = i.id
             /\ \A n \in DOMAIN i.data.catalogue :
                   \E k \in records : k.id[1] = "candidate" /\ k.id[2] = r.id[2] /\ k.data.n = n
      BY <3>1 DEF CandidateOK
    <3> QED BY <3>1, <3>2
  <2>4. \A k \in records : k.id = i.id => k = i
    BY DEF IInv, LogInv
  <2>5. \A k \in found : /\ k.data.n \in DOMAIN i.data.catalogue
                        /\ k.data.addressable = i.data.catalogue[k.data.n]
    BY <2>1, <2>3, <2>4 DEF CandidateOK
  <2>6. \A n \in DOMAIN i.data.catalogue : \E k \in found : k.data.n = n
    BY <2>3 DEF A!Of
  <2>7. {<<k.data.n, k.data.addressable>> : k \in found}
           = {<<n, i.data.catalogue[n]>> : n \in DOMAIN i.data.catalogue}
    BY <2>5, <2>6
  <2> QED BY <2>3, <2>7 DEF A!Of
<1> QED BY <1>1, InitHolds, ArchiveStep, PTL DEF Spec

\* An intervention is on a candidate that its capture made addressable.
THEOREM InterventionsAddressable == Spec => []OnlyAddressable
<1>1. IInv => OnlyAddressable
  <2> SUFFICES ASSUME IInv, NEW r \in records, r.id[1] = "intervene",
                      NEW k \in records, k.id[1] = "candidate", k.id \in r.refs
               PROVE  \E i \in A!Of("instance") : i.id \in k.refs /\ i.data.catalogue[k.data.n]
    BY DEF OnlyAddressable, A!OnlyAddressable, A!Of
  <2>1. InterveneOK(r) /\ CandidateOK(k)
    BY DEF IInv, CapturesInv, CaptureOK
  <2>2. \A c \in records : c.id = k.id => c = k
    BY DEF IInv, LogInv
  <2>3. k.data.addressable
    BY <2>1, <2>2 DEF InterveneOK
  <2>4. PICK i \in records : /\ i.id[1] = "instance" /\ k.refs = {i.id}
                             /\ k.data.addressable = i.data.catalogue[k.data.n]
    BY <2>1 DEF CandidateOK
  <2> QED BY <2>3, <2>4 DEF A!Of
<1> QED BY <1>1, InitHolds, ArchiveStep, PTL DEF Spec
=============================================================================
