------------------------- MODULE ObjectStoreProofs -------------------------
(***************************************************************************)
(* Theorems about ObjectStore, for any number of calls, digests and dense  *)
(* ids.                                                                    *)
(*                                                                         *)
(* The argument: a .zarr directory holds the array of one writer, and      *)
(* rename(2) gives a name to nobody while it holds one.  So whoever has    *)
(* promoted is the only one who may link a manifest or remove the store    *)
(* (Ownership), and a store with a manifest is never touched again         *)
(* (FilesBacked).  Rows follow files, and neither is ever taken away; what *)
(* verification read first is therefore still there when it reads again.   *)
(* A file without a row and a store without a manifest belong to a call    *)
(* that has not ended (Accounted), so nothing is left when all have.       *)
(***************************************************************************)
EXTENDS ObjectStore, TLAPS

Owns(w) == target[w] \in DOMAIN stores /\ stores[target[w]] = w

\* Which phases belong to which kind of call, and who owns a store.
Ownership(w) ==
    /\ pc[w] # "idle" => target[w] \in Names
    /\ pc[w] \in {"idle", "stage", "promote"} => w \notin promoted
    /\ pc[w] \in {"stage", "promote", "empty", "rmdir"} => target[w] \in DenseIds
    /\ w \in promoted => target[w] \in DenseIds
    /\ pc[w] \in {"write", "link"} /\ target[w] \in DenseIds => w \in promoted
    /\ pc[w] \in {"write", "link", "except", "empty"} /\ w \in promoted =>
         Owns(w) /\ target[w] \notin DOMAIN files
    /\ pc[w] = "empty" => w \in promoted
    /\ pc[w] # "idle" /\ target[w] \in Digests =>
         media[w] \in MediaTypes /\ w \notin stages

Progress(w) ==
    /\ pc[w] = "link" => temps[w] = "whole"
    /\ pc[w] \in {"unlink", "verify", "register"} =>
         target[w] \in DOMAIN files /\ files[target[w]] = Payload(w)
    /\ pc[w] = "record" =>
         /\ target[w] \in DOMAIN rows \cap Digests
         /\ rows[target[w]] = media[w]

FilesBacked ==
    \A name \in DOMAIN files :
      /\ name \in Digests => files[name] = "bytes"
      /\ name \in DenseIds => files[name] \in Writers /\ Matches(name)

RowsBacked ==
    \A name \in DOMAIN rows :
      name \in DOMAIN files /\ (name \in DenseIds => rows[name] = files[name])

SeenRegistered ==
    /\ check.at = "artifacts" => check.seen \subseteq DOMAIN rows \cap Digests
    /\ check.at = "dense" => check.seen \subseteq DOMAIN rows \cap DenseIds

ObjectInv ==
    /\ TypeOK
    /\ \A w \in Writers : Ownership(w) /\ Progress(w)
    /\ FilesBacked
    /\ RowsBacked
    /\ RecordsBacked
    /\ SeenRegistered

(***************************************************************************)
(* Lemmas about the operators and the steps                                *)
(***************************************************************************)

\* Which steps write which variable.
LEMMA Frames ==
    ASSUME [Next]_vars
    PROVE  /\ UNCHANGED files \/ \E w \in Writers : Link(w)
           /\ UNCHANGED stores \/ \E w \in Writers : Promote(w) \/ EmptyStore(w) \/ RemoveStore(w)
           /\ UNCHANGED rows \/ \E w \in Writers : Register(w)
           /\ UNCHANGED records \/ \E w \in Writers : StoreRecord(w)
           /\ UNCHANGED check \/ Verification
<1> USE DEF disk, scratch, tables, call
<1>1. ASSUME NEW w \in Writers, AtomicWrite(w) PROVE UNCHANGED <<stores, rows, records, check>>
  BY <1>1 DEF AtomicWrite, WriteTemp, Link, Unlink
<1>2. ASSUME NEW w \in Writers, AtomicWrite(w) PROVE UNCHANGED files \/ Link(w)
  BY <1>2 DEF AtomicWrite, WriteTemp, Unlink
<1>3. ASSUME NEW w \in Writers, PutStep(w) PROVE UNCHANGED <<files, stores, check>>
  BY <1>3 DEF PutStep, Put, VerifyFile, Register, StoreRecord
<1>4. ASSUME NEW w \in Writers, PutStep(w)
      PROVE  (UNCHANGED rows \/ Register(w)) /\ (UNCHANGED records \/ StoreRecord(w))
  BY <1>4 DEF PutStep, Put, VerifyFile, Register, StoreRecord
<1>5. ASSUME NEW w \in Writers, ArrayStep(w) PROVE UNCHANGED <<files, rows, records, check>>
  BY <1>5 DEF ArrayStep, WriteArray, Stage, Promote, PromoteFails, Except, EmptyStore, RemoveStore
<1>6. ASSUME NEW w \in Writers, ArrayStep(w)
      PROVE  UNCHANGED stores \/ Promote(w) \/ EmptyStore(w) \/ RemoveStore(w)
  BY <1>6 DEF ArrayStep, WriteArray, Stage, PromoteFails, Except
<1>7. ASSUME NEW w \in Writers, Fail(w) \/ Stop(w) \/ Interrupt(w)
      PROVE  UNCHANGED <<files, stores, rows, records, check>>
  BY <1>7 DEF Fail, Stop, Interrupt
<1>8. ASSUME Verification PROVE UNCHANGED <<files, stores, rows, records>>
  BY <1>8 DEF Verification, VerifyRows, ScanArtifacts, ReadDenseRows, ScanDense
<1>9. CASE UNCHANGED vars
  BY <1>9 DEF vars
<1> QED BY <1>1, <1>2, <1>3, <1>4, <1>5, <1>6, <1>7, <1>8, <1>9 DEF Next

(***************************************************************************)
(* Types                                                                   *)
(***************************************************************************)

\* TypeOK, one part per group of variables.
FileTypes ==
    /\ DOMAIN files \subseteq Names
    /\ files \in [DOMAIN files -> {"bytes", "partial"} \cup Writers]

StoreTypes ==
    /\ DOMAIN stores \subseteq DenseIds
    /\ stores \in [DOMAIN stores -> Writers \cup {"emptied"}]

TableTypes ==
    /\ DOMAIN rows \subseteq Names
    /\ rows \in [DOMAIN rows -> MediaTypes \cup Writers]
    /\ records \subseteq [digest : Digests, media : MediaTypes]

CallTypes ==
    /\ pc \in [Writers -> Phases]
    /\ temps \in [Writers -> {"none", "partial", "whole"}]
    /\ stages \subseteq Writers
    /\ target \in [Writers -> Names \cup {"none"}]
    /\ media \in [Writers -> MediaTypes \cup {"none"}]
    /\ promoted \subseteq Writers
    /\ \A w \in Writers :
         /\ pc[w] \notin {"write", "link", "unlink", "except", "stopped"} => temps[w] = "none"
         /\ pc[w] \in {"idle", "stage", "verify", "register", "record", "done", "refused"}
              => w \notin stages

CheckTypes ==
    check \in [at : {"idle", "artifacts", "dense rows", "dense", "accepted", "rejected"},
              seen : SUBSET Names]

\* The type invariant is the conjunction of its parts.
LEMMA TypeParts == TypeOK <=> FileTypes /\ StoreTypes /\ TableTypes /\ CallTypes /\ CheckTypes
BY DEF TypeOK, FileTypes, StoreTypes, TableTypes, CallTypes, CheckTypes

\* Only a link writes a file name.
LEMMA FileTypesStep ==
    ASSUME ObjectInv, [Next]_vars
    PROVE  FileTypes'
<1>1. FileTypes /\ \A w \in Writers : Ownership(w)
  BY TypeParts DEF ObjectInv
<1>2. ASSUME NEW w \in Writers, Link(w) PROVE FileTypes'
  <2> DEFINE content == IF temps[w] = "whole" THEN Payload(w) ELSE "partial"
             contents == {"bytes", "partial"} \cup Writers
  <2>1. content \in contents
    BY DEF Payload
  <2>2. target[w] \in Names
    BY <1>1, <1>2 DEF Link, Ownership
  <2>3. files' = Add(files, target[w], content) \/ files' = files
    BY <1>2 DEF Link
  <2>4. files \in [DOMAIN files -> contents] /\ DOMAIN files \subseteq Names
    BY <1>1 DEF FileTypes
  <2> HIDE DEF content, contents
  <2>5. Add(files, target[w], content) \in [DOMAIN files \cup {target[w]} -> contents]
    BY <2>1, <2>4 DEF Add
  <2>6. files' \in [DOMAIN files' -> contents] /\ DOMAIN files' \subseteq Names
    BY <2>2, <2>3, <2>4, <2>5
  <2> QED BY <2>6 DEF FileTypes, contents
<1> QED BY <1>1, <1>2, Frames DEF FileTypes

\* Promotion and clean-up write stores, and only under dense ids.
LEMMA StoreTypesStep ==
    ASSUME ObjectInv, [Next]_vars
    PROVE  StoreTypes'
<1> DEFINE holders == Writers \cup {"emptied"}
<1>1. StoreTypes /\ \A w \in Writers : Ownership(w)
  BY TypeParts DEF ObjectInv
<1>2. stores \in [DOMAIN stores -> holders] /\ DOMAIN stores \subseteq DenseIds
  BY <1>1 DEF StoreTypes
<1>3. \A w \in Writers : w \in holders /\ "emptied" \in holders
  OBVIOUS
<1> HIDE DEF holders
<1>4. ASSUME NEW w \in Writers, Promote(w)
      PROVE  stores' \in [DOMAIN stores' -> holders] /\ DOMAIN stores' \subseteq DenseIds
  <2>1. stores' = Add(stores, target[w], w) /\ target[w] \in DenseIds
    BY <1>1, <1>4 DEF Promote, Ownership
  <2>2. Add(stores, target[w], w) \in [DOMAIN stores \cup {target[w]} -> holders]
    BY <1>2, <1>3 DEF Add
  <2> QED BY <1>2, <2>1, <2>2
<1>5. ASSUME NEW w \in Writers, EmptyStore(w)
      PROVE  stores' \in [DOMAIN stores' -> holders] /\ DOMAIN stores' \subseteq DenseIds
  BY <1>2, <1>3, <1>5 DEF EmptyStore
<1>6. ASSUME NEW w \in Writers, RemoveStore(w)
      PROVE  stores' \in [DOMAIN stores' -> holders] /\ DOMAIN stores' \subseteq DenseIds
  <2>1. stores' = Drop(stores, target[w]) \/ stores' = stores
    BY <1>6 DEF RemoveStore
  <2>2. Drop(stores, target[w]) \in [DOMAIN stores \ {target[w]} -> holders]
    BY <1>2 DEF Drop
  <2> QED BY <1>2, <2>1, <2>2
<1> QED BY <1>1, <1>4, <1>5, <1>6, Frames DEF StoreTypes, holders

\* Registration and StoreRecord write the tables.
LEMMA TableTypesStep ==
    ASSUME ObjectInv, [Next]_vars
    PROVE  TableTypes'
<1> DEFINE entries == MediaTypes \cup Writers
<1>1. TableTypes /\ \A w \in Writers : Ownership(w) /\ Progress(w)
  BY TypeParts DEF ObjectInv
<1>2. rows \in [DOMAIN rows -> entries] /\ DOMAIN rows \subseteq Names
  BY <1>1 DEF TableTypes
<1>3. ASSUME NEW w \in Writers, Register(w)
      PROVE  rows' \in [DOMAIN rows' -> entries] /\ DOMAIN rows' \subseteq Names
  <2>1. target[w] \in Names /\ Registration(w) \in entries
    BY <1>1, <1>3 DEF Register, Ownership, Registration
  <2>2. rows' = Add(rows, target[w], Registration(w)) \/ rows' = rows
    BY <1>3 DEF Register
  <2> HIDE DEF entries
  <2>3. Add(rows, target[w], Registration(w)) \in [DOMAIN rows \cup {target[w]} -> entries]
    BY <1>2, <2>1 DEF Add
  <2> QED BY <1>2, <2>1, <2>2, <2>3
<1>4. ASSUME NEW w \in Writers, StoreRecord(w)
      PROVE  records' \subseteq [digest : Digests, media : MediaTypes]
  <2>1. target[w] \in Digests /\ media[w] \in MediaTypes
    BY <1>1, <1>4 DEF StoreRecord, Ownership, Progress
  <2> QED BY <1>1, <1>4, <2>1 DEF StoreRecord, TableTypes
<1>5. rows' \in [DOMAIN rows' -> entries] /\ DOMAIN rows' \subseteq Names
  <2> HIDE DEF entries
  <2> QED BY <1>2, <1>3, Frames
<1>6. records' \subseteq [digest : Digests, media : MediaTypes]
  BY <1>1, <1>4, Frames DEF TableTypes
<1> QED BY <1>5, <1>6 DEF TableTypes

\* Every step leaves its call in a phase with the scratch files of that phase.
LEMMA CallTypesStep ==
    ASSUME ObjectInv, [Next]_vars
    PROVE  CallTypes'
<1> USE DEF CallTypes, Phases, Names, Goto, OpenTemp, scratch, call
<1>1. CallTypes
  BY TypeParts DEF ObjectInv
<1>2. ASSUME NEW w \in Writers, AtomicWrite(w) PROVE CallTypes'
  <2>1. CASE WriteTemp(w)
    BY <1>1, <2>1 DEF WriteTemp
  <2>2. CASE Link(w)
    <3>1. pc[w] = "link" /\ UNCHANGED <<temps, stages, target, media, promoted>>
      BY <2>2 DEF Link
    <3>2. Goto(w, "unlink") \/ Goto(w, "except")
      BY <2>2 DEF Link
    <3> QED BY <1>1, <3>1, <3>2
  <2>3. CASE Unlink(w)
    BY <1>1, <2>3 DEF Unlink
  <2> QED BY <1>2, <2>1, <2>2, <2>3 DEF AtomicWrite
<1>3. ASSUME NEW w \in Writers, PutStep(w) PROVE CallTypes'
  <2>1. ASSUME NEW digest \in Digests, NEW type \in MediaTypes, Put(w, digest, type)
        PROVE  CallTypes'
    BY <1>1, <2>1 DEF Put
  <2>2. CASE VerifyFile(w)
    BY <1>1, <2>2 DEF VerifyFile
  <2>3. CASE Register(w)
    <3>1. pc[w] = "register" /\ UNCHANGED <<temps, stages, target, media, promoted>>
      BY <2>3 DEF Register
    <3>2. Goto(w, "refused") \/ Goto(w, "record") \/ Goto(w, "done")
      BY <2>3 DEF Register
    <3> QED BY <1>1, <3>1, <3>2
  <2>4. CASE StoreRecord(w)
    BY <1>1, <2>4 DEF StoreRecord
  <2> QED BY <1>3, <2>1, <2>2, <2>3, <2>4 DEF PutStep
<1>4. ASSUME NEW w \in Writers, ArrayStep(w) PROVE CallTypes'
  <2>1. ASSUME NEW id \in DenseIds, WriteArray(w, id) PROVE CallTypes'
    BY <1>1, <2>1 DEF WriteArray
  <2>2. CASE Stage(w)
    BY <1>1, <2>2 DEF Stage
  <2>3. CASE Promote(w)
    BY <1>1, <2>3 DEF Promote
  <2>4. CASE PromoteFails(w)
    BY <1>1, <2>4 DEF PromoteFails
  <2>5. CASE Except(w)
    BY <1>1, <2>5 DEF Except
  <2>6. CASE EmptyStore(w)
    BY <1>1, <2>6 DEF EmptyStore
  <2>7. CASE RemoveStore(w)
    BY <1>1, <2>7 DEF RemoveStore
  <2> QED BY <1>4, <2>1, <2>2, <2>3, <2>4, <2>5, <2>6, <2>7 DEF ArrayStep
<1>5. ASSUME NEW w \in Writers, Fail(w) \/ Stop(w) \/ Interrupt(w) PROVE CallTypes'
  <2>1. CASE Fail(w)
    <3>2. target[w] \in Digests => w \notin stages
      BY <2>1 DEF ObjectInv, Ownership, Fail
    <3>3. UNCHANGED <<stages, target, media, promoted>>
      BY <2>1 DEF Fail
    <3>4. CASE target[w] \in Digests
      BY <1>1, <2>1, <3>2, <3>3, <3>4 DEF Fail
    <3>5. CASE target[w] \notin Digests
      BY <1>1, <2>1, <3>3, <3>5 DEF Fail
    <3> QED BY <3>4, <3>5
  <2>2. CASE Stop(w)
    BY <1>1, <2>2 DEF Stop, Busy
  <2>3. CASE Interrupt(w)
    BY <1>1, <2>3 DEF Interrupt
  <2> QED BY <1>5, <2>1, <2>2, <2>3
<1>6. CASE Verification
  BY <1>1, <1>6 DEF Verification, VerifyRows, ScanArtifacts, ReadDenseRows, ScanDense
<1>7. CASE UNCHANGED vars
  BY <1>1, <1>7 DEF vars
<1> QED BY <1>2, <1>3, <1>4, <1>5, <1>6, <1>7 DEF Next

\* Verification remembers names.
LEMMA CheckTypesStep ==
    ASSUME ObjectInv, [Next]_vars
    PROVE  CheckTypes'
<1>1. CheckTypes
  BY TypeParts DEF ObjectInv
<1>2. ReadBy("first", Digests) \in SUBSET Names /\ ReadBy("first", DenseIds) \in SUBSET Names
  BY DEF ReadBy, Names
<1>3. CASE Verification
  <2>1. \E at \in {"idle", "artifacts", "dense rows", "dense", "accepted", "rejected"},
           seen \in {{}, ReadBy("first", Digests), ReadBy("first", DenseIds)} :
          check' = [at |-> at, seen |-> seen]
    BY <1>3 DEF Verification, VerifyRows, ScanArtifacts, ReadDenseRows, ScanDense
  <2>2. PICK at \in {"idle", "artifacts", "dense rows", "dense", "accepted", "rejected"},
             seen \in SUBSET Names : check' = [at |-> at, seen |-> seen]
    BY <1>2, <2>1
  <2> QED BY <2>2 DEF CheckTypes
<1> QED BY <1>1, <1>3, Frames DEF CheckTypes

(***************************************************************************)
(* The inductive invariant                                                 *)
(***************************************************************************)

\* Files appear and never change or go; stores change only where there is no
\* manifest.
LEMMA FilesStep ==
    ASSUME ObjectInv, [Next]_vars
    PROVE  FilesBacked'
<1> USE ObjectStoreAssumption DEF disk, scratch, tables, call, Matches
<1>1. TypeOK /\ FilesBacked /\ \A w \in Writers : Ownership(w) /\ Progress(w)
  BY DEF ObjectInv
<1>2. ASSUME NEW w \in Writers, Link(w) PROVE FilesBacked'
  <2>1. UNCHANGED stores /\ temps[w] = "whole" /\ target[w] \in Names
    BY <1>1, <1>2 DEF Link, Progress, Ownership
  <2>2. CASE target[w] \in DOMAIN files
    BY <1>1, <1>2, <2>1, <2>2 DEF Link, FilesBacked
  <2>3. CASE target[w] \notin DOMAIN files
    <3>1. files' = Add(files, target[w], Payload(w))
      BY <1>2, <2>1, <2>3 DEF Link
    <3>2. target[w] \in DenseIds => Owns(w)
      BY <1>1, <1>2 DEF Ownership, Link
    <3> QED BY <1>1, <2>1, <2>3, <3>1, <3>2 DEF FilesBacked, Owns, Payload, Add, Names
  <2> QED BY <2>2, <2>3
<1>3. ASSUME NEW w \in Writers, Promote(w) PROVE FilesBacked'
  <2>1. UNCHANGED files /\ stores' = Add(stores, target[w], w) /\ target[w] \notin Occupied
    BY <1>3 DEF Promote
  <2>2. target[w] \in DenseIds => target[w] \notin DOMAIN files
    BY <1>1, <2>1 DEF FilesBacked, Occupied
  <2> QED BY <1>1, <2>1, <2>2 DEF FilesBacked, Add
<1>4. ASSUME NEW w \in Writers, EmptyStore(w) PROVE FilesBacked'
  <2>1. target[w] \notin DOMAIN files
    BY <1>1, <1>4 DEF EmptyStore, Ownership
  <2> QED BY <1>1, <1>4, <2>1 DEF EmptyStore, FilesBacked
<1>5. ASSUME NEW w \in Writers, RemoveStore(w) PROVE FilesBacked'
  <2>1. CASE target[w] \in Occupied
    BY <1>1, <1>5, <2>1 DEF RemoveStore, FilesBacked
  <2>2. CASE target[w] \notin Occupied
    <3>1. target[w] \in DenseIds => target[w] \notin DOMAIN files
      BY <1>1, <2>2 DEF FilesBacked, Occupied
    <3>2. UNCHANGED files /\ stores' = Drop(stores, target[w])
      BY <1>5, <2>2 DEF RemoveStore
    <3> QED BY <1>1, <3>1, <3>2 DEF FilesBacked, Drop
  <2> QED BY <2>1, <2>2
<1>6. CASE UNCHANGED <<files, stores>>
  BY <1>1, <1>6 DEF FilesBacked
<1>7. \A w \in Writers : Promote(w) \/ EmptyStore(w) \/ RemoveStore(w) => UNCHANGED files
  BY DEF Promote, EmptyStore, RemoveStore
<1> QED BY <1>2, <1>3, <1>4, <1>5, <1>6, <1>7, Frames

\* A file, once there, keeps its content.
LEMMA FilesKept ==
    ASSUME ObjectInv, [Next]_vars
    PROVE  DOMAIN files \subseteq DOMAIN files' /\ \A n \in DOMAIN files : files'[n] = files[n]
<1>1. ASSUME NEW w \in Writers, Link(w)
      PROVE  DOMAIN files \subseteq DOMAIN files' /\ \A n \in DOMAIN files : files'[n] = files[n]
  BY <1>1 DEF Link, Add
<1> QED BY <1>1, Frames

Step(w) ==
    AtomicWrite(w) \/ PutStep(w) \/ ArrayStep(w) \/ Fail(w) \/ Stop(w) \/ Interrupt(w)

\* A call's own state changes by its own steps only.
LEMMA OthersStay ==
    ASSUME CallTypes, NEW w \in Writers, Step(w), NEW v \in Writers \ {w}
    PROVE  /\ pc'[v] = pc[v] /\ temps'[v] = temps[v] /\ target'[v] = target[v]
           /\ media'[v] = media[v]
           /\ v \in stages' <=> v \in stages
           /\ v \in promoted' <=> v \in promoted
<1> USE DEF CallTypes, Goto, OpenTemp, scratch, call
<1>1. CASE AtomicWrite(w)
  BY <1>1 DEF AtomicWrite, WriteTemp, Link, Unlink
<1>2. CASE PutStep(w)
  BY <1>2 DEF PutStep, Put, VerifyFile, Register, StoreRecord
<1>3. CASE ArrayStep(w)
  BY <1>3 DEF ArrayStep, WriteArray, Stage, Promote, PromoteFails, Except, EmptyStore, RemoveStore
<1>4. CASE Fail(w) \/ Stop(w) \/ Interrupt(w)
  BY <1>4 DEF Fail, Stop, Interrupt
<1> QED BY <1>1, <1>2, <1>3, <1>4 DEF Step

\* A step of one call takes no store from another, and gives no manifest to a
\* store that another owns.
LEMMA OwnedKept ==
    ASSUME ObjectInv, [Next]_vars, NEW w \in Writers, Step(w), NEW v \in Writers \ {w},
           Owns(v), target[v] \in DenseIds, target[v] \notin DOMAIN files
    PROVE  /\ target[v] \in DOMAIN stores' /\ stores'[target[v]] = v
           /\ target[v] \notin DOMAIN files'
<1> USE ObjectStoreAssumption DEF Owns, Step
<1>1. Ownership(w)
  BY DEF ObjectInv
<1>2. target[v] \in Occupied
  BY DEF Occupied
<1>3. CASE Link(w)
  <2>1. UNCHANGED stores /\ (files' = files \/ \E c : files' = Add(files, target[w], c))
    BY <1>3 DEF Link
  <2>2. target[w] \in DenseIds => Owns(w)
    BY <1>1, <1>3 DEF Ownership, Link
  <2> QED BY <2>1, <2>2 DEF Add
<1>4. CASE Promote(w)
  BY <1>2, <1>4 DEF Promote, Add
<1>5. CASE EmptyStore(w)
  <2>1. Owns(w)
    BY <1>1, <1>5 DEF EmptyStore, Ownership
  <2> QED BY <1>5, <2>1 DEF EmptyStore
<1>6. CASE RemoveStore(w)
  BY <1>2, <1>6 DEF RemoveStore, Drop
<1>7. CASE UNCHANGED <<files, stores>>
  BY <1>7
<1>8. Link(w) \/ UNCHANGED files
  BY DEF AtomicWrite, WriteTemp, Unlink, PutStep, Put, VerifyFile, Register, StoreRecord, ArrayStep,
         WriteArray, Stage, Promote, PromoteFails, Except, EmptyStore, RemoveStore, Fail, Stop,
         Interrupt, disk
<1>9. Promote(w) \/ EmptyStore(w) \/ RemoveStore(w) \/ UNCHANGED stores
  BY DEF AtomicWrite, WriteTemp, Link, Unlink, PutStep, Put, VerifyFile, Register, StoreRecord,
         ArrayStep, WriteArray, Stage, PromoteFails, Except, Fail, Stop, Interrupt, disk
<1> QED BY <1>3, <1>4, <1>5, <1>6, <1>7, <1>8, <1>9

\* What each step of a call leaves true of the call itself.
LEMMA OwnStep ==
    ASSUME ObjectInv, NEW w \in Writers, Step(w)
    PROVE  Ownership(w)'
<1> USE ObjectStoreAssumption DEF Ownership, Owns, Goto, OpenTemp, Names, disk, scratch, tables, call
<1>1. CallTypes /\ Ownership(w) /\ Progress(w)
  BY TypeParts DEF ObjectInv
<1>2. w \in DOMAIN pc /\ w \in DOMAIN target /\ w \in DOMAIN media
  BY <1>1 DEF CallTypes
<1>3. pc[w] = "idle" => w \notin stages
  BY <1>1 DEF CallTypes
<1>4. CASE Link(w)
  BY <1>1, <1>2, <1>4 DEF Link
<1>5. CASE Promote(w)
  <2>1. target[w] \notin DOMAIN files
    BY <1>1, <1>5 DEF Promote, ObjectInv, FilesBacked, Matches, Occupied
  <2> QED BY <1>1, <1>2, <1>5, <2>1 DEF Promote, Add
<1>6. CASE WriteTemp(w)
  BY <1>1, <1>2, <1>6 DEF WriteTemp
<1>7. CASE Unlink(w)
  BY <1>1, <1>2, <1>7 DEF Unlink
<1>8. CASE VerifyFile(w)
  BY <1>1, <1>2, <1>8 DEF VerifyFile
<1>9. CASE Register(w)
  BY <1>1, <1>2, <1>9 DEF Register
<1>10. CASE StoreRecord(w)
  BY <1>1, <1>2, <1>10 DEF StoreRecord
<1>11. CASE Stage(w)
  BY <1>1, <1>2, <1>11 DEF Stage
<1>12. CASE PromoteFails(w)
  BY <1>1, <1>2, <1>12 DEF PromoteFails
<1>13. CASE Fail(w)
  BY <1>1, <1>2, <1>13 DEF Fail
<1>14. CASE Except(w)
  BY <1>1, <1>2, <1>14 DEF Except, RemovesStore
<1>15. CASE EmptyStore(w)
  BY <1>1, <1>2, <1>15 DEF EmptyStore
<1>16. CASE RemoveStore(w)
  BY <1>1, <1>2, <1>16 DEF RemoveStore
<1>17. CASE Stop(w)
  BY <1>1, <1>2, <1>17 DEF Stop, Busy
<1>18. CASE Interrupt(w)
  BY <1>1, <1>2, <1>18 DEF Interrupt
<1>19. ASSUME NEW digest \in Digests, NEW type \in MediaTypes, Put(w, digest, type) PROVE Ownership(w)'
  BY <1>1, <1>2, <1>3, <1>19 DEF Put
<1>20. ASSUME NEW id \in DenseIds, WriteArray(w, id) PROVE Ownership(w)'
  BY <1>1, <1>2, <1>3, <1>20 DEF WriteArray
<1> QED BY <1>4, <1>5, <1>6, <1>7, <1>8, <1>9, <1>10, <1>11, <1>12, <1>13, <1>14, <1>15, <1>16, <1>17, <1>18, <1>19, <1>20
        DEF Step, AtomicWrite, PutStep, ArrayStep

\* Ownership of every call survives every step.
LEMMA OwnershipStep ==
    ASSUME ObjectInv, [Next]_vars, NEW v \in Writers
    PROVE  Ownership(v)'
<1>1. CallTypes /\ Ownership(v)
  BY TypeParts DEF ObjectInv
<1>2. ASSUME NEW w \in Writers, Step(w), w # v PROVE Ownership(v)'
  <2>1. /\ pc'[v] = pc[v] /\ target'[v] = target[v] /\ media'[v] = media[v]
        /\ v \in stages' <=> v \in stages
        /\ v \in promoted' <=> v \in promoted
    BY <1>1, <1>2, OthersStay
  <2>2. Owns(v) /\ target[v] \in DenseIds /\ target[v] \notin DOMAIN files
          => /\ target[v] \in DOMAIN stores' /\ stores'[target[v]] = v
             /\ target[v] \notin DOMAIN files'
    BY <1>2, OwnedKept
  <2> QED BY <1>1, <2>1, <2>2 DEF Ownership, Owns
<1>3. ASSUME Step(v) PROVE Ownership(v)'
  BY <1>3, OwnStep
<1>4. CASE Verification
  BY <1>1, <1>4 DEF Verification, VerifyRows, ScanArtifacts, ReadDenseRows, ScanDense, disk, scratch,
     tables, call, Ownership, Owns
<1>5. CASE UNCHANGED vars
  BY <1>1, <1>5 DEF vars, disk, scratch, tables, call, Ownership, Owns
<1> QED BY <1>2, <1>3, <1>4, <1>5 DEF Next, Step

\* A row, once there, keeps its content.
LEMMA RowsKept ==
    ASSUME ObjectInv, [Next]_vars
    PROVE  DOMAIN rows \subseteq DOMAIN rows' /\ \A n \in DOMAIN rows : rows'[n] = rows[n]
<1>1. ASSUME NEW w \in Writers, Register(w)
      PROVE  DOMAIN rows \subseteq DOMAIN rows' /\ \A n \in DOMAIN rows : rows'[n] = rows[n]
  BY <1>1 DEF Register, Add
<1> QED BY <1>1, Frames

\* Rows are written over files that are there, records over rows.
LEMMA RowsStep ==
    ASSUME ObjectInv, [Next]_vars
    PROVE  RowsBacked' /\ RecordsBacked'
<1>1. RowsBacked /\ RecordsBacked /\ \A w \in Writers : Progress(w)
  BY DEF ObjectInv
<1>2. ASSUME NEW w \in Writers, Register(w) PROVE RowsBacked'
  <2>1. target[w] \in DOMAIN files /\ files[target[w]] = Payload(w)
    BY <1>1, <1>2 DEF Register, Progress
  <2>2. rows' = rows \/ rows' = Add(rows, target[w], Registration(w))
    BY <1>2 DEF Register
  <2>3. target[w] \in DenseIds => Registration(w) = files[target[w]]
    BY <2>1, ObjectStoreAssumption DEF Registration, Payload
  <2> QED BY <1>1, <2>1, <2>2, <2>3, FilesKept DEF RowsBacked, Add
<1>3. RowsBacked'
  BY <1>1, <1>2, FilesKept, Frames DEF RowsBacked
<1>4. ASSUME NEW w \in Writers, StoreRecord(w) PROVE RecordsBacked'
  <2>1. target[w] \in DOMAIN rows /\ rows[target[w]] = media[w]
    BY <1>1, <1>4 DEF StoreRecord, Progress
  <2> QED BY <1>1, <1>4, <2>1, RowsKept DEF StoreRecord, RecordsBacked
<1>5. RecordsBacked'
  BY <1>1, <1>4, RowsKept, Frames DEF RecordsBacked
<1> QED BY <1>3, <1>5

\* What verification has read first stays registered.
LEMMA SeenStep ==
    ASSUME ObjectInv, [Next]_vars
    PROVE  SeenRegistered'
<1>1. SeenRegistered
  BY DEF ObjectInv
<1>2. CASE UNCHANGED check
  BY <1>1, <1>2, RowsKept DEF SeenRegistered
<1>3. CASE Verification
  <2>1. UNCHANGED rows
    BY <1>3 DEF Verification, VerifyRows, ScanArtifacts, ReadDenseRows, ScanDense, tables
  <2>2. CASE VerifyRows
    BY <2>1, <2>2 DEF VerifyRows, ReadBy, SeenRegistered
  <2>3. CASE ScanArtifacts
    BY <2>1, <2>3 DEF ScanArtifacts, SeenRegistered
  <2>4. CASE ReadDenseRows
    BY <2>1, <2>4 DEF ReadDenseRows, ReadBy, SeenRegistered
  <2>5. CASE ScanDense
    BY <2>1, <2>5 DEF ScanDense, SeenRegistered
  <2> QED BY <1>3, <2>2, <2>3, <2>4, <2>5 DEF Verification
<1> QED BY <1>2, <1>3, Frames

\* What a call has established stays so, whatever the others do.
LEMMA ProgressStep ==
    ASSUME ObjectInv, [Next]_vars, NEW v \in Writers
    PROVE  Progress(v)'
<1> USE DEF Progress, Goto, OpenTemp, disk, scratch, tables, call
<1>1. CallTypes /\ Ownership(v) /\ Progress(v)
  BY TypeParts DEF ObjectInv
<1>2. ASSUME NEW w \in Writers, Step(w), w # v PROVE Progress(v)'
  <2>1. /\ pc'[v] = pc[v] /\ temps'[v] = temps[v] /\ target'[v] = target[v]
        /\ media'[v] = media[v]
    BY <1>1, <1>2, OthersStay
  <2> QED BY <1>1, <2>1, FilesKept, RowsKept DEF Payload
<1>3. ASSUME Step(v) PROVE Progress(v)'
  <2>1. v \in DOMAIN pc /\ v \in DOMAIN temps
    BY <1>1 DEF CallTypes
  <2>2. CASE Link(v)
    <3>1. /\ temps[v] = "whole" /\ UNCHANGED <<temps, target>>
          /\ pc'[v] = "unlink" \/ pc'[v] = "except"
      BY <1>1, <2>1, <2>2 DEF Link
    <3>2. pc'[v] = "unlink" => target[v] \in DOMAIN files' /\ files'[target[v]] = Payload(v)
      BY <1>1, <2>1, <2>2, <3>1 DEF Link, Add
    <3> QED BY <3>1, <3>2 DEF Payload
  <2>3. CASE Register(v)
    <3>1. UNCHANGED <<temps, target, media, files>> /\ pc'[v] \in {"refused", "record", "done"}
      BY <2>1, <2>3 DEF Register
    <3>2. pc'[v] = "record" => /\ target[v] \in Digests \cap DOMAIN rows'
                              /\ rows'[target[v]] = media[v]
      BY <2>1, <2>3 DEF Register, Add, SameRow, Registration
    <3> QED BY <3>1, <3>2
  <2>4. CASE WriteTemp(v) \/ Unlink(v)
    BY <1>1, <2>1, <2>4 DEF WriteTemp, Unlink, Payload
  <2>5. CASE VerifyFile(v) \/ StoreRecord(v)
    BY <1>1, <2>1, <2>5 DEF VerifyFile, StoreRecord, Payload
  <2>6. ASSUME \/ \E digest \in Digests, type \in MediaTypes : Put(v, digest, type)
               \/ \E id \in DenseIds : WriteArray(v, id)
        PROVE  Progress(v)'
    BY <2>1, <2>6 DEF Put, WriteArray
  <2>7. CASE Stage(v) \/ Promote(v) \/ PromoteFails(v)
    BY <2>1, <2>7 DEF Stage, Promote, PromoteFails
  <2>8. CASE Except(v) \/ EmptyStore(v) \/ RemoveStore(v)
    BY <2>1, <2>8 DEF Except, EmptyStore, RemoveStore
  <2>9. CASE Fail(v) \/ Stop(v) \/ Interrupt(v)
    BY <2>1, <2>9 DEF Fail, Stop, Interrupt
  <2> QED BY <1>3, <2>2, <2>3, <2>4, <2>5, <2>6, <2>7, <2>8, <2>9
          DEF Step, AtomicWrite, PutStep, ArrayStep
<1>4. CASE Verification
  BY <1>1, <1>4 DEF Verification, VerifyRows, ScanArtifacts, ReadDenseRows, ScanDense, Payload
<1>5. CASE UNCHANGED vars
  BY <1>1, <1>5 DEF vars, Payload
<1> QED BY <1>2, <1>3, <1>4, <1>5 DEF Next, Step

(***************************************************************************)
(* Theorems                                                                *)
(***************************************************************************)

\* The invariant holds at first: nothing is stored and no call has begun.
LEMMA ObjectInvInit == Init => ObjectInv
<1> SUFFICES ASSUME Init PROVE ObjectInv
  OBVIOUS
<1>1. /\ DOMAIN files = {} /\ DOMAIN stores = {} /\ DOMAIN rows = {}
      /\ \A S : files \in [{} -> S] /\ stores \in [{} -> S] /\ rows \in [{} -> S]
  BY DEF Init
<1>2. FileTypes /\ StoreTypes /\ TableTypes
  BY <1>1 DEF Init, FileTypes, StoreTypes, TableTypes
<1>3. CallTypes
  BY DEF Init, CallTypes, Phases
<1>4. CheckTypes
  BY DEF Init, CheckTypes
<1>5. TypeOK
  BY <1>2, <1>3, <1>4, TypeParts
<1>6. \A w \in Writers : Ownership(w) /\ Progress(w)
  BY DEF Init, Ownership, Progress
<1>7. FilesBacked /\ RowsBacked /\ RecordsBacked /\ SeenRegistered
  BY <1>1 DEF Init, FilesBacked, RowsBacked, RecordsBacked, SeenRegistered
<1> QED BY <1>5, <1>6, <1>7 DEF ObjectInv

\* Every step of every call and of verification keeps it.
LEMMA ObjectInvStep == ObjectInv /\ [Next]_vars => ObjectInv'
<1> SUFFICES ASSUME ObjectInv, [Next]_vars PROVE ObjectInv'
  OBVIOUS
<1>1. TypeOK'
  <2>1. FileTypes' /\ StoreTypes' /\ TableTypes' /\ CallTypes' /\ CheckTypes'
    BY FileTypesStep, StoreTypesStep, TableTypesStep, CallTypesStep, CheckTypesStep
  <2> QED BY <2>1 DEF TypeOK, FileTypes, StoreTypes, TableTypes, CallTypes, CheckTypes
<1>2. \A w \in Writers : Ownership(w)' /\ Progress(w)'
  BY OwnershipStep, ProgressStep
<1> QED BY <1>1, <1>2, FilesStep, RowsStep, SeenStep DEF ObjectInv

\* The tables, directories and calls keep their types in every behaviour.
THEOREM ObjectTypes == Spec => []TypeOK
<1>1. ObjectInv => TypeOK
  BY DEF ObjectInv
<1> QED BY ObjectInvInit, ObjectInvStep, <1>1, PTL DEF Spec

\* A registered object is in place whatever calls race, fail, are interrupted
\* or stop: no clean-up of write_array ever removes a registered store.
THEOREM RegisteredObjectsStay == Spec => []RegisteredIntact
<1>1. ObjectInv => RegisteredIntact
  BY DEF ObjectInv, RegisteredIntact, RowsBacked, FilesBacked
<1> QED BY ObjectInvInit, ObjectInvStep, <1>1, PTL DEF Spec

\* atomic_write never shows half a file under a final name.
THEOREM FilesWhole == Spec => []NeverHalf
<1>1. ObjectInv => NeverHalf
  BY ObjectStoreAssumption DEF ObjectInv, TypeOK, Names, NeverHalf, FilesBacked
<1> QED BY ObjectInvInit, ObjectInvStep, <1>1, PTL DEF Spec

\* A stored ArtifactRecord agrees with the registration of its digest.
THEOREM RecordsMatchRows == Spec => []RecordsBacked
<1>1. ObjectInv => RecordsBacked
  BY DEF ObjectInv
<1> QED BY ObjectInvInit, ObjectInvStep, <1>1, PTL DEF Spec

\* Verification accepts a directory only when it agrees with its table at that
\* instant: rows only grow, so what was read first is still registered.
THEOREM AcceptanceExact == Spec => AcceptedIsExact
<1> DEFINE Accepts ==
      /\ check.at = "artifacts" /\ check'.at = "dense rows"
           => DOMAIN files \cap Digests = DOMAIN rows \cap Digests
      /\ check.at = "dense" /\ check'.at = "accepted"
           => /\ DOMAIN files \cap DenseIds = DOMAIN rows \cap DenseIds
              /\ \A id \in DOMAIN stores : id \in DOMAIN rows /\ stores[id] = rows[id]
<1>1. ASSUME ObjectInv, [Next]_vars PROVE [Accepts]_check
  <2>1. TypeOK /\ RowsBacked /\ FilesBacked /\ SeenRegistered
    BY <1>1 DEF ObjectInv
  <2>2. CASE UNCHANGED check
    BY <2>2
  <2>3. CASE VerifyRows
    BY <2>3 DEF VerifyRows
  <2>4. CASE ScanArtifacts
    <3>1. check'.at = "dense rows" => check.seen = Digests \cap DOMAIN files
      BY <2>4 DEF ScanArtifacts, ReadBy
    <3> QED BY <2>1, <2>4, <3>1 DEF ScanArtifacts, SeenRegistered, RowsBacked
  <2>5. CASE ReadDenseRows
    BY <2>5 DEF ReadDenseRows
  <2>6. CASE ScanDense
    <3>1. check'.at = "accepted" => /\ check.seen = DenseIds \cap DOMAIN files
                                   /\ DenseIds \cap DOMAIN files = DOMAIN stores
      BY <2>6 DEF ScanDense, ReadBy
    <3>2. check.seen \subseteq DOMAIN rows \cap DenseIds /\ check.at = "dense"
      BY <2>1, <2>6 DEF ScanDense, SeenRegistered
    <3>3. check'.at = "accepted" => DOMAIN files \cap DenseIds = DOMAIN rows \cap DenseIds
      BY <2>1, <3>1, <3>2 DEF RowsBacked
    <3>4. check'.at = "accepted" =>
            \A id \in DOMAIN stores : id \in DOMAIN rows /\ stores[id] = rows[id]
      BY <2>1, <3>1, <3>3 DEF RowsBacked, FilesBacked, Matches
    <3> QED BY <3>2, <3>3, <3>4
  <2> QED BY <1>1, <2>2, <2>3, <2>4, <2>5, <2>6, Frames DEF Verification
<1> QED BY ObjectInvInit, ObjectInvStep, <1>1, PTL DEF Spec, AcceptedIsExact

(***************************************************************************)
(* What is left when every call has ended                                  *)
(***************************************************************************)

\* The phases in which a call has linked its file and not yet registered it, and those in
\* which it still answers for a store without a manifest.
Linked == {"unlink", "verify", "register", "stopped"}
Owning == {"write", "link", "except", "empty", "stopped"}

\* A file without a row, and a store without a manifest, has a call that answers for it.
FilesAccounted ==
    \A name \in DOMAIN files :
       name \in DOMAIN rows \/ \E w \in Writers : target[w] = name /\ pc[w] \in Linked

StoresAccounted ==
    \A id \in DOMAIN stores :
       /\ stores[id] \in Writers =>
             \/ id \in DOMAIN files
             \/ \E w \in promoted : stores[id] = w /\ target[w] = id /\ pc[w] \in Owning
       /\ stores[id] = "emptied" =>
             \E w \in Writers : target[w] = id /\ pc[w] \in {"rmdir", "stopped"}

Accounted == FilesAccounted /\ StoresAccounted

\* A call that has linked its file goes on until the row is there, or is stopped.
LEMMA LinkedGoesOn ==
    ASSUME CallTypes, NEW w \in Writers, Step(w), pc[w] \in Linked
    PROVE  target'[w] = target[w] /\ (pc'[w] \in Linked \/ target[w] \in DOMAIN rows')
<1> USE DEF Linked, Goto, disk, scratch, tables, call
<1>1. w \in DOMAIN pc
  BY DEF CallTypes
<1>2. CASE AtomicWrite(w)
  BY <1>1, <1>2 DEF AtomicWrite, WriteTemp, Link, Unlink
<1>3. CASE PutStep(w)
  BY <1>1, <1>3 DEF PutStep, Put, VerifyFile, Register, StoreRecord, Add
<1>4. CASE ArrayStep(w)
  BY <1>1, <1>4 DEF ArrayStep, WriteArray, Stage, Promote, PromoteFails, Except, EmptyStore,
                    RemoveStore
<1>5. CASE Fail(w) \/ Stop(w) \/ Interrupt(w)
  BY <1>1, <1>5 DEF Fail, Stop, Busy, Interrupt
<1> QED BY <1>2, <1>3, <1>4, <1>5 DEF Step

\* A call that has promoted its store goes on until the manifest is there or the store is
\* emptied, or is stopped.
LEMMA OwningGoesOn ==
    ASSUME ObjectInv, NEW w \in Writers, Step(w), w \in promoted, pc[w] \in Owning
    PROVE  /\ target'[w] = target[w] /\ w \in promoted'
           /\ \/ pc'[w] \in Owning
              \/ target[w] \in DOMAIN files'
              \/ EmptyStore(w)
<1> USE DEF Owning, Goto, OpenTemp, disk, scratch, tables, call
<1>1. CallTypes /\ Ownership(w) /\ w \in DOMAIN pc
  BY TypeParts DEF ObjectInv, CallTypes
<1>2. CASE AtomicWrite(w)
  BY <1>1, <1>2 DEF AtomicWrite, WriteTemp, Link, Unlink, Add
<1>3. CASE PutStep(w)
  BY <1>1, <1>3 DEF PutStep, Put, VerifyFile, Register, StoreRecord
<1>4. CASE ArrayStep(w)
  <2>1. CASE Except(w)
    <3>1. RemovesStore(w)
      BY <1>1, <2>1 DEF Except, RemovesStore, Ownership, Owns
    <3> QED BY <1>1, <2>1, <3>1 DEF Except
  <2>2. CASE EmptyStore(w)
    BY <2>2 DEF EmptyStore
  <2> QED BY <1>1, <1>4, <2>1, <2>2
          DEF ArrayStep, WriteArray, Stage, Promote, PromoteFails, RemoveStore
<1>5. CASE Fail(w) \/ Stop(w) \/ Interrupt(w)
  <2>1. target[w] \notin Digests
    BY <1>1, ObjectStoreAssumption DEF Ownership
  <2> QED BY <1>1, <1>5, <2>1 DEF Fail, Stop, Busy, Interrupt
<1> QED BY <1>2, <1>3, <1>4, <1>5 DEF Step

\* Who removes an emptied store is done only when it is gone or another's.
LEMMA RemovingGoesOn ==
    ASSUME CallTypes, NEW w \in Writers, Step(w), pc[w] \in {"rmdir", "stopped"}
    PROVE  target'[w] = target[w] /\ (pc'[w] = "stopped" \/ RemoveStore(w))
<1> USE DEF Goto, disk, scratch, tables, call
<1>1. w \in DOMAIN pc
  BY DEF CallTypes
<1>2. CASE AtomicWrite(w)
  BY <1>2 DEF AtomicWrite, WriteTemp, Link, Unlink
<1>3. CASE PutStep(w)
  BY <1>3 DEF PutStep, Put, VerifyFile, Register, StoreRecord
<1>4. CASE ArrayStep(w)
  BY <1>4 DEF ArrayStep, WriteArray, Stage, Promote, PromoteFails, Except, EmptyStore, RemoveStore
<1>5. CASE Fail(w) \/ Stop(w) \/ Interrupt(w)
  BY <1>1, <1>5 DEF Fail, Stop, Busy, Interrupt
<1> QED BY <1>2, <1>3, <1>4, <1>5 DEF Step

\* The step of a call, seen from a name that one call answers for.
LEMMA FilesAccountedStep ==
    ASSUME ObjectInv, FilesAccounted, NEW w \in Writers, Step(w), [Next]_vars
    PROVE  FilesAccounted'
<1>1. CallTypes
  BY TypeParts DEF ObjectInv
<1>2. SUFFICES ASSUME NEW name \in DOMAIN files', name \notin DOMAIN rows'
               PROVE  \E v \in Writers : target'[v] = name /\ pc'[v] \in Linked
  BY DEF FilesAccounted
<1>3. name \notin DOMAIN rows
  BY <1>2, RowsKept
<1>4. CASE name \in DOMAIN files
  <2>1. PICK v \in Writers : target[v] = name /\ pc[v] \in Linked
    BY <1>3, <1>4 DEF FilesAccounted
  <2>2. CASE v = w
    BY <1>1, <1>2, <2>1, <2>2, LinkedGoesOn
  <2>3. CASE v # w
    BY <1>1, <2>1, <2>3, OthersStay
  <2> QED BY <2>2, <2>3
<1>5. CASE name \notin DOMAIN files
  <2>1. PICK v \in Writers : Link(v)
    BY <1>2, <1>5, Frames
  <2>2. v \in DOMAIN pc
    BY <1>1 DEF CallTypes
  <2> QED BY <1>2, <1>5, <2>1, <2>2 DEF Link, Add, Goto, call, Linked
<1> QED BY <1>4, <1>5

\* The same for the stores without a manifest, step by step of write_array.
LEMMA StoresAccountedStep ==
    ASSUME ObjectInv, StoresAccounted, NEW w \in Writers, Step(w), [Next]_vars
    PROVE  StoresAccounted'
<1>1. CallTypes /\ StoreTypes /\ promoted \subseteq Writers /\ w \in DOMAIN pc
  BY TypeParts DEF ObjectInv, CallTypes
<1>2. Ownership(w)
  BY DEF ObjectInv
<1>3. DOMAIN files \subseteq DOMAIN files'
  BY FilesKept
\* What an unchanged store says of the calls is still true of them.
<1>4. ASSUME NEW id \in DOMAIN stores, stores[id] \in Writers, ~EmptyStore(w) \/ target[w] # id
      PROVE  \/ id \in DOMAIN files'
             \/ \E v \in promoted' : stores[id] = v /\ target'[v] = id /\ pc'[v] \in Owning
  <2>1. CASE id \in DOMAIN files
    BY <1>3, <2>1
  <2>2. CASE id \notin DOMAIN files
    <3>1. PICK v \in promoted : stores[id] = v /\ target[v] = id /\ pc[v] \in Owning
      BY <1>4, <2>2 DEF StoresAccounted
    <3>2. CASE v = w
      BY <1>4, <3>1, <3>2, OwningGoesOn
    <3>3. CASE v # w
      BY <1>1, <3>1, <3>3, OthersStay
    <3> QED BY <3>2, <3>3
  <2> QED BY <2>1, <2>2
<1>5. ASSUME NEW id \in DOMAIN stores, stores[id] = "emptied", ~RemoveStore(w) \/ target[w] # id
      PROVE  \E v \in Writers : target'[v] = id /\ pc'[v] \in {"rmdir", "stopped"}
  <2>1. PICK v \in Writers : target[v] = id /\ pc[v] \in {"rmdir", "stopped"}
    BY <1>5 DEF StoresAccounted
  <2>2. CASE v = w
    BY <1>1, <1>5, <2>1, <2>2, RemovingGoesOn
  <2>3. CASE v # w
    BY <1>1, <2>1, <2>3, OthersStay
  <2> QED BY <2>2, <2>3
<1>6. CASE Promote(w)
  <2>1. /\ stores' = Add(stores, target[w], w) /\ pc'[w] = "write" /\ w \in promoted'
        /\ target' = target /\ pc[w] = "promote"
    BY <1>1, <1>6 DEF Promote, OpenTemp, Goto
  <2>2. ~EmptyStore(w) /\ ~RemoveStore(w)
    BY <2>1 DEF EmptyStore, RemoveStore
  <2>3. ASSUME NEW id \in DOMAIN stores'
        PROVE  \/ id = target[w] /\ stores'[id] = w
               \/ id \in DOMAIN stores /\ stores'[id] = stores[id]
    BY <2>1 DEF Add
  <2>4. w # "emptied"
    BY ObjectStoreAssumption
  <2> QED BY <1>4, <1>5, <2>1, <2>2, <2>3, <2>4 DEF StoresAccounted, Owning
<1>7. CASE EmptyStore(w)
  <2>1. /\ stores' = [stores EXCEPT ![target[w]] = "emptied"] /\ pc'[w] = "rmdir"
        /\ target' = target /\ pc[w] = "empty"
    BY <1>1, <1>7 DEF EmptyStore, Goto, call
  <2>2. ~RemoveStore(w)
    BY <2>1 DEF RemoveStore
  <2>3. ASSUME NEW id \in DOMAIN stores'
        PROVE  \/ id = target[w] /\ stores'[id] = "emptied"
               \/ id # target[w] /\ id \in DOMAIN stores /\ stores'[id] = stores[id]
    BY <1>1, <2>1 DEF StoreTypes
  <2>4. "emptied" \notin Writers
    BY ObjectStoreAssumption
  <2> QED BY <1>4, <1>5, <2>1, <2>2, <2>3, <2>4 DEF StoresAccounted
<1>8. CASE RemoveStore(w)
  <2>1. pc[w] = "rmdir"
    BY <1>8 DEF RemoveStore
  <2>2. ~EmptyStore(w)
    BY <2>1 DEF EmptyStore
  <2>3. ASSUME NEW id \in DOMAIN stores'
        PROVE  /\ id \in DOMAIN stores /\ stores'[id] = stores[id]
               /\ stores[id] = "emptied" => target[w] # id
    BY <1>8 DEF RemoveStore, Drop, Occupied
  <2> QED BY <1>4, <1>5, <2>2, <2>3 DEF StoresAccounted
<1>9. CASE ~Promote(w) /\ ~EmptyStore(w) /\ ~RemoveStore(w)
  <2>1. UNCHANGED stores
    BY <1>9 DEF Step, AtomicWrite, WriteTemp, Link, Unlink, PutStep, Put, VerifyFile, Register,
                StoreRecord, ArrayStep, WriteArray, Stage, PromoteFails, Except, Fail, Stop,
                Interrupt, disk
  <2> QED BY <1>4, <1>5, <1>9, <2>1 DEF StoresAccounted
<1> QED BY <1>6, <1>7, <1>8, <1>9

\* Nothing lies about in the workspace for which no call answers.
THEOREM NothingUnaccounted == Spec => []Accounted
<1>1. Init => Accounted
  BY DEF Init, Accounted, FilesAccounted, StoresAccounted
<1>2. ASSUME ObjectInv, Accounted, [Next]_vars PROVE Accounted'
  <2>1. CASE \E w \in Writers : Step(w)
    BY <1>2, <2>1, FilesAccountedStep, StoresAccountedStep DEF Accounted
  <2>2. CASE UNCHANGED <<files, stores, rows, target, pc, promoted>>
    BY <1>2, <2>2 DEF Accounted, FilesAccounted, StoresAccounted
  <2>3. Verification \/ UNCHANGED vars => UNCHANGED <<files, stores, rows, target, pc, promoted>>
    BY DEF Verification, VerifyRows, ScanArtifacts, ReadDenseRows, ScanDense, vars, disk, tables,
           call
  <2> QED BY <1>2, <2>1, <2>2, <2>3 DEF Next, Step
<1> QED BY <1>1, <1>2, ObjectInvInit, ObjectInvStep, PTL DEF Spec

\* ObjectStore.ClosedWhenQuiet: however many calls raced, were refused or failed, when the
\* last has ended no file, store, stage or temporary is left that the tables do not name.
THEOREM QuietIsClosed == Spec => []ClosedWhenQuiet
<1>1. ASSUME ObjectInv, Accounted, \A w \in Writers : pc[w] \in {"idle", "done", "refused"}
      PROVE  /\ DOMAIN rows = DOMAIN files
             /\ DOMAIN stores = DOMAIN files \cap DenseIds
             /\ stages = {} /\ \A w \in Writers : temps[w] = "none"
  <2>1. CallTypes /\ StoreTypes /\ FilesBacked /\ RowsBacked
    BY <1>1, TypeParts DEF ObjectInv
  <2>2. DOMAIN rows = DOMAIN files
    BY <1>1, <2>1 DEF RowsBacked, Accounted, FilesAccounted, Linked
  <2>3. DOMAIN stores \subseteq DOMAIN files \cap DenseIds
    BY <1>1, <2>1 DEF StoreTypes, CallTypes, Accounted, StoresAccounted, Owning
  <2>4. DOMAIN files \cap DenseIds \subseteq DOMAIN stores
    BY <2>1 DEF FilesBacked, Matches
  <2>5. stages = {} /\ \A w \in Writers : temps[w] = "none"
    BY <1>1, <2>1 DEF CallTypes
  <2> QED BY <2>2, <2>3, <2>4, <2>5
<1>2. ObjectInv /\ Accounted => ClosedWhenQuiet
  BY <1>1 DEF ClosedWhenQuiet
<1>3. Spec => []ObjectInv
  BY ObjectInvInit, ObjectInvStep, PTL DEF Spec
<1> QED BY <1>2, <1>3, NothingUnaccounted, PTL

=============================================================================
