---------------------------- MODULE ObjectStore ----------------------------
(***************************************************************************)
(* Bytes and dense arrays beside the metadata database: paths.atomic_write,*)
(* ArtifactStore.put_bytes, DenseStore.write_array, the two registration   *)
(* tables and verify_workspace_storage.                                    *)
(*                                                                         *)
(* A write is many file-system steps and then one row.  Several processes  *)
(* write into the same directories without a lock, any of them may stop    *)
(* between two steps, and verification compares the table with the         *)
(* directory one after the other.  Each element of Writers is one call.    *)
(*                                                                         *)
(* A Stop also stands for an error after the last clean-up of the code     *)
(* (a busy database, a failing read): it leaves the same files behind.     *)
(* Power failures, which could lose a directory entry, are not modelled.   *)
(***************************************************************************)
EXTENDS FiniteSets

CONSTANTS
    Writers,     \* calls of put_bytes and write_array
    Digests,     \* contents that are put
    MediaTypes,  \* media types they are registered under
    DenseIds     \* dense ids callers choose

ASSUME ObjectStoreAssumption ==
    /\ Digests \cap DenseIds = {}
    /\ Writers \cap {"bytes", "partial", "emptied"} = {}

VARIABLES
    files,     \* final names (digests, dense manifests) and their content
    stores,    \* dense/<id>.zarr directories and whose array they hold
    temps,     \* the .qste-stage-* file of each call, beside its target
    stages,    \* calls with a directory under .staging
    rows,      \* artifact_objects and dense_objects
    records,   \* ArtifactRecords stored after their bytes
    pc,        \* the step each call is at
    target,    \* the digest or dense id it writes
    media,     \* the media type it registers a digest under
    promoted,  \* calls of write_array that have renamed their store
    check      \* what verification is doing

disk == <<files, stores>>
scratch == <<temps, stages>>
tables == <<rows, records>>
call == <<target, media, promoted>>
vars == <<disk, scratch, tables, pc, call, check>>

Names == Digests \cup DenseIds

Phases == {"idle", "stage", "promote", "write", "link", "unlink", "verify", "register",
           "record", "except", "empty", "rmdir", "done", "refused", "stopped"}

\* What a complete file holds.  Two writers of one digest hold the same bytes;
\* two manifests of one dense id differ in created_at at least.
Payload(w) == IF target[w] \in Digests THEN "bytes" ELSE w

Busy(w) == pc[w] \notin {"idle", "done", "refused", "stopped"}

Add(f, x, y) == [z \in DOMAIN f \cup {x} |-> IF z = x THEN y ELSE f[z]]
Drop(f, x) == [z \in DOMAIN f \ {x} |-> f[z]]

Goto(w, phase) == pc' = [pc EXCEPT ![w] = phase]

-----------------------------------------------------------------------------
(* atomic_write: a temporary beside the target, filled, linked, unlinked *)

\* mkstemp in the target's own directory.
OpenTemp(w) == Goto(w, "write") /\ temps' = [temps EXCEPT ![w] = "partial"]

WriteTemp(w) ==
    /\ pc[w] = "write"
    /\ Goto(w, "link")
    /\ temps' = [temps EXCEPT ![w] = "whole"]
    /\ UNCHANGED <<disk, stages, tables, call, check>>

\* os.link never replaces; a file that is there must hold the same bytes.
Link(w) ==
    LET content == IF temps[w] = "whole" THEN Payload(w) ELSE "partial"
    IN  /\ pc[w] = "link"
        /\ IF target[w] \notin DOMAIN files
           THEN /\ files' = Add(files, target[w], content)
                /\ Goto(w, "unlink")
           ELSE /\ Goto(w, IF files[target[w]] = content THEN "unlink" ELSE "except")
                /\ UNCHANGED files
        /\ UNCHANGED <<stores, scratch, tables, call, check>>

\* The finally clause; write_array's own then removes its stage.
Unlink(w) ==
    /\ pc[w] = "unlink"
    /\ Goto(w, "verify")
    /\ temps' = [temps EXCEPT ![w] = "none"]
    /\ stages' = stages \ {w}
    /\ UNCHANGED <<disk, tables, call, check>>

-----------------------------------------------------------------------------
(* put_bytes, register_artifact, and the record that names the artifact *)

Put(w, digest, type) ==
    /\ pc[w] = "idle"
    /\ OpenTemp(w)
    /\ target' = [target EXCEPT ![w] = digest]
    /\ media' = [media EXCEPT ![w] = type]
    /\ UNCHANGED <<disk, stages, tables, promoted, check>>

\* The check after the write, and the same one before the registration.
VerifyFile(w) ==
    /\ pc[w] = "verify"
    /\ target[w] \in DOMAIN files
    /\ files[target[w]] = Payload(w)
    /\ target[w] \in DenseIds => target[w] \in DOMAIN stores /\ stores[target[w]] = w
    /\ Goto(w, "register")
    /\ UNCHANGED <<disk, scratch, tables, call, check>>

\* What a call registers: the media type, or the manifest it wrote.
Registration(w) == IF target[w] \in Digests THEN media[w] ELSE w

\* Mutant: a row with the same key is taken for the same registration.
SameKey(w) == target[w] \in DOMAIN rows

\* What the IntegrityError handler accepts as the row it wanted.
SameRow(w) == rows[target[w]] = Registration(w)

Register(w) ==
    /\ pc[w] = "register"
    /\ IF target[w] \notin DOMAIN rows
       THEN rows' = Add(rows, target[w], Registration(w))
       ELSE UNCHANGED rows
    /\ Goto(w, IF target[w] \in DOMAIN rows /\ ~SameRow(w) THEN "refused"
               ELSE IF target[w] \in Digests THEN "record" ELSE "done")
    /\ UNCHANGED <<disk, scratch, records, call, check>>

\* The later transaction of the caller, RecordStore's InsertBatch.
StoreRecord(w) ==
    /\ pc[w] = "record"
    /\ records' = records \cup {[digest |-> target[w], media |-> media[w]]}
    /\ Goto(w, "done")
    /\ UNCHANGED <<disk, scratch, rows, call, check>>

-----------------------------------------------------------------------------
(* write_array *)

WriteArray(w, id) ==
    /\ pc[w] = "idle"
    /\ target' = [target EXCEPT ![w] = id]
    /\ Goto(w, IF id \in DOMAIN stores \cup DOMAIN files THEN "refused" ELSE "stage")
    /\ UNCHANGED <<disk, scratch, tables, media, promoted, check>>

Stage(w) ==
    /\ pc[w] = "stage"
    /\ Goto(w, "promote")
    /\ stages' = stages \cup {w}
    /\ UNCHANGED <<disk, temps, tables, call, check>>

\* rename(2) takes the place of an empty directory and of nothing else.
Occupied == {id \in DOMAIN stores : stores[id] # "emptied"}

Promote(w) ==
    /\ pc[w] = "promote"
    /\ target[w] \notin Occupied
    /\ stores' = Add(stores, target[w], w)
    /\ promoted' = promoted \cup {w}
    /\ OpenTemp(w)
    /\ UNCHANGED <<files, stages, tables, target, media, check>>

PromoteFails(w) ==
    /\ pc[w] = "promote"
    /\ target[w] \in Occupied
    /\ Goto(w, "except")
    /\ UNCHANGED <<disk, scratch, tables, call, check>>

\* Mutant: whoever fails removes the store, promoted or not.
RemovesAny(w) == target[w] \notin DOMAIN files /\ target[w] \in DOMAIN stores

\* Mutant: a store is left where it was promoted.
RemovesNothing(w) == FALSE

RemovesStore(w) ==
    /\ w \in promoted
    /\ target[w] \notin DOMAIN files
    /\ target[w] \in DOMAIN stores

\* An OSError while staging, writing or linking; atomic_write has unlinked its
\* temporary.
Fail(w) ==
    /\ pc[w] \in {"stage", "promote", "write", "link"}
    /\ Goto(w, IF target[w] \in Digests THEN "refused" ELSE "except")
    /\ temps' = [temps EXCEPT ![w] = "none"]
    /\ UNCHANGED <<disk, stages, tables, call, check>>

\* except Exception: a store to remove, or the finally clause at once.
Except(w) ==
    /\ pc[w] = "except"
    /\ Goto(w, IF RemovesStore(w) THEN "empty" ELSE "refused")
    /\ temps' = [temps EXCEPT ![w] = "none"]
    /\ stages' = IF RemovesStore(w) THEN stages ELSE stages \ {w}
    /\ UNCHANGED <<disk, tables, call, check>>

\* rmtree removes what is inside a directory before the directory.
EmptyStore(w) ==
    /\ pc[w] = "empty"
    /\ target[w] \in DOMAIN stores
    /\ stores' = [stores EXCEPT ![target[w]] = "emptied"]
    /\ Goto(w, "rmdir")
    /\ UNCHANGED <<files, scratch, tables, call, check>>

\* rmdir fails when another store has been renamed onto the empty directory.
RemoveStore(w) ==
    /\ pc[w] = "rmdir"
    /\ stores' = IF target[w] \in Occupied THEN stores ELSE Drop(stores, target[w])
    /\ Goto(w, "refused")
    /\ stages' = stages \ {w}
    /\ UNCHANGED <<files, temps, tables, call, check>>

-----------------------------------------------------------------------------
(* Calls that end without their clean-up *)

Stop(w) ==
    /\ Busy(w)
    /\ Goto(w, "stopped")
    /\ UNCHANGED <<disk, scratch, tables, call, check>>

\* A KeyboardInterrupt runs the finally clauses and not "except Exception".
Interrupt(w) ==
    /\ pc[w] \in {"stage", "promote", "write", "link", "unlink"}
    /\ Goto(w, "stopped")
    /\ temps' = [temps EXCEPT ![w] = "none"]
    /\ stages' = stages \ {w}
    /\ UNCHANGED <<disk, tables, call, check>>

-----------------------------------------------------------------------------
(* verify_workspace_storage *)

\* Mutant: the directory is listed before the table is read.
FilesFirst(turn, names) ==
    names \cap IF turn = "first" THEN DOMAIN files ELSE DOMAIN rows

\* The table is read first, the directory second.
ReadBy(turn, names) ==
    names \cap IF turn = "first" THEN DOMAIN rows ELSE DOMAIN files

\* A temporary of any process, alive or not, in the directory of these names.
Litter(names) == \E w \in Writers : target[w] \in names /\ temps[w] # "none"

Matches(id) == id \in DOMAIN stores /\ stores[id] = files[id]

\* _verify_artifact_registration, _verify_dense_registration for every row.
RowsHold ==
    \A name \in DOMAIN rows :
      /\ name \in DOMAIN files
      /\ files[name] = IF name \in Digests THEN "bytes" ELSE rows[name]

VerifyRows ==
    /\ check.at \in {"idle", "accepted", "rejected"}
    /\ check' = IF RowsHold
                THEN [at |-> "artifacts", seen |-> ReadBy("first", Digests)]
                ELSE [at |-> "rejected", seen |-> {}]
    /\ UNCHANGED <<disk, scratch, tables, pc, call>>

ScanArtifacts ==
    /\ check.at = "artifacts"
    /\ check' = IF /\ ~Litter(Digests)
                   /\ \A d \in Digests \cap DOMAIN files : files[d] = "bytes"
                   /\ check.seen = ReadBy("second", Digests)
                THEN [at |-> "dense rows", seen |-> {}]
                ELSE [at |-> "rejected", seen |-> {}]
    /\ UNCHANGED <<disk, scratch, tables, pc, call>>

ReadDenseRows ==
    /\ check.at = "dense rows"
    /\ check' = [at |-> "dense", seen |-> ReadBy("first", DenseIds)]
    /\ UNCHANGED <<disk, scratch, tables, pc, call>>

ScanDense ==
    LET manifests == DenseIds \cap DOMAIN files
    IN  /\ check.at = "dense"
        /\ check' = IF /\ ~Litter(DenseIds)
                       /\ manifests = DOMAIN stores
                       /\ \A id \in manifests : Matches(id)
                       /\ check.seen = ReadBy("second", DenseIds)
                    THEN [at |-> "accepted", seen |-> {}]
                    ELSE [at |-> "rejected", seen |-> {}]
        /\ UNCHANGED <<disk, scratch, tables, pc, call>>

-----------------------------------------------------------------------------
Init ==
    /\ files = << >>
    /\ stores = << >>
    /\ temps = [w \in Writers |-> "none"]
    /\ stages = {}
    /\ rows = << >>
    /\ records = {}
    /\ pc = [w \in Writers |-> "idle"]
    /\ target = [w \in Writers |-> "none"]
    /\ media = [w \in Writers |-> "none"]
    /\ promoted = {}
    /\ check = [at |-> "idle", seen |-> {}]

AtomicWrite(w) == WriteTemp(w) \/ Link(w) \/ Unlink(w)

PutStep(w) ==
    \/ \E digest \in Digests, type \in MediaTypes : Put(w, digest, type)
    \/ VerifyFile(w)
    \/ Register(w)
    \/ StoreRecord(w)

ArrayStep(w) ==
    \/ \E id \in DenseIds : WriteArray(w, id)
    \/ Stage(w)
    \/ Promote(w)
    \/ PromoteFails(w)
    \/ Except(w)
    \/ EmptyStore(w)
    \/ RemoveStore(w)

Verification == VerifyRows \/ ScanArtifacts \/ ReadDenseRows \/ ScanDense

Next ==
    \/ \E w \in Writers :
         AtomicWrite(w) \/ PutStep(w) \/ ArrayStep(w) \/ Fail(w) \/ Stop(w) \/ Interrupt(w)
    \/ Verification

Spec == Init /\ [][Next]_vars

-----------------------------------------------------------------------------
(* Properties *)

\* Types, and which phases hold a temporary or a stage.
TypeOK ==
    /\ DOMAIN files \subseteq Names
    /\ files \in [DOMAIN files -> {"bytes", "partial"} \cup Writers]
    /\ DOMAIN stores \subseteq DenseIds
    /\ stores \in [DOMAIN stores -> Writers \cup {"emptied"}]
    /\ temps \in [Writers -> {"none", "partial", "whole"}]
    /\ stages \subseteq Writers
    /\ DOMAIN rows \subseteq Names
    /\ rows \in [DOMAIN rows -> MediaTypes \cup Writers]
    /\ records \subseteq [digest : Digests, media : MediaTypes]
    /\ pc \in [Writers -> Phases]
    /\ target \in [Writers -> Names \cup {"none"}]
    /\ media \in [Writers -> MediaTypes \cup {"none"}]
    /\ promoted \subseteq Writers
    /\ check \in [at : {"idle", "artifacts", "dense rows", "dense", "accepted", "rejected"},
                  seen : SUBSET Names]
    /\ \A w \in Writers :
         /\ pc[w] \notin {"write", "link", "unlink", "except", "stopped"} => temps[w] = "none"
         /\ pc[w] \in {"idle", "stage", "verify", "register", "record", "done", "refused"}
              => w \notin stages

\* Whatever calls race, fail or stop, a registered object is in place: its file
\* is whole and, for a dense manifest, the store it describes is the one beside
\* it.  Nothing the clean-up of another call removes is ever a registered one.
RegisteredIntact ==
    \A name \in DOMAIN rows :
      /\ name \in DOMAIN files
      /\ name \in Digests => files[name] = "bytes"
      /\ name \in DenseIds => files[name] = rows[name] /\ Matches(name)

\* A final name never holds half a file, not even after a stop: readers and
\* later writers of the same digest find all of the bytes or none.
NeverHalf == \A name \in DOMAIN files : files[name] # "partial"

\* An ArtifactRecord is stored only over a registration of the same media type.
RecordsBacked ==
    \A r \in records : r.digest \in DOMAIN rows /\ rows[r.digest] = r.media

\* When no call is running and none ended without its clean-up, the tables and
\* the directories agree exactly: refused and failed calls leave nothing.
ClosedWhenQuiet ==
    (\A w \in Writers : pc[w] \in {"idle", "done", "refused"}) =>
      /\ DOMAIN rows = DOMAIN files
      /\ DOMAIN stores = DOMAIN files \cap DenseIds
      /\ stages = {} /\ \A w \in Writers : temps[w] = "none"

\* Verification accepts a directory only at an instant when table and directory
\* agree, although writers move between its two readings.
AcceptedIsExact ==
    [][ /\ check.at = "artifacts" /\ check'.at = "dense rows"
             => DOMAIN files \cap Digests = DOMAIN rows \cap Digests
        /\ check.at = "dense" /\ check'.at = "accepted"
             => /\ DOMAIN files \cap DenseIds = DOMAIN rows \cap DenseIds
                /\ \A id \in DOMAIN stores : id \in DOMAIN rows /\ stores[id] = rows[id]
      ]_check

=============================================================================
