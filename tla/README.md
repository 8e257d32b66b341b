# A verification development of QSTE

QSTE keeps a *workspace*: one SQLite database of immutable records, lineage
edges and an event log, beside a tree of content-addressed artifacts and dense
(array) manifests. Every scientific operation reads some of it, computes, and
appends a batch of records with one event. Nothing is ever updated or deleted;
what is "current" (an authorization, a dependency's validity) is a fold over
the event log. The command line, a local workbench and an MCP server may open
the same workspace in several processes at once, and each of them may stop at
any instruction.

The modules here describe that system in TLA+. TLC checks them on small
instances; TLAPS proves the most important results for every value of the
constants. `PROJECT.json` lists the runs, the mutants that show each property
can fail, the source lines of every definition, the findings, the hazards and
the theorems.

Commands (in this directory): `tlc -workers 2 -config X.cfg M` for a run,
`tlapm M.tla` for a module of proofs.

## 1. Inventory

| Part (`src/src/qste/...`) | State it keeps | Operations | Interacts with | What is hard | What makes it correct | Here |
|---|---|---|---|---|---|---|
| `storage/database.py` | tables records, edges, events, AUTOINCREMENT counter, two registration tables | insert_records, insert_records_with_event, add_edge, create_descendant, append_event, register_*, trace_lineage, verify | every service | two ways of numbering events; readers made of several autocommit SELECTs | reference closure, gapless numbers, durability, verify never rejects the store's own output | `RecordStore` |
| `storage/artifacts.py`, `paths.py`, `dense.py`, `verification.py` | files under `artifacts/`, `dense/`, `.staging/` and their registrations | put_bytes, atomic_write, write_array, verify_workspace_storage | the registrations follow the files | a stop between file and row; concurrent writers of one digest; verification racing writers | a registration always has its complete file; verification accepts exact directories only | `ObjectStore` |
| `storage/bundle.py` | a sealed directory, and a stage beside it | seal_private, verify | reads the record store and the object store | four readings of a growing store; two sealers of one name | a sealed bundle is the workspace of one moment, nothing can be left out of it unseen, and it is never replaced | `Bundle`, over `Archive` |
| `ingress/service.py` | none | declare_apparatus, ingest, derive_aperture | record store, artifacts | bytes first, records last; refusals and failures found late; the one producer of AcquisitionEvents | an acquisition has its bytes, an aperture is no wider than its source | `Ingress` (its event number in `RecordStore`) |
| `policy/service.py` | none: cases, outcomes and repairs are records, the current authorization is a fold over events | declare_boundary, open_appeal, adjudicate, apply_repair, export_projection, resolve_target_closure, current_authorization | record store, transduction, agent | checks outside the transaction that acts on them; propagation in further transactions | chains of cases, complete propagation, no use while blocked | `Governance` |
| `transduction/service.py` | none | declare_mapping, transduce, contrast, desonify | the same event chain as policy | a second reading of "is this blocked" | the same blocks as policy | `Governance` (transduce) |
| `quanta/service.py` | none | declare_task, execute_task, assess, evaluate_baselines, invalidate_dependency | record store | precedence of reasons; interval edges; budgets | the status is the ontology's | `Assessment` |
| `relations/service.py` | none | declare_projection, declare_comparison, compare, invalidate_relation | record store | matching under a budget, ambiguity, components, left-over units | every unit answered, answers symmetric and optimal | `Relations` |
| `agent/service.py` | none: harnesses, plans, decisions, successors are records | create_payloads, initialize_harness, prepare_treatments, plan, revise, assess_study, evaluate_utility | record store, policy | a plan may be decided again and by two processes; rules of revise() and of the validator in two copies | successors have one line behind them, and keep to the boundary of the first harness; studies claim what decisions say | `Agent` |
| `representations/stft.py` | none | encode, reconstruct, refine, measure, account | dense store | long numeric pipelines | accuracy | refine in `Assessment` |
| `adapters/service.py` | none | probe, encode_capture, enumerate, operate, decode, intervene | record store, artifacts, dense store, ingress | six steps before one transaction; chains of calls that name artifact, aperture, capture and candidate separately | a capture is whole and within an aperture of its source | `Adapter`, over `Archive` |
| `adapters/ecosystem_service.py`, `experiments/*`, `model_research/*` | none | qualification and preparation records | record store, other tools | refusal paths | one record or one receipt | not modelled |
| `interfaces/*`, `cli.py`, `operations.py` | none | argument parsing, MCP registry, workbench server | all services | approval gates | dispatch | not modelled |
| `core/*` | none | schema and contract validation | all | closure and refinement rules | agrees with what the services build | inside the modules that insert |

The services share no memory. They meet in the workspace only: records and
events through the record store, arrays and bytes through the object store. So
each service is a module of its own over the records it reads, and the
interleaving of processes is modelled where two of them really race: in
`RecordStore` (writers and a verifier), `ObjectStore` (writers, stops and a
verifier), `Governance` (operators and users of one event log), `Agent`
(processes that rule on the same plans) and `Archive` (importers, clients of
the adapters, sealers and governance over one workspace).

## 2. The modules and the code

| Module | Extends or uses | Role |
|---|---|---|
| `AppendOnlyLog` | - | abstract specification: what an acknowledged batch promises |
| `RecordStore` | `AppendOnlyLog` by INSTANCE | the metadata plane |
| `ObjectStore` | - | files and their registrations |
| `Governance` | - | appeals, authorizations, and the two ways to use an object |
| `OrderedTests` | - | cascades of early returns as lists of conditions and answers |
| `Assessment` | `OrderedTests` | refinement, tasks, runs, assessments |
| `Relations` | `OrderedTests` | comparison across arms |
| `Agent` | `OrderedTests` | harnesses, plans, revisions, studies |
| `Ingress` | - | what comes into a workspace |
| `Bundle` | - | sealing a workspace, and reading what was sealed |
| `Adapter` | `Ingress` by INSTANCE | captures of external representations |
| `Archive` | `Ingress`, `Adapter` and `Bundle` by INSTANCE | all three over one workspace |
| `MC...` | the module of that name | values of constants, symmetry |
| `...Proofs`, `SharedLemmas` | the module of that name | theorems |

**RecordStore.** `records`, `edges`, `events`, `counter` are the tables;
`acknowledged` remembers what callers were told is stored; `step`, `fetched` and
`verdict` are those of a running `verify()`. A transaction is one action, because SQLite's
`BEGIN IMMEDIATE` makes it one. `verify()` is several actions, because it reads
each table with a SELECT of its own outside a transaction. A document is a
model value with its references and kind as constants, so a batch may conflict
with a stored identity, refer to something missing, or be an exact repetition.

**ObjectStore.** One process per call of put_bytes or write_array; the program
counter stands between any two file-system calls (create the temporary, write,
fsync, link, unlink, register). A call may fail with an I/O error, be
interrupted (its `except` and `finally` clauses run) or stop (nothing runs).
Verification reads the table, lists the directory, then compares.

**Governance.** The state is the event log and the records the services read
back from it. Every transaction of open_appeal, adjudicate, apply_repair,
export_projection and transduce is an action; between two of them a process
keeps what it has read. The loops that tell every member of the closure
(`Telling`) advance by one transaction at a time and may stop for good.

**Assessment.** `graphs`, `tasks`, `runs`, `assessments`, `invalidations`,
`accounts` are the records in the order in which they were stored; a reference
is a position. A score is an effect and a spread; the interval of a unit is
computed from it as the code does it for each uncertainty method. `Verdict` is
assess()'s cascade, rule by rule, and `IndeterminateReason` its twelve reasons.

**Relations.** `projections`, `comparisons`, `outcomes` (the assertions of one
compare(), which one transaction stores) and `invalidations`. Evidence on a
unit is a footprint on two cells of the common substrate, an interval of its
effect and a status; on a pair, the outcome of the controls. `PairState` is
the order of tests on a pair, `Primary` and `Survivors` the exhaustive
matching with tolerance and preference, `Resolution` everything from the
global answers to the assertions. Coverage and cost are integers over a common
denominator. A call that the code refuses or fails leaves one receipt
(`Failed`), counted and not told apart.

**Agent.** `harnesses`, `opportunities`, `successors`, `runs`, `decisions`,
`treatments`, `claims` are sequences of records, `plans` a set; a reference is
a position and 0 a record that was imported. Every call of initialize_harness
and revise is two actions, what it reads and tests (`Begin...`) and the one
transaction it ends in (`Commit...`), with other processes in between;
`pending` is what a process holds meanwhile. `Ruling` is the order of the tests
of revise(), `Accepted...` the validators of `core/p10_contracts.py`.

**Ingress, Bundle, Archive.** `records` and `events` are the metadata, each
record named by its role and the number of the event its transaction ended in;
`objects` and `registered` the bytes. An importer links its objects and
registers them one at a time, and stores its records in one transaction at the
end; it may stop at any point, and finds only then that a file has more
channels than the apparatus. A sealer compares objects with registrations, then
reads records, events, edges and objects in four steps; `Accepts` is what the
reader that checks the stage asks. `Archive` puts both, and the adapters, over
one workspace, with the events that governance appends alone; it is the module
that is run and proved about. A dense array is one more content of a bundle.

**Adapter.** `jobs` is what each client has still to do: the puts and
registrations of a capture in their order (`EncodeSteps`), then one
transaction. Candidates, interventions and waveforms are derived from what was
captured; whatever is refused, failed or only answered leaves a receipt
(`AnswerOnly`). A client's steps and an importer's are steps of one `Archive`.

A definition that does not name a function of the code names the idea of the
lines that `map` gives it.

## 3. Runs

Deadlock is checked for the record store and governance. The other cfgs say
CHECK_DEADLOCK FALSE: calls there are a bounded supply (each call runs once, or
each table and the log have a bound), and a state without a successor is a
workspace whose callers have stopped calling.

| Run | Asks | Bounds, and why they are enough |
|---|---|---|
| `record_store` | Do closure, numbering, durability and the abstract log survive every interleaving of writers with a verify() that reads table by table? | 3 identities, 5 documents (two that contradict each other, one of the wrong kind for its referrer, an acquisition and a receipt that refer to each other), 2 events, 5 edges. Two events are needed for the two numbering mechanisms to meet; a rewrite needs two documents of one identity. |
| `appeals` | Are cases, repairs and their propagation consistent when two operators race and either may stop? | A source and an object derived from it, 3 cases. A closure of two members is the smallest in which a stop can leave one told and one not. |
| `uses` | Is an object ever exported or transduced that was blocked for the whole call? | One governing and one using process, a source and room for one object still to be derived, 3 cases, so that revocations and releases can follow each other around one use. |
| `object_store` | Can a registration lose its file, or verification accept a directory that is not the table? | 3 calls, 1 digest, 1 dense id, 2 media types. Races are between calls for one name, so one name of each sort suffices; the third call is the one that finds what the race of two left. Writers are symmetric. |
| `assessment` | Is the stored status the ontology's, in every order of calls, with evidence of other candidates and budgets that cut the family? | 2 candidates (one terminal), 5 records, 3 task declarations, 1 run, 2 invalidations, 1 failure; scores on each side of each bound, and on it. 371,100 states. |
| `relations` | Does the matching answer for every unit, symmetrically and optimally? | 2 arms with 2 units each, one request; 6 valid specifications and an invalid one; footprints on 2 cells with coverages in quarters. Two units a side are the smallest instance with overlap, split, merge, a many-to-many component, ties and left-over units on both sides. 21,398 states, in which all 17 reasons are reached. |
| `agent` | Do chains of revisions stay consistent and within their boundary when plans are decided again and by two processes? | 2 processes (symmetric), one harness under one of 2 boundaries: under the first 2 plans and 3 decisions, so that one plan can be decided twice and a chain can branch and grow; under the second 4 treatments, 3 plans and 4 decisions, one for each list of a study. 129,544 states. |
| `archive` | Are bundles taken among writers whole, and acquisitions too? | `Archive` without clients: 1 importer, 1 sealer and a process that may seal the same name at once, a file with a derivative, a text, a file that fails late and one that is refused; 3 events: the apparatus, and two that may fall between any two of the readings. |
| `adapter` | Is a capture whole and within its permission, whatever other clients do? | `Archive` without sealers (the theorems cover all of it together): 2 clients (symmetric), 1 importer, 1 array identity, policies with and without `encode`, captures of the right and of another content, a catalogue of 2 candidates asked for with a maximum of 1 and 2; 6 events: apparatus, acquisition, aperture, capture, and two uses of it. |
| `unlisted_relation`, `revocation_released`, `precedence` | Three places where a document or a comment and the code disagree: see "findings" in `PROJECT.json`. | One property each, on the instances above. |

What the passing runs show, beyond types:

* `ClosedWorkspace`, `EventsGapless`, `AcquisitionOrder`:
  the metadata plane holds no dangling reference, numbers its events without a
  gap whichever mechanism numbered them, and an acquisition carries the number
  of its own event. `VerifyAccepts`: the order
  in which verify() reads (records, then edges, then events) never makes it
  reject what writers add meanwhile. `ImplementsLog`: all of it is an
  append-only log with exact repetition as the only rewrite.
* `RegisteredIntact`, `RecordsBacked`, `ClosedWhenQuiet`,
  `AcceptedIsExact`: files come before rows,
  a record is never stored on another writer's media type, a workspace without
  a running or broken-off call has no leftovers, and verification accepts only
  what was exact at some instant of its own.
* `CaseChains`, `EventsExplained`, `PropagationComplete`, `SuccessorHonest`,
  `DecisionsReachAll`, `NeverClearedWhileBlocked`: a case has one line of
  stages, an event has a decision that justifies it, a finished repair has told
  its whole closure, a successor that offers reuse was permitted to, every
  process that is not stopped ends its telling, and a use is not cleared of a
  source that was blocked from before the call to its end.
* `VerdictExact`, `ReasonsExplained`, `BudgetHonest`, `BaselinesConsistent`,
  `AlwaysRecorded`: the cascade computes the status that
  the ontology defines with quantifiers over the values of intervals, its
  reasons are true of the evidence, the budget is not overdrawn and an
  exhausted one is admitted, the baselines' own copy of the condition agrees
  with a qualified verdict, and the validator accepts the result.
* `NoSilentDrop`, `MatchesPay`, `TwinsAlike`, `Mirrored`,
  `AssertionsAccepted`: every unit is answered for, once; kept pairs cost less
  and omitted pairs more than leaving both units out; units that the evidence
  does not tell apart are treated alike, so no sorting became a result; which
  arm is called the source matters in name only; and the validator accepts the
  assertions.
* `Lineage`, `SuccessorsPermitted`, `RecordsAccepted`, `StudyHonest`: each
  successor has one predecessor, decision, opportunity and run, which agree;
  over any chain nothing changes that the boundary does not let change; the
  validators accept what the service builds; and a study that claims support
  lists authentic decisions that changed something and controls that did not.
* `AcquisitionsBacked`, `AperturesWithin`: whatever is stopped, refused or
  found too late, an acquisition has its source, its receipt and its bytes, and
  resampling opens no aperture wider than the source. `Snapshot`,
  `BytesIncluded`, `NoSilentOmission`, `SealedForever`: nothing keeps writers
  out while a bundle is read, and still the reader accepts only what is the
  workspace of one moment, with its bytes; no record can be taken from a bundle
  unseen; and a bundle in its place stays.
* `CapturesBacked`, `CaptureWithinAperture`, `CatalogueWhole`,
  `OnlyAddressable`: what a record names is kept, an array with its manifest;
  a capture goes back to one artifact and an aperture of it; a catalogue is
  enumerated whole or not at all; and only addressable candidates are
  intervened on.

Stated and proved, but in no run: `TypeOK` of `RecordStore`, `ObjectStore`,
`Assessment`, `Relations`, `Agent` and `Archive`, `AcknowledgedStored` (acknowledged documents are never lost or
changed), `NeverHalf` (a final name has all its bytes) and `InvalidationSticks`
(an invalidation is never undone).

**Fairness.** Safety needs none. `DecisionsReachAll` is checked under weak
fairness of the telling loop of each process that has not stopped: it is a
`for` loop without waiting, so a process that runs at all reaches its end.
Callers are not fair: nobody has to open a case, decide it or repair it.

**Findings without a run** (each follows from reading one definition):

* `UnmatchedReason` answers `unmatched_by_spec` also for a unit that had no
  eligible pair, when another unit had one, where the ontology
  (`src/ontology/0.3.0/QSTE_ontology.md:715`) keeps it for eligible units.
* A declared decomposition is compared with the edges of the whole solution, so
  a many-to-many component beside another one always fails the request.
* export_projection checks the authorization before, and outside, the
  transaction that stores the projection.
* transduce()'s `_is_blocked` (`transduction/service.py:561`) answers at the
  first event it recognises (`Earliest`), so an object that was restored stays
  blocked there, while current_authorization() takes the last.
* adjudicate() tests the record it is given, which stays under review
  (`policy/service.py:360`), so one case can be decided again with another
  outcome (the guard of `Adjudicate`).
* atomic_write (`storage/paths.py:125`) keeps its temporary beside its target
  and not under `.staging/`, where `src/docs/operations/README.md:526` looks
  for what a stop leaves behind; it has to be removed by hand before
  verification accepts the workspace again.
* A refusal has to come with another action list (`agent/service.py:1393`),
  not with a narrower one, as `src/docs/operations/README.md:358` has it: a
  refusal may add actions, within what the boundary permits.
* revise() and initialize_harness() read the length of the log outside their
  transaction (`agent/service.py:204`, `:1053`) and write it into decisions as
  their event sequence: two processes can store the same number. The code never
  reads it back.
* The sample rate that a capture declares is not compared with the rate its
  artifact was taken in at.
* operate() on a record of no known adapter raises before the code that stores
  receipts (`adapters/service.py:884`), and leaves none.

## 4. Theorems

| Module | Theorems | Inductive invariant and why it is needed |
|---|---|---|
| `RecordStoreProofs` | TypeCorrect, AlwaysClosed, AlwaysGapless, AlwaysDurable, AcquisitionsOrdered, VerifyNeverRejects, StoreImplementsLog | `StoreInv`: types, closure, durability, and that event numbers are exactly 1..counter, without which MAX + 1 and AUTOINCREMENT could not be shown to agree. For the verifier `FetchedOK` on top of it: what it has fetched is a part of the tables, its edges fetched after its records. |
| `ObjectStoreProofs` | ObjectTypes, RegisteredObjectsStay, FilesWhole, RecordsMatchRows, AcceptanceExact, NothingUnaccounted, QuietIsClosed | `ObjectInv`: who has promoted a store is the only one who may link its manifest or remove it (`Ownership`), a store with a manifest is never touched again (`FilesBacked`), rows follow files (`RowsBacked`), and what verification read first stays registered (`SeenRegistered`). None of the properties is inductive without the ownership. `Accounted` on top of it: a file without a row and a store without a manifest has a call that answers for it, and goes on until the row is there or the store is gone. |
| `AssessmentProofs` | AssessmentTypes, VerdictsExact, RecordsAccepted, InvalidationsStick, RunsAccounted, BudgetsHonest, ReasonsAreExplained, BaselinesAgree | `AssessmentInv`: every stored assessment is the verdict on the graph, task and run it names, and a closed graph gives exactly the family the task froze. `VerdictMeaning` takes comparisons of ends to statements about all values of an interval. `RunsInv`: what each run spent, read and flagged; the loop's recursive function `Spent` is unfolded by the smallest round at which the claim would fail (`SpentCounts`). `AccountsInv`: an answer of the baselines is true of records that stay; `CompleteMeaning` shows that counting intervals finds a missing one, because a closure has each node once. |
| `RelationsProofs` | Inductive, RelationTypes, NothingDropped, AssertionsAlwaysAccepted, MatchingPays, TwinsAnsweredAlike, ArmsExchangeable | `RelationsInv`: every stored outcome is the resolution of its request under the contracts it names. `ComponentsPartition` shows that components share out the units a matching touches, and `MatchedCover`/`MatchedOnce` that with the units left out they answer for each unit, once. `RelationsInv` alone implies the other three, each by an argument about one resolution. A stored matching has the least value of the feasible ones, within the tolerance; one pair more or less changes the value by its cost and the penalties of two units (`PairAdded`), so what is kept and what is left out both pay. A request whose units are renamed, or whose arms are exchanged, has the same feasible matchings of the same values up to the names (`SameRequest`), hence the same answers up to the names (`SameAnswer`): the first is applied to the exchange of two twins, the second to the mirror. |
| `GovernanceProofs` | Invariant, GovernanceTypes, ChainsHold, EventsAreExplained, PropagationCompletes, SuccessorsAreHonest, BlockedIsNotCleared | `IInv`: the log and the cases only grow, so what a case or event says of earlier ones is kept; `WorkOK` is what a process has read and still finds true when it writes (its case is repairable, the closure holds the root, what it has not told is the closure less what was told); `OneTeller` (a decision has one process that tells it) is what makes an event unique. `Least` and `Greatest` give the fold over the log its first and last entry. |
| `AgentProofs` | AgentStep, AgentTypes, ChainsConsistent, BoundaryKept, ValidatorAgrees, StudiesHonest | `IInv`: what each record of the chain says of older ones (`HarnessOK` to `DecisionOK`), that the sequences only grow, and what a pending call has tested (`PendingOK`) in terms of records that stay as they were. Without `PendingOK` the transaction of a call could not be shown to store what the call had ruled. |
| `ArchiveProofs` | ArchiveStep, ArchiveTypes, IngestWhole, AperturesNarrow, BundlesAreMoments, BundlesWithBytes, OmissionsSeen, BundlesStay, CapturesKeptForever, CapturesWithin, CataloguesWhole, InterventionsAddressable | `IInv`: records bear the number of their event and only grow, so every past moment of the workspace can be told from any later one (`Before`, `LogTo`, `EdgesTo`); a sealer has read three moments in order (`SealOK`); an importer has registered all but what is left (`CallOK`). `AcceptedIsOne` shows that a reader who accepts has found the three moments to be one, because the receipt of the last event and both ends of the last edge must be among the records; `HeldOK` (something of its own transaction refers to each record) gives `NoSilentOmission`. A client has registered all but what is left, and still finds the artifact and the aperture it checked before its first put (`JobOK`); what it stores then keeps what it goes back to (`CapturesInv`), so that chains of calls that name artifact, aperture, capture and candidate separately stay consistent. |
| `SharedLemmas` | lemmas only | What a cascade of tests answers, and what two that test alike answer; what appending to a log keeps; the least and the greatest of a set of numbers; and that a sum over a finite set is any element and the sum of the others (`SumOut`), and does not depend on names (`SumRenamed`). The well-foundedness of the naturals, used as a smallest counterexample, replaces induction where a definition is recursive. |

Assumptions are those named in the modules: finiteness and bounds of the
constants, integers where the code has numbers, nonnegative footprints and
effects of projected units that are numbers (`EvidenceAssumption`, which
`_prepare_unit` enforces), specifications with all their fields
(`SpecAssumption`), nonempty closures of candidates that are not terminal
(`ClosureAssumption`), rates and frequencies that are numbers, enumerations of
at least one candidate and an authority manifest that is no record of the
workspace (`ArchiveAssumption`), and the shapes of what the agent is given
(`InputAssumption`). `VerifyNeverRejects` also has a hypothesis of its own,
that callers name only lineage relations; the run `unlisted_relation` shows
that it is needed.

Only model-checked: the liveness property, `DecisionsReachAll`, which the
provers cannot reach. Every safety property that a passing run checks is a
theorem.

## 5. Not modelled

* Numeric pipelines (STFT, playback, decoding of audio): their correctness is
  accuracy.
* JSON-Schema validation, formatting of records, canonical JSON: a library and
  layout. What schemas enforce on callers is in the sets that inputs are drawn
  from.
* Power failure (directory entries that were not fsynced): the model stops
  processes, not the machine.
* `adapters/ecosystem_service.py`, experiments, model research, interfaces and
  command line: each call validates a description and writes one batch, or
  dispatches to a service; nothing in them lasts between calls.
* Checksums and file listings of a bundle: a bundle is what it contains, not how
  it is laid out.
* trace_lineage: a breadth-first reading that stores nothing.
* `declare_boundary` and `declare_mapping` append one immutable record each. A
  boundary is the constants `Named` and `Permitted` of `Governance`; a mapping
  decides nothing there.

## 6. Plan

Done: the record store with its abstract log (1), the object store (2),
governance with its users (3), assessment (4), relations (5), the agent (6),
bundles and ingress over one workspace (7), adapters over the same (8); proofs
of all of them (9).

Next, in this order:

10. **Lineage**: trace_lineage's breadth-first reading while edges are added;
    reachability as reference definition.
11. **Ecosystem** (`adapters/ecosystem_service.py`): qualification of tools and
    what a plan may cite of it.
