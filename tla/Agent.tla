------------------------------- MODULE Agent -------------------------------
(***************************************************************************)
(* The agent host: agent/service.py with the validator of the records it   *)
(* stores, core/p10_contracts.py.                                          *)
(*                                                                         *)
(* A harness is frozen with a first successor specification (a state and   *)
(* the actions allowed next) and a first opportunity to revise it.  For an *)
(* opportunity four materials are prepared, one of them authentic.  An     *)
(* executor's proposal on a material is stored as inert data (a plan);     *)
(* revise() rules on a plan, and stores a refusal, or a decision that may  *)
(* create a successor, its next run and its next opportunity.  Studies     *)
(* compare the decisions taken under the four materials.                   *)
(*                                                                         *)
(* Every call ends in one transaction that appends its records and one     *)
(* event, a receipt alone when it was refused or failed; other calls come  *)
(* between its checks and that transaction.                                *)
(*                                                                         *)
(* A record is referred to by its position in the sequence of its type, 0  *)
(* stands for one given from outside.  The five limits of a budget are     *)
(* one number.  A call is sound when it is authorized and its arguments    *)
(* have the fields and types that the code asks for.                       *)
(***************************************************************************)
EXTENDS Integers, Sequences, FiniteSets, OrderedTests

CONSTANTS
    Processes,       \* processes that call the service
    Boundaries,      \* governance boundaries, with for each of them
    PermittedActions, MutableFields, HumanActions, Approvers, Ceiling,
    Authorities,     \* records that a caller may name as authority
    Values, None,    \* what a field of the state holds, or its absence
    InitialStates,   \* states a harness may be started in
    ActionLists,     \* lists of actions given to a harness
    Proposals,       \* what executors propose, and
    Requests,        \* how revise() is called: authority, source status, fixture, mode, person
    Answers(_,_,_),  \* which of it under a boundary, on an opportunity and a treatment
    Imported,        \* slot contents of artifacts that are not payloads of this service
    MaxHarnesses, MaxPayloads, MaxClaims, MaxFailures,  \* bounds, and bounds
    MaxTreatments, MaxPlans, MaxDecisions               \* for each boundary

\* ACTION_REGISTRY: what each action is recorded as, and the field of the state it may change.
DecisionOf == [
    revise_aperture |-> "revise", revise_task |-> "revise", revise_bound |-> "revise",
    revise_representation |-> "revise", revise_plan |-> "revise",
    revise_action_set |-> "revise", resume |-> "resume",
    refuse |-> "refuse", escalate |-> "escalate", no_change |-> "no_change"]
FieldOf == [
    revise_aperture |-> "aperture", revise_task |-> "task", revise_bound |-> "meaningful_bound",
    revise_representation |-> "representation", revise_plan |-> "plan",
    revise_action_set |-> "executable_action_set", resume |-> "executable_action_set"]

Actions == DOMAIN DecisionOf
CreatesSuccessor(action) == action \in DOMAIN FieldOf
Fields == {FieldOf[a] : a \in DOMAIN FieldOf}
VolatileFields == {"record_id", "created_at", "semantic_key", "content_digest", "serialization"}
Treatments == {"authentic", "absent", "placebo", "permuted"}
Controls == Treatments \ {"authentic"}

States == [Fields -> Values \cup {None}]
Changes == [field : Fields \cup VolatileFields, before : Values \cup {None},
            after : Values \cup {None}]

ASSUME BoundaryAssumption ==
    /\ PermittedActions \in [Boundaries -> SUBSET Actions]
    /\ MutableFields \in [Boundaries -> SUBSET Fields]
    /\ HumanActions \in [Boundaries -> SUBSET Actions]
    /\ Approvers \in [Boundaries -> SUBSET Authorities]
    /\ Ceiling \in [Boundaries -> Nat]

ASSUME InputAssumption ==
    /\ InitialStates \subseteq States /\ None \notin InitialStates
    /\ \A a \in ActionLists : a \in Seq(Actions)
    /\ \A x \in Proposals :
          /\ x.action \in Actions /\ x.changes \in Seq(Changes) /\ x.next \in Seq(Actions)
          /\ x.use \in Nat /\ {x.allowed, x.conditions} \subseteq BOOLEAN
    /\ Requests \subseteq [authority : Authorities, source : {"permitted", "revoked"},
                           fixture : BOOLEAN, shadow : BOOLEAN, human : BOOLEAN]
    /\ {MaxHarnesses, MaxPayloads, MaxClaims, MaxFailures} \subseteq Nat
    /\ {MaxTreatments, MaxPlans, MaxDecisions} \subseteq [Boundaries -> Nat]

VARIABLES
    harnesses, opportunities, successors, runs, decisions,
    payloads,        \* how many sets of information payloads were created
    treatments,      \* sets of the four materials
    plans, claims,
    failures,        \* receipts of refused and failed calls
    pending          \* what each process has ruled and not yet stored

chain == <<harnesses, opportunities, successors, runs, decisions>>
vars == <<chain, payloads, treatments, plans, claims, failures, pending>>

Idle == [kind |-> "idle"]

\* _fail() and _authorize(): a receipt, its event, and nothing else.
Failed == /\ failures < MaxFailures
          /\ failures' = failures + 1
          /\ UNCHANGED <<chain, payloads, treatments, plans, claims, pending>>

-----------------------------------------------------------------------------
(* What a boundary allows *)

\* _action_set(): a list without repetition, within the registry and the boundary.
ValidActions(boundary, actions) ==
    /\ actions # <<>>
    /\ \A i, j \in DOMAIN actions : actions[i] = actions[j] => i = j
    /\ \A i \in DOMAIN actions : actions[i] \in PermittedActions[boundary]

\* _limits(): a positive budget that does not exceed the boundary's.
ValidLimit(boundary, limit) == limit \in 1 .. Ceiling[boundary]

\* _resource_use(): one proposal against the limits of its opportunity.
WithinBudget(use, opportunity) == use <= opportunity.budget

\* _authority(): an executor cannot originate authority.
MayApprove(boundary, authority) == authority \in Approvers[boundary]

-----------------------------------------------------------------------------
(* Payloads and treatments *)

\* create_payloads(): three redactions of one outcome core.
CreatePayloads(sound) ==
    IF sound
    THEN /\ payloads < MaxPayloads
         /\ payloads' = payloads + 1
         /\ UNCHANGED <<chain, treatments, plans, claims, failures, pending>>
    ELSE Failed

\* The exposed fields of each level, in the order of their names.
PayloadSlots == [
    ordinary |-> <<"outcome_core">>,
    formation_only |-> <<"formation", "outcome_core">>,
    full_assessment |-> <<"assessment", "formation", "outcome_core">>]

\* prepare_treatments(): the lengths of the four and the values of the permutation agree by
\* construction, so the call's tests of them never fail.
PrepareTreatments(o, slots, sound) ==
    IF sound /\ Len(slots) \in 2 .. 64
    THEN /\ Len(treatments) < MaxTreatments[opportunities[o].boundary]
         /\ treatments' = Append(treatments, [opportunity |-> o])
         /\ UNCHANGED <<chain, payloads, plans, claims, failures, pending>>
    ELSE Failed

Artifacts == Imported \cup (IF payloads = 0 THEN {} ELSE {PayloadSlots[l] : l \in DOMAIN PayloadSlots})

-----------------------------------------------------------------------------
(* Starting a harness *)

FirstOpportunity(setup, successor, harness) ==
    [boundary |-> setup.boundary, run |-> 0, initial |-> successor, budget |-> setup.limit,
     after |-> 0, harness |-> harness]

FirstDecision(setup, opportunity) ==
    [opportunity |-> opportunity, plan |-> None, treatment |-> "authentic", action |-> "execute",
     changed |-> TRUE, successor |-> 0, next |-> setup.actions, authority |-> setup.authority,
     shadow |-> FALSE, blocked |-> FALSE]

FirstSuccessor(setup, opportunity, decision) ==
    [predecessor |-> 0, run |-> 0, state |-> setup.state, actions |-> setup.actions,
     changes |-> <<[field |-> "initial_state", before |-> None, after |-> setup.state]>>,
     changed |-> TRUE, decision |-> decision, opportunity |-> opportunity,
     boundary |-> setup.boundary, authority |-> setup.authority, treatment |-> "authentic"]

Harness(setup, successor, opportunity) ==
    [boundary |-> setup.boundary, authority |-> setup.authority, limit |-> setup.limit,
     actions |-> setup.actions, initial |-> successor, first |-> opportunity]

\* initialize_harness(), up to its transaction.  An evaluation that states no outside
\* information is only found by the validator, which then leaves no receipt.
BeginInitialize(p, setup, sound) ==
    /\ pending[p] = Idle
    /\ IF /\ sound
          /\ ValidLimit(setup.boundary, setup.limit)
          /\ ValidActions(setup.boundary, setup.actions)
          /\ MayApprove(setup.boundary, setup.authority)
       THEN /\ Len(harnesses) < MaxHarnesses
            /\ pending' = [pending EXCEPT ![p] =
                   [kind |-> "initialize", setup |-> setup]]
            /\ UNCHANGED <<chain, payloads, treatments, plans, claims, failures>>
       ELSE Failed

\* Its transaction.
CommitInitialize(p) ==
    LET c == pending[p]
        o == Len(opportunities) + 1
        s == Len(successors) + 1
        d == Len(decisions) + 1
    IN  /\ c.kind = "initialize"
        /\ Len(harnesses) < MaxHarnesses
        /\ opportunities' = Append(opportunities, FirstOpportunity(c.setup, s, Len(harnesses) + 1))
        /\ decisions' = Append(decisions, FirstDecision(c.setup, o))
        /\ successors' = Append(successors, FirstSuccessor(c.setup, o, d))
        /\ harnesses' = Append(harnesses, Harness(c.setup, s, o))
        /\ pending' = [pending EXCEPT ![p] = Idle]
        /\ UNCHANGED <<runs, payloads, treatments, plans, claims, failures>>

-----------------------------------------------------------------------------
(* Plans *)

\* plan(): structural checks only; the action is not compared with any action set.
Plan(o, t, treatment, proposal, sound) ==
    IF /\ sound
       /\ treatments[t].opportunity = o
       /\ WithinBudget(proposal.use, opportunities[o])
    THEN /\ Cardinality(plans) < MaxPlans[opportunities[o].boundary]
         /\ plans' = plans \cup {[opportunity |-> o, material |-> t, treatment |-> treatment,
                                  proposal |-> proposal]}
         /\ UNCHANGED <<chain, payloads, treatments, claims, failures, pending>>
    ELSE Failed

-----------------------------------------------------------------------------
(* Revision *)

OpportunityOf(plan) == opportunities[plan.opportunity]
InitialOf(plan) == successors[OpportunityOf(plan).initial]

\* revise(): the first test that applies rules.
Ruling(request, plan) ==
    LET boundary == OpportunityOf(plan).boundary
        x == plan.proposal
    IN  FirstOf(<<
            <<~MayApprove(boundary, request.authority), "failed">>,
            <<~WithinBudget(x.use, OpportunityOf(plan)), "failed">>,
            <<x.action \notin PermittedActions[boundary], "failed">>,
            <<request.source # "permitted", "refuse">>,
            <<x.action \in HumanActions[boundary] /\ ~request.human, "refuse">>,
            <<~request.fixture, "failed">>,
            <<~x.allowed /\ ~request.shadow, "refuse">>,
            <<DecisionOf[x.action] = "refuse", "refuse">>,
            <<TRUE, "decide">> >>)

\* Mutant (SuccessorsPermitted): the boundary's list of mutable fields is not consulted.
OwnFieldOnly(plan) ==
    LET x == plan.proposal
    IN  /\ x.changes # <<>>
        /\ \A i \in DOMAIN x.changes :
              LET c == x.changes[i]
              IN  /\ c.field = FieldOf[x.action]
                  /\ c.before = InitialOf(plan).state[c.field]
                  /\ c.after # c.before

\* Every change is of the action's own field, from the value the predecessor has to another.
ValidChanges(plan) ==
    LET x == plan.proposal
    IN  /\ x.changes # <<>>
        /\ \A i \in DOMAIN x.changes :
              LET c == x.changes[i]
              IN  /\ c.field \notin VolatileFields
                  /\ c.field \in MutableFields[OpportunityOf(plan).boundary]
                  /\ c.field = FieldOf[x.action]
                  /\ c.before = InitialOf(plan).state[c.field]
                  /\ c.after # c.before

\* The checks inside _decision().
Decidable(plan) ==
    LET x == plan.proposal
    IN  IF CreatesSuccessor(x.action)
        THEN ValidChanges(plan) /\ ValidActions(OpportunityOf(plan).boundary, x.next)
        ELSE /\ x.changes = <<>>
             /\ x.action = "no_change" => x.next = InitialOf(plan).actions

\* The checks inside _refusal(): the list must differ, and is not compared with the boundary.
Refusable(plan) ==
    plan.proposal.next # InitialOf(plan).actions /\ plan.proposal.conditions

\* revise(), up to its transaction.
BeginRevise(p, plan, request, sound) ==
    LET ruling == Ruling(request, plan)
    IN  /\ pending[p] = Idle
        /\ IF \/ sound /\ ruling = "decide" /\ Decidable(plan)
              \/ sound /\ ruling = "refuse" /\ Refusable(plan)
           THEN /\ Len(decisions) < MaxDecisions[OpportunityOf(plan).boundary]
                /\ pending' = [pending EXCEPT ![p] =
                       [kind |-> ruling, plan |-> plan, authority |-> request.authority,
                        shadow |-> request.shadow /\ ~plan.proposal.allowed]]
                /\ UNCHANGED <<chain, payloads, treatments, plans, claims, failures>>
           ELSE Failed

\* The state after a list of changes: the last one counts.
Changed(state, changes) ==
    LET last == changes[Len(changes)]
    IN  [state EXCEPT ![last.field] = last.after]

\* Mutant (RecordsAccepted): every decision that is not a refusal counts as a difference.
NotRefused(c, created) == c.kind = "decide"

\* A difference is claimed when a successor was compared, and found to differ.
Difference(c, created) == created # 0

Decision(c, plan, created) ==
    [opportunity |-> plan.opportunity, plan |-> c.plan, treatment |-> plan.treatment,
     action |-> IF c.kind = "refuse" THEN "refuse" ELSE DecisionOf[plan.proposal.action],
     changed |-> Difference(c, created), successor |-> created, next |-> plan.proposal.next,
     authority |-> c.authority, blocked |-> c.kind = "decide" /\ ~plan.proposal.allowed,
     shadow |-> c.kind = "decide" /\ c.shadow]

Successor(c, plan, opportunity, decision) ==
    [predecessor |-> OpportunityOf(plan).initial, run |-> OpportunityOf(plan).run,
     state |-> Changed(InitialOf(plan).state, plan.proposal.changes),
     actions |-> plan.proposal.next, changes |-> plan.proposal.changes, changed |-> TRUE,
     decision |-> decision, opportunity |-> opportunity,
     boundary |-> OpportunityOf(plan).boundary, authority |-> c.authority,
     treatment |-> plan.treatment]

\* The next run is scheduled and not executed.
NextRun(plan, successor) == [after |-> OpportunityOf(plan).run, successor |-> successor]

\* Mutant (Lineage): the next opportunity starts again from the first successor.
NotAdvanced(plan, successor, run) ==
    [OpportunityOf(plan) EXCEPT !.run = run, !.after = plan.opportunity]

\* The budget, the boundary and the harness are handed on as they are.
NextOpportunity(plan, successor, run) ==
    [OpportunityOf(plan) EXCEPT !.initial = successor, !.run = run,
                                !.after = plan.opportunity]

\* The transaction of a decision.
CommitDecision(p) ==
    LET c == pending[p]
        plan == c.plan
        d == Len(decisions) + 1
        s == Len(successors) + 1
        o == Len(opportunities) + 1
        r == Len(runs) + 1
    IN  /\ c.kind = "decide"
        /\ Len(decisions) < MaxDecisions[OpportunityOf(plan).boundary]
        /\ IF CreatesSuccessor(plan.proposal.action)
           THEN /\ decisions' = Append(decisions, Decision(c, plan, s))
                /\ successors' = Append(successors, Successor(c, plan, o, d))
                /\ runs' = Append(runs, NextRun(plan, s))
                /\ opportunities' = Append(opportunities, NextOpportunity(plan, s, r))
           ELSE /\ decisions' = Append(decisions, Decision(c, plan, 0))
                /\ UNCHANGED <<successors, runs, opportunities>>
        /\ pending' = [pending EXCEPT ![p] = Idle]
        /\ UNCHANGED <<harnesses, payloads, treatments, plans, claims, failures>>

\* The transaction of a refusal.
CommitRefusal(p) ==
    LET c == pending[p]
    IN  /\ c.kind = "refuse"
        /\ Len(decisions) < MaxDecisions[OpportunityOf(c.plan).boundary]
        /\ decisions' = Append(decisions, Decision(c, c.plan, 0))
        /\ pending' = [pending EXCEPT ![p] = Idle]
        /\ UNCHANGED <<harnesses, opportunities, successors, runs, payloads, treatments, plans,
                       claims, failures>>

-----------------------------------------------------------------------------
(* What the validator of stored records accepts *)

AcceptedHarness(x) == x.limit >= 1

\* A successor is no mere change of identity, and is persisted forward.
AcceptedSuccessor(x) ==
    /\ x.changed /\ x.changes # <<>>
    /\ \A i \in DOMAIN x.changes : /\ x.changes[i].field \notin VolatileFields
                                     /\ x.changes[i].before # x.changes[i].after
    /\ x.opportunity # 0

\* A decision that creates no successor claims no revision.
AcceptedDecision(x) ==
    /\ x.treatment \in Treatments
    /\ x.action \in {"refuse", "escalate", "no_change"} => ~x.changed

-----------------------------------------------------------------------------
(* Studies *)

\* The decisions listed for each treatment.  A decision may be listed again, so the number
\* that a study requires of each list says nothing about how many decisions there are.
DecisionsUnder(t) == {d \in DOMAIN decisions : decisions[d].treatment = t}
ListsUnder(t) == SUBSET DecisionsUnder(t) \ {{}}
Cells == [authentic : ListsUnder("authentic"), absent : ListsUnder("absent"),
          placebo : ListsUnder("placebo"), permuted : ListsUnder("permuted")]

ListedIn(cells, T) == UNION {cells[t] : t \in T}

\* Mutant (StudyHonest): the placebo and the permutation are not looked at.
SomeDiverges(cells) ==
    /\ \A d \in cells["authentic"] : decisions[d].changed
    /\ \A d \in cells["absent"] : ~decisions[d].changed

\* Every authentic decision made a difference and no control did.
Diverges(cells) ==
    /\ \A d \in cells["authentic"] : decisions[d].changed
    /\ \A d \in ListedIn(cells, Controls) : ~decisions[d].changed

\* assess_study(): every list is long enough, and of decisions under its own treatment.
AssessStudy(cells, matched, sound) ==
    IF sound
    THEN /\ Len(claims) < MaxClaims
         /\ claims' = Append(claims, [axis |-> "dependence", cells |-> cells,
                                     supported |-> matched /\ Diverges(cells)])
         /\ UNCHANGED <<chain, payloads, treatments, plans, failures, pending>>
    ELSE Failed

\* evaluate_utility(): an axis of its own, about one decision and held-out tasks.
EvaluateUtility(d, sound) ==
    IF sound
    THEN /\ Len(claims) < MaxClaims
         /\ claims' = Append(claims,
                [axis |-> "utility", supported |-> FALSE,
                 cells |-> [t \in Treatments |-> IF decisions[d].treatment = t THEN {d} ELSE {}]])
         /\ UNCHANGED <<chain, payloads, treatments, plans, failures, pending>>
    ELSE Failed

-----------------------------------------------------------------------------
Init ==
    /\ harnesses = <<>> /\ opportunities = <<>> /\ successors = <<>> /\ runs = <<>>
    /\ decisions = <<>> /\ treatments = <<>> /\ plans = {} /\ claims = <<>>
    /\ payloads = 0 /\ failures = 0
    /\ pending = [p \in Processes |-> Idle]

Start == \E p \in Processes, b \in Boundaries, a \in Authorities, s \in InitialStates,
            l \in ActionLists, sound \in BOOLEAN :
         \E limit \in 0 .. Ceiling[b] + 1 :
            BeginInitialize(p, [boundary |-> b, authority |-> a, limit |-> limit, state |-> s,
                                actions |-> l], sound)
Prepare == \E o \in DOMAIN opportunities, slots \in Artifacts, sound \in BOOLEAN :
              PrepareTreatments(o, slots, sound)
Propose == \E o \in DOMAIN opportunities, t \in DOMAIN treatments, treatment \in Treatments :
           \E x \in Proposals \cap Answers(opportunities[o].boundary, o, treatment), sound \in BOOLEAN :
              Plan(o, t, treatment, x, sound)
Revise == \E p \in Processes, plan \in plans, request \in Requests, sound \in BOOLEAN :
             BeginRevise(p, plan, request, sound)
Study == \E cells \in Cells, matched, sound \in BOOLEAN : AssessStudy(cells, matched, sound)

Next ==
    \/ \E sound \in BOOLEAN : CreatePayloads(sound)
    \/ Start
    \/ \E p \in Processes : CommitInitialize(p)
    \/ Prepare
    \/ Propose
    \/ Revise
    \/ \E p \in Processes : CommitDecision(p)
    \/ \E p \in Processes : CommitRefusal(p)
    \/ Study
    \/ \E d \in DOMAIN decisions, sound \in BOOLEAN :
          EvaluateUtility(d, sound)

Spec == Init /\ [][Next]_vars

-----------------------------------------------------------------------------
(* Properties *)

Position(q) == DOMAIN q \cup {0}

\* Every record has the fields of its type, and refers to records that are stored.
TypeOK ==
    /\ {payloads, failures} \subseteq Nat
    /\ \A h \in DOMAIN harnesses :
          /\ harnesses[h].boundary \in Boundaries
          /\ harnesses[h].initial \in DOMAIN successors
          /\ harnesses[h].first \in DOMAIN opportunities
    /\ \A o \in DOMAIN opportunities :
          LET x == opportunities[o]
          IN  /\ x.boundary \in Boundaries /\ x.budget \in Nat
              /\ x.initial \in DOMAIN successors /\ x.run \in Position(runs)
              /\ x.harness \in DOMAIN harnesses /\ x.after \in Position(opportunities)
    /\ \A s \in DOMAIN successors :
          LET x == successors[s]
          IN  /\ x.state \in States /\ x.actions \in Seq(Actions)
              /\ x.predecessor \in Position(successors) /\ x.decision \in DOMAIN decisions
              /\ x.opportunity \in DOMAIN opportunities
    /\ \A r \in DOMAIN runs :
          runs[r].after \in Position(runs) /\ runs[r].successor \in DOMAIN successors
    /\ \A d \in DOMAIN decisions :
          LET x == decisions[d]
          IN  /\ x.opportunity \in DOMAIN opportunities /\ x.plan \in plans \cup {None}
              /\ x.successor \in Position(successors) /\ x.treatment \in Treatments
    /\ \A t \in DOMAIN treatments : treatments[t].opportunity \in DOMAIN opportunities
    /\ \A x \in plans : /\ x.opportunity \in DOMAIN opportunities
                        /\ x.material \in DOMAIN treatments
                        /\ x.proposal \in Proposals /\ x.treatment \in Treatments

\* A successor, the decision that made it, its run and its opportunity are one step of one
\* chain: the successor succeeds the one that the decided opportunity started from, the run the
\* run of that opportunity; budget, boundary and harness are those of the opportunity before.
\* Decisions may be repeated, so the chains branch, but never join.
Lineage ==
    \A s \in DOMAIN successors :
       LET x == successors[s]
           o == opportunities[x.opportunity]
       IN  /\ o.initial = s
           /\ decisions[x.decision].treatment = x.treatment
           /\ x.predecessor # 0 =>
                 LET before == opportunities[o.after]
                 IN  /\ x.predecessor < s /\ before.initial = x.predecessor
                     /\ decisions[x.decision].opportunity = o.after
                     /\ decisions[x.decision].successor = s
                     /\ runs[o.run] = [after |-> before.run, successor |-> s]
                     /\ o.boundary = before.boundary /\ o.budget = before.budget
                     /\ o.harness = before.harness

\* However long the chain: every specification a harness arrives at agrees with its first one
\* in what the boundary does not let change, allows permitted actions only, was approved by a
\* named authority, and was not made by a decision that the study policy blocked, unless that
\* policy was only shadowed.
SuccessorsPermitted ==
    \A o \in DOMAIN opportunities :
       LET h == harnesses[opportunities[o].harness]
           s == successors[opportunities[o].initial]
       IN  /\ opportunities[o].boundary = h.boundary
           /\ \A f \in Fields \ MutableFields[h.boundary] :
                 s.state[f] = successors[h.initial].state[f]
           /\ \A i \in DOMAIN s.actions : s.actions[i] \in PermittedActions[h.boundary]
           /\ MayApprove(h.boundary, s.authority)
           /\ decisions[s.decision].blocked => decisions[s.decision].shadow

\* The validator reads every record again before it is stored, by rules of its own; no record
\* that a call has taken through its tests is refused there.  (Such a refusal leaves no receipt.)
RecordsAccepted ==
    /\ \A h \in DOMAIN harnesses : AcceptedHarness(harnesses[h])
    /\ \A s \in DOMAIN successors : AcceptedSuccessor(successors[s])
    /\ \A d \in DOMAIN decisions : AcceptedDecision(decisions[d])

\* A supported study rests on what was stored: every authentic decision it lists has a
\* successor specification, and no decision under a control has.
StudyHonest ==
    \A c \in {claims[i] : i \in DOMAIN claims} :
       c.supported =>
          /\ \A d \in c.cells["authentic"] :
                \E s \in DOMAIN successors : successors[s].decision = d
          /\ \A d \in ListedIn(c.cells, Controls), s \in DOMAIN successors :
                successors[s].decision # d

=============================================================================
