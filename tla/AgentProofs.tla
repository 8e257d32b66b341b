---------------------------- MODULE AgentProofs ----------------------------
(***************************************************************************)
(* Theorems about Agent, for every set of processes, boundaries, proposals *)
(* and requests, and for every bound.                                      *)
(*                                                                         *)
(* The argument: the records of the chain are only appended, so what an    *)
(* old record says of older ones is kept (OldOpportunity .. OldSuccessor), *)
(* and only the three transactions that append to the chain have to be     *)
(* looked at.  What they append is right because of what the call tested   *)
(* before, which PendingOK remembers, in terms of a plan and of the        *)
(* opportunity the plan is about, both of which stay as they were.         *)
(***************************************************************************)
EXTENDS Agent, SharedLemmas

ChainGrows ==
    /\ Grows(harnesses, harnesses') /\ Grows(opportunities, opportunities')
    /\ Grows(successors, successors') /\ Grows(runs, runs') /\ Grows(decisions, decisions')
    /\ plans \subseteq plans'

Sequences ==
    /\ Sequence(harnesses) /\ Sequence(opportunities) /\ Sequence(successors)
    /\ Sequence(runs) /\ Sequence(decisions)

HarnessOK(h) ==
    LET x == harnesses[h]
    IN  /\ x.boundary \in Boundaries
        /\ x.initial \in DOMAIN successors /\ x.first \in DOMAIN opportunities
        /\ AcceptedHarness(x)

OpportunityOK(o) ==
    LET x == opportunities[o]
    IN  x \in [boundary : Boundaries, budget : Nat, initial : DOMAIN successors,
               run : Position(runs), harness : DOMAIN harnesses,
               after : Position(opportunities)]

\* SuccessorsPermitted, for one opportunity.
PermittedOK(o) ==
    LET h == harnesses[opportunities[o].harness]
        s == successors[opportunities[o].initial]
    IN  /\ opportunities[o].boundary = h.boundary
        /\ \A f \in Fields \ MutableFields[h.boundary] :
              s.state[f] = successors[h.initial].state[f]
        /\ \A i \in DOMAIN s.actions : s.actions[i] \in PermittedActions[h.boundary]
        /\ MayApprove(h.boundary, s.authority)
        /\ decisions[s.decision].blocked => decisions[s.decision].shadow

SuccessorOK(s) ==
    LET x == successors[s]
    IN  /\ x.state \in States /\ x.actions \in Seq(Actions)
        /\ x.predecessor \in Position(successors) /\ x.decision \in DOMAIN decisions
        /\ x.opportunity \in DOMAIN opportunities
        /\ AcceptedSuccessor(x)

\* Lineage, for one successor; what it succeeds is stored.
LineageOK(s) ==
    LET x == successors[s]
        o == opportunities[x.opportunity]
    IN  /\ o.initial = s
        /\ decisions[x.decision].treatment = x.treatment
        /\ x.predecessor # 0 =>
              LET before == opportunities[o.after]
              IN  /\ o.after \in DOMAIN opportunities /\ o.run \in DOMAIN runs
                  /\ x.predecessor < s /\ before.initial = x.predecessor
                  /\ decisions[x.decision].opportunity = o.after
                  /\ decisions[x.decision].successor = s
                  /\ runs[o.run] = [after |-> before.run, successor |-> s]
                  /\ o.boundary = before.boundary /\ o.budget = before.budget
                  /\ o.harness = before.harness

RunOK(r) == runs[r].after \in Position(runs) /\ runs[r].successor \in DOMAIN successors

DecisionOK(d) ==
    LET x == decisions[d]
    IN  /\ x.opportunity \in DOMAIN opportunities /\ x.plan \in plans \cup {None}
        /\ x.successor \in Position(successors) /\ AcceptedDecision(x)

\* A decision says that it made a difference when a successor says that this decision made it.
ChangedExact ==
    \A d \in DOMAIN decisions :
       decisions[d].changed <=> \E s \in DOMAIN successors : successors[s].decision = d

ChainInv ==
    /\ Sequences
    /\ \A h \in DOMAIN harnesses : HarnessOK(h)
    /\ \A o \in DOMAIN opportunities : OpportunityOK(o) /\ PermittedOK(o)
    /\ \A s \in DOMAIN successors : SuccessorOK(s) /\ LineageOK(s)
    /\ \A r \in DOMAIN runs : RunOK(r)
    /\ \A d \in DOMAIN decisions : DecisionOK(d)
    /\ ChangedExact

PlanOK(x) ==
    /\ x.opportunity \in DOMAIN opportunities /\ x.material \in DOMAIN treatments
    /\ x.proposal \in Proposals /\ x.treatment \in Treatments

MaterialInv ==
    /\ {payloads, failures} \subseteq Nat
    /\ Sequence(treatments)
    /\ \A t \in DOMAIN treatments : treatments[t].opportunity \in DOMAIN opportunities
    /\ \A x \in plans : PlanOK(x)

\* What is known of a harness that is about to be stored, and
SetupOK(x) ==
    /\ x.boundary \in Boundaries /\ x.limit \in 1 .. Ceiling[x.boundary]
    /\ x.state \in InitialStates /\ x.actions \in ActionLists
    /\ ValidActions(x.boundary, x.actions) /\ MayApprove(x.boundary, x.authority)

\* of a decision.
DecidedOK(c) ==
    LET b == OpportunityOf(c.plan).boundary
        x == c.plan.proposal
    IN  /\ MayApprove(b, c.authority)
        /\ x.allowed \/ c.shadow
        /\ CreatesSuccessor(x.action) =>
              /\ x.changes # <<>> /\ ValidActions(b, x.next)
              /\ \A i \in DOMAIN x.changes : /\ x.changes[i].field \notin VolatileFields
                                             /\ x.changes[i].field \in MutableFields[b]
                                             /\ x.changes[i].before # x.changes[i].after

PendingOK(c) ==
    /\ c.kind = "initialize" => SetupOK(c.setup)
    /\ c.kind \in {"decide", "refuse"} => c.plan \in plans
    /\ c.kind = "decide" => DecidedOK(c)

PendingInv == DOMAIN pending = Processes /\ \A p \in Processes : PendingOK(pending[p])

\* A supported claim rests on decisions that are stored, and on what they say.
ClaimOK(c) ==
    c.supported =>
       /\ \A d \in c.cells["authentic"] : d \in DOMAIN decisions /\ decisions[d].changed
       /\ \A d \in ListedIn(c.cells, Controls) : d \in DOMAIN decisions /\ ~decisions[d].changed

ClaimInv == Sequence(claims) /\ \A i \in DOMAIN claims : ClaimOK(claims[i])

IInv == ChainInv /\ MaterialInv /\ PendingInv /\ ClaimInv

-----------------------------------------------------------------------------
(* What is in the chain stays right *)

\* What a stored harness says of older ones stays so.
LEMMA OldHarness ==
    ASSUME ChainInv, ChainGrows, NEW h \in DOMAIN harnesses
    PROVE  HarnessOK(h)'
BY DEF ChainInv, ChainGrows, Grows, HarnessOK

\* What a stored opportunity refers to stays stored.
LEMMA OldOpportunity ==
    ASSUME ChainInv, ChainGrows, NEW o \in DOMAIN opportunities
    PROVE  OpportunityOK(o)'
BY DEF ChainInv, ChainGrows, Grows, OpportunityOK, Position

\* What the boundary permits of a stored opportunity stays permitted.
LEMMA OldPermitted ==
    ASSUME ChainInv, ChainGrows, NEW o \in DOMAIN opportunities
    PROVE  PermittedOK(o)'
<1> DEFINE x == opportunities[o]
<1>1. /\ x.harness \in DOMAIN harnesses /\ x.initial \in DOMAIN successors
      /\ harnesses[x.harness].initial \in DOMAIN successors
      /\ successors[x.initial].decision \in DOMAIN decisions
  BY DEF ChainInv, OpportunityOK, HarnessOK, SuccessorOK
<1>2. /\ opportunities'[o] = x /\ harnesses'[x.harness] = harnesses[x.harness]
      /\ successors'[x.initial] = successors[x.initial]
      /\ successors'[harnesses[x.harness].initial] = successors[harnesses[x.harness].initial]
      /\ decisions'[successors[x.initial].decision] = decisions[successors[x.initial].decision]
  BY <1>1 DEF ChainGrows, Grows
<1>3. PermittedOK(o)
  BY DEF ChainInv
<1> QED BY <1>2, <1>3 DEF PermittedOK

\* What a stored successor refers to stays, and stays acceptable.
LEMMA OldSuccessor ==
    ASSUME ChainInv, ChainGrows, NEW s \in DOMAIN successors
    PROVE  SuccessorOK(s)'
BY DEF ChainInv, ChainGrows, Grows, SuccessorOK, Position

\* The line behind a stored successor stays as it is.
LEMMA OldLineage ==
    ASSUME ChainInv, ChainGrows, NEW s \in DOMAIN successors
    PROVE  LineageOK(s)'
<1> DEFINE x == successors[s]
           o == opportunities[x.opportunity]
<1>1. SuccessorOK(s) /\ LineageOK(s)
  BY DEF ChainInv
<1>2. /\ successors'[s] = x /\ opportunities'[x.opportunity] = o
      /\ decisions'[x.decision] = decisions[x.decision]
  BY <1>1 DEF ChainGrows, Grows, SuccessorOK
<1>3. CASE x.predecessor = 0
  BY <1>1, <1>2, <1>3 DEF LineageOK
<1>4. CASE x.predecessor # 0
  <2>1. o.after \in DOMAIN opportunities /\ o.run \in DOMAIN runs
    BY <1>1, <1>4 DEF LineageOK
  <2>2. /\ o.after \in DOMAIN opportunities' /\ opportunities'[o.after] = opportunities[o.after]
        /\ o.run \in DOMAIN runs' /\ runs'[o.run] = runs[o.run]
    BY <2>1 DEF ChainGrows, Grows
  <2> QED BY <1>1, <1>2, <1>4, <2>2 DEF LineageOK
<1> QED BY <1>3, <1>4

\* The successor that a stored run names stays stored.
LEMMA OldRun ==
    ASSUME ChainInv, ChainGrows, NEW r \in DOMAIN runs
    PROVE  RunOK(r)'
BY DEF ChainInv, ChainGrows, Grows, RunOK, Position

\* What a stored decision says of its plan and successor stays so.
LEMMA OldDecision ==
    ASSUME ChainInv, ChainGrows, NEW d \in DOMAIN decisions
    PROVE  DecisionOK(d)'
BY DEF ChainInv, ChainGrows, Grows, DecisionOK, Position

\* A step that stores nothing in the chain keeps it.
LEMMA ChainKept ==
    ASSUME ChainInv, UNCHANGED chain, plans \subseteq plans'
    PROVE  ChainInv' /\ ChainGrows
<1>1. ChainGrows
  BY DEF ChainGrows, Grows, chain, ChainInv, Sequences
<1>2. Sequences' /\ ChangedExact'
  BY DEF chain, ChainInv, Sequences, ChangedExact
<1>3. \A o \in DOMAIN opportunities' : OpportunityOK(o)' /\ PermittedOK(o)'
  BY <1>1, OldOpportunity, OldPermitted DEF chain
<1>4. \A s \in DOMAIN successors' : SuccessorOK(s)' /\ LineageOK(s)'
  BY <1>1, OldSuccessor, OldLineage DEF chain
<1>5. \A h \in DOMAIN harnesses' : HarnessOK(h)'
  BY <1>1, OldHarness DEF chain
<1>6. \A r \in DOMAIN runs' : RunOK(r)'
  BY <1>1, OldRun DEF chain
<1>7. \A d \in DOMAIN decisions' : DecisionOK(d)'
  BY <1>1, OldDecision DEF chain
<1> QED BY <1>1, <1>2, <1>3, <1>4, <1>5, <1>6, <1>7 DEF ChainInv

\* Appending adds one place, after all the others.
LEMMA OneMore ==
    ASSUME NEW q, Sequence(q), NEW e, NEW w, w = Append(q, e)
    PROVE  /\ Grows(q, w) /\ Len(q) + 1 \in Nat \ {0} /\ Len(q) + 1 \notin DOMAIN q
           /\ DOMAIN q = 1 .. Len(q) /\ DOMAIN w = DOMAIN q \cup {Len(q) + 1}
           /\ w[Len(q) + 1] = e
<1>1. /\ Sequence(w) /\ Len(q) \in Nat /\ DOMAIN q = 1 .. Len(q)
      /\ DOMAIN w = 1 .. Len(q) + 1 /\ w[Len(q) + 1] = e
      /\ \A i \in DOMAIN q : i \in DOMAIN w /\ w[i] = q[i]
  BY Appended
<1> QED BY <1>1 DEF Grows

\* A sequence that stays as it is has kept what it held.
LEMMA SameGrows ==
    ASSUME NEW q, Sequence(q)
    PROVE  Grows(q, q)
BY DEF Grows

-----------------------------------------------------------------------------
(* The transactions that append to the chain *)

\* A harness, its first opportunity, decision and successor refer to each other.
LEMMA InitializeKeepsChain ==
    ASSUME ChainInv, PendingInv, NEW p \in Processes, CommitInitialize(p)
    PROVE  ChainInv' /\ ChainGrows
<1>a. \E c, h, o, s, d : /\ c = pending[p].setup /\ h = Len(harnesses) + 1
                           /\ o = Len(opportunities) + 1 /\ s = Len(successors) + 1
                           /\ d = Len(decisions) + 1
  OBVIOUS
<1>b. PICK c, h, o, s, d : /\ c = pending[p].setup /\ h = Len(harnesses) + 1
                           /\ o = Len(opportunities) + 1 /\ s = Len(successors) + 1
                           /\ d = Len(decisions) + 1
  BY <1>a
<1>1. /\ harnesses' = Append(harnesses, Harness(c, s, o))
      /\ opportunities' = Append(opportunities, FirstOpportunity(c, s, h))
      /\ successors' = Append(successors, FirstSuccessor(c, o, d))
      /\ decisions' = Append(decisions, FirstDecision(c, o))
      /\ runs' = runs /\ plans' = plans
  BY <1>b DEF CommitInitialize
<1>2. Sequences
  BY DEF ChainInv
<1>3. SetupOK(c)
  BY <1>b DEF PendingInv, PendingOK, CommitInitialize
<1>4. /\ Grows(harnesses, harnesses') /\ h \notin DOMAIN harnesses
      /\ DOMAIN harnesses' = DOMAIN harnesses \cup {h} /\ harnesses'[h] = Harness(c, s, o)
  BY <1>b, <1>1, <1>2, OneMore DEF Sequences
<1>5. /\ Grows(opportunities, opportunities') /\ o \in Nat \ {0}
      /\ DOMAIN opportunities' = DOMAIN opportunities \cup {o}
      /\ opportunities'[o] = FirstOpportunity(c, s, h)
  BY <1>b, <1>1, <1>2, OneMore DEF Sequences
<1>6. /\ Grows(successors, successors') /\ s \in Nat \ {0}
      /\ DOMAIN successors' = DOMAIN successors \cup {s}
      /\ successors'[s] = FirstSuccessor(c, o, d)
  BY <1>b, <1>1, <1>2, OneMore DEF Sequences
<1>7. /\ Grows(decisions, decisions') /\ d \notin DOMAIN decisions
      /\ DOMAIN decisions' = DOMAIN decisions \cup {d}
      /\ decisions'[d] = FirstDecision(c, o)
  BY <1>b, <1>1, <1>2, OneMore DEF Sequences
<1>8. ChainGrows
  BY <1>1, <1>2, <1>4, <1>5, <1>6, <1>7, SameGrows DEF ChainGrows, Sequences
<1>9. \A i \in DOMAIN harnesses' : HarnessOK(i)'
  <2>1. HarnessOK(h)'
    BY <1>3, <1>4, <1>5, <1>6, BoundaryAssumption DEF HarnessOK, Harness, SetupOK, AcceptedHarness
  <2> QED BY <2>1, <1>4, <1>8, OldHarness
<1>10. \A i \in DOMAIN opportunities' : OpportunityOK(i)' /\ PermittedOK(i)'
  <2>1. OpportunityOK(o)'
    BY <1>3, <1>4, <1>5, <1>6, BoundaryAssumption
       DEF OpportunityOK, FirstOpportunity, SetupOK, Position
  <2>2. PermittedOK(o)'
    <3>1. /\ opportunities'[o].harness = h /\ opportunities'[o].initial = s
          /\ opportunities'[o].boundary = c.boundary
      BY <1>5 DEF FirstOpportunity
    <3>2. harnesses'[h].boundary = c.boundary /\ harnesses'[h].initial = s
      BY <1>4 DEF Harness
    <3>3. /\ successors'[s].actions = c.actions /\ successors'[s].authority = c.authority
          /\ successors'[s].decision = d
      BY <1>6 DEF FirstSuccessor
    <3>4. ~decisions'[d].blocked
      BY <1>7 DEF FirstDecision
    <3> QED BY <3>1, <3>2, <3>3, <3>4, <1>3 DEF PermittedOK, SetupOK, ValidActions
  <2> QED BY <2>1, <2>2, <1>5, <1>8, OldOpportunity, OldPermitted
<1>11. \A i \in DOMAIN successors' : SuccessorOK(i)' /\ LineageOK(i)'
  <2>1. SuccessorOK(s)'
    <3>1. c.state \in States /\ c.actions \in Seq(Actions) /\ c.state # None
      BY <1>3, InputAssumption DEF SetupOK
    <3>2. AcceptedSuccessor(FirstSuccessor(c, o, d))
      BY <3>1, <1>5 DEF AcceptedSuccessor, FirstSuccessor, VolatileFields
    <3> QED BY <3>1, <3>2, <1>5, <1>6, <1>7 DEF SuccessorOK, FirstSuccessor, Position
  <2>2. LineageOK(s)'
    BY <1>5, <1>6, <1>7 DEF LineageOK, FirstSuccessor, FirstOpportunity, FirstDecision
  <2> QED BY <2>1, <2>2, <1>6, <1>8, OldSuccessor, OldLineage
<1>12. \A i \in DOMAIN runs' : RunOK(i)'
  BY <1>1, <1>8, OldRun
<1>13. \A i \in DOMAIN decisions' : DecisionOK(i)'
  <2>1. DecisionOK(d)'
    BY <1>5, <1>7 DEF DecisionOK, FirstDecision, AcceptedDecision, Position, Treatments
  <2> QED BY <2>1, <1>7, <1>8, OldDecision
<1>14. ChangedExact'
  <2>1. decisions'[d].changed /\ successors'[s].decision = d
    BY <1>6, <1>7 DEF FirstDecision, FirstSuccessor
  <2>2. ChangedExact
    BY DEF ChainInv
  <2> QED BY <2>1, <2>2, <1>6, <1>7 DEF ChangedExact, Grows
<1>15. Sequences'
  BY <1>8 DEF ChainGrows, Grows, Sequences
<1> QED BY <1>8, <1>9, <1>10, <1>11, <1>12, <1>13, <1>14, <1>15 DEF ChainInv

\* A list of changes of permitted fields leaves the others as they are.
LEMMA ChangedKeeps ==
    ASSUME NEW state \in States, NEW changes \in Seq(Changes), changes # <<>>, NEW M,
           \A i \in DOMAIN changes : changes[i].field \in M
    PROVE  /\ Changed(state, changes) \in States
           /\ \A f \in Fields \ M : Changed(state, changes)[f] = state[f]
<1>1. Len(changes) \in DOMAIN changes
  OBVIOUS
<1>2. PICK last \in Changes : last = changes[Len(changes)] /\ last.field \in M
  BY <1>1
<1>3. Changed(state, changes) = [state EXCEPT ![last.field] = last.after]
  BY <1>2 DEF Changed
<1>4. last.after \in Values \cup {None}
  BY DEF Changes
<1> QED BY <1>2, <1>3, <1>4 DEF States

\* A decision that creates a successor appends one step of a chain to it.
LEMMA DecisionKeepsChain ==
    ASSUME ChainInv, MaterialInv, PendingInv, NEW p \in Processes, CommitDecision(p),
           CreatesSuccessor(pending[p].plan.proposal.action)
    PROVE  ChainInv' /\ ChainGrows
<1>a. \E c, plan, r, o, s, d : /\ c = pending[p] /\ plan = c.plan /\ r = Len(runs) + 1
                              /\ o = Len(opportunities) + 1 /\ s = Len(successors) + 1
                              /\ d = Len(decisions) + 1
  OBVIOUS
<1>b. PICK c, plan, r, o, s, d : /\ c = pending[p] /\ plan = c.plan /\ r = Len(runs) + 1
                               /\ o = Len(opportunities) + 1 /\ s = Len(successors) + 1
                               /\ d = Len(decisions) + 1
  BY <1>a
<1>g. \E dec, suc, run, opp : /\ dec = Decision(c, plan, s) /\ suc = Successor(c, plan, o, d)
                              /\ run = NextRun(plan, s) /\ opp = NextOpportunity(plan, s, r)
  OBVIOUS
<1>h. PICK dec, suc, run, opp : /\ dec = Decision(c, plan, s) /\ suc = Successor(c, plan, o, d)
                               /\ run = NextRun(plan, s) /\ opp = NextOpportunity(plan, s, r)
  BY <1>g
<1>1. /\ decisions' = Append(decisions, dec) /\ successors' = Append(successors, suc)
      /\ runs' = Append(runs, run) /\ opportunities' = Append(opportunities, opp)
      /\ harnesses' = harnesses /\ plans' = plans /\ c.kind = "decide"
  BY <1>b, <1>h DEF CommitDecision
<1>2. Sequences
  BY DEF ChainInv
<1>3. plan \in plans /\ DecidedOK(c)
  BY <1>1, <1>b DEF PendingInv, PendingOK
<1>c. \E x, before : x = plan.proposal /\ before = opportunities[plan.opportunity]
  OBVIOUS
<1>d. PICK x, before : x = plan.proposal /\ before = opportunities[plan.opportunity]
  BY <1>c
<1>e. \E first : first = successors[before.initial]
  OBVIOUS
<1>f. PICK first : first = successors[before.initial]
  BY <1>e
<1>4. /\ plan.opportunity \in DOMAIN opportunities /\ plan.treatment \in Treatments
      /\ x \in Proposals /\ CreatesSuccessor(x.action)
  BY <1>b, <1>d, <1>3 DEF MaterialInv, PlanOK
<1>5. /\ OpportunityOK(plan.opportunity) /\ PermittedOK(plan.opportunity)
      /\ before.initial \in DOMAIN successors /\ before.harness \in DOMAIN harnesses
      /\ before.run \in Position(runs) /\ before.boundary \in Boundaries /\ before.budget \in Nat
  BY <1>4, <1>d DEF ChainInv, OpportunityOK
<1>6. first.state \in States
  BY <1>5, <1>f DEF ChainInv, SuccessorOK
<1>7. /\ MayApprove(before.boundary, c.authority) /\ (x.allowed \/ c.shadow)
      /\ x.changes # <<>> /\ ValidActions(before.boundary, x.next)
      /\ \A i \in DOMAIN x.changes : /\ x.changes[i].field \notin VolatileFields
                                     /\ x.changes[i].field \in MutableFields[before.boundary]
                                     /\ x.changes[i].before # x.changes[i].after
  BY <1>3, <1>4, <1>b, <1>d DEF DecidedOK, OpportunityOf
<1>8. x.changes \in Seq(Changes) /\ x.next \in Seq(Actions)
  BY <1>4, InputAssumption
<1>9. /\ Grows(opportunities, opportunities') /\ o \in Nat \ {0}
      /\ DOMAIN opportunities' = DOMAIN opportunities \cup {o}
      /\ opportunities'[o] = opp
  BY <1>b, <1>1, <1>2, OneMore DEF Sequences
<1>10. /\ Grows(successors, successors') /\ s \in Nat \ {0} /\ DOMAIN successors = 1 .. Len(successors)
       /\ DOMAIN successors' = DOMAIN successors \cup {s}
       /\ successors'[s] = suc
  BY <1>b, <1>1, <1>2, OneMore DEF Sequences
<1>11. /\ Grows(decisions, decisions') /\ d \notin DOMAIN decisions
       /\ DOMAIN decisions' = DOMAIN decisions \cup {d}
       /\ decisions'[d] = dec
  BY <1>b, <1>1, <1>2, OneMore DEF Sequences
<1>12. /\ Grows(runs, runs') /\ r \in Nat \ {0}
       /\ DOMAIN runs' = DOMAIN runs \cup {r} /\ runs'[r] = run
  BY <1>b, <1>1, <1>2, OneMore DEF Sequences
<1>13. ChainGrows
  BY <1>1, <1>2, <1>9, <1>10, <1>11, <1>12, SameGrows DEF ChainGrows, Sequences
<1>14. opportunities'[o] = [boundary |-> before.boundary, budget |-> before.budget, initial |-> s,
                            run |-> r, harness |-> before.harness, after |-> plan.opportunity]
  BY <1>5, <1>9, <1>d, <1>h DEF NextOpportunity, OpportunityOf, OpportunityOK
<1>15. successors'[s] = [predecessor |-> before.initial, run |-> before.run,
          state |-> Changed(first.state, x.changes), actions |-> x.next, changes |-> x.changes,
          changed |-> TRUE, decision |-> d, opportunity |-> o, boundary |-> before.boundary,
          authority |-> c.authority, treatment |-> plan.treatment]
  BY <1>10, <1>d, <1>f, <1>h DEF Successor, OpportunityOf, InitialOf
<1>16. /\ decisions'[d].opportunity = plan.opportunity /\ decisions'[d].plan = plan
       /\ decisions'[d].treatment = plan.treatment
       /\ decisions'[d].successor = s /\ decisions'[d].action = DecisionOf[x.action]
       /\ decisions'[d].changed = TRUE
       /\ decisions'[d].blocked = ~x.allowed /\ decisions'[d].shadow = (TRUE /\ c.shadow)
  <2>1. decisions'[d] = Decision(c, plan, s) /\ c.kind = "decide"
    BY <1>1, <1>11, <1>h
  <2>2. /\ decisions'[d].opportunity = plan.opportunity /\ decisions'[d].plan = plan
        /\ decisions'[d].treatment = plan.treatment
        /\ decisions'[d].successor = s /\ decisions'[d].action = DecisionOf[x.action]
    BY <2>1, <1>b, <1>d DEF Decision
  <2>3. decisions'[d].changed = (s # 0)
    BY <2>1 DEF Decision, Difference
  <2>4. decisions'[d].blocked = (c.kind = "decide" /\ ~x.allowed)
    BY <2>1, <1>d DEF Decision
  <2>5. decisions'[d].shadow = (c.kind = "decide" /\ c.shadow)
    BY <2>1 DEF Decision
  <2>6. s # 0
    BY <1>10
  <2> QED BY <2>1, <2>2, <2>3, <2>4, <2>5, <2>6
<1>17. runs'[r] = [after |-> before.run, successor |-> s]
  BY <1>12, <1>d, <1>h DEF NextRun, OpportunityOf
<1>18. \A i \in DOMAIN opportunities' : OpportunityOK(i)' /\ PermittedOK(i)'
  <2>1. OpportunityOK(o)'
    BY <1>1, <1>4, <1>5, <1>9, <1>10, <1>12, <1>14 DEF OpportunityOK, Position
  <2>2. PermittedOK(o)'
    <3>1. /\ Changed(first.state, x.changes) \in States
          /\ \A f \in Fields \ MutableFields[before.boundary] :
                Changed(first.state, x.changes)[f] = first.state[f]
      BY <1>6, <1>7, <1>8, ChangedKeeps
    <3>2. harnesses[before.harness].initial \in DOMAIN successors
      BY <1>5 DEF ChainInv, HarnessOK
    <3>3. /\ harnesses'[before.harness] = harnesses[before.harness]
          /\ successors'[harnesses[before.harness].initial]
               = successors[harnesses[before.harness].initial]
      BY <1>1, <1>10, <3>2 DEF Grows
    <3>4. /\ before.boundary = harnesses[before.harness].boundary
          /\ \A f \in Fields \ MutableFields[before.boundary] :
                first.state[f] = successors[harnesses[before.harness].initial].state[f]
      BY <1>5, <1>d, <1>f DEF PermittedOK
    <3>5. \A i \in DOMAIN x.next : x.next[i] \in PermittedActions[before.boundary]
      BY <1>7 DEF ValidActions
    <3>6. decisions'[d].blocked => decisions'[d].shadow
      BY <1>7, <1>16
    <3>7. /\ opportunities'[o].harness = before.harness /\ opportunities'[o].initial = s
          /\ opportunities'[o].boundary = before.boundary
      BY <1>14
    <3>8. /\ successors'[s].state = Changed(first.state, x.changes)
          /\ successors'[s].actions = x.next /\ successors'[s].authority = c.authority
          /\ successors'[s].decision = d
      BY <1>15
    <3>9. harnesses'[before.harness].boundary = before.boundary
      BY <3>3, <3>4
    <3>10. \A f \in Fields \ MutableFields[before.boundary] :
             successors'[s].state[f] = successors'[harnesses'[before.harness].initial].state[f]
      BY <3>1, <3>3, <3>4, <3>8
    <3>11. opportunities'[o].boundary = harnesses'[opportunities'[o].harness].boundary
      BY <3>7, <3>9
    <3>12. \A f \in Fields \ MutableFields[harnesses'[opportunities'[o].harness].boundary] :
             successors'[opportunities'[o].initial].state[f]
               = successors'[harnesses'[opportunities'[o].harness].initial].state[f]
      BY <3>7, <3>9, <3>10
    <3>13. \A i \in DOMAIN successors'[opportunities'[o].initial].actions :
             successors'[opportunities'[o].initial].actions[i]
               \in PermittedActions[harnesses'[opportunities'[o].harness].boundary]
      BY <3>5, <3>7, <3>8, <3>9
    <3>14. MayApprove(harnesses'[opportunities'[o].harness].boundary,
                      successors'[opportunities'[o].initial].authority)
      BY <1>7, <3>7, <3>8, <3>9
    <3>15. decisions'[successors'[opportunities'[o].initial].decision].blocked
             => decisions'[successors'[opportunities'[o].initial].decision].shadow
      BY <3>6, <3>7, <3>8
    <3> QED BY <3>11, <3>12, <3>13, <3>14, <3>15 DEF PermittedOK
  <2> QED BY <2>1, <2>2, <1>9, <1>13, OldOpportunity, OldPermitted
<1>19. \A i \in DOMAIN successors' : SuccessorOK(i)' /\ LineageOK(i)'
  <2>1. SuccessorOK(s)'
    <3>1. Changed(first.state, x.changes) \in States
      BY <1>6, <1>7, <1>8, ChangedKeeps
    <3>2. AcceptedSuccessor(successors'[s])
      BY <1>7, <1>9, <1>15 DEF AcceptedSuccessor
    <3> QED BY <3>1, <3>2, <1>5, <1>8, <1>9, <1>10, <1>11, <1>15 DEF SuccessorOK, Position
  <2>2. LineageOK(s)'
    <3>1. opportunities'[plan.opportunity] = before /\ plan.opportunity \in DOMAIN opportunities'
      BY <1>4, <1>9, <1>d DEF Grows
    <3>2. before.initial < s
      BY <1>5, <1>10, <1>b
    <3>3. /\ opportunities'[o].initial = s /\ opportunities'[o].after = plan.opportunity
          /\ opportunities'[o].run = r /\ opportunities'[o].boundary = before.boundary
          /\ opportunities'[o].budget = before.budget
          /\ opportunities'[o].harness = before.harness
      BY <1>14
    <3>4. /\ successors'[s].predecessor = before.initial /\ successors'[s].opportunity = o
          /\ successors'[s].decision = d /\ successors'[s].treatment = plan.treatment
      BY <1>15
    <3> QED BY <3>1, <3>2, <3>3, <3>4, <1>12, <1>16, <1>17 DEF LineageOK
  <2> QED BY <2>1, <2>2, <1>10, <1>13, OldSuccessor, OldLineage
<1>20. \A i \in DOMAIN runs' : RunOK(i)'
  <2>1. RunOK(r)'
    BY <1>5, <1>10, <1>12, <1>17 DEF RunOK, Position
  <2> QED BY <2>1, <1>12, <1>13, OldRun
<1>21. \A i \in DOMAIN decisions' : DecisionOK(i)'
  <2>1. decisions'[d].action \notin {"refuse", "escalate", "no_change"}
    BY <1>4, <1>16 DEF CreatesSuccessor, DecisionOf, FieldOf
  <2>2. DecisionOK(d)'
    BY <2>1, <1>1, <1>3, <1>4, <1>9, <1>10, <1>16 DEF DecisionOK, AcceptedDecision, Position
  <2> QED BY <2>2, <1>11, <1>13, OldDecision
<1>22. ChangedExact'
  <2>1. decisions'[d].changed /\ successors'[s].decision = d
    BY <1>15, <1>16
  <2>2. ChangedExact
    BY DEF ChainInv
  <2> QED BY <2>1, <2>2, <1>10, <1>11 DEF ChangedExact, Grows
<1>23. Sequences' /\ \A i \in DOMAIN harnesses' : HarnessOK(i)'
  BY <1>1, <1>13, OldHarness DEF ChainGrows, Grows, Sequences
<1> QED BY <1>13, <1>18, <1>19, <1>20, <1>21, <1>22, <1>23 DEF ChainInv

\* A decision without a successor, or a refusal, is all that is stored.
LEMMA RuledKeepsChain ==
    ASSUME ChainInv, MaterialInv, NEW c, NEW plan \in plans, c.plan = plan,
           c.kind = "refuse" \/ ~CreatesSuccessor(plan.proposal.action),
           decisions' = Append(decisions, Decision(c, plan, 0)),
           UNCHANGED <<harnesses, opportunities, successors, runs, plans>>
    PROVE  ChainInv' /\ ChainGrows
<1>1. PICK dec, d : dec = Decision(c, plan, 0) /\ d = Len(decisions) + 1
  OBVIOUS
<1>2. Sequences
  BY DEF ChainInv
<1>3. /\ Grows(decisions, decisions') /\ d \notin DOMAIN decisions
      /\ DOMAIN decisions' = DOMAIN decisions \cup {d} /\ decisions'[d] = dec
  BY <1>1, <1>2, OneMore DEF Sequences
<1>4. ChainGrows
  BY <1>2, <1>3, SameGrows DEF ChainGrows, Sequences
<1>5. /\ plan.opportunity \in DOMAIN opportunities /\ plan.treatment \in Treatments
  BY DEF MaterialInv, PlanOK
<1>6. DecisionOK(d)'
  <2>1. dec.changed = (0 # 0)
    BY <1>1 DEF Decision, Difference
  <2>2. /\ dec.opportunity = plan.opportunity /\ dec.plan = plan
        /\ dec.treatment = plan.treatment /\ dec.successor = 0
    BY <1>1 DEF Decision
  <2> QED BY <2>1, <2>2, <1>3, <1>5 DEF DecisionOK, AcceptedDecision, Position
<1>7. ChangedExact'
  <2>1. decisions'[d].changed = FALSE
    <3>1. dec.changed = (0 # 0) /\ (0 # 0) = FALSE
      BY <1>1 DEF Decision, Difference
    <3> QED BY <3>1, <1>3
  <2>2. \A s \in DOMAIN successors : successors[s].decision # d
    BY <1>3 DEF ChainInv, SuccessorOK
  <2>3. ChangedExact
    BY DEF ChainInv
  <2> QED BY <2>1, <2>2, <2>3, <1>3 DEF ChangedExact, Grows
<1>8. \A i \in DOMAIN decisions' : DecisionOK(i)'
  BY <1>3, <1>4, <1>6, OldDecision
<1>9. \A i \in DOMAIN opportunities' : OpportunityOK(i)' /\ PermittedOK(i)'
  BY <1>4, OldOpportunity, OldPermitted
<1>10. \A i \in DOMAIN successors' : SuccessorOK(i)' /\ LineageOK(i)'
  BY <1>4, OldSuccessor, OldLineage
<1>11. Sequences' /\ (\A i \in DOMAIN harnesses' : HarnessOK(i)') /\ \A i \in DOMAIN runs' : RunOK(i)'
  BY <1>4, OldHarness, OldRun DEF ChainGrows, Grows, Sequences
<1> QED BY <1>4, <1>7, <1>8, <1>9, <1>10, <1>11 DEF ChainInv

-----------------------------------------------------------------------------
(* What the calls know of the chain stays right while it grows *)

\* Treatments and plans refer to chain records, which a growing chain keeps.
LEMMA MaterialKept ==
    ASSUME MaterialInv, ChainGrows, payloads' \in Nat, failures' \in Nat, plans' = plans,
           treatments' = treatments
    PROVE  MaterialInv'
BY DEF MaterialInv, ChainGrows, Grows, PlanOK

\* A stored study's claims are read from decisions that stay.
LEMMA ClaimsKept ==
    ASSUME ClaimInv, ChainGrows, claims' = claims
    PROVE  ClaimInv'
<1>1. ASSUME NEW i \in DOMAIN claims PROVE ClaimOK(claims[i])'
  <2>1. ClaimOK(claims[i])
    BY DEF ClaimInv
  <2> QED BY <2>1 DEF ClaimOK, ChainGrows, Grows
<1> QED BY <1>1 DEF ClaimInv

\* What was tested about a plan stays so: the opportunity it is about is in the chain.
LEMMA StillOK ==
    ASSUME ChainInv, MaterialInv, ChainGrows, NEW c, PendingOK(c)
    PROVE  PendingOK(c)'
<1>1. CASE c.kind = "decide"
  <2>1. c.plan \in plans /\ DecidedOK(c)
    BY <1>1 DEF PendingOK
  <2>2. c.plan.opportunity \in DOMAIN opportunities
    BY <2>1 DEF MaterialInv, PlanOK
  <2>3. opportunities'[c.plan.opportunity] = opportunities[c.plan.opportunity]
    BY <2>2 DEF ChainGrows, Grows
  <2>4. DecidedOK(c)'
    BY <2>1, <2>3 DEF DecidedOK, OpportunityOf
  <2> QED BY <2>1, <2>4, <1>1 DEF PendingOK, ChainGrows
<1>2. CASE c.kind # "decide"
  BY <1>2 DEF PendingOK, ChainGrows
<1> QED BY <1>1, <1>2

\* What pending calls have tested stays true while the chain grows under them.
LEMMA PendingKept ==
    ASSUME ChainInv, MaterialInv, PendingInv, ChainGrows, pending' = pending
    PROVE  PendingInv'
<1>1. \A p \in Processes : PendingOK(pending[p])'
  BY StillOK DEF PendingInv
<1> QED BY <1>1 DEF PendingInv

\* A process that has finished, or has ruled, is the only one that changes.
LEMMA OnePending ==
    ASSUME ChainInv, MaterialInv, PendingInv, ChainGrows, NEW p \in Processes, NEW c,
           pending' = [pending EXCEPT ![p] = c], PendingOK(c)'
    PROVE  PendingInv'
<1>1. DOMAIN pending' = Processes
  BY DEF PendingInv
<1>2. ASSUME NEW q \in Processes, NEW e, e = pending'[q]
      PROVE  PendingOK(e)'
  <2>1. CASE q = p
    BY <1>2, <2>1 DEF PendingInv
  <2>2. CASE q # p
    <3>1. e = pending[q]
      BY <1>2, <2>2 DEF PendingInv
    <3>2. PendingOK(e)
      BY <3>1 DEF PendingInv
    <3> QED BY <3>2, StillOK
  <2> QED BY <2>1, <2>2
<1> QED BY <1>1, <1>2 DEF PendingInv

\* A plan is only decided with a named authority, and with the consent of the study policy or
\* in its shadow.
LEMMA DecideMeans ==
    ASSUME NEW request, NEW plan, Ruling(request, plan) = "decide"
    PROVE  /\ MayApprove(OpportunityOf(plan).boundary, request.authority)
           /\ plan.proposal.allowed \/ request.shadow
<1> DEFINE boundary == OpportunityOf(plan).boundary
           x == plan.proposal
           tests == <<
            <<~MayApprove(boundary, request.authority), "failed">>,
            <<~WithinBudget(x.use, OpportunityOf(plan)), "failed">>,
            <<x.action \notin PermittedActions[boundary], "failed">>,
            <<request.source # "permitted", "refuse">>,
            <<x.action \in HumanActions[boundary] /\ ~request.human, "refuse">>,
            <<~request.fixture, "failed">>,
            <<~x.allowed /\ ~request.shadow, "refuse">>,
            <<DecisionOf[x.action] = "refuse", "refuse">>,
            <<TRUE, "decide">> >>
<1>1. FirstOf(tests) = "decide"
  BY Zenon DEF Ruling
<1>2. DOMAIN tests = 1 .. 9
  OBVIOUS
<1>3. \A k \in 1 .. 8 : tests[k][2] # "decide"
  OBVIOUS
<1>4. tests[1][1] = ~MayApprove(boundary, request.authority)
  OBVIOUS
<1>5. tests[7][1] = (~x.allowed /\ ~request.shadow)
  OBVIOUS
<1> HIDE DEF tests
<1>6. \A m \in 1 .. 8 : ~tests[m][1]
  <2>1. SUFFICES ASSUME NEW m \in 1 .. 8, tests[m][1] PROVE FALSE
    OBVIOUS
  <2>2. PICK n \in Nat \ {0} : n = 9 /\ n <= 12 /\ DOMAIN tests = 1 .. n /\ m \in 1 .. n
    BY <1>2
  <2>3. \E k \in 1 .. m : tests[k][1] /\ FirstOf(tests) = tests[k][2]
    BY <2>1, <2>2, AnswersUpTo
  <2> QED BY <1>1, <1>3, <2>3
<1>7. ~tests[1][1] /\ ~tests[7][1]
  BY <1>6
<1> QED BY <1>4, <1>5, <1>7

-----------------------------------------------------------------------------
(* Every step *)

\* An agent with no harness has no record to be wrong about.
LEMMA InitHolds == Init => IInv
<1>1. SUFFICES ASSUME Init PROVE IInv
  OBVIOUS
<1>2. Sequence(<<>>) /\ DOMAIN <<>> = {}
  BY EmptySequence
<1>3. /\ harnesses = <<>> /\ opportunities = <<>> /\ successors = <<>> /\ runs = <<>>
      /\ decisions = <<>> /\ treatments = <<>> /\ plans = {} /\ claims = <<>>
      /\ payloads = 0 /\ failures = 0 /\ pending = [p \in Processes |-> Idle]
  BY <1>1 DEF Init
<1>4. /\ DOMAIN harnesses = {} /\ DOMAIN opportunities = {} /\ DOMAIN successors = {}
      /\ DOMAIN runs = {} /\ DOMAIN decisions = {} /\ DOMAIN treatments = {}
      /\ DOMAIN claims = {}
  BY <1>2, <1>3
<1>5. Sequences /\ Sequence(treatments) /\ Sequence(claims)
  BY <1>2, <1>3 DEF Sequences
<1>6. ChainInv
  BY <1>4, <1>5 DEF ChainInv, ChangedExact
<1>7. MaterialInv /\ ClaimInv
  BY <1>3, <1>4, <1>5 DEF MaterialInv, ClaimInv
<1>8. PendingInv
  BY <1>3 DEF PendingInv, PendingOK, Idle
<1> QED BY <1>6, <1>7, <1>8 DEF IInv

\* Refused and failed calls store a receipt.
LEMMA FailedKeeps ==
    ASSUME IInv, Failed
    PROVE  IInv'
<1>1. UNCHANGED <<chain, payloads, treatments, plans, claims, pending>> /\ failures' = failures + 1
  BY DEF Failed
<1>2. ChainInv' /\ ChainGrows
  BY <1>1, ChainKept DEF IInv
<1>3. payloads' \in Nat /\ failures' \in Nat
  BY <1>1 DEF IInv, MaterialInv
<1>4. MaterialInv' /\ PendingInv' /\ ClaimInv'
  BY <1>1, <1>2, <1>3, MaterialKept, PendingKept, ClaimsKept DEF IInv
<1> QED BY <1>2, <1>4 DEF IInv

\* create_payloads() writes nothing that the chain reads.
LEMMA CreatePayloadsKeeps ==
    ASSUME IInv, NEW sound \in BOOLEAN, CreatePayloads(sound)
    PROVE  IInv'
<1>1. CASE sound
  <2>1. UNCHANGED <<chain, treatments, plans, claims, failures, pending>> /\ payloads' = payloads + 1
    BY <1>1 DEF CreatePayloads
  <2>2. ChainInv' /\ ChainGrows
    BY <2>1, ChainKept DEF IInv
  <2>3. payloads' \in Nat /\ failures' \in Nat
    BY <2>1 DEF IInv, MaterialInv
  <2>4. MaterialInv' /\ PendingInv' /\ ClaimInv'
    BY <2>1, <2>2, <2>3, MaterialKept, PendingKept, ClaimsKept DEF IInv
  <2> QED BY <2>2, <2>4 DEF IInv
<1>2. CASE ~sound
  BY <1>2, FailedKeeps DEF CreatePayloads
<1> QED BY <1>1, <1>2

\* prepare_treatments() adds treatments of an opportunity that exists.
LEMMA PrepareKeeps ==
    ASSUME IInv, NEW o \in DOMAIN opportunities, NEW slots, NEW sound \in BOOLEAN,
           PrepareTreatments(o, slots, sound)
    PROVE  IInv'
<1>1. CASE Failed
  BY <1>1, FailedKeeps
<1>2. CASE ~Failed
  <2>1. /\ UNCHANGED <<chain, payloads, plans, claims, failures, pending>>
        /\ treatments' = Append(treatments, [opportunity |-> o])
    BY <1>2 DEF PrepareTreatments
  <2>2. ChainInv' /\ ChainGrows
    BY <2>1, ChainKept DEF IInv
  <2>3. PendingInv' /\ ClaimInv'
    BY <2>1, <2>2, PendingKept, ClaimsKept DEF IInv
  <2>4. PICK t, n : t = [opportunity |-> o] /\ n = Len(treatments) + 1
    OBVIOUS
  <2>5. /\ Grows(treatments, treatments') /\ DOMAIN treatments' = DOMAIN treatments \cup {n}
        /\ treatments'[n] = t
    BY <2>1, <2>4, OneMore DEF IInv, MaterialInv
  <2>6. MaterialInv'
    BY <2>1, <2>2, <2>4, <2>5 DEF IInv, MaterialInv, PlanOK, Grows, ChainGrows
  <2> QED BY <2>2, <2>3, <2>6 DEF IInv
<1> QED BY <1>1, <1>2

\* plan() adds a plan whose treatment and proposal were tested in the same call.
LEMMA PlanKeeps ==
    ASSUME IInv, NEW o \in DOMAIN opportunities, NEW t \in DOMAIN treatments,
           NEW treatment \in Treatments, NEW x \in Proposals, NEW sound \in BOOLEAN,
           Plan(o, t, treatment, x, sound)
    PROVE  IInv'
<1>1. CASE Failed
  BY <1>1, FailedKeeps
<1>2. CASE ~Failed
  <2>1. PICK new : new = [opportunity |-> o, material |-> t, treatment |-> treatment, proposal |-> x]
    OBVIOUS
  <2>2. /\ UNCHANGED <<chain, payloads, treatments, claims, failures, pending>>
        /\ plans' = plans \cup {new}
    BY <1>2, <2>1 DEF Plan
  <2>3. ChainInv' /\ ChainGrows
    BY <2>2, ChainKept DEF IInv
  <2>4. PendingInv' /\ ClaimInv'
    BY <2>2, <2>3, PendingKept, ClaimsKept DEF IInv
  <2>5. MaterialInv'
    BY <2>1, <2>2 DEF IInv, MaterialInv, PlanOK, chain
  <2> QED BY <2>3, <2>4, <2>5 DEF IInv
<1> QED BY <1>1, <1>2

\* initialize_harness() before its transaction: what it has tested is pending.
LEMMA BeginInitializeKeeps ==
    ASSUME IInv, NEW p \in Processes, NEW setup, NEW sound \in BOOLEAN,
           setup.boundary \in Boundaries, setup.state \in InitialStates,
           setup.actions \in ActionLists, BeginInitialize(p, setup, sound)
    PROVE  IInv'
<1>1. CASE Failed
  BY <1>1, FailedKeeps
<1>2. CASE ~Failed
  <2>1. PICK c : c = [kind |-> "initialize", setup |-> setup]
    OBVIOUS
  <2>2. /\ UNCHANGED <<chain, payloads, treatments, plans, claims, failures>>
        /\ pending' = [pending EXCEPT ![p] = c]
        /\ ValidLimit(setup.boundary, setup.limit) /\ ValidActions(setup.boundary, setup.actions)
        /\ MayApprove(setup.boundary, setup.authority)
    BY <1>2, <2>1 DEF BeginInitialize
  <2>3. ChainInv' /\ ChainGrows
    BY <2>2, ChainKept DEF IInv
  <2>4. MaterialInv' /\ ClaimInv'
    <3>1. payloads' \in Nat /\ failures' \in Nat
      BY <2>2 DEF IInv, MaterialInv
    <3> QED BY <2>2, <2>3, <3>1, MaterialKept, ClaimsKept DEF IInv
  <2>5. PendingOK(c)'
    BY <2>1, <2>2 DEF PendingOK, SetupOK, ValidLimit
  <2>6. PendingInv'
    BY <2>2, <2>3, <2>5, OnePending DEF IInv
  <2> QED BY <2>3, <2>4, <2>6 DEF IInv
<1> QED BY <1>1, <1>2

\* revise() before its transaction: the rules it has applied are pending.
LEMMA BeginReviseKeeps ==
    ASSUME IInv, NEW p \in Processes, NEW plan \in plans, NEW request, NEW sound \in BOOLEAN,
           BeginRevise(p, plan, request, sound)
    PROVE  IInv'
<1>1. CASE Failed
  BY <1>1, FailedKeeps
<1>2. CASE ~Failed
  <2>1. PICK c : c = [kind |-> Ruling(request, plan), plan |-> plan,
                      authority |-> request.authority,
                      shadow |-> request.shadow /\ ~plan.proposal.allowed]
    OBVIOUS
  <2>2. /\ UNCHANGED <<chain, payloads, treatments, plans, claims, failures>>
        /\ pending' = [pending EXCEPT ![p] = c]
        /\ Ruling(request, plan) = "refuse" \/ (Ruling(request, plan) = "decide" /\ Decidable(plan))
    BY <1>2, <2>1 DEF BeginRevise
  <2>3. ChainInv' /\ ChainGrows
    BY <2>2, ChainKept DEF IInv
  <2>4. MaterialInv' /\ ClaimInv'
    <3>1. payloads' \in Nat /\ failures' \in Nat
      BY <2>2 DEF IInv, MaterialInv
    <3> QED BY <2>2, <2>3, <3>1, MaterialKept, ClaimsKept DEF IInv
  <2>5. PendingOK(c)
    <3>1. CASE Ruling(request, plan) = "refuse"
      BY <2>1, <3>1 DEF PendingOK
    <3>2. CASE Ruling(request, plan) = "decide"
      <4>1. /\ MayApprove(OpportunityOf(plan).boundary, request.authority)
            /\ plan.proposal.allowed \/ request.shadow
        BY <3>2, DecideMeans
      <4>2. /\ c.kind = "decide" /\ c.plan = plan /\ c.authority = request.authority
            /\ c.shadow = (request.shadow /\ ~plan.proposal.allowed)
        BY <2>1, <3>2
      <4>3. plan.proposal.allowed \/ c.shadow
        BY <4>1, <4>2
      <4>4. Decidable(plan)
        BY <2>2, <3>2
      <4>5. DecidedOK(c)
        BY <4>1, <4>2, <4>3, <4>4 DEF DecidedOK, Decidable, ValidChanges
      <4> QED BY <4>2, <4>5 DEF PendingOK
    <3> QED BY <2>2, <3>1, <3>2
  <2>6. PendingOK(c)'
    BY <2>3, <2>5, StillOK DEF IInv
  <2>7. PendingInv'
    BY <2>2, <2>3, <2>6, OnePending DEF IInv
  <2> QED BY <2>3, <2>4, <2>7 DEF IInv
<1> QED BY <1>1, <1>2

\* A process that is done is idle again, and the rest is about the chain.
LEMMA CommitKeeps ==
    ASSUME IInv, ChainInv', ChainGrows, NEW p \in Processes,
           pending' = [pending EXCEPT ![p] = Idle],
           UNCHANGED <<payloads, treatments, plans, claims, failures>>
    PROVE  IInv'
<1>1. payloads' \in Nat /\ failures' \in Nat
  BY DEF IInv, MaterialInv
<1>2. MaterialInv' /\ ClaimInv'
  BY <1>1, MaterialKept, ClaimsKept DEF IInv
<1>3. PendingOK(Idle)'
  BY DEF PendingOK, Idle
<1>4. PendingInv'
  BY <1>3, OnePending DEF IInv
<1> QED BY <1>2, <1>4 DEF IInv

\* The transaction of initialize_harness() stores the harness that was tested.
LEMMA CommitInitializeKeeps ==
    ASSUME IInv, NEW p \in Processes, CommitInitialize(p)
    PROVE  IInv'
<1>1. ChainInv' /\ ChainGrows
  BY InitializeKeepsChain DEF IInv
<1>2. /\ pending' = [pending EXCEPT ![p] = Idle]
      /\ UNCHANGED <<payloads, treatments, plans, claims, failures>>
  BY DEF CommitInitialize
<1> QED BY <1>1, <1>2, CommitKeeps

\* The transaction of revise() stores the decision and the successor that were ruled.
LEMMA CommitDecisionKeeps ==
    ASSUME IInv, NEW p \in Processes, CommitDecision(p)
    PROVE  IInv'
<1>1. /\ pending' = [pending EXCEPT ![p] = Idle]
      /\ UNCHANGED <<payloads, treatments, plans, claims, failures>>
  BY DEF CommitDecision
<1>2. ChainInv' /\ ChainGrows
  <2>1. CASE CreatesSuccessor(pending[p].plan.proposal.action)
    BY <2>1, DecisionKeepsChain DEF IInv
  <2>2. CASE ~CreatesSuccessor(pending[p].plan.proposal.action)
    <3>1. PICK c, plan : c = pending[p] /\ plan = c.plan
      OBVIOUS
    <3>2. /\ c.kind = "decide" /\ decisions' = Append(decisions, Decision(c, plan, 0))
          /\ UNCHANGED <<harnesses, opportunities, successors, runs, plans>>
      BY <2>2, <3>1 DEF CommitDecision
    <3>3. plan \in plans
      BY <3>1, <3>2 DEF IInv, PendingInv, PendingOK
    <3> QED BY <2>2, <3>1, <3>2, <3>3, RuledKeepsChain DEF IInv
  <2> QED BY <2>1, <2>2
<1> QED BY <1>1, <1>2, CommitKeeps

\* The transaction of a refusal stores a decision without a successor.
LEMMA CommitRefusalKeeps ==
    ASSUME IInv, NEW p \in Processes, CommitRefusal(p)
    PROVE  IInv'
<1>1. PICK c, plan : c = pending[p] /\ plan = c.plan
  OBVIOUS
<1>2. /\ c.kind = "refuse" /\ decisions' = Append(decisions, Decision(c, plan, 0))
      /\ UNCHANGED <<harnesses, opportunities, successors, runs, plans>>
      /\ pending' = [pending EXCEPT ![p] = Idle]
      /\ UNCHANGED <<payloads, treatments, plans, claims, failures>>
  BY <1>1 DEF CommitRefusal
<1>3. plan \in plans
  BY <1>1, <1>2 DEF IInv, PendingInv, PendingOK
<1>4. ChainInv' /\ ChainGrows
  BY <1>1, <1>2, <1>3, RuledKeepsChain DEF IInv
<1> QED BY <1>2, <1>4, CommitKeeps

\* A claim joins the others.
LEMMA ClaimedKeeps ==
    ASSUME IInv, NEW c, ClaimOK(c), claims' = Append(claims, c),
           UNCHANGED <<chain, payloads, treatments, plans, failures, pending>>
    PROVE  IInv'
<1>1. ChainInv' /\ ChainGrows
  BY ChainKept DEF IInv
<1>2. MaterialInv' /\ PendingInv'
  <2>1. payloads' \in Nat /\ failures' \in Nat
    BY DEF IInv, MaterialInv
  <2> QED BY <1>1, <2>1, MaterialKept, PendingKept DEF IInv
<1>3. ClaimInv'
  <2>1. PICK n : n = Len(claims) + 1
    OBVIOUS
  <2>2. /\ Grows(claims, claims') /\ DOMAIN claims' = DOMAIN claims \cup {n} /\ claims'[n] = c
    BY <2>1, OneMore DEF IInv, ClaimInv
  <2>3. decisions' = decisions
    BY DEF chain
  <2> QED BY <2>2, <2>3 DEF IInv, ClaimInv, ClaimOK, Grows
<1> QED BY <1>1, <1>2, <1>3 DEF IInv

\* assess_study() claims what the decisions it lists show.
LEMMA StudyKeeps ==
    ASSUME IInv, NEW cells \in Cells, NEW matched \in BOOLEAN, NEW sound \in BOOLEAN,
           AssessStudy(cells, matched, sound)
    PROVE  IInv'
<1>1. CASE Failed
  BY <1>1, FailedKeeps
<1>2. CASE ~Failed
  <2>1. PICK c : c = [axis |-> "dependence", cells |-> cells,
                      supported |-> matched /\ Diverges(cells)]
    OBVIOUS
  <2>2. /\ claims' = Append(claims, c)
        /\ UNCHANGED <<chain, payloads, treatments, plans, failures, pending>>
    BY <1>2, <2>1 DEF AssessStudy
  <2>3. \A t \in Treatments : cells[t] \subseteq DOMAIN decisions
    BY DEF Cells, Treatments, ListsUnder, DecisionsUnder
  <2>4. ListedIn(cells, Controls) \subseteq DOMAIN decisions
    BY <2>3 DEF ListedIn, Controls
  <2>5. c.cells = cells /\ c.supported = (matched /\ Diverges(cells))
    BY <2>1
  <2>6. ClaimOK(c)
    BY <2>3, <2>4, <2>5 DEF ClaimOK, Diverges, Treatments
  <2> QED BY <2>2, <2>6, ClaimedKeeps
<1> QED BY <1>1, <1>2

\* evaluate_utility() stores an unsupported claim about one decision.
LEMMA UtilityKeeps ==
    ASSUME IInv, NEW d \in DOMAIN decisions, NEW sound \in BOOLEAN, EvaluateUtility(d, sound)
    PROVE  IInv'
<1>1. CASE Failed
  BY <1>1, FailedKeeps
<1>2. CASE ~Failed
  <2>1. PICK c : c = [axis |-> "utility", supported |-> FALSE,
                      cells |-> [t \in Treatments |-> IF decisions[d].treatment = t THEN {d} ELSE {}]]
    OBVIOUS
  <2>2. /\ claims' = Append(claims, c)
        /\ UNCHANGED <<chain, payloads, treatments, plans, failures, pending>>
    BY <1>2, <2>1 DEF EvaluateUtility
  <2>3. ClaimOK(c)
    BY <2>1 DEF ClaimOK
  <2> QED BY <2>2, <2>3, ClaimedKeeps
<1> QED BY <1>1, <1>2

\* A step of something else leaves every part as it is.
LEMMA StutterKeeps ==
    ASSUME IInv, UNCHANGED vars
    PROVE  IInv'
<1>1. UNCHANGED <<chain, payloads, treatments, plans, claims, failures, pending>>
  BY DEF vars
<1>2. ChainInv' /\ ChainGrows
  BY <1>1, ChainKept DEF IInv
<1>3. payloads' \in Nat /\ failures' \in Nat
  BY <1>1 DEF IInv, MaterialInv
<1>4. MaterialInv' /\ PendingInv' /\ ClaimInv'
  BY <1>1, <1>2, <1>3, MaterialKept, PendingKept, ClaimsKept DEF IInv
<1> QED BY <1>2, <1>4 DEF IInv

\* Every step keeps the inductive invariant.
THEOREM AgentStep == IInv /\ [Next]_vars => IInv'
<1>1. SUFFICES ASSUME IInv, [Next]_vars PROVE IInv'
  OBVIOUS
<1>2. CASE \E sound \in BOOLEAN : CreatePayloads(sound)
  BY <1>1, <1>2, CreatePayloadsKeeps
<1>3. CASE Start
  <2>1. PICK p \in Processes, b \in Boundaries, a \in Authorities, s \in InitialStates,
             l \in ActionLists, sound \in BOOLEAN :
           \E limit \in 0 .. Ceiling[b] + 1 :
              BeginInitialize(p, [boundary |-> b, authority |-> a, limit |-> limit, state |-> s,
                                  actions |-> l], sound)
    BY <1>3, Zenon DEF Start
  <2>a. PICK limit :
           BeginInitialize(p, [boundary |-> b, authority |-> a, limit |-> limit, state |-> s,
                               actions |-> l], sound)
    BY <2>1, Zenon
  <2>2. PICK setup : setup = [boundary |-> b, authority |-> a, limit |-> limit, state |-> s,
                              actions |-> l]
    OBVIOUS
  <2>3. /\ setup.boundary \in Boundaries /\ setup.state \in InitialStates
        /\ setup.actions \in ActionLists /\ BeginInitialize(p, setup, sound)
    BY <2>a, <2>2
  <2> QED BY <1>1, <2>3, BeginInitializeKeeps
<1>4. CASE \E p \in Processes : CommitInitialize(p)
  BY <1>1, <1>4, CommitInitializeKeeps
<1>5. CASE Prepare
  BY <1>1, <1>5, PrepareKeeps DEF Prepare
<1>6. CASE Propose
  BY <1>1, <1>6, PlanKeeps DEF Propose
<1>7. CASE Revise
  BY <1>1, <1>7, BeginReviseKeeps DEF Revise
<1>8. CASE \E p \in Processes : CommitDecision(p)
  BY <1>1, <1>8, CommitDecisionKeeps
<1>9. CASE \E p \in Processes : CommitRefusal(p)
  BY <1>1, <1>9, CommitRefusalKeeps
<1>10. CASE Study
  BY <1>1, <1>10, StudyKeeps DEF Study
<1>11. CASE \E d \in DOMAIN decisions, sound \in BOOLEAN : EvaluateUtility(d, sound)
  BY <1>1, <1>11, UtilityKeeps
<1>12. CASE UNCHANGED vars
  BY <1>1, <1>12, StutterKeeps
<1> QED BY <1>1, <1>2, <1>3, <1>4, <1>5, <1>6, <1>7, <1>8, <1>9, <1>10, <1>11, <1>12 DEF Next

-----------------------------------------------------------------------------
(* What it implies *)

\* Records have the fields of their types, and what they refer to is stored.
THEOREM AgentTypes == Spec => []TypeOK
<1>1. IInv => TypeOK
  <2>1. SUFFICES ASSUME IInv PROVE TypeOK
    OBVIOUS
  <2>2. ChainInv /\ MaterialInv
    BY <2>1 DEF IInv
  <2>3. \A d \in DOMAIN decisions : decisions[d].treatment \in Treatments
    BY <2>2 DEF ChainInv, DecisionOK, AcceptedDecision
  <2> QED BY <2>2, <2>3 DEF TypeOK, ChainInv, MaterialInv, HarnessOK, OpportunityOK, SuccessorOK,
                           RunOK, DecisionOK, PlanOK
<1> QED BY <1>1, InitHolds, AgentStep, PTL DEF Spec

\* Lineage: chains of successors branch where a plan is decided again, and never join.
THEOREM ChainsConsistent == Spec => []Lineage
<1>1. IInv => Lineage
  BY DEF IInv, ChainInv, Lineage, LineageOK
<1> QED BY <1>1, InitHolds, AgentStep, PTL DEF Spec

\* SuccessorsPermitted: no chain of revisions leaves what the boundary permits.
THEOREM BoundaryKept == Spec => []SuccessorsPermitted
<1>1. IInv => SuccessorsPermitted
  BY DEF IInv, ChainInv, SuccessorsPermitted, PermittedOK
<1> QED BY <1>1, InitHolds, AgentStep, PTL DEF Spec

\* RecordsAccepted: the validator never refuses what a call has let through.
THEOREM ValidatorAgrees == Spec => []RecordsAccepted
<1>1. IInv => RecordsAccepted
  BY DEF IInv, ChainInv, RecordsAccepted, HarnessOK, SuccessorOK, DecisionOK
<1> QED BY <1>1, InitHolds, AgentStep, PTL DEF Spec

\* StudyHonest: what a supported study claims can be read off the successors that are stored.
THEOREM StudiesHonest == Spec => []StudyHonest
<1>1. IInv => StudyHonest
  <2>1. SUFFICES ASSUME IInv, NEW i \in DOMAIN claims, claims[i].supported
                 PROVE  /\ \A d \in claims[i].cells["authentic"] :
                              \E s \in DOMAIN successors : successors[s].decision = d
                        /\ \A d \in ListedIn(claims[i].cells, Controls), s \in DOMAIN successors :
                              successors[s].decision # d
    BY DEF StudyHonest
  <2>2. ClaimOK(claims[i]) /\ ChangedExact
    BY <2>1 DEF IInv, ClaimInv, ChainInv
  <2> QED BY <2>1, <2>2 DEF ClaimOK, ChangedExact
<1> QED BY <1>1, InitHolds, AgentStep, PTL DEF Spec
=============================================================================
