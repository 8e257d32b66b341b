----------------------------- MODULE Assessment -----------------------------
(***************************************************************************)
(* quanta/service.py: a candidate unit is refined into its proper nodes, a *)
(* task freezes the family and the bounds, a run turns paired scores into  *)
(* intervals under a budget, and assess() reads all three to qualify,      *)
(* reject or leave the candidate indeterminate.  Each operation appends    *)
(* records that never change and is one transaction, so the operations of  *)
(* several processes interleave as whole actions.  A record is known by    *)
(* its position; scores and bounds are integers in the task's units.       *)
(* An interval is [known, lower, upper]; a stochastic half width, which    *)
(* the code takes from the sample deviation and the family size, is an     *)
(* input; a field an assessment copies from its run is read from the run.  *)
(***************************************************************************)
EXTENDS Integers, FiniteSets, OrderedTests

CONSTANTS Cells,           \* Cells[i]: the mask cells of the i-th enumerated candidate
          NodeLimits,      \* the node budgets a caller of refine() gives
          MaxFamily,       \* MAX_FAMILY_SIZE
          Specs,           \* the task specifications callers give
          Scores,          \* the scores of one unit: [effect |-> Int, spread |-> Nat]
          MaxRecords, MaxDeclared, MaxRuns,   \* bounds: all records, graphs and tasks, runs,
          MaxInvalidations, MaxFailures       \* invalidation events, failure receipts

ASSUME CellsAssumption == Cells \in Seq(Nat \ {0})
ASSUME ScoresAssumption == Scores \subseteq [effect : Int, spread : Nat]
ASSUME SpecsAssumption ==
    Specs \subseteq [theta : Int, minus : Int, plus : Int, direction : Int, method : STRING,
                     tolerance : Int, repeats : Int, familySize : Int, maximum : Int,
                     disjoint : BOOLEAN, calibrated : BOOLEAN]
ASSUME BoundsAssumption ==
    {MaxFamily, MaxRecords, MaxDeclared, MaxRuns, MaxInvalidations, MaxFailures} \subseteq Nat

VARIABLES graphs,          \* RefinementGraphs: [root, closure, closed]
          tasks,           \* TaskSpecs: [candidate, spec, family]
          runs,            \* RunManifests of the paired-score profile
          assessments,     \* DSQAssessments: [candidate, task, run, graph, status, reason]
          invalidations,   \* the assessments of the dsq-dependency-invalidated events
          accounts,        \* what evaluate_baselines answered: [assessment, exact]
          failures         \* how many failure receipts were stored

vars == <<graphs, tasks, runs, assessments, invalidations, accounts, failures>>

Candidates == {<<0, i>> : i \in DOMAIN Cells}
Stray == <<0, 0>>                      \* a unit outside every family
CellCount(c) == Cells[c[2]]
Terminal(c) == CellCount(c) = 1
ClosureSize(c) == 2 ^ CellCount(c) - 2

\* 2^n - 2 submasks are proper and nonempty when there are two cells or more.
ASSUME ClosureAssumption == \A c \in Candidates : ~Terminal(c) => ClosureSize(c) \in Nat \ {0}

Family(t) == {t.family[i] : i \in DOMAIN t.family}
Nodes(g) == {g.closure[i] : i \in DOMAIN g.closure}

Room == Len(graphs) + Len(tasks) + Len(runs) + Len(assessments) < MaxRecords
RoomToDeclare == Room /\ Len(graphs) + Len(tasks) < MaxDeclared

\* Every refused or failed operation stores one failure receipt and its event.
Failed == /\ failures < MaxFailures
          /\ failures' = failures + 1
          /\ UNCHANGED <<graphs, tasks, runs, assessments, invalidations, accounts>>

-----------------------------------------------------------------------------
\* refine(): every proper nonempty submask becomes a new candidate record, or nothing does.
Refine(c, limit) ==
    IF Terminal(c) \/ ClosureSize(c) > limit
    THEN Failed
    ELSE /\ RoomToDeclare
         /\ graphs' = Append(graphs,
              [root |-> c, closed |-> TRUE,
               closure |-> [k \in 1 .. ClosureSize(c) |-> <<Len(graphs) + 1, k>>]])
         /\ UNCHANGED <<tasks, runs, assessments, invalidations, accounts, failures>>

ValidSpec(s, size) ==
    /\ s.direction \in {-1, 1}
    /\ s.theta > 0 /\ s.minus >= 0 /\ s.plus >= 0 /\ s.plus < s.theta
    /\ s.repeats >= 1
    /\ s.method \in {"deterministic_tolerance", "bonferroni_normal", "unavailable"}
    /\ s.method = "deterministic_tolerance" => s.tolerance >= 0
    /\ s.method = "bonferroni_normal" => s.repeats >= 2
    /\ s.familySize = size
    /\ s.disjoint
    /\ s.maximum >= 2

\* declare_task(): the family is the candidate and the closure the graph lists now; g = 0 is None.
DeclareTask(c, g, s, permitted) ==
    LET family == <<c>> \o (IF g = 0 THEN <<>> ELSE graphs[g].closure)
    IN  IF /\ permitted
           /\ g # 0 => graphs[g].root = c
           /\ Len(family) <= MaxFamily
           /\ ValidSpec(s, Len(family))
        THEN /\ RoomToDeclare
             /\ tasks' = Append(tasks, [candidate |-> c, spec |-> s, family |-> family])
             /\ UNCHANGED <<graphs, runs, assessments, invalidations, accounts, failures>>
        ELSE Failed

-----------------------------------------------------------------------------

\* Mutant (BudgetHonest): a unit is read while anything is left of the budget.
AffordsAny(spent, cost, maximum) == spent < maximum

Affordable(spent, cost, maximum) == spent + cost <= maximum

\* The loop of execute_task(): Spent[i] is `used` after the i-th unit of the family, a unit
\* that has no evidence or no longer fits is skipped and the loop goes on.
Spent(t, supplied) ==
    LET cost == 2 * t.spec.repeats
        used[i \in 0 .. Len(t.family)] ==
            IF i = 0 THEN 0
            ELSE IF t.family[i] \in supplied /\ Affordable(used[i - 1], cost, t.spec.maximum)
                 THEN used[i - 1] + cost
                 ELSE used[i - 1]
    IN  used

Evaluated(t, supplied) ==
    LET used == Spent(t, supplied)
    IN  {t.family[i] : i \in {j \in DOMAIN t.family : used[j] > used[j - 1]}}

Interval(s, score) ==
    LET mean == s.direction * score.effect
        half == IF s.method = "deterministic_tolerance" THEN s.tolerance ELSE score.spread
    IN  IF s.method = "unavailable"
        THEN [known |-> FALSE, lower |-> mean, upper |-> mean]
        ELSE [known |-> TRUE, lower |-> mean - half, upper |-> mean + half]

\* Mutant (ReasonsExplained): a budget spent to the last evaluation counts as exhausted.
ExhaustedWhenSpent(t, supplied, used, evaluated) ==
    Family(t) \cap supplied # evaluated \/ used >= t.spec.maximum

\* A unit did not fit, or the budget is spent and a unit of the family was not evaluated.
Exhausted(t, supplied, used, evaluated) ==
    \/ Family(t) \cap supplied # evaluated
    \/ used >= t.spec.maximum /\ evaluated # Family(t)

\* execute_task(): an accepted call is permitted, and its protocol, seeds, score counts and
\* control names are those of the task; only the scores of evaluated units leave a trace.
ExecuteTask(i, supplied, accepted) ==
    LET t == tasks[i]
        evaluated == Evaluated(t, supplied)
        used == Spent(t, supplied)[Len(t.family)]
    IN  IF accepted /\ supplied \subseteq Family(t)
        THEN /\ Room /\ Len(runs) < MaxRuns
             /\ \E scores \in [evaluated -> Scores], controls, dependency \in BOOLEAN :
                   runs' = Append(runs,
                     [task |-> i, supplied |-> supplied, used |-> used,
                      intervals |-> [u \in evaluated |-> Interval(t.spec, scores[u])],
                      exhausted |-> Exhausted(t, supplied, used, evaluated),
                      controls |-> controls, dependency |-> dependency,
                      calibrated |-> t.spec.calibrated,
                      adjusted |-> t.spec.method # "unavailable"])
             /\ UNCHANGED <<graphs, tasks, assessments, invalidations, accounts, failures>>
        ELSE Failed

-----------------------------------------------------------------------------
Finite(r, u) == u \in DOMAIN r.intervals /\ r.intervals[u].known

\* global_negative_valid with the interval of u finite: the code's NegativeEvidenceValid(u).
NegativeValid(r, u) ==
    r.adjusted /\ r.controls /\ r.calibrated /\ r.dependency /\ Finite(r, u)

\* Mutant (AlwaysRecorded): the lower edge of the region is not looked at.
ContainedAbove(i, s) == i.upper <= s.plus

Contained(i, s) == i.lower >= -s.minus /\ i.upper <= s.plus
Disjoint(i, s) == i.upper < -s.minus \/ i.lower > s.plus

Nonmeaningful(c, s, r) == NegativeValid(r, c) /\ r.intervals[c].upper < s.theta
Meaningful(c, s, r) == NegativeValid(r, c) /\ r.intervals[c].lower >= s.theta
Nonequivalent(g, s, r) == {n \in Nodes(g) : NegativeValid(r, n) /\ Disjoint(r.intervals[n], s)}
AllEquivalent(g, s, r) ==
    /\ Nodes(g) # {}
    /\ \A n \in Nodes(g) : NegativeValid(r, n) /\ Contained(r.intervals[n], s)
Ready(c, g, s, r) ==
    /\ g.closed /\ Nodes(g) # {}
    /\ ({c} \cup Nodes(g)) \subseteq DOMAIN r.intervals
    /\ \A u \in {c} \cup Nodes(g) : NegativeValid(r, u)
    /\ s.disjoint

IndeterminateReason(c, g, s, r) == FirstOf(<<
    <<Terminal(c) /\ Nodes(g) = {}, "empty_proper_set">>,
    <<~r.adjusted, "uncertainty_contract_missing">>,
    <<r.exhausted, "budget_exhausted">>,
    <<~r.calibrated, "calibration_unavailable">>,
    <<~r.controls, "artifact_control_failed">>,
    <<~r.dependency, "required_evidence_unavailable">>,
    <<~g.closed, "closure_unavailable">>,
    <<c \notin DOMAIN r.intervals, "required_evidence_unavailable">>,
    <<NegativeValid(r, c) /\ r.intervals[c].lower < s.theta /\ s.theta <= r.intervals[c].upper,
      "candidate_boundary_crossing">>,
    <<~(Nodes(g) \subseteq DOMAIN r.intervals), "required_evidence_unavailable">>,
    <<\E n \in Nodes(g) : /\ NegativeValid(r, n)
                          /\ ~Contained(r.intervals[n], s) /\ ~Disjoint(r.intervals[n], s),
      "proper_node_boundary_crossing">>,
    <<TRUE, "required_evidence_unavailable">> >>)

\* The ordered rules of assess().
Verdict(c, g, s, r) == FirstOf(<<
    <<Nonmeaningful(c, s, r), [status |-> "rejected", reason |-> "candidate_nonmeaningful"]>>,
    <<Nonequivalent(g, s, r) # {},
      [status |-> "rejected", reason |-> "proper_node_nonequivalent"]>>,
    <<Ready(c, g, s, r) /\ Meaningful(c, s, r) /\ AllEquivalent(g, s, r),
      [status |-> "qualified", reason |-> "meaningful_closed_equivalent"]>>,
    <<TRUE, [status |-> "indeterminate", reason |-> IndeterminateReason(c, g, s, r)]>> >>)

\* The graph assess() stores when it is given none: no closure, never closed.
AvailabilityGraph(c) == [root |-> c, closed |-> FALSE, closure |-> <<>>]

Linked(c, i, j) == tasks[i].candidate = c /\ runs[j].task = i

\* Mutant (VerdictExact): any graph of the candidate serves.
FamilyUnchecked(c, t, g) == t.candidate = g.root

FamilyMatches(c, t, g) == t.family = <<c>> \o g.closure

StoredGraph(n) == IF n = 0 THEN Len(graphs) + 1 ELSE n

Conclude(c, i, j, g, n) ==
    LET v == Verdict(c, g, tasks[i].spec, runs[j])
    IN  assessments' = Append(assessments,
            [candidate |-> c, task |-> i, run |-> j, graph |-> n,
             status |-> v.status, reason |-> v.reason])

\* assess(): n = 0 is a call without a graph; it stores its own and skips the family check.
Assess(c, i, j, n, permitted) ==
    LET g == IF n = 0 THEN AvailabilityGraph(c) ELSE graphs[n]
    IN  IF /\ permitted /\ Linked(c, i, j)
           /\ n # 0 => g.root = c /\ FamilyMatches(c, tasks[i], g)
           /\ c \in DOMAIN runs[j].intervals
        THEN /\ Room
             /\ graphs' = IF n = 0 THEN Append(graphs, g) ELSE graphs
             /\ Conclude(c, i, j, g, StoredGraph(n))
             /\ UNCHANGED <<tasks, runs, invalidations, accounts, failures>>
        ELSE Failed

-----------------------------------------------------------------------------
\* The intervals evaluate_baselines() keeps: the finite ones of the proper nodes.
ProperIntervals(r, g) == {n \in Nodes(g) : Finite(r, n)}
\* Mutant (BaselinesConsistent): the finite intervals at hand count as all of them.
SomeEvidence(r, g) == g.closed

CompleteEvidence(r, g) == g.closed /\ Cardinality(ProperIntervals(r, g)) = Len(g.closure)
CandidateStands(c, s, r) == Finite(r, c) /\ r.intervals[c].lower >= s.theta

\* evaluate_baselines(): looks at intervals and closure only, and stores a receipt.
EvaluateBaselines(k, permitted) ==
    LET a == assessments[k]  s == tasks[a.task].spec  r == runs[a.run]  g == graphs[a.graph]
        kept == ProperIntervals(r, g)
    IN  IF permitted
        THEN /\ accounts' = accounts \cup
                  {[assessment |-> k,
                    exact |-> /\ CandidateStands(a.candidate, s, r)
                              /\ kept # {} /\ CompleteEvidence(r, g)
                              /\ \A n \in kept : Contained(r.intervals[n], s)]}
             /\ UNCHANGED <<graphs, tasks, runs, assessments, invalidations, failures>>
        ELSE Failed

\* invalidate_dependency(): an accepted call is permitted and has a known reason and evidence.
InvalidateDependency(k, accepted) ==
    IF accepted
    THEN /\ Len(invalidations) < MaxInvalidations
         /\ invalidations' = Append(invalidations, k)
         /\ UNCHANGED <<graphs, tasks, runs, assessments, accounts, failures>>
    ELSE Failed

\* current_dependency_validity(): one event about the assessment is enough, for ever.
CurrentValidity(k) ==
    /\ \A e \in DOMAIN invalidations : invalidations[e] # k
    /\ runs[assessments[k].run].dependency

-----------------------------------------------------------------------------
Init == /\ graphs = <<>> /\ tasks = <<>> /\ runs = <<>> /\ assessments = <<>>
        /\ invalidations = <<>> /\ accounts = {} /\ failures = 0

Next ==
    \/ \E c \in Candidates, limit \in NodeLimits : Refine(c, limit)
    \/ \E c \in Candidates, g \in 0 .. Len(graphs), s \in Specs, permitted \in BOOLEAN :
          DeclareTask(c, g, s, permitted)
    \/ \E i \in DOMAIN tasks :
          \E supplied \in SUBSET (Family(tasks[i]) \cup {Stray}), accepted \in BOOLEAN :
             ExecuteTask(i, supplied, accepted)
    \/ \E c \in Candidates, i \in DOMAIN tasks, j \in DOMAIN runs, n \in 0 .. Len(graphs),
          permitted \in BOOLEAN : Assess(c, i, j, n, permitted)
    \/ \E k \in DOMAIN assessments, permitted \in BOOLEAN : EvaluateBaselines(k, permitted)
    \/ \E k \in DOMAIN assessments, accepted \in BOOLEAN : InvalidateDependency(k, accepted)

Spec == Init /\ [][Next]_vars
-----------------------------------------------------------------------------
Statuses == {"qualified", "rejected", "indeterminate"}
IntervalType == [known : BOOLEAN, lower : Int, upper : Int]
Reasons == {"meaningful_closed_equivalent", "candidate_nonmeaningful",
            "proper_node_nonequivalent", "empty_proper_set", "uncertainty_contract_missing",
            "budget_exhausted", "calibration_unavailable", "artifact_control_failed",
            "required_evidence_unavailable", "closure_unavailable",
            "candidate_boundary_crossing", "proper_node_boundary_crossing"}

\* Every record refers to records stored before it, and a family has each unit once.
TypeOK ==
    /\ \A n \in DOMAIN graphs : graphs[n].root \in Candidates /\ graphs[n].closed \in BOOLEAN
    /\ \A i \in DOMAIN tasks :
          LET t == tasks[i]
          IN  /\ t.candidate \in Candidates /\ t.spec \in Specs
              /\ \A p, q \in DOMAIN t.family : p # q => t.family[p] # t.family[q]
    /\ \A j \in DOMAIN runs :
          LET r == runs[j]
          IN  /\ r.task \in DOMAIN tasks
              /\ DOMAIN r.intervals \subseteq Family(tasks[r.task])
              /\ \A u \in DOMAIN r.intervals : r.intervals[u] \in IntervalType
              /\ {r.exhausted, r.controls, r.dependency, r.calibrated, r.adjusted} \subseteq BOOLEAN
    /\ \A k \in DOMAIN assessments :
          LET a == assessments[k]
          IN  /\ a.candidate \in Candidates /\ a.task \in DOMAIN tasks /\ a.run \in DOMAIN runs
              /\ a.graph \in DOMAIN graphs /\ a.status \in Statuses /\ a.reason \in Reasons
    /\ \A e \in DOMAIN invalidations : invalidations[e] \in DOMAIN assessments
    /\ accounts \subseteq [assessment : DOMAIN assessments, exact : BOOLEAN]
    /\ failures \in 0 .. MaxFailures

-----------------------------------------------------------------------------
\* The ontology's own definitions (7.2, 7.3), over sets of values instead of comparisons.
Values(i) == i.lower .. i.upper
Negligible(s) == (-s.minus) .. s.plus
Conclusive(r, u) == /\ u \in DOMAIN r.intervals
                    /\ r.intervals[u].known /\ r.adjusted
                    /\ r.controls /\ r.calibrated /\ r.dependency
CandidateRejects(c, s, r) == Conclusive(r, c) /\ \A x \in Values(r.intervals[c]) : x < s.theta
NodeRejects(n, s, r) == Conclusive(r, n) /\ Values(r.intervals[n]) \cap Negligible(s) = {}
Qualifies(c, units, s, r) ==
    /\ \A u \in units : Conclusive(r, u)
    /\ \A x \in Values(r.intervals[c]) : x >= s.theta
    /\ \A n \in units \ {c} : Values(r.intervals[n]) \subseteq Negligible(s)

(* assess() over a closed graph gives exactly the ontology's status of the  *)
(* family the task froze before any score was seen: rejected on conclusive *)
(* evidence against any unit of it, qualified when every unit is in and    *)
(* none is left out, else indeterminate.  Without a closed graph nothing   *)
(* is qualified and only the candidate's own interval can reject.          *)
VerdictExact ==
    \A k \in DOMAIN assessments :
       LET a == assessments[k]
           t == tasks[a.task]
           r == runs[a.run]
           rejects == CandidateRejects(a.candidate, t.spec, r)
           nodes == Family(t) \ {a.candidate}
       IN  IF graphs[a.graph].closed
           THEN /\ a.status = "rejected" <=>
                      rejects \/ \E n \in nodes : NodeRejects(n, t.spec, r)
                /\ a.status = "qualified" <=> Qualifies(a.candidate, Family(t), t.spec, r)
           ELSE a.status = (IF rejects THEN "rejected" ELSE "indeterminate")

(* The reason an indeterminate assessment gives is one the evidence bears   *)
(* out (ontology 7.3, the table of canonical reasons): no cascade of       *)
(* _indeterminate_reason() ever blames a budget, a closure or an absent    *)
(* interval when the family has them.                                      *)
ReasonsExplained ==
    \A k \in DOMAIN assessments :
       LET a == assessments[k]
           t == tasks[a.task]
           r == runs[a.run]
           lacking == Family(t) \ DOMAIN r.intervals
           straddles(u, low, high) ==
               /\ u \in DOMAIN r.intervals
               /\ \/ r.intervals[u].lower < low /\ r.intervals[u].upper >= low
                  \/ r.intervals[u].lower <= high /\ r.intervals[u].upper > high
       IN  /\ a.reason = "empty_proper_set" => Terminal(a.candidate)
           /\ a.reason = "uncertainty_contract_missing" => t.spec.method = "unavailable"
           /\ a.reason = "budget_exhausted" => lacking # {} /\ r.supplied # {}
           /\ a.reason = "calibration_unavailable" => ~t.spec.calibrated
           /\ a.reason = "artifact_control_failed" => ~r.controls
           /\ a.reason = "closure_unavailable" => ~graphs[a.graph].closed
           /\ a.reason = "required_evidence_unavailable" => ~r.dependency \/ lacking # {}
           /\ a.reason = "candidate_boundary_crossing" =>
                  straddles(a.candidate, t.spec.theta, t.spec.theta - 1)
           /\ a.reason = "proper_node_boundary_crossing" =>
                  \E n \in Family(t) \ {a.candidate} :
                     straddles(n, -t.spec.minus, t.spec.plus)

(* execute_task() never spends more than the task allows, evaluates the     *)
(* units with evidence in family order without gaps, and says              *)
(* "completed" only when no supplied evidence was left unread, so a run     *)
(* cannot pass off a cut family as a whole one.                             *)
BudgetHonest ==
    \A j \in DOMAIN runs :
       LET r == runs[j]
           t == tasks[r.task]
           evaluated == DOMAIN r.intervals
       IN  /\ r.used = 2 * t.spec.repeats * Cardinality(evaluated)
           /\ r.used <= t.spec.maximum
           /\ r.supplied # evaluated => r.exhausted
           /\ r.exhausted => evaluated # Family(t)
           /\ \A p, q \in DOMAIN t.family :
                 p < q /\ t.family[q] \in evaluated /\ t.family[p] \in r.supplied
                    => t.family[p] \in evaluated

(* evaluate_baselines() decides the DSQ condition with code of its own: it  *)
(* holds for every qualified assessment and for no rejected one, and when  *)
(* it holds for an indeterminate one the whole family was examined and     *)
(* only a control, a calibration or a dependency stands in the way.         *)
BaselinesConsistent ==
    \A x \in accounts :
       LET a == assessments[x.assessment]
       IN  /\ a.status = "qualified" => x.exact
           /\ a.status = "rejected" => ~x.exact
           /\ a.status = "indeterminate" /\ x.exact =>
                 /\ ~(runs[a.run].controls /\ runs[a.run].calibrated /\ runs[a.run].dependency)
                 /\ DOMAIN runs[a.run].intervals = Family(tasks[a.task])

\* What validate_p6_semantics() asks of a DSQAssessment when it is stored.
Recordable(a, g, s, r) ==
    LET shown == {n \in Nodes(g) : Finite(r, n)}
    IN  CASE a.status = "qualified" ->
               /\ a.reason = "meaningful_closed_equivalent"
               /\ Finite(r, a.candidate) /\ r.intervals[a.candidate].lower >= s.theta
               /\ Nodes(g) # {} /\ Nodes(g) \subseteq shown
               /\ \A n \in shown : r.intervals[n].lower >= -s.minus /\ r.intervals[n].upper <= s.plus
          [] a.status = "rejected" ->
               \/ /\ a.reason = "candidate_nonmeaningful"
                  /\ Finite(r, a.candidate) /\ r.intervals[a.candidate].upper < s.theta
               \/ /\ a.reason = "proper_node_nonequivalent"
                  /\ \E n \in shown : \/ r.intervals[n].upper < -s.minus
                                      \/ r.intervals[n].lower > s.plus
          [] OTHER -> a.reason \notin {"meaningful_closed_equivalent", "candidate_nonmeaningful",
                                       "proper_node_nonequivalent"}

(* assess() never builds a record that the semantic validator run at        *)
(* insertion would refuse: a refusal there would end the call with neither  *)
(* a verdict nor a failure receipt.                                         *)
AlwaysRecorded ==
    \A k \in DOMAIN assessments :
       LET a == assessments[k]
       IN  Recordable(a, graphs[a.graph], tasks[a.task].spec, runs[a.run])

(* An invalidated assessment stays invalidated whatever is appended later,  *)
(* also about other assessments, and its stored verdict is never rewritten. *)
InvalidationSticks ==
    [][\A k \in DOMAIN assessments :
          /\ k \in DOMAIN assessments' /\ assessments'[k] = assessments[k]
          /\ ~CurrentValidity(k) => ~CurrentValidity(k)']_vars

(* Ontology 7.3: a conclusive rejection of a unit of the preregistered       *)
(* closure takes precedence over coincident incompleteness, so the verdict  *)
(* on one candidate, task and run cannot depend on whether the caller also  *)
(* names the refinement graph.                                              *)
RejectionTakesPrecedence ==
    \A k \in DOMAIN assessments :
       LET a == assessments[k]
           t == tasks[a.task]
       IN  (\E n \in Family(t) \ {a.candidate} : NodeRejects(n, t.spec, runs[a.run]))
              => a.status = "rejected"
=============================================================================
