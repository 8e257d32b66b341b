----------------------------- MODULE Relations -----------------------------
(***************************************************************************)
(* Cross-arm comparison: relations/service.py.                             *)
(*                                                                         *)
(* Two representations (arms) of one source cut it into candidate units    *)
(* of their own.  compare() brings units of both arms onto one calibrated  *)
(* substrate, decides pair by pair whether they could correspond, selects  *)
(* the pairs by an exhaustive minimum-cost b-matching under a budget, and  *)
(* stores one assertion for every component of the matching and for every  *)
(* unit left out.  Contracts, assertions and invalidations are only        *)
(* appended; a refused or failed call leaves a receipt.                    *)
(*                                                                         *)
(* Coverages are multiples of 1/Scale and costs of 1/(2 Scale); the        *)
(* measure is uniform.  Units are compared by their evidence only: native  *)
(* addresses, evidence references and stability do not decide anything.    *)
(***************************************************************************)
EXTENDS Integers, FiniteSets, FiniteSetsExt, OrderedTests

CONSTANTS
    Units,           \* candidate units
    ArmOf,           \* the representation instance each unit belongs to
    Contracts,       \* projection contracts callers declare
    Specs,           \* comparison specifications callers declare
    EvidenceOf(_,_), \* the evidence callers give on sources and targets
    Scale,           \* denominator of coverages
    MaxUnits, MaxEdges,   \* MAX_UNITS_PER_SIDE, MAX_EDGES; MAX_SUBSETS is 2 ^ MAX_EDGES
    MaxProjections, MaxComparisons, MaxOutcomes, MaxInvalidations, MaxFailures  \* bounds

Arms == {ArmOf[u] : u \in Units}

ASSUME RelationsAssumption ==
    /\ IsFiniteSet(Units) /\ DOMAIN ArmOf = Units
    /\ Scale \in Nat \ {0}
    /\ {MaxUnits, MaxEdges, MaxProjections, MaxComparisons, MaxOutcomes, MaxInvalidations, MaxFailures}
          \subseteq Nat

\* A specification has every field, and an override is the number int() makes of it.
ASSUME SpecAssumption ==
    \A s \in Specs :
       /\ {"threshold", "halfWidth", "effectTolerance", "sourceDefault", "targetDefault",
           "maximumN", "overrides", "cardinalities", "decompositions", "penalty", "tolerance",
           "preference", "maximumEdges", "maximumSubsets"} \subseteq DOMAIN s
       /\ \A u \in DOMAIN s.overrides : s.overrides[u] \in Int

\* Footprints are nonnegative on every cell, and the effects of a projected unit are numbers.
ASSUME EvidenceAssumption ==
    \A S, T \in SUBSET Units : \A e \in EvidenceOf(S, T), u \in S \cup T :
       /\ e.units[u].footprint \in Nat \X Nat
       /\ e.units[u].status = "valid" => {e.units[u].lower, e.units[u].upper} \subseteq Int

VARIABLES
    projections,    \* ProjectionSpec records
    comparisons,    \* ComparisonSpec records
    outcomes,       \* what each compare() stored
    invalidations,  \* the outcome and assertion each invalidation event is about
    failures        \* receipts of refused and failed calls

contracts == <<projections, comparisons>>
vars == <<contracts, outcomes, invalidations, failures>>

Failed == /\ failures < MaxFailures
          /\ failures' = failures + 1
          /\ UNCHANGED <<contracts, outcomes, invalidations>>

-----------------------------------------------------------------------------
(* Contracts *)

\* declare_projection(): a contract is calibrated and complete, or is refused.
DeclareProjection(arm, contract, permitted) ==
    IF permitted /\ contract.calibrated
    THEN /\ Len(projections) < MaxProjections
         /\ projections' = Append(projections, [arm |-> arm, contract |-> contract])
         /\ UNCHANGED <<comparisons, outcomes, invalidations, failures>>
    ELSE Failed

ValidSpec(s) ==
    /\ s.threshold \in 0 .. Scale
    /\ {s.effectTolerance, s.halfWidth, s.penalty, s.tolerance} \subseteq Nat
    /\ {s.sourceDefault, s.targetDefault, s.maximumN} \subseteq 1 .. MaxUnits
    /\ s.cardinalities # {} /\ s.cardinalities \subseteq {"1:1", "1:n", "n:1"}
    /\ s.preference \in {"fewer_edges", "more_edges"}
    /\ {s.maximumEdges, s.maximumSubsets} \subseteq Nat \ {0}
    /\ s.maximumEdges <= MaxEdges /\ s.maximumSubsets <= 2 ^ MaxEdges

\* _validate_projection_pair(): one substrate, measure, alignment and footprint method; a
\* projection with another effect estimand needs a conversion.
ComparablePair(p, q, s) ==
    /\ p.arm # q.arm
    /\ p.contract.substrate = q.contract.substrate
    /\ p.contract.kind = q.contract.kind
    /\ \A x \in {p, q} : x.contract.effect = s.effect \/ x.arm \in s.conversions

\* declare_comparison(): a request that does not name two projections leaves nothing behind.
DeclareComparison(i, j, s, permitted) ==
    /\ i # j
    /\ IF /\ permitted
          /\ ValidSpec(s)
          /\ ComparablePair(projections[i], projections[j], s)
       THEN /\ Len(comparisons) < MaxComparisons
            /\ comparisons' = Append(comparisons, [source |-> i, target |-> j, spec |-> s])
            /\ UNCHANGED <<projections, outcomes, invalidations, failures>>
       ELSE Failed

KindOf(comparison) == projections[comparison.source].contract.kind

-----------------------------------------------------------------------------
(* Evidence on pairs *)

Mass(footprint) == footprint[1] + footprint[2]

Smaller(x, y) == IF x <= y THEN x ELSE y
Larger(x, y) == IF x >= y THEN x ELSE y

\* Mutant (AssertionsAccepted): energy footprints keep the mass they came with.
RawCoverage(kind, f, g) ==
    IF Mass(f) = 0 THEN 0
    ELSE (Scale * (Smaller(f[1], g[1]) + Smaller(f[2], g[2]))) \div Mass(f)

\* _coverage(): how much of f lies under g.  Energy footprints are brought to mass 1 first.
Coverage(kind, f, g) ==
    LET m == Mass(f)
        n == Mass(g)
        raw == Smaller(f[1], g[1]) + Smaller(f[2], g[2])
        normalized == Smaller(f[1] * n, g[1] * m) + Smaller(f[2] * n, g[2] * m)
    IN  IF m = 0 \/ n = 0 THEN 0
        ELSE IF kind = "expected_energy_change" THEN (Scale * normalized) \div (m * n)
        ELSE (Scale * raw) \div m

\* Mutant (Mirrored): the coverage of one direction is counted twice.
OneWayCost(kind, f, g) == 2 * Scale - 2 * Coverage(kind, f, g)

Cost(kind, f, g) == 2 * Scale - Coverage(kind, f, g) - Coverage(kind, g, f)

\* The controls of one pair: an address on the target side and the outcomes of its checks.
ControlState(controls) == FirstOf(<<
    <<controls.address = "absent", "omission">>,
    <<"failed" \in controls.checks, "loss">>,
    <<controls.address # "exists" \/ "incomplete" \in controls.checks \/ controls.checks = {},
      "incomplete">>,
    <<TRUE, "pending">> >>)

\* Both directions must be covered for sure; one that surely is not decides the other way.
CoverageState(kind, s, a, b) ==
    LET there == Coverage(kind, a.footprint, b.footprint)
        back == Coverage(kind, b.footprint, a.footprint)
        lower(c) == Larger(0, c - s.halfWidth)
        upper(c) == Smaller(Scale, c + s.halfWidth)
    IN  FirstOf(<<
            <<lower(there) >= s.threshold /\ lower(back) >= s.threshold, "passed">>,
            <<upper(there) < s.threshold \/ upper(back) < s.threshold, "coverage_failed">>,
            <<TRUE, "coverage_boundary">> >>)

\* The difference of the two effect intervals against the tolerance region.
EffectState(s, a, b) ==
    LET lower == a.lower - b.upper
        upper == a.upper - b.lower
    IN  FirstOf(<<
            <<lower >= -s.effectTolerance /\ upper <= s.effectTolerance, "eligible">>,
            <<upper < -s.effectTolerance \/ lower > s.effectTolerance, "effect_failed">>,
            <<TRUE, "effect_boundary">> >>)

PairState(kind, s, e, a, b) ==
    LET x == e.units[a]
        y == e.units[b]
        control == ControlState(e.controls[<<a, b>>])
        covered == CoverageState(kind, s, x, y)
    IN  FirstOf(<<
            <<"invalid" \in {x.status, y.status}, "projection_invalid">>,
            <<"capability_unavailable" \in {x.status, y.status}, "capability_unavailable">>,
            <<{x.status, y.status} # {"valid"}, "incomplete">>,
            <<control # "pending", control>>,
            <<Mass(x.footprint) = 0 \/ Mass(y.footprint) = 0, "zero_footprint">>,
            <<covered # "passed", covered>>,
            <<TRUE, EffectState(s, x, y)>> >>)

-----------------------------------------------------------------------------
(* Matching *)

Eligible(kind, s, e, S, T) == {p \in S \X T : PairState(kind, s, e, p[1], p[2]) = "eligible"}

\* Overrides are taken from the specification as they are; nothing checks them.
Capacity(s, S, u) ==
    IF u \in DOMAIN s.overrides THEN s.overrides[u]
    ELSE IF u \in S THEN s.sourceDefault ELSE s.targetDefault

Touched(M) == {p[1] : p \in M} \cup {p[2] : p \in M}
Degree(M, u) == Cardinality({p \in M : u = p[1] \/ u = p[2]})

\* _components(): the units reached from u through the edges of M.
ComponentOf(M, u) ==
    {v \in Touched(M) : \A X \in SUBSET Touched(M) :
        u \in X /\ (\A p \in M : p[1] \in X <=> p[2] \in X) => v \in X}
Components(M) == {ComponentOf(M, u) : u \in Touched(M)}

ManyToMany(C, S) == Cardinality(C \cap S) > 1 /\ Cardinality(C \ S) > 1

CardinalitiesPermit(s, S, M) ==
    \A C \in Components(M) :
       LET m == Cardinality(C \cap S)
           n == Cardinality(C \ S)
       IN  /\ m = 1 /\ n = 1 => "1:1" \in s.cardinalities
           /\ m = 1 /\ n > 1 => "1:n" \in s.cardinalities /\ n <= s.maximumN
           /\ m > 1 /\ n = 1 => "n:1" \in s.cardinalities /\ m <= s.maximumN
           /\ ManyToMany(C, S) => s.decompositions # <<>>

WithinCapacity(s, S, T, M) == \A u \in S \cup T : Degree(M, u) <= Capacity(s, S, u)

Feasible(s, S, T, E) ==
    {M \in SUBSET E : WithinCapacity(s, S, T, M) /\ CardinalitiesPermit(s, S, M)}

Unmatched(M, U) == U \ Touched(M)

Costs(kind, e, S, T) ==
    [p \in S \X T |-> Cost(kind, e.units[p[1]].footprint, e.units[p[2]].footprint)]

\* Mutant (MatchesPay): only sources pay for being left out.
SourcesPay(kind, s, e, S, T, M) ==
    SumFunctionOnSet(Costs(kind, e, S, T), M) + s.penalty * Cardinality(Unmatched(M, S))

Objective(kind, s, e, S, T, M) ==
    SumFunctionOnSet(Costs(kind, e, S, T), M) + s.penalty * Cardinality(Unmatched(M, S \cup T))

\* _exact_match(): the feasible solutions within the tolerance of the optimum ...
Primary(kind, s, e, S, T) ==
    LET feasible == Feasible(s, S, T, Eligible(kind, s, e, S, T))
        value == [M \in feasible |-> Objective(kind, s, e, S, T, M)]
    IN  {M \in feasible : \A N \in feasible : value[M] <= value[N] + s.tolerance}

PreferredTo(s, M, N) ==
    IF s.preference = "fewer_edges" THEN Cardinality(M) <= Cardinality(N)
    ELSE Cardinality(M) >= Cardinality(N)

\* Mutant (TwinsAlike): the replay order decides between solutions that are equally good.
ReplayDecides(s, primary) ==
    {CHOOSE M \in primary : \A N \in primary : PreferredTo(s, M, N)}

\* ... and what the cardinality preference leaves of them.
Survivors(s, primary) == {M \in primary : \A N \in primary : PreferredTo(s, M, N)}

OverBudget(s, E) ==
    Cardinality(E) > s.maximumEdges \/ 2 ^ Cardinality(E) > s.maximumSubsets

-----------------------------------------------------------------------------
(* Assertions *)

\* An assertion names sources, targets and the units it is the answer for: its own, or the
\* one unit left out of the matching beside every unit of the other arm.
Assertion(sources, targets, about, relation, status, reason) ==
    [sources |-> sources, targets |-> targets, about |-> about,
     relation |-> relation, status |-> status, reason |-> reason]

About(sources, targets, relation, status, reason) ==
    Assertion(sources, targets, sources \cup targets, relation, status, reason)

RelationReason == [overlap |-> "matched_overlap", split |-> "matched_split",
                   merge |-> "matched_merge"]

\* _global_terminal(): one answer for the whole request, or none.
Terminal(statuses, states) == FirstOf(<<
    <<"invalid" \in statuses, <<"incomparable", "resolved", "projection_invalid">> >>,
    <<"capability_unavailable" \in statuses,
        <<"none", "indeterminate", "comparison_capability_unavailable">> >>,
    <<"incomplete" \in statuses, <<"none", "indeterminate", "eligible_evidence_incomplete">> >>,
    <<states = {"omission"}, <<"omission", "resolved", "target_address_absent">> >>,
    <<"loss" \in states /\ states \subseteq {"loss", "omission"},
        <<"loss", "resolved", "fidelity_failed">> >>,
    <<states = {"zero_footprint"}, <<"none", "indeterminate", "zero_footprint_undefined">> >>,
    <<states = {"incomplete"}, <<"none", "indeterminate", "eligible_evidence_incomplete">> >>,
    <<TRUE, <<"none", "pending", "matching">> >> >>)

\* _unmatched_reason(): what is known of the pairs of a unit the matching leaves out.
UnmatchedReason(states) == FirstOf(<<
    <<"coverage_boundary" \in states, <<"indeterminate", "coverage_boundary_crossing">> >>,
    <<"effect_boundary" \in states, <<"indeterminate", "effect_boundary_crossing">> >>,
    <<"zero_footprint" \in states, <<"indeterminate", "zero_footprint_undefined">> >>,
    <<"incomplete" \in states, <<"indeterminate", "eligible_evidence_incomplete">> >>,
    <<"coverage_failed" \in states, <<"resolved", "coverage_failed">> >>,
    <<"effect_failed" \in states, <<"resolved", "effect_incompatible">> >>,
    <<TRUE, <<"resolved", "unmatched_by_spec">> >> >>)

PartEdges(part, M) == (part.sources \X part.targets) \cap M

\* _decomposed_assertions(): the parts lie in the component and share out all of the solution.
DecompositionFits(d, C, S, M) ==
    /\ d # <<>>
    /\ \A i \in DOMAIN d :
          /\ d[i].relation \in DOMAIN RelationReason
          /\ d[i].sources \subseteq C \cap S /\ d[i].targets \subseteq C \ S
          /\ PartEdges(d[i], M) # {}
          /\ \A j \in 1 .. i - 1 : PartEdges(d[i], M) \cap PartEdges(d[j], M) = {}
    /\ UNION {PartEdges(d[i], M) : i \in DOMAIN d} = M

\* A solution whose declared decomposition does not fit fails the whole request.
Decomposable(s, S, M) ==
    \A C \in Components(M) :
       ManyToMany(C, S) /\ Len(s.decompositions) = 1 =>
          DecompositionFits(s.decompositions[1], C, S, M)

ComponentAssertions(s, C, S) ==
    LET matched(sources, targets, relation) ==
            About(sources, targets, relation, "resolved", RelationReason[relation])
        shape == FirstOf(<<
            <<Cardinality(C) = 2, "overlap">>, <<Cardinality(C \cap S) = 1, "split">>,
            <<TRUE, "merge">> >>)
        parts == s.decompositions[1]
    IN  IF ~ManyToMany(C, S) THEN {matched(C \cap S, C \ S, shape)}
        ELSE IF Len(s.decompositions) # 1
        THEN {About(C \cap S, C \ S, "none", "indeterminate", "decomposition_ambiguity")}
        ELSE {matched(parts[i].sources, parts[i].targets, parts[i].relation) :
                  i \in DOMAIN parts}

SourceLeftOut(kind, s, e, T, u) ==
    LET answer == UnmatchedReason({PairState(kind, s, e, u, v) : v \in T})
    IN  Assertion({u}, T, {u}, "none", answer[1], answer[2])

TargetLeftOut(kind, s, e, S, v) ==
    LET answer == UnmatchedReason({PairState(kind, s, e, u, v) : u \in S})
    IN  Assertion(S, {v}, {v}, "none", answer[1], answer[2])

\* Mutant (NoSilentDrop): only the sources left out are reported.
SourcesReported(kind, s, e, S, T, M) ==
    {SourceLeftOut(kind, s, e, T, u) : u \in Unmatched(M, S)}

UnmatchedAssertions(kind, s, e, S, T, M) ==
    {SourceLeftOut(kind, s, e, T, u) : u \in Unmatched(M, S)}
    \cup {TargetLeftOut(kind, s, e, S, v) : v \in Unmatched(M, T)}

MatchedAssertions(kind, s, e, S, T, M) ==
    (UNION {ComponentAssertions(s, C, S) : C \in Components(M)})
    \cup UnmatchedAssertions(kind, s, e, S, T, M)

\* Every failure of _resolve_relations() ends the request without an assertion.
NoAnswer == {}

\* _resolve_relations(): the assertions of one request.
Resolution(kind, s, e, S, T) ==
    LET statuses == {e.units[u].status : u \in S \cup T}
        states == {PairState(kind, s, e, u, v) : u \in S, v \in T}
        terminal == Terminal(statuses, states)
        whole(relation, status, reason) == {About(S, T, relation, status, reason)}
        survivors == Survivors(s, Primary(kind, s, e, S, T))
        representative == CHOOSE M \in survivors : TRUE
    IN  IF terminal[2] # "pending" THEN whole(terminal[1], terminal[2], terminal[3])
        ELSE IF OverBudget(s, Eligible(kind, s, e, S, T))
        THEN whole("none", "indeterminate", "matching_budget_exhausted")
        ELSE IF survivors = {} THEN NoAnswer
        ELSE IF Cardinality(survivors) > 1
        THEN whole("none", "indeterminate", "structural_matching_ambiguity")
        ELSE IF ~Decomposable(s, S, representative) THEN NoAnswer
        ELSE MatchedAssertions(kind, s, e, S, T, representative)

-----------------------------------------------------------------------------
(* Requests *)

ArmUnits(arm) == {u \in Units : ArmOf[u] = arm}

\* _validate_candidate_arms()
CandidateArms(c, S, T) ==
    /\ S \subseteq ArmUnits(projections[c.source].arm)
    /\ T \subseteq ArmUnits(projections[c.target].arm)

\* _prepare_unit(): a unit that was projected has its effect stated in the common contract, by
\* the declared conversion if its projection needs one, and a footprint of the declared kind.
Prepared(kind, x) ==
    x.status = "valid" =>
       /\ x.stated
       /\ x.lower <= x.upper
       /\ kind = "exceedance_probability" => \A i \in 1 .. 2 : x.footprint[i] <= Scale

Bounded(X) == X # {} /\ Cardinality(X) <= MaxUnits

\* compare(): one request; its assertions are stored in one transaction.
Compare(k, S, T, e, permitted) ==
    LET c == comparisons[k]
        kind == KindOf(c)
        answer == Resolution(kind, c.spec, e, S, T)
    IN  /\ Len(outcomes) < MaxOutcomes
        /\ IF /\ permitted
              /\ Bounded(S) /\ Bounded(T)
              /\ CandidateArms(c, S, T)
              /\ \A u \in S \cup T : Prepared(kind, e.units[u])
              /\ answer # NoAnswer
           THEN /\ outcomes' = Append(outcomes, [comparison |-> k, sources |-> S, targets |-> T,
                                                 evidence |-> e, assertions |-> answer])
                /\ UNCHANGED <<contracts, invalidations, failures>>
           ELSE Failed

\* invalidate_relation(): a defect is appended beside the frozen assertion.
InvalidateRelation(k, a, canonical, permitted) ==
    IF permitted /\ canonical
    THEN /\ Len(invalidations) < MaxInvalidations
         /\ invalidations' = Append(invalidations, [outcome |-> k, assertion |-> a])
         /\ UNCHANGED <<contracts, outcomes, failures>>
    ELSE Failed

-----------------------------------------------------------------------------
Init ==
    /\ projections = <<>> /\ comparisons = <<>>
    /\ outcomes = <<>> /\ invalidations = <<>>
    /\ failures = 0

Next ==
    \E permitted \in BOOLEAN :
       \/ \E arm \in Arms, contract \in Contracts : DeclareProjection(arm, contract, permitted)
       \/ \E i, j \in DOMAIN projections, s \in Specs : DeclareComparison(i, j, s, permitted)
       \/ \E k \in DOMAIN comparisons, S, T \in SUBSET Units :
             \E e \in EvidenceOf(S, T) : Compare(k, S, T, e, permitted)
       \/ \E k \in DOMAIN outcomes, canonical \in BOOLEAN :
             \E a \in outcomes[k].assertions : InvalidateRelation(k, a, canonical, permitted)

Spec == Init /\ [][Next]_vars

-----------------------------------------------------------------------------
(* Properties *)

SpecOf(o) == comparisons[o.comparison].spec
OutcomeKind(o) == KindOf(comparisons[o.comparison])
Stored == {outcomes[k] : k \in DOMAIN outcomes}

(* Every record names records that exist and fit it: a comparison brings     *)
(* two comparable projections of different arms together, an outcome keeps   *)
(* sources and targets to the arms of its comparison, and an assertion names *)
(* units of its request only.                                                *)
TypeOK ==
    /\ projections \in Seq([arm : Arms, contract : Contracts])
    /\ comparisons \in Seq([source : DOMAIN projections, target : DOMAIN projections,
                             spec : Specs])
    /\ \A k \in DOMAIN comparisons :
          LET c == comparisons[k]
          IN  ComparablePair(projections[c.source], projections[c.target], c.spec)
    /\ \A o \in Stored :
          /\ o.comparison \in DOMAIN comparisons
          /\ o.sources \subseteq ArmUnits(projections[comparisons[o.comparison].source].arm)
          /\ o.targets \subseteq ArmUnits(projections[comparisons[o.comparison].target].arm)
          /\ o.assertions # {}
          /\ \A a \in o.assertions : a.sources \subseteq o.sources /\ a.targets \subseteq o.targets
    /\ \A i \in DOMAIN invalidations :
          /\ invalidations[i].outcome \in DOMAIN outcomes
          /\ invalidations[i].assertion \in outcomes[invalidations[i].outcome].assertions
    /\ failures \in 0 .. MaxFailures

(* AX-17: every unit of a request is answered for by an assertion of its     *)
(* outcome, and by one only unless a declared decomposition puts it in       *)
(* several parts; the matcher neither drops a unit nor matches it and        *)
(* reports it unmatched.                                                     *)
NoSilentDrop ==
    \A o \in Stored : \A u \in o.sources \cup o.targets :
       /\ \E a \in o.assertions : u \in a.about
       /\ SpecOf(o).decompositions = <<>> =>
             \A a, b \in o.assertions : u \in a.about \cap b.about => a = b

(* What a resolved matching kept was worth keeping, and what it left out was *)
(* not: the cost of an overlap stays below the penalty of leaving out both   *)
(* units, and an eligible pair of two units left out, which could have been  *)
(* matched with each other, costs at least as much, up to the tolerance and  *)
(* strictly on the side the cardinality preference decides.                  *)
MatchesPay ==
    \A o \in Stored :
       LET s == SpecOf(o)
           e == o.evidence
           kind == OutcomeKind(o)
           cost(u, v) == Cost(kind, e.units[u].footprint, e.units[v].footprint)
           fewer == s.preference = "fewer_edges"
           overlaps == {a \in o.assertions : a.relation = "overlap"}
           out(side) == {u \in side : \E a \in o.assertions :
                            a.about = {u} /\ a.relation = "none"}
       IN  s.decompositions = <<>> =>
           /\ \A a \in overlaps : \A u \in a.sources, v \in a.targets :
                 IF fewer THEN cost(u, v) < 2 * s.penalty
                 ELSE cost(u, v) <= 2 * s.penalty + s.tolerance
           /\ \A u \in out(o.sources), v \in out(o.targets) :
                 /\ PairState(kind, s, e, u, v) = "eligible"
                 /\ "1:1" \in s.cardinalities
                 /\ Capacity(s, o.sources, u) > 0 /\ Capacity(s, o.sources, v) > 0
                 => IF fewer THEN cost(u, v) >= 2 * s.penalty - s.tolerance
                    ELSE cost(u, v) > 2 * s.penalty

Exchange(t, u, X) ==
    {IF x = t THEN u ELSE IF x = u THEN t ELSE x : x \in X}

Exchanged(t, u, a) ==
    Assertion(Exchange(t, u, a.sources), Exchange(t, u, a.targets), Exchange(t, u, a.about),
              a.relation, a.status, a.reason)

(* Two targets, or two sources, with the same evidence in every respect and  *)
(* the same capacity are answered alike: the outcome is the same with the    *)
(* two exchanged, so no replay order was made into a resolved relation.      *)
TwinsAlike ==
    \A o \in Stored :
       LET e == o.evidence
           capacity(u) == Capacity(SpecOf(o), o.sources, u)
           twins(t, u) ==
              /\ e.units[t] = e.units[u] /\ capacity(t) = capacity(u)
              /\ \/ /\ {t, u} \subseteq o.sources
                    /\ \A x \in o.targets : e.controls[<<t, x>>] = e.controls[<<u, x>>]
                 \/ /\ {t, u} \subseteq o.targets
                    /\ \A x \in o.sources : e.controls[<<x, t>>] = e.controls[<<x, u>>]
       IN  SpecOf(o).decompositions = <<>> =>
              \A t, u \in o.sources \cup o.targets :
                 twins(t, u) => {Exchanged(t, u, a) : a \in o.assertions} = o.assertions

MirrorRelation(r) == CASE r = "split" -> "merge" [] r = "merge" -> "split" [] OTHER -> r

MirrorReason(a) == CASE a.relation = "split" -> "matched_merge"
                     [] a.relation = "merge" -> "matched_split" [] OTHER -> a.reason

MirrorAssertion(a) == Assertion(a.targets, a.sources, a.about, MirrorRelation(a.relation),
                                a.status, MirrorReason(a))

MirrorCardinality(n) == CASE n = "1:n" -> "n:1" [] n = "n:1" -> "1:n" [] OTHER -> n

MirrorSpec(s) ==
    [s EXCEPT !.sourceDefault = s.targetDefault, !.targetDefault = s.sourceDefault,
              !.cardinalities = {MirrorCardinality(n) : n \in s.cardinalities}]

MirrorEvidence(e, S, T) ==
    [units |-> e.units, controls |-> [p \in T \X S |-> e.controls[<<p[2], p[1]>>]]]

(* Which arm is called the source decides nothing but the names: the same    *)
(* request with the arms exchanged, and with them the default capacities,    *)
(* the cardinalities and the addresses of the controls, is answered by the   *)
(* mirrored assertions.                                                      *)
Mirrored ==
    \A o \in Stored :
       SpecOf(o).decompositions = <<>> =>
          Resolution(OutcomeKind(o), MirrorSpec(SpecOf(o)),
                     MirrorEvidence(o.evidence, o.sources, o.targets), o.targets, o.sources)
          = {MirrorAssertion(a) : a \in o.assertions}

\* What validate_p7_semantics() asks of a RelationAssertion when it is stored.
AnswerAllowed(a) ==
    IF a.status = "resolved"
    THEN <<a.relation, a.reason>> \in
           {<<"overlap", "matched_overlap">>, <<"split", "matched_split">>,
            <<"merge", "matched_merge">>, <<"omission", "target_address_absent">>,
            <<"loss", "fidelity_failed">>, <<"incomparable", "projection_invalid">>,
            <<"none", "coverage_failed">>, <<"none", "effect_incompatible">>,
            <<"none", "unmatched_by_spec">>}
    ELSE /\ a.relation = "none"
         /\ a.reason \in {"zero_footprint_undefined", "coverage_boundary_crossing",
                          "effect_boundary_crossing", "structural_matching_ambiguity",
                          "decomposition_ambiguity", "eligible_evidence_incomplete",
                          "matching_budget_exhausted", "comparison_capability_unavailable"}

Recordable(a, o) ==
    /\ AnswerAllowed(a)
    /\ OutcomeKind(o) = "expected_energy_change" =>
          \A u \in a.sources, v \in a.targets :
             LET f == o.evidence.units[u].footprint
                 g == o.evidence.units[v].footprint
             IN  Coverage(OutcomeKind(o), f, g) = Coverage(OutcomeKind(o), g, f)

(* compare() never builds an assertion that the semantic validator run at    *)
(* insertion would refuse: relation, status and reason always go together,   *)
(* and unit-integral coverages are symmetric.  A refusal there would end the *)
(* request with neither an answer nor a failure receipt.                     *)
AssertionsAccepted == \A o \in Stored : \A a \in o.assertions : Recordable(a, o)
=============================================================================
