-------------------------- MODULE RelationsProofs --------------------------
(***************************************************************************)
(* Theorems about Relations, for every set of units, every contract,       *)
(* specification and evidence, and every bound.                            *)
(*   The components of a matching are shown to share out the units it      *)
(*   touches (ComponentsPartition), so that components and units left out  *)
(*   together answer for every unit once (MatchedCover, MatchedOnce).      *)
(*   What a cascade of reasons can answer is read off its list, and the    *)
(*   answers are among those the validator of stored records allows.       *)
(*   The invariant RelationsInv says that every stored outcome is the      *)
(*   resolution of its request under the specification it names; it is     *)
(*   inductive because contracts and outcomes are only appended.           *)
(*   A stored matching is optimal among the feasible ones, and adding or   *)
(*   taking away one pair changes its value by the cost of the pair and    *)
(*   two penalties: hence what is kept and what is left out both pay.      *)
(*   Two requests that differ in the names of their units, or in which arm *)
(*   is called the source, have the same feasible matchings of the same    *)
(*   values up to the names (SameRequest, SameAnswer): hence twins are     *)
(*   answered alike and the arms can be exchanged.                         *)
(***************************************************************************)
EXTENDS Relations, SharedLemmas

(***************************************************************************)
(* Matchings and their components                                          *)
(***************************************************************************)

\* A unit lies in its own component, with whatever an edge connects.
LEMMA ComponentClosed ==
    ASSUME NEW M, NEW u \in Touched(M)
    PROVE  /\ u \in ComponentOf(M, u) /\ ComponentOf(M, u) \subseteq Touched(M)
           /\ \A p \in M : p[1] \in ComponentOf(M, u) <=> p[2] \in ComponentOf(M, u)
<1>1. \A p \in M : p[1] \in Touched(M) /\ p[2] \in Touched(M)
  BY DEF Touched
<1> QED BY <1>1 DEF ComponentOf

\* Two components that share a unit are one.
LEMMA ComponentsPartition ==
    ASSUME NEW M, NEW u \in Touched(M), NEW v \in ComponentOf(M, u)
    PROVE  ComponentOf(M, v) = ComponentOf(M, u)
<1> DEFINE C == ComponentOf(M, u)
           D == ComponentOf(M, v)
           Closed(X) == \A p \in M : p[1] \in X <=> p[2] \in X
<1>1. v \in Touched(M)
  BY DEF ComponentOf
<1>2. \A p \in M : p[1] \in Touched(M) /\ p[2] \in Touched(M)
  BY DEF Touched
<1>3. Closed(C) /\ C \subseteq Touched(M) /\ Closed(D) /\ D \subseteq Touched(M) /\ v \in D
  BY <1>1, ComponentClosed
<1>4. D \subseteq C
  BY <1>3 DEF ComponentOf
<1>5. u \in D
  <2>1. SUFFICES ASSUME u \notin D PROVE FALSE
    OBVIOUS
  <2>2. (Touched(M) \ D) \in SUBSET Touched(M) /\ Closed(Touched(M) \ D)
    BY <1>2, <1>3
  <2>3. u \in Touched(M) \ D
    BY <2>1
  <2>4. v \in Touched(M) \ D
    BY <2>2, <2>3 DEF ComponentOf
  <2> QED BY <1>3, <2>4
<1>6. C \subseteq D
  BY <1>3, <1>5 DEF ComponentOf
<1> QED BY <1>4, <1>6

\* What a matching of the two sides touches belongs to them.
LEMMA MatchingWithin ==
    ASSUME NEW S, NEW T, NEW M \in SUBSET (S \X T)
    PROVE  /\ Touched(M) \subseteq S \cup T
           /\ \A C \in Components(M) : C \cap S \subseteq S /\ C \ S \subseteq T
<1>1. Touched(M) \subseteq S \cup T
  BY DEF Touched
<1> QED BY <1>1, ComponentClosed DEF Components

\* What survives the preference is a matching of the two sides.
LEMMA SurvivorsMatch ==
    ASSUME NEW kind, NEW s, NEW e, NEW S, NEW T,
           NEW M \in Survivors(s, Primary(kind, s, e, S, T))
    PROVE  M \in SUBSET (S \X T)
BY DEF Survivors, Primary, Feasible, Eligible

(***************************************************************************)
(* Assertions of one request                                               *)
(***************************************************************************)

\* The shape of a component that is not many-to-many.
Shape(C, S) == FirstOf(<<
    <<Cardinality(C) = 2, "overlap">>, <<Cardinality(C \cap S) = 1, "split">>,
    <<TRUE, "merge">> >>)

\* The three answers of the cascade that names a component.
LEMMA ShapeAnswers ==
    ASSUME NEW p, NEW q
    PROVE  FirstOf(<<<<p, "overlap">>, <<q, "split">>, <<TRUE, "merge">>>>)
              \in {"overlap", "split", "merge"}
<1> DEFINE tests == <<<<p, "overlap">>, <<q, "split">>, <<TRUE, "merge">>>>
<1>1. DOMAIN tests = 1 .. 3 /\ tests[3][1]
  OBVIOUS
<1>2. \A k \in 1 .. 3 : tests[k][2] \in {"overlap", "split", "merge"}
  OBVIOUS
<1> HIDE DEF tests
<1>3. 3 \in Nat \ {0} /\ 3 <= 12
  OBVIOUS
<1>4. FirstOf(tests) \in {"overlap", "split", "merge"}
  BY <1>1, <1>2, <1>3, AnswersWithin, Zenon
<1> QED BY <1>4 DEF tests

\* Every component has a reason for its shape.
LEMMA ShapeKnown ==
    ASSUME NEW C, NEW S PROVE Shape(C, S) \in DOMAIN RelationReason
<1>1. Shape(C, S) \in {"overlap", "split", "merge"}
  BY ShapeAnswers DEF Shape
<1> QED BY <1>1 DEF RelationReason

\* The forms an assertion about a component can take.
LEMMA ComponentForms ==
    ASSUME NEW s, NEW C, NEW S, NEW a \in ComponentAssertions(s, C, S)
    PROVE  \/ /\ ~ManyToMany(C, S)
              /\ \E r \in DOMAIN RelationReason :
                    a = About(C \cap S, C \ S, r, "resolved", RelationReason[r])
           \/ /\ ManyToMany(C, S) /\ Len(s.decompositions) # 1
              /\ a = About(C \cap S, C \ S, "none", "indeterminate", "decomposition_ambiguity")
           \/ /\ ManyToMany(C, S) /\ Len(s.decompositions) = 1
              /\ \E i \in DOMAIN s.decompositions[1] :
                    LET part == s.decompositions[1][i]
                    IN  a = About(part.sources, part.targets, part.relation, "resolved",
                                  RelationReason[part.relation])
<1>1. ComponentAssertions(s, C, S) =
        IF ~ManyToMany(C, S)
        THEN {About(C \cap S, C \ S, Shape(C, S), "resolved", RelationReason[Shape(C, S)])}
        ELSE IF Len(s.decompositions) # 1
        THEN {About(C \cap S, C \ S, "none", "indeterminate", "decomposition_ambiguity")}
        ELSE {About(s.decompositions[1][i].sources, s.decompositions[1][i].targets,
                    s.decompositions[1][i].relation, "resolved",
                    RelationReason[s.decompositions[1][i].relation]) :
                 i \in DOMAIN s.decompositions[1]}
  BY DEF ComponentAssertions, Shape
<1> QED BY <1>1, ShapeKnown

TerminalAnswers ==
    {<<"incomparable", "resolved", "projection_invalid">>,
     <<"none", "indeterminate", "comparison_capability_unavailable">>,
     <<"none", "indeterminate", "eligible_evidence_incomplete">>,
     <<"omission", "resolved", "target_address_absent">>,
     <<"loss", "resolved", "fidelity_failed">>,
     <<"none", "indeterminate", "zero_footprint_undefined">>}
Pending == <<"none", "pending", "matching">>

\* An answer for the whole request is one of six, unless matching is needed.
LEMMA TerminalList ==
    ASSUME NEW p1, NEW p2, NEW p3, NEW p4, NEW p5, NEW p6, NEW p7
    PROVE  FirstOf(<<
             <<p1, <<"incomparable", "resolved", "projection_invalid">> >>,
             <<p2, <<"none", "indeterminate", "comparison_capability_unavailable">> >>,
             <<p3, <<"none", "indeterminate", "eligible_evidence_incomplete">> >>,
             <<p4, <<"omission", "resolved", "target_address_absent">> >>,
             <<p5, <<"loss", "resolved", "fidelity_failed">> >>,
             <<p6, <<"none", "indeterminate", "zero_footprint_undefined">> >>,
             <<p7, <<"none", "indeterminate", "eligible_evidence_incomplete">> >>,
             <<TRUE, <<"none", "pending", "matching">> >> >>)
           \in TerminalAnswers \cup {Pending}
<1> DEFINE tests == <<
             <<p1, <<"incomparable", "resolved", "projection_invalid">> >>,
             <<p2, <<"none", "indeterminate", "comparison_capability_unavailable">> >>,
             <<p3, <<"none", "indeterminate", "eligible_evidence_incomplete">> >>,
             <<p4, <<"omission", "resolved", "target_address_absent">> >>,
             <<p5, <<"loss", "resolved", "fidelity_failed">> >>,
             <<p6, <<"none", "indeterminate", "zero_footprint_undefined">> >>,
             <<p7, <<"none", "indeterminate", "eligible_evidence_incomplete">> >>,
             <<TRUE, <<"none", "pending", "matching">> >> >>
<1>1. DOMAIN tests = 1 .. 8 /\ tests[8][1]
  OBVIOUS
<1>2. \A k \in 1 .. 8 : tests[k][2] \in TerminalAnswers \cup {Pending}
  BY DEF TerminalAnswers, Pending
<1>3. 8 \in Nat \ {0} /\ 8 <= 12
  OBVIOUS
<1> HIDE DEF tests
<1>4. FirstOf(tests) \in TerminalAnswers \cup {Pending}
  BY <1>1, <1>2, <1>3, AnswersWithin, Zenon
<1> QED BY <1>4 DEF tests

\* Every list of statuses has a terminal answer or is pending.
LEMMA TerminalKnown ==
    ASSUME NEW statuses, NEW states
    PROVE  Terminal(statuses, states) \in TerminalAnswers \cup {Pending}
BY TerminalList DEF Terminal

UnmatchedAnswers ==
    {<<"indeterminate", "coverage_boundary_crossing">>,
     <<"indeterminate", "effect_boundary_crossing">>,
     <<"indeterminate", "zero_footprint_undefined">>,
     <<"indeterminate", "eligible_evidence_incomplete">>,
     <<"resolved", "coverage_failed">>, <<"resolved", "effect_incompatible">>,
     <<"resolved", "unmatched_by_spec">>}

\* A unit left out gets one of seven reasons, with the status that goes with it.
LEMMA UnmatchedList ==
    ASSUME NEW p1, NEW p2, NEW p3, NEW p4, NEW p5, NEW p6
    PROVE  FirstOf(<<
             <<p1, <<"indeterminate", "coverage_boundary_crossing">> >>,
             <<p2, <<"indeterminate", "effect_boundary_crossing">> >>,
             <<p3, <<"indeterminate", "zero_footprint_undefined">> >>,
             <<p4, <<"indeterminate", "eligible_evidence_incomplete">> >>,
             <<p5, <<"resolved", "coverage_failed">> >>,
             <<p6, <<"resolved", "effect_incompatible">> >>,
             <<TRUE, <<"resolved", "unmatched_by_spec">> >> >>)
           \in UnmatchedAnswers
<1> DEFINE tests == <<
             <<p1, <<"indeterminate", "coverage_boundary_crossing">> >>,
             <<p2, <<"indeterminate", "effect_boundary_crossing">> >>,
             <<p3, <<"indeterminate", "zero_footprint_undefined">> >>,
             <<p4, <<"indeterminate", "eligible_evidence_incomplete">> >>,
             <<p5, <<"resolved", "coverage_failed">> >>,
             <<p6, <<"resolved", "effect_incompatible">> >>,
             <<TRUE, <<"resolved", "unmatched_by_spec">> >> >>
<1>1. DOMAIN tests = 1 .. 7 /\ tests[7][1]
  OBVIOUS
<1>2. \A k \in 1 .. 7 : tests[k][2] \in UnmatchedAnswers
  BY DEF UnmatchedAnswers
<1>3. 7 \in Nat \ {0} /\ 7 <= 12
  OBVIOUS
<1> HIDE DEF tests
<1>4. FirstOf(tests) \in UnmatchedAnswers
  BY <1>1, <1>2, <1>3, AnswersWithin, Zenon
<1> QED BY <1>4 DEF tests

\* Every list of states gives one of the reasons to be unmatched.
LEMMA UnmatchedKnown ==
    ASSUME NEW states PROVE UnmatchedReason(states) \in UnmatchedAnswers
BY UnmatchedList DEF UnmatchedReason

\* A unit left out is answered for on its own, beside every unit of the other arm.
LEMMA SourceLeftOutForm ==
    ASSUME NEW kind, NEW s, NEW e, NEW T, NEW u
    PROVE  \E r \in UnmatchedAnswers :
              SourceLeftOut(kind, s, e, T, u) = Assertion({u}, T, {u}, "none", r[1], r[2])
BY UnmatchedKnown DEF SourceLeftOut

\* The same for a unit of the target arm.
LEMMA TargetLeftOutForm ==
    ASSUME NEW kind, NEW s, NEW e, NEW S, NEW v
    PROVE  \E r \in UnmatchedAnswers :
              TargetLeftOut(kind, s, e, S, v) = Assertion(S, {v}, {v}, "none", r[1], r[2])
BY UnmatchedKnown DEF TargetLeftOut

\* What is asserted of a unit left out is about this unit.
LEMMA LeftOutAbout ==
    ASSUME NEW kind, NEW s, NEW e, NEW X, NEW u
    PROVE  /\ SourceLeftOut(kind, s, e, X, u).about = {u}
           /\ TargetLeftOut(kind, s, e, X, u).about = {u}
<1>1. SourceLeftOut(kind, s, e, X, u).about = {u}
  BY DEF SourceLeftOut, Assertion
<1>2. TargetLeftOut(kind, s, e, X, u).about = {u}
  BY DEF TargetLeftOut, Assertion
<1> QED BY <1>1, <1>2

\* Every assertion a matching is turned into, by the loop that builds it.
LEMMA MatchedForms ==
    ASSUME NEW kind, NEW s, NEW e, NEW S, NEW T, NEW M,
           NEW a \in MatchedAssertions(kind, s, e, S, T, M)
    PROVE  \/ \E C \in Components(M) : a \in ComponentAssertions(s, C, S)
           \/ \E u \in Unmatched(M, S) : a = SourceLeftOut(kind, s, e, T, u)
           \/ \E u \in Unmatched(M, T) : a = TargetLeftOut(kind, s, e, S, u)
<1>1. \/ a \in UNION {ComponentAssertions(s, C, S) : C \in Components(M)}
      \/ a \in UnmatchedAssertions(kind, s, e, S, T, M)
  BY DEF MatchedAssertions
<1>2. CASE a \in UNION {ComponentAssertions(s, C, S) : C \in Components(M)}
  BY <1>2
<1>3. CASE a \in UnmatchedAssertions(kind, s, e, S, T, M)
  BY <1>3 DEF UnmatchedAssertions
<1> QED BY <1>1, <1>2, <1>3

\* The three ways a request is answered.
LEMMA ResolutionForms ==
    ASSUME NEW kind, NEW s, NEW e, NEW S, NEW T
    PROVE  LET answer == Resolution(kind, s, e, S, T)
           IN  \/ answer = {}
               \/ \E r \in TerminalAnswers \cup
                      {<<"none", "indeterminate", "matching_budget_exhausted">>,
                       <<"none", "indeterminate", "structural_matching_ambiguity">>} :
                    answer = {About(S, T, r[1], r[2], r[3])}
               \/ \E M \in SUBSET (S \X T) :
                    /\ Decomposable(s, S, M)
                    /\ answer = MatchedAssertions(kind, s, e, S, T, M)
<1> DEFINE statuses == {e.units[u].status : u \in S \cup T}
           states == {PairState(kind, s, e, u, v) : u \in S, v \in T}
           terminal == Terminal(statuses, states)
           survivors == Survivors(s, Primary(kind, s, e, S, T))
           M == CHOOSE N \in survivors : TRUE
           over == OverBudget(s, Eligible(kind, s, e, S, T))
           whole(r) == {About(S, T, r[1], r[2], r[3])}
           answer == Resolution(kind, s, e, S, T)
<1>1. answer = IF terminal[2] # "pending" THEN whole(terminal)
               ELSE IF over
               THEN {About(S, T, "none", "indeterminate", "matching_budget_exhausted")}
               ELSE IF survivors = {} THEN {}
               ELSE IF Cardinality(survivors) > 1
               THEN {About(S, T, "none", "indeterminate", "structural_matching_ambiguity")}
               ELSE IF ~Decomposable(s, S, M) THEN {}
               ELSE MatchedAssertions(kind, s, e, S, T, M)
  BY DEF Resolution, NoAnswer
<1>2. terminal \in TerminalAnswers \cup {Pending}
  BY TerminalKnown
<1>3. terminal[2] # "pending" => terminal \in TerminalAnswers
  BY <1>2 DEF Pending
<1>4. survivors # {} => M \in SUBSET (S \X T)
  <2>1. survivors # {} => M \in survivors
    OBVIOUS
  <2> QED BY <2>1, SurvivorsMatch
<1> HIDE DEF terminal, survivors, M, over
<1>5. CASE terminal[2] # "pending"
  BY <1>1, <1>3, <1>5
<1>6. CASE terminal[2] = "pending" /\ over
  <2>1. answer = whole(<<"none", "indeterminate", "matching_budget_exhausted">>)
    BY <1>1, <1>6
  <2> QED BY <2>1
<1>7. CASE terminal[2] = "pending" /\ ~over /\ survivors # {} /\ Cardinality(survivors) > 1
  <2>1. answer = whole(<<"none", "indeterminate", "structural_matching_ambiguity">>)
    BY <1>1, <1>7
  <2> QED BY <2>1
<1>8. CASE terminal[2] = "pending" /\ ~over /\ survivors # {} /\ ~(Cardinality(survivors) > 1)
  BY <1>1, <1>4, <1>8
<1>9. CASE terminal[2] = "pending" /\ ~over /\ survivors = {}
  BY <1>1, <1>9
<1> QED BY <1>5, <1>6, <1>7, <1>8, <1>9

\* Assertions of a matching name units of the request only.
LEMMA MatchedWithin ==
    ASSUME NEW kind, NEW s, NEW e, NEW S, NEW T, NEW M \in SUBSET (S \X T),
           Decomposable(s, S, M), NEW a \in MatchedAssertions(kind, s, e, S, T, M)
    PROVE  a.sources \subseteq S /\ a.targets \subseteq T /\ AnswerAllowed(a)
<1>1. ASSUME NEW C \in Components(M), a \in ComponentAssertions(s, C, S)
      PROVE  a.sources \subseteq S /\ a.targets \subseteq T /\ AnswerAllowed(a)
  <2>1. C \cap S \subseteq S /\ C \ S \subseteq T
    BY MatchingWithin
  <2>2. ASSUME NEW r \in DOMAIN RelationReason,
               a = About(C \cap S, C \ S, r, "resolved", RelationReason[r])
        PROVE  a.sources \subseteq S /\ a.targets \subseteq T /\ AnswerAllowed(a)
    BY <2>1, <2>2 DEF About, Assertion, AnswerAllowed, RelationReason
  <2>3. ASSUME a = About(C \cap S, C \ S, "none", "indeterminate", "decomposition_ambiguity")
        PROVE  a.sources \subseteq S /\ a.targets \subseteq T /\ AnswerAllowed(a)
    BY <2>1, <2>3 DEF About, Assertion, AnswerAllowed
  <2>4. ASSUME ManyToMany(C, S), Len(s.decompositions) = 1,
               NEW i \in DOMAIN s.decompositions[1],
               a = About(s.decompositions[1][i].sources, s.decompositions[1][i].targets,
                         s.decompositions[1][i].relation, "resolved",
                         RelationReason[s.decompositions[1][i].relation])
        PROVE  a.sources \subseteq S /\ a.targets \subseteq T /\ AnswerAllowed(a)
    <3>1. DecompositionFits(s.decompositions[1], C, S, M)
      BY <2>4 DEF Decomposable
    <3> DEFINE part == s.decompositions[1][i]
    <3>2. /\ part.relation \in DOMAIN RelationReason
          /\ part.sources \subseteq C \cap S /\ part.targets \subseteq C \ S
      BY <3>1, <2>4 DEF DecompositionFits
    <3>3. a = About(part.sources, part.targets, part.relation, "resolved",
                    RelationReason[part.relation])
      BY <2>4
    <3> HIDE DEF part
    <3> QED BY <2>1, <3>2, <3>3 DEF About, Assertion, AnswerAllowed, RelationReason
  <2> QED BY <1>1, <2>2, <2>3, <2>4, ComponentForms
<1>2. ASSUME NEW u \in Unmatched(M, S), a = SourceLeftOut(kind, s, e, T, u)
      PROVE  a.sources \subseteq S /\ a.targets \subseteq T /\ AnswerAllowed(a)
  <2>1. PICK r \in UnmatchedAnswers : a = Assertion({u}, T, {u}, "none", r[1], r[2])
    BY <1>2, SourceLeftOutForm
  <2> QED BY <2>1 DEF Assertion, Unmatched, UnmatchedAnswers, AnswerAllowed
<1>3. ASSUME NEW u \in Unmatched(M, T), a = TargetLeftOut(kind, s, e, S, u)
      PROVE  a.sources \subseteq S /\ a.targets \subseteq T /\ AnswerAllowed(a)
  <2>1. PICK r \in UnmatchedAnswers : a = Assertion(S, {u}, {u}, "none", r[1], r[2])
    BY <1>3, TargetLeftOutForm
  <2> QED BY <2>1 DEF Assertion, Unmatched, UnmatchedAnswers, AnswerAllowed
<1> QED BY <1>1, <1>2, <1>3, MatchedForms

\* Every unit is answered for: in its component, in a part of it, or as left out.
LEMMA MatchedCover ==
    ASSUME NEW kind, NEW s, NEW e, NEW S, NEW T, NEW M \in SUBSET (S \X T),
           Decomposable(s, S, M), NEW u \in S \cup T
    PROVE  \E a \in MatchedAssertions(kind, s, e, S, T, M) : u \in a.about
<1> DEFINE all == MatchedAssertions(kind, s, e, S, T, M)
           C == ComponentOf(M, u)
<1>1. CASE u \notin Touched(M)
  <2>1. CASE u \in S
    <3>1. SourceLeftOut(kind, s, e, T, u) \in UnmatchedAssertions(kind, s, e, S, T, M)
      BY <1>1, <2>1 DEF UnmatchedAssertions, Unmatched
    <3>2. SourceLeftOut(kind, s, e, T, u) \in MatchedAssertions(kind, s, e, S, T, M)
      BY <3>1 DEF MatchedAssertions
    <3>3. SourceLeftOut(kind, s, e, T, u).about = {u}
      BY LeftOutAbout
    <3> QED BY <3>2, <3>3
  <2>2. CASE u \in T
    <3>1. TargetLeftOut(kind, s, e, S, u) \in UnmatchedAssertions(kind, s, e, S, T, M)
      BY <1>1, <2>2 DEF UnmatchedAssertions, Unmatched
    <3>2. TargetLeftOut(kind, s, e, S, u) \in MatchedAssertions(kind, s, e, S, T, M)
      BY <3>1 DEF MatchedAssertions
    <3>3. TargetLeftOut(kind, s, e, S, u).about = {u}
      BY LeftOutAbout
    <3> QED BY <3>2, <3>3
  <2> QED BY <2>1, <2>2
<1>2. CASE u \in Touched(M)
  <2>1. C \in Components(M) /\ u \in C /\ C \subseteq Touched(M)
    BY <1>2, ComponentClosed DEF Components
  <2>2. ComponentAssertions(s, C, S) \subseteq all
    BY <2>1 DEF MatchedAssertions
  <2> HIDE DEF all, C
  <2>3. SUFFICES \E a \in ComponentAssertions(s, C, S) : u \in a.about
    BY <2>2 DEF all
  <2>4. CASE ~ManyToMany(C, S)
    BY <2>1, <2>4 DEF ComponentAssertions, About, Assertion
  <2>5. CASE ManyToMany(C, S) /\ Len(s.decompositions) # 1
    BY <2>1, <2>5 DEF ComponentAssertions, About, Assertion
  <2>6. CASE ManyToMany(C, S) /\ Len(s.decompositions) = 1
    <3> DEFINE parts == s.decompositions[1]
    <3>1. DecompositionFits(parts, C, S, M)
      BY <2>1, <2>6 DEF Decomposable
    <3>2. PICK p \in M : u = p[1] \/ u = p[2]
      BY <1>2 DEF Touched
    <3>3. PICK i \in DOMAIN parts : p \in PartEdges(parts[i], M)
      BY <3>1 DEF DecompositionFits
    <3>4. u \in parts[i].sources \cup parts[i].targets
      BY <3>2, <3>3 DEF PartEdges
    <3>5. About(parts[i].sources, parts[i].targets, parts[i].relation, "resolved",
                RelationReason[parts[i].relation]) \in ComponentAssertions(s, C, S)
      BY <2>6 DEF ComponentAssertions
    <3> QED BY <3>4, <3>5 DEF About, Assertion
  <2> QED BY <2>4, <2>5, <2>6
<1> QED BY <1>1, <1>2

\* Without a declared decomposition no unit is answered for twice.
LEMMA MatchedOnce ==
    ASSUME NEW kind, NEW s, NEW e, NEW S, NEW T, S \cap T = {}, NEW M \in SUBSET (S \X T),
           s.decompositions = <<>>,
           NEW a \in MatchedAssertions(kind, s, e, S, T, M),
           NEW b \in MatchedAssertions(kind, s, e, S, T, M),
           NEW u \in a.about \cap b.about
    PROVE  a = b
<1> DEFINE all == MatchedAssertions(kind, s, e, S, T, M)
           sourceOf(x) == SourceLeftOut(kind, s, e, T, x)
           targetOf(x) == TargetLeftOut(kind, s, e, S, x)
           of(C) == IF ManyToMany(C, S)
                    THEN About(C \cap S, C \ S, "none", "indeterminate",
                               "decomposition_ambiguity")
                    ELSE About(C \cap S, C \ S, Shape(C, S), "resolved",
                               RelationReason[Shape(C, S)])
<1>1. \A C : ComponentAssertions(s, C, S) = {of(C)} /\ of(C).about = C
  <2>1. Len(s.decompositions) # 1
    OBVIOUS
  <2> QED BY <2>1 DEF ComponentAssertions, Shape, About, Assertion
<1>2. \A x : sourceOf(x).about = {x} /\ targetOf(x).about = {x}
  BY LeftOutAbout
<1> HIDE DEF of
<1>3. \A x \in all : \/ \E C \in Components(M) : x = of(C)
                     \/ \E v \in Unmatched(M, S) : x = sourceOf(v)
                     \/ \E v \in Unmatched(M, T) : x = targetOf(v)
  BY <1>1, MatchedForms
<1>4. \A C \in Components(M) : u \in C => C = ComponentOf(M, u) /\ u \in Touched(M)
  BY ComponentsPartition, ComponentClosed DEF Components
<1>5. \A x \in all : u \in x.about =>
         \/ u \in Touched(M) /\ x = of(ComponentOf(M, u))
         \/ u \notin Touched(M) /\ u \in S /\ x = sourceOf(u)
         \/ u \notin Touched(M) /\ u \in T /\ x = targetOf(u)
  BY <1>1, <1>2, <1>3, <1>4 DEF Unmatched
<1> QED BY <1>5

(***************************************************************************)
(* The answer to a request                                                 *)
(***************************************************************************)

\* Every assertion names units of the request and goes with its reason.
LEMMA ResolutionFits ==
    ASSUME NEW kind, NEW s, NEW e, NEW S, NEW T, NEW a \in Resolution(kind, s, e, S, T)
    PROVE  a.sources \subseteq S /\ a.targets \subseteq T /\ AnswerAllowed(a)
<1> DEFINE answer == Resolution(kind, s, e, S, T)
           wholes == TerminalAnswers \cup
                      {<<"none", "indeterminate", "matching_budget_exhausted">>,
                       <<"none", "indeterminate", "structural_matching_ambiguity">>}
<1>1. \/ \E r \in wholes : answer = {About(S, T, r[1], r[2], r[3])}
      \/ \E M \in SUBSET (S \X T) :
            Decomposable(s, S, M) /\ answer = MatchedAssertions(kind, s, e, S, T, M)
  BY ResolutionForms
<1> HIDE DEF answer, wholes
<1>2. ASSUME NEW r \in wholes, answer = {About(S, T, r[1], r[2], r[3])}
      PROVE  a.sources \subseteq S /\ a.targets \subseteq T /\ AnswerAllowed(a)
  <2>1. a = About(S, T, r[1], r[2], r[3])
    BY <1>2 DEF answer
  <2> QED BY <2>1 DEF wholes, TerminalAnswers, About, Assertion, AnswerAllowed
<1>3. ASSUME NEW M \in SUBSET (S \X T), Decomposable(s, S, M),
             answer = MatchedAssertions(kind, s, e, S, T, M)
      PROVE  a.sources \subseteq S /\ a.targets \subseteq T /\ AnswerAllowed(a)
  <2>1. a \in MatchedAssertions(kind, s, e, S, T, M)
    BY <1>3 DEF answer
  <2> QED BY <1>3, <2>1, MatchedWithin
<1> QED BY <1>1, <1>2, <1>3

\* An answer answers for every unit, and without decompositions for each once.
LEMMA ResolutionCovers ==
    ASSUME NEW kind, NEW s, NEW e, NEW S, NEW T, S \cap T = {},
           Resolution(kind, s, e, S, T) # {}, NEW u \in S \cup T
    PROVE  /\ \E a \in Resolution(kind, s, e, S, T) : u \in a.about
           /\ s.decompositions = <<>> =>
                 \A a, b \in Resolution(kind, s, e, S, T) : u \in a.about \cap b.about => a = b
<1> DEFINE answer == Resolution(kind, s, e, S, T)
<1>1. \/ \E r : answer = {About(S, T, r[1], r[2], r[3])}
      \/ \E M \in SUBSET (S \X T) :
            Decomposable(s, S, M) /\ answer = MatchedAssertions(kind, s, e, S, T, M)
  BY ResolutionForms
<1>2. ASSUME NEW r, answer = {About(S, T, r[1], r[2], r[3])}
      PROVE  /\ \E a \in answer : u \in a.about
             /\ \A a, b \in answer : a = b
  BY <1>2 DEF About, Assertion
<1>3. ASSUME NEW M \in SUBSET (S \X T), Decomposable(s, S, M),
             answer = MatchedAssertions(kind, s, e, S, T, M)
      PROVE  /\ \E a \in answer : u \in a.about
             /\ s.decompositions = <<>> =>
                   \A a, b \in answer : u \in a.about \cap b.about => a = b
  BY <1>3, MatchedCover, MatchedOnce
<1> QED BY <1>1, <1>2, <1>3

\* Footprints of mass one cover each other alike.
LEMMA EnergySymmetric ==
    ASSUME NEW f \in Nat \X Nat, NEW g \in Nat \X Nat
    PROVE  Coverage("expected_energy_change", f, g) = Coverage("expected_energy_change", g, f)
<1> DEFINE m == Mass(f)
           n == Mass(g)
           a1 == f[1] * n
           a2 == f[2] * n
           b1 == g[1] * m
           b2 == g[2] * m
<1>1. m \in Nat /\ n \in Nat
  BY DEF Mass
<1>2. a1 \in Nat /\ a2 \in Nat /\ b1 \in Nat /\ b2 \in Nat /\ m * n = n * m
  BY <1>1
<1>3. /\ Coverage("expected_energy_change", f, g) =
            IF m = 0 \/ n = 0 THEN 0
            ELSE (Scale * (Smaller(a1, b1) + Smaller(a2, b2))) \div (m * n)
      /\ Coverage("expected_energy_change", g, f) =
            IF n = 0 \/ m = 0 THEN 0
            ELSE (Scale * (Smaller(b1, a1) + Smaller(b2, a2))) \div (n * m)
  BY DEF Coverage
<1> HIDE DEF m, n, a1, a2, b1, b2
<1>4. Smaller(a1, b1) = Smaller(b1, a1) /\ Smaller(a2, b2) = Smaller(b2, a2)
  BY <1>2 DEF Smaller
<1> QED BY <1>2, <1>3, <1>4

(***************************************************************************)
(* The inductive invariant                                                 *)
(***************************************************************************)
ProjectionOK(p) == p \in [arm : Arms, contract : Contracts]

ComparisonOK(c) ==
    /\ c \in [source : DOMAIN projections, target : DOMAIN projections, spec : Specs]
    /\ ValidSpec(c.spec)
    /\ ComparablePair(projections[c.source], projections[c.target], c.spec)

\* An outcome is what its request, read under the contracts it names, resolves to.
Justified(o) ==
    /\ o.comparison \in DOMAIN comparisons
    /\ o.sources \subseteq ArmUnits(projections[comparisons[o.comparison].source].arm)
    /\ o.targets \subseteq ArmUnits(projections[comparisons[o.comparison].target].arm)
    /\ o.evidence \in EvidenceOf(o.sources, o.targets)
    /\ o.sources # {} /\ o.targets # {} /\ o.assertions # {}
    /\ o.assertions = Resolution(KindOf(comparisons[o.comparison]),
                                 comparisons[o.comparison].spec,
                                 o.evidence, o.sources, o.targets)

InvalidationOK(i) == i.outcome \in DOMAIN outcomes /\ i.assertion \in outcomes[i.outcome].assertions

Sequences == /\ Sequence(projections) /\ Sequence(comparisons)
             /\ Sequence(outcomes) /\ Sequence(invalidations)

RelationsInv ==
    /\ Sequences
    /\ \A i \in DOMAIN projections : ProjectionOK(projections[i])
    /\ \A k \in DOMAIN comparisons : ComparisonOK(comparisons[k])
    /\ \A k \in DOMAIN outcomes : Justified(outcomes[k])
    /\ \A i \in DOMAIN invalidations : InvalidationOK(invalidations[i])
    /\ failures \in 0 .. MaxFailures

(***************************************************************************)
(* What each variable can do in one step                                   *)
(***************************************************************************)

\* Each variable has one operation that appends to it.
LEMMA Writers ==
    ASSUME [Next]_vars
    PROVE  /\ projections' = projections \/ \E arm \in Arms, contract \in Contracts :
                 projections' = Append(projections, [arm |-> arm, contract |-> contract])
           /\ comparisons' = comparisons
                 \/ \E i, j \in DOMAIN projections, s \in Specs :
                       /\ ValidSpec(s) /\ ComparablePair(projections[i], projections[j], s)
                       /\ comparisons' =
                             Append(comparisons, [source |-> i, target |-> j, spec |-> s])
           /\ outcomes' = outcomes
                 \/ \E k \in DOMAIN comparisons, S, T \in SUBSET Units, permitted \in BOOLEAN :
                       \E e \in EvidenceOf(S, T) : Compare(k, S, T, e, permitted)
           /\ invalidations' = invalidations
                 \/ \E k \in DOMAIN outcomes : \E a \in outcomes[k].assertions :
                       invalidations' = Append(invalidations, [outcome |-> k, assertion |-> a])
           /\ failures' = failures \/ Failed
<1>1. ASSUME NEW arm \in Arms, NEW contract \in Contracts, NEW permitted \in BOOLEAN,
             DeclareProjection(arm, contract, permitted)
      PROVE  /\ UNCHANGED <<comparisons, outcomes, invalidations>>
             /\ failures' = failures \/ Failed
             /\ projections' = projections
                \/ projections' = Append(projections, [arm |-> arm, contract |-> contract])
  BY <1>1 DEF DeclareProjection, Failed, contracts
<1>2. ASSUME NEW i \in DOMAIN projections, NEW j \in DOMAIN projections, NEW s \in Specs,
             NEW permitted \in BOOLEAN, DeclareComparison(i, j, s, permitted)
      PROVE  /\ UNCHANGED <<projections, outcomes, invalidations>>
             /\ failures' = failures \/ Failed
             /\ comparisons' = comparisons
                \/ /\ ValidSpec(s) /\ ComparablePair(projections[i], projections[j], s)
                   /\ comparisons' = Append(comparisons, [source |-> i, target |-> j, spec |-> s])
  BY <1>2 DEF DeclareComparison, Failed, contracts
<1>3. ASSUME NEW k \in DOMAIN comparisons, NEW S \in SUBSET Units, NEW T \in SUBSET Units,
             NEW e, NEW permitted \in BOOLEAN, Compare(k, S, T, e, permitted)
      PROVE  /\ UNCHANGED <<projections, comparisons, invalidations>>
             /\ failures' = failures \/ Failed
  BY <1>3 DEF Compare, Failed, contracts
<1>4. ASSUME NEW k \in DOMAIN outcomes, NEW a, NEW canonical \in BOOLEAN,
             NEW permitted \in BOOLEAN, InvalidateRelation(k, a, canonical, permitted)
      PROVE  /\ UNCHANGED <<projections, comparisons, outcomes>>
             /\ failures' = failures \/ Failed
             /\ invalidations' = invalidations
                \/ invalidations' = Append(invalidations, [outcome |-> k, assertion |-> a])
  BY <1>4 DEF InvalidateRelation, Failed, contracts
<1>5. CASE UNCHANGED vars
  BY <1>5 DEF vars, contracts
<1>6. CASE Next
  BY <1>1, <1>2, <1>3, <1>4, <1>6 DEF Next
<1> QED BY <1>5, <1>6

\* A contract once declared keeps its number and its content.
Kept == /\ \A i \in DOMAIN projections : i \in DOMAIN projections' /\ projections'[i] = projections[i]
        /\ \A k \in DOMAIN comparisons : k \in DOMAIN comparisons' /\ comparisons'[k] = comparisons[k]

\* Projections and comparisons that are stored are never rewritten.
LEMMA ContractsKept ==
    ASSUME RelationsInv, [Next]_vars
    PROVE  Kept /\ Sequence(projections') /\ Sequence(comparisons')
<1>1. Sequence(projections) /\ Sequence(comparisons)
  BY DEF RelationsInv, Sequences
<1>2. /\ projections' = projections \/ \E x : projections' = Append(projections, x)
      /\ comparisons' = comparisons \/ \E x : comparisons' = Append(comparisons, x)
  BY Writers
<1>3. /\ Sequence(projections')
      /\ \A i \in DOMAIN projections : i \in DOMAIN projections' /\ projections'[i] = projections[i]
  BY <1>1, <1>2, Grown
<1>4. /\ Sequence(comparisons')
      /\ \A k \in DOMAIN comparisons : k \in DOMAIN comparisons' /\ comparisons'[k] = comparisons[k]
  BY <1>1, <1>2, Grown
<1> QED BY <1>3, <1>4 DEF Kept

\* compare() appends what its request resolves to.
LEMMA OutcomeStep ==
    ASSUME [Next]_vars
    PROVE  outcomes' = outcomes \/ \E o : Justified(o) /\ outcomes' = Append(outcomes, o)
<1>1. ASSUME NEW k \in DOMAIN comparisons, NEW S \in SUBSET Units, NEW T \in SUBSET Units,
             NEW permitted \in BOOLEAN, NEW e \in EvidenceOf(S, T),
             Compare(k, S, T, e, permitted), outcomes' # outcomes
      PROVE  \E o : Justified(o) /\ outcomes' = Append(outcomes, o)
  <2> DEFINE c == comparisons[k]
             answer == Resolution(KindOf(c), c.spec, e, S, T)
             o == [comparison |-> k, sources |-> S, targets |-> T, evidence |-> e,
                   assertions |-> answer]
  <2>1. /\ CandidateArms(c, S, T) /\ S # {} /\ T # {} /\ answer # {}
        /\ outcomes' = Append(outcomes, o)
    BY <1>1 DEF Compare, Failed, NoAnswer, Bounded
  <2>2. /\ o.comparison = k /\ o.sources = S /\ o.targets = T /\ o.evidence = e
        /\ o.assertions = answer
    OBVIOUS
  <2> HIDE DEF o, answer
  <2>3. Justified(o)
    BY <2>1, <2>2 DEF Justified, CandidateArms, answer
  <2> QED BY <2>1, <2>3
<1> QED BY <1>1, Writers

\* The contracts an outcome was resolved under stay as they are, so it stays justified.
LEMMA StaysJustified ==
    ASSUME RelationsInv, Kept, NEW o, Justified(o)
    PROVE  Justified(o)'
<1> DEFINE c == comparisons[o.comparison]
<1>1. /\ o.comparison \in DOMAIN comparisons' /\ comparisons'[o.comparison] = c
      /\ c.source \in DOMAIN projections /\ c.target \in DOMAIN projections
  BY DEF Kept, Justified, RelationsInv, ComparisonOK
<1>2. projections'[c.source] = projections[c.source]
      /\ projections'[c.target] = projections[c.target]
  BY <1>1 DEF Kept
<1>3. KindOf(c)' = KindOf(comparisons[o.comparison])
  BY <1>1, <1>2 DEF KindOf
<1> QED BY <1>1, <1>2, <1>3 DEF Justified, KindOf

\* Contracts, outcomes and invalidations go on referring to records that fit them.
LEMMA InductiveStep ==
    ASSUME RelationsInv, [Next]_vars
    PROVE  RelationsInv'
<1>1. Kept /\ Sequence(projections') /\ Sequence(comparisons')
  BY ContractsKept
<1>2. /\ Sequence(projections) /\ Sequence(comparisons)
      /\ Sequence(outcomes) /\ Sequence(invalidations)
  BY DEF RelationsInv, Sequences
<1>3. (\A i \in DOMAIN projections : ProjectionOK(projections[i]))'
  <2>1. \A i \in DOMAIN projections : ProjectionOK(projections[i])
    BY DEF RelationsInv
  <2>2. projections' = projections
           \/ \E x : ProjectionOK(x) /\ projections' = Append(projections, x)
    BY Writers DEF ProjectionOK
  <2> QED BY <1>2, <2>1, <2>2, Appended
<1>4. (\A k \in DOMAIN comparisons : ComparisonOK(comparisons[k]))'
  <2>1. ASSUME NEW c, ComparisonOK(c) PROVE ComparisonOK(c)'
    <3>1. c \in [source : DOMAIN projections', target : DOMAIN projections', spec : Specs]
      BY <1>1, <2>1 DEF ComparisonOK, Kept
    <3>2. projections'[c.source] = projections[c.source]
          /\ projections'[c.target] = projections[c.target]
      BY <1>1, <2>1 DEF ComparisonOK, Kept
    <3> QED BY <2>1, <3>1, <3>2 DEF ComparisonOK
  <2>2. \A k \in DOMAIN comparisons : ComparisonOK(comparisons[k])
    BY DEF RelationsInv
  <2>3. comparisons' = comparisons
           \/ \E c : ComparisonOK(c) /\ comparisons' = Append(comparisons, c)
    BY Writers DEF ComparisonOK
  <2>4. \A k \in DOMAIN comparisons' : \E c : c = comparisons'[k] /\ ComparisonOK(c)
    BY <1>2, <2>2, <2>3, Appended
  <2> QED BY <2>1, <2>4
<1>5. (\A k \in DOMAIN outcomes : Justified(outcomes[k]))'
  <2>1. \A k \in DOMAIN outcomes : Justified(outcomes[k])
    BY DEF RelationsInv
  <2>2. \A k \in DOMAIN outcomes' : \E o : o = outcomes'[k] /\ Justified(o)
    BY <1>2, <2>1, OutcomeStep, Appended
  <2> QED BY <1>1, <2>2, StaysJustified
<1>6. /\ Sequence(outcomes')
      /\ \A k \in DOMAIN outcomes : k \in DOMAIN outcomes' /\ outcomes'[k] = outcomes[k]
  <2>1. outcomes' = outcomes \/ \E o : outcomes' = Append(outcomes, o)
    BY OutcomeStep
  <2> QED BY <1>2, <2>1, Grown
<1>7. Sequence(invalidations') /\ (\A i \in DOMAIN invalidations : InvalidationOK(invalidations[i]))'
  <2>1. ASSUME NEW i, InvalidationOK(i) PROVE InvalidationOK(i)'
    BY <1>6, <2>1 DEF InvalidationOK
  <2>2. \A i \in DOMAIN invalidations : InvalidationOK(invalidations[i])
    BY DEF RelationsInv
  <2>3. invalidations' = invalidations
           \/ \E x : InvalidationOK(x) /\ invalidations' = Append(invalidations, x)
    BY Writers DEF InvalidationOK
  <2>4. \A i \in DOMAIN invalidations' : \E x : x = invalidations'[i] /\ InvalidationOK(x)
    BY <1>2, <2>2, <2>3, Appended
  <2>5. Sequence(invalidations')
    BY <1>2, <2>3, Grown
  <2> QED BY <2>1, <2>4, <2>5
<1>8. (failures \in 0 .. MaxFailures)'
  <2>1. failures \in 0 .. MaxFailures /\ MaxFailures \in Nat
    BY RelationsAssumption DEF RelationsInv
  <2>2. failures' = failures \/ (failures < MaxFailures /\ failures' = failures + 1)
    BY Writers DEF Failed
  <2> QED BY <2>1, <2>2
<1> QED BY <1>1, <1>3, <1>4, <1>5, <1>6, <1>7, <1>8 DEF RelationsInv, Sequences, Sequence

\* Nothing is stored at first, and unchanged variables keep the invariant.
THEOREM Inductive == Spec => []RelationsInv
<1>1. ASSUME Init PROVE RelationsInv
  <2>1. /\ Sequence(projections) /\ Sequence(comparisons) /\ Sequence(outcomes)
        /\ Sequence(invalidations)
        /\ DOMAIN projections = {} /\ DOMAIN comparisons = {} /\ DOMAIN outcomes = {}
        /\ DOMAIN invalidations = {}
    BY <1>1, EmptySequence DEF Init
  <2>2. failures \in 0 .. MaxFailures
    BY <1>1, RelationsAssumption DEF Init
  <2> QED BY <2>1, <2>2 DEF RelationsInv, Sequences
<1>2. RelationsInv /\ [Next]_vars => RelationsInv'
  BY InductiveStep
<1> QED BY <1>1, <1>2, PTL DEF Spec

(***************************************************************************)
(* The properties                                                          *)
(***************************************************************************)

\* What is known of a stored outcome: its resolution, over the units of two different arms.
LEMMA StoredOutcome ==
    ASSUME RelationsInv, NEW o \in Stored
    PROVE  /\ Justified(o) /\ o.sources \cap o.targets = {}
           /\ o.sources \subseteq Units /\ o.targets \subseteq Units
           /\ o.assertions # {}
           /\ o.assertions = Resolution(OutcomeKind(o), SpecOf(o), o.evidence, o.sources, o.targets)
<1> DEFINE c == comparisons[o.comparison]
<1>1. Justified(o)
  BY DEF RelationsInv, Stored
<1>2. projections[c.source].arm # projections[c.target].arm
  BY <1>1 DEF Justified, RelationsInv, ComparisonOK, ComparablePair
<1> QED BY <1>1, <1>2 DEF Justified, ArmUnits, OutcomeKind, SpecOf

\* A log whose entries belong to a set is a sequence over that set.
LEMMA SequenceOver ==
    ASSUME NEW q, Sequence(q), NEW S, \A i \in DOMAIN q : q[i] \in S
    PROVE  q \in Seq(S)
BY DEF Sequence

\* Contracts and outcomes refer to records that fit them; assertions keep to the request.
THEOREM RelationTypes == Spec => []TypeOK
<1>1. RelationsInv => TypeOK
  <2> SUFFICES ASSUME RelationsInv PROVE TypeOK
    OBVIOUS
  <2>1. projections \in Seq([arm : Arms, contract : Contracts])
    <3>1. Sequence(projections)
      BY DEF RelationsInv, Sequences
    <3>2. \A i \in DOMAIN projections : projections[i] \in [arm : Arms, contract : Contracts]
      BY DEF RelationsInv, ProjectionOK
    <3> QED BY <3>1, <3>2, SequenceOver
  <2>2. comparisons \in Seq([source : DOMAIN projections, target : DOMAIN projections,
                             spec : Specs])
    <3>1. Sequence(comparisons)
      BY DEF RelationsInv, Sequences
    <3>2. \A k \in DOMAIN comparisons : comparisons[k] \in
             [source : DOMAIN projections, target : DOMAIN projections, spec : Specs]
      BY DEF RelationsInv, ComparisonOK
    <3> QED BY <3>1, <3>2, SequenceOver
  <2>3. \A k \in DOMAIN comparisons :
           LET c == comparisons[k]
           IN  ComparablePair(projections[c.source], projections[c.target], c.spec)
    BY DEF RelationsInv, ComparisonOK
  <2>4. ASSUME NEW o \in Stored
        PROVE  /\ o.comparison \in DOMAIN comparisons
               /\ o.sources \subseteq ArmUnits(projections[comparisons[o.comparison].source].arm)
               /\ o.targets \subseteq ArmUnits(projections[comparisons[o.comparison].target].arm)
               /\ o.assertions # {}
               /\ \A a \in o.assertions :
                     a.sources \subseteq o.sources /\ a.targets \subseteq o.targets
    <3>1. \A a \in o.assertions : a.sources \subseteq o.sources /\ a.targets \subseteq o.targets
      BY StoredOutcome, ResolutionFits
    <3> QED BY <3>1, StoredOutcome DEF Justified
  <2>5. \A i \in DOMAIN invalidations :
           /\ invalidations[i].outcome \in DOMAIN outcomes
           /\ invalidations[i].assertion \in outcomes[invalidations[i].outcome].assertions
    BY DEF RelationsInv, InvalidationOK
  <2>6. failures \in 0 .. MaxFailures
    BY DEF RelationsInv
  <2> QED BY <2>1, <2>2, <2>3, <2>4, <2>5, <2>6, Zenon DEF TypeOK
<1> QED BY <1>1, Inductive, PTL

\* AX-17: no unit of a request is dropped, and none is answered for twice.
THEOREM NothingDropped == Spec => []NoSilentDrop
<1>1. RelationsInv => NoSilentDrop
  <2> SUFFICES ASSUME RelationsInv, NEW o \in Stored, NEW u \in o.sources \cup o.targets
               PROVE  /\ \E a \in o.assertions : u \in a.about
                      /\ SpecOf(o).decompositions = <<>> =>
                            \A a, b \in o.assertions : u \in a.about \cap b.about => a = b
    BY DEF NoSilentDrop
  <2>1. /\ o.sources \cap o.targets = {} /\ o.assertions # {}
        /\ o.assertions = Resolution(OutcomeKind(o), SpecOf(o), o.evidence, o.sources, o.targets)
    BY StoredOutcome
  <2> QED BY <2>1, ResolutionCovers
<1> QED BY <1>1, Inductive, PTL

\* The validator run at insertion never refuses an assertion compare() has built.
THEOREM AssertionsAlwaysAccepted == Spec => []AssertionsAccepted
<1>1. RelationsInv => AssertionsAccepted
  <2> SUFFICES ASSUME RelationsInv, NEW o \in Stored, NEW a \in o.assertions
               PROVE  Recordable(a, o)
    BY DEF AssertionsAccepted
  <2>1. a.sources \subseteq o.sources /\ a.targets \subseteq o.targets /\ AnswerAllowed(a)
    BY StoredOutcome, ResolutionFits
  <2>2. \A u \in o.sources \cup o.targets : o.evidence.units[u].footprint \in Nat \X Nat
    <3>1. /\ o.sources \in SUBSET Units /\ o.targets \in SUBSET Units
          /\ o.evidence \in EvidenceOf(o.sources, o.targets)
      BY StoredOutcome DEF Justified
    <3> QED BY <3>1, EvidenceAssumption
  <2>3. ASSUME OutcomeKind(o) = "expected_energy_change", NEW u \in a.sources, NEW v \in a.targets
        PROVE  LET f == o.evidence.units[u].footprint
                   g == o.evidence.units[v].footprint
               IN  Coverage(OutcomeKind(o), f, g) = Coverage(OutcomeKind(o), g, f)
    BY <2>1, <2>2, <2>3, EnergySymmetric
  <2> QED BY <2>1, <2>3 DEF Recordable
<1> QED BY <1>1, Inductive, PTL

(***************************************************************************)
(* One request                                                             *)
(***************************************************************************)

\* What cardinalities a specification permits in a component with m sources and n targets.
Permits(s, m, n) ==
    /\ m = 1 /\ n = 1 => "1:1" \in s.cardinalities
    /\ m = 1 /\ n > 1 => "1:n" \in s.cardinalities /\ n <= s.maximumN
    /\ m > 1 /\ n = 1 => "n:1" \in s.cardinalities /\ m <= s.maximumN
    /\ m > 1 /\ n > 1 => s.decompositions # <<>>

\* A matching is judged component by component.
LEMMA PermitsEach ==
    ASSUME NEW s, NEW S, NEW M
    PROVE  CardinalitiesPermit(s, S, M) <=>
              \A C \in Components(M) : Permits(s, Cardinality(C \cap S), Cardinality(C \ S))
BY DEF CardinalitiesPermit, Permits, ManyToMany

\* A request as compare() sees it: two arms that share no unit, and numbers where it computes.
Request(kind, s, e, S, T) ==
    /\ IsFiniteSet(S) /\ IsFiniteSet(T) /\ S \cap T = {} /\ S # {} /\ T # {}
    /\ s.penalty \in Nat /\ s.tolerance \in Nat
    /\ s.preference \in {"fewer_edges", "more_edges"}
    /\ \A u \in S \cup T : Capacity(s, S, u) \in Int
    /\ \A p \in S \X T : Costs(kind, e, S, T)[p] \in Int

\* Coverages and costs are integers.
LEMMA CostIsInt ==
    ASSUME NEW kind, NEW f \in Nat \X Nat, NEW g \in Nat \X Nat
    PROVE  /\ Coverage(kind, f, g) \in Int /\ Coverage(kind, g, f) \in Int
           /\ Cost(kind, f, g) \in Int
<1>1. \A x, y \in Nat : Smaller(x, y) \in Nat
  BY DEF Smaller
<1>2. \A a \in Nat, b \in Nat \ {0} : a \div b \in Int
  OBVIOUS
<1>3. Scale \in Nat
  BY RelationsAssumption
<1>4. ASSUME NEW h \in Nat \X Nat, NEW k \in Nat \X Nat
      PROVE  Coverage(kind, h, k) \in Int
  <2> DEFINE m == Mass(h)
             n == Mass(k)
             raw == Smaller(h[1], k[1]) + Smaller(h[2], k[2])
             normalized == Smaller(h[1] * n, k[1] * m) + Smaller(h[2] * n, k[2] * m)
  <2>1. /\ h[1] \in Nat /\ h[2] \in Nat /\ k[1] \in Nat /\ k[2] \in Nat
        /\ m \in Nat /\ n \in Nat
    BY DEF Mass
  <2>2. \A x, y \in Nat : x * y \in Nat /\ x + y \in Nat
    OBVIOUS
  <2>3. raw \in Nat
    BY <1>1, <2>1, <2>2
  <2>4. normalized \in Nat
    <3> HIDE DEF m, n
    <3>1. /\ h[1] * n \in Nat /\ k[1] * m \in Nat /\ h[2] * n \in Nat /\ k[2] * m \in Nat
      BY <2>1, <2>2
    <3> QED BY <1>1, <2>2, <3>1
  <2>5. Coverage(kind, h, k) =
          IF m = 0 \/ n = 0 THEN 0
          ELSE IF kind = "expected_energy_change" THEN (Scale * normalized) \div (m * n)
          ELSE (Scale * raw) \div m
    BY DEF Coverage
  <2> HIDE DEF m, n, raw, normalized
  <2>6. Scale * normalized \in Nat /\ Scale * raw \in Nat
    BY <1>3, <2>2, <2>3, <2>4
  <2>7. m # 0 /\ n # 0 => m * n \in Nat \ {0}
    BY <2>1
  <2> QED BY <1>2, <2>1, <2>5, <2>6, <2>7
<1>5. Coverage(kind, f, g) \in Int /\ Coverage(kind, g, f) \in Int
  BY <1>4
<1> QED BY <1>3, <1>5 DEF Cost

\* Sets of pairs of a request are finite, and so are the units they touch.
LEMMA PairsFinite ==
    ASSUME NEW S, NEW T, IsFiniteSet(S), IsFiniteSet(T)
    PROVE  /\ IsFiniteSet(S \X T) /\ IsFiniteSet(SUBSET (S \X T))
           /\ \A M \in SUBSET (S \X T) :
                 IsFiniteSet(M) /\ Cardinality(M) \in Nat
           /\ IsFiniteSet(S \cup T)
           /\ \A X \in SUBSET (S \cup T) : IsFiniteSet(X) /\ Cardinality(X) \in Nat
<1>1. IsFiniteSet(S \X T)
  BY FS_Product
<1>2. IsFiniteSet(SUBSET (S \X T))
  BY <1>1, FS_SUBSET
<1>3. IsFiniteSet(S \cup T)
  BY FS_Union
<1>4. ASSUME NEW X, IsFiniteSet(X), NEW Y \in SUBSET X
      PROVE  IsFiniteSet(Y) /\ Cardinality(Y) \in Nat
  BY <1>4, FS_Subset, FS_CardinalityType
<1> QED BY <1>1, <1>2, <1>3, <1>4

\* The answers for a request as a whole.
WholeAnswers == TerminalAnswers \cup
    {<<"none", "indeterminate", "matching_budget_exhausted">>,
     <<"none", "indeterminate", "structural_matching_ambiguity">>}

\* A request with at most one survivor has it as its matching.
LEMMA SurvivorAnswers ==
    ASSUME NEW kind, NEW s, NEW e, NEW S, NEW T, IsFiniteSet(S), IsFiniteSet(T)
    PROVE  LET answer == Resolution(kind, s, e, S, T)
               survivors == Survivors(s, Primary(kind, s, e, S, T))
           IN  \/ answer = {}
               \/ \E r \in WholeAnswers : answer = {About(S, T, r[1], r[2], r[3])}
               \/ \E M \in SUBSET (S \X T) :
                    /\ survivors = {M} /\ Decomposable(s, S, M)
                    /\ answer = MatchedAssertions(kind, s, e, S, T, M)
<1> DEFINE statuses == {e.units[u].status : u \in S \cup T}
           states == {PairState(kind, s, e, u, v) : u \in S, v \in T}
           terminal == Terminal(statuses, states)
           survivors == Survivors(s, Primary(kind, s, e, S, T))
           M == CHOOSE N \in survivors : TRUE
           over == OverBudget(s, Eligible(kind, s, e, S, T))
           whole(r) == {About(S, T, r[1], r[2], r[3])}
           answer == Resolution(kind, s, e, S, T)
<1>1. answer = IF terminal[2] # "pending" THEN whole(terminal)
               ELSE IF over
               THEN {About(S, T, "none", "indeterminate", "matching_budget_exhausted")}
               ELSE IF survivors = {} THEN {}
               ELSE IF Cardinality(survivors) > 1
               THEN {About(S, T, "none", "indeterminate", "structural_matching_ambiguity")}
               ELSE IF ~Decomposable(s, S, M) THEN {}
               ELSE MatchedAssertions(kind, s, e, S, T, M)
  BY DEF Resolution, NoAnswer
<1>2. terminal[2] # "pending" => terminal \in TerminalAnswers
  BY TerminalKnown DEF Pending
<1>3. \A N \in survivors : N \in SUBSET (S \X T)
  BY SurvivorsMatch
<1> HIDE DEF terminal, survivors, over
<1>4. survivors # {} /\ ~(Cardinality(survivors) > 1) =>
         survivors = {M} /\ M \in SUBSET (S \X T)
  <2>1. SUFFICES ASSUME survivors # {}, ~(Cardinality(survivors) > 1)
                 PROVE  survivors = {M} /\ M \in SUBSET (S \X T)
    OBVIOUS
  <2>2. IsFiniteSet(survivors)
    <3>1. survivors \in SUBSET (SUBSET (S \X T))
      BY <1>3
    <3> QED BY <3>1, PairsFinite, FS_Subset
  <2>3. Cardinality(survivors) \in Nat /\ Cardinality(survivors) # 0
    BY <2>1, <2>2, FS_CardinalityType, FS_EmptySet
  <2>4. Cardinality(survivors) = 1
    BY <2>1, <2>3
  <2>5. PICK N : survivors = {N}
    BY <2>2, <2>4, FS_Singleton
  <2> QED BY <1>3, <2>5
<1> HIDE DEF M
<1>5. CASE terminal[2] # "pending"
  BY <1>1, <1>2, <1>5 DEF WholeAnswers
<1>6. CASE terminal[2] = "pending" /\ over
  <2>1. answer = whole(<<"none", "indeterminate", "matching_budget_exhausted">>)
    BY <1>1, <1>6
  <2> QED BY <2>1 DEF WholeAnswers
<1>7. CASE terminal[2] = "pending" /\ ~over /\ survivors # {} /\ Cardinality(survivors) > 1
  <2>1. answer = whole(<<"none", "indeterminate", "structural_matching_ambiguity">>)
    BY <1>1, <1>7
  <2> QED BY <2>1 DEF WholeAnswers
<1>8. CASE terminal[2] = "pending" /\ ~over /\ survivors # {} /\ ~(Cardinality(survivors) > 1)
  <2>1. survivors = {M} /\ M \in SUBSET (S \X T)
    BY <1>4, <1>8
  <2> HIDE DEF answer
  <2>2. answer = IF ~Decomposable(s, S, M) THEN {}
                 ELSE MatchedAssertions(kind, s, e, S, T, M)
    BY <1>1, <1>8
  <2>3. answer = {} \/ \E N \in SUBSET (S \X T) :
            /\ survivors = {N} /\ Decomposable(s, S, N)
            /\ answer = MatchedAssertions(kind, s, e, S, T, N)
    BY <2>1, <2>2
  <2> QED BY <2>3 DEF answer, survivors
<1>9. CASE terminal[2] = "pending" /\ ~over /\ survivors = {}
  BY <1>1, <1>9
<1> QED BY <1>5, <1>6, <1>7, <1>8, <1>9

(***************************************************************************)
(* A pair more or less                                                     *)
(***************************************************************************)

\* M is N with a pair of units that N leaves out.
PairAdded(S, T, N, M, u, v) ==
    /\ S \cap T = {} /\ N \in SUBSET (S \X T) /\ u \in S /\ v \in T
    /\ u \notin Touched(N) /\ v \notin Touched(N)
    /\ M = N \cup {<<u, v>>}

\* A pair touches its two units.
LEMMA Touching ==
    ASSUME NEW M, NEW p \in M PROVE p[1] \in Touched(M) /\ p[2] \in Touched(M)
BY DEF Touched

\* The new pair touches its two units, and every other pair what it did.
LEMMA AddedTouched ==
    ASSUME NEW S, NEW T, NEW N, NEW M, NEW u, NEW v, PairAdded(S, T, N, M, u, v)
    PROVE  Touched(M) = Touched(N) \cup {u, v}
<1>1. <<u, v>>[1] = u /\ <<u, v>>[2] = v
  OBVIOUS
<1> QED BY <1>1 DEF PairAdded, Touched

\* It is a pair of the request that was not there.
LEMMA AddedIsNew ==
    ASSUME NEW S, NEW T, NEW N, NEW M, NEW u, NEW v, PairAdded(S, T, N, M, u, v)
    PROVE  M \in SUBSET (S \X T) /\ <<u, v>> \notin N
<1>1. <<u, v>>[1] = u /\ <<u, v>>[2] = v
  OBVIOUS
<1>2. <<u, v>> \notin N
  BY <1>1, Touching DEF PairAdded
<1> QED BY <1>2 DEF PairAdded

\* The new pair is a component of its own; the others stay.
LEMMA AddedComponents ==
    ASSUME NEW S, NEW T, NEW N, NEW M, NEW u, NEW v, PairAdded(S, T, N, M, u, v)
    PROVE  Components(M) = Components(N) \cup {{u, v}}
<1> DEFINE Closed(K, X) == \A p \in K : p[1] \in X <=> p[2] \in X
<1>1. /\ u # v /\ Touched(M) = Touched(N) \cup {u, v}
      /\ \A p \in N : p[1] \in Touched(N) /\ p[2] \in Touched(N)
  <2>1. u # v /\ Touched(M) = Touched(N) \cup {u, v}
    BY AddedTouched DEF PairAdded
  <2>2. \A p \in N : p[1] \in Touched(N) /\ p[2] \in Touched(N)
    BY Touching
  <2> QED BY <2>1, <2>2
<1>2. /\ M = N \cup {<<u, v>>} /\ u \notin Touched(N) /\ v \notin Touched(N)
      /\ <<u, v>>[1] = u /\ <<u, v>>[2] = v
  BY DEF PairAdded
<1>3. ASSUME NEW w \in Touched(N)
      PROVE  ComponentOf(M, w) = ComponentOf(N, w)
  <2> DEFINE C == ComponentOf(N, w)
             D == ComponentOf(M, w)
  <2>1. w \in C /\ C \subseteq Touched(N) /\ Closed(N, C)
    BY ComponentClosed
  <2>2. w \in Touched(M)
    BY <1>1
  <2>3. w \in D /\ D \subseteq Touched(M) /\ Closed(M, D)
    BY <2>2, ComponentClosed
  <2>4. C \in SUBSET Touched(M) /\ Closed(M, C)
    BY <1>1, <1>2, <2>1
  <2>5. D \subseteq C
    <3>1. ASSUME NEW x \in D PROVE x \in C
      BY <2>1, <2>4 DEF ComponentOf
    <3> QED BY <3>1
  <2>6. D \in SUBSET Touched(N) /\ Closed(N, D)
    BY <1>2, <2>1, <2>3, <2>5
  <2>7. C \subseteq D
    <3>1. ASSUME NEW x \in C PROVE x \in D
      BY <2>3, <2>6 DEF ComponentOf
    <3> QED BY <3>1
  <2> QED BY <2>5, <2>7
<1>4. ASSUME NEW w \in {u, v}
      PROVE  ComponentOf(M, w) = {u, v}
  <2> DEFINE D == ComponentOf(M, w)
  <2>1. w \in D /\ D \subseteq Touched(M) /\ Closed(M, D)
    BY <1>1, ComponentClosed
  <2>2. {u, v} \in SUBSET Touched(M) /\ Closed(M, {u, v})
    BY <1>1, <1>2
  <2>3. D \subseteq {u, v}
    <3>1. ASSUME NEW x \in D PROVE x \in {u, v}
      BY <2>1, <2>2 DEF ComponentOf
    <3> QED BY <3>1
  <2>4. u \in D /\ v \in D
    BY <1>2, <2>1
  <2> QED BY <2>3, <2>4
<1>5. Components(M) = {ComponentOf(M, w) : w \in Touched(N)} \cup {ComponentOf(M, w) : w \in {u, v}}
  BY <1>1 DEF Components
<1>6. {ComponentOf(M, w) : w \in Touched(N)} = Components(N)
  BY <1>3 DEF Components
<1>7. {ComponentOf(M, w) : w \in {u, v}} = {{u, v}}
  BY <1>4
<1> QED BY <1>5, <1>6, <1>7

\* Whether the cardinalities permit it depends on whether pairs are permitted.
LEMMA AddedPermitted ==
    ASSUME NEW s, NEW S, NEW T, NEW N, NEW M, NEW u, NEW v,
           PairAdded(S, T, N, M, u, v)
    PROVE  /\ CardinalitiesPermit(s, S, M) => CardinalitiesPermit(s, S, N)
           /\ CardinalitiesPermit(s, S, N) /\ "1:1" \in s.cardinalities
                 => CardinalitiesPermit(s, S, M)
<1>1. Components(M) = Components(N) \cup {{u, v}}
  BY AddedComponents
<1>2. CardinalitiesPermit(s, S, M) => CardinalitiesPermit(s, S, N)
  BY <1>1, PermitsEach
<1>3. {u, v} \cap S = {u} /\ {u, v} \ S = {v}
  BY DEF PairAdded
<1>4. Cardinality({u, v} \cap S) = 1 /\ Cardinality({u, v} \ S) = 1
  BY <1>3, FS_Singleton
<1>5. "1:1" \in s.cardinalities => Permits(s, Cardinality({u, v} \cap S), Cardinality({u, v} \ S))
  BY <1>4 DEF Permits
<1> QED BY <1>1, <1>2, <1>5, PermitsEach

\* The new pair counts for its two units and for no other.
LEMMA AddedCapacity ==
    ASSUME NEW kind, NEW s, NEW e, NEW S, NEW T, Request(kind, s, e, S, T),
           NEW N, NEW M, NEW u, NEW v, PairAdded(S, T, N, M, u, v)
    PROVE  /\ WithinCapacity(s, S, T, M) => WithinCapacity(s, S, T, N)
           /\ /\ WithinCapacity(s, S, T, N)
              /\ Capacity(s, S, u) > 0 /\ Capacity(s, S, v) > 0
              => WithinCapacity(s, S, T, M)
<1> DEFINE At(K, w) == {p \in K : w = p[1] \/ w = p[2]}
<1>1. /\ S \cap T = {} /\ IsFiniteSet(S) /\ IsFiniteSet(T)
      /\ \A w \in S \cup T : Capacity(s, S, w) \in Int
  BY DEF Request
<1>2. /\ M \in SUBSET (S \X T) /\ u # v
      /\ \A p \in N : p[1] \in Touched(N) /\ p[2] \in Touched(N)
  <2>1. M \in SUBSET (S \X T) /\ u # v
    BY AddedIsNew DEF PairAdded
  <2>2. \A p \in N : p[1] \in Touched(N) /\ p[2] \in Touched(N)
    BY Touching
  <2> QED BY <2>1, <2>2
<1>3. /\ N \in SUBSET (S \X T) /\ M = N \cup {<<u, v>>}
      /\ u \notin Touched(N) /\ v \notin Touched(N)
      /\ <<u, v>>[1] = u /\ <<u, v>>[2] = v
  BY DEF PairAdded
<1>4. /\ \A w : Degree(N, w) = Cardinality(At(N, w)) /\ Degree(M, w) = Cardinality(At(M, w))
      /\ \A w : Degree(N, w) \in Nat
  <2>1. ASSUME NEW w PROVE At(N, w) \in SUBSET (S \X T)
    BY <1>3
  <2>2. \A w : Degree(N, w) = Cardinality(At(N, w)) /\ Degree(M, w) = Cardinality(At(M, w))
    BY DEF Degree
  <2> HIDE DEF At
  <2>3. \A w : Cardinality(At(N, w)) \in Nat
    BY <1>1, <2>1, PairsFinite
  <2> QED BY <2>2, <2>3
<1>5. ASSUME NEW w, w \notin {u, v} PROVE Degree(M, w) = Degree(N, w)
  <2>1. At(M, w) = At(N, w)
    BY <1>3, <1>5
  <2> HIDE DEF At
  <2> QED BY <1>4, <2>1
<1>6. ASSUME NEW w \in {u, v} PROVE Degree(M, w) = 1 /\ Degree(N, w) = 0
  <2>1. At(M, w) = {<<u, v>>}
    BY <1>2, <1>3
  <2>2. At(N, w) = {}
    BY <1>2, <1>3
  <2>3. Cardinality({<<u, v>>}) = 1 /\ Cardinality({}) = 0
    BY FS_Singleton, FS_EmptySet
  <2> HIDE DEF At
  <2> QED BY <1>4, <2>1, <2>2, <2>3
<1>7. u \in S \cup T /\ v \in S \cup T
  BY DEF PairAdded
<1>8. ASSUME WithinCapacity(s, S, T, M) PROVE WithinCapacity(s, S, T, N)
  <2>1. ASSUME NEW w \in S \cup T PROVE Degree(N, w) <= Capacity(s, S, w)
    <3>1. Degree(M, w) <= Capacity(s, S, w) /\ Capacity(s, S, w) \in Int
      BY <1>1, <1>8 DEF WithinCapacity
    <3> QED BY <1>5, <1>6, <3>1
  <2> QED BY <2>1 DEF WithinCapacity
<1>9. ASSUME WithinCapacity(s, S, T, N), Capacity(s, S, u) > 0, Capacity(s, S, v) > 0
      PROVE  WithinCapacity(s, S, T, M)
  <2>1. ASSUME NEW w \in S \cup T PROVE Degree(M, w) <= Capacity(s, S, w)
    <3>1. Degree(N, w) <= Capacity(s, S, w) /\ Capacity(s, S, w) \in Int
      BY <1>1, <1>9 DEF WithinCapacity
    <3>2. CASE w \in {u, v}
      BY <1>6, <1>9, <3>1, <3>2
    <3>3. CASE w \notin {u, v}
      BY <1>5, <3>1, <3>3
    <3> QED BY <3>2, <3>3
  <2> QED BY <2>1 DEF WithinCapacity
<1> QED BY <1>8, <1>9

\* It costs what its pair costs and saves the penalty of two units.
LEMMA AddedObjective ==
    ASSUME NEW kind, NEW s, NEW e, NEW S, NEW T, Request(kind, s, e, S, T),
           NEW N, NEW M, NEW u, NEW v, PairAdded(S, T, N, M, u, v)
    PROVE  /\ Objective(kind, s, e, S, T, N) \in Int /\ Objective(kind, s, e, S, T, M) \in Int
           /\ Objective(kind, s, e, S, T, M) =
                 Objective(kind, s, e, S, T, N) + Costs(kind, e, S, T)[<<u, v>>] - 2 * s.penalty
           /\ Cardinality(M) = Cardinality(N) + 1 /\ Cardinality(N) \in Nat
<1> DEFINE c == Costs(kind, e, S, T)
           U == S \cup T
           out(K) == Cardinality(Unmatched(K, U))
<1>1. /\ S \cap T = {} /\ IsFiniteSet(S) /\ IsFiniteSet(T) /\ s.penalty \in Nat
      /\ \A p \in S \X T : c[p] \in Int
  BY DEF Request
<1>2. /\ M \in SUBSET (S \X T) /\ u # v /\ <<u, v>> \notin N
      /\ Touched(M) = Touched(N) \cup {u, v}
  BY AddedTouched, AddedIsNew DEF PairAdded
<1>3. /\ N \in SUBSET (S \X T) /\ M = N \cup {<<u, v>>} /\ M \ {<<u, v>>} = N
      /\ u \notin Touched(N) /\ v \notin Touched(N) /\ u \in U /\ v \in U
  BY <1>2 DEF PairAdded
<1>4. IsFiniteSet(M) /\ IsFiniteSet(N) /\ Cardinality(N) \in Nat
  BY <1>1, <1>2, <1>3, PairsFinite
<1>5. Cardinality(M) = Cardinality(N) + 1
  BY <1>2, <1>3, <1>4, FS_AddElement
<1> HIDE DEF c
<1>6. /\ SumFunctionOnSet(c, M) \in Int /\ SumFunctionOnSet(c, N) \in Int
      /\ SumFunctionOnSet(c, M) = c[<<u, v>>] + SumFunctionOnSet(c, N)
  <2>1. (\A p \in M : c[p] \in Int) /\ (\A p \in N : c[p] \in Int)
    BY <1>1, <1>2, <1>3
  <2>2. SumFunctionOnSet(c, N) \in Int
    BY <1>4, <2>1, SumOut
  <2>3. /\ SumFunctionOnSet(c, M) \in Int
        /\ \A p \in M : SumFunctionOnSet(c, M) = c[p] + SumFunctionOnSet(c, M \ {p})
    BY <1>4, <2>1, SumOut
  <2> QED BY <1>3, <2>2, <2>3
<1>7. out(N) = out(M) + 2 /\ out(M) \in Nat
  <2>1. PICK A : A = Unmatched(M, U)
    OBVIOUS
  <2>2. /\ A \in SUBSET U /\ u \notin A /\ v \notin A \cup {u}
        /\ Unmatched(N, U) = (A \cup {u}) \cup {v}
    BY <1>2, <1>3, <2>1 DEF Unmatched
  <2>3. IsFiniteSet(A) /\ Cardinality(A) \in Nat
    BY <1>1, <2>2, PairsFinite
  <2>4. IsFiniteSet(A \cup {u}) /\ Cardinality(A \cup {u}) = Cardinality(A) + 1
    BY <2>2, <2>3, FS_AddElement
  <2>5. Cardinality((A \cup {u}) \cup {v}) = Cardinality(A \cup {u}) + 1
    BY <2>2, <2>4, FS_AddElement
  <2>6. Cardinality(Unmatched(N, U)) = Cardinality(A) + 2
    BY <2>2, <2>3, <2>4, <2>5
  <2> QED BY <2>1, <2>3, <2>6
<1>8. /\ Objective(kind, s, e, S, T, N) = SumFunctionOnSet(c, N) + s.penalty * out(N)
      /\ Objective(kind, s, e, S, T, M) = SumFunctionOnSet(c, M) + s.penalty * out(M)
  BY DEF Objective, c
<1>9. c[<<u, v>>] \in Int
  BY <1>1, <1>2, <1>3
<1> HIDE DEF out
<1>10. s.penalty * out(N) = s.penalty * out(M) + 2 * s.penalty
       /\ s.penalty * out(M) \in Nat
  <2>1. \A a, b \in Nat : a * (b + 2) = a * b + 2 * a /\ a * b \in Nat
    OBVIOUS
  <2> QED BY <1>1, <1>7, <2>1
<1>11. /\ Objective(kind, s, e, S, T, N) \in Int /\ Objective(kind, s, e, S, T, M) \in Int
       /\ Objective(kind, s, e, S, T, M) =
             Objective(kind, s, e, S, T, N) + c[<<u, v>>] - 2 * s.penalty
  BY <1>1, <1>6, <1>8, <1>9, <1>10
<1> QED BY <1>4, <1>5, <1>11 DEF c

\* What is left of the solutions of a request is an optimum up to the tolerance, and a
\* solution the preference would put before it is worse than another one by more than that.
LEMMA SurvivorBest ==
    ASSUME NEW kind, NEW s, NEW e, NEW S, NEW T, NEW M,
           M \in Survivors(s, Primary(kind, s, e, S, T)), s.tolerance \in Nat,
           NEW N \in Feasible(s, S, T, Eligible(kind, s, e, S, T)),
           \A K \in Feasible(s, S, T, Eligible(kind, s, e, S, T)) :
              Objective(kind, s, e, S, T, K) \in Int
    PROVE  /\ M \in Feasible(s, S, T, Eligible(kind, s, e, S, T))
           /\ Objective(kind, s, e, S, T, M) <= Objective(kind, s, e, S, T, N) + s.tolerance
           /\ ~PreferredTo(s, M, N) =>
                 Objective(kind, s, e, S, T, M) < Objective(kind, s, e, S, T, N)
<1> DEFINE feasible == Feasible(s, S, T, Eligible(kind, s, e, S, T))
           value(K) == Objective(kind, s, e, S, T, K)
           primary == Primary(kind, s, e, S, T)
<1>1. \A K : K \in primary <=>
         K \in feasible /\ \A L \in feasible : value(K) <= value(L) + s.tolerance
  BY DEF Primary
<1>2. M \in primary /\ \A K \in primary : PreferredTo(s, M, K)
  BY DEF Survivors
<1> HIDE DEF feasible, value, primary
<1>3. M \in feasible /\ \A L \in feasible : value(M) <= value(L) + s.tolerance
  BY <1>1, <1>2
<1>4. N \in feasible /\ \A K \in feasible : value(K) \in Int
  BY DEF feasible, value
<1>5. ASSUME ~PreferredTo(s, M, N) PROVE value(M) < value(N)
  <2>1. N \notin primary
    BY <1>2, <1>5
  <2>2. PICK L \in feasible : ~(value(N) <= value(L) + s.tolerance)
    BY <1>1, <1>4, <2>1
  <2>3. value(M) <= value(L) + s.tolerance
    BY <1>3, <2>2
  <2> QED BY <1>3, <1>4, <2>2, <2>3
<1> QED BY <1>3, <1>4, <1>5 DEF feasible, value

\* What the shape of a component says of it.
LEMMA ShapeIs ==
    ASSUME NEW C, NEW S
    PROVE  Shape(C, S) = IF Cardinality(C) = 2 THEN "overlap"
                         ELSE IF Cardinality(C \cap S) = 1 THEN "split" ELSE "merge"
<1> DEFINE tests == <<<<Cardinality(C) = 2, "overlap">>, <<Cardinality(C \cap S) = 1, "split">>,
                      <<TRUE, "merge">>>>
<1>1. DOMAIN tests = 1 .. 3 /\ tests[3][1] /\ tests[3][2] = "merge"
  OBVIOUS
<1>2. (tests[1][1] <=> Cardinality(C) = 2) /\ tests[1][2] = "overlap"
  OBVIOUS
<1>3. (tests[2][1] <=> Cardinality(C \cap S) = 1) /\ tests[2][2] = "split"
  OBVIOUS
<1>4. Shape(C, S) = FirstOf(tests)
  BY DEF Shape
<1> HIDE DEF tests
<1>5. FirstOf(tests) = IF tests[1][1] THEN tests[1][2]
                       ELSE IF tests[2][1] THEN tests[2][2] ELSE tests[3][2]
  BY <1>1, ThreeTests
<1> QED BY <1>1, <1>2, <1>3, <1>4, <1>5

\* Without declared decompositions a component has one assertion.
OneAssertion(C, S) ==
    IF ManyToMany(C, S)
    THEN About(C \cap S, C \ S, "none", "indeterminate", "decomposition_ambiguity")
    ELSE About(C \cap S, C \ S, Shape(C, S), "resolved", RelationReason[Shape(C, S)])

\* Without declared decompositions the loop over components asserts one thing of each.
LEMMA AssertedOnce ==
    ASSUME NEW s, s.decompositions = <<>>, NEW C, NEW S
    PROVE  ComponentAssertions(s, C, S) = {OneAssertion(C, S)}
<1>1. Len(s.decompositions) # 1
  OBVIOUS
<1> QED BY <1>1 DEF ComponentAssertions, OneAssertion, Shape

\* The fields of what is asserted of a component.
LEMMA AssertedFields ==
    ASSUME NEW C, NEW S
    PROVE  LET a == OneAssertion(C, S)
           IN  /\ a.sources = C \cap S /\ a.targets = C \ S /\ a.about = C
               /\ a.relation = IF ManyToMany(C, S) THEN "none" ELSE Shape(C, S)
<1>1. (C \cap S) \cup (C \ S) = C
  OBVIOUS
<1>2. CASE ManyToMany(C, S)
  BY <1>1, <1>2 DEF OneAssertion, About, Assertion
<1>3. CASE ~ManyToMany(C, S)
  BY <1>1, <1>3 DEF OneAssertion, About, Assertion
<1> QED BY <1>2, <1>3

\* An overlap is a component of two units.
LEMMA OverlapForm ==
    ASSUME NEW kind, NEW s, NEW e, NEW S, NEW T, NEW M, s.decompositions = <<>>,
           NEW a \in MatchedAssertions(kind, s, e, S, T, M), a.relation = "overlap"
    PROVE  \E C \in Components(M) :
              Cardinality(C) = 2 /\ a.sources = C \cap S /\ a.targets = C \ S
<1>1. CASE \E C \in Components(M) : a \in ComponentAssertions(s, C, S)
  <2>1. PICK C \in Components(M) : a \in ComponentAssertions(s, C, S)
    BY <1>1
  <2>2. a = OneAssertion(C, S)
    BY <2>1, AssertedOnce
  <2>3. a.sources = C \cap S /\ a.targets = C \ S
    BY <2>2, AssertedFields
  <2>4. Cardinality(C) = 2
    BY <2>2, AssertedFields, ShapeIs
  <2> QED BY <2>1, <2>3, <2>4
<1>2. CASE \E u \in Unmatched(M, S) : a = SourceLeftOut(kind, s, e, T, u)
  BY <1>2 DEF SourceLeftOut, Assertion
<1>3. CASE \E u \in Unmatched(M, T) : a = TargetLeftOut(kind, s, e, S, u)
  BY <1>3 DEF TargetLeftOut, Assertion
<1> QED BY <1>1, <1>2, <1>3, MatchedForms

\* What is said of one unit and names no relation says that it is left out.
LEMMA LeftOutForm ==
    ASSUME NEW kind, NEW s, NEW e, NEW S, NEW T, NEW M, s.decompositions = <<>>, S \cap T = {},
           NEW a \in MatchedAssertions(kind, s, e, S, T, M), NEW u \in S \cup T,
           a.about = {u}, a.relation = "none"
    PROVE  u \notin Touched(M)
<1>1. CASE \E C \in Components(M) : a \in ComponentAssertions(s, C, S)
  <2>1. PICK C \in Components(M) : a \in ComponentAssertions(s, C, S)
    BY <1>1
  <2>2. a = OneAssertion(C, S)
    BY <2>1, AssertedOnce
  <2>3. C = {u}
    BY <2>2, AssertedFields
  <2>4. C \cap S = {} \/ C \ S = {}
    BY <2>3
  <2>5. ~ManyToMany(C, S)
    <3>1. Cardinality({}) = 0 /\ ~(0 > 1)
      BY FS_EmptySet
    <3> QED BY <2>4, <3>1 DEF ManyToMany
  <2>6. Shape(C, S) = "none"
    BY <2>2, <2>5, AssertedFields
  <2> QED BY <2>6, ShapeIs
<1>2. CASE \E x \in Unmatched(M, S) : a = SourceLeftOut(kind, s, e, T, x)
  BY <1>2, LeftOutAbout DEF Unmatched
<1>3. CASE \E x \in Unmatched(M, T) : a = TargetLeftOut(kind, s, e, S, x)
  BY <1>3, LeftOutAbout DEF Unmatched
<1> QED BY <1>1, <1>2, <1>3, MatchedForms

\* The pair of a component of two units: nothing else touches them.
LEMMA OverlapPair ==
    ASSUME NEW S, NEW T, IsFiniteSet(S), IsFiniteSet(T), S \cap T = {},
           NEW M \in SUBSET (S \X T),
           NEW C \in Components(M), Cardinality(C) = 2, NEW u \in C \cap S, NEW v \in C \ S
    PROVE  <<u, v>> \in M /\ PairAdded(S, T, M \ {<<u, v>>}, M, u, v)
<1>1. PICK w \in Touched(M) : C = ComponentOf(M, w)
  BY DEF Components
<1>2. /\ C \subseteq Touched(M)
      /\ \A p \in M : p[1] \in C <=> p[2] \in C
  BY <1>1, ComponentClosed
<1>3. Touched(M) \subseteq S \cup T
  BY MatchingWithin
<1>4. u \in S /\ v \in T /\ u # v
  BY <1>2, <1>3
<1>5. C = {u, v}
  <2>1. C \in SUBSET (S \cup T)
    BY <1>2, <1>3
  <2>2. IsFiniteSet(C)
    BY <2>1, PairsFinite
  <2>3. IsFiniteSet({u}) /\ Cardinality({u}) = 1
    BY FS_Singleton
  <2>4. Cardinality({u} \cup {v}) = 2
    <3>1. v \notin {u}
      BY <1>4
    <3>2. Cardinality({u} \cup {v}) = Cardinality({u}) + 1
      BY <2>3, <3>1, FS_AddElement
    <3> QED BY <2>3, <3>2
  <2>5. {u} \cup {v} \in SUBSET C
    OBVIOUS
  <2>6. C = {u} \cup {v}
    BY <2>2, <2>4, <2>5, FS_Subset
  <2> QED BY <2>6
<1>6. ASSUME NEW p \in M, p[1] = u \/ p[2] = v \/ p[1] = v \/ p[2] = u
      PROVE  p = <<u, v>>
  <2>1. p \in S \X T /\ p = <<p[1], p[2]>> /\ p[1] \in S /\ p[2] \in T
    OBVIOUS
  <2>2. v \notin S /\ u \notin T
    BY <1>4
  <2>3. p[1] = u /\ p[2] = v
    BY <1>2, <1>5, <1>6, <2>1, <2>2
  <2> QED BY <2>1, <2>3
<1>7. <<u, v>> \in M
  <2>1. PICK p \in M : u = p[1] \/ u = p[2]
    BY <1>2 DEF Touched
  <2>2. p = <<u, v>>
    BY <1>6, <2>1
  <2> QED BY <2>1, <2>2
<1>8. u \notin Touched(M \ {<<u, v>>}) /\ v \notin Touched(M \ {<<u, v>>})
  BY <1>6 DEF Touched
<1> QED BY <1>4, <1>7, <1>8 DEF PairAdded

(***************************************************************************)
(* What a matching is worth                                                *)
(***************************************************************************)

\* The number a pair counts for.
PairCost(kind, e, u, v) == Cost(kind, e.units[u].footprint, e.units[v].footprint)

\* The table of costs has it at the pair.
LEMMA CostAt ==
    ASSUME NEW kind, NEW e, NEW S, NEW T, NEW u \in S, NEW v \in T
    PROVE  Costs(kind, e, S, T)[<<u, v>>] = PairCost(kind, e, u, v)
BY DEF Costs, PairCost

\* Every solution has a whole number as its objective.
LEMMA ObjectiveIsInt ==
    ASSUME NEW kind, NEW s, NEW e, NEW S, NEW T, Request(kind, s, e, S, T),
           NEW M \in SUBSET (S \X T)
    PROVE  Objective(kind, s, e, S, T, M) \in Int
<1> DEFINE c == Costs(kind, e, S, T)
           out == Cardinality(Unmatched(M, S \cup T))
<1>1. /\ IsFiniteSet(S) /\ IsFiniteSet(T) /\ s.penalty \in Nat
      /\ \A p \in S \X T : c[p] \in Int
  BY DEF Request
<1>2. IsFiniteSet(M) /\ Unmatched(M, S \cup T) \in SUBSET (S \cup T)
  BY <1>1, PairsFinite DEF Unmatched
<1>3. out \in Nat
  BY <1>1, <1>2, PairsFinite
<1>4. \A p \in M : c[p] \in Int
  BY <1>1
<1> HIDE DEF c, out
<1>5. SumFunctionOnSet(c, M) \in Int
  BY <1>2, <1>4, SumOut
<1>6. s.penalty * out \in Int
  <2>1. \A a, b \in Nat : a * b \in Int
    OBVIOUS
  <2> QED BY <1>1, <1>3, <2>1
<1>7. Objective(kind, s, e, S, T, M) = SumFunctionOnSet(c, M) + s.penalty * out
  BY DEF Objective, c, out
<1> QED BY <1>5, <1>6, <1>7

\* The pair of an overlap is worth the penalty of its two units.
LEMMA OverlapPays ==
    ASSUME NEW kind, NEW s, NEW e, NEW S, NEW T, Request(kind, s, e, S, T),
           NEW M, M \in Survivors(s, Primary(kind, s, e, S, T)),
           NEW N, NEW u, NEW v, PairAdded(S, T, N, M, u, v)
    PROVE  IF s.preference = "fewer_edges" THEN PairCost(kind, e, u, v) < 2 * s.penalty
           ELSE PairCost(kind, e, u, v) <= 2 * s.penalty + s.tolerance
<1> DEFINE E == Eligible(kind, s, e, S, T)
           feasible == Feasible(s, S, T, E)
           value(K) == Objective(kind, s, e, S, T, K)
           c == PairCost(kind, e, u, v)
<1>1. s.tolerance \in Nat /\ s.penalty \in Nat
  BY DEF Request
<1>2. M \in feasible
  BY DEF Survivors, Primary
<1>3. N \in feasible
  <2>1. M \in SUBSET E /\ WithinCapacity(s, S, T, M) /\ CardinalitiesPermit(s, S, M)
    BY <1>2 DEF Feasible
  <2>2. N \in SUBSET E
    BY <2>1 DEF PairAdded
  <2>3. WithinCapacity(s, S, T, N)
    BY <2>1, AddedCapacity
  <2>4. CardinalitiesPermit(s, S, N)
    BY <2>1, AddedPermitted
  <2> QED BY <2>2, <2>3, <2>4 DEF Feasible
<1>4. \A K \in feasible : value(K) \in Int
  <2>1. \A K \in feasible : K \in SUBSET (S \X T)
    BY DEF Feasible, Eligible
  <2> QED BY <2>1, ObjectiveIsInt
<1>5. /\ value(M) <= value(N) + s.tolerance
      /\ ~PreferredTo(s, M, N) => value(M) < value(N)
  BY <1>1, <1>3, <1>4, SurvivorBest
<1>6. /\ value(N) \in Int /\ value(M) = value(N) + Costs(kind, e, S, T)[<<u, v>>] - 2 * s.penalty
      /\ Cardinality(M) = Cardinality(N) + 1 /\ Cardinality(N) \in Nat
  BY AddedObjective
<1>7. u \in S /\ v \in T
  BY DEF PairAdded
<1>8. Costs(kind, e, S, T)[<<u, v>>] = c /\ c \in Int
  BY <1>7, CostAt DEF Request
<1> HIDE DEF E, feasible, value, c
<1>9. CASE s.preference = "fewer_edges"
  <2>1. ~PreferredTo(s, M, N)
    BY <1>6, <1>9 DEF PreferredTo
  <2> QED BY <1>1, <1>5, <1>6, <1>8, <1>9, <2>1 DEF c
<1>10. CASE s.preference # "fewer_edges"
  BY <1>1, <1>5, <1>6, <1>8, <1>10 DEF c
<1> QED BY <1>9, <1>10

\* A pair that could have been added was not worth it.
LEMMA LeftOutPays ==
    ASSUME NEW kind, NEW s, NEW e, NEW S, NEW T, Request(kind, s, e, S, T),
           NEW M, M \in Survivors(s, Primary(kind, s, e, S, T)),
           NEW u \in S \ Touched(M), NEW v \in T \ Touched(M),
           PairState(kind, s, e, u, v) = "eligible", "1:1" \in s.cardinalities,
           Capacity(s, S, u) > 0, Capacity(s, S, v) > 0
    PROVE  IF s.preference = "fewer_edges"
           THEN PairCost(kind, e, u, v) >= 2 * s.penalty - s.tolerance
           ELSE PairCost(kind, e, u, v) > 2 * s.penalty
<1> DEFINE E == Eligible(kind, s, e, S, T)
           feasible == Feasible(s, S, T, E)
           value(K) == Objective(kind, s, e, S, T, K)
           c == PairCost(kind, e, u, v)
<1>1. s.tolerance \in Nat /\ s.penalty \in Nat /\ S \cap T = {}
  BY DEF Request
<1>2. M \in feasible /\ M \in SUBSET (S \X T)
  BY SurvivorsMatch DEF Survivors, Primary
<1>3. PICK N : N = M \cup {<<u, v>>}
  OBVIOUS
<1>4. PairAdded(S, T, M, N, u, v)
  BY <1>1, <1>2, <1>3 DEF PairAdded
<1>5. N \in feasible
  <2>1. M \in SUBSET E /\ WithinCapacity(s, S, T, M) /\ CardinalitiesPermit(s, S, M)
    BY <1>2 DEF Feasible
  <2>2. <<u, v>> \in E
    BY DEF Eligible
  <2>3. N \in SUBSET E
    BY <1>3, <2>1, <2>2
  <2>4. WithinCapacity(s, S, T, N)
    BY <1>4, <2>1, AddedCapacity
  <2>5. CardinalitiesPermit(s, S, N)
    BY <1>4, <2>1, AddedPermitted
  <2> QED BY <2>3, <2>4, <2>5 DEF Feasible
<1>6. \A K \in feasible : value(K) \in Int
  <2>1. \A K \in feasible : K \in SUBSET (S \X T)
    BY DEF Feasible, Eligible
  <2> QED BY <2>1, ObjectiveIsInt
<1>7. /\ value(M) <= value(N) + s.tolerance
      /\ ~PreferredTo(s, M, N) => value(M) < value(N)
  BY <1>1, <1>5, <1>6, SurvivorBest
<1>8. /\ value(M) \in Int /\ value(N) = value(M) + Costs(kind, e, S, T)[<<u, v>>] - 2 * s.penalty
      /\ Cardinality(N) = Cardinality(M) + 1 /\ Cardinality(M) \in Nat
  BY <1>4, AddedObjective
<1>9. Costs(kind, e, S, T)[<<u, v>>] = c /\ c \in Int
  BY CostAt DEF Request
<1> HIDE DEF E, feasible, value, c
<1>10. CASE s.preference = "fewer_edges"
  BY <1>1, <1>7, <1>8, <1>9, <1>10 DEF c
<1>11. CASE s.preference # "fewer_edges"
  <2>1. ~PreferredTo(s, M, N)
    BY <1>8, <1>11 DEF PreferredTo
  <2> QED BY <1>1, <1>7, <1>8, <1>9, <1>11, <2>1 DEF c
<1> QED BY <1>10, <1>11

\* A stored outcome answers a request on which every number is defined.
LEMMA StoredRequest ==
    ASSUME RelationsInv, NEW o \in Stored
    PROVE  Request(OutcomeKind(o), SpecOf(o), o.evidence, o.sources, o.targets)
<1> DEFINE s == SpecOf(o)
           e == o.evidence
           kind == OutcomeKind(o)
           S == o.sources
           T == o.targets
<1>1. /\ S \cap T = {} /\ S \in SUBSET Units /\ T \in SUBSET Units
      /\ S # {} /\ T # {} /\ e \in EvidenceOf(S, T)
  BY StoredOutcome DEF Justified
<1>2. IsFiniteSet(S) /\ IsFiniteSet(T)
  BY <1>1, RelationsAssumption, FS_Subset
<1>3. ValidSpec(s) /\ s \in Specs
  <2>1. o.comparison \in DOMAIN comparisons
    BY StoredOutcome DEF Justified
  <2>2. ComparisonOK(comparisons[o.comparison])
    BY <2>1 DEF RelationsInv
  <2> QED BY <2>2 DEF ComparisonOK, SpecOf
<1> HIDE DEF s, e, kind, S, T
<1>4. /\ s.penalty \in Nat /\ s.tolerance \in Nat
      /\ s.preference \in {"fewer_edges", "more_edges"}
      /\ s.sourceDefault \in Int /\ s.targetDefault \in Int
  <2>1. {s.sourceDefault, s.targetDefault} \subseteq 1 .. MaxUnits
    BY <1>3 DEF ValidSpec
  <2>2. MaxUnits \in Nat
    BY RelationsAssumption
  <2>3. s.sourceDefault \in Int /\ s.targetDefault \in Int
    BY <2>1, <2>2
  <2> QED BY <1>3, <2>3 DEF ValidSpec
<1>5. \A u \in DOMAIN s.overrides : s.overrides[u] \in Int
  BY <1>3, SpecAssumption
<1>6. \A u \in S \cup T : Capacity(s, S, u) \in Int
  BY <1>4, <1>5 DEF Capacity
<1>7. ASSUME NEW p \in S \X T PROVE Costs(kind, e, S, T)[p] \in Int
  <2>1. p[1] \in S \cup T /\ p[2] \in S \cup T
    OBVIOUS
  <2>2. e.units[p[1]].footprint \in Nat \X Nat /\ e.units[p[2]].footprint \in Nat \X Nat
    BY <1>1, <2>1, EvidenceAssumption
  <2>3. Cost(kind, e.units[p[1]].footprint, e.units[p[2]].footprint) \in Int
    BY <2>2, CostIsInt
  <2> QED BY <2>3 DEF Costs
<1>8. Request(kind, s, e, S, T)
  BY <1>1, <1>2, <1>4, <1>6, <1>7 DEF Request
<1> QED BY <1>8 DEF s, e, kind, S, T

\* What answers a request as a whole names no overlap and speaks of more than one unit.
LEMMA WholeForms ==
    ASSUME NEW S, NEW T, S \cap T = {}, S # {}, T # {}, NEW a,
           NEW r \in WholeAnswers,
           a = About(S, T, r[1], r[2], r[3])
    PROVE  a.relation # "overlap" /\ \A u : a.about # {u}
<1>1. a.relation = r[1] /\ a.about = S \cup T
  BY DEF About, Assertion
<1>2. r[1] # "overlap"
  BY DEF TerminalAnswers, WholeAnswers
<1> QED BY <1>1, <1>2

(* The matching that is kept pays: what an overlap costs and what two units  *)
(* left out would have cost are on the right sides of the penalty, for every *)
(* number of units, every capacity and every cost.                           *)
THEOREM MatchingPays == Spec => []MatchesPay
<1>1. RelationsInv => MatchesPay
  <2> SUFFICES ASSUME RelationsInv, NEW o \in Stored, SpecOf(o).decompositions = <<>>
               PROVE  LET s == SpecOf(o)
                          cost(u, v) == PairCost(OutcomeKind(o), o.evidence, u, v)
                          fewer == s.preference = "fewer_edges"
                          out(side) == {u \in side : \E a \in o.assertions :
                                          a.about = {u} /\ a.relation = "none"}
                      IN  /\ \A a \in {b \in o.assertions : b.relation = "overlap"} :
                                \A u \in a.sources, v \in a.targets :
                                   IF fewer THEN cost(u, v) < 2 * s.penalty
                                   ELSE cost(u, v) <= 2 * s.penalty + s.tolerance
                          /\ \A u \in out(o.sources), v \in out(o.targets) :
                                /\ PairState(OutcomeKind(o), s, o.evidence, u, v) = "eligible"
                                /\ "1:1" \in s.cardinalities
                                /\ Capacity(s, o.sources, u) > 0 /\ Capacity(s, o.sources, v) > 0
                                => IF fewer THEN cost(u, v) >= 2 * s.penalty - s.tolerance
                                   ELSE cost(u, v) > 2 * s.penalty
    BY DEF MatchesPay, PairCost
  <2> DEFINE s == SpecOf(o)
             e == o.evidence
             kind == OutcomeKind(o)
             S == o.sources
             T == o.targets
             survivors == Survivors(s, Primary(kind, s, e, S, T))
  <2>1. Request(kind, s, e, S, T)
    BY StoredRequest
  <2>2. /\ IsFiniteSet(S) /\ IsFiniteSet(T) /\ S \cap T = {} /\ S # {} /\ T # {}
    BY <2>1 DEF Request
  <2>3. o.assertions = Resolution(kind, s, e, S, T) /\ o.assertions # {}
    BY StoredOutcome
  <2>4. s.decompositions = <<>>
    OBVIOUS
  <2> HIDE DEF s, e, kind, S, T
  <2>5. \/ \E r \in WholeAnswers : o.assertions = {About(S, T, r[1], r[2], r[3])}
        \/ \E M \in SUBSET (S \X T) :
              M \in survivors /\ o.assertions = MatchedAssertions(kind, s, e, S, T, M)
    BY <2>2, <2>3, SurvivorAnswers
  <2> HIDE DEF survivors
  <2>6. ASSUME NEW r \in WholeAnswers, o.assertions = {About(S, T, r[1], r[2], r[3])},
               NEW a \in o.assertions
        PROVE  a.relation # "overlap" /\ \A u : a.about # {u}
    <3>1. a = About(S, T, r[1], r[2], r[3])
      BY <2>6
    <3> QED BY <2>2, <3>1, WholeForms
  <2>7. ASSUME NEW a \in o.assertions, a.relation = "overlap",
               NEW u \in a.sources, NEW v \in a.targets
        PROVE  IF s.preference = "fewer_edges" THEN PairCost(kind, e, u, v) < 2 * s.penalty
               ELSE PairCost(kind, e, u, v) <= 2 * s.penalty + s.tolerance
    <3>1. PICK M \in SUBSET (S \X T) :
             M \in survivors /\ o.assertions = MatchedAssertions(kind, s, e, S, T, M)
      BY <2>5, <2>6, <2>7
    <3>2. PICK C \in Components(M) :
             Cardinality(C) = 2 /\ a.sources = C \cap S /\ a.targets = C \ S
      BY <2>4, <2>7, <3>1, OverlapForm
    <3>3. PICK N : N = M \ {<<u, v>>}
      OBVIOUS
    <3>4. u \in C \cap S /\ v \in C \ S
      BY <3>2
    <3>5. PairAdded(S, T, N, M, u, v)
      BY <2>2, <3>2, <3>3, <3>4, OverlapPair
    <3> QED BY <2>1, <3>1, <3>5, OverlapPays DEF survivors
  <2>8. ASSUME NEW a \in o.assertions, NEW u \in S \cup T, a.about = {u}, a.relation = "none",
               NEW M \in SUBSET (S \X T), o.assertions = MatchedAssertions(kind, s, e, S, T, M)
        PROVE  u \notin Touched(M)
    BY <2>2, <2>4, <2>8, LeftOutForm
  <2>9. ASSUME NEW u \in S, NEW v \in T,
               \E a \in o.assertions : a.about = {u} /\ a.relation = "none",
               \E a \in o.assertions : a.about = {v} /\ a.relation = "none",
               PairState(kind, s, e, u, v) = "eligible", "1:1" \in s.cardinalities,
               Capacity(s, S, u) > 0, Capacity(s, S, v) > 0
        PROVE  IF s.preference = "fewer_edges"
               THEN PairCost(kind, e, u, v) >= 2 * s.penalty - s.tolerance
               ELSE PairCost(kind, e, u, v) > 2 * s.penalty
    <3>1. PICK M \in SUBSET (S \X T) :
             M \in survivors /\ o.assertions = MatchedAssertions(kind, s, e, S, T, M)
      BY <2>5, <2>6, <2>9
    <3>2. u \in S \ Touched(M) /\ v \in T \ Touched(M)
      BY <2>8, <2>9, <3>1
    <3> QED BY <2>1, <2>9, <3>1, <3>2, LeftOutPays DEF survivors
  <2> QED BY <2>7, <2>9 DEF s, e, kind, S, T
<1> QED BY <1>1, Inductive, PTL

(***************************************************************************)
(* Requests that differ in names only                                      *)
(***************************************************************************)

\* The set X with every element renamed by g.
Renamed(g, X) == {g[x] : x \in X}

\* pi renames the units of the arms S and T to those of the arms P and Q, in either order of
\* the arms, and f the pairs with them.
Renaming(pi, f, S, T, P, Q) ==
    /\ IsFiniteSet(S) /\ IsFiniteSet(T)
    /\ pi \in [S \cup T -> P \cup Q] /\ \A y \in P \cup Q : \E x \in S \cup T : pi[x] = y
    /\ \A x, y \in S \cup T : pi[x] = pi[y] => x = y
    /\ f \in [S \X T -> P \X Q] /\ \A q \in P \X Q : \E p \in S \X T : f[p] = q
    /\ \A p, q \in S \X T : f[p] = f[q] => p = q
    /\ \A p \in S \X T : {f[p][1], f[p][2]} = {pi[p[1]], pi[p[2]]}

\* Renaming keeps sets as large as they are.
LEMMA RenamedSize ==
    ASSUME NEW g, NEW X, IsFiniteSet(X), \A x, y \in X : g[x] = g[y] => x = y
    PROVE  IsFiniteSet(Renamed(g, X)) /\ Cardinality(Renamed(g, X)) = Cardinality(X)
<1>1. PICK h : h = [x \in X |-> g[x]]
  OBVIOUS
<1>2. h \in Bijection(X, Renamed(g, X))
  <2>1. h \in [X -> Renamed(g, X)]
    BY <1>1 DEF Renamed
  <2>2. \A x, y \in X : h[x] = h[y] => x = y
    BY <1>1
  <2>3. \A t \in Renamed(g, X) : \E x \in X : h[x] = t
    BY <1>1 DEF Renamed
  <2> QED BY <2>1, <2>2, <2>3 DEF Bijection, Injection, Surjection, IsInjective
<1>3. ExistsBijection(X, Renamed(g, X))
  BY <1>2 DEF ExistsBijection
<1> QED BY <1>3, FS_Bijection

\* The two ends of a renamed pair are the renamed ends.
LEMMA RenamedEnds ==
    ASSUME NEW pi, NEW f, NEW S, NEW T, NEW P, NEW Q, Renaming(pi, f, S, T, P, Q),
           NEW p \in S \X T
    PROVE  /\ p[1] \in S \cup T /\ p[2] \in S \cup T
           /\ \/ f[p][1] = pi[p[1]] /\ f[p][2] = pi[p[2]]
              \/ f[p][1] = pi[p[2]] /\ f[p][2] = pi[p[1]]
<1>1. {f[p][1], f[p][2]} = {pi[p[1]], pi[p[2]]}
  BY DEF Renaming
<1>2. \A a, b, c, d : {a, b} = {c, d} => (a = c /\ b = d) \/ (a = d /\ b = c)
  OBVIOUS
<1>3. p[1] \in S \cup T /\ p[2] \in S \cup T
  OBVIOUS
<1> QED BY <1>1, <1>2, <1>3

\* It touches the renamed units.
LEMMA RenamedTouched ==
    ASSUME NEW pi, NEW f, NEW S, NEW T, NEW P, NEW Q, Renaming(pi, f, S, T, P, Q),
           NEW M \in SUBSET (S \X T)
    PROVE  Touched(Renamed(f, M)) = Renamed(pi, Touched(M))
<1> DEFINE R == Renamed(f, M)
<1>1. \A p \in M : \/ f[p][1] = pi[p[1]] /\ f[p][2] = pi[p[2]]
                   \/ f[p][1] = pi[p[2]] /\ f[p][2] = pi[p[1]]
  BY RenamedEnds
<1>2. ASSUME NEW w \in Touched(R) PROVE w \in Renamed(pi, Touched(M))
  <2>1. PICK q \in R : w = q[1] \/ w = q[2]
    BY DEF Touched
  <2>2. PICK p \in M : q = f[p]
    BY DEF Renamed
  <2>3. p[1] \in Touched(M) /\ p[2] \in Touched(M)
    BY Touching
  <2> QED BY <1>1, <2>1, <2>2, <2>3 DEF Renamed
<1>3. ASSUME NEW w \in Renamed(pi, Touched(M)) PROVE w \in Touched(R)
  <2>1. PICK x \in Touched(M) : w = pi[x]
    BY DEF Renamed
  <2>2. PICK p \in M : x = p[1] \/ x = p[2]
    BY DEF Touched
  <2>3. f[p] \in R
    BY DEF Renamed
  <2>4. f[p][1] \in Touched(R) /\ f[p][2] \in Touched(R)
    BY <2>3, Touching
  <2> QED BY <1>1, <2>1, <2>2, <2>4
<1> QED BY <1>2, <1>3

\* A set is closed under the pairs of M: it has both units of a pair or none.
ClosedIn(M, X) == \A p \in M : p[1] \in X <=> p[2] \in X

\* Closed sets are renamed to closed sets.
LEMMA RenamedClosed ==
    ASSUME NEW pi, NEW f, NEW S, NEW T, NEW P, NEW Q, Renaming(pi, f, S, T, P, Q),
           NEW M \in SUBSET (S \X T), NEW X \in SUBSET (S \cup T)
    PROVE  ClosedIn(M, X) => ClosedIn(Renamed(f, M), Renamed(pi, X))
<1>1. \A x \in S \cup T : pi[x] \in Renamed(pi, X) <=> x \in X
  BY DEF Renaming, Renamed
<1>2. ASSUME ClosedIn(M, X), NEW q \in Renamed(f, M)
      PROVE  q[1] \in Renamed(pi, X) <=> q[2] \in Renamed(pi, X)
  <2>1. PICK p \in M : q = f[p]
    BY DEF Renamed
  <2>2. /\ p[1] \in S \cup T /\ p[2] \in S \cup T
        /\ \/ f[p][1] = pi[p[1]] /\ f[p][2] = pi[p[2]]
           \/ f[p][1] = pi[p[2]] /\ f[p][2] = pi[p[1]]
    BY RenamedEnds
  <2>3. p[1] \in X <=> p[2] \in X
    BY <1>2 DEF ClosedIn
  <2> QED BY <1>1, <2>1, <2>2, <2>3
<1> QED BY <1>2 DEF ClosedIn

\* What is renamed to a closed set is closed.
LEMMA RenamedFromClosed ==
    ASSUME NEW pi, NEW f, NEW S, NEW T, NEW P, NEW Q, Renaming(pi, f, S, T, P, Q),
           NEW M \in SUBSET (S \X T), NEW Y, ClosedIn(Renamed(f, M), Y)
    PROVE  ClosedIn(M, {x \in Touched(M) : pi[x] \in Y})
<1>1. ASSUME NEW p \in M PROVE pi[p[1]] \in Y <=> pi[p[2]] \in Y
  <2>1. f[p] \in Renamed(f, M)
    BY DEF Renamed
  <2>2. f[p][1] \in Y <=> f[p][2] \in Y
    BY <2>1 DEF ClosedIn
  <2>3. \/ f[p][1] = pi[p[1]] /\ f[p][2] = pi[p[2]]
        \/ f[p][1] = pi[p[2]] /\ f[p][2] = pi[p[1]]
    BY RenamedEnds
  <2> QED BY <2>2, <2>3
<1>2. \A p \in M : p[1] \in Touched(M) /\ p[2] \in Touched(M)
  BY Touching
<1> QED BY <1>1, <1>2 DEF ClosedIn

\* The smallest closed set with u in it.
LEMMA ComponentLeast ==
    ASSUME NEW M, NEW u, NEW X \in SUBSET Touched(M), u \in X, ClosedIn(M, X)
    PROVE  ComponentOf(M, u) \subseteq X
BY DEF ComponentOf, ClosedIn

\* Components are renamed to components.
LEMMA RenamedComponent ==
    ASSUME NEW pi, NEW f, NEW S, NEW T, NEW P, NEW Q, Renaming(pi, f, S, T, P, Q),
           NEW M \in SUBSET (S \X T), NEW u \in Touched(M)
    PROVE  ComponentOf(Renamed(f, M), pi[u]) = Renamed(pi, ComponentOf(M, u))
<1> DEFINE R == Renamed(f, M)
           C == ComponentOf(M, u)
           D == ComponentOf(R, pi[u])
           X == {x \in Touched(M) : pi[x] \in D}
<1>1. /\ u \in C /\ C \subseteq Touched(M) /\ ClosedIn(M, C)
  BY ComponentClosed DEF ClosedIn
<1>2. Touched(M) \subseteq S \cup T /\ Touched(R) = Renamed(pi, Touched(M))
  BY MatchingWithin, RenamedTouched
<1>3. pi[u] \in Touched(R)
  BY <1>2 DEF Renamed
<1>4. pi[u] \in D /\ D \subseteq Touched(R) /\ ClosedIn(R, D)
  BY <1>3, ComponentClosed DEF ClosedIn
<1>5. D \subseteq Renamed(pi, C)
  <2>1. C \in SUBSET (S \cup T)
    BY <1>1, <1>2
  <2>2. ClosedIn(R, Renamed(pi, C))
    BY <1>1, <2>1, RenamedClosed
  <2>3. Renamed(pi, C) \in SUBSET Touched(R) /\ pi[u] \in Renamed(pi, C)
    BY <1>1, <1>2 DEF Renamed
  <2> HIDE DEF C, R
  <2> QED BY <2>2, <2>3, ComponentLeast
<1>6. C \subseteq X
  <2>1. ClosedIn(M, X)
    BY <1>4, RenamedFromClosed
  <2>2. X \in SUBSET Touched(M) /\ u \in X
    BY <1>4
  <2> HIDE DEF X
  <2> QED BY <2>1, <2>2, ComponentLeast
<1>7. Renamed(pi, C) \subseteq D
  BY <1>6 DEF Renamed
<1> QED BY <1>5, <1>7

\* All of them, and no other set.
LEMMA RenamedComponents ==
    ASSUME NEW pi, NEW f, NEW S, NEW T, NEW P, NEW Q, Renaming(pi, f, S, T, P, Q),
           NEW M \in SUBSET (S \X T)
    PROVE  Components(Renamed(f, M)) = {Renamed(pi, C) : C \in Components(M)}
<1>1. Touched(Renamed(f, M)) = Renamed(pi, Touched(M))
  BY RenamedTouched
<1>2. \A u \in Touched(M) : ComponentOf(Renamed(f, M), pi[u]) = Renamed(pi, ComponentOf(M, u))
  BY RenamedComponent
<1>3. Components(Renamed(f, M)) = {ComponentOf(Renamed(f, M), pi[u]) : u \in Touched(M)}
  BY <1>1 DEF Components, Renamed
<1>4. {Renamed(pi, C) : C \in Components(M)} = {Renamed(pi, ComponentOf(M, u)) : u \in Touched(M)}
  BY DEF Components
<1> QED BY <1>2, <1>3, <1>4

\* A unit keeps its degree.
LEMMA RenamedDegree ==
    ASSUME NEW pi, NEW f, NEW S, NEW T, NEW P, NEW Q, Renaming(pi, f, S, T, P, Q),
           NEW M \in SUBSET (S \X T), NEW u \in S \cup T
    PROVE  Degree(Renamed(f, M), pi[u]) = Degree(M, u)
<1> DEFINE K == {p \in M : u = p[1] \/ u = p[2]}
           L == {q \in Renamed(f, M) : pi[u] = q[1] \/ pi[u] = q[2]}
<1>1. \A p \in M : f[p] \in L <=> p \in K
  <2>1. ASSUME NEW p \in M
        PROVE  (pi[u] = f[p][1] \/ pi[u] = f[p][2]) <=> (u = p[1] \/ u = p[2])
    <3>1. /\ p[1] \in S \cup T /\ p[2] \in S \cup T
          /\ \/ f[p][1] = pi[p[1]] /\ f[p][2] = pi[p[2]]
             \/ f[p][1] = pi[p[2]] /\ f[p][2] = pi[p[1]]
      BY RenamedEnds
    <3>2. (pi[u] = pi[p[1]] <=> u = p[1]) /\ (pi[u] = pi[p[2]] <=> u = p[2])
      BY <3>1 DEF Renaming
    <3> QED BY <3>1, <3>2
  <2> QED BY <2>1 DEF Renamed
<1>2. L = Renamed(f, K)
  BY <1>1 DEF Renamed
<1>3. K \in SUBSET (S \X T) /\ IsFiniteSet(S) /\ IsFiniteSet(T)
  BY DEF Renaming
<1>4. IsFiniteSet(K)
  BY <1>3, PairsFinite
<1>5. \A x, y \in K : f[x] = f[y] => x = y
  BY <1>3 DEF Renaming
<1>6. Degree(Renamed(f, M), pi[u]) = Cardinality(L) /\ Degree(M, u) = Cardinality(K)
  BY DEF Degree
<1> HIDE DEF K, L
<1> QED BY <1>2, <1>4, <1>5, <1>6, RenamedSize

\* Every set of pairs of the other arms is a renamed one.
LEMMA RenamedAll ==
    ASSUME NEW pi, NEW f, NEW S, NEW T, NEW P, NEW Q, Renaming(pi, f, S, T, P, Q)
    PROVE  \A L \in SUBSET (P \X Q) : \E K \in SUBSET (S \X T) : L = Renamed(f, K)
<1>1. ASSUME NEW L \in SUBSET (P \X Q) PROVE \E K \in SUBSET (S \X T) : L = Renamed(f, K)
  <2>1. PICK M : M = {p \in S \X T : f[p] \in L}
    OBVIOUS
  <2>2. L = Renamed(f, M)
    BY <2>1 DEF Renaming, Renamed
  <2> QED BY <2>1, <2>2
<1> QED BY <1>1

\* Two requests that differ only in the names of their units, and in which arm is called the
\* source: z, d, P and Q are to the second what s, e, S and T are to the first.
SameRequest(kind, s, e, S, T, z, d, P, Q, pi, f) ==
    /\ Renaming(pi, f, S, T, P, Q)
    /\ \A p \in S \X T :
          /\ PairState(kind, z, d, f[p][1], f[p][2]) = PairState(kind, s, e, p[1], p[2])
          /\ Costs(kind, d, P, Q)[f[p]] = Costs(kind, e, S, T)[p]
    /\ \A u \in S \cup T :
          /\ Capacity(z, P, pi[u]) = Capacity(s, S, u)
          /\ d.units[pi[u]].status = e.units[u].status
    /\ \A C \in SUBSET (S \cup T) :
          Permits(z, Cardinality(Renamed(pi, C) \cap P), Cardinality(Renamed(pi, C) \ P))
             <=> Permits(s, Cardinality(C \cap S), Cardinality(C \ S))
    /\ z.penalty = s.penalty /\ z.tolerance = s.tolerance /\ z.preference = s.preference
    /\ z.maximumEdges = s.maximumEdges /\ z.maximumSubsets = s.maximumSubsets
    /\ s.decompositions = <<>> /\ z.decompositions = <<>>

\* The same pairs are eligible.
LEMMA SameEligible ==
    ASSUME NEW kind, NEW s, NEW e, NEW S, NEW T, NEW z, NEW d, NEW P, NEW Q, NEW pi, NEW f,
           SameRequest(kind, s, e, S, T, z, d, P, Q, pi, f)
    PROVE  Eligible(kind, z, d, P, Q) = Renamed(f, Eligible(kind, s, e, S, T))
<1>1. /\ \A p \in S \X T : f[p] \in P \X Q
      /\ \A q \in P \X Q : \E p \in S \X T : f[p] = q
  BY DEF SameRequest, Renaming
<1>2. \A p \in S \X T :
         PairState(kind, z, d, f[p][1], f[p][2]) = PairState(kind, s, e, p[1], p[2])
  BY DEF SameRequest
<1>3. \A p \in S \X T : f[p] \in Eligible(kind, z, d, P, Q) <=> p \in Eligible(kind, s, e, S, T)
  BY <1>1, <1>2 DEF Eligible
<1>4. /\ \A q \in Eligible(kind, z, d, P, Q) : q \in P \X Q
      /\ \A p \in Eligible(kind, s, e, S, T) : p \in S \X T
  BY DEF Eligible
<1> QED BY <1>1, <1>3, <1>4 DEF Renamed

\* What a matching is allowed does not depend on names.
LEMMA SameCapacity ==
    ASSUME NEW kind, NEW s, NEW e, NEW S, NEW T, NEW z, NEW d, NEW P, NEW Q, NEW pi, NEW f,
           SameRequest(kind, s, e, S, T, z, d, P, Q, pi, f), NEW M \in SUBSET (S \X T)
    PROVE  WithinCapacity(z, P, Q, Renamed(f, M)) <=> WithinCapacity(s, S, T, M)
<1>1. Renaming(pi, f, S, T, P, Q)
  BY DEF SameRequest
<1>2. /\ \A y \in P \cup Q : \E x \in S \cup T : pi[x] = y
      /\ \A x \in S \cup T : pi[x] \in P \cup Q
  BY <1>1 DEF Renaming
<1>3. \A u \in S \cup T : Degree(Renamed(f, M), pi[u]) = Degree(M, u)
  BY <1>1, RenamedDegree
<1>4. \A u \in S \cup T : Capacity(z, P, pi[u]) = Capacity(s, S, u)
  BY DEF SameRequest
<1> QED BY <1>2, <1>3, <1>4 DEF WithinCapacity

\* Nor do the cardinalities of its components.
LEMMA SameCardinalities ==
    ASSUME NEW kind, NEW s, NEW e, NEW S, NEW T, NEW z, NEW d, NEW P, NEW Q, NEW pi, NEW f,
           SameRequest(kind, s, e, S, T, z, d, P, Q, pi, f), NEW M \in SUBSET (S \X T)
    PROVE  CardinalitiesPermit(z, P, Renamed(f, M)) <=> CardinalitiesPermit(s, S, M)
<1>1. Renaming(pi, f, S, T, P, Q)
  BY DEF SameRequest
<1>2. Components(Renamed(f, M)) = {Renamed(pi, C) : C \in Components(M)}
  BY <1>1, RenamedComponents
<1>3. ASSUME NEW C \in Components(M) PROVE C \in SUBSET (S \cup T)
  <2>1. PICK u \in Touched(M) : C = ComponentOf(M, u)
    BY DEF Components
  <2> QED BY <2>1, ComponentClosed, MatchingWithin
<1>4. \A C \in Components(M) :
         Permits(z, Cardinality(Renamed(pi, C) \cap P), Cardinality(Renamed(pi, C) \ P))
            <=> Permits(s, Cardinality(C \cap S), Cardinality(C \ S))
  BY <1>3 DEF SameRequest
<1>5. CardinalitiesPermit(z, P, Renamed(f, M)) <=>
         \A C \in Components(M) :
            Permits(z, Cardinality(Renamed(pi, C) \cap P), Cardinality(Renamed(pi, C) \ P))
  BY <1>2, PermitsEach
<1>6. CardinalitiesPermit(s, S, M) <=>
         \A C \in Components(M) : Permits(s, Cardinality(C \cap S), Cardinality(C \ S))
  BY PermitsEach
<1> QED BY <1>4, <1>5, <1>6

\* The same solutions are feasible.
LEMMA SameFeasible ==
    ASSUME NEW kind, NEW s, NEW e, NEW S, NEW T, NEW z, NEW d, NEW P, NEW Q, NEW pi, NEW f,
           SameRequest(kind, s, e, S, T, z, d, P, Q, pi, f), NEW M \in SUBSET (S \X T)
    PROVE  Renamed(f, M) \in Feasible(z, P, Q, Eligible(kind, z, d, P, Q))
              <=> M \in Feasible(s, S, T, Eligible(kind, s, e, S, T))
<1>1. PICK E : E = Eligible(kind, s, e, S, T)
  OBVIOUS
<1>2. Eligible(kind, z, d, P, Q) = Renamed(f, E) /\ E \in SUBSET (S \X T)
  BY <1>1, SameEligible DEF Eligible
<1>3. \A p, q \in S \X T : f[p] = f[q] => p = q
  BY DEF SameRequest, Renaming
<1>4. Renamed(f, M) \in SUBSET Renamed(f, E) <=> M \in SUBSET E
  BY <1>2, <1>3 DEF Renamed
<1>5. WithinCapacity(z, P, Q, Renamed(f, M)) <=> WithinCapacity(s, S, T, M)
  BY SameCapacity
<1>6. CardinalitiesPermit(z, P, Renamed(f, M)) <=> CardinalitiesPermit(s, S, M)
  BY SameCardinalities
<1> QED BY <1>1, <1>2, <1>4, <1>5, <1>6 DEF Feasible

\* They are worth the same.
LEMMA SameObjective ==
    ASSUME NEW kind, NEW s, NEW e, NEW S, NEW T, NEW z, NEW d, NEW P, NEW Q, NEW pi, NEW f,
           SameRequest(kind, s, e, S, T, z, d, P, Q, pi, f), Request(kind, s, e, S, T),
           NEW M \in SUBSET (S \X T)
    PROVE  Objective(kind, z, d, P, Q, Renamed(f, M)) = Objective(kind, s, e, S, T, M)
<1> DEFINE c == Costs(kind, e, S, T)
           g == Costs(kind, d, P, Q)
           A == Unmatched(M, S \cup T)
           B == Unmatched(Renamed(f, M), P \cup Q)
<1>1. Renaming(pi, f, S, T, P, Q) /\ z.penalty = s.penalty
  BY DEF SameRequest
<1>2. \A p \in M : g[f[p]] = c[p]
  BY DEF SameRequest
<1>3. \A p \in M : c[p] \in Int
  BY DEF Request
<1>4. \A p, q \in M : f[p] = f[q] => p = q
  BY <1>1 DEF Renaming
<1>5. IsFiniteSet(M) /\ IsFiniteSet(A)
  <2>1. IsFiniteSet(S) /\ IsFiniteSet(T) /\ A \in SUBSET (S \cup T)
    BY DEF Request, Unmatched
  <2> QED BY <2>1, PairsFinite
<1>6. B = Renamed(pi, A)
  <2>1. Touched(Renamed(f, M)) = Renamed(pi, Touched(M)) /\ Touched(M) \subseteq S \cup T
    BY <1>1, RenamedTouched, MatchingWithin
  <2>2. /\ \A y \in P \cup Q : \E x \in S \cup T : pi[x] = y
        /\ \A x \in S \cup T : pi[x] \in P \cup Q
        /\ \A x, y \in S \cup T : pi[x] = pi[y] => x = y
    BY <1>1 DEF Renaming
  <2>3. \A x \in S \cup T : pi[x] \in Renamed(pi, Touched(M)) <=> x \in Touched(M)
    BY <2>1, <2>2 DEF Renamed
  <2> QED BY <2>1, <2>2, <2>3 DEF Unmatched, Renamed
<1>7. \A x, y \in A : pi[x] = pi[y] => x = y
  BY <1>1 DEF Renaming, Unmatched
<1>8. Objective(kind, z, d, P, Q, Renamed(f, M)) =
         SumFunctionOnSet(g, Renamed(f, M)) + z.penalty * Cardinality(B)
  BY DEF Objective
<1>9. Objective(kind, s, e, S, T, M) = SumFunctionOnSet(c, M) + s.penalty * Cardinality(A)
  BY DEF Objective
<1> HIDE DEF c, g, A, B
<1>10. SumFunctionOnSet(g, Renamed(f, M)) = SumFunctionOnSet(c, M)
  <2>1. SumFunctionOnSet(g, {f[p] : p \in M}) = SumFunctionOnSet(c, M)
    BY <1>2, <1>3, <1>4, <1>5, SumRenamed
  <2> QED BY <2>1 DEF Renamed
<1>11. Cardinality(B) = Cardinality(A)
  BY <1>5, <1>6, <1>7, RenamedSize
<1> QED BY <1>1, <1>8, <1>9, <1>10, <1>11

\* The preference is between the same numbers of pairs.
LEMMA SamePreference ==
    ASSUME NEW kind, NEW s, NEW e, NEW S, NEW T, NEW z, NEW d, NEW P, NEW Q, NEW pi, NEW f,
           SameRequest(kind, s, e, S, T, z, d, P, Q, pi, f), Request(kind, s, e, S, T),
           NEW M \in SUBSET (S \X T), NEW N \in SUBSET (S \X T)
    PROVE  PreferredTo(z, Renamed(f, M), Renamed(f, N)) <=> PreferredTo(s, M, N)
<1>1. z.preference = s.preference /\ \A p, q \in S \X T : f[p] = f[q] => p = q
  BY DEF SameRequest, Renaming
<1>2. IsFiniteSet(M) /\ IsFiniteSet(N)
  BY PairsFinite DEF Request
<1>3. \A p, q \in M : f[p] = f[q] => p = q
  BY <1>1
<1>4. \A p, q \in N : f[p] = f[q] => p = q
  BY <1>1
<1>5. Cardinality(Renamed(f, M)) = Cardinality(M)
  BY <1>2, <1>3, RenamedSize
<1>6. Cardinality(Renamed(f, N)) = Cardinality(N)
  BY <1>2, <1>4, RenamedSize
<1> QED BY <1>1, <1>5, <1>6 DEF PreferredTo

\* The same solutions are optimal up to the tolerance.
LEMMA SamePrimary ==
    ASSUME NEW kind, NEW s, NEW e, NEW S, NEW T, NEW z, NEW d, NEW P, NEW Q, NEW pi, NEW f,
           SameRequest(kind, s, e, S, T, z, d, P, Q, pi, f), Request(kind, s, e, S, T),
           NEW M \in SUBSET (S \X T)
    PROVE  Renamed(f, M) \in Primary(kind, z, d, P, Q) <=> M \in Primary(kind, s, e, S, T)
<1> DEFINE F == Feasible(s, S, T, Eligible(kind, s, e, S, T))
           G == Feasible(z, P, Q, Eligible(kind, z, d, P, Q))
           v(K) == Objective(kind, s, e, S, T, K)
           w(K) == Objective(kind, z, d, P, Q, K)
<1>1. /\ \A K : K \in Primary(kind, s, e, S, T) <=>
                   K \in F /\ \A L \in F : v(K) <= v(L) + s.tolerance
      /\ \A K : K \in Primary(kind, z, d, P, Q) <=>
                   K \in G /\ \A L \in G : w(K) <= w(L) + z.tolerance
  BY DEF Primary
<1>2. z.tolerance = s.tolerance /\ Renaming(pi, f, S, T, P, Q)
  BY DEF SameRequest
<1>3. \A K \in F : K \in SUBSET (S \X T)
  BY DEF Feasible, Eligible
<1>4. \A L \in G : L \in SUBSET (P \X Q)
  BY DEF Feasible, Eligible
<1>5. \A K \in SUBSET (S \X T) : Renamed(f, K) \in G <=> K \in F
  BY SameFeasible
<1>6. \A K \in SUBSET (S \X T) : w(Renamed(f, K)) = v(K)
  BY SameObjective
<1>7. \A L \in G : \E K \in F : L = Renamed(f, K)
  <2>1. \A L \in SUBSET (P \X Q) : \E K \in SUBSET (S \X T) : L = Renamed(f, K)
    BY <1>2, RenamedAll
  <2> QED BY <1>4, <1>5, <2>1
<1> HIDE DEF F, G, v, w
<1>8. (\A L \in G : w(Renamed(f, M)) <= w(L) + z.tolerance)
         <=> (\A L \in F : v(M) <= v(L) + s.tolerance)
  BY <1>2, <1>3, <1>5, <1>6, <1>7
<1> QED BY <1>1, <1>5, <1>8

\* The same solutions survive.
LEMMA SameSurvivor ==
    ASSUME NEW kind, NEW s, NEW e, NEW S, NEW T, NEW z, NEW d, NEW P, NEW Q, NEW pi, NEW f,
           SameRequest(kind, s, e, S, T, z, d, P, Q, pi, f), Request(kind, s, e, S, T),
           NEW M \in SUBSET (S \X T)
    PROVE  Renamed(f, M) \in Survivors(z, Primary(kind, z, d, P, Q))
              <=> M \in Survivors(s, Primary(kind, s, e, S, T))
<1> DEFINE F == Primary(kind, s, e, S, T)
           G == Primary(kind, z, d, P, Q)
<1>1. Renaming(pi, f, S, T, P, Q)
  BY DEF SameRequest
<1>2. \A K \in F : K \in SUBSET (S \X T)
  BY DEF Primary, Feasible, Eligible
<1>3. \A L \in G : L \in SUBSET (P \X Q)
  BY DEF Primary, Feasible, Eligible
<1>4. \A K \in SUBSET (S \X T) : Renamed(f, K) \in G <=> K \in F
  BY SamePrimary
<1>5. \A L \in G : \E K \in F : L = Renamed(f, K)
  <2>1. \A L \in SUBSET (P \X Q) : \E K \in SUBSET (S \X T) : L = Renamed(f, K)
    BY <1>1, RenamedAll
  <2> QED BY <1>3, <1>4, <2>1
<1>6. \A K \in SUBSET (S \X T) :
         PreferredTo(z, Renamed(f, M), Renamed(f, K)) <=> PreferredTo(s, M, K)
  BY SamePreference
<1> HIDE DEF F, G
<1>7. (\A L \in G : PreferredTo(z, Renamed(f, M), L)) <=> (\A K \in F : PreferredTo(s, M, K))
  BY <1>2, <1>4, <1>5, <1>6
<1> QED BY <1>4, <1>7 DEF Survivors, F, G

\* So the survivors are the renamed ones.
LEMMA SameSurvivors ==
    ASSUME NEW kind, NEW s, NEW e, NEW S, NEW T, NEW z, NEW d, NEW P, NEW Q, NEW pi, NEW f,
           SameRequest(kind, s, e, S, T, z, d, P, Q, pi, f), Request(kind, s, e, S, T)
    PROVE  Survivors(z, Primary(kind, z, d, P, Q)) =
              {Renamed(f, M) : M \in Survivors(s, Primary(kind, s, e, S, T))}
<1> DEFINE F == Survivors(s, Primary(kind, s, e, S, T))
           G == Survivors(z, Primary(kind, z, d, P, Q))
<1>1. Renaming(pi, f, S, T, P, Q)
  BY DEF SameRequest
<1>2. (\A K \in F : K \in SUBSET (S \X T)) /\ (\A L \in G : L \in SUBSET (P \X Q))
  BY SurvivorsMatch
<1>3. \A K \in SUBSET (S \X T) : Renamed(f, K) \in G <=> K \in F
  BY SameSurvivor
<1>4. \A L \in SUBSET (P \X Q) : \E K \in SUBSET (S \X T) : L = Renamed(f, K)
  <2>1. ASSUME NEW L \in SUBSET (P \X Q) PROVE \E K \in SUBSET (S \X T) : L = Renamed(f, K)
    BY <1>1, RenamedAll
  <2> QED BY <2>1
<1> HIDE DEF F, G
<1>5. G = {Renamed(f, M) : M \in F}
  <2>1. \A L \in G : \E K \in F : L = Renamed(f, K)
    BY <1>2, <1>3, <1>4
  <2> QED BY <1>2, <1>3, <2>1
<1> QED BY <1>5 DEF F, G

\* A renamed pair of sets of matchings has as many elements.
LEMMA RenamedSets ==
    ASSUME NEW f, NEW A, IsFiniteSet(A), \A x, y \in A : f[x] = f[y] => x = y,
           NEW F \in SUBSET (SUBSET A)
    PROVE  LET G == {Renamed(f, M) : M \in F}
           IN  (G = {} <=> F = {}) /\ Cardinality(G) = Cardinality(F)
<1>1. PICK g : g = [M \in F |-> Renamed(f, M)]
  OBVIOUS
<1>2. ASSUME NEW M \in F, NEW N \in F, g[M] = g[N] PROVE M = N
  <2>1. Renamed(f, M) = Renamed(f, N) /\ M \in SUBSET A /\ N \in SUBSET A
    BY <1>1, <1>2
  <2>2. \A x \in A : (f[x] \in Renamed(f, M) <=> x \in M) /\ (f[x] \in Renamed(f, N) <=> x \in N)
    BY <2>1 DEF Renamed
  <2> QED BY <2>1, <2>2
<1>3. IsFiniteSet(F)
  <2>1. IsFiniteSet(SUBSET A)
    BY FS_SUBSET
  <2> QED BY <2>1, FS_Subset
<1>4. Renamed(g, F) = {Renamed(f, M) : M \in F}
  <2>1. Renamed(g, F) = {g[M] : M \in F}
    BY DEF Renamed
  <2>2. \A M \in F : g[M] = Renamed(f, M)
    BY <1>1
  <2> QED BY <2>1, <2>2
<1>5. Cardinality(Renamed(g, F)) = Cardinality(F)
  BY <1>2, <1>3, RenamedSize
<1> QED BY <1>4, <1>5

\* What the terminal answer of a request depends on.
Statuses(e, U) == {e.units[u].status : u \in U}
States(kind, s, e, S, T) == {PairState(kind, s, e, u, v) : u \in S, v \in T}

\* The units have the same statuses.
LEMMA SameStatuses ==
    ASSUME NEW kind, NEW s, NEW e, NEW S, NEW T, NEW z, NEW d, NEW P, NEW Q, NEW pi, NEW f,
           SameRequest(kind, s, e, S, T, z, d, P, Q, pi, f)
    PROVE  Statuses(d, P \cup Q) = Statuses(e, S \cup T)
<1>1. Renaming(pi, f, S, T, P, Q)
  BY DEF SameRequest
<1>2. \A u \in S \cup T : d.units[pi[u]].status = e.units[u].status
  BY DEF SameRequest
<1>3. /\ \A y \in P \cup Q : \E x \in S \cup T : pi[x] = y
      /\ \A x \in S \cup T : pi[x] \in P \cup Q
  BY <1>1 DEF Renaming
<1>4. {d.units[u].status : u \in P \cup Q} = {e.units[u].status : u \in S \cup T}
  BY <1>2, <1>3
<1> QED BY <1>4 DEF Statuses

\* The pairs are in the same states.
LEMMA SameStates ==
    ASSUME NEW kind, NEW s, NEW e, NEW S, NEW T, NEW z, NEW d, NEW P, NEW Q, NEW pi, NEW f,
           SameRequest(kind, s, e, S, T, z, d, P, Q, pi, f)
    PROVE  States(kind, z, d, P, Q) = States(kind, s, e, S, T)
<1>1. Renaming(pi, f, S, T, P, Q)
  BY DEF SameRequest
<1>2. \A p \in S \X T :
         PairState(kind, z, d, f[p][1], f[p][2]) = PairState(kind, s, e, p[1], p[2])
  BY DEF SameRequest
<1>3. (\A p \in S \X T : f[p] \in P \X Q) /\ (\A q \in P \X Q : \E p \in S \X T : f[p] = q)
  BY <1>1 DEF Renaming
<1>4. \A u \in S, v \in T : \E x \in P, y \in Q :
         PairState(kind, z, d, x, y) = PairState(kind, s, e, u, v)
  <2>1. ASSUME NEW u \in S, NEW v \in T
        PROVE  \E x \in P, y \in Q : PairState(kind, z, d, x, y) = PairState(kind, s, e, u, v)
    <3>1. PICK p : p = <<u, v>>
      OBVIOUS
    <3>2. p \in S \X T /\ p[1] = u /\ p[2] = v
      BY <3>1
    <3>3. f[p][1] \in P /\ f[p][2] \in Q
      BY <1>3, <3>2
    <3> QED BY <1>2, <3>2, <3>3
  <2> QED BY <2>1
<1>5. \A x \in P, y \in Q : \E u \in S, v \in T :
         PairState(kind, z, d, x, y) = PairState(kind, s, e, u, v)
  <2>1. ASSUME NEW x \in P, NEW y \in Q
        PROVE  \E u \in S, v \in T : PairState(kind, z, d, x, y) = PairState(kind, s, e, u, v)
    <3>1. <<x, y>> \in P \X Q /\ <<x, y>>[1] = x /\ <<x, y>>[2] = y
      OBVIOUS
    <3>2. PICK p \in S \X T : f[p] = <<x, y>>
      BY <1>3, <3>1
    <3>3. p[1] \in S /\ p[2] \in T
      OBVIOUS
    <3> QED BY <1>2, <3>1, <3>2, <3>3
  <2> QED BY <2>1
<1>6. ASSUME NEW x \in States(kind, z, d, P, Q) PROVE x \in States(kind, s, e, S, T)
  BY <1>5 DEF States
<1>7. ASSUME NEW x \in States(kind, s, e, S, T) PROVE x \in States(kind, z, d, P, Q)
  <2>1. PICK u \in S, v \in T : x = PairState(kind, s, e, u, v)
    BY DEF States
  <2> QED BY <1>4, <2>1 DEF States
<1> QED BY <1>6, <1>7

\* The budget is exceeded by the same number of pairs.
LEMMA SameBudget ==
    ASSUME NEW kind, NEW s, NEW e, NEW S, NEW T, NEW z, NEW d, NEW P, NEW Q, NEW pi, NEW f,
           SameRequest(kind, s, e, S, T, z, d, P, Q, pi, f), Request(kind, s, e, S, T)
    PROVE  OverBudget(z, Eligible(kind, z, d, P, Q)) <=> OverBudget(s, Eligible(kind, s, e, S, T))
<1>1. Renaming(pi, f, S, T, P, Q)
  BY DEF SameRequest
<1>2. PICK E \in SUBSET (S \X T) : E = Eligible(kind, s, e, S, T)
  BY DEF Eligible
<1>3. Eligible(kind, z, d, P, Q) = Renamed(f, E)
  BY <1>2, SameEligible
<1>4. \A p, q \in E : f[p] = f[q] => p = q
  BY <1>1 DEF Renaming
<1>5. IsFiniteSet(E)
  BY PairsFinite DEF Request
<1>6. Cardinality(Renamed(f, E)) = Cardinality(E)
  BY <1>4, <1>5, RenamedSize
<1>7. z.maximumEdges = s.maximumEdges /\ z.maximumSubsets = s.maximumSubsets
  BY DEF SameRequest
<1> QED BY <1>2, <1>3, <1>6, <1>7 DEF OverBudget

\* How a survivor answers, or why none does: the cases of ResolutionIs.
AnswerOf(terminal, over, survivors, answer, S, T) ==
    /\ terminal[2] # "pending" => answer = {About(S, T, terminal[1], terminal[2], terminal[3])}
    /\ terminal[2] = "pending" /\ over =>
          answer = {About(S, T, "none", "indeterminate", "matching_budget_exhausted")}
    /\ terminal[2] = "pending" /\ ~over /\ survivors = {} => answer = {}
    /\ terminal[2] = "pending" /\ ~over /\ survivors # {} /\ Cardinality(survivors) > 1 =>
          answer = {About(S, T, "none", "indeterminate", "structural_matching_ambiguity")}

\* The answer of a request whose terminal, budget and survivors are known.
LEMMA AnswerIs ==
    ASSUME NEW kind, NEW s, NEW e, NEW S, NEW T, s.decompositions = <<>>,
           NEW terminal,
           terminal = Terminal(Statuses(e, S \cup T), States(kind, s, e, S, T)),
           NEW F, F = Survivors(s, Primary(kind, s, e, S, T))
    PROVE  /\ AnswerOf(terminal, OverBudget(s, Eligible(kind, s, e, S, T)), F,
                       Resolution(kind, s, e, S, T), S, T)
           /\ \A M : /\ terminal[2] = "pending" /\ F = {M} /\ ~(Cardinality(F) > 1)
                     /\ ~OverBudget(s, Eligible(kind, s, e, S, T))
                     => Resolution(kind, s, e, S, T) = MatchedAssertions(kind, s, e, S, T, M)
<1>1. \A M : Decomposable(s, S, M)
  <2>1. Len(s.decompositions) # 1
    OBVIOUS
  <2> QED BY <2>1 DEF Decomposable
<1> DEFINE over == OverBudget(s, Eligible(kind, s, e, S, T))
           rest == IF F = {} THEN {}
                   ELSE IF Cardinality(F) > 1
                   THEN {About(S, T, "none", "indeterminate", "structural_matching_ambiguity")}
                   ELSE IF ~Decomposable(s, S, CHOOSE M \in F : TRUE) THEN {}
                   ELSE MatchedAssertions(kind, s, e, S, T, CHOOSE M \in F : TRUE)
<1>2. Resolution(kind, s, e, S, T) =
         IF terminal[2] # "pending"
         THEN {About(S, T, terminal[1], terminal[2], terminal[3])}
         ELSE IF over THEN {About(S, T, "none", "indeterminate", "matching_budget_exhausted")}
         ELSE rest
  BY DEF Resolution, NoAnswer, Statuses, States
<1>3. F # {} /\ ~(Cardinality(F) > 1) =>
         rest = MatchedAssertions(kind, s, e, S, T, CHOOSE M \in F : TRUE)
  BY <1>1
<1>4. F = {} => rest = {}
  OBVIOUS
<1>5. F # {} /\ Cardinality(F) > 1 =>
         rest = {About(S, T, "none", "indeterminate", "structural_matching_ambiguity")}
  OBVIOUS
<1> HIDE DEF over, rest
<1>6. AnswerOf(terminal, over, F, Resolution(kind, s, e, S, T), S, T)
  BY <1>2, <1>4, <1>5 DEF AnswerOf
<1>7. ASSUME NEW M, terminal[2] = "pending", F = {M}, ~(Cardinality(F) > 1), ~over
      PROVE  Resolution(kind, s, e, S, T) = MatchedAssertions(kind, s, e, S, T, M)
  <2>1. (CHOOSE N \in F : TRUE) = M /\ F # {}
    BY <1>7
  <2> QED BY <1>2, <1>3, <1>7, <2>1
<1> QED BY <1>6, <1>7 DEF over

\* Requests that differ in names only are answered alike: as a whole, or by what the one
\* surviving matching says under the other names.
LEMMA SameAnswer ==
    ASSUME NEW kind, NEW s, NEW e, NEW S, NEW T, NEW z, NEW d, NEW P, NEW Q, NEW pi, NEW f,
           SameRequest(kind, s, e, S, T, z, d, P, Q, pi, f), Request(kind, s, e, S, T)
    PROVE  LET this == Resolution(kind, s, e, S, T)
               that == Resolution(kind, z, d, P, Q)
           IN  \/ this = {} /\ that = {}
               \/ \E r \in WholeAnswers : /\ this = {About(S, T, r[1], r[2], r[3])}
                                          /\ that = {About(P, Q, r[1], r[2], r[3])}
               \/ \E M \in SUBSET (S \X T) :
                     /\ Survivors(s, Primary(kind, s, e, S, T)) = {M}
                     /\ this = MatchedAssertions(kind, s, e, S, T, M)
                     /\ that = MatchedAssertions(kind, z, d, P, Q, Renamed(f, M))
<1>1. PICK terminal : terminal = Terminal(Statuses(e, S \cup T), States(kind, s, e, S, T))
  OBVIOUS
<1>2. terminal = Terminal(Statuses(d, P \cup Q), States(kind, z, d, P, Q))
  BY <1>1, SameStatuses, SameStates
<1>6. PICK F : F = Survivors(s, Primary(kind, s, e, S, T))
  OBVIOUS
<1>7. PICK G : G = Survivors(z, Primary(kind, z, d, P, Q))
  OBVIOUS
<1>8. G = {Renamed(f, M) : M \in F}
  BY <1>6, <1>7, SameSurvivors
<1>9. F \in SUBSET (SUBSET (S \X T))
  BY <1>6, SurvivorsMatch
<1>10. (G = {} <=> F = {}) /\ Cardinality(G) = Cardinality(F)
  <2>1. \A p, q \in S \X T : f[p] = f[q] => p = q
    BY DEF SameRequest, Renaming
  <2>2. IsFiniteSet(S \X T)
    BY PairsFinite DEF Request
  <2> QED BY <1>8, <1>9, <2>1, <2>2, RenamedSets
<1>11. terminal[2] # "pending" => terminal \in TerminalAnswers
  BY <1>1, TerminalKnown DEF Pending
<1> DEFINE over == OverBudget(s, Eligible(kind, s, e, S, T))
           too == OverBudget(z, Eligible(kind, z, d, P, Q))
           this == Resolution(kind, s, e, S, T)
           that == Resolution(kind, z, d, P, Q)
<1>12. s.decompositions = <<>> /\ z.decompositions = <<>>
  BY DEF SameRequest
<1>13. over <=> too
  BY SameBudget
<1>15. /\ AnswerOf(terminal, over, F, this, S, T)
       /\ \A M : terminal[2] = "pending" /\ F = {M} /\ ~(Cardinality(F) > 1) /\ ~over
                    => this = MatchedAssertions(kind, s, e, S, T, M)
  BY <1>1, <1>6, <1>12, AnswerIs
<1>16. /\ AnswerOf(terminal, too, G, that, P, Q)
       /\ \A M : terminal[2] = "pending" /\ G = {M} /\ ~(Cardinality(G) > 1) /\ ~too
                    => that = MatchedAssertions(kind, z, d, P, Q, M)
  BY <1>2, <1>7, <1>12, AnswerIs
<1> HIDE DEF over, too, this, that
<1>17. CASE terminal[2] # "pending"
  <2>1. terminal \in WholeAnswers
    BY <1>11, <1>17 DEF WholeAnswers
  <2>2. /\ this = {About(S, T, terminal[1], terminal[2], terminal[3])}
        /\ that = {About(P, Q, terminal[1], terminal[2], terminal[3])}
    BY <1>15, <1>16, <1>17 DEF AnswerOf
  <2> QED BY <2>1, <2>2 DEF this, that
<1>18. CASE terminal[2] = "pending" /\ over
  <2>1. PICK r : r = <<"none", "indeterminate", "matching_budget_exhausted">>
    OBVIOUS
  <2>2. r \in WholeAnswers
    BY <2>1 DEF WholeAnswers
  <2>3. /\ this = {About(S, T, r[1], r[2], r[3])}
        /\ that = {About(P, Q, r[1], r[2], r[3])}
    BY <1>13, <1>15, <1>16, <1>18, <2>1 DEF AnswerOf
  <2> QED BY <2>2, <2>3 DEF this, that
<1>19. CASE terminal[2] = "pending" /\ ~over /\ F = {}
  BY <1>10, <1>13, <1>15, <1>16, <1>19 DEF AnswerOf, this, that
<1>20. CASE terminal[2] = "pending" /\ ~over /\ F # {} /\ Cardinality(F) > 1
  <2>1. PICK r : r = <<"none", "indeterminate", "structural_matching_ambiguity">>
    OBVIOUS
  <2>2. r \in WholeAnswers
    BY <2>1 DEF WholeAnswers
  <2>3. /\ this = {About(S, T, r[1], r[2], r[3])}
        /\ that = {About(P, Q, r[1], r[2], r[3])}
    BY <1>10, <1>13, <1>15, <1>16, <1>20, <2>1 DEF AnswerOf
  <2> QED BY <2>2, <2>3 DEF this, that
<1>21. CASE terminal[2] = "pending" /\ ~over /\ F # {} /\ ~(Cardinality(F) > 1)
  <2>1. PICK M : F = {M}
    <3>1. IsFiniteSet(F)
      <4>1. IsFiniteSet(SUBSET (S \X T))
        BY PairsFinite DEF Request
      <4> QED BY <1>9, <4>1, FS_Subset
    <3>2. Cardinality(F) \in Nat /\ Cardinality(F) # 0
      BY <1>21, <3>1, FS_CardinalityType, FS_EmptySet
    <3>3. Cardinality(F) = 1
      BY <1>21, <3>2
    <3> QED BY <3>1, <3>3, FS_Singleton
  <2>2. G = {Renamed(f, M)} /\ M \in SUBSET (S \X T)
    BY <1>8, <1>9, <2>1
  <2>3. this = MatchedAssertions(kind, s, e, S, T, M)
    BY <1>15, <1>21, <2>1
  <2>4. that = MatchedAssertions(kind, z, d, P, Q, Renamed(f, M))
    BY <1>10, <1>13, <1>16, <1>21, <2>2
  <2> QED BY <1>6, <2>1, <2>2, <2>3, <2>4 DEF this, that
<1> QED BY <1>17, <1>18, <1>19, <1>20, <1>21

\* Without declared decompositions a matching is answered component by component and unit by unit.
LEMMA MatchedSet ==
    ASSUME NEW kind, NEW s, NEW e, NEW S, NEW T, NEW M, s.decompositions = <<>>
    PROVE  \A a : a \in MatchedAssertions(kind, s, e, S, T, M) <=>
              \/ \E C \in Components(M) : a = OneAssertion(C, S)
              \/ \E u \in Unmatched(M, S) : a = SourceLeftOut(kind, s, e, T, u)
              \/ \E v \in Unmatched(M, T) : a = TargetLeftOut(kind, s, e, S, v)
<1>1. UNION {ComponentAssertions(s, C, S) : C \in Components(M)}
         = {OneAssertion(C, S) : C \in Components(M)}
  <2>1. \A C : ComponentAssertions(s, C, S) = {OneAssertion(C, S)}
    BY AssertedOnce
  <2> QED BY <2>1
<1> QED BY <1>1 DEF MatchedAssertions, UnmatchedAssertions

\* A permutation of the units that respects the arms and everything a request says of them.
Symmetry(s, e, S, T, pi) ==
    /\ IsFiniteSet(S) /\ IsFiniteSet(T)
    /\ pi \in [S \cup T -> S \cup T]
    /\ \A x \in S \cup T : pi[pi[x]] = x
    /\ \A x \in S \cup T : pi[x] \in S <=> x \in S
    /\ \A x \in S \cup T : pi[x] \in T <=> x \in T
    /\ \A x \in S \cup T : e.units[pi[x]] = e.units[x]
    /\ \A x \in S \cup T : Capacity(s, S, pi[x]) = Capacity(s, S, x)
    /\ \A x \in S, y \in T : e.controls[<<pi[x], pi[y]>>] = e.controls[<<x, y>>]

\* The pairs, renamed as their units are.
PairsOf(pi, S, T) == [p \in S \X T |-> <<pi[p[1]], pi[p[2]]>>]

\* A symmetry is its own inverse.
LEMMA SymmetryInjective ==
    ASSUME NEW s, NEW e, NEW S, NEW T, NEW pi, Symmetry(s, e, S, T, pi)
    PROVE  \A x, y \in S \cup T : pi[x] = pi[y] => x = y
<1>1. \A x \in S \cup T : pi[pi[x]] = x
  BY DEF Symmetry
<1> QED BY <1>1

\* It keeps the one arm.
LEMMA SymmetryKeepsSources ==
    ASSUME NEW s, NEW e, NEW S, NEW T, NEW pi, Symmetry(s, e, S, T, pi)
    PROVE  Renamed(pi, S) = S
<1>1. \A x \in S \cup T : pi[pi[x]] = x /\ (pi[x] \in S <=> x \in S)
  BY DEF Symmetry
<1> QED BY <1>1 DEF Renamed

\* It keeps the other.
LEMMA SymmetryKeepsTargets ==
    ASSUME NEW s, NEW e, NEW S, NEW T, NEW pi, Symmetry(s, e, S, T, pi)
    PROVE  Renamed(pi, T) = T
<1>1. \A x \in S \cup T : pi[pi[x]] = x /\ (pi[x] \in T <=> x \in T)
  BY DEF Symmetry
<1> QED BY <1>1 DEF Renamed

\* And so both together.
LEMMA SymmetryKeepsUnits ==
    ASSUME NEW s, NEW e, NEW S, NEW T, NEW pi, Symmetry(s, e, S, T, pi)
    PROVE  Renamed(pi, S \cup T) = S \cup T
<1>1. \A x \in S \cup T : pi[x] \in S \cup T /\ pi[pi[x]] = x
  BY DEF Symmetry
<1> QED BY <1>1 DEF Renamed

\* The sources of a renamed set are the renamed sources.
LEMMA SymmetrySources ==
    ASSUME NEW s, NEW e, NEW S, NEW T, NEW pi, Symmetry(s, e, S, T, pi), NEW C \in SUBSET (S \cup T)
    PROVE  Renamed(pi, C) \cap S = Renamed(pi, C \cap S)
<1>1. \A x \in S \cup T : pi[x] \in S <=> x \in S
  BY DEF Symmetry
<1> QED BY <1>1 DEF Renamed

\* And its targets the renamed targets.
LEMMA SymmetryTargets ==
    ASSUME NEW s, NEW e, NEW S, NEW T, NEW pi, Symmetry(s, e, S, T, pi), NEW C \in SUBSET (S \cup T)
    PROVE  Renamed(pi, C) \ S = Renamed(pi, C \ S)
<1>1. \A x \in S \cup T : pi[x] \in S <=> x \in S
  BY DEF Symmetry
<1> QED BY <1>1 DEF Renamed

\* Sets of units are finite.
LEMMA SymmetryFinite ==
    ASSUME NEW s, NEW e, NEW S, NEW T, NEW pi, Symmetry(s, e, S, T, pi)
    PROVE  \A C \in SUBSET (S \cup T) : IsFiniteSet(C)
<1>1. IsFiniteSet(S \cup T)
  BY FS_Union DEF Symmetry
<1> QED BY <1>1, FS_Subset

\* There are as many as before.
LEMMA SymmetrySize ==
    ASSUME NEW s, NEW e, NEW S, NEW T, NEW pi, Symmetry(s, e, S, T, pi), NEW C \in SUBSET (S \cup T)
    PROVE  Cardinality(Renamed(pi, C)) = Cardinality(C)
<1>1. \A x, y \in C : pi[x] = pi[y] => x = y
  BY SymmetryInjective
<1>2. IsFiniteSet(C)
  BY SymmetryFinite
<1> QED BY <1>1, <1>2, RenamedSize

\* As many sources ...
LEMMA SymmetryManySources ==
    ASSUME NEW s, NEW e, NEW S, NEW T, NEW pi, Symmetry(s, e, S, T, pi), NEW C \in SUBSET (S \cup T)
    PROVE  Cardinality(Renamed(pi, C) \cap S) = Cardinality(C \cap S)
<1>1. C \cap S \in SUBSET (S \cup T) /\ IsFiniteSet(C \cap S)
  BY SymmetryFinite
<1>2. Renamed(pi, C) \cap S = Renamed(pi, C \cap S)
  BY SymmetrySources
<1>3. \A x, y \in S \cup T : pi[x] = pi[y] => x = y
  BY SymmetryInjective
<1> QED BY <1>1, <1>2, <1>3, RenamedSize

\* ... and as many targets.
LEMMA SymmetryManyTargets ==
    ASSUME NEW s, NEW e, NEW S, NEW T, NEW pi, Symmetry(s, e, S, T, pi), NEW C \in SUBSET (S \cup T)
    PROVE  Cardinality(Renamed(pi, C) \ S) = Cardinality(C \ S)
<1>1. C \ S \in SUBSET (S \cup T) /\ IsFiniteSet(C \ S)
  BY SymmetryFinite
<1>2. Renamed(pi, C) \ S = Renamed(pi, C \ S)
  BY SymmetryTargets
<1>3. \A x, y \in S \cup T : pi[x] = pi[y] => x = y
  BY SymmetryInjective
<1> QED BY <1>1, <1>2, <1>3, RenamedSize

\* The renamed pairs are in the state of the pairs.
LEMMA SymmetricState ==
    ASSUME NEW kind, NEW s, NEW e, NEW S, NEW T, NEW pi, Symmetry(s, e, S, T, pi),
           NEW x \in S, NEW y \in T
    PROVE  PairState(kind, s, e, pi[x], pi[y]) = PairState(kind, s, e, x, y)
<1>1. /\ e.units[pi[x]] = e.units[x] /\ e.units[pi[y]] = e.units[y]
      /\ e.controls[<<pi[x], pi[y]>>] = e.controls[<<x, y>>]
  BY DEF Symmetry
<1> QED BY <1>1 DEF PairState

\* A symmetry renames the pairs as it renames the units.
LEMMA SymmetryRenames ==
    ASSUME NEW s, NEW e, NEW S, NEW T, NEW pi, Symmetry(s, e, S, T, pi)
    PROVE  Renaming(pi, PairsOf(pi, S, T), S, T, S, T)
<1> DEFINE f == PairsOf(pi, S, T)
<1>1. /\ \A x \in S \cup T : pi[x] \in S \cup T /\ pi[pi[x]] = x
      /\ \A x \in S : pi[x] \in S
      /\ \A x \in T : pi[x] \in T
  BY DEF Symmetry
<1>2. \A x, y \in S \cup T : pi[x] = pi[y] => x = y
  BY SymmetryInjective
<1>3. \A p \in S \X T : f[p] = <<pi[p[1]], pi[p[2]]>>
  BY DEF PairsOf
<1>4. f \in [S \X T -> S \X T]
  BY <1>1 DEF PairsOf
<1>5. ASSUME NEW q \in S \X T PROVE \E p \in S \X T : f[p] = q
  <2>1. PICK p : p = <<pi[q[1]], pi[q[2]]>>
    OBVIOUS
  <2>2. p \in S \X T /\ p[1] = pi[q[1]] /\ p[2] = pi[q[2]]
    BY <1>1, <2>1
  <2>3. f[p] = <<q[1], q[2]>>
    BY <1>1, <1>3, <2>2
  <2> QED BY <2>2, <2>3
<1>6. ASSUME NEW p \in S \X T, NEW q \in S \X T, f[p] = f[q] PROVE p = q
  <2>1. pi[p[1]] = pi[q[1]] /\ pi[p[2]] = pi[q[2]]
    BY <1>3, <1>6
  <2>2. p[1] = q[1] /\ p[2] = q[2]
    BY <1>2, <2>1
  <2> QED BY <2>2
<1>7. \A p \in S \X T : {f[p][1], f[p][2]} = {pi[p[1]], pi[p[2]]}
  BY <1>3
<1>8. /\ IsFiniteSet(S) /\ IsFiniteSet(T) /\ pi \in [S \cup T -> S \cup T]
      /\ \A y \in S \cup T : \E x \in S \cup T : pi[x] = y
  BY <1>1 DEF Symmetry
<1> QED BY <1>2, <1>4, <1>5, <1>6, <1>7, <1>8 DEF Renaming

\* So the request is the same under the other names.
LEMMA SymmetricRequest ==
    ASSUME NEW kind, NEW s, NEW e, NEW S, NEW T, NEW pi, Symmetry(s, e, S, T, pi),
           s.decompositions = <<>>
    PROVE  SameRequest(kind, s, e, S, T, s, e, S, T, pi, PairsOf(pi, S, T))
<1> DEFINE f == PairsOf(pi, S, T)
<1>1. Renaming(pi, f, S, T, S, T)
  BY SymmetryRenames
<1>2. ASSUME NEW p \in S \X T
      PROVE  /\ PairState(kind, s, e, f[p][1], f[p][2]) = PairState(kind, s, e, p[1], p[2])
             /\ Costs(kind, e, S, T)[f[p]] = Costs(kind, e, S, T)[p]
  <2>1. f[p] = <<pi[p[1]], pi[p[2]]>> /\ p[1] \in S /\ p[2] \in T
    BY DEF PairsOf
  <2>2. f[p] \in S \X T /\ f[p][1] = pi[p[1]] /\ f[p][2] = pi[p[2]]
    BY <1>1, <2>1 DEF Renaming
  <2>3. PairState(kind, s, e, pi[p[1]], pi[p[2]]) = PairState(kind, s, e, p[1], p[2])
    BY <2>1, SymmetricState
  <2>4. e.units[pi[p[1]]] = e.units[p[1]] /\ e.units[pi[p[2]]] = e.units[p[2]]
    BY <2>1 DEF Symmetry
  <2> QED BY <2>2, <2>3, <2>4 DEF Costs
<1>3. \A u \in S \cup T : Capacity(s, S, pi[u]) = Capacity(s, S, u)
                          /\ e.units[pi[u]].status = e.units[u].status
  BY DEF Symmetry
<1>4. ASSUME NEW C \in SUBSET (S \cup T)
      PROVE  Permits(s, Cardinality(Renamed(pi, C) \cap S), Cardinality(Renamed(pi, C) \ S))
                <=> Permits(s, Cardinality(C \cap S), Cardinality(C \ S))
  <2>1. Cardinality(Renamed(pi, C) \cap S) = Cardinality(C \cap S)
    BY SymmetryManySources
  <2>2. Cardinality(Renamed(pi, C) \ S) = Cardinality(C \ S)
    BY SymmetryManyTargets
  <2> QED BY <2>1, <2>2
<1> HIDE DEF f
<1> QED BY <1>1, <1>2, <1>3, <1>4 DEF SameRequest, f

\* An assertion under the other names.
Moved(pi, a) == Assertion(Renamed(pi, a.sources), Renamed(pi, a.targets), Renamed(pi, a.about),
                          a.relation, a.status, a.reason)

\* The fields of an assertion and of the same under other names.
LEMMA MovedFields ==
    ASSUME NEW pi, NEW X, NEW Y, NEW Z, NEW relation, NEW status, NEW reason
    PROVE  Moved(pi, Assertion(X, Y, Z, relation, status, reason))
              = Assertion(Renamed(pi, X), Renamed(pi, Y), Renamed(pi, Z), relation, status, reason)
BY DEF Moved, Assertion

\* What is asserted of a component is asserted of the renamed one.
LEMMA MovedComponent ==
    ASSUME NEW s, NEW e, NEW S, NEW T, NEW pi, Symmetry(s, e, S, T, pi), NEW C \in SUBSET (S \cup T)
    PROVE  OneAssertion(Renamed(pi, C), S) = Moved(pi, OneAssertion(C, S))
<1> DEFINE D == Renamed(pi, C)
<1>1. /\ Cardinality(D) = Cardinality(C) /\ Cardinality(D \cap S) = Cardinality(C \cap S)
      /\ Cardinality(D \ S) = Cardinality(C \ S)
  <2>1. Cardinality(D) = Cardinality(C)
    BY SymmetrySize
  <2>2. Cardinality(D \cap S) = Cardinality(C \cap S)
    BY SymmetryManySources
  <2>3. Cardinality(D \ S) = Cardinality(C \ S)
    BY SymmetryManyTargets
  <2> QED BY <2>1, <2>2, <2>3
<1>2. D \cap S = Renamed(pi, C \cap S)
  BY SymmetrySources
<1>3. D \ S = Renamed(pi, C \ S)
  BY SymmetryTargets
<1>4. (D \cap S) \cup (D \ S) = D /\ (C \cap S) \cup (C \ S) = C
  OBVIOUS
<1>5. ManyToMany(D, S) <=> ManyToMany(C, S)
  BY <1>1 DEF ManyToMany
<1>6. Shape(D, S) = Shape(C, S)
  BY <1>1, ShapeIs
<1>7. \A relation, status, reason :
         About(D \cap S, D \ S, relation, status, reason)
            = Moved(pi, About(C \cap S, C \ S, relation, status, reason))
  <2> TAKE relation, status, reason
  <2>1. About(D \cap S, D \ S, relation, status, reason)
           = Assertion(D \cap S, D \ S, D, relation, status, reason)
    BY <1>4 DEF About
  <2>2. About(C \cap S, C \ S, relation, status, reason)
           = Assertion(C \cap S, C \ S, C, relation, status, reason)
    BY <1>4 DEF About
  <2>3. Moved(pi, Assertion(C \cap S, C \ S, C, relation, status, reason))
           = Assertion(Renamed(pi, C \cap S), Renamed(pi, C \ S), Renamed(pi, C),
                       relation, status, reason)
    BY MovedFields
  <2> QED BY <1>2, <1>3, <2>1, <2>2, <2>3
<1> HIDE DEF D
<1>8. OneAssertion(D, S) = Moved(pi, OneAssertion(C, S))
  BY <1>5, <1>6, <1>7 DEF OneAssertion
<1> QED BY <1>8 DEF D

\* What is known of the pairs of a source does not depend on its name.
LEMMA MovedSource ==
    ASSUME NEW kind, NEW s, NEW e, NEW S, NEW T, NEW pi, Symmetry(s, e, S, T, pi), NEW u \in S
    PROVE  SourceLeftOut(kind, s, e, T, pi[u]) = Moved(pi, SourceLeftOut(kind, s, e, T, u))
<1>1. {PairState(kind, s, e, pi[u], v) : v \in T} = {PairState(kind, s, e, u, v) : v \in T}
  <2>1. \A v \in T : PairState(kind, s, e, pi[u], pi[v]) = PairState(kind, s, e, u, v)
    BY SymmetricState
  <2>2. \A v \in T : pi[v] \in T /\ pi[pi[v]] = v
    BY DEF Symmetry
  <2> QED BY <2>1, <2>2
<1>2. PICK answer : answer = UnmatchedReason({PairState(kind, s, e, u, v) : v \in T})
  OBVIOUS
<1>3. SourceLeftOut(kind, s, e, T, u) = Assertion({u}, T, {u}, "none", answer[1], answer[2])
  BY <1>2 DEF SourceLeftOut
<1>4. SourceLeftOut(kind, s, e, T, pi[u])
         = Assertion({pi[u]}, T, {pi[u]}, "none", answer[1], answer[2])
  BY <1>1, <1>2 DEF SourceLeftOut
<1>5. Renamed(pi, {u}) = {pi[u]}
  BY DEF Renamed
<1>6. Renamed(pi, T) = T
  BY SymmetryKeepsTargets
<1> QED BY <1>3, <1>4, <1>5, <1>6, MovedFields

\* Nor what is known of the pairs of a target.
LEMMA MovedTarget ==
    ASSUME NEW kind, NEW s, NEW e, NEW S, NEW T, NEW pi, Symmetry(s, e, S, T, pi), NEW v \in T
    PROVE  TargetLeftOut(kind, s, e, S, pi[v]) = Moved(pi, TargetLeftOut(kind, s, e, S, v))
<1>1. {PairState(kind, s, e, u, pi[v]) : u \in S} = {PairState(kind, s, e, u, v) : u \in S}
  <2>1. \A u \in S : PairState(kind, s, e, pi[u], pi[v]) = PairState(kind, s, e, u, v)
    BY SymmetricState
  <2>2. \A u \in S : pi[u] \in S /\ pi[pi[u]] = u
    BY DEF Symmetry
  <2> QED BY <2>1, <2>2
<1>2. PICK answer : answer = UnmatchedReason({PairState(kind, s, e, u, v) : u \in S})
  OBVIOUS
<1>3. TargetLeftOut(kind, s, e, S, v) = Assertion(S, {v}, {v}, "none", answer[1], answer[2])
  BY <1>2 DEF TargetLeftOut
<1>4. TargetLeftOut(kind, s, e, S, pi[v])
         = Assertion(S, {pi[v]}, {pi[v]}, "none", answer[1], answer[2])
  BY <1>1, <1>2 DEF TargetLeftOut
<1>5. Renamed(pi, {v}) = {pi[v]}
  BY DEF Renamed
<1>6. Renamed(pi, S) = S
  BY SymmetryKeepsSources
<1> QED BY <1>3, <1>4, <1>5, <1>6, MovedFields

\* A symmetry moves every assertion of a matching it keeps to one of them.
LEMMA MovedMatched ==
    ASSUME NEW kind, NEW s, NEW e, NEW S, NEW T, NEW pi, Symmetry(s, e, S, T, pi),
           s.decompositions = <<>>,
           NEW M \in SUBSET (S \X T), Renamed(PairsOf(pi, S, T), M) = M,
           NEW a \in MatchedAssertions(kind, s, e, S, T, M)
    PROVE  Moved(pi, a) \in MatchedAssertions(kind, s, e, S, T, M)
<1> DEFINE f == PairsOf(pi, S, T)
           all == MatchedAssertions(kind, s, e, S, T, M)
<1>1. Renaming(pi, f, S, T, S, T)
  BY SymmetryRenames
<1>2. Components(M) = {Renamed(pi, C) : C \in Components(M)}
  BY <1>1, RenamedComponents
<1>3. Touched(M) = Renamed(pi, Touched(M)) /\ Touched(M) \subseteq S \cup T
  BY <1>1, RenamedTouched, MatchingWithin
<1>4. \A x, y \in S \cup T : pi[x] = pi[y] => x = y
  BY SymmetryInjective
<1>5. ASSUME NEW x \in S \cup T, x \notin Touched(M) PROVE pi[x] \notin Touched(M)
  BY <1>3, <1>4, <1>5 DEF Renamed
<1>6. \A x \in S \cup T : (pi[x] \in S <=> x \in S) /\ (pi[x] \in T <=> x \in T)
  BY DEF Symmetry
<1>7. CASE \E C \in Components(M) : a = OneAssertion(C, S)
  <2>1. PICK C \in Components(M) : a = OneAssertion(C, S)
    BY <1>7
  <2>2. C \in SUBSET (S \cup T)
    <3>1. PICK u \in Touched(M) : C = ComponentOf(M, u)
      BY DEF Components
    <3> QED BY <1>3, <3>1, ComponentClosed
  <2>3. Moved(pi, a) = OneAssertion(Renamed(pi, C), S)
    BY <2>1, <2>2, MovedComponent
  <2>4. Renamed(pi, C) \in Components(M)
    BY <1>2
  <2> QED BY <2>3, <2>4, MatchedSet
<1>8. CASE \E u \in Unmatched(M, S) : a = SourceLeftOut(kind, s, e, T, u)
  <2>1. PICK u \in Unmatched(M, S) : a = SourceLeftOut(kind, s, e, T, u)
    BY <1>8
  <2>2. u \in S /\ u \notin Touched(M)
    BY DEF Unmatched
  <2>3. pi[u] \in Unmatched(M, S)
    BY <1>5, <1>6, <2>2 DEF Unmatched
  <2>4. Moved(pi, a) = SourceLeftOut(kind, s, e, T, pi[u])
    BY <2>1, <2>2, MovedSource
  <2> QED BY <2>3, <2>4, MatchedSet
<1>9. CASE \E v \in Unmatched(M, T) : a = TargetLeftOut(kind, s, e, S, v)
  <2>1. PICK v \in Unmatched(M, T) : a = TargetLeftOut(kind, s, e, S, v)
    BY <1>9
  <2>2. v \in T /\ v \notin Touched(M)
    BY DEF Unmatched
  <2>3. pi[v] \in Unmatched(M, T)
    BY <1>5, <1>6, <2>2 DEF Unmatched
  <2>4. Moved(pi, a) = TargetLeftOut(kind, s, e, S, pi[v])
    BY <2>1, <2>2, MovedTarget
  <2> QED BY <2>3, <2>4, MatchedSet
<1> QED BY <1>7, <1>8, <1>9, MatchedSet

\* An assertion of a matching names units of the request in its fields.
LEMMA MatchedShape ==
    ASSUME NEW kind, NEW s, NEW e, NEW S, NEW T, s.decompositions = <<>>,
           NEW M \in SUBSET (S \X T), NEW a \in MatchedAssertions(kind, s, e, S, T, M)
    PROVE  \E X, Y, Z \in SUBSET (S \cup T) : \E relation, status, reason :
              a = Assertion(X, Y, Z, relation, status, reason)
<1>1. CASE \E C \in Components(M) : a = OneAssertion(C, S)
  <2>1. PICK C \in Components(M) : a = OneAssertion(C, S)
    BY <1>1
  <2>2. C \in SUBSET (S \cup T)
    <3>1. PICK u \in Touched(M) : C = ComponentOf(M, u)
      BY DEF Components
    <3> QED BY <3>1, ComponentClosed, MatchingWithin
  <2>3. C \cap S \in SUBSET (S \cup T) /\ C \ S \in SUBSET (S \cup T)
        /\ (C \cap S) \cup (C \ S) = C
    BY <2>2
  <2>4. \E relation, status, reason :
           a = Assertion(C \cap S, C \ S, C, relation, status, reason)
    BY <2>1, <2>3 DEF OneAssertion, About
  <2> QED BY <2>2, <2>3, <2>4
<1>2. CASE \E u \in Unmatched(M, S) : a = SourceLeftOut(kind, s, e, T, u)
  <2>1. PICK u \in Unmatched(M, S) : a = SourceLeftOut(kind, s, e, T, u)
    BY <1>2
  <2>2. {u} \in SUBSET (S \cup T) /\ T \in SUBSET (S \cup T)
    BY DEF Unmatched
  <2>3. \E r \in UnmatchedAnswers : a = Assertion({u}, T, {u}, "none", r[1], r[2])
    <3>1. \E r \in UnmatchedAnswers :
             SourceLeftOut(kind, s, e, T, u) = Assertion({u}, T, {u}, "none", r[1], r[2])
      BY SourceLeftOutForm
    <3> QED BY <2>1, <3>1
  <2> QED BY <2>2, <2>3
<1>3. CASE \E v \in Unmatched(M, T) : a = TargetLeftOut(kind, s, e, S, v)
  <2>1. PICK v \in Unmatched(M, T) : a = TargetLeftOut(kind, s, e, S, v)
    BY <1>3
  <2>2. {v} \in SUBSET (S \cup T) /\ S \in SUBSET (S \cup T)
    BY DEF Unmatched
  <2>3. \E r \in UnmatchedAnswers : a = Assertion(S, {v}, {v}, "none", r[1], r[2])
    <3>1. \E r \in UnmatchedAnswers :
             TargetLeftOut(kind, s, e, S, v) = Assertion(S, {v}, {v}, "none", r[1], r[2])
      BY TargetLeftOutForm
    <3> QED BY <2>1, <3>1
  <2> QED BY <2>2, <2>3
<1> QED BY <1>1, <1>2, <1>3, MatchedSet

\* Moving twice moves back.
LEMMA MovedTwice ==
    ASSUME NEW s, NEW e, NEW S, NEW T, NEW pi, Symmetry(s, e, S, T, pi),
           NEW X \in SUBSET (S \cup T), NEW Y \in SUBSET (S \cup T), NEW Z \in SUBSET (S \cup T),
           NEW relation, NEW status, NEW reason, NEW a,
           a = Assertion(X, Y, Z, relation, status, reason)
    PROVE  Moved(pi, Moved(pi, a)) = a
<1>1. \A x \in S \cup T : pi[pi[x]] = x
  BY DEF Symmetry
<1>2. \A W \in SUBSET (S \cup T) : Renamed(pi, Renamed(pi, W)) = W
  BY <1>1 DEF Renamed
<1>3. Moved(pi, a) = Assertion(Renamed(pi, X), Renamed(pi, Y), Renamed(pi, Z),
                               relation, status, reason)
  BY MovedFields
<1>4. Moved(pi, Moved(pi, a)) =
         Assertion(Renamed(pi, Renamed(pi, X)), Renamed(pi, Renamed(pi, Y)),
                   Renamed(pi, Renamed(pi, Z)), relation, status, reason)
  BY <1>3, MovedFields
<1> QED BY <1>2, <1>4

\* The answer to a request is the same under the names a symmetry gives.
LEMMA MovedAnswer ==
    ASSUME NEW kind, NEW s, NEW e, NEW S, NEW T, NEW pi, Symmetry(s, e, S, T, pi),
           Request(kind, s, e, S, T), s.decompositions = <<>>
    PROVE  {Moved(pi, a) : a \in Resolution(kind, s, e, S, T)} = Resolution(kind, s, e, S, T)
<1> DEFINE f == PairsOf(pi, S, T)
           this == Resolution(kind, s, e, S, T)
<1>1. SameRequest(kind, s, e, S, T, s, e, S, T, pi, f)
  BY SymmetricRequest
<1>2. \/ this = {} /\ this = {}
      \/ \E r \in WholeAnswers : /\ this = {About(S, T, r[1], r[2], r[3])}
                                 /\ this = {About(S, T, r[1], r[2], r[3])}
      \/ \E M \in SUBSET (S \X T) :
            /\ Survivors(s, Primary(kind, s, e, S, T)) = {M}
            /\ this = MatchedAssertions(kind, s, e, S, T, M)
            /\ this = MatchedAssertions(kind, s, e, S, T, Renamed(f, M))
  BY <1>1, SameAnswer
<1>3. CASE this = {}
  BY <1>3
<1>4. ASSUME NEW r \in WholeAnswers, this = {About(S, T, r[1], r[2], r[3])}
      PROVE  {Moved(pi, a) : a \in this} = this
  <2>1. About(S, T, r[1], r[2], r[3]) = Assertion(S, T, S \cup T, r[1], r[2], r[3])
    BY DEF About
  <2>2. Renamed(pi, S) = S
    BY SymmetryKeepsSources
  <2>3. Renamed(pi, T) = T
    BY SymmetryKeepsTargets
  <2>4. Renamed(pi, S \cup T) = S \cup T
    BY SymmetryKeepsUnits
  <2>5. Moved(pi, Assertion(S, T, S \cup T, r[1], r[2], r[3]))
           = Assertion(Renamed(pi, S), Renamed(pi, T), Renamed(pi, S \cup T), r[1], r[2], r[3])
    BY MovedFields
  <2>6. Moved(pi, About(S, T, r[1], r[2], r[3])) = About(S, T, r[1], r[2], r[3])
    BY <2>1, <2>2, <2>3, <2>4, <2>5
  <2> QED BY <1>4, <2>6
<1>5. ASSUME NEW M \in SUBSET (S \X T), Survivors(s, Primary(kind, s, e, S, T)) = {M},
             this = MatchedAssertions(kind, s, e, S, T, M)
      PROVE  {Moved(pi, a) : a \in this} = this
  <2>1. Renamed(f, M) = M
    <3>1. PICK F : F = Survivors(s, Primary(kind, s, e, S, T))
      OBVIOUS
    <3>2. F = {Renamed(f, N) : N \in F}
      BY <1>1, <3>1, SameSurvivors
    <3> QED BY <1>5, <3>1, <3>2
  <2>2. \A a \in this : Moved(pi, a) \in this
    BY <1>5, <2>1, MovedMatched
  <2>3. ASSUME NEW a \in this PROVE Moved(pi, Moved(pi, a)) = a
    <3>1. PICK X, Y, Z \in SUBSET (S \cup T) :
             \E relation, status, reason : a = Assertion(X, Y, Z, relation, status, reason)
      BY <1>5, MatchedShape
    <3>2. PICK relation, status, reason : a = Assertion(X, Y, Z, relation, status, reason)
      BY <3>1
    <3> QED BY <3>2, MovedTwice
  <2> HIDE DEF this
  <2> QED BY <2>2, <2>3
<1> QED BY <1>2, <1>3, <1>4, <1>5

\* What is answered names units of the request.
LEMMA AnswerShape ==
    ASSUME NEW kind, NEW s, NEW e, NEW S, NEW T, IsFiniteSet(S), IsFiniteSet(T),
           s.decompositions = <<>>, NEW a \in Resolution(kind, s, e, S, T)
    PROVE  \E X, Y, Z \in SUBSET (S \cup T) : \E relation, status, reason :
              a = Assertion(X, Y, Z, relation, status, reason)
<1> DEFINE answer == Resolution(kind, s, e, S, T)
<1>1. \/ answer = {}
      \/ \E r \in WholeAnswers : answer = {About(S, T, r[1], r[2], r[3])}
      \/ \E M \in SUBSET (S \X T) : answer = MatchedAssertions(kind, s, e, S, T, M)
  BY SurvivorAnswers
<1>2. ASSUME NEW r \in WholeAnswers, answer = {About(S, T, r[1], r[2], r[3])}
      PROVE  \E X, Y, Z \in SUBSET (S \cup T) : \E relation, status, reason :
                a = Assertion(X, Y, Z, relation, status, reason)
  <2>1. a = Assertion(S, T, S \cup T, r[1], r[2], r[3])
    BY <1>2 DEF About
  <2>2. S \in SUBSET (S \cup T) /\ T \in SUBSET (S \cup T) /\ S \cup T \in SUBSET (S \cup T)
    OBVIOUS
  <2> QED BY <2>1, <2>2
<1>3. ASSUME NEW M \in SUBSET (S \X T), answer = MatchedAssertions(kind, s, e, S, T, M)
      PROVE  \E X, Y, Z \in SUBSET (S \cup T) : \E relation, status, reason :
                a = Assertion(X, Y, Z, relation, status, reason)
  BY <1>3, MatchedShape
<1> QED BY <1>1, <1>2, <1>3

\* The permutation that exchanges two units.
Swap(t, u, U) == [x \in U |-> IF x = t THEN u ELSE IF x = u THEN t ELSE x]

\* Exchanging two units is renaming by it.
LEMMA ExchangeIs ==
    ASSUME NEW U, NEW t \in U, NEW u \in U, NEW a,
           NEW X \in SUBSET U, NEW Y \in SUBSET U, NEW Z \in SUBSET U,
           NEW relation, NEW status, NEW reason,
           a = Assertion(X, Y, Z, relation, status, reason)
    PROVE  Exchanged(t, u, a) = Moved(Swap(t, u, U), a)
<1>1. \A W \in SUBSET U : Exchange(t, u, W) = Renamed(Swap(t, u, U), W)
  BY DEF Exchange, Renamed, Swap
<1>2. a.sources \in SUBSET U /\ a.targets \in SUBSET U /\ a.about \in SUBSET U
  BY DEF Assertion
<1> QED BY <1>1, <1>2 DEF Exchanged, Moved

\* Two units of one arm with the same evidence make a symmetry of the request.
LEMMA TwinsSymmetric ==
    ASSUME NEW s, NEW e, NEW S, NEW T, IsFiniteSet(S), IsFiniteSet(T), S \cap T = {},
           NEW t, NEW u, e.units[t] = e.units[u], Capacity(s, S, t) = Capacity(s, S, u),
           \/ /\ {t, u} \subseteq S
              /\ \A x \in T : e.controls[<<t, x>>] = e.controls[<<u, x>>]
           \/ /\ {t, u} \subseteq T
              /\ \A x \in S : e.controls[<<x, t>>] = e.controls[<<x, u>>]
    PROVE  Symmetry(s, e, S, T, Swap(t, u, S \cup T))
<1> DEFINE pi == Swap(t, u, S \cup T)
<1>1. \A x \in S \cup T : pi[x] = IF x = t THEN u ELSE IF x = u THEN t ELSE x
  BY DEF Swap
<1>2. t \in S \cup T /\ u \in S \cup T
  OBVIOUS
<1>3. pi \in [S \cup T -> S \cup T]
  BY <1>2 DEF Swap
<1> HIDE DEF pi
<1>4. \A x \in S \cup T : pi[pi[x]] = x
  BY <1>1, <1>2
<1>5. \A x \in S \cup T : (pi[x] \in S <=> x \in S) /\ (pi[x] \in T <=> x \in T)
  BY <1>1, <1>2
<1>6. \A x \in S \cup T : e.units[pi[x]] = e.units[x]
                          /\ Capacity(s, S, pi[x]) = Capacity(s, S, x)
  BY <1>1
<1>7. ASSUME NEW x \in S, NEW y \in T PROVE e.controls[<<pi[x], pi[y]>>] = e.controls[<<x, y>>]
  <2>1. CASE {t, u} \subseteq S
    <3>1. pi[y] = y
      BY <1>1, <2>1
    <3>2. \A z \in T : e.controls[<<t, z>>] = e.controls[<<u, z>>]
      BY <2>1
    <3> QED BY <1>1, <3>1, <3>2
  <2>2. CASE {t, u} \subseteq T
    <3>1. pi[x] = x
      BY <1>1, <2>2
    <3>2. \A z \in S : e.controls[<<z, t>>] = e.controls[<<z, u>>]
      BY <2>2
    <3> QED BY <1>1, <3>1, <3>2
  <2> QED BY <2>1, <2>2
<1>8. Symmetry(s, e, S, T, pi)
  BY <1>3, <1>4, <1>5, <1>6, <1>7 DEF Symmetry
<1> QED BY <1>8 DEF pi

(* No replay order becomes a resolved relation: two units of one arm that    *)
(* nothing distinguishes are exchangeable in every stored outcome without    *)
(* declared decompositions, however many other units and pairs there are.    *)
THEOREM TwinsAnsweredAlike == Spec => []TwinsAlike
<1>1. RelationsInv => TwinsAlike
  <2> SUFFICES ASSUME RelationsInv, NEW o \in Stored, SpecOf(o).decompositions = <<>>,
                      NEW t \in o.sources \cup o.targets, NEW u \in o.sources \cup o.targets,
                      o.evidence.units[t] = o.evidence.units[u],
                      Capacity(SpecOf(o), o.sources, t) = Capacity(SpecOf(o), o.sources, u),
                      \/ /\ {t, u} \subseteq o.sources
                         /\ \A x \in o.targets :
                               o.evidence.controls[<<t, x>>] = o.evidence.controls[<<u, x>>]
                      \/ /\ {t, u} \subseteq o.targets
                         /\ \A x \in o.sources :
                               o.evidence.controls[<<x, t>>] = o.evidence.controls[<<x, u>>]
               PROVE  {Exchanged(t, u, a) : a \in o.assertions} = o.assertions
    BY DEF TwinsAlike
  <2> DEFINE s == SpecOf(o)
             e == o.evidence
             S == o.sources
             T == o.targets
             pi == Swap(t, u, S \cup T)
  <2>1. Request(OutcomeKind(o), s, e, S, T)
    BY StoredRequest
  <2>2. IsFiniteSet(S) /\ IsFiniteSet(T) /\ S \cap T = {}
    BY <2>1 DEF Request
  <2>3. o.assertions = Resolution(OutcomeKind(o), s, e, S, T)
    BY StoredOutcome DEF Justified, SpecOf, OutcomeKind
  <2>4. Symmetry(s, e, S, T, pi)
    BY <2>2, TwinsSymmetric
  <2>5. {Moved(pi, a) : a \in o.assertions} = o.assertions
    BY <2>1, <2>3, <2>4, MovedAnswer
  <2>6. ASSUME NEW a \in o.assertions PROVE Exchanged(t, u, a) = Moved(pi, a)
    <3>1. PICK X, Y, Z \in SUBSET (S \cup T) :
             \E relation, status, reason : a = Assertion(X, Y, Z, relation, status, reason)
      BY <2>2, <2>3, AnswerShape
    <3>2. PICK relation, status, reason : a = Assertion(X, Y, Z, relation, status, reason)
      BY <3>1
    <3>3. PICK U : U = S \cup T
      OBVIOUS
    <3>4. /\ t \in U /\ u \in U
          /\ X \in SUBSET U /\ Y \in SUBSET U /\ Z \in SUBSET U
      BY <3>3
    <3>5. Exchanged(t, u, a) = Moved(Swap(t, u, U), a)
      BY <3>2, <3>4, ExchangeIs
    <3> QED BY <3>3, <3>5
  <2> QED BY <2>5, <2>6
<1> QED BY <1>1, Inductive, PTL

(***************************************************************************)
(* The arms exchanged                                                      *)
(***************************************************************************)

\* The state of a pair, test by test.
LEMMA PairStateIs ==
    ASSUME NEW kind, NEW s, NEW e, NEW a, NEW b
    PROVE  LET x == e.units[a]
               y == e.units[b]
               control == ControlState(e.controls[<<a, b>>])
               covered == CoverageState(kind, s, x, y)
           IN  PairState(kind, s, e, a, b) =
                 IF "invalid" \in {x.status, y.status} THEN "projection_invalid"
                 ELSE IF "capability_unavailable" \in {x.status, y.status}
                 THEN "capability_unavailable"
                 ELSE IF {x.status, y.status} # {"valid"} THEN "incomplete"
                 ELSE IF control # "pending" THEN control
                 ELSE IF Mass(x.footprint) = 0 \/ Mass(y.footprint) = 0 THEN "zero_footprint"
                 ELSE IF covered # "passed" THEN covered
                 ELSE EffectState(s, x, y)
<1> DEFINE x == e.units[a]
           y == e.units[b]
           control == ControlState(e.controls[<<a, b>>])
           covered == CoverageState(kind, s, x, y)
           effect == EffectState(s, x, y)
           tests == <<
            <<"invalid" \in {x.status, y.status}, "projection_invalid">>,
            <<"capability_unavailable" \in {x.status, y.status}, "capability_unavailable">>,
            <<{x.status, y.status} # {"valid"}, "incomplete">>,
            <<control # "pending", control>>,
            <<Mass(x.footprint) = 0 \/ Mass(y.footprint) = 0, "zero_footprint">>,
            <<covered # "passed", covered>>,
            <<TRUE, effect>> >>
<1>1. PairState(kind, s, e, a, b) = FirstOf(tests)
  BY DEF PairState
<1> HIDE DEF control, covered, effect, x, y
<1>2. DOMAIN tests = 1 .. 7 /\ tests[7][1] /\ tests[7][2] = effect
  OBVIOUS
<1>3. (tests[1][1] <=> "invalid" \in {x.status, y.status}) /\ tests[1][2] = "projection_invalid"
  OBVIOUS
<1>4. (tests[2][1] <=> "capability_unavailable" \in {x.status, y.status})
      /\ tests[2][2] = "capability_unavailable"
  OBVIOUS
<1>5. (tests[3][1] <=> {x.status, y.status} # {"valid"}) /\ tests[3][2] = "incomplete"
  OBVIOUS
<1>6. (tests[4][1] <=> control # "pending") /\ tests[4][2] = control
  OBVIOUS
<1>7. (tests[5][1] <=> Mass(x.footprint) = 0 \/ Mass(y.footprint) = 0)
      /\ tests[5][2] = "zero_footprint"
  OBVIOUS
<1>8. (tests[6][1] <=> covered # "passed") /\ tests[6][2] = covered
  OBVIOUS
<1> HIDE DEF tests
<1>9. FirstOf(tests) = IF tests[1][1] THEN tests[1][2]
                       ELSE IF tests[2][1] THEN tests[2][2]
                       ELSE IF tests[3][1] THEN tests[3][2]
                       ELSE IF tests[4][1] THEN tests[4][2]
                       ELSE IF tests[5][1] THEN tests[5][2]
                       ELSE IF tests[6][1] THEN tests[6][2] ELSE tests[7][2]
  BY <1>2, SevenTests
<1>10. PairState(kind, s, e, a, b) =
         IF "invalid" \in {x.status, y.status} THEN "projection_invalid"
         ELSE IF "capability_unavailable" \in {x.status, y.status} THEN "capability_unavailable"
         ELSE IF {x.status, y.status} # {"valid"} THEN "incomplete"
         ELSE IF control # "pending" THEN control
         ELSE IF Mass(x.footprint) = 0 \/ Mass(y.footprint) = 0 THEN "zero_footprint"
         ELSE IF covered # "passed" THEN covered ELSE effect
  BY <1>1, <1>2, <1>3, <1>4, <1>5, <1>6, <1>7, <1>8, <1>9
<1> QED BY <1>10 DEF x, y, control, covered, effect

\* Both directions of a pair count the same.
LEMMA CoverageMirrored ==
    ASSUME NEW kind, NEW s, NEW z, z.threshold = s.threshold, z.halfWidth = s.halfWidth,
           NEW x, NEW y
    PROVE  CoverageState(kind, z, y, x) = CoverageState(kind, s, x, y)
<1> DEFINE there == Coverage(kind, x.footprint, y.footprint)
           back == Coverage(kind, y.footprint, x.footprint)
           lower(c) == Larger(0, c - s.halfWidth)
           upper(c) == Smaller(Scale, c + s.halfWidth)
           this == << <<lower(there) >= s.threshold /\ lower(back) >= s.threshold, "passed">>,
                      <<upper(there) < s.threshold \/ upper(back) < s.threshold, "coverage_failed">>,
                      <<TRUE, "coverage_boundary">> >>
           that == << <<lower(back) >= s.threshold /\ lower(there) >= s.threshold, "passed">>,
                      <<upper(back) < s.threshold \/ upper(there) < s.threshold, "coverage_failed">>,
                      <<TRUE, "coverage_boundary">> >>
<1>1. CoverageState(kind, s, x, y) = FirstOf(this)
  BY DEF CoverageState
<1>2. CoverageState(kind, z, y, x) = FirstOf(that)
  BY DEF CoverageState
<1> HIDE DEF there, back, lower, upper
<1>3. /\ DOMAIN this = 1 .. 3 /\ this[3][1] /\ this[3][2] = "coverage_boundary"
      /\ DOMAIN that = 1 .. 3 /\ that[3][1] /\ that[3][2] = "coverage_boundary"
  OBVIOUS
<1>4. (this[1][1] <=> that[1][1]) /\ this[1][2] = "passed" /\ that[1][2] = "passed"
  OBVIOUS
<1>5. (this[2][1] <=> that[2][1])
      /\ this[2][2] = "coverage_failed" /\ that[2][2] = "coverage_failed"
  OBVIOUS
<1> HIDE DEF this, that
<1>6. FirstOf(this) = IF this[1][1] THEN this[1][2]
                      ELSE IF this[2][1] THEN this[2][2] ELSE this[3][2]
  BY <1>3, ThreeTests
<1>7. FirstOf(that) = IF that[1][1] THEN that[1][2]
                      ELSE IF that[2][1] THEN that[2][2] ELSE that[3][2]
  BY <1>3, ThreeTests
<1> QED BY <1>1, <1>2, <1>3, <1>4, <1>5, <1>6, <1>7

\* The tolerance region is symmetric.
LEMMA EffectMirrored ==
    ASSUME NEW s, NEW z, z.effectTolerance = s.effectTolerance, s.effectTolerance \in Nat,
           NEW x, NEW y, {x.lower, x.upper, y.lower, y.upper} \subseteq Int
    PROVE  EffectState(z, y, x) = EffectState(s, x, y)
<1> DEFINE n == s.effectTolerance
           lower == x.lower - y.upper
           upper == x.upper - y.lower
           down == y.lower - x.upper
           up == y.upper - x.lower
           this == << <<lower >= -n /\ upper <= n, "eligible">>,
                      <<upper < -n \/ lower > n, "effect_failed">>,
                      <<TRUE, "effect_boundary">> >>
           that == << <<down >= -n /\ up <= n, "eligible">>,
                      <<up < -n \/ down > n, "effect_failed">>,
                      <<TRUE, "effect_boundary">> >>
<1>1. EffectState(s, x, y) = FirstOf(this)
  BY DEF EffectState
<1>2. EffectState(z, y, x) = FirstOf(that)
  BY DEF EffectState
<1>3. /\ lower >= -n /\ upper <= n <=> down >= -n /\ up <= n
      /\ upper < -n \/ lower > n <=> up < -n \/ down > n
  OBVIOUS
<1> HIDE DEF lower, upper, down, up, n
<1>4. /\ DOMAIN this = 1 .. 3 /\ this[3][1] /\ this[3][2] = "effect_boundary"
      /\ DOMAIN that = 1 .. 3 /\ that[3][1] /\ that[3][2] = "effect_boundary"
  OBVIOUS
<1>5. (this[1][1] <=> that[1][1]) /\ this[1][2] = "eligible" /\ that[1][2] = "eligible"
  BY <1>3
<1>6. (this[2][1] <=> that[2][1]) /\ this[2][2] = "effect_failed" /\ that[2][2] = "effect_failed"
  BY <1>3
<1> HIDE DEF this, that
<1>7. FirstOf(this) = IF this[1][1] THEN this[1][2]
                      ELSE IF this[2][1] THEN this[2][2] ELSE this[3][2]
  BY <1>4, ThreeTests
<1>8. FirstOf(that) = IF that[1][1] THEN that[1][2]
                      ELSE IF that[2][1] THEN that[2][2] ELSE that[3][2]
  BY <1>4, ThreeTests
<1> QED BY <1>1, <1>2, <1>4, <1>5, <1>6, <1>7, <1>8

\* What the mirrored specification keeps, and what it exchanges.
LEMMA MirrorFields ==
    ASSUME NEW s \in Specs
    PROVE  LET z == MirrorSpec(s)
           IN  /\ z.sourceDefault = s.targetDefault /\ z.targetDefault = s.sourceDefault
               /\ z.cardinalities = {MirrorCardinality(n) : n \in s.cardinalities}
               /\ z.threshold = s.threshold /\ z.halfWidth = s.halfWidth
               /\ z.effectTolerance = s.effectTolerance /\ z.maximumN = s.maximumN
               /\ z.overrides = s.overrides /\ z.decompositions = s.decompositions
               /\ z.penalty = s.penalty /\ z.tolerance = s.tolerance
               /\ z.preference = s.preference
               /\ z.maximumEdges = s.maximumEdges /\ z.maximumSubsets = s.maximumSubsets
<1> DEFINE z == MirrorSpec(s)
<1>1. {"threshold", "halfWidth", "effectTolerance", "sourceDefault", "targetDefault", "maximumN",
       "overrides", "cardinalities", "decompositions", "penalty", "tolerance", "preference",
       "maximumEdges", "maximumSubsets"} \subseteq DOMAIN s
  BY SpecAssumption
<1>2. z = [k \in DOMAIN s |-> IF k = "sourceDefault" THEN s.targetDefault
                              ELSE IF k = "targetDefault" THEN s.sourceDefault
                              ELSE IF k = "cardinalities"
                              THEN {MirrorCardinality(n) : n \in s.cardinalities} ELSE s[k]]
  BY <1>1 DEF MirrorSpec
<1> HIDE DEF z
<1>3. /\ z.sourceDefault = s.targetDefault /\ z.targetDefault = s.sourceDefault
      /\ z.cardinalities = {MirrorCardinality(n) : n \in s.cardinalities}
  BY <1>1, <1>2
<1>4. /\ z.threshold = s.threshold /\ z.halfWidth = s.halfWidth
      /\ z.effectTolerance = s.effectTolerance /\ z.maximumN = s.maximumN
      /\ z.overrides = s.overrides /\ z.decompositions = s.decompositions
  BY <1>1, <1>2
<1>5. /\ z.penalty = s.penalty /\ z.tolerance = s.tolerance /\ z.preference = s.preference
      /\ z.maximumEdges = s.maximumEdges /\ z.maximumSubsets = s.maximumSubsets
  BY <1>1, <1>2
<1> QED BY <1>3, <1>4, <1>5 DEF z

\* A request whose projected units have their effects as numbers.
Effects(e, U) ==
    \A u \in U : e.units[u].status = "valid" =>
                    {e.units[u].lower, e.units[u].upper} \subseteq Int

\* A pair is in the same state from either side.
LEMMA StateMirrored ==
    ASSUME NEW kind, NEW s \in Specs, s.effectTolerance \in Nat, NEW e, NEW S, NEW T,
           Effects(e, S \cup T), NEW u \in S, NEW v \in T
    PROVE  PairState(kind, MirrorSpec(s), MirrorEvidence(e, S, T), v, u)
              = PairState(kind, s, e, u, v)
<1> DEFINE z == MirrorSpec(s)
           d == MirrorEvidence(e, S, T)
           x == e.units[u]
           y == e.units[v]
           control == ControlState(e.controls[<<u, v>>])
<1>1. d.units = e.units
  BY DEF MirrorEvidence
<1>2. d.controls[<<v, u>>] = e.controls[<<u, v>>]
  <2>1. PICK p : p = <<v, u>>
    OBVIOUS
  <2>2. p \in T \X S /\ p[1] = v /\ p[2] = u
    BY <2>1
  <2>3. d.controls = [q \in T \X S |-> e.controls[<<q[2], q[1]>>]]
    BY DEF MirrorEvidence
  <2>4. d.controls[p] = e.controls[<<p[2], p[1]>>]
    BY <2>2, <2>3
  <2> QED BY <2>1, <2>2, <2>4
<1>3. z.threshold = s.threshold /\ z.halfWidth = s.halfWidth
      /\ z.effectTolerance = s.effectTolerance
  BY MirrorFields
<1>4. CoverageState(kind, z, y, x) = CoverageState(kind, s, x, y)
  BY <1>3, CoverageMirrored
<1>5. x.status = "valid" /\ y.status = "valid" => EffectState(z, y, x) = EffectState(s, x, y)
  <2>1. ASSUME x.status = "valid", y.status = "valid"
        PROVE  {x.lower, x.upper, y.lower, y.upper} \subseteq Int
    BY <2>1 DEF Effects
  <2> QED BY <1>3, <2>1, EffectMirrored
<1>6. PairState(kind, s, e, u, v) =
        IF "invalid" \in {x.status, y.status} THEN "projection_invalid"
        ELSE IF "capability_unavailable" \in {x.status, y.status} THEN "capability_unavailable"
        ELSE IF {x.status, y.status} # {"valid"} THEN "incomplete"
        ELSE IF control # "pending" THEN control
        ELSE IF Mass(x.footprint) = 0 \/ Mass(y.footprint) = 0 THEN "zero_footprint"
        ELSE IF CoverageState(kind, s, x, y) # "passed" THEN CoverageState(kind, s, x, y)
        ELSE EffectState(s, x, y)
  BY PairStateIs
<1>7. PairState(kind, z, d, v, u) =
        IF "invalid" \in {y.status, x.status} THEN "projection_invalid"
        ELSE IF "capability_unavailable" \in {y.status, x.status} THEN "capability_unavailable"
        ELSE IF {y.status, x.status} # {"valid"} THEN "incomplete"
        ELSE IF control # "pending" THEN control
        ELSE IF Mass(y.footprint) = 0 \/ Mass(x.footprint) = 0 THEN "zero_footprint"
        ELSE IF CoverageState(kind, z, y, x) # "passed" THEN CoverageState(kind, z, y, x)
        ELSE EffectState(z, y, x)
  <2> HIDE DEF z, d
  <2> QED BY <1>1, <1>2, PairStateIs
<1>8. {x.status, y.status} = {y.status, x.status}
      /\ ({x.status, y.status} = {"valid"} <=> x.status = "valid" /\ y.status = "valid")
  OBVIOUS
<1> HIDE DEF z, d, x, y, control
<1>9. PairState(kind, z, d, v, u) = PairState(kind, s, e, u, v)
  BY <1>4, <1>5, <1>6, <1>7, <1>8
<1> QED BY <1>9 DEF z, d

\* So is its cost.
LEMMA CostMirrored ==
    ASSUME NEW kind, NEW f \in Nat \X Nat, NEW g \in Nat \X Nat
    PROVE  Cost(kind, g, f) = Cost(kind, f, g)
<1>1. /\ Coverage(kind, f, g) \in Int /\ Coverage(kind, g, f) \in Int
  BY CostIsInt
<1>2. Scale \in Nat
  BY RelationsAssumption
<1> QED BY <1>1, <1>2 DEF Cost

\* What a specification permits, the mirrored one permits with sources and targets exchanged.
LEMMA PermitsMirrored ==
    ASSUME NEW s \in Specs, s.cardinalities \subseteq {"1:1", "1:n", "n:1"},
           NEW m, NEW n
    PROVE  Permits(MirrorSpec(s), n, m) <=> Permits(s, m, n)
<1>1. PICK z : z = MirrorSpec(s)
  OBVIOUS
<1>2. /\ z.cardinalities = {MirrorCardinality(k) : k \in s.cardinalities}
      /\ z.maximumN = s.maximumN /\ z.decompositions = s.decompositions
  BY <1>1, MirrorFields
<1>3. MirrorCardinality("1:1") = "1:1" /\ MirrorCardinality("1:n") = "n:1"
      /\ MirrorCardinality("n:1") = "1:n"
  BY DEF MirrorCardinality
<1>4. /\ "1:1" \in z.cardinalities <=> "1:1" \in s.cardinalities
      /\ "1:n" \in z.cardinalities <=> "n:1" \in s.cardinalities
      /\ "n:1" \in z.cardinalities <=> "1:n" \in s.cardinalities
  BY <1>2, <1>3
<1>5. Permits(z, n, m) <=> Permits(s, m, n)
  BY <1>2, <1>4 DEF Permits
<1> QED BY <1>1, <1>5

\* The units keep their names, and a pair is read from the other end.
Same(S, T) == [x \in S \cup T |-> x]
Turned(S, T) == [p \in S \X T |-> <<p[2], p[1]>>]

\* Nothing but the order of the arms changes.
LEMMA TurnedRenames ==
    ASSUME NEW S, NEW T, IsFiniteSet(S), IsFiniteSet(T)
    PROVE  Renaming(Same(S, T), Turned(S, T), S, T, T, S)
<1> DEFINE pi == Same(S, T)
           f == Turned(S, T)
<1>1. \A x \in S \cup T : pi[x] = x
  BY DEF Same
<1>2. \A p \in S \X T : f[p] = <<p[2], p[1]>>
  BY DEF Turned
<1>3. f \in [S \X T -> T \X S]
  BY DEF Turned
<1>4. ASSUME NEW q \in T \X S PROVE \E p \in S \X T : f[p] = q
  <2>1. PICK p : p = <<q[2], q[1]>>
    OBVIOUS
  <2>2. p \in S \X T /\ p[1] = q[2] /\ p[2] = q[1]
    BY <2>1
  <2>3. f[p] = <<q[1], q[2]>>
    BY <1>2, <2>2
  <2> QED BY <2>2, <2>3
<1>5. ASSUME NEW p \in S \X T, NEW q \in S \X T, f[p] = f[q] PROVE p = q
  <2>1. p[1] = q[1] /\ p[2] = q[2]
    BY <1>2, <1>5
  <2> QED BY <2>1
<1>6. ASSUME NEW p \in S \X T PROVE {f[p][1], f[p][2]} = {pi[p[1]], pi[p[2]]}
  <2>1. f[p][1] = p[2] /\ f[p][2] = p[1]
    BY <1>2
  <2>2. pi[p[1]] = p[1] /\ pi[p[2]] = p[2]
    BY <1>1
  <2> QED BY <2>1, <2>2
<1>7. pi \in [S \cup T -> T \cup S]
  BY DEF Same
<1> HIDE DEF pi, f
<1>8. Renaming(pi, f, S, T, T, S)
  BY <1>1, <1>3, <1>4, <1>5, <1>6, <1>7 DEF Renaming
<1> QED BY <1>8 DEF pi, f

\* Sets of units stay what they are.
LEMMA SameKeeps ==
    ASSUME NEW S, NEW T, NEW C \in SUBSET (S \cup T)
    PROVE  Renamed(Same(S, T), C) = C
BY DEF Renamed, Same

\* The request with its arms exchanged is the same request.
LEMMA MirroredRequest ==
    ASSUME NEW kind, NEW s \in Specs, ValidSpec(s), s.decompositions = <<>>, NEW e, NEW S, NEW T,
           Request(kind, s, e, S, T), Effects(e, S \cup T),
           \A u \in S \cup T : e.units[u].footprint \in Nat \X Nat
    PROVE  SameRequest(kind, s, e, S, T, MirrorSpec(s), MirrorEvidence(e, S, T), T, S,
                       Same(S, T), Turned(S, T))
<1> DEFINE z == MirrorSpec(s)
           d == MirrorEvidence(e, S, T)
           pi == Same(S, T)
           f == Turned(S, T)
<1>1. IsFiniteSet(S) /\ IsFiniteSet(T) /\ S \cap T = {}
  BY DEF Request
<1>2. Renaming(pi, f, S, T, T, S)
  BY <1>1, TurnedRenames
<1>3. d.units = e.units
  BY DEF MirrorEvidence
<1>4. ASSUME NEW p \in S \X T
      PROVE  /\ PairState(kind, z, d, f[p][1], f[p][2]) = PairState(kind, s, e, p[1], p[2])
             /\ Costs(kind, d, T, S)[f[p]] = Costs(kind, e, S, T)[p]
  <2>1. p[1] \in S /\ p[2] \in T /\ f[p] = <<p[2], p[1]>>
    BY DEF Turned
  <2>2. f[p] \in T \X S /\ f[p][1] = p[2] /\ f[p][2] = p[1]
    BY <2>1
  <2>3. s.effectTolerance \in Nat
    BY DEF ValidSpec
  <2>4. PairState(kind, z, d, p[2], p[1]) = PairState(kind, s, e, p[1], p[2])
    BY <2>1, <2>3, StateMirrored
  <2>5. e.units[p[1]].footprint \in Nat \X Nat /\ e.units[p[2]].footprint \in Nat \X Nat
    BY <2>1
  <2>6. Cost(kind, e.units[p[2]].footprint, e.units[p[1]].footprint)
           = Cost(kind, e.units[p[1]].footprint, e.units[p[2]].footprint)
    BY <2>5, CostMirrored
  <2>7. Costs(kind, d, T, S)[f[p]] = Costs(kind, e, S, T)[p]
    <3> HIDE DEF d, f
    <3> QED BY <1>3, <2>2, <2>6 DEF Costs
  <2> HIDE DEF d, f, z
  <2> QED BY <2>2, <2>4, <2>7
<1>5. /\ z.sourceDefault = s.targetDefault /\ z.targetDefault = s.sourceDefault
      /\ z.overrides = s.overrides /\ z.decompositions = s.decompositions
      /\ z.penalty = s.penalty /\ z.tolerance = s.tolerance /\ z.preference = s.preference
      /\ z.maximumEdges = s.maximumEdges /\ z.maximumSubsets = s.maximumSubsets
  BY MirrorFields
<1>6. ASSUME NEW u \in S \cup T
      PROVE  /\ Capacity(z, T, pi[u]) = Capacity(s, S, u)
             /\ d.units[pi[u]].status = e.units[u].status
  <2>1. pi[u] = u
    BY DEF Same
  <2>2. u \in S <=> u \notin T
    BY <1>1
  <2> HIDE DEF z, d, pi
  <2> QED BY <1>3, <1>5, <2>1, <2>2 DEF Capacity
<1>7. ASSUME NEW C \in SUBSET (S \cup T)
      PROVE  Permits(z, Cardinality(Renamed(pi, C) \cap T), Cardinality(Renamed(pi, C) \ T))
                <=> Permits(s, Cardinality(C \cap S), Cardinality(C \ S))
  <2>1. Renamed(pi, C) = C
    BY SameKeeps
  <2>2. C \cap T = C \ S /\ C \ T = C \cap S
    BY <1>1
  <2>3. s.cardinalities \subseteq {"1:1", "1:n", "n:1"}
    BY DEF ValidSpec
  <2>4. Permits(z, Cardinality(C \ S), Cardinality(C \cap S))
           <=> Permits(s, Cardinality(C \cap S), Cardinality(C \ S))
    BY <2>3, PermitsMirrored
  <2> QED BY <2>1, <2>2, <2>4
<1> HIDE DEF z, d, pi, f
<1>8. SameRequest(kind, s, e, S, T, z, d, T, S, pi, f)
  BY <1>2, <1>4, <1>5, <1>6, <1>7 DEF SameRequest
<1> QED BY <1>8 DEF z, d, pi, f

\* A component of pairs has a unit on each side.
LEMMA ComponentSides ==
    ASSUME NEW S, NEW T, IsFiniteSet(S), IsFiniteSet(T), S \cap T = {},
           NEW M \in SUBSET (S \X T), NEW C \in Components(M)
    PROVE  /\ C \in SUBSET (S \cup T) /\ C \cap T = C \ S /\ C \ T = C \cap S
           /\ Cardinality(C \cap S) \in Nat \ {0} /\ Cardinality(C \ S) \in Nat \ {0}
           /\ Cardinality(C) = Cardinality(C \cap S) + Cardinality(C \ S)
<1>1. PICK w \in Touched(M) : C = ComponentOf(M, w)
  BY DEF Components
<1>2. /\ w \in C /\ C \subseteq Touched(M)
      /\ \A p \in M : p[1] \in C <=> p[2] \in C
  BY <1>1, ComponentClosed
<1>3. Touched(M) \subseteq S \cup T
  BY MatchingWithin
<1>4. PICK p \in M : w = p[1] \/ w = p[2]
  BY DEF Touched
<1>5. p[1] \in C \cap S /\ p[2] \in C \ S
  BY <1>2, <1>4
<1>6. C \in SUBSET (S \cup T) /\ C \cap T = C \ S /\ C \ T = C \cap S
  BY <1>2, <1>3
<1>7. IsFiniteSet(C) /\ IsFiniteSet(C \cap S) /\ IsFiniteSet(C \ S)
  <2>1. IsFiniteSet(S \cup T)
    BY FS_Union
  <2>2. C \cap S \in SUBSET (S \cup T) /\ C \ S \in SUBSET (S \cup T)
    BY <1>6
  <2> QED BY <1>6, <2>1, <2>2, FS_Subset
<1>8. Cardinality(C \cap S) \in Nat /\ Cardinality(C \cap S) # 0
  BY <1>5, <1>7, FS_CardinalityType, FS_EmptySet
<1>9. Cardinality(C \ S) \in Nat /\ Cardinality(C \ S) # 0
  BY <1>5, <1>7, FS_CardinalityType, FS_EmptySet
<1>10. Cardinality(C) = Cardinality(C \cap S) + Cardinality(C \ S)
  <2>1. PICK A, B : A = C \cap S /\ B = C \ S
    OBVIOUS
  <2>2. A \cup B = C /\ A \cap B = {}
    BY <2>1
  <2>3. Cardinality(A \cup B) = Cardinality(A) + Cardinality(B) - Cardinality(A \cap B)
    BY <1>7, <2>1, FS_Union
  <2>4. Cardinality(C) = Cardinality(A) + Cardinality(B) - Cardinality({})
    BY <2>2, <2>3
  <2>5. PICK m, n : m = Cardinality(A) /\ n = Cardinality(B)
    OBVIOUS
  <2>6. m \in Nat /\ n \in Nat
    BY <1>8, <1>9, <2>1, <2>5
  <2>7. Cardinality(C) = m + n - 0
    BY <2>4, <2>5, FS_EmptySet
  <2>8. Cardinality(C) = m + n
    BY <2>6, <2>7
  <2> QED BY <2>1, <2>5, <2>8
<1> QED BY <1>6, <1>8, <1>9, <1>10

\* The mirror of an assertion, field by field.
LEMMA MirrorOf ==
    ASSUME NEW X, NEW Y, NEW Z, NEW relation, NEW status, NEW reason,
           relation # "split", relation # "merge"
    PROVE  MirrorAssertion(Assertion(X, Y, Z, relation, status, reason))
              = Assertion(Y, X, Z, relation, status, reason)
<1> DEFINE a == Assertion(X, Y, Z, relation, status, reason)
<1>1. /\ a.sources = X /\ a.targets = Y /\ a.about = Z /\ a.relation = relation
      /\ a.status = status /\ a.reason = reason
  BY DEF Assertion
<1> HIDE DEF a
<1>2. MirrorRelation(a.relation) = relation
  BY <1>1 DEF MirrorRelation
<1>3. MirrorReason(a) = reason
  BY <1>1 DEF MirrorReason
<1>4. MirrorAssertion(a) = Assertion(Y, X, Z, relation, status, reason)
  BY <1>1, <1>2, <1>3 DEF MirrorAssertion
<1> QED BY <1>4 DEF a

\* A split seen from the other side is a merge.
LEMMA MirrorOfSplit ==
    ASSUME NEW X, NEW Y, NEW Z, NEW status, NEW reason
    PROVE  MirrorAssertion(Assertion(X, Y, Z, "split", status, reason))
              = Assertion(Y, X, Z, "merge", status, "matched_merge")
<1> DEFINE a == Assertion(X, Y, Z, "split", status, reason)
<1>1. /\ a.sources = X /\ a.targets = Y /\ a.about = Z /\ a.relation = "split"
      /\ a.status = status
  BY DEF Assertion
<1> HIDE DEF a
<1>2. MirrorRelation(a.relation) = "merge"
  BY <1>1 DEF MirrorRelation
<1>3. MirrorReason(a) = "matched_merge"
  BY <1>1 DEF MirrorReason
<1>4. MirrorAssertion(a) = Assertion(Y, X, Z, "merge", status, "matched_merge")
  BY <1>1, <1>2, <1>3 DEF MirrorAssertion
<1> QED BY <1>4 DEF a

\* A merge seen from the other side is a split.
LEMMA MirrorOfMerge ==
    ASSUME NEW X, NEW Y, NEW Z, NEW status, NEW reason
    PROVE  MirrorAssertion(Assertion(X, Y, Z, "merge", status, reason))
              = Assertion(Y, X, Z, "split", status, "matched_split")
<1> DEFINE a == Assertion(X, Y, Z, "merge", status, reason)
<1>1. /\ a.sources = X /\ a.targets = Y /\ a.about = Z /\ a.relation = "merge"
      /\ a.status = status
  BY DEF Assertion
<1> HIDE DEF a
<1>2. MirrorRelation(a.relation) = "split"
  BY <1>1 DEF MirrorRelation
<1>3. MirrorReason(a) = "matched_split"
  BY <1>1 DEF MirrorReason
<1>4. MirrorAssertion(a) = Assertion(Y, X, Z, "split", status, "matched_split")
  BY <1>1, <1>2, <1>3 DEF MirrorAssertion
<1> QED BY <1>4 DEF a

\* The shape of a component that is not many-to-many, seen from either side.
LEMMA ShapeMirrored ==
    ASSUME NEW S, NEW T, IsFiniteSet(S), IsFiniteSet(T), S \cap T = {},
           NEW M \in SUBSET (S \X T), NEW C \in Components(M), ~ManyToMany(C, S)
    PROVE  \/ Shape(C, S) = "overlap" /\ Shape(C, T) = "overlap"
           \/ Shape(C, S) = "split" /\ Shape(C, T) = "merge"
           \/ Shape(C, S) = "merge" /\ Shape(C, T) = "split"
<1>1. C \cap T = C \ S
  BY ComponentSides
<1>2. PICK m, n : m = Cardinality(C \cap S) /\ n = Cardinality(C \ S)
  OBVIOUS
<1>3. m \in Nat \ {0} /\ n \in Nat \ {0} /\ Cardinality(C) = m + n
  <2>1. /\ Cardinality(C \cap S) \in Nat \ {0} /\ Cardinality(C \ S) \in Nat \ {0}
        /\ Cardinality(C) = Cardinality(C \cap S) + Cardinality(C \ S)
    BY ComponentSides
  <2> QED BY <1>2, <2>1
<1>4. ~(m > 1 /\ n > 1)
  BY <1>2 DEF ManyToMany
<1>5. Shape(C, S) = IF m + n = 2 THEN "overlap" ELSE IF m = 1 THEN "split" ELSE "merge"
  BY <1>2, <1>3, ShapeIs
<1>6. Shape(C, T) = IF m + n = 2 THEN "overlap" ELSE IF n = 1 THEN "split" ELSE "merge"
  BY <1>1, <1>2, <1>3, ShapeIs
<1>7. \/ m + n = 2
      \/ m + n # 2 /\ m = 1 /\ n # 1
      \/ m + n # 2 /\ m # 1 /\ n = 1
  BY <1>3, <1>4
<1> QED BY <1>5, <1>6, <1>7

\* What is asserted of a component, from either side.
LEMMA ComponentMirrored ==
    ASSUME NEW S, NEW T, IsFiniteSet(S), IsFiniteSet(T), S \cap T = {},
           NEW M \in SUBSET (S \X T), NEW C \in Components(M)
    PROVE  OneAssertion(C, T) = MirrorAssertion(OneAssertion(C, S))
<1>1. C \cap T = C \ S /\ C \ T = C \cap S
  BY ComponentSides
<1>2. PICK X, Y : X = C \cap S /\ Y = C \ S
  OBVIOUS
<1>3. X \cup Y = C /\ Y \cup X = C /\ C \cap T = Y /\ C \ T = X
  BY <1>1, <1>2
<1>4. ManyToMany(C, T) <=> ManyToMany(C, S)
  BY <1>2, <1>3 DEF ManyToMany
<1>5. \A relation, status, reason :
         About(X, Y, relation, status, reason) = Assertion(X, Y, C, relation, status, reason)
  BY <1>3 DEF About
<1>6. \A relation, status, reason :
         About(Y, X, relation, status, reason) = Assertion(Y, X, C, relation, status, reason)
  BY <1>3 DEF About
<1>7. CASE ManyToMany(C, S)
  <2>1. OneAssertion(C, S) = Assertion(X, Y, C, "none", "indeterminate", "decomposition_ambiguity")
    BY <1>2, <1>5, <1>7 DEF OneAssertion
  <2>2. OneAssertion(C, T) = Assertion(Y, X, C, "none", "indeterminate", "decomposition_ambiguity")
    BY <1>3, <1>4, <1>6, <1>7 DEF OneAssertion
  <2> QED BY <2>1, <2>2, MirrorOf
<1>8. CASE ~ManyToMany(C, S)
  <2>1. OneAssertion(C, S) =
           Assertion(X, Y, C, Shape(C, S), "resolved", RelationReason[Shape(C, S)])
    BY <1>2, <1>5, <1>8 DEF OneAssertion
  <2>2. OneAssertion(C, T) =
           Assertion(Y, X, C, Shape(C, T), "resolved", RelationReason[Shape(C, T)])
    BY <1>3, <1>4, <1>6, <1>8 DEF OneAssertion
  <2>3. /\ RelationReason["overlap"] = "matched_overlap"
        /\ RelationReason["split"] = "matched_split"
        /\ RelationReason["merge"] = "matched_merge"
    BY DEF RelationReason
  <2>4. CASE Shape(C, S) = "overlap" /\ Shape(C, T) = "overlap"
    BY <2>1, <2>2, <2>4, MirrorOf
  <2>5. CASE Shape(C, S) = "split" /\ Shape(C, T) = "merge"
    BY <2>1, <2>2, <2>3, <2>5, MirrorOfSplit
  <2>6. CASE Shape(C, S) = "merge" /\ Shape(C, T) = "split"
    BY <2>1, <2>2, <2>3, <2>6, MirrorOfMerge
  <2> QED BY <1>8, <2>4, <2>5, <2>6, ShapeMirrored
<1> QED BY <1>7, <1>8

\* A source left out is a target left out of the exchanged request ...
LEMMA SourceMirrored ==
    ASSUME NEW kind, NEW s \in Specs, s.effectTolerance \in Nat, NEW e, NEW S, NEW T,
           Effects(e, S \cup T), NEW u \in S
    PROVE  TargetLeftOut(kind, MirrorSpec(s), MirrorEvidence(e, S, T), T, u)
              = MirrorAssertion(SourceLeftOut(kind, s, e, T, u))
<1> DEFINE z == MirrorSpec(s)
           d == MirrorEvidence(e, S, T)
<1>1. \A v \in T : PairState(kind, z, d, v, u) = PairState(kind, s, e, u, v)
  BY StateMirrored
<1> HIDE DEF z, d
<1>2. {PairState(kind, z, d, v, u) : v \in T} = {PairState(kind, s, e, u, v) : v \in T}
  BY <1>1
<1>3. PICK answer : answer = UnmatchedReason({PairState(kind, s, e, u, v) : v \in T})
  OBVIOUS
<1>4. SourceLeftOut(kind, s, e, T, u) = Assertion({u}, T, {u}, "none", answer[1], answer[2])
  BY <1>3 DEF SourceLeftOut
<1>5. TargetLeftOut(kind, z, d, T, u) = Assertion(T, {u}, {u}, "none", answer[1], answer[2])
  BY <1>2, <1>3 DEF TargetLeftOut
<1>6. TargetLeftOut(kind, z, d, T, u) = MirrorAssertion(SourceLeftOut(kind, s, e, T, u))
  BY <1>4, <1>5, MirrorOf
<1> QED BY <1>6 DEF z, d

\* ... and a target left out a source.
LEMMA TargetMirrored ==
    ASSUME NEW kind, NEW s \in Specs, s.effectTolerance \in Nat, NEW e, NEW S, NEW T,
           Effects(e, S \cup T), NEW v \in T
    PROVE  SourceLeftOut(kind, MirrorSpec(s), MirrorEvidence(e, S, T), S, v)
              = MirrorAssertion(TargetLeftOut(kind, s, e, S, v))
<1> DEFINE z == MirrorSpec(s)
           d == MirrorEvidence(e, S, T)
<1>1. \A u \in S : PairState(kind, z, d, v, u) = PairState(kind, s, e, u, v)
  BY StateMirrored
<1> HIDE DEF z, d
<1>2. {PairState(kind, z, d, v, u) : u \in S} = {PairState(kind, s, e, u, v) : u \in S}
  BY <1>1
<1>3. PICK answer : answer = UnmatchedReason({PairState(kind, s, e, u, v) : u \in S})
  OBVIOUS
<1>4. TargetLeftOut(kind, s, e, S, v) = Assertion(S, {v}, {v}, "none", answer[1], answer[2])
  BY <1>3 DEF TargetLeftOut
<1>5. SourceLeftOut(kind, z, d, S, v) = Assertion({v}, S, {v}, "none", answer[1], answer[2])
  BY <1>2, <1>3 DEF SourceLeftOut
<1>6. SourceLeftOut(kind, z, d, S, v) = MirrorAssertion(TargetLeftOut(kind, s, e, S, v))
  BY <1>4, <1>5, MirrorOf
<1> QED BY <1>6 DEF z, d

\* The pairs read from the other end reach the same units and components.
LEMMA TurnedComponents ==
    ASSUME NEW S, NEW T, IsFiniteSet(S), IsFiniteSet(T), S \cap T = {},
           NEW M \in SUBSET (S \X T)
    PROVE  Components(Renamed(Turned(S, T), M)) = Components(M)
<1>1. Renaming(Same(S, T), Turned(S, T), S, T, T, S)
  BY TurnedRenames
<1>2. Components(Renamed(Turned(S, T), M)) = {Renamed(Same(S, T), C) : C \in Components(M)}
  BY <1>1, RenamedComponents
<1>3. \A C \in Components(M) : C \in SUBSET (S \cup T)
  BY ComponentSides
<1>4. \A C \in Components(M) : Renamed(Same(S, T), C) = C
  BY <1>3, SameKeeps
<1> QED BY <1>2, <1>4

\* They leave the same units out.
LEMMA TurnedTouched ==
    ASSUME NEW S, NEW T, IsFiniteSet(S), IsFiniteSet(T), NEW M \in SUBSET (S \X T)
    PROVE  Touched(Renamed(Turned(S, T), M)) = Touched(M)
<1>1. Renaming(Same(S, T), Turned(S, T), S, T, T, S)
  BY TurnedRenames
<1>2. Touched(Renamed(Turned(S, T), M)) = Renamed(Same(S, T), Touched(M))
  BY <1>1, RenamedTouched
<1>3. Touched(M) \in SUBSET (S \cup T)
  BY MatchingWithin
<1> QED BY <1>2, <1>3, SameKeeps

\* The mirrored assertions.
Mirrors(A) == {MirrorAssertion(a) : a \in A}

\* A matching of the exchanged request is answered by the mirrored assertions.
LEMMA MirroredMatched ==
    ASSUME NEW kind, NEW s \in Specs, s.effectTolerance \in Nat, s.decompositions = <<>>,
           NEW e, NEW S, NEW T, Effects(e, S \cup T),
           IsFiniteSet(S), IsFiniteSet(T), S \cap T = {}, NEW M \in SUBSET (S \X T)
    PROVE  MatchedAssertions(kind, MirrorSpec(s), MirrorEvidence(e, S, T), T, S,
                             Renamed(Turned(S, T), M))
              = Mirrors(MatchedAssertions(kind, s, e, S, T, M))
<1> DEFINE z == MirrorSpec(s)
           d == MirrorEvidence(e, S, T)
           N == Renamed(Turned(S, T), M)
           this == MatchedAssertions(kind, s, e, S, T, M)
           that == MatchedAssertions(kind, z, d, T, S, N)
<1>1. Components(N) = Components(M)
  BY TurnedComponents
<1>2. Touched(N) = Touched(M)
  BY TurnedTouched
<1>3. Unmatched(N, S) = Unmatched(M, S) /\ Unmatched(N, T) = Unmatched(M, T)
  BY <1>2 DEF Unmatched
<1>4. z.decompositions = <<>>
  BY MirrorFields
<1>5. \A a : a \in this <=>
         \/ \E C \in Components(M) : a = OneAssertion(C, S)
         \/ \E u \in Unmatched(M, S) : a = SourceLeftOut(kind, s, e, T, u)
         \/ \E v \in Unmatched(M, T) : a = TargetLeftOut(kind, s, e, S, v)
  BY MatchedSet
<1>6. \A b : b \in that <=>
         \/ \E C \in Components(N) : b = OneAssertion(C, T)
         \/ \E v \in Unmatched(N, T) : b = SourceLeftOut(kind, z, d, S, v)
         \/ \E u \in Unmatched(N, S) : b = TargetLeftOut(kind, z, d, T, u)
  <2> HIDE DEF z, d, N
  <2> QED BY <1>4, MatchedSet
<1>7. \A C \in Components(M) : OneAssertion(C, T) = MirrorAssertion(OneAssertion(C, S))
  BY ComponentMirrored
<1>8. \A u \in Unmatched(M, S) :
         TargetLeftOut(kind, z, d, T, u) = MirrorAssertion(SourceLeftOut(kind, s, e, T, u))
  BY SourceMirrored DEF Unmatched
<1>9. \A v \in Unmatched(M, T) :
         SourceLeftOut(kind, z, d, S, v) = MirrorAssertion(TargetLeftOut(kind, s, e, S, v))
  BY TargetMirrored DEF Unmatched
<1> HIDE DEF z, d, N, this, that
<1>10. ASSUME NEW a \in this PROVE MirrorAssertion(a) \in that
  <2>1. CASE \E C \in Components(M) : a = OneAssertion(C, S)
    BY <1>1, <1>6, <1>7, <2>1
  <2>2. CASE \E u \in Unmatched(M, S) : a = SourceLeftOut(kind, s, e, T, u)
    BY <1>3, <1>6, <1>8, <2>2
  <2>3. CASE \E v \in Unmatched(M, T) : a = TargetLeftOut(kind, s, e, S, v)
    BY <1>3, <1>6, <1>9, <2>3
  <2> QED BY <1>5, <2>1, <2>2, <2>3
<1>11. ASSUME NEW b \in that PROVE \E a \in this : b = MirrorAssertion(a)
  <2>1. CASE \E C \in Components(N) : b = OneAssertion(C, T)
    <3>1. PICK C \in Components(M) : b = OneAssertion(C, T)
      BY <1>1, <2>1
    <3>2. OneAssertion(C, S) \in this
      BY <1>5
    <3> QED BY <1>7, <3>1, <3>2
  <2>2. CASE \E v \in Unmatched(N, T) : b = SourceLeftOut(kind, z, d, S, v)
    <3>1. PICK v \in Unmatched(M, T) : b = SourceLeftOut(kind, z, d, S, v)
      BY <1>3, <2>2
    <3>2. TargetLeftOut(kind, s, e, S, v) \in this
      BY <1>5
    <3> QED BY <1>9, <3>1, <3>2
  <2>3. CASE \E u \in Unmatched(N, S) : b = TargetLeftOut(kind, z, d, T, u)
    <3>1. PICK u \in Unmatched(M, S) : b = TargetLeftOut(kind, z, d, T, u)
      BY <1>3, <2>3
    <3>2. SourceLeftOut(kind, s, e, T, u) \in this
      BY <1>5
    <3> QED BY <1>8, <3>1, <3>2
  <2> QED BY <1>6, <2>1, <2>2, <2>3
<1>12. that = Mirrors(this)
  BY <1>10, <1>11 DEF Mirrors
<1> QED BY <1>12 DEF this, that, z, d, N

\* An answer for the whole request is the mirror of the other.
LEMMA MirroredWhole ==
    ASSUME NEW S, NEW T, NEW r \in WholeAnswers
    PROVE  MirrorAssertion(About(S, T, r[1], r[2], r[3])) = About(T, S, r[1], r[2], r[3])
<1>1. r[1] # "split" /\ r[1] # "merge"
  BY DEF WholeAnswers, TerminalAnswers
<1>2. About(S, T, r[1], r[2], r[3]) = Assertion(S, T, S \cup T, r[1], r[2], r[3])
  BY DEF About
<1>3. About(T, S, r[1], r[2], r[3]) = Assertion(T, S, S \cup T, r[1], r[2], r[3])
  <2>1. T \cup S = S \cup T
    OBVIOUS
  <2> QED BY <2>1 DEF About
<1> QED BY <1>1, <1>2, <1>3, MirrorOf

\* The exchanged request is answered by the mirrored assertions.
LEMMA MirroredAnswer ==
    ASSUME NEW kind, NEW s \in Specs, ValidSpec(s), s.decompositions = <<>>, NEW e, NEW S, NEW T,
           Request(kind, s, e, S, T), Effects(e, S \cup T),
           \A u \in S \cup T : e.units[u].footprint \in Nat \X Nat
    PROVE  Resolution(kind, MirrorSpec(s), MirrorEvidence(e, S, T), T, S)
              = {MirrorAssertion(a) : a \in Resolution(kind, s, e, S, T)}
<1> DEFINE z == MirrorSpec(s)
           d == MirrorEvidence(e, S, T)
           pi == Same(S, T)
           f == Turned(S, T)
           this == Resolution(kind, s, e, S, T)
           that == Resolution(kind, z, d, T, S)
<1>1. SameRequest(kind, s, e, S, T, z, d, T, S, pi, f)
  BY MirroredRequest
<1>2. IsFiniteSet(S) /\ IsFiniteSet(T) /\ S \cap T = {} /\ s.effectTolerance \in Nat
  BY DEF Request, ValidSpec
<1>3. ASSUME NEW M \in SUBSET (S \X T)
      PROVE  MatchedAssertions(kind, z, d, T, S, Renamed(f, M))
                = Mirrors(MatchedAssertions(kind, s, e, S, T, M))
  BY <1>2, MirroredMatched
<1> HIDE DEF z, d, pi, f
<1>4. \/ this = {} /\ that = {}
      \/ \E r \in WholeAnswers : /\ this = {About(S, T, r[1], r[2], r[3])}
                                 /\ that = {About(T, S, r[1], r[2], r[3])}
      \/ \E M \in SUBSET (S \X T) :
            /\ Survivors(s, Primary(kind, s, e, S, T)) = {M}
            /\ this = MatchedAssertions(kind, s, e, S, T, M)
            /\ that = MatchedAssertions(kind, z, d, T, S, Renamed(f, M))
  BY <1>1, SameAnswer
<1> HIDE DEF this, that
<1>5. ASSUME this = {}, that = {}
      PROVE  that = {MirrorAssertion(a) : a \in this}
  BY <1>5
<1>6. ASSUME NEW r \in WholeAnswers, this = {About(S, T, r[1], r[2], r[3])},
             that = {About(T, S, r[1], r[2], r[3])}
      PROVE  that = {MirrorAssertion(a) : a \in this}
  BY <1>6, MirroredWhole
<1>7. ASSUME NEW M \in SUBSET (S \X T), this = MatchedAssertions(kind, s, e, S, T, M),
             that = MatchedAssertions(kind, z, d, T, S, Renamed(f, M))
      PROVE  that = {MirrorAssertion(a) : a \in this}
  BY <1>3, <1>7 DEF Mirrors
<1>8. that = {MirrorAssertion(a) : a \in this}
  BY <1>4, <1>5, <1>6, <1>7
<1> QED BY <1>8 DEF this, that, z, d

(* Which arm is called the source decides nothing but the names: the same    *)
(* request with its arms exchanged has the mirrored answer, for every number *)
(* of units and whatever the evidence.                                       *)
THEOREM ArmsExchangeable == Spec => []Mirrored
<1>1. RelationsInv => Mirrored
  <2> SUFFICES ASSUME RelationsInv, NEW o \in Stored, SpecOf(o).decompositions = <<>>
               PROVE  Resolution(OutcomeKind(o), MirrorSpec(SpecOf(o)),
                                 MirrorEvidence(o.evidence, o.sources, o.targets),
                                 o.targets, o.sources)
                      = {MirrorAssertion(a) : a \in o.assertions}
    BY DEF Mirrored
  <2> DEFINE s == SpecOf(o)
             e == o.evidence
             kind == OutcomeKind(o)
             S == o.sources
             T == o.targets
  <2>1. Request(kind, s, e, S, T)
    BY StoredRequest
  <2>2. o.assertions = Resolution(kind, s, e, S, T)
    BY StoredOutcome
  <2>3. S \in SUBSET Units /\ T \in SUBSET Units /\ e \in EvidenceOf(S, T)
    BY StoredOutcome DEF Justified
  <2>4. ValidSpec(s) /\ s \in Specs
    <3>1. o.comparison \in DOMAIN comparisons
      BY StoredOutcome DEF Justified
    <3>2. ComparisonOK(comparisons[o.comparison])
      BY <3>1 DEF RelationsInv
    <3> QED BY <3>2 DEF ComparisonOK, SpecOf
  <2>5. \A u \in S \cup T :
           /\ e.units[u].footprint \in Nat \X Nat
           /\ e.units[u].status = "valid" => {e.units[u].lower, e.units[u].upper} \subseteq Int
    BY <2>3, EvidenceAssumption
  <2>6. Effects(e, S \cup T) /\ \A u \in S \cup T : e.units[u].footprint \in Nat \X Nat
    BY <2>5 DEF Effects
  <2>7. s.decompositions = <<>>
    OBVIOUS
  <2> HIDE DEF s, e, kind, S, T
  <2>8. Resolution(kind, MirrorSpec(s), MirrorEvidence(e, S, T), T, S)
           = {MirrorAssertion(a) : a \in Resolution(kind, s, e, S, T)}
    BY <2>1, <2>4, <2>6, <2>7, MirroredAnswer
  <2> QED BY <2>2, <2>8 DEF s, e, kind, S, T
<1> QED BY <1>1, Inductive, PTL
=============================================================================
