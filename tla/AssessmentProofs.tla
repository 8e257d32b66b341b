-------------------------- MODULE AssessmentProofs --------------------------
(***************************************************************************)
(* Theorems about Assessment, for every set of candidates, specifications  *)
(* and scores and for every bound.  The argument has four layers.          *)
(*   The ordered tests of assess() are reduced to one conditional          *)
(*   (VerdictRules) and its comparisons of interval ends to statements     *)
(*   about the values of the interval (ValuesAndEnds, VerdictMeaning).     *)
(*   The invariant AssessmentInv says that every stored assessment is the  *)
(*   verdict on the graph, task and run it names, and that a closed graph  *)
(*   gives it exactly the family its task froze.  It is inductive because  *)
(*   records are only appended and refer to earlier ones: one lemma says   *)
(*   what a step can do to each variable.                                  *)
(*   RunsInv says what a run spent and read, from the rounds of the loop   *)
(*   of execute_task(), and AccountsInv what the baselines answered.       *)
(*   The properties follow from the invariants and the first layer.        *)
(***************************************************************************)
EXTENDS Assessment, SharedLemmas, FiniteSetTheorems

Unit == Nat \X Nat

(***************************************************************************)
(* Lemmas about the operators                                              *)
(***************************************************************************)

\* The ordered rules of assess(), one by one.
LEMMA VerdictRules ==
    ASSUME NEW c, NEW g, NEW s, NEW r
    PROVE  Verdict(c, g, s, r) =
              IF Nonmeaningful(c, s, r)
              THEN [status |-> "rejected", reason |-> "candidate_nonmeaningful"]
              ELSE IF Nonequivalent(g, s, r) # {}
              THEN [status |-> "rejected", reason |-> "proper_node_nonequivalent"]
              ELSE IF Ready(c, g, s, r) /\ Meaningful(c, s, r) /\ AllEquivalent(g, s, r)
              THEN [status |-> "qualified", reason |-> "meaningful_closed_equivalent"]
              ELSE [status |-> "indeterminate", reason |-> IndeterminateReason(c, g, s, r)]
<1> DEFINE p1 == Nonmeaningful(c, s, r)
           p2 == Nonequivalent(g, s, r) # {}
           p3 == Ready(c, g, s, r) /\ Meaningful(c, s, r) /\ AllEquivalent(g, s, r)
           v1 == [status |-> "rejected", reason |-> "candidate_nonmeaningful"]
           v2 == [status |-> "rejected", reason |-> "proper_node_nonequivalent"]
           v3 == [status |-> "qualified", reason |-> "meaningful_closed_equivalent"]
           v4 == [status |-> "indeterminate", reason |-> IndeterminateReason(c, g, s, r)]
           tests == <<<<p1, v1>>, <<p2, v2>>, <<p3, v3>>, <<TRUE, v4>>>>
<1>1. Verdict(c, g, s, r) = FirstOf(tests)
  BY DEF Verdict
<1> HIDE DEF p1, p2, p3, v1, v2, v3, v4
<1>2. DOMAIN tests = 1 .. 4
  OBVIOUS
<1>3. /\ tests[1] = <<p1, v1>> /\ tests[2] = <<p2, v2>>
      /\ tests[3] = <<p3, v3>> /\ tests[4] = <<TRUE, v4>>
  OBVIOUS
<1>4. /\ (tests[1])[1] = p1 /\ (tests[2])[1] = p2 /\ (tests[3])[1] = p3 /\ (tests[4])[1]
  BY <1>3
<1>5. tests[1][2] = v1 /\ tests[2][2] = v2 /\ tests[3][2] = v3 /\ tests[4][2] = v4
  BY <1>3
<1> HIDE DEF tests
<1>6. FirstOf(tests) = IF p1 THEN v1 ELSE IF p2 THEN v2 ELSE IF p3 THEN v3 ELSE v4
  <2>1. CASE p1
    <3>1. /\ tests[1][1] /\ \A j \in 1 .. 1 - 1 : ~tests[j][1]
          /\ 4 \in Nat /\ 1 \in 1 .. 4
      BY <1>4, <2>1
    <3>2. FirstOf(tests) = tests[1][2]
      BY <1>2, <3>1, FirstIs, Zenon
    <3> QED BY <3>2, <1>5, <2>1
  <2>2. CASE ~p1 /\ p2
    <3>1. /\ tests[2][1] /\ \A j \in 1 .. 2 - 1 : ~tests[j][1]
          /\ 4 \in Nat /\ 2 \in 1 .. 4
      BY <1>4, <2>2
    <3>2. FirstOf(tests) = tests[2][2]
      BY <1>2, <3>1, FirstIs, Zenon
    <3> QED BY <3>2, <1>5, <2>2
  <2>3. CASE ~p1 /\ ~p2 /\ p3
    <3>1. /\ tests[3][1] /\ \A j \in 1 .. 3 - 1 : ~tests[j][1]
          /\ 4 \in Nat /\ 3 \in 1 .. 4
      BY <1>4, <2>3
    <3>2. FirstOf(tests) = tests[3][2]
      BY <1>2, <3>1, FirstIs, Zenon
    <3> QED BY <3>2, <1>5, <2>3
  <2>4. CASE ~p1 /\ ~p2 /\ ~p3
    <3>1. /\ tests[4][1] /\ \A j \in 1 .. 4 - 1 : ~tests[j][1]
          /\ 4 \in Nat /\ 4 \in 1 .. 4
      BY <1>4, <2>4
    <3>2. FirstOf(tests) = tests[4][2]
      BY <1>2, <3>1, FirstIs, Zenon
    <3> QED BY <3>2, <1>5, <2>4
  <2> QED BY <2>1, <2>2, <2>3, <2>4
<1> QED BY <1>1, <1>6 DEF p1, p2, p3, v1, v2, v3, v4

\* The reason of an indeterminate assessment is the test that decided; the last one is
\* reached when nothing is amiss but what the verdict itself could not settle.
LEMMA ReasonsIndecisive ==
    ASSUME NEW c, NEW g, NEW s, NEW r
    PROVE  LET x == IndeterminateReason(c, g, s, r)
               crossing(n) == /\ NegativeValid(r, n)
                              /\ ~Contained(r.intervals[n], s) /\ ~Disjoint(r.intervals[n], s)
           IN  /\ x \in Reasons \ {"meaningful_closed_equivalent", "candidate_nonmeaningful",
                                  "proper_node_nonequivalent"}
               /\ x = "empty_proper_set" => Terminal(c)
               /\ x = "uncertainty_contract_missing" => ~r.adjusted
               /\ x = "budget_exhausted" => r.exhausted
               /\ x = "calibration_unavailable" => ~r.calibrated
               /\ x = "artifact_control_failed" => ~r.controls
               /\ x = "closure_unavailable" => ~g.closed
               /\ x = "candidate_boundary_crossing" =>
                     /\ NegativeValid(r, c)
                     /\ r.intervals[c].lower < s.theta /\ s.theta <= r.intervals[c].upper
               /\ x = "proper_node_boundary_crossing" => \E n \in Nodes(g) : crossing(n)
               /\ x = "required_evidence_unavailable" =>
                     \/ ~r.dependency
                     \/ c \notin DOMAIN r.intervals
                     \/ ~(Nodes(g) \subseteq DOMAIN r.intervals)
                     \/ /\ r.adjusted /\ r.calibrated /\ r.controls /\ r.dependency /\ g.closed
                        /\ ~(/\ NegativeValid(r, c)
                             /\ r.intervals[c].lower < s.theta /\ s.theta <= r.intervals[c].upper)
                        /\ \A n \in Nodes(g) : ~crossing(n)
<1> DEFINE p1 == Terminal(c) /\ Nodes(g) = {}
           p2 == ~r.adjusted
           p3 == r.exhausted
           p4 == ~r.calibrated
           p5 == ~r.controls
           p6 == ~r.dependency
           p7 == ~g.closed
           p8 == c \notin DOMAIN r.intervals
           p9 == NegativeValid(r, c)
               /\ r.intervals[c].lower < s.theta /\ s.theta <= r.intervals[c].upper
           p10 == ~(Nodes(g) \subseteq DOMAIN r.intervals)
           p11 == \E n \in Nodes(g) :
                  NegativeValid(r, n) /\ ~Contained(r.intervals[n], s) /\ ~Disjoint(r.intervals[n], s)
           tests == <<<<p1, "empty_proper_set">>,
                      <<p2, "uncertainty_contract_missing">>,
                      <<p3, "budget_exhausted">>,
                      <<p4, "calibration_unavailable">>,
                      <<p5, "artifact_control_failed">>,
                      <<p6, "required_evidence_unavailable">>,
                      <<p7, "closure_unavailable">>,
                      <<p8, "required_evidence_unavailable">>,
                      <<p9, "candidate_boundary_crossing">>,
                      <<p10, "required_evidence_unavailable">>,
                      <<p11, "proper_node_boundary_crossing">>,
                      <<TRUE, "required_evidence_unavailable">>>>
<1>1. IndeterminateReason(c, g, s, r) = FirstOf(tests)
  BY DEF IndeterminateReason
<1> HIDE DEF p1, p2, p3, p4, p5, p6, p7, p8, p9, p10, p11
<1>2. DOMAIN tests = 1 .. 12
  OBVIOUS
<1>3. /\ tests[1] = <<p1, "empty_proper_set">>
      /\ tests[2] = <<p2, "uncertainty_contract_missing">>
      /\ tests[3] = <<p3, "budget_exhausted">>
      /\ tests[4] = <<p4, "calibration_unavailable">>
      /\ tests[5] = <<p5, "artifact_control_failed">>
      /\ tests[6] = <<p6, "required_evidence_unavailable">>
      /\ tests[7] = <<p7, "closure_unavailable">>
      /\ tests[8] = <<p8, "required_evidence_unavailable">>
      /\ tests[9] = <<p9, "candidate_boundary_crossing">>
      /\ tests[10] = <<p10, "required_evidence_unavailable">>
      /\ tests[11] = <<p11, "proper_node_boundary_crossing">>
      /\ tests[12] = <<TRUE, "required_evidence_unavailable">>
  OBVIOUS
<1> HIDE DEF tests
<1>4. tests[12][1] /\ 12 \in Nat \ {0} /\ 12 <= 12
  BY <1>3
<1>5. PICK k \in 1 .. 12 : tests[k][1] /\ FirstOf(tests) = tests[k][2]
                           /\ \A j \in 1 .. k - 1 : ~tests[j][1]
  BY <1>2, <1>4, FirstOfAnswers, Zenon
<1>6. \A i \in 1 .. 12 : tests[i][2] \in Reasons \ {"meaningful_closed_equivalent",
                             "candidate_nonmeaningful", "proper_node_nonequivalent"}
  BY <1>3 DEF Reasons
<1> DEFINE x == FirstOf(tests)
<1>7. /\ x = "empty_proper_set" => p1
      /\ x = "uncertainty_contract_missing" => p2
      /\ x = "budget_exhausted" => p3
      /\ x = "calibration_unavailable" => p4
      /\ x = "artifact_control_failed" => p5
      /\ x = "closure_unavailable" => p7
      /\ x = "candidate_boundary_crossing" => p9
      /\ x = "proper_node_boundary_crossing" => p11
  <2>1. k \in {1, 2, 3, 4, 5, 6, 7, 8, 9, 10, 11, 12}
    OBVIOUS
  <2>2. \A i \in {1, 2, 3, 4, 5, 6, 7, 8, 9, 10, 11, 12} : k = i => x = tests[i][2] /\ tests[i][1]
    BY <1>5
  <2> HIDE DEF x
  <2> QED BY <1>3, <2>1, <2>2
<1>8. x = "required_evidence_unavailable" => k \in {6, 8, 10, 12}
  <2>1. k \in {1, 2, 3, 4, 5, 6, 7, 8, 9, 10, 11, 12} /\ x = tests[k][2]
    BY <1>5
  <2>2. \A i \in {1, 2, 3, 4, 5, 7, 9, 11} : tests[i][2] # "required_evidence_unavailable"
    BY <1>3
  <2> HIDE DEF x
  <2> QED BY <2>1, <2>2
<1>9. CASE k = 12
  <2>1. \A j \in 1 .. 11 : ~tests[j][1]
    BY <1>5, <1>9
  <2>2. ~p2 /\ ~p4 /\ ~p5 /\ ~p6 /\ ~p7 /\ ~p9 /\ ~p11
    BY <1>3, <2>1
  <2> QED BY <1>1, <1>5, <1>6, <1>7, <2>2 DEF p1, p2, p3, p4, p5, p6, p7, p9, p11
<1>10. CASE k # 12
  <2>1. x = "required_evidence_unavailable" => p6 \/ p8 \/ p10
    BY <1>3, <1>5, <1>8, <1>10
  <2> QED BY <1>1, <1>5, <1>6, <1>7, <2>1 DEF p1, p2, p3, p4, p5, p6, p7, p8, p9, p10, p11
<1> QED BY <1>9, <1>10

(***************************************************************************)
(* Well-formed records                                                     *)
(***************************************************************************)
GraphOK(g) ==
    /\ g.root \in Candidates /\ g.closed \in BOOLEAN /\ g.closure \in Seq(Unit)
    /\ \A p \in DOMAIN g.closure : g.closure[p] \notin Candidates
    /\ \A p, q \in DOMAIN g.closure : p # q => g.closure[p] # g.closure[q]
    /\ g.closed <=> Nodes(g) # {}

SpecOK(s) == /\ s \in Specs /\ s.theta > 0 /\ s.minus >= 0 /\ s.plus >= 0 /\ s.plus < s.theta
             /\ s.disjoint

IntervalOK(i) == i \in IntervalType /\ i.lower <= i.upper

\* An interval's values lie below, inside or beside a bound exactly when its ends do.
LEMMA ValuesAndEnds ==
    ASSUME NEW i, IntervalOK(i), NEW s, SpecOK(s)
    PROVE  /\ (\A x \in Values(i) : x < s.theta) <=> i.upper < s.theta
           /\ (\A x \in Values(i) : x >= s.theta) <=> i.lower >= s.theta
           /\ (Values(i) \cap Negligible(s) = {}) <=> Disjoint(i, s)
           /\ (Values(i) \subseteq Negligible(s)) <=> Contained(i, s)
           /\ Contained(i, s) => ~Disjoint(i, s) /\ i.upper < s.theta
<1>1. /\ i.lower \in Int /\ i.upper \in Int /\ i.lower <= i.upper
      /\ s.theta \in Int /\ s.minus \in Int /\ s.plus \in Int
  BY SpecsAssumption DEF IntervalOK, IntervalType, SpecOK
<1>2. i.lower \in Values(i) /\ i.upper \in Values(i)
  BY <1>1 DEF Values
<1>3. \A x \in Values(i) : x \in Int /\ i.lower <= x /\ x <= i.upper
  BY <1>1 DEF Values
<1>4. s.minus >= 0 /\ s.plus >= 0 /\ s.plus < s.theta
  BY DEF SpecOK
<1>5. (\A x \in Values(i) : x < s.theta) <=> i.upper < s.theta
  BY <1>1, <1>2, <1>3
<1>6. (\A x \in Values(i) : x >= s.theta) <=> i.lower >= s.theta
  BY <1>1, <1>2, <1>3
<1>7. \A x \in Int : x \in Negligible(s) <=> -s.minus <= x /\ x <= s.plus
  BY <1>1 DEF Negligible
<1>8. (Values(i) \cap Negligible(s) = {}) <=> Disjoint(i, s)
  <2>1. ASSUME Disjoint(i, s) PROVE Values(i) \cap Negligible(s) = {}
    BY <1>1, <1>3, <1>7, <2>1 DEF Disjoint
  <2>2. ASSUME ~Disjoint(i, s) PROVE Values(i) \cap Negligible(s) # {}
    <3>1. i.upper >= -s.minus /\ i.lower <= s.plus
      BY <1>1, <2>2 DEF Disjoint
    <3>2. CASE i.lower >= -s.minus
      BY <1>1, <1>2, <1>7, <3>1, <3>2
    <3>3. CASE i.lower < -s.minus
      <4>1. -s.minus \in Values(i) /\ -s.minus \in Negligible(s)
        BY <1>1, <1>4, <1>7, <3>1, <3>3 DEF Values
      <4> QED BY <4>1
    <3> QED BY <1>1, <3>2, <3>3
  <2> QED BY <2>1, <2>2
<1>9. (Values(i) \subseteq Negligible(s)) <=> Contained(i, s)
  BY <1>1, <1>2, <1>3, <1>7 DEF Contained
<1>10. Contained(i, s) => ~Disjoint(i, s) /\ i.upper < s.theta
  BY <1>1, <1>4 DEF Contained, Disjoint
<1> QED BY <1>5, <1>6, <1>8, <1>9, <1>10

\* What RunOK and the graph give the rules of assess(): typed evidence of the family.
EvidenceOK(c, r) ==
    /\ c \in DOMAIN r.intervals
    /\ \A u \in DOMAIN r.intervals : IntervalOK(r.intervals[u])
    /\ {r.adjusted, r.controls, r.calibrated, r.dependency} \subseteq BOOLEAN

\* Nonmeaningful, Nonequivalent and the readiness of a qualification say what the ontology says.
LEMMA VerdictMeaning ==
    ASSUME NEW c \in Candidates, NEW g, GraphOK(g), NEW s, SpecOK(s),
           NEW r, EvidenceOK(c, r)
    PROVE  LET v == Verdict(c, g, s, r)
               rejects == CandidateRejects(c, s, r) \/ \E n \in Nodes(g) : NodeRejects(n, s, r)
               qualifies == g.closed /\ Qualifies(c, {c} \cup Nodes(g), s, r)
           IN  /\ v.status = "rejected" <=> rejects
               /\ v.status = "qualified" <=> qualifies
               /\ v.status \in Statuses /\ v.reason \in Reasons
<1> DEFINE v == Verdict(c, g, s, r)
           node == \E n \in Nodes(g) : NodeRejects(n, s, r)
           ready == Ready(c, g, s, r) /\ Meaningful(c, s, r) /\ AllEquivalent(g, s, r)
           qualifies == g.closed /\ Qualifies(c, {c} \cup Nodes(g), s, r)
<1>1. \A u : NegativeValid(r, u) <=> Conclusive(r, u)
  BY DEF NegativeValid, Conclusive, Finite
<1>2. \A u : Conclusive(r, u) => u \in DOMAIN r.intervals /\ IntervalOK(r.intervals[u])
  BY DEF Conclusive, EvidenceOK
<1>3. Nonmeaningful(c, s, r) <=> CandidateRejects(c, s, r)
  BY <1>1, <1>2, ValuesAndEnds DEF Nonmeaningful, CandidateRejects
<1>4. Nonequivalent(g, s, r) # {} <=> node
  BY <1>1, <1>2, ValuesAndEnds DEF Nonequivalent, NodeRejects
<1>5. c \notin Nodes(g)
  BY DEF GraphOK, Nodes
<1>6. ready <=> qualifies
  <2>1. ASSUME ready PROVE qualifies
    BY <1>1, <1>2, <1>5, <2>1, ValuesAndEnds
       DEF Ready, Meaningful, AllEquivalent, Qualifies
  <2>2. ASSUME qualifies PROVE ready
    <3>1. g.closed /\ Nodes(g) # {} /\ s.disjoint
      BY <2>2 DEF GraphOK, SpecOK
    <3>2. \A u \in {c} \cup Nodes(g) : NegativeValid(r, u) /\ u \in DOMAIN r.intervals
      BY <1>1, <1>2, <2>2 DEF Qualifies
    <3>3. r.intervals[c].lower >= s.theta
      BY <1>2, <2>2, ValuesAndEnds DEF Qualifies
    <3>4. \A n \in Nodes(g) : Contained(r.intervals[n], s)
      BY <1>2, <1>5, <2>2, ValuesAndEnds DEF Qualifies
    <3> QED BY <3>1, <3>2, <3>3, <3>4 DEF Ready, Meaningful, AllEquivalent
  <2> QED BY <2>1, <2>2
<1>7. ASSUME qualifies PROVE ~CandidateRejects(c, s, r) /\ ~node
  <2>1. ready
    BY <1>6, <1>7
  <2>2. c \in DOMAIN r.intervals /\ IntervalOK(r.intervals[c]) /\ r.intervals[c].lower >= s.theta
    BY <1>1, <1>2, <2>1 DEF Meaningful
  <2>3. ~Nonmeaningful(c, s, r)
    BY <2>2, SpecsAssumption DEF Nonmeaningful, IntervalOK, IntervalType, SpecOK
  <2>4. \A n \in Nodes(g) : Contained(r.intervals[n], s) /\ IntervalOK(r.intervals[n])
    BY <1>1, <1>2, <2>1 DEF AllEquivalent
  <2>5. Nonequivalent(g, s, r) = {}
    BY <2>4, ValuesAndEnds DEF Nonequivalent
  <2> QED BY <1>3, <1>4, <2>3, <2>5
<1>8. v = IF CandidateRejects(c, s, r)
          THEN [status |-> "rejected", reason |-> "candidate_nonmeaningful"]
          ELSE IF node
          THEN [status |-> "rejected", reason |-> "proper_node_nonequivalent"]
          ELSE IF qualifies
          THEN [status |-> "qualified", reason |-> "meaningful_closed_equivalent"]
          ELSE [status |-> "indeterminate", reason |-> IndeterminateReason(c, g, s, r)]
  BY <1>3, <1>4, <1>6, VerdictRules
<1>9. IndeterminateReason(c, g, s, r) \in Reasons
  BY ReasonsIndecisive
<1> HIDE DEF node, qualifies, v
<1>10. /\ v.status = "rejected" <=> CandidateRejects(c, s, r) \/ node
       /\ v.status = "qualified" <=> qualifies
  BY <1>7, <1>8
<1>11. v.status \in Statuses /\ v.reason \in Reasons
  BY <1>8, <1>9 DEF Statuses, Reasons
<1> QED BY <1>10, <1>11 DEF node, qualifies, v

\* The family of a task: the candidate first, then the closure, each unit once.
LEMMA FamilyUnits ==
    ASSUME NEW c \in Candidates, NEW closure \in Seq(Unit),
           \A p \in DOMAIN closure : closure[p] \notin Candidates,
           \A p, q \in DOMAIN closure : p # q => closure[p] # closure[q]
    PROVE  LET family == <<c>> \o closure
           IN  /\ family \in Seq(Unit)
               /\ \A p, q \in DOMAIN family : p # q => family[p] # family[q]
               /\ {family[i] : i \in DOMAIN family} = {c} \cup {closure[p] : p \in DOMAIN closure}
<1> DEFINE family == <<c>> \o closure
           n == Len(closure)
<1>1. c \in Unit /\ <<c>> \in Seq(Unit) /\ Len(<<c>>) = 1 /\ <<c>>[1] = c
  BY CellsAssumption DEF Candidates, Unit
<1>2. n \in Nat /\ DOMAIN closure = 1 .. n /\ \A p \in 1 .. n : closure[p] \in Unit
  OBVIOUS
<1>3. family \in Seq(Unit) /\ Len(family) = n + 1 /\ DOMAIN family = 1 .. n + 1
  BY <1>1, <1>2
<1>4. family[1] = c /\ \A p \in 2 .. n + 1 : family[p] = closure[p - 1]
  BY <1>1, <1>2, <1>3
<1> HIDE DEF family, n
<1>5. \A p, q \in DOMAIN family : p # q => family[p] # family[q]
  <2> SUFFICES ASSUME NEW p \in 1 .. n + 1, NEW q \in 1 .. n + 1, p # q
               PROVE  family[p] # family[q]
    BY <1>3
  <2>1. CASE p = 1 /\ q # 1
    <3>1. q \in 2 .. n + 1 /\ q - 1 \in DOMAIN closure
      BY <1>2, <2>1
    <3> QED BY <1>4, <2>1, <3>1
  <2>2. CASE p # 1 /\ q = 1
    <3>1. p \in 2 .. n + 1 /\ p - 1 \in DOMAIN closure
      BY <1>2, <2>2
    <3> QED BY <1>4, <2>2, <3>1
  <2>3. CASE p # 1 /\ q # 1
    <3>1. /\ p \in 2 .. n + 1 /\ p - 1 \in DOMAIN closure
          /\ q \in 2 .. n + 1 /\ q - 1 \in DOMAIN closure /\ p - 1 # q - 1
      BY <1>2, <2>3
    <3> QED BY <1>4, <3>1
  <2> QED BY <2>1, <2>2, <2>3
<1>6. {family[i] : i \in DOMAIN family} = {c} \cup {closure[p] : p \in DOMAIN closure}
  <2>1. ASSUME NEW p \in DOMAIN closure PROVE \E i \in DOMAIN family : family[i] = closure[p]
    <3>1. p + 1 \in 2 .. n + 1 /\ (p + 1) - 1 = p /\ p + 1 \in 1 .. n + 1
      BY <1>2
    <3>2. family[p + 1] = closure[p]
      BY <1>4, <3>1
    <3>3. p + 1 \in DOMAIN family
      BY <1>3, <3>1
    <3> QED BY <3>2, <3>3
  <2>2. ASSUME NEW i \in DOMAIN family
        PROVE  family[i] = c \/ \E p \in DOMAIN closure : family[i] = closure[p]
    <3>1. CASE i = 1
      BY <1>4, <3>1
    <3>2. CASE i # 1
      <4>1. i \in 2 .. n + 1 /\ i - 1 \in DOMAIN closure
        BY <1>2, <1>3, <3>2
      <4> QED BY <1>4, <4>1
    <3> QED BY <3>1, <3>2
  <2>3. 1 \in DOMAIN family
    BY <1>2, <1>3
  <2> QED BY <1>4, <2>1, <2>2, <2>3
<1> QED BY <1>3, <1>5, <1>6 DEF family

(***************************************************************************)
(* The inductive invariant                                                 *)
(***************************************************************************)
TaskOK(t) ==
    /\ t.candidate \in Candidates /\ SpecOK(t.spec)
    /\ t.spec.method = "deterministic_tolerance" => t.spec.tolerance >= 0
    /\ t.spec.repeats >= 1 /\ t.spec.maximum >= 2
    /\ t.family \in Seq(Unit)
    /\ \A p, q \in DOMAIN t.family : p # q => t.family[p] # t.family[q]

RunOK(r) ==
    /\ r.task \in DOMAIN tasks
    /\ DOMAIN r.intervals \subseteq Family(tasks[r.task])
    /\ \A u \in DOMAIN r.intervals : IntervalOK(r.intervals[u])
    /\ {r.exhausted, r.controls, r.dependency, r.calibrated, r.adjusted} \subseteq BOOLEAN

\* An assessment is the verdict on its run, read over the family the task froze.
AssessmentOK(a) ==
    /\ a.candidate \in Candidates /\ a.task \in DOMAIN tasks
    /\ a.run \in DOMAIN runs /\ a.graph \in DOMAIN graphs
    /\ a.candidate \in DOMAIN runs[a.run].intervals
    /\ runs[a.run].task = a.task
    /\ graphs[a.graph].closed =>
          Family(tasks[a.task]) = {a.candidate} \cup Nodes(graphs[a.graph])
    /\ LET v == Verdict(a.candidate, graphs[a.graph], tasks[a.task].spec, runs[a.run])
       IN  a.status = v.status /\ a.reason = v.reason

Sequences5 == /\ Sequence(graphs) /\ Sequence(tasks) /\ Sequence(runs)
              /\ Sequence(assessments) /\ Sequence(invalidations)

AssessmentInv ==
    /\ Sequences5
    /\ \A n \in DOMAIN graphs : GraphOK(graphs[n])
    /\ \A i \in DOMAIN tasks : TaskOK(tasks[i])
    /\ \A j \in DOMAIN runs : RunOK(runs[j])
    /\ \A k \in DOMAIN assessments : AssessmentOK(assessments[k])
    /\ \A e \in DOMAIN invalidations : invalidations[e] \in DOMAIN assessments
    /\ accounts \subseteq [assessment : DOMAIN assessments, exact : BOOLEAN]
    /\ failures \in 0 .. MaxFailures

(***************************************************************************)
(* What each variable can do in one step                                   *)
(***************************************************************************)

\* Only refine() and assess() append graphs, and the graphs are well formed.
LEMMA GraphStep ==
    ASSUME AssessmentInv, [Next]_vars
    PROVE  graphs' = graphs \/ \E g : GraphOK(g) /\ graphs' = Append(graphs, g)
<1>1. ASSUME NEW c \in Candidates, NEW limit \in NodeLimits, Refine(c, limit),
             graphs' # graphs
      PROVE  \E g : GraphOK(g) /\ graphs' = Append(graphs, g)
  <2> DEFINE n == ClosureSize(c)
             new == Len(graphs) + 1
             closure == [k \in 1 .. n |-> <<new, k>>]
             g == [root |-> c, closed |-> TRUE, closure |-> closure]
  <2>1. ~Terminal(c) /\ graphs' = Append(graphs, g)
    BY <1>1 DEF Refine, Failed
  <2>2. n \in Nat \ {0}
    BY <2>1, ClosureAssumption
  <2>3. Len(graphs) \in Nat
    BY DEF AssessmentInv, Sequences5, Sequence
  <2> HIDE DEF n
  <2>4. /\ closure \in Seq(Unit) /\ DOMAIN closure = 1 .. n
        /\ \A k \in 1 .. n : closure[k] = <<new, k>>
    BY <2>2, <2>3 DEF Unit
  <2>5. \A k \in 1 .. n : closure[k] \notin Candidates
    BY <2>3, <2>4 DEF Candidates
  <2>6. \A p, q \in DOMAIN closure : p # q => closure[p] # closure[q]
    BY <2>4
  <2>7. 1 \in DOMAIN closure
    BY <2>2, <2>4
  <2> HIDE DEF closure
  <2>8. GraphOK(g)
    BY <2>4, <2>5, <2>6, <2>7 DEF GraphOK, Nodes
  <2> QED BY <2>1, <2>8
<1>2. ASSUME NEW c \in Candidates, NEW i \in DOMAIN tasks, NEW j \in DOMAIN runs,
             NEW n \in 0 .. Len(graphs), NEW permitted \in BOOLEAN,
             Assess(c, i, j, n, permitted), graphs' # graphs
      PROVE  \E g : GraphOK(g) /\ graphs' = Append(graphs, g)
  <2>1. graphs' = Append(graphs, AvailabilityGraph(c))
    BY <1>2 DEF Assess, Failed
  <2>2. GraphOK(AvailabilityGraph(c))
    BY DEF GraphOK, AvailabilityGraph, Nodes
  <2> QED BY <2>1, <2>2
<1>3. ASSUME NEW c \in Candidates, NEW g \in 0 .. Len(graphs), NEW s \in Specs,
             NEW permitted \in BOOLEAN, DeclareTask(c, g, s, permitted)
      PROVE  graphs' = graphs
  BY <1>3 DEF DeclareTask, Failed
<1>4. ASSUME NEW i \in DOMAIN tasks, NEW supplied, NEW accepted \in BOOLEAN,
             ExecuteTask(i, supplied, accepted)
      PROVE  graphs' = graphs
  BY <1>4 DEF ExecuteTask, Failed
<1>5. ASSUME NEW k \in DOMAIN assessments, NEW permitted \in BOOLEAN,
             EvaluateBaselines(k, permitted) \/ InvalidateDependency(k, permitted)
      PROVE  graphs' = graphs
  BY <1>5 DEF EvaluateBaselines, InvalidateDependency, Failed
<1> QED BY <1>1, <1>2, <1>3, <1>4, <1>5 DEF Next, vars

\* Each of the other variables has one operation that writes it.
LEMMA Writers ==
    ASSUME [Next]_vars
    PROVE  /\ tasks' = tasks \/ \E c \in Candidates, g \in 0 .. Len(graphs), s \in Specs,
                                  permitted \in BOOLEAN : DeclareTask(c, g, s, permitted)
           /\ runs' = runs \/ \E i \in DOMAIN tasks :
                 \E supplied \in SUBSET (Family(tasks[i]) \cup {Stray}), accepted \in BOOLEAN :
                    ExecuteTask(i, supplied, accepted)
           /\ assessments' = assessments
                 \/ \E c \in Candidates, i \in DOMAIN tasks, j \in DOMAIN runs,
                       n \in 0 .. Len(graphs), permitted \in BOOLEAN : Assess(c, i, j, n, permitted)
           /\ invalidations' = invalidations
                 \/ \E k \in DOMAIN assessments, accepted \in BOOLEAN :
                       InvalidateDependency(k, accepted)
           /\ accounts' = accounts
                 \/ \E k \in DOMAIN assessments, permitted \in BOOLEAN :
                       EvaluateBaselines(k, permitted)
           /\ failures' = failures \/ Failed
<1>1. ASSUME NEW c \in Candidates, NEW limit \in NodeLimits, Refine(c, limit)
      PROVE  UNCHANGED <<tasks, runs, assessments, invalidations, accounts>>
             /\ (failures' = failures \/ Failed)
  BY <1>1 DEF Refine, Failed
<1>2. ASSUME NEW c \in Candidates, NEW g \in 0 .. Len(graphs), NEW s \in Specs,
             NEW permitted \in BOOLEAN, DeclareTask(c, g, s, permitted)
      PROVE  UNCHANGED <<runs, assessments, invalidations, accounts>>
             /\ (failures' = failures \/ Failed)
  BY <1>2 DEF DeclareTask, Failed
<1>3. ASSUME NEW i \in DOMAIN tasks, NEW supplied, NEW accepted \in BOOLEAN,
             ExecuteTask(i, supplied, accepted)
      PROVE  UNCHANGED <<tasks, assessments, invalidations, accounts>>
             /\ (failures' = failures \/ Failed)
  BY <1>3 DEF ExecuteTask, Failed
<1>4. ASSUME NEW c \in Candidates, NEW i \in DOMAIN tasks, NEW j \in DOMAIN runs,
             NEW n \in 0 .. Len(graphs), NEW permitted \in BOOLEAN, Assess(c, i, j, n, permitted)
      PROVE  UNCHANGED <<tasks, runs, invalidations, accounts>>
             /\ (failures' = failures \/ Failed)
  BY <1>4 DEF Assess, Failed
<1>5. ASSUME NEW k \in DOMAIN assessments, NEW permitted \in BOOLEAN,
             EvaluateBaselines(k, permitted)
      PROVE  UNCHANGED <<tasks, runs, assessments, invalidations>>
             /\ (failures' = failures \/ Failed)
  BY <1>5 DEF EvaluateBaselines, Failed
<1>6. ASSUME NEW k \in DOMAIN assessments, NEW accepted \in BOOLEAN,
             InvalidateDependency(k, accepted)
      PROVE  UNCHANGED <<tasks, runs, assessments, accounts>>
             /\ (failures' = failures \/ Failed)
  BY <1>6 DEF InvalidateDependency, Failed
<1> QED BY <1>1, <1>2, <1>3, <1>4, <1>5, <1>6 DEF Next, vars

\* A declared task has valid bounds and freezes a family of distinct units.
LEMMA TaskStep ==
    ASSUME AssessmentInv, [Next]_vars
    PROVE  tasks' = tasks \/ \E t : TaskOK(t) /\ tasks' = Append(tasks, t)
<1>1. ASSUME NEW c \in Candidates, NEW g \in 0 .. Len(graphs), NEW s \in Specs,
             NEW permitted \in BOOLEAN, DeclareTask(c, g, s, permitted), tasks' # tasks
      PROVE  \E t : TaskOK(t) /\ tasks' = Append(tasks, t)
  <2> DEFINE closure == IF g = 0 THEN <<>> ELSE graphs[g].closure
             family == <<c>> \o closure
             t == [candidate |-> c, spec |-> s, family |-> family]
  <2>1. ValidSpec(s, Len(family)) /\ tasks' = Append(tasks, t)
    BY <1>1 DEF DeclareTask, Failed
  <2>2. g # 0 => g \in DOMAIN graphs
    BY DEF AssessmentInv, Sequences5, Sequence
  <2>3. /\ closure \in Seq(Unit)
        /\ \A p \in DOMAIN closure : closure[p] \notin Candidates
        /\ \A p, q \in DOMAIN closure : p # q => closure[p] # closure[q]
    BY <2>2 DEF AssessmentInv, GraphOK
  <2> HIDE DEF closure
  <2>4. /\ family \in Seq(Unit)
        /\ \A p, q \in DOMAIN family : p # q => family[p] # family[q]
    BY <2>3, FamilyUnits
  <2> HIDE DEF family
  <2>5. TaskOK(t)
    BY <2>1, <2>4 DEF TaskOK, SpecOK, ValidSpec
  <2> QED BY <2>1, <2>5
<1> QED BY <1>1, Writers

\* The interval of a unit has its ends in order.
LEMMA IntervalTypes ==
    ASSUME NEW t, TaskOK(t), NEW score \in Scores
    PROVE  IntervalOK(Interval(t.spec, score))
<1>1. /\ score.effect \in Int /\ score.spread \in Nat
      /\ t.spec.direction \in Int /\ t.spec.tolerance \in Int
  BY ScoresAssumption, SpecsAssumption DEF TaskOK, SpecOK
<1> DEFINE mean == t.spec.direction * score.effect
           half == IF t.spec.method = "deterministic_tolerance"
                   THEN t.spec.tolerance ELSE score.spread
<1>2. mean \in Int /\ half \in Int /\ half >= 0
  BY <1>1 DEF TaskOK
<1>3. Interval(t.spec, score) = IF t.spec.method = "unavailable"
          THEN [known |-> FALSE, lower |-> mean, upper |-> mean]
          ELSE [known |-> TRUE, lower |-> mean - half, upper |-> mean + half]
  BY DEF Interval
<1> HIDE DEF mean, half
<1> QED BY <1>2, <1>3 DEF IntervalOK, IntervalType

\* A run holds typed intervals of units of its task's family only.
LEMMA RunStep ==
    ASSUME AssessmentInv, [Next]_vars
    PROVE  runs' = runs \/ \E r : RunOK(r) /\ runs' = Append(runs, r)
<1>1. ASSUME NEW i \in DOMAIN tasks, NEW supplied, NEW accepted \in BOOLEAN,
             ExecuteTask(i, supplied, accepted), runs' # runs
      PROVE  \E r : RunOK(r) /\ runs' = Append(runs, r)
  <2> DEFINE t == tasks[i]
             evaluated == Evaluated(t, supplied)
             used == Spent(t, supplied)[Len(t.family)]
             Run(scores, controls, dependency) ==
                [task |-> i, supplied |-> supplied, used |-> used,
                 intervals |-> [u \in evaluated |-> Interval(t.spec, scores[u])],
                 exhausted |-> Exhausted(t, supplied, used, evaluated),
                 controls |-> controls, dependency |-> dependency,
                 calibrated |-> t.spec.calibrated,
                 adjusted |-> t.spec.method # "unavailable"]
  <2>1. PICK scores \in [evaluated -> Scores], controls \in BOOLEAN, dependency \in BOOLEAN :
           runs' = Append(runs, Run(scores, controls, dependency))
    BY <1>1 DEF ExecuteTask, Failed
  <2>2. TaskOK(t)
    BY DEF AssessmentInv
  <2>3. evaluated \subseteq Family(t)
    BY DEF Evaluated, Family
  <2>4. Exhausted(t, supplied, used, evaluated) \in BOOLEAN /\ t.spec.calibrated \in BOOLEAN
    BY <2>2, SpecsAssumption DEF Exhausted, TaskOK, SpecOK
  <2> DEFINE r == Run(scores, controls, dependency)
             intervals == [u \in evaluated |-> Interval(t.spec, scores[u])]
  <2>5. /\ r.task = i /\ r.intervals = intervals
        /\ r.exhausted = Exhausted(t, supplied, used, evaluated)
        /\ r.controls = controls /\ r.dependency = dependency
        /\ r.calibrated = t.spec.calibrated /\ r.adjusted = (t.spec.method # "unavailable")
    OBVIOUS
  <2> HIDE DEF r, used, evaluated
  <2>6. DOMAIN intervals = evaluated /\ \A u \in evaluated : IntervalOK(intervals[u])
    BY <2>1, <2>2, IntervalTypes
  <2>7. RunOK(r)
    BY <2>3, <2>4, <2>5, <2>6 DEF RunOK
  <2> QED BY <2>1, <2>7 DEF r
<1> QED BY <1>1, Writers

\* A record once stored keeps its number and its content.
Kept == /\ \A n \in DOMAIN graphs : n \in DOMAIN graphs' /\ graphs'[n] = graphs[n]
        /\ \A i \in DOMAIN tasks : i \in DOMAIN tasks' /\ tasks'[i] = tasks[i]
        /\ \A j \in DOMAIN runs : j \in DOMAIN runs' /\ runs'[j] = runs[j]

\* No operation rewrites a graph, a task or a run that is stored.
LEMMA RecordsKept ==
    ASSUME AssessmentInv, [Next]_vars
    PROVE  Kept /\ Sequence(graphs)' /\ Sequence(tasks)' /\ Sequence(runs)'
<1>1. Sequence(graphs) /\ Sequence(tasks) /\ Sequence(runs)
  BY DEF AssessmentInv, Sequences5
<1>2. (\A n \in DOMAIN graphs : n \in DOMAIN graphs' /\ graphs'[n] = graphs[n])
      /\ Sequence(graphs')
  <2>1. graphs' = graphs \/ \E e : graphs' = Append(graphs, e)
    BY GraphStep
  <2> QED BY <1>1, <2>1, Grown
<1>3. (\A i \in DOMAIN tasks : i \in DOMAIN tasks' /\ tasks'[i] = tasks[i])
      /\ Sequence(tasks')
  <2>1. tasks' = tasks \/ \E e : tasks' = Append(tasks, e)
    BY TaskStep
  <2> QED BY <1>1, <2>1, Grown
<1>4. (\A j \in DOMAIN runs : j \in DOMAIN runs' /\ runs'[j] = runs[j])
      /\ Sequence(runs')
  <2>1. runs' = runs \/ \E e : runs' = Append(runs, e)
    BY RunStep
  <2> QED BY <1>1, <2>1, Grown
<1> QED BY <1>2, <1>3, <1>4 DEF Kept, Sequence

\* assess() appends the verdict on the run, over the graph it stores or was given.
LEMMA AssessStep ==
    ASSUME AssessmentInv, [Next]_vars
    PROVE  assessments' = assessments
              \/ \E a : AssessmentOK(a)' /\ assessments' = Append(assessments, a)
<1>1. ASSUME NEW c \in Candidates, NEW i \in DOMAIN tasks, NEW j \in DOMAIN runs,
             NEW n \in 0 .. Len(graphs), NEW permitted \in BOOLEAN,
             Assess(c, i, j, n, permitted), assessments' # assessments
      PROVE  \E a : AssessmentOK(a)' /\ assessments' = Append(assessments, a)
  <2> DEFINE g == IF n = 0 THEN AvailabilityGraph(c) ELSE graphs[n]
             v == Verdict(c, g, tasks[i].spec, runs[j])
             new == [candidate |-> c, task |-> i, run |-> j, graph |-> StoredGraph(n),
                     status |-> v.status, reason |-> v.reason]
  <2>1. /\ Linked(c, i, j) /\ c \in DOMAIN runs[j].intervals
        /\ n # 0 => g.root = c /\ FamilyMatches(c, tasks[i], g)
        /\ graphs' = IF n = 0 THEN Append(graphs, g) ELSE graphs
        /\ Conclude(c, i, j, g, StoredGraph(n))
        /\ tasks' = tasks /\ runs' = runs
    BY <1>1 DEF Assess, Failed
  <2>2. assessments' = Append(assessments, new)
    BY <2>1 DEF Conclude
  <2>3. StoredGraph(n) \in DOMAIN graphs' /\ graphs'[StoredGraph(n)] = g
    <3>1. Sequence(graphs) /\ Len(graphs) \in Nat /\ DOMAIN graphs = 1 .. Len(graphs)
      BY DEF AssessmentInv, Sequences5, Sequence
    <3>2. CASE n = 0
      <4>1. /\ DOMAIN Append(graphs, g) = 1 .. Len(graphs) + 1
            /\ Append(graphs, g)[Len(graphs) + 1] = g
        BY <3>1, Appended
      <4> QED BY <2>1, <3>1, <3>2, <4>1 DEF StoredGraph
    <3>3. CASE n # 0
      BY <2>1, <3>1, <3>3 DEF StoredGraph
    <3> QED BY <3>2, <3>3
  <2>4. g.closed => Family(tasks[i]) = {c} \cup Nodes(g)
    <3> SUFFICES ASSUME g.closed PROVE Family(tasks[i]) = {c} \cup Nodes(g)
      OBVIOUS
    <3>1. n # 0 /\ n \in DOMAIN graphs
      BY DEF AvailabilityGraph, AssessmentInv, Sequences5, Sequence
    <3>2. GraphOK(g) /\ tasks[i].family = <<c>> \o g.closure
      BY <2>1, <3>1 DEF AssessmentInv, FamilyMatches
    <3>3. /\ g.closure \in Seq(Unit)
          /\ \A p \in DOMAIN g.closure : g.closure[p] \notin Candidates
          /\ \A p, q \in DOMAIN g.closure : p # q => g.closure[p] # g.closure[q]
      BY <3>2 DEF GraphOK
    <3> DEFINE closure == g.closure
               family == <<c>> \o closure
    <3> HIDE DEF closure
    <3>4. {family[p] : p \in DOMAIN family} = {c} \cup {closure[p] : p \in DOMAIN closure}
      BY <3>3, FamilyUnits DEF closure
    <3> QED BY <3>2, <3>4 DEF Family, Nodes, closure
  <2>5. PICK a : /\ a = new
                 /\ a.candidate = c /\ a.task = i /\ a.run = j /\ a.graph = StoredGraph(n)
                 /\ a.status = v.status /\ a.reason = v.reason
    <3> HIDE DEF v
    <3>1. \E a : a = new
      OBVIOUS
    <3> QED BY <3>1
  <2> HIDE DEF new, v, g
  <2>6. AssessmentOK(a)'
    <3>1. /\ a.candidate \in Candidates /\ a.task \in DOMAIN tasks'
          /\ a.run \in DOMAIN runs' /\ a.graph \in DOMAIN graphs'
          /\ a.candidate \in DOMAIN runs'[a.run].intervals
          /\ runs'[a.run].task = a.task
      BY <2>1, <2>3, <2>5 DEF Linked
    <3>2. graphs'[a.graph].closed =>
             Family(tasks'[a.task]) = {a.candidate} \cup Nodes(graphs'[a.graph])
      BY <2>1, <2>3, <2>4, <2>5
    <3>3. LET w == Verdict(a.candidate, graphs'[a.graph], tasks'[a.task].spec, runs'[a.run])
          IN  a.status = w.status /\ a.reason = w.reason
      BY <2>1, <2>3, <2>5 DEF v
    <3> QED BY <3>1, <3>2, <3>3 DEF AssessmentOK
  <2> QED BY <2>2, <2>5, <2>6
<1> QED BY <1>1, Writers

\* Everything assess() and execute_task() read stays well formed, whatever else happens.
LEMMA InductiveStep ==
    ASSUME AssessmentInv, [Next]_vars
    PROVE  AssessmentInv'
<1>1. Kept /\ Sequence(graphs)' /\ Sequence(tasks)' /\ Sequence(runs)'
  BY RecordsKept
<1>2. /\ Sequence(graphs) /\ Sequence(tasks) /\ Sequence(runs)
      /\ Sequence(assessments) /\ Sequence(invalidations)
  BY DEF AssessmentInv, Sequences5
<1>3. (\A n \in DOMAIN graphs : GraphOK(graphs[n]))'
  <2>1. \A n \in DOMAIN graphs : GraphOK(graphs[n])
    BY DEF AssessmentInv
  <2> QED BY <1>2, <2>1, GraphStep, Appended DEF Kept
<1>4. (\A i \in DOMAIN tasks : TaskOK(tasks[i]))'
  <2>1. \A i \in DOMAIN tasks : TaskOK(tasks[i])
    BY DEF AssessmentInv
  <2> QED BY <1>2, <2>1, TaskStep, Appended DEF Kept
<1>5. (\A j \in DOMAIN runs : RunOK(runs[j]))'
  <2>1. ASSUME NEW r, RunOK(r) PROVE RunOK(r)'
    BY <1>1, <2>1 DEF RunOK, Kept
  <2>2. \A j \in DOMAIN runs : RunOK(runs[j])
    BY DEF AssessmentInv
  <2>3. \A j \in DOMAIN runs' : \E r : r = runs'[j] /\ RunOK(r)
    BY <1>2, <2>2, RunStep, Appended
  <2> QED BY <2>1, <2>3
<1>6. /\ Sequence(assessments)'
      /\ (\A k \in DOMAIN assessments : AssessmentOK(assessments[k]))'
      /\ \A k \in DOMAIN assessments : k \in DOMAIN assessments'
                                       /\ assessments'[k] = assessments[k]
  <2>1. ASSUME NEW a, AssessmentOK(a) PROVE AssessmentOK(a)'
    <3>1. /\ a.task \in DOMAIN tasks /\ a.run \in DOMAIN runs /\ a.graph \in DOMAIN graphs
          /\ tasks'[a.task] = tasks[a.task] /\ runs'[a.run] = runs[a.run]
          /\ graphs'[a.graph] = graphs[a.graph]
          /\ a.task \in DOMAIN tasks' /\ a.run \in DOMAIN runs' /\ a.graph \in DOMAIN graphs'
      BY <1>1, <2>1 DEF AssessmentOK, Kept
    <3> QED BY <2>1, <3>1 DEF AssessmentOK
  <2>2. \A k \in DOMAIN assessments : AssessmentOK(assessments[k])
    BY DEF AssessmentInv
  <2>3. CASE assessments' = assessments
    BY <1>2, <2>1, <2>2, <2>3 DEF Sequence
  <2>4. CASE \E a : AssessmentOK(a)' /\ assessments' = Append(assessments, a)
    <3>1. PICK a : AssessmentOK(a)' /\ assessments' = Append(assessments, a)
      BY <2>4
    <3>2. /\ Sequence(assessments') /\ assessments'[Len(assessments) + 1] = a
          /\ DOMAIN assessments' = 1 .. Len(assessments) + 1
          /\ Len(assessments) \in Nat /\ DOMAIN assessments = 1 .. Len(assessments)
          /\ \A k \in DOMAIN assessments : k \in DOMAIN assessments'
                                           /\ assessments'[k] = assessments[k]
      BY <1>2, <3>1, Appended
    <3>3. ASSUME NEW k \in DOMAIN assessments' PROVE AssessmentOK(assessments[k])'
      <4>1. CASE k \in DOMAIN assessments
        <5>1. AssessmentOK(assessments[k]) /\ assessments'[k] = assessments[k]
          BY <2>2, <3>2, <4>1
        <5>2. \E b : b = assessments'[k] /\ AssessmentOK(b)
          BY <5>1
        <5> QED BY <2>1, <5>2
      <4>2. CASE k = Len(assessments) + 1
        BY <3>1, <3>2, <4>2
      <4> QED BY <3>2, <3>3, <4>1, <4>2
    <3> QED BY <3>2, <3>3 DEF Sequence
  <2> QED BY <2>3, <2>4, AssessStep
<1>7. Sequence(invalidations)' /\ (\A e \in DOMAIN invalidations :
                                      invalidations[e] \in DOMAIN assessments)'
  <2>1. \A e \in DOMAIN invalidations : invalidations[e] \in DOMAIN assessments
    BY DEF AssessmentInv
  <2>2. invalidations' = invalidations
           \/ \E k \in DOMAIN assessments : invalidations' = Append(invalidations, k)
    BY Writers DEF InvalidateDependency, Failed
  <2>3. CASE invalidations' = invalidations
    BY <1>2, <1>6, <2>1, <2>3 DEF Sequence
  <2>4. ASSUME NEW k \in DOMAIN assessments, invalidations' = Append(invalidations, k)
        PROVE  Sequence(invalidations') /\ \A e \in DOMAIN invalidations' :
                                              invalidations'[e] \in DOMAIN assessments'
    <3>1. /\ Sequence(Append(invalidations, k))
          /\ DOMAIN Append(invalidations, k) = 1 .. Len(invalidations) + 1
          /\ Append(invalidations, k)[Len(invalidations) + 1] = k
          /\ Len(invalidations) \in Nat /\ DOMAIN invalidations = 1 .. Len(invalidations)
          /\ \A e \in DOMAIN invalidations : Append(invalidations, k)[e] = invalidations[e]
      BY <1>2, Appended
    <3> QED BY <1>6, <2>1, <2>4, <3>1
  <2> QED BY <2>2, <2>3, <2>4 DEF Sequence
<1>8. (accounts \subseteq [assessment : DOMAIN assessments, exact : BOOLEAN])'
  <2>1. accounts \subseteq [assessment : DOMAIN assessments, exact : BOOLEAN]
    BY DEF AssessmentInv
  <2>2. accounts' = accounts \/ \E k \in DOMAIN assessments, exact \in BOOLEAN :
           accounts' = accounts \cup {[assessment |-> k, exact |-> exact]}
    BY Writers DEF EvaluateBaselines, Failed
  <2> QED BY <1>6, <2>1, <2>2
<1>9. (failures \in 0 .. MaxFailures)'
  <2>1. failures \in 0 .. MaxFailures /\ MaxFailures \in Nat
    BY BoundsAssumption DEF AssessmentInv
  <2>2. failures' = failures \/ (failures < MaxFailures /\ failures' = failures + 1)
    BY Writers DEF Failed
  <2> QED BY <2>1, <2>2
<1> QED BY <1>1, <1>3, <1>4, <1>5, <1>6, <1>7, <1>8, <1>9 DEF AssessmentInv, Sequences5

\* Nothing is stored at first, and unchanged variables keep the invariant.
THEOREM Inductive == Spec => []AssessmentInv
<1>1. ASSUME Init PROVE AssessmentInv
  <2>1. /\ Sequence(graphs) /\ Sequence(tasks) /\ Sequence(runs) /\ Sequence(assessments)
        /\ Sequence(invalidations)
        /\ DOMAIN graphs = {} /\ DOMAIN tasks = {} /\ DOMAIN runs = {}
        /\ DOMAIN assessments = {} /\ DOMAIN invalidations = {}
    BY <1>1, EmptySequence DEF Init
  <2>2. accounts = {} /\ failures \in 0 .. MaxFailures
    BY <1>1, BoundsAssumption DEF Init
  <2> QED BY <2>1, <2>2 DEF AssessmentInv, Sequences5
<1>2. AssessmentInv /\ [Next]_vars => AssessmentInv'
  BY InductiveStep
<1> QED BY <1>1, <1>2, PTL DEF Spec

(***************************************************************************)
(* The properties                                                          *)
(***************************************************************************)

\* What a stored assessment is: the status that VerdictMeaning gives, over a frozen family.
LEMMA StoredVerdict ==
    ASSUME AssessmentInv, NEW k \in DOMAIN assessments, NEW a, a = assessments[k],
           NEW c, c = a.candidate, NEW g, g = graphs[a.graph],
           NEW s, s = tasks[a.task].spec, NEW r, r = runs[a.run]
    PROVE  /\ c \in Candidates /\ GraphOK(g) /\ SpecOK(s) /\ EvidenceOK(c, r)
           /\ a.task \in DOMAIN tasks /\ a.run \in DOMAIN runs /\ a.graph \in DOMAIN graphs
           /\ c \notin Nodes(g)
           /\ g.closed => Family(tasks[a.task]) = {c} \cup Nodes(g)
           /\ a.status \in Statuses /\ a.reason \in Reasons
           /\ a.status = Verdict(c, g, s, r).status /\ a.reason = Verdict(c, g, s, r).reason
           /\ a.status = "rejected" <=>
                 CandidateRejects(c, s, r) \/ \E n \in Nodes(g) : NodeRejects(n, s, r)
           /\ a.status = "qualified" <=> g.closed /\ Qualifies(c, {c} \cup Nodes(g), s, r)
<1>1. AssessmentOK(a)
  BY DEF AssessmentInv
<1>2. GraphOK(g) /\ TaskOK(tasks[a.task]) /\ RunOK(r)
  BY <1>1 DEF AssessmentInv, AssessmentOK
<1>3. EvidenceOK(c, r)
  BY <1>1, <1>2 DEF AssessmentOK, RunOK, EvidenceOK
<1>4. c \in Candidates /\ SpecOK(s)
  BY <1>1, <1>2 DEF AssessmentOK, TaskOK
<1>5. c \notin Nodes(g)
  BY <1>1, <1>2 DEF AssessmentOK, GraphOK, Nodes
<1>6. a.status = Verdict(c, g, s, r).status /\ a.reason = Verdict(c, g, s, r).reason
  BY <1>1 DEF AssessmentOK
<1>7. c \in Candidates /\ GraphOK(g) /\ SpecOK(s) /\ EvidenceOK(c, r)
  BY <1>2, <1>3, <1>4
<1>9. Verdict(c, g, s, r).status \in Statuses /\ Verdict(c, g, s, r).reason \in Reasons
  BY ONLY <1>7, VerdictMeaning
<1>10. Verdict(c, g, s, r).status = "rejected" <=>
          CandidateRejects(c, s, r) \/ \E n \in Nodes(g) : NodeRejects(n, s, r)
  BY ONLY <1>7, VerdictMeaning
<1>11. Verdict(c, g, s, r).status = "qualified" <=>
          g.closed /\ Qualifies(c, {c} \cup Nodes(g), s, r)
  BY ONLY <1>7, VerdictMeaning
<1>8. /\ a.task \in DOMAIN tasks /\ a.run \in DOMAIN runs /\ a.graph \in DOMAIN graphs
      /\ g.closed => Family(tasks[a.task]) = {c} \cup Nodes(g)
  BY <1>1 DEF AssessmentOK
<1> QED BY <1>5, <1>6, <1>7, <1>8, <1>9, <1>10, <1>11

\* Records refer to stored records, and families hold each unit once.
THEOREM AssessmentTypes == Spec => []TypeOK
<1>1. AssessmentInv => TypeOK
  <2> SUFFICES ASSUME AssessmentInv PROVE TypeOK
    OBVIOUS
  <2>1. \A n \in DOMAIN graphs : graphs[n].root \in Candidates /\ graphs[n].closed \in BOOLEAN
    BY DEF AssessmentInv, GraphOK
  <2>2. \A i \in DOMAIN tasks :
           /\ tasks[i].candidate \in Candidates /\ tasks[i].spec \in Specs
           /\ \A p, q \in DOMAIN tasks[i].family :
                 p # q => tasks[i].family[p] # tasks[i].family[q]
    BY DEF AssessmentInv, TaskOK, SpecOK
  <2>3. ASSUME NEW j \in DOMAIN runs
        PROVE  LET r == runs[j]
               IN  /\ r.task \in DOMAIN tasks
                   /\ DOMAIN r.intervals \subseteq Family(tasks[r.task])
                   /\ \A u \in DOMAIN r.intervals : r.intervals[u] \in IntervalType
                   /\ {r.exhausted, r.controls, r.dependency, r.calibrated, r.adjusted}
                         \subseteq BOOLEAN
    BY <2>3 DEF AssessmentInv, RunOK, IntervalOK
  <2>4. ASSUME NEW k \in DOMAIN assessments
        PROVE  /\ assessments[k].candidate \in Candidates
               /\ assessments[k].task \in DOMAIN tasks /\ assessments[k].run \in DOMAIN runs
               /\ assessments[k].graph \in DOMAIN graphs
               /\ assessments[k].status \in Statuses /\ assessments[k].reason \in Reasons
    <3>1. /\ assessments[k].candidate \in Candidates
          /\ assessments[k].task \in DOMAIN tasks
          /\ assessments[k].run \in DOMAIN runs
          /\ assessments[k].graph \in DOMAIN graphs
      BY <2>4 DEF AssessmentInv, AssessmentOK
    <3>2. assessments[k].status \in Statuses /\ assessments[k].reason \in Reasons
      BY <2>4, StoredVerdict
    <3> QED BY <3>1, <3>2
  <2>5. /\ \A e \in DOMAIN invalidations : invalidations[e] \in DOMAIN assessments
        /\ accounts \subseteq [assessment : DOMAIN assessments, exact : BOOLEAN]
        /\ failures \in 0 .. MaxFailures
    BY DEF AssessmentInv
  <2> QED BY <2>1, <2>2, <2>3, <2>4, <2>5, Zenon DEF TypeOK
<1> QED BY <1>1, Inductive, PTL

\* assess() computes the ontology's status of the preregistered family.
THEOREM VerdictsExact == Spec => []VerdictExact
<1>1. AssessmentInv => VerdictExact
  <2> SUFFICES ASSUME AssessmentInv, NEW k \in DOMAIN assessments
               PROVE  LET a == assessments[k]
                          t == tasks[a.task]
                          r == runs[a.run]
                          rejects == CandidateRejects(a.candidate, t.spec, r)
                          nodes == Family(t) \ {a.candidate}
                      IN  IF graphs[a.graph].closed
                          THEN /\ a.status = "rejected" <=>
                                     rejects \/ \E n \in nodes : NodeRejects(n, t.spec, r)
                               /\ a.status = "qualified" <=>
                                     Qualifies(a.candidate, Family(t), t.spec, r)
                          ELSE a.status = (IF rejects THEN "rejected" ELSE "indeterminate")
    BY DEF VerdictExact
  <2> DEFINE a == assessments[k]
             c == a.candidate
             g == graphs[a.graph]
             s == tasks[a.task].spec
             r == runs[a.run]
             f == Family(tasks[a.task])
             rejects == CandidateRejects(c, s, r)
             qualifies == Qualifies(c, {c} \cup Nodes(g), s, r)
  <2>1. /\ a = assessments[k] /\ c = a.candidate /\ g = graphs[a.graph]
        /\ s = tasks[a.task].spec /\ r = runs[a.run] /\ f = Family(tasks[a.task])
        /\ rejects = CandidateRejects(c, s, r)
        /\ qualifies = Qualifies(c, {c} \cup Nodes(g), s, r)
    OBVIOUS
  <2> HIDE DEF a, c, g, s, r, f, rejects, qualifies
  <2>2. a.status \in Statuses /\ GraphOK(g) /\ c \notin Nodes(g)
    BY <2>1, StoredVerdict
  <2>3. g.closed => f = {c} \cup Nodes(g)
    BY <2>1, StoredVerdict
  <2>4. a.status = "rejected" <=> rejects \/ \E n \in Nodes(g) : NodeRejects(n, s, r)
    BY <2>1, StoredVerdict
  <2>5. a.status = "qualified" <=> g.closed /\ qualifies
    BY <2>1, StoredVerdict
  <2>6. g.closed \in BOOLEAN /\ (~g.closed => Nodes(g) = {})
    BY <2>2 DEF GraphOK
  <2>7. ASSUME g.closed
        PROVE  /\ a.status = "rejected" <=>
                     rejects \/ \E n \in f \ {c} : NodeRejects(n, s, r)
               /\ a.status = "qualified" <=> Qualifies(c, f, s, r)
    <3>1. f = {c} \cup Nodes(g) /\ f \ {c} = Nodes(g)
      BY <2>7, <2>2, <2>3
    <3> QED BY <2>1, <2>7, <2>4, <2>5, <3>1
  <2>8. ASSUME ~g.closed
        PROVE  a.status = (IF rejects THEN "rejected" ELSE "indeterminate")
    BY <2>6, <2>8, <2>2, <2>4, <2>5 DEF Statuses
  <2> QED BY <2>6, <2>7, <2>8 DEF a, c, g, s, r, f, rejects
<1> QED BY <1>1, Inductive, PTL

\* What assess() builds passes what validate_p6_semantics() asks of it.
LEMMA VerdictRecordable ==
    ASSUME NEW c, NEW g, NEW s, NEW r, NEW a, a.candidate = c,
           a.status = Verdict(c, g, s, r).status, a.reason = Verdict(c, g, s, r).reason
    PROVE  Recordable(a, g, s, r)
<1> DEFINE shown == {n \in Nodes(g) : Finite(r, n)}
           p1 == Nonmeaningful(c, s, r)
           p2 == Nonequivalent(g, s, r) # {}
           p3 == Ready(c, g, s, r) /\ Meaningful(c, s, r) /\ AllEquivalent(g, s, r)
<1>1. CASE p1
  <2>1. a.status = "rejected" /\ a.reason = "candidate_nonmeaningful"
    BY <1>1, VerdictRules
  <2>2. Finite(r, a.candidate) /\ r.intervals[a.candidate].upper < s.theta
    BY <1>1 DEF Nonmeaningful, NegativeValid
  <2> QED BY <2>1, <2>2 DEF Recordable
<1>2. CASE ~p1 /\ p2
  <2>1. a.status = "rejected" /\ a.reason = "proper_node_nonequivalent"
    BY <1>2, VerdictRules
  <2>2. \E n \in shown : r.intervals[n].upper < -s.minus \/ r.intervals[n].lower > s.plus
    BY <1>2 DEF Nonequivalent, NegativeValid, Disjoint
  <2> QED BY <2>1, <2>2 DEF Recordable
<1>3. CASE ~p1 /\ ~p2 /\ p3
  <2>1. a.status = "qualified" /\ a.reason = "meaningful_closed_equivalent"
    BY <1>3, VerdictRules
  <2>2. Finite(r, a.candidate) /\ r.intervals[a.candidate].lower >= s.theta
    BY <1>3 DEF Meaningful, NegativeValid
  <2>3. /\ Nodes(g) # {} /\ Nodes(g) \subseteq shown
        /\ \A n \in shown : r.intervals[n].lower >= -s.minus /\ r.intervals[n].upper <= s.plus
    BY <1>3 DEF AllEquivalent, NegativeValid, Contained
  <2> QED BY <2>1, <2>2, <2>3 DEF Recordable
<1>4. CASE ~p1 /\ ~p2 /\ ~p3
  <2>1. a.status = "indeterminate" /\ a.reason = IndeterminateReason(c, g, s, r)
    BY <1>4, VerdictRules
  <2> QED BY <2>1, ReasonsIndecisive DEF Recordable
<1> QED BY <1>1, <1>2, <1>3, <1>4

\* The validator run at insertion never refuses the record assess() has built.
THEOREM RecordsAccepted == Spec => []AlwaysRecorded
<1>1. AssessmentInv => AlwaysRecorded
  <2> SUFFICES ASSUME AssessmentInv, NEW k \in DOMAIN assessments
               PROVE  Recordable(assessments[k], graphs[assessments[k].graph],
                                 tasks[assessments[k].task].spec, runs[assessments[k].run])
    BY DEF AlwaysRecorded
  <2>1. AssessmentOK(assessments[k])
    BY DEF AssessmentInv
  <2> QED BY <2>1, VerdictRecordable DEF AssessmentOK
<1> QED BY <1>1, Inductive, PTL

\* Events and assessments are only appended, so an invalidation is found by every later reader.
THEOREM InvalidationsStick == Spec => InvalidationSticks
<1> DEFINE Sticks == \A k \in DOMAIN assessments :
                        /\ k \in DOMAIN assessments' /\ assessments'[k] = assessments[k]
                        /\ ~CurrentValidity(k) => ~CurrentValidity(k)'
<1>1. AssessmentInv /\ [Next]_vars => Sticks
  <2> SUFFICES ASSUME AssessmentInv, [Next]_vars, NEW k \in DOMAIN assessments
               PROVE  /\ k \in DOMAIN assessments' /\ assessments'[k] = assessments[k]
                      /\ ~CurrentValidity(k) => ~CurrentValidity(k)'
    OBVIOUS
  <2>1. Sequence(assessments) /\ Sequence(invalidations)
    BY DEF AssessmentInv, Sequences5
  <2>2. k \in DOMAIN assessments' /\ assessments'[k] = assessments[k]
    <3>1. assessments' = assessments \/ \E a : assessments' = Append(assessments, a)
      BY AssessStep
    <3> QED BY <2>1, <3>1, Grown
  <2>3. \A e \in DOMAIN invalidations :
           e \in DOMAIN invalidations' /\ invalidations'[e] = invalidations[e]
    <3>1. invalidations' = invalidations \/ \E e : invalidations' = Append(invalidations, e)
      BY Writers DEF InvalidateDependency, Failed
    <3> QED BY <2>1, <3>1, Grown
  <2>4. assessments[k].run \in DOMAIN runs
        /\ runs'[assessments[k].run] = runs[assessments[k].run]
    BY RecordsKept DEF Kept, AssessmentInv, AssessmentOK
  <2>5. ~CurrentValidity(k) => ~CurrentValidity(k)'
    BY <2>2, <2>3, <2>4 DEF CurrentValidity
  <2> QED BY <2>2, <2>5
<1>2. AssessmentInv /\ [Next]_vars => [Sticks]_vars
  BY <1>1
<1> QED BY <1>2, Inductive, PTL DEF Spec, InvalidationSticks

(***************************************************************************)
(* The budget                                                              *)
(***************************************************************************)

\* One round of execute_task()'s loop: what is spent after the i-th unit.
Round(t, supplied, i, spent) ==
    IF t.family[i] \in supplied /\ Affordable(spent, 2 * t.spec.repeats, t.spec.maximum)
    THEN spent + 2 * t.spec.repeats ELSE spent

Rounds(t, supplied, m, f) ==
    /\ f = [i \in 0 .. m |-> f[i]] /\ f[0] = 0
    /\ \A i \in 1 .. m : f[i] = Round(t, supplied, i, f[i - 1])

\* The loop has a result for every family, however long.
LEMMA RoundsExist ==
    ASSUME NEW t, NEW supplied, NEW n \in Nat
    PROVE  \E f : Rounds(t, supplied, n, f)
<1> DEFINE S == {m \in Nat : ~\E f : Rounds(t, supplied, m, f)}
<1>1. SUFFICES ASSUME S # {} PROVE FALSE
  OBVIOUS
<1>2. PICK m \in S : \A k \in S : m <= k
  BY <1>1, Least
<1>3. CASE m = 0
  <2> DEFINE f == [i \in 0 .. 0 |-> 0]
  <2>1. Rounds(t, supplied, 0, f)
    BY DEF Rounds
  <2> QED BY <1>3, <2>1
<1>4. CASE m # 0
  <2>1. m - 1 \in Nat /\ m - 1 \notin S
    BY <1>2, <1>4
  <2>2. PICK f : Rounds(t, supplied, m - 1, f)
    BY <2>1
  <2> DEFINE g == [i \in 0 .. m |-> IF i = m THEN Round(t, supplied, m, f[m - 1]) ELSE f[i]]
  <2>3. g = [i \in 0 .. m |-> g[i]] /\ g[0] = 0
    BY <1>4, <2>2 DEF Rounds
  <2>4. \A i \in 0 .. m - 1 : g[i] = f[i]
    OBVIOUS
  <2>5. ASSUME NEW i \in 1 .. m PROVE g[i] = Round(t, supplied, i, g[i - 1])
    <3>1. CASE i = m
      <4>1. g[m] = Round(t, supplied, m, f[m - 1]) /\ g[m - 1] = f[m - 1]
        BY <1>4, <2>4
      <4> QED BY <3>1, <4>1
    <3>2. CASE i # m
      <4>1. i \in 1 .. m - 1 /\ i - 1 \in 0 .. m - 1 /\ i \in 0 .. m - 1
        BY <3>2
      <4>2. f[i] = Round(t, supplied, i, f[i - 1])
        BY <2>2, <4>1 DEF Rounds
      <4> QED BY <2>4, <4>1, <4>2
    <3> QED BY <3>1, <3>2
  <2>6. Rounds(t, supplied, m, g)
    BY <2>3, <2>5 DEF Rounds
  <2> QED BY <2>6
<1> QED BY <1>3, <1>4

\* Spent is that result.
LEMMA SpentRounds ==
    ASSUME NEW t, NEW supplied, Len(t.family) \in Nat
    PROVE  Rounds(t, supplied, Len(t.family), Spent(t, supplied))
<1> DEFINE n == Len(t.family)
           Result(f) == f = [i \in 0 .. n |->
              IF i = 0 THEN 0
              ELSE IF t.family[i] \in supplied
                      /\ Affordable(f[i - 1], 2 * t.spec.repeats, t.spec.maximum)
                   THEN f[i - 1] + 2 * t.spec.repeats
                   ELSE f[i - 1]]
<1>1. PICK f : Rounds(t, supplied, n, f)
  BY RoundsExist
<1>2. Result(f)
  <2>1. \A i \in 0 .. n : i # 0 => i \in 1 .. n
    OBVIOUS
  <2> QED BY <1>1, <2>1 DEF Rounds, Round
<1>3. Spent(t, supplied) = CHOOSE e : Result(e)
  BY DEF Spent
<1>4. PICK e : e = Spent(t, supplied) /\ Result(e)
  BY <1>2, <1>3
<1>5. /\ DOMAIN e = 0 .. n
      /\ \A i \in 0 .. n : e[i] = IF i = 0 THEN 0 ELSE Round(t, supplied, i, e[i - 1])
  BY <1>4, Zenon DEF Round
<1>6. e = [i \in 0 .. n |-> e[i]]
  BY <1>4
<1>7. Rounds(t, supplied, n, e)
  <2>1. 0 \in 0 .. n /\ \A i \in 1 .. n : i \in 0 .. n /\ i # 0
    OBVIOUS
  <2> QED BY <1>5, <1>6, <2>1 DEF Rounds
<1> QED BY <1>4, <1>7

\* The units among the first i of the family that were paid for.
Paid(t, used, i) == {t.family[j] : j \in {k \in 1 .. i : used[k] > used[k - 1]}}

\* The numbers of an accepted specification.
LEMMA SpecBounds ==
    ASSUME NEW t, TaskOK(t)
    PROVE  t.spec.repeats \in Nat /\ t.spec.repeats >= 1 /\ t.spec.maximum \in Nat /\ t.spec.maximum >= 2
<1>1. t.spec \in Specs /\ t.spec.repeats >= 1 /\ t.spec.maximum >= 2
  BY DEF TaskOK, SpecOK
<1>2. t.spec.repeats \in Int /\ t.spec.maximum \in Int
  BY <1>1, SpecsAssumption
<1> QED BY <1>1, <1>2

\* The arithmetic of one more evaluation, which is not linear.
LEMMA OneMore ==
    ASSUME NEW a \in Nat, NEW b \in Nat
    PROVE  a * (b + 1) = a * b + a /\ a * 0 = 0 /\ a * b \in Nat
OBVIOUS

\* Every unit that was paid for cost the same, and the budget was never passed.
LEMMA SpentCounts ==
    ASSUME NEW t, TaskOK(t), NEW supplied, NEW used, Rounds(t, supplied, Len(t.family), used)
    PROVE  \A i \in 0 .. Len(t.family) :
              /\ used[i] \in Nat /\ used[i] <= t.spec.maximum
              /\ IsFiniteSet(Paid(t, used, i))
              /\ used[i] = 2 * t.spec.repeats * Cardinality(Paid(t, used, i))
<1> PICK cost : cost = 2 * t.spec.repeats
  OBVIOUS
<1> PICK n : n = Len(t.family)
  OBVIOUS
<1> PICK maximum : maximum = t.spec.maximum
  OBVIOUS
<1> DEFINE Good(i) == /\ used[i] \in Nat /\ used[i] <= maximum
                      /\ IsFiniteSet(Paid(t, used, i))
                      /\ used[i] = cost * Cardinality(Paid(t, used, i))
           S == {i \in 0 .. n : ~Good(i)}
<1>1. /\ cost \in Nat /\ cost >= 2 /\ maximum \in Nat /\ n \in Nat
      /\ \A i \in 1 .. n, j \in 1 .. n : i # j => t.family[i] # t.family[j]
  <2>1. t.spec.repeats \in Nat /\ t.spec.repeats >= 1 /\ t.spec.maximum \in Nat
    BY SpecBounds
  <2>2. n \in Nat /\ \A i \in 1 .. n, j \in 1 .. n : i # j => t.family[i] # t.family[j]
    BY DEF TaskOK
  <2> QED BY <2>1, <2>2
<1>2. /\ used[0] = 0
      /\ \A i \in 1 .. n : used[i] = IF t.family[i] \in supplied /\ used[i - 1] + cost <= maximum
                                     THEN used[i - 1] + cost ELSE used[i - 1]
  BY DEF Rounds, Round, Affordable
<1>3. SUFFICES ASSUME S # {} PROVE FALSE
  <2>1. \A i \in 0 .. n : Good(i)
    BY <1>3
  <2> QED BY <2>1
<1>4. PICK i \in S : \A j \in S : i <= j
  <2>1. S \in SUBSET Nat
    BY <1>1
  <2> QED BY <1>3, <2>1, Least
<1>5. i # 0
  <2>1. Paid(t, used, 0) = {}
    BY DEF Paid
  <2>2. IsFiniteSet({}) /\ Cardinality({}) = 0
    BY FS_EmptySet
  <2>3. cost * 0 = 0
    BY <1>1, OneMore
  <2>4. cost * Cardinality(Paid(t, used, 0)) = 0 /\ IsFiniteSet(Paid(t, used, 0))
    BY <2>1, <2>2, <2>3
  <2>5. Good(0)
    BY <1>1, <1>2, <2>4
  <2> QED BY <1>4, <2>5
<1>6. i \in 1 .. n /\ i - 1 \in 0 .. n /\ i - 1 \in Nat
  BY <1>1, <1>4, <1>5
<1>7. Good(i - 1)
  BY <1>4, <1>6
<1> DEFINE before == Paid(t, used, i - 1)
           after == Paid(t, used, i)
<1>8. Cardinality(before) \in Nat
  BY <1>7, FS_CardinalityType
<1>9. CASE t.family[i] \in supplied /\ used[i - 1] + cost <= maximum
  <2>1. used[i] = used[i - 1] + cost /\ used[i] > used[i - 1]
    BY <1>1, <1>2, <1>6, <1>7, <1>9
  <2>2. after = before \cup {t.family[i]}
    <3>1. \A k \in 1 .. i : k \in 1 .. i - 1 \/ k = i
      BY <1>6
    <3>2. \A k \in 1 .. i - 1 : k \in 1 .. i
      BY <1>6
    <3>3. i \in 1 .. i
      BY <1>6
    <3> QED BY <2>1, <3>1, <3>2, <3>3 DEF Paid
  <2>3. t.family[i] \notin before
    <3>1. \A k \in 1 .. i - 1 : k \in 1 .. n /\ k # i
      BY <1>6
    <3> QED BY <1>1, <1>6, <3>1 DEF Paid
  <2>4. IsFiniteSet(after) /\ Cardinality(after) = Cardinality(before) + 1
    <3>1. IsFiniteSet(before)
      BY <1>7
    <3> HIDE DEF before, after
    <3> QED BY <2>2, <2>3, <3>1, FS_AddElement
  <2>5. cost * (Cardinality(before) + 1) = cost * Cardinality(before) + cost
    BY <1>1, <1>8, OneMore
  <2>6. Good(i)
    BY <1>1, <1>7, <1>9, <2>1, <2>4, <2>5
  <2> QED BY <1>4, <2>6
<1>10. CASE ~(t.family[i] \in supplied /\ used[i - 1] + cost <= maximum)
  <2>1. used[i] = used[i - 1]
    BY <1>2, <1>6, <1>10
  <2>2. after = before
    <3>1. \A k \in 1 .. i : k \in 1 .. i - 1 \/ k = i
      BY <1>6
    <3>2. \A k \in 1 .. i - 1 : k \in 1 .. i
      BY <1>6
    <3>3. ~(used[i] > used[i - 1])
      BY <1>7, <2>1
    <3> QED BY <3>1, <3>2, <3>3 DEF Paid
  <2> QED BY <1>4, <1>7, <2>1, <2>2
<1> QED BY <1>9, <1>10

\* What is spent is not given back.
LEMMA SpentGrows ==
    ASSUME NEW t, TaskOK(t), NEW supplied, NEW used, Rounds(t, supplied, Len(t.family), used),
           NEW p \in 0 .. Len(t.family), NEW q \in 0 .. Len(t.family), p <= q
    PROVE  used[p] <= used[q]
<1> PICK n : n = Len(t.family) /\ n \in Nat
  BY DEF TaskOK
<1> DEFINE S == {k \in p .. n : ~(used[p] <= used[k])}
<1>1. SUFFICES ASSUME S # {} PROVE FALSE
  BY <1>1
<1>2. PICK k \in S : \A j \in S : k <= j
  <2>1. S \in SUBSET Nat
    OBVIOUS
  <2> QED BY <1>1, <2>1, Least
<1>3. \A i \in 0 .. n : used[i] \in Nat
  BY SpentCounts
<1>4. k # p
  BY <1>2, <1>3
<1>5. k \in 1 .. n /\ k - 1 \in p .. n /\ k - 1 \in 0 .. n /\ k \in 0 .. n
  BY <1>2, <1>4
<1>6. used[p] <= used[k - 1]
  BY <1>2, <1>5
<1>7. used[k - 1] <= used[k]
  <2>1. used[k] = Round(t, supplied, k, used[k - 1])
    BY <1>1, <1>5 DEF Rounds
  <2>2. t.spec.repeats \in Nat
    BY SpecBounds
  <2>3. PICK a \in Nat : a = used[k - 1]
    BY <1>3, <1>5
  <2>4. PICK b \in Nat : b = 2 * t.spec.repeats
    BY <2>2
  <2>5. used[k] = a + b \/ used[k] = a
    BY <2>1, <2>3, <2>4 DEF Round
  <2> QED BY <2>3, <2>4, <2>5
<1> QED BY <1>2, <1>3, <1>5, <1>6, <1>7

\* What the loop leaves of a family and its evidence.
LEMMA LoopResult ==
    ASSUME NEW t, TaskOK(t), NEW supplied,
           NEW evaluated, evaluated = Evaluated(t, supplied),
           NEW total, total = Spent(t, supplied)[Len(t.family)]
    PROVE  /\ evaluated \subseteq supplied /\ evaluated \subseteq Family(t)
           /\ total \in Nat /\ total <= t.spec.maximum
           /\ total = 2 * t.spec.repeats * Cardinality(evaluated)
           /\ total >= t.spec.maximum => supplied # {}
           /\ \A p, q \in DOMAIN t.family :
                 p < q /\ t.family[q] \in evaluated /\ t.family[p] \in supplied
                    => t.family[p] \in evaluated
<1> PICK n : n = Len(t.family) /\ n \in Nat /\ DOMAIN t.family = 1 .. n
  BY DEF TaskOK
<1> PICK used : used = Spent(t, supplied)
  OBVIOUS
<1> PICK cost : cost = 2 * t.spec.repeats
  OBVIOUS
<1>1. cost \in Nat /\ cost > 0 /\ t.spec.maximum \in Nat /\ t.spec.maximum >= 2
  BY SpecBounds
<1>2. Rounds(t, supplied, n, used)
  BY SpentRounds
<1>3. evaluated = {t.family[i] : i \in {j \in 1 .. n : used[j] > used[j - 1]}}
  BY DEF Evaluated
<1>4. evaluated = Paid(t, used, n) /\ total = used[n] /\ n \in 0 .. n
  BY <1>3 DEF Paid
<1>5. \A i \in 0 .. n : used[i] \in Nat /\ used[i] <= t.spec.maximum
  BY <1>2, SpentCounts
<1>6. total = cost * Cardinality(evaluated)
  BY <1>2, <1>4, SpentCounts
<1>7. \A j \in 1 .. n : used[j] = IF t.family[j] \in supplied /\ used[j - 1] + cost <= t.spec.maximum
                                  THEN used[j - 1] + cost ELSE used[j - 1]
  BY <1>2 DEF Rounds, Round, Affordable
<1>8. \A j \in 1 .. n : used[j - 1] \in Nat /\ (used[j] > used[j - 1] => t.family[j] \in supplied)
  <2> TAKE j \in 1 .. n
  <2>1. j - 1 \in 0 .. n
    OBVIOUS
  <2>2. used[j - 1] \in Nat
    BY <1>5, <2>1
  <2> QED BY <1>7, <2>2
<1>9. evaluated \subseteq supplied /\ evaluated \subseteq Family(t)
  BY <1>3, <1>8 DEF Family
<1>10. total >= t.spec.maximum => supplied # {}
  <2> SUFFICES ASSUME supplied = {} PROVE total < t.spec.maximum
    BY <1>1, <1>4, <1>5
  <2>1. evaluated = {}
    BY <1>9
  <2>2. Cardinality(evaluated) = 0
    BY <2>1, FS_EmptySet
  <2>3. cost * 0 = 0
    BY <1>1, OneMore
  <2> QED BY <1>1, <1>6, <2>2, <2>3
<1>11. ASSUME NEW p \in 1 .. n, NEW q \in 1 .. n, p < q,
              t.family[q] \in evaluated, t.family[p] \in supplied
       PROVE  t.family[p] \in evaluated
  <2>1. used[q] > used[q - 1]
    <3>1. PICK j \in 1 .. n : t.family[j] = t.family[q] /\ used[j] > used[j - 1]
      BY <1>3, <1>11
    <3>2. j = q
      BY <3>1 DEF TaskOK
    <3> QED BY <3>1, <3>2
  <2>2. p - 1 \in 0 .. n /\ q - 1 \in 0 .. n /\ p - 1 <= q - 1
    BY <1>11
  <2>3. used[p - 1] <= used[q - 1]
    BY <1>2, <2>2, SpentGrows
  <2>4. used[p - 1] \in Nat /\ used[q - 1] \in Nat
    BY <1>5, <2>2
  <2>5. used[q - 1] + cost <= t.spec.maximum
    BY <1>7, <2>1, <2>4
  <2>6. used[p - 1] + cost <= t.spec.maximum
    BY <1>1, <2>3, <2>4, <2>5
  <2>7. used[p] > used[p - 1]
    <3>1. PICK a \in Nat : a = used[p - 1]
      BY <2>4
    <3>2. used[p] = a + cost
      BY <1>7, <1>11, <2>6, <3>1
    <3> QED BY <1>1, <3>1, <3>2
  <2> QED BY <1>3, <2>7
<1> QED BY <1>4, <1>5, <1>6, <1>9, <1>10, <1>11

\* What a run says of the task it was made for: BudgetHonest, for one run, and its flags.
RunOf(t, r) ==
    LET evaluated == DOMAIN r.intervals
    IN  /\ evaluated \subseteq r.supplied /\ r.supplied \subseteq Family(t)
        /\ r.used = 2 * t.spec.repeats * Cardinality(evaluated)
        /\ r.used <= t.spec.maximum
        /\ r.supplied # evaluated => r.exhausted
        /\ r.exhausted => evaluated # Family(t) /\ r.supplied # {}
        /\ \A p, q \in DOMAIN t.family :
              p < q /\ t.family[q] \in evaluated /\ t.family[p] \in r.supplied
                 => t.family[p] \in evaluated
        /\ t.spec.calibrated => r.calibrated
        /\ t.spec.method # "unavailable" => r.adjusted
        /\ \A u \in evaluated : r.adjusted <=> r.intervals[u].known

RunsInv == \A j \in DOMAIN runs : RunOf(tasks[runs[j].task], runs[j])

\* Only execute_task() stores a run, and what it stores is LoopResult.
LEMMA RunsStep ==
    ASSUME AssessmentInv, RunsInv, [Next]_vars
    PROVE  RunsInv'
<1>1. Kept /\ Sequence(runs)
  BY RecordsKept DEF AssessmentInv, Sequences5
<1>2. ASSUME NEW j \in DOMAIN runs PROVE RunOf(tasks'[runs[j].task], runs[j])
  <2>1. tasks'[runs[j].task] = tasks[runs[j].task]
    BY <1>1 DEF Kept, AssessmentInv, RunOK
  <2> QED BY <2>1 DEF RunsInv
<1>3. CASE runs' = runs
  BY <1>2, <1>3 DEF RunsInv
<1>4. ASSUME NEW i \in DOMAIN tasks, NEW supplied, NEW accepted \in BOOLEAN,
             ExecuteTask(i, supplied, accepted), runs' # runs
      PROVE  RunsInv'
  <2> DEFINE t == tasks[i]
             evaluated == Evaluated(t, supplied)
             total == Spent(t, supplied)[Len(t.family)]
             Run(scores, controls, dependency) ==
                [task |-> i, supplied |-> supplied, used |-> total,
                 intervals |-> [u \in evaluated |-> Interval(t.spec, scores[u])],
                 exhausted |-> Exhausted(t, supplied, total, evaluated),
                 controls |-> controls, dependency |-> dependency,
                 calibrated |-> t.spec.calibrated,
                 adjusted |-> t.spec.method # "unavailable"]
  <2>1. supplied \subseteq Family(t) /\ tasks' = tasks
        /\ \E scores \in [evaluated -> Scores], controls, dependency \in BOOLEAN :
              runs' = Append(runs, Run(scores, controls, dependency))
    BY <1>4 DEF ExecuteTask, Failed
  <2>2. PICK scores \in [evaluated -> Scores], controls \in BOOLEAN, dependency \in BOOLEAN :
           runs' = Append(runs, Run(scores, controls, dependency))
    BY <2>1
  <2>8. evaluated = Evaluated(t, supplied) /\ total = Spent(t, supplied)[Len(t.family)]
    OBVIOUS
  <2> HIDE DEF evaluated, total
  <2> PICK intervals : intervals = [u \in evaluated |-> Interval(t.spec, scores[u])]
    OBVIOUS
  <2> PICK r : r = Run(scores, controls, dependency)
    OBVIOUS
  <2>3. /\ r.task = i /\ r.supplied = supplied /\ r.used = total /\ r.intervals = intervals
        /\ r.exhausted = Exhausted(t, supplied, total, evaluated)
        /\ r.calibrated = t.spec.calibrated /\ r.adjusted = (t.spec.method # "unavailable")
    OBVIOUS
  <2>4. TaskOK(t)
    BY DEF AssessmentInv
  <2>5. /\ evaluated \subseteq supplied /\ evaluated \subseteq Family(t)
        /\ total \in Nat /\ total <= t.spec.maximum
        /\ total = 2 * t.spec.repeats * Cardinality(evaluated)
        /\ total >= t.spec.maximum => supplied # {}
        /\ \A p, q \in DOMAIN t.family :
              p < q /\ t.family[q] \in evaluated /\ t.family[p] \in supplied
                 => t.family[p] \in evaluated
    BY <2>4, <2>8, LoopResult
  <2>6. RunOf(t, r)
    <3>1. DOMAIN r.intervals = evaluated
      BY <2>3
    <3>2. r.supplied # evaluated => r.exhausted
      BY <2>1, <2>3, <2>5 DEF Exhausted
    <3>3. r.exhausted => evaluated # Family(t) /\ r.supplied # {}
      BY <2>1, <2>3, <2>5 DEF Exhausted
    <3>4. (t.spec.calibrated => r.calibrated) /\ (t.spec.method # "unavailable" => r.adjusted)
      BY <2>3
    <3>5. \A u \in evaluated : r.adjusted <=> r.intervals[u].known
      BY <2>3 DEF Interval
    <3> QED BY <2>1, <2>3, <2>5, <3>1, <3>2, <3>3, <3>4, <3>5 DEF RunOf
  <2>7. \A j \in DOMAIN runs' : \/ j \in DOMAIN runs /\ runs'[j] = runs[j]
                                \/ runs'[j] = r
    BY <1>1, <2>2, Appended
  <2> QED BY <1>2, <2>1, <2>3, <2>6, <2>7 DEF RunsInv
<1> QED BY <1>3, <1>4, Writers

\* Every stored run is what the loop of execute_task() makes of its task and evidence.
THEOREM RunsAccounted == Spec => []RunsInv
<1>1. Init => RunsInv
  BY EmptySequence DEF Init, RunsInv
<1> QED BY <1>1, RunsStep, Inductive, PTL DEF Spec

\* Assessment.BudgetHonest: for every family, budget and evidence, a run spends what its
\* evaluations cost and no more than it may, skips no affordable unit for a later
\* one, and is exhausted exactly when evidence was left unread or could not be paid.
THEOREM BudgetsHonest == Spec => []BudgetHonest
<1>1. RunsInv => BudgetHonest
  BY DEF RunsInv, RunOf, BudgetHonest
<1> QED BY <1>1, RunsAccounted, PTL

(***************************************************************************)
(* The reasons                                                             *)
(***************************************************************************)

\* With closure, family and flags in order, assess() settles what no interval straddles.
LEMMA Settled ==
    ASSUME NEW c \in Candidates, NEW g, GraphOK(g), NEW s, SpecOK(s), NEW r, EvidenceOK(c, r),
           g.closed, r.adjusted, r.controls, r.calibrated, r.dependency,
           \A u \in DOMAIN r.intervals : r.intervals[u].known,
           Nodes(g) \subseteq DOMAIN r.intervals,
           ~(r.intervals[c].lower < s.theta /\ s.theta <= r.intervals[c].upper),
           \A n \in Nodes(g) : Contained(r.intervals[n], s) \/ Disjoint(r.intervals[n], s)
    PROVE  Verdict(c, g, s, r).status # "indeterminate"
<1>1. \A u \in DOMAIN r.intervals : NegativeValid(r, u)
  BY DEF NegativeValid, Finite
<1>2. c \in DOMAIN r.intervals /\ IntervalOK(r.intervals[c])
  BY DEF EvidenceOK
<1>3. CASE Nonequivalent(g, s, r) # {}
  BY <1>3, VerdictRules
<1>4. CASE Nonmeaningful(c, s, r)
  BY <1>4, VerdictRules
<1>5. CASE Nonequivalent(g, s, r) = {} /\ ~Nonmeaningful(c, s, r)
  <2>1. Nodes(g) # {} /\ s.disjoint
    BY DEF GraphOK, SpecOK
  <2>2. AllEquivalent(g, s, r)
    BY <1>1, <1>5, <2>1 DEF Nonequivalent, AllEquivalent
  <2>3. Meaningful(c, s, r)
    <3>1. r.intervals[c].lower \in Int /\ r.intervals[c].upper \in Int /\ s.theta \in Int
      BY <1>2, SpecsAssumption DEF IntervalOK, IntervalType, SpecOK
    <3> QED BY <1>1, <1>2, <1>5, <3>1 DEF Meaningful, Nonmeaningful
  <2>4. Ready(c, g, s, r)
    BY <1>1, <1>2, <2>1 DEF Ready
  <2> QED BY <1>5, <2>2, <2>3, <2>4, VerdictRules
<1> QED BY <1>3, <1>4, <1>5

\* The reason of an indeterminate assessment is the one that the cascade gives.
LEMMA GivenReason ==
    ASSUME NEW c, NEW g, NEW s, NEW r, NEW x, x = Verdict(c, g, s, r).reason,
           x \notin {"meaningful_closed_equivalent", "candidate_nonmeaningful",
                    "proper_node_nonequivalent"}
    PROVE  x = IndeterminateReason(c, g, s, r) /\ Verdict(c, g, s, r).status = "indeterminate"
BY VerdictRules

\* Each reason of the cascade, on one candidate, graph, task and run.
LEMMA ReasonHolds ==
    ASSUME NEW c \in Candidates, NEW g, GraphOK(g), NEW t, SpecOK(t.spec),
           NEW r, EvidenceOK(c, r), RunOf(t, r), c \notin Nodes(g),
           g.closed => Family(t) = {c} \cup Nodes(g),
           NEW x, x = Verdict(c, g, t.spec, r).reason
    PROVE  LET lacking == Family(t) \ DOMAIN r.intervals
               straddles(u, low, high) ==
                  /\ u \in DOMAIN r.intervals
                  /\ \/ r.intervals[u].lower < low /\ r.intervals[u].upper >= low
                     \/ r.intervals[u].lower <= high /\ r.intervals[u].upper > high
           IN  /\ x = "empty_proper_set" => Terminal(c)
               /\ x = "uncertainty_contract_missing" => t.spec.method = "unavailable"
               /\ x = "budget_exhausted" => lacking # {} /\ r.supplied # {}
               /\ x = "calibration_unavailable" => ~t.spec.calibrated
               /\ x = "artifact_control_failed" => ~r.controls
               /\ x = "closure_unavailable" => ~g.closed
               /\ x = "required_evidence_unavailable" => ~r.dependency \/ lacking # {}
               /\ x = "candidate_boundary_crossing" => straddles(c, t.spec.theta, t.spec.theta - 1)
               /\ x = "proper_node_boundary_crossing" =>
                      \E n \in Family(t) \ {c} : straddles(n, -t.spec.minus, t.spec.plus)
<1> DEFINE s == t.spec
           lacking == Family(t) \ DOMAIN r.intervals
           straddles(u, low, high) ==
              /\ u \in DOMAIN r.intervals
              /\ \/ r.intervals[u].lower < low /\ r.intervals[u].upper >= low
                 \/ r.intervals[u].lower <= high /\ r.intervals[u].upper > high
           crossing(n) == /\ NegativeValid(r, n)
                          /\ ~Contained(r.intervals[n], s) /\ ~Disjoint(r.intervals[n], s)
<1>1. CASE x \in {"meaningful_closed_equivalent", "candidate_nonmeaningful",
                  "proper_node_nonequivalent"}
  BY <1>1
<1>2. CASE x \notin {"meaningful_closed_equivalent", "candidate_nonmeaningful",
                     "proper_node_nonequivalent"}
  <2>1. x = IndeterminateReason(c, g, s, r) /\ Verdict(c, g, s, r).status = "indeterminate"
    BY <1>2, GivenReason
  <2>2. \A u : NegativeValid(r, u) => u \in DOMAIN r.intervals /\ IntervalOK(r.intervals[u])
    BY DEF NegativeValid, Finite, EvidenceOK
  <2>3. s.theta \in Int /\ s.minus \in Int /\ s.plus \in Int
    BY SpecsAssumption DEF SpecOK
  <2>4. x = "candidate_boundary_crossing" => straddles(c, s.theta, s.theta - 1)
    BY <2>1, <2>2, ReasonsIndecisive
  <2>5. x = "proper_node_boundary_crossing" =>
           \E n \in Family(t) \ {c} : straddles(n, -s.minus, s.plus)
    <3> SUFFICES ASSUME x = "proper_node_boundary_crossing"
                 PROVE  \E n \in Family(t) \ {c} : straddles(n, -s.minus, s.plus)
      OBVIOUS
    <3>1. PICK n \in Nodes(g) : crossing(n)
      BY <2>1, ReasonsIndecisive
    <3>2. n \in Family(t) \ {c}
      BY <3>1 DEF GraphOK
    <3>3. straddles(n, -s.minus, s.plus)
      <4>1. IntervalOK(r.intervals[n]) /\ n \in DOMAIN r.intervals
        BY <2>2, <3>1
      <4>2. r.intervals[n].lower \in Int /\ r.intervals[n].upper \in Int
        BY <4>1 DEF IntervalOK, IntervalType
      <4> QED BY <2>3, <3>1, <4>1, <4>2 DEF Contained, Disjoint
    <3> QED BY <3>2, <3>3
  <2>6. x = "required_evidence_unavailable" => ~r.dependency \/ lacking # {}
    <3> SUFFICES ASSUME x = "required_evidence_unavailable", r.dependency, lacking = {} PROVE FALSE
      OBVIOUS
    <3>1. c \in DOMAIN r.intervals
      BY DEF EvidenceOK
    <3>2. Nodes(g) \subseteq DOMAIN r.intervals
      BY DEF GraphOK
    <3>3. /\ r.adjusted /\ r.calibrated /\ r.controls /\ r.dependency /\ g.closed
          /\ ~(/\ NegativeValid(r, c)
               /\ r.intervals[c].lower < s.theta /\ s.theta <= r.intervals[c].upper)
          /\ \A n \in Nodes(g) : ~crossing(n)
      BY <2>1, <3>1, <3>2, ReasonsIndecisive
    <3>4. \A u \in DOMAIN r.intervals : r.intervals[u].known /\ NegativeValid(r, u)
      BY <3>3 DEF RunOf, NegativeValid, Finite
    <3> QED BY <2>1, <3>1, <3>2, <3>3, <3>4, Settled
  <2>7. /\ x = "budget_exhausted" => lacking # {} /\ r.supplied # {}
        /\ x = "calibration_unavailable" => ~t.spec.calibrated
        /\ x = "uncertainty_contract_missing" => t.spec.method = "unavailable"
    <3>1. r.exhausted => lacking # {} /\ r.supplied # {}
      BY DEF RunOf
    <3> QED BY <2>1, <3>1, ReasonsIndecisive DEF RunOf
  <2>8. /\ x = "empty_proper_set" => Terminal(c)
        /\ x = "artifact_control_failed" => ~r.controls
        /\ x = "closure_unavailable" => ~g.closed
    BY <2>1, ReasonsIndecisive
  <2> QED BY <2>4, <2>5, <2>6, <2>7, <2>8
<1> QED BY <1>1, <1>2

\* Assessment.ReasonsExplained: whatever the family, the evidence and the budget,
\* the reason that the cascade gives is one that the stored evidence bears out.
THEOREM ReasonsAreExplained == Spec => []ReasonsExplained
<1>1. ASSUME AssessmentInv, RunsInv, NEW k \in DOMAIN assessments,
             NEW a, a = assessments[k], NEW t, t = tasks[a.task], NEW r, r = runs[a.run],
             NEW g, g = graphs[a.graph], NEW c, c = a.candidate
      PROVE  /\ c \in Candidates /\ GraphOK(g) /\ SpecOK(t.spec) /\ EvidenceOK(c, r)
             /\ RunOf(t, r) /\ c \notin Nodes(g)
             /\ g.closed => Family(t) = {c} \cup Nodes(g)
             /\ a.reason = Verdict(c, g, t.spec, r).reason
  <2>1. AssessmentOK(a)
    BY <1>1 DEF AssessmentInv
  <2>2. GraphOK(g) /\ TaskOK(t) /\ RunOK(r) /\ RunOf(t, r)
    BY <1>1, <2>1 DEF AssessmentInv, AssessmentOK, RunsInv
  <2>3. EvidenceOK(c, r)
    BY <1>1, <2>1, <2>2 DEF AssessmentOK, RunOK, EvidenceOK
  <2>4. c \in Candidates /\ SpecOK(t.spec) /\ c \notin Nodes(g)
    BY <1>1, <2>1, <2>2 DEF AssessmentOK, TaskOK, GraphOK, Nodes
  <2> QED BY <1>1, <2>1, <2>2, <2>3, <2>4 DEF AssessmentOK
<1>2. AssessmentInv /\ RunsInv => ReasonsExplained
  BY <1>1, ReasonHolds DEF ReasonsExplained
<1> QED BY <1>2, Inductive, RunsAccounted, PTL

(***************************************************************************)
(* The baselines                                                           *)
(***************************************************************************)

\* What evaluate_baselines() answers about the records an assessment names.
Exact(a) ==
    LET s == tasks[a.task].spec  r == runs[a.run]  g == graphs[a.graph]
        kept == ProperIntervals(r, g)
    IN  /\ CandidateStands(a.candidate, s, r)
        /\ kept # {} /\ CompleteEvidence(r, g)
        /\ \A n \in kept : Contained(r.intervals[n], s)

AccountsInv == \A x \in accounts : /\ x.assessment \in DOMAIN assessments
                                   /\ x.exact = Exact(assessments[x.assessment])

\* An answer stays true of its assessment, since no record it was read from changes.
LEMMA AccountsStep ==
    ASSUME AssessmentInv, AccountsInv, [Next]_vars
    PROVE  AccountsInv'
<1>1. Kept
  BY RecordsKept
<1>2. ASSUME NEW k \in DOMAIN assessments
      PROVE  /\ k \in DOMAIN assessments' /\ assessments'[k] = assessments[k]
             /\ Exact(assessments[k])' = Exact(assessments[k])
  <2>1. k \in DOMAIN assessments' /\ assessments'[k] = assessments[k]
    <3>1. assessments' = assessments \/ \E a : assessments' = Append(assessments, a)
      BY AssessStep
    <3> QED BY <3>1, Grown DEF AssessmentInv, Sequences5
  <2>2. PICK a : a = assessments[k]
    OBVIOUS
  <2>3. a.task \in DOMAIN tasks /\ a.run \in DOMAIN runs /\ a.graph \in DOMAIN graphs
    BY <2>2 DEF AssessmentInv, AssessmentOK
  <2>4. /\ tasks'[a.task] = tasks[a.task] /\ runs'[a.run] = runs[a.run]
        /\ graphs'[a.graph] = graphs[a.graph]
    BY <1>1, <2>3 DEF Kept
  <2>5. Exact(a)' = Exact(a)
    BY <2>4 DEF Exact
  <2> QED BY <2>1, <2>2, <2>5
<1>3. ASSUME NEW k \in DOMAIN assessments, NEW permitted \in BOOLEAN,
             EvaluateBaselines(k, permitted), accounts' # accounts
      PROVE  accounts' = accounts \cup {[assessment |-> k, exact |-> Exact(assessments[k])]}
  BY <1>3 DEF EvaluateBaselines, Failed, Exact
<1>4. ASSUME NEW x \in accounts'
      PROVE  /\ x.assessment \in DOMAIN assessments
             /\ x.exact = Exact(assessments[x.assessment])
  <2>1. CASE x \in accounts
    BY <2>1 DEF AccountsInv
  <2>2. CASE x \notin accounts
    BY <1>3, <1>4, <2>2, Writers
  <2> QED BY <2>1, <2>2
<1> QED BY <1>2, <1>4 DEF AccountsInv

\* Every answer of evaluate_baselines() is true of the records it was read from.
THEOREM AccountsHold == Spec => []AccountsInv
<1>1. Init => AccountsInv
  BY DEF Init, AccountsInv
<1> QED BY <1>1, AccountsStep, Inductive, PTL DEF Spec

\* A closure lists each node once, so counting intervals tells whether one is missing.
LEMMA CompleteMeaning ==
    ASSUME NEW g, GraphOK(g), NEW r
    PROVE  CompleteEvidence(r, g) <=> g.closed /\ \A n \in Nodes(g) : Finite(r, n)
<1> DEFINE nodes == Nodes(g)
           n == Len(g.closure)
           kept == ProperIntervals(r, g)
<1>1. n \in Nat /\ DOMAIN g.closure = 1 .. n
  BY DEF GraphOK
<1>2. ExistsBijection(1 .. n, nodes)
  <2> DEFINE f == [i \in 1 .. n |-> g.closure[i]]
  <2>1. f \in [1 .. n -> nodes]
    BY <1>1 DEF Nodes
  <2>2. \A i, j \in 1 .. n : f[i] = f[j] => i = j
    BY <1>1 DEF GraphOK
  <2>3. \A u \in nodes : \E i \in 1 .. n : f[i] = u
    BY <1>1 DEF Nodes
  <2>4. f \in Bijection(1 .. n, nodes)
    BY <2>1, <2>2, <2>3 DEF Bijection, Injection, Surjection, IsInjective
  <2> QED BY <2>4 DEF ExistsBijection
<1>3. Cardinality(nodes) = n
  BY <1>1, <1>2, FS_CountingElements
<1>4. IsFiniteSet(nodes)
  BY <1>1, <1>2, FS_NatBijection
<1>5. kept \subseteq nodes
  BY DEF ProperIntervals
<1>6. kept = nodes <=> Cardinality(kept) = Cardinality(nodes)
  BY <1>4, <1>5, FS_Subset, Zenon
<1> QED BY <1>3, <1>5, <1>6 DEF CompleteEvidence, ProperIntervals

\* The two implementations of the DSQ condition, on one candidate, graph and run.
LEMMA BaselineMeaning ==
    ASSUME NEW c \in Candidates, NEW g, GraphOK(g), NEW s, SpecOK(s),
           NEW r, EvidenceOK(c, r),
           \A u \in DOMAIN r.intervals : r.adjusted <=> r.intervals[u].known,
           NEW exact,
           exact = (/\ CandidateStands(c, s, r)
                    /\ ProperIntervals(r, g) # {} /\ CompleteEvidence(r, g)
                    /\ \A n \in ProperIntervals(r, g) : Contained(r.intervals[n], s))
    PROVE  LET rejects == CandidateRejects(c, s, r) \/ \E n \in Nodes(g) : NodeRejects(n, s, r)
               qualifies == g.closed /\ Qualifies(c, {c} \cup Nodes(g), s, r)
           IN  /\ qualifies => exact
               /\ rejects => ~exact
               /\ exact /\ r.controls /\ r.calibrated /\ r.dependency => qualifies
               /\ exact => g.closed /\ {c} \cup Nodes(g) \subseteq DOMAIN r.intervals
<1>1. exact <=> /\ Finite(r, c) /\ r.intervals[c].lower >= s.theta /\ g.closed
                /\ \A n \in Nodes(g) : Finite(r, n) /\ Contained(r.intervals[n], s)
  <2>1. g.closed => Nodes(g) # {}
    BY DEF GraphOK
  <2> QED BY <2>1, CompleteMeaning DEF ProperIntervals, CandidateStands
<1>2. c \notin Nodes(g)
  BY DEF GraphOK, Nodes
<1>3. \A u : u \in DOMAIN r.intervals =>
         /\ IntervalOK(r.intervals[u])
         /\ (\A x \in Values(r.intervals[u]) : x >= s.theta) <=> r.intervals[u].lower >= s.theta
         /\ (\A x \in Values(r.intervals[u]) : x < s.theta) <=> r.intervals[u].upper < s.theta
         /\ (Values(r.intervals[u]) \cap Negligible(s) = {}) <=> Disjoint(r.intervals[u], s)
         /\ (Values(r.intervals[u]) \subseteq Negligible(s)) <=> Contained(r.intervals[u], s)
         /\ Contained(r.intervals[u], s) => ~Disjoint(r.intervals[u], s)
  BY ValuesAndEnds DEF EvidenceOK
<1>4. ASSUME g.closed, Qualifies(c, {c} \cup Nodes(g), s, r) PROVE exact
  <2>1. \A u \in {c} \cup Nodes(g) : Conclusive(r, u)
    BY <1>4 DEF Qualifies
  <2>2. \A u \in {c} \cup Nodes(g) : Finite(r, u) /\ u \in DOMAIN r.intervals
    BY <2>1 DEF Conclusive, Finite
  <2>3. r.intervals[c].lower >= s.theta
    BY <1>3, <1>4, <2>2 DEF Qualifies
  <2>4. \A n \in Nodes(g) : Contained(r.intervals[n], s)
    BY <1>2, <1>3, <1>4, <2>2 DEF Qualifies
  <2> QED BY <1>1, <1>4, <2>2, <2>3, <2>4
<1>5. ASSUME exact PROVE ~CandidateRejects(c, s, r) /\ \A n \in Nodes(g) : ~NodeRejects(n, s, r)
  <2>1. c \in DOMAIN r.intervals /\ r.intervals[c].lower >= s.theta
    BY <1>1, <1>5 DEF Finite
  <2>2. ~(r.intervals[c].upper < s.theta)
    BY <1>3, <2>1, SpecsAssumption DEF IntervalOK, IntervalType, SpecOK
  <2>3. \A n \in Nodes(g) : n \in DOMAIN r.intervals /\ ~Disjoint(r.intervals[n], s)
    BY <1>1, <1>3, <1>5 DEF Finite
  <2> QED BY <1>3, <2>1, <2>2, <2>3 DEF CandidateRejects, NodeRejects
<1>6. ASSUME exact, r.controls, r.calibrated, r.dependency
      PROVE  g.closed /\ Qualifies(c, {c} \cup Nodes(g), s, r)
  <2>1. \A u \in {c} \cup Nodes(g) : u \in DOMAIN r.intervals /\ r.intervals[u].known
    BY <1>1, <1>6 DEF Finite
  <2>2. \A u \in {c} \cup Nodes(g) : Conclusive(r, u)
    BY <1>6, <2>1 DEF Conclusive
  <2>3. \A x \in Values(r.intervals[c]) : x >= s.theta
    BY <1>1, <1>3, <1>6, <2>1
  <2>4. \A n \in Nodes(g) : Values(r.intervals[n]) \subseteq Negligible(s)
    BY <1>1, <1>3, <1>6, <2>1
  <2> QED BY <1>1, <1>6, <2>2, <2>3, <2>4 DEF Qualifies
<1>7. exact => g.closed /\ {c} \cup Nodes(g) \subseteq DOMAIN r.intervals
  BY <1>1 DEF Finite
<1> QED BY <1>4, <1>5, <1>6, <1>7

\* Assessment.BaselinesConsistent: for every family and every score the condition that
\* evaluate_baselines() computes agrees with the status that assess() stored.
THEOREM BaselinesAgree == Spec => []BaselinesConsistent
<1>1. ASSUME AssessmentInv, RunsInv, AccountsInv, NEW x \in accounts,
             NEW a, a = assessments[x.assessment]
      PROVE  /\ a.status = "qualified" => x.exact
             /\ a.status = "rejected" => ~x.exact
             /\ a.status = "indeterminate" /\ x.exact =>
                   /\ ~(runs[a.run].controls /\ runs[a.run].calibrated /\ runs[a.run].dependency)
                   /\ DOMAIN runs[a.run].intervals = Family(tasks[a.task])
  <2> PICK c, g, s, r : /\ c = a.candidate /\ g = graphs[a.graph]
                        /\ s = tasks[a.task].spec /\ r = runs[a.run]
    OBVIOUS
  <2> DEFINE rejects == CandidateRejects(c, s, r) \/ \E n \in Nodes(g) : NodeRejects(n, s, r)
             qualifies == g.closed /\ Qualifies(c, {c} \cup Nodes(g), s, r)
  <2>1. x.assessment \in DOMAIN assessments /\ x.exact = Exact(a) /\ x.exact \in BOOLEAN
    BY <1>1 DEF AccountsInv, AssessmentInv
  <2>2. /\ c \in Candidates /\ GraphOK(g) /\ SpecOK(s) /\ EvidenceOK(c, r)
        /\ g.closed => Family(tasks[a.task]) = {c} \cup Nodes(g)
        /\ a.status = "rejected" <=> rejects
        /\ a.status = "qualified" <=> qualifies
    BY <1>1, <2>1, StoredVerdict
  <2>3. AssessmentOK(a)
    BY <1>1, <2>1 DEF AssessmentInv
  <2>4. /\ \A u \in DOMAIN r.intervals : r.adjusted <=> r.intervals[u].known
        /\ DOMAIN r.intervals \subseteq Family(tasks[a.task])
    BY <1>1, <2>3 DEF AssessmentInv, AssessmentOK, RunOK, RunsInv, RunOf
  <2>5. x.exact = (/\ CandidateStands(c, s, r)
                   /\ ProperIntervals(r, g) # {} /\ CompleteEvidence(r, g)
                   /\ \A n \in ProperIntervals(r, g) : Contained(r.intervals[n], s))
    BY <2>1 DEF Exact
  <2>6. /\ qualifies => x.exact
        /\ rejects => ~x.exact
        /\ x.exact /\ r.controls /\ r.calibrated /\ r.dependency => qualifies
        /\ x.exact => g.closed /\ {c} \cup Nodes(g) \subseteq DOMAIN r.intervals
    BY ONLY <2>2, <2>4, <2>5, BaselineMeaning, Zenon
  <2> HIDE DEF rejects, qualifies
  <2>7. a.status = "indeterminate" => ~qualifies
    BY <2>2
  <2>8. x.exact => DOMAIN r.intervals = Family(tasks[a.task])
    BY <2>2, <2>4, <2>6
  <2> QED BY <2>2, <2>6, <2>7, <2>8
<1>2. AssessmentInv /\ RunsInv /\ AccountsInv => BaselinesConsistent
  BY <1>1 DEF BaselinesConsistent
<1> QED BY <1>2, Inductive, RunsAccounted, AccountsHold, PTL

=============================================================================
