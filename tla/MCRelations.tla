---------------------------- MODULE MCRelations ----------------------------
(* Two arms of two candidates each, coverages in quarters, footprints of two *)
(* cells.  Evidence is a family of cases: every choice of unit evidence from *)
(* a few profiles under controls that pass, and every choice of controls for *)
(* units that agree.                                                         *)
EXTENDS Relations
CONSTANTS s1, s2, t1, t2

MCArmOf == [u \in {s1, s2, t1, t2} |-> IF u \in {s1, s2} THEN "left" ELSE "right"]

Probability == [calibrated |-> TRUE, substrate |-> "energy", kind |-> "exceedance_probability",
                effect |-> "change"]
MCContracts == {
    Probability,
    [Probability EXCEPT !.kind = "expected_energy_change", !.effect = "level"],
    [Probability EXCEPT !.calibrated = FALSE]}

Base == [threshold |-> 2, halfWidth |-> 0, effectTolerance |-> 1, effect |-> "change",
         conversions |-> {}, sourceDefault |-> 1, targetDefault |-> 1, maximumN |-> 2,
         overrides |-> <<>>, cardinalities |-> {"1:1"}, decompositions |-> <<>>,
         penalty |-> 3, tolerance |-> 0, preference |-> "fewer_edges",
         maximumEdges |-> 4, maximumSubsets |-> 16]
Stars == [Base EXCEPT !.sourceDefault = 2, !.targetDefault = 2, !.effect = "level",
                      !.cardinalities = {"1:1", "1:n", "n:1"}]
Part(S, T, relation) == [sources |-> S, targets |-> T, relation |-> relation]

MCSpecs == {
    Base,
    [Base EXCEPT !.halfWidth = 1, !.penalty = 1, !.tolerance = 1],
    [Stars EXCEPT !.preference = "more_edges", !.targetDefault = 1, !.effect = "change"],
    [Stars EXCEPT !.maximumEdges = 2, !.overrides = [u \in {s1} |-> 0]],
    [Stars EXCEPT !.preference = "more_edges", !.effect = "change",
                  !.conversions = {"left", "right"},
                  !.decompositions = <<<<Part({s1}, {t1, t2}, "split"),
                                         Part({s2}, {t1, t2}, "split")>>>>],
    [Stars EXCEPT !.preference = "more_edges", !.decompositions = <<<<>>, <<>>>>],
    [Base EXCEPT !.threshold = 5]}

Unit(footprint, lower, upper) ==
    [status |-> "valid", footprint |-> footprint, lower |-> lower, upper |-> upper,
     stated |-> TRUE]
Plain == Unit(<<2, 2>>, 0, 0)

Profiles == {
    Plain,
    Unit(<<2, 0>>, 0, 1),
    Unit(<<4, 4>>, 2, 2),
    Unit(<<0, 0>>, 0, 0)}

Odd == {
    Unit(<<6, 2>>, 0, 0),                            \* no probability
    [Plain EXCEPT !.stated = FALSE],
    [Plain EXCEPT !.status = "invalid", !.footprint = <<0, 0>>],
    [Plain EXCEPT !.status = "incomplete", !.footprint = <<0, 0>>],
    [Plain EXCEPT !.status = "capability_unavailable", !.footprint = <<0, 0>>]}

Pass == [address |-> "exists", checks |-> {"passed"}]
Failing == [Pass EXCEPT !.checks = {"passed", "failed"}]
Controls == {Pass, Failing, [Pass EXCEPT !.address = "absent"],
             [address |-> "incomplete", checks |-> {}]}            \* no entry for the pair

\* Requests on one unit of an arm are about its first one; the arms exchanged, on agreeing units.
MCEvidenceOf(S, T) ==
    LET plain == [units |-> [u \in S \cup T |-> Plain], controls |-> [p \in S \X T |-> Pass]]
        both == S \cup T = {s1, s2, t1, t2}
    IN  IF S \cap T # {} \/ Cardinality(S \X T) > 4 THEN {}
        ELSE IF Cardinality(S \X T) < 2 \/ s1 \notin S \/ t1 \notin T THEN {plain}
        ELSE {[plain EXCEPT !.units = units] :
                 units \in {f \in [S \cup T -> Profiles] : f[s1] = Plain}}
             \cup {[plain EXCEPT !.controls = controls] :
                       controls \in [S \X T -> IF both THEN Controls \ {Failing} ELSE Controls]}
             \cup {[plain EXCEPT !.units[s1] = x] : x \in Odd}
=============================================================================
