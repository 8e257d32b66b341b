---------------------------- MODULE MCAssessment ----------------------------
(* Two enumerated candidates, one of two cells (two proper nodes) and one   *)
(* terminal, and a meaningful bound of 2 beside a negligible region -1 .. 1. *)
EXTENDS Assessment

MCCells == <<2, 1>>

Base == [theta |-> 2, minus |-> 1, plus |-> 1, direction |-> 1,
         method |-> "deterministic_tolerance", tolerance |-> 0, repeats |-> 1,
         familySize |-> 3, maximum |-> 6, disjoint |-> TRUE, calibrated |-> TRUE]

MCSpecs == {
    Base,
    [Base EXCEPT !.maximum = 5],                                   \* room for two units
    [Base EXCEPT !.familySize = 1, !.tolerance = 1, !.maximum = 2, !.calibrated = FALSE],
    [Base EXCEPT !.method = "bonferroni_normal", !.repeats = 2, !.maximum = 12,
                 !.direction = -1],
    [Base EXCEPT !.method = "unavailable"],
    [Base EXCEPT !.plus = 2]}                                      \* BoundValid is false

\* An effect at the bound, one at the region's upper edge or across both, one beyond it.
MCScores == {[effect |-> 2, spread |-> 0], [effect |-> 1, spread |-> 1],
             [effect |-> -2, spread |-> 0]}
=============================================================================
