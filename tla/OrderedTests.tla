---------------------------- MODULE OrderedTests ----------------------------
(* A cascade of early returns, as a list of <<condition, answer>> pairs. *)
EXTENDS Naturals, Sequences

\* The first test that holds decides; the last one of a list always holds.
FirstOf(tests) ==
    LET first == CHOOSE i \in DOMAIN tests : tests[i][1] /\ \A j \in 1 .. i - 1 : ~tests[j][1]
    IN  tests[first][2]
=============================================================================
