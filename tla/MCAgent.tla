------------------------------ MODULE MCAgent ------------------------------
(* Two boundaries.  Under the first an executor is asked about two          *)
(* opportunities and proposes revisions that may be made, one of a field the *)
(* boundary keeps, one that needs a person, one that the study policy        *)
(* blocks, a refusal, an escalation and no change.  Under the second it is   *)
(* asked about one opportunity under the four treatments.                    *)
EXTENDS Agent, TLC
CONSTANTS b, study, v1, v2, named, stranger
Symmetry == Permutations(Processes)

MCPermitted == [x \in {b, study} |-> Actions \ {"revise_bound"}]
MCMutable == [x \in {b, study} |-> {"plan", "executable_action_set"}]
MCHuman == [x \in {b, study} |-> {"resume"}]
MCApprovers == [x \in {b, study} |-> {named}]
MCCeiling == [x \in {b, study} |-> 1]
MCMaxTreatments == (b :> 2) @@ (study :> 1)
MCMaxPlans == (b :> 2) @@ (study :> 3)
MCMaxDecisions == (b :> 3) @@ (study :> 4)

Start0 == [f \in Fields |-> v1]
First == <<"revise_plan", "refuse">>
MCStates == {Start0}
MCLists == {First}

Proposal(action, changes, next) ==
    [action |-> action, changes |-> changes, next |-> next, allowed |-> TRUE,
     conditions |-> TRUE, use |-> 1]
Set(field, before, after) == <<[field |-> field, before |-> before, after |-> after]>>
Revision == Proposal("revise_plan", Set("plan", v1, v2), First)
NoChange == Proposal("no_change", <<>>, First)
Again == Proposal("revise_plan", Set("plan", v2, None), First)
MCProposals == {
    Revision, NoChange, Again,
    Proposal("revise_task", Set("task", v1, v2), First),
    [Proposal("revise_plan", Set("plan", v1, None), <<"resume">>) EXCEPT !.allowed = FALSE],
    Proposal("resume", Set("executable_action_set", v1, v2), <<"revise_plan">>),
    Proposal("refuse", <<>>, <<"escalate">>),
    Proposal("escalate", <<>>, <<"refuse">>)}
Ordinary == [authority |-> named, source |-> "permitted", fixture |-> TRUE, shadow |-> FALSE,
             human |-> FALSE]
MCRequests == {
    Ordinary,
    [Ordinary EXCEPT !.authority = stranger],
    [Ordinary EXCEPT !.source = "revoked", !.shadow = TRUE],
    [Ordinary EXCEPT !.fixture = FALSE],
    [Ordinary EXCEPT !.shadow = TRUE],
    [Ordinary EXCEPT !.human = TRUE]}

MCAnswers(boundary, o, treatment) ==
    CASE boundary = b /\ treatment = "authentic" -> IF o = 1 THEN MCProposals ELSE {Again}
      [] boundary = study /\ o = 1 ->
            CASE treatment = "authentic" -> {}
              [] treatment = "placebo" -> {NoChange, Revision}
              [] OTHER -> {NoChange}
      [] OTHER -> {}
=============================================================================
