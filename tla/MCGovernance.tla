---------------------------- MODULE MCGovernance ----------------------------
(***************************************************************************)
(* Instances of Governance: a contested source and an object derived from  *)
(* it, or a source alone with room for one object still to be derived.     *)
(***************************************************************************)
EXTENDS Governance

MCObjects == {"source", "derived"}
MCLineage == [x \in MCObjects |-> IF x = "derived" THEN {"source"} ELSE {}]
MCSourceOnly == [x \in {"source"} |-> {}]
MCFeasible == [feasible : {TRUE}, limited : {FALSE}]
MCFeasibleOrNot == [feasible : BOOLEAN, limited : {FALSE}]
MCPermitted == RepairActions \cup {"appeal", "adjudicate", "export"}
=============================================================================
