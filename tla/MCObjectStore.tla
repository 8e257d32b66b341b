--------------------------- MODULE MCObjectStore ---------------------------
(* Small instances of ObjectStore for TLC. *)
EXTENDS ObjectStore, TLC

\* Calls are interchangeable: no action and no property names one.
Alike == Permutations(Writers)

=============================================================================
