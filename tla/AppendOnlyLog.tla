--------------------------- MODULE AppendOnlyLog ---------------------------
(***************************************************************************)
(* What the metadata plane promises its readers, independent of tables and *)
(* transactions: a set of records and a lineage that only grow, and one    *)
(* event log that grows at its end by at most one entry per commit.  A     *)
(* reader that has seen any of it can keep what it has seen.               *)
(***************************************************************************)
EXTENDS Naturals, Sequences

VARIABLES stored, lineage, log

Init ==
    /\ stored = {}
    /\ lineage = {}
    /\ log = <<>>

\* One commit: every identity keeps its content, and the references of the
\* records it adds appear in the lineage at the same instant.
Commit ==
    /\ stored \subseteq stored'
    /\ lineage \subseteq lineage'
    /\ \A r, s \in stored' : r.id = s.id => r = s
    /\ \A r \in stored' \ stored : \A ref \in r.refs :
         [source |-> r.id, target |-> ref.target, relation |-> ref.relation] \in lineage'
    /\ \/ log' = log
       \/ /\ Len(log') = Len(log) + 1
          /\ SubSeq(log', 1, Len(log)) = log

Spec == Init /\ [][Commit]_<<stored, lineage, log>>

=============================================================================
