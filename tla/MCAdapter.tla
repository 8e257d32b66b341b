----------------------------- MODULE MCAdapter -----------------------------
(* A text that is taken in, under policies that let it be encoded or not; a *)
(* capture of it with two candidates, one of them addressable, and a         *)
(* capture of another content.                                               *)
EXTENDS Archive, TLC
CONSTANTS x, y, values, others

MCSurface == [kinds |-> {"text"}, operations |-> {"decode", "encode"}, rates |-> {8}, channels |-> 1]
Text == [kind |-> "text", bytes |-> x, derivative |-> NoBytes, rate |-> 0, target |-> 0,
         normalized |-> FALSE, channels |-> 1, allowed |-> TRUE, wellformed |-> TRUE]
MCInputs == {Text}
MCPolicies == {[authorized |-> TRUE, operations |-> o, frequency |-> 0] : o \in {{"encode"}, {"decode"}}}
Captured == [bytes |-> values, source |-> x, candidates |-> <<TRUE, FALSE>>, wellformed |-> TRUE]
MCCaptures == {Captured, [Captured EXCEPT !.bytes = others, !.source = y]}

MCAuthority == [id |-> <<"authority", 0>>, refs |-> {}, bytes |-> NoBytes, data |-> NoBytes]

\* Nothing tells one client from another.
Symmetry == Permutations(Clients)
=============================================================================
