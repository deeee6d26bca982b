--------------------------- MODULE MCContextCache ---------------------------
(* Values for ContextCache: the threat context lives longer, as in the code *)
EXTENDS ContextCache

MCTtl == [business |-> 1, threat |-> 2]
=============================================================================
