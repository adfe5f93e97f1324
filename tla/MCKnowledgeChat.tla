-------------------------- MODULE MCKnowledgeChat --------------------------
(* KnowledgeChat on a small instance: one passage is twice as long as the others. *)
EXTENDS KnowledgeChat

CONSTANTS k1, k2, k3

Lengths == [k \in Keys |-> IF k = k1 THEN 2 ELSE 1]
=============================================================================
