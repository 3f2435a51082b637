----------------------------- MODULE MCLlmServing -----------------------------
(* Instances of LlmServing for TLC: a model of the template on one machine,  *)
(* and one from Harbor on two.                                               *)
EXTENDS LlmServing
CONSTANTS w1

SmallPool == [nodes |-> 1, harbor |-> FALSE, bare |-> FALSE]

SomePools ==
    {SmallPool,
     [nodes |-> 1, harbor |-> FALSE, bare |-> TRUE],
     [nodes |-> 2, harbor |-> TRUE, bare |-> TRUE]}
=============================================================================
