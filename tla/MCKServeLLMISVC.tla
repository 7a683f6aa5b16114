-------------------------- MODULE MCKServeLLMISVC --------------------------
(* KServeLLMISVC for TLC: five certificates are one more than the four     *)
(* places that can hold different ones between hooks.                      *)
EXTENDS KServeLLMISVC, TLC

Symmetry == Permutations(Certs)
=============================================================================
