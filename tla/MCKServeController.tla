------------------------ MODULE MCKServeController -------------------------
(* Instances of KServeController for TLC.                                  *)
EXTENDS KServeController, TLC

Symmetry == Permutations(Certs)
=============================================================================
