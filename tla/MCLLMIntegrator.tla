-------------------------- MODULE MCLLMIntegrator --------------------------
(* Instances of LLMIntegrator for TLC.                                     *)
EXTENDS LLMIntegrator, TLC

(* The three ways to get at a model, with fixed replicas.                  *)
Sources == {{}, {"token"}, {"s3"}}

(* Configurations the charm refuses.                                       *)
Refused == {{"invalid"}, {"s3", "token"}}

SourcesAndRefused == Sources \cup Refused

Gated == {{"token"}}

(* As many objects as there can be, and as few.                            *)
Extremes == {{"token", "auto", "prefill"}, {}}

(* A change between these takes away a worker, the autoscaling and the     *)
(* source of the model all at once.                                        *)
Opposites == {{"token", "auto", "prefill"}, {"s3"}}

Symmetry == Permutations(Tokens)
=============================================================================
