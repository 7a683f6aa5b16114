------------------------- MODULE ReadinessContract -------------------------
(***************************************************************************)
(* What the provider of a "sync" relation promises its consumers, seen     *)
(* from outside: ready=true appears in the databag only while the provider *)
(* is active with everything it manages installed, and nothing is          *)
(* uninstalled while the promise stands.  A provider may stop being active *)
(* for a while without taking the promise back: consumers act on what is   *)
(* installed.                                                              *)
(* charms/kserve-llmisvc/src/charm.py, _publish_llmisvc_ready_data, read   *)
(* by _validate_ready_relation of charms/llm-integrator/src/charm.py.      *)
(***************************************************************************)
VARIABLES
  promise,    \* ready in the databag: "unset", "true" or "false"
  installed,  \* everything the promise is about is in the cluster
  active      \* the provider reports ActiveStatus

vars == <<promise, installed, active>>

Init == promise = "unset" /\ ~installed /\ ~active

(* The last objects are applied: only then may the provider turn active.   *)
Install ==
  /\ installed'
  /\ active => active'
  /\ UNCHANGED promise

Activate == installed /\ active' /\ UNCHANGED <<promise, installed>>

Deactivate == ~active' /\ UNCHANGED <<promise, installed>>

Promise ==
  /\ installed /\ active
  /\ promise' = "true"
  /\ UNCHANGED <<installed, active>>

(* ready=false, or the relation and its databag disappear.                 *)
Withdraw ==
  /\ promise' \in {"false", "unset"}
  /\ UNCHANGED <<installed, active>>

Uninstall ==
  /\ promise # "true"
  /\ ~installed'
  /\ UNCHANGED <<promise, active>>

Next == Install \/ Activate \/ Deactivate \/ Promise \/ Withdraw \/ Uninstall

Spec == Init /\ [][Next]_vars
=============================================================================
