---------------------------- MODULE MeshPolicies ----------------------------
(***************************************************************************)
(* Access within a service mesh (service_mesh.py): ServiceMeshConsumer     *)
(* turns the relations of its charm into MeshPolicies in the databag of    *)
(* the mesh, and the charm of the mesh turns those of all its relations    *)
(* into AuthorizationPolicies with a PolicyResourceManager, as             *)
(* kserve-controller does with policies of its own.                        *)
(*                                                                         *)
(* Simplifications.                                                        *)
(*  - One consumer charm, with one unit.  An application is related once   *)
(*    for each endpoint.  The consumer is related to the mesh throughout.  *)
(*  - KubernetesResourceManager (lightkube-extensions) deletes what is not *)
(*    wanted and then applies what is, one object per step.                *)
(*  - The data of a cross-model relation stays once it has come.           *)
(***************************************************************************)
EXTENDS Naturals, FiniteSets, Sequences

CONSTANTS
  Callers,        \* the applications that may be related
  RemoteModel,    \* for those of other models the application and model they are there
  AccessPolicies, \* the AppPolicies and UnitPolicies of the charm
  RawPolicies     \* the AuthorizationPolicies the manager is given ready-made

ASSUME PolicyAssumption ==
  /\ DOMAIN RemoteModel \subseteq Callers
  /\ \A p \in AccessPolicies : p.type \in {"app", "unit"}
  /\ \A r \in RawPolicies : r.kind \in {"selector", "service"}

VARIABLES
  callersOf,     \* the applications related to each endpoint
  cmr,           \* the applications whose cmr_data is known
  policyOwed,    \* the consumer has an event to handle
  policyBag,     \* policies in the databag of the mesh
  managerOwed,   \* the charm of the mesh has an event to handle
  todoPolicies,  \* what its running reconcile has decided to have, or << >>
  authorized     \* the AuthorizationPolicies in the cluster

policyVars == <<callersOf, cmr, policyOwed, policyBag, managerOwed, todoPolicies, authorized>>

AccessEndpoints == {p.relation : p \in AccessPolicies}

(* What relation.app is called when it is of another model.                *)
Remote == DOMAIN RemoteModel
OwnModel == "own"

PolicyTypeOK ==
  /\ callersOf \in [AccessEndpoints -> SUBSET Callers] /\ cmr \subseteq Remote
  /\ policyOwed \in BOOLEAN /\ managerOwed \in BOOLEAN
  /\ \A m \in policyBag : m.type \in {"app", "unit"}
  /\ Len(todoPolicies) <= 1
  /\ \A r \in authorized : r.kind \in {"selector", "service"}

PolicyInit ==
  /\ callersOf = [e \in AccessEndpoints |-> {}] /\ cmr = {}
  /\ policyOwed = TRUE /\ policyBag = {}
  /\ managerOwed = TRUE /\ todoPolicies = << >> /\ authorized = {}

-----------------------------------------------------------------------------
(* The consumer                                                            *)

(* relation-created and relation-broken of the endpoints of the policies.  *)
RelateCaller(e, a) ==
  /\ a \notin callersOf[e]
  /\ callersOf' = [callersOf EXCEPT ![e] = @ \cup {a}] /\ policyOwed' = TRUE
  /\ UNCHANGED <<cmr, policyBag, managerOwed, todoPolicies, authorized>>

UnrelateCaller(e, a) ==
  /\ a \in callersOf[e]
  /\ callersOf' = [callersOf EXCEPT ![e] = @ \ {a}] /\ policyOwed' = TRUE
  /\ UNCHANGED <<cmr, policyBag, managerOwed, todoPolicies, authorized>>

(* _send_cmr_data, in the other model.                                     *)
SendCmrData(a) ==
  /\ a \in Remote \ cmr
  /\ cmr' = cmr \cup {a} /\ policyOwed' = TRUE
  /\ UNCHANGED <<callersOf, policyBag, managerOwed, todoPolicies, authorized>>

(* The identity of a caller: its own application and model when they are   *)
(* known, or else the name it has here.                                    *)
SourceOf(a) == IF a \in cmr THEN RemoteModel[a] ELSE [app |-> a, model |-> OwnModel]

(* build_mesh_policies.                                                    *)
MeshPolicyFor(p, a) ==
  [source |-> SourceOf(a), type |-> p.type, service |-> IF p.type = "unit" THEN "" ELSE p.service,
   ports |-> p.ports, l7 |-> p.type = "app" /\ p.l7]

BuildMeshPolicies ==
  UNION {{MeshPolicyFor(p, a) : a \in callersOf[p.relation]} : p \in AccessPolicies}

(* A bug to catch: policies are only added.                                *)
UpdateServiceMeshAddsOnly ==
  /\ policyOwed
  /\ policyOwed' = FALSE /\ policyBag' = policyBag \cup BuildMeshPolicies
  /\ managerOwed' = TRUE
  /\ UNCHANGED <<callersOf, cmr, todoPolicies, authorized>>

(* update_service_mesh; the mesh is told if the databag changes.           *)
UpdateServiceMesh ==
  /\ policyOwed
  /\ policyOwed' = FALSE /\ policyBag' = BuildMeshPolicies
  /\ managerOwed' = IF policyBag' = policyBag THEN managerOwed ELSE TRUE
  /\ UNCHANGED <<callersOf, cmr, todoPolicies, authorized>>

-----------------------------------------------------------------------------
(* The manager                                                             *)

(* _build_policy_resources_istio, of one policy: pods are selected for     *)
(* units, the Service is named for applications, by default that of the    *)
(* application itself.                                                     *)
ResourceFor(m) ==
  [source |-> m.source, kind |-> IF m.type = "unit" THEN "selector" ELSE "service",
   target |-> IF m.service = "" THEN "own" ELSE m.service, ports |-> m.ports, l7 |-> m.l7]

(* reconcile: all policies, ready-made ones included, are built before any *)
(* object is touched.                                                      *)
StartReconcile ==
  /\ managerOwed /\ todoPolicies = << >>
  /\ managerOwed' = FALSE
  /\ todoPolicies' = << {ResourceFor(m) : m \in policyBag} \cup RawPolicies >>
  /\ UNCHANGED <<callersOf, cmr, policyOwed, policyBag, authorized>>

DeletePolicy ==
  /\ todoPolicies # << >>
  /\ \E r \in authorized \ todoPolicies[1] : authorized' = authorized \ {r}
  /\ UNCHANGED <<callersOf, cmr, policyOwed, policyBag, managerOwed, todoPolicies>>

ApplyPolicy ==
  /\ todoPolicies # << >> /\ authorized \subseteq todoPolicies[1]
  /\ \E r \in todoPolicies[1] \ authorized : authorized' = authorized \cup {r}
  /\ UNCHANGED <<callersOf, cmr, policyOwed, policyBag, managerOwed, todoPolicies>>

EndReconcile ==
  /\ todoPolicies # << >> /\ authorized = todoPolicies[1]
  /\ todoPolicies' = << >>
  /\ UNCHANGED <<callersOf, cmr, policyOwed, policyBag, managerOwed, authorized>>

(* A call fails: the hook raises and is run again.                         *)
FailReconcile ==
  /\ todoPolicies # << >>
  /\ todoPolicies' = << >> /\ managerOwed' = TRUE
  /\ UNCHANGED <<callersOf, cmr, policyOwed, policyBag, authorized>>

PolicyNext ==
  \/ \E e \in AccessEndpoints, a \in Callers : RelateCaller(e, a) \/ UnrelateCaller(e, a)
  \/ \E a \in Callers : SendCmrData(a)
  \/ UpdateServiceMesh \/ StartReconcile \/ DeletePolicy \/ ApplyPolicy \/ EndReconcile \/ FailReconcile

PolicySpec == PolicyInit /\ [][PolicyNext]_policyVars

-----------------------------------------------------------------------------
(* Properties                                                              *)

(* The access the charm's policies are about, as one would write it down:  *)
(* under its own identity, on the ports of the policy of its endpoint.     *)
AccessOf(p, a) ==
  [source |-> IF a \in cmr THEN RemoteModel[a] ELSE [app |-> a, model |-> OwnModel],
   kind |-> IF p.type = "unit" THEN "selector" ELSE "service",
   ports |-> p.ports]

Access(r) == [source |-> r.source, kind |-> r.kind, ports |-> r.ports]

(* Once nobody owes an event, the cluster authorizes every related         *)
(* application, and nothing else but what is ready-made, through any       *)
(* number of failures.                                                     *)
AuthorizesRelated ==
  ~policyOwed /\ ~managerOwed /\ todoPolicies = << >> =>
    /\ \A p \in AccessPolicies : \A a \in callersOf[p.relation] : \E r \in authorized : Access(r) = AccessOf(p, a)
    /\ \A r \in authorized \ RawPolicies :
         \E p \in AccessPolicies : \E a \in callersOf[p.relation] : Access(r) = AccessOf(p, a)
=============================================================================
