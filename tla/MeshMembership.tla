--------------------------- MODULE MeshMembership ---------------------------
(***************************************************************************)
(* How an application joins and leaves a service mesh (ServiceMeshConsumer *)
(* with auto_join, and reconcile_charm_labels of service_mesh.py): the     *)
(* labels the mesh asks for are put on the StatefulSet and the Service of  *)
(* the application, and a ConfigMap remembers which labels those are.      *)
(*                                                                         *)
(* Simplifications.                                                        *)
(*  - The application has one unit.  A label has one value.                *)
(*  - Nobody else changes the three objects meanwhile.  A hook that is     *)
(*    killed, or whose call to Kubernetes fails, is run again from its     *)
(*    start before any other.                                              *)
(***************************************************************************)
EXTENDS FiniteSets, Naturals

CONSTANTS
  Labels,         \* the labels a mesh may ask for
  ForeignLabels,  \* labels of other origin on the StatefulSet and the Service
  MaxKills        \* bound: how many hooks are killed

ASSUME MembershipAssumption ==
  /\ Labels \cap ForeignLabels = {} /\ MaxKills \in Nat

VARIABLES
  inMesh,       \* the relation exists
  asked,        \* the labels in the databag of the mesh
  meshOwed,     \* the events the unit still has to handle
  meshHook,     \* the event of the running hook, or "none"
  step,         \* the call to Kubernetes that is next
  wanted,       \* the labels to set, decided at the start
  unwanted,     \* the labels to remove
  remembered,   \* the labels in the ConfigMap
  configMap,    \* the ConfigMap exists
  podLabels,    \* the labels in the template of the StatefulSet
  svcLabels,    \* the labels of the Service
  kills         \* how many hooks were killed

askVars == <<inMesh, asked>>
memberHook == <<meshHook, step, wanted, unwanted>>
kubeVars == <<remembered, configMap, podLabels, svcLabels>>
memberVars == <<askVars, meshOwed, memberHook, kubeVars, kills>>

MeshSteps == {"read", "configmap", "statefulset", "service", "delete"}

MemberTypeOK ==
  /\ inMesh \in BOOLEAN /\ asked \subseteq Labels
  /\ meshOwed \subseteq {"changed", "broken"} /\ meshHook \in {"none", "changed", "broken"}
  /\ step \in MeshSteps /\ wanted \subseteq Labels /\ unwanted \subseteq Labels
  /\ remembered \subseteq Labels /\ configMap \in BOOLEAN
  /\ podLabels \subseteq Labels \cup ForeignLabels /\ svcLabels \subseteq Labels \cup ForeignLabels
  /\ kills \in 0..MaxKills

MemberInit ==
  /\ inMesh = FALSE /\ asked = {} /\ meshOwed = {}
  /\ meshHook = "none" /\ step = "read" /\ wanted = {} /\ unwanted = {}
  /\ remembered = {} /\ configMap = FALSE
  /\ podLabels = ForeignLabels /\ svcLabels = ForeignLabels
  /\ kills = 0

-----------------------------------------------------------------------------
(* The mesh                                                                *)

JoinMesh(labels) ==
  /\ ~inMesh /\ meshOwed = {} /\ meshHook = "none"
  /\ inMesh' = TRUE /\ asked' = labels /\ meshOwed' = {"changed"}
  /\ UNCHANGED <<memberHook, kubeVars, kills>>

(* update_relations, with other labels.                                    *)
AskForLabels(labels) ==
  /\ inMesh /\ labels # asked
  /\ asked' = labels /\ meshOwed' = meshOwed \cup {"changed"}
  /\ UNCHANGED <<inMesh, memberHook, kubeVars, kills>>

LeaveMesh ==
  /\ inMesh
  /\ inMesh' = FALSE /\ asked' = {} /\ meshOwed' = {"broken"}
  /\ UNCHANGED <<memberHook, kubeVars, kills>>

-----------------------------------------------------------------------------
(* _update_labels and _on_mesh_broken                                      *)

StartMeshHook(e) ==
  /\ meshHook = "none" /\ e \in meshOwed
  /\ meshHook' = e /\ step' = "read" /\ meshOwed' = meshOwed \ {e}
  /\ UNCHANGED <<askVars, wanted, unwanted, kubeVars, kills>>

EndMeshHook == meshHook' = "none" /\ step' = "read" /\ wanted' = {} /\ unwanted' = {}

(* A bug to catch: nothing is done when the ConfigMap names the labels.    *)
ReadLabelsIfNew ==
  /\ meshHook # "none" /\ step = "read"
  /\ LET labels == IF meshHook = "broken" THEN {} ELSE asked IN
     IF configMap /\ labels = remembered
     THEN EndMeshHook /\ UNCHANGED configMap
     ELSE /\ wanted' = labels /\ unwanted' = remembered \ labels
          /\ configMap' = TRUE /\ step' = "configmap" /\ UNCHANGED meshHook
  /\ UNCHANGED <<askVars, meshOwed, remembered, podLabels, svcLabels, kills>>

(* The labels are asked for, the ConfigMap is read, or made, and what it   *)
(* names beyond them is to be removed.                                     *)
ReadLabels ==
  /\ meshHook # "none" /\ step = "read"
  /\ wanted' = IF meshHook = "broken" THEN {} ELSE asked
  /\ unwanted' = remembered \ wanted'
  /\ configMap' = TRUE /\ step' = "configmap"
  /\ UNCHANGED <<askVars, meshOwed, meshHook, remembered, podLabels, svcLabels, kills>>

PatchConfigMap ==
  /\ meshHook # "none" /\ step = "configmap"
  /\ remembered' = wanted /\ step' = "statefulset"
  /\ UNCHANGED <<askVars, meshOwed, meshHook, wanted, unwanted, configMap, podLabels, svcLabels, kills>>

WithLabels(labels) == (labels \ unwanted) \cup wanted

PatchStatefulSet ==
  /\ meshHook # "none" /\ step = "statefulset"
  /\ podLabels' = WithLabels(podLabels) /\ step' = "service"
  /\ UNCHANGED <<askVars, meshOwed, meshHook, wanted, unwanted, remembered, configMap, svcLabels, kills>>

PatchService ==
  /\ meshHook # "none" /\ step = "service"
  /\ svcLabels' = WithLabels(svcLabels)
  /\ IF meshHook = "broken" THEN step' = "delete" /\ UNCHANGED <<meshHook, wanted, unwanted>>
     ELSE EndMeshHook
  /\ UNCHANGED <<askVars, meshOwed, remembered, configMap, podLabels, kills>>

(* _delete_label_configmap.                                                *)
DeleteConfigMap ==
  /\ meshHook # "none" /\ step = "delete"
  /\ configMap' = FALSE /\ remembered' = {} /\ EndMeshHook
  /\ UNCHANGED <<askVars, meshOwed, podLabels, svcLabels, kills>>

(* The pod is replaced, as it is when the StatefulSet is patched, or the   *)
(* next call to Kubernetes fails.                                          *)
KillMeshHook ==
  /\ meshHook # "none" /\ kills < MaxKills
  /\ kills' = kills + 1 /\ step' = "read" /\ wanted' = {} /\ unwanted' = {}
  /\ UNCHANGED <<askVars, meshOwed, meshHook, kubeVars>>

MemberNext ==
  \/ \E labels \in SUBSET Labels : JoinMesh(labels) \/ AskForLabels(labels)
  \/ LeaveMesh \/ \E e \in {"changed", "broken"} : StartMeshHook(e)
  \/ ReadLabels \/ PatchConfigMap \/ PatchStatefulSet \/ PatchService \/ DeleteConfigMap
  \/ KillMeshHook

MemberSpec == MemberInit /\ [][MemberNext]_memberVars

-----------------------------------------------------------------------------
(* Properties                                                              *)

MeshQuiet == meshHook = "none" /\ meshOwed = {}

CarriesLabels == MeshQuiet => asked \subseteq podLabels \cap svcLabels

KeepsForeignLabels == ForeignLabels \subseteq podLabels \cap svcLabels

(* Once no event is owed the pods and the Service carry every label the    *)
(* mesh asks for, and those of other origin, at whatever point hooks were  *)
(* killed.  "Any labels that were previously created by this method but    *)
(* omitted in `labels` now will be removed": that holds as long as no hook *)
(* is killed.  The ConfigMap is written first, and what the hook was to    *)
(* remove is forgotten with it.                                            *)
LabelsFollowMesh ==
  /\ CarriesLabels /\ KeepsForeignLabels
  /\ MeshQuiet /\ kills = 0 => podLabels = asked \cup ForeignLabels /\ svcLabels = podLabels
=============================================================================
