---------------------------- MODULE ServicePatch ----------------------------
(***************************************************************************)
(* KubernetesServicePatch of observability_libs (kserve-controller uses it *)
(* for its metrics port): every unit of an application brings the Service  *)
(* to the ports, the type and the name its revision of the charm asks for. *)
(*                                                                         *)
(* Simplifications.                                                        *)
(*  - The namespace holds no Services but those of the application, all of *)
(*    them with its label.  Of a Service its type and its ports are kept.  *)
(*  - A revision names its Service like the application, or otherwise; a   *)
(*    LoadBalancer never has the name of the application (__init__ appends *)
(*    "-lb").  Juju makes the Service of the application once.             *)
(***************************************************************************)
EXTENDS Naturals, FiniteSets

CONSTANTS
  PatchUnits,    \* the units of the application
  PatchWants,    \* what revisions of the charm ask for: name, type and ports
  ServiceNames,  \* the names of Services
  AppService,    \* the one Juju gives to its own
  NoService,     \* the value of a Service that is not there
  PatchFaults    \* which misfortunes may happen

ASSUME PatchAssumption ==
  /\ AppService \in ServiceNames /\ PatchFaults \subseteq {"api", "scale-down"}
  /\ \A w \in PatchWants :
       /\ w.name \in ServiceNames /\ w.type \in {"ClusterIP", "LoadBalancer"}
       /\ w.type = "LoadBalancer" => w.name # AppService
       /\ [type |-> w.type, ports |-> w.ports] # NoService
  (* No revision gives the LoadBalancer another name: a unit that is       *)
  (* removed in between takes only the last one with it.                   *)
  /\ \A w, v \in PatchWants : w.type = "LoadBalancer" /\ v.type = "LoadBalancer" => w.name = v.name

VARIABLES
  wants,      \* what the revision of each unit asks for
  patchOwed,  \* the hooks each unit still has to run
  patchHook,  \* its running hook, or "none"
  patchStep,  \* the call to Kubernetes it makes next
  copy,       \* the Service it has read, to be created under another name
  doomed,     \* the LoadBalancers it has listed, to be deleted
  outcome,    \* how its last patch ended
  gone,       \* the units that were removed
  services    \* the Services in the cluster

unitVars == <<wants, patchOwed, gone>>
stepVars == <<patchHook, patchStep, copy, doomed, outcome>>
patchVars == <<unitVars, stepVars, services>>

PatchHooks == {"patch", "upgrade", "remove"}
Service(type, ports) == [type |-> type, ports |-> ports]
Exists(name) == services[name] # NoService

PatchTypeOK ==
  /\ wants \in [PatchUnits -> PatchWants] /\ gone \subseteq PatchUnits
  /\ patchOwed \in [PatchUnits -> SUBSET PatchHooks]
  /\ patchHook \in [PatchUnits -> PatchHooks \cup {"none"}]
  /\ patchStep \in [PatchUnits -> {"check", "read", "delete", "create", "find", "make", "patch",
                                   "list", "clean", "remove"}]
  /\ doomed \in [PatchUnits -> SUBSET ServiceNames] /\ outcome \in [PatchUnits -> {"ok", "error"}]

(* install; Juju has created the Service of the application.               *)
PatchInit ==
  /\ \E w \in PatchWants : wants = [u \in PatchUnits |-> w]
  /\ patchOwed = [u \in PatchUnits |-> {"patch"}] /\ gone = {}
  /\ patchHook = [u \in PatchUnits |-> "none"] /\ patchStep = [u \in PatchUnits |-> "check"]
  /\ copy = [u \in PatchUnits |-> NoService] /\ doomed = [u \in PatchUnits |-> {}]
  /\ outcome = [u \in PatchUnits |-> "ok"]
  /\ services = [n \in ServiceNames |-> IF n = AppService THEN Service("ClusterIP", "juju") ELSE NoService]

-----------------------------------------------------------------------------
(* Juju                                                                    *)

UpdateStatus(u) ==
  /\ u \notin gone /\ patchHook[u] = "none" /\ patchOwed[u] = {}
  /\ patchOwed' = [patchOwed EXCEPT ![u] = {"patch"}]
  /\ UNCHANGED <<wants, gone, stepVars, services>>

(* juju refresh reaches one unit after the other, between two hooks.       *)
RefreshUnit(u, w) ==
  /\ u \notin gone /\ patchHook[u] = "none" /\ wants[u] # w
  /\ wants' = [wants EXCEPT ![u] = w]
  /\ patchOwed' = [patchOwed EXCEPT ![u] = {"upgrade"}]
  /\ UNCHANGED <<gone, stepVars, services>>

(* A unit that goes, one at most, runs the hooks it owes first.            *)
ScaleDown(u) ==
  /\ "scale-down" \in PatchFaults /\ gone = {}
  /\ gone' = gone \cup {u} /\ patchOwed' = [patchOwed EXCEPT ![u] = @ \cup {"remove"}]
  /\ UNCHANGED <<wants, stepVars, services>>

-----------------------------------------------------------------------------
(* The hooks                                                               *)

At(u, step) == patchHook[u] # "none" /\ patchStep[u] = step

(* On to the next call; what was read and listed stays in the variables.   *)
Goto(u, step) ==
  patchStep' = [patchStep EXCEPT ![u] = step] /\ UNCHANGED <<patchHook, outcome, copy, doomed>>

(* The hook ends; an ApiError within _patch is logged, and no more.        *)
End(u, how) ==
  /\ patchHook' = [patchHook EXCEPT ![u] = "none"] /\ patchStep' = [patchStep EXCEPT ![u] = "check"]
  /\ copy' = [copy EXCEPT ![u] = NoService] /\ doomed' = [doomed EXCEPT ![u] = {}]
  /\ outcome' = [outcome EXCEPT ![u] = how]

(* A bug to catch: an upgrade is handled like any other event.             *)
FirstStepOfPatch(u, h) == IF h = "remove" THEN "remove" ELSE "check"

(* An ApiError elsewhere: Juju runs the hook again from its start.         *)
FirstStep(u, h) ==
  IF h = "remove" THEN "remove"
  ELSE IF h = "upgrade" /\ wants[u].type = "ClusterIP" THEN "list" ELSE "check"

StartPatchHook(u, h) ==
  /\ patchHook[u] = "none" /\ h \in patchOwed[u] /\ (h = "remove" => patchOwed[u] = {"remove"})
  /\ patchHook' = [patchHook EXCEPT ![u] = h] /\ patchOwed' = [patchOwed EXCEPT ![u] = @ \ {h}]
  /\ patchStep' = [patchStep EXCEPT ![u] = FirstStep(u, h)]
  /\ UNCHANGED <<wants, gone, copy, doomed, outcome, services>>

(* _on_upgrade_charm: LoadBalancers of the application are listed, and     *)
(* deleted; one that is gone already makes the hook fail.                  *)
ListLoadBalancers(u) ==
  /\ At(u, "list")
  /\ doomed' = [doomed EXCEPT ![u] = {n \in ServiceNames : Exists(n) /\ services[n].type = "LoadBalancer"}]
  /\ patchStep' = [patchStep EXCEPT ![u] = "clean"]
  /\ UNCHANGED <<unitVars, patchHook, outcome, copy, services>>

CleanLoadBalancer(u) ==
  /\ At(u, "clean") /\ UNCHANGED unitVars
  /\ \/ doomed[u] = {} /\ Goto(u, "check") /\ UNCHANGED services
     \/ \E n \in doomed[u] : ~Exists(n) /\ Goto(u, "list") /\ UNCHANGED services
     \/ \E n \in doomed[u] :
          /\ Exists(n) /\ services' = [services EXCEPT ![n] = NoService]
          /\ doomed' = [doomed EXCEPT ![u] = @ \ {n}]
          /\ UNCHANGED <<patchHook, patchStep, outcome, copy>>

(* _is_patched: without the Service of the application there is nothing to *)
(* patch; one of another name is still to be made.                         *)
CheckPatched(u) ==
  LET w == wants[u] IN
  /\ At(u, "check") /\ UNCHANGED <<unitVars, services>>
  /\ IF ~Exists(w.name) /\ w.name = AppService THEN End(u, "error")
     ELSE IF Exists(w.name) /\ services[w.name].ports = w.ports THEN End(u, "ok")
     ELSE Goto(u, IF w.type = "LoadBalancer" THEN "find" ELSE IF w.name = AppService THEN "patch" ELSE "read")

(* _delete_and_create_service: three calls, and the copy in between.       *)
ReadService(u) ==
  /\ At(u, "read") /\ UNCHANGED <<unitVars, services>>
  /\ IF ~Exists(AppService) THEN End(u, "error")
     ELSE /\ copy' = [copy EXCEPT ![u] = services[AppService]]
          /\ patchStep' = [patchStep EXCEPT ![u] = "delete"]
          /\ UNCHANGED <<patchHook, outcome, doomed>>

DeleteService(u) ==
  /\ At(u, "delete") /\ UNCHANGED unitVars
  /\ IF Exists(AppService)
     THEN services' = [services EXCEPT ![AppService] = NoService] /\ Goto(u, "create")
     ELSE End(u, "error") /\ UNCHANGED services

CreateService(u) ==
  /\ At(u, "create") /\ UNCHANGED unitVars
  /\ IF Exists(wants[u].name)
     THEN End(u, "error") /\ UNCHANGED services
     ELSE services' = [services EXCEPT ![wants[u].name] = copy[u]] /\ Goto(u, "patch")

(* _create_lb_service.                                                     *)
FindLoadBalancer(u) ==
  /\ At(u, "find") /\ Goto(u, IF Exists(wants[u].name) THEN "patch" ELSE "make")
  /\ UNCHANGED <<unitVars, services>>

MakeLoadBalancer(u) ==
  LET w == wants[u] IN
  /\ At(u, "make") /\ UNCHANGED unitVars
  /\ IF Exists(w.name)
     THEN End(u, "error") /\ UNCHANGED services
     ELSE services' = [services EXCEPT ![w.name] = Service(w.type, w.ports)] /\ Goto(u, "patch")

(* The merge patch of _patch.                                              *)
ApplyPatch(u) ==
  LET w == wants[u] IN
  /\ At(u, "patch") /\ UNCHANGED unitVars
  /\ IF Exists(w.name)
     THEN services' = [services EXCEPT ![w.name] = Service(w.type, w.ports)] /\ End(u, "ok")
     ELSE End(u, "error") /\ UNCHANGED services

(* _remove_service, of a unit that goes: whatever its Service is called.   *)
RemoveService(u) ==
  /\ At(u, "remove") /\ UNCHANGED unitVars
  /\ services' = [services EXCEPT ![wants[u].name] = NoService] /\ End(u, "ok")

(* A call to Kubernetes fails; get in _create_lb_service may.              *)
PatchCallFails(u) ==
  /\ "api" \in PatchFaults /\ patchHook[u] # "none" /\ UNCHANGED <<unitVars, services>>
  /\ IF patchStep[u] \in {"list", "clean", "remove"} THEN Goto(u, FirstStep(u, patchHook[u]))
     ELSE IF patchStep[u] = "find" THEN Goto(u, "make") ELSE End(u, "error")

-----------------------------------------------------------------------------
PatchNext ==
  \E u \in PatchUnits :
    \/ UpdateStatus(u) \/ ScaleDown(u) \/ \E w \in PatchWants : RefreshUnit(u, w)
    \/ \E h \in PatchHooks : StartPatchHook(u, h)
    \/ ListLoadBalancers(u) \/ CleanLoadBalancer(u) \/ CheckPatched(u)
    \/ ReadService(u) \/ DeleteService(u) \/ CreateService(u)
    \/ FindLoadBalancer(u) \/ MakeLoadBalancer(u) \/ ApplyPatch(u)
    \/ RemoveService(u) \/ PatchCallFails(u)

PatchSpec == PatchInit /\ [][PatchNext]_patchVars

-----------------------------------------------------------------------------
(* Properties                                                              *)

(* All units run one revision and have run its hooks.                      *)
PatchSettled ==
  /\ \A u \in PatchUnits : patchHook[u] = "none" /\ patchOwed[u] = {}
  /\ \A u, v \in PatchUnits \ gone : wants[u] = wants[v]

(* "If a charm author changed the service type from LB to ClusterIP across *)
(* an upgrade, we need to delete the previous LB": none is left once every *)
(* unit has been upgraded, though units of the earlier revision make it    *)
(* again meanwhile and calls fail.  And a unit whose last patch went well  *)
(* has left the Service with the ports of its revision, whatever the other *)
(* units did to it, unless one of them was removed.                        *)
ServiceFollowsRevision ==
  PatchSettled =>
    /\ gone # PatchUnits /\ (\A u \in PatchUnits \ gone : wants[u].type = "ClusterIP") =>
         \A n \in ServiceNames : Exists(n) => services[n].type # "LoadBalancer"
    /\ gone = {} /\ (\A u \in PatchUnits : outcome[u] = "ok") =>
         \A u \in PatchUnits : Exists(wants[u].name) /\ services[wants[u].name].ports = wants[u].ports
=============================================================================
