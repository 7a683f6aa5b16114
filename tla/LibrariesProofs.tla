-------------------------- MODULE LibrariesProofs ---------------------------
(***************************************************************************)
(* ServiceFollowsRevision and VerdictHolds, for any constants; and, of the *)
(* libraries side by side, LibrariesTypeOK and all of these.               *)
(***************************************************************************)
EXTENDS MCLibraries, LogMeshProofs, DashboardProofs, ScrapeProofs

(* ServiceFollowsRevision. The invariant gives every LoadBalancer a unit   *)
(* that answers for it, and keeps the Service as the last good patch left  *)
(* it once all have patched it well.                                       *)

LoadBalancerAt(n) == services[n] # NoService /\ services[n].type = "LoadBalancer"

(* The unit will delete every LoadBalancer there is, or keeps making one:  *)
(* it still has to list them, or has listed it, or goes and takes its own  *)
(* with it.                                                                *)
Answers(u, n) ==
  \/ u \notin gone /\ wants[u].type = "LoadBalancer"
  \/ wants[u].type = "ClusterIP" /\ "upgrade" \in patchOwed[u]
  \/ /\ wants[u].type = "ClusterIP" /\ patchHook[u] = "upgrade"
     /\ patchStep[u] = "list" \/ (patchStep[u] = "clean" /\ n \in doomed[u])
  \/ /\ u \in gone /\ wants[u].type = "LoadBalancer"
     /\ "remove" \in patchOwed[u] \/ patchHook[u] = "remove"

PatchTyped ==
  /\ wants \in [PatchUnits -> PatchWants] /\ gone \subseteq PatchUnits
  /\ patchOwed \in [PatchUnits -> SUBSET PatchHooks]
  /\ patchHook \in [PatchUnits -> PatchHooks \cup {"none"}]
  /\ patchStep \in [PatchUnits -> {"check", "read", "delete", "create", "find", "make", "patch",
                                   "list", "clean", "remove"}]
  /\ doomed \in [PatchUnits -> SUBSET ServiceNames] /\ outcome \in [PatchUnits -> {"ok", "error"}]
  /\ DOMAIN services = ServiceNames /\ DOMAIN copy = PatchUnits

(* A hook that removes does nothing else; a unit that goes has still to    *)
(* remove what it makes; what is copied is never a LoadBalancer.           *)
StepsFit ==
  \A u \in PatchUnits :
    /\ patchHook[u] = "remove" => patchStep[u] = "remove"
    /\ patchHook[u] = "none" => patchStep[u] = "check"
    /\ patchStep[u] = "remove" => patchHook[u] = "remove"
    /\ patchHook[u] = "remove" => u \in gone
    /\ u \in gone /\ patchHook[u] \notin {"none", "remove"} => "remove" \in patchOwed[u]
    /\ patchStep[u] \in {"find", "make"} => wants[u].type = "LoadBalancer"
    /\ u \in gone /\ patchOwed[u] # {} => "remove" \in patchOwed[u]
    /\ copy[u] # NoService => copy[u].type # "LoadBalancer"
    /\ "remove" \in patchOwed[u] => u \in gone

LoadBalancersNamed ==
  \A n \in ServiceNames : LoadBalancerAt(n) =>
    \E w \in PatchWants : w.type = "LoadBalancer" /\ w.name = n

LoadBalancersAnswered ==
  \A n \in ServiceNames : LoadBalancerAt(n) => \E u \in PatchUnits : Answers(u, n)

(* The second half of ServiceFollowsRevision.                              *)
AllWell == PatchSettled /\ gone = {} /\ \A u \in PatchUnits : outcome[u] = "ok"
PortsFollow ==
  AllWell => \A u \in PatchUnits : Exists(wants[u].name) /\ services[wants[u].name].ports = wants[u].ports

PatchInv == PatchTyped /\ StepsFit /\ LoadBalancersNamed /\ LoadBalancersAnswered /\ PortsFollow

-----------------------------------------------------------------------------
(* A hook, and Juju, concern one unit; and the cluster changes in hooks.   *)
UnitStep(u) ==
  \/ UpdateStatus(u) \/ ScaleDown(u) \/ \E w \in PatchWants : RefreshUnit(u, w)
  \/ \E h \in PatchHooks : StartPatchHook(u, h)
HookCall(u) ==
  \/ ListLoadBalancers(u) \/ CleanLoadBalancer(u) \/ CheckPatched(u)
  \/ ReadService(u) \/ DeleteService(u) \/ CreateService(u)
  \/ FindLoadBalancer(u) \/ MakeLoadBalancer(u) \/ ApplyPatch(u)
  \/ RemoveService(u) \/ PatchCallFails(u)

UnitKeeps(v) ==
  /\ wants'[v] = wants[v] /\ patchOwed'[v] = patchOwed[v] /\ patchHook'[v] = patchHook[v]
  /\ patchStep'[v] = patchStep[v] /\ copy'[v] = copy[v] /\ doomed'[v] = doomed[v]
  /\ outcome'[v] = outcome[v]

(* The invariant, of a step that leaves the Services and the units alone.  *)
LEMMA PatchStutters == ASSUME PatchInv, UNCHANGED patchVars PROVE PatchInv'
<1>1. PatchTyped' /\ StepsFit'
  BY DEF PatchInv, PatchTyped, StepsFit, patchVars, unitVars, stepVars
<1>2. LoadBalancersNamed' /\ LoadBalancersAnswered'
  BY DEF PatchInv, LoadBalancersNamed, LoadBalancersAnswered, LoadBalancerAt, Answers,
         patchVars, unitVars, stepVars
<1>3. PortsFollow'
  BY DEF PatchInv, PortsFollow, AllWell, PatchSettled, Exists, patchVars, unitVars, stepVars
<1> QED
  BY <1>1, <1>2, <1>3 DEF PatchInv

(* What Juju does leaves the cluster alone.                                *)
LEMMA UnitStepEffect ==
  ASSUME NEW u \in PatchUnits, PatchInv, UnitStep(u)
  PROVE  /\ services' = services /\ PatchTyped' /\ StepsFit'
         /\ gone \subseteq gone' /\ gone' \subseteq gone \cup {u}
         /\ \A v \in PatchUnits \ {u} : UnitKeeps(v)
         /\ ~(patchHook'[u] = "none" /\ patchOwed'[u] = {})
<1> USE DEF PatchInv, PatchTyped, StepsFit, UnitKeeps, PatchHooks, unitVars, stepVars
<1>1. CASE UpdateStatus(u)
  BY <1>1 DEF UpdateStatus
<1>2. CASE ScaleDown(u)
  BY <1>2 DEF ScaleDown
<1>3. ASSUME NEW w \in PatchWants, RefreshUnit(u, w)
      PROVE  /\ services' = services /\ PatchTyped' /\ StepsFit'
             /\ gone \subseteq gone' /\ gone' \subseteq gone \cup {u}
             /\ \A v \in PatchUnits \ {u} : UnitKeeps(v)
             /\ ~(patchHook'[u] = "none" /\ patchOwed'[u] = {})
  BY <1>3 DEF RefreshUnit
<1>4. ASSUME NEW h \in PatchHooks, StartPatchHook(u, h)
      PROVE  /\ services' = services /\ PatchTyped' /\ StepsFit'
             /\ gone \subseteq gone' /\ gone' \subseteq gone \cup {u}
             /\ \A v \in PatchUnits \ {u} : UnitKeeps(v)
             /\ ~(patchHook'[u] = "none" /\ patchOwed'[u] = {})
  <2>1. /\ services' = services /\ gone' = gone /\ patchHook'[u] = h
        /\ \A v \in PatchUnits \ {u} : UnitKeeps(v)
    BY <1>4 DEF StartPatchHook
  <2>2. PatchTyped'
    BY <1>4 DEF StartPatchHook, FirstStep
  <2>3. /\ wants'[u] = wants[u] /\ copy'[u] = copy[u] /\ patchStep'[u] = FirstStep(u, h)
        /\ patchOwed'[u] = patchOwed[u] \ {h} /\ h \in patchOwed[u]
        /\ h = "remove" => patchOwed[u] = {"remove"}
    BY <1>4 DEF StartPatchHook
  <2>4. StepsFit'
    <3>1. \A v \in PatchUnits \ {u} : StepsFit!(v)'
      BY <2>1
    <3>2. StepsFit!(u)'
      BY <2>1, <2>3 DEF FirstStep
    <3> QED
      BY <3>1, <3>2
  <2> QED
    BY <2>1, <2>2, <2>4
<1> QED
  BY <1>1, <1>2, <1>3, <1>4 DEF UnitStep

(* A call changes the Service of the application, or of the own revision,  *)
(* or deletes one that was listed; how a hook ends says what it has seen.  *)
CallEffect(u) ==
  \/ services' = services
  \/ \E n \in ServiceNames : /\ services'[n] = NoService
                             /\ \A m \in ServiceNames \ {n} : services'[m] = services[m]
  \/ /\ \A m \in ServiceNames \ {wants[u].name} : services'[m] = services[m]
     /\ \/ services'[wants[u].name] = Service(wants[u].type, wants[u].ports)
        \/ services'[wants[u].name] = copy[u]

(* What one call of a hook does: to the Services, and to nothing of        *)
(* another unit.                                                           *)
LEMMA HookCallEffect ==
  ASSUME NEW u \in PatchUnits, PatchInv, HookCall(u)
  PROVE  /\ PatchTyped' /\ wants' = wants /\ patchOwed' = patchOwed /\ gone' = gone
         /\ \A v \in PatchUnits \ {u} : UnitKeeps(v)
         /\ CallEffect(u) /\ patchHook[u] # "none"
<1> USE DEF PatchInv, PatchTyped, UnitKeeps, unitVars, At, Goto, End
<1>0. wants[u] \in PatchWants /\ wants[u].name \in ServiceNames
  BY PatchAssumption
<1>1. CASE ListLoadBalancers(u)
  BY <1>1 DEF ListLoadBalancers, CallEffect
<1>2. CASE CleanLoadBalancer(u)
  <2>1. CASE doomed[u] = {} /\ Goto(u, "check") /\ UNCHANGED services
    BY <1>2, <2>1 DEF CleanLoadBalancer, CallEffect
  <2>2. CASE \E n \in doomed[u] : ~Exists(n) /\ Goto(u, "list") /\ UNCHANGED services
    BY <1>2, <2>2 DEF CleanLoadBalancer, CallEffect
  <2>3. ASSUME NEW n \in doomed[u], services' = [services EXCEPT ![n] = NoService],
               doomed' = [doomed EXCEPT ![u] = @ \ {n}],
               UNCHANGED <<patchHook, patchStep, outcome, copy>>
        PROVE  PatchTyped' /\ (\A v \in PatchUnits \ {u} : UnitKeeps(v)) /\ CallEffect(u)
    BY <1>2, <2>3 DEF CleanLoadBalancer, CallEffect
  <2> QED
    BY <1>2, <2>1, <2>2, <2>3 DEF CleanLoadBalancer
<1>3. CASE CheckPatched(u)
  BY <1>3 DEF CheckPatched, CallEffect
<1>4. CASE ReadService(u)
  BY <1>4 DEF ReadService, CallEffect
<1>5. CASE DeleteService(u)
  BY <1>5, PatchAssumption DEF DeleteService, CallEffect
<1>6. CASE CreateService(u)
  <2>1. CASE Exists(wants[u].name)
    BY <1>0, <1>6, <2>1 DEF CreateService, CallEffect
  <2>2. CASE ~Exists(wants[u].name)
    BY <1>0, <1>6, <2>2 DEF CreateService, CallEffect
  <2> QED
    BY <2>1, <2>2
<1>7. CASE FindLoadBalancer(u)
  BY <1>7 DEF FindLoadBalancer, CallEffect
<1>8. CASE MakeLoadBalancer(u)
  <2>1. CASE Exists(wants[u].name)
    BY <1>0, <1>8, <2>1 DEF MakeLoadBalancer, CallEffect
  <2>2. CASE ~Exists(wants[u].name)
    BY <1>0, <1>8, <2>2 DEF MakeLoadBalancer, CallEffect
  <2> QED
    BY <2>1, <2>2
<1>9. CASE ApplyPatch(u)
  <2>1. CASE Exists(wants[u].name)
    BY <1>0, <1>9, <2>1 DEF ApplyPatch, CallEffect
  <2>2. CASE ~Exists(wants[u].name)
    BY <1>0, <1>9, <2>2 DEF ApplyPatch, CallEffect
  <2> QED
    BY <2>1, <2>2
<1>10. CASE RemoveService(u)
  BY <1>10, PatchAssumption DEF RemoveService, CallEffect
<1>11. CASE PatchCallFails(u)
  BY <1>11 DEF PatchCallFails, CallEffect, FirstStep
<1> QED
  BY <1>1, <1>2, <1>3, <1>4, <1>5, <1>6, <1>7, <1>8, <1>9, <1>10, <1>11 DEF HookCall

(* What the hook has read and still has to do fits the step it is at.      *)
LEMMA HookCallFits ==
  ASSUME NEW u \in PatchUnits, PatchInv, HookCall(u)
  PROVE  StepsFit'
<1>1. /\ PatchTyped' /\ wants' = wants /\ patchOwed' = patchOwed /\ gone' = gone
      /\ \A v \in PatchUnits \ {u} : UnitKeeps(v)
      /\ patchHook[u] # "none"
  BY HookCallEffect
<1>2. \A v \in PatchUnits \ {u} : StepsFit!(v)'
  BY <1>1 DEF PatchInv, StepsFit, UnitKeeps
<1>3. StepsFit!(u)'
  <2> USE DEF PatchInv, PatchTyped, StepsFit, At, Goto, End
  <2>1. CASE ListLoadBalancers(u)
    BY <1>1, <2>1 DEF ListLoadBalancers
  <2>2. CASE CleanLoadBalancer(u)
    <3>1. /\ patchHook'[u] = patchHook[u] /\ copy'[u] = copy[u] /\ patchStep[u] = "clean"
          /\ patchStep'[u] \in {"check", "list", "clean"}
      BY <2>2 DEF CleanLoadBalancer
    <3> QED
      BY <1>1, <3>1
  <2>3. CASE CheckPatched(u)
    BY <1>1, <2>3 DEF CheckPatched
  <2>4. CASE ReadService(u)
    <3>1. CASE ~Exists(AppService)
      BY <1>1, <2>4, <3>1 DEF ReadService
    <3>2. CASE Exists(AppService)
      <4>1. services[AppService].type # "LoadBalancer"
        BY <3>2, PatchAssumption DEF LoadBalancersNamed, LoadBalancerAt, Exists
      <4> QED
        BY <1>1, <2>4, <3>2, <4>1 DEF ReadService
    <3> QED
      BY <3>1, <3>2
  <2>5. CASE DeleteService(u)
    BY <1>1, <2>5 DEF DeleteService
  <2>6. CASE CreateService(u)
    BY <1>1, <2>6 DEF CreateService
  <2>7. CASE FindLoadBalancer(u)
    BY <1>1, <2>7 DEF FindLoadBalancer
  <2>8. CASE MakeLoadBalancer(u)
    BY <1>1, <2>8 DEF MakeLoadBalancer
  <2>9. CASE ApplyPatch(u)
    BY <1>1, <2>9 DEF ApplyPatch
  <2>10. CASE RemoveService(u)
    BY <1>1, <2>10 DEF RemoveService
  <2>11. CASE PatchCallFails(u)
    BY <1>1, <2>11 DEF PatchCallFails, FirstStep
  <2> QED
    BY <2>1, <2>2, <2>3, <2>4, <2>5, <2>6, <2>7, <2>8, <2>9, <2>10, <2>11 DEF HookCall
<1> QED
  BY <1>2, <1>3 DEF StepsFit

(* A LoadBalancer that is new is one that a revision asks for; nothing but *)
(* the unit itself makes it so.                                            *)
LEMMA NewLoadBalancer ==
  ASSUME NEW u \in PatchUnits, PatchInv, HookCall(u), NEW n \in ServiceNames,
         LoadBalancerAt(n)', ~LoadBalancerAt(n)
  PROVE  /\ wants[u].type = "LoadBalancer" /\ wants[u].name = n
         /\ patchHook[u] \notin {"none", "remove"}
<1>1. CallEffect(u) /\ wants[u] \in PatchWants /\ wants[u].name \in ServiceNames
  BY HookCallEffect, PatchAssumption DEF PatchInv, PatchTyped
<1>2. services' # services
  BY DEF LoadBalancerAt
<1>3. /\ wants[u].name = n
      /\ \/ services'[wants[u].name] = Service(wants[u].type, wants[u].ports)
         \/ services'[wants[u].name] = copy[u]
  BY <1>1, <1>2 DEF CallEffect, LoadBalancerAt
<1>4. copy[u] # NoService => copy[u].type # "LoadBalancer"
  BY DEF PatchInv, StepsFit
<1>5. wants[u].type = "LoadBalancer"
  BY <1>3, <1>4 DEF LoadBalancerAt, Service
<1>6. patchHook[u] # "none"
  BY HookCallEffect
<1>7. ASSUME patchHook[u] = "remove" PROVE FALSE
  <2>1. patchStep[u] = "remove"
    BY <1>7 DEF PatchInv, StepsFit
  <2>2. RemoveService(u) \/ PatchCallFails(u)
    BY <2>1 DEF HookCall, At, ListLoadBalancers, CleanLoadBalancer, CheckPatched, ReadService,
                DeleteService, CreateService, FindLoadBalancer, MakeLoadBalancer, ApplyPatch
  <2>3. services' = [services EXCEPT ![wants[u].name] = NoService]
    BY <1>2, <2>2 DEF RemoveService, PatchCallFails
  <2> QED
    BY <1>1, <1>3, <2>3 DEF LoadBalancerAt, PatchInv, PatchTyped
<1> QED
  BY <1>3, <1>5, <1>6, <1>7

(* A LoadBalancer is always one that some revision wants.                  *)
LEMMA NamedKept ==
  ASSUME NEW u \in PatchUnits, PatchInv, HookCall(u)
  PROVE  LoadBalancersNamed'
<1> SUFFICES ASSUME NEW n \in ServiceNames, LoadBalancerAt(n)'
             PROVE  \E w \in PatchWants : w.type = "LoadBalancer" /\ w.name = n
  BY DEF LoadBalancersNamed
<1>1. CASE LoadBalancerAt(n)
  BY <1>1 DEF PatchInv, LoadBalancersNamed
<1>2. CASE ~LoadBalancerAt(n)
  BY <1>2, NewLoadBalancer DEF PatchInv, PatchTyped
<1> QED
  BY <1>1, <1>2

(* Juju never takes away whoever answers for a LoadBalancer.               *)
LEMMA UnitStepAnswered ==
  ASSUME NEW u \in PatchUnits, PatchInv, UnitStep(u), NEW v \in PatchUnits, NEW n, Answers(v, n)
  PROVE  Answers(v, n)'
<1>1. /\ PatchTyped' /\ gone \subseteq gone' /\ gone' \subseteq gone \cup {u}
      /\ \A x \in PatchUnits \ {u} : UnitKeeps(x)
  BY UnitStepEffect
<1>2. CASE v # u
  BY <1>1, <1>2 DEF Answers, UnitKeeps
<1>3. CASE v = u
  <2> USE DEF PatchInv, PatchTyped, StepsFit, Answers, unitVars, stepVars
  <2>1. CASE UpdateStatus(u)
    BY <1>3, <2>1 DEF UpdateStatus
  <2>2. CASE ScaleDown(u)
    BY <1>3, <2>2 DEF ScaleDown
  <2>3. ASSUME NEW w \in PatchWants, RefreshUnit(u, w) PROVE Answers(v, n)'
    <3>1. w.type \in {"ClusterIP", "LoadBalancer"}
      BY PatchAssumption
    <3> QED
      BY <1>3, <2>3, <3>1 DEF RefreshUnit
  <2>4. ASSUME NEW h \in PatchHooks, StartPatchHook(u, h) PROVE Answers(v, n)'
    <3>1. /\ gone' = gone /\ patchHook'[u] = h /\ patchHook[u] = "none" /\ wants'[u] = wants[u]
          /\ patchStep'[u] = FirstStep(u, h) /\ patchOwed'[u] = patchOwed[u] \ {h}
      BY <2>4 DEF StartPatchHook
    <3> QED
      BY <1>3, <3>1 DEF FirstStep
  <2> QED
    BY <2>1, <2>2, <2>3, <2>4 DEF UnitStep
<1> QED
  BY <1>2, <1>3

(* Neither does a call, unless it deletes the LoadBalancer.                *)
LEMMA HookCallAnswered ==
  ASSUME NEW u \in PatchUnits, PatchInv, HookCall(u), NEW v \in PatchUnits,
         NEW n \in ServiceNames, LoadBalancerAt(n), LoadBalancerAt(n)', Answers(v, n)
  PROVE  Answers(v, n)'
<1>1. /\ PatchTyped' /\ wants' = wants /\ patchOwed' = patchOwed /\ gone' = gone
      /\ \A x \in PatchUnits \ {u} : UnitKeeps(x)
      /\ patchHook[u] # "none"
  BY HookCallEffect
<1>2. CASE v # u
  BY <1>1, <1>2 DEF Answers, UnitKeeps
<1>3. CASE v = u
  <2> DEFINE Cleans == /\ wants[u].type = "ClusterIP" /\ patchHook[u] = "upgrade"
                       /\ patchStep[u] = "list" \/ (patchStep[u] = "clean" /\ n \in doomed[u])
  <2> DEFINE Removes == u \in gone /\ wants[u].type = "LoadBalancer" /\ patchHook[u] = "remove"
  <2>1. \/ Answers(u, n)' \/ Cleans \/ Removes
    BY <1>1, <1>3 DEF Answers
  <2> USE DEF PatchInv, PatchTyped
  <2>2. CASE Cleans
    <3>1. CASE ListLoadBalancers(u)
      <4>1. /\ doomed'[u] = {m \in ServiceNames : Exists(m) /\ services[m].type = "LoadBalancer"}
            /\ patchStep'[u] = "clean" /\ patchHook' = patchHook
        BY <3>1 DEF ListLoadBalancers
      <4> QED
        BY <1>1, <1>3, <2>2, <4>1 DEF Answers, LoadBalancerAt, Exists
    <3>2. CASE CleanLoadBalancer(u)
      <4>1. patchStep[u] = "clean" /\ n \in doomed[u]
        BY <2>2, <3>2 DEF CleanLoadBalancer, At
      <4>2. CASE \E m \in doomed[u] : ~Exists(m) /\ Goto(u, "list") /\ UNCHANGED services
        BY <1>1, <1>3, <2>2, <4>2 DEF Goto, Answers
      <4>3. ASSUME NEW m \in doomed[u], services' = [services EXCEPT ![m] = NoService],
                   doomed' = [doomed EXCEPT ![u] = @ \ {m}], patchHook' = patchHook, patchStep' = patchStep
            PROVE  Answers(v, n)'
        <5>1. m # n
          BY <4>3 DEF LoadBalancerAt
        <5>2. n \in doomed'[u]
          BY <4>1, <4>3, <5>1
        <5> QED
          BY <1>1, <1>3, <2>2, <4>1, <4>3, <5>2 DEF Answers
      <4> QED
        BY <3>2, <4>1, <4>2, <4>3 DEF CleanLoadBalancer
    <3>3. CASE PatchCallFails(u)
      <4>1. patchStep'[u] = "list" /\ patchHook' = patchHook
        BY <2>2, <3>3 DEF PatchCallFails, Goto, FirstStep
      <4> QED
        BY <1>1, <1>3, <2>2, <4>1 DEF Answers
    <3> QED
      BY <2>2, <3>1, <3>2, <3>3 DEF HookCall, At, CheckPatched, ReadService, DeleteService,
         CreateService, FindLoadBalancer, MakeLoadBalancer, ApplyPatch, RemoveService
  <2>3. CASE Removes
    <3>1. patchStep[u] = "remove"
      BY <2>3 DEF StepsFit
    <3>2. RemoveService(u) \/ PatchCallFails(u)
      BY <3>1 DEF HookCall, At, ListLoadBalancers, CleanLoadBalancer, CheckPatched, ReadService,
                  DeleteService, CreateService, FindLoadBalancer, MakeLoadBalancer, ApplyPatch
    <3>3. CASE PatchCallFails(u)
      <4>1. patchHook' = patchHook
        BY <3>1, <3>3 DEF PatchCallFails, Goto
      <4> QED
        BY <1>1, <1>3, <2>3, <4>1 DEF Answers
    <3>4. CASE RemoveService(u)
      <4>1. n = wants[u].name
        BY <2>3, PatchAssumption DEF LoadBalancersNamed
      <4>2. services'[n] = NoService
        BY <3>4, <4>1 DEF RemoveService
      <4> QED
        BY <4>2 DEF LoadBalancerAt
    <3> QED
      BY <3>2, <3>3, <3>4
  <2> QED
    BY <1>3, <2>1, <2>2, <2>3
<1> QED
  BY <1>2, <1>3

(* And some unit answers for it.                                           *)
LEMMA AnsweredKept ==
  ASSUME NEW u \in PatchUnits, PatchInv, UnitStep(u) \/ HookCall(u)
  PROVE  LoadBalancersAnswered'
<1> SUFFICES ASSUME NEW n \in ServiceNames, LoadBalancerAt(n)'
             PROVE  \E v \in PatchUnits : Answers(v, n)'
  BY DEF LoadBalancersAnswered
<1>1. CASE LoadBalancerAt(n)
  <2>1. PICK v \in PatchUnits : Answers(v, n)
    BY <1>1 DEF PatchInv, LoadBalancersAnswered
  <2> QED
    BY <1>1, <2>1, UnitStepAnswered, HookCallAnswered
<1>2. CASE ~LoadBalancerAt(n)
  <2>1. HookCall(u)
    BY <1>2, UnitStepEffect DEF LoadBalancerAt
  <2>2. /\ wants[u].type = "LoadBalancer" /\ patchHook[u] \notin {"none", "remove"}
        /\ wants' = wants /\ patchOwed' = patchOwed /\ gone' = gone
    BY <1>2, <2>1, NewLoadBalancer, HookCallEffect
  <2>3. u \in gone => "remove" \in patchOwed[u]
    BY <2>2 DEF PatchInv, StepsFit
  <2>4. Answers(u, n)'
    BY <2>2, <2>3 DEF Answers
  <2> QED
    BY <2>4
<1> QED
  BY <1>1, <1>2

(* The unit that comes to rest last has seen the ports, or has set them.   *)
LEMMA PortsFollowKept ==
  ASSUME NEW u \in PatchUnits, PatchInv, HookCall(u)
  PROVE  PortsFollow'
<1> SUFFICES ASSUME AllWell'
             PROVE  \A v \in PatchUnits :
                      Exists(wants[v].name)' /\ services'[wants'[v].name].ports = wants'[v].ports
  BY DEF PortsFollow
<1>1. /\ PatchTyped' /\ wants' = wants /\ gone' = gone /\ gone = {}
      /\ patchHook[u] # "none" /\ patchHook'[u] = "none" /\ outcome'[u] = "ok"
  BY HookCallEffect DEF AllWell, PatchSettled
<1>2. \A v \in PatchUnits : wants'[v] = wants[u]
  BY <1>1 DEF AllWell, PatchSettled
<1>3. Exists(wants[u].name)' /\ services'[wants[u].name].ports = wants[u].ports
  <2> USE DEF PatchInv, PatchTyped, At, Goto, End
  <2>0. /\ wants[u] \in PatchWants /\ wants[u].name \in ServiceNames
        /\ Service(wants[u].type, wants[u].ports) # NoService
    BY PatchAssumption DEF Service
  <2>1. CASE ListLoadBalancers(u)
    BY <1>1, <2>1 DEF ListLoadBalancers
  <2>2. CASE CleanLoadBalancer(u)
    BY <1>1, <2>2 DEF CleanLoadBalancer
  <2>3. CASE CheckPatched(u)
    <3>1. Exists(wants[u].name) /\ services[wants[u].name].ports = wants[u].ports /\ services' = services
      BY <1>1, <2>3 DEF CheckPatched
    <3> QED
      BY <1>1, <3>1 DEF Exists
  <2>4. CASE ReadService(u)
    BY <1>1, <2>4 DEF ReadService
  <2>5. CASE DeleteService(u)
    BY <1>1, <2>5 DEF DeleteService
  <2>6. CASE CreateService(u)
    BY <1>1, <2>6 DEF CreateService
  <2>7. CASE FindLoadBalancer(u)
    BY <1>1, <2>7 DEF FindLoadBalancer
  <2>8. CASE MakeLoadBalancer(u)
    BY <1>1, <2>8 DEF MakeLoadBalancer
  <2>9. CASE ApplyPatch(u)
    <3>1. services'[wants[u].name] = Service(wants[u].type, wants[u].ports)
      BY <1>1, <2>0, <2>9 DEF ApplyPatch
    <3> QED
      BY <1>1, <2>0, <3>1 DEF Exists, Service
  <2>10. CASE RemoveService(u)
    <3>1. u \in gone
      BY <2>10 DEF RemoveService, StepsFit
    <3> QED
      BY <1>1, <3>1
  <2>11. CASE PatchCallFails(u)
    BY <1>1, <2>11 DEF PatchCallFails
  <2> QED
    BY <2>1, <2>2, <2>3, <2>4, <2>5, <2>6, <2>7, <2>8, <2>9, <2>10, <2>11 DEF HookCall
<1> QED
  BY <1>1, <1>2, <1>3 DEF Exists

(* PatchInv is inductive.                                                  *)
LEMMA PatchInvInductive ==
  /\ PatchInit => PatchInv
  /\ PatchInv /\ [PatchNext]_patchVars => PatchInv'
<1>1. ASSUME PatchInit PROVE PatchInv
  <2>1. PatchTyped /\ StepsFit
    BY <1>1 DEF PatchInit, PatchTyped, StepsFit, PatchHooks
  <2>2. LoadBalancersNamed /\ LoadBalancersAnswered
    BY <1>1 DEF PatchInit, LoadBalancersNamed, LoadBalancersAnswered, LoadBalancerAt, Service
  <2>3. PortsFollow
    BY <1>1 DEF PatchInit, PortsFollow, AllWell, PatchSettled
  <2> QED
    BY <2>1, <2>2, <2>3 DEF PatchInv
<1>2. ASSUME PatchInv, PatchNext PROVE PatchInv'
  <2>1. PICK u \in PatchUnits : UnitStep(u) \/ HookCall(u)
    BY <1>2 DEF PatchNext, UnitStep, HookCall
  <2>2. CASE UnitStep(u)
    <3>1. LoadBalancersNamed' /\ PatchTyped' /\ StepsFit'
      BY <1>2, <2>2, UnitStepEffect DEF PatchInv, LoadBalancersNamed, LoadBalancerAt
    <3>2. PortsFollow'
      BY <1>2, <2>2, UnitStepEffect DEF PortsFollow, AllWell, PatchSettled
    <3> QED
      BY <1>2, <2>2, <3>1, <3>2, AnsweredKept DEF PatchInv
  <2>3. CASE HookCall(u)
    BY <1>2, <2>3, HookCallEffect, HookCallFits, NamedKept, AnsweredKept, PortsFollowKept DEF PatchInv
  <2> QED
    BY <2>1, <2>2, <2>3
<1> QED
  BY <1>1, <1>2, PatchStutters

(* For any units, revisions and misfortunes: once every unit has run the   *)
(* hooks of one revision, no LoadBalancer is left if that revision wants   *)
(* none, and the ports are those of the revision if every patch went well. *)
LEMMA PatchInvImplies == PatchInv => ServiceFollowsRevision /\ PatchTypeOK
<1> SUFFICES ASSUME PatchInv PROVE ServiceFollowsRevision /\ PatchTypeOK
  OBVIOUS
<1>1. ASSUME PatchSettled, \A u \in PatchUnits \ gone : wants[u].type = "ClusterIP",
             NEW n \in ServiceNames, Exists(n), services[n].type = "LoadBalancer"
      PROVE  FALSE
  <2>1. PICK u \in PatchUnits : Answers(u, n)
    BY <1>1 DEF PatchInv, LoadBalancersAnswered, LoadBalancerAt, Exists
  <2> QED
    BY <1>1, <2>1 DEF Answers, PatchSettled
<1>2. PatchTypeOK
  BY DEF PatchInv, PatchTyped, PatchTypeOK
<1> QED
  BY <1>1, <1>2 DEF ServiceFollowsRevision, PatchInv, PortsFollow, AllWell

(* For any number of units, revisions and failed calls: once every hook is *)
(* over and none failed, the Service has the ports and the type of the     *)
(* revision, and no LoadBalancer of an earlier one is left.                *)
THEOREM ServiceFollows == PatchSpec => [](ServiceFollowsRevision /\ PatchTypeOK)
  BY PatchInvInductive, PatchInvImplies, PTL DEF PatchSpec

-----------------------------------------------------------------------------
(* VerdictHolds. Every node has a number of workers that fit on it; the    *)
(* check adds up these slots, the scheduler never exceeds one of them, so  *)
(* what is left over in one sum is left over in the other.                 *)

(* Sums.  The sum of a function over a finite set is the number of cells   *)
(* below its graph.                                                        *)
Cells(s, f) == UNION {{<<x, i>> : i \in 1..f[x]} : x \in s}

(* The recursion of the fold.                                              *)
Summed(S, f, g) ==
  g = [s \in SUBSET S |-> IF s = {} THEN 0 ELSE f[CHOOSE x \in s : TRUE] + g[s \ {CHOOSE x \in s : TRUE}]]

(* One column of cells.                                                    *)
LEMMA Column ==
  ASSUME NEW x, NEW n \in Nat
  PROVE  LET column == {<<x, i>> : i \in 1..n} IN IsFiniteSet(column) /\ Cardinality(column) = n
<1> DEFINE column == {<<x, i>> : i \in 1..n}
           f == [i \in 1..n |-> <<x, i>>]
<1>1. f \in Bijection(1..n, column)
  <2>1. f \in [1..n -> column] /\ \A y \in column : \E i \in 1..n : f[i] = y
    OBVIOUS
  <2>2. \A i, j \in 1..n : f[i] = f[j] => i = j
    OBVIOUS
  <2> HIDE DEF f, column
  <2>3. DOMAIN f = 1..n
    BY <2>1
  <2> QED
    BY <2>1, <2>2, <2>3 DEF Bijection, Injection, Surjection, IsInjective
<1>2. IsFiniteSet(1..n) /\ Cardinality(1..n) = n
  BY FS_Interval
<1> HIDE DEF f, column
<1>3. ExistsBijection(1..n, column)
  BY <1>1 DEF ExistsBijection
<1> QED
  BY <1>2, <1>3, FS_Bijection DEF column

(* Cells are finitely many, and one column more adds its height.           *)
LEMMA CellsOfColumn ==
  ASSUME NEW S, NEW f \in [S -> Nat], NEW s \in SUBSET S, NEW x \in s,
         IsFiniteSet(Cells(s \ {x}, f))
  PROVE  /\ IsFiniteSet(Cells(s, f))
         /\ Cardinality(Cells(s, f)) = f[x] + Cardinality(Cells(s \ {x}, f))
<1> DEFINE column == {<<x, i>> : i \in 1..f[x]}
           rest == Cells(s \ {x}, f)
<1>1. Cells(s, f) = column \cup rest
  BY DEF Cells
<1>2. column \cap rest = {}
  BY DEF Cells
<1>3. IsFiniteSet(column) /\ Cardinality(column) = f[x] /\ f[x] \in Nat
  BY Column
<1>4. Cardinality(rest) \in Nat
  BY FS_CardinalityType
<1> HIDE DEF column, rest
<1>5. IsFiniteSet(rest)
  BY DEF rest
<1>6. IsFiniteSet(column \cup rest) /\ Cardinality(column \cup rest) = Cardinality(column) + Cardinality(rest) - 0
  BY <1>2, <1>3, <1>5, FS_Union, FS_EmptySet
<1> QED
  BY <1>1, <1>3, <1>4, <1>6 DEF rest

(* There are finitely many cells.                                          *)
LEMMA CellsAreFinite ==
  ASSUME NEW S, NEW f \in [S -> Nat], NEW s \in SUBSET S, IsFiniteSet(s)
  PROVE  IsFiniteSet(Cells(s, f))
<1> DEFINE T == {t \in SUBSET s : ~IsFiniteSet(Cells(t, f))}
<1>1. ASSUME T # {} PROVE FALSE
  <2>1. \A t \in T : IsFiniteSet(t)
    BY FS_Subset
  <2>2. PICK t \in T : \A r \in T : r \subseteq t => r = t
    <3> HIDE DEF T
    <3> QED
      BY <1>1, <2>1, SmallestSet
  <2>3. t # {}
    <3>1. Cells({}, f) = {}
      BY DEF Cells
    <3> QED
      BY <3>1, FS_EmptySet
  <2>4. PICK x \in t : TRUE
    BY <2>3
  <2>5. t \ {x} \notin T /\ t \ {x} \in SUBSET s
    BY <2>2
  <2> QED
    BY <2>5, CellsOfColumn
<1> QED
  BY <1>1

(* What the fold of the community modules computes.                        *)
LEMMA SumIsCells ==
  ASSUME NEW S, NEW f \in [S -> Nat], IsFiniteSet(S)
  PROVE  FoldFunction(+, 0, f) = Cardinality(Cells(S, f))
<1> DEFINE w == [s \in SUBSET S |-> Cardinality(Cells(s, f))]
<1>1. Summed(S, f, w)
  <2>1. ASSUME NEW s \in SUBSET S
        PROVE  w[s] = IF s = {} THEN 0 ELSE f[CHOOSE x \in s : TRUE] + w[s \ {CHOOSE x \in s : TRUE}]
    <3>1. CASE s = {}
      <4>1. Cells({}, f) = {}
        BY DEF Cells
      <4> QED
        BY <3>1, <4>1, FS_EmptySet
    <3>2. CASE s # {}
      <4>1. PICK x \in s : x = CHOOSE y \in s : TRUE
        BY <3>2
      <4>2. IsFiniteSet(s \ {x}) /\ s \ {x} \in SUBSET S
        BY FS_Subset
      <4>3. IsFiniteSet(Cells(s \ {x}, f))
        BY <4>2, CellsAreFinite
      <4>4. Cardinality(Cells(s, f)) = f[x] + Cardinality(Cells(s \ {x}, f))
        BY <4>3, CellsOfColumn
      <4> QED
        BY <3>2, <4>1, <4>2, <4>4
    <3> QED
      BY <3>1, <3>2
  <2> QED
    BY <2>1 DEF Summed
<1> DEFINE g == CHOOSE h : Summed(S, f, h)
<1>2. FoldFunction(+, 0, f) = g[S]
  <2>1. DOMAIN f = S
    OBVIOUS
  <2>2. FoldFunction(+, 0, f) = (CHOOSE h : Summed(DOMAIN f, f, h))[DOMAIN f]
    BY DEF FoldFunction, FoldFunctionOnSet, MapThenFoldSet, Summed
  <2> QED
    BY <2>1, <2>2
<1>3. Summed(S, f, g)
  <2> HIDE DEF w
  <2> QED
    BY <1>1
<1> HIDE DEF g
<1> DEFINE T == {s \in SUBSET S : g[s] # Cardinality(Cells(s, f))}
<1>4. ASSUME T # {} PROVE FALSE
  <2>1. \A t \in T : IsFiniteSet(t)
    BY FS_Subset
  <2>2. PICK t \in T : \A r \in T : r \subseteq t => r = t
    <3> HIDE DEF T
    <3> QED
      BY <1>4, <2>1, SmallestSet
  <2>3. g[t] = IF t = {} THEN 0 ELSE f[CHOOSE x \in t : TRUE] + g[t \ {CHOOSE x \in t : TRUE}]
    BY <1>3 DEF Summed
  <2>4. w[t] = IF t = {} THEN 0 ELSE f[CHOOSE x \in t : TRUE] + w[t \ {CHOOSE x \in t : TRUE}]
    <3> HIDE DEF w
    <3> QED
      BY <1>1 DEF Summed
  <2>5. w[t] = Cardinality(Cells(t, f))
    OBVIOUS
  <2>6. t # {}
    BY <2>3, <2>4, <2>5
  <2>7. PICK x \in t : x = CHOOSE y \in t : TRUE
    BY <2>6
  <2>8. t \ {x} \notin T /\ t \ {x} \in SUBSET S
    BY <2>2
  <2>9. g[t \ {x}] = w[t \ {x}]
    BY <2>8
  <2> QED
    <3> HIDE DEF w
    <3> QED
      BY <2>3, <2>4, <2>5, <2>6, <2>7, <2>9
<1> QED
  BY <1>2, <1>4

(* A sum is a number, and no greater than another that has as much         *)
(* wherever it has anything.                                               *)
LEMMA SumsCompare ==
  ASSUME NEW S, NEW f \in [S -> Nat], IsFiniteSet(S), NEW T, NEW g \in [T -> Nat], IsFiniteSet(T),
         \A x \in S : f[x] = 0 \/ (x \in T /\ f[x] <= g[x])
  PROVE  /\ FoldFunction(+, 0, f) \in Nat /\ FoldFunction(+, 0, g) \in Nat
         /\ FoldFunction(+, 0, f) <= FoldFunction(+, 0, g)
<1>1. FoldFunction(+, 0, f) = Cardinality(Cells(S, f)) /\ FoldFunction(+, 0, g) = Cardinality(Cells(T, g))
  BY SumIsCells
<1>2. IsFiniteSet(Cells(S, f)) /\ IsFiniteSet(Cells(T, g))
  BY CellsAreFinite
<1>3. Cells(S, f) \subseteq Cells(T, g)
  <2> SUFFICES ASSUME NEW x \in S, NEW i \in 1..f[x] PROVE <<x, i>> \in Cells(T, g)
    BY DEF Cells
  <2>1. x \in T /\ i \in 1..g[x]
    OBVIOUS
  <2> QED
    BY <2>1 DEF Cells
<1> QED
  BY <1>1, <1>2, <1>3, FS_Subset, FS_CardinalityType

-----------------------------------------------------------------------------
(* Workers and slots                                                       *)

(* Division says how often a divisor fits.                                 *)
LEMMA OftenFits ==
  ASSUME NEW k \in Nat, NEW a \in Nat, NEW b \in Nat \ {0}
  PROVE  (a \div b) \in Nat /\ (k <= a \div b <=> k * b <= a)
<1> DEFINE q == a \div b
<1>1. q \in Nat /\ q * b <= a /\ a < (q + 1) * b
  OBVIOUS
<1> HIDE DEF q
<1>2. ASSUME k <= q PROVE k * b <= a
  <2>1. PICK d \in Nat : q = k + d
    <3>1. q - k \in Nat /\ q = k + (q - k)
      BY <1>1, <1>2
    <3> QED
      BY <3>1
  <2>2. q * b = k * b + d * b /\ d * b \in Nat /\ k * b \in Nat
    BY <2>1
  <2> QED
    BY <1>1, <2>2
<1>3. ASSUME k > q PROVE k * b > a
  <2>1. PICK d \in Nat : k = q + 1 + d
    <3>1. k - (q + 1) \in Nat /\ k = q + 1 + (k - (q + 1))
      BY <1>1, <1>3
    <3> QED
      BY <3>1
  <2>2. k * b = (q + 1) * b + d * b /\ d * b \in Nat /\ (q + 1) * b \in Nat
    BY <1>1, <2>1
  <2> QED
    BY <1>1, <2>2
<1> QED
  BY <1>1, <1>2, <1>3 DEF q

(* What a worker asks for.                                                 *)
LEMMA WhatIsAsked ==
  ASSUME CapacityTypeOK, OptionsValid
  PROVE  /\ Ask["cpu"] \in Nat \ {0} /\ Ask["memory"] \in Nat \ {0} /\ Ask["gpu"] \in Nat
         /\ Workers \in Nat \ {0}
<1>1. options \in Options
  BY DEF CapacityTypeOK
<1>2. \A q \in Quantities : WorkerResource(q) \in Nat
  <2> SUFFICES ASSUME NEW q \in Quantities PROVE WorkerResource(q) \in Nat
    OBVIOUS
  <2>1. Defaults[options.accelerator] \in [Quantities -> Nat]
    BY <1>1, CapacityAssumption
  <2> QED
    BY <1>1, <2>1, CapacityAssumption DEF WorkerResource
<1>3. WorkerResource("cpuRequest") \in Nat \ {0} /\ WorkerResource("memoryRequest") \in Nat \ {0}
  BY <1>2 DEF OptionsValid, Quantities
<1>4. WorkerGpus \in Nat
  BY <1>1, CapacityAssumption DEF WorkerGpus
<1>5. options.minReplicas \in Nat /\ options.minReplicas >= 1
  BY <1>1, CapacityAssumption DEF OptionsValid
<1> QED
  BY <1>3, <1>4, <1>5 DEF Ask, Workers

(* The slots of a node are the most workers that fit on it.                *)
LEMMA SlotsFit ==
  ASSUME CapacityTypeOK, OptionsValid, NEW n \in Nodes
  PROVE  /\ WorkerSlots(n) \in Nat
         /\ \A k \in Nat : k <= WorkerSlots(n) <=>
              \A r \in {"cpu", "memory", "gpu"} : k * Ask[r] <= shape[n].allocatable[r]
<1> DEFINE alloc == shape[n].allocatable
           S == {alloc[r] \div Ask[r] : r \in Wanted}
<1>1. alloc \in [{"cpu", "memory", "gpu"} -> Nat]
  BY CapacityAssumption DEF CapacityTypeOK
<1>2. /\ Wanted \subseteq {"cpu", "memory", "gpu"} /\ "cpu" \in Wanted /\ "memory" \in Wanted
      /\ \A r \in Wanted : Ask[r] \in Nat \ {0}
      /\ "gpu" \notin Wanted => Ask["gpu"] = 0
      /\ Ask.gpu = Ask["gpu"]
  BY WhatIsAsked DEF Wanted
<1> HIDE DEF alloc
<1>3. \A r \in Wanted : alloc[r] \in Nat /\ (alloc[r] \div Ask[r]) \in Nat
  BY <1>1, <1>2, OftenFits
<1>4. PICK m \in S : \A x \in S : m <= x
  <2>1. S \in SUBSET Nat /\ S # {}
    BY <1>2, <1>3
  <2> HIDE DEF S
  <2> QED
    BY <2>1, Least
<1>5. WorkerSlots(n) = m /\ m \in Nat
  <2>1. WorkerSlots(n) = Min(S)
    BY DEF WorkerSlots, alloc
  <2>2. S \in SUBSET Nat
    BY <1>3
  <2>3. Min(S) = m
    <3> HIDE DEF S
    <3>1. \A x \in S : (\A y \in S : x <= y) => x = m
      BY <1>4, <2>2
    <3>2. (CHOOSE x \in S : \A y \in S : x <= y) = m
      BY <1>4, <3>1
    <3> QED
      BY <3>2 DEF Min
  <2> QED
    BY <2>1, <2>2, <2>3
<1>6. ASSUME NEW k \in Nat
      PROVE  k <= m <=> \A r \in {"cpu", "memory", "gpu"} : k * Ask[r] <= alloc[r]
  <2>1. k <= m <=> \A r \in Wanted : k <= alloc[r] \div Ask[r]
    BY <1>3, <1>4, <1>5
  <2>2. \A r \in Wanted : k <= alloc[r] \div Ask[r] <=> k * Ask[r] <= alloc[r]
    BY <1>2, <1>3, OftenFits
  <2>3. "gpu" \notin Wanted => k * Ask["gpu"] <= alloc["gpu"]
    BY <1>1, <1>2
  <2>4. (\A r \in {"cpu", "memory", "gpu"} : k * Ask[r] <= alloc[r]) <=> \A r \in Wanted : k * Ask[r] <= alloc[r]
    BY <1>2, <2>3
  <2> QED
    BY <2>1, <2>2, <2>4
<1> QED
  BY <1>5, <1>6 DEF alloc

(* Room for one more worker is a slot that is left.                        *)
LEMMA RoomIsASlot ==
  ASSUME CapacityTypeOK, OptionsValid, NEW n \in Nodes
  PROVE  HasRoom(n) <=> IsSchedulable(n) /\ placed[n] < WorkerSlots(n)
<1>1. placed[n] \in Nat /\ WorkerSlots(n) \in Nat
  BY SlotsFit DEF CapacityTypeOK
<1>2. placed[n] < WorkerSlots(n) <=>
        \A r \in {"cpu", "memory", "gpu"} : (placed[n] + 1) * Ask[r] <= shape[n].allocatable[r]
  <2>1. placed[n] < WorkerSlots(n) <=> placed[n] + 1 <= WorkerSlots(n)
    BY <1>1
  <2> QED
    BY <1>1, <2>1, SlotsFit
<1>3. IsSchedulable(n) <=>
        ~shape[n].unschedulable /\ "NoSchedule" \notin shape[n].taints /\ "NoExecute" \notin shape[n].taints
  BY DEF IsSchedulable, BlockingTaintEffects
<1> QED
  BY <1>2, <1>3 DEF HasRoom

-----------------------------------------------------------------------------
(* The invariant: workers run only where they may and fit.                 *)
CapacityInv ==
  /\ CapacityTypeOK
  /\ \A n \in Nodes : placed[n] # 0 => OptionsValid /\ IsSchedulable(n) /\ placed[n] <= WorkerSlots(n)

(* The invariant is inductive.                                             *)
LEMMA CapacityInvInductive ==
  /\ CapacityInit => CapacityInv
  /\ CapacityInv /\ [CapacityNext]_capacityVars => CapacityInv'
<1>1. CapacityInit => CapacityInv
  BY CapacityAssumption DEF CapacityInit, CapacityInv, CapacityTypeOK
<1>2. ASSUME CapacityInv, UNCHANGED capacityVars PROVE CapacityInv'
  <2>1. shape' = shape /\ options' = options /\ placed' = placed
    BY <1>2 DEF capacityVars
  <2>2. \A m \in Nodes : (OptionsValid' <=> OptionsValid) /\ (IsSchedulable(m)' <=> IsSchedulable(m))
                         /\ WorkerSlots(m)' = WorkerSlots(m)
    BY <2>1 DEF OptionsValid, IsSchedulable, WorkerSlots, Wanted, Ask, WorkerResource, WorkerGpus, IsGpu
  <2> QED
    BY <1>2, <2>1, <2>2 DEF CapacityInv, CapacityTypeOK
<1>3. ASSUME CapacityInv, NEW n \in Nodes, Place(n) PROVE CapacityInv'
  <2>1. /\ shape' = shape /\ options' = options /\ placed' = [placed EXCEPT ![n] = @ + 1]
        /\ OptionsValid /\ HasRoom(n)
    BY <1>3 DEF Place
  <2>2. CapacityTypeOK'
    BY <1>3, <2>1 DEF CapacityInv, CapacityTypeOK
  <2>3. \A m \in Nodes : (OptionsValid' <=> OptionsValid) /\ (IsSchedulable(m)' <=> IsSchedulable(m))
                         /\ WorkerSlots(m)' = WorkerSlots(m)
    BY <2>1 DEF OptionsValid, IsSchedulable, WorkerSlots, Wanted, Ask, WorkerResource, WorkerGpus, IsGpu
  <2>4. IsSchedulable(n) /\ placed[n] < WorkerSlots(n) /\ placed[n] \in Nat /\ WorkerSlots(n) \in Nat
    BY <1>3, <2>1, RoomIsASlot, SlotsFit DEF CapacityInv, CapacityTypeOK
  <2>5. ASSUME NEW m \in Nodes, placed'[m] # 0
        PROVE  OptionsValid /\ IsSchedulable(m) /\ placed'[m] <= WorkerSlots(m)
    <3>1. CASE m = n
      <4>1. placed'[n] = placed[n] + 1
        BY <1>3, <2>1 DEF CapacityInv, CapacityTypeOK
      <4> QED
        BY <2>1, <2>4, <3>1, <4>1
    <3>2. CASE m # n
      BY <1>3, <2>1, <2>5, <3>2 DEF CapacityInv, CapacityTypeOK
    <3> QED
      BY <3>1, <3>2
  <2> QED
    BY <2>2, <2>3, <2>5 DEF CapacityInv
<1>4. ASSUME CapacityInv, NEW n \in Nodes, NEW s \in Shapes, ChangeNode(n, s) PROVE CapacityInv'
  <2>1. /\ shape' = [shape EXCEPT ![n] = s] /\ options' = options /\ placed' = placed /\ placed[n] = 0
    BY <1>4 DEF ChangeNode
  <2>2. CapacityTypeOK'
    BY <1>4, <2>1 DEF CapacityInv, CapacityTypeOK
  <2>3. OptionsValid' <=> OptionsValid
    BY <2>1 DEF OptionsValid, WorkerResource, IsGpu
  <2>4. \A m \in Nodes : m # n => (IsSchedulable(m)' <=> IsSchedulable(m)) /\ WorkerSlots(m)' = WorkerSlots(m)
    <3>1. \A m \in Nodes : m # n => shape'[m] = shape[m]
      BY <1>4, <2>1 DEF CapacityInv, CapacityTypeOK
    <3> QED
      BY <2>1, <3>1 DEF IsSchedulable, WorkerSlots, Wanted, Ask, WorkerResource, WorkerGpus, IsGpu
  <2> QED
    BY <1>4, <2>1, <2>2, <2>3, <2>4 DEF CapacityInv
<1>5. ASSUME CapacityInv, NEW o \in Options, Configure(o) PROVE CapacityInv'
  BY <1>5 DEF CapacityInv, CapacityTypeOK, Configure
<1> QED
  BY <1>1, <1>2, <1>3, <1>4, <1>5 DEF CapacityNext

(* The workers that are placed are among the slots, and where all slots    *)
(* are taken as many are placed as there are slots.                        *)
LEMMA PlacedAreSlots ==
  ASSUME CapacityInv, OptionsValid
  PROVE  LET schedulable == {n \in Nodes : IsSchedulable(n)} IN
         /\ Slots(schedulable) \in Nat /\ FoldFunction(+, 0, placed) \in Nat
         /\ FoldFunction(+, 0, placed) <= Slots(schedulable)
         /\ (\A n \in Nodes : ~HasRoom(n)) => Slots(schedulable) <= FoldFunction(+, 0, placed)
         /\ (\A n \in schedulable : WorkerSlots(n) = 0) => FoldFunction(+, 0, placed) = 0
<1> DEFINE schedulable == {n \in Nodes : IsSchedulable(n)}
           slots == [n \in schedulable |-> WorkerSlots(n)]
           zero == [n \in Nodes |-> 0]
<1>1. placed \in [Nodes -> Nat] /\ IsFiniteSet(Nodes) /\ IsFiniteSet(schedulable)
  BY CapacityAssumption, FS_Subset DEF CapacityInv, CapacityTypeOK
<1>2. slots \in [schedulable -> Nat] /\ zero \in [Nodes -> Nat]
  BY SlotsFit DEF CapacityInv
<1>3. \A n \in Nodes : placed[n] = 0 \/ (n \in schedulable /\ placed[n] <= slots[n])
  BY DEF CapacityInv
<1>4. (\A n \in Nodes : ~HasRoom(n)) => \A n \in schedulable : slots[n] = 0 \/ (n \in Nodes /\ slots[n] <= placed[n])
  BY <1>1, <1>2, RoomIsASlot DEF CapacityInv
<1>5. ASSUME \A n \in schedulable : WorkerSlots(n) = 0 PROVE \A n \in Nodes : placed[n] = 0
  <2> SUFFICES ASSUME NEW n \in Nodes, placed[n] # 0 PROVE FALSE
    OBVIOUS
  <2>1. n \in schedulable /\ placed[n] <= WorkerSlots(n) /\ placed[n] \in Nat
    BY <1>1 DEF CapacityInv
  <2> QED
    BY <1>5, <2>1
<1>6. Slots(schedulable) = FoldFunction(+, 0, slots)
  BY DEF Slots
<1>7. FoldFunction(+, 0, zero) = 0
  <2>1. Cells(Nodes, zero) = {}
    BY DEF Cells
  <2> HIDE DEF zero
  <2> QED
    BY <1>1, <1>2, <2>1, SumIsCells, FS_EmptySet
<1>8. (\A n \in Nodes : placed[n] = 0) => FoldFunction(+, 0, placed) = 0
  <2> SUFFICES ASSUME \A n \in Nodes : placed[n] = 0 PROVE FoldFunction(+, 0, placed) = 0
    OBVIOUS
  <2>1. placed = zero
    BY <1>1
  <2> HIDE DEF zero
  <2> QED
    BY <1>7, <2>1
<1> HIDE DEF schedulable, slots
<1>9. /\ FoldFunction(+, 0, placed) \in Nat /\ FoldFunction(+, 0, slots) \in Nat
      /\ FoldFunction(+, 0, placed) <= FoldFunction(+, 0, slots)
  BY <1>1, <1>2, <1>3, SumsCompare
<1>10. (\A n \in Nodes : ~HasRoom(n)) => FoldFunction(+, 0, slots) <= FoldFunction(+, 0, placed)
  BY <1>1, <1>2, <1>4, SumsCompare
<1> QED
  BY <1>5, <1>6, <1>8, <1>9, <1>10 DEF schedulable

(* The check counts slots, and slots are what the scheduler needs.         *)
LEMMA CapacityInvImplies ==
  ASSUME CapacityInv
  PROVE  VerdictHolds
<1> SUFFICES ASSUME OptionsValid
             PROVE  /\ FindCapacityIssue = "none" /\ Unplaced > 0 => \E n \in Nodes : HasRoom(n)
                    /\ FindCapacityIssue # "none" => Unplaced > 0
  BY DEF VerdictHolds
<1> DEFINE schedulable == {n \in Nodes : IsSchedulable(n)}
           sum == FoldFunction(+, 0, placed)
           slots == Slots(schedulable)
<1>1. /\ slots \in Nat /\ sum \in Nat /\ sum <= slots
      /\ (\A n \in Nodes : ~HasRoom(n)) => slots <= sum
      /\ (\A n \in schedulable : WorkerSlots(n) = 0) => sum = 0
  BY PlacedAreSlots
<1>2. Workers \in Nat \ {0} /\ Unplaced = Workers - sum
  BY WhatIsAsked DEF Unplaced, CapacityInv
<1>3. ASSUME Ask.gpu > 0, NEW n \in schedulable, shape[n].allocatable["gpu"] < Ask.gpu
      PROVE  WorkerSlots(n) = 0
  <2>1. WorkerSlots(n) \in Nat /\ (1 <= WorkerSlots(n) => 1 * Ask["gpu"] <= shape[n].allocatable["gpu"])
    BY SlotsFit DEF CapacityInv
  <2>2. Ask["gpu"] \in Nat /\ Ask.gpu = Ask["gpu"] /\ shape[n].allocatable["gpu"] \in Nat
    BY WhatIsAsked, CapacityAssumption DEF CapacityInv, CapacityTypeOK
  <2> QED
    BY <1>3, <2>1, <2>2
<1> HIDE DEF sum, slots
<1>4. FindCapacityIssue =
        IF schedulable = {} THEN "no schedulable nodes"
        ELSE IF Ask.gpu > 0 /\ \A n \in schedulable : shape[n].allocatable["gpu"] < Ask.gpu
        THEN "no node offers the GPUs"
        ELSE IF slots = 0 THEN "no node fits a worker"
        ELSE IF slots < Workers THEN "too few workers fit"
        ELSE "none"
  BY DEF FindCapacityIssue, slots
<1>5. ASSUME FindCapacityIssue = "none" PROVE slots >= Workers
  BY <1>1, <1>2, <1>4, <1>5
<1>6. ASSUME FindCapacityIssue # "none" PROVE sum = 0 \/ slots < Workers
  <2> SUFFICES ASSUME slots >= Workers PROVE sum = 0
    BY <1>1, <1>2
  <2>1. CASE schedulable = {}
    BY <1>1, <2>1
  <2>2. CASE Ask.gpu > 0 /\ \A n \in schedulable : shape[n].allocatable["gpu"] < Ask.gpu
    <3> HIDE DEF schedulable
    <3>1. \A n \in schedulable : WorkerSlots(n) = 0
      BY <1>3, <2>2
    <3> QED
      BY <1>1, <3>1
  <2>3. CASE slots = 0
    BY <1>1, <2>3
  <2>4. ~(slots < Workers)
    BY <1>1, <1>2
  <2> HIDE DEF schedulable
  <2>5. \/ schedulable = {} \/ slots = 0
        \/ Ask.gpu > 0 /\ \A n \in schedulable : shape[n].allocatable["gpu"] < Ask.gpu
    BY <1>4, <1>6, <2>4
  <2> QED
    BY <2>1, <2>2, <2>3, <2>5
<1> QED
  BY <1>1, <1>2, <1>5, <1>6

(* For whatever nodes, whatever Kubernetes did with the first workers: the *)
(* check says that a model fits just if the scheduler can place all of it. *)
THEOREM VerdictIsRight == CapacitySpec => [](VerdictHolds /\ CapacityTypeOK)
<1>1. CapacityInv => VerdictHolds /\ CapacityTypeOK
  BY CapacityInvImplies DEF CapacityInv
<1> QED
  BY <1>1, CapacityInvInductive, PTL DEF CapacitySpec

-----------------------------------------------------------------------------
(* The libraries side by side. Whatever step is taken, every part takes a  *)
(* step of its own or rests: so whatever its specification promises it     *)
(* keeps next to the others, and the theorems about the parts hold here.   *)

libraryVars ==
  <<focus, logVars, proxyVars, ruleVars, scrapeVars, aggVars, dashVars, consumerVars, contentVars,
    memberVars, policyVars, patchVars, capacityVars>>

(* Every part makes a step of its own, or none.                            *)
EachPartSteps ==
  /\ [LogNext]_logVars /\ [ProxyNext]_proxyVars /\ [RuleNext]_ruleVars
  /\ [ScrapeNext]_scrapeVars /\ [AggNext]_aggVars /\ [DashNext]_dashVars
  /\ [ConsumerNext]_consumerVars /\ [ContentNext]_contentVars /\ [MemberNext]_memberVars
  /\ [PolicyNext]_policyVars /\ [PatchNext]_patchVars /\ [CapacityNext]_capacityVars

LEMMA PartsBegin ==
  LibrariesInit =>
    /\ LogInit /\ ProxyInit /\ RuleInit /\ ScrapeInit /\ AggInit /\ DashInit
    /\ ConsumerInit /\ ContentInit /\ MemberInit /\ PolicyInit /\ PatchInit /\ CapacityInit
BY DEF LibrariesInit

LEMMA PartsStep == [LibrariesNext]_libraryVars => EachPartSteps
<1> SUFFICES ASSUME [LibrariesNext]_libraryVars PROVE EachPartSteps
  OBVIOUS
<1>1. CASE LogStep
  BY <1>1 DEF LogStep, OthersRest, EachPartSteps
<1>2. CASE ProxyStep
  BY <1>2 DEF ProxyStep, OthersRest, EachPartSteps
<1>3. CASE RuleStep
  BY <1>3 DEF RuleStep, OthersRest, EachPartSteps
<1>4. CASE ScrapeStep
  BY <1>4 DEF ScrapeStep, OthersRest, EachPartSteps
<1>5. CASE AggStep
  BY <1>5 DEF AggStep, OthersRest, EachPartSteps
<1>6. CASE DashStep
  BY <1>6 DEF DashStep, OthersRest, EachPartSteps
<1>7. CASE ConsumerStep
  BY <1>7 DEF ConsumerStep, OthersRest, EachPartSteps
<1>8. CASE ContentStep
  BY <1>8 DEF ContentStep, OthersRest, EachPartSteps
<1>9. CASE MemberStep
  BY <1>9 DEF MemberStep, OthersRest, EachPartSteps
<1>10. CASE PolicyStep
  BY <1>10 DEF PolicyStep, OthersRest, EachPartSteps
<1>11. CASE PatchStep
  BY <1>11 DEF PatchStep, OthersRest, EachPartSteps
<1>12. CASE CapacityStep
  BY <1>12 DEF CapacityStep, OthersRest, EachPartSteps
<1>13. CASE UNCHANGED libraryVars
  BY <1>13 DEF libraryVars, EachPartSteps
<1> QED
  BY <1>1, <1>2, <1>3, <1>4, <1>5, <1>6, <1>7, <1>8, <1>9, <1>10, <1>11, <1>12, <1>13
  DEF LibrariesNext

(* Seen from any part, the libraries side by side do what that part's own  *)
(* specification says.                                                     *)
THEOREM EveryPartAsSpecified ==
  LibrariesSpec =>
    /\ LogSpec /\ ProxySpec /\ RuleSpec /\ ScrapeSpec /\ AggSpec /\ DashSpec
    /\ ConsumerSpec /\ ContentSpec /\ MemberSpec /\ PolicySpec /\ PatchSpec /\ CapacitySpec
<1>1. [LibrariesNext]_libraryVars =>
        /\ [LogNext]_logVars /\ [ProxyNext]_proxyVars /\ [RuleNext]_ruleVars
        /\ [ScrapeNext]_scrapeVars /\ [AggNext]_aggVars /\ [DashNext]_dashVars
        /\ [ConsumerNext]_consumerVars /\ [ContentNext]_contentVars /\ [MemberNext]_memberVars
        /\ [PolicyNext]_policyVars /\ [PatchNext]_patchVars /\ [CapacityNext]_capacityVars
  BY PartsStep DEF EachPartSteps
<1> QED
  BY <1>1, PartsBegin, PTL
  DEF LibrariesSpec, libraryVars, LogSpec, ProxySpec, RuleSpec, ScrapeSpec, AggSpec, DashSpec,
      ConsumerSpec, ContentSpec, MemberSpec, PolicySpec, PatchSpec, CapacitySpec

(* Next to the others every part keeps its types.                          *)
THEOREM LibrariesStayTyped == LibrariesSpec => []LibrariesTypeOK
<1>1. LogTypeOK /\ ProxyTypeOK /\ RuleTypeOK /\ ScrapeTypeOK /\ AggTypeOK /\ DashTypeOK
      /\ ConsumerTypeOK /\ ContentTypeOK /\ MemberTypeOK /\ PolicyTypeOK /\ PatchTypeOK
      /\ CapacityTypeOK => LibrariesTypeOK
  BY DEF LibrariesTypeOK
<1> QED
  BY <1>1, EveryPartAsSpecified, LogStaysTyped, ProxyStaysTyped, AllRulesArrive, TargetsAreScraped,
     PublishedFollows, DashStaysTyped, EveryUnitLoads, ContentIsKept, MemberStaysTyped,
     PolicyStaysTyped, ServiceFollows, VerdictIsRight, PTL

(* Next to the others every part keeps its invariant: all that the run of  *)
(* the libraries checks of them holds of the composition, for any          *)
(* constants.                                                              *)
THEOREM LibrariesKeepTheirInvariants ==
  LibrariesSpec =>
    [](/\ LogsFollowLoki /\ PromtailFollows /\ RulesArrive /\ EveryTargetScraped
       /\ TargetsFollowUnits /\ SharesWhatLeaderHas /\ EveryUnitLoadsNewest /\ KeepsWhatPanelsShow
       /\ LabelsFollowMesh /\ AuthorizesRelated /\ ServiceFollowsRevision /\ VerdictHolds)
BY EveryPartAsSpecified, LogsAlwaysFollowLoki, PromtailAlwaysFollows, AllRulesArrive,
   TargetsAreScraped, PublishedFollows, AlwaysSharesWhatLeaderHas, EveryUnitLoads, ContentIsKept,
   LabelsAlwaysFollowMesh, AlwaysAuthorizesRelated, ServiceFollows, VerdictIsRight, PTL
=============================================================================
