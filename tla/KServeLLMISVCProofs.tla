------------------------ MODULE KServeLLMISVCProofs ------------------------
(***************************************************************************)
(* Proofs about KServeLLMISVC, for every set of certificates and every set *)
(* of faults.                                                              *)
(***************************************************************************)
EXTENDS KServeLLMISVC, TLAPS

(* The definitions every step of a proof about one action expands.         *)
USE CertsAssumption
USE DEF hookVars, unitVars, relVars, podVars, clusterVars

(* Flags stay Boolean.                                                     *)
LEMMA FlagsStep == FlagsOK /\ [Next]_vars => FlagsOK'
<1> SUFFICES ASSUME FlagsOK, [Next]_vars PROVE FlagsOK'
  OBVIOUS
<1> USE DEF FlagsOK
<1>1. CASE ValidateFails
  BY <1>1, ZenonT(60) DEF ValidateFails, ErrorWithStatus, Publish
<1>2. CASE StartHook \/ Validate \/ ApplyBase \/ SkipUpload
  BY <1>2, ZenonT(60) DEF StartHook, Validate, ApplyBase, Continue, SkipUpload
<1>3. ASSUME NEW f \in CertFiles, Push(f) PROVE FlagsOK'
  BY <1>3, ZenonT(60) DEF Push, Continue
<1>4. CASE UpdateLayerUnreachable
  BY <1>4, ZenonT(60) DEF UpdateLayerUnreachable, ErrorWithStatus, Publish
<1>5. CASE StartUpload \/ UpdateLayer \/ RestartControllerService \/
           UpdateProxyLayer
  BY <1>5, ZenonT(60) DEF StartUpload, Continue, UpdateLayer, RestartControllerService,
      UpdateProxyLayer
<1>6. CASE UpdateProxyLayerUnreachable
  BY <1>6, ZenonT(60) DEF UpdateProxyLayerUnreachable, ErrorWithStatus, Publish
<1>7. CASE ApplyConfigsTooEarly
  BY <1>7, ZenonT(60) DEF ApplyConfigsTooEarly, ErrorWithStatus, Publish
<1>8. CASE CommitHook
  BY <1>8, ZenonT(60) DEF CommitHook
<1>9. CASE ApplyBaseFails
  BY <1>9, ZenonT(60) DEF ApplyBaseFails, Raise, Publish
<1>10. CASE HookRaises
  BY <1>10, ZenonT(60) DEF HookRaises, Raise
<1>11. CASE RemoveRaises
  BY <1>11, ZenonT(60) DEF RemoveRaises, Raise
<1>12. CASE ServiceStartFails
  BY <1>12, ZenonT(60) DEF ServiceStartFails, Raise
<1>13. CASE ApplyConfigs \/ ApplyConfigsUntrusted \/ Teardown \/ StartRemove
  BY <1>13, ZenonT(60) DEF ApplyConfigs, Publish, ApplyConfigsUntrusted, Raise, Teardown,
      StartRemove
<1>14. CASE DeleteConfigs \/ DeleteConfigsRefused \/ DeleteConfigsNotFound
            \/ DeleteCrds
  BY <1>14, ZenonT(60) DEF DeleteConfigs, Continue, DeleteConfigsRefused, Raise,
      DeleteConfigsNotFound, DeleteCrds
<1>15. CASE CrdsDeleted \/ DeleteBase \/ BaseDeleted \/ RemoveDone
  BY <1>15, ZenonT(60) DEF CrdsDeleted, Continue, DeleteBase, BaseDeleted, RemoveDone
<1>16. CASE ContainerStarts \/ PebbleRestartsService \/ PodBecomesReady \/
            PodBecomesUnready
  BY <1>16, ZenonT(60) DEF ContainerStarts, PebbleRestartsService, PodBecomesReady,
      PodBecomesUnready
<1>17. CASE PodReplaced
  BY <1>17, ZenonT(60) DEF PodReplaced
<1>18. CASE ContainerRestarts \/ ContainerUnreachable \/ FinalizeCRs \/
            CrdGone
  BY <1>18, ZenonT(60) DEF ContainerRestarts, ContainerUnreachable, FinalizeCRs, CrdGone
<1>19. CASE BaseGone \/ CreateCR \/ (\E r \in Required : DependencyReady(r))
            \/ (\E r \in Required : DependencyChanges(r))
  BY <1>19, ZenonT(60) DEF BaseGone, CreateCR, DependencyReady, DependencyChanges
<1>20. CASE ConfigChanges
  BY <1>20, ZenonT(60) DEF ConfigChanges
<1>21. CASE LeaderElected \/ LeaderLost \/ IntegratorRelated \/
            IntegratorBroken
  BY <1>21, ZenonT(60) DEF LeaderElected, LeaderLost, IntegratorRelated, IntegratorBroken
<1>22. CASE UNCHANGED vars
  BY <1>22, ZenonT(60) DEF vars
<1> QED
  BY <1>1, <1>2, <1>3, <1>4, <1>5, <1>6, <1>7, <1>8, <1>9, <1>10, <1>11,
     <1>12, <1>13, <1>14, <1>15, <1>16, <1>17, <1>18, <1>19, <1>20, <1>21,
     <1>22
  DEF Next, Reconcile, Remove, Converge, Settle, Disturb

(* Every place that may hold a certificate holds one or none.              *)
LEMMA CertsStep == CertsOK /\ [Next]_vars => CertsOK'
<1> SUFFICES ASSUME CertsOK, [Next]_vars PROVE CertsOK'
  OBVIOUS
<1> USE DEF CertsOK, CertFiles, ServerFiles, Load
<1>1. CASE StartHook
  BY <1>1 DEF StartHook, Fresh, ReconcilePCs
<1>2. CASE ApplyBase
  BY <1>2 DEF ApplyBase, Continue, ReconcilePCs
<1>3. ASSUME NEW f \in CertFiles, Push(f) PROVE CertsOK'
  BY <1>3 DEF Push, Continue, NextPush, CertFiles, ServerFiles, ReconcilePCs
<1>4. CASE UpdateLayer
  BY <1>4 DEF UpdateLayer, Continue, ReconcilePCs
<1>5. CASE RestartControllerService
  BY <1>5 DEF RestartControllerService, Continue, ReconcilePCs
<1>6. CASE ValidateFails \/ Validate \/ SkipUpload \/ StartUpload \/
           UpdateLayerUnreachable \/ UpdateProxyLayer \/
           UpdateProxyLayerUnreachable \/ ApplyConfigs
  BY <1>6 DEF ValidateFails, ErrorWithStatus, Publish, Validate, ReconcilePCs,
      SkipUpload, StartUpload, Continue, UpdateLayerUnreachable,
      UpdateProxyLayer, UpdateProxyLayerUnreachable, ApplyConfigs
<1>7. CASE CommitHook
  BY <1>7 DEF CommitHook
<1>8. CASE ApplyBaseFails
  BY <1>8 DEF ApplyBaseFails, Raise, Publish
<1>9. CASE ServiceStartFails
  BY <1>9 DEF ServiceStartFails, Raise
<1>10. CASE StartRemove
  BY <1>10 DEF StartRemove, Fresh, RemovePCs
<1>11. CASE ApplyConfigsTooEarly \/ ApplyConfigsUntrusted \/ HookRaises \/
            RemoveRaises \/ Teardown \/ DeleteConfigs \/
            DeleteConfigsRefused \/ DeleteConfigsNotFound
  BY <1>11 DEF ApplyConfigsTooEarly, ErrorWithStatus, Publish,
      ApplyConfigsUntrusted, Raise, HookRaises, RemoveRaises,
      Teardown, DeleteConfigs, Continue, RemovePCs,
      DeleteConfigsRefused, DeleteConfigsNotFound
<1>12. CASE RemoveDone
  BY <1>12 DEF RemoveDone
<1>13. CASE PebbleRestartsService
  BY <1>13 DEF PebbleRestartsService
<1>14. CASE ContainerRestarts
  BY <1>14 DEF ContainerRestarts
<1>15. CASE DeleteCrds \/ CrdsDeleted \/ DeleteBase \/ BaseDeleted \/
            ContainerStarts \/ PodBecomesReady \/ PodBecomesUnready \/
            ContainerUnreachable
  BY <1>15 DEF DeleteCrds, Continue, RemovePCs, CrdsDeleted, DeleteBase,
      BaseDeleted, ContainerStarts, PodBecomesReady,
      PodBecomesUnready, ContainerUnreachable
<1>16. CASE PodReplaced
  BY <1>16 DEF PodReplaced
<1>17. CASE BaseGone
  BY <1>17 DEF BaseGone
<1>18. CASE FinalizeCRs \/ CrdGone \/ CreateCR \/
            (\E r \in Required : DependencyReady(r)) \/
            (\E r \in Required : DependencyChanges(r)) \/ ConfigChanges \/
            LeaderElected \/ LeaderLost
  BY <1>18 DEF FinalizeCRs, CrdGone, CreateCR, DependencyReady,
      DependencyChanges, ConfigChanges, LeaderElected, LeaderLost
<1>19. CASE IntegratorRelated \/ IntegratorBroken
  BY <1>19 DEF IntegratorRelated, IntegratorBroken
<1>20. CASE UNCHANGED vars
  BY <1>20 DEF vars
<1> QED
  BY <1>1, <1>2, <1>3, <1>4, <1>5, <1>6, <1>7, <1>8, <1>9, <1>10, <1>11,
     <1>12, <1>13, <1>14, <1>15, <1>16, <1>17, <1>18, <1>19, <1>20
  DEF Next, Reconcile, Remove, Converge, Settle, Disturb

(* Every other variable keeps its range.                                   *)
LEMMA StatesStep == StatesOK /\ [Next]_vars => StatesOK'
<1> SUFFICES ASSUME StatesOK, [Next]_vars PROVE StatesOK'
  OBVIOUS
<1> USE DEF StatesOK
<1>1. CASE StartHook
  BY <1>1 DEF StartHook, Fresh, ReconcilePCs
<1>2. CASE ValidateFails
  BY <1>2 DEF ValidateFails, ErrorWithStatus, Publish
<1>3. CASE Validate
  BY <1>3 DEF Validate, ReconcilePCs
<1>4. ASSUME NEW f \in CertFiles, Push(f) PROVE StatesOK'
  BY <1>4 DEF Push, Continue, NextPush, CertFiles, ServerFiles, ReconcilePCs
<1>5. CASE ApplyBase \/ SkipUpload \/ StartUpload \/ UpdateLayer \/
           UpdateLayerUnreachable \/ RestartControllerService
  BY <1>5 DEF ApplyBase, Continue, ReconcilePCs, SkipUpload, StartUpload,
      UpdateLayer, UpdateLayerUnreachable, ErrorWithStatus, Publish,
      RestartControllerService
<1>6. CASE UpdateProxyLayer \/ UpdateProxyLayerUnreachable \/ ApplyConfigs
           \/ ApplyConfigsTooEarly \/ ApplyConfigsUntrusted \/ CommitHook
  BY <1>6 DEF UpdateProxyLayer, Continue, ReconcilePCs,
      UpdateProxyLayerUnreachable, ErrorWithStatus, Publish,
      ApplyConfigs, ApplyConfigsTooEarly, ApplyConfigsUntrusted,
      Raise, CommitHook
<1>7. CASE ApplyBaseFails \/ HookRaises \/ RemoveRaises \/
           ServiceStartFails \/ Teardown \/ StartRemove
  BY <1>7 DEF ApplyBaseFails, Raise, Publish, HookRaises, RemoveRaises,
      ServiceStartFails, Teardown, StartRemove, Fresh, RemovePCs
<1>8. CASE DeleteConfigs \/ DeleteConfigsRefused \/ DeleteConfigsNotFound
           \/ DeleteCrds \/ CrdsDeleted \/ DeleteBase
  BY <1>8 DEF DeleteConfigs, Continue, RemovePCs, DeleteConfigsRefused, Raise,
      DeleteConfigsNotFound, DeleteCrds, CrdsDeleted, DeleteBase
<1>9. CASE BaseDeleted \/ RemoveDone \/ ContainerStarts \/
           PebbleRestartsService \/ PodBecomesReady \/ PodBecomesUnready
  BY <1>9 DEF BaseDeleted, Continue, RemovePCs, RemoveDone, ContainerStarts,
      PebbleRestartsService, PodBecomesReady, PodBecomesUnready
<1>10. CASE ContainerRestarts \/ ContainerUnreachable \/ PodReplaced \/
            FinalizeCRs \/ CrdGone \/ BaseGone
  BY <1>10 DEF ContainerRestarts, ContainerUnreachable, PodReplaced,
      FinalizeCRs, CrdGone, BaseGone
<1>11. ASSUME NEW r \in Required, DependencyReady(r) PROVE StatesOK'
  BY <1>11 DEF DependencyReady
<1>12. ASSUME NEW r \in Required, DependencyChanges(r) PROVE StatesOK'
  BY <1>12 DEF DependencyChanges
<1>13. CASE CreateCR \/ ConfigChanges \/ LeaderElected \/ LeaderLost \/
            IntegratorRelated \/ IntegratorBroken
  BY <1>13 DEF CreateCR, ConfigChanges, LeaderElected, LeaderLost,
      IntegratorRelated, IntegratorBroken
<1>14. CASE UNCHANGED vars
  BY <1>14 DEF vars
<1> QED
  BY <1>1, <1>2, <1>3, <1>4, <1>5, <1>6, <1>7, <1>8, <1>9, <1>10, <1>11,
     <1>12, <1>13, <1>14
  DEF Next, Reconcile, Remove, Converge, Settle, Disturb

(* Type correctness: every variable always has its type.                   *)
THEOREM TypeCorrect == Spec => []TypeOK
<1>1. Init => TypeOK
  BY DEF Init, TypeOK, FlagsOK, CertsOK, StatesOK
<1>2. TypeOK /\ [Next]_vars => TypeOK'
  BY FlagsStep, CertsStep, StatesStep DEF TypeOK
<1> QED
  BY <1>1, <1>2, PTL DEF Spec

-----------------------------------------------------------------------------
(* The inductive invariant.                                                *)

(* The calls of a hook after base_resource_handler.apply.                  *)
AppliedPCs == ReconcilePCs \ {"validate", "base"}

(* Which hooks run in which part of the unit's life, and the status they   *)
(* leave behind.                                                           *)
PhaseInv ==
  /\ pc \in ReconcilePCs \cup {"commit"} => life \in {"alive", "dying"}
  /\ pc \in RemovePCs => life = "removing"
  /\ life \in {"removing", "gone"} => status = "maintenance"
  /\ pc \in ReconcilePCs \ {"validate"} => status = "maintenance"
  /\ life = "gone" => pc = "idle"

(* Why ready=true can be believed: it is only staged at the end of a hook  *)
(* that applied everything, and nothing is deleted before the removal,     *)
(* which starts with the relation already gone.                            *)
ReadyInv ==
  /\ life # "alive" => ~related
  /\ ~related => published = "unset" /\ staged = "none"
  /\ crd = "terminating" \/ base = "terminating" => life \in {"removing", "gone"}
  /\ pc \in AppliedPCs => crd = "present" /\ base = "present"
  /\ configs /\ life \in {"alive", "dying"} => Installed
  /\ staged = "true" => pc = "commit" /\ status = "active" /\ Installed
  /\ published = "true" => Installed

(* Why an Active unit is trusted: whoever serves the current certificate   *)
(* read it from two files that still hold it.                              *)
Holds(c) == files["tls.key"] = c /\ files["tls.crt"] = c
Synced == served \in {caBundle, NoCert} /\ (Holds(caBundle) \/ Holds(NoCert))

CertInv ==
  /\ pc # "idle" => cert # NoCert
  /\ pc # "idle" /\ stored # NoCert => cert = stored
  /\ pc # "idle" /\ served = cert => Holds(cert)
  /\ stored # NoCert /\ served = stored => Holds(stored)
  /\ pc \in AppliedPCs => caBundle = cert
  /\ status = "active" /\ (pc = "commit" \/ (pc = "idle" /\ ~failed)) => Synced

(* Why nothing is stuck at the end: the base objects go only after the     *)
(* CRD, and the CRD goes only after its objects.                           *)
RemoveInv ==
  /\ pc \in {"rmBase", "rmBaseWait", "rmDone"} => crd = "absent"
  /\ life = "gone" => crd = "absent"
  /\ crs => crd # "absent"

IInv == TypeOK /\ PhaseInv /\ ReadyInv /\ CertInv /\ RemoveInv

-----------------------------------------------------------------------------
(* Every step preserves it.                                                *)

(* The phases of the unit.                                                 *)
LEMMA PhaseStep == PhaseInv /\ [Next]_vars => PhaseInv'
<1> SUFFICES ASSUME PhaseInv, [Next]_vars PROVE PhaseInv'
  OBVIOUS
<1> USE DEF PhaseInv, ReconcilePCs, RemovePCs
<1>1. CASE StartHook
  BY <1>1 DEF StartHook, Fresh, ReconcilePCs
<1>2. CASE ValidateFails
  BY <1>2 DEF ValidateFails, ErrorWithStatus, Publish
<1>3. ASSUME NEW f \in CertFiles, Push(f) PROVE PhaseInv'
  BY <1>3 DEF Push, Continue, NextPush, CertFiles
<1>4. CASE Validate \/ ApplyBase \/ SkipUpload \/ StartUpload \/
           UpdateLayer \/ UpdateLayerUnreachable
  BY <1>4 DEF Validate, ReconcilePCs, ApplyBase, Continue, SkipUpload,
      StartUpload, UpdateLayer, UpdateLayerUnreachable,
      ErrorWithStatus, Publish
<1>5. CASE RestartControllerService \/ UpdateProxyLayer \/
           UpdateProxyLayerUnreachable \/ ApplyConfigs \/
           ApplyConfigsTooEarly \/ ApplyConfigsUntrusted
  BY <1>5 DEF RestartControllerService, Continue, ReconcilePCs,
      UpdateProxyLayer, UpdateProxyLayerUnreachable, ErrorWithStatus,
      Publish, ApplyConfigs, ApplyConfigsTooEarly,
      ApplyConfigsUntrusted, Raise
<1>6. CASE ApplyBaseFails
  BY <1>6 DEF ApplyBaseFails, Raise, Publish
<1>7. CASE HookRaises
  BY <1>7 DEF HookRaises, Raise
<1>8. CASE RemoveRaises
  BY <1>8 DEF RemoveRaises, Raise
<1>9. CASE ServiceStartFails
  BY <1>9 DEF ServiceStartFails, Raise
<1>10. CASE StartRemove
  BY <1>10 DEF StartRemove, Fresh, RemovePCs
<1>11. CASE CommitHook \/ Teardown \/ DeleteConfigs \/ DeleteConfigsRefused
            \/ DeleteConfigsNotFound \/ DeleteCrds
  BY <1>11 DEF CommitHook, Teardown, DeleteConfigs, Continue, RemovePCs,
      DeleteConfigsRefused, Raise, DeleteConfigsNotFound, DeleteCrds
<1>12. CASE CrdsDeleted \/ DeleteBase \/ BaseDeleted \/ RemoveDone \/
            ContainerStarts \/ PebbleRestartsService
  BY <1>12 DEF CrdsDeleted, Continue, RemovePCs, DeleteBase, BaseDeleted,
      RemoveDone, ContainerStarts, PebbleRestartsService
<1>13. CASE PodReplaced
  BY <1>13 DEF PodReplaced
<1>14. CASE PodBecomesReady \/ PodBecomesUnready \/ ContainerRestarts \/
            ContainerUnreachable \/ FinalizeCRs \/ CrdGone
  BY <1>14 DEF PodBecomesReady, PodBecomesUnready, ContainerRestarts,
      ContainerUnreachable, FinalizeCRs, CrdGone
<1>15. CASE BaseGone \/ CreateCR \/ (\E r \in Required : DependencyReady(r))
            \/ (\E r \in Required : DependencyChanges(r)) \/ ConfigChanges
            \/ LeaderElected
  BY <1>15 DEF BaseGone, CreateCR, DependencyReady, DependencyChanges,
      ConfigChanges, LeaderElected
<1>16. CASE LeaderLost \/ IntegratorRelated \/ IntegratorBroken
  BY <1>16 DEF LeaderLost, IntegratorRelated, IntegratorBroken
<1>17. CASE UNCHANGED vars
  BY <1>17 DEF vars
<1> QED
  BY <1>1, <1>2, <1>3, <1>4, <1>5, <1>6, <1>7, <1>8, <1>9, <1>10, <1>11,
     <1>12, <1>13, <1>14, <1>15, <1>16, <1>17
  DEF Next, Reconcile, Remove, Converge, Settle, Disturb

(* Readiness: no step lets go of an object while ready=true can be read.   *)
LEMMA ReadyStep == PhaseInv /\ ReadyInv /\ [Next]_vars => ReadyInv'
<1> SUFFICES ASSUME PhaseInv, ReadyInv, [Next]_vars PROVE ReadyInv'
  OBVIOUS
<1> USE DEF PhaseInv, ReadyInv, Installed, AppliedPCs, ReconcilePCs, RemovePCs
<1>1. CASE StartHook
  BY <1>1 DEF StartHook, Fresh, ReconcilePCs
<1>2. CASE ValidateFails
  BY <1>2 DEF ValidateFails, ErrorWithStatus, Publish
<1>3. CASE ApplyBase
  BY <1>3 DEF ApplyBase, Continue, ReconcilePCs
<1>4. ASSUME NEW f \in CertFiles, Push(f) PROVE ReadyInv'
  BY <1>4 DEF Push, Continue, NextPush, CertFiles
<1>5. CASE Validate \/ SkipUpload \/ StartUpload \/ UpdateLayer \/
           UpdateLayerUnreachable
  BY <1>5 DEF Validate, ReconcilePCs, SkipUpload, StartUpload, Continue,
      UpdateLayer, UpdateLayerUnreachable, ErrorWithStatus, Publish
<1>6. CASE ApplyConfigs
  BY <1>6 DEF ApplyConfigs, Publish
<1>7. CASE RestartControllerService \/ UpdateProxyLayer \/
           UpdateProxyLayerUnreachable \/ ApplyConfigsTooEarly \/
           ApplyConfigsUntrusted
  BY <1>7 DEF RestartControllerService, Continue, ReconcilePCs,
      UpdateProxyLayer, UpdateProxyLayerUnreachable, ErrorWithStatus,
      Publish, ApplyConfigsTooEarly, ApplyConfigsUntrusted, Raise
<1>8. CASE CommitHook
  BY <1>8 DEF CommitHook
<1>9. CASE ApplyBaseFails
  BY <1>9 DEF ApplyBaseFails, Raise, Publish
<1>10. CASE HookRaises
  BY <1>10 DEF HookRaises, Raise
<1>11. CASE RemoveRaises
  BY <1>11 DEF RemoveRaises, Raise
<1>12. CASE ServiceStartFails
  BY <1>12 DEF ServiceStartFails, Raise
<1>13. CASE Teardown
  BY <1>13 DEF Teardown
<1>14. CASE StartRemove
  BY <1>14 DEF StartRemove, Fresh, RemovePCs
<1>15. CASE DeleteConfigs
  BY <1>15 DEF DeleteConfigs, Continue, RemovePCs
<1>16. CASE DeleteCrds
  BY <1>16 DEF DeleteCrds, Continue, RemovePCs
<1>17. CASE DeleteBase
  BY <1>17 DEF DeleteBase, Continue, RemovePCs
<1>18. CASE DeleteConfigsRefused \/ DeleteConfigsNotFound \/ CrdsDeleted \/
            BaseDeleted \/ RemoveDone
  BY <1>18 DEF DeleteConfigsRefused, Raise, DeleteConfigsNotFound, Continue,
      RemovePCs, CrdsDeleted, BaseDeleted, RemoveDone
<1>19. CASE ContainerStarts \/ PebbleRestartsService \/ PodBecomesReady \/
            PodBecomesUnready \/ ContainerRestarts
  BY <1>19 DEF ContainerStarts, PebbleRestartsService, PodBecomesReady,
      PodBecomesUnready, ContainerRestarts
<1>20. CASE PodReplaced
  BY <1>20 DEF PodReplaced
<1>21. CASE CrdGone
  BY <1>21 DEF CrdGone
<1>22. CASE BaseGone
  BY <1>22 DEF BaseGone
<1>23. CASE ContainerUnreachable \/ FinalizeCRs \/ CreateCR \/
            (\E r \in Required : DependencyReady(r)) \/
            (\E r \in Required : DependencyChanges(r))
  BY <1>23 DEF ContainerUnreachable, FinalizeCRs, CreateCR, DependencyReady,
      DependencyChanges
<1>24. CASE IntegratorBroken
  BY <1>24 DEF IntegratorBroken
<1>25. CASE ConfigChanges \/ LeaderElected \/ LeaderLost \/
            IntegratorRelated
  BY <1>25 DEF ConfigChanges, LeaderElected, LeaderLost, IntegratorRelated
<1>26. CASE UNCHANGED vars
  BY <1>26 DEF vars
<1> QED
  BY <1>1, <1>2, <1>3, <1>4, <1>5, <1>6, <1>7, <1>8, <1>9, <1>10, <1>11,
     <1>12, <1>13, <1>14, <1>15, <1>16, <1>17, <1>18, <1>19, <1>20, <1>21,
     <1>22, <1>23, <1>24, <1>25, <1>26
  DEF Next, Reconcile, Remove, Converge, Settle, Disturb

(* Certificates: no step separates a served certificate from its files, or *)
(* an Active unit from the CA of its webhooks.                             *)
LEMMA CertStep == CertsOK /\ PhaseInv /\ ReadyInv /\ CertInv /\ [Next]_vars => CertInv'
<1> SUFFICES ASSUME CertsOK, PhaseInv, ReadyInv, CertInv, [Next]_vars PROVE CertInv'
  OBVIOUS
<1> USE DEF CertsOK, PhaseInv, ReadyInv, CertInv, Holds, Synced, AppliedPCs,
             ReconcilePCs, RemovePCs, CertFiles, ServerFiles
<1>1. CASE StartHook
  BY <1>1 DEF StartHook, Fresh, ReconcilePCs
<1>2. CASE ValidateFails
  BY <1>2 DEF ValidateFails, ErrorWithStatus, Publish
<1>3. CASE Validate
  BY <1>3 DEF Validate, ReconcilePCs
<1>4. CASE ApplyBase
  BY <1>4 DEF ApplyBase, Continue, ReconcilePCs
<1>5. ASSUME NEW f \in CertFiles, Push(f) PROVE CertInv'
  BY <1>5 DEF Push, Continue, NextPush
<1>6. CASE UpdateLayer
  BY <1>6 DEF UpdateLayer, Continue, Load
<1>7. CASE RestartControllerService
  BY <1>7 DEF RestartControllerService, Continue, Load
<1>8. CASE SkipUpload \/ StartUpload \/ UpdateLayerUnreachable \/
           UpdateProxyLayer
  BY <1>8 DEF SkipUpload, ReconcilePCs, StartUpload, Continue,
      UpdateLayerUnreachable, ErrorWithStatus, Publish,
      UpdateProxyLayer
<1>9. CASE ApplyConfigs
  BY <1>9 DEF ApplyConfigs, WebhookTrusted, Listening
<1>10. CASE CommitHook
  BY <1>10 DEF CommitHook
<1>11. CASE ApplyBaseFails
  BY <1>11 DEF ApplyBaseFails, Raise, Publish
<1>12. CASE HookRaises
  BY <1>12 DEF HookRaises, Raise
<1>13. CASE RemoveRaises
  BY <1>13 DEF RemoveRaises, Raise
<1>14. CASE ServiceStartFails
  BY <1>14 DEF ServiceStartFails, Raise
<1>15. CASE UpdateProxyLayerUnreachable \/ ApplyConfigsTooEarly \/
            ApplyConfigsUntrusted \/ Teardown
  BY <1>15 DEF UpdateProxyLayerUnreachable, ErrorWithStatus, Publish,
      ApplyConfigsTooEarly, ApplyConfigsUntrusted, Raise, Teardown
<1>16. CASE StartRemove
  BY <1>16 DEF StartRemove, Fresh, RemovePCs
<1>17. CASE DeleteConfigs \/ DeleteConfigsRefused \/ DeleteConfigsNotFound
            \/ DeleteCrds
  BY <1>17 DEF DeleteConfigs, Continue, RemovePCs, DeleteConfigsRefused, Raise,
      DeleteConfigsNotFound, DeleteCrds
<1>18. CASE RemoveDone
  BY <1>18 DEF RemoveDone
<1>19. CASE CrdsDeleted \/ DeleteBase \/ BaseDeleted \/ ContainerStarts
  BY <1>19 DEF CrdsDeleted, Continue, RemovePCs, DeleteBase, BaseDeleted,
      ContainerStarts
<1>20. CASE PebbleRestartsService
  BY <1>20 DEF PebbleRestartsService, Load
<1>21. CASE ContainerRestarts
  BY <1>21 DEF ContainerRestarts
<1>22. CASE PodReplaced
  BY <1>22 DEF PodReplaced
<1>23. CASE PodBecomesReady \/ PodBecomesUnready \/ ContainerUnreachable \/
            FinalizeCRs
  BY <1>23 DEF PodBecomesReady, PodBecomesUnready, ContainerUnreachable,
      FinalizeCRs
<1>24. CASE BaseGone
  BY <1>24 DEF BaseGone
<1>25. CASE CrdGone \/ CreateCR \/ (\E r \in Required : DependencyReady(r))
            \/ (\E r \in Required : DependencyChanges(r))
  BY <1>25 DEF CrdGone, CreateCR, DependencyReady, DependencyChanges
<1>26. CASE ConfigChanges \/ LeaderElected \/ LeaderLost \/
            IntegratorRelated
  BY <1>26 DEF ConfigChanges, LeaderElected, LeaderLost, IntegratorRelated
<1>27. CASE IntegratorBroken
  BY <1>27 DEF IntegratorBroken
<1>28. CASE UNCHANGED vars
  BY <1>28 DEF vars
<1> QED
  BY <1>1, <1>2, <1>3, <1>4, <1>5, <1>6, <1>7, <1>8, <1>9, <1>10, <1>11,
     <1>12, <1>13, <1>14, <1>15, <1>16, <1>17, <1>18, <1>19, <1>20, <1>21,
     <1>22, <1>23, <1>24, <1>25, <1>26, <1>27, <1>28
  DEF Next, Reconcile, Remove, Converge, Settle, Disturb

(* Removal: the CRD goes first, and only without objects.                  *)
LEMMA RemoveStep == PhaseInv /\ RemoveInv /\ [Next]_vars => RemoveInv'
<1> SUFFICES ASSUME PhaseInv, RemoveInv, [Next]_vars PROVE RemoveInv'
  OBVIOUS
<1> USE DEF PhaseInv, RemoveInv, ReconcilePCs, RemovePCs
<1>1. CASE StartHook
  BY <1>1 DEF StartHook, Fresh, ReconcilePCs
<1>2. CASE ApplyBase
  BY <1>2 DEF ApplyBase, Continue, ReconcilePCs
<1>3. ASSUME NEW f \in CertFiles, Push(f) PROVE RemoveInv'
  BY <1>3 DEF Push, Continue, NextPush, CertFiles
<1>4. CASE ValidateFails \/ Validate \/ SkipUpload \/ StartUpload \/
           UpdateLayer \/ UpdateLayerUnreachable
  BY <1>4 DEF ValidateFails, ErrorWithStatus, Publish, Validate, ReconcilePCs,
      SkipUpload, StartUpload, Continue, UpdateLayer,
      UpdateLayerUnreachable
<1>5. CASE RestartControllerService \/ UpdateProxyLayer \/
           UpdateProxyLayerUnreachable \/ ApplyConfigs \/
           ApplyConfigsTooEarly \/ ApplyConfigsUntrusted
  BY <1>5 DEF RestartControllerService, Continue, ReconcilePCs,
      UpdateProxyLayer, UpdateProxyLayerUnreachable, ErrorWithStatus,
      Publish, ApplyConfigs, ApplyConfigsTooEarly,
      ApplyConfigsUntrusted, Raise
<1>6. CASE ApplyBaseFails
  BY <1>6 DEF ApplyBaseFails, Raise, Publish
<1>7. CASE HookRaises
  BY <1>7 DEF HookRaises, Raise
<1>8. CASE RemoveRaises
  BY <1>8 DEF RemoveRaises, Raise
<1>9. CASE CommitHook \/ ServiceStartFails \/ Teardown \/ StartRemove \/
           DeleteConfigs \/ DeleteConfigsRefused
  BY <1>9 DEF CommitHook, ServiceStartFails, Raise, Teardown, StartRemove,
      Fresh, RemovePCs, DeleteConfigs, Continue, DeleteConfigsRefused
<1>10. CASE RemoveDone
  BY <1>10 DEF RemoveDone
<1>11. CASE DeleteConfigsNotFound \/ DeleteCrds \/ CrdsDeleted \/ DeleteBase
            \/ BaseDeleted \/ ContainerStarts
  BY <1>11 DEF DeleteConfigsNotFound, Continue, Raise, RemovePCs, DeleteCrds,
      CrdsDeleted, DeleteBase, BaseDeleted, ContainerStarts
<1>12. CASE PodReplaced
  BY <1>12 DEF PodReplaced
<1>13. CASE PebbleRestartsService \/ PodBecomesReady \/ PodBecomesUnready \/
            ContainerRestarts \/ ContainerUnreachable \/ FinalizeCRs
  BY <1>13 DEF PebbleRestartsService, PodBecomesReady, PodBecomesUnready,
      ContainerRestarts, ContainerUnreachable, FinalizeCRs
<1>14. CASE CrdGone \/ BaseGone \/ CreateCR \/
            (\E r \in Required : DependencyReady(r)) \/
            (\E r \in Required : DependencyChanges(r)) \/ ConfigChanges
  BY <1>14 DEF CrdGone, BaseGone, CreateCR, DependencyReady, DependencyChanges,
      ConfigChanges
<1>15. CASE LeaderElected \/ LeaderLost \/ IntegratorRelated \/
            IntegratorBroken
  BY <1>15 DEF LeaderElected, LeaderLost, IntegratorRelated, IntegratorBroken
<1>16. CASE UNCHANGED vars
  BY <1>16 DEF vars
<1> QED
  BY <1>1, <1>2, <1>3, <1>4, <1>5, <1>6, <1>7, <1>8, <1>9, <1>10, <1>11,
     <1>12, <1>13, <1>14, <1>15, <1>16
  DEF Next, Reconcile, Remove, Converge, Settle, Disturb

(* The invariant is inductive.                                             *)
THEOREM Invariant == Spec => []IInv
<1>1. Init => IInv
  <2> SUFFICES ASSUME Init PROVE IInv
    OBVIOUS
  <2>1. TypeOK
    BY DEF Init, TypeOK, FlagsOK, CertsOK, StatesOK
  <2>2. PhaseInv /\ RemoveInv
    BY DEF Init, PhaseInv, RemoveInv, ReconcilePCs, RemovePCs
  <2>3. ReadyInv /\ CertInv
    BY DEF Init, ReadyInv, CertInv, AppliedPCs, ReconcilePCs
  <2> QED
    BY <2>1, <2>2, <2>3 DEF IInv
<1>2. IInv /\ [Next]_vars => IInv'
  BY FlagsStep, CertsStep, StatesStep, PhaseStep, ReadyStep, CertStep, RemoveStep DEF IInv, TypeOK
<1> QED
  BY <1>1, <1>2, PTL DEF Spec

(* An Active unit at rest has one certificate everywhere.                  *)
THEOREM ActiveTrusted == Spec => []ActiveIsTrusted
<1>1. IInv => ActiveIsTrusted
  BY DEF IInv, CertInv, ActiveIsTrusted, Synced, Holds
<1> QED
  BY <1>1, Invariant, PTL

(* Consumers that read ready=true find everything installed.               *)
THEOREM ReadyInstalled == Spec => []ReadyMeansInstalled
<1>1. IInv => ReadyMeansInstalled
  BY DEF IInv, ReadyInv, ReadyMeansInstalled
<1> QED
  BY <1>1, Invariant, PTL

(* A removed unit leaves no CRD and no object with a finalizer.            *)
THEOREM NothingLeftStuck == Spec => []NothingStuck
<1>1. IInv => NothingStuck
  BY DEF IInv, RemoveInv, NothingStuck
<1> QED
  BY <1>1, Invariant, PTL
-----------------------------------------------------------------------------
(* Steps.                                                                  *)

(* The base objects are deleted only once the CRD is gone.                 *)
THEOREM BaseOutlives == Spec => BaseOutlivesCrd
<1>1. IInv /\ [Next]_vars => [base = "present" /\ base' # "present" => crd = "absent"]_vars
  <2> SUFFICES ASSUME IInv, [Next]_vars, base = "present", base' # "present" PROVE crd = "absent"
    OBVIOUS
  <2>1. CASE DeleteBase
    BY <2>1 DEF DeleteBase, IInv, RemoveInv
  <2>2. base' = base \/ base' = "present" \/ DeleteBase \/ BaseGone
    <3>1. CASE StartHook \/ ValidateFails \/ Validate \/ ApplyBase \/
               SkipUpload
      BY <3>1 DEF StartHook, Fresh, ReconcilePCs, ValidateFails, ErrorWithStatus,
          Publish, Validate, ApplyBase, Continue, SkipUpload
    <3>2. ASSUME NEW f \in CertFiles, Push(f) PROVE base' = base
      BY <3>2 DEF Push, Continue, NextPush, CertFiles, ServerFiles, ReconcilePCs
    <3>3. CASE StartUpload \/ UpdateLayer \/ UpdateLayerUnreachable \/
               RestartControllerService \/ UpdateProxyLayer
      BY <3>3 DEF StartUpload, Continue, ReconcilePCs, UpdateLayer,
          UpdateLayerUnreachable, ErrorWithStatus, Publish,
          RestartControllerService, UpdateProxyLayer
    <3>4. CASE UpdateProxyLayerUnreachable \/ ApplyConfigs \/
               ApplyConfigsTooEarly \/ ApplyConfigsUntrusted \/ CommitHook
      BY <3>4 DEF UpdateProxyLayerUnreachable, ErrorWithStatus, Publish,
          ApplyConfigs, ApplyConfigsTooEarly, ApplyConfigsUntrusted,
          Raise, CommitHook
    <3>5. CASE ApplyBaseFails \/ HookRaises \/ RemoveRaises \/
               ServiceStartFails \/ Teardown
      BY <3>5 DEF ApplyBaseFails, Raise, Publish, HookRaises, RemoveRaises,
          ServiceStartFails, Teardown
    <3>6. CASE StartRemove \/ DeleteConfigs \/ DeleteConfigsRefused \/
               DeleteConfigsNotFound \/ DeleteCrds
      BY <3>6 DEF StartRemove, Fresh, RemovePCs, DeleteConfigs, Continue,
          DeleteConfigsRefused, Raise, DeleteConfigsNotFound, DeleteCrds
    <3>7. CASE DeleteBase
      BY <3>7 DEF DeleteBase, Continue, RemovePCs
    <3>8. CASE CrdsDeleted \/ BaseDeleted \/ RemoveDone \/ ContainerStarts \/
               PebbleRestartsService
      BY <3>8 DEF CrdsDeleted, Continue, RemovePCs, BaseDeleted, RemoveDone,
          ContainerStarts, PebbleRestartsService
    <3>9. CASE PodBecomesReady \/ PodBecomesUnready \/ ContainerRestarts \/
               ContainerUnreachable \/ PodReplaced
      BY <3>9 DEF PodBecomesReady, PodBecomesUnready, ContainerRestarts,
          ContainerUnreachable, PodReplaced
    <3>10. CASE BaseGone
      BY <3>10 DEF BaseGone
    <3>11. CASE FinalizeCRs \/ CrdGone \/ CreateCR \/
                (\E r \in Required : DependencyReady(r)) \/
                (\E r \in Required : DependencyChanges(r))
      BY <3>11 DEF FinalizeCRs, CrdGone, CreateCR, DependencyReady,
          DependencyChanges
    <3>12. CASE ConfigChanges \/ LeaderElected \/ LeaderLost \/
                IntegratorRelated \/ IntegratorBroken
      BY <3>12 DEF ConfigChanges, LeaderElected, LeaderLost, IntegratorRelated,
          IntegratorBroken
    <3>13. CASE UNCHANGED vars
      BY <3>13 DEF vars
    <3> QED
      BY <3>1, <3>2, <3>3, <3>4, <3>5, <3>6, <3>7, <3>8, <3>9, <3>10, <3>11,
         <3>12, <3>13
      DEF Next, Reconcile, Remove, Converge, Settle, Disturb
  <2> QED
    BY <2>1, <2>2 DEF BaseGone
<1> QED
  BY <1>1, Invariant, PTL DEF Spec, BaseOutlivesCrd

(* The unit implements the contract of its relation.                       *)
LEMMA ContractStep == IInv /\ [Next]_vars => [Contract!Next]_(Contract!vars)
<1> SUFFICES ASSUME IInv, [Next]_vars PROVE [Contract!Next]_(Contract!vars)
  OBVIOUS
<1> USE DEF IInv, PhaseInv, ReadyInv, Installed, Contract!Next, Contract!vars, Contract!Install,
            Contract!Activate, Contract!Deactivate, Contract!Promise, Contract!Withdraw, Contract!Uninstall
<1> USE DEF TypeOK, StatesOK, AppliedPCs, ReconcilePCs
<1>1. CASE StartHook
  BY <1>1 DEF StartHook, Fresh, ReconcilePCs
<1>2. CASE ValidateFails
  BY <1>2 DEF ValidateFails, ErrorWithStatus, Publish
<1>3. CASE Validate
  BY <1>3 DEF Validate, ReconcilePCs
<1>4. CASE ApplyBase
  BY <1>4 DEF ApplyBase, Continue, ReconcilePCs
<1>5. CASE SkipUpload
  BY <1>5 DEF SkipUpload, ReconcilePCs
<1>6. CASE StartUpload
  BY <1>6 DEF StartUpload, Continue, ReconcilePCs
<1>7. ASSUME NEW f \in CertFiles, Push(f) PROVE [Contract!Next]_(Contract!vars)
  BY <1>7 DEF Push, Continue, NextPush, CertFiles, ServerFiles, ReconcilePCs
<1>8. CASE UpdateLayer
  BY <1>8 DEF UpdateLayer, Continue, ReconcilePCs
<1>9. CASE UpdateLayerUnreachable
  BY <1>9 DEF UpdateLayerUnreachable, ErrorWithStatus, Publish
<1>10. CASE UpdateProxyLayer
  BY <1>10 DEF UpdateProxyLayer, Continue, ReconcilePCs
<1>11. CASE UpdateProxyLayerUnreachable
  BY <1>11 DEF UpdateProxyLayerUnreachable, ErrorWithStatus, Publish
<1>12. CASE ApplyConfigs
  BY <1>12 DEF ApplyConfigs, Publish
<1>13. CASE ApplyConfigsTooEarly
  BY <1>13 DEF ApplyConfigsTooEarly, ErrorWithStatus, Publish
<1>14. CASE ApplyConfigsUntrusted
  BY <1>14 DEF ApplyConfigsUntrusted, Raise
<1>15. CASE CommitHook
  BY <1>15 DEF CommitHook
<1>16. CASE ApplyBaseFails
  BY <1>16 DEF ApplyBaseFails, Raise, Publish
<1>17. CASE HookRaises
  BY <1>17 DEF HookRaises, Raise
<1>18. CASE RemoveRaises
  BY <1>18 DEF RemoveRaises, Raise
<1>19. CASE ServiceStartFails
  BY <1>19 DEF ServiceStartFails, Raise
<1>20. CASE Teardown
  BY <1>20 DEF Teardown
<1>21. CASE StartRemove
  BY <1>21 DEF StartRemove, Fresh, RemovePCs
<1>22. CASE DeleteConfigs
  BY <1>22 DEF DeleteConfigs, Continue, RemovePCs
<1>23. CASE DeleteConfigsRefused
  BY <1>23 DEF DeleteConfigsRefused, Raise
<1>24. CASE DeleteCrds
  BY <1>24 DEF DeleteCrds, Continue, RemovePCs
<1>25. CASE DeleteBase
  BY <1>25 DEF DeleteBase, Continue, RemovePCs
<1>26. CASE RestartControllerService \/ DeleteConfigsNotFound \/ CrdsDeleted
            \/ BaseDeleted \/ RemoveDone
  BY <1>26 DEF RestartControllerService, Continue, Raise, ReconcilePCs,
      DeleteConfigsNotFound, RemovePCs, CrdsDeleted, BaseDeleted,
      RemoveDone
<1>27. CASE ContainerStarts \/ PebbleRestartsService \/ PodBecomesReady \/
            PodBecomesUnready \/ ContainerRestarts
  BY <1>27 DEF ContainerStarts, PebbleRestartsService, PodBecomesReady,
      PodBecomesUnready, ContainerRestarts
<1>28. CASE CrdGone
  BY <1>28 DEF CrdGone
<1>29. CASE BaseGone
  BY <1>29 DEF BaseGone
<1>30. CASE ContainerUnreachable \/ PodReplaced \/ FinalizeCRs \/ CreateCR
            \/ (\E r \in Required : DependencyReady(r))
  BY <1>30 DEF ContainerUnreachable, PodReplaced, FinalizeCRs, CreateCR,
      DependencyReady
<1>31. CASE (\E r \in Required : DependencyChanges(r)) \/ ConfigChanges \/
            LeaderElected \/ LeaderLost \/ IntegratorRelated
  BY <1>31 DEF DependencyChanges, ConfigChanges, LeaderElected, LeaderLost,
      IntegratorRelated
<1>32. CASE IntegratorBroken
  BY <1>32 DEF IntegratorBroken
<1>33. CASE UNCHANGED vars
  BY <1>33 DEF vars
<1> QED
  BY <1>1, <1>2, <1>3, <1>4, <1>5, <1>6, <1>7, <1>8, <1>9, <1>10, <1>11,
     <1>12, <1>13, <1>14, <1>15, <1>16, <1>17, <1>18, <1>19, <1>20, <1>21,
     <1>22, <1>23, <1>24, <1>25, <1>26, <1>27, <1>28, <1>29, <1>30, <1>31,
     <1>32, <1>33
  DEF Next, Reconcile, Remove, Converge, Settle, Disturb

THEOREM ImplementsContract == Spec => KeepsContract
<1>1. Init => Contract!Init
  BY DEF Init, Contract!Init, Installed
<1> QED
  BY <1>1, ContractStep, Invariant, PTL DEF Spec, KeepsContract, Contract!Spec
=============================================================================
