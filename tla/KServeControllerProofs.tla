----------------------- MODULE KServeControllerProofs -----------------------
(***************************************************************************)
(* Proofs about KServeController, for every set of certificates,           *)
(* endpoints, deployment modes and faults.                                 *)
(***************************************************************************)
EXTENDS KServeController, TLAPS

USE CertsAssumption, InputsAssumption
(* The definitions every step of a proof about one action expands.         *)
USE DEF hookVars, unitVars, inputVars, bagVars, podVars, clusterVars

(* The running hook keeps its range.                                       *)
LEMMA HookStep == HookOK /\ [Next]_vars => HookOK'
<1> SUFFICES ASSUME HookOK, [Next]_vars PROVE HookOK'
  OBVIOUS
<1> USE DEF HookOK, ReconcilePCs, RemovePCs, Storages, Shapes
<1>1. CASE GenerateContext
  BY <1>1 DEF GenerateContext, Shape
<1>2. CASE ContextRefused
  BY <1>2 DEF ContextRefused, ErrorWithStatus, Publish, Has, Refusal
<1>3. CASE ImagesRaise
  BY <1>3 DEF ImagesRaise, Raise, Flush
<1>4. CASE SendManifests
  BY <1>4 DEF SendManifests, Source
<1>5. CASE StorageRefused
  BY <1>5 DEF StorageRefused, ErrorWithStatus, Publish, Has, StorageRefusal
<1>6. CASE StorageRaises
  BY <1>6 DEF StorageRaises, Raise, Flush
<1>7. CASE StartHook \/ ReconcilePolicies \/ ApplyBase \/ ApplyConfigMap \/
           UploadCerts
  BY <1>7 DEF StartHook, Fresh, ReconcilePolicies, Continue, ApplyBase,
      ApplyConfigMap, UploadCerts
<1>8. CASE UpdateLayerUnreachable
  BY <1>8 DEF UpdateLayerUnreachable, ErrorWithStatus, Publish, Has
<1>9. CASE ApplyRuntimesUntrusted
  BY <1>9 DEF ApplyRuntimesUntrusted, Raise, Flush
<1>10. CASE SkipUpload \/ UpdateLayer \/ RestartControllerService \/
            ApplyRuntimes \/ CommitHook
  BY <1>10 DEF SkipUpload, UpdateLayer, Continue, RestartControllerService,
      ApplyRuntimes, WebhookTrusted, Listening, Publish, Has,
      CommitHook, Flush
<1>11. CASE StartRemove \/ RemovePolicies \/ DeleteRuntimes \/
            RuntimesDeleted \/ DeleteBase
  BY <1>11 DEF StartRemove, Fresh, RemovePolicies, Continue, DeleteRuntimes,
      RuntimesDeleted, DeleteBase
<1>12. CASE DeleteConfigMap \/ RemoveDone \/ ContainerStarts \/
            PodBecomesReady \/ RuntimesGone
  BY <1>12 DEF DeleteConfigMap, Continue, RemoveDone, ContainerStarts,
      PodBecomesReady, RuntimesGone
<1>13. CASE ApplyFails
  BY <1>13 DEF ApplyFails, Raise, Flush, Publish, Has
<1>14. CASE UploadFails
  BY <1>14 DEF UploadFails, Raise, Flush
<1>15. CASE ServiceStartFails
  BY <1>15 DEF ServiceStartFails, Raise, Flush
<1>16. CASE RuntimesRefused
  BY <1>16 DEF RuntimesRefused, Raise, Flush
<1>17. CASE RemoveRaises \/ DeleteRuntimesUnrendered \/ RemoveNotFound
  BY <1>17 DEF RemoveRaises, DeleteRuntimesUnrendered, RemoveNotFound, Continue,
      Raise, Flush
<1>18. CASE PebbleRestartsService \/ LeaderElected \/
            (\E e \in Endpoints : RelationGains(e)) \/ PodBecomesUnready \/
            ContainerLost
  BY <1>18 DEF PebbleRestartsService, LeaderElected, RelationGains,
      PodBecomesUnready, ContainerLost
<1>19. CASE PodReplaced \/ ModeChanges \/ ImagesChange \/ LeaderLost \/
            Teardown
  BY <1>19 DEF PodReplaced, ModeChanges, ImagesChange, LeaderLost, Teardown
<1>20. ASSUME NEW e \in Endpoints, RelationLoses(e) PROVE HookOK'
  BY <1>20 DEF RelationLoses
<1>21. CASE UNCHANGED vars
  BY <1>21 DEF vars
<1> QED
  BY <1>1, <1>2, <1>3, <1>4, <1>5, <1>6, <1>7, <1>8, <1>9, <1>10, <1>11,
     <1>12, <1>13, <1>14, <1>15, <1>16, <1>17, <1>18, <1>19, <1>20, <1>21
  DEF Next, Reconcile, Remove, Converge, Settle, Disturb

(* So does the unit.                                                       *)
LEMMA UnitStep == UnitOK /\ [Next]_vars => UnitOK'
<1> SUFFICES ASSUME UnitOK, [Next]_vars PROVE UnitOK'
  OBVIOUS
<1> USE DEF UnitOK
<1>1. CASE ContextRefused
  BY <1>1 DEF ContextRefused, ErrorWithStatus, Publish, Has, Refusal
<1>2. CASE ImagesRaise
  BY <1>2 DEF ImagesRaise, Raise, Flush
<1>3. CASE StartHook \/ GenerateContext \/ ReconcilePolicies \/ ApplyBase
           \/ ApplyConfigMap \/ SendManifests
  BY <1>3 DEF StartHook, Fresh, GenerateContext, Shape, ReconcilePolicies,
      Continue, ApplyBase, ApplyConfigMap, SendManifests
<1>4. CASE StorageRefused
  BY <1>4 DEF StorageRefused, ErrorWithStatus, Publish, Has, StorageRefusal
<1>5. CASE StorageRaises
  BY <1>5 DEF StorageRaises, Raise, Flush
<1>6. CASE UpdateLayerUnreachable
  BY <1>6 DEF UpdateLayerUnreachable, ErrorWithStatus, Publish, Has
<1>7. CASE ApplyRuntimesUntrusted
  BY <1>7 DEF ApplyRuntimesUntrusted, Raise, Flush
<1>8. CASE UploadCerts \/ SkipUpload \/ UpdateLayer \/
           RestartControllerService \/ ApplyRuntimes \/ CommitHook
  BY <1>8 DEF UploadCerts, Continue, SkipUpload, UpdateLayer,
      RestartControllerService, ApplyRuntimes, WebhookTrusted,
      Listening, Publish, Has, CommitHook, Flush
<1>9. CASE StartRemove \/ RemovePolicies \/ DeleteRuntimes \/
           RuntimesDeleted \/ DeleteBase \/ DeleteConfigMap
  BY <1>9 DEF StartRemove, Fresh, RemovePolicies, Continue, DeleteRuntimes,
      RuntimesDeleted, DeleteBase, DeleteConfigMap
<1>10. CASE RemoveDone \/ ContainerStarts \/ PodBecomesReady \/ RuntimesGone
            \/ PebbleRestartsService \/ LeaderElected
  BY <1>10 DEF RemoveDone, ContainerStarts, PodBecomesReady, RuntimesGone,
      PebbleRestartsService, LeaderElected
<1>11. CASE ApplyFails
  BY <1>11 DEF ApplyFails, Raise, Flush, Publish, Has
<1>12. CASE UploadFails
  BY <1>12 DEF UploadFails, Raise, Flush
<1>13. CASE ServiceStartFails
  BY <1>13 DEF ServiceStartFails, Raise, Flush
<1>14. CASE RuntimesRefused
  BY <1>14 DEF RuntimesRefused, Raise, Flush
<1>15. CASE RemoveRaises \/ DeleteRuntimesUnrendered \/ RemoveNotFound
  BY <1>15 DEF RemoveRaises, DeleteRuntimesUnrendered, RemoveNotFound, Continue,
      Raise, Flush
<1>16. CASE (\E e \in Endpoints : RelationGains(e)) \/ PodBecomesUnready \/
            ContainerLost \/ PodReplaced \/ ModeChanges \/ ImagesChange
  BY <1>16 DEF RelationGains, PodBecomesUnready, ContainerLost, PodReplaced,
      ModeChanges, ImagesChange
<1>17. CASE LeaderLost \/ Teardown \/
            (\E e \in Endpoints : RelationLoses(e))
  BY <1>17 DEF LeaderLost, Teardown, RelationLoses
<1>18. CASE UNCHANGED vars
  BY <1>18 DEF vars
<1> QED
  BY <1>1, <1>2, <1>3, <1>4, <1>5, <1>6, <1>7, <1>8, <1>9, <1>10, <1>11,
     <1>12, <1>13, <1>14, <1>15, <1>16, <1>17, <1>18
  DEF Next, Reconcile, Remove, Converge, Settle, Disturb

(* So do its inputs.                                                       *)
LEMMA InputsStep == InputsOK /\ [Next]_vars => InputsOK'
<1> SUFFICES ASSUME InputsOK, [Next]_vars PROVE InputsOK'
  OBVIOUS
<1> USE DEF InputsOK
<1>1. CASE ContextRefused
  BY <1>1 DEF ContextRefused, ErrorWithStatus, Publish, Has, Refusal
<1>2. CASE ImagesRaise
  BY <1>2 DEF ImagesRaise, Raise, Flush
<1>3. CASE StorageRefused
  BY <1>3 DEF StorageRefused, ErrorWithStatus, Publish, Has, StorageRefusal
<1>4. CASE StorageRaises
  BY <1>4 DEF StorageRaises, Raise, Flush
<1>5. CASE StartHook \/ GenerateContext \/ ReconcilePolicies \/ ApplyBase
           \/ ApplyConfigMap \/ SendManifests \/ UploadCerts \/ SkipUpload
  BY <1>5 DEF StartHook, Fresh, GenerateContext, Shape, ReconcilePolicies,
      Continue, ApplyBase, ApplyConfigMap, SendManifests, UploadCerts,
      SkipUpload
<1>6. CASE UpdateLayerUnreachable
  BY <1>6 DEF UpdateLayerUnreachable, ErrorWithStatus, Publish, Has
<1>7. CASE ApplyRuntimesUntrusted
  BY <1>7 DEF ApplyRuntimesUntrusted, Raise, Flush
<1>8. CASE UpdateLayer \/ RestartControllerService \/ ApplyRuntimes \/
           CommitHook \/ StartRemove \/ RemovePolicies \/ DeleteRuntimes \/
           RuntimesDeleted
  BY <1>8 DEF UpdateLayer, Continue, RestartControllerService, ApplyRuntimes,
      WebhookTrusted, Listening, Publish, Has, CommitHook, Flush,
      StartRemove, Fresh, RemovePolicies, DeleteRuntimes,
      RuntimesDeleted
<1>9. CASE DeleteBase \/ DeleteConfigMap \/ RemoveDone \/ ContainerStarts
           \/ PodBecomesReady \/ RuntimesGone \/ PebbleRestartsService \/
           LeaderElected
  BY <1>9 DEF DeleteBase, Continue, DeleteConfigMap, RemoveDone,
      ContainerStarts, PodBecomesReady, RuntimesGone,
      PebbleRestartsService, LeaderElected
<1>10. ASSUME NEW e \in Endpoints, RelationGains(e) PROVE InputsOK'
  BY <1>10 DEF RelationGains, States
<1>11. CASE ApplyFails
  BY <1>11 DEF ApplyFails, Raise, Flush, Publish, Has
<1>12. CASE UploadFails
  BY <1>12 DEF UploadFails, Raise, Flush
<1>13. CASE ServiceStartFails
  BY <1>13 DEF ServiceStartFails, Raise, Flush
<1>14. CASE RuntimesRefused
  BY <1>14 DEF RuntimesRefused, Raise, Flush
<1>15. CASE RemoveRaises \/ DeleteRuntimesUnrendered \/ RemoveNotFound
  BY <1>15 DEF RemoveRaises, DeleteRuntimesUnrendered, RemoveNotFound, Continue,
      Raise, Flush
<1>16. CASE ModeChanges
  BY <1>16 DEF ModeChanges
<1>17. CASE ImagesChange
  BY <1>17 DEF ImagesChange
<1>18. CASE Teardown
  BY <1>18 DEF Teardown, States
<1>19. ASSUME NEW e \in Endpoints, RelationLoses(e) PROVE InputsOK'
  BY <1>19 DEF RelationLoses
<1>20. CASE PodBecomesUnready \/ ContainerLost \/ PodReplaced \/ LeaderLost
  BY <1>20 DEF PodBecomesUnready, ContainerLost, PodReplaced, LeaderLost
<1>21. CASE UNCHANGED vars
  BY <1>21 DEF vars
<1> QED
  BY <1>1, <1>2, <1>3, <1>4, <1>5, <1>6, <1>7, <1>8, <1>9, <1>10, <1>11,
     <1>12, <1>13, <1>14, <1>15, <1>16, <1>17, <1>18, <1>19, <1>20, <1>21
  DEF Next, Reconcile, Remove, Converge, Settle, Disturb

(* So do the certificates.                                                 *)
LEMMA CertsStep == CertsOK /\ [Next]_vars => CertsOK'
<1> SUFFICES ASSUME CertsOK, [Next]_vars PROVE CertsOK'
  OBVIOUS
<1> USE DEF CertsOK
<1>1. CASE ContextRefused
  BY <1>1 DEF ContextRefused, ErrorWithStatus, Publish, Has, Refusal
<1>2. CASE ImagesRaise
  BY <1>2 DEF ImagesRaise, Raise, Flush
<1>3. CASE StartHook \/ GenerateContext \/ ReconcilePolicies \/ ApplyBase
           \/ ApplyConfigMap \/ SendManifests
  BY <1>3 DEF StartHook, Fresh, GenerateContext, Shape, ReconcilePolicies,
      Continue, ApplyBase, ApplyConfigMap, SendManifests
<1>4. CASE StorageRefused
  BY <1>4 DEF StorageRefused, ErrorWithStatus, Publish, Has, StorageRefusal
<1>5. CASE StorageRaises
  BY <1>5 DEF StorageRaises, Raise, Flush
<1>6. CASE UpdateLayerUnreachable
  BY <1>6 DEF UpdateLayerUnreachable, ErrorWithStatus, Publish, Has
<1>7. CASE ApplyRuntimesUntrusted
  BY <1>7 DEF ApplyRuntimesUntrusted, Raise, Flush
<1>8. CASE UploadCerts \/ SkipUpload \/ UpdateLayer \/
           RestartControllerService \/ ApplyRuntimes \/ CommitHook
  BY <1>8 DEF UploadCerts, Continue, SkipUpload, UpdateLayer,
      RestartControllerService, ApplyRuntimes, WebhookTrusted,
      Listening, Publish, Has, CommitHook, Flush
<1>9. CASE StartRemove \/ RemovePolicies \/ DeleteRuntimes \/
           RuntimesDeleted \/ DeleteBase \/ DeleteConfigMap
  BY <1>9 DEF StartRemove, Fresh, RemovePolicies, Continue, DeleteRuntimes,
      RuntimesDeleted, DeleteBase, DeleteConfigMap
<1>10. CASE RemoveDone \/ ContainerStarts \/ PodBecomesReady \/ RuntimesGone
            \/ PebbleRestartsService \/ LeaderElected
  BY <1>10 DEF RemoveDone, ContainerStarts, PodBecomesReady, RuntimesGone,
      PebbleRestartsService, LeaderElected
<1>11. CASE ApplyFails
  BY <1>11 DEF ApplyFails, Raise, Flush, Publish, Has
<1>12. CASE UploadFails
  BY <1>12 DEF UploadFails, Raise, Flush
<1>13. CASE ServiceStartFails
  BY <1>13 DEF ServiceStartFails, Raise, Flush
<1>14. CASE RuntimesRefused
  BY <1>14 DEF RuntimesRefused, Raise, Flush
<1>15. CASE RemoveRaises \/ DeleteRuntimesUnrendered \/ RemoveNotFound
  BY <1>15 DEF RemoveRaises, DeleteRuntimesUnrendered, RemoveNotFound, Continue,
      Raise, Flush
<1>16. CASE (\E e \in Endpoints : RelationGains(e)) \/ PodBecomesUnready \/
            ContainerLost \/ PodReplaced \/ ModeChanges \/ ImagesChange
  BY <1>16 DEF RelationGains, PodBecomesUnready, ContainerLost, PodReplaced,
      ModeChanges, ImagesChange
<1>17. CASE LeaderLost \/ Teardown \/
            (\E e \in Endpoints : RelationLoses(e))
  BY <1>17 DEF LeaderLost, Teardown, RelationLoses
<1>18. CASE UNCHANGED vars
  BY <1>18 DEF vars
<1> QED
  BY <1>1, <1>2, <1>3, <1>4, <1>5, <1>6, <1>7, <1>8, <1>9, <1>10, <1>11,
     <1>12, <1>13, <1>14, <1>15, <1>16, <1>17, <1>18
  DEF Next, Reconcile, Remove, Converge, Settle, Disturb

(* So does what the hook writes to.                                        *)
LEMMA OutsideStep == HookOK /\ OutsideOK /\ [Next]_vars => OutsideOK'
<1> SUFFICES ASSUME HookOK, OutsideOK, [Next]_vars PROVE OutsideOK'
  OBVIOUS
<1> USE DEF HookOK, OutsideOK
<1>1. CASE ContextRefused
  BY <1>1 DEF ContextRefused, ErrorWithStatus, Publish, Has, Refusal
<1>2. CASE ImagesRaise
  BY <1>2 DEF ImagesRaise, Raise, Flush
<1>3. CASE StartHook \/ GenerateContext \/ ReconcilePolicies \/ ApplyBase
           \/ ApplyConfigMap \/ SendManifests
  BY <1>3 DEF StartHook, Fresh, GenerateContext, Shape, ReconcilePolicies,
      Continue, ApplyBase, ApplyConfigMap, SendManifests
<1>4. CASE StorageRefused
  BY <1>4 DEF StorageRefused, ErrorWithStatus, Publish, Has, StorageRefusal
<1>5. CASE StorageRaises
  BY <1>5 DEF StorageRaises, Raise, Flush
<1>6. CASE UpdateLayer
  BY <1>6 DEF UpdateLayer, Continue
<1>7. CASE UpdateLayerUnreachable
  BY <1>7 DEF UpdateLayerUnreachable, ErrorWithStatus, Publish, Has
<1>8. CASE RestartControllerService
  BY <1>8 DEF RestartControllerService, Continue
<1>9. CASE ApplyRuntimesUntrusted
  BY <1>9 DEF ApplyRuntimesUntrusted, Raise, Flush
<1>10. CASE CommitHook
  BY <1>10 DEF CommitHook, Flush
<1>11. CASE UploadCerts \/ SkipUpload \/ ApplyRuntimes \/ StartRemove \/
            RemovePolicies \/ DeleteRuntimes
  BY <1>11 DEF UploadCerts, Continue, SkipUpload, ApplyRuntimes,
      WebhookTrusted, Listening, Publish, Has, StartRemove, Fresh,
      RemovePolicies, DeleteRuntimes
<1>12. CASE RuntimesDeleted \/ DeleteBase \/ DeleteConfigMap \/ RemoveDone
            \/ ContainerStarts \/ PodBecomesReady
  BY <1>12 DEF RuntimesDeleted, Continue, DeleteBase, DeleteConfigMap,
      RemoveDone, ContainerStarts, PodBecomesReady
<1>13. CASE PebbleRestartsService
  BY <1>13 DEF PebbleRestartsService
<1>14. CASE ApplyFails
  BY <1>14 DEF ApplyFails, Raise, Flush, Publish, Has
<1>15. CASE UploadFails
  BY <1>15 DEF UploadFails, Raise, Flush
<1>16. CASE ServiceStartFails
  BY <1>16 DEF ServiceStartFails, Raise, Flush
<1>17. CASE RuntimesRefused
  BY <1>17 DEF RuntimesRefused, Raise, Flush
<1>18. CASE RemoveRaises \/ DeleteRuntimesUnrendered \/ RemoveNotFound
  BY <1>18 DEF RemoveRaises, DeleteRuntimesUnrendered, RemoveNotFound, Continue,
      Raise, Flush
<1>19. CASE ContainerLost
  BY <1>19 DEF ContainerLost
<1>20. CASE RuntimesGone \/ LeaderElected \/
            (\E e \in Endpoints : RelationGains(e)) \/ PodBecomesUnready \/
            PodReplaced \/ ModeChanges
  BY <1>20 DEF RuntimesGone, LeaderElected, RelationGains, PodBecomesUnready,
      PodReplaced, ModeChanges
<1>21. ASSUME NEW e \in Endpoints, RelationLoses(e) PROVE OutsideOK'
  BY <1>21 DEF RelationLoses
<1>22. CASE ImagesChange \/ LeaderLost \/ Teardown
  BY <1>22 DEF ImagesChange, LeaderLost, Teardown
<1>23. CASE UNCHANGED vars
  BY <1>23 DEF vars
<1> QED
  BY <1>1, <1>2, <1>3, <1>4, <1>5, <1>6, <1>7, <1>8, <1>9, <1>10, <1>11,
     <1>12, <1>13, <1>14, <1>15, <1>16, <1>17, <1>18, <1>19, <1>20, <1>21,
     <1>22, <1>23
  DEF Next, Reconcile, Remove, Converge, Settle, Disturb

(* Type correctness: every variable always has its type.                   *)
THEOREM TypeCorrect == Spec => []TypeOK
<1>1. Init => TypeOK
  <2> SUFFICES ASSUME Init PROVE TypeOK
    OBVIOUS
  <2>1. HookOK /\ UnitOK
    BY DEF Init, HookOK, UnitOK, ReconcilePCs, RemovePCs
  <2>2. InputsOK
    BY DEF Init, InputsOK, States
  <2>3. CertsOK /\ OutsideOK
    BY DEF Init, CertsOK, OutsideOK
  <2> QED
    BY <2>1, <2>2, <2>3 DEF TypeOK
<1>2. TypeOK /\ [Next]_vars => TypeOK'
  BY HookStep, UnitStep, InputsStep, CertsStep, OutsideStep DEF TypeOK
<1> QED
  BY <1>1, <1>2, PTL DEF Spec

-----------------------------------------------------------------------------
(* The inductive invariant.                                                *)

(* Which hooks run in which part of the unit's life, and what teardown     *)
(* takes away before the remove hook runs.                                 *)
PhaseInv ==
  /\ pc \in RemovePCs => life = "removing"
  /\ pc \in ReconcilePCs => life \in {"alive", "dying"}
  /\ life = "gone" => pc = "idle"
  /\ life # "alive" => \A e \in Endpoints : rel[e] = "missing"
  /\ life # "alive" => published # "true" /\ staged # "true"

(* Why ready=true is backed: a hook stages it behind all it applied, and   *)
(* what is applied goes only in a remove hook, after the relation.         *)
ReadyInv ==
  /\ pc \in ReconcilePCs \ {"context", "commit"} => plan # "none"
  /\ pc \in ReconcilePCs \ {"context", "policy", "base", "commit"} => base = "present"
  /\ pc \in ReconcilePCs \ {"context", "policy", "base", "cm", "commit"} => cm # "none"
  /\ staged = "true" => pc = "commit" /\ base = "present" /\ cm # "none"
  /\ ReadyMeansInstalled

(* Why nothing is left: each deletion of the remove hook holds until its   *)
(* end, because no other hook runs any more.                               *)
RemoveInv ==
  /\ pc \in {"rmBase", "rmCm", "rmDone"} => runtimes = "absent"
  /\ pc \in {"rmCm", "rmDone"} => base = "absent"
  /\ pc = "rmDone" => cm = "none"
  /\ NothingLeft

(* The certificate hooks work with: StoredState's once there is one.       *)
Current == IF pc = "idle" THEN stored ELSE cert

(* Why the API server trusts an Active unit: whoever serves the current    *)
(* certificate has no other pair in its files, and a hook that finds its   *)
(* runtimes admitted has put that certificate in the webhooks itself.      *)
CertInv ==
  /\ pc # "idle" => cert # NoCert /\ stored \in {NoCert, cert}
  /\ Current # NoCert /\ served = Current => files \in {Current, NoCert}
  /\ pc \in {"cm", "storage", "upload", "layer", "restart", "runtimes"} => caBundle = cert
  /\ pc \in (ReconcilePCs \ {"context", "commit"}) \cup RemovePCs => status = "maintenance"
  /\ pc = "commit" /\ status = "active" =>
       /\ runtimes = "present"
       /\ served \in {caBundle, NoCert} /\ files \in {caBundle, NoCert}
  /\ ActiveIsTrusted

IInv == TypeOK /\ PhaseInv /\ ReadyInv /\ RemoveInv /\ CertInv

-----------------------------------------------------------------------------
(* Every step preserves it.                                                *)

(* The phases of the unit.                                                 *)
LEMMA PhaseStep == PhaseInv /\ [Next]_vars => PhaseInv'
<1> SUFFICES ASSUME PhaseInv, [Next]_vars PROVE PhaseInv'
  OBVIOUS
<1> USE DEF PhaseInv, ReconcilePCs, RemovePCs
<1>1. CASE StartHook
  BY <1>1 DEF StartHook, Fresh
<1>2. CASE ContextRefused
  BY <1>2 DEF ContextRefused, ErrorWithStatus, Publish, Has
<1>3. CASE ImagesRaise
  BY <1>3 DEF ImagesRaise, Raise, Flush
<1>4. CASE GenerateContext \/ ReconcilePolicies \/ ApplyBase \/
           ApplyConfigMap \/ SendManifests
  BY <1>4 DEF GenerateContext, Shape, ReconcilePolicies, Continue, ApplyBase,
      ApplyConfigMap, SendManifests
<1>5. CASE StorageRefused
  BY <1>5 DEF StorageRefused, ErrorWithStatus, Publish, Has
<1>6. CASE StorageRaises
  BY <1>6 DEF StorageRaises, Raise, Flush
<1>7. CASE UpdateLayerUnreachable
  BY <1>7 DEF UpdateLayerUnreachable, ErrorWithStatus, Publish, Has
<1>8. CASE ApplyRuntimes
  BY <1>8 DEF ApplyRuntimes, Publish, Has, Endpoints
<1>9. CASE ApplyRuntimesUntrusted
  BY <1>9 DEF ApplyRuntimesUntrusted, Raise, Flush
<1>10. CASE CommitHook
  BY <1>10 DEF CommitHook, Flush
<1>11. CASE StartRemove
  BY <1>11 DEF StartRemove, Fresh
<1>12. CASE UploadCerts \/ SkipUpload \/ UpdateLayer \/
            RestartControllerService \/ RemovePolicies
  BY <1>12 DEF UploadCerts, Continue, SkipUpload, UpdateLayer,
      RestartControllerService, RemovePolicies
<1>13. CASE DeleteRuntimes \/ RuntimesDeleted \/ DeleteBase \/
            DeleteConfigMap \/ RemoveDone
  BY <1>13 DEF DeleteRuntimes, Continue, RuntimesDeleted, DeleteBase,
      DeleteConfigMap, RemoveDone
<1>14. CASE ContainerStarts \/ PodBecomesReady \/ RuntimesGone \/
            PebbleRestartsService \/ LeaderElected
  BY <1>14 DEF ContainerStarts, PodBecomesReady, RuntimesGone,
      PebbleRestartsService, LeaderElected
<1>15. ASSUME NEW e \in Endpoints, RelationGains(e) PROVE PhaseInv'
  BY <1>15 DEF RelationGains
<1>16. CASE ApplyFails
  BY <1>16 DEF ApplyFails, Raise, Flush, Publish, Has
<1>17. CASE UploadFails
  BY <1>17 DEF UploadFails, Raise, Flush
<1>18. CASE ServiceStartFails
  BY <1>18 DEF ServiceStartFails, Raise, Flush
<1>19. CASE RuntimesRefused
  BY <1>19 DEF RuntimesRefused, Raise, Flush
<1>20. CASE RemoveRaises \/ DeleteRuntimesUnrendered \/ RemoveNotFound
  BY <1>20 DEF RemoveRaises, DeleteRuntimesUnrendered, RemoveNotFound, Continue,
      Raise, Flush
<1>21. CASE PodBecomesUnready \/ ContainerLost \/ PodReplaced \/ ModeChanges
            \/ ImagesChange
  BY <1>21 DEF PodBecomesUnready, ContainerLost, PodReplaced, ModeChanges,
      ImagesChange
<1>22. CASE Teardown
  BY <1>22 DEF Teardown
<1>23. ASSUME NEW e \in Endpoints, RelationLoses(e) PROVE PhaseInv'
  BY <1>23 DEF RelationLoses
<1>24. CASE LeaderLost
  BY <1>24 DEF LeaderLost
<1>25. CASE UNCHANGED vars
  BY <1>25 DEF vars
<1> QED
  BY <1>1, <1>2, <1>3, <1>4, <1>5, <1>6, <1>7, <1>8, <1>9, <1>10, <1>11,
     <1>12, <1>13, <1>14, <1>15, <1>16, <1>17, <1>18, <1>19, <1>20, <1>21,
     <1>22, <1>23, <1>24, <1>25
  DEF Next, Reconcile, Remove, Converge, Settle, Disturb

(* Readiness: nothing it promises goes while it is published.              *)
LEMMA ReadyStep == OutsideOK /\ HookOK /\ PhaseInv /\ ReadyInv /\ [Next]_vars => ReadyInv'
<1> SUFFICES ASSUME OutsideOK, HookOK, PhaseInv, ReadyInv, [Next]_vars PROVE ReadyInv'
  OBVIOUS
<1> USE DEF OutsideOK, HookOK, PhaseInv, ReadyInv, ReadyMeansInstalled, ReconcilePCs, RemovePCs, Shapes
<1>1. CASE GenerateContext
  BY <1>1 DEF GenerateContext, Shape
<1>2. CASE ContextRefused
  BY <1>2 DEF ContextRefused, ErrorWithStatus, Publish, Has
<1>3. CASE ImagesRaise
  BY <1>3 DEF ImagesRaise, Raise, Flush
<1>4. CASE ApplyBase
  BY <1>4 DEF ApplyBase, Continue
<1>5. CASE ApplyConfigMap
  BY <1>5 DEF ApplyConfigMap, Continue
<1>6. CASE StorageRefused
  BY <1>6 DEF StorageRefused, ErrorWithStatus, Publish, Has
<1>7. CASE StorageRaises
  BY <1>7 DEF StorageRaises, Raise, Flush
<1>8. CASE StartHook \/ ReconcilePolicies \/ SendManifests \/ UploadCerts
           \/ SkipUpload
  BY <1>8 DEF StartHook, Fresh, ReconcilePolicies, Continue, SendManifests,
      UploadCerts, SkipUpload
<1>9. CASE UpdateLayerUnreachable
  BY <1>9 DEF UpdateLayerUnreachable, ErrorWithStatus, Publish, Has
<1>10. CASE ApplyRuntimes
  BY <1>10 DEF ApplyRuntimes, WebhookTrusted, Listening, Publish, Has
<1>11. CASE ApplyRuntimesUntrusted
  BY <1>11 DEF ApplyRuntimesUntrusted, Raise, Flush
<1>12. CASE CommitHook
  BY <1>12 DEF CommitHook, Flush
<1>13. CASE UpdateLayer \/ RestartControllerService \/ StartRemove \/
            RemovePolicies \/ DeleteRuntimes
  BY <1>13 DEF UpdateLayer, Continue, RestartControllerService, StartRemove,
      Fresh, RemovePolicies, DeleteRuntimes
<1>14. CASE DeleteBase
  BY <1>14 DEF DeleteBase, Continue
<1>15. CASE DeleteConfigMap
  BY <1>15 DEF DeleteConfigMap, Continue
<1>16. CASE RuntimesDeleted \/ RemoveDone \/ ContainerStarts \/
            PodBecomesReady \/ RuntimesGone
  BY <1>16 DEF RuntimesDeleted, Continue, RemoveDone, ContainerStarts,
      PodBecomesReady, RuntimesGone
<1>17. CASE ApplyFails
  BY <1>17 DEF ApplyFails, Raise, Flush, Publish, Has
<1>18. CASE UploadFails
  BY <1>18 DEF UploadFails, Raise, Flush
<1>19. CASE ServiceStartFails
  BY <1>19 DEF ServiceStartFails, Raise, Flush
<1>20. CASE RuntimesRefused
  BY <1>20 DEF RuntimesRefused, Raise, Flush
<1>21. CASE RemoveRaises \/ DeleteRuntimesUnrendered \/ RemoveNotFound
  BY <1>21 DEF RemoveRaises, DeleteRuntimesUnrendered, RemoveNotFound, Continue,
      Raise, Flush
<1>22. CASE PebbleRestartsService \/ LeaderElected \/
            (\E e \in Endpoints : RelationGains(e)) \/ PodBecomesUnready \/
            ContainerLost
  BY <1>22 DEF PebbleRestartsService, LeaderElected, RelationGains,
      PodBecomesUnready, ContainerLost
<1>23. CASE PodReplaced \/ ModeChanges \/ ImagesChange \/ LeaderLost \/
            Teardown
  BY <1>23 DEF PodReplaced, ModeChanges, ImagesChange, LeaderLost, Teardown
<1>24. ASSUME NEW e \in Endpoints, RelationLoses(e) PROVE ReadyInv'
  BY <1>24 DEF RelationLoses
<1>25. CASE UNCHANGED vars
  BY <1>25 DEF vars
<1> QED
  BY <1>1, <1>2, <1>3, <1>4, <1>5, <1>6, <1>7, <1>8, <1>9, <1>10, <1>11,
     <1>12, <1>13, <1>14, <1>15, <1>16, <1>17, <1>18, <1>19, <1>20, <1>21,
     <1>22, <1>23, <1>24, <1>25
  DEF Next, Reconcile, Remove, Converge, Settle, Disturb

(* Removal: what is deleted stays deleted.                                 *)
LEMMA RemoveStep == PhaseInv /\ RemoveInv /\ [Next]_vars => RemoveInv'
<1> SUFFICES ASSUME PhaseInv, RemoveInv, [Next]_vars PROVE RemoveInv'
  OBVIOUS
<1> USE DEF PhaseInv, RemoveInv, NothingLeft, ReconcilePCs, RemovePCs
<1>1. CASE ContextRefused
  BY <1>1 DEF ContextRefused, ErrorWithStatus, Publish, Has
<1>2. CASE ImagesRaise
  BY <1>2 DEF ImagesRaise, Raise, Flush
<1>3. CASE StartHook \/ GenerateContext \/ ReconcilePolicies \/ ApplyBase
           \/ ApplyConfigMap \/ SendManifests
  BY <1>3 DEF StartHook, Fresh, GenerateContext, Shape, ReconcilePolicies,
      Continue, ApplyBase, ApplyConfigMap, SendManifests
<1>4. CASE StorageRefused
  BY <1>4 DEF StorageRefused, ErrorWithStatus, Publish, Has
<1>5. CASE StorageRaises
  BY <1>5 DEF StorageRaises, Raise, Flush
<1>6. CASE UpdateLayerUnreachable
  BY <1>6 DEF UpdateLayerUnreachable, ErrorWithStatus, Publish, Has
<1>7. CASE ApplyRuntimes
  BY <1>7 DEF ApplyRuntimes, WebhookTrusted, Listening, Publish, Has
<1>8. CASE ApplyRuntimesUntrusted
  BY <1>8 DEF ApplyRuntimesUntrusted, Raise, Flush
<1>9. CASE UploadCerts \/ SkipUpload \/ UpdateLayer \/
           RestartControllerService \/ CommitHook \/ StartRemove
  BY <1>9 DEF UploadCerts, Continue, SkipUpload, UpdateLayer,
      RestartControllerService, CommitHook, Flush, StartRemove, Fresh
<1>10. CASE RemoveDone
  BY <1>10 DEF RemoveDone
<1>11. CASE RemovePolicies \/ DeleteRuntimes \/ RuntimesDeleted \/
            DeleteBase \/ DeleteConfigMap \/ ContainerStarts
  BY <1>11 DEF RemovePolicies, Continue, DeleteRuntimes, RuntimesDeleted,
      DeleteBase, DeleteConfigMap, ContainerStarts
<1>12. CASE ApplyFails
  BY <1>12 DEF ApplyFails, Raise, Flush, Publish, Has
<1>13. CASE UploadFails
  BY <1>13 DEF UploadFails, Raise, Flush
<1>14. CASE ServiceStartFails
  BY <1>14 DEF ServiceStartFails, Raise, Flush
<1>15. CASE RuntimesRefused
  BY <1>15 DEF RuntimesRefused, Raise, Flush
<1>16. CASE RemoveRaises \/ DeleteRuntimesUnrendered \/ RemoveNotFound
  BY <1>16 DEF RemoveRaises, DeleteRuntimesUnrendered, RemoveNotFound, Continue,
      Raise, Flush
<1>17. CASE PodBecomesReady \/ RuntimesGone \/ PebbleRestartsService \/
            LeaderElected \/ (\E e \in Endpoints : RelationGains(e)) \/
            PodBecomesUnready
  BY <1>17 DEF PodBecomesReady, RuntimesGone, PebbleRestartsService,
      LeaderElected, RelationGains, PodBecomesUnready
<1>18. CASE ContainerLost \/ PodReplaced \/ ModeChanges \/ ImagesChange \/
            LeaderLost \/ Teardown
  BY <1>18 DEF ContainerLost, PodReplaced, ModeChanges, ImagesChange,
      LeaderLost, Teardown
<1>19. ASSUME NEW e \in Endpoints, RelationLoses(e) PROVE RemoveInv'
  BY <1>19 DEF RelationLoses
<1>20. CASE UNCHANGED vars
  BY <1>20 DEF vars
<1> QED
  BY <1>1, <1>2, <1>3, <1>4, <1>5, <1>6, <1>7, <1>8, <1>9, <1>10, <1>11,
     <1>12, <1>13, <1>14, <1>15, <1>16, <1>17, <1>18, <1>19, <1>20
  DEF Next, Reconcile, Remove, Converge, Settle, Disturb

(* Certificates: only a hook that ran to its end leaves the unit Active.   *)
LEMMA CertStep == CertsOK /\ PhaseInv /\ CertInv /\ [Next]_vars => CertInv'
<1> SUFFICES ASSUME CertsOK, PhaseInv, CertInv, [Next]_vars PROVE CertInv'
  OBVIOUS
<1> USE DEF CertsOK, PhaseInv, CertInv, Current, ActiveIsTrusted, ReconcilePCs, RemovePCs
<1>1. CASE StartHook
  BY <1>1 DEF StartHook, Fresh
<1>2. CASE ContextRefused
  BY <1>2 DEF ContextRefused, ErrorWithStatus, Publish, Has, Refusal
<1>3. CASE ImagesRaise
  BY <1>3 DEF ImagesRaise, Raise, Flush
<1>4. CASE ApplyBase
  BY <1>4 DEF ApplyBase, Continue
<1>5. CASE GenerateContext \/ ReconcilePolicies \/ ApplyConfigMap \/
           SendManifests
  BY <1>5 DEF GenerateContext, Shape, ReconcilePolicies, Continue,
      ApplyConfigMap, SendManifests
<1>6. CASE StorageRefused
  BY <1>6 DEF StorageRefused, ErrorWithStatus, Publish, Has, StorageRefusal
<1>7. CASE StorageRaises
  BY <1>7 DEF StorageRaises, Raise, Flush
<1>8. CASE UploadCerts
  BY <1>8 DEF UploadCerts, Continue
<1>9. CASE UpdateLayerUnreachable
  BY <1>9 DEF UpdateLayerUnreachable, ErrorWithStatus, Publish, Has
<1>10. CASE ApplyRuntimes
  BY <1>10 DEF ApplyRuntimes, WebhookTrusted, Listening, Publish, Has
<1>11. CASE ApplyRuntimesUntrusted
  BY <1>11 DEF ApplyRuntimesUntrusted, Raise, Flush
<1>12. CASE CommitHook
  BY <1>12 DEF CommitHook, Flush
<1>13. CASE StartRemove
  BY <1>13 DEF StartRemove, Fresh
<1>14. CASE SkipUpload \/ UpdateLayer \/ RestartControllerService \/
            RemovePolicies
  BY <1>14 DEF SkipUpload, UpdateLayer, Continue, RestartControllerService,
      RemovePolicies
<1>15. CASE DeleteRuntimes
  BY <1>15 DEF DeleteRuntimes, Continue
<1>16. CASE DeleteBase
  BY <1>16 DEF DeleteBase, Continue
<1>17. CASE RemoveDone
  BY <1>17 DEF RemoveDone
<1>18. CASE RuntimesDeleted \/ DeleteConfigMap \/ ContainerStarts \/
            PodBecomesReady
  BY <1>18 DEF RuntimesDeleted, Continue, DeleteConfigMap, ContainerStarts,
      PodBecomesReady
<1>19. CASE RuntimesGone \/ PebbleRestartsService \/ LeaderElected \/
            (\E e \in Endpoints : RelationGains(e))
  BY <1>19 DEF RuntimesGone, PebbleRestartsService, LeaderElected,
      RelationGains
<1>20. CASE ApplyFails
  BY <1>20 DEF ApplyFails, Raise, Flush, Publish, Has
<1>21. CASE UploadFails
  BY <1>21 DEF UploadFails, Raise, Flush
<1>22. CASE ServiceStartFails
  BY <1>22 DEF ServiceStartFails, Raise, Flush
<1>23. CASE RuntimesRefused
  BY <1>23 DEF RuntimesRefused, Raise, Flush
<1>24. CASE RemoveRaises \/ DeleteRuntimesUnrendered \/ RemoveNotFound
  BY <1>24 DEF RemoveRaises, DeleteRuntimesUnrendered, RemoveNotFound, Continue,
      Raise, Flush
<1>25. CASE ContainerLost
  BY <1>25 DEF ContainerLost
<1>26. CASE PodReplaced
  BY <1>26 DEF PodReplaced
<1>27. CASE PodBecomesUnready \/ ModeChanges \/ ImagesChange \/ LeaderLost
  BY <1>27 DEF PodBecomesUnready, ModeChanges, ImagesChange, LeaderLost
<1>28. CASE Teardown \/ (\E e \in Endpoints : RelationLoses(e))
  BY <1>28 DEF Teardown, RelationLoses
<1>29. CASE UNCHANGED vars
  BY <1>29 DEF vars
<1> QED
  BY <1>1, <1>2, <1>3, <1>4, <1>5, <1>6, <1>7, <1>8, <1>9, <1>10, <1>11,
     <1>12, <1>13, <1>14, <1>15, <1>16, <1>17, <1>18, <1>19, <1>20, <1>21,
     <1>22, <1>23, <1>24, <1>25, <1>26, <1>27, <1>28, <1>29
  DEF Next, Reconcile, Remove, Converge, Settle, Disturb

(* The invariant is inductive.                                             *)
THEOREM Invariant == Spec => []IInv
<1>1. Init => IInv
  <2> SUFFICES ASSUME Init PROVE IInv
    OBVIOUS
  <2>1. HookOK /\ UnitOK
    BY DEF Init, HookOK, UnitOK, ReconcilePCs, RemovePCs
  <2>2. InputsOK
    BY DEF Init, InputsOK, States
  <2>3. CertsOK /\ OutsideOK
    BY DEF Init, CertsOK, OutsideOK
  <2>4. PhaseInv /\ ReadyInv /\ RemoveInv
    BY DEF Init, PhaseInv, ReadyInv, ReadyMeansInstalled, RemoveInv, NothingLeft,
      ReconcilePCs, RemovePCs
  <2>5. CertInv
    BY DEF Init, CertInv, Current, ActiveIsTrusted, ReconcilePCs, RemovePCs
  <2> QED
    BY <2>1, <2>2, <2>3, <2>4, <2>5 DEF IInv, TypeOK
<1>2. IInv /\ [Next]_vars => IInv'
  BY HookStep, UnitStep, InputsStep, CertsStep, OutsideStep, PhaseStep, ReadyStep,
     RemoveStep, CertStep
  DEF IInv, TypeOK
<1> QED
  BY <1>1, <1>2, PTL DEF Spec

(* An Active unit at rest has one certificate everywhere.                  *)
THEOREM ActiveTrusted == Spec => []ActiveIsTrusted
<1>1. IInv => ActiveIsTrusted
  BY DEF IInv, CertInv
<1> QED
  BY <1>1, Invariant, PTL

(* ready=true is only readable over what it promises.                      *)
THEOREM ReadyInstalled == Spec => []ReadyMeansInstalled
<1>1. IInv => ReadyMeansInstalled
  BY DEF IInv, ReadyInv
<1> QED
  BY <1>1, Invariant, PTL

(* A removed unit leaves nothing behind.                                   *)
THEOREM RemovedLeavesNothing == Spec => []NothingLeft
<1>1. IInv => NothingLeft
  BY DEF IInv, RemoveInv
<1> QED
  BY <1>1, Invariant, PTL

(* No step deletes the webhooks and CRDs while there is a runtime.         *)
THEOREM RuntimesFirst == Spec => RuntimesGoFirst
<1>1. IInv /\ [Next]_vars
        => [base = "present" /\ base' = "absent" => runtimes = "absent"]_vars
  <2> SUFFICES ASSUME IInv, [Next]_vars, base = "present", base' = "absent"
               PROVE  runtimes = "absent"
    OBVIOUS
  <2>1. pc = "rmBase"
    <3>1. CASE StartHook \/ GenerateContext \/ ContextRefused \/ ImagesRaise \/
               ReconcilePolicies \/ ApplyBase \/ ApplyConfigMap \/
               SendManifests
      BY <3>1 DEF StartHook, Fresh, GenerateContext, Shape, ContextRefused,
          ErrorWithStatus, Publish, Has, Refusal, ImagesRaise, Raise,
          Flush, ReconcilePolicies, Continue, ApplyBase, ApplyConfigMap,
          SendManifests
    <3>2. CASE StorageRefused \/ StorageRaises \/ UploadCerts \/ SkipUpload \/
               UpdateLayer \/ UpdateLayerUnreachable \/
               RestartControllerService \/ ApplyRuntimes
      BY <3>2 DEF StorageRefused, ErrorWithStatus, Publish, Has, StorageRefusal,
          StorageRaises, Raise, Flush, UploadCerts, Continue, SkipUpload,
          UpdateLayer, UpdateLayerUnreachable, RestartControllerService,
          ApplyRuntimes, WebhookTrusted, Listening
    <3>3. CASE DeleteBase
      BY <3>3 DEF DeleteBase, Continue
    <3>4. CASE ApplyRuntimesUntrusted \/ CommitHook \/ StartRemove \/
               RemovePolicies \/ DeleteRuntimes \/ RuntimesDeleted \/
               DeleteConfigMap \/ RemoveDone
      BY <3>4 DEF ApplyRuntimesUntrusted, Raise, Flush, CommitHook, StartRemove,
          Fresh, RemovePolicies, Continue, DeleteRuntimes,
          RuntimesDeleted, DeleteConfigMap, RemoveDone
    <3>5. CASE ApplyFails
      BY <3>5 DEF ApplyFails, Raise, Flush, Publish, Has
    <3>6. CASE ContainerStarts \/ PodBecomesReady \/ RuntimesGone \/
               PebbleRestartsService \/ LeaderElected \/
               (\E e \in Endpoints : RelationGains(e)) \/ UploadFails \/
               ServiceStartFails
      BY <3>6 DEF ContainerStarts, PodBecomesReady, RuntimesGone,
          PebbleRestartsService, LeaderElected, RelationGains,
          UploadFails, Raise, Flush, ServiceStartFails
    <3>7. CASE RuntimesRefused \/ RemoveRaises \/ PodBecomesUnready \/
               ContainerLost \/ PodReplaced \/ ModeChanges \/ ImagesChange \/
               LeaderLost
      BY <3>7 DEF RuntimesRefused, Raise, Flush, RemoveRaises, PodBecomesUnready,
          ContainerLost, PodReplaced, ModeChanges, ImagesChange,
          LeaderLost
    <3>8. CASE Teardown \/ (\E e \in Endpoints : RelationLoses(e))
      BY <3>8 DEF Teardown, RelationLoses
    <3>9. CASE UNCHANGED vars
      BY <3>9 DEF vars
    <3>10. CASE DeleteRuntimesUnrendered \/ RemoveNotFound
      BY <3>10 DEF DeleteRuntimesUnrendered, RemoveNotFound, Continue, Raise, Flush
    <3> QED
      BY <3>1, <3>2, <3>3, <3>4, <3>5, <3>6, <3>7, <3>8, <3>9, <3>10
      DEF Next, Reconcile, Remove, Converge, Settle, Disturb
  <2> QED
    BY <2>1 DEF IInv, RemoveInv
<1> QED
  BY <1>1, Invariant, PTL DEF Spec, RuntimesGoFirst
=============================================================================
