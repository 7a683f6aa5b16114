------------------------ MODULE LLMIntegratorProofs ------------------------
(***************************************************************************)
(* Proofs about LLMIntegrator, for every set of tokens, of configurations  *)
(* and of faults.                                                          *)
(***************************************************************************)
EXTENDS LLMIntegrator, TLAPS

USE TokensAssumption, ConfigsAssumption
(* The definitions every step of a proof about one action expands.         *)
USE DEF hookVars, unitVars, inputVars, crVars, secretVars, scalerVars, clusterVars

(* The running hook and the unit keep their range.                         *)
LEMMA HookStep == HookOK /\ InputsOK /\ [Next]_vars => HookOK'
<1> SUFFICES ASSUME HookOK, InputsOK, [Next]_vars PROVE HookOK'
  OBVIOUS
<1> USE DEF HookOK, Statuses, PCs, ValidatePCs, ApplyPCs, ScalePCs, RemovePCs
<1>1. CASE ValidateFails
  BY <1>1 DEF ValidateFails, ErrorWithStatus, Forget, Unready
<1>2. CASE ValidateTokenFails
  BY <1>2 DEF ValidateTokenFails, ErrorWithStatus, Forget
<1>3. CASE StartHook \/ Validate \/ ValidateToken \/ ValidateS3
  BY <1>3 DEF StartHook, Continue, Validate, ValidateToken, ValidateS3
<1>4. CASE ValidateS3Fails
  BY <1>4 DEF ValidateS3Fails, ErrorWithStatus, Forget, Unready
<1>5. CASE ValidateCapacityFails
  BY <1>5 DEF ValidateCapacityFails, ErrorWithStatus, Forget
<1>6. CASE Render
  BY <1>6 DEF Render, InputsOK
<1>7. CASE ApplyServiceUnserved \/ GetStatusUnserved
  BY <1>7 DEF ApplyServiceUnserved, GetStatusUnserved, Raise, Forget
<1>8. CASE ValidateCapacity \/ ApplySecret \/ ApplyService \/ PruneToken
  BY <1>8 DEF ValidateCapacity, ApplySecret, Continue, ApplyService,
      PruneToken
<1>9. CASE GetStatus
  BY <1>9 DEF GetStatus, ServiceStatus, Workers, Roles
<1>10. CASE ReadKeda
  BY <1>10 DEF ReadKeda, Continue, ScalingUnready, Unready
<1>11. CASE ReadPrometheus
  BY <1>11 DEF ReadPrometheus, Continue, ScalingUnready, Unready
<1>12. CASE ApplyScaledObjectsUnserved
  BY <1>12 DEF ApplyScaledObjectsUnserved, Raise, Forget
<1>13. CASE ScaledObjectsStatus
  BY <1>13 DEF ScaledObjectsStatus, Continue, Raise, Forget
<1>14. CASE DropScaledObjects
  BY <1>14 DEF DropScaledObjects, DropScaler, DeleteScaler, ScalerRole,
      Continue
<1>15. CASE CombineStatuses
  BY <1>15 DEF CombineStatuses, Combined, ErrorWithStatus, Forget
<1>16. CASE ApplyScaledObjects \/ StartRemove \/ RemoveScaledObjects \/
            RemoveService
  BY <1>16 DEF ApplyScaledObjects, ApplyScaler, ScalerRole, Continue,
      StartRemove, RemoveScaledObjects, RemoveScaler, DeleteScaler,
      RemoveService
<1>17. CASE WaitUnserved
  BY <1>17 DEF WaitUnserved, Raise, Forget
<1>18. CASE RemoveSecrets \/ ServiceGone \/ KServeReports \/ NodesAdded
  BY <1>18 DEF RemoveSecrets, Continue, ServiceGone, KServeReports, NodesAdded
<1>19. CASE HookRaises
  BY <1>19 DEF HookRaises, Raise, Forget
<1>20. CASE HookKilled
  BY <1>20 DEF HookKilled, Raise, Forget
<1>21. CASE WaitTimesOut
  BY <1>21 DEF WaitTimesOut, Raise, Forget
<1>22. CASE RemoveRaises
  BY <1>22 DEF RemoveRaises, Raise, Forget
<1>23. CASE ScalerRejected
  BY <1>23 DEF ScalerRejected
<1>24. CASE (\E r \in Relations : RelationReady(r)) \/
            (\E t \in Tokens : SecretGranted(t)) \/
            (\E api \in {"kserve", "keda"} : Serve(api)) \/ Teardown
  BY <1>24 DEF RelationReady, SecretGranted, Serve, Teardown
<1>25. CASE KServeRemoved \/ KedaRemoved \/ KServeReportsFailure \/
            (\E role \in Roles : KedaScalesUp(role))
  BY <1>25 DEF KServeRemoved, KedaRemoved, KServeReportsFailure, KedaScalesUp
<1>26. CASE (\E r \in Relations : RelationChanges(r)) \/ SecretChanges \/
            ConfigChanges \/ NodesLost
  BY <1>26 DEF RelationChanges, SecretChanges, ConfigChanges, NodesLost
<1>27. CASE KServeFinalizes \/ (\E r \in Relations : RelationBroken(r))
  BY <1>27 DEF KServeFinalizes, RelationBroken
<1>28. CASE UNCHANGED vars
  BY <1>28 DEF vars
<1> QED
  BY <1>1, <1>2, <1>3, <1>4, <1>5, <1>6, <1>7, <1>8, <1>9, <1>10, <1>11,
     <1>12, <1>13, <1>14, <1>15, <1>16, <1>17, <1>18, <1>19, <1>20, <1>21,
     <1>22, <1>23, <1>24, <1>25, <1>26, <1>27, <1>28
  DEF Next, Reconcile, Remove, Settle, Disturb

(* So do its inputs.                                                       *)
LEMMA InputsStep == InputsOK /\ [Next]_vars => InputsOK'
<1> SUFFICES ASSUME InputsOK, [Next]_vars PROVE InputsOK'
  OBVIOUS
<1> USE DEF InputsOK, Relations
<1>1. CASE StartHook \/ Validate \/ ValidateFails \/ ValidateToken \/
           ValidateTokenFails \/ ValidateS3 \/ ValidateS3Fails \/
           ValidateCapacity
  BY <1>1 DEF StartHook, Continue, Validate, ValidateFails, ErrorWithStatus,
      Forget, Unready, ValidateToken, ValidateTokenFails, ValidateS3,
      ValidateS3Fails, ValidateCapacity
<1>2. CASE ValidateCapacityFails \/ Render \/ ApplySecret \/ ApplyService
           \/ ApplyServiceUnserved \/ GetStatusUnserved \/ PruneToken \/ GetStatus \/ ReadKeda
  BY <1>2 DEF ValidateCapacityFails, ErrorWithStatus, Forget, Render,
      ApplySecret, Continue, ApplyService, ApplyServiceUnserved, GetStatusUnserved,
      Raise, PruneToken, GetStatus, ReadKeda, ScalingUnready, Unready
<1>3. CASE ReadPrometheus \/ ApplyScaledObjects \/
           ApplyScaledObjectsUnserved \/ ScaledObjectsStatus \/
           DropScaledObjects \/ CombineStatuses \/ StartRemove \/
           RemoveScaledObjects
  BY <1>3 DEF ReadPrometheus, Continue, ScalingUnready, Unready,
      ApplyScaledObjects, ApplyScaler, ScalerRole,
      ApplyScaledObjectsUnserved, Raise, Forget, ScaledObjectsStatus,
      DropScaledObjects, DropScaler, DeleteScaler, CombineStatuses,
      Combined, ErrorWithStatus, StartRemove, RemoveScaledObjects,
      RemoveScaler
<1>4. ASSUME NEW r \in Relations, RelationReady(r) PROVE InputsOK'
  BY <1>4 DEF RelationReady
<1>5. ASSUME NEW t \in Tokens, SecretGranted(t) PROVE InputsOK'
  BY <1>5 DEF SecretGranted
<1>6. CASE RemoveService \/ RemoveSecrets \/ ServiceGone \/ WaitUnserved \/
           KServeReports \/ NodesAdded \/
           (\E api \in {"kserve", "keda"} : Serve(api)) \/ HookRaises
  BY <1>6 DEF RemoveService, Continue, RemoveSecrets, ServiceGone,
      WaitUnserved, Raise, Forget, KServeReports, NodesAdded, Serve,
      HookRaises
<1>7. CASE HookKilled \/ WaitTimesOut \/ RemoveRaises \/ ScalerRejected \/
           Teardown \/ KServeRemoved \/ KedaRemoved \/ KServeReportsFailure
  BY <1>7 DEF HookKilled, Raise, Forget, WaitTimesOut, RemoveRaises,
      ScalerRejected, Teardown, KServeRemoved, KedaRemoved,
      KServeReportsFailure
<1>8. ASSUME NEW r \in Relations, RelationChanges(r) PROVE InputsOK'
  BY <1>8 DEF RelationChanges
<1>9. CASE SecretChanges
  BY <1>9 DEF SecretChanges
<1>10. CASE ConfigChanges
  BY <1>10 DEF ConfigChanges
<1>11. ASSUME NEW r \in Relations, RelationBroken(r) PROVE InputsOK'
  BY <1>11 DEF RelationBroken
<1>12. CASE (\E role \in Roles : KedaScalesUp(role)) \/ NodesLost \/
            KServeFinalizes
  BY <1>12 DEF KedaScalesUp, NodesLost, KServeFinalizes
<1>13. CASE UNCHANGED vars
  BY <1>13 DEF vars
<1> QED
  BY <1>1, <1>2, <1>3, <1>4, <1>5, <1>6, <1>7, <1>8, <1>9, <1>10, <1>11,
     <1>12, <1>13
  DEF Next, Reconcile, Remove, Settle, Disturb

(* So does the service.                                                    *)
LEMMA ServiceStep == ServiceOK /\ [Next]_vars => ServiceOK'
<1> SUFFICES ASSUME ServiceOK, [Next]_vars PROVE ServiceOK'
  OBVIOUS
<1> USE DEF ServiceOK
<1>1. CASE StartHook \/ Validate \/ ValidateFails \/ ValidateToken \/
           ValidateTokenFails \/ ValidateS3 \/ ValidateS3Fails \/
           ValidateCapacity
  BY <1>1 DEF StartHook, Continue, Validate, ValidateFails, ErrorWithStatus,
      Forget, Unready, ValidateToken, ValidateTokenFails, ValidateS3,
      ValidateS3Fails, ValidateCapacity
<1>2. CASE ApplyService
  BY <1>2 DEF ApplyService, Continue, Rendered, Mounts, Specs, Workers,
      Schemes, Roles
<1>3. CASE ValidateCapacityFails \/ Render \/ ApplySecret \/
           ApplyServiceUnserved \/ GetStatusUnserved \/ PruneToken \/ GetStatus \/ ReadKeda \/
           ReadPrometheus
  BY <1>3 DEF ValidateCapacityFails, ErrorWithStatus, Forget, Render,
      ApplySecret, Continue, ApplyServiceUnserved, GetStatusUnserved, Raise, PruneToken,
      GetStatus, ReadKeda, ScalingUnready, Unready, ReadPrometheus
<1>4. CASE ApplyScaledObjects \/ ApplyScaledObjectsUnserved \/
           ScaledObjectsStatus \/ DropScaledObjects \/ CombineStatuses \/
           StartRemove \/ RemoveScaledObjects \/ RemoveService
  BY <1>4 DEF ApplyScaledObjects, ApplyScaler, ScalerRole, Continue,
      ApplyScaledObjectsUnserved, Raise, Forget, ScaledObjectsStatus,
      DropScaledObjects, DropScaler, DeleteScaler, CombineStatuses,
      Combined, ErrorWithStatus, StartRemove, RemoveScaledObjects,
      RemoveScaler, RemoveService
<1>5. ASSUME NEW api \in {"kserve", "keda"}, Serve(api) PROVE ServiceOK'
  BY <1>5 DEF Serve
<1>6. CASE RemoveSecrets \/ ServiceGone \/ WaitUnserved \/ KServeReports \/
           NodesAdded \/ (\E r \in Relations : RelationReady(r)) \/
           (\E t \in Tokens : SecretGranted(t)) \/ HookRaises
  BY <1>6 DEF RemoveSecrets, Continue, ServiceGone, WaitUnserved, Raise,
      Forget, KServeReports, NodesAdded, RelationReady, SecretGranted,
      HookRaises
<1>7. CASE KServeRemoved
  BY <1>7 DEF KServeRemoved, NoSpec, Specs
<1>8. CASE KedaRemoved
  BY <1>8 DEF KedaRemoved
<1>9. CASE HookKilled \/ WaitTimesOut \/ RemoveRaises \/ ScalerRejected \/
           Teardown \/ KServeReportsFailure \/
           (\E role \in Roles : KedaScalesUp(role)) \/
           (\E r \in Relations : RelationChanges(r))
  BY <1>9 DEF HookKilled, Raise, Forget, WaitTimesOut, RemoveRaises,
      ScalerRejected, Teardown, KServeReportsFailure, KedaScalesUp,
      RelationChanges
<1>10. CASE KServeFinalizes
  BY <1>10 DEF KServeFinalizes, NoSpec, Specs
<1>11. CASE SecretChanges \/ ConfigChanges \/ NodesLost \/
            (\E r \in Relations : RelationBroken(r))
  BY <1>11 DEF SecretChanges, ConfigChanges, NodesLost, RelationBroken
<1>12. CASE UNCHANGED vars
  BY <1>12 DEF vars
<1> QED
  BY <1>1, <1>2, <1>3, <1>4, <1>5, <1>6, <1>7, <1>8, <1>9, <1>10, <1>11,
     <1>12
  DEF Next, Reconcile, Remove, Settle, Disturb

(* So do the objects around it.                                            *)
LEMMA OwnedStep == HookOK /\ InputsOK /\ OwnedOK /\ [Next]_vars => OwnedOK'
<1> SUFFICES ASSUME HookOK, InputsOK, OwnedOK, [Next]_vars PROVE OwnedOK'
  OBVIOUS
<1> USE DEF HookOK, OwnedOK, Schemes, Roles
<1>1. CASE StartHook \/ Validate \/ ValidateFails \/ ValidateToken \/
           ValidateTokenFails \/ ValidateS3
  BY <1>1 DEF StartHook, Continue, Validate, ValidateFails, ErrorWithStatus,
      Forget, Unready, ValidateToken, ValidateTokenFails, ValidateS3
<1>2. CASE ApplySecret
  BY <1>2 DEF ApplySecret, Continue, Mounts, UseToken
<1>3. CASE ValidateS3Fails \/ ValidateCapacity \/ ValidateCapacityFails \/
           Render \/ ApplyService \/ ApplyServiceUnserved \/ GetStatusUnserved
  BY <1>3 DEF ValidateS3Fails, ErrorWithStatus, Forget, Unready,
      ValidateCapacity, ValidateCapacityFails, Render, ApplyService,
      Continue, ApplyServiceUnserved, GetStatusUnserved, Raise
<1>4. CASE PruneToken
  BY <1>4 DEF PruneToken, Continue
<1>5. CASE ApplyScaledObjects
  BY <1>5 DEF ApplyScaledObjects, ApplyScaler, ScalerRole, Continue
<1>6. CASE DropScaledObjects
  BY <1>6 DEF DropScaledObjects, DropScaler, DeleteScaler, ScalerRole,
      Continue
<1>7. CASE GetStatus \/ ReadKeda \/ ReadPrometheus \/
           ApplyScaledObjectsUnserved \/ ScaledObjectsStatus \/
           CombineStatuses
  BY <1>7 DEF GetStatus, ReadKeda, Continue, ScalingUnready, Unready,
      ReadPrometheus, ApplyScaledObjectsUnserved, Raise, Forget,
      ScaledObjectsStatus, CombineStatuses, Combined, ErrorWithStatus
<1>8. CASE RemoveScaledObjects
  BY <1>8 DEF RemoveScaledObjects, RemoveScaler, DeleteScaler, ScalerRole,
      Continue
<1>9. CASE RemoveSecrets
  BY <1>9 DEF RemoveSecrets, Continue
<1>10. CASE StartRemove \/ RemoveService \/ ServiceGone \/ WaitUnserved \/
            KServeReports \/ NodesAdded
  BY <1>10 DEF StartRemove, RemoveService, Continue, ServiceGone, WaitUnserved,
      Raise, Forget, KServeReports, NodesAdded
<1>11. CASE (\E r \in Relations : RelationReady(r)) \/
            (\E t \in Tokens : SecretGranted(t)) \/
            (\E api \in {"kserve", "keda"} : Serve(api)) \/ HookRaises \/
            HookKilled \/ WaitTimesOut
  BY <1>11 DEF RelationReady, SecretGranted, Serve, HookRaises, Raise, Forget,
      HookKilled, WaitTimesOut
<1>12. CASE KedaRemoved
  BY <1>12 DEF KedaRemoved
<1>13. ASSUME NEW role \in Roles, KedaScalesUp(role) PROVE OwnedOK'
  BY <1>13 DEF KedaScalesUp
<1>14. CASE RemoveRaises \/ ScalerRejected \/ Teardown \/ KServeRemoved \/
            KServeReportsFailure \/
            (\E r \in Relations : RelationChanges(r))
  BY <1>14 DEF RemoveRaises, Raise, Forget, ScalerRejected, Teardown,
      KServeRemoved, KServeReportsFailure, RelationChanges
<1>15. CASE SecretChanges \/ ConfigChanges \/ NodesLost \/ KServeFinalizes
            \/ (\E r \in Relations : RelationBroken(r))
  BY <1>15 DEF SecretChanges, ConfigChanges, NodesLost, KServeFinalizes,
      RelationBroken
<1>16. CASE UNCHANGED vars
  BY <1>16 DEF vars
<1> QED
  BY <1>1, <1>2, <1>3, <1>4, <1>5, <1>6, <1>7, <1>8, <1>9, <1>10, <1>11,
     <1>12, <1>13, <1>14, <1>15, <1>16
  DEF Next, Reconcile, Remove, Settle, Disturb

(* Type correctness: every variable always has its type.                   *)
THEOREM TypeCorrect == Spec => []TypeOK
<1>1. Init => TypeOK
  BY DEF Init, TypeOK, HookOK, InputsOK, ServiceOK, OwnedOK, Statuses,
    Specs, NoSpec, PCs, Relations
<1>2. TypeOK /\ [Next]_vars => TypeOK'
  BY HookStep, InputsStep, ServiceStep, OwnedStep DEF TypeOK
<1> QED
  BY <1>1, <1>2, PTL DEF Spec

-----------------------------------------------------------------------------
(* The inductive invariant.                                                *)

(* Which hooks run in which part of the unit's life.                       *)
PhaseInv ==
  /\ pc \in RemovePCs => life = "removing" /\ status = "maintenance"
  /\ pc \in PCs \ (RemovePCs \cup {"idle"}) => life \in {"alive", "dying"}
  /\ life = "gone" => pc = "idle"

(* Why no Secret is missing: the hook that applies a service has applied   *)
(* its Secret, prunes only what the service it applied does not mount, and *)
(* the removal touches the Secrets once the service is on its way out.     *)
CredInv ==
  /\ SecretsInPlace
  /\ pc = "applyCR" => Mounts \subseteq creds
  /\ pc = "prune" /\ cr = "present" => spec.mounts = Mounts

(* Why nothing is left: each deletion of the remove hook holds until its   *)
(* end, because no other hook runs any more.                               *)
RemoveInv ==
  /\ pc = "rmPrefill" => "decode" \notin scaler
  /\ pc \in RemovePCs \ {"rmDecode", "rmPrefill"} => scaler = {}
  /\ pc \in {"rmS3", "rmHF", "rmWait"} => cr # "present"
  /\ pc \in {"rmHF", "rmWait"} => "s3" \notin creds
  /\ pc = "rmWait" => "hf" \notin creds
  /\ NothingLeft

(* Why nobody else scales the workers: a hook that reaches its end keeps   *)
(* no ScaledObject but those of the service it applied, and only then may  *)
(* the unit become Active.                                                 *)
ScalerInv ==
  /\ pc \in ScalePCs => keep \subseteq IF "auto" \in config THEN Workers(config) ELSE {}
  /\ pc \in ScalePCs \cup {"prune", "status"} /\ cr = "present" =>
       /\ spec.replicas = Rendered.replicas
       /\ spec.workers = Rendered.workers
  /\ pc \in {"dropPrefill", "combine"} /\ "decode" \in scaler => "decode" \in keep
  /\ pc = "combine" /\ "prefill" \in scaler => "prefill" \in keep
  /\ OneScaler

(* Why replicas are kept: a hook that autoscales and is not blocked keeps  *)
(* the ScaledObjects of all the workers.                                   *)
KeepInv ==
  /\ pc \in ScalePCs \ {"dropDecode", "dropPrefill", "combine"} => scalingSt = "active"
  /\ pc \in ScalePCs /\ "auto" \in config /\ scalingSt # "blocked" => keep = Workers(config)

IInv == TypeOK /\ PhaseInv /\ CredInv /\ RemoveInv /\ ScalerInv /\ KeepInv

-----------------------------------------------------------------------------
(* Every step preserves it.                                                *)

(* The phases of the unit.                                                 *)
LEMMA PhaseStep == PhaseInv /\ [Next]_vars => PhaseInv'
<1> SUFFICES ASSUME PhaseInv, [Next]_vars PROVE PhaseInv'
  OBVIOUS
<1> USE DEF PhaseInv, PCs, ValidatePCs, ApplyPCs, ScalePCs, RemovePCs
<1>1. CASE ValidateFails
  BY <1>1 DEF ValidateFails, ErrorWithStatus, Forget, Unready
<1>2. CASE ValidateTokenFails
  BY <1>2 DEF ValidateTokenFails, ErrorWithStatus, Forget
<1>3. CASE ValidateS3Fails
  BY <1>3 DEF ValidateS3Fails, ErrorWithStatus, Forget, Unready
<1>4. CASE StartHook \/ Validate \/ ValidateToken \/ ValidateS3 \/
           ValidateCapacity
  BY <1>4 DEF StartHook, Continue, Validate, ValidateToken, ValidateS3,
      ValidateCapacity
<1>5. CASE ValidateCapacityFails
  BY <1>5 DEF ValidateCapacityFails, ErrorWithStatus, Forget
<1>6. CASE ApplyServiceUnserved \/ GetStatusUnserved
  BY <1>6 DEF ApplyServiceUnserved, GetStatusUnserved, Raise, Forget
<1>7. CASE Render \/ ApplySecret \/ ApplyService \/ PruneToken \/ GetStatus
  BY <1>7 DEF Render, ApplySecret, Continue, ApplyService, PruneToken,
      GetStatus
<1>8. CASE ApplyScaledObjectsUnserved
  BY <1>8 DEF ApplyScaledObjectsUnserved, Raise, Forget
<1>9. CASE ScaledObjectsStatus
  BY <1>9 DEF ScaledObjectsStatus, Continue, Raise, Forget
<1>10. CASE CombineStatuses
  BY <1>10 DEF CombineStatuses, Combined, ErrorWithStatus, Forget
<1>11. CASE ReadKeda \/ ReadPrometheus \/ ApplyScaledObjects \/
            DropScaledObjects \/ StartRemove
  BY <1>11 DEF ReadKeda, Continue, ScalingUnready, Unready, ReadPrometheus,
      ApplyScaledObjects, ApplyScaler, ScalerRole, DropScaledObjects,
      DropScaler, DeleteScaler, StartRemove
<1>12. CASE WaitUnserved
  BY <1>12 DEF WaitUnserved, Raise, Forget
<1>13. CASE RemoveScaledObjects \/ RemoveService \/ RemoveSecrets \/
            ServiceGone \/ KServeReports
  BY <1>13 DEF RemoveScaledObjects, RemoveScaler, DeleteScaler, ScalerRole,
      Continue, RemoveService, RemoveSecrets, ServiceGone,
      KServeReports
<1>14. CASE HookRaises
  BY <1>14 DEF HookRaises, Raise, Forget
<1>15. CASE HookKilled
  BY <1>15 DEF HookKilled, Raise, Forget
<1>16. CASE WaitTimesOut
  BY <1>16 DEF WaitTimesOut, Raise, Forget
<1>17. CASE RemoveRaises
  BY <1>17 DEF RemoveRaises, Raise, Forget
<1>18. CASE NodesAdded \/ (\E r \in Relations : RelationReady(r)) \/
            (\E t \in Tokens : SecretGranted(t)) \/
            (\E api \in {"kserve", "keda"} : Serve(api)) \/ ScalerRejected
  BY <1>18 DEF NodesAdded, RelationReady, SecretGranted, Serve, ScalerRejected
<1>19. CASE Teardown \/ KServeRemoved \/ KedaRemoved \/ KServeReportsFailure
            \/ (\E role \in Roles : KedaScalesUp(role))
  BY <1>19 DEF Teardown, KServeRemoved, KedaRemoved, KServeReportsFailure,
      KedaScalesUp
<1>20. CASE (\E r \in Relations : RelationChanges(r)) \/ SecretChanges \/
            ConfigChanges \/ NodesLost \/ KServeFinalizes
  BY <1>20 DEF RelationChanges, SecretChanges, ConfigChanges, NodesLost,
      KServeFinalizes
<1>21. ASSUME NEW r \in Relations, RelationBroken(r) PROVE PhaseInv'
  BY <1>21 DEF RelationBroken
<1>22. CASE UNCHANGED vars
  BY <1>22 DEF vars
<1> QED
  BY <1>1, <1>2, <1>3, <1>4, <1>5, <1>6, <1>7, <1>8, <1>9, <1>10, <1>11,
     <1>12, <1>13, <1>14, <1>15, <1>16, <1>17, <1>18, <1>19, <1>20, <1>21,
     <1>22
  DEF Next, Reconcile, Remove, Settle, Disturb

(* Credentials: no step takes away a Secret that is mounted.               *)
LEMMA CredStep == OwnedOK /\ ServiceOK /\ PhaseInv /\ RemoveInv /\ CredInv /\ [Next]_vars => CredInv'
<1> SUFFICES ASSUME OwnedOK, ServiceOK, PhaseInv, RemoveInv, CredInv, [Next]_vars PROVE CredInv'
  OBVIOUS
<1> USE DEF OwnedOK, ServiceOK, PhaseInv, RemoveInv, CredInv, SecretsInPlace, Mounts, UseToken, Schemes, PCs, ValidatePCs, ApplyPCs, ScalePCs, RemovePCs
<1>1. CASE ValidateFails
  BY <1>1 DEF ValidateFails, ErrorWithStatus, Forget, Unready
<1>2. CASE ValidateTokenFails
  BY <1>2 DEF ValidateTokenFails, ErrorWithStatus, Forget
<1>3. CASE ValidateS3Fails
  BY <1>3 DEF ValidateS3Fails, ErrorWithStatus, Forget, Unready
<1>4. CASE StartHook \/ Validate \/ ValidateToken \/ ValidateS3 \/
           ValidateCapacity
  BY <1>4 DEF StartHook, Continue, Validate, ValidateToken, ValidateS3,
      ValidateCapacity
<1>5. CASE ValidateCapacityFails
  BY <1>5 DEF ValidateCapacityFails, ErrorWithStatus, Forget
<1>6. CASE ApplySecret
  BY <1>6 DEF ApplySecret, Continue
<1>7. CASE ApplyService
  BY <1>7 DEF ApplyService, Continue, Rendered
<1>8. CASE ApplyServiceUnserved \/ GetStatusUnserved
  BY <1>8 DEF ApplyServiceUnserved, GetStatusUnserved, Raise, Forget
<1>9. CASE PruneToken
  BY <1>9 DEF PruneToken, Continue
<1>10. CASE Render \/ GetStatus \/ ReadKeda \/ ReadPrometheus \/
            ApplyScaledObjects
  BY <1>10 DEF Render, GetStatus, ReadKeda, Continue, ScalingUnready, Unready,
      ReadPrometheus, ApplyScaledObjects, ApplyScaler, ScalerRole
<1>11. CASE ApplyScaledObjectsUnserved
  BY <1>11 DEF ApplyScaledObjectsUnserved, Raise, Forget
<1>12. CASE ScaledObjectsStatus
  BY <1>12 DEF ScaledObjectsStatus, Continue, Raise, Forget
<1>13. CASE CombineStatuses
  BY <1>13 DEF CombineStatuses, Combined, ErrorWithStatus, Forget
<1>14. CASE RemoveService
  BY <1>14 DEF RemoveService, Continue
<1>15. CASE RemoveSecrets
  BY <1>15 DEF RemoveSecrets, Continue
<1>16. CASE WaitUnserved
  BY <1>16 DEF WaitUnserved, Raise, Forget
<1>17. CASE DropScaledObjects \/ StartRemove \/ RemoveScaledObjects \/
            ServiceGone \/ KServeReports
  BY <1>17 DEF DropScaledObjects, DropScaler, DeleteScaler, ScalerRole,
      Continue, StartRemove, RemoveScaledObjects, RemoveScaler,
      ServiceGone, KServeReports
<1>18. CASE HookRaises
  BY <1>18 DEF HookRaises, Raise, Forget
<1>19. CASE HookKilled
  BY <1>19 DEF HookKilled, Raise, Forget
<1>20. CASE WaitTimesOut
  BY <1>20 DEF WaitTimesOut, Raise, Forget
<1>21. CASE RemoveRaises
  BY <1>21 DEF RemoveRaises, Raise, Forget
<1>22. CASE NodesAdded \/ (\E r \in Relations : RelationReady(r)) \/
            (\E t \in Tokens : SecretGranted(t)) \/
            (\E api \in {"kserve", "keda"} : Serve(api)) \/ ScalerRejected
  BY <1>22 DEF NodesAdded, RelationReady, SecretGranted, Serve, ScalerRejected
<1>23. CASE Teardown \/ KServeRemoved \/ KedaRemoved \/ KServeReportsFailure
            \/ (\E role \in Roles : KedaScalesUp(role))
  BY <1>23 DEF Teardown, KServeRemoved, KedaRemoved, KServeReportsFailure,
      KedaScalesUp
<1>24. CASE (\E r \in Relations : RelationChanges(r)) \/ SecretChanges \/
            ConfigChanges \/ NodesLost \/ KServeFinalizes
  BY <1>24 DEF RelationChanges, SecretChanges, ConfigChanges, NodesLost,
      KServeFinalizes
<1>25. ASSUME NEW r \in Relations, RelationBroken(r) PROVE CredInv'
  BY <1>25 DEF RelationBroken
<1>26. CASE UNCHANGED vars
  BY <1>26 DEF vars
<1> QED
  BY <1>1, <1>2, <1>3, <1>4, <1>5, <1>6, <1>7, <1>8, <1>9, <1>10, <1>11,
     <1>12, <1>13, <1>14, <1>15, <1>16, <1>17, <1>18, <1>19, <1>20, <1>21,
     <1>22, <1>23, <1>24, <1>25, <1>26
  DEF Next, Reconcile, Remove, Settle, Disturb

(* Removal: what is deleted stays deleted.                                 *)
LEMMA RemoveStep == OwnedOK /\ PhaseInv /\ RemoveInv /\ [Next]_vars => RemoveInv'
<1> SUFFICES ASSUME OwnedOK, PhaseInv, RemoveInv, [Next]_vars PROVE RemoveInv'
  OBVIOUS
<1> USE DEF OwnedOK, PhaseInv, RemoveInv, NothingLeft, Roles, Schemes, PCs, ValidatePCs, ApplyPCs, ScalePCs, RemovePCs
<1>1. CASE ValidateFails
  BY <1>1 DEF ValidateFails, ErrorWithStatus, Forget, Unready
<1>2. CASE ValidateTokenFails
  BY <1>2 DEF ValidateTokenFails, ErrorWithStatus, Forget
<1>3. CASE ValidateS3Fails
  BY <1>3 DEF ValidateS3Fails, ErrorWithStatus, Forget, Unready
<1>4. CASE StartHook \/ Validate \/ ValidateToken \/ ValidateS3 \/
           ValidateCapacity
  BY <1>4 DEF StartHook, Continue, Validate, ValidateToken, ValidateS3,
      ValidateCapacity
<1>5. CASE ValidateCapacityFails
  BY <1>5 DEF ValidateCapacityFails, ErrorWithStatus, Forget
<1>6. CASE ApplySecret
  BY <1>6 DEF ApplySecret, Continue
<1>7. CASE ApplyService
  BY <1>7 DEF ApplyService, Continue
<1>8. CASE ApplyServiceUnserved \/ GetStatusUnserved
  BY <1>8 DEF ApplyServiceUnserved, GetStatusUnserved, Raise, Forget
<1>9. CASE Render \/ PruneToken \/ GetStatus \/ ReadKeda \/ ReadPrometheus
  BY <1>9 DEF Render, PruneToken, Continue, GetStatus, ReadKeda,
      ScalingUnready, Unready, ReadPrometheus
<1>10. CASE ApplyScaledObjects
  BY <1>10 DEF ApplyScaledObjects, ApplyScaler, ScalerRole, Continue
<1>11. CASE ApplyScaledObjectsUnserved
  BY <1>11 DEF ApplyScaledObjectsUnserved, Raise, Forget
<1>12. CASE ScaledObjectsStatus
  BY <1>12 DEF ScaledObjectsStatus, Continue, Raise, Forget
<1>13. CASE DropScaledObjects
  BY <1>13 DEF DropScaledObjects, DropScaler, DeleteScaler, ScalerRole,
      Continue
<1>14. CASE CombineStatuses
  BY <1>14 DEF CombineStatuses, Combined, ErrorWithStatus, Forget
<1>15. CASE RemoveScaledObjects
  BY <1>15 DEF RemoveScaledObjects, RemoveScaler, DeleteScaler, ScalerRole,
      Continue
<1>16. CASE RemoveSecrets
  BY <1>16 DEF RemoveSecrets, Continue
<1>17. CASE ServiceGone
  BY <1>17 DEF ServiceGone
<1>18. CASE WaitUnserved
  BY <1>18 DEF WaitUnserved, Raise, Forget
<1>19. CASE StartRemove \/ RemoveService \/ KServeReports \/ NodesAdded \/
            (\E r \in Relations : RelationReady(r))
  BY <1>19 DEF StartRemove, RemoveService, Continue, KServeReports, NodesAdded,
      RelationReady
<1>20. CASE HookRaises
  BY <1>20 DEF HookRaises, Raise, Forget
<1>21. CASE HookKilled
  BY <1>21 DEF HookKilled, Raise, Forget
<1>22. CASE WaitTimesOut
  BY <1>22 DEF WaitTimesOut, Raise, Forget
<1>23. CASE RemoveRaises
  BY <1>23 DEF RemoveRaises, Raise, Forget
<1>24. CASE (\E t \in Tokens : SecretGranted(t)) \/
            (\E api \in {"kserve", "keda"} : Serve(api)) \/ ScalerRejected
            \/ Teardown \/ KServeRemoved
  BY <1>24 DEF SecretGranted, Serve, ScalerRejected, Teardown, KServeRemoved
<1>25. CASE KedaRemoved \/ KServeReportsFailure \/
            (\E role \in Roles : KedaScalesUp(role)) \/
            (\E r \in Relations : RelationChanges(r)) \/ SecretChanges
  BY <1>25 DEF KedaRemoved, KServeReportsFailure, KedaScalesUp,
      RelationChanges, SecretChanges
<1>26. CASE ConfigChanges \/ NodesLost \/ KServeFinalizes \/
            (\E r \in Relations : RelationBroken(r))
  BY <1>26 DEF ConfigChanges, NodesLost, KServeFinalizes, RelationBroken
<1>27. CASE UNCHANGED vars
  BY <1>27 DEF vars
<1> QED
  BY <1>1, <1>2, <1>3, <1>4, <1>5, <1>6, <1>7, <1>8, <1>9, <1>10, <1>11,
     <1>12, <1>13, <1>14, <1>15, <1>16, <1>17, <1>18, <1>19, <1>20, <1>21,
     <1>22, <1>23, <1>24, <1>25, <1>26, <1>27
  DEF Next, Reconcile, Remove, Settle, Disturb

(* Autoscaling: only hooks that ran to their end leave the unit Active.    *)
LEMMA ScalerStep == OwnedOK /\ PhaseInv /\ ScalerInv /\ [Next]_vars => ScalerInv'
<1> SUFFICES ASSUME OwnedOK, PhaseInv, ScalerInv, [Next]_vars PROVE ScalerInv'
  OBVIOUS
<1> USE DEF OwnedOK, PhaseInv, ScalerInv, OneScaler, Rendered, Workers, Roles, PCs, ValidatePCs, ApplyPCs, ScalePCs, RemovePCs
<1>1. CASE ValidateFails
  BY <1>1 DEF ValidateFails, ErrorWithStatus, Forget, Unready
<1>2. CASE ValidateTokenFails
  BY <1>2 DEF ValidateTokenFails, ErrorWithStatus, Forget
<1>3. CASE StartHook \/ Validate \/ ValidateToken \/ ValidateS3
  BY <1>3 DEF StartHook, Continue, Validate, ValidateToken, ValidateS3
<1>4. CASE ValidateS3Fails
  BY <1>4 DEF ValidateS3Fails, ErrorWithStatus, Forget, Unready
<1>5. CASE ValidateCapacityFails
  BY <1>5 DEF ValidateCapacityFails, ErrorWithStatus, Forget
<1>6. CASE ApplyService
  BY <1>6 DEF ApplyService, Continue
<1>7. CASE ApplyServiceUnserved \/ GetStatusUnserved
  BY <1>7 DEF ApplyServiceUnserved, GetStatusUnserved, Raise, Forget
<1>8. CASE ValidateCapacity \/ Render \/ ApplySecret \/ PruneToken
  BY <1>8 DEF ValidateCapacity, Render, ApplySecret, Continue, PruneToken
<1>9. CASE GetStatus
  BY <1>9 DEF GetStatus
<1>10. CASE ReadKeda
  BY <1>10 DEF ReadKeda, Continue, ScalingUnready, Unready
<1>11. CASE ReadPrometheus
  BY <1>11 DEF ReadPrometheus, Continue, ScalingUnready, Unready
<1>12. CASE ApplyScaledObjects
  BY <1>12 DEF ApplyScaledObjects, ApplyScaler, ScalerRole, Continue
<1>13. CASE ApplyScaledObjectsUnserved
  BY <1>13 DEF ApplyScaledObjectsUnserved, Raise, Forget
<1>14. CASE ScaledObjectsStatus
  BY <1>14 DEF ScaledObjectsStatus, Continue, Raise, Forget
<1>15. CASE DropScaledObjects
  BY <1>15 DEF DropScaledObjects, DropScaler, DeleteScaler, ScalerRole,
      Continue
<1>16. CASE CombineStatuses
  BY <1>16 DEF CombineStatuses, Combined, ErrorWithStatus, Forget
<1>17. CASE StartRemove
  BY <1>17 DEF StartRemove
<1>18. CASE RemoveScaledObjects
  BY <1>18 DEF RemoveScaledObjects, RemoveScaler, DeleteScaler, ScalerRole,
      Continue
<1>19. CASE ServiceGone
  BY <1>19 DEF ServiceGone
<1>20. CASE WaitUnserved
  BY <1>20 DEF WaitUnserved, Raise, Forget
<1>21. CASE RemoveService \/ RemoveSecrets \/ KServeReports \/ NodesAdded
  BY <1>21 DEF RemoveService, Continue, RemoveSecrets, KServeReports,
      NodesAdded
<1>22. CASE HookRaises
  BY <1>22 DEF HookRaises, Raise, Forget
<1>23. CASE HookKilled
  BY <1>23 DEF HookKilled, Raise, Forget
<1>24. CASE WaitTimesOut
  BY <1>24 DEF WaitTimesOut, Raise, Forget
<1>25. CASE RemoveRaises
  BY <1>25 DEF RemoveRaises, Raise, Forget
<1>26. CASE (\E r \in Relations : RelationReady(r)) \/
            (\E t \in Tokens : SecretGranted(t)) \/
            (\E api \in {"kserve", "keda"} : Serve(api)) \/ ScalerRejected
  BY <1>26 DEF RelationReady, SecretGranted, Serve, ScalerRejected
<1>27. CASE Teardown \/ KServeRemoved \/ KedaRemoved \/ KServeReportsFailure
  BY <1>27 DEF Teardown, KServeRemoved, KedaRemoved, KServeReportsFailure
<1>28. CASE (\E role \in Roles : KedaScalesUp(role)) \/
            (\E r \in Relations : RelationChanges(r)) \/ SecretChanges \/
            ConfigChanges
  BY <1>28 DEF KedaScalesUp, RelationChanges, SecretChanges, ConfigChanges
<1>29. CASE NodesLost \/ KServeFinalizes \/
            (\E r \in Relations : RelationBroken(r))
  BY <1>29 DEF NodesLost, KServeFinalizes, RelationBroken
<1>30. CASE UNCHANGED vars
  BY <1>30 DEF vars
<1> QED
  BY <1>1, <1>2, <1>3, <1>4, <1>5, <1>6, <1>7, <1>8, <1>9, <1>10, <1>11,
     <1>12, <1>13, <1>14, <1>15, <1>16, <1>17, <1>18, <1>19, <1>20, <1>21,
     <1>22, <1>23, <1>24, <1>25, <1>26, <1>27, <1>28, <1>29, <1>30
  DEF Next, Reconcile, Remove, Settle, Disturb

(* Autoscaling: the workers to keep are forgotten with a blocked status.   *)
LEMMA KeepStep == KeepInv /\ [Next]_vars => KeepInv'
<1> SUFFICES ASSUME KeepInv, [Next]_vars PROVE KeepInv'
  OBVIOUS
<1> USE DEF KeepInv, Workers, Roles, ScalePCs
<1>1. CASE StartHook \/ Validate \/ ValidateToken \/ ValidateS3 \/ ValidateCapacity \/
           Render \/ ApplySecret \/ ApplyService \/ PruneToken
  BY <1>1 DEF StartHook, Continue, Validate, ValidateToken, ValidateS3, ValidateCapacity,
      Render, ApplySecret, ApplyService, PruneToken
<1>2. CASE ValidateFails \/ ValidateTokenFails \/ ValidateS3Fails \/
           ValidateCapacityFails \/ CombineStatuses
  BY <1>2 DEF ValidateFails, ValidateTokenFails, ValidateS3Fails,
      ValidateCapacityFails, CombineStatuses, ErrorWithStatus, Forget
<1>3. CASE ApplyServiceUnserved \/ GetStatusUnserved \/ ApplyScaledObjectsUnserved \/ WaitUnserved
  BY <1>3 DEF ApplyServiceUnserved, GetStatusUnserved, ApplyScaledObjectsUnserved, WaitUnserved, Raise, Forget
<1>4. CASE GetStatus
  BY <1>4 DEF GetStatus
<1>5. CASE ReadKeda
  BY <1>5 DEF ReadKeda, Continue, ScalingUnready, Unready
<1>6. CASE ReadPrometheus
  BY <1>6 DEF ReadPrometheus, Continue, ScalingUnready, Unready
<1>7. CASE ApplyScaledObjects
  BY <1>7 DEF ApplyScaledObjects, ApplyScaler, Continue
<1>8. CASE ScaledObjectsStatus
  BY <1>8 DEF ScaledObjectsStatus, Continue, Raise, Forget
<1>9. CASE DropScaledObjects
  BY <1>9 DEF DropScaledObjects, DropScaler, Continue
<1>10. CASE StartRemove \/ RemoveService \/ RemoveSecrets \/ ServiceGone
  BY <1>10 DEF StartRemove, RemoveService, RemoveSecrets, ServiceGone, Continue
<1>11. CASE RemoveScaledObjects
  BY <1>11 DEF RemoveScaledObjects, RemoveScaler, Continue
<1>12. CASE HookRaises \/ HookKilled \/ WaitTimesOut \/ RemoveRaises
  BY <1>12 DEF HookRaises, HookKilled, WaitTimesOut, RemoveRaises, Raise, Forget
<1>13. CASE ScalerRejected
  BY <1>13 DEF ScalerRejected
<1>14. CASE (\E r \in Relations : RelationReady(r) \/ RelationChanges(r) \/ RelationBroken(r)) \/
            (\E t \in Tokens : SecretGranted(t)) \/
            (\E api \in {"kserve", "keda"} : Serve(api)) \/ SecretChanges \/ Teardown
  BY <1>14 DEF RelationReady, RelationChanges, RelationBroken, SecretGranted, Serve,
      SecretChanges, Teardown
<1>15. CASE ConfigChanges
  BY <1>15 DEF ConfigChanges
<1>16. CASE KServeReports \/ KServeReportsFailure \/ KServeRemoved \/ KServeFinalizes \/
            KedaRemoved \/ (\E role \in Roles : KedaScalesUp(role)) \/ NodesAdded \/ NodesLost
  BY <1>16 DEF KServeReports, KServeReportsFailure, KServeRemoved, KServeFinalizes,
      KedaRemoved, KedaScalesUp, NodesAdded, NodesLost
<1>17. CASE UNCHANGED vars
  BY <1>17 DEF vars
<1> QED
  BY <1>1, <1>2, <1>3, <1>4, <1>5, <1>6, <1>7, <1>8, <1>9, <1>10, <1>11, <1>12, <1>13,
     <1>14, <1>15, <1>16, <1>17
  DEF Next, Reconcile, Remove, Settle, Disturb

(* The invariant is inductive.                                             *)
THEOREM Invariant == Spec => []IInv
<1>1. Init => IInv
  <2> SUFFICES ASSUME Init PROVE IInv
    OBVIOUS
  <2>1. TypeOK
    BY DEF Init, TypeOK, HookOK, InputsOK, ServiceOK, OwnedOK, Statuses,
    Specs, NoSpec, PCs, Relations
  <2>2. PhaseInv /\ RemoveInv
    BY DEF Init, PhaseInv, RemoveInv, NothingLeft, RemovePCs
  <2>3. CredInv /\ ScalerInv /\ KeepInv
    BY DEF Init, CredInv, SecretsInPlace, ScalerInv, OneScaler, KeepInv, ScalePCs
  <2> QED
    BY <2>1, <2>2, <2>3 DEF IInv
<1>2. IInv /\ [Next]_vars => IInv'
  BY HookStep, InputsStep, ServiceStep, OwnedStep, PhaseStep, CredStep, RemoveStep,
     ScalerStep, KeepStep
  DEF IInv, TypeOK
<1> QED
  BY <1>1, <1>2, PTL DEF Spec

(* A service never mounts a Secret that does not exist.                    *)
THEOREM SecretsAlwaysInPlace == Spec => []SecretsInPlace
<1>1. IInv => SecretsInPlace
  BY DEF IInv, CredInv
<1> QED
  BY <1>1, Invariant, PTL

(* An Active unit's workers have no second scaler.                         *)
THEOREM ActiveOneScaler == Spec => []OneScaler
<1>1. IInv => OneScaler
  BY DEF IInv, ScalerInv
<1> QED
  BY <1>1, Invariant, PTL

(* A removed unit leaves nothing behind.                                   *)
THEOREM RemovedLeavesNothing == Spec => []NothingLeft
<1>1. IInv => NothingLeft
  BY DEF IInv, RemoveInv
<1> QED
  BY <1>1, Invariant, PTL

(* The service is taken down after its ScaledObjects, with its Secrets.    *)
THEOREM TeardownInOrder == Spec => TeardownOrder
<1>1. IInv /\ [Next]_vars
        => [cr = "present" /\ cr' = "terminating" => scaler = {} /\ spec.mounts \subseteq creds]_vars
  <2> SUFFICES ASSUME IInv, [Next]_vars, cr = "present", cr' = "terminating"
               PROVE  scaler = {} /\ spec.mounts \subseteq creds
    OBVIOUS
  <2>1. pc = "rmCR"
    <3>1. CASE StartHook \/ Validate \/ ValidateFails \/ ValidateToken \/
               ValidateTokenFails \/ ValidateS3
      BY <3>1 DEF StartHook, Continue, Validate, ValidateFails, ErrorWithStatus,
          Forget, Unready, ValidateToken, ValidateTokenFails, ValidateS3
    <3>2. CASE ValidateS3Fails \/ ValidateCapacity \/ ValidateCapacityFails \/
               Render \/ ApplySecret \/ ApplyService
      BY <3>2 DEF ValidateS3Fails, ErrorWithStatus, Forget, Unready,
          ValidateCapacity, ValidateCapacityFails, Render, ApplySecret,
          Continue, ApplyService
    <3>3. CASE ApplyServiceUnserved \/ GetStatusUnserved \/ PruneToken \/ GetStatus \/ ReadKeda \/
               ReadPrometheus \/ ApplyScaledObjects
      BY <3>3 DEF ApplyServiceUnserved, GetStatusUnserved, Raise, Forget, PruneToken, Continue,
          GetStatus, ReadKeda, ScalingUnready, Unready, ReadPrometheus,
          ApplyScaledObjects, ApplyScaler, ScalerRole
    <3>4. CASE ApplyScaledObjectsUnserved \/ ScaledObjectsStatus \/
               DropScaledObjects \/ CombineStatuses \/ StartRemove \/
               RemoveScaledObjects
      BY <3>4 DEF ApplyScaledObjectsUnserved, Raise, Forget, ScaledObjectsStatus,
          Continue, DropScaledObjects, DropScaler, DeleteScaler,
          ScalerRole, CombineStatuses, Combined, ErrorWithStatus,
          StartRemove, RemoveScaledObjects, RemoveScaler
    <3>5. CASE RemoveService
      BY <3>5 DEF RemoveService, Continue
    <3>6. CASE RemoveSecrets \/ ServiceGone \/ WaitUnserved \/ KServeReports \/
               NodesAdded \/ (\E r \in Relations : RelationReady(r))
      BY <3>6 DEF RemoveSecrets, Continue, ServiceGone, WaitUnserved, Raise,
          Forget, KServeReports, NodesAdded, RelationReady
    <3>7. CASE (\E t \in Tokens : SecretGranted(t)) \/
               (\E api \in {"kserve", "keda"} : Serve(api)) \/ HookRaises \/
               HookKilled \/ WaitTimesOut \/ RemoveRaises
      BY <3>7 DEF SecretGranted, Serve, HookRaises, Raise, Forget, HookKilled,
          WaitTimesOut, RemoveRaises
    <3>8. CASE ScalerRejected \/ Teardown \/ KServeRemoved \/ KedaRemoved \/
               KServeReportsFailure \/ (\E role \in Roles : KedaScalesUp(role))
      BY <3>8 DEF ScalerRejected, Teardown, KServeRemoved, KedaRemoved,
          KServeReportsFailure, KedaScalesUp
    <3>9. CASE (\E r \in Relations : RelationChanges(r)) \/ SecretChanges \/
               ConfigChanges \/ NodesLost \/ KServeFinalizes \/
               (\E r \in Relations : RelationBroken(r))
      BY <3>9 DEF RelationChanges, SecretChanges, ConfigChanges, NodesLost,
          KServeFinalizes, RelationBroken
    <3>10. CASE UNCHANGED vars
      BY <3>10 DEF vars
    <3> QED
      BY <3>1, <3>2, <3>3, <3>4, <3>5, <3>6, <3>7, <3>8, <3>9, <3>10
      DEF Next, Reconcile, Remove, Settle, Disturb
  <2> QED
    BY <2>1 DEF IInv, RemoveInv, CredInv, SecretsInPlace, RemovePCs
<1> QED
  BY <1>1, Invariant, PTL DEF Spec, TeardownOrder

(* The workers KEDA has scaled up stay so, unless they are no longer to be *)
(* autoscaled, the status is blocked or the unit is being removed.         *)
THEOREM ScaledUpIsKept == Spec => KeepsReplicas
<1>1. IInv /\ [Next]_vars => [\A role \in grown \ grown' : MayReset(role)]_vars
  <2> SUFFICES ASSUME IInv, [Next]_vars, NEW role \in grown \ grown' PROVE MayReset(role)
    OBVIOUS
  <2>1. CASE DropScaledObjects
    <3>1. PICK p \in {"dropDecode", "dropPrefill"} :
            pc = p /\ role = ScalerRole(p) /\ role \notin keep
      BY <2>1 DEF DropScaledObjects, DropScaler, DeleteScaler, clusterVars, scalerVars
    <3> QED
      BY <3>1 DEF MayReset, IInv, KeepInv, ScalePCs
  <2>2. CASE RemoveScaledObjects
    BY <2>2 DEF RemoveScaledObjects, RemoveScaler, MayReset, IInv, PhaseInv, RemovePCs
  <2>3. CASE StartHook \/ Validate \/ ValidateToken \/ ValidateS3 \/ ValidateCapacity \/
             ValidateFails \/ ValidateTokenFails \/ ValidateS3Fails \/ ValidateCapacityFails
    BY <2>3 DEF StartHook, Validate, ValidateToken, ValidateS3, ValidateCapacity,
        ValidateFails, ValidateTokenFails, ValidateS3Fails, ValidateCapacityFails
  <2>4. CASE Render \/ ApplySecret \/ ApplyService \/ ApplyServiceUnserved \/ GetStatusUnserved \/ PruneToken \/
             GetStatus \/ ReadKeda \/ ReadPrometheus
    BY <2>4 DEF Render, ApplySecret, ApplyService, ApplyServiceUnserved, GetStatusUnserved, PruneToken,
        GetStatus, ReadKeda, ReadPrometheus, ScalingUnready
  <2>5. CASE ApplyScaledObjects \/ ApplyScaledObjectsUnserved \/ ScaledObjectsStatus \/
             CombineStatuses \/ ScalerRejected
    BY <2>5 DEF ApplyScaledObjects, ApplyScaler, ApplyScaledObjectsUnserved,
        ScaledObjectsStatus, CombineStatuses, ScalerRejected
  <2>6. CASE StartRemove \/ RemoveService \/ RemoveSecrets \/ ServiceGone \/ WaitUnserved \/
             HookRaises \/ HookKilled \/ WaitTimesOut \/ RemoveRaises
    BY <2>6 DEF StartRemove, RemoveService, RemoveSecrets, ServiceGone, WaitUnserved,
        HookRaises, HookKilled, WaitTimesOut, RemoveRaises
  <2>7. CASE (\E r \in Relations : RelationReady(r) \/ RelationChanges(r) \/ RelationBroken(r)) \/
             (\E t \in Tokens : SecretGranted(t)) \/
             (\E api \in {"kserve", "keda"} : Serve(api)) \/ SecretChanges \/ ConfigChanges \/ Teardown
    BY <2>7 DEF RelationReady, RelationChanges, RelationBroken, SecretGranted, Serve,
        SecretChanges, ConfigChanges, Teardown
  <2>8. CASE KServeReports \/ KServeReportsFailure \/ KServeRemoved \/ KServeFinalizes \/
             KedaRemoved \/ NodesAdded \/ NodesLost
    BY <2>8 DEF KServeReports, KServeReportsFailure, KServeRemoved, KServeFinalizes,
        KedaRemoved, NodesAdded, NodesLost
  <2>9. CASE \E r \in Roles : KedaScalesUp(r)
    BY <2>9 DEF KedaScalesUp
  <2>10. CASE UNCHANGED vars
    BY <2>10 DEF vars
  <2> QED
    BY <2>1, <2>2, <2>3, <2>4, <2>5, <2>6, <2>7, <2>8, <2>9, <2>10
    DEF Next, Reconcile, Remove, Settle, Disturb
<1> QED
  BY <1>1, Invariant, PTL DEF Spec, KeepsReplicas
=============================================================================
