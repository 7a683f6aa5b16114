--------------------------- MODULE LLMIntegrator ---------------------------
(***************************************************************************)
(* One unit of the llm-integrator charm                                    *)
(* (charms/llm-integrator/src/charm.py) and the Kubernetes objects it owns *)
(* for one model: the LLMInferenceService, the credentials Secrets the     *)
(* service refers to, and one KEDA ScaledObject per worker Deployment.     *)
(*                                                                         *)
(* pc is the next call of the running hook; each action is one call with   *)
(* the return or the raise that follows it.                                *)
(*                                                                         *)
(* Simplifications.                                                        *)
(*  - Every observed event runs the same handler and every unit gets       *)
(*    update-status forever, so a hook may start whenever none runs; the   *)
(*    secret-changed events _on_event ignores do nothing.                  *)
(*  - The configuration is a snapshot Juju takes for the hook: it changes  *)
(*    between hooks.  Relations, the Juju secret and the cluster are read  *)
(*    when the hook reads them.                                            *)
(*  - Of an LLMInferenceService the model keeps what other objects depend  *)
(*    on: the Secrets it mounts, whether it fixes the replicas and which   *)
(*    worker Deployments it has.                                           *)
(*  - A Juju secret that does not exist, is not granted or has no "token"  *)
(*    key holds NoToken.                                                   *)
(*  - KServe's verdict on the service (Ready condition, workload pods) is  *)
(*    one value, which lags behind the specification the charm applies.    *)
(***************************************************************************)
EXTENDS Naturals, FiniteSets

CONSTANTS
  Tokens,     \* the Hugging Face tokens a Juju secret may hold
  NoToken,    \* no token
  Configs,    \* the configurations the operator may set
  Offered,    \* the endpoints the operator may integrate
  Faults      \* which misfortunes may happen: see AllFaults

AllFaults == {"api",       \* the Kubernetes API refuses a call
              "crash",     \* the hook is killed: the unit's pod is replaced
              "timeout",   \* a deletion outlasts DELETION_TIMEOUT
              "depend",    \* kserve-llmisvc or s3-credentials goes or is not ready
              "scalers",   \* keda or prometheus-api goes or is not ready
              "secret",    \* the Juju secret is revoked, emptied or changed
              "config",    \* the operator changes the configuration again
              "capacity",  \* the cluster loses the nodes the workers need
              "llmisvc",   \* the LLMInferenceService CRD is removed
              "keda",      \* KEDA is removed, or rejects or fails a ScaledObject
              "workload",  \* KServe reports a failure
              "load",      \* traffic makes KEDA add replicas
              "teardown"}  \* the application is removed

(* A configuration is the set of what holds of it.                         *)
Options == {"invalid",   \* CharmConfig refuses it
            "s3",        \* the model URI is s3://, otherwise hf://
            "token",     \* hf-token-secret is set
            "auto",      \* max-replicas exceeds min-replicas
            "prefill"}   \* enable-prefill-decode

ASSUME TokensAssumption  == NoToken \notin Tokens
ASSUME ConfigsAssumption == Configs \subseteq SUBSET Options
ASSUME FaultsAssumption  == Faults \subseteq AllFaults

VARIABLES
  pc,         \* the next call of the running hook, "idle" between hooks
  token,      \* _hf_token, cached for the hook
  workloadSt, \* the status _llm_isvc_status returned in this hook
  scalingSt,  \* the status of the autoscaling so far in this hook
  keep,       \* the ScaledObjects this hook wants to keep
  status,     \* the unit's workload status
  outcome,    \* how the last hook ended: an error is an uncaught exception, or a kill
  life,       \* "alive", then "dying", "removing" and "gone" under teardown
  config,     \* the Juju configuration
  dep,        \* what each relation says
  secret,     \* the Juju user secret hf-token-secret refers to
  nodes,      \* the cluster has "enough" nodes for the workers, or too "few"
  apis,       \* the API groups the cluster serves
  cr,         \* the LLMInferenceService
  spec,       \* its specification
  verdict,    \* what KServe last said of it
  creds,      \* which credentials Secrets exist in Kubernetes
  hfToken,    \* the token in the "hf" one
  scaler,     \* which worker Deployments have a ScaledObject
  grown       \* which worker Deployments KEDA scaled above where it found them

hookVars    == <<pc, token, workloadSt, scalingSt, keep>>
unitVars    == <<status, outcome, life>>
inputVars   == <<config, dep, secret, nodes>>
crVars      == <<cr, spec, verdict>>
secretVars  == <<creds, hfToken>>
scalerVars  == <<scaler, grown>>
clusterVars == <<apis, crVars, secretVars, scalerVars>>
vars == <<hookVars, unitVars, inputVars, clusterVars>>

-----------------------------------------------------------------------------
(* States.                                                                 *)

Relations == {"kserve-llmisvc", "s3-credentials", "keda", "prometheus-api"}
Scaling   == {"keda", "prometheus-api"}
Roles     == {"decode", "prefill"}
Statuses  == {"unknown", "maintenance", "blocked", "waiting", "active"}

(* worker_deployments                                                      *)
Workers(c) == IF "prefill" \in c THEN Roles ELSE {"decode"}

Schemes == {"hf", "s3"}

Specs  == [mounts : SUBSET Schemes, replicas : {"fixed", "free"}, workers : SUBSET Roles]
NoSpec == [mounts |-> {}, replicas |-> "free", workers |-> {}]

ValidatePCs == {"validate", "token", "s3", "capacity"}
ApplyPCs    == {"render", "applySecret", "applyCR", "prune", "status"}
ScalePCs    == {"keda", "prometheus", "applyDecode", "applyPrefill",
                "scalerStatus", "dropDecode", "dropPrefill", "combine"}
RemovePCs   == {"rmDecode", "rmPrefill", "rmCR", "rmS3", "rmHF", "rmWait"}
PCs == ValidatePCs \cup ApplyPCs \cup ScalePCs \cup RemovePCs \cup {"idle"}

HookOK ==
  /\ pc \in PCs
  /\ token \in Tokens \cup {NoToken}
  /\ workloadSt \in Statuses /\ scalingSt \in Statuses
  /\ keep \subseteq Roles
  /\ status \in Statuses /\ outcome \in {"ok", "error"}
  /\ life \in {"alive", "dying", "removing", "gone"}

InputsOK ==
  /\ config \in Configs
  /\ dep \in [Relations -> {"missing", "notready", "ready"}]
  /\ secret \in Tokens \cup {NoToken}
  /\ nodes \in {"enough", "few"}

ServiceOK ==
  /\ apis \subseteq {"kserve", "keda"}
  /\ cr \in {"absent", "present", "terminating"}
  /\ spec \in Specs
  /\ verdict \in {"none", "starting", "serving", "failed"}

OwnedOK ==
  /\ creds \subseteq Schemes
  /\ hfToken \in Tokens \cup {NoToken}
  /\ scaler \subseteq Roles
  /\ grown \subseteq Roles

TypeOK == HookOK /\ InputsOK /\ ServiceOK /\ OwnedOK

Init ==
  /\ pc = "idle" /\ token = NoToken /\ keep = {}
  /\ workloadSt = "unknown" /\ scalingSt = "unknown"
  /\ status = "unknown" /\ outcome = "ok" /\ life = "alive"
  /\ config \in Configs
  /\ dep = [r \in Relations |-> "missing"]
  /\ secret = NoToken /\ nodes = "few"
  /\ apis = {}
  /\ cr = "absent" /\ spec = NoSpec /\ verdict = "none"
  /\ creds = {} /\ hfToken = NoToken
  /\ scaler = {} /\ grown = {}

-----------------------------------------------------------------------------
(* Ends of a hook.                                                         *)

Forget ==
  /\ pc' = "idle" /\ token' = NoToken /\ keep' = {}
  /\ workloadSt' = "unknown" /\ scalingSt' = "unknown"

(* except ErrorWithStatus: set the status and return.                      *)
ErrorWithStatus(s) ==
  /\ status' = s /\ outcome' = "ok"
  /\ Forget
  /\ UNCHANGED <<life, inputVars>>

(* An ApiError, or the HTTPStatusError lightkube raises when the API group *)
(* is not served, ends the hook; Juju runs it again.                       *)
Raise ==
  /\ outcome' = "error"
  /\ Forget
  /\ UNCHANGED <<status, life, inputVars>>

Continue(next) ==
  /\ pc' = next
  /\ UNCHANGED <<token, workloadSt, scalingSt, keep, unitVars, inputVars>>

-----------------------------------------------------------------------------
(* _on_event: validation.                                                  *)

StartHook ==
  /\ pc = "idle" /\ life \in {"alive", "dying"}
  /\ Continue("validate")
  /\ UNCHANGED clusterVars

(* A bug to catch: what the relation says is taken for a status.           *)
RelationState(r) == dep[r]

(* _validate_ready_relation: no relation blocks, not ready waits.          *)
Unready(r) == IF dep[r] = "missing" THEN "blocked" ELSE "waiting"

(* _validate_ready_relation of kserve-llmisvc, then _config.               *)
Validate ==
  /\ pc = "validate" /\ dep["kserve-llmisvc"] = "ready" /\ "invalid" \notin config
  /\ Continue("token")
  /\ UNCHANGED clusterVars

ValidateFails ==
  /\ pc = "validate"
  /\ \/ dep["kserve-llmisvc"] # "ready" /\ ErrorWithStatus(Unready("kserve-llmisvc"))
     \/ dep["kserve-llmisvc"] = "ready" /\ "invalid" \in config /\ ErrorWithStatus("blocked")
  /\ UNCHANGED clusterVars

(* _validate_hf_token: a configured token needs an hf:// model and a       *)
(* granted Juju secret.  The read is retried for a grant that is under     *)
(* way, so it happens at any moment the hook waits here.                   *)
ValidateToken ==
  /\ pc = "token"
  /\ "token" \in config => "s3" \notin config /\ secret # NoToken
  /\ Continue("s3")
  /\ UNCHANGED clusterVars

ValidateTokenFails ==
  /\ pc = "token" /\ "token" \in config
  /\ "s3" \in config \/ secret = NoToken
  /\ ErrorWithStatus("blocked")
  /\ UNCHANGED clusterVars

(* _validate_s3                                                            *)
ValidateS3 ==
  /\ pc = "s3"
  /\ "s3" \in config => dep["s3-credentials"] = "ready"
  /\ Continue("capacity")
  /\ UNCHANGED clusterVars

ValidateS3Fails ==
  /\ pc = "s3" /\ "s3" \in config /\ dep["s3-credentials"] # "ready"
  /\ ErrorWithStatus(Unready("s3-credentials"))
  /\ UNCHANGED clusterVars

(* _validate_cluster_capacity, then "Applying LLMInferenceService".        *)
ValidateCapacity ==
  /\ pc = "capacity" /\ nodes = "enough"
  /\ pc' = "render" /\ status' = "maintenance"
  /\ UNCHANGED <<token, workloadSt, scalingSt, keep, outcome, life, inputVars, clusterVars>>

ValidateCapacityFails ==
  /\ pc = "capacity" /\ nodes = "few"
  /\ ErrorWithStatus("blocked")
  /\ UNCHANGED clusterVars

-----------------------------------------------------------------------------
(* _on_event: the LLMInferenceService and its Secret.                      *)

(* _context.  For an hf:// model it reads the token again, this time       *)
(* tolerantly, and _hf_token caches what it got.                           *)
Render ==
  /\ pc = "render"
  /\ token' = IF "s3" \notin config /\ "token" \in config THEN secret ELSE NoToken
  /\ pc' = "applySecret"
  /\ UNCHANGED <<workloadSt, scalingSt, keep, unitVars, inputVars, clusterVars>>

UseToken == "s3" \notin config /\ token # NoToken

(* The Secrets the rendered service refers to.                             *)
Mounts == (IF "s3" \in config THEN {"s3"} ELSE {}) \cup (IF UseToken THEN {"hf"} ELSE {})

Rendered == [mounts   |-> Mounts,
             replicas |-> IF "auto" \in config THEN "free" ELSE "fixed",
             workers  |-> Workers(config)]

(* A bug to catch: the Secret is pruned before the service that mounts it  *)
(* is replaced.                                                            *)
PruneFirst ==
  /\ pc = "applySecret"
  /\ creds' = Mounts
  /\ hfToken' = token
  /\ Continue("applyCR")
  /\ UNCHANGED <<apis, crVars, scalerVars>>

(* A bug to catch: the Secret is created once and never updated.           *)
CreateSecretOnce ==
  /\ pc = "applySecret"
  /\ creds' = creds \cup Mounts
  /\ hfToken' = IF UseToken /\ "hf" \notin creds THEN token ELSE hfToken
  /\ Continue("applyCR")
  /\ UNCHANGED <<apis, crVars, scalerVars>>

(* resource_handler.apply applies the documents of the template in order:  *)
(* the Secret, if any, then the LLMInferenceService.                       *)
ApplySecret ==
  /\ pc = "applySecret"
  /\ creds' = creds \cup Mounts
  /\ hfToken' = IF UseToken THEN token ELSE hfToken
  /\ Continue("applyCR")
  /\ UNCHANGED <<apis, crVars, scalerVars>>

ApplyService ==
  /\ pc = "applyCR" /\ "kserve" \in apis
  /\ spec' = Rendered
  /\ cr' = "present"
  /\ verdict' = IF cr = "present" THEN verdict ELSE "none"
  /\ Continue("prune")
  /\ UNCHANGED <<apis, secretVars, scalerVars>>

ApplyServiceUnserved ==
  /\ pc = "applyCR" /\ "kserve" \notin apis
  /\ Raise
  /\ UNCHANGED clusterVars

(* A token that is no longer used leaves no Secret behind.                 *)
PruneToken ==
  /\ pc = "prune"
  /\ creds' = IF UseToken THEN creds ELSE creds \ {"hf"}
  /\ hfToken' = IF UseToken THEN hfToken ELSE NoToken
  /\ Continue("status")
  /\ UNCHANGED <<apis, crVars, scalerVars>>

(* _llm_isvc_status and _workload_status                                   *)
ServiceStatus ==
  CASE cr = "present" /\ verdict = "serving" -> "active"
    [] cr = "present" /\ verdict = "failed"  -> "blocked"
    [] OTHER -> "waiting"

GetStatus ==
  /\ pc = "status" /\ "kserve" \in apis
  /\ workloadSt' = ServiceStatus
  /\ pc' = IF "auto" \in config THEN "keda" ELSE "dropDecode"
  /\ keep' = IF "auto" \in config THEN Workers(config) ELSE {}
  /\ scalingSt' = "active"
  /\ UNCHANGED <<token, unitVars, inputVars, clusterVars>>

(* The error of an API that is not served is no ApiError.                  *)
GetStatusUnserved ==
  /\ pc = "status" /\ "kserve" \notin apis
  /\ Raise
  /\ UNCHANGED clusterVars

-----------------------------------------------------------------------------
(* _reconcile_autoscaling.                                                 *)

(* A bug to catch: without KEDA or Prometheus no ScaledObject is kept.     *)
ScalingUnreadyDrops(r) ==
  /\ dep[r] # "ready"
  /\ scalingSt' = Unready(r)
  /\ keep' = {}
  /\ pc' = "dropDecode"
  /\ UNCHANGED <<token, workloadSt, unitVars, inputVars, clusterVars>>

(* A missing relation blocks the autoscaling and its ScaledObjects go; one *)
(* that is only not ready keeps them.                                      *)
ScalingUnready(r) ==
  /\ dep[r] # "ready"
  /\ scalingSt' = Unready(r)
  /\ keep' = IF dep[r] = "missing" THEN {} ELSE keep
  /\ pc' = "dropDecode"
  /\ UNCHANGED <<token, workloadSt, unitVars, inputVars, clusterVars>>

ReadKeda ==
  /\ pc = "keda"
  /\ \/ dep["keda"] = "ready" /\ Continue("prometheus") /\ UNCHANGED clusterVars
     \/ ScalingUnready("keda")

ReadPrometheus ==
  /\ pc = "prometheus"
  /\ \/ dep["prometheus-api"] = "ready" /\ Continue("applyDecode") /\ UNCHANGED clusterVars
     \/ ScalingUnready("prometheus-api")

ScalerRole(p) == IF p \in {"applyDecode", "dropDecode", "rmDecode"} THEN "decode" ELSE "prefill"

(* scaled_objects_handler.apply: one ScaledObject after the other.         *)
ApplyScaler(p, next) ==
  /\ pc = p /\ "keda" \in apis
  /\ scaler' = scaler \cup {ScalerRole(p)}
  /\ Continue(next)
  /\ UNCHANGED <<apis, crVars, secretVars, grown>>

(* A bug to catch: the prefill workers get no ScaledObject.                *)
ApplyDecodeOnly == ApplyScaler("applyDecode", "scalerStatus")

ApplyScaledObjects ==
  \/ ApplyScaler("applyDecode", IF "prefill" \in config THEN "applyPrefill" ELSE "scalerStatus")
  \/ ApplyScaler("applyPrefill", "scalerStatus")

ApplyScaledObjectsUnserved ==
  /\ pc \in {"applyDecode", "applyPrefill"} /\ "keda" \notin apis
  /\ Raise
  /\ UNCHANGED clusterVars

(* An ApiError while applying them is KEDA's admission webhook: 4xx blocks *)
(* and 5xx waits.  _scaled_objects_status: KEDA reports one not ready.     *)
ScalerRejected ==
  /\ pc \in {"applyDecode", "applyPrefill", "scalerStatus"} /\ "keda" \in Faults
  /\ scalingSt' \in IF pc = "scalerStatus" THEN {"waiting"} ELSE {"blocked", "waiting"}
  /\ pc' = "dropDecode"
  /\ UNCHANGED <<token, workloadSt, keep, unitVars, inputVars, clusterVars>>

(* All of the current ones are ready.  If one is gone, reading it is a 404 *)
(* nobody catches.                                                         *)
ScaledObjectsStatus ==
  /\ pc = "scalerStatus"
  /\ \/ keep \subseteq scaler /\ Continue("dropDecode")
     \/ ~(keep \subseteq scaler) /\ Raise
  /\ UNCHANGED clusterVars

(* Deleting a ScaledObject gives its Deployment back the replicas KEDA     *)
(* found (restoreToOriginalReplicaCount).  A ScaledObject, or an API       *)
(* group, that is not there is as good as deleted.                         *)
DeleteScaler(role) ==
  /\ scaler' = scaler \ {role}
  /\ grown' = IF role \in scaler THEN grown \ {role} ELSE grown
  /\ UNCHANGED <<apis, crVars, secretVars>>

(* A bug to catch: only the workers of the current configuration are       *)
(* looked at.                                                              *)
DropCurrentOnly(p, next) ==
  /\ pc = p
  /\ IF ScalerRole(p) \in keep \/ ScalerRole(p) \notin Workers(config)
       THEN UNCHANGED clusterVars
       ELSE DeleteScaler(ScalerRole(p))
  /\ Continue(next)

DropScaler(p, next) ==
  /\ pc = p
  /\ IF ScalerRole(p) \in keep THEN UNCHANGED clusterVars ELSE DeleteScaler(ScalerRole(p))
  /\ Continue(next)

DropScaledObjects ==
  DropScaler("dropDecode", "dropPrefill") \/ DropScaler("dropPrefill", "combine")

(* A bug to catch: autoscaling problems come first.                        *)
ScalingFirst(workload, scaling) == IF scaling # "active" THEN scaling ELSE workload

(* _combine_statuses                                                       *)
Combined(workload, scaling) == IF workload # "active" THEN workload ELSE scaling

CombineStatuses ==
  /\ pc = "combine"
  /\ ErrorWithStatus(Combined(workloadSt, scalingSt))
  /\ UNCHANGED clusterVars

-----------------------------------------------------------------------------
(* Calls that raise, and hooks that are killed.                            *)

(* The Kubernetes calls of _on_event whose ApiError nothing catches.       *)
HookRaises ==
  /\ "api" \in Faults
  /\ pc \in {"capacity", "applySecret", "applyCR", "prune", "status",
             "scalerStatus", "dropDecode", "dropPrefill"}
  /\ Raise
  /\ UNCHANGED clusterVars

HookKilled ==
  /\ pc # "idle" /\ "crash" \in Faults
  /\ Raise
  /\ UNCHANGED clusterVars

-----------------------------------------------------------------------------
(* _on_remove.  Its relations break first; the remove hook is then the     *)
(* last one, retried until it succeeds.                                    *)

Teardown ==
  /\ life = "alive" /\ "teardown" \in Faults
  /\ life' = "dying"
  /\ UNCHANGED <<hookVars, status, outcome, inputVars, clusterVars>>

RelationBroken(r) ==
  /\ life = "dying" /\ dep[r] # "missing"
  /\ dep' = [dep EXCEPT ![r] = "missing"]
  /\ UNCHANGED <<hookVars, unitVars, config, secret, nodes, clusterVars>>

StartRemove ==
  /\ pc = "idle" /\ life \in {"dying", "removing"}
  /\ \A r \in Relations : dep[r] = "missing"
  /\ life' = "removing" /\ status' = "maintenance"
  /\ pc' = "rmDecode"
  /\ UNCHANGED <<token, workloadSt, scalingSt, keep, outcome, inputVars, clusterVars>>

RemoveScaler(p, next) ==
  /\ pc = p
  /\ DeleteScaler(ScalerRole(p))
  /\ Continue(next)

(* A bug to catch: the service goes while KEDA still scales its prefill    *)
(* workers.                                                                *)
RemoveDecodeScaler == RemoveScaler("rmDecode", "rmCR")

RemoveScaledObjects ==
  RemoveScaler("rmDecode", "rmPrefill") \/ RemoveScaler("rmPrefill", "rmCR")

(* A bug to catch: the removal waits for a deletion it did not request.    *)
WaitOnly ==
  /\ pc = "rmCR"
  /\ Continue("rmS3")
  /\ UNCHANGED clusterVars

RemoveService ==
  /\ pc = "rmCR"
  /\ cr' = IF cr = "present" THEN "terminating" ELSE cr
  /\ Continue("rmS3")
  /\ UNCHANGED <<apis, spec, verdict, secretVars, scalerVars>>

(* A bug to catch: only the Secret of the configured model is deleted.     *)
RemoveUsedSecrets ==
  /\ \/ pc = "rmS3" /\ Continue("rmHF") /\ creds' = creds \ (IF "s3" \in config THEN {"s3"} ELSE {"hf"}) /\ UNCHANGED hfToken
     \/ pc = "rmHF" /\ Continue("rmWait") /\ UNCHANGED secretVars
  /\ UNCHANGED <<apis, crVars, scalerVars>>

RemoveSecrets ==
  /\ \/ pc = "rmS3" /\ Continue("rmHF") /\ creds' = creds \ {"s3"} /\ UNCHANGED hfToken
     \/ pc = "rmHF" /\ Continue("rmWait") /\ creds' = creds \ {"hf"} /\ hfToken' = NoToken
  /\ UNCHANGED <<apis, crVars, scalerVars>>

(* _ensure_resource_is_deleted gets its 404: "K8s resources removed".      *)
ServiceGone ==
  /\ pc = "rmWait" /\ cr = "absent" /\ "kserve" \in apis
  /\ pc' = "idle" /\ life' = "gone" /\ outcome' = "ok"
  /\ UNCHANGED <<token, workloadSt, scalingSt, keep, status, inputVars, clusterVars>>

(* It retries on anything else until DELETION_TIMEOUT and then raises what *)
(* it last got: an API group that is not served answers with an            *)
(* HTTPStatusError, which is not the ApiError it looks for.                *)
WaitUnserved ==
  /\ pc = "rmWait" /\ "kserve" \notin apis
  /\ Raise
  /\ UNCHANGED clusterVars

WaitTimesOut ==
  /\ pc = "rmWait" /\ cr # "absent" /\ "timeout" \in Faults
  /\ Raise
  /\ UNCHANGED clusterVars

RemoveRaises ==
  /\ "api" \in Faults /\ pc \in RemovePCs
  /\ Raise
  /\ UNCHANGED clusterVars

-----------------------------------------------------------------------------
(* Kubernetes, KServe and KEDA.                                            *)

Serve(api) ==
  /\ api \notin apis
  /\ apis' = apis \cup {api}
  /\ UNCHANGED <<hookVars, unitVars, inputVars, crVars, secretVars, scalerVars>>

(* A CRD that is removed takes its objects with it.                        *)
KServeRemoved ==
  /\ "kserve" \in apis /\ "llmisvc" \in Faults
  /\ apis' = apis \ {"kserve"}
  /\ cr' = "absent" /\ spec' = NoSpec /\ verdict' = "none"
  /\ UNCHANGED <<hookVars, unitVars, inputVars, secretVars, scalerVars>>

KedaRemoved ==
  /\ "keda" \in apis /\ "keda" \in Faults
  /\ apis' = apis \ {"keda"}
  /\ scaler' = {}
  /\ UNCHANGED <<hookVars, unitVars, inputVars, crVars, secretVars, grown>>

KServeReports ==
  /\ cr = "present" /\ verdict \in {"none", "starting"}
  /\ verdict' \in {"starting", "serving"} \ {verdict}
  /\ UNCHANGED <<hookVars, unitVars, inputVars, apis, cr, spec, secretVars, scalerVars>>

KServeReportsFailure ==
  /\ cr = "present" /\ "workload" \in Faults
  /\ verdict' \in {"starting", "serving", "failed"} \ {verdict}
  /\ UNCHANGED <<hookVars, unitVars, inputVars, apis, cr, spec, secretVars, scalerVars>>

(* KServe tears the workload down and removes its finalizer.               *)
KServeFinalizes ==
  /\ cr = "terminating"
  /\ cr' = "absent" /\ spec' = NoSpec /\ verdict' = "none"
  /\ UNCHANGED <<hookVars, unitVars, inputVars, apis, secretVars, scalerVars>>

(* Bound: the workers of one Deployment are scaled up at a time.           *)
KedaScalesUp(role) ==
  /\ role \in scaler /\ grown = {} /\ "load" \in Faults
  /\ grown' = {role}
  /\ UNCHANGED <<hookVars, unitVars, inputVars, apis, crVars, secretVars, scaler>>

-----------------------------------------------------------------------------
(* Juju, the operator and the other charms.                                *)

RelationReady(r) ==
  /\ life = "alive" /\ r \in Offered /\ dep[r] # "ready"
  /\ dep' = [dep EXCEPT ![r] = "ready"]
  /\ UNCHANGED <<hookVars, unitVars, config, secret, nodes, clusterVars>>

RelationChanges(r) ==
  /\ life = "alive" /\ r \in Offered
  /\ IF r \in Scaling THEN "scalers" \in Faults ELSE "depend" \in Faults
  /\ \E s \in {"missing", "notready"} \ {dep[r]} : dep' = [dep EXCEPT ![r] = s]
  /\ UNCHANGED <<hookVars, unitVars, config, secret, nodes, clusterVars>>

SecretGranted(t) ==
  /\ secret = NoToken
  /\ secret' = t
  /\ UNCHANGED <<hookVars, unitVars, config, dep, nodes, clusterVars>>

(* Revoked, or a new revision: one with another token, or without one.     *)
SecretChanges ==
  /\ "secret" \in Faults /\ secret # NoToken
  /\ secret' \in (Tokens \cup {NoToken}) \ {secret}
  /\ UNCHANGED <<hookVars, unitVars, config, dep, nodes, clusterVars>>

ConfigChanges ==
  /\ pc = "idle" /\ life = "alive" /\ "config" \in Faults
  /\ config' \in Configs \ {config}
  /\ UNCHANGED <<hookVars, unitVars, dep, secret, nodes, clusterVars>>

NodesAdded ==
  /\ nodes = "few"
  /\ nodes' = "enough"
  /\ UNCHANGED <<hookVars, unitVars, config, dep, secret, clusterVars>>

NodesLost ==
  /\ nodes = "enough" /\ "capacity" \in Faults
  /\ nodes' = "few"
  /\ UNCHANGED <<hookVars, unitVars, config, dep, secret, clusterVars>>

-----------------------------------------------------------------------------
Reconcile ==
  \/ StartHook \/ Validate \/ ValidateFails \/ ValidateToken \/ ValidateTokenFails
  \/ ValidateS3 \/ ValidateS3Fails \/ ValidateCapacity \/ ValidateCapacityFails
  \/ Render \/ ApplySecret \/ ApplyService \/ ApplyServiceUnserved \/ PruneToken
  \/ GetStatus \/ GetStatusUnserved
  \/ ReadKeda \/ ReadPrometheus \/ ApplyScaledObjects \/ ApplyScaledObjectsUnserved
  \/ ScaledObjectsStatus \/ DropScaledObjects \/ CombineStatuses

Remove ==
  \/ StartRemove \/ RemoveScaledObjects \/ RemoveService \/ RemoveSecrets
  \/ ServiceGone \/ WaitUnserved

(* What Kubernetes, KServe and Juju do unasked.                            *)
Settle ==
  \/ KServeReports \/ NodesAdded
  \/ \E r \in Relations : RelationReady(r)
  \/ \E t \in Tokens : SecretGranted(t)
  \/ \E api \in {"kserve", "keda"} : Serve(api)

Disturb ==
  \/ HookRaises \/ HookKilled \/ WaitTimesOut \/ RemoveRaises \/ ScalerRejected \/ Teardown
  \/ KServeRemoved \/ KedaRemoved \/ KServeReportsFailure
  \/ \E role \in Roles : KedaScalesUp(role)
  \/ \E r \in Relations : RelationChanges(r)
  \/ SecretChanges \/ ConfigChanges \/ NodesLost

Next ==
  \/ Reconcile \/ Remove \/ Settle \/ Disturb
  \/ KServeFinalizes \/ \E r \in Relations : RelationBroken(r)

Spec == Init /\ [][Next]_vars

(* Hooks keep being dispatched (update-status) and run to their end; a     *)
(* dying application loses its relations, and then the remove hook runs;   *)
(* a KServe that is installed finishes deletions.                          *)
Fairness ==
  /\ WF_vars(Reconcile)
  /\ WF_vars(Remove) /\ SF_vars(StartRemove)
  /\ WF_vars(\E r \in Relations : RelationBroken(r))
  /\ WF_vars(KServeFinalizes)

FairSpec == Spec /\ Fairness

-----------------------------------------------------------------------------
(* Safety.                                                                 *)

(* A service that exists never mounts a Secret that does not: not between  *)
(* the calls of a hook, not after one that failed or was killed half-way,  *)
(* not when the model moves between hf://, gated hf:// and s3://, nor when *)
(* the token disappears.  KServe may start a pod of it at any moment.      *)
SecretsInPlace == cr = "present" => spec.mounts \subseteq creds

(* Active: nobody scales workers the service fixes, or workers it no       *)
(* longer has.  Whatever hooks failed, were killed or returned early since  *)
(* autoscaling or prefill was switched off.                                *)
OneScaler ==
  pc = "idle" /\ outcome = "ok" /\ status = "active" /\ cr = "present" =>
    IF spec.replicas = "fixed" THEN scaler = {} ELSE scaler \subseteq spec.workers

(* "Delete everything the charm created": a unit that is gone leaves no    *)
(* ScaledObject, no service and no credentials, whatever the model was     *)
(* configured to be when the removal started.                              *)
NothingLeft == life = "gone" => cr = "absent" /\ creds = {} /\ scaler = {}

(* The service is taken down only when KEDA no longer scales its workers,  *)
(* and no credentials go while the service can still start a pod.          *)
TeardownOrder ==
  [][cr = "present" /\ cr' = "terminating" => scaler = {} /\ spec.mounts \subseteq creds]_vars

MayReset(role) ==
  life = "removing" \/ "auto" \notin config \/ role \notin Workers(config) \/ scalingSt = "blocked"

(* Workers KEDA has scaled up are only reset when nobody asks for their    *)
(* autoscaling any more, or when the status says that it is blocked: a     *)
(* dependency that is only not ready for a while, or a hook that fails     *)
(* half-way, resets nothing.  A removal takes everything down.             *)
KeepsReplicas == [][\A role \in grown \ grown' : MayReset(role)]_vars

-----------------------------------------------------------------------------
(* Liveness, once nothing goes wrong any more.                             *)

Calm == <>[][~Disturb]_vars

(* What the charm needs from others to deploy the configured model.        *)
Deployable ==
  /\ life = "alive" /\ "invalid" \notin config /\ nodes = "enough" /\ "kserve" \in apis
  /\ dep["kserve-llmisvc"] = "ready"
  /\ "token" \in config => "s3" \notin config /\ secret # NoToken
  /\ "s3" \in config => dep["s3-credentials"] = "ready"

Deployed ==
  /\ cr = "present"
  /\ "s3" \in spec.mounts <=> "s3" \in config
  /\ "hf" \in spec.mounts <=> "token" \in config
  /\ hfToken = IF "token" \in config THEN secret ELSE NoToken
  /\ spec.replicas = IF "auto" \in config THEN "free" ELSE "fixed"
  /\ spec.workers = Workers(config)

(* Once the model can be deployed it is, as configured and with the        *)
(* current token, whatever the state KEDA and Prometheus are in.           *)
Deploys == Calm /\ <>[]Deployable => <>[]Deployed

Scalable == "auto" \in config => "keda" \in apis /\ \A r \in Scaling : dep[r] = "ready"

Scaled == scaler = IF "auto" \in config THEN Workers(config) ELSE {}

(* With KEDA and Prometheus there, exactly the configured workers get      *)
(* their ScaledObjects, and a serving model is Active.                     *)
Scales ==
  Calm /\ <>[](Deployable /\ Scalable) =>
    <>[](Scaled /\ (pc = "idle" /\ verdict = "serving" => status = "active"))

(* Whatever KEDA and Prometheus do, a failing model ends up reported as    *)
(* failing, never as a problem of its autoscaling.                         *)
FailureShows ==
  Calm /\ <>[](Deployable /\ verdict = "failed") =>
    <>[](pc = "idle" => status = "blocked" \/ outcome = "error")

(* A removal ends if, from some moment on, nothing goes wrong and KServe   *)
(* stays installed.                                                        *)
RemovalCompletes ==
  Calm /\ <>[]("kserve" \in apis \/ life = "gone") /\ <>(life = "dying") => <>(life = "gone")

(* The docstring of _delete_resource: "cleanup is idempotent and robust to *)
(* kserve-llmisvc or KEDA not being installed".  Not so: the wait for the  *)
(* service fails for as long as its API group is not served.               *)
RemovalIsRobust ==
  <>[][~(HookRaises \/ HookKilled \/ RemoveRaises)]_vars /\ <>(life = "dying") => <>(life = "gone")
=============================================================================
