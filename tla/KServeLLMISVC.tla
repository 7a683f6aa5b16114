--------------------------- MODULE KServeLLMISVC ---------------------------
(***************************************************************************)
(* One unit of the kserve-llmisvc charm                                    *)
(* (charms/kserve-llmisvc/src/charm.py), the Kubernetes objects it         *)
(* manages, its workload container and the readiness it publishes on the   *)
(* kserve-llmisvc relation.                                                *)
(*                                                                         *)
(* Juju runs the hooks of a unit one at a time, but a hook is many calls   *)
(* to Juju, Kubernetes and Pebble, and everything outside the charm goes   *)
(* on between two of them.  pc is the next call of the running hook; each  *)
(* action below is one call, with the return and the raise that follow it. *)
(*                                                                         *)
(* Simplifications.                                                        *)
(*  - The terraform module deploys one unit (units = 1); so does this      *)
(*    module.  Leadership of that unit may still come and go.              *)
(*  - Every observed event runs the same handler and every unit gets       *)
(*    update-status forever, so a hook may start whenever none runs.       *)
(*  - A hook reads the remote application's relation data from the         *)
(*    snapshot Juju takes, once, in its first call.                        *)
(*  - A certificate, its key and its CA are one value of Certs; key and    *)
(*    certificate files match when they hold the same value.               *)
(*  - The metrics proxy only matters through the outcome of its layer.     *)
(***************************************************************************)
EXTENDS Naturals, FiniteSets

CONSTANTS
  Certs,      \* the certificates gen_certs() may generate
  NoCert,     \* no certificate: never generated, or lost with the pod
  Faults      \* which misfortunes may happen: see AllFaults

AllFaults == {"api",        \* the Kubernetes API refuses a call
              "pebble",     \* Pebble refuses a push, a replan or a restart
              "container",  \* the workload container is restarted or unreachable
              "pod",        \* the whole pod, charm container included, is replaced
              "unready",    \* the pod leaves the endpoints of its Service
              "timeout",    \* a deletion outlasts LLMISVC_DELETION_TIMEOUT
              "depend",     \* a required relation is removed or reports not ready
              "config",     \* custom_images is set to something unusable
              "relation",   \* the kserve-llmisvc relation is removed
              "leader",     \* leadership is lost
              "teardown"}   \* the application is removed

ASSUME CertsAssumption  == NoCert \notin Certs
ASSUME FaultsAssumption == Faults \subseteq AllFaults

VARIABLES
  pc,         \* the next call of the running hook, "idle" between hooks
  cert,       \* the certificate this hook works with (StoredState in memory)
  staged,     \* ready as relation-set by this hook, flushed when it ends
  status,     \* the unit's workload status
  failed,     \* the last hook ended in an uncaught exception
  stored,     \* the StoredState committed by the last successful hook
  life,       \* "alive", then "dying", "removing" and "gone" under teardown
  leader,     \* the unit is the leader
  dep,        \* what each required relation says
  images,     \* custom_images parses to a dictionary
  related,    \* the kserve-llmisvc relation exists
  published,  \* ready in the application databag of that relation
  reachable,  \* can_connect() of the llmisvc-controller container
  layer,      \* the controller's service is in the container's Pebble plan
  files,      \* the certificate files the controller reads, in the container
  served,     \* the certificate the running controller serves, NoCert if it is down
  podReady,   \* the webhook Service has this pod as an endpoint
  crd,        \* the LLMInferenceService and LLMInferenceServiceConfig CRDs
  base,       \* the webhook configurations, the webhook Service and the RBAC
  caBundle,   \* the CA in the webhook configurations
  configs,    \* the LLMInferenceServiceConfigs exist
  crs         \* some LLMInferenceService, with the controller's finalizer, exists

hookVars    == <<pc, cert, staged>>
unitVars    == <<status, failed, stored, life, leader>>
relVars     == <<dep, images, related, published>>
podVars     == <<reachable, layer, files, served, podReady>>
clusterVars == <<crd, base, caBundle, configs, crs>>
vars == <<hookVars, unitVars, relVars, podVars, clusterVars>>

-----------------------------------------------------------------------------
(* States.                                                                 *)

Required  == {"kserve-controller", "lws-controller"}
CertFiles == {"tls.key", "tls.crt", "ca.crt"}
ServerFiles == CertFiles \ {"ca.crt"}   \* what the controller reads

ReconcilePCs == {"validate", "base", "upload", "tls.key", "tls.crt", "ca.crt",
                 "layer", "restart", "proxy", "configs"}
RemovePCs    == {"rmConfigs", "rmCrd", "rmCrdWait", "rmBase", "rmBaseWait", "rmDone"}

FlagsOK ==
  /\ failed \in BOOLEAN
  /\ leader \in BOOLEAN
  /\ images \in BOOLEAN
  /\ related \in BOOLEAN
  /\ reachable \in BOOLEAN
  /\ layer \in BOOLEAN
  /\ podReady \in BOOLEAN
  /\ configs \in BOOLEAN
  /\ crs \in BOOLEAN

CertsOK ==
  /\ cert \in Certs \cup {NoCert}
  /\ stored \in Certs \cup {NoCert}
  /\ served \in Certs \cup {NoCert}
  /\ caBundle \in Certs \cup {NoCert}
  /\ files \in [ServerFiles -> Certs \cup {NoCert}]

StatesOK ==
  /\ pc \in ReconcilePCs \cup RemovePCs \cup {"idle", "commit"}
  /\ staged \in {"none", "true", "false"}
  /\ status \in {"unknown", "maintenance", "blocked", "waiting", "active"}
  /\ life \in {"alive", "dying", "removing", "gone"}
  /\ dep \in [Required -> {"missing", "notready", "ready"}]
  /\ published \in {"unset", "true", "false"}
  /\ crd \in {"absent", "present", "terminating"}
  /\ base \in {"absent", "present", "terminating"}

TypeOK == FlagsOK /\ CertsOK /\ StatesOK

Init ==
  /\ pc = "idle" /\ cert = NoCert /\ staged = "none"
  /\ status = "unknown" /\ failed = FALSE /\ stored = NoCert
  /\ life = "alive" /\ leader = FALSE
  /\ dep = [r \in Required |-> "missing"]
  /\ images = TRUE /\ related = FALSE /\ published = "unset"
  /\ reachable = FALSE /\ layer = FALSE
  /\ files = [f \in ServerFiles |-> NoCert]
  /\ served = NoCert /\ podReady = FALSE
  /\ crd = "absent" /\ base = "absent" /\ caBundle = NoCert
  /\ configs = FALSE /\ crs = FALSE

-----------------------------------------------------------------------------
(* The certificate the controller comes up with when its process starts:   *)
(* it needs a key and a certificate that belong together.                  *)
Load(f) == IF f["tls.key"] = f["tls.crt"] THEN f["tls.crt"] ELSE NoCert

(* A bug to catch: webhooks with failurePolicy Ignore.                     *)
TrustWhoeverListens == podReady /\ served # NoCert

(* The API server gets an answer it trusts from the webhook server: the    *)
(* call reaches a ready endpoint, something listens there, and its         *)
(* certificate is signed by the CA in the webhook configurations, whose    *)
(* failurePolicy is Fail.                                                  *)
Listening      == podReady /\ served # NoCert
WebhookTrusted == Listening /\ served = caBundle
AdmitsConfigs  == base = "present" => WebhookTrusted

(* Certificates that nothing knows yet: what a new key pair is.            *)
Fresh == Certs \ {caBundle, served, files["tls.key"], files["tls.crt"]}

(* A bug to catch: a unit that may not publish resets what it staged.      *)
PublishOrUnset(ready) == IF leader /\ related THEN ready ELSE "unset"

(* _publish_llmisvc_ready_data: only the leader writes.                    *)
Publish(ready) == IF leader /\ related THEN ready ELSE staged

(* A bug to catch: the status changes and readiness stays published.       *)
ErrorKeepsReadiness(s) ==
  /\ status' = s
  /\ pc' = "commit"
  /\ UNCHANGED <<cert, staged, failed, stored, life, leader>>

(* except ErrorWithStatus: set the status, withdraw readiness, return.     *)
ErrorWithStatus(s) ==
  /\ status' = s
  /\ staged' = Publish("false")
  /\ pc' = "commit"
  /\ UNCHANGED <<cert, failed, stored, life, leader>>

(* An uncaught exception ends the hook.  The StoredState of the hook is    *)
(* not committed.  Whether Juju keeps what it relation-set is not the      *)
(* charm's to decide: both are allowed.                                    *)
Raise(s) ==
  /\ pc' = "idle" /\ cert' = NoCert /\ staged' = "none"
  /\ failed' = TRUE
  /\ published' \in {published, IF s = "none" THEN published ELSE s}
  /\ UNCHANGED <<status, stored, life, leader, dep, images, related>>

Continue(next) ==
  /\ pc' = next
  /\ UNCHANGED <<cert, staged, unitVars, relVars>>

-----------------------------------------------------------------------------
(* Reconcile: __init__ and _on_event.                                      *)

(* __init__ and _gen_certs_if_missing: use the stored certificate, or      *)
(* generate one, which stays in memory until the hook ends.                *)
StartHook ==
  /\ pc = "idle" /\ life \in {"alive", "dying"}
  /\ cert' \in IF stored = NoCert THEN Fresh ELSE {stored}
  /\ pc' = "validate"
  /\ UNCHANGED <<staged, unitVars, relVars, podVars, clusterVars>>

(* _validate_kserve_controller_relation, _validate_lws_controller_relation *)
(* and parse_images_config, in that order: a relation that is missing      *)
(* blocks, one that is not ready makes the charm wait.                     *)
FirstUnmet(r) ==
  /\ dep[r] # "ready"
  /\ r = "lws-controller" => dep["kserve-controller"] = "ready"

PrerequisitesMet == images /\ \A r \in Required : dep[r] = "ready"

ValidateFails ==
  /\ pc = "validate" /\ ~PrerequisitesMet
  /\ \/ \E r \in Required : /\ FirstUnmet(r)
                            /\ ErrorWithStatus(IF dep[r] = "missing" THEN "blocked" ELSE "waiting")
     \/ /\ \A r \in Required : dep[r] = "ready"
        /\ ErrorWithStatus("blocked")
  /\ UNCHANGED <<relVars, podVars, clusterVars>>

Validate ==
  /\ pc = "validate" /\ PrerequisitesMet
  /\ status' = "maintenance"
  /\ pc' = "base"
  /\ UNCHANGED <<cert, staged, failed, stored, life, leader, relVars, podVars, clusterVars>>

(* base_resource_handler.apply: CRDs, RBAC, webhook configurations, with   *)
(* this hook's CA.                                                         *)
ApplyBase ==
  /\ pc = "base"
  /\ crd' = "present" /\ base' = "present" /\ caBundle' = cert
  /\ Continue("upload")
  /\ UNCHANGED <<podVars, configs, crs>>

(* _upload_certs_to_container: not reachable sets a status and goes on;    *)
(* otherwise three pushes, one file each.                                  *)
SkipUpload ==
  /\ pc = "upload" /\ ~reachable
  /\ status' = "maintenance"
  /\ pc' = "layer"
  /\ UNCHANGED <<cert, staged, failed, stored, life, leader, relVars, podVars, clusterVars>>

StartUpload ==
  /\ pc = "upload" /\ reachable
  /\ Continue("tls.key")
  /\ UNCHANGED <<podVars, clusterVars>>

NextPush == [f \in CertFiles |-> CASE f = "tls.key" -> "tls.crt"
                                   [] f = "tls.crt" -> "ca.crt"
                                   [] f = "ca.crt"  -> "layer"]

Push(f) ==
  /\ pc = f /\ reachable
  /\ files' = [g \in ServerFiles |-> IF g = f THEN cert ELSE files[g]]
  /\ Continue(NextPush[f])
  /\ UNCHANGED <<reachable, layer, served, podReady, clusterVars>>

(* update_layer on the controller container: a new plan is replanned,      *)
(* which starts the service; an unreachable container is Maintenance.      *)
UpdateLayer ==
  /\ pc = "layer" /\ reachable
  /\ layer' = TRUE
  /\ served' = IF layer THEN served ELSE Load(files)
  /\ Continue("restart")
  /\ UNCHANGED <<reachable, files, podReady, clusterVars>>

UpdateLayerUnreachable ==
  /\ pc = "layer" /\ ~reachable
  /\ ErrorWithStatus("maintenance")
  /\ UNCHANGED <<relVars, podVars, clusterVars>>

(* A bug to catch: a running controller is never restarted.                *)
RestartForgotten ==
  /\ pc = "restart"
  /\ Continue("proxy")
  /\ UNCHANGED <<podVars, clusterVars>>

(* _restart_controller_service: skipped when the container cannot be       *)
(* reached or does not know the service.                                   *)
RestartControllerService ==
  /\ pc = "restart"
  /\ served' = IF reachable /\ layer THEN Load(files) ELSE served
  /\ Continue("proxy")
  /\ UNCHANGED <<reachable, layer, files, podReady, clusterVars>>

(* The metrics-proxy layer: skipped when its container is unreachable;     *)
(* unreachable only after the check, update_layer reports Maintenance.     *)
UpdateProxyLayer ==
  /\ pc = "proxy"
  /\ Continue("configs")
  /\ UNCHANGED <<podVars, clusterVars>>

UpdateProxyLayerUnreachable ==
  /\ pc = "proxy" /\ "container" \in Faults
  /\ ErrorWithStatus("maintenance")
  /\ UNCHANGED <<relVars, podVars, clusterVars>>

(* A bug to catch: ready is published before the status says so.           *)
ReadyBeforeActive ==
  /\ pc = "configs" /\ WebhookTrusted
  /\ configs' = TRUE
  /\ staged' = Publish("true")
  /\ pc' = "commit"
  /\ UNCHANGED <<cert, unitVars, relVars, podVars, crd, base, caBundle, crs>>

(* scheduler_config_resource_handler.apply goes through the webhook.       *)
ApplyConfigs ==
  /\ pc = "configs" /\ WebhookTrusted
  /\ configs' = TRUE
  /\ status' = "active"
  /\ staged' = Publish("true")
  /\ pc' = "commit"
  /\ UNCHANGED <<cert, failed, stored, life, leader, relVars, podVars, crd, base, caBundle, crs>>

(* "connect: " and "no endpoints available": try again at a later event.   *)
ApplyConfigsTooEarly ==
  /\ pc = "configs" /\ ~Listening
  /\ ErrorWithStatus("maintenance")
  /\ UNCHANGED <<relVars, podVars, clusterVars>>

(* Any other ApiError becomes a GenericCharmRuntimeError, which neither    *)
(* except clause catches: nothing is published.                            *)
ApplyConfigsUntrusted ==
  /\ pc = "configs" /\ Listening /\ ~WebhookTrusted
  /\ Raise(staged)
  /\ UNCHANGED <<podVars, clusterVars>>

(* The handler returned: the framework commits StoredState and Juju        *)
(* flushes the relation writes.                                            *)
CommitHook ==
  /\ pc = "commit"
  /\ pc' = "idle" /\ cert' = NoCert /\ staged' = "none"
  /\ stored' = cert /\ failed' = FALSE
  /\ published' = IF staged = "none" THEN published ELSE staged
  /\ UNCHANGED <<status, life, leader, dep, images, related, podVars, clusterVars>>

-----------------------------------------------------------------------------
(* Calls that raise.                                                       *)

(* except ApiError: some of the base objects may have been applied;        *)
(* readiness is withdrawn and the exception goes on.                       *)
ApplyBaseFails ==
  /\ pc = "base" /\ "api" \in Faults
  /\ \/ UNCHANGED <<crd, base, caBundle>>
     \/ crd' = "present" /\ UNCHANGED <<base, caBundle>>
     \/ crd' = "present" /\ base' = "present" /\ caBundle' = cert
  /\ Raise(Publish("false"))
  /\ UNCHANGED <<podVars, configs, crs>>

(* Calls that raise a GenericCharmRuntimeError, which no except clause     *)
(* turns into a status, and change nothing: a push (ProtocolError,         *)
(* PathError), the metrics-proxy replan, the configs.                      *)
HookRaises ==
  /\ \/ pc \in CertFiles /\ ("pebble" \in Faults \/ ~reachable)
     \/ pc = "proxy" /\ "pebble" \in Faults
     \/ pc = "configs" /\ "api" \in Faults
  /\ Raise(staged)
  /\ UNCHANGED <<podVars, clusterVars>>

(* A replan or a restart that fails leaves the service down:               *)
(* GenericCharmRuntimeError.                                               *)
ServiceStartFails ==
  /\ "pebble" \in Faults /\ reachable
  /\ \/ pc = "layer" /\ ~layer /\ layer' = TRUE
     \/ pc = "restart" /\ layer /\ layer' = layer
  /\ served' = NoCert
  /\ Raise(staged)
  /\ UNCHANGED <<reachable, files, podReady, clusterVars>>

-----------------------------------------------------------------------------
(* Remove: _on_remove.  Removing the application breaks every relation     *)
(* first; the remove hook is then the last one, retried until it succeeds. *)

Teardown ==
  /\ life = "alive" /\ "teardown" \in Faults
  /\ life' = "dying"
  /\ dep' = [r \in Required |-> "missing"]
  /\ related' = FALSE /\ published' = "unset" /\ staged' = "none"
  /\ UNCHANGED <<pc, cert, status, failed, stored, leader, images, podVars, clusterVars>>

(* _sync_handler_resource_types: without its CRD the scheduler handler     *)
(* renders nothing and its deletion is skipped.                            *)
StartRemove ==
  /\ pc = "idle" /\ life \in {"dying", "removing"}
  /\ life' = "removing"
  /\ status' = "maintenance"
  /\ cert' \in IF stored = NoCert THEN Fresh ELSE {stored}
  /\ pc' = IF crd = "absent" THEN "rmCrd" ELSE "rmConfigs"
  /\ UNCHANGED <<staged, failed, stored, leader, relVars, podVars, clusterVars>>

(* scheduler_config_resource_handler.delete: lists the configs, which is   *)
(* a 404 once the CRD is gone, and deletes them through the webhook.       *)
DeleteConfigs ==
  /\ pc = "rmConfigs" /\ crd # "absent"
  /\ configs => AdmitsConfigs
  /\ configs' = FALSE
  /\ Continue("rmCrd")
  /\ UNCHANGED <<podVars, crd, base, caBundle, crs>>

DeleteConfigsRefused ==
  /\ pc = "rmConfigs" /\ crd # "absent"
  /\ configs /\ ~AdmitsConfigs
  /\ Raise(staged)
  /\ UNCHANGED <<podVars, clusterVars>>

(* Once the CRD is gone: a 404 that is an ApiError is swallowed, and the   *)
(* rest of the removal skipped; an API that is not served answers with     *)
(* another error, and the hook is run again.                               *)
DeleteConfigsNotFound ==
  /\ pc = "rmConfigs" /\ crd = "absent"
  /\ Continue("rmDone") \/ Raise(staged)
  /\ UNCHANGED <<podVars, clusterVars>>

(* Bugs to catch: the CRDs are deleted and not waited for, waited for and  *)
(* not deleted, or reported deleted while they are terminating.            *)
DeleteCrdsNoWait ==
  /\ pc = "rmCrd"
  /\ crd' = IF crd = "present" THEN "terminating" ELSE crd
  /\ Continue("rmBase")
  /\ UNCHANGED <<podVars, base, caBundle, configs, crs>>


CrdsTerminating ==
  /\ pc = "rmCrdWait" /\ crd # "present"
  /\ Continue("rmBase")
  /\ UNCHANGED <<podVars, clusterVars>>

(* _delete_crds_and_wait                                                   *)
DeleteCrds ==
  /\ pc = "rmCrd"
  /\ crd' = IF crd = "present" THEN "terminating" ELSE crd
  /\ Continue("rmCrdWait")
  /\ UNCHANGED <<podVars, base, caBundle, configs, crs>>

CrdsDeleted ==
  /\ pc = "rmCrdWait" /\ crd = "absent"
  /\ Continue("rmBase")
  /\ UNCHANGED <<podVars, clusterVars>>

(* _delete_base_resources_and_wait                                         *)
DeleteBase ==
  /\ pc = "rmBase"
  /\ base' = IF base = "present" THEN "terminating" ELSE base
  /\ Continue("rmBaseWait")
  /\ UNCHANGED <<podVars, crd, caBundle, configs, crs>>

BaseDeleted ==
  /\ pc = "rmBaseWait" /\ base = "absent"
  /\ Continue("rmDone")
  /\ UNCHANGED <<podVars, clusterVars>>

(* An ApiError that is not a 404, or _ensure_all_deleted giving up after   *)
(* LLMISVC_DELETION_TIMEOUT, fails the hook; Juju runs it again.           *)
RemoveRaises ==
  /\ \/ pc \in RemovePCs \ {"rmDone"} /\ "api" \in Faults
     \/ pc = "rmCrdWait" /\ crd # "absent" /\ "timeout" \in Faults
     \/ pc = "rmBaseWait" /\ base # "absent" /\ "timeout" \in Faults
  /\ Raise(staged)
  /\ UNCHANGED <<podVars, clusterVars>>

(* "K8s resources removed": Juju then deletes the pod.                     *)
RemoveDone ==
  /\ pc = "rmDone"
  /\ pc' = "idle" /\ cert' = NoCert
  /\ life' = "gone" /\ failed' = FALSE /\ stored' = NoCert
  /\ reachable' = FALSE /\ layer' = FALSE /\ served' = NoCert /\ podReady' = FALSE
  /\ files' = [f \in ServerFiles |-> NoCert]
  /\ UNCHANGED <<staged, status, leader, relVars, clusterVars>>

-----------------------------------------------------------------------------
(* The workload and the cluster, while the unit lives.                     *)

(* Pebble answers.                                                         *)
ContainerStarts ==
  /\ life # "gone" /\ ~reachable
  /\ reachable' = TRUE
  /\ UNCHANGED <<hookVars, unitVars, relVars, layer, files, served, podReady, clusterVars>>

(* A check fails, or the process exits: Pebble starts the service again,   *)
(* which reads the files again (on-check-failure: restart).                *)
PebbleRestartsService ==
  /\ life # "gone" /\ reachable /\ layer
  /\ served' = Load(files)
  /\ UNCHANGED <<hookVars, unitVars, relVars, reachable, layer, files, podReady, clusterVars>>

PodBecomesReady ==
  /\ life # "gone" /\ ~podReady /\ reachable
  /\ podReady' = TRUE
  /\ UNCHANGED <<hookVars, unitVars, relVars, reachable, layer, files, served, clusterVars>>

PodBecomesUnready ==
  /\ podReady /\ "unready" \in Faults
  /\ podReady' = FALSE
  /\ UNCHANGED <<hookVars, unitVars, relVars, reachable, layer, files, served, clusterVars>>

(* The workload container loses everything but its image, or only the      *)
(* connection to its Pebble is lost for a while.                           *)
ContainerRestarts ==
  /\ reachable /\ "container" \in Faults
  /\ reachable' = FALSE /\ layer' = FALSE /\ served' = NoCert
  /\ files' = [f \in ServerFiles |-> NoCert]
  /\ UNCHANGED <<hookVars, unitVars, relVars, podReady, clusterVars>>

ContainerUnreachable ==
  /\ reachable /\ "container" \in Faults
  /\ reachable' = FALSE
  /\ UNCHANGED <<hookVars, unitVars, relVars, layer, files, served, podReady, clusterVars>>

(* The pod is replaced: the running hook is lost, and StoredState with the *)
(* charm container.                                                        *)
PodReplaced ==
  /\ life # "gone" /\ "pod" \in Faults
  /\ pc' = "idle" /\ cert' = NoCert /\ staged' = "none"
  /\ stored' = NoCert
  /\ failed' = (failed \/ pc # "idle")
  /\ reachable' = FALSE /\ layer' = FALSE /\ served' = NoCert /\ podReady' = FALSE
  /\ files' = [f \in ServerFiles |-> NoCert]
  /\ UNCHANGED <<status, life, leader, relVars, clusterVars>>

(* The API server finishes deletions.  A CRD takes its objects with it,    *)
(* and waits for the finalizer of every LLMInferenceService, which only    *)
(* the running controller removes.                                         *)
FinalizeCRs ==
  /\ crd = "terminating" /\ crs /\ served # NoCert
  /\ crs' = FALSE
  /\ UNCHANGED <<hookVars, unitVars, relVars, podVars, crd, base, caBundle, configs>>

CrdGone ==
  /\ crd = "terminating" /\ ~crs
  /\ crd' = "absent" /\ configs' = FALSE
  /\ UNCHANGED <<hookVars, unitVars, relVars, podVars, base, caBundle, crs>>

BaseGone ==
  /\ base = "terminating"
  /\ base' = "absent" /\ caBundle' = NoCert
  /\ UNCHANGED <<hookVars, unitVars, relVars, podVars, crd, configs, crs>>

(* llm-integrator, or a user, creates an LLMInferenceService.              *)
CreateCR ==
  /\ crd = "present" /\ base = "present" /\ WebhookTrusted /\ ~crs
  /\ crs' = TRUE
  /\ UNCHANGED <<hookVars, unitVars, relVars, podVars, crd, base, caBundle, configs>>

-----------------------------------------------------------------------------
(* Juju, the operator and the other charms.                                *)

DependencyReady(r) ==
  /\ life = "alive" /\ dep[r] # "ready"
  /\ dep' = [dep EXCEPT ![r] = "ready"]
  /\ UNCHANGED <<hookVars, unitVars, images, related, published, podVars, clusterVars>>

DependencyChanges(r) ==
  /\ life = "alive" /\ "depend" \in Faults
  /\ \E s \in {"missing", "notready"} \ {dep[r]} : dep' = [dep EXCEPT ![r] = s]
  /\ UNCHANGED <<hookVars, unitVars, images, related, published, podVars, clusterVars>>

ConfigChanges ==
  /\ life = "alive" /\ (images => "config" \in Faults)
  /\ images' = ~images
  /\ UNCHANGED <<hookVars, unitVars, dep, related, published, podVars, clusterVars>>

LeaderElected ==
  /\ life # "gone" /\ ~leader
  /\ leader' = TRUE
  /\ UNCHANGED <<hookVars, status, failed, stored, life, relVars, podVars, clusterVars>>

LeaderLost ==
  /\ leader /\ "leader" \in Faults
  /\ leader' = FALSE
  /\ UNCHANGED <<hookVars, status, failed, stored, life, relVars, podVars, clusterVars>>

IntegratorRelated ==
  /\ life = "alive" /\ ~related
  /\ related' = TRUE
  /\ UNCHANGED <<hookVars, unitVars, dep, images, published, podVars, clusterVars>>

IntegratorBroken ==
  /\ related /\ "relation" \in Faults
  /\ related' = FALSE /\ published' = "unset" /\ staged' = "none"
  /\ UNCHANGED <<pc, cert, unitVars, dep, images, podVars, clusterVars>>

-----------------------------------------------------------------------------
Reconcile ==
  \/ StartHook \/ Validate \/ ValidateFails \/ ApplyBase
  \/ SkipUpload \/ StartUpload \/ \E f \in CertFiles : Push(f)
  \/ UpdateLayer \/ UpdateLayerUnreachable \/ RestartControllerService
  \/ UpdateProxyLayer
  \/ ApplyConfigs \/ ApplyConfigsTooEarly \/ ApplyConfigsUntrusted
  \/ CommitHook

Remove ==
  \/ StartRemove \/ DeleteConfigs \/ DeleteConfigsRefused \/ DeleteConfigsNotFound
  \/ DeleteCrds \/ CrdsDeleted \/ DeleteBase \/ BaseDeleted \/ RemoveDone

(* What Kubernetes and Pebble do unasked. *)
Converge ==
  \/ ContainerStarts \/ PodBecomesReady \/ FinalizeCRs \/ CrdGone \/ BaseGone

Settle ==
  \/ PebbleRestartsService \/ CreateCR \/ LeaderElected \/ IntegratorRelated
  \/ \E r \in Required : DependencyReady(r)

(* Everything that goes wrong, or changes what the charm is asked to do.   *)
Disturb ==
  \/ ApplyBaseFails \/ ServiceStartFails \/ HookRaises \/ RemoveRaises
  \/ UpdateProxyLayerUnreachable
  \/ PodBecomesUnready \/ ContainerRestarts \/ ContainerUnreachable \/ PodReplaced
  \/ Teardown \/ ConfigChanges \/ LeaderLost \/ IntegratorBroken
  \/ \E r \in Required : DependencyChanges(r)

Next == Reconcile \/ Remove \/ Converge \/ Settle \/ Disturb

Spec == Init /\ [][Next]_vars

(* Hooks keep being dispatched (update-status) and run to their end, the   *)
(* remove hook runs once it is due, and Kubernetes makes progress.         *)
Fairness ==
  /\ WF_vars(Reconcile)
  /\ WF_vars(Remove) /\ SF_vars(StartRemove)
  /\ WF_vars(ContainerStarts) /\ WF_vars(PodBecomesReady)
  /\ WF_vars(FinalizeCRs) /\ WF_vars(CrdGone) /\ WF_vars(BaseGone)

FairSpec == Spec /\ Fairness
-----------------------------------------------------------------------------
(* Safety.                                                                 *)

(* A unit that rests Active has one certificate everywhere: the controller *)
(* serves the one the webhook configurations trust, or is down, and the    *)
(* files it would read if Pebble restarted it are that one too, or are     *)
(* gone.  No sequence of failed hooks, half-done uploads, skipped restarts *)
(* and regenerated certificates leaves an Active unit whose webhooks the   *)
(* API server refuses.                                                     *)
ActiveIsTrusted ==
  pc = "idle" /\ ~failed /\ status = "active" =>
    /\ served \in {caBundle, NoCert}
    /\ files["tls.key"] = files["tls.crt"]
    /\ files["tls.key"] \in {caBundle, NoCert}

Installed == crd = "present" /\ base = "present" /\ configs

(* A consumer that reads ready=true finds the CRDs, the webhooks and the   *)
(* LLMInferenceServiceConfigs in the cluster, whatever the provider is     *)
(* doing at that moment, removal included.                                 *)
ReadyMeansInstalled ==
  published = "true" => Installed

(* The unit never leaves behind a CRD, or an LLMInferenceService whose     *)
(* finalizer nobody is left to remove.                                     *)
NothingStuck == life = "gone" => crd = "absent" /\ ~crs

(* Webhooks and RBAC are deleted only when the CRD is gone: until then the *)
(* controller needs them to clear finalizers.                              *)
BaseOutlivesCrd ==
  [][base = "present" /\ base' # "present" => crd = "absent"]_vars

-----------------------------------------------------------------------------
(* The contract with the consumers of the relation.                        *)

Contract == INSTANCE ReadinessContract WITH
  promise <- published, installed <- Installed, active <- (status = "active")

(* Every step of the unit, of its cluster and of Juju is a step the        *)
(* contract of the relation allows, or one its consumers cannot see.       *)
KeepsContract == Contract!Spec

-----------------------------------------------------------------------------
(* Liveness, once nothing goes wrong any more.                             *)

Calm == <>[][~Disturb]_vars

Wanted == life = "alive" /\ leader /\ related /\ PrerequisitesMet

(* If from some moment on nothing goes wrong, the prerequisites hold and   *)
(* the unit leads, it ends up Active with ready=true published, whatever   *)
(* happened before: a certificate that was never committed, half an        *)
(* upload, a service started without certificates.                         *)
Converges ==
  Calm /\ <>[]Wanted => <>[](published = "true" /\ (pc = "idle" => status = "active"))

(* If from some moment on a prerequisite is missing, readiness is          *)
(* withdrawn for good.                                                     *)
Withdraws ==
  Calm /\ <>[](life = "alive" /\ leader /\ related /\ ~PrerequisitesMet)
    => <>[](published # "true" /\ (pc = "idle" => status \in {"blocked", "waiting"}))

(* A removal ends if, from some moment on, nothing goes wrong and the      *)
(* webhook answers for as long as there is a webhook configuration.        *)
RemovalCompletes ==
  Calm /\ <>[](base # "absent" => WebhookTrusted \/ life = "gone") /\ <>(life = "dying")
    => <>(life = "gone")
=============================================================================
