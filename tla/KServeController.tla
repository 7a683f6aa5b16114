-------------------------- MODULE KServeController --------------------------
(***************************************************************************)
(* One unit of the kserve-controller charm                                 *)
(* (charms/kserve-controller/src/charm.py): the gateways it validates, the *)
(* configuration it writes for KServe, the storage credentials it shares   *)
(* with user namespaces, the workload whose webhooks admit its own         *)
(* ClusterServingRuntimes, and the readiness it publishes.                 *)
(*                                                                         *)
(* As in KServeLLMISVC, pc is the next call of the running hook, and       *)
(* everything outside the charm goes on between two calls.                 *)
(*                                                                         *)
(* Simplifications.                                                        *)
(*  - One unit; every observed event runs the same handler, and            *)
(*    update-status keeps coming, so a hook may start whenever none runs.  *)
(*  - A certificate, its key and its CA are one value of Certs.  The files *)
(*    in the container hold one of them, or no pair that belongs together. *)
(*  - The endpoints secrets and service-accounts are always integrated     *)
(*    with one resource-dispatcher: "secrets" stands for both.             *)
(*  - Credentials are known by the relation they come from.  The images,   *)
(*    the domain and the proxies rendered into manifests are left out.     *)
(***************************************************************************)
EXTENDS Naturals, FiniteSets

CONSTANTS
  Certs,      \* the certificates gen_certs() may generate
  NoCert,     \* no certificate
  Given,      \* the endpoints integrated, with their data, before the first hook
  Offered,    \* the endpoints that may be integrated later
  Fickle,     \* the endpoints that may lose their relation or its data
  Modes,      \* the values deployment-mode may be given
  Faults      \* which misfortunes may happen: see AllFaults

Gateways  == {"ingress-gateway", "local-gateway", "gateway-metadata"}
Storages  == {"object-storage", "s3-credentials"}
Endpoints == Gateways \cup Storages \cup {"service-mesh", "secrets", "kserve-controller"}

AllModes  == {"knative", "standard", "invalid"}
AllFaults == {"api",        \* the Kubernetes API refuses a call
              "pebble",     \* Pebble fails a push, a replan or a restart
              "container",  \* the workload container is restarted or unreachable
              "pod",        \* the whole pod, charm container included, is replaced
              "unready",    \* the pod leaves the endpoints of its Service
              "timeout",    \* a runtime outlives the 300 seconds of the wait
              "notfound",   \* deleting what is not there any more answers 404
              "config",     \* deployment-mode changes after the deployment
              "images",     \* custom_images is set to something unusable
              "leader",     \* leadership is lost
              "teardown"}   \* the application is removed

ASSUME CertsAssumption  == NoCert \notin Certs
ASSUME InputsAssumption == /\ Given \subseteq Endpoints /\ Offered \subseteq Endpoints
                           /\ Fickle \subseteq Endpoints
                           /\ Modes \subseteq AllModes /\ Modes # {}
                           /\ Faults \subseteq AllFaults

VARIABLES
  pc,         \* the next call of the running hook, "idle" between hooks
  cert,       \* the certificate this hook works with
  plan,       \* inference_service_context: what the ConfigMap is to say
  staged,     \* ready, as relation-set by this hook
  outgoing,   \* the manifests relation-set by this hook
  status,     \* the unit's workload status
  outcome,    \* how the last hook ended: "ok", "error", or "cut" if it
              \* succeeded with deletions left out (a history value)
  stored,     \* the StoredState committed by the last successful hook
  life,       \* "alive", then "dying", "removing" and "gone" under teardown
  role,       \* "leader" or "follower"
  mode,       \* deployment-mode
  images,     \* custom_images: "map", "unparseable", or "other" YAML
  rel,        \* what each relation holds
  published,  \* ready in the databag of the kserve-controller relation
  sent,       \* whose credentials the resource-dispatcher relations hold
  container,  \* "unreachable", "empty", or with the service "planned"
  files,      \* the key pair in the container, NoCert if none that matches
  served,     \* the certificate the running controller serves, NoCert if it is down
  loaded,     \* the ConfigMap the running controller read
  endpoint,   \* the webhook Service has this pod as an endpoint: "in" or "out"
  base,       \* the CRDs, the RBAC and the webhook configurations
  caBundle,   \* the CA in the webhook configurations
  cm,         \* the inferenceservice-config ConfigMap
  policy,     \* the allow-all AuthorizationPolicy
  runtimes    \* the ClusterServingRuntimes

hookVars    == <<pc, cert, plan, staged, outgoing>>
unitVars    == <<status, outcome, stored, life, role>>
inputVars   == <<mode, images, rel>>
bagVars     == <<published, sent>>
podVars     == <<container, files, served, loaded, endpoint>>
clusterVars == <<base, caBundle, cm, policy, runtimes>>
vars == <<hookVars, unitVars, inputVars, bagVars, podVars, clusterVars>>

-----------------------------------------------------------------------------
(* States.                                                                 *)

(* What a relation may hold: nothing, some of the data, or all of it.      *)
States == [e \in Endpoints |-> CASE e \in Gateways -> {"missing", "empty", "ready"}
                                 [] e \in Storages -> {"missing", "empty", "partial", "ready"}
                                 [] OTHER          -> {"missing", "ready"}]

(* The ConfigMaps the charm can render: Knative's, or Standard's with one  *)
(* of two ingress gateways.                                                *)
Shapes == {"knative", "standard/ingress-gateway", "standard/gateway-metadata"}

ReconcilePCs == {"context", "policy", "base", "cm", "storage", "upload",
                 "layer", "restart", "runtimes", "commit"}
RemovePCs    == {"rmPolicy", "rmRuntimes", "rmWait", "rmBase", "rmCm", "rmDone", "rmCut"}

HookOK ==
  /\ pc \in ReconcilePCs \cup RemovePCs \cup {"idle"}
  /\ plan \in Shapes \cup {"none"}
  /\ staged \in {"nothing", "true", "false"}
  /\ outgoing \in Storages \cup {"nothing", "none"}

UnitOK ==
  /\ status \in {"unknown", "maintenance", "blocked", "waiting", "active"}
  /\ outcome \in {"ok", "error", "cut"}
  /\ life \in {"alive", "dying", "removing", "gone"}
  /\ role \in {"leader", "follower"}

InputsOK ==
  /\ mode \in Modes
  /\ images \in {"map", "unparseable", "other"}
  /\ DOMAIN rel = Endpoints /\ \A e \in Endpoints : rel[e] \in States[e]

CertsOK ==
  /\ cert \in Certs \cup {NoCert}
  /\ stored \in Certs \cup {NoCert}
  /\ files \in Certs \cup {NoCert}
  /\ served \in Certs \cup {NoCert}
  /\ caBundle \in Certs \cup {NoCert}

OutsideOK ==
  /\ published \in {"unset", "true", "false"}
  /\ sent \in Storages \cup {"none"}
  /\ container \in {"unreachable", "empty", "planned"}
  /\ loaded \in Shapes \cup {"none"}
  /\ endpoint \in {"in", "out"}
  /\ base \in {"absent", "present"}
  /\ cm \in Shapes \cup {"none"}
  /\ policy \in {"absent", "present"}
  /\ runtimes \in {"absent", "present", "terminating"}

TypeOK == HookOK /\ UnitOK /\ InputsOK /\ CertsOK /\ OutsideOK

Init ==
  /\ pc = "idle" /\ cert = NoCert /\ plan = "none"
  /\ staged = "nothing" /\ outgoing = "nothing"
  /\ status = "unknown" /\ outcome = "ok" /\ stored = NoCert
  /\ life = "alive" /\ role = "follower"
  /\ mode \in Modes /\ images = "map"
  /\ rel = [e \in Endpoints |-> IF e \in Given THEN "ready" ELSE "missing"]
  /\ published = "unset" /\ sent = "none"
  /\ container = "unreachable" /\ files = NoCert
  /\ served = NoCert /\ loaded = "none" /\ endpoint = "out"
  /\ base = "absent" /\ caBundle = NoCert
  /\ cm = "none" /\ policy = "absent" /\ runtimes = "absent"

-----------------------------------------------------------------------------
(* How a hook writes and ends.                                             *)

Has(e) == rel[e] # "missing"

(* The API server gets an answer it trusts from the webhook server.        *)
Listening      == endpoint = "in" /\ served # NoCert
WebhookTrusted == Listening /\ served = caBundle

(* A new key pair: one that nothing knows yet.                             *)
Fresh == Certs \ {caBundle, served, files}

(* A bug to catch: a follower writes a value of its own.                   *)
PublishOrUnset(ready) ==
  IF role = "leader" /\ Has("kserve-controller") THEN ready ELSE "unset"

(* _publish_llmisvc_sync_data: only the leader writes.                     *)
Publish(ready) ==
  IF role = "leader" /\ Has("kserve-controller") THEN ready ELSE staged

(* A bug to catch: the status changes and readiness stays published.       *)
ErrorKeepsReadiness(s) ==
  /\ status' = s
  /\ pc' = "commit"
  /\ UNCHANGED <<cert, plan, staged, outgoing, outcome, stored, life, role>>

(* A bug to catch: the error path publishes what the good one does.        *)
ErrorPublishesReady(s) ==
  /\ status' = s
  /\ staged' = Publish("true")
  /\ pc' = "commit"
  /\ UNCHANGED <<cert, plan, outgoing, outcome, stored, life, role>>

(* except ErrorWithStatus: withdraw readiness, set the status, return.     *)
ErrorWithStatus(s) ==
  /\ status' = s
  /\ staged' = Publish("false")
  /\ pc' = "commit"
  /\ UNCHANGED <<cert, plan, outgoing, outcome, stored, life, role>>

Flush(databag, write) == IF write = "nothing" THEN databag ELSE write

(* An uncaught exception: StoredState is not committed, and the charm does *)
(* not decide whether Juju keeps what was relation-set.                    *)
Raise(ready) ==
  /\ pc' = "idle" /\ cert' = NoCert /\ plan' = "none"
  /\ staged' = "nothing" /\ outgoing' = "nothing"
  /\ outcome' = "error"
  /\ \/ published' = Flush(published, ready) /\ sent' = Flush(sent, outgoing)
     \/ UNCHANGED bagVars
  /\ UNCHANGED <<status, stored, life, role, inputVars>>

Continue(next) ==
  /\ pc' = next
  /\ UNCHANGED <<cert, plan, staged, outgoing, unitVars, inputVars, bagVars>>

-----------------------------------------------------------------------------
(* Reconcile: __init__ and _on_event.                                      *)

(* __init__ and _gen_certs_if_missing.                                     *)
StartHook ==
  /\ pc = "idle" /\ life \in {"alive", "dying"}
  /\ cert' \in IF stored = NoCert THEN Fresh ELSE {stored}
  /\ pc' = "context"
  /\ UNCHANGED <<plan, staged, outgoing, unitVars, inputVars, bagVars, podVars, clusterVars>>

(* _validate_gateway_relations                                             *)
GatewaysRefused ==
  \/ Has("gateway-metadata") /\ Has("ingress-gateway")
  \/ mode = "knative" /\ ~Has("ingress-gateway")
  \/ mode = "standard" /\ ~Has("gateway-metadata") /\ ~Has("ingress-gateway")

Ingress == IF Has("ingress-gateway") THEN "ingress-gateway" ELSE "gateway-metadata"

(* parse_images_config, get_images and _generate_gateways_context: the     *)
(* ErrorWithStatus each input leads to, "none" when all of them will do.   *)
Refusal ==
  CASE images = "unparseable"   -> "blocked"
    [] mode = "invalid"         -> "blocked"
    [] GatewaysRefused          -> "blocked"
    [] rel[Ingress] = "empty"   -> "waiting"
    [] mode # "knative"         -> "none"
    [] ~Has("local-gateway")    -> "blocked"
    [] rel["local-gateway"] = "empty" -> "waiting"
    [] OTHER                    -> "none"

Shape == IF mode = "knative" THEN "knative"
         ELSE IF Ingress = "ingress-gateway" THEN "standard/ingress-gateway"
         ELSE "standard/gateway-metadata"

GenerateContext ==
  /\ pc = "context" /\ images # "other" /\ Refusal = "none"
  /\ plan' = Shape
  /\ status' = "maintenance"
  /\ pc' = "policy"
  /\ UNCHANGED <<cert, staged, outgoing, outcome, stored, life, role,
                 inputVars, bagVars, podVars, clusterVars>>

ContextRefused ==
  /\ pc = "context" /\ images # "other" /\ Refusal # "none"
  /\ ErrorWithStatus(Refusal)
  /\ UNCHANGED <<inputVars, bagVars, podVars, clusterVars>>

(* get_images calls items() on what is not a mapping: an empty             *)
(* custom_images parses to a list, other YAML to whatever it is.           *)
ImagesRaise ==
  /\ pc = "context" /\ images = "other"
  /\ Raise(staged)
  /\ UNCHANGED <<podVars, clusterVars>>

(* reconcile_authorization_policies: nothing without the service mesh,     *)
(* which brings the permissions.                                           *)
ReconcilePolicies ==
  /\ pc = "policy"
  /\ policy' = IF ~Has("service-mesh") THEN policy
               ELSE IF plan = "standard/gateway-metadata" THEN "present" ELSE "absent"
  /\ Continue("base")
  /\ UNCHANGED <<podVars, base, caBundle, cm, runtimes>>

(* k8s_resource_handler.apply, with this hook's CA.                        *)
ApplyBase ==
  /\ pc = "base"
  /\ base' = "present" /\ caBundle' = cert
  /\ Continue("cm")
  /\ UNCHANGED <<podVars, cm, policy, runtimes>>

ApplyConfigMap ==
  /\ pc = "cm"
  /\ cm' = plan
  /\ Continue("storage")
  /\ UNCHANGED <<podVars, base, caBundle, policy, runtimes>>

(* _resolve_storage_secrets_context: the relation the credentials come     *)
(* from, and the ErrorWithStatus its data leads to, "none" when it will do.*)
Source == IF Has("s3-credentials") THEN "s3-credentials"
          ELSE IF Has("object-storage") THEN "object-storage" ELSE "none"

StorageRefusal ==
  CASE \A e \in Storages : Has(e)  -> "blocked"
    [] Source = "none"             -> "none"
    [] rel[Source] = "empty"       -> "waiting"
    [] rel[Source] = "partial"     -> "blocked"
    [] OTHER                       -> "none"

(* _validate_sdi_interface reports data that fails its schema through      *)
(* self.logger, which a charm does not have.                               *)
SchemaFails ==
  Source = "object-storage" /\ StorageRefusal = "blocked" /\ rel[Source] = "partial"

(* A bug to catch: manifests are sent, and never taken back.               *)
SendOnly ==
  /\ pc = "storage" /\ StorageRefusal = "none"
  /\ outgoing' = IF role = "leader" /\ Has("secrets") /\ Source # "none"
                 THEN Source ELSE outgoing
  /\ pc' = "upload"
  /\ UNCHANGED <<cert, plan, staged, unitVars, inputVars, bagVars, podVars, clusterVars>>

(* send_object_storage_manifests; without a storage relation it clears     *)
(* what was sent before.  send_data leaves it to the leader.               *)
SendManifests ==
  /\ pc = "storage" /\ StorageRefusal = "none"
  /\ outgoing' = IF role = "leader" /\ Has("secrets") THEN Source ELSE outgoing
  /\ pc' = "upload"
  /\ UNCHANGED <<cert, plan, staged, unitVars, inputVars, bagVars, podVars, clusterVars>>

StorageRefused ==
  /\ pc = "storage" /\ StorageRefusal # "none" /\ ~SchemaFails
  /\ ErrorWithStatus(StorageRefusal)
  /\ UNCHANGED <<inputVars, bagVars, podVars, clusterVars>>

StorageRaises ==
  /\ pc = "storage" /\ SchemaFails
  /\ Raise(staged)
  /\ UNCHANGED <<podVars, clusterVars>>

(* _upload_certs_to_container: a container out of reach sets a status and  *)
(* the hook goes on.                                                       *)
UploadCerts ==
  /\ pc = "upload" /\ container # "unreachable"
  /\ files' = cert
  /\ Continue("layer")
  /\ UNCHANGED <<container, served, loaded, endpoint, clusterVars>>

SkipUpload ==
  /\ pc = "upload" /\ container = "unreachable"
  /\ status' = "maintenance"
  /\ pc' = "layer"
  /\ UNCHANGED <<cert, plan, staged, outgoing, outcome, stored, life, role,
                 inputVars, bagVars, podVars, clusterVars>>

(* update_layer: a new plan is replanned, which starts the service.        *)
UpdateLayer ==
  /\ pc = "layer" /\ container # "unreachable"
  /\ container' = "planned"
  /\ IF container = "planned" THEN UNCHANGED <<served, loaded>>
                              ELSE served' = files /\ loaded' = cm
  /\ Continue("restart")
  /\ UNCHANGED <<files, endpoint, clusterVars>>

UpdateLayerUnreachable ==
  /\ pc = "layer" /\ container = "unreachable"
  /\ ErrorWithStatus("maintenance")
  /\ UNCHANGED <<inputVars, bagVars, podVars, clusterVars>>

(* A bug to catch: the controller is never restarted.                      *)
RestartForgotten ==
  /\ pc = "restart"
  /\ Continue("runtimes")
  /\ UNCHANGED <<podVars, clusterVars>>

(* _restart_controller_service: always, so that the controller reads the   *)
(* configuration and the certificate; skipped out of reach.                *)
RestartControllerService ==
  /\ pc = "restart"
  /\ IF container = "planned" THEN served' = files /\ loaded' = cm
                              ELSE UNCHANGED <<served, loaded>>
  /\ Continue("runtimes")
  /\ UNCHANGED <<container, files, endpoint, clusterVars>>

(* A bug to catch: any ApiError of the runtimes means "not ready yet".     *)
ApplyRuntimesAnyError ==
  /\ pc = "runtimes"
  /\ IF WebhookTrusted THEN runtimes' = "present" ELSE UNCHANGED runtimes
  /\ status' = IF Listening THEN "active" ELSE "maintenance"
  /\ staged' = Publish("true")
  /\ pc' = "commit"
  /\ UNCHANGED <<cert, plan, outgoing, outcome, stored, life, role,
                 inputVars, bagVars, podVars, base, caBundle, cm, policy>>

(* cluster_runtimes_resource_handler.apply goes through the webhook.       *)
(* "connect: " and "no endpoints available" put it off; ready=true is      *)
(* published all the same.                                                 *)
ApplyRuntimes ==
  /\ pc = "runtimes"
  /\ Listening => WebhookTrusted
  /\ IF WebhookTrusted THEN runtimes' = "present" ELSE UNCHANGED runtimes
  /\ status' = IF WebhookTrusted THEN "active" ELSE "maintenance"
  /\ staged' = Publish("true")
  /\ pc' = "commit"
  /\ UNCHANGED <<cert, plan, outgoing, outcome, stored, life, role,
                 inputVars, bagVars, podVars, base, caBundle, cm, policy>>

(* Any other ApiError becomes a GenericCharmRuntimeError.                  *)
ApplyRuntimesUntrusted ==
  /\ pc = "runtimes" /\ Listening /\ ~WebhookTrusted
  /\ Raise(staged)
  /\ UNCHANGED <<podVars, clusterVars>>

CommitHook ==
  /\ pc = "commit"
  /\ pc' = "idle" /\ cert' = NoCert /\ plan' = "none"
  /\ staged' = "nothing" /\ outgoing' = "nothing"
  /\ stored' = cert /\ outcome' = "ok"
  /\ published' = Flush(published, staged) /\ sent' = Flush(sent, outgoing)
  /\ UNCHANGED <<status, life, role, inputVars, podVars, clusterVars>>

-----------------------------------------------------------------------------
(* Calls that raise.                                                       *)

(* except ApiError: readiness is withdrawn and the exception goes on; the  *)
(* objects before the one refused are applied.                             *)
ApplyFails ==
  /\ pc \in {"policy", "base", "cm"} /\ "api" \in Faults
  /\ pc = "policy" => Has("service-mesh")
  /\ IF pc = "base" THEN \/ base' = "present" /\ caBundle' = cert
                         \/ UNCHANGED <<base, caBundle>>
     ELSE UNCHANGED <<base, caBundle>>
  /\ Raise(Publish("false"))
  /\ UNCHANGED <<podVars, cm, policy, runtimes>>

(* A GenericCharmRuntimeError is not caught.  A push that fails may leave  *)
(* a key that does not belong to the certificate.                          *)
UploadFails ==
  /\ pc = "upload" /\ container # "unreachable" /\ "pebble" \in Faults
  /\ files' \in {files, IF files = cert THEN cert ELSE NoCert, cert}
  /\ Raise(staged)
  /\ UNCHANGED <<container, served, loaded, endpoint, clusterVars>>

ServiceStartFails ==
  /\ "pebble" \in Faults
  /\ \/ pc = "layer" /\ container = "empty"
     \/ pc = "restart" /\ container = "planned"
  /\ container' = "planned" /\ served' = NoCert /\ loaded' = "none"
  /\ Raise(staged)
  /\ UNCHANGED <<files, endpoint, clusterVars>>

RuntimesRefused ==
  /\ pc = "runtimes" /\ "api" \in Faults
  /\ Raise(staged)
  /\ UNCHANGED <<podVars, clusterVars>>

-----------------------------------------------------------------------------
(* Remove: _on_remove.                                                     *)

(* Removing the application breaks every relation first.                   *)
Teardown ==
  /\ life = "alive" /\ "teardown" \in Faults
  /\ life' = "dying"
  /\ rel' = [e \in Endpoints |-> "missing"]
  /\ published' = "unset" /\ sent' = "none" /\ staged' = "nothing" /\ outgoing' = "nothing"
  /\ UNCHANGED <<pc, cert, plan, status, outcome, stored, role, mode, images,
                 podVars, clusterVars>>

StartRemove ==
  /\ pc = "idle" /\ life \in {"dying", "removing"}
  /\ life' = "removing"
  /\ status' = "maintenance"
  /\ cert' \in IF stored = NoCert THEN Fresh ELSE {stored}
  /\ pc' = "rmPolicy"
  /\ UNCHANGED <<plan, staged, outgoing, outcome, stored, role,
                 inputVars, bagVars, podVars, clusterVars>>

(* _reconcile_authorization_policies_on_remove: best effort, the mesh may  *)
(* have taken the permissions with it (403).                               *)
RemovePolicies ==
  /\ pc = "rmPolicy"
  /\ policy' \in {policy, "absent"}
  /\ Continue("rmRuntimes")
  /\ UNCHANGED <<podVars, base, caBundle, cm, runtimes>>

(* A bug to catch: the runtimes are deleted and not waited for.            *)
DeleteRuntimesNoWait ==
  /\ pc = "rmRuntimes" /\ base = "present"
  /\ runtimes' = IF runtimes = "present" THEN "terminating" ELSE runtimes
  /\ Continue("rmBase")
  /\ UNCHANGED <<podVars, base, caBundle, cm, policy>>

(* A bug to catch: they are waited for and not deleted.                    *)
WaitForRuntimesOnly ==
  /\ pc = "rmRuntimes" /\ base = "present"
  /\ Continue("rmWait")
  /\ UNCHANGED <<podVars, clusterVars>>

(* _remove_cluster_runtimes_resources: rendering the runtimes takes the    *)
(* CRDs that are in the cluster.                                           *)
DeleteRuntimes ==
  /\ pc = "rmRuntimes" /\ base = "present"
  /\ runtimes' = IF runtimes = "present" THEN "terminating" ELSE runtimes
  /\ Continue("rmWait")
  /\ UNCHANGED <<podVars, base, caBundle, cm, policy>>

(* ... and without them it fails: nothing catches LoadResourceError.       *)
DeleteRuntimesUnrendered ==
  /\ pc = "rmRuntimes" /\ base = "absent"
  /\ Raise(staged)
  /\ UNCHANGED <<podVars, clusterVars>>

(* ensure_resource_is_deleted: 404 from an API that is still served.       *)
RuntimesDeleted ==
  /\ pc = "rmWait" /\ runtimes = "absent" /\ base = "present"
  /\ Continue("rmBase")
  /\ UNCHANGED <<podVars, clusterVars>>

(* A bug to catch: the handlers after the first are forgotten.             *)
DeleteBaseOnly ==
  /\ pc = "rmBase"
  /\ base' = "absent" /\ caBundle' = NoCert
  /\ Continue("rmDone")
  /\ UNCHANGED <<podVars, cm, policy, runtimes>>

(* _delete_managed_resources                                               *)
DeleteBase ==
  /\ pc = "rmBase"
  /\ base' = "absent" /\ caBundle' = NoCert
  /\ Continue("rmCm")
  /\ UNCHANGED <<podVars, cm, policy, runtimes>>

DeleteConfigMap ==
  /\ pc = "rmCm"
  /\ cm' = "none"
  /\ Continue("rmDone")
  /\ UNCHANGED <<podVars, base, caBundle, policy, runtimes>>

(* An ApiError, or ensure_resource_is_deleted giving up, fails the hook;   *)
(* Juju runs it again.                                                     *)
RemoveRaises ==
  /\ \/ pc \in RemovePCs \ {"rmDone", "rmCut"} /\ "api" \in Faults
     \/ pc = "rmWait" /\ runtimes # "absent" /\ "timeout" \in Faults
  /\ Raise(staged)
  /\ UNCHANGED <<podVars, clusterVars>>

(* except ApiError: a 404 ends the deletions, and the hook succeeds.  What *)
(* is missing may be one of several objects.                               *)
RemoveNotFound ==
  /\ pc \in {"rmRuntimes", "rmBase", "rmCm"} /\ (pc = "rmRuntimes" => base = "present")
  /\ "notfound" \in Faults
  /\ Continue("rmCut")
  /\ UNCHANGED <<podVars, clusterVars>>

RemoveDone ==
  /\ pc \in {"rmDone", "rmCut"}
  /\ pc' = "idle" /\ cert' = NoCert
  /\ life' = "gone" /\ outcome' = (IF pc = "rmDone" THEN "ok" ELSE "cut") /\ stored' = NoCert
  /\ container' = "unreachable" /\ files' = NoCert
  /\ served' = NoCert /\ loaded' = "none" /\ endpoint' = "out"
  /\ UNCHANGED <<plan, staged, outgoing, status, role, inputVars, bagVars, clusterVars>>

-----------------------------------------------------------------------------
(* The workload and the cluster.                                           *)

ContainerStarts ==
  /\ life # "gone" /\ container = "unreachable"
  /\ container' = IF served = NoCert THEN "empty" ELSE "planned"
  /\ UNCHANGED <<hookVars, unitVars, inputVars, bagVars,
                 files, served, loaded, endpoint, clusterVars>>

(* on-check-failure: restart.                                              *)
PebbleRestartsService ==
  /\ life # "gone" /\ container = "planned"
  /\ served' = files /\ loaded' = cm
  /\ UNCHANGED <<hookVars, unitVars, inputVars, bagVars,
                 container, files, endpoint, clusterVars>>

PodBecomesReady ==
  /\ life # "gone" /\ endpoint = "out" /\ container # "unreachable"
  /\ endpoint' = "in"
  /\ UNCHANGED <<hookVars, unitVars, inputVars, bagVars,
                 container, files, served, loaded, clusterVars>>

PodBecomesUnready ==
  /\ endpoint = "in" /\ "unready" \in Faults
  /\ endpoint' = "out"
  /\ UNCHANGED <<hookVars, unitVars, inputVars, bagVars,
                 container, files, served, loaded, clusterVars>>

(* The workload container loses everything but its image, or only the      *)
(* connection to its Pebble is lost for a while.                           *)
ContainerLost ==
  /\ container # "unreachable" /\ "container" \in Faults
  /\ container' = "unreachable"
  /\ \/ files' = NoCert /\ served' = NoCert /\ loaded' = "none"
     \/ served # NoCert /\ UNCHANGED <<files, served, loaded>>
  /\ UNCHANGED <<hookVars, unitVars, inputVars, bagVars, endpoint, clusterVars>>

(* The pod is replaced, and with it StoredState and the running hook.      *)
PodReplaced ==
  /\ life # "gone" /\ "pod" \in Faults
  /\ pc' = "idle" /\ cert' = NoCert /\ plan' = "none"
  /\ staged' = "nothing" /\ outgoing' = "nothing"
  /\ stored' = NoCert
  /\ outcome' = IF pc = "idle" THEN outcome ELSE "error"
  /\ container' = "unreachable" /\ files' = NoCert
  /\ served' = NoCert /\ loaded' = "none" /\ endpoint' = "out"
  /\ UNCHANGED <<status, life, role, inputVars, bagVars, clusterVars>>

RuntimesGone ==
  /\ runtimes = "terminating"
  /\ runtimes' = "absent"
  /\ UNCHANGED <<hookVars, unitVars, inputVars, bagVars, podVars,
                 base, caBundle, cm, policy>>

-----------------------------------------------------------------------------
(* Juju, the operator and the other charms.                                *)

(* An endpoint is integrated, or the other application fills its databag.  *)
RelationGains(e) ==
  /\ life = "alive" /\ e \in Offered /\ rel[e] # "ready"
  /\ rel' = [rel EXCEPT ![e] = "ready"]
  /\ UNCHANGED <<hookVars, unitVars, mode, images, bagVars, podVars, clusterVars>>

(* An integration goes, or does not hold all it should.                    *)
RelationLoses(e) ==
  /\ life = "alive" /\ e \in Fickle
  /\ \E s \in States[e] \ {rel[e], "ready"} :
       /\ rel' = [rel EXCEPT ![e] = s]
       /\ IF e = "kserve-controller" /\ s = "missing"
          THEN published' = "unset" /\ staged' = "nothing"
          ELSE UNCHANGED <<published, staged>>
       /\ IF e = "secrets" /\ s = "missing"
          THEN sent' = "none" /\ outgoing' = "nothing"
          ELSE UNCHANGED <<sent, outgoing>>
  /\ UNCHANGED <<pc, cert, plan, unitVars, mode, images, podVars, clusterVars>>

ModeChanges ==
  /\ life = "alive" /\ "config" \in Faults
  /\ mode' \in Modes \ {mode}
  /\ UNCHANGED <<hookVars, unitVars, images, rel, bagVars, podVars, clusterVars>>

ImagesChange ==
  /\ life = "alive"
  /\ images' \in IF "images" \in Faults THEN {"map", "unparseable", "other"} \ {images} ELSE {}
  /\ UNCHANGED <<hookVars, unitVars, mode, rel, bagVars, podVars, clusterVars>>

LeaderElected ==
  /\ life # "gone" /\ role = "follower"
  /\ role' = "leader"
  /\ UNCHANGED <<hookVars, status, outcome, stored, life, inputVars, bagVars,
                 podVars, clusterVars>>

LeaderLost ==
  /\ role = "leader" /\ "leader" \in Faults
  /\ role' = "follower"
  /\ UNCHANGED <<hookVars, status, outcome, stored, life, inputVars, bagVars,
                 podVars, clusterVars>>

-----------------------------------------------------------------------------
Reconcile ==
  \/ StartHook \/ GenerateContext \/ ContextRefused \/ ImagesRaise
  \/ ReconcilePolicies \/ ApplyBase \/ ApplyConfigMap
  \/ SendManifests \/ StorageRefused \/ StorageRaises
  \/ UploadCerts \/ SkipUpload \/ UpdateLayer \/ UpdateLayerUnreachable
  \/ RestartControllerService \/ ApplyRuntimes \/ ApplyRuntimesUntrusted
  \/ CommitHook

Remove ==
  \/ StartRemove \/ RemovePolicies \/ DeleteRuntimes \/ DeleteRuntimesUnrendered \/ RuntimesDeleted
  \/ DeleteBase \/ DeleteConfigMap \/ RemoveDone

Converge == ContainerStarts \/ PodBecomesReady \/ RuntimesGone

Settle ==
  \/ PebbleRestartsService \/ LeaderElected
  \/ \E e \in Endpoints : RelationGains(e)

(* Everything that goes wrong, or changes what the charm is asked to do.   *)
Disturb ==
  \/ ApplyFails \/ UploadFails \/ ServiceStartFails \/ RuntimesRefused
  \/ RemoveRaises \/ RemoveNotFound \/ PodBecomesUnready \/ ContainerLost \/ PodReplaced
  \/ ModeChanges \/ ImagesChange \/ LeaderLost \/ Teardown
  \/ \E e \in Endpoints : RelationLoses(e)

Next == Reconcile \/ Remove \/ Converge \/ Settle \/ Disturb

Spec == Init /\ [][Next]_vars

(* Hooks keep being dispatched and run to their end, the remove hook runs  *)
(* once it is due, and Kubernetes and Pebble make progress.                *)
Fairness ==
  /\ WF_vars(Reconcile) /\ WF_vars(Remove) /\ SF_vars(StartRemove)
  /\ WF_vars(ContainerStarts) /\ WF_vars(PodBecomesReady) /\ WF_vars(RuntimesGone)

FairSpec == Spec /\ Fairness
-----------------------------------------------------------------------------
(* Safety.                                                                 *)

(* A unit that rests Active has its runtimes installed and one certificate *)
(* everywhere: the controller serves the one the webhook configurations    *)
(* trust, or is down, and a restart by Pebble would load that one too.     *)
(* Whatever hooks failed half-way and wherever a certificate was lost.     *)
ActiveIsTrusted ==
  pc = "idle" /\ outcome = "ok" /\ status = "active" =>
    /\ runtimes = "present"
    /\ served \in {caBundle, NoCert} /\ files \in {caBundle, NoCert}

(* Who reads ready=true finds the CRDs, the webhooks and the ConfigMap of  *)
(* KServe in the cluster, whatever the provider is doing, removal included.*)
ReadyMeansInstalled == published = "true" => base = "present" /\ cm # "none"

(* A unit that is gone leaves no runtime, no webhook configuration that    *)
(* refuses everything, and no ConfigMap, however often its removal had to  *)
(* start over; except that a deletion that met a 404 ends the removal with *)
(* the rest in place.                                                      *)
NothingLeft ==
  life = "gone" /\ outcome = "ok" => runtimes = "absent" /\ base = "absent" /\ cm = "none"

(* The webhooks and CRDs go only after the runtimes that depend on them:   *)
(* "Delete ClusterServingRuntime resources and wait until they are gone".  *)
RuntimesGoFirst ==
  [][base = "present" /\ base' = "absent" => runtimes = "absent"]_vars

(* The docstring of _validate_sdi_interface: "ErrorWithStatus(..., Blocked)*)
(* if data in interface fails schema check".  Not so: the hook fails.      *)
BadDataBlocks ==
  [][pc = "storage" /\ SchemaFails /\ pc' # pc => status' = "blocked"]_vars

-----------------------------------------------------------------------------
(* Liveness, once nothing goes wrong any more.                             *)

Calm == <>[][~Disturb]_vars

Settled == life = "alive" /\ images = "map" /\ Refusal = "none"

Serving ==
  /\ cm = Shape /\ loaded = cm
  /\ Has("service-mesh") => policy = IF Shape = "standard/gateway-metadata"
                                     THEN "present" ELSE "absent"

(* If from some moment on the gateways fit the deployment mode and nothing *)
(* goes wrong, the running controller works with the configuration of that *)
(* mode and gateway, and the unit is Active and says so.                   *)
ServesConfig ==
  Calm /\ <>[](Settled /\ StorageRefusal = "none" /\ role = "leader" /\ Has("kserve-controller")) =>
    <>[](Serving /\ published = "true" /\ (pc = "idle" => status = "active"))

(* ... and user namespaces get the credentials of the one storage relation *)
(* there is, and lose them when there is none.                             *)
SharesCredentials ==
  Calm /\ <>[](Settled /\ StorageRefusal = "none" /\ role = "leader" /\ Has("secrets")) =>
    <>[](sent = Source)

(* If from some moment on the gateways do not fit, readiness is withdrawn. *)
Withdraws ==
  Calm /\ <>[](life = "alive" /\ images = "map" /\ Refusal # "none"
               /\ role = "leader" /\ Has("kserve-controller"))
    => <>[](published # "true" /\ (pc = "idle" => status \in {"blocked", "waiting"}))

(* A removal ends if, from some moment on, nothing goes wrong, and every   *)
(* remove hook finds the CRDs.  One that does not find them fails whenever *)
(* it is run: the unit never applied them, or an earlier remove hook       *)
(* deleted them and failed after that.                                     *)
RemovalCompletes ==
  Calm /\ <>(life = "dying") /\ [](pc = "rmRuntimes" => base = "present") => <>(life = "gone")

(* The comment of send_object_storage_manifests: when "the relation's data *)
(* is not ready; clear previously-sent manifests".  Not so: a relation     *)
(* without data raises before anything is cleared.                         *)
ClearsCredentials ==
  Calm /\ <>[](Settled /\ rel["s3-credentials"] = "empty" /\ ~Has("object-storage")
               /\ role = "leader" /\ Has("secrets"))
    => <>[](sent = "none")
=============================================================================
