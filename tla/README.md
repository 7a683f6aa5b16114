# KServe operators: TLA+ models, checks and proofs

This directory is the verification project of the three Juju charms of this repository:
`kserve-controller`, `kserve-llmisvc` and `llm-integrator`, and of the charm libraries they carry.
It holds TLA+ modules that model what the charms and the libraries do, TLC configurations that check them on small instances, and theorems TLAPS proves
for every value of the constants.

## The system

Each charm runs as one unit (the terraform modules say `units = 1`) in a pod of its own, next to
the workload container it manages through Pebble. Juju runs the hooks of a unit one at a time, and
nearly every event of a charm goes to the same `_on_event`, which brings the cluster to the wanted
state from the beginning; `remove` goes to `_on_remove`. One hook is still many calls to Juju,
Pebble and Kubernetes, and everything outside the charm goes on between two of them. That is
where the difficult behaviour is.

```
 gateways, storage ──► kserve-controller ──ready──► kserve-llmisvc ──ready──► llm-integrator
                         │        │                   │   ▲                     │   ▲
                 ConfigMap,     manifests to        CRDs, webhooks,        LLMInferenceService,
                 CRDs, webhooks, resource-          configs  lws-controller Secrets, ScaledObjects
                 runtimes       dispatcher                                       keda, prometheus, s3
```

### Inventory

| component | state it keeps | operations | talks to | hard behaviour | what makes it correct |
|---|---|---|---|---|---|
| kserve-llmisvc (`charm.py`, `certs.py`, templates) | StoredState (key pair and CA), the readiness it published, the CRDs, webhook configurations, RBAC and LLMInferenceServiceConfigs it applied, the files and the service in its container | `_on_event`, `_on_remove` | kserve-controller and lws-controller (their `ready`), Pebble, Kubernetes, its own webhook, llm-integrator | certificates regenerated after failed hooks and lost pods; objects admitted by the webhook this same hook starts; finalizers in a removal; prerequisites lost in the middle of a hook | one certificate everywhere when Active; `ready=true` only over what is installed; a removal in an order that leaves nothing terminating |
| llm-integrator (`charm.py`, `autoscaling.py`, `config.py`, `capacity.py`, `workload_status.py`) | the LLMInferenceService, its Secrets and ScaledObjects, the unit status | `_on_event`, `_on_remove` | kserve-llmisvc, s3-credentials, keda, prometheus-api, a Juju user secret, KServe, KEDA | several objects that refer to each other, written one call at a time by hooks that may be killed; a token that comes and goes; two masters of the replica count; finalizers | no service without its Secret, one scaler, convergence to the configuration, a removal that leaves nothing |
| kserve-controller (`charm.py`, `certs.py`, templates) | StoredState, readiness, CRDs, webhooks, RBAC, the inferenceservice-config ConfigMap, ClusterServingRuntimes, an AuthorizationPolicy, the manifests sent to resource-dispatcher, container files and service | `_on_event`, `_on_remove` | three gateway relations, two storage relations, resource-dispatcher, the service mesh, kserve-llmisvc, Pebble, Kubernetes, its own webhook | as kserve-llmisvc; and a deployment mode that has to fit the gateways; a controller that reads its ConfigMap only when it starts; credentials copied into user namespaces | as kserve-llmisvc; the running controller works with the configuration of the deployment; credentials follow the storage relation |
| log forwarding and log proxy (`loki_push_api.py`) | the log targets of Pebble's plan; promtail's binary, configuration and state; the endpoints in unit databags | relation and pebble-ready handlers, `_update_endpoints`, `_ensure_promtail_binary` | Loki units, Pebble, GitHub | Loki units that come, move and go in any order; downloads and containers that fail | every container logs to exactly the Lokis there are |
| alert rules (`loki_push_api.py`, `prometheus_scrape.py`) | rules in application databags, rule files of the backends | `AlertRules.add_path`, `alerts`, the validations that answer in the databag | cos-tool, Prometheus, Loki | identifiers that collide; rules of one charm that are refused | one charm's rules never cost another its own |
| scrape jobs (`prometheus_scrape.py`) | jobs, unit addresses, StoredState of the aggregator | `set_scrape_job_spec`, `jobs`, the aggregator's handlers | Prometheus | addresses that outlive pods, names that collide, departures before Prometheus | every target is scraped where it is now, none that left is |
| dashboards (`grafana_dashboard.py`) | templates in StoredState, databags, peer data, the dashboards a unit loaded | provider, consumer, the conversion of a dashboard | Grafana | leadership and revisions change between units; one of several dashboards is corrupt; variables are renamed | Grafana shows what the leader has, every unit the newest, panels the datasource they had |
| mesh (`service_mesh.py`) | labels of StatefulSet and Service, a ConfigMap that remembers them, MeshPolicies, AuthorizationPolicies | `reconcile_charm_labels`, `update_service_mesh`, `PolicyResourceManager` | istio-beacon, Kubernetes | hooks killed between calls; reconciles that fail half-way | the workload carries the labels asked for, exactly the related are authorized |
| service patch (`kubernetes_service_patch.py`) | the Service of the application | `_patch`, `_on_upgrade_charm`, `_remove_service` | Kubernetes | units of different revisions patch one Service | no LoadBalancer is left over, the ports are those of the revision |
| other libraries, `ops`, `lightkube`, charmed-kubeflow-chisme | | | | | modelled by what the charms use of them, as external actions |
| manifests (templates) | | | | | data; installed or not |
| terraform, docs and their tools, CI, tests | | | | | not part of the running system |

`PROJECT.json` lists the components with their status, the source lines every definition stands
for, and the hazards of the code, each with the properties that would catch it going wrong.

## The modules

| module | what it is |
|---|---|
| `KServeLLMISVC` | one unit of kserve-llmisvc, its container, its webhook, the objects it manages |
| `ReadinessContract` | what the provider of a ready relation promises, seen from outside; `KServeLLMISVC` implements it |
| `LLMIntegrator` | one unit of llm-integrator, the objects it owns, KServe and KEDA around them |
| `KServeController` | one unit of kserve-controller, its gateways and storage, its container, its webhook and runtimes |
| `Capacity` | the capacity check of llm-integrator next to a scheduler that places the workers one by one |
| `LogForwarding`, `LogProxy` | logs on their way to Loki, by Pebble and by promtail |
| `AlertRuleSharing` | alert rules from the files of charms to those of Prometheus and Loki |
| `ScrapeTargets`, `ScrapeAggregator` | metrics endpoints, of charms and of applications that only name their hosts |
| `DashboardProvider`, `DashboardConsumer`, `DashboardContent` | dashboards: what is shared, what is loaded, and what is done to one of them |
| `MeshMembership`, `MeshPolicies` | how an application joins a mesh, and who may talk to whom in it |
| `ServicePatch` | the Service of an application, patched by all of its units |
| `MCLibraries` | these twelve side by side |
| `MC...` | instances for TLC: symmetry and sets of configurations |
| `KServeLLMISVCProofs`, `LLMIntegratorProofs`, `KServeControllerProofs` | the theorems of the three charms |
| `LogMeshProofs` | those of `LogForwarding`, `LogProxy`, `MeshMembership` and `MeshPolicies` |
| `DashboardProofs` | those of `DashboardProvider`, `DashboardConsumer` and `DashboardContent` |
| `ScrapeProofs` | those of `AlertRuleSharing`, `ScrapeTargets` and `ScrapeAggregator` |
| `LibrariesProofs` | those of `ServicePatch` and `Capacity`, and of all libraries side by side |
| `FiniteFacts` | facts about finite sets the proofs need: smallest sets, least and greatest numbers, images |

The three charms are written the same way. `pc` is the next call of the running hook, `"idle"`
between hooks; an action is one call of the source, with the returns and raises that follow it. A
hook that returns (`CommitHook`) commits StoredState and flushes `relation-set`; an uncaught
exception (`Raise`) commits nothing; a `PodReplaced` or `HookKilled` loses the hook altogether.
Actions are grouped as the source is: `Reconcile` is `_on_event`, `Remove` is `_on_remove`, and
the rest is the world outside: `Converge`/`Settle` is what it does on its own, `Disturb` is
everything that goes wrong or changes what the charm is asked to do. The constant `Faults` selects
which of the latter may happen, so that each run can afford the ones its question is about.

Definitions that begin with "A bug to catch" are not used by the model. They are the faulty
variants of a definition that show each property can fail: put in its place, TLC must find the
property violated (`PROJECT.json`, "mutants").

The library modules are smaller and have another shape. What matters in a library is rarely the
call in the middle of a hook; it is which handlers run, in which order, on which data. Most take a
hook as one step and keep the hooks Juju still has to run for each unit (`...Owed`): an action of
the environment changes the relations and adds to them, an action of the library takes one away
and does what its handler does. Where a hook makes several calls that can fail or be killed one by
one (`MeshMembership`, `MeshPolicies`, `ServicePatch`, `LogForwarding`, `LogProxy`) a call is a
step, as in the charms. `DashboardContent` and `Capacity` are mostly operators, on inputs an
action chooses. Their properties have one form: once nothing is owed any more, what the code was
given has arrived where it belongs.

How state corresponds to code:

- `cert`, `stored`, `files`, `served`, `caBundle` are the five places a certificate can be: the
  memory of the hook, the committed StoredState, the container, the running controller and the
  webhook configurations. A certificate with its key and CA is one value of `Certs`.
- `staged` and `published` are `ready` as relation-set by the hook and as consumers read it.
- `life` follows a removal: `"dying"` when Juju has broken the relations, `"removing"` when the
  remove hook has started, and from then on no other hook runs.
- KServeController: `rel[e]` is what a relation holds (missing, empty, partial, ready), `cm` the
  ConfigMap in the cluster and `loaded` the one the running controller read; `sent` is the
  relation whose credentials the resource-dispatcher holds.
- LLMIntegrator: a configuration is the set of what holds of it (`s3`, `token`, `auto`, `prefill`,
  `invalid`); of the service the model keeps the Secrets it mounts, whether it fixes the replicas,
  and its workers.

## What the runs show

| run | bounds | what it asks |
|---|---|---|
| `llmisvc_lifetime` | 5 certificates; failing API and Pebble, lost containers and pods, teardown | `ActiveIsTrusted`, `NothingStuck`, `BaseOutlivesCrd` |
| `llmisvc_relations` | 3 certificates; dependencies, leadership, configuration and consumers come and go | the refinement `KeepsContract`, which has `ReadyMeansInstalled` in it, and `Withdraws` |
| `llmisvc_settles` | 5 certificates; failing Pebble, teardown with timeouts; fair | `Converges`, `RemovalCompletes` |
| `llm_secrets` | 2 tokens; public, gated, s3 and refused configurations; killed and failing hooks | `SecretsInPlace` |
| `llm_settles` | 2 tokens; everything switched on, or nothing; KEDA scales; fair | `KeepsReplicas`, `Deploys`, `Scales`, `FailureShows` |
| `llm_removal` | 1 token; gated, autoscaled and split, or s3; killed hooks, timeouts, teardown; fair | `OneScaler`, `NothingLeft`, `TeardownOrder`, `RemovalCompletes` |
| `ksc_lifetime` | 4 certificates; all the ways a hook can fail, leadership, images, object-storage, teardown with timeouts and 404s | `ActiveIsTrusted`, `ReadyMeansInstalled`, `NothingLeft`, `RuntimesGoFirst` |
| `ksc_settles` | 1 certificate; both modes, local-gateway that comes, s3-credentials in every state, lost containers, teardown with timeouts and 404s; fair | `ServesConfig`, `SharesCredentials`, `Withdraws`, `RemovalCompletes` |
| `libraries` | the twelve library modules, one at a time; see below | one property of each |
| `llm_stuck_removal` | a removal without the CRD | finds `RemovalIsRobust` violated |
| `ksc_bad_data` | incomplete object-storage data | finds `BadDataBlocks` violated |
| `ksc_stale_credentials` | s3-credentials loses its data | finds `ClearsCredentials` violated |

Every charm has its type invariant `TypeOK` in one of its runs, the libraries have
`LibrariesTypeOK`.

The libraries share no state. `MCLibraries` composes them, and a behaviour is about one of them,
its `focus`, while the others rest: the run visits the sum of their states, not the product. What
it asks of each:

| module | instance | property |
|---|---|---|
| `LogForwarding` | two Loki applications, one with two units, one unit behind an ingress; one container that restarts | `LogsFollowLoki`: containers forward to exactly the ready endpoints, kserve-llmisvc renders one that is there |
| `LogProxy` | two Loki units, one workload; downloads and restarts that fail | `PromtailFollows`: promtail has exactly the endpoints published |
| `AlertRuleSharing` | two relations of one application, one of another; files that collide, invalid ones | `RulesArrive`: nobody's rules cost another his own, who is refused is told |
| `ScrapeTargets` | two relations, two units, two pods each; jobs whose names collide, invalid ones, none | `EveryTargetScraped`: no target is lost, names differ, addresses are current |
| `ScrapeAggregator` | two applications with three units, one Prometheus; jobs, or alert rules | `TargetsFollowUnits`: what is there is published, what departed is not |
| `DashboardProvider` | two units and two revisions with files that clash; dashboards added by program | `SharesWhatLeaderHas`, through elections and upgrades |
| `DashboardConsumer` | two units of Grafana, two relations; versions, malformed and corrupt dashboards | `EveryUnitLoadsNewest` |
| `DashboardContent` | every dashboard of two panels, over six kinds of reference and four variables | `KeepsWhatPanelsShow` |
| `MeshMembership` | two labels, a foreign one, two kills | `LabelsFollowMesh` |
| `MeshPolicies` | a local and a cross-model caller, policies for an application and for units, a ready-made one | `AuthorizesRelated` |
| `ServicePatch` | two units, three revisions of the Service; calls that fail, units that are removed | `ServiceFollowsRevision` |
| `Capacity` | two nodes of seven shapes; all combinations of the options that matter | `VerdictHolds`: the check and the scheduler agree |

### Bounds, and why they are enough

- Certificates are only compared, so what matters is how many different ones can exist at once.
  Between hooks, StoredState, the webhook configurations, the running controller and the files can
  all differ (in kserve-llmisvc the key and the certificate file can too): the instances have one
  more certificate than the places that can hold one before the next is generated, so
  `gen_certs` never runs out of fresh ones. `llmisvc_relations` has no fault that loses a file or a
  container and needs three. Where no fault loses StoredState (`ksc_settles`), one
  certificate is enough. Certificates are symmetric; symmetry is only used in runs without
  liveness properties.
- Two tokens are the current one and a stale one.
- The configurations of a run are those its question can tell apart; the sets are named in
  `MCLLMIntegrator`. `Extremes` has as many owned objects as there can be and as few.
- `Offered` of LLMIntegrator are the endpoints that may be integrated: no s3-credentials in
  `llm_settles`, where no model comes from s3.
- `Given`, `Offered` and `Fickle` of KServeController say which endpoints are integrated at the
  start, may be integrated, and may lose their relation or data. In `ksc_settles` a gateway that
  fits the mode is lost by a change of the mode (Knative without its local-gateway) rather than of
  the relation, which the code reads in the same place: the fickle storage relation and the fickle
  container are what the instance can afford next to it.
- `CHECK_DEADLOCK FALSE` stands only in runs where the application is removed: a unit that is gone
  stops.

The charms have no counters, every hook starts from scratch. Of the libraries, `MaxPods` bounds the
pods a unit has (the address before and after), `MaxKills` the hooks of `MeshMembership` that are
killed: a second kill can hit the hook that repairs the first. What happens to one container,
workload or relation happens to another in the same way; where two can get into each other's way
(Loki units, relations of one application, units that share a Service, nodes) there are two or
three. KEDA scales up one Deployment at a time (`KedaScalesUp`). `libraries` asks no liveness
property, and stops where everything has happened: `CHECK_DEADLOCK FALSE`.

### Fairness

`Fairness` says of a unit that hooks keep being dispatched (Juju sends update-status for ever)
and run to their end (`WF(Reconcile)`, `WF(Remove)`), that the remove hook is run once it is due,
even though other hooks may come first (`SF(StartRemove)`), and that Kubernetes and Pebble make
progress: containers start, pods become ready, deleted objects go once nothing holds them. Nothing
is assumed about what other applications and operators do. Liveness is stated under `Calm`, that
from some moment on nothing goes wrong any more, and under a condition that holds from some moment
on (the prerequisites are there; the gateways fit; the CRD stays): an operator that converges only
when left alone is all these charms claim to be.

`RemovalCompletes` of kserve-controller further assumes that every remove hook finds the CRDs. One
that does not (`DeleteRuntimesUnrendered`: the unit was blocked before it applied them, or an
earlier remove hook deleted them and failed later) fails whenever it is run, because the charm
does not catch the `LoadResourceError` of rendering its runtimes; without the premise TLC shows
such a unit. In kserve-llmisvc, which catches it, a removal finds the CRDs or not.

`RemovalCompletes` of kserve-llmisvc further assumes the webhook answers for as long as it is
configured: when the pod is replaced during the removal the new one has no certificate and no
service, since only `_on_event` starts it, and the removal does hang.

## What is proved

Every safety property the passing runs check is proved: all invariants, all action properties, and the
refinement of `ReadinessContract`. The theorems hold for every set of certificates, tokens,
configurations, endpoints, modes, faults, labels, callers, policies, units, containers, revisions,
rule files, jobs, dashboards, nodes and options, and for any number of kills and pods. They assume
what the modules assume, the simplifications in the header of each module and the named ASSUMEs.
Most of these say what a constant is (no certificate is `NoCert`, the names of events and units
differ, a kind is one of the known ones, a set of relations or of nodes is finite) or that
something is there at all (an application has a unit). Four say more:

- `PatchAssumption`: all revisions that ask for a LoadBalancer give it one name. With two names
  TLC finds `ServiceFollowsRevision` violated: a unit is upgraded from one LoadBalancer to the
  other and removed, and takes only the second with it; units still on a revision with a
  ClusterIP have no upgrade to come that would clean up. The library lets a charm do that
  (`service_name` is an argument); no charm here does.
- `ContentAssumption`: a reference that states the type of a datasource states that of what it
  names, and no two variables of a dashboard have one name.
- `DashboardAssumption`: no two files have one place in the glob, the order they are loaded in.
- `ConsumerAssumption`: relation ids have at most two digits, so that the model can say in which
  order they come as strings; versions are naturals.

| module | theorems |
|---|---|
| `KServeLLMISVCProofs` | `TypeCorrect`, `Invariant`, `ActiveTrusted`, `ReadyInstalled`, `NothingLeftStuck`, `BaseOutlives`, `ImplementsContract` |
| `LLMIntegratorProofs` | `TypeCorrect`, `Invariant`, `SecretsAlwaysInPlace`, `ActiveOneScaler`, `RemovedLeavesNothing`, `TeardownInOrder`, `ScaledUpIsKept` |
| `KServeControllerProofs` | `TypeCorrect`, `Invariant`, `ActiveTrusted`, `ReadyInstalled`, `RemovedLeavesNothing`, `RuntimesFirst` |
| `LogMeshProofs` | `ForwardingInvariant`, `LogsAlwaysFollowLoki`, `ProxyInvariant`, `PromtailAlwaysFollows`, `MemberInvariant`, `LabelsAlwaysFollowMesh`, `PolicyInvariant`, `AlwaysAuthorizesRelated`, and the types: `LogStaysTyped`, `ProxyStaysTyped`, `MemberStaysTyped`, `PolicyStaysTyped` |
| `DashboardProofs` | `ProviderInvariant`, `AlwaysSharesWhatLeaderHas`, `DashStaysTyped`, `EveryUnitLoads`, `ContentIsKept` |
| `ScrapeProofs` | `AllRulesArrive`, `TargetsAreScraped`, `PublishedFollows` |
| `LibrariesProofs` | `ServiceFollows`, `VerdictIsRight`, `EveryPartAsSpecified`, `LibrariesStayTyped`, `LibrariesKeepTheirInvariants` |

None of the safety properties is inductive on its own. Each charm's module proves one inductive invariant
`IInv`, a conjunction of named parts, one per argument, each preserved by every action:

- `PhaseInv`: which hooks run in which part of the unit's life. A removal is never interleaved
  with a reconcile, so what it deleted stays deleted.
- `ReadyInv`: `ready=true` is staged only behind everything it promises, and what it promises is
  deleted only in a remove hook, when the relation has gone.
- `CertInv`: the argument for `ActiveIsTrusted`. Whoever serves the current certificate has no
  other pair in its files, since a hook only writes the current one and a new certificate is known
  to nobody; a hook that finds its objects admitted by the webhook has put the current certificate
  in the webhook configurations itself; and no hook that fails leaves the unit Active with outcome
  "ok".
- `RemoveInv`: each deletion of the remove hook holds until its end.
- `CredInv` and `ScalerInv` of LLMIntegrator: the hook that applies a service has applied its
  Secret and prunes only what that service does not mount; a hook that reaches its end keeps no
  ScaledObject but those of the service it applied.
- `KeepInv` of LLMIntegrator, for the action property `KeepsReplicas`: a hook that autoscales and is
  not blocked keeps the ScaledObjects of all its workers, so the calls that drop the others reset
  nothing that still scales.

The library modules have an invariant each, most on one pattern: what an actor has may lag behind
what it should have only while something that will put it right is pending. `MemberInv` follows one hook through its calls: what
it decided to set is what the mesh asks for unless another event is owed (`DecidedInTime`), what
it has patched carries that, and while nothing was killed whatever a workload has in excess is in
the ConfigMap or on the list of what the hook is going to remove. A kill only takes the last part
away, which is why `LabelsFollowMesh` claims removal for `kills = 0` alone. `PolicyInv` says what
each party may rely on while it owes no event: the databag holds the policies of the relations,
the cluster or the reconcile under way what the databag asks for; whoever changes one of them owes
the other an event, and a reconcile that fails still owes its own. `DashInv` is about every unit,
since any of them may become the leader: it keeps the files of its revision unless it owes a look
into the directory, and all that was added in it; what is shared is what the leader keeps unless
the leader owes a hook. `LogInv`: unless a relation event is
owed (`Stale`), the hook that began last has read what is published, and each container has that
in its plan, awaits that hook or owes a pebble-ready. `ProxyInv`: a promtail that should be stopped
has a departure pending, one that should run with other endpoints any change, and an installed
binary is always in the plan, so that these events find a service to restart.

`ConsumerInv` has the same form twice: the leader's peer data follow what each relation offers
unless the leader owes that relation's event (`RelationSeen`), and what a unit has loaded follows
the peer data unless it owes a peer event (`PeersFollow`). That what is loaded is the newest of
each uid is then about `Dashboards` alone, and rests on its choice being a strict order (newer
version, or else another tie-break), which has a greatest element in every finite set.

`AggInv` is about lists of entries, those of every Prometheus and the one in StoredState, from
which a Prometheus that joins is served. An entry lacks nothing of its application unless a change
is owed, and names no unit that is gone unless its departure is owed (`ListsAreSound`). That alone
is not inductive: a departure only looks at Prometheuses that have an entry of the application, and
only then writes StoredState, so what is stored has to be published somewhere
(`StoredIsPublished`), or a departed unit would come back from the store.

`PatchInv` gives every LoadBalancer that exists a unit that answers for it (`Answers`): one of a
revision that wants it, one that still has to list the LoadBalancers or has listed this one, or
one that goes and will delete it. When all hooks are over and every revision wants a ClusterIP,
none of these is left. `PortsFollow` is the other half of the property and inductive with
`StepsFit`, which says what a hook is in the middle of.

In four modules little has to be said about steps and much about operators.
`RuleInv` only adds that who was refused has been told; the proof is about `LastOfEach`: every
identifier keeps one file, the last, and Prometheus's identifiers tell relations apart.
`ScrapeInv` adds that a unit without hooks to run has published where it is; the proof is about
`DedupeJobNames`, applied to each relation and then to all: a name that occurs twice is extended by
the hash of its job, so jobs of one name are one job, and hashing loses no target. A hash is
modelled as the job itself, appended to the name: it is taken to be free of collisions, and no
name to end in the hash of another job. `ContentInv` computes what a dashboard is at each stage from what was received;
what is proved of `ConvertedDashboard` is that a variable a panel still refers to is never among
those taken out, and of `PutBack`, by the places that are still blank, that the n-th range
returns to the n-th place. Ways the conversion does go wrong are conditions of the property:
`Namesake`, `Impostor` and `Misspelt` in `DashboardContent`, and panels that are `"nested"`. `CapacityInv` says that workers run
only where they may and fit; the proof is about the sums of the check, which counts slots over
nodes, and of the scheduler, which fills them.

`EveryPartAsSpecified` is the composition: every step of `MCLibraries` is a step of one part and a
stutter of the others, so a behaviour of all is a behaviour of each, and each keeps next to the
others what was proved of it alone (`LibrariesStayTyped`, `LibrariesKeepTheirInvariants`).

`ImplementsContract` maps the readiness, the installed objects and the status of kserve-llmisvc to
`ReadinessContract`: initial states to initial states, every step to a step or a stutter
(`ContractStep`).

How recursion is proved about: the induction theorems of the library take an operator, which none
of the provers can instantiate. Where the models fold over data the proofs use the least
counterexample instead (`Least`, `SmallestSet` in `FiniteFacts`): that a recursive function is
what it should be up to n is false for a least n, which contradicts the step. A sum over a finite
set is the number of cells under its graph, which is monotone and additive because cardinality is.

Only model-checked, not proved: the liveness properties (`Converges`, `Withdraws`,
`RemovalCompletes`, `Deploys`, `Scales`, `FailureShows`, `ServesConfig`, `SharesCredentials`).
They need fairness and ENABLED, which are out of reach of the prover.

## What was found

Three statements of the repository's documentation do not hold; the runs show it, and the findings
in `PROJECT.json` quote the lines.

1. Incomplete object-storage data makes the kserve-controller hook fail (`self.logger` does not
   exist) instead of setting Blocked.
2. An s3-credentials relation that loses its data leaves the credentials in user namespaces.
3. The removal of llm-integrator fails for ever where the LLMInferenceService CRD is not served.

Others are seen in the models and written down with the hazards. The architecture page says a
model keeps its replicas if KEDA or Prometheus go away, while a relation that is removed resets
them, on purpose; one that is not ready does not (`KeepsReplicas`). kserve-llmisvc leaves
`ready=true` published by a hook that fails with an uncaught exception. Both controllers swallow a
404 in their removal and skip what they had still to delete (`RemoveNotFound`,
`DeleteConfigsNotFound`; an API that is no longer served may also answer with an error that is not
swallowed), so `NothingLeft` of kserve-controller speaks of the removals that were not cut short.
A kserve-controller removed without its CRDs never goes, see Fairness. llm-integrator reads the token twice; both controllers' certificates expire.

Of the libraries, the properties leave out on purpose what the code does not promise, and say so
in their comments: the targets of the last Loki stay in Pebble's plan; a promtail binary cut short
is not verified again; rules with one identifier replace each other in Loki; a Prometheus that
returns is given targets that left meanwhile; a dashboard's own variable named like one of COS is
taken away under panels that spell it `$name`, and any variable under the panels of collapsed rows,
which the conversion does not reach; a killed hook forgets which labels it was to
remove; a Service that is renamed is missing when the second of two calls fails; the removal of one
unit deletes the Service of all.

## What is not modelled

- Time. Waits are an action that succeeds and, with the fault `timeout`, one that gives up;
  certificates do not expire.
- More than one unit of the three charms, and their upgrades. The library modules do have several
  units and revisions where handlers tell them apart.
- The three charms composed. Each is modelled with relations that come, go and turn unready at any
  time, which is more than its neighbours do.
- The contents of manifests, images, metrics and logs, and the topology labels cos-tool puts into
  expressions.
- User objects of kserve-controller (InferenceServices and their finalizers), which its removal
  does not wait for.
- The patterns of single options in config.py, and the diagnosis of pods in workload_status.py,
  which turns one reading of the cluster into a message.
- Libraries: `GrafanaDashboardAggregator`, which none of the charms uses; TLS files of scrape jobs
  and relabelling; certificates and charm logging; of `kubernetes_manifests.py` and
  `istio_gateway_info.py` what KServeController does not use.

## Plan

Done, in this order, the most important behaviour first: KServeLLMISVC with ReadinessContract (the
hub of the readiness chain), LLMIntegrator, KServeController, and their proofs; then Capacity and
the library modules, from logs to the Service patch, their proofs, and that of their composition.
What is left:

1. `ReadinessChain`: the three charms composed through their ready relations, each an instance of
   its contract, with the relation data delayed between them. Does a model keep a control plane
   under it when the parts are removed or lost in any order?
2. A contract of kserve-controller, whose `ready=true` promises less than that of kserve-llmisvc
   (it is published in Maintenance too), and the refinement proved.
3. `WorkloadStatus`: `diagnose_workload` of workload_status.py as an operator over small sets of
   pods, against a reference definition.
4. An abstract specification of the objects llm-integrator owns (a service with its Secrets and
   scalers, switched between configurations), refined by LLMIntegrator.
