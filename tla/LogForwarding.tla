--------------------------- MODULE LogForwarding ----------------------------
(***************************************************************************)
(* Pebble log forwarding as both controller charms do it (LogForwarder and *)
(* _PebbleLogClient of charms/kserve-llmisvc/lib/charms/loki_k8s/v1/       *)
(* loki_push_api.py), the Loki units that publish their endpoints          *)
(* (LokiPushApiProvider), and the endpoint kserve-llmisvc renders into its *)
(* LLMInferenceServiceConfigs (_loki_url of src/charm.py).                 *)
(*                                                                         *)
(* Simplifications.                                                        *)
(*  - A unit's hooks run one at a time; Juju runs a failed hook again      *)
(*    before any other.  A hook handles one container per step.            *)
(*  - An endpoint is unset, the address of the Loki unit ("local") or that *)
(*    of an ingress; malformed data counts as unset, as in is_ready.       *)
(*  - Labels of a target are left out; AlertRuleSharing has the rules.  As *)
(*    anything the charm writes into a relation makes Juju run the Loki    *)
(*    unit's relation-changed, that hook may run at any time.              *)
(***************************************************************************)
EXTENDS Naturals, FiniteSets

CONSTANTS
  Units,       \* the Loki units there may be
  AppOf,       \* the application of a Loki unit, one relation each
  Containers,  \* the workload containers of the charm
  Ingressed,   \* the Loki units that may get the address of an ingress
  LogFaults    \* "container": a container stops, and loses its Pebble plan

Apps == {AppOf[u] : u \in Units}
Urls == {"local", "ingress"}

ASSUME LogAssumption ==
  /\ AppOf \in [Units -> Apps] /\ "nobody" \notin Units
  /\ Containers \cap {"none", "relation"} = {}
  /\ Ingressed \subseteq Units /\ LogFaults \subseteq {"container"}

VARIABLES
  alive,       \* the Loki units there are
  endpoint,    \* what each of them has published
  members,     \* relation.units: the Loki units this charm has seen join
  dirty,       \* the Loki units it owes a relation-changed
  ending,      \* the relations it owes a relation-broken
  reach,       \* the containers whose Pebble answers
  readyDue,    \* the containers it owes a pebble-ready
  hook,        \* "idle", "running", or "failed" and to be run again
  event,       \* what the hook is about: a relation, or a container that is ready
  targets,     \* the endpoints the hook retrieved from relation data
  todo,        \* the containers it has not visited yet
  plan,        \* the log targets in each container's Pebble plan
  rendered     \* loki_url in the LLMInferenceServiceConfigs: the unit it is of

lokiVars == <<alive, endpoint>>
jujuVars == <<members, dirty, ending>>
podVars  == <<reach, readyDue, plan>>
hookVars == <<hook, event, targets, todo>>
logVars  == <<lokiVars, jujuVars, podVars, hookVars, rendered>>

Nothing == [u \in {} |-> "unset"]

LogTypeOK ==
  /\ alive \subseteq Units /\ members \subseteq Units
  /\ dirty \subseteq Units
  /\ endpoint \in [Units -> Urls \cup {"unset"}]
  /\ ending \subseteq Apps
  /\ reach \subseteq Containers /\ readyDue \subseteq reach /\ todo \subseteq Containers
  /\ hook \in {"idle", "running", "failed"}
  /\ event \in {"none", "relation"} \cup Containers
  /\ DOMAIN targets \subseteq Units /\ \A u \in DOMAIN targets : targets[u] \in Urls
  /\ plan \in [Containers -> [Units -> Urls \cup {"none", "off"}]]
  /\ rendered \in Units \cup {"nobody"}

LogInit ==
  /\ alive = {} /\ members = {} /\ dirty = {} /\ ending = {}
  /\ endpoint = [u \in Units |-> "unset"]
  /\ reach = Containers /\ readyDue = Containers
  /\ hook = "idle" /\ event = "none" /\ targets = Nothing /\ todo = {}
  /\ plan = [c \in Containers |-> [u \in Units |-> "none"]]
  /\ rendered = "nobody"

-----------------------------------------------------------------------------
(* The Loki units, and Juju                                                *)

LokiArrives(u) ==
  /\ u \notin alive \cup members /\ AppOf[u] \notin ending
  /\ alive' = alive \cup {u}
  /\ endpoint' = [endpoint EXCEPT ![u] = "unset"]
  /\ UNCHANGED <<jujuVars, podVars, hookVars, rendered>>

LokiLeaves(u) ==
  /\ u \in alive
  /\ alive' = alive \ {u} /\ dirty' = dirty \ {u}
  /\ UNCHANGED <<endpoint, members, ending, podVars, hookVars, rendered>>

(* update_endpoint: units that have joined are told by a relation-changed. *)
Publish(u, url) ==
  /\ endpoint' = [endpoint EXCEPT ![u] = url]
  /\ dirty' = IF endpoint[u] # url THEN dirty \cup ({u} \cap members) ELSE dirty

(* The relation-changed of a Loki unit resets its endpoint to its own      *)
(* address, whatever was published before.                                 *)
ProviderChanged(u) ==
  /\ u \in alive
  /\ Publish(u, "local")
  /\ UNCHANGED <<alive, members, ending, podVars, hookVars, rendered>>

IngressReady(u) ==
  /\ u \in alive \cap Ingressed
  /\ Publish(u, "ingress")
  /\ UNCHANGED <<alive, members, ending, podVars, hookVars, rendered>>

ContainerStops(c) ==
  /\ "container" \in LogFaults /\ c \in reach
  /\ reach' = reach \ {c} /\ readyDue' = readyDue \ {c}
  /\ plan' = [plan EXCEPT ![c] = [u \in Units |-> "none"]]
  /\ UNCHANGED <<lokiVars, jujuVars, hookVars, rendered>>

ContainerStarts(c) ==
  /\ c \notin reach
  /\ reach' = reach \cup {c} /\ readyDue' = readyDue \cup {c}
  /\ UNCHANGED <<lokiVars, jujuVars, plan, hookVars, rendered>>

-----------------------------------------------------------------------------
(* The hooks                                                               *)

(* is_ready and _extract_urls: a unit without an endpoint raises a         *)
(* KeyError, which makes its whole relation not ready.                     *)
IsReady(a, ms) ==
  LET us == {u \in ms : AppOf[u] = a} IN us # {} /\ \A u \in us : endpoint[u] \in Urls

Retrieve(ms) == [u \in {m \in ms : IsReady(AppOf[m], ms)} |-> endpoint[u]]

(* _loki_url: one of the endpoints published, the relation ready or not.   *)
LokiUrl(ms) ==
  LET us == {u \in ms : endpoint[u] \in Urls} IN IF us = {} THEN "nobody" ELSE CHOOSE u \in us : TRUE

(* _update_logging and _on_pebble_ready: nothing is done without endpoints. *)
Begin(e, ms, cs) ==
  LET found == Retrieve(ms) IN
  /\ members' = ms
  /\ rendered' = LokiUrl(ms)
  /\ IF DOMAIN found = {}
     THEN /\ hook' = "idle" /\ event' = "none" /\ targets' = Nothing /\ todo' = {}
     ELSE /\ hook' = "running" /\ event' = e /\ targets' = found /\ todo' = cs

Joined(u) ==
  /\ hook = "idle" /\ u \in alive \ members
  /\ Begin("relation", members \cup {u}, Containers)
  /\ dirty' = dirty \cup {u}
  /\ UNCHANGED <<lokiVars, ending, podVars>>

Changed(u) ==
  /\ hook = "idle" /\ u \in dirty \cap members
  /\ Begin("relation", members, Containers)
  /\ dirty' = dirty \ {u}
  /\ UNCHANGED <<lokiVars, ending, podVars>>

(* When the last unit of an application has left, its relation goes.       *)
Departed(u) ==
  LET rest == members \ {u} IN
  /\ hook = "idle" /\ u \in members \ alive
  /\ Begin("relation", rest, Containers)
  /\ ending' = IF \A v \in rest \cup alive : AppOf[v] # AppOf[u]
               THEN ending \cup {AppOf[u]} ELSE ending
  /\ UNCHANGED <<lokiVars, dirty, podVars>>

Broken(a) ==
  /\ hook = "idle" /\ a \in ending
  /\ Begin("relation", members, Containers)
  /\ ending' = ending \ {a}
  /\ UNCHANGED <<lokiVars, dirty, podVars>>

PebbleReady(c) ==
  /\ hook = "idle" /\ c \in readyDue
  /\ Begin(c, members, {c})
  /\ readyDue' = readyDue \ {c}
  /\ UNCHANGED <<lokiVars, dirty, ending, reach, plan>>

DisableInactive(p, active) ==
  [u \in Units |-> IF p[u] \in Urls /\ u \notin DOMAIN active THEN "off" ELSE p[u]]

(* A bug to catch: only endpoints the plan does not know are added.        *)
EnableNewEndpoints(p, active) ==
  [u \in Units |-> IF u \in DOMAIN active /\ p[u] = "none" THEN active[u] ELSE p[u]]

EnableEndpoints(p, active) ==
  [u \in Units |-> IF u \in DOMAIN active THEN active[u] ELSE p[u]]

UpdateEndpoints(c) ==
  /\ hook = "running" /\ c \in todo \cap reach
  /\ plan' = [plan EXCEPT ![c] = EnableEndpoints(DisableInactive(@, targets), targets)]
  /\ todo' = todo \ {c}
  /\ UNCHANGED <<lokiVars, jujuVars, reach, readyDue, hook, event, targets, rendered>>

(* can_connect is false: pebble-ready will see to this container.          *)
SkipContainer(c) ==
  /\ hook = "running" /\ c \in todo \ reach /\ event = "relation"
  /\ todo' = todo \ {c}
  /\ UNCHANGED <<lokiVars, jujuVars, podVars, hook, event, targets, rendered>>

(* The container goes away under a call, and the hook fails.  What the     *)
(* calls before it added to the plan is lost with the container.           *)
HookFails(c) ==
  /\ hook = "running" /\ c \in todo \ reach
  /\ hook' = "failed"
  /\ UNCHANGED <<lokiVars, jujuVars, podVars, event, targets, todo, rendered>>

RunAgain ==
  /\ hook = "failed"
  /\ Begin(event, members, IF event = "relation" THEN Containers ELSE {event})
  /\ UNCHANGED <<lokiVars, dirty, ending, podVars>>

FinishHook ==
  /\ hook = "running" /\ todo = {}
  /\ hook' = "idle" /\ event' = "none" /\ targets' = Nothing
  /\ UNCHANGED <<lokiVars, jujuVars, podVars, todo, rendered>>

-----------------------------------------------------------------------------
LogHook ==
  \/ \E u \in Units : Joined(u) \/ Changed(u) \/ Departed(u)
  \/ \E a \in Apps : Broken(a)
  \/ \E c \in Containers : \/ PebbleReady(c) \/ UpdateEndpoints(c)
                           \/ SkipContainer(c) \/ HookFails(c)
  \/ RunAgain \/ FinishHook

LogWorld == \/ \E u \in Units : ProviderChanged(u)
            \/ \E c \in Containers : ContainerStarts(c)

LogDisturb ==
  \/ \E u \in Units : LokiArrives(u) \/ LokiLeaves(u) \/ IngressReady(u)
  \/ \E c \in Containers : ContainerStops(c)

LogNext == LogHook \/ LogWorld \/ LogDisturb
LogSpec == LogInit /\ [][LogNext]_logVars

-----------------------------------------------------------------------------
(* Properties                                                              *)

(* The log targets of a container that are switched on.                    *)
Forwarding(c) == [u \in {v \in Units : plan[c][v] \in Urls} |-> plan[c][u]]

(* Nothing is under way that could still change the plan of c.             *)
Quiet(c) ==
  /\ hook = "idle" /\ c \in reach \ readyDue
  /\ members = alive /\ dirty = {}

ForwardsToActive ==
  \A c \in Containers :
    Quiet(c) /\ DOMAIN Retrieve(members) # {} => Forwarding(c) = Retrieve(members)

RendersLiveLoki ==
  hook = "idle" /\ members = alive /\ dirty = {} =>
    /\ rendered = "nobody" <=> \A u \in alive : endpoint[u] = "unset"
    /\ rendered # "nobody" => rendered \in alive

(* Whatever order Loki units join, publish, move and leave in, containers  *)
(* restart and hooks fail in: once Juju owes the charm no event, every     *)
(* container that answers forwards its logs to exactly the endpoints of    *)
(* the ready relations, provided there is one, and the configs name a Loki *)
(* unit that is still there.  Without any ready relation the targets of    *)
(* the last Loki stay on: _update_logging returns before the update.       *)
LogsFollowLoki == ForwardsToActive /\ RendersLiveLoki
=============================================================================
