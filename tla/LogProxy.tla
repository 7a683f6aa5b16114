------------------------------ MODULE LogProxy ------------------------------
(***************************************************************************)
(* LogProxyConsumer of charms/kserve-llmisvc/lib/charms/loki_k8s/v1/       *)
(* loki_push_api.py: a promtail that the charm installs into its workload  *)
(* containers, and configures with the endpoints of the related Loki.      *)
(*                                                                         *)
(* Simplifications.                                                        *)
(*  - One relation; a Loki unit leaves relation.units when it leaves, its  *)
(*    relation-departed follows.  A failed hook is run again before any    *)
(*    other.  A hook handles one container per step.                       *)
(*  - Of promtail's configuration only the clients are kept; the binary is *)
(*    missing, good or corrupted.  Events for the charm are left out.      *)
(***************************************************************************)
EXTENDS Naturals, FiniteSets

CONSTANTS
  Lokis,        \* the units of the related Loki
  Workloads,    \* the containers of logs_scheme
  Attached,     \* a promtail binary is attached to the charm as a resource
  ProxyFaults   \* which misfortunes may happen

AllProxyFaults == {"restart",   \* a container is restarted: files and plan are lost
                   "network",   \* a download fails
                   "corrupt"}   \* a download succeeds with the wrong bytes

RelationEvents == {"created", "changed", "departed"}

ASSUME ProxyAssumption ==
  /\ Attached \in BOOLEAN /\ ProxyFaults \subseteq AllProxyFaults
  /\ Workloads \cap (RelationEvents \cup {"idle"}) = {}

VARIABLES
  integrated,  \* the relation exists
  offered,     \* its application databag holds promtail_binary_zip_url
  lokis,       \* relation.units
  publishing,  \* those of them with an endpoint in their databag
  owed,        \* the events Juju owes the charm: names of relation events, or containers
  proxyHook,   \* the event of the running hook, "idle" between hooks
  failed,      \* the running hook has failed and is to be run again
  visiting,    \* the containers it has not visited yet
  answering,   \* the containers whose Pebble answers
  cached,      \* the binary in the charm container
  binary,      \* the binary in each workload container
  clients,     \* the clients in its configuration file, for which units
  promtail     \* its service: "absent" from the plan, "stopped", or its running clients

relationVars == <<integrated, offered, lokis, publishing>>
proxyHookVars == <<proxyHook, failed, visiting>>
containerVars == <<answering, cached, binary, clients, promtail>>
proxyVars == <<relationVars, owed, proxyHookVars, containerVars>>

Binaries == {"none", "good", "bad"}

ProxyTypeOK ==
  /\ integrated \in BOOLEAN /\ offered \in BOOLEAN /\ failed \in BOOLEAN
  /\ lokis \subseteq Lokis /\ publishing \subseteq lokis
  /\ owed \subseteq RelationEvents \cup Workloads
  /\ proxyHook \in RelationEvents \cup Workloads \cup {"idle"}
  /\ visiting \subseteq Workloads /\ answering \subseteq Workloads
  /\ cached \in Binaries /\ binary \in [Workloads -> Binaries]
  /\ clients \in [Workloads -> SUBSET Lokis]
  /\ DOMAIN promtail = Workloads
  /\ \A w \in Workloads : promtail[w] \in {<<"absent">>, <<"stopped">>} \/ promtail[w][1] = "running"

ProxyInit ==
  /\ integrated = FALSE /\ offered = FALSE /\ lokis = {} /\ publishing = {}
  /\ owed = Workloads /\ proxyHook = "idle" /\ failed = FALSE /\ visiting = {}
  /\ answering = Workloads /\ cached = "none"
  /\ binary = [w \in Workloads |-> "none"]
  /\ clients = [w \in Workloads |-> {}]
  /\ promtail = [w \in Workloads |-> <<"absent">>]

Absent(w)  == promtail[w] = <<"absent">>
Running(w) == promtail[w][1] = "running"

-----------------------------------------------------------------------------
(* Loki, Juju and Kubernetes                                               *)

IntegrateLoki ==
  /\ ~integrated
  /\ integrated' = TRUE /\ owed' = owed \cup {"created"}
  /\ UNCHANGED <<offered, lokis, publishing, proxyHookVars, containerVars>>

LokiJoins(u) ==
  /\ integrated /\ u \notin lokis
  /\ lokis' = lokis \cup {u} /\ owed' = owed \cup {"changed"}
  /\ UNCHANGED <<integrated, offered, publishing, proxyHookVars, containerVars>>

(* _on_logging_relation_joined of LokiPushApiProvider, in the leader.      *)
OfferPromtail ==
  /\ lokis # {} /\ ~offered
  /\ offered' = TRUE /\ owed' = owed \cup {"changed"}
  /\ UNCHANGED <<integrated, lokis, publishing, proxyHookVars, containerVars>>

PublishEndpoint(u) ==
  /\ u \in lokis \ publishing
  /\ publishing' = publishing \cup {u} /\ owed' = owed \cup {"changed"}
  /\ UNCHANGED <<integrated, offered, lokis, proxyHookVars, containerVars>>

LokiDeparts(u) ==
  /\ u \in lokis
  /\ lokis' = lokis \ {u} /\ publishing' = publishing \ {u}
  /\ owed' = owed \cup {"departed"}
  /\ UNCHANGED <<integrated, offered, proxyHookVars, containerVars>>

WorkloadRestarts(w) ==
  /\ "restart" \in ProxyFaults /\ w \in answering
  /\ answering' = answering \ {w} /\ owed' = owed \ {w}
  /\ binary' = [binary EXCEPT ![w] = "none"] /\ clients' = [clients EXCEPT ![w] = {}]
  /\ promtail' = [promtail EXCEPT ![w] = <<"absent">>]
  /\ UNCHANGED <<relationVars, proxyHookVars, cached>>

WorkloadStarts(w) ==
  /\ w \notin answering
  /\ answering' = answering \cup {w} /\ owed' = owed \cup {w}
  /\ UNCHANGED <<relationVars, proxyHookVars, cached, binary, clients, promtail>>

-----------------------------------------------------------------------------
(* The hooks                                                               *)

StartProxyHook(e) ==
  /\ proxyHook = "idle" /\ e \in owed
  /\ "created" \in owed /\ e \in RelationEvents => e = "created"
  /\ owed' = owed \ {e} /\ proxyHook' = e
  /\ visiting' = IF e \in Workloads THEN {e} ELSE Workloads
  /\ UNCHANGED <<relationVars, failed, containerVars>>

(* The hook returns to w no more; or it raises, and starts over.           *)
Visited(w) == visiting' = visiting \ {w} /\ UNCHANGED <<proxyHook, failed>>
Raises     == failed' = TRUE /\ UNCHANGED <<proxyHook, visiting>>

(* _promtail_must_be_downloaded: the checksum is compared with that of the *)
(* copy in the charm container, never with what was just downloaded.       *)
MustDownload == ~Attached /\ cached # "good"

(* A URLError is swallowed.                                                *)
Download(w) ==
  \/ \E got \in {"good"} \cup (IF "corrupt" \in ProxyFaults THEN {"bad"} ELSE {}) :
       cached' = got /\ binary' = [binary EXCEPT ![w] = got]
  \/ "network" \in ProxyFaults /\ UNCHANGED <<cached, binary>>

(* _ensure_promtail_binary: an installed binary is never looked at again.  *)
EnsureBinary(w) ==
  \/ binary[w] # "none" /\ UNCHANGED <<cached, binary>>
  \/ binary[w] = "none" /\ MustDownload /\ Download(w)
  \/ /\ binary[w] = "none" /\ ~MustDownload
     /\ binary' = [binary EXCEPT ![w] = "good"] /\ UNCHANGED cached

(* _setup_promtail: nothing without promtail_binary_zip_url.  A restart    *)
(* that fails because there is no usable binary is swallowed too.          *)
SetupPromtail(w) ==
  IF ~offered THEN UNCHANGED <<cached, binary, clients, promtail>>
  ELSE /\ EnsureBinary(w)
       /\ clients' = [clients EXCEPT ![w] = publishing]
       /\ promtail' = [promtail EXCEPT ![w] =
            IF publishing = {} THEN (IF Absent(w) THEN <<"stopped">> ELSE @)
            ELSE IF binary'[w] = "good" THEN <<"running", publishing>> ELSE <<"stopped">>]

(* container.restart of a service in the plan: raises without a binary.    *)
Restart(w) ==
  IF binary[w] = "good"
  THEN promtail' = [promtail EXCEPT ![w] = <<"running", publishing>>] /\ Visited(w)
  ELSE promtail' = [promtail EXCEPT ![w] = <<"stopped">>] /\ Raises

Reconfigure(w) ==
  /\ clients' = [clients EXCEPT ![w] = publishing]
  /\ UNCHANGED <<cached, binary>>

(* _on_relation_created and _on_pebble_ready.                              *)
VisitToSetUp(w) ==
  /\ proxyHook \in {"created"} \cup Workloads
  /\ IF proxyHook = "created" \/ integrated
     THEN SetupPromtail(w) ELSE UNCHANGED <<cached, binary, clients, promtail>>
  /\ Visited(w)

(* _on_relation_changed; without clients the service stays as it is.       *)
VisitChanged(w) ==
  /\ proxyHook = "changed"
  /\ \/ Absent(w) /\ SetupPromtail(w) /\ Visited(w)
     \/ ~Absent(w) /\ publishing # {} /\ Reconfigure(w) /\ Restart(w)
     \/ ~Absent(w) /\ publishing = {} /\ Reconfigure(w) /\ Visited(w) /\ UNCHANGED promtail

(* A bug to catch: a departure is only taken note of in the configuration. *)
VisitDepartedQuietly(w) ==
  proxyHook = "departed" /\ Reconfigure(w) /\ Visited(w) /\ UNCHANGED promtail

(* _on_relation_departed: restart and stop raise when the plan has no      *)
(* promtail.                                                               *)
VisitDeparted(w) ==
  /\ proxyHook = "departed"
  /\ Reconfigure(w)
  /\ \/ Absent(w) /\ Raises /\ UNCHANGED promtail
     \/ ~Absent(w) /\ publishing # {} /\ Restart(w)
     \/ /\ ~Absent(w) /\ publishing = {} /\ Visited(w)
        /\ promtail' = [promtail EXCEPT ![w] = <<"stopped">>]

Visit(w) ==
  /\ ~failed /\ w \in visiting \cap answering
  /\ VisitToSetUp(w) \/ VisitChanged(w) \/ VisitDeparted(w)
  /\ UNCHANGED <<relationVars, owed, answering>>

(* can_connect is false; the hook of pebble-ready itself fails.            *)
Unreachable(w) ==
  /\ ~failed /\ w \in visiting \ answering
  /\ IF proxyHook = w THEN Raises ELSE Visited(w)
  /\ UNCHANGED <<relationVars, owed, containerVars>>

RetryProxyHook ==
  /\ failed
  /\ failed' = FALSE /\ visiting' = IF proxyHook \in Workloads THEN {proxyHook} ELSE Workloads
  /\ UNCHANGED <<relationVars, owed, proxyHook, containerVars>>

FinishProxyHook ==
  /\ proxyHook # "idle" /\ visiting = {}
  /\ proxyHook' = "idle"
  /\ UNCHANGED <<relationVars, owed, failed, visiting, containerVars>>

-----------------------------------------------------------------------------
ProxyNext ==
  \/ IntegrateLoki \/ OfferPromtail
  \/ \E u \in Lokis : LokiJoins(u) \/ PublishEndpoint(u) \/ LokiDeparts(u)
  \/ \E e \in RelationEvents \cup Workloads : StartProxyHook(e)
  \/ \E w \in Workloads : WorkloadRestarts(w) \/ WorkloadStarts(w) \/ Visit(w) \/ Unreachable(w)
  \/ RetryProxyHook \/ FinishProxyHook

ProxySpec == ProxyInit /\ [][ProxyNext]_proxyVars

-----------------------------------------------------------------------------
(* Properties                                                              *)

ProxyQuiet(w) == proxyHook = "idle" /\ owed = {} /\ w \in answering

(* With a usable binary promtail runs with exactly the endpoints published *)
(* once no event is owed, and is stopped when there are none, whatever was *)
(* restarted, joined or departed before and in which order.                *)
PromtailFollows ==
  \A w \in Workloads :
    ProxyQuiet(w) /\ offered /\ binary[w] = "good" =>
      IF publishing = {} THEN ~Running(w) ELSE promtail[w] = <<"running", publishing>>
=============================================================================
