---------------------------- MODULE MCLibraries ----------------------------
(* The charm libraries and the capacity check, side by side.  They share   *)
(* no state, so a behaviour is about one of them, its focus, and the       *)
(* others rest in an initial state.                                        *)
EXTENDS LogForwarding, LogProxy, AlertRuleSharing, ScrapeTargets, ScrapeAggregator,
        DashboardProvider, DashboardConsumer, DashboardContent, MeshMembership, MeshPolicies,
        ServicePatch, Capacity

VARIABLE focus

-----------------------------------------------------------------------------
(* Instances                                                               *)

(* Two Loki applications, one of them with two units.                      *)
LokiUnits == {"l0", "l1", "m0"}
LokiApps == [u \in LokiUnits |-> IF u = "m0" THEN "m" ELSE "l"]

(* Alert rules: two relations of one application and one of another.  Of   *)
(* the same group twice, of files that share a stem, and invalid.          *)
RulesIn(dir, stem, format, groups, good) ==
  [dir |-> dir, stem |-> stem, format |-> format, groups |-> groups, good |-> good]
OneFile == RulesIn("", "a", "official", {"g"}, TRUE)
Directories ==
  {{OneFile, RulesIn("", "b", "official", {"g"}, TRUE)},
   {OneFile, RulesIn("", "a", "single", {}, TRUE), RulesIn("sub", "a", "single", {}, TRUE)},
   {RulesIn("", "a", "invalid", {}, FALSE)}}
RuleApps == <<"x", "x", "y">>

(* Scrape jobs: plain ones, some whose names collide once the unit is      *)
(* appended, two default ones, one that promtool refuses, and none.        *)
Target(host, port) == [host |-> host, port |-> port]
Job(name, configs) == [name |-> name, configs |-> configs, good |-> TRUE]
JobLists ==
  {<<Job(<<"a">>, <<{Target("*", 1)}>>), Job(<<"b">>, <<{Target("*", 2), Target("h", 2)}>>)>>,
   <<Job(<<"a">>, <<{Target("*", 1)}, {Target("*", 2)}>>), Job(<<"a", "u0">>, <<{Target("h", 2)}>>)>>,
   <<Job(<< >>, << >>), Job(<< >>, << >>)>>,
   <<Job(<<"a">>, <<{Target("*", 1)}>>), [Job(<<"b">>, << >>) EXCEPT !.good = FALSE]>>, << >>}
LookasideJobs == <<Job(<<"a">>, <<{Target("h", 3)}>>)>>
EarlierRelations == [e \in {"e1", "e2"} |-> IF e = "e1" THEN 0 ELSE 1]

(* Two applications: one changes what it contributes, the other has units. *)
UnitsOfApps == [a \in {"a", "b"} |-> IF a = "a" THEN {"a0", "a1"} ELSE {"b0"}]
ValuesOfApps == [a \in {"a", "b"} |-> IF a = "a" THEN {"v"} ELSE {"v", "w"}]

(* Dashboards of two revisions, two files of one stem and one that is not  *)
(* JSON among them, and a programmatic one.                                 *)
File(stem, at, text, size) ==
  [stem |-> stem, at |-> at, json |-> TRUE, content |-> [text |-> text, size |-> size]]
DashboardFiles ==
  {{File("a", 1, "x", 1)},
   {File("a", 1, "x", 1), File("a", 2, "y", 1), File("b", 3, "z", 2), [File("c", 4, "q", 2) EXCEPT !.json = FALSE]}}
DashboardPrograms == {[text |-> "p", size |-> 5]}

(* Dashboards offered: other versions of one uid, malformed and corrupt.   *)
Offer(uid, version, content, form) == [uid |-> uid, version |-> version, content |-> content, form |-> form]
DashboardOffers ==
  {{Offer("u", 1, 2, "good"), Offer("u", 2, 1, "good"), Offer("", 1, 1, "good")},
   {Offer("v", 1, 1, "good"), Offer("u", 2, 1, "good"), Offer("u", 3, 1, "json")},
   {Offer("u", 3, 1, "corrupt"), Offer("v", 1, 1, "good")}}

(* References to a variable, an input, a variable named like one of ours   *)
(* with and without braces, and to no variable at all.                     *)
Ref(style, name, braces, kind) == [style |-> style, name |-> name, braces |-> braces, kind |-> kind]
PanelRefs ==
  {Ref("text", "a", TRUE, "unknown"), Ref("text", "b", TRUE, "unknown"), Ref("object", "b", TRUE, "loki"),
   Ref("text", "prometheusds", TRUE, "unknown"),
   Ref("text", "prometheusds", FALSE, "unknown"), Ref("text", "c", TRUE, "unknown")}
Variable(name, kind) == [name |-> name, kind |-> kind, own |-> TRUE]
PanelVariables ==
  {Variable("a", "prometheus"), Variable("b", "loki"), Variable("c", "other"), Variable("prometheusds", "prometheus")}

PanelExpressions == {<<"5m", "1h">>}

(* A policy for an application and one for its units, a caller of another  *)
(* model, and a ready-made policy.                                         *)
MeshAccess ==
  {[relation |-> "logs", type |-> "app", service |-> "", ports |-> {80}, l7 |-> TRUE],
   [relation |-> "logs", type |-> "unit", service |-> "", ports |-> {90}, l7 |-> FALSE]}
RemoteCallers == [a \in {"remote"} |-> [app |-> "far", model |-> "other"]]
ReadyMade == {[source |-> [app |-> "any", model |-> "any"], kind |-> "selector", target |-> "own", ports |-> {}, l7 |-> FALSE]}

(* Revisions with other ports, and one with a LoadBalancer.                *)
Want(name, type, ports) == [name |-> name, type |-> type, ports |-> ports]
ServiceWants == {Want("app", "ClusterIP", "p1"), Want("svc", "ClusterIP", "p2"), Want("app-lb", "LoadBalancer", "p2")}

(* Nodes with and without GPUs, a cordoned one and two with taints.        *)
Node(cpu, memory, gpu) ==
  [allocatable |-> [cpu |-> cpu, memory |-> memory, gpu |-> gpu], taints |-> {}, unschedulable |-> FALSE]
NodeShapes ==
  {Node(4, 4, 0), Node(2, 6, 1), Node(6, 3, 2), Node(8, 8, 4), [Node(8, 8, 4) EXCEPT !.unschedulable = TRUE],
   [Node(8, 8, 4) EXCEPT !.taints = {"NoExecute"}], [Node(4, 6, 2) EXCEPT !.taints = {"PreferNoSchedule"}]}
WorkerOptions ==
  [accelerator : {"cpu", "nvidia-gpu"}, gpuCount : {0, 2}, cpuRequest : {0, 9}, cpuLimit : {9},
   memoryRequest : {9}, memoryLimit : {9}, minReplicas : {0, 1, 2}, maxReplicas : {2}, prefill : BOOLEAN]
WorkerDefaults ==
  [a \in {"cpu", "nvidia-gpu"} |->
     [cpuRequest |-> IF a = "cpu" THEN 1 ELSE 2, cpuLimit |-> 4, memoryRequest |-> 3, memoryLimit |-> 4]]

-----------------------------------------------------------------------------
Parts == {"logs", "proxy", "rules", "scrape", "aggregator", "provider", "consumer", "content",
          "member", "policies", "patch", "capacity"}

LibrariesInit ==
  /\ focus \in Parts
  /\ LogInit /\ ProxyInit /\ RuleInit /\ ScrapeInit
  /\ AggInit /\ (focus # "aggregator" => part = "jobs")
  /\ DashInit /\ ConsumerInit /\ ContentInit /\ MemberInit /\ PolicyInit
  /\ PatchInit /\ (focus # "patch" => \A u \in PatchUnits : wants[u] = CHOOSE w \in PatchWants : TRUE)
  /\ CapacityInit

OthersRest ==
  /\ UNCHANGED focus
  /\ IF focus = "logs" THEN TRUE ELSE UNCHANGED logVars
  /\ IF focus = "proxy" THEN TRUE ELSE UNCHANGED proxyVars
  /\ IF focus = "rules" THEN TRUE ELSE UNCHANGED ruleVars
  /\ IF focus = "scrape" THEN TRUE ELSE UNCHANGED scrapeVars
  /\ IF focus = "aggregator" THEN TRUE ELSE UNCHANGED aggVars
  /\ IF focus = "provider" THEN TRUE ELSE UNCHANGED dashVars
  /\ IF focus = "consumer" THEN TRUE ELSE UNCHANGED consumerVars
  /\ IF focus = "content" THEN TRUE ELSE UNCHANGED contentVars
  /\ IF focus = "member" THEN TRUE ELSE UNCHANGED memberVars
  /\ IF focus = "policies" THEN TRUE ELSE UNCHANGED policyVars
  /\ IF focus = "patch" THEN TRUE ELSE UNCHANGED patchVars
  /\ IF focus = "capacity" THEN TRUE ELSE UNCHANGED capacityVars

LogStep == focus = "logs" /\ LogNext /\ OthersRest
ProxyStep == focus = "proxy" /\ ProxyNext /\ OthersRest
RuleStep == focus = "rules" /\ RuleNext /\ OthersRest
ScrapeStep == focus = "scrape" /\ ScrapeNext /\ OthersRest
AggStep == focus = "aggregator" /\ AggNext /\ OthersRest
DashStep == focus = "provider" /\ DashNext /\ OthersRest
ConsumerStep == focus = "consumer" /\ ConsumerNext /\ OthersRest
ContentStep == focus = "content" /\ ContentNext /\ OthersRest
MemberStep == focus = "member" /\ MemberNext /\ OthersRest
PolicyStep == focus = "policies" /\ PolicyNext /\ OthersRest
PatchStep == focus = "patch" /\ PatchNext /\ OthersRest
CapacityStep == focus = "capacity" /\ CapacityNext /\ OthersRest

LibrariesNext ==
  \/ LogStep \/ ProxyStep \/ RuleStep \/ ScrapeStep \/ AggStep \/ DashStep
  \/ ConsumerStep \/ ContentStep \/ MemberStep \/ PolicyStep \/ PatchStep \/ CapacityStep

LibrariesSpec == LibrariesInit /\ [][LibrariesNext]_<<focus, logVars, proxyVars, ruleVars, scrapeVars, aggVars, dashVars, consumerVars, contentVars, memberVars, policyVars, patchVars, capacityVars>>

(* What moves has its type: databags hold what the code writes into them,  *)
(* a hook is about something it can be about, nothing is due of what is    *)
(* not there.                                                              *)
LibrariesTypeOK ==
  /\ focus = "logs" => LogTypeOK
  /\ focus = "proxy" => ProxyTypeOK
  /\ focus = "rules" => RuleTypeOK
  /\ focus = "scrape" => ScrapeTypeOK
  /\ focus = "aggregator" => AggTypeOK
  /\ focus = "provider" => DashTypeOK
  /\ focus = "consumer" => ConsumerTypeOK
  /\ focus = "content" => ContentTypeOK
  /\ focus = "member" => MemberTypeOK
  /\ focus = "policies" => PolicyTypeOK
  /\ focus = "patch" => PatchTypeOK
  /\ focus = "capacity" => CapacityTypeOK
=============================================================================
