------------------------- MODULE DashboardConsumer -------------------------
(***************************************************************************)
(* GrafanaDashboardConsumer of grafana_dashboard.py: the leader of Grafana *)
(* renders the dashboards of every relation into the peer databag, and     *)
(* each unit loads what is in there when it is told of a change.           *)
(*                                                                         *)
(* Simplifications.                                                        *)
(*  - The peer relation exists, and the leader stays.                      *)
(*  - Of a dashboard the model keeps its id, its uid, its version, and     *)
(*    whether it can be decompressed and parsed.  The leader is not told   *)
(*    of its own changes to the peer databag.                              *)
(***************************************************************************)
EXTENDS Naturals, FiniteSets

CONSTANTS
  Grafanas,       \* the units of Grafana
  GrafanaLeader,  \* its leader
  Sharing,        \* the relations to charms with dashboards, numbers
  Offers          \* the sets of dashboards a charm may share

ASSUME ConsumerAssumption ==
  /\ GrafanaLeader \in Grafanas /\ Sharing \subseteq 0..99
  /\ \A o \in Offers : IsFiniteSet(o) /\ \A t \in o : t.version \in Nat /\ t.content \in Nat

VARIABLES
  giving,        \* the relations whose databag holds dashboards
  offer,         \* the dashboards in the databag of each relation
  grafanaOwed,   \* the events each unit still has to handle
  peerData,      \* the dashboards of each relation in the peer databag
  eventErrors,   \* the relations whose "event" holds errors
  loaded         \* the dashboards each unit of Grafana has loaded

consumerVars == <<giving, offer, grafanaOwed, peerData, eventErrors, loaded>>

Event(kind, r) == [kind |-> kind, relation |-> r]
GrafanaEvents ==
  {Event(k, r) : k \in {"changed", "broken"}, r \in Sharing} \cup {Event("peer", 0)}

ConsumerTypeOK ==
  /\ giving \subseteq Sharing /\ offer \in [Sharing -> Offers \cup {{}}]
  /\ grafanaOwed \in [Grafanas -> SUBSET GrafanaEvents]
  /\ DOMAIN peerData = Sharing /\ eventErrors \subseteq Sharing /\ DOMAIN loaded = Grafanas

ConsumerInit ==
  /\ giving = {} /\ offer = [r \in Sharing |-> {}]
  /\ grafanaOwed = [g \in Grafanas |-> {}]
  /\ peerData = [r \in Sharing |-> {}]
  /\ eventErrors = {}
  /\ loaded = [g \in Grafanas |-> {}]

-----------------------------------------------------------------------------
(* The charms with dashboards                                              *)

ShareDashboards(r, o) ==
  /\ offer[r] # o /\ \A g \in Grafanas : Event("broken", r) \notin grafanaOwed[g]
  /\ offer' = [offer EXCEPT ![r] = o] /\ giving' = giving \cup {r}
  /\ grafanaOwed' = [g \in Grafanas |-> grafanaOwed[g] \cup {Event("changed", r)}]
  /\ UNCHANGED <<peerData, eventErrors, loaded>>

(* The relation is removed.  Its number comes back, for a new relation,    *)
(* when nobody owes an event of the old one.                               *)
StopSharing(r) ==
  /\ r \in giving
  /\ offer' = [offer EXCEPT ![r] = {}] /\ giving' = giving \ {r}
  /\ grafanaOwed' = [g \in Grafanas |->
       (grafanaOwed[g] \ {Event("changed", r)}) \cup {Event("broken", r)}]
  /\ eventErrors' = eventErrors \ {r}
  /\ UNCHANGED <<peerData, loaded>>

-----------------------------------------------------------------------------
(* Grafana                                                                 *)

(* The numbers of relations are keys of a JSON object: they are compared   *)
(* as strings, "9" comes after "10".                                       *)
AsString(r) == IF r < 10 THEN 11 * r ELSE 11 * (r \div 10) + 1 + (r % 10)

(* dashboards: of each uid the highest version, then the last relation,    *)
(* then the greatest content; without a uid a dashboard is left out.       *)
Beats(d, e) ==
  \/ d.version > e.version
  \/ d.version = e.version /\ AsString(d.relation) > AsString(e.relation)
  \/ d.version = e.version /\ d.relation = e.relation /\ d.content > e.content

Dashboards(data) ==
  LET all == UNION {data[r] : r \in Sharing} IN
  {d \in all : d.uid # "" /\ \A e \in all : e.uid = d.uid /\ e # d => Beats(d, e)}

(* What _render_dashboards_and_signal_changed makes of the databag: a      *)
(* template that is not JSON is passed over, one that cannot be            *)
(* decompressed makes it refuse them all.                                  *)
Corrupt(r)  == \E t \in offer[r] : t.form = "corrupt"
Rendered(r) == {[uid |-> t.uid, version |-> t.version, relation |-> r, content |-> t.content] :
                  t \in {s \in offer[r] : s.form = "good"}}

(* The peer databag changes: the other units will be told; the leader      *)
(* loads the dashboards if it is signalled.                                *)
StorePeerData(data, e) ==
  /\ peerData' = data
  /\ grafanaOwed' = [g \in Grafanas |->
       IF g = GrafanaLeader THEN grafanaOwed[g] \ {e}
       ELSE IF data # peerData THEN grafanaOwed[g] \cup {Event("peer", 0)} ELSE grafanaOwed[g]]
  /\ loaded' = IF data # peerData THEN [loaded EXCEPT ![GrafanaLeader] = Dashboards(data)] ELSE loaded

(* relation-changed in the leader.  Errors stay when the dashboards become *)
(* valid again.                                                            *)
LeaderSeesChange(r) ==
  /\ Event("changed", r) \in grafanaOwed[GrafanaLeader]
  /\ StorePeerData([peerData EXCEPT ![r] = IF Corrupt(r) THEN {} ELSE Rendered(r)], Event("changed", r))
  /\ eventErrors' = IF Corrupt(r) THEN eventErrors \cup {r} ELSE eventErrors
  /\ UNCHANGED <<giving, offer>>

(* relation-broken in the leader: _remove_all_dashboards_for_relation.     *)
LeaderSeesBroken(r) ==
  /\ Event("broken", r) \in grafanaOwed[GrafanaLeader]
  /\ StorePeerData([peerData EXCEPT ![r] = {}], Event("broken", r))
  /\ UNCHANGED <<giving, offer, eventErrors>>

(* The relation events of the other units change nothing.                  *)
FollowerPasses(g, e) ==
  /\ g # GrafanaLeader /\ e \in grafanaOwed[g] /\ e.kind # "peer"
  /\ grafanaOwed' = [grafanaOwed EXCEPT ![g] = @ \ {e}]
  /\ UNCHANGED <<giving, offer, peerData, eventErrors, loaded>>

(* A bug to catch: the other units load nothing.                           *)
PeerChangedUnheard(g) ==
  /\ Event("peer", 0) \in grafanaOwed[g]
  /\ grafanaOwed' = [grafanaOwed EXCEPT ![g] = @ \ {Event("peer", 0)}]
  /\ UNCHANGED <<giving, offer, peerData, eventErrors, loaded>>

(* _on_grafana_peer_changed.                                               *)
PeerChanged(g) ==
  /\ Event("peer", 0) \in grafanaOwed[g]
  /\ grafanaOwed' = [grafanaOwed EXCEPT ![g] = @ \ {Event("peer", 0)}]
  /\ loaded' = [loaded EXCEPT ![g] = Dashboards(peerData)]
  /\ UNCHANGED <<giving, offer, peerData, eventErrors>>

ConsumerNext ==
  \/ \E r \in Sharing : \/ StopSharing(r) \/ LeaderSeesChange(r) \/ LeaderSeesBroken(r)
                        \/ \E o \in Offers : ShareDashboards(r, o)
  \/ \E g \in Grafanas : PeerChanged(g) \/ \E e \in GrafanaEvents : FollowerPasses(g, e)

ConsumerSpec == ConsumerInit /\ [][ConsumerNext]_consumerVars

-----------------------------------------------------------------------------
(* Properties                                                              *)

Shown(r) == IF Corrupt(r) THEN {} ELSE {d \in Rendered(r) : d.uid # ""}

(* Once no unit owes an event, every unit of Grafana has loaded for every  *)
(* uid that a charm still shares the newest version of it, and nothing     *)
(* that is not shared, or was refused; and a charm whose dashboards were   *)
(* refused finds an error in its databag.                                  *)
EveryUnitLoadsNewest ==
  (\A g \in Grafanas : grafanaOwed[g] = {}) =>
    LET all == UNION {Shown(r) : r \in Sharing} IN
    /\ \A g \in Grafanas :
         /\ loaded[g] \subseteq all
         /\ \A d \in all : Cardinality({e \in loaded[g] : e.uid = d.uid}) = 1
         /\ \A d \in all, e \in loaded[g] : e.uid = d.uid => e.version >= d.version
    /\ \A r \in Sharing : Corrupt(r) => r \in eventErrors
=============================================================================
