-------------------------- MODULE ScrapeAggregator --------------------------
(***************************************************************************)
(* MetricsEndpointAggregator of prometheus_scrape.py: the scrape jobs, or  *)
(* the groups of alert rules, of applications that only give the name of   *)
(* each unit's host, or its rules, collected for Prometheus.  The two are  *)
(* kept apart from each other and alike: `part` says which one is looked   *)
(* at.  An entry is the job, or the group, of one application; it holds    *)
(* what each unit contributes.                                             *)
(*                                                                         *)
(* Simplifications.                                                        *)
(*  - The charm has one unit, the leader, and StoredState is not lost.     *)
(*  - A unit leaves relation.units when it leaves; its relation-departed   *)
(*    follows, and one of its name comes back only after that.             *)
(*  - Prometheus does not go away again.  What leaves while it is away     *)
(*    stays in _stored, and comes back with it.                            *)
(***************************************************************************)
EXTENDS Naturals, SequencesExt

CONSTANTS
  ScrapedApps,   \* the applications to be scraped, one relation each
  AppUnits,      \* the units of each
  Values,        \* the hostnames, or rules, units of each may contribute
  Prometheuses   \* the relations to Prometheus, numbers

None == "none"

ASSUME AggregatorAssumption ==
  /\ DOMAIN AppUnits = ScrapedApps /\ DOMAIN Values = ScrapedApps /\ Prometheuses \subseteq Nat
  /\ IsFiniteSet(ScrapedApps) /\ \A a \in ScrapedApps : None \notin Values[a]

VARIABLES
  part,        \* "jobs" or "groups"
  given,       \* what each unit has in its databag, by application
  aggOwed,     \* the events the charm still has to handle
  related,     \* the Prometheus relations that exist
  entries,     \* scrape_jobs, or alert_rules, of each of them
  stored       \* _stored.jobs, or _stored.alert_rules

aggVars == <<part, given, aggOwed, related, entries, stored>>

AggTypeOK ==
  /\ part \in {"jobs", "groups"}
  /\ \A a \in ScrapedApps : given[a] \in [AppUnits[a] -> Values[a] \cup {None}]
  /\ related \subseteq Prometheuses /\ DOMAIN entries = Prometheuses
  /\ \A p \in Prometheuses : \A i \in DOMAIN entries[p] :
       entries[p][i].name \in ScrapedApps /\ entries[p][i].of # {}

AggInit ==
  /\ part \in {"jobs", "groups"}
  /\ given = [a \in ScrapedApps |-> [u \in AppUnits[a] |-> None]]
  /\ aggOwed = {} /\ related = {} /\ stored = << >>
  /\ entries = [p \in Prometheuses |-> << >>]

-----------------------------------------------------------------------------
(* The units and Prometheus                                                *)

Give(a, u, v) ==
  /\ given[a][u] # v /\ <<"departed", a, u>> \notin aggOwed
  /\ given' = [given EXCEPT ![a][u] = v]
  /\ aggOwed' = aggOwed \cup {<<"changed", a, None>>}
  /\ UNCHANGED <<part, related, entries, stored>>

Depart(a, u) ==
  /\ given[a][u] # None
  /\ given' = [given EXCEPT ![a][u] = None]
  /\ aggOwed' = aggOwed \cup {<<"departed", a, u>>}
  /\ UNCHANGED <<part, related, entries, stored>>

PrometheusComes(p) ==
  /\ p \notin related
  /\ related' = related \cup {p} /\ aggOwed' = aggOwed \cup {<<"joined", p, None>>}
  /\ UNCHANGED <<part, given, entries, stored>>

-----------------------------------------------------------------------------
(* MetricsEndpointAggregator                                               *)

(* _get_targets, _get_alert_rules; _static_scrape_job, _label_alert_rules. *)
Contributions(a) == {<<u, given[a][u]>> : u \in {v \in AppUnits[a] : given[a][v] # None}}
Entry(a) == [name |-> a, of |-> Contributions(a)]

(* The entries of other names, in their order, and those of the name.      *)
Others(list, a) ==
  LET upTo[n \in 0..Len(list)] ==
        IF n = 0 THEN << >> ELSE IF list[n].name = a THEN upTo[n - 1] ELSE Append(upTo[n - 1], list[n])
  IN  upTo[Len(list)]
Named(list, a) == {i \in DOMAIN list : list[i].name = a}
First(list, a) == list[Min(Named(list, a))]

(* set_target_job_data: the job takes the place of those of its name.      *)
WithJob(list, e) == Append(Others(list, e.name), e)

(* set_alert_rule_data: the rules are added to every group of the name;    *)
(* earlier rules stay.                                                     *)
WithRules(list, e) ==
  IF Named(list, e.name) = {} THEN Append(list, e)
  ELSE [i \in DOMAIN list |-> IF list[i].name = e.name THEN [list[i] EXCEPT !.of = @ \cup e.of] ELSE list[i]]

With(list, e) == IF part = "jobs" THEN WithJob(list, e) ELSE WithRules(list, e)

(* A bug to catch: an entry stays when nothing is left of it.              *)
WithoutLeavingEmpty(list, a, u) ==
  Append(Others(list, a), [name |-> a, of |-> {c \in First(list, a).of : c[1] # u}])

(* remove_prometheus_jobs, remove_alert_rules: of the entries of the name  *)
(* the first stays, without the unit, if anything is left of it.           *)
Without(list, a, u) ==
  LET kept == {c \in First(list, a).of : c[1] # u} IN
  IF kept = {} THEN Others(list, a) ELSE Append(Others(list, a), [name |-> a, of |-> kept])

(* The loop over some relations: each is given its new entries, and what   *)
(* the last one was given is stored.                                       *)
GiveEach(new) ==
  /\ entries' = [p \in Prometheuses |-> IF p \in DOMAIN new THEN new[p] ELSE entries[p]]
  /\ stored' = IF DOMAIN new = {} THEN stored ELSE new[Max(DOMAIN new)]

(* A bug to catch: the new Prometheus is told of what is stored only.      *)
SetPrometheusDataFromStore(p) ==
  /\ <<"joined", p, None>> \in aggOwed
  /\ entries' = [entries EXCEPT ![p] = stored]
  /\ aggOwed' = aggOwed \ {<<"joined", p, None>>}
  /\ UNCHANGED <<part, given, related, stored>>

(* _set_prometheus_data: what is stored, and the entries of all relations. *)
SetPrometheusData(p) ==
  /\ <<"joined", p, None>> \in aggOwed
  /\ entries' = [entries EXCEPT ![p] =
       stored \o SetToSeq({Entry(a) : a \in {b \in ScrapedApps : Contributions(b) # {}}})]
  /\ aggOwed' = aggOwed \ {<<"joined", p, None>>}
  /\ UNCHANGED <<part, given, related, stored>>

(* _on_prometheus_targets_changed, _on_alert_rules_changed.                *)
TargetsChanged(a) ==
  /\ <<"changed", a, None>> \in aggOwed
  /\ IF Contributions(a) = {} THEN UNCHANGED <<entries, stored>>
     ELSE GiveEach([p \in related |-> With(entries[p], Entry(a))])
  /\ aggOwed' = aggOwed \ {<<"changed", a, None>>}
  /\ UNCHANGED <<part, given, related>>

(* _on_prometheus_targets_departed, _on_alert_rules_departed.              *)
TargetsDeparted(a, u) ==
  /\ <<"departed", a, u>> \in aggOwed
  /\ GiveEach([p \in {q \in related : Named(entries[q], a) # {}} |-> Without(entries[p], a, u)])
  /\ aggOwed' = aggOwed \ {<<"departed", a, u>>}
  /\ UNCHANGED <<part, given, related>>

AggNext ==
  \/ \E a \in ScrapedApps : \/ TargetsChanged(a)
                            \/ \E u \in AppUnits[a] : \/ Depart(a, u) \/ TargetsDeparted(a, u)
                                                      \/ \E v \in Values[a] : Give(a, u, v)
  \/ \E p \in Prometheuses : PrometheusComes(p) \/ SetPrometheusData(p)

AggSpec == AggInit /\ [][AggNext]_aggVars

-----------------------------------------------------------------------------
(* Properties                                                              *)

Published(p) == UNION {{<<entries[p][i].name, c[1], c[2]>> : c \in entries[p][i].of} : i \in DOMAIN entries[p]}
Live == UNION {{<<a, c[1], c[2]>> : c \in Contributions(a)} : a \in ScrapedApps}

LiveTargetsPublished == \A p \in related : Live \subseteq Published(p)

DepartedTargetsRemoved == \A p \in related : \A t \in Published(p) : \E l \in Live : l[1] = t[1] /\ l[2] = t[2]

(* Once nothing is owed, what every live unit contributes is published to  *)
(* every Prometheus, whichever came first and whoever left in between.     *)
(* And "any time a scrape target departs, any Prometheus scrape job        *)
(* associated with that specific scrape target is removed", the same of    *)
(* alert rules: no departed unit is published any more.                    *)
TargetsFollowUnits ==
  aggOwed = {} => LiveTargetsPublished /\ DepartedTargetsRemoved
=============================================================================
