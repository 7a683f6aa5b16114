-------------------------- MODULE AlertRuleSharing --------------------------
(***************************************************************************)
(* Alert rules on their way from charms to Prometheus and to Loki: what a  *)
(* charm reads from its rule files and puts into its application databag   *)
(* (AlertRules, _handle_alert_rules, PrometheusRulesProvider), and what    *)
(* the backend turns the databags of all relations into (the alerts        *)
(* properties of MetricsEndpointConsumer and LokiPushApiProvider).         *)
(*                                                                         *)
(* Simplifications.                                                        *)
(*  - A charm is a relation of its own to each backend; relations have the *)
(*    order of their numbers.  Every unit is a leader.                     *)
(*  - Of a rule file the model keeps the sub-directory as it enters the    *)
(*    group name, its name, its format, its groups, and whether cos-tool   *)
(*    accepts its expressions.  cos-tool is available to the backends.     *)
(***************************************************************************)
EXTENDS Naturals, Sequences, FiniteSets

CONSTANTS
  Sources,     \* the relations, numbers
  SourceApp,   \* the application at the other end of each
  Labelling,   \* the sources that label their rules with their topology
  RuleDirs     \* the sets of rule files a charm may come with

Backends == {"prometheus", "loki"}

ASSUME SourceAssumption ==
  /\ Sources \subseteq Nat /\ IsFiniteSet(Sources) /\ DOMAIN SourceApp = Sources /\ Labelling \subseteq Sources

VARIABLES
  metadata,   \* for each backend, the sources whose databag holds their topology
  ruleBag,    \* alert_rules in the application databag of each source
  present,    \* the relations that have a unit at the other end
  refused,    \* the relations whose "event" holds errors, by backend
  collected   \* the backends that have seen what the relations hold now

ruleVars == <<metadata, ruleBag, present, refused, collected>>

-----------------------------------------------------------------------------
(* The source charm                                                        *)

(* _from_file: a rule of its own becomes a group named after the file; a   *)
(* file that is neither contributes nothing.                               *)
FileGroups(f) ==
  IF f.format = "official" THEN {[dir |-> f.dir, name |-> g, good |-> f.good] : g \in f.groups}
  ELSE IF f.format = "single" THEN {[dir |-> f.dir, name |-> f.stem, good |-> f.good]}
  ELSE {}

(* _group_name: made of the topology, the sub-directory and the group.     *)
GroupName(g) == <<g.dir, g.name>>

(* add_path and as_dict: the groups of all files in one list.  A backend   *)
(* refuses a list with a bad expression, or with two groups of one name.   *)
RuleGroups(files) ==
  LET occurrences == UNION {{<<f, g>> : g \in FileGroups(f)} : f \in files} IN
  [groups |-> {GroupName(o[2]) : o \in occurrences},
   good   |-> /\ \A o \in occurrences : o[2].good
              /\ \A o, p \in occurrences : GroupName(o[2]) = GroupName(p[2]) => o = p]

NoRules == [groups |-> {}, good |-> TRUE]

AllGroups == UNION {UNION {{GroupName(g) : g \in FileGroups(f)} : f \in d} : d \in RuleDirs}

RuleTypeOK ==
  /\ metadata \in [Backends -> SUBSET Sources] /\ present \subseteq Sources
  /\ ruleBag \in [Sources -> [groups : SUBSET AllGroups, good : BOOLEAN]]
  /\ refused \in [Backends -> SUBSET Sources] /\ collected \subseteq Backends

RuleInit ==
  /\ metadata = [b \in Backends |-> {}] /\ present = {}
  /\ ruleBag = [s \in Sources |-> NoRules]
  /\ refused = [b \in Backends |-> {}] /\ collected = {}

(* set_scrape_job_spec, _handle_alert_rules: a charm comes, or is upgraded *)
(* to come, with the files of d.  Loki is sent the topology with any rules *)
(* (a charm may skip the labels only); Prometheus is sent it with labelled *)
(* rules, and neither by a PrometheusRulesProvider.                        *)
SendRules(s, d) ==
  /\ ruleBag' = [ruleBag EXCEPT ![s] = RuleGroups(d)]
  /\ metadata' = [b \in Backends |->
                    metadata[b] \cup IF b = "loki" \/ s \in Labelling THEN {s} ELSE {}]
  /\ collected' = {} /\ UNCHANGED <<present, refused>>

(* A unit joins, or the last one departs.                                  *)
SourceComes(s) ==
  /\ s \notin present
  /\ present' = present \cup {s}
  /\ collected' = {} /\ UNCHANGED <<metadata, ruleBag, refused>>

SourceGoes(s) ==
  /\ s \in present
  /\ present' = present \ {s}
  /\ collected' = {} /\ UNCHANGED <<metadata, ruleBag, refused>>

-----------------------------------------------------------------------------
(* The backends                                                            *)

(* The relations whose rules the backends look at.                         *)
Considered == {s \in present : ruleBag[s].groups # {}}

(* _get_identifier_by_alert_rules and the metadata: the topology, or else  *)
(* the name of a group.  Prometheus adds the relation to it.               *)
Topology(s) == CHOOSE t \in Sources : SourceApp[t] = SourceApp[s]
Identifier(b, s) ==
  IF s \in Labelling \/ s \in metadata[b] THEN <<Topology(s), "app">>
  ELSE <<CHOOSE t \in Sources : ruleBag[t].groups = ruleBag[s].groups, "group">>

RuleFile(s, id) == [id |-> id, from |-> s, good |-> ruleBag[s].good]

(* A bug to catch: without the relation in it, as before issue 551.        *)
PrometheusIdentifierByTopology(s) == Identifier("prometheus", s)

PrometheusIdentifier(s) == Append(Identifier("prometheus", s), s)

KnownAs(b, s) == IF b = "loki" THEN Identifier(b, s) ELSE PrometheusIdentifier(s)

(* alerts is a dictionary: a later relation replaces an earlier one with   *)
(* the same identifier.                                                    *)
LastOfEach(entered, b) ==
  {RuleFile(s, KnownAs(b, s)) :
     s \in {r \in entered : \A q \in entered : KnownAs(b, q) = KnownAs(b, r) => q <= r}}

(* alerts of MetricsEndpointConsumer: refused rules are taken out again.   *)
PrometheusFiles == LastOfEach({s \in Considered : ruleBag[s].good}, "prometheus")

(* alerts of LokiPushApiProvider: rules without labels are entered under   *)
(* their metadata before they are validated, and stay.                     *)
LokiFiles ==
  LastOfEach({s \in Considered : ruleBag[s].good \/ (s \notin Labelling /\ s \in metadata["loki"])}, "loki")

RuleFiles(b) == IF b = "loki" THEN LokiFiles ELSE PrometheusFiles

(* The charm of the backend writes the rule files.  The errors of a        *)
(* relation stay in its databag when its rules are valid again, or gone.   *)
Collect(b) ==
  /\ b \notin collected /\ collected' = collected \cup {b}
  /\ refused' = [refused EXCEPT ![b] = @ \cup {s \in Considered : ~ruleBag[s].good}]
  /\ UNCHANGED <<metadata, ruleBag, present>>

RuleNext ==
  \/ \E s \in Sources : \/ SourceComes(s) \/ SourceGoes(s)
                        \/ \E d \in RuleDirs : SendRules(s, d)
  \/ \E b \in Backends : Collect(b)

RuleSpec == RuleInit /\ [][RuleNext]_ruleVars

-----------------------------------------------------------------------------
(* Properties                                                              *)

(* One charm's rules never cost another charm its own.  Prometheus loads   *)
(* the rules of every relation that are valid, two relations of one        *)
(* application included (issue 551), and of none that are not.  Loki loads *)
(* nothing invalid from a charm that labels its rules, and valid rules     *)
(* give way only to a later relation with the same identifier.  A charm    *)
(* whose rules are not among the files reads in its databag that they were *)
(* refused, once the backend has looked.                                   *)
RulesArrive ==
  /\ {f.from : f \in PrometheusFiles} = {s \in Considered : ruleBag[s].good}
  /\ \A f \in LokiFiles : ~f.good => f.from \notin Labelling
  /\ \A s \in Considered : ruleBag[s].good =>
       \E f \in LokiFiles : f.from >= s /\ f.id = Identifier("loki", s)
  /\ \A b \in collected, s \in Considered :
       s \in refused[b] \/ \E f \in RuleFiles(b) : f.from = s \/ f.id = KnownAs(b, s)
=============================================================================
