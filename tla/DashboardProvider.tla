------------------------- MODULE DashboardProvider -------------------------
(***************************************************************************)
(* GrafanaDashboardProvider of grafana_dashboard.py: every unit of a charm *)
(* keeps in its StoredState the dashboards it found in the directory of    *)
(* its charm and those added by program; the leader shares its own with    *)
(* Grafana.                                                                *)
(*                                                                         *)
(* Simplifications.                                                        *)
(*  - There is one relation, and one way to inject dropdowns.  Of a file   *)
(*    the model keeps its stem, whether it is JSON, and the content, of a  *)
(*    content the size it is compressed to.                                *)
(*  - The directory exists.  A hook is one step.                           *)
(***************************************************************************)
EXTENDS Naturals, FiniteSets

CONSTANTS
  DashboardUnits,  \* the units of the charm
  Revisions,       \* the sets of files a revision of the charm may come with
  Programs         \* the contents that may be added by program

(* A file has its place in the glob, which no other file has.              *)
ASSUME DashboardAssumption ==
  /\ DashboardUnits # {} /\ Revisions # {}
  /\ \A r \in Revisions : \A f, g \in r : f.at \in Nat /\ (f.at = g.at => f = g)

VARIABLES
  revision,     \* the revision of the charm each unit runs
  added,        \* what the charm has added by program in each unit
  templates,    \* _stored.dashboard_templates of each unit
  dashLeader,   \* the leader
  shared,       \* the relation exists
  dashOwed,     \* the hooks each unit still has to run
  dashBag       \* templates in the application databag

dashVars == <<revision, added, templates, dashLeader, shared, dashOwed, dashBag>>

(* leader-elected, upgrade-charm and config-changed have one handler.      *)
DashHooks == {"directory", "relation-created"}

DashTypeOK ==
  /\ revision \in [DashboardUnits -> Revisions] /\ dashLeader \in DashboardUnits
  /\ added \in [DashboardUnits -> SUBSET Programs]
  /\ DOMAIN templates = DashboardUnits /\ shared \in BOOLEAN
  /\ dashOwed \in [DashboardUnits -> SUBSET DashHooks]
  /\ \A u \in DashboardUnits : \A s, t \in templates[u] : s.id = t.id => s = t

DashInit ==
  /\ LET first == CHOOSE r \in Revisions : TRUE IN revision = [u \in DashboardUnits |-> first]
  /\ added = [u \in DashboardUnits |-> {}] /\ templates = [u \in DashboardUnits |-> {}]
  /\ dashLeader = CHOOSE u \in DashboardUnits : TRUE
  /\ shared = FALSE /\ dashBag = {}
  /\ dashOwed = [u \in DashboardUnits |-> {"directory"}]

-----------------------------------------------------------------------------
(* _content_to_dashboard_object: the topology names the unit.              *)
Template(u, id, content) == [id |-> id, content |-> content, unit |-> u]

(* load_dashboards_from_dir: a file is known by its stem; of two files of  *)
(* one stem in different directories one is left, and a file that is not   *)
(* JSON is left out.  dir maps the files to their order in the glob.       *)
DashboardsOf(u) ==
  LET loaded == {f \in revision[u] : f.json} IN
  {Template(u, <<"file", f.stem>>, f.content) :
     f \in {g \in loaded : \A h \in loaded : h.stem = g.stem => h.at <= g.at}}

(* add_dashboard: the id comes from the end of the compressed content,     *)
(* which says how long it is.                                              *)
ProgramId(content) == <<"prog", content.size>>

FromFiles(ts)    == {t \in ts : t.id[1] = "file"}
FromPrograms(ts) == {t \in ts : t.id[1] = "prog"}

(* _upset_dashboards_on_relation, for the leader.                          *)
Upset(u, ts) == dashBag' = IF u = dashLeader /\ shared THEN ts ELSE dashBag

Store(u, ts) == templates' = [templates EXCEPT ![u] = ts] /\ Upset(u, ts)

(* A bug to catch: dashboards of files that are gone stay.                 *)
UpdateFromDirAddsOnly(u) ==
  LET new == DashboardsOf(u) IN
  Store(u, {t \in templates[u] : \A n \in new : n.id # t.id} \cup new)

(* _update_all_dashboards_from_dir.                                        *)
UpdateFromDir(u) == Store(u, FromPrograms(templates[u]) \cup DashboardsOf(u))

-----------------------------------------------------------------------------
(* The hooks and the calls of the charm                                    *)

DirectoryHook(u) ==
  /\ "directory" \in dashOwed[u]
  /\ UpdateFromDir(u)
  /\ dashOwed' = [dashOwed EXCEPT ![u] = @ \ {"directory"}]
  /\ UNCHANGED <<revision, added, dashLeader, shared>>

(* _on_grafana_dashboard_relation_created.                                 *)
RelationCreatedHook(u) ==
  /\ "relation-created" \in dashOwed[u]
  /\ IF u = dashLeader THEN UpdateFromDir(u) ELSE UNCHANGED <<templates, dashBag>>
  /\ dashOwed' = [dashOwed EXCEPT ![u] = @ \ {"relation-created"}]
  /\ UNCHANGED <<revision, added, dashLeader, shared>>

AddDashboard(u, content) ==
  /\ Store(u, {t \in templates[u] : t.id # ProgramId(content)} \cup {Template(u, ProgramId(content), content)})
  /\ added' = [added EXCEPT ![u] = @ \cup {content}]
  /\ UNCHANGED <<revision, dashLeader, shared, dashOwed>>

RemoveNonBuiltinDashboards(u) ==
  /\ Store(u, FromFiles(templates[u]))
  /\ added' = [added EXCEPT ![u] = {}]
  /\ UNCHANGED <<revision, dashLeader, shared, dashOwed>>

-----------------------------------------------------------------------------
(* Juju                                                                    *)

UpgradeUnit(u, r) ==
  /\ revision[u] # r /\ revision' = [revision EXCEPT ![u] = r]
  /\ dashOwed' = [dashOwed EXCEPT ![u] = @ \cup {"directory"}]
  /\ UNCHANGED <<added, templates, dashLeader, shared, dashBag>>

ElectLeader(u) ==
  /\ dashLeader # u /\ dashLeader' = u
  /\ dashOwed' = [dashOwed EXCEPT ![u] = @ \cup {"directory"}]
  /\ UNCHANGED <<revision, added, templates, shared, dashBag>>

RelateGrafana ==
  /\ ~shared /\ shared' = TRUE /\ dashBag' = {}
  /\ dashOwed' = [u \in DashboardUnits |-> dashOwed[u] \cup {"relation-created"}]
  /\ UNCHANGED <<revision, added, templates, dashLeader>>

GrafanaGoes ==
  /\ shared /\ shared' = FALSE /\ dashBag' = {}
  /\ dashOwed' = [u \in DashboardUnits |-> dashOwed[u] \ {"relation-created"}]
  /\ UNCHANGED <<revision, added, templates, dashLeader>>

DashNext ==
  \/ \E u \in DashboardUnits :
       \/ DirectoryHook(u) \/ RelationCreatedHook(u) \/ RemoveNonBuiltinDashboards(u) \/ ElectLeader(u)
       \/ \E c \in Programs : AddDashboard(u, c)
       \/ \E r \in Revisions : UpgradeUnit(u, r)
  \/ RelateGrafana \/ GrafanaGoes

DashSpec == DashInit /\ [][DashNext]_dashVars

-----------------------------------------------------------------------------
(* Properties                                                              *)

(* Once the leader has run its hooks Grafana is shared exactly what the    *)
(* leader keeps, and the files among it are those of its revision: none of *)
(* an earlier leader, none of an earlier revision.  And "update of storage *)
(* must be done irrespective of leadership, so that the stored state is    *)
(* there when this unit becomes leader": what the charm added in a unit is *)
(* shared when that unit is the leader, through any election, upgrade or   *)
(* relation in between, or gave way to another of its id.                  *)
SharesWhatLeaderHas ==
  dashOwed[dashLeader] = {} =>
    /\ FromFiles(templates[dashLeader]) = DashboardsOf(dashLeader)
    /\ shared => /\ dashBag = templates[dashLeader]
                 /\ \A c \in added[dashLeader] : \E t \in dashBag : t.id = ProgramId(c)
=============================================================================
