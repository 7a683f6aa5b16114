-------------------------- MODULE DashboardContent --------------------------
(***************************************************************************)
(* What CharmedDashboard of grafana_dashboard does to one dashboard on its *)
(* way to Grafana: _convert_dashboard_fields brings its panels to the two  *)
(* datasource variables of COS, and _inject_labels takes the ranges out of *)
(* every expression, has cos-tool add the labels and puts them back.       *)
(*                                                                         *)
(* Simplifications.                                                        *)
(*  - A panel has one expression, and of that the values between brackets; *)
(*    offsets are treated alike and left out, and so are the dropdowns of  *)
(*    the topology.  The order of the variables does not matter.           *)
(*  - "nested" panels are those of a collapsed row, panels of a panel.     *)
(***************************************************************************)
EXTENDS Naturals, Sequences, FiniteSets

CONSTANTS
  Refs,          \* the ways in which panels refer to their datasource
  OwnVariables,  \* variables and inputs of dashboards, with the kind of each
  SpeltLoki,     \* the names with "loki" in them
  SpeltGrafana,  \* the names with "grafana" in them
  Expressions    \* the ranges of expressions

(* What the libraries of COS put in: the name says the kind.               *)
OurName == [loki |-> "lokids", prometheus |-> "prometheusds"]
Ours == {[name |-> OurName[k], kind |-> k, own |-> FALSE] : k \in DOMAIN OurName}
OurNames == {v.name : v \in Ours}

ASSUME ContentAssumption ==
  /\ \A v \in OwnVariables : v.own /\ v.kind \in {"loki", "prometheus", "other"}
  /\ \A r \in Refs : r.style \in {"text", "object"} /\ r.braces \in BOOLEAN
  (* A reference that states a type states that of what it names.          *)
  /\ \A r \in Refs, v \in OwnVariables : r.style = "object" /\ r.name = v.name => r.kind = v.kind
  /\ \A v, w \in OwnVariables : v.name = w.name => v = w
  /\ \A e \in Expressions : e \in Seq(STRING)

VARIABLES
  dashboard,  \* [vars, hasVars, inputs, panels]: what the dashboard holds
  received,   \* the dashboard as it came
  stage       \* how far it has come

contentVars == <<dashboard, received, stage>>

Panel(place, ref, ranges) == [place |-> place, ref |-> ref, ranges |-> ranges]
Places == {"top", "row", "nested"}

ContentTypeOK ==
  /\ stage \in {"none", "received", "converted", "labelled"}
  /\ \A v \in dashboard.vars : v \in OwnVariables \cup Ours
  /\ \A i \in DOMAIN dashboard.panels : dashboard.panels[i].place \in Places

ContentInit ==
  /\ dashboard = [vars |-> {}, hasVars |-> FALSE, inputs |-> {}, panels |-> << >>]
  /\ received = dashboard /\ stage = "none"

(* A template of a relation.                                               *)
Receive ==
  /\ stage = "none" /\ stage' = "received"
  /\ \E vs \in SUBSET OwnVariables : \E is \in SUBSET (OwnVariables \ vs), has \in {vs # {}, TRUE},
        p, q \in Places \X Refs, e \in Expressions :
       dashboard' = [vars |-> vs, hasVars |-> has, inputs |-> is,
                     panels |-> <<Panel(p[1], p[2], e), Panel(q[1], q[2], e)>>]
  /\ received' = dashboard'

-----------------------------------------------------------------------------
(* _convert_dashboard_fields and _replace_template_fields                  *)

(* The datasources the dashboard declares: its inputs, then its variables. *)
Declared(d) == d.inputs \cup d.vars

(* Ours are put in unless there is one of the name.                        *)
Stubbed(d) == d.vars \cup {v \in Ours : ~\E w \in d.vars : w.name = v.name}

IsOurs(ref) == ref.braces /\ ref.name \in OurNames

(* _template_panels, for a dashboard that came without variables: the      *)
(* spelling of the reference decides, or the type the reference states.    *)
GuessedKind(ref) ==
  IF ref.style = "object" THEN ref.kind
  ELSE IF ref.name \in SpeltLoki THEN "loki"
  ELSE IF ref.name \in SpeltGrafana THEN "other" ELSE "prometheus"

(* A bug to catch: only what the variables of the dashboard declare.       *)
DeclaredKindOfVariable(d, ref) ==
  IF IsOurs(ref) \/ ~\E v \in d.vars : v.name = ref.name THEN "other"
  ELSE (CHOOSE v \in d.vars : v.name = ref.name).kind

(* For one that came with variables: what it declares under that name.     *)
DeclaredKind(d, ref) ==
  IF IsOurs(ref) \/ ~\E v \in Declared(d) : v.name = ref.name THEN "other"
  ELSE (CHOOSE v \in Declared(d) : v.name = ref.name).kind

NewKind(d, ref) == IF d.hasVars THEN DeclaredKind(d, ref) ELSE GuessedKind(ref)

Reached(d, panel) == panel.place # "nested" /\ (Declared(d) # {} \/ ~d.hasVars)

Replaced(d, panel) == Reached(d, panel) /\ NewKind(d, panel.ref) \in DOMAIN OurName

TemplatePanel(d, panel) ==
  IF Replaced(d, panel)
  THEN [panel EXCEPT !.ref = [style |-> @.style, name |-> OurName[NewKind(d, @)], braces |-> TRUE, kind |-> @.kind]]
  ELSE panel

(* Variables that were replaced somewhere go, unless they are ours.        *)
UsedReplacements(d) ==
  IF d.hasVars THEN {d.panels[i].ref.name : i \in {j \in DOMAIN d.panels : Replaced(d, d.panels[j])}} ELSE {}

ConvertedDashboard(d) ==
  [vars |-> {v \in Stubbed(d) : v.own => v.name \notin UsedReplacements(d)}, hasVars |-> TRUE,
   inputs |-> {}, panels |-> [i \in DOMAIN d.panels |-> TemplatePanel(d, d.panels[i])]]

Convert ==
  /\ stage = "received" /\ stage' = "converted"
  /\ dashboard' = ConvertedDashboard(dashboard)
  /\ UNCHANGED received

-----------------------------------------------------------------------------
(* _inject_labels and _modify_panel                                        *)

Placeholder == "5y"

Blanked(ranges) == [i \in DOMAIN ranges |-> Placeholder]

(* str.replace of the first placeholder that is left.                      *)
ReplaceFirst(ranges, value) ==
  IF \A i \in DOMAIN ranges : ranges[i] # Placeholder THEN ranges
  ELSE [ranges EXCEPT ![CHOOSE i \in DOMAIN ranges :
          ranges[i] = Placeholder /\ \A j \in 1..(i - 1) : ranges[j] # Placeholder] = value]

(* The values go back one after the other.                                 *)
PutBack(ranges) ==
  LET after[n \in 0..Len(ranges)] ==
        IF n = 0 THEN Blanked(ranges) ELSE ReplaceFirst(after[n - 1], ranges[n])
  IN  after[Len(ranges)]

LabelledPanel(panel) ==
  IF panel.place = "top" /\ IsOurs(panel.ref) THEN [panel EXCEPT !.ranges = PutBack(@)] ELSE panel

LabelledDashboard(d) == [d EXCEPT !.panels = [i \in DOMAIN @ |-> LabelledPanel(@[i])]]

InjectLabels ==
  /\ stage = "converted" /\ stage' = "labelled"
  /\ dashboard' = LabelledDashboard(dashboard)
  /\ UNCHANGED received

ContentNext == Receive \/ Convert \/ InjectLabels
ContentSpec == ContentInit /\ [][ContentNext]_contentVars

-----------------------------------------------------------------------------
(* Properties                                                              *)

(* The datasource a panel shows: that of a variable or an input, or the    *)
(* one the reference itself states; "none" if it refers to nothing.        *)
KindOf(d, ref) ==
  IF \E v \in Declared(d) : v.name = ref.name THEN (CHOOSE v \in Declared(d) : v.name = ref.name).kind
  ELSE IF ref.name \in OurNames THEN "none" ELSE IF ref.style = "object" THEN ref.kind ELSE "unknown"

(* Three ways in which the conversion goes wrong today: a variable of the  *)
(* dashboard has the name of one of ours and is used as $name; what has    *)
(* the name of one of ours is of another kind; and an input of a dashboard *)
(* without variables is spelt like one of another kind.                    *)
Namesake(d) == \E v \in d.vars, i \in DOMAIN d.panels :
  v.name \in OurNames /\ v.name = d.panels[i].ref.name /\ ~d.panels[i].ref.braces
Impostor(d) == \E v \in Declared(d), o \in Ours : v.name = o.name /\ v.kind # o.kind
Misspelt(d, ref) ==
  /\ ~d.hasVars /\ ref.style = "text"
  /\ \/ KindOf(d, ref) = "loki" /\ ref.name \notin SpeltLoki
     \/ KindOf(d, ref) = "prometheus" /\ ref.name \in SpeltLoki \cup SpeltGrafana

(* Whatever variables are taken out and put in, a panel of Prometheus or   *)
(* of Loki shows the same kind of datasource as before, through a variable *)
(* that is there, the three cases above aside; and every range comes back  *)
(* where it was, unless it is the placeholder itself.  The panels of a     *)
(* collapsed row are aside too: their references are never converted,      *)
(* while the variables they name may be taken out.                         *)
KeepsWhatPanelsShow ==
  stage \in {"converted", "labelled"} =>
    \A i \in DOMAIN received.panels :
      LET before == received.panels[i]  after == dashboard.panels[i] IN
      /\ KindOf(received, before.ref) \in DOMAIN OurName /\ before.place # "nested"
           /\ ~Namesake(received) /\ ~Impostor(received) /\ ~Misspelt(received, before.ref) =>
             KindOf(dashboard, after.ref) = KindOf(received, before.ref)
      /\ (\A r \in DOMAIN before.ranges : before.ranges[r] # Placeholder) => after.ranges = before.ranges
=============================================================================
