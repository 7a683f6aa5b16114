-------------------------- MODULE DashboardProofs ---------------------------
(***************************************************************************)
(* SharesWhatLeaderHas, EveryUnitLoadsNewest and KeepsWhatPanelsShow, for  *)
(* any constants.                                                          *)
(***************************************************************************)
EXTENDS DashboardProvider, DashboardConsumer, DashboardContent, FiniteFacts

(* SharesWhatLeaderHas. The invariant looks at every unit, as any may      *)
(* become the leader: what it keeps has the files of its revision unless   *)
(* it owes a look into the directory, and all that was added; and what is  *)
(* shared is what the leader keeps unless the leader owes a hook.          *)

(* Types that need saying.                                                 *)
DashTyped ==
  /\ dashLeader \in DashboardUnits
  /\ DOMAIN templates = DashboardUnits /\ DOMAIN dashOwed = DashboardUnits
  /\ DOMAIN added = DashboardUnits /\ DOMAIN revision = DashboardUnits

KeepsFiles ==
  \A u \in DashboardUnits : "directory" \notin dashOwed[u] => FromFiles(templates[u]) = DashboardsOf(u)

KeepsAdded ==
  \A u \in DashboardUnits : \A c \in added[u] : \E t \in templates[u] : t.id = ProgramId(c)

SharesTemplates == dashOwed[dashLeader] = {} /\ shared => dashBag = templates[dashLeader]

DashInv == DashTyped /\ KeepsFiles /\ KeepsAdded /\ SharesTemplates

-----------------------------------------------------------------------------
LEMMA DashInitHolds == DashInit => DashInv
BY DashboardAssumption
DEF DashInit, DashInv, DashTyped, KeepsFiles, KeepsAdded, SharesTemplates

(* What is loaded from files is known as that.                             *)
LEMMA DashboardsAreFiles ==
  ASSUME NEW u PROVE FromFiles(DashboardsOf(u)) = DashboardsOf(u) /\ FromPrograms(DashboardsOf(u)) = {}
BY DEF DashboardsOf, FromFiles, FromPrograms, Template

(* A look into the directory replaces the files and keeps the rest.        *)
LEMMA DirectoryRead ==
  ASSUME NEW u, NEW ts, NEW updated, updated = FromPrograms(ts) \cup DashboardsOf(u)
  PROVE  /\ FromFiles(updated) = DashboardsOf(u)
         /\ \A c : (\E t \in ts : t.id = ProgramId(c)) => \E t \in updated : t.id = ProgramId(c)
<1>1. FromFiles(updated) = DashboardsOf(u)
  BY DashboardsAreFiles DEF FromFiles, FromPrograms
<1>2. ASSUME NEW c, NEW t \in ts, t.id = ProgramId(c) PROVE \E s \in updated : s.id = ProgramId(c)
  <2>1. t \in FromPrograms(ts)
    BY <1>2 DEF FromPrograms, ProgramId
  <2> QED
    BY <1>2, <2>1
<1> QED
  BY <1>1, <1>2

(* What a unit that has just looked into its directory may rely on.        *)
LEMMA UpdateFromDirKeeps ==
  ASSUME DashInv, NEW u \in DashboardUnits, UpdateFromDir(u), NEW h \in DashHooks,
         dashOwed' = [dashOwed EXCEPT ![u] = @ \ {h}],
         UNCHANGED <<revision, added, dashLeader, shared>>
  PROVE  DashInv'
<1> DEFINE updated == FromPrograms(templates[u]) \cup DashboardsOf(u)
<1>1. templates' = [templates EXCEPT ![u] = updated]
  BY DEF UpdateFromDir, Store
<1>2. \A v \in DashboardUnits : DashboardsOf(v)' = DashboardsOf(v)
  BY DEF DashboardsOf
<1>3. FromFiles(updated) = DashboardsOf(u)
  BY DirectoryRead
<1>4. \A c : (\E t \in templates[u] : t.id = ProgramId(c)) => \E t \in updated : t.id = ProgramId(c)
  BY DirectoryRead
<1> HIDE DEF updated
<1>5. DashTyped'
  BY <1>1 DEF DashInv, DashTyped
<1>6. KeepsFiles'
  <2> SUFFICES ASSUME NEW v \in DashboardUnits, "directory" \notin dashOwed'[v]
               PROVE  FromFiles(templates'[v]) = DashboardsOf(v)
    BY <1>2 DEF KeepsFiles, FromFiles
  <2>1. CASE v = u
    BY <2>1, <1>1, <1>3 DEF DashInv, DashTyped
  <2>2. CASE v # u
    <3>1. templates'[v] = templates[v] /\ dashOwed'[v] = dashOwed[v]
      BY <2>2, <1>1 DEF DashInv, DashTyped
    <3> QED
      BY <3>1 DEF DashInv, KeepsFiles
  <2> QED
    BY <2>1, <2>2
<1>7. KeepsAdded'
  <2> SUFFICES ASSUME NEW v \in DashboardUnits, NEW c \in added[v]
               PROVE  \E t \in templates'[v] : t.id = ProgramId(c)
    BY DEF KeepsAdded, ProgramId
  <2>1. \E t \in templates[v] : t.id = ProgramId(c)
    BY DEF DashInv, KeepsAdded
  <2>2. CASE v = u
    BY <2>1, <2>2, <1>1, <1>4 DEF DashInv, DashTyped
  <2>3. CASE v # u
    BY <2>1, <2>3, <1>1 DEF DashInv, DashTyped
  <2> QED
    BY <2>2, <2>3
<1>8. SharesTemplates'
  <2> SUFFICES ASSUME dashOwed'[dashLeader] = {}, shared PROVE dashBag' = templates'[dashLeader]
    BY DEF SharesTemplates
  <2>1. CASE u = dashLeader
    BY <2>1, <1>1 DEF DashInv, DashTyped, UpdateFromDir, Store, Upset, updated
  <2>2. CASE u # dashLeader
    <3>1. dashBag' = dashBag
      BY <2>2 DEF UpdateFromDir, Store, Upset
    <3>2. templates'[dashLeader] = templates[dashLeader] /\ dashOwed'[dashLeader] = dashOwed[dashLeader]
      BY <2>2, <1>1 DEF DashInv, DashTyped
    <3> QED
      BY <3>1, <3>2 DEF DashInv, SharesTemplates
  <2> QED
    BY <2>1, <2>2
<1> QED
  BY <1>5, <1>6, <1>7, <1>8 DEF DashInv

(* A hook of a unit that is not the leader, and of a new relation, is idle.*)
LEMMA IdleHookKeeps ==
  ASSUME DashInv, NEW u \in DashboardUnits, u # dashLeader,
         dashOwed' = [dashOwed EXCEPT ![u] = @ \ {"relation-created"}],
         UNCHANGED <<revision, added, dashLeader, shared, templates, dashBag>>
  PROVE  DashInv'
<1>1. DashTyped' /\ KeepsAdded'
  BY DEF DashInv, DashTyped, KeepsAdded, ProgramId
<1>2. KeepsFiles'
  <2>1. \A v \in DashboardUnits : "directory" \notin dashOwed'[v] => "directory" \notin dashOwed[v]
    BY DEF DashInv, DashTyped
  <2> QED
    BY <2>1 DEF DashInv, KeepsFiles, DashboardsOf, FromFiles
<1>3. SharesTemplates'
  BY DEF DashInv, DashTyped, SharesTemplates
<1> QED
  BY <1>1, <1>2, <1>3 DEF DashInv

(* The charm adds a dashboard, which gives way to no file.                 *)
LEMMA AddDashboardKeeps ==
  ASSUME DashInv, NEW u \in DashboardUnits, NEW content \in Programs, AddDashboard(u, content)
  PROVE  DashInv'
<1> DEFINE updated == {t \in templates[u] : t.id # ProgramId(content)}
                        \cup {Template(u, ProgramId(content), content)}
<1>1. templates' = [templates EXCEPT ![u] = updated]
  BY DEF AddDashboard, Store
<1>2. FromFiles(updated) = FromFiles(templates[u])
  BY DEF FromFiles, Template, ProgramId
<1>3. ASSUME NEW c, (\E t \in templates[u] : t.id = ProgramId(c)) \/ c = content
      PROVE  \E t \in updated : t.id = ProgramId(c)
  <2>1. CASE ProgramId(c) = ProgramId(content)
    <3>1. Template(u, ProgramId(content), content) \in updated
      OBVIOUS
    <3>2. Template(u, ProgramId(content), content).id = ProgramId(c)
      BY <2>1 DEF Template
    <3> QED
      BY <3>1, <3>2
  <2>2. CASE ProgramId(c) # ProgramId(content)
    <3>1. c # content
      BY <2>2
    <3>2. PICK t \in templates[u] : t.id = ProgramId(c)
      BY <1>3, <3>1
    <3>3. t \in updated
      BY <2>2, <3>2
    <3> QED
      BY <3>2, <3>3
  <2> QED
    BY <2>1, <2>2
<1>4. added' = [added EXCEPT ![u] = @ \cup {content}]
  BY DEF AddDashboard
<1> HIDE DEF updated
<1>5. DashTyped'
  BY <1>1 DEF DashInv, DashTyped, AddDashboard
<1>6. KeepsFiles'
  <2> SUFFICES ASSUME NEW v \in DashboardUnits, "directory" \notin dashOwed[v]
               PROVE  FromFiles(templates'[v]) = DashboardsOf(v)
    BY DEF KeepsFiles, FromFiles, DashboardsOf, AddDashboard
  <2>1. FromFiles(templates[v]) = DashboardsOf(v)
    BY DEF DashInv, KeepsFiles
  <2>2. templates'[v] = IF v = u THEN updated ELSE templates[v]
    BY <1>1 DEF DashInv, DashTyped
  <2> QED
    BY <2>1, <2>2, <1>2
<1>7. KeepsAdded'
  <2> SUFFICES ASSUME NEW v \in DashboardUnits, NEW c \in added'[v]
               PROVE  \E t \in templates'[v] : t.id = ProgramId(c)
    BY DEF KeepsAdded, ProgramId
  <2>1. CASE v = u
    <3>1. c \in added[u] \/ c = content
      BY <2>1, <1>4 DEF DashInv, DashTyped
    <3>2. templates'[v] = updated
      BY <2>1, <1>1 DEF DashInv, DashTyped
    <3> QED
      BY <3>1, <3>2, <1>3 DEF DashInv, KeepsAdded
  <2>2. CASE v # u
    BY <2>2, <1>1, <1>4 DEF DashInv, DashTyped, KeepsAdded
  <2> QED
    BY <2>1, <2>2
<1>8. SharesTemplates'
  BY <1>1 DEF DashInv, DashTyped, SharesTemplates, AddDashboard, Store, Upset, updated
<1> QED
  BY <1>5, <1>6, <1>7, <1>8 DEF DashInv

(* The charm removes what it added.                                        *)
LEMMA RemoveNonBuiltinKeeps ==
  ASSUME DashInv, NEW u \in DashboardUnits, RemoveNonBuiltinDashboards(u) PROVE DashInv'
<1>1. templates' = [templates EXCEPT ![u] = FromFiles(templates[u])]
  BY DEF RemoveNonBuiltinDashboards, Store
<1>2. FromFiles(FromFiles(templates[u])) = FromFiles(templates[u])
  BY DEF FromFiles
<1>3. DashTyped'
  BY <1>1 DEF DashInv, DashTyped, RemoveNonBuiltinDashboards
<1>4. KeepsFiles'
  <2> SUFFICES ASSUME NEW v \in DashboardUnits, "directory" \notin dashOwed[v]
               PROVE  FromFiles(templates'[v]) = DashboardsOf(v)
    BY DEF KeepsFiles, FromFiles, DashboardsOf, RemoveNonBuiltinDashboards
  <2>1. FromFiles(templates[v]) = DashboardsOf(v)
    BY DEF DashInv, KeepsFiles
  <2>2. templates'[v] = IF v = u THEN FromFiles(templates[u]) ELSE templates[v]
    BY <1>1 DEF DashInv, DashTyped
  <2> QED
    BY <2>1, <2>2, <1>2
<1>5. KeepsAdded'
  <2> SUFFICES ASSUME NEW v \in DashboardUnits, NEW c \in added'[v]
               PROVE  \E t \in templates'[v] : t.id = ProgramId(c)
    BY DEF KeepsAdded, ProgramId
  <2>1. v # u
    BY DEF DashInv, DashTyped, RemoveNonBuiltinDashboards
  <2> QED
    BY <2>1, <1>1 DEF DashInv, DashTyped, KeepsAdded, RemoveNonBuiltinDashboards
<1>6. SharesTemplates'
  BY <1>1 DEF DashInv, DashTyped, SharesTemplates, RemoveNonBuiltinDashboards, Store, Upset
<1> QED
  BY <1>3, <1>4, <1>5, <1>6 DEF DashInv

(* What Juju does is answered by a hook that is owed.                      *)
LEMMA JujuKeeps ==
  ASSUME DashInv,
         \/ \E u \in DashboardUnits : ElectLeader(u) \/ \E r \in Revisions : UpgradeUnit(u, r)
         \/ RelateGrafana \/ GrafanaGoes
  PROVE  DashInv'
<1>1. ASSUME NEW u \in DashboardUnits, NEW r \in Revisions, UpgradeUnit(u, r) PROVE DashInv'
  <2>1. DashTyped' /\ KeepsAdded' /\ SharesTemplates'
    BY <1>1 DEF DashInv, DashTyped, KeepsAdded, ProgramId, SharesTemplates, UpgradeUnit
  <2>2. ASSUME NEW v \in DashboardUnits, "directory" \notin dashOwed'[v]
        PROVE  FromFiles(templates[v]) = DashboardsOf(v)'
    <3>1. v # u /\ "directory" \notin dashOwed[v]
      BY <1>1, <2>2 DEF DashInv, DashTyped, UpgradeUnit
    <3>2. revision'[v] = revision[v]
      BY <1>1, <3>1 DEF DashInv, DashTyped, UpgradeUnit
    <3>3. DashboardsOf(v)' = DashboardsOf(v)
      BY <3>2 DEF DashboardsOf
    <3> QED
      BY <3>1, <3>3 DEF DashInv, KeepsFiles
  <2>3. KeepsFiles'
    BY <1>1, <2>2 DEF KeepsFiles, UpgradeUnit, FromFiles
  <2> QED
    BY <2>1, <2>3 DEF DashInv
<1>2. ASSUME NEW u \in DashboardUnits, ElectLeader(u) PROVE DashInv'
  BY <1>2 DEF DashInv, DashTyped, KeepsFiles, KeepsAdded, ProgramId, SharesTemplates, FromFiles,
      DashboardsOf, ElectLeader
<1>3. CASE RelateGrafana
  BY <1>3 DEF DashInv, DashTyped, KeepsFiles, KeepsAdded, ProgramId, SharesTemplates, FromFiles,
      DashboardsOf, RelateGrafana
<1>4. CASE GrafanaGoes
  BY <1>4 DEF DashInv, DashTyped, KeepsFiles, KeepsAdded, ProgramId, SharesTemplates, FromFiles,
      DashboardsOf, GrafanaGoes
<1> QED
  BY <1>1, <1>2, <1>3, <1>4

LEMMA DashStutterKeeps == ASSUME DashInv, UNCHANGED dashVars PROVE DashInv'
BY DEF DashInv, DashTyped, KeepsFiles, KeepsAdded, ProgramId, SharesTemplates, FromFiles,
   DashboardsOf, dashVars

(* The invariant is inductive.                                             *)
THEOREM ProviderInvariant == DashSpec => []DashInv
<1>1. DashInv /\ [DashNext]_dashVars => DashInv'
  <2> SUFFICES ASSUME DashInv, [DashNext]_dashVars PROVE DashInv'
    OBVIOUS
  <2>1. ASSUME NEW u \in DashboardUnits, DirectoryHook(u) PROVE DashInv'
    BY <2>1, UpdateFromDirKeeps DEF DirectoryHook, DashHooks
  <2>2. ASSUME NEW u \in DashboardUnits, RelationCreatedHook(u) PROVE DashInv'
    <3>1. CASE u = dashLeader
      BY <2>2, <3>1, UpdateFromDirKeeps DEF RelationCreatedHook, DashHooks
    <3>2. CASE u # dashLeader
      BY <2>2, <3>2, IdleHookKeeps DEF RelationCreatedHook
    <3> QED
      BY <3>1, <3>2
  <2>3. ASSUME NEW u \in DashboardUnits,
               RemoveNonBuiltinDashboards(u) \/ \E c \in Programs : AddDashboard(u, c)
        PROVE  DashInv'
    BY <2>3, RemoveNonBuiltinKeeps, AddDashboardKeeps
  <2>4. CASE \/ \E u \in DashboardUnits : ElectLeader(u) \/ \E r \in Revisions : UpgradeUnit(u, r)
             \/ RelateGrafana \/ GrafanaGoes
    BY <2>4, JujuKeeps
  <2>5. CASE UNCHANGED dashVars
    BY <2>5, DashStutterKeeps
  <2> QED
    BY <2>1, <2>2, <2>3, <2>4, <2>5 DEF DashNext
<1> QED
  BY <1>1, DashInitHolds, PTL DEF DashSpec

(* Grafana is shared what the leader has, once the leader has run its      *)
(* hooks, through any election, upgrade and relation.                      *)
THEOREM AlwaysSharesWhatLeaderHas == DashSpec => []SharesWhatLeaderHas
<1>1. DashInv => SharesWhatLeaderHas
  <2> SUFFICES ASSUME DashInv, dashOwed[dashLeader] = {}
               PROVE  /\ FromFiles(templates[dashLeader]) = DashboardsOf(dashLeader)
                      /\ shared => /\ dashBag = templates[dashLeader]
                                   /\ \A c \in added[dashLeader] : \E t \in dashBag : t.id = ProgramId(c)
    BY DEF SharesWhatLeaderHas
  <2>1. FromFiles(templates[dashLeader]) = DashboardsOf(dashLeader)
    BY DEF DashInv, DashTyped, KeepsFiles
  <2>2. shared => dashBag = templates[dashLeader]
    BY DEF DashInv, SharesTemplates
  <2>3. \A c \in added[dashLeader] : \E t \in templates[dashLeader] : t.id = ProgramId(c)
    BY DEF DashInv, DashTyped, KeepsAdded
  <2> QED
    BY <2>1, <2>2, <2>3
<1> QED
  BY <1>1, ProviderInvariant, PTL

(* Every template has an id of its own, a file's or a programmatic one's.  *)
UniqueIds(ts) ==
  /\ \A s, t \in ts : s.id = t.id => s = t
  /\ \A t \in ts : t.id[1] \in {"file", "prog"}

(* Of the files of one stem one is loaded, the last in the glob.           *)
LEMMA FilesUnique ==
  ASSUME NEW u \in DashboardUnits, revision[u] \in Revisions
  PROVE  UniqueIds(DashboardsOf(u)) /\ \A t \in DashboardsOf(u) : t.id[1] = "file"
<1> DEFINE readable == {f \in revision[u] : f.json}
           latest == {g \in readable : \A h \in readable : h.stem = g.stem => h.at <= g.at}
           made(f) == Template(u, <<"file", f.stem>>, f.content)
<1>1. DashboardsOf(u) = {made(f) : f \in latest}
  BY DEF DashboardsOf
<1>2. ASSUME NEW f \in latest, NEW g \in latest, f.stem = g.stem PROVE f = g
  <2>1. f \in revision[u] /\ g \in revision[u] /\ f.at <= g.at /\ g.at <= f.at
    BY <1>2
  <2>2. f.at \in Nat /\ g.at \in Nat
    BY <2>1, DashboardAssumption
  <2>3. f.at = g.at
    BY <2>1, <2>2
  <2> QED
    BY <2>1, <2>3, DashboardAssumption
<1>3. ASSUME NEW f \in latest PROVE made(f).id = <<"file", f.stem>>
  BY DEF Template
<1>4. ASSUME NEW f \in latest PROVE made(f).id[1] = "file" /\ made(f).id[2] = f.stem
  BY <1>3
<1> HIDE DEF made, latest
<1> QED
  BY <1>1, <1>2, <1>4 DEF UniqueIds

(* What a unit stores with ids of their own keeps that of all units.       *)
LEMMA StoreUnique ==
  ASSUME DashTypeOK, \A v \in DashboardUnits : UniqueIds(templates[v]),
         NEW u \in DashboardUnits, NEW ts, UniqueIds(ts), Store(u, ts)
  PROVE  DOMAIN templates' = DashboardUnits /\ \A v \in DashboardUnits : UniqueIds(templates'[v])
BY DEF Store, DashTypeOK

(* DashTypeOK, for any constants: no id is twice in what a unit keeps.     *)
THEOREM DashStaysTyped == DashSpec => []DashTypeOK
<1> DEFINE Typed == DashTypeOK /\ \A u \in DashboardUnits : UniqueIds(templates[u])
<1>1. DashInit => Typed
  <2> SUFFICES ASSUME DashInit PROVE Typed
    OBVIOUS
  <2>1. (CHOOSE u \in DashboardUnits : TRUE) \in DashboardUnits /\ (CHOOSE r \in Revisions : TRUE) \in Revisions
    BY DashboardAssumption
  <2>2. revision \in [DashboardUnits -> Revisions] /\ dashLeader \in DashboardUnits
    BY <2>1 DEF DashInit
  <2>3. /\ DOMAIN templates = DashboardUnits /\ shared \in BOOLEAN
        /\ \A u \in DashboardUnits : templates[u] = {}
    BY DEF DashInit
  <2>4. added \in [DashboardUnits -> SUBSET Programs] /\ dashOwed \in [DashboardUnits -> SUBSET DashHooks]
    BY DEF DashInit, DashHooks
  <2> QED
    BY <2>2, <2>3, <2>4 DEF DashTypeOK, UniqueIds
<1>2. Typed /\ [DashNext]_dashVars => Typed'
  <2> SUFFICES ASSUME Typed, [DashNext]_dashVars PROVE Typed'
    OBVIOUS
  <2>1. ASSUME DOMAIN templates' = DashboardUnits, \A u \in DashboardUnits : UniqueIds(templates'[u]),
               revision' \in [DashboardUnits -> Revisions], dashLeader' \in DashboardUnits,
               added' \in [DashboardUnits -> SUBSET Programs], shared' \in BOOLEAN,
               dashOwed' \in [DashboardUnits -> SUBSET DashHooks]
        PROVE  Typed'
    BY <2>1 DEF DashTypeOK, UniqueIds
  <2>2. ASSUME NEW u \in DashboardUnits, UpdateFromDir(u)
        PROVE  DOMAIN templates' = DashboardUnits /\ \A v \in DashboardUnits : UniqueIds(templates'[v])
    <3>1. UniqueIds(templates[u]) /\ revision[u] \in Revisions
      BY DEF DashTypeOK
    <3>2. UniqueIds(FromPrograms(templates[u]) \cup DashboardsOf(u))
      BY <3>1, FilesUnique DEF UniqueIds, FromPrograms
    <3> QED
      BY <2>2, <3>2, StoreUnique DEF UpdateFromDir
  <2> HIDE DEF Typed
  <2>3. ASSUME NEW u \in DashboardUnits, DirectoryHook(u) PROVE Typed'
    <3>1. UpdateFromDir(u) /\ dashOwed' = [dashOwed EXCEPT ![u] = @ \ {"directory"}]
      BY <2>3 DEF DirectoryHook
    <3> QED
      BY <2>3, <3>1, <2>1, <2>2 DEF DirectoryHook, Typed, DashTypeOK
  <2>4. ASSUME NEW u \in DashboardUnits, RelationCreatedHook(u) PROVE Typed'
    <3>1. DOMAIN templates' = DashboardUnits /\ \A v \in DashboardUnits : UniqueIds(templates'[v])
      BY <2>4, <2>2 DEF RelationCreatedHook, Typed, DashTypeOK
    <3> QED
      BY <2>4, <3>1, <2>1 DEF RelationCreatedHook, Typed, DashTypeOK
  <2>5. ASSUME NEW u \in DashboardUnits, NEW c \in Programs, AddDashboard(u, c) PROVE Typed'
    <3> DEFINE id == ProgramId(c)
               ts == {t \in templates[u] : t.id # id} \cup {Template(u, id, c)}
    <3>1. id[1] = "prog" /\ Template(u, id, c).id = id
      BY DEF ProgramId, Template
    <3>2. UniqueIds(templates[u])
      BY DEF Typed
    <3> HIDE DEF id
    <3>3. UniqueIds(ts)
      BY <3>1, <3>2 DEF UniqueIds
    <3>4. Store(u, ts)
      BY <2>5 DEF AddDashboard, id
    <3> HIDE DEF ts
    <3>5. DOMAIN templates' = DashboardUnits /\ \A v \in DashboardUnits : UniqueIds(templates'[v])
      BY <3>3, <3>4, StoreUnique DEF Typed
    <3> QED
      BY <2>5, <3>5, <2>1 DEF AddDashboard, Typed, DashTypeOK
  <2>6. ASSUME NEW u \in DashboardUnits, RemoveNonBuiltinDashboards(u) PROVE Typed'
    <3>1. UniqueIds(FromFiles(templates[u]))
      BY DEF Typed, UniqueIds, FromFiles
    <3>2. DOMAIN templates' = DashboardUnits /\ \A v \in DashboardUnits : UniqueIds(templates'[v])
      BY <2>6, <3>1, StoreUnique DEF Typed, RemoveNonBuiltinDashboards
    <3> QED
      BY <2>6, <3>2, <2>1 DEF RemoveNonBuiltinDashboards, Typed, DashTypeOK
  <2>7. ASSUME NEW u \in DashboardUnits, ElectLeader(u) PROVE Typed'
    BY <2>7, <2>1 DEF ElectLeader, Typed, DashTypeOK, DashHooks
  <2>8. ASSUME NEW u \in DashboardUnits, NEW r \in Revisions, UpgradeUnit(u, r) PROVE Typed'
    BY <2>8, <2>1 DEF UpgradeUnit, Typed, DashTypeOK, DashHooks
  <2>9. ASSUME RelateGrafana \/ GrafanaGoes PROVE Typed'
    <3>1. dashOwed \in [DashboardUnits -> SUBSET DashHooks]
      BY DEF Typed, DashTypeOK
    <3>2. dashOwed' \in [DashboardUnits -> SUBSET DashHooks] /\ shared' \in BOOLEAN
      <4>1. CASE RelateGrafana
        BY <3>1, <4>1 DEF RelateGrafana, DashHooks
      <4>2. CASE GrafanaGoes
        BY <3>1, <4>2 DEF GrafanaGoes, DashHooks
      <4> QED
        BY <2>9, <4>1, <4>2
    <3>3. UNCHANGED <<revision, added, templates, dashLeader>>
      BY <2>9 DEF RelateGrafana, GrafanaGoes
    <3> QED
      BY <3>2, <3>3, <2>1 DEF Typed, DashTypeOK
  <2>10. ASSUME UNCHANGED dashVars PROVE Typed'
    BY <2>10, <2>1 DEF dashVars, Typed, DashTypeOK
  <2> QED
    BY <2>3, <2>4, <2>5, <2>6, <2>7, <2>8, <2>9, <2>10 DEF DashNext
<1>3. Typed => DashTypeOK
  OBVIOUS
<1> HIDE DEF Typed
<1> QED
  BY <1>1, <1>2, <1>3, PTL DEF DashSpec

-----------------------------------------------------------------------------
(* EveryUnitLoadsNewest. The invariant: what the leader renders of a       *)
(* relation is in the peer data unless it owes an event of the relation,   *)
(* and what a unit loaded is the peer data unless it owes an event of      *)
(* that. And of the finitely many dashboards of a uid there is one that    *)
(* beats all others.                                                       *)

(* The order of dashboards: total, as no two relations are spelt alike.    *)
LEMMA AsStringInjective ==
  ASSUME NEW r \in 0..99, NEW s \in 0..99
  PROVE  AsString(r) \in Nat /\ (AsString(r) = AsString(s) => r = s)
  BY DEF AsString

IsDashboard(d) ==
  /\ d = [uid |-> d.uid, version |-> d.version, relation |-> d.relation, content |-> d.content]
  /\ d.version \in Nat /\ d.relation \in 0..99 /\ d.content \in Nat

(* Beats is a strict order, and of two of one uid one beats the other.     *)
LEMMA BeatsIsOrder ==
  ASSUME NEW c, NEW d, NEW e, IsDashboard(c), IsDashboard(d), IsDashboard(e)
  PROVE  /\ ~Beats(c, c)
         /\ Beats(c, d) /\ Beats(d, e) => Beats(c, e)
         /\ c.uid = d.uid /\ c # d => Beats(c, d) \/ Beats(d, c)
<1>1. AsString(c.relation) \in Nat /\ AsString(d.relation) \in Nat /\ AsString(e.relation) \in Nat
  BY AsStringInjective DEF IsDashboard
<1>2. AsString(c.relation) = AsString(d.relation) => c.relation = d.relation
  BY AsStringInjective DEF IsDashboard
<1>3. c.relation = d.relation /\ c.uid = d.uid /\ c.version = d.version /\ c.content = d.content => c = d
  BY DEF IsDashboard
<1>4. /\ c.version \in Nat /\ d.version \in Nat /\ e.version \in Nat
      /\ c.content \in Nat /\ d.content \in Nat /\ e.content \in Nat
  BY DEF IsDashboard
<1> QED
  BY <1>1, <1>2, <1>3, <1>4 DEF Beats

(* Of finitely many dashboards of one uid, one beats all the others.       *)
LEMMA NewestExists ==
  ASSUME NEW C, IsFiniteSet(C), C # {}, \A d \in C : IsDashboard(d),
         \A d, e \in C : d.uid = e.uid
  PROVE  \E d \in C : \A e \in C : e # d => Beats(d, e)
<1> DEFINE Above(d) == {e \in C : Beats(e, d)}
<1> DEFINE T == {Above(d) : d \in C}
<1>1. T # {} /\ \A s \in T : IsFiniteSet(s)
  <2>1. \A d \in C : IsFiniteSet(Above(d))
    BY FS_Subset
  <2> QED
    BY <2>1
<1>2. PICK s \in T : \A t \in T : t \subseteq s => t = s
  <2> HIDE DEF T
  <2> QED
    BY <1>1, SmallestSet
<1>3. PICK d \in C : s = Above(d)
  OBVIOUS
<1>4. ASSUME NEW e \in C, Beats(e, d) PROVE FALSE
  <2>1. \A c \in C : Beats(c, e) => Beats(c, d)
    BY <1>4, BeatsIsOrder
  <2>2. Above(e) \subseteq Above(d) /\ Above(e) \in T
    BY <2>1
  <2>3. Above(e) = Above(d)
    BY <1>2, <1>3, <2>2
  <2>4. e \in Above(d) /\ e \notin Above(e)
    BY <1>4, BeatsIsOrder
  <2> QED
    BY <2>3, <2>4
<1> QED
  BY <1>4, BeatsIsOrder

-----------------------------------------------------------------------------
(* What the leader has of a relation is what it holds now, unless it is    *)
(* still to be told; what a unit has loaded is what the peer databag       *)
(* holds, unless it is still to be told.                                   *)
Usable(r) == IF Corrupt(r) THEN {} ELSE Rendered(r)

RelationSeen(r) ==
  LET owed == grafanaOwed[GrafanaLeader] IN
  /\ Event("broken", r) \in owed => offer[r] = {} /\ Event("changed", r) \notin owed
  /\ Event("changed", r) \notin owed /\ Corrupt(r) => r \in eventErrors
  /\ {Event("changed", r), Event("broken", r)} \cap owed = {} => peerData[r] = Usable(r)

PeersFollow ==
  /\ Event("peer", 0) \notin grafanaOwed[GrafanaLeader]
  /\ \A g \in Grafanas :
       Event("peer", 0) \notin grafanaOwed[g] => loaded[g] = Dashboards(peerData)

ConsumerInv == ConsumerTypeOK /\ (\A r \in Sharing : RelationSeen(r)) /\ PeersFollow

(* What there is to load depends on what each relation put there.          *)
LEMMA DashboardsByRelation ==
  ASSUME NEW p, NEW q, \A r \in Sharing : p[r] = q[r]
  PROVE  Dashboards(p) = Dashboards(q)
<1>1. UNION {p[r] : r \in Sharing} = UNION {q[r] : r \in Sharing}
  OBVIOUS
<1> QED
  BY <1>1 DEF Dashboards

(* It does not change while the peer data does not.                        *)
LEMMA SameDashboards ==
  ASSUME peerData' = peerData PROVE Dashboards(peerData)' = Dashboards(peerData)
<1>1. Dashboards(peerData)' = Dashboards(peerData')
  BY DEF Dashboards
<1> QED
  BY <1>1

(* The invariant holds at first.                                           *)
LEMMA ConsumerInitHolds == ConsumerInit => ConsumerInv
<1> SUFFICES ASSUME ConsumerInit PROVE ConsumerInv
  OBVIOUS
<1>1. ConsumerTypeOK /\ \A r \in Sharing : RelationSeen(r)
  BY ConsumerAssumption DEF ConsumerInit, ConsumerTypeOK, RelationSeen, Usable, Corrupt, Rendered
<1>2. Dashboards(peerData) = {}
  BY DEF ConsumerInit, Dashboards
<1>3. PeersFollow
  BY <1>2, ConsumerAssumption DEF PeersFollow, ConsumerInit
<1> QED
  BY <1>1, <1>3 DEF ConsumerInv

(* Charms change what they share, and say so.                              *)
LEMMA SharingKept ==
  ASSUME NEW r \in Sharing, ConsumerInv,
         StopSharing(r) \/ \E o \in Offers : ShareDashboards(r, o)
  PROVE  ConsumerInv'
<1> USE ConsumerAssumption DEF ConsumerInv, ConsumerTypeOK, StopSharing, ShareDashboards
<1>1. /\ peerData' = peerData /\ loaded' = loaded
      /\ \A s \in Sharing \ {r} : offer'[s] = offer[s] /\ (s \in eventErrors' <=> s \in eventErrors)
      /\ \A g \in Grafanas : \A e \in GrafanaEvents :
           e.relation # r \/ e.kind = "peer" => (e \in grafanaOwed'[g] <=> e \in grafanaOwed[g])
  BY DEF GrafanaEvents, Event
<1>2. ConsumerTypeOK'
  <2>1. Event("changed", r) \in GrafanaEvents /\ Event("broken", r) \in GrafanaEvents
    BY DEF GrafanaEvents
  <2>2. CASE StopSharing(r)
    BY <2>1, <2>2
  <2>3. ASSUME NEW o \in Offers, ShareDashboards(r, o) PROVE ConsumerTypeOK'
    BY <2>1, <2>3
  <2> QED
    BY <2>2, <2>3
<1>3. ASSUME NEW s \in Sharing \ {r} PROVE RelationSeen(s)'
  <2>1. Event("changed", s) \in GrafanaEvents /\ Event("broken", s) \in GrafanaEvents
    BY DEF GrafanaEvents
  <2>2. /\ Event("changed", s) \in grafanaOwed'[GrafanaLeader] <=> Event("changed", s) \in grafanaOwed[GrafanaLeader]
        /\ Event("broken", s) \in grafanaOwed'[GrafanaLeader] <=> Event("broken", s) \in grafanaOwed[GrafanaLeader]
    BY <1>1, <2>1 DEF Event
  <2>3. Usable(s)' = Usable(s) /\ (Corrupt(s)' <=> Corrupt(s))
    BY <1>1 DEF Usable, Rendered, Corrupt
  <2> QED
    BY <1>1, <2>2, <2>3 DEF RelationSeen
<1>4. RelationSeen(r)'
  BY DEF RelationSeen, Event, Corrupt
<1>5. PeersFollow'
  <2>1. Event("peer", 0) \in GrafanaEvents
    BY DEF GrafanaEvents
  <2>2. \A g \in Grafanas : Event("peer", 0) \in grafanaOwed'[g] <=> Event("peer", 0) \in grafanaOwed[g]
    BY <1>1, <2>1 DEF Event
  <2>3. Dashboards(peerData)' = Dashboards(peerData)
    BY <1>1 DEF Dashboards
  <2> QED
    BY <1>1, <2>2, <2>3 DEF PeersFollow
<1> QED
  BY <1>2, <1>3, <1>4, <1>5

(* The leader reads a relation, or drops it.                               *)
LEMMA LeaderKept ==
  ASSUME NEW r \in Sharing, ConsumerInv, LeaderSeesChange(r) \/ LeaderSeesBroken(r)
  PROVE  ConsumerInv'
<1> USE ConsumerAssumption DEF ConsumerInv, ConsumerTypeOK
<1> DEFINE owed == grafanaOwed[GrafanaLeader]
<1>1. PICK k \in {"changed", "broken"} :
        /\ Event(k, r) \in owed /\ StorePeerData(peerData', Event(k, r))
        /\ k = "broken" => offer[r] = {} /\ Event("changed", r) \notin owed
        /\ peerData' = [peerData EXCEPT ![r] = Usable(r)]
        /\ offer' = offer /\ giving' = giving
        /\ eventErrors \subseteq eventErrors' /\ eventErrors' \subseteq eventErrors \cup {r}
        /\ k = "changed" /\ Corrupt(r) => r \in eventErrors'
  <2>1. CASE LeaderSeesChange(r)
    BY <2>1 DEF LeaderSeesChange, StorePeerData, Usable
  <2>2. CASE LeaderSeesBroken(r)
    <3>1. offer[r] = {} /\ Event("changed", r) \notin owed
      BY <2>2 DEF LeaderSeesBroken, RelationSeen
    <3>2. Usable(r) = {}
      BY <3>1 DEF Usable, Corrupt, Rendered
    <3> QED
      BY <2>2, <3>1, <3>2 DEF LeaderSeesBroken, StorePeerData
  <2> QED
    BY <2>1, <2>2
<1>2. /\ grafanaOwed'[GrafanaLeader] = owed \ {Event(k, r)}
      /\ \A g \in Grafanas \ {GrafanaLeader} :
           grafanaOwed'[g] = IF peerData' # peerData THEN grafanaOwed[g] \cup {Event("peer", 0)} ELSE grafanaOwed[g]
      /\ loaded' = IF peerData' # peerData THEN [loaded EXCEPT ![GrafanaLeader] = Dashboards(peerData')] ELSE loaded
  BY <1>1 DEF StorePeerData
<1>3. ConsumerTypeOK'
  <2>1. grafanaOwed' \in [Grafanas -> SUBSET GrafanaEvents]
    BY <1>1 DEF StorePeerData, GrafanaEvents
  <2> QED
    BY <1>1, <1>2, <2>1
<1>4. \A s \in Sharing : Usable(s)' = Usable(s) /\ (Corrupt(s)' <=> Corrupt(s))
  BY <1>1 DEF Usable, Rendered, Corrupt
<1>5. ASSUME NEW s \in Sharing PROVE RelationSeen(s)'
  <2>1. CASE s # r
    BY <1>1, <1>2, <1>4, <2>1 DEF RelationSeen, Event
  <2>2. CASE s = r
    BY <1>1, <1>2, <1>4, <2>2 DEF RelationSeen, Event
  <2> QED
    BY <2>1, <2>2
<1>6. PeersFollow'
  <2>1. Event("peer", 0) \notin grafanaOwed'[GrafanaLeader]
    BY <1>2 DEF PeersFollow
  <2>2. ASSUME peerData' = peerData, NEW g \in Grafanas, Event("peer", 0) \notin grafanaOwed'[g]
        PROVE  loaded'[g] = Dashboards(peerData)'
    <3>1. loaded'[g] = loaded[g] /\ Event("peer", 0) \notin grafanaOwed[g]
      BY <1>1, <1>2, <2>2 DEF PeersFollow, Event
    <3>2. Dashboards(peerData)' = Dashboards(peerData)
      BY <2>2 DEF Dashboards
    <3> QED
      BY <3>1, <3>2 DEF PeersFollow
  <2>3. ASSUME peerData' # peerData, NEW g \in Grafanas, Event("peer", 0) \notin grafanaOwed'[g]
        PROVE  loaded'[g] = Dashboards(peerData)'
    <3>1. g = GrafanaLeader
      BY <1>2, <2>3
    <3>2. Dashboards(peerData)' = Dashboards(peerData')
      BY DEF Dashboards
    <3> QED
      BY <1>2, <2>3, <3>1, <3>2
  <2> QED
    BY <2>1, <2>2, <2>3 DEF PeersFollow
<1> QED
  BY <1>3, <1>5, <1>6

(* The other units pass over relation events, and load what they are told. *)
LEMMA UnitsKept ==
  ASSUME NEW g \in Grafanas, ConsumerInv,
         PeerChanged(g) \/ \E e \in GrafanaEvents : FollowerPasses(g, e)
  PROVE  ConsumerInv'
<1> USE ConsumerAssumption DEF ConsumerInv, ConsumerTypeOK, PeerChanged, FollowerPasses
<1>1. /\ ConsumerTypeOK' /\ giving' = giving /\ offer' = offer
      /\ peerData' = peerData /\ eventErrors' = eventErrors
  OBVIOUS
<1>2. g # GrafanaLeader /\ grafanaOwed'[GrafanaLeader] = grafanaOwed[GrafanaLeader]
  BY DEF PeersFollow
<1>3. \A r \in Sharing : RelationSeen(r)'
  <2>1. \A r \in Sharing : Usable(r)' = Usable(r) /\ (Corrupt(r)' <=> Corrupt(r))
    BY <1>1 DEF Usable, Rendered, Corrupt
  <2> QED
    BY <1>1, <1>2, <2>1 DEF RelationSeen
<1>4. PeersFollow'
  <2>1. Dashboards(peerData)' = Dashboards(peerData)
    BY <1>1, SameDashboards
  <2>2. CASE PeerChanged(g)
    BY <1>2, <2>1, <2>2 DEF PeersFollow
  <2>3. ASSUME NEW e \in GrafanaEvents, FollowerPasses(g, e) PROVE PeersFollow'
    BY <1>2, <2>1, <2>3 DEF PeersFollow, Event
  <2> QED
    BY <2>2, <2>3
<1> QED
  BY <1>1, <1>3, <1>4

-----------------------------------------------------------------------------
(* And every step keeps it.                                                *)
LEMMA ConsumerInvInductive ==
  /\ ConsumerInit => ConsumerInv
  /\ ConsumerInv /\ [ConsumerNext]_consumerVars => ConsumerInv'
<1>1. ASSUME ConsumerInv, UNCHANGED consumerVars PROVE ConsumerInv'
  <2>1. ConsumerTypeOK'
    BY <1>1 DEF consumerVars, ConsumerInv, ConsumerTypeOK
  <2>2. (\A r \in Sharing : RelationSeen(r))'
    BY <1>1 DEF consumerVars, ConsumerInv, RelationSeen, Usable, Rendered, Corrupt
  <2>3. PeersFollow'
    BY <1>1, SameDashboards DEF consumerVars, ConsumerInv, PeersFollow
  <2> QED
    BY <2>1, <2>2, <2>3 DEF ConsumerInv
<1>2. ASSUME ConsumerInv, ConsumerNext PROVE ConsumerInv'
  <2>1. \/ \E r \in Sharing : \/ StopSharing(r) \/ \E o \in Offers : ShareDashboards(r, o)
                             \/ LeaderSeesChange(r) \/ LeaderSeesBroken(r)
        \/ \E g \in Grafanas : PeerChanged(g) \/ \E e \in GrafanaEvents : FollowerPasses(g, e)
    BY <1>2 DEF ConsumerNext
  <2> QED
    BY <1>2, <2>1, SharingKept, LeaderKept, UnitsKept
<1> QED
  BY <1>1, <1>2, ConsumerInitHolds

(* What the leader has rendered: finitely many dashboards, of the order.   *)
LEMMA RenderedFinite ==
  ASSUME ConsumerTypeOK, NEW r \in Sharing
  PROVE  IsFiniteSet(Rendered(r)) /\ \A d \in Rendered(r) : IsDashboard(d)
<1> DEFINE good == {s \in offer[r] : s.form = "good"}
<1>1. IsFiniteSet(offer[r]) /\ \A t \in offer[r] : t.version \in Nat /\ t.content \in Nat
  BY ConsumerAssumption, FS_EmptySet DEF ConsumerTypeOK
<1>2. IsFiniteSet(good)
  BY <1>1, FS_Subset
<1>3. IsFiniteSet(Rendered(r))
  <2> DEFINE f == [t \in good |->
        [uid |-> t.uid, version |-> t.version, relation |-> r, content |-> t.content]]
  <2>1. Rendered(r) = {f[t] : t \in good}
    BY DEF Rendered
  <2> QED
    <3>1. DOMAIN f = good /\ f = [t \in good |-> f[t]]
      OBVIOUS
    <3> HIDE DEF f, good
    <3> QED
      BY <1>2, <2>1, <3>1, FiniteImage
<1>4. \A d \in Rendered(r) : IsDashboard(d)
  BY <1>1, ConsumerAssumption DEF Rendered, IsDashboard
<1> QED
  BY <1>3, <1>4 DEF Rendered

(* Of the dashboards that are shown, those of one uid.                     *)
AllShown == UNION {Shown(r) : r \in Sharing}

(* Those of one uid are finitely many dashboards.                          *)
LEMMA ShownOfUid ==
  ASSUME ConsumerTypeOK, NEW i
  PROVE  /\ IsFiniteSet({d \in AllShown : d.uid = i})
         /\ \A d \in AllShown : IsDashboard(d)
<1> DEFINE Sets == {Shown(r) : r \in Sharing}
<1>1. \A r \in Sharing : Shown(r) \subseteq Rendered(r)
  BY DEF Shown
<1>2. \A r \in Sharing : IsFiniteSet(Shown(r))
  BY <1>1, RenderedFinite, FS_Subset
<1>3. IsFiniteSet(Sharing)
  <2>1. IsFiniteSet(0..99)
    <3>1. 0 \in Int /\ 99 \in Int
      OBVIOUS
    <3> QED
      BY <3>1, FS_Interval
  <2> QED
    BY <2>1, ConsumerAssumption, FS_Subset
<1>4. IsFiniteSet(Sets)
  <2> DEFINE f == [r \in Sharing |-> Shown(r)]
  <2>1. Sets = {f[r] : r \in Sharing}
    OBVIOUS
  <2> QED
    <3>1. DOMAIN f = Sharing /\ f = [r \in Sharing |-> f[r]]
      OBVIOUS
    <3> HIDE DEF f, Sets
    <3> QED
      BY <1>3, <2>1, <3>1, FiniteImage
<1>5. IsFiniteSet(UNION Sets)
  <2> HIDE DEF Sets
  <2>1. \A s \in Sets : IsFiniteSet(s)
    BY <1>2 DEF Sets
  <2> QED
    BY <1>4, <2>1, FS_UNION
<1>6. IsFiniteSet({d \in AllShown : d.uid = i})
  BY <1>5, FS_Subset DEF AllShown
<1>7. \A d \in AllShown : IsDashboard(d)
  BY <1>1, RenderedFinite DEF AllShown
<1> QED
  BY <1>6, <1>7

(* Dashboards keeps of each uid the one that beats the others.             *)
LEMMA DashboardsOfShown ==
  ASSUME ConsumerTypeOK, \A r \in Sharing : peerData[r] = Usable(r)
  PROVE  Dashboards(peerData) = {d \in AllShown : \A e \in AllShown : e.uid = d.uid /\ e # d => Beats(d, e)}
<1> DEFINE all == UNION {peerData[r] : r \in Sharing}
<1>1. \A r \in Sharing : Shown(r) = {d \in peerData[r] : d.uid # ""}
  BY DEF Shown, Usable
<1>2. \A d : d \in AllShown <=> d \in all /\ d.uid # ""
  BY <1>1 DEF AllShown
<1> QED
  BY <1>2 DEF Dashboards

(* For any units of Grafana, relations and dashboards.                     *)
LEMMA ConsumerInvImplies == ConsumerInv => EveryUnitLoadsNewest
<1> SUFFICES ASSUME ConsumerInv, \A g \in Grafanas : grafanaOwed[g] = {}
             PROVE  /\ \A g \in Grafanas :
                         /\ loaded[g] \subseteq AllShown
                         /\ \A d \in AllShown : Cardinality({e \in loaded[g] : e.uid = d.uid}) = 1
                         /\ \A d \in AllShown, e \in loaded[g] : e.uid = d.uid => e.version >= d.version
                    /\ \A r \in Sharing : Corrupt(r) => r \in eventErrors
  BY DEF EveryUnitLoadsNewest, AllShown
<1>1. \A r \in Sharing : peerData[r] = Usable(r) /\ (Corrupt(r) => r \in eventErrors)
  BY ConsumerAssumption DEF ConsumerInv, RelationSeen
<1> DEFINE best == {d \in AllShown : \A e \in AllShown : e.uid = d.uid /\ e # d => Beats(d, e)}
<1>2. \A g \in Grafanas : loaded[g] = best
  BY <1>1, DashboardsOfShown DEF ConsumerInv, PeersFollow
<1>3. \A d \in AllShown : IsDashboard(d)
  BY ShownOfUid DEF ConsumerInv
<1>4. ASSUME NEW d \in AllShown PROVE Cardinality({e \in best : e.uid = d.uid}) = 1
  <2> DEFINE C == {e \in AllShown : e.uid = d.uid}
  <2>1. PICK b \in C : \A e \in C : e # b => Beats(b, e)
    <3>1. IsFiniteSet(C) /\ C # {} /\ (\A e \in C : IsDashboard(e)) /\ \A e, f \in C : e.uid = f.uid
      BY <1>3, ShownOfUid DEF ConsumerInv
    <3> QED
      BY <3>1, NewestExists
  <2>2. b \in best /\ b.uid = d.uid
    BY <2>1
  <2>3. \A e \in best : e.uid = d.uid => e = b
    <3> SUFFICES ASSUME NEW e \in best, e.uid = d.uid, e # b PROVE FALSE
      OBVIOUS
    <3>1. Beats(e, b) /\ Beats(b, e)
      BY <2>1
    <3> QED
      BY <1>3, <3>1, <2>1, BeatsIsOrder
  <2>4. {e \in best : e.uid = d.uid} = {b}
    BY <2>2, <2>3
  <2> QED
    BY <2>4, FS_Singleton
<1>5. ASSUME NEW d \in AllShown, NEW e \in best, e.uid = d.uid PROVE e.version >= d.version
  <2>1. e = d \/ Beats(e, d)
    BY <1>5
  <2>2. e.version \in Nat /\ d.version \in Nat
    BY <1>3 DEF IsDashboard
  <2> QED
    BY <2>1, <2>2 DEF Beats
<1> QED
  BY <1>1, <1>2, <1>4, <1>5

(* However many units of Grafana, relations and dashboards, and whatever   *)
(* is offered, a unit that owes no event shows the newest of every uid.    *)
THEOREM EveryUnitLoads == ConsumerSpec => [](EveryUnitLoadsNewest /\ ConsumerTypeOK)
<1>1. ConsumerInv => ConsumerTypeOK
  BY DEF ConsumerInv
<1> QED
  BY <1>1, ConsumerInvInductive, ConsumerInvImplies, PTL DEF ConsumerSpec

-----------------------------------------------------------------------------
(* KeepsWhatPanelsShow. The invariant says that what a dashboard is at     *)
(* each stage is computed from what was received; the rest is about the    *)
(* computation.                                                            *)

(* The ranges come back.  The values that are left after n steps are the   *)
(* first n, and the placeholder behind them.                               *)
After(ranges, n) == [i \in DOMAIN ranges |-> IF i <= n THEN ranges[i] ELSE Placeholder]

(* One replacement puts back one value.                                    *)
LEMMA NextComesBack ==
  ASSUME NEW ranges \in Seq(STRING), \A i \in DOMAIN ranges : ranges[i] # Placeholder,
         NEW n \in 1..Len(ranges)
  PROVE  ReplaceFirst(After(ranges, n - 1), ranges[n]) = After(ranges, n)
<1> DEFINE before == After(ranges, n - 1)
<1>1. DOMAIN ranges = 1..Len(ranges) /\ DOMAIN before = 1..Len(ranges) /\ n \in DOMAIN before
  BY DEF After
<1>2. before[n] = Placeholder /\ \A j \in 1..(n - 1) : before[j] # Placeholder
  BY <1>1 DEF After
<1>3. \A i \in DOMAIN before :
        before[i] = Placeholder /\ (\A j \in 1..(i - 1) : before[j] # Placeholder) => i = n
  BY <1>1, <1>2
<1> HIDE DEF before
<1>4. (CHOOSE i \in DOMAIN before :
         before[i] = Placeholder /\ \A j \in 1..(i - 1) : before[j] # Placeholder) = n
  BY <1>1, <1>2, <1>3
<1>5. ReplaceFirst(before, ranges[n]) = [before EXCEPT ![n] = ranges[n]]
  BY <1>1, <1>2, <1>4 DEF ReplaceFirst
<1>6. [before EXCEPT ![n] = ranges[n]] = After(ranges, n)
  <2>1. [before EXCEPT ![n] = ranges[n]] = [i \in DOMAIN ranges |-> IF i = n THEN ranges[n] ELSE before[i]]
    BY <1>1
  <2>2. \A i \in DOMAIN ranges : (IF i = n THEN ranges[n] ELSE before[i]) = IF i <= n THEN ranges[i] ELSE Placeholder
    BY <1>1 DEF before, After
  <2> QED
    BY <2>1, <2>2 DEF After
<1> QED
  BY <1>5, <1>6 DEF before

(* The recursion of PutBack.                                               *)
Steps(ranges, f) ==
  f = [n \in 0..Len(ranges) |->
         IF n = 0 THEN Blanked(ranges) ELSE ReplaceFirst(f[n - 1], ranges[n])]

(* Every value comes back.                                                 *)
LEMMA RangesComeBack ==
  ASSUME NEW ranges \in Seq(STRING), \A i \in DOMAIN ranges : ranges[i] # Placeholder
  PROVE  PutBack(ranges) = ranges
<1> DEFINE w == [n \in 0..Len(ranges) |-> After(ranges, n)]
<1>0. DOMAIN ranges = 1..Len(ranges) /\ Len(ranges) \in Nat
  OBVIOUS
<1>1. After(ranges, 0) = Blanked(ranges)
  BY <1>0 DEF After, Blanked
<1>2. Steps(ranges, w)
  <2>1. \A n \in 0..Len(ranges) :
          After(ranges, n) = IF n = 0 THEN Blanked(ranges) ELSE ReplaceFirst(w[n - 1], ranges[n])
    <3> SUFFICES ASSUME NEW n \in 0..Len(ranges), n # 0
                 PROVE  After(ranges, n) = ReplaceFirst(w[n - 1], ranges[n])
      BY <1>1
    <3>1. w[n - 1] = After(ranges, n - 1)
      BY <1>0
    <3> QED
      BY <1>0, <3>1, NextComesBack
  <2> QED
    BY <2>1 DEF Steps
<1> DEFINE f == CHOOSE g : Steps(ranges, g)
<1>3. Steps(ranges, f) /\ PutBack(ranges) = f[Len(ranges)]
  <2>1. PutBack(ranges) = f[Len(ranges)]
    BY DEF PutBack, Steps
  <2> HIDE DEF w
  <2> QED
    BY <1>2, <2>1
<1> HIDE DEF f
<1>4. ASSUME NEW k \in 0..Len(ranges), f[k] # After(ranges, k) PROVE FALSE
  <2> DEFINE S == {n \in 0..Len(ranges) : f[n] # After(ranges, n)}
  <2>1. PICK m \in S : \A n \in S : m <= n
    <3>1. S \in SUBSET Nat /\ S # {}
      BY <1>4
    <3> HIDE DEF S
    <3> QED
      BY <3>1, Least
  <2>2. f[0] = Blanked(ranges)
    BY <1>0, <1>3 DEF Steps
  <2>3. m # 0
    BY <1>1, <2>2
  <2>4. m - 1 \in 0..Len(ranges) /\ m - 1 \notin S
    BY <1>0, <2>1, <2>3
  <2>5. f[m - 1] = After(ranges, m - 1)
    BY <2>4
  <2>6. f[m] = ReplaceFirst(f[m - 1], ranges[m])
    BY <1>0, <1>3, <2>3 DEF Steps
  <2> QED
    BY <1>0, <2>3, <2>5, <2>6, NextComesBack
<1>5. After(ranges, Len(ranges)) = ranges
  BY <1>0 DEF After
<1> QED
  BY <1>0, <1>3, <1>4, <1>5

-----------------------------------------------------------------------------
(* The datasources of a dashboard and of what it is converted to.          *)
WellFormed(d) ==
  /\ d = [vars |-> d.vars, hasVars |-> d.hasVars, inputs |-> d.inputs, panels |-> d.panels]
  /\ d.vars \subseteq OwnVariables /\ d.inputs \subseteq OwnVariables
  /\ d.hasVars \in BOOLEAN /\ (d.vars # {} => d.hasVars)
  /\ \A i \in DOMAIN d.panels :
       LET p == d.panels[i] IN
       /\ p = Panel(p.place, p.ref, p.ranges)
       /\ p.place \in Places /\ p.ref \in Refs /\ p.ranges \in Expressions

UniqueNames(vs) == \A v, w \in vs : v.name = w.name => v = w

(* The variables of COS: two, of different names, which say the kind.      *)
LEMMA OurNameFacts ==
  /\ DOMAIN OurName = {"loki", "prometheus"} /\ OurNames = {OurName["loki"], OurName["prometheus"]}
  /\ OurName["loki"] # OurName["prometheus"]
  /\ \A k \in DOMAIN OurName : \E o \in Ours : o.name = OurName[k] /\ o.kind = k
  /\ \A o \in Ours : o.kind \in DOMAIN OurName /\ o.name = OurName[o.kind] /\ o.name \in OurNames /\ ~o.own
  /\ UniqueNames(Ours)
<1>1. /\ DOMAIN OurName = {"loki", "prometheus"}
      /\ OurName["loki"] = "lokids" /\ OurName["prometheus"] = "prometheusds"
  BY DEF OurName
<1>2. \A o \in Ours : o.kind \in DOMAIN OurName /\ o.name = OurName[o.kind] /\ ~o.own
  BY DEF Ours
<1>3. ASSUME NEW k \in DOMAIN OurName PROVE \E o \in Ours : o.name = OurName[k] /\ o.kind = k
  <2>1. [name |-> OurName[k], kind |-> k, own |-> FALSE] \in Ours
    BY Zenon DEF Ours
  <2> QED
    BY <2>1
<1>4. OurNames = {OurName["loki"], OurName["prometheus"]}
  BY <1>1, <1>2, <1>3 DEF OurNames
<1>5. UniqueNames(Ours)
  <2>1. \A o \in Ours : \E k \in DOMAIN OurName : o = [name |-> OurName[k], kind |-> k, own |-> FALSE]
    BY DEF Ours
  <2>2. ASSUME NEW o \in Ours, NEW p \in Ours, o.name = p.name PROVE o = p
    <3>1. PICK k \in DOMAIN OurName : o = [name |-> OurName[k], kind |-> k, own |-> FALSE]
      BY <2>1
    <3>2. PICK l \in DOMAIN OurName : p = [name |-> OurName[l], kind |-> l, own |-> FALSE]
      BY <2>1
    <3>3. OurName[k] = OurName[l]
      BY <2>2, <3>1, <3>2
    <3>4. k = l
      BY <1>1, <3>3
    <3> QED
      BY <3>1, <3>2, <3>4
  <2> QED
    BY <2>2 DEF UniqueNames
<1> QED
  BY <1>1, <1>2, <1>3, <1>4, <1>5

(* A panel that refers to something declared shows the kind of that.       *)
LEMMA KindOfDeclared ==
  ASSUME NEW d, UniqueNames(Declared(d)), NEW ref, NEW v \in Declared(d), v.name = ref.name
  PROVE  KindOf(d, ref) = v.kind
<1>1. (CHOOSE w \in Declared(d) : w.name = ref.name) = v
  BY DEF UniqueNames
<1> QED
  BY <1>1 DEF KindOf

(* No two of what a dashboard declares have one name, before or after.     *)
LEMMA DeclaredUnique ==
  ASSUME NEW d, WellFormed(d)
  PROVE  UniqueNames(Declared(d)) /\ UniqueNames(Declared(ConvertedDashboard(d)))
<1>1. UniqueNames(Declared(d))
  BY ContentAssumption DEF WellFormed, UniqueNames, Declared
<1>2. Declared(ConvertedDashboard(d)) \subseteq Stubbed(d)
  BY DEF Declared, ConvertedDashboard
<1>3. UniqueNames(Stubbed(d))
  <2>1. UniqueNames(d.vars)
    BY <1>1 DEF UniqueNames, Declared
  <2>2. ASSUME NEW v \in Stubbed(d), NEW w \in Stubbed(d)
        PROVE  (v \in d.vars /\ w \in d.vars) \/ (v \in Ours /\ w \in Ours) \/ v.name # w.name
    <3>1. \A y \in Stubbed(d) : y \in d.vars \/ (y \in Ours /\ \A x \in d.vars : x.name # y.name)
      BY DEF Stubbed
    <3> QED
      BY <3>1
  <2> QED
    BY <2>1, <2>2, OurNameFacts DEF UniqueNames
<1> QED
  BY <1>1, <1>2, <1>3 DEF UniqueNames

(* What the converted dashboard declares.                                  *)
LEMMA ConvertedDeclares ==
  ASSUME NEW d, WellFormed(d), ~Namesake(d)
  PROVE  LET c == ConvertedDashboard(d) IN
         /\ \A v \in Declared(c) : v \in d.vars \/ v \in Ours
         /\ \A v \in d.vars : v.name \in OurNames => v \in Declared(c)
         /\ \A o \in Ours : (\E w \in d.vars : w.name = o.name) \/ o \in Declared(c)
<1> DEFINE c == ConvertedDashboard(d)
<1>1. Declared(c) = {v \in Stubbed(d) : v.own => v.name \notin UsedReplacements(d)}
  BY DEF Declared, ConvertedDashboard
<1>2. ASSUME NEW v \in d.vars, v.name \in OurNames PROVE v.name \notin UsedReplacements(d)
  <2> SUFFICES ASSUME d.hasVars, NEW i \in DOMAIN d.panels, Replaced(d, d.panels[i]),
                      d.panels[i].ref.name = v.name
               PROVE  FALSE
    BY DEF UsedReplacements
  <2>1. d.panels[i].ref.braces
    BY <1>2, ContentAssumption DEF Namesake, WellFormed
  <2>2. NewKind(d, d.panels[i].ref) = "other"
    BY <1>2, <2>1 DEF NewKind, DeclaredKind, IsOurs
  <2> QED
    BY <2>2, OurNameFacts DEF Replaced
<1>3. \A o \in Ours : ~o.own
  BY OurNameFacts
<1> QED
  BY <1>1, <1>2, <1>3 DEF Stubbed

(* There is one of ours, or a variable of the same name that is of its kind. *)
LEMMA OurKindIsThere ==
  ASSUME NEW d, WellFormed(d), ~Namesake(d), ~Impostor(d), NEW k \in DOMAIN OurName
  PROVE  \E v \in Declared(ConvertedDashboard(d)) : v.name = OurName[k] /\ v.kind = k
<1>1. PICK o \in Ours : o.name = OurName[k] /\ o.kind = k
  BY OurNameFacts
<1>2. CASE o \in Declared(ConvertedDashboard(d))
  BY <1>1, <1>2
<1>3. CASE \E w \in d.vars : w.name = o.name
  <2>1. PICK w \in d.vars : w.name = o.name
    BY <1>3
  <2>2. w.kind = k
    BY <1>1, <2>1 DEF Impostor, Declared
  <2>3. w \in Declared(ConvertedDashboard(d))
    BY <1>1, <2>1, OurNameFacts, ConvertedDeclares
  <2> QED
    BY <1>1, <2>1, <2>2, <2>3
<1> QED
  BY <1>2, <1>3, ConvertedDeclares

(* Unless a name misleads it, the conversion finds the kind a panel shows. *)
LEMMA KindIsFound ==
  ASSUME NEW d, WellFormed(d), NEW ref \in Refs, ~Misspelt(d, ref), KindOf(d, ref) \in DOMAIN OurName,
         d.hasVars => ~IsOurs(ref) /\ \E v \in Declared(d) : v.name = ref.name
  PROVE  NewKind(d, ref) = KindOf(d, ref)
<1> DEFINE k == KindOf(d, ref)
<1>1. CASE d.hasVars
  BY <1>1 DEF NewKind, DeclaredKind, KindOf
<1>2. CASE ~d.hasVars /\ \E v \in Declared(d) : v.name = ref.name
  <2>1. PICK v \in Declared(d) : v.name = ref.name
    BY <1>2
  <2>2. k = v.kind /\ v \in OwnVariables
    BY <2>1, DeclaredUnique, KindOfDeclared DEF WellFormed, Declared
  <2>3. ref.style = "object" => ref.kind = v.kind
    BY <2>1, <2>2, ContentAssumption
  <2>4. ref.style \in {"text", "object"} /\ k \in {"loki", "prometheus"}
    BY ContentAssumption, OurNameFacts
  <2> QED
    BY <1>2, <2>2, <2>3, <2>4 DEF NewKind, GuessedKind, Misspelt
<1>3. CASE ~d.hasVars /\ ~\E v \in Declared(d) : v.name = ref.name
  <2>1. ref.style = "object" /\ k = ref.kind
    BY <1>3, OurNameFacts DEF KindOf
  <2> QED
    BY <1>3, <2>1 DEF NewKind, GuessedKind
<1> QED
  BY <1>1, <1>2, <1>3

(* A panel shows the same kind after the conversion.                       *)
LEMMA KindKept ==
  ASSUME NEW d, WellFormed(d), NEW i \in DOMAIN d.panels, d.panels[i].place # "nested",
         KindOf(d, d.panels[i].ref) \in DOMAIN OurName,
         ~Namesake(d), ~Impostor(d), ~Misspelt(d, d.panels[i].ref)
  PROVE  KindOf(ConvertedDashboard(d), TemplatePanel(d, d.panels[i]).ref) = KindOf(d, d.panels[i].ref)
<1> DEFINE p == d.panels[i]
           ref == p.ref
           k == KindOf(d, ref)
           c == ConvertedDashboard(d)
<1>0. p = Panel(p.place, ref, p.ranges) /\ ref \in Refs
  BY DEF WellFormed
<1>1. UniqueNames(Declared(c)) /\ UniqueNames(Declared(d))
  BY DeclaredUnique
<1>2. PICK w \in Declared(c) : w.name = OurName[k] /\ w.kind = k
  BY OurKindIsThere
<1>3. CASE Replaced(d, p)
  <2>1. NewKind(d, ref) \in DOMAIN OurName
    BY <1>3 DEF Replaced
  <2>2. d.hasVars => ~IsOurs(ref) /\ \E v \in Declared(d) : v.name = ref.name
    BY <2>1, OurNameFacts DEF NewKind, DeclaredKind
  <2>3. NewKind(d, ref) = k
    BY <1>0, <2>2, KindIsFound
  <2>4. TemplatePanel(d, p).ref.name = OurName[k]
    BY <1>0, <1>3, <2>3 DEF TemplatePanel, Panel
  <2> DEFINE new == TemplatePanel(d, p).ref
  <2>5. KindOf(c, new) = k
    <3> HIDE DEF c, k, new
    <3> QED
      BY <1>1, <1>2, <2>4, KindOfDeclared DEF new
  <2> QED
    BY <2>5
<1>4. CASE ~Replaced(d, p) /\ \E v \in Declared(d) : v.name = ref.name
  <2>1. PICK v \in Declared(d) : v.name = ref.name
    BY <1>4
  <2>2. v.kind = k
    BY <1>1, <2>1, KindOfDeclared
  <2>3. NewKind(d, ref) \notin DOMAIN OurName
    BY <1>4 DEF Replaced, Reached
  <2>4. d.hasVars /\ IsOurs(ref)
    BY <1>0, <2>1, <2>3, KindIsFound DEF WellFormed
  <2>5. PICK o \in Ours : o.name = ref.name
    BY <2>4 DEF IsOurs, OurNames
  <2>6. o.kind = k /\ ref.name = OurName[k]
    BY <2>1, <2>2, <2>5, OurNameFacts DEF Impostor
  <2>7. KindOf(c, ref) = k
    <3> HIDE DEF c, k
    <3> QED
      BY <1>1, <1>2, <2>6, KindOfDeclared
  <2> QED
    BY <1>4, <2>7 DEF TemplatePanel
<1>5. CASE ~Replaced(d, p) /\ ~\E v \in Declared(d) : v.name = ref.name
  <2>1. ref.name \notin OurNames /\ ref.style = "object" /\ k = ref.kind
    BY <1>5, OurNameFacts DEF KindOf
  <2>2. ~\E v \in Declared(c) : v.name = ref.name
    BY <1>5, <2>1, OurNameFacts, ConvertedDeclares DEF Declared
  <2>3. KindOf(c, ref) = k
    BY <2>1, <2>2 DEF KindOf
  <2> QED
    BY <1>5, <2>3 DEF TemplatePanel
<1> QED
  BY <1>3, <1>4, <1>5

-----------------------------------------------------------------------------
(* What a dashboard is at each stage follows from what was received.       *)
ContentInv ==
  /\ stage \in {"none", "received", "converted", "labelled"}
  /\ stage = "none" => dashboard.vars = {} /\ dashboard.panels = << >>
  /\ stage # "none" => WellFormed(received)
  /\ stage = "received" => dashboard = received
  /\ stage = "converted" => dashboard = ConvertedDashboard(received)
  /\ stage = "labelled" => dashboard = LabelledDashboard(ConvertedDashboard(received))

(* A dashboard of a relation is well formed.                               *)
LEMMA ReceivedIsWellFormed ==
  ASSUME Receive
  PROVE  WellFormed(dashboard') /\ received' = dashboard'
<1>1. PICK vs \in SUBSET OwnVariables : \E is \in SUBSET (OwnVariables \ vs), has \in {vs # {}, TRUE},
             p, q \in Places \X Refs, e \in Expressions :
        dashboard' = [vars |-> vs, hasVars |-> has, inputs |-> is,
                      panels |-> <<Panel(p[1], p[2], e), Panel(q[1], q[2], e)>>]
  BY DEF Receive
<1>2. PICK is \in SUBSET (OwnVariables \ vs), has \in {vs # {}, TRUE},
             p \in Places \X Refs, q \in Places \X Refs, e \in Expressions :
        dashboard' = [vars |-> vs, hasVars |-> has, inputs |-> is,
                      panels |-> <<Panel(p[1], p[2], e), Panel(q[1], q[2], e)>>]
  BY <1>1
<1> DEFINE ps == <<Panel(p[1], p[2], e), Panel(q[1], q[2], e)>>
           d == [vars |-> vs, hasVars |-> has, inputs |-> is, panels |-> ps]
<1>3. ASSUME NEW i \in DOMAIN ps
      PROVE  /\ ps[i] = Panel(ps[i].place, ps[i].ref, ps[i].ranges)
             /\ ps[i].place \in Places /\ ps[i].ref \in Refs /\ ps[i].ranges \in Expressions
  <2>1. i = 1 \/ i = 2
    OBVIOUS
  <2>2. ps[1] = Panel(p[1], p[2], e) /\ ps[2] = Panel(q[1], q[2], e)
    OBVIOUS
  <2> QED
    BY <2>1, <2>2 DEF Panel
<1>4. d.panels = ps /\ d.vars = vs /\ d.hasVars = has /\ d.inputs = is
  OBVIOUS
<1>5. has \in BOOLEAN /\ (vs # {} => has)
  OBVIOUS
<1>6. WellFormed(d)
  <2> HIDE DEF ps
  <2> QED
    BY <1>3, <1>4, <1>5 DEF WellFormed
<1> QED
  BY <1>2, <1>6 DEF Receive

(* The panels of the converted dashboard, and of the labelled one.         *)
LEMMA PanelsOfStages ==
  ASSUME NEW d, WellFormed(d)
  PROVE  LET c == ConvertedDashboard(d)  l == LabelledDashboard(c) IN
         /\ l.vars = c.vars /\ l.inputs = c.inputs /\ l.hasVars = c.hasVars
         /\ DOMAIN c.panels = DOMAIN d.panels /\ DOMAIN l.panels = DOMAIN d.panels
         /\ \A i \in DOMAIN d.panels :
              /\ c.panels[i] = TemplatePanel(d, d.panels[i])
              /\ c.panels[i].place = d.panels[i].place /\ c.panels[i].ranges = d.panels[i].ranges
              /\ l.panels[i].place = c.panels[i].place /\ l.panels[i].ref = c.panels[i].ref
              /\ l.panels[i].ranges \in {d.panels[i].ranges, PutBack(d.panels[i].ranges)}
<1> DEFINE c == ConvertedDashboard(d)
           l == LabelledDashboard(c)
<1>1. DOMAIN c.panels = DOMAIN d.panels /\ \A i \in DOMAIN d.panels : c.panels[i] = TemplatePanel(d, d.panels[i])
  BY DEF ConvertedDashboard
<1>2. c = [vars |-> c.vars, hasVars |-> c.hasVars, inputs |-> c.inputs, panels |-> c.panels]
  BY DEF ConvertedDashboard
<1>3. /\ l.vars = c.vars /\ l.inputs = c.inputs /\ l.hasVars = c.hasVars
      /\ l.panels = [i \in DOMAIN c.panels |-> LabelledPanel(c.panels[i])]
  <2> HIDE DEF c
  <2> QED
    BY <1>2 DEF LabelledDashboard
<1>4. ASSUME NEW i \in DOMAIN d.panels
      PROVE  /\ c.panels[i] = TemplatePanel(d, d.panels[i])
             /\ c.panels[i].place = d.panels[i].place /\ c.panels[i].ranges = d.panels[i].ranges
             /\ l.panels[i].place = c.panels[i].place /\ l.panels[i].ref = c.panels[i].ref
             /\ l.panels[i].ranges \in {d.panels[i].ranges, PutBack(d.panels[i].ranges)}
  <2> DEFINE p == d.panels[i]
             t == TemplatePanel(d, p)
  <2>1. p = Panel(p.place, p.ref, p.ranges)
    BY DEF WellFormed
  <2>2. t = Panel(p.place, t.ref, p.ranges)
    <3> HIDE DEF p
    <3> QED
      BY <2>1 DEF TemplatePanel, Panel
  <2>3. t.place = p.place /\ t.ranges = p.ranges
    <3> HIDE DEF t, p
    <3> QED
      BY <2>2 DEF Panel
  <2>4. /\ LabelledPanel(t).place = t.place /\ LabelledPanel(t).ref = t.ref
        /\ LabelledPanel(t).ranges \in {t.ranges, PutBack(t.ranges)}
    <3> HIDE DEF t, p
    <3> QED
      BY <2>2 DEF LabelledPanel, Panel
  <2>5. c.panels[i] = t /\ l.panels[i] = LabelledPanel(t)
    <3> HIDE DEF c, l
    <3> QED
      BY <1>1, <1>3
  <2> HIDE DEF c, l, t
  <2> QED
    BY <2>3, <2>4, <2>5 DEF t
<1> HIDE DEF c, l
<1> QED
  BY <1>1, <1>3, <1>4 DEF c, l

(* What comes of a dashboard is of the same shape at every stage.          *)
LEMMA StagesFit ==
  ASSUME ContentInv
  PROVE  ContentTypeOK
<1>1. CASE stage = "none"
  BY <1>1 DEF ContentInv, ContentTypeOK
<1> DEFINE c == ConvertedDashboard(received)
<1>2. ASSUME stage # "none"
      PROVE  /\ \A v \in c.vars : v \in OwnVariables \cup Ours
             /\ \A i \in DOMAIN c.panels : c.panels[i].place \in Places
  <2>1. WellFormed(received)
    BY <1>2 DEF ContentInv
  <2>2. \A v \in c.vars : v \in OwnVariables \cup Ours
    BY <2>1 DEF ConvertedDashboard, Stubbed, WellFormed
  <2>3. \A i \in DOMAIN c.panels : c.panels[i].place \in Places
    <3> HIDE DEF c
    <3> QED
      BY <2>1, PanelsOfStages DEF c, WellFormed
  <2> QED
    BY <2>2, <2>3
<1>3. CASE stage = "received"
  BY <1>3 DEF ContentInv, ContentTypeOK, WellFormed
<1>4. CASE stage = "converted"
  BY <1>2, <1>4 DEF ContentInv, ContentTypeOK
<1>5. CASE stage = "labelled"
  <2>1. dashboard = LabelledDashboard(c) /\ WellFormed(received)
    BY <1>5 DEF ContentInv
  <2>2. /\ dashboard.vars = c.vars /\ DOMAIN dashboard.panels = DOMAIN c.panels
        /\ \A i \in DOMAIN c.panels : dashboard.panels[i].place = c.panels[i].place
    BY <2>1, PanelsOfStages
  <2> HIDE DEF c
  <2> QED
    BY <1>2, <1>5, <2>2 DEF ContentTypeOK
<1> QED
  BY <1>1, <1>3, <1>4, <1>5 DEF ContentInv

(* What was received decides what the properties say of the later stages.  *)
LEMMA StagesKeep ==
  ASSUME ContentInv
  PROVE  KeepsWhatPanelsShow
<1> DEFINE d == received
           c == ConvertedDashboard(d)
<1> SUFFICES ASSUME stage \in {"converted", "labelled"}, NEW i \in DOMAIN d.panels
             PROVE  /\ KindOf(d, d.panels[i].ref) \in DOMAIN OurName /\ d.panels[i].place # "nested"
                         /\ ~Namesake(d) /\ ~Impostor(d) /\ ~Misspelt(d, d.panels[i].ref) =>
                           KindOf(dashboard, dashboard.panels[i].ref) = KindOf(d, d.panels[i].ref)
                    /\ (\A r \in DOMAIN d.panels[i].ranges : d.panels[i].ranges[r] # Placeholder) =>
                         dashboard.panels[i].ranges = d.panels[i].ranges
  BY DEF KeepsWhatPanelsShow
<1>1. WellFormed(d) /\ dashboard \in {c, LabelledDashboard(c)}
  BY DEF ContentInv
<1>2. /\ dashboard.vars = c.vars /\ dashboard.inputs = c.inputs
      /\ dashboard.panels[i].ref = TemplatePanel(d, d.panels[i]).ref
      /\ dashboard.panels[i].ranges \in {d.panels[i].ranges, PutBack(d.panels[i].ranges)}
  <2> HIDE DEF c
  <2> QED
    BY <1>1, PanelsOfStages DEF c
<1>3. KindOf(dashboard, dashboard.panels[i].ref) = KindOf(c, TemplatePanel(d, d.panels[i]).ref)
  <2>1. Declared(dashboard) = Declared(c)
    BY <1>2 DEF Declared
  <2> HIDE DEF c
  <2> QED
    BY <1>2, <2>1 DEF KindOf
<1>4. d.panels[i].ranges \in Seq(STRING)
  BY <1>1, ContentAssumption DEF WellFormed
<1> QED
  BY <1>1, <1>2, <1>3, <1>4, KindKept, RangesComeBack

(* The invariant is inductive.                                             *)
LEMMA ContentInvInductive ==
  /\ ContentInit => ContentInv
  /\ ContentInv /\ [ContentNext]_contentVars => ContentInv'
<1>1. ContentInit => ContentInv
  BY DEF ContentInit, ContentInv
<1>2. ASSUME ContentInv, [ContentNext]_contentVars PROVE ContentInv'
  <2>1. CASE Receive
    <3>1. stage' = "received" /\ WellFormed(received)' /\ dashboard' = received'
      BY <2>1, ReceivedIsWellFormed DEF Receive, WellFormed
    <3> QED
      BY <3>1 DEF ContentInv
  <2>2. CASE Convert
    <3>1. /\ stage' = "converted" /\ received' = received /\ WellFormed(received)
          /\ dashboard' = ConvertedDashboard(received)
      BY <1>2, <2>2 DEF ContentInv, Convert
    <3>2. WellFormed(received)' /\ ConvertedDashboard(received)' = ConvertedDashboard(received)
      <4>1. WellFormed(received)' <=> WellFormed(received')
        BY DEF WellFormed
      <4>2. ConvertedDashboard(received)' = ConvertedDashboard(received')
        BY ONLY TRUE DEF ConvertedDashboard, Stubbed, UsedReplacements, TemplatePanel, Replaced, Reached,
                         NewKind, DeclaredKind, Declared
      <4> QED
        BY <3>1, <4>1, <4>2
    <3> QED
      BY <3>1, <3>2 DEF ContentInv
  <2>3. CASE InjectLabels
    <3>1. /\ stage' = "labelled" /\ received' = received /\ WellFormed(received)
          /\ dashboard' = LabelledDashboard(ConvertedDashboard(received))
      BY <1>2, <2>3 DEF ContentInv, InjectLabels
    <3> QED
      BY <3>1 DEF ContentInv
  <2>4. CASE UNCHANGED contentVars
    BY <1>2, <2>4 DEF ContentInv, contentVars
  <2> QED
    BY <1>2, <2>1, <2>2, <2>3, <2>4 DEF ContentNext
<1> QED
  BY <1>1, <1>2

(* Whatever a dashboard declares and its panels refer to, what comes out   *)
(* of the conversion and of the labels shows what the dashboard showed.    *)
THEOREM ContentIsKept == ContentSpec => [](KeepsWhatPanelsShow /\ ContentTypeOK)
<1>1. ContentInv => KeepsWhatPanelsShow /\ ContentTypeOK
  BY StagesFit, StagesKeep
<1> QED
  BY <1>1, ContentInvInductive, PTL DEF ContentSpec
=============================================================================
