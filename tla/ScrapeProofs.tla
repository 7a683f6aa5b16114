---------------------------- MODULE ScrapeProofs ----------------------------
(***************************************************************************)
(* RulesArrive, EveryTargetScraped and TargetsFollowUnits, for any         *)
(* constants.                                                              *)
(***************************************************************************)
EXTENDS AlertRuleSharing, ScrapeTargets, ScrapeAggregator, SequenceTheorems, FiniteFacts

(* RulesArrive. What is in the databags has its type and who was refused   *)
(* has been told, that is inductive; the rest is about the files made of   *)
(* any databags: of the rules with one identifier the last one is kept.    *)

(* A backend that has looked has told every charm it refused.              *)
RefusedTold == \A b \in collected : \A s \in Considered : ~ruleBag[s].good => s \in refused[b]

RuleInv == RuleTypeOK /\ RefusedTold

(* What is made of rule files is of the type of the databag.               *)
LEMMA RuleGroupsTyped ==
  ASSUME NEW d \in RuleDirs
  PROVE  RuleGroups(d) \in [groups : SUBSET AllGroups, good : BOOLEAN]
<1> DEFINE occurrences == UNION {{<<f, g>> : g \in FileGroups(f)} : f \in d}
<1>1. \A o \in occurrences : GroupName(o[2]) \in AllGroups
  <2> SUFFICES ASSUME NEW f \in d, NEW g \in FileGroups(f) PROVE GroupName(g) \in AllGroups
    OBVIOUS
  <2> QED
    BY DEF AllGroups
<1>2. {GroupName(o[2]) : o \in occurrences} \in SUBSET AllGroups
  BY <1>1
<1> QED
  BY <1>2 DEF RuleGroups

(* The invariant is inductive.                                             *)
LEMMA RuleInvInductive ==
  /\ RuleInit => RuleInv
  /\ RuleInv /\ [RuleNext]_ruleVars => RuleInv'
<1>1. ASSUME RuleInit PROVE RuleInv
  BY <1>1 DEF RuleInit, RuleInv, RuleTypeOK, RefusedTold, NoRules
<1>2. ASSUME RuleInv, UNCHANGED ruleVars PROVE RuleInv'
  BY <1>2 DEF ruleVars, RuleInv, RuleTypeOK, RefusedTold, Considered
<1>3. ASSUME RuleInv, NEW s \in Sources,
             \/ SourceComes(s) \/ SourceGoes(s)
             \/ \E d \in RuleDirs : SendRules(s, d)
      PROVE  RuleInv'
  <2>1. collected' = {}
    BY <1>3 DEF SourceComes, SourceGoes, SendRules
  <2>2. RuleTypeOK'
    BY <1>3, RuleGroupsTyped DEF RuleInv, RuleTypeOK, SourceComes, SourceGoes, SendRules
  <2> QED
    BY <2>1, <2>2 DEF RuleInv, RefusedTold
<1>4. ASSUME RuleInv, NEW b \in Backends, Collect(b) PROVE RuleInv'
  <2>1. RuleTypeOK'
    BY <1>4 DEF RuleInv, RuleTypeOK, Collect, Considered
  <2>2. Considered' = Considered /\ ruleBag' = ruleBag
    BY <1>4 DEF Collect, Considered
  <2>3. \A s \in Considered : ~ruleBag[s].good => s \in refused'[b]
    BY <1>4 DEF RuleInv, RuleTypeOK, Collect
  <2>4. \A c \in collected' : c = b \/ (c \in collected /\ refused'[c] = refused[c])
    BY <1>4 DEF RuleInv, RuleTypeOK, Collect
  <2> QED
    BY <1>4, <2>1, <2>2, <2>3, <2>4 DEF RuleInv, RefusedTold
<1> QED
  BY <1>1, <1>2, <1>3, <1>4 DEF RuleNext

-----------------------------------------------------------------------------
(* The dictionary keeps for every identifier the last relation with it.    *)
LEMMA LastIsKept ==
  ASSUME NEW entered \in SUBSET Sources, NEW b, NEW s \in entered
  PROVE  \E r \in entered : /\ r >= s /\ KnownAs(b, r) = KnownAs(b, s)
                            /\ RuleFile(r, KnownAs(b, r)) \in LastOfEach(entered, b)
<1> DEFINE alike == {r \in entered : KnownAs(b, r) = KnownAs(b, s)}
<1>1. alike \in SUBSET Nat /\ alike # {} /\ IsFiniteSet(alike)
  BY SourceAssumption, FS_Subset
<1>2. PICK m \in alike : \A r \in alike : r <= m
  <2> HIDE DEF alike
  <2> QED
    BY <1>1, Greatest
<1>3. \A q \in entered : KnownAs(b, q) = KnownAs(b, m) => q <= m
  BY <1>2
<1>4. RuleFile(m, KnownAs(b, m)) \in LastOfEach(entered, b)
  BY <1>2, <1>3 DEF LastOfEach
<1> QED
  BY <1>1, <1>2, <1>4

(* To Prometheus no two relations are known alike.                         *)
LEMMA PrometheusTellsApart ==
  ASSUME NEW r, NEW s, PrometheusIdentifier(r) = PrometheusIdentifier(s)
  PROVE  r = s
<1>1. ASSUME NEW t PROVE PrometheusIdentifier(t)[3] = t
  <2>1. PICK x, y : Identifier("prometheus", t) = <<x, y>>
    BY Zenon DEF Identifier
  <2>2. PrometheusIdentifier(t) = Append(<<x, y>>, t)
    BY <2>1, Zenon DEF PrometheusIdentifier
  <2>3. Append(<<x, y>>, t)[3] = t
    OBVIOUS
  <2> QED
    BY <2>2, <2>3
<1> QED
  BY <1>1

(* None of the files of Prometheus is overwritten by another.              *)
LEMMA PrometheusKeepsAll == RuleTypeOK => {f.from : f \in PrometheusFiles} = {s \in Considered : ruleBag[s].good}
<1> SUFFICES ASSUME RuleTypeOK PROVE {f.from : f \in PrometheusFiles} = {s \in Considered : ruleBag[s].good}
  OBVIOUS
<1> DEFINE entered == {s \in Considered : ruleBag[s].good}
<1>1. entered \subseteq Nat
  BY SourceAssumption DEF RuleTypeOK, Considered
<1>2. \A q, r \in entered : KnownAs("prometheus", q) = KnownAs("prometheus", r) => q <= r
  BY <1>1, PrometheusTellsApart DEF KnownAs
<1>3. LastOfEach(entered, "prometheus") = {RuleFile(s, KnownAs("prometheus", s)) : s \in entered}
  BY <1>2 DEF LastOfEach
<1>4. PrometheusFiles = {RuleFile(s, KnownAs("prometheus", s)) : s \in entered}
  BY <1>3 DEF PrometheusFiles
<1>5. \A s : RuleFile(s, KnownAs("prometheus", s)).from = s
  BY DEF RuleFile
<1>6. {f.from : f \in PrometheusFiles} = entered
  <2> HIDE DEF entered
  <2> QED
    BY <1>4, <1>5
<1> QED
  BY <1>6

(* For any relations and rule files.                                       *)
LEMMA RuleInvImplies == RuleInv => RulesArrive
<1> SUFFICES ASSUME RuleInv PROVE RulesArrive
  OBVIOUS
<1> DEFINE valid == {s \in Considered : ruleBag[s].good}
<1> DEFINE entered == {s \in Considered : ruleBag[s].good \/ (s \notin Labelling /\ s \in metadata["loki"])}
<1>1. Considered \subseteq Sources
  BY DEF RuleInv, RuleTypeOK, Considered
<1>2. \A f \in LokiFiles : ~f.good => f.from \notin Labelling
  BY DEF LokiFiles, LastOfEach, RuleFile
<1>3. ASSUME NEW s \in Considered, ruleBag[s].good
      PROVE  \E f \in LokiFiles : f.from >= s /\ f.id = Identifier("loki", s)
  <2>1. entered \in SUBSET Sources /\ s \in entered
    BY <1>1, <1>3
  <2>2. PICK r \in entered : /\ r >= s /\ KnownAs("loki", r) = KnownAs("loki", s)
                             /\ RuleFile(r, KnownAs("loki", r)) \in LastOfEach(entered, "loki")
    <3> HIDE DEF entered
    <3> QED
      BY <2>1, LastIsKept
  <2> QED
    BY <2>2 DEF LokiFiles, RuleFile, KnownAs
<1>4. ASSUME NEW b \in collected, NEW s \in Considered
      PROVE  s \in refused[b] \/ \E f \in RuleFiles(b) : f.from = s \/ f.id = KnownAs(b, s)
  <2>1. CASE ~ruleBag[s].good
    BY <1>4, <2>1 DEF RuleInv, RefusedTold
  <2>2. CASE ruleBag[s].good /\ b = "loki"
    BY <1>3, <2>2 DEF RuleFiles, KnownAs
  <2>3. CASE ruleBag[s].good /\ b # "loki"
    <3>1. s \in {f.from : f \in PrometheusFiles}
      BY <2>3, PrometheusKeepsAll DEF RuleInv
    <3> QED
      BY <2>3, <3>1 DEF RuleFiles
  <2> QED
    BY <2>1, <2>2, <2>3
<1> QED
  BY <1>2, <1>3, <1>4, PrometheusKeepsAll DEF RulesArrive, RuleInv

(* However many relations, applications and rules: the valid rules of      *)
(* every relation are loaded, none that are not, and who is refused is     *)
(* told.                                                                   *)
THEOREM AllRulesArrive == RuleSpec => [](RulesArrive /\ RuleTypeOK)
<1>1. RuleInv => RuleTypeOK
  BY DEF RuleInv
<1> QED
  BY <1>1, RuleInvInductive, RuleInvImplies, PTL DEF RuleSpec

-----------------------------------------------------------------------------
(* EveryTargetScraped. What has to be shown of the addresses is short;     *)
(* most is about the two passes that make the names of jobs unique.        *)

(* A unit that owes no hook has published where it is now.                 *)
AddressesCurrent ==
  \A e \in Endpoints : \A u \in scraped[e] : scrapeOwed[u] = {} => unitBag[e][u] = pod[u]

ScrapeInv == ScrapeTypeOK /\ AddressesCurrent

(* The invariant is inductive.                                             *)
LEMMA ScrapeInvInductive ==
  /\ ScrapeInit => ScrapeInv
  /\ ScrapeInv /\ [ScrapeNext]_scrapeVars => ScrapeInv'
<1> USE ScrapeAssumption DEF ScrapeInv, ScrapeTypeOK, AddressesCurrent
<1>1. ASSUME ScrapeInit PROVE ScrapeInv
  BY <1>1 DEF ScrapeInit
<1>2. ASSUME ScrapeInv, UNCHANGED scrapeVars PROVE ScrapeInv'
  BY <1>2 DEF scrapeVars
<1>3. ASSUME ScrapeInv, NEW e \in Endpoints, RelatePrometheus(e) PROVE ScrapeInv'
  <2>1. [kind |-> "joined", endpoint |-> e] \in Hooks
    BY DEF Hooks
  <2> QED
    BY <1>3, <2>1 DEF RelatePrometheus
<1>4. ASSUME ScrapeInv, NEW u \in ScrapedUnits, ReplacePod(u) PROVE ScrapeInv'
  <2>1. RefreshHook \in Hooks
    BY DEF Hooks, RefreshHook
  <2>2. pod' \in [ScrapedUnits -> 1..MaxPods]
    BY <1>4 DEF ReplacePod
  <2>3. ScrapeTypeOK'
    BY <1>4, <2>1, <2>2 DEF ReplacePod
  <2>4. ASSUME NEW e \in Endpoints, NEW v \in scraped[e], scrapeOwed'[v] = {}
        PROVE  v # u /\ pod'[v] = pod[v] /\ scrapeOwed[v] = {}
    BY <1>4, <2>4 DEF ReplacePod
  <2> QED
    BY <1>4, <2>3, <2>4 DEF ReplacePod
<1>5. ASSUME ScrapeInv, NEW u \in ScrapedUnits, ScrapeLeaderMoves(u) PROVE ScrapeInv'
  BY <1>5 DEF ScrapeLeaderMoves
<1>6. ASSUME ScrapeInv, NEW u \in ScrapedUnits, NEW h \in Hooks, SetScrapeJobSpec(u, h)
      PROVE  ScrapeInv'
  <2>1. /\ pod' = pod /\ scrapeLeader' = scrapeLeader /\ scraped' = scraped
        /\ scrapeOwed' = [scrapeOwed EXCEPT ![u] = @ \ {h}]
        /\ DOMAIN jobsBag' = Endpoints
    BY <1>6 DEF SetScrapeJobSpec
  <2>2. unitBag' = [e \in Endpoints |->
          IF scraped[e] # {} THEN [unitBag[e] EXCEPT ![u] = pod[u]] ELSE unitBag[e]]
    BY <1>6 DEF SetScrapeJobSpec, SetUnitIp
  <2>3. unitBag' \in [Endpoints -> [ScrapedUnits -> 0..MaxPods]]
    <3>1. pod[u] \in 0..MaxPods
      BY <1>6
    <3>2. \A e \in Endpoints : unitBag'[e] \in [ScrapedUnits -> 0..MaxPods]
      BY <1>6, <2>2, <3>1
    <3> QED
      BY <2>2, <3>2
  <2>4. ASSUME NEW e \in Endpoints, NEW v \in scraped[e], scrapeOwed'[v] = {}
        PROVE  unitBag'[e][v] = pod[v]
    <3>1. CASE v = u
      BY <1>6, <2>2, <3>1
    <3>2. CASE v # u
      BY <1>6, <2>1, <2>2, <2>4, <3>2
    <3> QED
      BY <3>1, <3>2
  <2> QED
    BY <1>6, <2>1, <2>3, <2>4
<1> QED
  BY <1>1, <1>2, <1>3, <1>4, <1>5, <1>6 DEF ScrapeNext

-----------------------------------------------------------------------------
(* Names.  A job that is the only one of its place keeps its name; one     *)
(* that is not is told apart from all others by its hash.                  *)
LEMMA DedupeMember ==
  ASSUME NEW occurrences, NEW j
  PROVE  j \in DedupeJobNames(occurrences) <=>
           \E o \in occurrences :
             IF \E p \in occurrences : p[1] # o[1] /\ p[2].name = o[2].name
             THEN j = Hashed(o[2]) ELSE j = o[2]
  BY DEF DedupeJobNames

(* A hash changes the name of a job, and nothing else of it.               *)
LEMMA HashedJob ==
  ASSUME NEW j
  PROVE  /\ Hashed(j).targets = j.targets /\ Hashed(j).good = j.good
         /\ Hashed(j).name.text = j.name.text
         /\ Hashed(j).name.hashes = Append(j.name.hashes, j)
  BY DEF Hashed, ScrapeJob

(* Deduplication loses no target.                                          *)
LEMMA TargetsKept ==
  ASSUME NEW occurrences, NEW o \in occurrences
  PROVE  \E j \in DedupeJobNames(occurrences) : j.targets = o[2].targets
  BY DedupeMember, HashedJob

(* Lists of one and of two hashes.                                         *)
LEMMA Appended ==
  /\ \A x : Append(<< >>, x) = <<x>> /\ <<x>> # << >>
  /\ \A x, y : Append(<<x>>, y) = <<x, y>> /\ <<x, y>> # << >>
  /\ \A x, y, z : <<x, y>> # <<z>>
  /\ \A x, y, z, w : <<x, y>> = <<z, w>> => y = w
<1>1. \A x : Append(<< >>, x) = <<x>> /\ <<x>> # << >>
  OBVIOUS
<1>2. ASSUME NEW x, NEW y PROVE Append(<<x>>, y) = <<x, y>>
  <2>1. <<x>> \in Seq({x, y}) /\ y \in {x, y} /\ <<x, y>> \in Seq({x, y})
    OBVIOUS
  <2>2. /\ Append(<<x>>, y) \in Seq({x, y}) /\ Len(Append(<<x>>, y)) = 2
        /\ \A i \in 1..2 : Append(<<x>>, y)[i] = <<x, y>>[i]
    BY <2>1
  <2>3. Len(<<x, y>>) = 2
    OBVIOUS
  <2> QED
    BY <2>1, <2>2, <2>3, SeqEqual
<1>3. \A x, y : <<x, y>> # << >>
  BY Zenon
<1>4. \A x, y, z : <<x, y>> # <<z>>
  OBVIOUS
<1>5. \A x, y, z, w : <<x, y>> = <<z, w>> => y = w
  OBVIOUS
<1> QED
  BY <1>1, <1>2, <1>3, <1>4, <1>5

(* The jobs one relation makes: every one under a place of its own.        *)
LEMMA StaticJobs ==
  ASSUME ScrapeTypeOK, NEW e \in Endpoints
  PROVE  /\ \A o \in StaticScrapeConfig(e) : o[2].name.hashes = << >>
         /\ \A o, p \in StaticScrapeConfig(e) : o[1] = p[1] => o = p
<1> DEFINE job(i) == Sanitized(jobsBag[e][i])
<1>1. ASSUME NEW o \in StaticScrapeConfig(e)
      PROVE  \/ \E i, c : \E u \in ScrapedUnits : o = << <<i, c, u>>, JobOfUnit(e, job(i), c, u) >>
             \/ \E i : o = << <<i, 0, "none">>, JobOfFixed(job(i)) >>
  <2>1. PICK i \in DOMAIN jobsBag[e] : o \in Expanded(e, i, job(i))
    BY <1>1 DEF StaticScrapeConfig
  <2>2. Hosts(e) \subseteq ScrapedUnits
    BY DEF Hosts, ScrapeTypeOK
  <2> HIDE DEF job
  <2> QED
    BY <2>1, <2>2 DEF Expanded
<1> HIDE DEF job
<1>2. \A i, c, u : /\ JobOfUnit(e, job(i), c, u).name.hashes = << >>
                   /\ JobOfFixed(job(i)).name.hashes = << >>
  BY DEF ScrapeJob, JobOfUnit, JobOfFixed
<1>3. \A o \in StaticScrapeConfig(e) : o[2].name.hashes = << >>
  BY <1>1, <1>2
<1>4. ASSUME NEW o \in StaticScrapeConfig(e), NEW p \in StaticScrapeConfig(e), o[1] = p[1] PROVE o = p
  BY <1>1, <1>4, ScrapeAssumption
<1> QED
  BY <1>3, <1>4

(* What is left of them after the first deduplication.                     *)
Deduped(e) == DedupeJobNames(StaticScrapeConfig(e))

(* A job has no hash yet, or one, and its name is its own.                 *)
LEMMA DedupedJobs ==
  ASSUME ScrapeTypeOK, NEW e \in Endpoints
  PROVE  /\ \A j \in Deduped(e) : \/ j.name.hashes = << >>
                                 \/ \E q : q.name.hashes = << >> /\ j = Hashed(q)
         /\ \A i, j \in Deduped(e) : i.name = j.name => i = j
<1>1. ASSUME NEW j \in Deduped(e)
      PROVE  \E o \in StaticScrapeConfig(e) :
               /\ o[2].name.hashes = << >>
               /\ IF \E p \in StaticScrapeConfig(e) : p[1] # o[1] /\ p[2].name = o[2].name
                  THEN j = Hashed(o[2]) ELSE j = o[2]
  BY <1>1, DedupeMember, StaticJobs DEF Deduped
<1>2. ASSUME NEW i \in Deduped(e), NEW j \in Deduped(e), i.name = j.name PROVE i = j
  <2>1. PICK o \in StaticScrapeConfig(e) :
          /\ o[2].name.hashes = << >>
          /\ IF \E p \in StaticScrapeConfig(e) : p[1] # o[1] /\ p[2].name = o[2].name
             THEN i = Hashed(o[2]) ELSE i = o[2]
    BY <1>1
  <2>2. PICK r \in StaticScrapeConfig(e) :
          /\ r[2].name.hashes = << >>
          /\ IF \E p \in StaticScrapeConfig(e) : p[1] # r[1] /\ p[2].name = r[2].name
             THEN j = Hashed(r[2]) ELSE j = r[2]
    BY <1>1
  <2>3. CASE i = o[2] /\ j = r[2]
    <3>1. o[1] = r[1] \/ o[2] = r[2]
      BY <1>2, <2>1, <2>2, <2>3, HashedJob, Appended
    <3> QED
      BY <2>3, <3>1, StaticJobs
  <2>4. CASE i = Hashed(o[2]) /\ j = Hashed(r[2])
    <3>1. i.name.hashes = <<o[2]>> /\ j.name.hashes = <<r[2]>>
      BY <2>1, <2>2, <2>4, HashedJob, Appended
    <3>2. o[2] = r[2]
      BY <1>2, <3>1
    <3> QED
      BY <2>4, <3>2
  <2>5. CASE i = Hashed(o[2]) /\ j = r[2]
    BY <1>2, <2>1, <2>2, <2>5, HashedJob, Appended
  <2>6. CASE i = o[2] /\ j = Hashed(r[2])
    BY <1>2, <2>1, <2>2, <2>6, HashedJob, Appended
  <2> QED
    BY <2>1, <2>2, <2>3, <2>4, <2>5, <2>6
<1> QED
  BY <1>1, <1>2

-----------------------------------------------------------------------------
(* Jobs of two relations that still have a name in common are told apart   *)
(* by their hash, or are one job.                                          *)
HashedOnce(k) ==
  \/ k.name.hashes = << >> /\ Hashed(k).name.hashes = <<k>>
  \/ \E q : k = Hashed(q) /\ k.name.hashes = <<q>> /\ Hashed(k).name.hashes = <<q, k>>

(* So the second deduplication adds one to none or to one.                 *)
LEMMA HashesDeduped ==
  ASSUME ScrapeTypeOK, NEW e \in Endpoints, NEW k \in Deduped(e)
  PROVE  HashedOnce(k)
<1>1. CASE k.name.hashes = << >>
  BY <1>1, HashedJob, Appended DEF HashedOnce
<1>2. ASSUME NEW q, q.name.hashes = << >>, k = Hashed(q) PROVE HashedOnce(k)
  <2>1. k.name.hashes = <<q>>
    BY <1>2, HashedJob, Appended
  <2>2. Hashed(k).name.hashes = <<q, k>>
    <3>1. Hashed(k).name.hashes = Append(<<q>>, k)
      BY <2>1, HashedJob
    <3>2. Append(<<q>>, k) = <<q, k>>
      BY Appended
    <3> QED
      BY <3>1, <3>2
  <2> QED
    BY <1>2, <2>1, <2>2 DEF HashedOnce
<1> QED
  BY <1>1, <1>2, DedupedJobs

(* Hashes tell such jobs apart.                                            *)
LEMMA HashesTellApart ==
  ASSUME NEW k, NEW l, HashedOnce(k), HashedOnce(l)
  PROVE  /\ Hashed(k).name.hashes = Hashed(l).name.hashes => k = l
         /\ Hashed(k).name.hashes = l.name.hashes => l = Hashed(k)
<1>1. \A q : Hashed(k).name.hashes = <<q>> => q = k
  BY Appended DEF HashedOnce
<1>2. CASE l.name.hashes = << >> /\ Hashed(l).name.hashes = <<l>>
  <2>1. Hashed(k).name.hashes # << >>
    BY Appended DEF HashedOnce
  <2> QED
    BY <1>1, <1>2, <2>1
<1>3. ASSUME NEW q, l = Hashed(q), l.name.hashes = <<q>>, Hashed(l).name.hashes = <<q, l>>
      PROVE  /\ Hashed(k).name.hashes = Hashed(l).name.hashes => k = l
             /\ Hashed(k).name.hashes = l.name.hashes => l = Hashed(k)
  <2>1. Hashed(k).name.hashes = <<q, l>> => k = l
    BY Appended DEF HashedOnce
  <2> QED
    BY <1>1, <1>3, <2>1
<1> QED
  BY <1>2, <1>3 DEF HashedOnce

(* No two jobs of the final configuration have one name.                   *)
LEMMA NamesDiffer == ScrapeTypeOK => JobNamesDiffer
<1> SUFFICES ASSUME ScrapeTypeOK, NEW i \in PrometheusJobs, NEW j \in PrometheusJobs, i.name = j.name
             PROVE  i = j
  BY DEF JobNamesDiffer
<1> DEFINE valid == {f \in Endpoints : Valid(f)}
<1> DEFINE all == UNION {{<<e, k>> : k \in Deduped(e)} : e \in valid}
<1> DEFINE Extended(o) == \E p \in all : p[1] # o[1] /\ p[2].name = o[2].name
<1>1. PrometheusJobs = DedupeJobNames(all)
  BY DEF PrometheusJobs, Deduped
<1>2. \A o \in all : o[1] \in Endpoints /\ o[2] \in Deduped(o[1])
  OBVIOUS
<1> HIDE DEF all
<1>3. PICK o \in all : IF Extended(o) THEN i = Hashed(o[2]) ELSE i = o[2]
  BY <1>1, DedupeMember
<1>4. PICK r \in all : IF Extended(r) THEN j = Hashed(r[2]) ELSE j = r[2]
  BY <1>1, DedupeMember
<1>5. HashedOnce(o[2]) /\ HashedOnce(r[2])
  BY <1>2, HashesDeduped
<1>6. CASE ~Extended(o) /\ ~Extended(r)
  <2>1. o[2].name = r[2].name
    BY <1>3, <1>4, <1>6
  <2>2. o[1] = r[1]
    BY <1>6, <2>1
  <2> QED
    BY <1>2, <1>3, <1>4, <1>6, <2>1, <2>2, DedupedJobs
<1>7. CASE Extended(o) /\ Extended(r)
  <2>1. Hashed(o[2]).name.hashes = Hashed(r[2]).name.hashes
    BY <1>3, <1>4, <1>7
  <2>2. o[2] = r[2]
    BY <1>5, <2>1, HashesTellApart
  <2> QED
    BY <1>3, <1>4, <1>7, <2>2
<1>8. CASE Extended(o) /\ ~Extended(r)
  <2>1. Hashed(o[2]).name.hashes = r[2].name.hashes
    BY <1>3, <1>4, <1>8
  <2>2. r[2] = Hashed(o[2])
    BY <1>5, <2>1, HashesTellApart
  <2> QED
    BY <1>3, <1>4, <1>8, <2>2
<1>9. CASE ~Extended(o) /\ Extended(r)
  <2>1. Hashed(r[2]).name.hashes = o[2].name.hashes
    BY <1>3, <1>4, <1>9
  <2>2. o[2] = Hashed(r[2])
    BY <1>5, <2>1, HashesTellApart
  <2> QED
    BY <1>3, <1>4, <1>9, <2>2
<1> QED
  BY <1>6, <1>7, <1>8, <1>9

(* A target of an occurrence is among the jobs of Prometheus.              *)
LEMMA OccurrenceScraped ==
  ASSUME NEW e \in Endpoints, Valid(e), NEW o \in StaticScrapeConfig(e)
  PROVE  \E j \in PrometheusJobs : j.targets = o[2].targets
<1>1. PICK k \in Deduped(e) : k.targets = o[2].targets
  BY TargetsKept DEF Deduped
<1> DEFINE all == UNION {{<<f, j>> : j \in DedupeJobNames(StaticScrapeConfig(f))} : f \in {g \in Endpoints : Valid(g)}}
<1>2. <<e, k>> \in all
  BY <1>1 DEF Deduped
<1>3. PrometheusJobs = DedupeJobNames(all)
  BY DEF PrometheusJobs
<1> HIDE DEF all
<1>4. \E j \in DedupeJobNames(all) : j.targets = <<e, k>>[2].targets
  BY <1>2, TargetsKept
<1> QED
  BY <1>1, <1>3, <1>4

(* For any endpoints, units and jobs.                                      *)
LEMMA ScrapeInvImplies == ScrapeInv => EveryTargetScraped
<1> SUFFICES ASSUME ScrapeInv, NEW e \in Endpoints, scraped[e] # {}, Valid(e),
                    NEW i \in DOMAIN jobsBag[e], NEW c \in DOMAIN Sanitized(jobsBag[e][i]).configs,
                    NEW t \in Sanitized(jobsBag[e][i]).configs[c]
             PROVE  IF IsWildcard(t)
                    THEN \A u \in {v \in scraped[e] : scrapeOwed[v] = {}} : Scraped(u, <<u, pod[u]>>, t)
                    ELSE Scraped("none", <<t.host, 0>>, t)
  BY NamesDiffer DEF EveryTargetScraped, ScrapeInv
<1> DEFINE job == Sanitized(jobsBag[e][i])
<1>1. Expanded(e, i, job) \subseteq StaticScrapeConfig(e)
  BY DEF StaticScrapeConfig
<1> HIDE DEF job
<1>2. c \in DOMAIN job.configs /\ t \in job.configs[c]
  BY DEF job
<1>3. ASSUME IsWildcard(t), NEW u \in scraped[e], scrapeOwed[u] = {}
      PROVE  Scraped(u, <<u, pod[u]>>, t)
  <2>1. unitBag[e][u] = pod[u] /\ u \in Hosts(e)
    BY <1>3 DEF ScrapeInv, ScrapeTypeOK, AddressesCurrent, Hosts
  <2>2. << <<i, c, u>>, JobOfUnit(e, job, c, u) >> \in Expanded(e, i, job)
    BY <1>2, <1>3, <2>1 DEF Expanded, Wild
  <2>3. PICK j \in PrometheusJobs : j.targets = JobOfUnit(e, job, c, u).targets
    BY <1>1, <2>2, OccurrenceScraped
  <2>4. JobOfUnit(e, job, c, u).targets =
          {[unit |-> u, host |-> <<u, pod[u]>>, port |-> x.port] : x \in Wild(job, c)}
    BY <2>1 DEF JobOfUnit, ScrapeJob
  <2> QED
    BY <1>2, <1>3, <2>3, <2>4 DEF Scraped, Wild
<1>4. ASSUME ~IsWildcard(t) PROVE Scraped("none", <<t.host, 0>>, t)
  <2>1. << <<i, 0, "none">>, JobOfFixed(job) >> \in Expanded(e, i, job)
    BY <1>2, <1>4 DEF Expanded, Fixed
  <2>2. PICK j \in PrometheusJobs : j.targets = JobOfFixed(job).targets
    BY <1>1, <2>1, OccurrenceScraped
  <2>3. JobOfFixed(job).targets =
          {[unit |-> "none", host |-> <<x.host, 0>>, port |-> x.port] :
             x \in UNION {Fixed(job, d) : d \in DOMAIN job.configs}}
    BY DEF JobOfFixed, ScrapeJob
  <2>4. t \in UNION {Fixed(job, d) : d \in DOMAIN job.configs}
    BY <1>2, <1>4 DEF Fixed
  <2> QED
    BY <2>2, <2>3, <2>4 DEF Scraped
<1> QED
  BY <1>3, <1>4

(* However many relations, units and jobs: once no unit owes a hook, every *)
(* target of every valid job is scraped where its unit is now, under a     *)
(* name of its own.                                                        *)
THEOREM TargetsAreScraped == ScrapeSpec => [](EveryTargetScraped /\ ScrapeTypeOK)
<1>1. ScrapeInv => ScrapeTypeOK
  BY DEF ScrapeInv
<1> QED
  BY <1>1, ScrapeInvInductive, ScrapeInvImplies, PTL DEF ScrapeSpec

-----------------------------------------------------------------------------
(* TargetsFollowUnits. First of the lists of entries, which Others filters *)
(* by recursion: what is in them, and in what is appended to them. Then    *)
(* the invariant, which holds of jobs and of groups of rules alike.        *)

Pairs == (UNION {AppUnits[a] : a \in ScrapedApps}) \X (UNION {Values[a] : a \in ScrapedApps})
Entries == [name : ScrapedApps, of : (SUBSET Pairs) \ {{}}]

(* The recursion of Others.                                                *)
Selection(list, a, f) ==
  f = [n \in 0..Len(list) |->
         IF n = 0 THEN << >> ELSE IF list[n].name = a THEN f[n - 1] ELSE Append(f[n - 1], list[n])]

(* Up to n, the recursion has a solution.                                  *)
SelectionUpTo(list, a, n, f) ==
  /\ DOMAIN f = 0..n
  /\ \A k \in 0..n :
       f[k] = IF k = 0 THEN << >> ELSE IF list[k].name = a THEN f[k - 1] ELSE Append(f[k - 1], list[k])

(* The recursion has a solution.                                           *)
LEMMA SelectionExists ==
  ASSUME NEW list \in Seq(Entries), NEW a
  PROVE  \E f : Selection(list, a, f)
<1> DEFINE S == {n \in Nat : ~\E f : SelectionUpTo(list, a, n, f)}
<1>1. ASSUME S # {} PROVE FALSE
  <2>1. PICK m \in S : \A n \in S : m <= n
    <3>1. S \in SUBSET Nat
      OBVIOUS
    <3> HIDE DEF S
    <3> QED
      BY <1>1, <3>1, Least
  <2>2. SelectionUpTo(list, a, 0, [k \in 0..0 |-> << >>])
    BY DEF SelectionUpTo
  <2>3. m # 0
    BY <2>2
  <2>4. m - 1 \in Nat /\ m - 1 \notin S
    BY <2>1, <2>3
  <2>5. PICK f : SelectionUpTo(list, a, m - 1, f)
    BY <2>4
  <2> DEFINE new == IF list[m].name = a THEN f[m - 1] ELSE Append(f[m - 1], list[m])
             g == [k \in 0..m |-> IF k = m THEN new ELSE f[k]]
  <2>6. SelectionUpTo(list, a, m, g)
    <3>1. DOMAIN g = 0..m /\ g[m] = new /\ \A k \in 0..(m - 1) : g[k] = f[k]
      BY <2>3
    <3>2. g[m - 1] = f[m - 1]
      BY <2>3, <2>4, <3>1
    <3>3. ASSUME NEW k \in 0..m
          PROVE  g[k] = IF k = 0 THEN << >> ELSE IF list[k].name = a THEN g[k - 1] ELSE Append(g[k - 1], list[k])
      <4>1. CASE k = m
        BY <2>3, <3>1, <3>2, <4>1
      <4>2. CASE k # m
        <5>1. k \in 0..(m - 1) /\ (k # 0 => k - 1 \in 0..(m - 1))
          BY <4>2
        <5>2. g[k] = f[k] /\ (k # 0 => g[k - 1] = f[k - 1])
          BY <3>1, <5>1
        <5> QED
          BY <2>5, <5>1, <5>2 DEF SelectionUpTo
      <4> QED
        BY <4>1, <4>2
    <3> QED
      BY <3>1, <3>3 DEF SelectionUpTo
  <2> QED
    BY <2>6
<1>2. Len(list) \in Nat
  OBVIOUS
<1>3. PICK f : SelectionUpTo(list, a, Len(list), f)
  BY <1>1, <1>2
<1>4. DOMAIN f = 0..Len(list)
  BY <1>3 DEF SelectionUpTo
<1> QED
  <2>1. \E z : z = [k \in 0..Len(list) |-> f[k]]
    OBVIOUS
  <2>2. PICK z : z = [k \in 0..Len(list) |-> f[k]]
    BY <2>1
  <2>3. \A k \in 0..Len(list) : z[k] = f[k] /\ (k # 0 => z[k - 1] = f[k - 1])
    BY <1>2, <2>2
  <2>4. z = [n \in 0..Len(list) |->
         IF n = 0 THEN << >> ELSE IF list[n].name = a THEN z[n - 1] ELSE Append(z[n - 1], list[n])]
    BY <1>2, <1>3, <2>2, <2>3 DEF SelectionUpTo
  <2> QED
    BY <2>4 DEF Selection

(* Appending adds to what is in a list.                                    *)
LEMMA AppendedEntry ==
  ASSUME NEW list \in Seq(Entries), NEW e \in Entries
  PROVE  Append(list, e) \in Seq(Entries) /\ ToSet(Append(list, e)) = ToSet(list) \cup {e}
<1> DEFINE new == Append(list, e)
<1>1. /\ new \in Seq(Entries) /\ Len(new) = Len(list) + 1 /\ DOMAIN new = 1..Len(new)
      /\ DOMAIN list = 1..Len(list) /\ Len(list) \in Nat
  OBVIOUS
<1>2. \A i \in 1..Len(new) : new[i] = IF i = Len(new) THEN e ELSE list[i]
  BY <1>1
<1> HIDE DEF new
<1>3. ASSUME NEW x PROVE x \in ToSet(new) <=> x \in ToSet(list) \cup {e}
  BY <1>1, <1>2 DEF ToSet
<1> QED
  BY <1>1, <1>3 DEF new

(* Others takes out the entries of the name, and nothing else.             *)
LEMMA OthersKept ==
  ASSUME NEW list \in Seq(Entries), NEW a
  PROVE  /\ Others(list, a) \in Seq(Entries)
         /\ ToSet(Others(list, a)) = {e \in ToSet(list) : e.name # a}
<1> DEFINE f == CHOOSE g : Selection(list, a, g)
<1>1. Others(list, a) = f[Len(list)]
  BY DEF Others, Selection
<1>2. Selection(list, a, f)
  <2> QED
    BY SelectionExists
<1> HIDE DEF f
<1> DEFINE Good(n) == f[n] \in Seq(Entries) /\ ToSet(f[n]) = {list[i] : i \in {j \in 1..n : list[j].name # a}}
<1>3. Len(list) \in Nat /\ DOMAIN list = 1..Len(list)
  OBVIOUS
<1>4. ASSUME NEW k \in 0..Len(list), ~Good(k) PROVE FALSE
  <2> HIDE DEF Good
  <2> DEFINE S == {n \in 0..Len(list) : ~Good(n)}
  <2>1. PICK m \in S : \A n \in S : m <= n
    <3>1. S \in SUBSET Nat /\ S # {}
      BY <1>4
    <3> HIDE DEF S
    <3> QED
      BY <3>1, Least
  <2>2. Good(0)
    <3>1. f[0] = << >>
      BY <1>2, <1>3 DEF Selection
    <3> QED
      BY <3>1 DEF ToSet, Good
  <2>3. m # 0
    BY <2>1, <2>2
  <2>4. m - 1 \in 0..Len(list) /\ m \in 1..Len(list) /\ m \in DOMAIN list
    BY <1>3, <2>1, <2>3
  <2>5. Good(m - 1)
    <3>1. m - 1 \notin S
      BY <2>1, <2>4
    <3> QED
      BY <2>4, <3>1
  <2>6. f[m] = IF list[m].name = a THEN f[m - 1] ELSE Append(f[m - 1], list[m])
    BY <1>2, <2>3, <2>4 DEF Selection
  <2>7. list[m] \in Entries
    BY <2>4
  <2>8. Good(m)
    <3>1. CASE list[m].name = a
      <4>1. {j \in 1..m : list[j].name # a} = {j \in 1..(m - 1) : list[j].name # a}
        BY <2>4, <3>1
      <4> QED
        BY <2>5, <2>6, <3>1, <4>1 DEF Good
    <3>2. CASE list[m].name # a
      <4>1. {j \in 1..m : list[j].name # a} = {j \in 1..(m - 1) : list[j].name # a} \cup {m}
        BY <2>4, <3>2
      <4>2. f[m] = Append(f[m - 1], list[m])
        BY <2>6, <3>2
      <4>3. f[m] \in Seq(Entries) /\ ToSet(f[m]) = ToSet(f[m - 1]) \cup {list[m]}
        BY <2>5, <2>7, <4>2, AppendedEntry DEF Good
      <4> QED
        BY <2>5, <4>1, <4>3 DEF Good
    <3> QED
      BY <3>1, <3>2
  <2> QED
    BY <2>1, <2>8
<1>5. Good(Len(list))
  <2> HIDE DEF Good
  <2> QED
    BY <1>3, <1>4
<1> QED
  BY <1>1, <1>3, <1>5 DEF ToSet

(* The first entry of a name is one of them.                               *)
LEMMA FirstIsNamed ==
  ASSUME NEW list \in Seq(Entries), NEW a, Named(list, a) # {}
  PROVE  First(list, a) \in ToSet(list) /\ First(list, a).name = a
<1>1. Named(list, a) \in SUBSET Nat
  BY DEF Named
<1>2. PICK m \in Named(list, a) : \A n \in Named(list, a) : m <= n
  BY <1>1, Least
<1>3. Min(Named(list, a)) \in Named(list, a)
  BY <1>1, <1>2 DEF Min
<1> QED
  BY <1>3 DEF First, Named, ToSet

(* A list has an entry of a name.                                          *)
LEMMA NamedIn ==
  ASSUME NEW list, NEW a
  PROVE  Named(list, a) # {} <=> \E x \in ToSet(list) : x.name = a
  BY DEF Named, ToSet

(* What a list holds once an entry is given to it: everything of other     *)
(* names, and of its name only what contains it.                           *)
LEMMA GivenEntry ==
  ASSUME NEW list \in Seq(Entries), NEW e \in Entries
  PROVE  /\ With(list, e) \in Seq(Entries)
         /\ \A x \in ToSet(With(list, e)) :
              \/ x \in ToSet(list) /\ x.name # e.name
              \/ /\ x.name = e.name /\ e.of \subseteq x.of
                 /\ \A c \in x.of : c \in e.of \/ \E y \in ToSet(list) : y.name = e.name /\ c \in y.of
         /\ \A y \in ToSet(list) : y.name # e.name => y \in ToSet(With(list, e))
         /\ \E x \in ToSet(With(list, e)) : x.name = e.name
<1> DEFINE job == WithJob(list, e)
<1>1. job \in Seq(Entries) /\ ToSet(job) = {y \in ToSet(list) : y.name # e.name} \cup {e}
  BY OthersKept, AppendedEntry DEF WithJob
<1>2. CASE part = "jobs"
  <2>1. With(list, e) = job
    BY <1>2 DEF With
  <2> HIDE DEF job
  <2> QED
    BY <1>1, <2>1
<1> DEFINE rules == WithRules(list, e)
<1>3. ASSUME part # "jobs", Named(list, e.name) = {}
      PROVE  rules \in Seq(Entries) /\ ToSet(rules) = ToSet(list) \cup {e}
                /\ \A y \in ToSet(list) : y.name # e.name
  BY <1>3, AppendedEntry, NamedIn DEF WithRules
<1> DEFINE joined(x) == IF x.name = e.name THEN [x EXCEPT !.of = @ \cup e.of] ELSE x
<1>4. ASSUME NEW x \in Entries
      PROVE  /\ joined(x) \in Entries /\ joined(x).name = x.name
             /\ x.name # e.name => joined(x) = x
             /\ x.name = e.name => joined(x).of = x.of \cup e.of
  BY DEF Entries
<1>5. ASSUME part # "jobs", Named(list, e.name) # {}
      PROVE  /\ rules \in Seq(Entries) /\ ToSet(rules) = {joined(x) : x \in ToSet(list)}
             /\ \E y \in ToSet(list) : y.name = e.name
  <2>1. rules = [i \in DOMAIN list |-> joined(list[i])]
    BY <1>5 DEF WithRules
  <2>2. DOMAIN list = 1..Len(list) /\ Len(list) \in Nat /\ \A i \in DOMAIN list : list[i] \in Entries
    OBVIOUS
  <2> HIDE DEF joined, rules
  <2>3. rules \in [1..Len(list) -> Entries]
    BY <1>4, <2>1, <2>2
  <2>4. rules \in Seq(Entries)
    BY <2>2, <2>3, IsASeq
  <2>5. ToSet(rules) = {joined(x) : x \in ToSet(list)}
    BY <2>1 DEF ToSet
  <2> QED
    BY <1>5, <2>4, <2>5, NamedIn
<1>6. CASE part # "jobs"
  <2>1. With(list, e) = rules
    BY <1>6 DEF With
  <2>2. \A x \in ToSet(list) : x \in Entries
    BY DEF ToSet
  <2> HIDE DEF rules, joined
  <2>3. CASE Named(list, e.name) = {}
    BY <1>3, <1>6, <2>1, <2>3
  <2>4. CASE Named(list, e.name) # {}
    <3>1. ASSUME NEW x \in ToSet(rules)
          PROVE  \/ x \in ToSet(list) /\ x.name # e.name
                 \/ /\ x.name = e.name /\ e.of \subseteq x.of
                    /\ \A c \in x.of : c \in e.of \/ \E y \in ToSet(list) : y.name = e.name /\ c \in y.of
      <4>1. PICK z \in ToSet(list) : x = joined(z)
        BY <1>5, <1>6, <2>4
      <4> QED
        BY <1>4, <2>2, <4>1
    <3>2. \A y \in ToSet(list) : y.name # e.name => y \in ToSet(rules)
      BY <1>4, <1>5, <1>6, <2>2, <2>4
    <3>3. \E x \in ToSet(rules) : x.name = e.name
      BY <1>4, <1>5, <1>6, <2>2, <2>4
    <3> QED
      BY <1>5, <1>6, <2>1, <2>4, <3>1, <3>2, <3>3
  <2> QED
    BY <2>3, <2>4
<1> QED
  BY <1>2, <1>6

(* And once a unit is taken out of one.                                    *)
LEMMA TakenUnit ==
  ASSUME NEW list \in Seq(Entries), NEW a, NEW u, Named(list, a) # {}
  PROVE  /\ Without(list, a, u) \in Seq(Entries)
         /\ \A x \in ToSet(Without(list, a, u)) :
              \/ x \in ToSet(list) /\ x.name # a
              \/ \E y \in ToSet(list) : x.name = a /\ y.name = a /\ x.of = {c \in y.of : c[1] # u}
         /\ \A y \in ToSet(list) : y.name # a => y \in ToSet(Without(list, a, u))
         /\ (\A y \in ToSet(list) : y.name = a => \E c \in y.of : c[1] # u) =>
              \E x \in ToSet(Without(list, a, u)) : x.name = a
<1> DEFINE first == First(list, a)
           kept == {c \in first.of : c[1] # u}
           e == [name |-> a, of |-> kept]
<1>1. first \in ToSet(list) /\ first.name = a /\ first \in Entries
  BY FirstIsNamed DEF ToSet
<1>2. Others(list, a) \in Seq(Entries) /\ ToSet(Others(list, a)) = {y \in ToSet(list) : y.name # a}
  BY OthersKept
<1>3. CASE kept = {}
  <2>1. Without(list, a, u) = Others(list, a)
    BY <1>3 DEF Without
  <2> QED
    BY <1>1, <1>2, <1>3, <2>1
<1>4. CASE kept # {}
  <2>1. Without(list, a, u) = Append(Others(list, a), e)
    BY <1>4 DEF Without
  <2>2. e \in Entries
    BY <1>1, <1>4 DEF Entries
  <2>3. /\ Without(list, a, u) \in Seq(Entries)
        /\ ToSet(Without(list, a, u)) = {y \in ToSet(list) : y.name # a} \cup {e}
    <3> HIDE DEF e
    <3> QED
      BY <1>2, <2>1, <2>2, AppendedEntry
  <2>4. e.name = a /\ e.of = kept
    OBVIOUS
  <2> HIDE DEF first, e
  <2> QED
    BY <1>1, <2>3, <2>4
<1> QED
  BY <1>3, <1>4

(* A finite set of entries as a list.                                      *)
LEMMA ListOfSet ==
  ASSUME NEW S \in SUBSET Entries, IsFiniteSet(S)
  PROVE  SetToSeq(S) \in Seq(Entries) /\ ToSet(SetToSeq(S)) = S
<1> DEFINE n == Cardinality(S)
           f == SetToSeq(S)
<1>1. n \in Nat /\ ExistsBijection(1..n, S)
  BY FS_CardinalityType
<1>2. \E g \in [1..n -> S] : IsInjective(g)
  BY <1>1 DEF ExistsBijection, Bijection, Injection
<1>3. f \in [1..n -> S] /\ IsInjective(f)
  BY <1>2 DEF SetToSeq
<1> HIDE DEF f
<1>4. f \in Injection(1..n, S)
  BY <1>3 DEF Injection
<1>5. IsFiniteSet(1..n) /\ Cardinality(1..n) = n
  BY <1>1, FS_Interval
<1>6. f \in Surjection(1..n, S)
  BY <1>4, <1>5, FS_Injection
<1>7. ToSet(f) = S
  BY <1>3, <1>6 DEF Surjection, ToSet
<1>8. f \in Seq(Entries)
  <2>1. f \in [1..n -> Entries]
    BY <1>3
  <2> QED
    BY <1>1, <2>1, IsASeq
<1> QED
  BY <1>7, <1>8 DEF f

(* Two lists, one behind the other.                                        *)
LEMMA ListsJoined ==
  ASSUME NEW l \in Seq(Entries), NEW m \in Seq(Entries)
  PROVE  l \o m \in Seq(Entries) /\ ToSet(l \o m) = ToSet(l) \cup ToSet(m)
<1> DEFINE j == l \o m
<1>1. /\ Len(l) \in Nat /\ Len(m) \in Nat /\ DOMAIN l = 1..Len(l) /\ DOMAIN m = 1..Len(m)
      /\ j \in Seq(Entries) /\ Len(j) = Len(l) + Len(m) /\ DOMAIN j = 1..Len(j)
  OBVIOUS
<1>2. \A i \in 1..Len(j) : j[i] = IF i <= Len(l) THEN l[i] ELSE m[i - Len(l)]
  OBVIOUS
<1> HIDE DEF j
<1>3. ASSUME NEW x \in ToSet(j) PROVE x \in ToSet(l) \cup ToSet(m)
  <2>1. PICK i \in 1..Len(j) : x = j[i]
    BY <1>1 DEF ToSet
  <2>2. CASE i <= Len(l)
    <3>1. i \in DOMAIN l /\ x = l[i]
      BY <1>1, <1>2, <2>1, <2>2
    <3> QED
      BY <3>1 DEF ToSet
  <2>3. CASE i > Len(l)
    <3>1. i - Len(l) \in DOMAIN m /\ x = m[i - Len(l)]
      BY <1>1, <1>2, <2>1, <2>3
    <3> QED
      BY <3>1 DEF ToSet
  <2> QED
    BY <1>1, <2>2, <2>3
<1>4. \A i \in DOMAIN l : i \in DOMAIN j /\ j[i] = l[i]
  BY <1>1, <1>2
<1>5. \A i \in DOMAIN m : i + Len(l) \in DOMAIN j /\ j[i + Len(l)] = m[i]
  BY <1>1, <1>2
<1>6. ToSet(l) \subseteq ToSet(j) /\ ToSet(m) \subseteq ToSet(j)
  BY <1>4, <1>5 DEF ToSet
<1> QED
  BY <1>1, <1>3, <1>6 DEF j

(* A set of numbers that is finite and not empty has a Max.                *)
LEMMA MaxIsIn ==
  ASSUME NEW S \in SUBSET Nat, IsFiniteSet(S), S # {}
  PROVE  Max(S) \in S
BY Greatest DEF Max

-----------------------------------------------------------------------------
(* The invariant                                                           *)

(* A list is sound, for what the units give and the events that are owed:  *)
(* an entry lacks nothing its application contributes, unless that has     *)
(* changed since; and no unit it names is gone, unless that is owed.       *)
Sound(list, has, owed) ==
  \A x \in ToSet(list) :
    /\ <<"changed", x.name, None>> \notin owed =>
         \A u \in AppUnits[x.name] : has[x.name][u] # None => <<u, has[x.name][u]>> \in x.of
    /\ \A c \in x.of : c[1] \in AppUnits[x.name] /\
         (has[x.name][c[1]] # None \/ <<"departed", x.name, c[1]>> \in owed)

AggFits ==
  /\ part \in {"jobs", "groups"}
  /\ DOMAIN given = ScrapedApps /\ \A a \in ScrapedApps : given[a] \in [AppUnits[a] -> Values[a] \cup {None}]
  /\ related \subseteq Prometheuses /\ IsFiniteSet(related)
  /\ stored \in Seq(Entries) /\ entries \in [Prometheuses -> Seq(Entries)]
  /\ \A p \in Prometheuses \ related : entries[p] = << >>

(* A unit whose departure is owed is gone, a Prometheus that joined is there. *)
EventsFit ==
  /\ \A a \in ScrapedApps : \A u \in AppUnits[a] : <<"departed", a, u>> \in aggOwed => given[a][u] = None
  /\ \A p \in Prometheuses : <<"joined", p, None>> \in aggOwed => p \in related

(* What is stored is published somewhere, so that what departs is taken    *)
(* out of it as well.                                                      *)
StoredIsPublished ==
  \A x \in ToSet(stored) : \E q \in related : \E y \in ToSet(entries[q]) : y.name = x.name

ListsAreSound ==
  /\ Sound(stored, given, aggOwed)
  /\ \A p \in Prometheuses : Sound(entries[p], given, aggOwed)

(* Applications that contribute have an entry at every Prometheus, once    *)
(* it has been told, and they have been listened to.                       *)
EntriesArePresent ==
  \A p \in related, a \in ScrapedApps :
    <<"joined", p, None>> \notin aggOwed /\ <<"changed", a, None>> \notin aggOwed
      /\ (\E u \in AppUnits[a] : given[a][u] # None) => \E x \in ToSet(entries[p]) : x.name = a

AggInv == AggFits /\ EventsFit /\ StoredIsPublished /\ ListsAreSound /\ EntriesArePresent

(* The entry of an application that contributes.                           *)
LEMMA EntryOf ==
  ASSUME AggFits, NEW a \in ScrapedApps
  PROVE  /\ Contributions(a) = {} <=> \A u \in AppUnits[a] : given[a][u] = None
         /\ Contributions(a) # {} => Entry(a) \in Entries
         /\ Entry(a).name = a
         /\ \A c \in Entry(a).of : c[1] \in AppUnits[a] /\ given[a][c[1]] # None
         /\ \A u \in AppUnits[a] : given[a][u] # None => <<u, given[a][u]>> \in Entry(a).of
<1>1. Entry(a).name = a /\ Entry(a).of = Contributions(a)
  BY DEF Entry
<1>2. \A u \in AppUnits[a] : given[a][u] # None => <<u, given[a][u]>> \in Contributions(a)
  BY DEF Contributions
<1>3. \A c \in Contributions(a) : \E u \in AppUnits[a] : given[a][u] # None /\ c = <<u, given[a][u]>>
  BY DEF Contributions
<1>4. Contributions(a) \subseteq Pairs
  <2> SUFFICES ASSUME NEW u \in AppUnits[a], given[a][u] # None PROVE <<u, given[a][u]>> \in Pairs
    BY <1>3
  <2>1. given[a][u] \in Values[a]
    BY DEF AggFits
  <2> QED
    BY <2>1 DEF Pairs
<1>5. ASSUME Contributions(a) # {} PROVE Entry(a) \in Entries
  <2>1. Contributions(a) \in (SUBSET Pairs) \ {{}}
    BY <1>4, <1>5
  <2>2. [name |-> a, of |-> Contributions(a)] \in [name : ScrapedApps, of : (SUBSET Pairs) \ {{}}]
    BY <2>1
  <2> QED
    BY <2>2 DEF Entry, Entries
<1>6. Contributions(a) = {} <=> \A u \in AppUnits[a] : given[a][u] = None
  BY <1>2, <1>3
<1>7. \A c \in Contributions(a) : c[1] \in AppUnits[a] /\ given[a][c[1]] # None
  BY <1>3
<1> QED
  BY <1>1, <1>2, <1>5, <1>6, <1>7

(* Names of entries are applications.                                      *)
LEMMA EntryNames ==
  ASSUME NEW list \in Seq(Entries), NEW x \in ToSet(list)
  PROVE  x \in Entries /\ x.name \in ScrapedApps /\ x.of # {}
<1>1. x \in Entries
  BY DEF ToSet
<1> QED
  BY <1>1 DEF Entries

(* The events of the charm are told apart.                                 *)
LEMMA EventsDiffer ==
  /\ \A a, b, u : <<"departed", a, u>> # <<"changed", b, None>> /\ <<"departed", a, u>> # <<"joined", b, None>>
  /\ \A a, b : <<"changed", a, None>> # <<"joined", b, None>>
  /\ \A a, b : <<"changed", a, None>> = <<"changed", b, None>> => a = b
  /\ \A a, b : <<"joined", a, None>> = <<"joined", b, None>> => a = b
  /\ \A a, b, u, v : <<"departed", a, u>> = <<"departed", b, v>> => a = b /\ u = v
<1>1. "departed" # "changed" /\ "departed" # "joined" /\ "changed" # "joined"
  OBVIOUS
<1>2. \A a, b, u : <<"departed", a, u>> # <<"changed", b, None>> /\ <<"departed", a, u>> # <<"joined", b, None>>
  BY <1>1, Zenon
<1>3. \A a, b : <<"changed", a, None>> # <<"joined", b, None>>
  BY <1>1, Zenon
<1>4. \A a, b : <<"changed", a, None>> = <<"changed", b, None>> => a = b
  BY Zenon
<1>5. \A a, b : <<"joined", a, None>> = <<"joined", b, None>> => a = b
  BY Zenon
<1>6. \A a, b, u, v : <<"departed", a, u>> = <<"departed", b, v>> => a = b /\ u = v
  BY Zenon
<1> QED
  BY <1>2, <1>3, <1>4, <1>5, <1>6

(* A list stays sound while what is given changes only where that is owed. *)
LEMMA SoundKept ==
  ASSUME NEW list \in Seq(Entries), NEW h, NEW o, NEW h2, NEW o2, Sound(list, h, o),
         \A a \in ScrapedApps : <<"changed", a, None>> \notin o2 =>
           <<"changed", a, None>> \notin o /\ \A u \in AppUnits[a] : h2[a][u] # None => h2[a][u] = h[a][u],
         \A a \in ScrapedApps : \A u \in AppUnits[a] :
           (h[a][u] # None \/ <<"departed", a, u>> \in o) => h2[a][u] # None \/ <<"departed", a, u>> \in o2
  PROVE  Sound(list, h2, o2)
<1> SUFFICES ASSUME NEW x \in ToSet(list)
             PROVE  /\ <<"changed", x.name, None>> \notin o2 =>
                         \A u \in AppUnits[x.name] : h2[x.name][u] # None => <<u, h2[x.name][u]>> \in x.of
                    /\ \A c \in x.of : c[1] \in AppUnits[x.name] /\
                         (h2[x.name][c[1]] # None \/ <<"departed", x.name, c[1]>> \in o2)
  BY DEF Sound
<1>1. x.name \in ScrapedApps
  BY EntryNames
<1>2. ASSUME <<"changed", x.name, None>> \notin o2, NEW u \in AppUnits[x.name], h2[x.name][u] # None
      PROVE  <<u, h2[x.name][u]>> \in x.of
  <2>1. h2[x.name][u] = h[x.name][u] /\ <<"changed", x.name, None>> \notin o
    BY <1>1, <1>2
  <2> QED
    BY <1>2, <2>1 DEF Sound
<1>3. ASSUME NEW c \in x.of
      PROVE  c[1] \in AppUnits[x.name] /\ (h2[x.name][c[1]] # None \/ <<"departed", x.name, c[1]>> \in o2)
  <2>1. c[1] \in AppUnits[x.name] /\ (h[x.name][c[1]] # None \/ <<"departed", x.name, c[1]>> \in o)
    BY DEF Sound
  <2> QED
    BY <1>1, <2>1
<1> QED
  BY <1>2, <1>3

(* A list is sound once the change of an application is taken in.          *)
LEMMA SoundOnceGiven ==
  ASSUME AggFits, NEW a \in ScrapedApps, NEW list \in Seq(Entries), Sound(list, given, aggOwed),
         Contributions(a) # {}
  PROVE  Sound(With(list, Entry(a)), given, aggOwed \ {<<"changed", a, None>>})
<1> DEFINE new == With(list, Entry(a))
           o2 == aggOwed \ {<<"changed", a, None>>}
<1> SUFFICES ASSUME NEW x \in ToSet(new)
             PROVE  /\ <<"changed", x.name, None>> \notin o2 =>
                         \A u \in AppUnits[x.name] : given[x.name][u] # None => <<u, given[x.name][u]>> \in x.of
                    /\ \A c \in x.of : c[1] \in AppUnits[x.name] /\
                         (given[x.name][c[1]] # None \/ <<"departed", x.name, c[1]>> \in o2)
  BY DEF Sound
<1>1. Entry(a) \in Entries /\ Entry(a).name = a
  BY EntryOf
<1>2. \/ x \in ToSet(list) /\ x.name # a
      \/ /\ x.name = a /\ Entry(a).of \subseteq x.of
         /\ \A c \in x.of : c \in Entry(a).of \/ \E y \in ToSet(list) : y.name = a /\ c \in y.of
  <2>1. PICK e \in Entries : e = Entry(a)
    BY <1>1
  <2>2. \A z \in ToSet(With(list, e)) :
          \/ z \in ToSet(list) /\ z.name # e.name
          \/ /\ z.name = e.name /\ e.of \subseteq z.of
             /\ \A c \in z.of : c \in e.of \/ \E y \in ToSet(list) : y.name = e.name /\ c \in y.of
    BY GivenEntry
  <2>3. e.name = a /\ x \in ToSet(With(list, e))
    BY <1>1, <2>1
  <2> HIDE DEF new
  <2> QED
    BY <2>1, <2>2, <2>3
<1>3. \A e : (\E b, u : e = <<"departed", b, u>>) /\ e \in aggOwed => e \in o2
  BY EventsDiffer
<1>4. CASE x \in ToSet(list) /\ x.name # a
  <2>1. <<"changed", x.name, None>> \notin o2 => <<"changed", x.name, None>> \notin aggOwed
    BY <1>4, EventsDiffer
  <2> HIDE DEF o2
  <2> QED
    BY <1>3, <1>4, <2>1 DEF Sound
<1>5. CASE /\ x.name = a /\ Entry(a).of \subseteq x.of
           /\ \A c \in x.of : c \in Entry(a).of \/ \E y \in ToSet(list) : y.name = a /\ c \in y.of
  <2>1. \A u \in AppUnits[a] : given[a][u] # None => <<u, given[a][u]>> \in x.of
    BY <1>5, EntryOf
  <2>2. ASSUME NEW c \in x.of
        PROVE  c[1] \in AppUnits[a] /\ (given[a][c[1]] # None \/ <<"departed", a, c[1]>> \in o2)
    <3>1. CASE c \in Entry(a).of
      BY <3>1, EntryOf
    <3>2. CASE \E y \in ToSet(list) : y.name = a /\ c \in y.of
      <4> HIDE DEF o2
      <4> QED
        BY <1>3, <3>2 DEF Sound
    <3> QED
      BY <1>5, <3>1, <3>2
  <2> QED
    BY <1>5, <2>1, <2>2
<1> QED
  BY <1>2, <1>4, <1>5

(* And once a departed unit is taken out.                                  *)
LEMMA SoundOnceTaken ==
  ASSUME NEW list \in Seq(Entries), Sound(list, given, aggOwed), NEW a \in ScrapedApps, NEW u \in AppUnits[a],
         given[a][u] = None, Named(list, a) # {}
  PROVE  Sound(Without(list, a, u), given, aggOwed \ {<<"departed", a, u>>})
<1> DEFINE new == Without(list, a, u)
           o2 == aggOwed \ {<<"departed", a, u>>}
<1> SUFFICES ASSUME NEW x \in ToSet(new)
             PROVE  /\ <<"changed", x.name, None>> \notin o2 =>
                         \A w \in AppUnits[x.name] : given[x.name][w] # None => <<w, given[x.name][w]>> \in x.of
                    /\ \A c \in x.of : c[1] \in AppUnits[x.name] /\
                         (given[x.name][c[1]] # None \/ <<"departed", x.name, c[1]>> \in o2)
  BY DEF Sound
<1>1. \/ x \in ToSet(list) /\ x.name # a
      \/ \E y \in ToSet(list) : x.name = a /\ y.name = a /\ x.of = {c \in y.of : c[1] # u}
  BY TakenUnit
<1>2. \A b : <<"changed", b, None>> \notin o2 => <<"changed", b, None>> \notin aggOwed
  BY EventsDiffer
<1>3. \A b, w : <<"departed", b, w>> \in aggOwed /\ (b # a \/ w # u) => <<"departed", b, w>> \in o2
  BY EventsDiffer
<1>4. CASE x \in ToSet(list) /\ x.name # a
  <2> HIDE DEF o2
  <2> QED
    BY <1>2, <1>3, <1>4 DEF Sound
<1>5. ASSUME NEW y \in ToSet(list), x.name = a, y.name = a, x.of = {c \in y.of : c[1] # u}
      PROVE  /\ <<"changed", a, None>> \notin o2 =>
                  \A w \in AppUnits[a] : given[a][w] # None => <<w, given[a][w]>> \in x.of
             /\ \A c \in x.of : c[1] \in AppUnits[a] /\
                  (given[a][c[1]] # None \/ <<"departed", a, c[1]>> \in o2)
  <2> HIDE DEF o2
  <2>1. ASSUME <<"changed", a, None>> \notin o2, NEW w \in AppUnits[a], given[a][w] # None
        PROVE  <<w, given[a][w]>> \in x.of
    <3>1. <<w, given[a][w]>> \in y.of
      BY <1>2, <1>5, <2>1 DEF Sound
    <3> QED
      BY <1>5, <2>1, <3>1
  <2>2. ASSUME NEW c \in x.of
        PROVE  c[1] \in AppUnits[a] /\ (given[a][c[1]] # None \/ <<"departed", a, c[1]>> \in o2)
    <3>1. c \in y.of /\ c[1] # u
      BY <1>5
    <3> QED
      BY <1>3, <1>5, <3>1 DEF Sound
  <2> QED
    BY <2>1, <2>2
<1> QED
  BY <1>1, <1>4, <1>5

(* The loop over Prometheuses stores the last of what it gives.            *)
LEMMA LastIsStored ==
  ASSUME AggFits, NEW new, DOMAIN new \subseteq related, GiveEach(new)
  PROVE  /\ \A p \in Prometheuses : entries'[p] = IF p \in DOMAIN new THEN new[p] ELSE entries[p]
         /\ DOMAIN new = {} => stored' = stored
         /\ DOMAIN new # {} => \E q \in DOMAIN new : stored' = new[q]
<1>1. DOMAIN new \in SUBSET Nat /\ IsFiniteSet(DOMAIN new)
  BY AggregatorAssumption, FS_Subset DEF AggFits
<1>2. DOMAIN new # {} => Max(DOMAIN new) \in DOMAIN new
  BY <1>1, MaxIsIn
<1> QED
  BY <1>2 DEF GiveEach

(* One lemma for each action: a unit contributes something.                *)
LEMMA GiveKeeps ==
  ASSUME AggInv, NEW a \in ScrapedApps, NEW u \in AppUnits[a], NEW v \in Values[a], Give(a, u, v)
  PROVE  AggInv'
<1>1. /\ given[a][u] # v /\ <<"departed", a, u>> \notin aggOwed
      /\ given' = [given EXCEPT ![a][u] = v]
      /\ aggOwed' = aggOwed \cup {<<"changed", a, None>>}
      /\ part' = part /\ related' = related /\ entries' = entries /\ stored' = stored
  BY DEF Give
<1>2. /\ DOMAIN given' = ScrapedApps /\ given'[a][u] = v /\ v # None
      /\ \A b \in ScrapedApps : given'[b] \in [AppUnits[b] -> Values[b] \cup {None}]
      /\ \A b \in ScrapedApps : \A w \in AppUnits[b] : b # a \/ w # u => given'[b][w] = given[b][w]
  BY <1>1, AggregatorAssumption DEF AggInv, AggFits
<1>3. AggFits'
  BY <1>1, <1>2 DEF AggInv, AggFits
<1>4. \A b : \A w : <<"departed", b, w>> \in aggOwed' <=> <<"departed", b, w>> \in aggOwed
  BY <1>1, EventsDiffer
<1>5. \A b : <<"changed", b, None>> \notin aggOwed' => b # a /\ <<"changed", b, None>> \notin aggOwed
  BY <1>1
<1>6. \A p : <<"joined", p, None>> \in aggOwed' <=> <<"joined", p, None>> \in aggOwed
  BY <1>1, EventsDiffer
<1>7. EventsFit'
  BY <1>1, <1>2, <1>4, <1>6 DEF AggInv, EventsFit
<1>8. StoredIsPublished'
  BY <1>1 DEF AggInv, StoredIsPublished
<1>9. ASSUME NEW list \in Seq(Entries), Sound(list, given, aggOwed) PROVE Sound(list, given', aggOwed')
  <2>1. \A b \in ScrapedApps : <<"changed", b, None>> \notin aggOwed' =>
          <<"changed", b, None>> \notin aggOwed /\ \A w \in AppUnits[b] : given'[b][w] # None => given'[b][w] = given[b][w]
    BY <1>2, <1>5
  <2>2. \A b \in ScrapedApps : \A w \in AppUnits[b] :
          given[b][w] # None \/ <<"departed", b, w>> \in aggOwed => given'[b][w] # None \/ <<"departed", b, w>> \in aggOwed'
    BY <1>2, <1>4
  <2> QED
    BY <1>9, <2>1, <2>2, SoundKept
<1>10. ListsAreSound'
  BY <1>1, <1>9 DEF AggInv, AggFits, ListsAreSound
<1>11. EntriesArePresent'
  BY <1>1, <1>2, <1>5, <1>6 DEF AggInv, EntriesArePresent
<1> QED
  BY <1>3, <1>7, <1>8, <1>10, <1>11 DEF AggInv

(* A unit leaves.                                                          *)
LEMMA DepartKeeps ==
  ASSUME AggInv, NEW a \in ScrapedApps, NEW u \in AppUnits[a], Depart(a, u)
  PROVE  AggInv'
<1>1. /\ given' = [given EXCEPT ![a][u] = None]
      /\ aggOwed' = aggOwed \cup {<<"departed", a, u>>}
      /\ part' = part /\ related' = related /\ entries' = entries /\ stored' = stored
  BY DEF Depart
<1>2. /\ DOMAIN given' = ScrapedApps /\ given'[a][u] = None
      /\ \A b \in ScrapedApps : given'[b] \in [AppUnits[b] -> Values[b] \cup {None}]
      /\ \A b \in ScrapedApps : \A w \in AppUnits[b] : b # a \/ w # u => given'[b][w] = given[b][w]
  BY <1>1, AggregatorAssumption DEF AggInv, AggFits
<1>3. AggFits'
  BY <1>1, <1>2 DEF AggInv, AggFits
<1>4. \A b : \A w : <<"departed", b, w>> \in aggOwed' <=> <<"departed", b, w>> \in aggOwed \/ (b = a /\ w = u)
  BY <1>1, EventsDiffer
<1>5. \A b : <<"changed", b, None>> \notin aggOwed' => <<"changed", b, None>> \notin aggOwed
  BY <1>1
<1>6. \A p : <<"joined", p, None>> \in aggOwed' <=> <<"joined", p, None>> \in aggOwed
  BY <1>1, EventsDiffer
<1>7. EventsFit'
  BY <1>1, <1>2, <1>4, <1>6 DEF AggInv, EventsFit
<1>8. StoredIsPublished'
  BY <1>1 DEF AggInv, StoredIsPublished
<1>9. ASSUME NEW list \in Seq(Entries), Sound(list, given, aggOwed) PROVE Sound(list, given', aggOwed')
  <2>1. \A b \in ScrapedApps : <<"changed", b, None>> \notin aggOwed' =>
          <<"changed", b, None>> \notin aggOwed /\ \A w \in AppUnits[b] : given'[b][w] # None => given'[b][w] = given[b][w]
    BY <1>2, <1>5
  <2>2. \A b \in ScrapedApps : \A w \in AppUnits[b] :
          given[b][w] # None \/ <<"departed", b, w>> \in aggOwed => given'[b][w] # None \/ <<"departed", b, w>> \in aggOwed'
    BY <1>2, <1>4
  <2> QED
    BY <1>9, <2>1, <2>2, SoundKept
<1>10. ListsAreSound'
  BY <1>1, <1>9 DEF AggInv, AggFits, ListsAreSound
<1>11. EntriesArePresent'
  BY <1>1, <1>2, <1>5, <1>6 DEF AggInv, EntriesArePresent
<1> QED
  BY <1>3, <1>7, <1>8, <1>10, <1>11 DEF AggInv

(* A Prometheus is related.                                                *)
LEMMA PrometheusComesKeeps ==
  ASSUME AggInv, NEW p \in Prometheuses, PrometheusComes(p)
  PROVE  AggInv'
<1>1. /\ related' = related \cup {p} /\ aggOwed' = aggOwed \cup {<<"joined", p, None>>}
      /\ part' = part /\ given' = given /\ entries' = entries /\ stored' = stored
  BY DEF PrometheusComes
<1>2. IsFiniteSet(related')
  BY <1>1, FS_AddElement DEF AggInv, AggFits
<1>3. AggFits'
  BY <1>1, <1>2 DEF AggInv, AggFits
<1>4. /\ \A b, w : <<"departed", b, w>> \in aggOwed' <=> <<"departed", b, w>> \in aggOwed
      /\ \A b : <<"changed", b, None>> \in aggOwed' <=> <<"changed", b, None>> \in aggOwed
      /\ \A q : <<"joined", q, None>> \in aggOwed' <=> <<"joined", q, None>> \in aggOwed \/ q = p
  BY <1>1, EventsDiffer
<1>5. EventsFit'
  BY <1>1, <1>4 DEF AggInv, EventsFit
<1>6. StoredIsPublished'
  BY <1>1 DEF AggInv, StoredIsPublished
<1>7. ListsAreSound'
  <2>1. ASSUME NEW list \in Seq(Entries), Sound(list, given, aggOwed) PROVE Sound(list, given, aggOwed')
    BY <1>4, <2>1, SoundKept
  <2> QED
    BY <1>1, <2>1 DEF AggInv, AggFits, ListsAreSound
<1>8. EntriesArePresent'
  <2> SUFFICES ASSUME NEW q \in related', NEW a \in ScrapedApps, <<"joined", q, None>> \notin aggOwed',
                      <<"changed", a, None>> \notin aggOwed', \E u \in AppUnits[a] : given[a][u] # None
               PROVE  \E x \in ToSet(entries[q]) : x.name = a
    BY <1>1 DEF EntriesArePresent
  <2>1. q \in related /\ <<"joined", q, None>> \notin aggOwed /\ <<"changed", a, None>> \notin aggOwed
    BY <1>1, <1>4
  <2> QED
    BY <2>1 DEF AggInv, EntriesArePresent
<1> QED
  BY <1>3, <1>5, <1>6, <1>7, <1>8 DEF AggInv

(* It is told of what is stored and of everything there is.                *)
LEMMA SetPrometheusDataKeeps ==
  ASSUME AggInv, NEW p \in Prometheuses, SetPrometheusData(p)
  PROVE  AggInv'
<1> DEFINE S == {Entry(a) : a \in {b \in ScrapedApps : Contributions(b) # {}}}
           new == stored \o SetToSeq(S)
<1>0. p \in related
  BY DEF SetPrometheusData, AggInv, EventsFit
<1>1. /\ entries' = [entries EXCEPT ![p] = new] /\ aggOwed' = aggOwed \ {<<"joined", p, None>>}
      /\ part' = part /\ given' = given /\ related' = related /\ stored' = stored
  BY DEF SetPrometheusData
<1>2. S \in SUBSET Entries /\ IsFiniteSet(S)
  <2>1. S \in SUBSET Entries
    BY EntryOf DEF AggInv
  <2> DEFINE C == {b \in ScrapedApps : Contributions(b) # {}}
             f == [a \in C |-> Entry(a)]
  <2>2. IsFiniteSet(C)
    BY AggregatorAssumption, FS_Subset
  <2>3. f \in Surjection(C, S)
    <3> HIDE DEF C
    <3>1. f \in [C -> S] /\ \A x \in S : \E a \in C : f[a] = x
      BY DEF C
    <3> QED
      BY <3>1 DEF Surjection
  <2>4. IsFiniteSet(S)
    <3> HIDE DEF C, f, S
    <3> QED
      BY <2>2, <2>3, FS_Surjection
  <2> QED
    BY <2>1, <2>4
<1>3. new \in Seq(Entries) /\ ToSet(new) = ToSet(stored) \cup S
  <2> HIDE DEF S
  <2>1. SetToSeq(S) \in Seq(Entries) /\ ToSet(SetToSeq(S)) = S
    BY <1>2, ListOfSet
  <2> QED
    BY <2>1, ListsJoined DEF AggInv, AggFits
<1> HIDE DEF new
<1>4. entries' \in [Prometheuses -> Seq(Entries)] /\ entries'[p] = new
      /\ \A q \in Prometheuses : q # p => entries'[q] = entries[q]
  BY <1>1, <1>3 DEF AggInv, AggFits
<1>5. AggFits'
  BY <1>0, <1>1, <1>4 DEF AggInv, AggFits
<1>6. /\ \A b, w : <<"departed", b, w>> \in aggOwed' <=> <<"departed", b, w>> \in aggOwed
      /\ \A b : <<"changed", b, None>> \in aggOwed' <=> <<"changed", b, None>> \in aggOwed
      /\ \A q : <<"joined", q, None>> \in aggOwed' <=> <<"joined", q, None>> \in aggOwed /\ q # p
  BY <1>1, EventsDiffer
<1>7. EventsFit'
  BY <1>1, <1>6 DEF AggInv, EventsFit
<1>8. StoredIsPublished'
  <2>1. ASSUME NEW x \in ToSet(stored) PROVE \E q \in related : \E y \in ToSet(entries'[q]) : y.name = x.name
    BY <1>0, <1>3, <1>4
  <2> QED
    BY <1>1, <2>1 DEF StoredIsPublished
<1>9. Sound(new, given, aggOwed)
  <2> SUFFICES ASSUME NEW x \in ToSet(new)
               PROVE  /\ <<"changed", x.name, None>> \notin aggOwed =>
                           \A u \in AppUnits[x.name] : given[x.name][u] # None => <<u, given[x.name][u]>> \in x.of
                      /\ \A c \in x.of : c[1] \in AppUnits[x.name] /\
                           (given[x.name][c[1]] # None \/ <<"departed", x.name, c[1]>> \in aggOwed)
    BY DEF Sound
  <2>1. CASE x \in ToSet(stored)
    BY <2>1 DEF AggInv, ListsAreSound, Sound
  <2>2. CASE x \in S
    <3>1. PICK a \in ScrapedApps : x = Entry(a)
      BY <2>2
    <3>2. /\ x.name = a /\ \A c \in x.of : c[1] \in AppUnits[a] /\ given[a][c[1]] # None
          /\ \A u \in AppUnits[a] : given[a][u] # None => <<u, given[a][u]>> \in x.of
      BY <3>1, EntryOf DEF AggInv
    <3> QED
      BY <3>2
  <2> QED
    BY <1>3, <2>1, <2>2
<1>10. ListsAreSound'
  <2>1. ASSUME NEW list \in Seq(Entries), Sound(list, given, aggOwed) PROVE Sound(list, given, aggOwed')
    BY <1>6, <2>1, SoundKept
  <2>2. \A q \in Prometheuses : Sound(entries'[q], given, aggOwed')
    BY <1>3, <1>4, <1>9, <2>1 DEF AggInv, AggFits, ListsAreSound
  <2> QED
    BY <1>1, <2>1, <2>2 DEF AggInv, AggFits, ListsAreSound
<1>11. EntriesArePresent'
  <2> SUFFICES ASSUME NEW q \in related, NEW a \in ScrapedApps, <<"joined", q, None>> \notin aggOwed',
                      <<"changed", a, None>> \notin aggOwed', \E u \in AppUnits[a] : given[a][u] # None
               PROVE  \E x \in ToSet(entries'[q]) : x.name = a
    BY <1>1 DEF EntriesArePresent
  <2>1. CASE q = p
    <3>1. Contributions(a) # {} /\ Entry(a).name = a
      BY EntryOf DEF AggInv
    <3>2. Entry(a) \in S
      BY <3>1
    <3> QED
      BY <1>3, <1>4, <2>1, <3>1, <3>2
  <2>2. CASE q # p
    <3>1. <<"joined", q, None>> \notin aggOwed /\ <<"changed", a, None>> \notin aggOwed /\ q \in Prometheuses
      BY <1>6, <2>2 DEF AggInv, AggFits
    <3> QED
      BY <1>4, <2>2, <3>1 DEF AggInv, EntriesArePresent
  <2> QED
    BY <2>1, <2>2
<1> QED
  BY <1>5, <1>7, <1>8, <1>10, <1>11 DEF AggInv

(* Every Prometheus is told of a change.                                   *)
LEMMA TargetsChangedKeeps ==
  ASSUME AggInv, NEW a \in ScrapedApps, TargetsChanged(a)
  PROVE  AggInv'
<1>1. /\ aggOwed' = aggOwed \ {<<"changed", a, None>>}
      /\ part' = part /\ given' = given /\ related' = related
  BY DEF TargetsChanged
<1>2. /\ \A b, w : <<"departed", b, w>> \in aggOwed' <=> <<"departed", b, w>> \in aggOwed
      /\ \A b : <<"changed", b, None>> \in aggOwed' <=> <<"changed", b, None>> \in aggOwed /\ b # a
      /\ \A q : <<"joined", q, None>> \in aggOwed' <=> <<"joined", q, None>> \in aggOwed
  BY <1>1, EventsDiffer
<1>3. EventsFit'
  BY <1>1, <1>2 DEF AggInv, EventsFit
<1>4. CASE Contributions(a) = {}
  <2>1. entries' = entries /\ stored' = stored
    BY <1>4 DEF TargetsChanged
  <2>2. AggFits'
    BY <1>1, <2>1 DEF AggInv, AggFits
  <2>3. StoredIsPublished'
    BY <1>1, <2>1 DEF AggInv, StoredIsPublished
  <2>4. \A u \in AppUnits[a] : given[a][u] = None
    BY <1>4, EntryOf DEF AggInv
  <2>5. ASSUME NEW list \in Seq(Entries), Sound(list, given, aggOwed) PROVE Sound(list, given, aggOwed')
    <3> SUFFICES ASSUME NEW x \in ToSet(list)
                 PROVE  /\ <<"changed", x.name, None>> \notin aggOwed' =>
                             \A u \in AppUnits[x.name] : given[x.name][u] # None => <<u, given[x.name][u]>> \in x.of
                        /\ \A c \in x.of : c[1] \in AppUnits[x.name] /\
                             (given[x.name][c[1]] # None \/ <<"departed", x.name, c[1]>> \in aggOwed')
      BY DEF Sound
    <3> QED
      BY <1>2, <2>4, <2>5 DEF Sound
  <2>6. ListsAreSound'
    BY <1>1, <2>1, <2>5 DEF AggInv, AggFits, ListsAreSound
  <2>7. EntriesArePresent'
    <3> SUFFICES ASSUME NEW q \in related, NEW b \in ScrapedApps, <<"joined", q, None>> \notin aggOwed',
                        <<"changed", b, None>> \notin aggOwed', \E u \in AppUnits[b] : given[b][u] # None
                 PROVE  \E x \in ToSet(entries[q]) : x.name = b
      BY <1>1, <2>1 DEF EntriesArePresent
    <3>1. <<"joined", q, None>> \notin aggOwed /\ <<"changed", b, None>> \notin aggOwed
      BY <1>2, <2>4
    <3> QED
      BY <3>1 DEF AggInv, EntriesArePresent
  <2> QED
    BY <1>3, <2>2, <2>3, <2>6, <2>7 DEF AggInv
<1>5. CASE Contributions(a) # {}
  <2> DEFINE new == [p \in related |-> With(entries[p], Entry(a))]
  <2>0. DOMAIN new = related /\ related \subseteq Prometheuses /\ \A p \in related : new[p] = With(entries[p], Entry(a))
    BY DEF AggInv, AggFits
  <2>1. GiveEach(new)
    BY <1>5 DEF TargetsChanged
  <2> HIDE DEF new
  <2>2. /\ \A p \in Prometheuses : entries'[p] = IF p \in related THEN With(entries[p], Entry(a)) ELSE entries[p]
        /\ related = {} => stored' = stored
        /\ related # {} => \E q \in related : stored' = entries'[q]
    <3>1. /\ \A p \in Prometheuses : entries'[p] = IF p \in DOMAIN new THEN new[p] ELSE entries[p]
          /\ DOMAIN new = {} => stored' = stored
          /\ DOMAIN new # {} => \E q \in DOMAIN new : stored' = new[q]
      BY <2>0, <2>1, LastIsStored DEF AggInv
    <3> QED
      BY <2>0, <3>1
  <2>3. Entry(a) \in Entries /\ Entry(a).name = a
    BY <1>5, EntryOf DEF AggInv
  <2>4. ASSUME NEW p \in related
        PROVE  /\ entries'[p] \in Seq(Entries) /\ Sound(entries'[p], given, aggOwed')
               /\ \A y \in ToSet(entries[p]) : y.name # a => y \in ToSet(entries'[p])
               /\ \E x \in ToSet(entries'[p]) : x.name = a
    <3>1. p \in Prometheuses /\ entries[p] \in Seq(Entries) /\ Sound(entries[p], given, aggOwed)
      BY <2>0 DEF AggInv, AggFits, ListsAreSound
    <3>2. entries'[p] = With(entries[p], Entry(a))
      BY <2>2, <3>1
    <3>3. PICK e \in Entries : e = Entry(a)
      BY <2>3
    <3>4. /\ With(entries[p], e) \in Seq(Entries)
          /\ \A y \in ToSet(entries[p]) : y.name # e.name => y \in ToSet(With(entries[p], e))
          /\ \E x \in ToSet(With(entries[p], e)) : x.name = e.name
      BY <3>1, GivenEntry
    <3>5. Sound(With(entries[p], Entry(a)), given, aggOwed')
      BY <1>1, <1>5, <3>1, SoundOnceGiven DEF AggInv
    <3> QED
      BY <2>3, <3>2, <3>3, <3>4, <3>5
  <2>5. \A p \in Prometheuses \ related : entries'[p] = << >> /\ entries'[p] \in Seq(Entries)
    BY <2>2 DEF AggInv, AggFits
  <2>6. related = {} => ToSet(stored) = {}
    BY DEF AggInv, StoredIsPublished
  <2>7. /\ ToSet(stored') = {} \/ \E q \in related : stored' = entries'[q]
        /\ stored' \in Seq(Entries)
    <3>1. CASE related = {}
      BY <2>2, <2>6, <3>1 DEF AggInv, AggFits
    <3>2. CASE related # {}
      BY <2>2, <2>4, <3>2
    <3> QED
      BY <3>1, <3>2
  <2>8. AggFits'
    <3>1. entries' \in [Prometheuses -> Seq(Entries)]
      <4>1. DOMAIN entries' = Prometheuses /\ entries' = [p \in Prometheuses |-> entries'[p]]
        BY <2>1 DEF GiveEach
      <4>2. \A p \in Prometheuses : entries'[p] \in Seq(Entries)
        BY <2>4, <2>5
      <4> QED
        BY <4>1, <4>2
    <3> QED
      BY <1>1, <2>5, <2>7, <3>1 DEF AggInv, AggFits
  <2>9. \A list : ToSet(list) = {} => Sound(list, given, aggOwed')
    BY DEF Sound
  <2>10. ListsAreSound'
    <3>1. Sound(stored', given, aggOwed')
      BY <2>4, <2>7, <2>9
    <3>2. ToSet(<< >>) = {}
      BY DEF ToSet
    <3>3. \A p \in Prometheuses : Sound(entries'[p], given, aggOwed')
      BY <2>4, <2>5, <2>9, <3>2
    <3> QED
      BY <1>1, <3>1, <3>3 DEF ListsAreSound
  <2>11. StoredIsPublished'
    <3>1. \A x \in ToSet(stored') : \E q \in related : \E y \in ToSet(entries'[q]) : y.name = x.name
      BY <2>7
    <3> QED
      BY <1>1, <3>1 DEF StoredIsPublished
  <2>12. EntriesArePresent'
    <3> SUFFICES ASSUME NEW q \in related, NEW b \in ScrapedApps, <<"joined", q, None>> \notin aggOwed',
                        <<"changed", b, None>> \notin aggOwed', \E u \in AppUnits[b] : given[b][u] # None
                 PROVE  \E x \in ToSet(entries'[q]) : x.name = b
      BY <1>1 DEF EntriesArePresent
    <3>1. CASE b = a
      BY <2>4, <3>1
    <3>2. CASE b # a
      <4>1. <<"joined", q, None>> \notin aggOwed /\ <<"changed", b, None>> \notin aggOwed
        BY <1>2, <3>2
      <4>2. \E x \in ToSet(entries[q]) : x.name = b
        BY <4>1 DEF AggInv, EntriesArePresent
      <4> QED
        BY <2>4, <3>2, <4>2
    <3> QED
      BY <3>1, <3>2
  <2> QED
    BY <1>3, <2>8, <2>10, <2>11, <2>12 DEF AggInv
<1> QED
  BY <1>4, <1>5

(* Every Prometheus is told of a departure.                                *)
LEMMA TargetsDepartedKeeps ==
  ASSUME AggInv, NEW a \in ScrapedApps, NEW u \in AppUnits[a], TargetsDeparted(a, u)
  PROVE  AggInv'
<1>1. /\ aggOwed' = aggOwed \ {<<"departed", a, u>>} /\ given[a][u] = None
      /\ part' = part /\ given' = given /\ related' = related
  BY DEF TargetsDeparted, AggInv, EventsFit
<1>2. /\ \A b, w : <<"departed", b, w>> \in aggOwed' <=> <<"departed", b, w>> \in aggOwed /\ (b # a \/ w # u)
      /\ \A b : <<"changed", b, None>> \in aggOwed' <=> <<"changed", b, None>> \in aggOwed
      /\ \A q : <<"joined", q, None>> \in aggOwed' <=> <<"joined", q, None>> \in aggOwed
  BY <1>1, EventsDiffer
<1>3. EventsFit'
  BY <1>1, <1>2 DEF AggInv, EventsFit
<1> DEFINE at == {q \in related : Named(entries[q], a) # {}}
           new == [p \in at |-> Without(entries[p], a, u)]
<1>4. DOMAIN new = at /\ at \subseteq related /\ related \subseteq Prometheuses
      /\ \A p \in at : new[p] = Without(entries[p], a, u)
  BY DEF AggInv, AggFits
<1>5. GiveEach(new)
  BY DEF TargetsDeparted
<1> HIDE DEF new
<1>6. /\ \A p \in Prometheuses : entries'[p] = IF p \in at THEN Without(entries[p], a, u) ELSE entries[p]
      /\ at = {} => stored' = stored
      /\ at # {} => \E q \in at : stored' = entries'[q]
  <2>1. /\ \A p \in Prometheuses : entries'[p] = IF p \in DOMAIN new THEN new[p] ELSE entries[p]
        /\ DOMAIN new = {} => stored' = stored
        /\ DOMAIN new # {} => \E q \in DOMAIN new : stored' = new[q]
    BY <1>4, <1>5, LastIsStored DEF AggInv
  <2> HIDE DEF at
  <2> QED
    BY <1>4, <2>1
<1>7. ASSUME NEW list \in Seq(Entries), Sound(list, given, aggOwed), ~\E x \in ToSet(list) : x.name = a
      PROVE  Sound(list, given, aggOwed')
  BY <1>2, <1>7 DEF Sound
<1>8. ASSUME NEW p \in Prometheuses
      PROVE  /\ entries'[p] \in Seq(Entries) /\ Sound(entries'[p], given, aggOwed')
             /\ \A y \in ToSet(entries[p]) : y.name # a => y \in ToSet(entries'[p])
  <2>1. entries[p] \in Seq(Entries) /\ Sound(entries[p], given, aggOwed)
    BY DEF AggInv, AggFits, ListsAreSound
  <2>2. CASE p \in at
    <3>1. Named(entries[p], a) # {} /\ entries'[p] = Without(entries[p], a, u)
      BY <1>6, <2>2
    <3>2. Sound(Without(entries[p], a, u), given, aggOwed')
      BY <1>1, <2>1, <3>1, SoundOnceTaken
    <3> QED
      BY <2>1, <3>1, <3>2, TakenUnit
  <2>3. CASE p \notin at
    <3>1. entries'[p] = entries[p]
      BY <1>6, <2>3
    <3>2. ~\E x \in ToSet(entries[p]) : x.name = a
      <4>1. CASE p \in related
        BY <2>3, <4>1, NamedIn
      <4>2. CASE p \notin related
        BY <4>2 DEF AggInv, AggFits, ToSet
      <4> QED
        BY <4>1, <4>2
    <3> QED
      BY <1>7, <2>1, <3>1, <3>2
  <2> QED
    BY <2>2, <2>3
<1>9. ASSUME at = {} PROVE ~\E x \in ToSet(stored) : x.name = a
  BY <1>9, NamedIn DEF AggInv, StoredIsPublished
<1>10. stored' \in Seq(Entries) /\ Sound(stored', given, aggOwed')
  <2>1. stored \in Seq(Entries) /\ Sound(stored, given, aggOwed)
    BY DEF AggInv, AggFits, ListsAreSound
  <2>2. CASE at = {}
    BY <1>6, <1>7, <1>9, <2>1, <2>2
  <2>3. CASE at # {}
    <3> HIDE DEF at
    <3> QED
      BY <1>4, <1>6, <1>8, <2>3
  <2> QED
    BY <2>2, <2>3
<1>11. AggFits'
  <2>1. entries' \in [Prometheuses -> Seq(Entries)]
    <3>1. DOMAIN entries' = Prometheuses /\ entries' = [p \in Prometheuses |-> entries'[p]]
      BY <1>5 DEF GiveEach
    <3> QED
      BY <1>8, <3>1
  <2>2. \A p \in Prometheuses \ related : entries'[p] = << >>
    BY <1>6 DEF AggInv, AggFits
  <2> QED
    BY <1>1, <1>10, <2>1, <2>2 DEF AggInv, AggFits
<1>12. ListsAreSound'
  BY <1>1, <1>8, <1>10 DEF ListsAreSound
<1>13. StoredIsPublished'
  <2>1. CASE at # {}
    <3>1. PICK q \in at : stored' = entries'[q]
      <4> HIDE DEF at
      <4> QED
        BY <1>6, <2>1
    <3> QED
      BY <1>1, <3>1 DEF StoredIsPublished
  <2>2. CASE at = {}
    <3>1. stored' = stored
      BY <1>6, <2>2
    <3>2. ASSUME NEW x \in ToSet(stored) PROVE \E q \in related : \E y \in ToSet(entries'[q]) : y.name = x.name
      <4>1. PICK q \in related : \E y \in ToSet(entries[q]) : y.name = x.name
        BY DEF AggInv, StoredIsPublished
      <4>2. entries'[q] = entries[q]
        BY <1>4, <1>6, <2>2
      <4> QED
        BY <4>1, <4>2
    <3> QED
      BY <1>1, <3>1, <3>2 DEF StoredIsPublished
  <2> QED
    BY <2>1, <2>2
<1>14. EntriesArePresent'
  <2> SUFFICES ASSUME NEW q \in related, NEW b \in ScrapedApps, <<"joined", q, None>> \notin aggOwed',
                      <<"changed", b, None>> \notin aggOwed', NEW w \in AppUnits[b], given[b][w] # None
               PROVE  \E x \in ToSet(entries'[q]) : x.name = b
    BY <1>1 DEF EntriesArePresent
  <2>1. <<"joined", q, None>> \notin aggOwed /\ <<"changed", b, None>> \notin aggOwed /\ q \in Prometheuses
    BY <1>2, <1>4
  <2>2. PICK x \in ToSet(entries[q]) : x.name = b
    BY <2>1 DEF AggInv, EntriesArePresent
  <2>3. CASE b # a
    BY <1>8, <2>1, <2>2, <2>3
  <2>4. CASE b = a
    <3>1. q \in at /\ Named(entries[q], a) # {} /\ entries[q] \in Seq(Entries)
      BY <2>1, <2>2, <2>4, NamedIn DEF AggInv, AggFits
    <3>2. entries'[q] = Without(entries[q], a, u)
      BY <1>6, <2>1, <3>1
    <3>3. ASSUME NEW y \in ToSet(entries[q]), y.name = a PROVE \E c \in y.of : c[1] # u
      <4>1. <<w, given[a][w]>> \in y.of
        BY <2>1, <2>4, <3>3 DEF AggInv, ListsAreSound, Sound
      <4>2. w # u
        BY <1>1, <2>4
      <4> QED
        BY <4>1, <4>2
    <3> QED
      BY <2>4, <3>1, <3>2, <3>3, TakenUnit
  <2> QED
    BY <2>3, <2>4
<1> QED
  BY <1>3, <1>11, <1>12, <1>13, <1>14 DEF AggInv

(* The invariant is inductive.                                             *)
LEMMA AggInvInductive ==
  /\ AggInit => AggInv
  /\ AggInv /\ [AggNext]_aggVars => AggInv'
<1>1. ASSUME AggInit PROVE AggInv
  <2>1. ToSet(<< >>) = {} /\ << >> \in Seq(Entries)
    BY DEF ToSet
  <2>2. related = {} /\ IsFiniteSet({}) /\ aggOwed = {} /\ stored = << >> /\ part \in {"jobs", "groups"}
    BY <1>1, FS_EmptySet DEF AggInit
  <2>3. /\ entries \in [Prometheuses -> Seq(Entries)] /\ \A p \in Prometheuses : entries[p] = << >>
        /\ DOMAIN given = ScrapedApps
        /\ \A a \in ScrapedApps : given[a] \in [AppUnits[a] -> Values[a] \cup {None}]
    BY <1>1, <2>1 DEF AggInit
  <2>4. AggFits
    BY <2>1, <2>2, <2>3 DEF AggFits
  <2>5. EventsFit /\ StoredIsPublished /\ EntriesArePresent
    BY <2>1, <2>2 DEF EventsFit, StoredIsPublished, EntriesArePresent
  <2>6. ListsAreSound
    BY <2>1, <2>2, <2>3 DEF ListsAreSound, Sound
  <2> QED
    BY <2>4, <2>5, <2>6 DEF AggInv
<1>2. ASSUME AggInv, [AggNext]_aggVars PROVE AggInv'
  <2>1. ASSUME UNCHANGED aggVars PROVE AggInv'
    <3>1. /\ part' = part /\ given' = given /\ aggOwed' = aggOwed /\ related' = related
          /\ entries' = entries /\ stored' = stored
      BY <2>1 DEF aggVars
    <3> QED
      BY <1>2, <3>1 DEF AggInv, AggFits, EventsFit, StoredIsPublished, ListsAreSound, EntriesArePresent
  <2> QED
    BY <1>2, <2>1, GiveKeeps, DepartKeeps, PrometheusComesKeeps, SetPrometheusDataKeeps,
       TargetsChangedKeeps, TargetsDepartedKeeps DEF AggNext
<1> QED
  BY <1>1, <1>2

(* Once nothing is owed, what the units contribute is what is published.   *)
LEMMA AggInvImplies ==
  ASSUME AggInv
  PROVE  AggTypeOK /\ TargetsFollowUnits
<1>1. AggTypeOK
  <2>1. ASSUME NEW p \in Prometheuses, NEW i \in DOMAIN entries[p]
        PROVE  entries[p][i].name \in ScrapedApps /\ entries[p][i].of # {}
    <3>1. entries[p] \in Seq(Entries)
      BY DEF AggInv, AggFits
    <3>2. entries[p][i] \in ToSet(entries[p])
      BY DEF ToSet
    <3> QED
      BY <3>1, <3>2, EntryNames
  <2> QED
    BY <2>1 DEF AggInv, AggFits, AggTypeOK
<1>2. ASSUME aggOwed = {}, NEW p \in related
      PROVE  Live \subseteq Published(p) /\ \A t \in Published(p) : \E l \in Live : l[1] = t[1] /\ l[2] = t[2]
  <2>0. p \in Prometheuses /\ entries[p] \in Seq(Entries) /\ Sound(entries[p], given, aggOwed)
    BY DEF AggInv, AggFits, ListsAreSound
  <2>1. ASSUME NEW t \in Live PROVE t \in Published(p)
    <3>1. PICK a \in ScrapedApps : \E c \in Contributions(a) : t = <<a, c[1], c[2]>>
      BY DEF Live
    <3>2. PICK u \in AppUnits[a] : given[a][u] # None /\ t = <<a, u, given[a][u]>>
      BY <3>1 DEF Contributions
    <3>3. PICK x \in ToSet(entries[p]) : x.name = a
      BY <1>2, <3>2 DEF AggInv, EntriesArePresent
    <3>4. <<u, given[a][u]>> \in x.of
      BY <1>2, <2>0, <3>2, <3>3 DEF Sound
    <3>5. PICK i \in DOMAIN entries[p] : x = entries[p][i]
      BY DEF ToSet
    <3>6. t \in {<<entries[p][i].name, c[1], c[2]>> : c \in entries[p][i].of}
      BY <3>2, <3>3, <3>4, <3>5
    <3> QED
      BY <3>6 DEF Published
  <2>2. ASSUME NEW t \in Published(p) PROVE \E l \in Live : l[1] = t[1] /\ l[2] = t[2]
    <3>1. PICK i \in DOMAIN entries[p] : t \in {<<entries[p][i].name, c[1], c[2]>> : c \in entries[p][i].of}
      BY DEF Published
    <3> DEFINE x == entries[p][i]
    <3>2. PICK c \in x.of : t = <<x.name, c[1], c[2]>>
      BY <3>1
    <3>3. x \in ToSet(entries[p])
      BY DEF ToSet
    <3>4. x.name \in ScrapedApps
      BY <2>0, <3>3, EntryNames
    <3>5. c[1] \in AppUnits[x.name] /\ given[x.name][c[1]] # None
      BY <1>2, <2>0, <3>3 DEF Sound
    <3> DEFINE l == <<x.name, c[1], given[x.name][c[1]]>>
    <3>6. <<c[1], given[x.name][c[1]]>> \in Contributions(x.name)
      BY <3>5 DEF Contributions
    <3>7. l \in {<<x.name, d[1], d[2]>> : d \in Contributions(x.name)}
      BY <3>6
    <3>8. l \in Live
      BY <3>4, <3>7 DEF Live
    <3> QED
      BY <3>2, <3>8
  <2> QED
    BY <2>1, <2>2
<1> QED
  BY <1>1, <1>2 DEF TargetsFollowUnits, LiveTargetsPublished, DepartedTargetsRemoved

(* However many applications, units and Prometheuses there are, and        *)
(* whichever came first: once every event is handled, every Prometheus is  *)
(* told of what every unit that is there contributes, and of no unit that  *)
(* has left.                                                               *)
THEOREM PublishedFollows == AggSpec => [](TargetsFollowUnits /\ AggTypeOK)
<1>1. AggInv => TargetsFollowUnits /\ AggTypeOK
  BY AggInvImplies
<1> QED
  BY <1>1, AggInvInductive, PTL DEF AggSpec
=============================================================================
