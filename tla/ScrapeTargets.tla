---------------------------- MODULE ScrapeTargets ----------------------------
(***************************************************************************)
(* Metrics endpoints on their way to Prometheus: MetricsEndpointProvider   *)
(* of a charm, which keeps its jobs in the application databag and the     *)
(* address of each unit in its unit databag, and the jobs that             *)
(* MetricsEndpointConsumer makes of the databags of all its relations.     *)
(*                                                                         *)
(* Simplifications.                                                        *)
(*  - All relations are of one application, one for each of its endpoints: *)
(*    jobs of two applications never have the same name.                   *)
(*  - The units stay the same.  A hook is one step: it runs in the pod     *)
(*    whose address it publishes.                                          *)
(*  - The event that refreshes the address comes some time after the pod   *)
(*    was replaced: pebble-ready for a charm with one container,           *)
(*    update-status for kserve-llmisvc, which has two.                     *)
(*  - Of a job the name, the targets and whether promtool accepts it are   *)
(*    kept.  There is no external_url and every relation has metadata.     *)
(*  - The hash of a job is the job: no two jobs have the same, and nobody  *)
(*    names a job so that it ends in one.                                  *)
(***************************************************************************)
EXTENDS Naturals, Sequences, FiniteSets

CONSTANTS
  Endpoints,      \* the relations, one for each endpoint of the application
  ScrapedUnits,   \* the units of the application
  JobSpecs,       \* the lists of jobs the charm may pass, at one revision or another
  Lookaside,      \* the jobs of lookaside_jobs_callable
  Earlier,        \* how many relations each endpoint has before this one
  MaxPods         \* bound: how many pods a unit may have had

ASSUME ScrapeAssumption ==
  /\ ScrapedUnits # {} /\ "none" \notin ScrapedUnits
  /\ Earlier \in [Endpoints -> Nat]
  /\ MaxPods \in Nat \ {0}

VARIABLES
  pod,           \* the number of the pod of each unit, for its address
  scrapeLeader,  \* the leader
  scraped,       \* relation.units of each relation, on the side of Prometheus
  scrapeOwed,    \* the hooks each unit still has to run
  unitBag,       \* prometheus_scrape_unit_address by relation and unit, 0 if unset
  jobsBag        \* scrape_jobs of each relation, << >> if unset

scrapeVars == <<pod, scrapeLeader, scraped, scrapeOwed, unitBag, jobsBag>>

Hooks == {[kind |-> "joined", endpoint |-> e] : e \in Endpoints}
         \cup {[kind |-> "refresh", endpoint |-> "all"]}

ScrapeTypeOK ==
  /\ pod \in [ScrapedUnits -> 1..MaxPods] /\ scrapeLeader \in ScrapedUnits
  /\ scraped \in [Endpoints -> SUBSET ScrapedUnits]
  /\ scrapeOwed \in [ScrapedUnits -> SUBSET Hooks]
  /\ unitBag \in [Endpoints -> [ScrapedUnits -> 0..MaxPods]]
  /\ DOMAIN jobsBag = Endpoints

ScrapeInit ==
  /\ pod = [u \in ScrapedUnits |-> 1]
  /\ scrapeLeader = CHOOSE u \in ScrapedUnits : TRUE
  /\ scraped = [e \in Endpoints |-> {}]
  /\ scrapeOwed = [u \in ScrapedUnits |-> {}]
  /\ unitBag = [e \in Endpoints |-> [u \in ScrapedUnits |-> 0]]
  /\ jobsBag = [e \in Endpoints |-> << >>]

-----------------------------------------------------------------------------
(* Juju and Kubernetes                                                     *)

RelatePrometheus(e) ==
  /\ scraped[e] = {}
  /\ scraped' = [scraped EXCEPT ![e] = ScrapedUnits]
  /\ scrapeOwed' = [u \in ScrapedUnits |-> scrapeOwed[u] \cup {[kind |-> "joined", endpoint |-> e]}]
  /\ UNCHANGED <<pod, scrapeLeader, unitBag, jobsBag>>

RefreshHook == [kind |-> "refresh", endpoint |-> "all"]

ReplacePod(u) ==
  /\ pod[u] < MaxPods
  /\ pod' = [pod EXCEPT ![u] = @ + 1]
  /\ scrapeOwed' = [scrapeOwed EXCEPT ![u] = @ \cup {RefreshHook}]
  /\ UNCHANGED <<scrapeLeader, scraped, unitBag, jobsBag>>

ScrapeLeaderMoves(u) ==
  /\ u # scrapeLeader /\ scrapeLeader' = u
  /\ UNCHANGED <<pod, scraped, scrapeOwed, unitBag, jobsBag>>

-----------------------------------------------------------------------------
(* MetricsEndpointProvider                                                 *)

(* _scrape_jobs: what the callable adds for one relation is still in       *)
(* self._jobs when the next one is served, unless there were no jobs.      *)
Times(n, jobs) == [i \in 1..(n * Len(jobs)) |-> jobs[((i - 1) % Len(jobs)) + 1]]

DefaultJob == [name |-> << >>, configs |-> << >>, good |-> TRUE]

ScrapeJobs(jobs, e) ==
  LET all == IF jobs = << >> THEN Lookaside ELSE jobs \o Times(Earlier[e] + 1, Lookaside)
  IN IF all = << >> THEN <<DefaultJob>> ELSE all

(* A bug to catch: the address is published when Prometheus joins only.    *)
SetUnitIpOnce(u) ==
  unitBag' = [e \in Endpoints |->
    IF scraped[e] # {} /\ unitBag[e][u] = 0 THEN [unitBag[e] EXCEPT ![u] = pod[u]] ELSE unitBag[e]]

(* _set_unit_ip.                                                           *)
SetUnitIp(u) ==
  unitBag' = [e \in Endpoints |->
    IF scraped[e] # {} THEN [unitBag[e] EXCEPT ![u] = pod[u]] ELSE unitBag[e]]

(* set_scrape_job_spec, of the hooks relation-joined and refresh_event:    *)
(* every unit its address, the leader the jobs, in all relations at once.  *)
SetScrapeJobSpec(u, h) ==
  /\ h \in scrapeOwed[u]
  /\ scrapeOwed' = [scrapeOwed EXCEPT ![u] = @ \ {h}]
  /\ SetUnitIp(u)
  /\ IF u = scrapeLeader
     THEN \E jobs \in JobSpecs : jobsBag' = [e \in Endpoints |->
            IF scraped[e] # {} THEN ScrapeJobs(jobs, e) ELSE jobsBag[e]]
     ELSE UNCHANGED jobsBag
  /\ UNCHANGED <<pod, scrapeLeader, scraped>>

ScrapeNext ==
  \/ \E e \in Endpoints : RelatePrometheus(e)
  \/ \E u \in ScrapedUnits : \/ ReplacePod(u) \/ ScrapeLeaderMoves(u)
                             \/ \E h \in Hooks : SetScrapeJobSpec(u, h)

ScrapeSpec == ScrapeInit /\ [][ScrapeNext]_scrapeVars

-----------------------------------------------------------------------------
(* MetricsEndpointConsumer                                                 *)

(* sanitize_scrape_config: a job without static_configs gets the default.  *)
DefaultConfigs == << {[host |-> "*", port |-> 80]} >>
Sanitized(job) == IF job.configs = << >> THEN [job EXCEPT !.configs = DefaultConfigs] ELSE job

(* _relation_hosts: the units that have published an address.              *)
Hosts(e) == {u \in scraped[e] : unitBag[e][u] # 0}

IsWildcard(t) == t.host = "*"

(* The name of a job is that of its specification, with the unit, and the  *)
(* hashes put behind it.                                                   *)
ScrapeJob(text, hashes, good, targets) ==
  [name |-> [text |-> text, hashes |-> hashes], good |-> good, targets |-> targets]

(* expand_wildcard_targets_into_individual_jobs, for one job: the fixed    *)
(* targets of all its configs stay in one job, every config with wildcards *)
(* makes one for each unit, named after the job and the unit only.  An     *)
(* address is a unit and the pod it was published for.                     *)
Wild(job, c)  == {t \in job.configs[c] : IsWildcard(t)}
Fixed(job, c) == {t \in job.configs[c] : ~IsWildcard(t)}

JobOfUnit(e, job, c, u) ==
  ScrapeJob(Append(job.name, u), << >>, job.good,
            {[unit |-> u, host |-> <<u, unitBag[e][u]>>, port |-> t.port] : t \in Wild(job, c)})

JobOfFixed(job) ==
  ScrapeJob(job.name, << >>, job.good,
            {[unit |-> "none", host |-> <<t.host, 0>>, port |-> t.port] :
               t \in UNION {Fixed(job, c) : c \in DOMAIN job.configs}})

(* Each occurrence in the list of jobs is told apart by its place.         *)
Expanded(e, place, job) ==
  {<< <<place, c, u>>, JobOfUnit(e, job, c, u) >> :
     c \in {d \in DOMAIN job.configs : Wild(job, d) # {}}, u \in Hosts(e)}
  \cup
  {<< <<place, 0, "none">>, JobOfFixed(job) >> : x \in {c \in DOMAIN job.configs : Fixed(job, c) # {}}}

(* _static_scrape_config; the prefix of the names is left out.             *)
StaticScrapeConfig(e) ==
  IF scraped[e] = {} THEN {}
  ELSE UNION {Expanded(e, i, Sanitized(jobsBag[e][i])) : i \in DOMAIN jobsBag[e]}

(* _dedupe_job_names: a name that occurs more than once is extended by the *)
(* hash of the job; jobs equal then are kept once.                         *)
Hashed(job) == ScrapeJob(job.name.text, Append(job.name.hashes, job), job.good, job.targets)

DedupeJobNames(occurrences) ==
  {IF \E p \in occurrences : p[1] # o[1] /\ p[2].name = o[2].name
   THEN Hashed(o[2]) ELSE o[2] : o \in occurrences}

(* jobs: the jobs of a relation are all refused when one is not valid, and *)
(* what is left of all relations is deduplicated again.                    *)
Valid(e) == \A j \in DedupeJobNames(StaticScrapeConfig(e)) : j.good

PrometheusJobs ==
  DedupeJobNames(UNION {{<<e, j>> : j \in DedupeJobNames(StaticScrapeConfig(e))} :
                          e \in {f \in Endpoints : Valid(f)}})

-----------------------------------------------------------------------------
(* Properties                                                              *)

JobNamesDiffer == \A i, j \in PrometheusJobs : i.name = j.name => i = j

Scraped(u, host, t) == \E j \in PrometheusJobs : [unit |-> u, host |-> host, port |-> t.port] \in j.targets

(* Whatever jobs the charms publish, Prometheus gets a configuration it    *)
(* accepts, with a name of its own for every job, and no target is lost on *)
(* the way, whatever names and duplicates the jobs come with: every fixed  *)
(* target of every valid list, and for every wildcard each unit, at the    *)
(* address of the pod it has now if it has run its hooks.                  *)
EveryTargetScraped ==
  /\ JobNamesDiffer
  /\ \A e \in {f \in Endpoints : scraped[f] # {} /\ Valid(f)} : \A i \in DOMAIN jobsBag[e] :
       LET configs == Sanitized(jobsBag[e][i]).configs IN
       \A c \in DOMAIN configs : \A t \in configs[c] :
         IF IsWildcard(t)
         THEN \A u \in {v \in scraped[e] : scrapeOwed[v] = {}} : Scraped(u, <<u, pod[u]>>, t)
         ELSE Scraped("none", <<t.host, 0>>, t)
=============================================================================
