--------------------------- MODULE LogMeshProofs ----------------------------
(***************************************************************************)
(* LogsFollowLoki, PromtailFollows, LabelsFollowMesh and                   *)
(* AuthorizesRelated, for any constants.                                   *)
(***************************************************************************)
EXTENDS LogForwarding, LogProxy, MeshMembership, MeshPolicies, TLAPS

(* LogsFollowLoki. As long as Juju owes the charm a relation event, what   *)
(* the charm knows may be of the past (Stale). As soon as it owes none,    *)
(* the last hook that began has read what is published now; a container    *)
(* that differs has that hook still before it, or owes a pebble-ready.     *)

Stale == dirty # {} \/ members \ alive # {}

(* The hook is still to visit c, or fails on the way and is run again.     *)
Awaits(c) == \/ hook = "running" /\ c \in todo
             \/ hook = "failed" /\ event \in {"relation", c}

(* Types that need saying; what a hook is about.                           *)
LogTyped ==
  /\ DOMAIN plan = Containers
  /\ endpoint \in [Units -> Urls \cup {"unset"}]
  /\ alive \subseteq Units /\ members \subseteq Units /\ dirty \subseteq members \cap alive
  /\ hook \in {"idle", "running", "failed"} /\ todo \subseteq Containers
  /\ hook # "idle" => event = "relation" \/ (event \in Containers /\ todo \subseteq {event})

TargetsCurrent == hook = "running" /\ ~Stale => targets = Retrieve(members)

RenderedCurrent == ~Stale => rendered = LokiUrl(members)

PlansCurrent ==
  \A c \in Containers :
    c \in reach \ readyDue /\ ~Stale /\ ~Awaits(c) /\ DOMAIN Retrieve(members) # {} =>
      Forwarding(c) = Retrieve(members)

LogInv == LogTyped /\ TargetsCurrent /\ RenderedCurrent /\ PlansCurrent

-----------------------------------------------------------------------------
LEMMA LogInitHolds == LogInit => LogInv
<1> SUFFICES ASSUME LogInit PROVE LogInv
  OBVIOUS
<1>1. LogTyped
  BY DEF LogInit, LogTyped
<1>2. hook = "idle" /\ readyDue = Containers /\ members = {} /\ rendered = "nobody"
  BY DEF LogInit
<1>3. LokiUrl(members) = "nobody"
  BY <1>2 DEF LokiUrl
<1> QED
  BY <1>1, <1>2, <1>3 DEF LogInv, TargetsCurrent, RenderedCurrent, PlansCurrent

(* The units LokiUrl takes one of.                                         *)
PublishedBy(ms) == {u \in ms : endpoint[u] \in Urls}
One(us) == IF us = {} THEN "nobody" ELSE CHOOSE u \in us : TRUE

(* What is read from relation data depends on the members alone.           *)
LEMMA SameData ==
  ASSUME members' = members, \A u \in members : endpoint'[u] = endpoint[u]
  PROVE  Retrieve(members)' = Retrieve(members) /\ LokiUrl(members)' = LokiUrl(members)
<1>1. \A a : IsReady(a, members)' <=> IsReady(a, members)
  BY DEF IsReady
<1>2. {m \in members : IsReady(AppOf[m], members)}' = {m \in members : IsReady(AppOf[m], members)}
  BY <1>1
<1>3. Retrieve(members)' = Retrieve(members)
  BY <1>2 DEF Retrieve
<1>4. PublishedBy(members)' = PublishedBy(members)
  BY DEF PublishedBy, Urls
<1>5. LokiUrl(members)' = LokiUrl(members)
  <2>1. LokiUrl(members) = One(PublishedBy(members))
    BY DEF LokiUrl, PublishedBy, One
  <2>2. LokiUrl(members)' = One(PublishedBy(members)')
    BY DEF LokiUrl, PublishedBy, One
  <2> QED
    BY <1>4, <2>1, <2>2
<1> QED
  BY <1>3, <1>5

(* Loki units tell by an event whatever may matter.                        *)
LEMMA LokiKeeps ==
  ASSUME LogInv,
         \E u \in Units : LokiArrives(u) \/ LokiLeaves(u) \/ ProviderChanged(u) \/ IngressReady(u)
  PROVE  LogInv'
<1>1. /\ members' = members /\ ending' = ending /\ rendered' = rendered
      /\ reach' = reach /\ readyDue' = readyDue /\ plan' = plan
      /\ hook' = hook /\ event' = event /\ targets' = targets /\ todo' = todo
  BY DEF LokiArrives, LokiLeaves, ProviderChanged, IngressReady, Publish, jujuVars, podVars, hookVars
<1>2. LogTyped'
  <2>1. endpoint' \in [Units -> Urls \cup {"unset"}]
    BY DEF LogInv, LogTyped, LokiArrives, LokiLeaves, ProviderChanged, IngressReady, Publish, Urls
  <2>2. alive' \subseteq Units /\ dirty' \subseteq members \cap alive'
    BY DEF LogInv, LogTyped, LokiArrives, LokiLeaves, ProviderChanged, IngressReady, Publish, jujuVars
  <2> QED
    BY <1>1, <2>1, <2>2 DEF LogInv, LogTyped
<1>3. Stale => Stale'
  BY DEF Stale, LogInv, LogTyped, LokiArrives, LokiLeaves, ProviderChanged, IngressReady, Publish, jujuVars
<1>4. ~Stale' => \A v \in members : endpoint'[v] = endpoint[v]
  <2>1. ASSUME NEW u \in Units, LokiArrives(u), NEW v \in members PROVE endpoint'[v] = endpoint[v]
    BY <2>1 DEF LokiArrives, LogInv, LogTyped
  <2>2. ASSUME NEW u \in Units, LokiLeaves(u), NEW v \in members PROVE endpoint'[v] = endpoint[v]
    BY <2>2 DEF LokiLeaves
  <2>3. ASSUME NEW u \in Units, NEW url, Publish(u, url), ~Stale', NEW v \in members
        PROVE  endpoint'[v] = endpoint[v]
    BY <2>3 DEF Publish, Stale, LogInv, LogTyped
  <2> QED
    BY <2>1, <2>2, <2>3 DEF ProviderChanged, IngressReady
<1>5. CASE Stale'
  BY <1>2, <1>5 DEF LogInv, TargetsCurrent, RenderedCurrent, PlansCurrent
<1>6. CASE ~Stale'
  <2>1. Retrieve(members)' = Retrieve(members) /\ LokiUrl(members)' = LokiUrl(members)
    BY <1>1, <1>4, <1>6, SameData
  <2>2. \A c \in Containers : Forwarding(c)' = Forwarding(c) /\ (Awaits(c)' <=> Awaits(c))
    BY <1>1 DEF Forwarding, Awaits
  <2>3. TargetsCurrent' /\ RenderedCurrent'
    BY <1>1, <1>3, <1>6, <2>1 DEF LogInv, TargetsCurrent, RenderedCurrent
  <2>4. PlansCurrent'
    BY <1>1, <1>3, <1>6, <2>1, <2>2 DEF LogInv, PlansCurrent
  <2> QED
    BY <1>2, <2>3, <2>4 DEF LogInv
<1> QED
  BY <1>5, <1>6

(* A container that stops or starts owes a pebble-ready.                   *)
LEMMA ContainerKeeps ==
  ASSUME LogInv, NEW c \in Containers, ContainerStops(c) \/ ContainerStarts(c) PROVE LogInv'
<1>1. /\ members' = members /\ endpoint' = endpoint /\ rendered' = rendered
      /\ alive' = alive /\ dirty' = dirty
      /\ hook' = hook /\ event' = event /\ targets' = targets /\ todo' = todo
  BY DEF ContainerStops, ContainerStarts, lokiVars, jujuVars, hookVars
<1>2. LogTyped'
  BY <1>1 DEF LogInv, LogTyped, ContainerStops, ContainerStarts
<1>3. Retrieve(members)' = Retrieve(members) /\ LokiUrl(members)' = LokiUrl(members)
  BY <1>1, SameData
<1>4. TargetsCurrent' /\ RenderedCurrent'
  BY <1>1, <1>3 DEF LogInv, TargetsCurrent, RenderedCurrent, Stale
<1>5. \A d \in Containers : d \in reach' \ readyDue' =>
        /\ d \in reach \ readyDue /\ plan'[d] = plan[d]
  BY DEF ContainerStops, ContainerStarts, LogInv, LogTyped
<1>6. \A d \in Containers : plan'[d] = plan[d] => Forwarding(d)' = Forwarding(d)
  BY DEF Forwarding
<1>7. PlansCurrent'
  BY <1>1, <1>3, <1>5, <1>6 DEF LogInv, PlansCurrent, Stale, Awaits
<1> QED
  BY <1>2, <1>4, <1>7 DEF LogInv

-----------------------------------------------------------------------------
(* A hook that begins has read what is published.                          *)
LEMMA BeginReads ==
  ASSUME LogInv, NEW e, NEW ms \in SUBSET Units, NEW cs \in SUBSET Containers, Begin(e, ms, cs),
         endpoint' = endpoint, alive' = alive, plan' = plan, dirty' \subseteq ms \cap alive,
         e = "relation" \/ (e \in Containers /\ cs \subseteq {e})
  PROVE  LogTyped' /\ TargetsCurrent' /\ RenderedCurrent'
<1>1. Retrieve(members)' = Retrieve(ms) /\ LokiUrl(members)' = LokiUrl(ms)
  BY DEF Begin, Retrieve, LokiUrl, IsReady
<1>2. members' = ms /\ rendered' = LokiUrl(ms)
  BY DEF Begin
<1>3. \/ hook' = "idle" /\ todo' = {} /\ event' = "none"
      \/ hook' = "running" /\ targets' = Retrieve(ms) /\ todo' = cs /\ event' = e
  BY DEF Begin
<1>4. LogTyped'
  BY <1>2, <1>3 DEF LogInv, LogTyped
<1> QED
  BY <1>1, <1>2, <1>3, <1>4 DEF TargetsCurrent, RenderedCurrent

(* One that visits all containers leaves none that is not seen to.         *)
LEMMA BeginRelationKeeps ==
  ASSUME LogInv, NEW ms \in SUBSET Units, Begin("relation", ms, Containers),
         endpoint' = endpoint, alive' = alive, plan' = plan, dirty' \subseteq ms \cap alive
  PROVE  LogInv'
<1>1. LogTyped' /\ TargetsCurrent' /\ RenderedCurrent'
  BY BeginReads
<1>2. Retrieve(members)' = Retrieve(ms)
  BY DEF Begin, Retrieve, IsReady
<1>3. DOMAIN Retrieve(ms) = {} \/ \A c \in Containers : Awaits(c)'
  BY DEF Begin, Awaits
<1>4. PlansCurrent'
  BY <1>2, <1>3 DEF PlansCurrent
<1> QED
  BY <1>1, <1>4 DEF LogInv

(* One that visits a single container, with the others as they should be.  *)
LEMMA BeginContainerKeeps ==
  ASSUME LogInv, NEW c \in Containers, Begin(c, members, {c}),
         endpoint' = endpoint, alive' = alive, plan' = plan, dirty' = dirty, reach' = reach,
         readyDue' \in {readyDue, readyDue \ {c}},
         \A d \in Containers \ {c} : ~Awaits(d)
  PROVE  LogInv'
<1>1. LogTyped' /\ TargetsCurrent' /\ RenderedCurrent'
  BY BeginReads DEF LogInv, LogTyped
<1>2. members' = members /\ Retrieve(members)' = Retrieve(members)
  BY SameData DEF Begin
<1>3. DOMAIN Retrieve(members) = {} \/ Awaits(c)'
  BY DEF Begin, Awaits
<1>4. \A d \in Containers : Forwarding(d)' = Forwarding(d)
  BY DEF Forwarding
<1>5. PlansCurrent'
  <2> SUFFICES ASSUME NEW d \in Containers, d \in reach' \ readyDue', ~Stale', ~Awaits(d)',
                      DOMAIN Retrieve(members) # {}
               PROVE  Forwarding(d) = Retrieve(members)
    BY <1>2, <1>4 DEF PlansCurrent
  <2>1. d # c
    BY <1>3
  <2>2. d \in reach \ readyDue /\ ~Awaits(d) /\ ~Stale
    BY <1>2, <2>1 DEF Stale
  <2> QED
    BY <2>2 DEF LogInv, PlansCurrent
<1> QED
  BY <1>1, <1>5 DEF LogInv

LEMMA RelationHookKeeps ==
  ASSUME LogInv, \/ \E u \in Units : Joined(u) \/ Changed(u) \/ Departed(u)
                 \/ \E a \in Apps : Broken(a)
  PROVE  LogInv'
<1>1. ASSUME NEW u \in Units, Joined(u) PROVE LogInv'
  BY <1>1, BeginRelationKeeps DEF Joined, lokiVars, podVars, LogInv, LogTyped
<1>2. ASSUME NEW u \in Units, Changed(u) PROVE LogInv'
  BY <1>2, BeginRelationKeeps DEF Changed, lokiVars, podVars, LogInv, LogTyped
<1>3. ASSUME NEW u \in Units, Departed(u) PROVE LogInv'
  BY <1>3, BeginRelationKeeps DEF Departed, lokiVars, podVars, LogInv, LogTyped
<1>4. ASSUME NEW a \in Apps, Broken(a) PROVE LogInv'
  BY <1>4, BeginRelationKeeps DEF Broken, lokiVars, podVars, LogInv, LogTyped
<1> QED
  BY <1>1, <1>2, <1>3, <1>4

LEMMA PebbleReadyKeeps ==
  ASSUME LogInv, NEW c \in Containers, PebbleReady(c) PROVE LogInv'
<1>1. \A d \in Containers : ~Awaits(d)
  BY DEF PebbleReady, Awaits
<1> QED
  BY <1>1, BeginContainerKeeps DEF PebbleReady, lokiVars

LEMMA RunAgainKeeps == ASSUME LogInv, RunAgain PROVE LogInv'
<1>1. /\ hook = "failed" /\ Begin(event, members, IF event = "relation" THEN Containers ELSE {event})
      /\ endpoint' = endpoint /\ alive' = alive /\ plan' = plan /\ dirty' = dirty /\ reach' = reach
      /\ readyDue' = readyDue
  BY DEF RunAgain, lokiVars, podVars
<1>2. members \in SUBSET Units /\ dirty \subseteq members \cap alive
  BY DEF LogInv, LogTyped
<1>3. CASE event = "relation"
  <2>1. Begin("relation", members, Containers)
    BY <1>1, <1>3
  <2> QED
    BY <1>1, <1>2, <2>1, BeginRelationKeeps
<1>4. CASE event # "relation"
  <2>1. event \in Containers /\ Begin(event, members, {event})
    BY <1>1, <1>4 DEF LogInv, LogTyped
  <2>2. \A d \in Containers \ {event} : ~Awaits(d)
    BY <1>1, <1>4 DEF Awaits
  <2> QED
    BY <1>1, <2>1, <2>2, BeginContainerKeeps
<1> QED
  BY <1>3, <1>4

-----------------------------------------------------------------------------
(* Inside a hook: what it knows, and what is published, stays.             *)
LEMMA LogHookKeeps ==
  ASSUME LogInv, UNCHANGED <<members, endpoint, alive, dirty, rendered, reach, readyDue>>,
         LogTyped', hook' = "running" => hook = "running" /\ targets' = targets,
         \A c \in Containers : ~Awaits(c)' /\ c \in reach =>
           \/ ~Awaits(c) /\ plan'[c] = plan[c]
           \/ ~Stale /\ DOMAIN Retrieve(members) # {} => Forwarding(c)' = Retrieve(members)
  PROVE  LogInv'
<1>1. Retrieve(members)' = Retrieve(members) /\ LokiUrl(members)' = LokiUrl(members)
  BY SameData
<1>2. TargetsCurrent' /\ RenderedCurrent'
  BY <1>1 DEF LogInv, TargetsCurrent, RenderedCurrent, Stale
<1>3. PlansCurrent'
  <2> SUFFICES ASSUME NEW c \in Containers, c \in reach \ readyDue, ~Stale, ~Awaits(c)',
                      DOMAIN Retrieve(members) # {}
               PROVE  Forwarding(c)' = Retrieve(members)
    BY <1>1 DEF PlansCurrent, Stale
  <2>1. CASE ~Awaits(c) /\ plan'[c] = plan[c]
    <3>1. Forwarding(c)' = Forwarding(c)
      BY <2>1 DEF Forwarding
    <3> QED
      BY <2>1, <3>1 DEF LogInv, PlansCurrent
  <2> QED
    BY <2>1
<1> QED
  BY <1>2, <1>3 DEF LogInv

(* A visit leaves on exactly the targets of the hook.                      *)
LEMMA UpdateForwards ==
  ASSUME LogInv, NEW c \in Containers, UpdateEndpoints(c), ~Stale
  PROVE  Forwarding(c)' = Retrieve(members)
<1>1. targets = Retrieve(members)
  BY DEF LogInv, TargetsCurrent, UpdateEndpoints
<1>2. /\ DOMAIN targets \subseteq Units
      /\ \A u \in DOMAIN targets : targets[u] = endpoint[u] /\ endpoint[u] \in Urls
  BY <1>1 DEF LogInv, LogTyped, Retrieve, IsReady
<1>3. plan'[c] = EnableEndpoints(DisableInactive(plan[c], targets), targets)
  BY DEF UpdateEndpoints, LogInv, LogTyped
<1>4. \A u \in Units : /\ u \in DOMAIN targets => plan'[c][u] = endpoint[u]
                       /\ u \notin DOMAIN targets => plan'[c][u] \notin Urls
  <2> DEFINE off == DisableInactive(plan[c], targets)
  <2>1. \A u \in Units : plan'[c][u] = IF u \in DOMAIN targets THEN targets[u] ELSE off[u]
    BY <1>3 DEF EnableEndpoints
  <2>2. \A u \in Units : u \notin DOMAIN targets => off[u] \notin Urls
    BY DEF DisableInactive, Urls
  <2> HIDE DEF off
  <2> QED
    BY <1>2, <2>1, <2>2
<1>5. {v \in Units : plan'[c][v] \in Urls} = DOMAIN targets
  BY <1>2, <1>4
<1>6. Forwarding(c)' = [u \in DOMAIN targets |-> plan'[c][u]]
  BY <1>5 DEF Forwarding, Urls
<1>7. Retrieve(members) = [u \in DOMAIN targets |-> endpoint[u]]
  BY <1>1 DEF Retrieve
<1> QED
  BY <1>2, <1>4, <1>6, <1>7

LEMMA UpdateEndpointsKeeps ==
  ASSUME LogInv, NEW c \in Containers, UpdateEndpoints(c) PROVE LogInv'
<1>1. /\ UNCHANGED <<members, endpoint, alive, dirty, rendered, reach, readyDue>>
      /\ hook' = hook /\ event' = event /\ targets' = targets
      /\ todo' = todo \ {c} /\ hook = "running"
      /\ plan' = [plan EXCEPT ![c] = EnableEndpoints(DisableInactive(plan[c], targets), targets)]
  BY DEF UpdateEndpoints, lokiVars, jujuVars
<1>2. LogTyped'
  BY <1>1 DEF LogInv, LogTyped
<1>3. ~Stale => Forwarding(c)' = Retrieve(members)
  BY UpdateForwards
<1>4. \A d \in Containers \ {c} : plan'[d] = plan[d] /\ (Awaits(d)' <=> Awaits(d))
  BY <1>1 DEF Awaits, LogInv, LogTyped
<1> QED
  BY <1>1, <1>2, <1>3, <1>4, LogHookKeeps

LEMMA SkipContainerKeeps ==
  ASSUME LogInv, NEW c \in Containers, SkipContainer(c) PROVE LogInv'
<1>1. /\ UNCHANGED <<members, endpoint, alive, dirty, rendered, reach, readyDue>>
      /\ hook' = hook /\ event' = event /\ targets' = targets /\ plan' = plan
      /\ todo' = todo \ {c} /\ c \notin reach
  BY DEF SkipContainer, lokiVars, jujuVars, podVars
<1>2. LogTyped'
  BY <1>1 DEF LogInv, LogTyped
<1>3. \A d \in Containers : d # c => (Awaits(d)' <=> Awaits(d))
  BY <1>1 DEF Awaits
<1> QED
  BY <1>1, <1>2, <1>3, LogHookKeeps

LEMMA HookFailsKeeps ==
  ASSUME LogInv, NEW c \in Containers, HookFails(c) PROVE LogInv'
<1>1. /\ UNCHANGED <<members, endpoint, alive, dirty, rendered, reach, readyDue>>
      /\ hook = "running" /\ hook' = "failed" /\ event' = event /\ targets' = targets
      /\ plan' = plan /\ todo' = todo
  BY DEF HookFails, lokiVars, jujuVars, podVars
<1>2. LogTyped'
  BY <1>1 DEF LogInv, LogTyped
<1>3. \A d \in Containers : Awaits(d) => Awaits(d)'
  BY <1>1 DEF Awaits, LogInv, LogTyped
<1> QED
  BY <1>1, <1>2, <1>3, LogHookKeeps

LEMMA FinishHookKeeps == ASSUME LogInv, FinishHook PROVE LogInv'
<1>1. /\ UNCHANGED <<members, endpoint, alive, dirty, rendered, reach, readyDue>>
      /\ hook = "running" /\ hook' = "idle" /\ plan' = plan /\ todo' = todo /\ todo = {}
  BY DEF FinishHook, lokiVars, jujuVars, podVars
<1>2. LogTyped'
  BY <1>1 DEF LogInv, LogTyped
<1>3. \A d \in Containers : ~Awaits(d)
  BY <1>1 DEF Awaits
<1> QED
  BY <1>1, <1>2, <1>3, LogHookKeeps

LEMMA LogStutterKeeps == ASSUME LogInv, UNCHANGED logVars PROVE LogInv'
<1>1. /\ UNCHANGED <<members, endpoint, alive, dirty, rendered, reach, readyDue>>
      /\ hook' = hook /\ event' = event /\ targets' = targets /\ plan' = plan /\ todo' = todo
  BY DEF logVars, lokiVars, jujuVars, podVars, hookVars
<1>2. LogTyped'
  BY <1>1 DEF LogInv, LogTyped
<1>3. \A d \in Containers : Awaits(d)' <=> Awaits(d)
  BY <1>1 DEF Awaits
<1> QED
  BY <1>1, <1>2, <1>3, LogHookKeeps

-----------------------------------------------------------------------------
(* The invariant is inductive.                                             *)
THEOREM ForwardingInvariant == LogSpec => []LogInv
<1>1. LogInv /\ [LogNext]_logVars => LogInv'
  <2> SUFFICES ASSUME LogInv, [LogNext]_logVars PROVE LogInv'
    OBVIOUS
  <2>1. CASE LogHook
    BY <2>1, RelationHookKeeps, PebbleReadyKeeps, UpdateEndpointsKeeps, SkipContainerKeeps,
       HookFailsKeeps, RunAgainKeeps, FinishHookKeeps DEF LogHook
  <2>2. CASE LogWorld \/ LogDisturb
    BY <2>2, LokiKeeps, ContainerKeeps DEF LogWorld, LogDisturb
  <2>3. CASE UNCHANGED logVars
    BY <2>3, LogStutterKeeps
  <2> QED
    BY <2>1, <2>2, <2>3 DEF LogNext
<1> QED
  BY <1>1, LogInitHolds, PTL DEF LogSpec

(* Once Juju owes the charm no event, logs go to exactly the endpoints of  *)
(* the ready relations, and what is rendered names a Loki that is there,   *)
(* whatever came, moved, left, restarted and failed before.                *)
THEOREM LogsAlwaysFollowLoki == LogSpec => []LogsFollowLoki
<1>1. LogInv => ForwardsToActive
  BY DEF LogInv, PlansCurrent, ForwardsToActive, Quiet, Stale, Awaits
<1>2. LogInv => RendersLiveLoki
  <2> SUFFICES ASSUME LogInv, members = alive, dirty = {}
               PROVE  /\ rendered = "nobody" <=> \A u \in alive : endpoint[u] = "unset"
                      /\ rendered # "nobody" => rendered \in alive
    BY DEF RendersLiveLoki
  <2>1. rendered = One(PublishedBy(alive))
    BY DEF LogInv, RenderedCurrent, Stale, LokiUrl, PublishedBy, One
  <2>2. PublishedBy(alive) \subseteq alive /\ alive \subseteq Units
    BY DEF PublishedBy, LogInv, LogTyped
  <2>3. PublishedBy(alive) = {} <=> \A u \in alive : endpoint[u] = "unset"
    BY <2>2 DEF PublishedBy, LogInv, LogTyped, Urls
  <2>4. CASE PublishedBy(alive) = {}
    BY <2>1, <2>3, <2>4 DEF One
  <2>5. CASE PublishedBy(alive) # {}
    <3>1. rendered \in PublishedBy(alive)
      BY <2>1, <2>5 DEF One
    <3> QED
      BY <2>2, <2>3, <2>5, <3>1, LogAssumption
  <2> QED
    BY <2>4, <2>5
<1>3. LogInv => LogsFollowLoki
  BY <1>1, <1>2 DEF LogsFollowLoki
<1> QED
  BY <1>3, ForwardingInvariant, PTL

(* What is retrieved is published, and of the Loki units there are.        *)
LEMMA RetrievedTyped ==
  ASSUME NEW ms \in SUBSET Units
  PROVE  DOMAIN Retrieve(ms) \subseteq Units /\ \A u \in DOMAIN Retrieve(ms) : Retrieve(ms)[u] \in Urls
BY DEF Retrieve, IsReady

(* What is rendered is of a Loki unit, or of nobody.                       *)
LEMMA LokiUrlTyped ==
  ASSUME NEW ms \in SUBSET Units
  PROVE  LokiUrl(ms) \in Units \cup {"nobody"}
<1> DEFINE us == {u \in ms : endpoint[u] \in Urls}
<1>1. us # {} => (CHOOSE u \in us : TRUE) \in us
  OBVIOUS
<1> QED
  BY <1>1 DEF LokiUrl

(* However a hook begins, its variables have their types.                  *)
LEMMA BeginTyped ==
  ASSUME LogTypeOK, NEW e \in {"relation"} \cup Containers, NEW ms \in SUBSET Units,
         NEW cs \in SUBSET Containers, Begin(e, ms, cs)
  PROVE  /\ members' \subseteq Units /\ rendered' \in Units \cup {"nobody"}
         /\ hook' \in {"idle", "running", "failed"}
         /\ event' \in {"none", "relation"} \cup Containers /\ todo' \subseteq Containers
         /\ DOMAIN targets' \subseteq Units /\ \A u \in DOMAIN targets' : targets'[u] \in Urls
<1>1. members' = ms /\ rendered' = LokiUrl(ms)
  BY DEF Begin
<1>2. CASE DOMAIN Retrieve(ms) = {}
  <2>1. hook' = "idle" /\ event' = "none" /\ targets' = Nothing /\ todo' = {}
    BY <1>2 DEF Begin
  <2>2. DOMAIN Nothing = {}
    BY DEF Nothing
  <2> QED
    BY <1>1, <2>1, <2>2, LokiUrlTyped
<1>3. CASE DOMAIN Retrieve(ms) # {}
  <2>1. hook' = "running" /\ event' = e /\ targets' = Retrieve(ms) /\ todo' = cs
    BY <1>3 DEF Begin
  <2> QED
    BY <1>1, <2>1, LokiUrlTyped, RetrievedTyped
<1> QED
  BY <1>2, <1>3

(* LogTypeOK, for any constants: the forwarding invariant is needed for    *)
(* the event of a hook that is run again.                                  *)
THEOREM LogStaysTyped == LogSpec => []LogTypeOK
<1>1. LogInit => LogTypeOK
  <2> SUFFICES ASSUME LogInit PROVE LogTypeOK
    OBVIOUS
  <2>1. DOMAIN Nothing = {}
    BY DEF Nothing
  <2> QED
    BY <2>1 DEF LogInit, LogTypeOK
<1>2. LogInv /\ LogTypeOK /\ [LogNext]_logVars => LogTypeOK'
  <2> SUFFICES ASSUME LogInv, LogTypeOK, [LogNext]_logVars PROVE LogTypeOK'
    OBVIOUS
  <2> USE LogAssumption
  <2>1. ASSUME NEW u \in Units, Joined(u) \/ Changed(u) \/ Departed(u) PROVE LogTypeOK'
    <3>1. CASE Joined(u)
      <4>1. Begin("relation", members \cup {u}, Containers)
        BY <3>1 DEF Joined
      <4>2. members \cup {u} \in SUBSET Units
        BY DEF LogTypeOK
      <4> QED
        BY <3>1, <4>1, <4>2, BeginTyped DEF Joined, LogTypeOK, lokiVars, podVars
    <3>2. CASE Changed(u)
      <4>1. Begin("relation", members, Containers)
        BY <3>2 DEF Changed
      <4>2. members \in SUBSET Units
        BY DEF LogTypeOK
      <4> QED
        BY <3>2, <4>1, <4>2, BeginTyped DEF Changed, LogTypeOK, lokiVars, podVars
    <3>3. CASE Departed(u)
      <4>1. Begin("relation", members \ {u}, Containers)
        BY <3>3 DEF Departed
      <4>2. members \ {u} \in SUBSET Units
        BY DEF LogTypeOK
      <4>3. ending' \subseteq Apps
        BY <3>3 DEF Departed, LogTypeOK, Apps
      <4> QED
        BY <3>3, <4>1, <4>2, <4>3, BeginTyped DEF Departed, LogTypeOK, lokiVars, podVars
    <3> QED
      BY <2>1, <3>1, <3>2, <3>3
  <2>2. ASSUME NEW a \in Apps, Broken(a) PROVE LogTypeOK'
    <3>1. Begin("relation", members, Containers)
      BY <2>2 DEF Broken
    <3>2. members \in SUBSET Units
      BY DEF LogTypeOK
    <3> QED
      BY <2>2, <3>1, <3>2, BeginTyped DEF Broken, LogTypeOK, lokiVars, podVars
  <2>3. ASSUME NEW c \in Containers, PebbleReady(c) PROVE LogTypeOK'
    <3>1. Begin(c, members, {c})
      BY <2>3 DEF PebbleReady
    <3>2. members \in SUBSET Units /\ {c} \in SUBSET Containers
      BY DEF LogTypeOK
    <3> QED
      BY <2>3, <3>1, <3>2, BeginTyped DEF PebbleReady, LogTypeOK, lokiVars
  <2>4. ASSUME NEW c \in Containers, UpdateEndpoints(c) PROVE LogTypeOK'
    <3> DEFINE p == EnableEndpoints(DisableInactive(plan[c], targets), targets)
    <3>1. plan[c] \in [Units -> Urls \cup {"none", "off"}]
      BY DEF LogTypeOK
    <3>2. p \in [Units -> Urls \cup {"none", "off"}]
      BY <3>1 DEF EnableEndpoints, DisableInactive, LogTypeOK
    <3>3. plan' = [plan EXCEPT ![c] = p]
      BY <2>4 DEF UpdateEndpoints
    <3> HIDE DEF p
    <3>4. plan' \in [Containers -> [Units -> Urls \cup {"none", "off"}]]
      BY <3>2, <3>3 DEF LogTypeOK
    <3> QED
      BY <2>4, <3>4 DEF UpdateEndpoints, LogTypeOK, lokiVars, jujuVars
  <2>5. ASSUME NEW c \in Containers, SkipContainer(c) \/ HookFails(c) PROVE LogTypeOK'
    BY <2>5 DEF SkipContainer, HookFails, LogTypeOK, lokiVars, jujuVars, podVars
  <2>6. ASSUME RunAgain PROVE LogTypeOK'
    <3> DEFINE cs == IF event = "relation" THEN Containers ELSE {event}
    <3>1. event \in {"relation"} \cup Containers
      BY <2>6 DEF RunAgain, LogInv, LogTyped
    <3>2. Begin(event, members, cs) /\ cs \in SUBSET Containers /\ members \in SUBSET Units
      BY <2>6, <3>1 DEF RunAgain, LogTypeOK
    <3> HIDE DEF cs
    <3> QED
      BY <2>6, <3>1, <3>2, BeginTyped DEF RunAgain, LogTypeOK, lokiVars, podVars
  <2>7. ASSUME FinishHook PROVE LogTypeOK'
    <3>1. DOMAIN Nothing = {}
      BY DEF Nothing
    <3> QED
      BY <2>7, <3>1 DEF FinishHook, LogTypeOK, lokiVars, jujuVars, podVars
  <2>8. ASSUME NEW u \in Units, ProviderChanged(u) \/ IngressReady(u) PROVE LogTypeOK'
    BY <2>8 DEF ProviderChanged, IngressReady, Publish, LogTypeOK, podVars, hookVars, Urls
  <2>9. ASSUME NEW u \in Units, LokiArrives(u) \/ LokiLeaves(u) PROVE LogTypeOK'
    BY <2>9 DEF LokiArrives, LokiLeaves, LogTypeOK, jujuVars, podVars, hookVars
  <2>10. ASSUME NEW c \in Containers, ContainerStarts(c) \/ ContainerStops(c) PROVE LogTypeOK'
    BY <2>10 DEF ContainerStarts, ContainerStops, LogTypeOK, lokiVars, jujuVars, hookVars
  <2>11. ASSUME UNCHANGED logVars PROVE LogTypeOK'
    BY <2>11 DEF logVars, lokiVars, jujuVars, podVars, hookVars, LogTypeOK
  <2> QED
    BY <2>1, <2>2, <2>3, <2>4, <2>5, <2>6, <2>7, <2>8, <2>9, <2>10, <2>11
    DEF LogNext, LogHook, LogWorld, LogDisturb
<1> QED
  BY <1>1, <1>2, ForwardingInvariant, PTL DEF LogSpec

-----------------------------------------------------------------------------
(* PromtailFollows. What a container's promtail does may only differ from  *)
(* what is published while an event that will put it right is pending:     *)
(* owed, or at work in a hook that has the container still before it, or   *)
(* failed and will run again. A promtail that should be stopped is only    *)
(* stopped by a departure; one that should run is seen to by any change.   *)

(* e is still to come, in full or for w.                                   *)
Pending(e, w) == e \in owed \/ (proxyHook = e /\ (failed \/ w \in visiting))

(* Types that need saying, and what lies between two hooks.                *)
ProxyTyped ==
  /\ DOMAIN promtail = Workloads /\ DOMAIN binary = Workloads
  /\ visiting \subseteq Workloads /\ failed \in BOOLEAN
  /\ failed => visiting # {}
  /\ proxyHook = "idle" => ~failed /\ visiting = {}
  /\ proxyHook \in RelationEvents \cup Workloads \cup {"idle"}

(* A container that was restarted has nothing; promtail only runs with a   *)
(* binary, and whoever installs one puts promtail into the plan.           *)
BinaryInPlan ==
  \A w \in Workloads :
    /\ w \notin answering => Absent(w) /\ binary[w] = "none"
    /\ binary[w] = "none" => ~Running(w)
    /\ binary[w] = "good" => ~Absent(w)

StopsWithLoki ==
  \A w \in Workloads : Running(w) /\ publishing = {} => Pending("departed", w)

RunsForLoki ==
  \A w \in Workloads :
    binary[w] = "good" /\ publishing # {} /\ promtail[w] # <<"running", publishing>> =>
      Pending("changed", w) \/ Pending("departed", w)

ProxyInv == ProxyTyped /\ BinaryInPlan /\ StopsWithLoki /\ RunsForLoki

-----------------------------------------------------------------------------
LEMMA ProxyInitHolds == ProxyInit => ProxyInv
<1> SUFFICES ASSUME ProxyInit PROVE ProxyInv
  OBVIOUS
<1>1. ProxyTyped
  BY DEF ProxyInit, ProxyTyped
<1>2. \A w \in Workloads : promtail[w] = <<"absent">> /\ binary[w] = "none" /\ ~Running(w)
  BY DEF ProxyInit, Running
<1>3. BinaryInPlan /\ StopsWithLoki /\ RunsForLoki
  BY <1>2 DEF BinaryInPlan, StopsWithLoki, RunsForLoki, Absent
<1> QED
  BY <1>1, <1>3 DEF ProxyInv

(* Loki, Juju and Kubernetes: every change is told by an event.            *)
LEMMA RelationKeeps ==
  ASSUME ProxyInv,
         \/ IntegrateLoki \/ OfferPromtail
         \/ \E u \in Lokis : LokiJoins(u) \/ PublishEndpoint(u) \/ LokiDeparts(u)
  PROVE  ProxyInv'
<1>1. UNCHANGED <<proxyHookVars, containerVars>> /\ owed \subseteq owed'
  BY DEF IntegrateLoki, OfferPromtail, LokiJoins, PublishEndpoint, LokiDeparts
<1>2. ProxyTyped' /\ BinaryInPlan'
  BY <1>1 DEF ProxyInv, ProxyTyped, BinaryInPlan, Absent, Running, proxyHookVars, containerVars
<1>3. \A e, w : Pending(e, w) => Pending(e, w)'
  BY <1>1 DEF Pending, proxyHookVars
<1>4. \/ publishing' = publishing
      \/ publishing' # {} /\ "changed" \in owed'
      \/ "departed" \in owed'
  BY DEF IntegrateLoki, OfferPromtail, LokiJoins, PublishEndpoint, LokiDeparts
<1>5. CASE publishing' = publishing
  <2>1. StopsWithLoki' /\ RunsForLoki'
    BY <1>1, <1>3, <1>5 DEF ProxyInv, StopsWithLoki, RunsForLoki, Running, containerVars
  <2> QED
    BY <1>2, <2>1 DEF ProxyInv
<1>6. CASE publishing' # {} /\ "changed" \in owed'
  BY <1>2, <1>6 DEF ProxyInv, StopsWithLoki, RunsForLoki, Pending
<1>7. CASE "departed" \in owed'
  BY <1>2, <1>7 DEF ProxyInv, StopsWithLoki, RunsForLoki, Pending
<1> QED
  BY <1>4, <1>5, <1>6, <1>7

LEMMA WorkloadRestartsKeeps ==
  ASSUME ProxyInv, NEW w \in Workloads, WorkloadRestarts(w) PROVE ProxyInv'
<1>1. /\ promtail' = [promtail EXCEPT ![w] = <<"absent">>]
      /\ binary' = [binary EXCEPT ![w] = "none"]
      /\ answering' = answering \ {w} /\ owed' = owed \ {w}
      /\ publishing' = publishing
      /\ proxyHook' = proxyHook /\ failed' = failed /\ visiting' = visiting
  BY DEF WorkloadRestarts, relationVars, proxyHookVars
<1>2. w \notin RelationEvents
  BY ProxyAssumption
<1>3. \A e \in RelationEvents : \A v : Pending(e, v) => Pending(e, v)'
  BY <1>1, <1>2 DEF Pending
<1>4. ProxyTyped'
  BY <1>1 DEF ProxyInv, ProxyTyped
<1>5. BinaryInPlan'
  BY <1>1 DEF ProxyInv, ProxyTyped, BinaryInPlan, Absent, Running
<1>6. StopsWithLoki'
  BY <1>1, <1>3 DEF ProxyInv, ProxyTyped, StopsWithLoki, Running, RelationEvents
<1>7. RunsForLoki'
  BY <1>1, <1>3 DEF ProxyInv, ProxyTyped, RunsForLoki, RelationEvents
<1> QED
  BY <1>4, <1>5, <1>6, <1>7 DEF ProxyInv

LEMMA WorkloadStartsKeeps ==
  ASSUME ProxyInv, NEW w \in Workloads, WorkloadStarts(w) PROVE ProxyInv'
BY DEF WorkloadStarts, relationVars, proxyHookVars, ProxyInv, ProxyTyped, BinaryInPlan,
   StopsWithLoki, RunsForLoki, Absent, Running, Pending

(* Between two visits: what is pending stays so.                           *)
LEMMA ProxyHookKeeps ==
  ASSUME ProxyInv,
         UNCHANGED <<publishing, answering, binary, promtail>>,
         ProxyTyped',
         \A e \in {"changed", "departed"}, w \in Workloads :
           w \in answering /\ Pending(e, w) => Pending(e, w)'
  PROVE  ProxyInv'
<1>1. BinaryInPlan'
  BY DEF ProxyInv, BinaryInPlan, Absent, Running
<1>2. \A w \in Workloads : Running(w) \/ binary[w] = "good" => w \in answering
  BY DEF ProxyInv, BinaryInPlan, Absent, Running
<1>3. StopsWithLoki' /\ RunsForLoki'
  BY <1>2 DEF ProxyInv, StopsWithLoki, RunsForLoki, Running
<1> QED
  BY <1>1, <1>3 DEF ProxyInv

LEMMA StartProxyHookKeeps ==
  ASSUME ProxyInv, NEW e \in RelationEvents \cup Workloads, StartProxyHook(e) PROVE ProxyInv'
<1>1. ProxyTyped'
  <2>1. e # "idle" /\ promtail' = promtail /\ binary' = binary
    BY ProxyAssumption DEF StartProxyHook, containerVars, RelationEvents
  <2>2. visiting' \subseteq Workloads /\ proxyHook' = e /\ failed' = failed /\ ~failed
    BY DEF StartProxyHook, ProxyInv, ProxyTyped
  <2> QED
    BY <2>1, <2>2 DEF ProxyInv, ProxyTyped
<1>2. \A f \in {"changed", "departed"}, w \in Workloads : Pending(f, w) => Pending(f, w)'
  BY ProxyAssumption DEF ProxyInv, ProxyTyped, StartProxyHook, Pending, RelationEvents
<1>3. UNCHANGED <<publishing, answering, binary, promtail>>
  BY DEF StartProxyHook, relationVars, containerVars
<1> QED
  BY <1>1, <1>2, <1>3, ProxyHookKeeps

LEMMA RetryKeeps == ASSUME ProxyInv, RetryProxyHook PROVE ProxyInv'
<1>1. ProxyTyped'
  BY DEF ProxyInv, ProxyTyped, RetryProxyHook, containerVars
<1>2. \A e \in {"changed", "departed"}, w \in Workloads : Pending(e, w) => Pending(e, w)'
  BY ProxyAssumption DEF ProxyInv, ProxyTyped, RetryProxyHook, Pending, RelationEvents
<1>3. UNCHANGED <<publishing, answering, binary, promtail>>
  BY DEF RetryProxyHook, relationVars, containerVars
<1> QED
  BY <1>1, <1>2, <1>3, ProxyHookKeeps

LEMMA FinishKeeps == ASSUME ProxyInv, FinishProxyHook PROVE ProxyInv'
<1>1. ProxyTyped'
  BY DEF ProxyInv, ProxyTyped, FinishProxyHook, containerVars
<1>2. \A e \in {"changed", "departed"}, w \in Workloads : Pending(e, w) => Pending(e, w)'
  BY DEF ProxyInv, ProxyTyped, FinishProxyHook, Pending
<1>3. UNCHANGED <<publishing, answering, binary, promtail>>
  BY DEF FinishProxyHook, relationVars, containerVars
<1> QED
  BY <1>1, <1>2, <1>3, ProxyHookKeeps

LEMMA UnreachableKeeps ==
  ASSUME ProxyInv, NEW w \in Workloads, Unreachable(w) PROVE ProxyInv'
<1>1. ProxyTyped'
  BY DEF ProxyInv, ProxyTyped, Unreachable, Raises, Visited, containerVars
<1>2. \A e \in {"changed", "departed"}, v \in Workloads :
        v \in answering /\ Pending(e, v) => Pending(e, v)'
  BY DEF Unreachable, Raises, Visited, Pending
<1>3. UNCHANGED <<publishing, answering, binary, promtail>>
  BY DEF Unreachable, relationVars, containerVars
<1> QED
  BY <1>1, <1>2, <1>3, ProxyHookKeeps

-----------------------------------------------------------------------------
(* One visit                                                               *)

(* What a visit has done to w, and to no other container.                  *)
LeavesOthers(w) ==
  /\ DOMAIN promtail' = Workloads /\ DOMAIN binary' = Workloads
  /\ \A v \in Workloads \ {w} : binary'[v] = binary[v] /\ promtail'[v] = promtail[v]

InPlan(w) ==
  /\ binary'[w] = "none" => promtail'[w][1] # "running"
  /\ binary'[w] = "good" => promtail'[w] # <<"absent">>

StoppedUnlessOther(w) ==
  promtail'[w][1] = "running" /\ publishing = {} =>
    promtail'[w] = promtail[w] /\ proxyHook # "departed"

RunsUnlessOther(w) ==
  binary'[w] = "good" /\ publishing # {} =>
    \/ promtail'[w] = <<"running", publishing>>
    \/ binary'[w] = binary[w] /\ promtail'[w] = promtail[w] /\ proxyHook \notin {"changed", "departed"}

VisitsOnly(w) == LeavesOthers(w) /\ InPlan(w) /\ StoppedUnlessOther(w) /\ RunsUnlessOther(w)

(* Nothing is done: the event does not concern w, or w has no binary.      *)
LEMMA IdleOutcome ==
  ASSUME ProxyInv, NEW w \in Workloads, UNCHANGED <<binary, promtail>>,
         Running(w) /\ publishing = {} => proxyHook # "departed",
         binary[w] = "good" /\ publishing # {} => proxyHook \notin {"changed", "departed"}
  PROVE  VisitsOnly(w)
<1>1. LeavesOthers(w)
  BY DEF LeavesOthers, ProxyInv, ProxyTyped
<1>2. InPlan(w)
  BY DEF InPlan, ProxyInv, BinaryInPlan, Absent, Running
<1>3. StoppedUnlessOther(w) /\ RunsUnlessOther(w)
  BY DEF StoppedUnlessOther, RunsUnlessOther, Running
<1> QED
  BY <1>1, <1>2, <1>3 DEF VisitsOnly

(* _setup_promtail leaves it as the endpoints want it, or stopped, or as   *)
(* it was when there are none.                                             *)
LEMMA SetupOutcome ==
  ASSUME ProxyInv, NEW w \in Workloads, SetupPromtail(w),
         Absent(w) \/ proxyHook \notin {"changed", "departed"},
         proxyHook # "departed"
  PROVE  VisitsOnly(w)
<1>1. /\ binary[w] = "none" => ~Running(w)
      /\ binary[w] = "good" => ~Absent(w)
  BY DEF ProxyInv, BinaryInPlan
<1>2. CASE ~offered
  <2>1. UNCHANGED <<binary, promtail>>
    BY <1>2 DEF SetupPromtail
  <2> QED
    BY <2>1, <1>1, IdleOutcome
<1>3. CASE offered
  <2> DEFINE p == IF publishing = {} THEN (IF Absent(w) THEN <<"stopped">> ELSE promtail[w])
                  ELSE IF binary'[w] = "good" THEN <<"running", publishing>> ELSE <<"stopped">>
  <2>1. promtail' = [promtail EXCEPT ![w] = p]
    BY <1>3 DEF SetupPromtail
  <2>2. /\ DOMAIN binary' = Workloads /\ \A v \in Workloads \ {w} : binary'[v] = binary[v]
        /\ binary'[w] = "none" => binary[w] = "none"
    <3>1. EnsureBinary(w)
      BY <1>3 DEF SetupPromtail
    <3> QED
      BY <3>1 DEF EnsureBinary, Download, ProxyInv, ProxyTyped
  <2>3. LeavesOthers(w) /\ promtail'[w] = p
    BY <2>1, <2>2 DEF LeavesOthers, ProxyInv, ProxyTyped
  <2> HIDE DEF p
  <2>4. CASE publishing # {}
    <3>1. p = IF binary'[w] = "good" THEN <<"running", publishing>> ELSE <<"stopped">>
      BY <2>4 DEF p
    <3> QED
      BY <2>3, <2>4, <3>1 DEF VisitsOnly, InPlan, StoppedUnlessOther, RunsUnlessOther
  <2>5. CASE publishing = {} /\ Absent(w)
    <3>1. p = <<"stopped">>
      BY <2>5 DEF p
    <3> QED
      BY <2>3, <2>5, <3>1 DEF VisitsOnly, InPlan, StoppedUnlessOther, RunsUnlessOther
  <2>6. CASE publishing = {} /\ ~Absent(w)
    <3>1. p = promtail[w]
      BY <2>6 DEF p
    <3>2. InPlan(w)
      BY <1>1, <2>2, <2>3, <2>6, <3>1 DEF InPlan, Absent, Running
    <3> QED
      BY <2>3, <2>6, <3>1, <3>2 DEF VisitsOnly, StoppedUnlessOther, RunsUnlessOther
  <2> QED
    BY <2>4, <2>5, <2>6
<1> QED
  BY <1>2, <1>3

(* A restart in a container whose configuration was written.               *)
LEMMA RestartOutcome ==
  ASSUME ProxyInv, NEW w \in Workloads, Restart(w), binary' = binary, publishing # {}
  PROVE  VisitsOnly(w)
<1>1. promtail' = [promtail EXCEPT ![w] = IF binary[w] = "good" THEN <<"running", publishing>> ELSE <<"stopped">>]
  BY DEF Restart
<1>2. LeavesOthers(w) /\ promtail'[w] = IF binary[w] = "good" THEN <<"running", publishing>> ELSE <<"stopped">>
  BY <1>1 DEF LeavesOthers, ProxyInv, ProxyTyped
<1> QED
  BY <1>2 DEF VisitsOnly, InPlan, StoppedUnlessOther, RunsUnlessOther

LEMMA VisitOutcome ==
  ASSUME ProxyInv, NEW w \in Workloads, Visit(w)
  PROVE  VisitsOnly(w)
<1>1. binary[w] = "good" => ~Absent(w)
  BY DEF ProxyInv, BinaryInPlan
<1>2. CASE VisitToSetUp(w)
  <2>1. proxyHook \notin {"changed", "departed"}
    BY <1>2, ProxyAssumption DEF VisitToSetUp, RelationEvents
  <2>2. SetupPromtail(w) \/ UNCHANGED <<binary, promtail>>
    BY <1>2 DEF VisitToSetUp
  <2> QED
    BY <2>1, <2>2, SetupOutcome, IdleOutcome
<1>3. CASE VisitChanged(w)
  <2>1. proxyHook = "changed"
    BY <1>3 DEF VisitChanged
  <2>2. CASE Absent(w) /\ SetupPromtail(w)
    BY <2>1, <2>2, SetupOutcome
  <2>3. CASE publishing # {} /\ binary' = binary /\ Restart(w)
    BY <2>3, RestartOutcome
  <2>4. CASE publishing = {} /\ UNCHANGED <<binary, promtail>>
    BY <2>1, <2>4, IdleOutcome
  <2> QED
    BY <1>3, <2>2, <2>3, <2>4 DEF VisitChanged, Reconfigure
<1>4. CASE VisitDeparted(w)
  <2>1. CASE Absent(w) /\ UNCHANGED <<binary, promtail>>
    <3>1. ~Running(w)
      BY <2>1 DEF Absent, Running
    <3> QED
      BY <1>1, <2>1, <3>1, IdleOutcome
  <2>2. CASE publishing # {} /\ binary' = binary /\ Restart(w)
    BY <2>2, RestartOutcome
  <2>3. CASE publishing = {} /\ binary' = binary /\ promtail' = [promtail EXCEPT ![w] = <<"stopped">>]
    <3>1. LeavesOthers(w) /\ promtail'[w] = <<"stopped">>
      BY <2>3 DEF LeavesOthers, ProxyInv, ProxyTyped
    <3> QED
      BY <2>3, <3>1 DEF VisitsOnly, InPlan, StoppedUnlessOther, RunsUnlessOther
  <2> QED
    BY <1>4, <2>1, <2>2, <2>3 DEF VisitDeparted, Reconfigure
<1> QED
  BY <1>2, <1>3, <1>4 DEF Visit

LEMMA VisitKeeps == ASSUME ProxyInv, NEW w \in Workloads, Visit(w) PROVE ProxyInv'
<1>1. VisitsOnly(w)
  BY VisitOutcome
<1>2. /\ w \in visiting /\ w \in answering /\ ~failed
      /\ answering' = answering /\ publishing' = publishing /\ owed' = owed
  BY DEF Visit, relationVars
<1>3. /\ proxyHook' = proxyHook
      /\ \/ failed' = TRUE /\ visiting' = visiting
         \/ failed' = failed /\ visiting' = visiting \ {w}
  <2>1. Visited(w) \/ Raises
    BY DEF Visit, VisitToSetUp, VisitChanged, VisitDeparted, Restart
  <2>2. CASE Visited(w)
    BY <2>2 DEF Visited
  <2>3. CASE Raises
    BY <2>3 DEF Raises
  <2> QED
    BY <2>1, <2>2, <2>3
<1>4. \A e, v : v # w \/ e # proxyHook => (Pending(e, v) => Pending(e, v)')
  BY <1>2, <1>3 DEF Pending
<1>5. ProxyTyped'
  <2>1. proxyHook # "idle" /\ proxyHook \in RelationEvents \cup Workloads \cup {"idle"}
    BY <1>2 DEF ProxyInv, ProxyTyped
  <2>2. visiting' \subseteq Workloads /\ failed' \in BOOLEAN /\ (failed' => visiting' # {})
    <3>1. visiting \subseteq Workloads /\ visiting # {} /\ failed = FALSE
      BY <1>2 DEF ProxyInv, ProxyTyped
    <3>2. CASE failed' = TRUE /\ visiting' = visiting
      BY <3>1, <3>2
    <3>3. CASE failed' = failed /\ visiting' = visiting \ {w}
      BY <3>1, <3>3
    <3> QED
      BY <1>3, <3>2, <3>3
  <2>3. DOMAIN promtail' = Workloads /\ DOMAIN binary' = Workloads
    BY <1>1 DEF VisitsOnly, LeavesOthers
  <2> QED
    BY <1>3, <2>1, <2>2, <2>3 DEF ProxyTyped
<1>6. BinaryInPlan'
  BY <1>1, <1>2 DEF ProxyInv, BinaryInPlan, Absent, Running, VisitsOnly, LeavesOthers, InPlan
<1>7. StopsWithLoki'
  <2> SUFFICES ASSUME NEW v \in Workloads, promtail'[v][1] = "running", publishing = {}
               PROVE  Pending("departed", v)'
    BY <1>2 DEF StopsWithLoki, Running
  <2>1. promtail'[v] = promtail[v] /\ (v # w \/ "departed" # proxyHook)
    BY <1>1 DEF VisitsOnly, LeavesOthers, StoppedUnlessOther
  <2> QED
    BY <2>1, <1>4 DEF ProxyInv, StopsWithLoki, Running
<1>8. RunsForLoki'
  <2> SUFFICES ASSUME NEW v \in Workloads, binary'[v] = "good", publishing # {},
                      promtail'[v] # <<"running", publishing>>
               PROVE  Pending("changed", v)' \/ Pending("departed", v)'
    BY <1>2 DEF RunsForLoki
  <2>1. /\ promtail'[v] = promtail[v] /\ binary'[v] = binary[v]
        /\ v # w \/ proxyHook \notin {"changed", "departed"}
    BY <1>1 DEF VisitsOnly, LeavesOthers, RunsUnlessOther
  <2> QED
    BY <2>1, <1>4 DEF ProxyInv, RunsForLoki
<1> QED
  BY <1>5, <1>6, <1>7, <1>8 DEF ProxyInv

LEMMA ProxyStutterKeeps == ASSUME ProxyInv, UNCHANGED proxyVars PROVE ProxyInv'
BY DEF proxyVars, relationVars, proxyHookVars, containerVars, ProxyInv, ProxyTyped, BinaryInPlan,
   StopsWithLoki, RunsForLoki, Pending, Absent, Running

-----------------------------------------------------------------------------
(* The invariant is inductive.                                             *)
THEOREM ProxyInvariant == ProxySpec => []ProxyInv
<1>1. ProxyInv /\ [ProxyNext]_proxyVars => ProxyInv'
  BY RelationKeeps, WorkloadRestartsKeeps, WorkloadStartsKeeps, StartProxyHookKeeps, RetryKeeps,
     FinishKeeps, UnreachableKeeps, VisitKeeps, ProxyStutterKeeps DEF ProxyNext
<1> QED
  BY <1>1, ProxyInitHolds, PTL DEF ProxySpec

(* Once no event is owed, promtail has exactly the endpoints published, in *)
(* whatever order units came and left and containers were restarted.       *)
THEOREM PromtailAlwaysFollows == ProxySpec => []PromtailFollows
<1>1. ProxyInv => PromtailFollows
  <2> SUFFICES ASSUME ProxyInv, NEW w \in Workloads, ProxyQuiet(w), binary[w] = "good"
               PROVE  IF publishing = {} THEN ~Running(w) ELSE promtail[w] = <<"running", publishing>>
    BY DEF PromtailFollows
  <2>1. ~Pending("changed", w) /\ ~Pending("departed", w)
    BY DEF ProxyQuiet, Pending
  <2> QED
    BY <2>1 DEF ProxyInv, StopsWithLoki, RunsForLoki
<1> QED
  BY <1>1, ProxyInvariant, PTL

(* The calls of a visit keep the types of what they write.                 *)
LEMMA EnsureTyped ==
  ASSUME ProxyTypeOK, NEW w \in Workloads, EnsureBinary(w)
  PROVE  cached' \in Binaries /\ binary' \in [Workloads -> Binaries]
BY DEF EnsureBinary, MustDownload, Download, ProxyTypeOK, Binaries

LEMMA SetupTyped ==
  ASSUME ProxyTypeOK, NEW w \in Workloads, SetupPromtail(w)
  PROVE  /\ cached' \in Binaries /\ binary' \in [Workloads -> Binaries]
         /\ clients' \in [Workloads -> SUBSET Lokis] /\ DOMAIN promtail' = Workloads
         /\ \A v \in Workloads : promtail'[v] \in {<<"absent">>, <<"stopped">>} \/ promtail'[v][1] = "running"
<1>1. CASE ~offered
  BY <1>1 DEF SetupPromtail, ProxyTypeOK
<1>2. CASE offered
  <2>1. EnsureBinary(w) /\ clients' = [clients EXCEPT ![w] = publishing]
    BY <1>2 DEF SetupPromtail
  <2>2. cached' \in Binaries /\ binary' \in [Workloads -> Binaries]
    BY <2>1, EnsureTyped
  <2>3. clients' \in [Workloads -> SUBSET Lokis]
    BY <2>1 DEF ProxyTypeOK
  <2>4. PICK s \in {<<"stopped">>, promtail[w], <<"running", publishing>>} :
          promtail' = [promtail EXCEPT ![w] = s]
    BY <1>2 DEF SetupPromtail
  <2>5. s \in {<<"absent">>, <<"stopped">>} \/ s[1] = "running"
    BY <2>4 DEF ProxyTypeOK
  <2>6. /\ DOMAIN promtail' = Workloads
        /\ \A v \in Workloads : promtail'[v] \in {<<"absent">>, <<"stopped">>} \/ promtail'[v][1] = "running"
    BY <2>4, <2>5 DEF ProxyTypeOK
  <2> QED
    BY <2>2, <2>3, <2>6
<1> QED
  BY <1>1, <1>2

LEMMA RestartTyped ==
  ASSUME ProxyTypeOK, NEW w \in Workloads, Reconfigure(w),
         \/ Restart(w) \/ UNCHANGED promtail
         \/ promtail' = [promtail EXCEPT ![w] = <<"stopped">>]
  PROVE  /\ cached' \in Binaries /\ binary' \in [Workloads -> Binaries]
         /\ clients' \in [Workloads -> SUBSET Lokis] /\ DOMAIN promtail' = Workloads
         /\ \A v \in Workloads : promtail'[v] \in {<<"absent">>, <<"stopped">>} \/ promtail'[v][1] = "running"
BY DEF Reconfigure, Restart, ProxyTypeOK

(* ProxyTypeOK, for any constants.                                         *)
THEOREM ProxyStaysTyped == ProxySpec => []ProxyTypeOK
<1>1. ProxyInit => ProxyTypeOK
  BY DEF ProxyInit, ProxyTypeOK, Binaries
<1>2. ProxyTypeOK /\ [ProxyNext]_proxyVars => ProxyTypeOK'
  <2> SUFFICES ASSUME ProxyTypeOK, [ProxyNext]_proxyVars PROVE ProxyTypeOK'
    OBVIOUS
  <2>1. ASSUME IntegrateLoki \/ OfferPromtail PROVE ProxyTypeOK'
    BY <2>1 DEF IntegrateLoki, OfferPromtail, ProxyTypeOK, RelationEvents, proxyHookVars, containerVars
  <2>2. ASSUME NEW u \in Lokis, LokiJoins(u) \/ PublishEndpoint(u) \/ LokiDeparts(u) PROVE ProxyTypeOK'
    BY <2>2 DEF LokiJoins, PublishEndpoint, LokiDeparts, ProxyTypeOK, RelationEvents, proxyHookVars, containerVars
  <2>3. ASSUME NEW e \in RelationEvents \cup Workloads, StartProxyHook(e) PROVE ProxyTypeOK'
    BY <2>3 DEF StartProxyHook, ProxyTypeOK, relationVars, containerVars
  <2>4. ASSUME NEW w \in Workloads, WorkloadRestarts(w) PROVE ProxyTypeOK'
    <3>1. binary' \in [Workloads -> Binaries] /\ clients' \in [Workloads -> SUBSET Lokis]
      BY <2>4 DEF WorkloadRestarts, ProxyTypeOK, Binaries
    <3>2. /\ DOMAIN promtail' = Workloads
          /\ \A v \in Workloads : promtail'[v] \in {<<"absent">>, <<"stopped">>} \/ promtail'[v][1] = "running"
      BY <2>4 DEF WorkloadRestarts, ProxyTypeOK
    <3> QED
      BY <2>4, <3>1, <3>2 DEF WorkloadRestarts, ProxyTypeOK, relationVars, proxyHookVars
  <2>5. ASSUME NEW w \in Workloads, WorkloadStarts(w) PROVE ProxyTypeOK'
    BY <2>5 DEF WorkloadStarts, ProxyTypeOK, relationVars, proxyHookVars
  <2>6. ASSUME NEW w \in Workloads, Visit(w) PROVE ProxyTypeOK'
    <3>1. /\ cached' \in Binaries /\ binary' \in [Workloads -> Binaries]
          /\ clients' \in [Workloads -> SUBSET Lokis] /\ DOMAIN promtail' = Workloads
          /\ \A v \in Workloads : promtail'[v] \in {<<"absent">>, <<"stopped">>} \/ promtail'[v][1] = "running"
      <4>1. CASE SetupPromtail(w)
        BY <4>1, SetupTyped
      <4>2. CASE UNCHANGED <<cached, binary, clients, promtail>>
        BY <4>2 DEF ProxyTypeOK
      <4>3. CASE /\ Reconfigure(w)
                 /\ \/ Restart(w) \/ UNCHANGED promtail
                    \/ promtail' = [promtail EXCEPT ![w] = <<"stopped">>]
        BY <4>3, RestartTyped
      <4> QED
        BY <2>6, <4>1, <4>2, <4>3 DEF Visit, VisitToSetUp, VisitChanged, VisitDeparted
    <3>2. Visited(w) \/ Raises
      BY <2>6 DEF Visit, VisitToSetUp, VisitChanged, VisitDeparted, Restart
    <3> QED
      BY <2>6, <3>1, <3>2 DEF Visit, Visited, Raises, ProxyTypeOK, relationVars
  <2>7. ASSUME NEW w \in Workloads, Unreachable(w) PROVE ProxyTypeOK'
    BY <2>7 DEF Unreachable, Visited, Raises, ProxyTypeOK, relationVars, containerVars
  <2>8. ASSUME RetryProxyHook \/ FinishProxyHook PROVE ProxyTypeOK'
    BY <2>8 DEF RetryProxyHook, FinishProxyHook, ProxyTypeOK, relationVars, containerVars
  <2>9. ASSUME UNCHANGED proxyVars PROVE ProxyTypeOK'
    BY <2>9 DEF proxyVars, relationVars, proxyHookVars, containerVars, ProxyTypeOK
  <2> QED
    BY <2>1, <2>2, <2>3, <2>4, <2>5, <2>6, <2>7, <2>8, <2>9 DEF ProxyNext
<1> QED
  BY <1>1, <1>2, PTL DEF ProxySpec

-----------------------------------------------------------------------------
(* LabelsFollowMesh. The invariant follows one hook through its calls.     *)
(* What it decided to set is what the mesh asks for unless another event   *)
(* is owed; what it has patched already carries that; and while nothing    *)
(* was killed, whatever a workload carries in excess is either in the      *)
(* ConfigMap or still in the list of what the hook is going to remove.     *)

(* A broken event is owed, or handled, only once the relation is gone.     *)
LeftMesh ==
  meshHook = "broken" \/ "broken" \in meshOwed => inMesh = FALSE /\ asked = {}

(* Types that need saying, but for the two flags.                          *)
LabelsTyped ==
  /\ asked \subseteq Labels /\ wanted \subseteq Labels /\ unwanted \subseteq Labels
  /\ remembered \subseteq Labels
  /\ kills \in Nat /\ meshHook \in {"none", "changed", "broken"} /\ step \in MeshSteps

(* The hook is about what is asked now, unless another one is to follow.   *)
DecidedInTime ==
  /\ meshHook # "none" /\ step # "read" /\ meshOwed = {} => wanted = asked
  /\ meshHook = "broken" /\ step # "read" => wanted = {}
  /\ step = "delete" => meshHook = "broken"

(* What is patched carries what was decided.                               *)
CarriesDecided ==
  /\ step \in {"service", "delete"} => wanted \subseteq podLabels
  /\ step = "delete" => wanted \subseteq svcLabels

Disjoint == unwanted \cap wanted = {}

(* What each workload has in excess is known, as long as nothing is killed. *)
ExcessKnown ==
  kills = 0 =>
    /\ meshHook = "none" \/ step \in {"read", "configmap"} =>
         podLabels = remembered \cup ForeignLabels /\ svcLabels = remembered \cup ForeignLabels
    /\ meshHook # "none" /\ step = "configmap" => unwanted = remembered \ wanted
    /\ meshHook # "none" /\ step \in {"statefulset", "service", "delete"} => remembered = wanted
    /\ meshHook # "none" /\ step = "statefulset" =>
         podLabels \subseteq wanted \cup unwanted \cup ForeignLabels
    /\ meshHook # "none" /\ step \in {"statefulset", "service"} =>
         svcLabels \subseteq wanted \cup unwanted \cup ForeignLabels
    /\ meshHook # "none" /\ step \in {"service", "delete"} => podLabels = wanted \cup ForeignLabels
    /\ meshHook # "none" /\ step = "delete" => svcLabels = wanted \cup ForeignLabels
    /\ MeshQuiet => remembered = asked

MemberInv ==
  /\ LeftMesh /\ LabelsTyped /\ DecidedInTime /\ CarriesDecided /\ Disjoint
  /\ CarriesLabels /\ KeepsForeignLabels /\ ExcessKnown
-----------------------------------------------------------------------------
(* The first state.                                                        *)
LEMMA MemberInitHolds == MemberInit => MemberInv
BY MembershipAssumption DEF MemberInit, MemberInv, LeftMesh, LabelsTyped,
   DecidedInTime, CarriesDecided,
   Disjoint, CarriesLabels, KeepsForeignLabels, ExcessKnown, MeshQuiet, MeshSteps

(* Only what is asked changes, and an event is owed of it.                 *)
LEMMA JoinMeshKeeps ==
  ASSUME MemberInv, \E labels \in SUBSET Labels : JoinMesh(labels)
  PROVE  MemberInv'
<1>1. LeftMesh'
  BY DEF MemberInv, LeftMesh, JoinMesh, memberHook, kubeVars
<1>2. LabelsTyped'
  BY DEF MemberInv, LabelsTyped, MeshSteps, JoinMesh, memberHook, kubeVars
<1>3. DecidedInTime'
  BY DEF MemberInv, LeftMesh, DecidedInTime, JoinMesh, memberHook, kubeVars
<1>4. CarriesDecided'
  BY DEF MemberInv, CarriesDecided, JoinMesh, memberHook, kubeVars
<1>5. Disjoint'
  BY DEF MemberInv, Disjoint, JoinMesh, memberHook, kubeVars
<1>6. CarriesLabels'
  BY DEF MemberInv, LeftMesh, DecidedInTime, CarriesDecided, CarriesLabels,
     MeshQuiet, JoinMesh, memberHook, kubeVars
<1>7. KeepsForeignLabels'
  BY MembershipAssumption DEF MemberInv, LabelsTyped, KeepsForeignLabels, JoinMesh,
     memberHook, kubeVars
<1>8. ExcessKnown'
  BY MembershipAssumption DEF MemberInv, LeftMesh, LabelsTyped, DecidedInTime,
     Disjoint, KeepsForeignLabels, ExcessKnown, MeshQuiet, JoinMesh, memberHook,
     kubeVars
<1> QED
  BY <1>1, <1>2, <1>3, <1>4, <1>5, <1>6, <1>7, <1>8 DEF MemberInv

(* The same, at any time.                                                  *)
LEMMA AskForLabelsKeeps ==
  ASSUME MemberInv, \E labels \in SUBSET Labels : AskForLabels(labels)
  PROVE  MemberInv'
<1>1. LeftMesh'
  BY DEF MemberInv, LeftMesh, AskForLabels, memberHook, kubeVars
<1>2. LabelsTyped'
  BY DEF MemberInv, LabelsTyped, MeshSteps, AskForLabels, memberHook, kubeVars
<1>3. DecidedInTime'
  BY DEF MemberInv, LeftMesh, DecidedInTime, AskForLabels, memberHook, kubeVars
<1>4. CarriesDecided'
  BY DEF MemberInv, CarriesDecided, AskForLabels, memberHook, kubeVars
<1>5. Disjoint'
  BY DEF MemberInv, Disjoint, AskForLabels, memberHook, kubeVars
<1>6. CarriesLabels'
  BY DEF MemberInv, LeftMesh, DecidedInTime, CarriesDecided, CarriesLabels,
     MeshQuiet, AskForLabels, memberHook, kubeVars
<1>7. KeepsForeignLabels'
  BY MembershipAssumption DEF MemberInv, LabelsTyped, KeepsForeignLabels,
     AskForLabels, memberHook, kubeVars
<1>8. ExcessKnown'
  BY MembershipAssumption DEF MemberInv, LeftMesh, LabelsTyped, DecidedInTime,
     Disjoint, KeepsForeignLabels, ExcessKnown, MeshQuiet, AskForLabels, memberHook,
     kubeVars
<1> QED
  BY <1>1, <1>2, <1>3, <1>4, <1>5, <1>6, <1>7, <1>8 DEF MemberInv

(* The same; from here on a broken event is due.                           *)
LEMMA LeaveMeshKeeps ==
  ASSUME MemberInv, LeaveMesh
  PROVE  MemberInv'
<1>1. LeftMesh'
  BY DEF MemberInv, LeftMesh, LeaveMesh, memberHook, kubeVars
<1>2. LabelsTyped'
  BY DEF MemberInv, LabelsTyped, MeshSteps, LeaveMesh, memberHook, kubeVars
<1>3. DecidedInTime'
  BY DEF MemberInv, LeftMesh, DecidedInTime, LeaveMesh, memberHook, kubeVars
<1>4. CarriesDecided'
  BY DEF MemberInv, CarriesDecided, LeaveMesh, memberHook, kubeVars
<1>5. Disjoint'
  BY DEF MemberInv, Disjoint, LeaveMesh, memberHook, kubeVars
<1>6. CarriesLabels'
  BY DEF MemberInv, LeftMesh, DecidedInTime, CarriesDecided, CarriesLabels,
     MeshQuiet, LeaveMesh, memberHook, kubeVars
<1>7. KeepsForeignLabels'
  BY MembershipAssumption DEF MemberInv, LabelsTyped, KeepsForeignLabels, LeaveMesh,
     memberHook, kubeVars
<1>8. ExcessKnown'
  BY MembershipAssumption DEF MemberInv, LeftMesh, LabelsTyped, DecidedInTime,
     Disjoint, KeepsForeignLabels, ExcessKnown, MeshQuiet, LeaveMesh, memberHook,
     kubeVars
<1> QED
  BY <1>1, <1>2, <1>3, <1>4, <1>5, <1>6, <1>7, <1>8 DEF MemberInv

(* The hook has decided nothing yet.                                       *)
LEMMA StartMeshHookKeeps ==
  ASSUME MemberInv, \E e \in {"changed", "broken"} : StartMeshHook(e)
  PROVE  MemberInv'
<1>1. LeftMesh'
  BY DEF MemberInv, LeftMesh, StartMeshHook, askVars, kubeVars
<1>2. LabelsTyped'
  BY DEF MemberInv, LabelsTyped, MeshSteps, StartMeshHook, askVars, kubeVars
<1>3. DecidedInTime'
  BY DEF MemberInv, LeftMesh, DecidedInTime, StartMeshHook, askVars, kubeVars
<1>4. CarriesDecided'
  BY DEF MemberInv, CarriesDecided, StartMeshHook, askVars, kubeVars
<1>5. Disjoint'
  BY DEF MemberInv, Disjoint, StartMeshHook, askVars, kubeVars
<1>6. CarriesLabels'
  BY DEF MemberInv, LeftMesh, DecidedInTime, CarriesDecided, CarriesLabels,
     MeshQuiet, StartMeshHook, askVars, kubeVars
<1>7. KeepsForeignLabels'
  BY MembershipAssumption DEF MemberInv, LabelsTyped, KeepsForeignLabels,
     StartMeshHook, askVars, kubeVars
<1>8. ExcessKnown'
  BY MembershipAssumption DEF MemberInv, LeftMesh, LabelsTyped, DecidedInTime,
     Disjoint, KeepsForeignLabels, ExcessKnown, MeshQuiet, StartMeshHook, askVars,
     kubeVars
<1> QED
  BY <1>1, <1>2, <1>3, <1>4, <1>5, <1>6, <1>7, <1>8 DEF MemberInv

(* What is to be removed is what the ConfigMap has in excess.              *)
LEMMA ReadLabelsKeeps ==
  ASSUME MemberInv, ReadLabels
  PROVE  MemberInv'
<1>1. LeftMesh'
  BY DEF MemberInv, LeftMesh, ReadLabels, askVars
<1>2. LabelsTyped'
  BY DEF MemberInv, LabelsTyped, MeshSteps, ReadLabels, askVars
<1>3. DecidedInTime'
  BY DEF MemberInv, LeftMesh, DecidedInTime, ReadLabels, askVars
<1>4. CarriesDecided'
  BY DEF MemberInv, CarriesDecided, ReadLabels, askVars
<1>5. Disjoint'
  BY DEF MemberInv, Disjoint, ReadLabels, askVars
<1>6. CarriesLabels'
  BY DEF MemberInv, LeftMesh, DecidedInTime, CarriesDecided, CarriesLabels,
     MeshQuiet, ReadLabels, askVars
<1>7. KeepsForeignLabels'
  BY MembershipAssumption DEF MemberInv, LabelsTyped, KeepsForeignLabels,
     ReadLabels, askVars
<1>8. ExcessKnown'
  BY MembershipAssumption DEF MemberInv, LeftMesh, LabelsTyped, DecidedInTime,
     Disjoint, KeepsForeignLabels, ExcessKnown, MeshQuiet, ReadLabels, askVars
<1> QED
  BY <1>1, <1>2, <1>3, <1>4, <1>5, <1>6, <1>7, <1>8 DEF MemberInv

(* The ConfigMap forgets, but the hook remembers.                          *)
LEMMA PatchConfigMapKeeps ==
  ASSUME MemberInv, PatchConfigMap
  PROVE  MemberInv'
<1>1. LeftMesh'
  BY DEF MemberInv, LeftMesh, PatchConfigMap, askVars
<1>2. LabelsTyped'
  BY DEF MemberInv, LabelsTyped, MeshSteps, PatchConfigMap, askVars
<1>3. DecidedInTime'
  BY DEF MemberInv, LeftMesh, DecidedInTime, PatchConfigMap, askVars
<1>4. CarriesDecided'
  BY DEF MemberInv, CarriesDecided, PatchConfigMap, askVars
<1>5. Disjoint'
  BY DEF MemberInv, Disjoint, PatchConfigMap, askVars
<1>6. CarriesLabels'
  BY DEF MemberInv, LeftMesh, DecidedInTime, CarriesDecided, CarriesLabels,
     MeshQuiet, PatchConfigMap, askVars
<1>7. KeepsForeignLabels'
  BY MembershipAssumption DEF MemberInv, LabelsTyped, KeepsForeignLabels,
     PatchConfigMap, askVars
<1>8. ExcessKnown'
  BY MembershipAssumption DEF MemberInv, LeftMesh, LabelsTyped, DecidedInTime,
     Disjoint, KeepsForeignLabels, ExcessKnown, MeshQuiet, PatchConfigMap, askVars
<1> QED
  BY <1>1, <1>2, <1>3, <1>4, <1>5, <1>6, <1>7, <1>8 DEF MemberInv

(* The pods have exactly what was decided, and what came from elsewhere.   *)
LEMMA PatchStatefulSetKeeps ==
  ASSUME MemberInv, PatchStatefulSet
  PROVE  MemberInv'
<1>1. LeftMesh'
  BY DEF MemberInv, LeftMesh, PatchStatefulSet, WithLabels, askVars
<1>2. LabelsTyped'
  BY DEF MemberInv, LabelsTyped, MeshSteps, PatchStatefulSet, WithLabels, askVars
<1>3. DecidedInTime'
  BY DEF MemberInv, LeftMesh, DecidedInTime, PatchStatefulSet, WithLabels, askVars
<1>4. CarriesDecided'
  BY DEF MemberInv, CarriesDecided, PatchStatefulSet, WithLabels, askVars
<1>5. Disjoint'
  BY DEF MemberInv, Disjoint, PatchStatefulSet, WithLabels, askVars
<1>6. CarriesLabels'
  BY DEF MemberInv, LeftMesh, DecidedInTime, CarriesDecided, CarriesLabels,
     MeshQuiet, PatchStatefulSet, WithLabels, askVars
<1>7. KeepsForeignLabels'
  BY MembershipAssumption DEF MemberInv, LabelsTyped, KeepsForeignLabels,
     PatchStatefulSet, WithLabels, askVars
<1>8. ExcessKnown'
  BY MembershipAssumption DEF MemberInv, LeftMesh, LabelsTyped, DecidedInTime,
     Disjoint, KeepsForeignLabels, ExcessKnown, MeshQuiet, PatchStatefulSet,
     WithLabels, askVars
<1> QED
  BY <1>1, <1>2, <1>3, <1>4, <1>5, <1>6, <1>7, <1>8 DEF MemberInv

(* So has the Service; without a broken relation the hook ends here.       *)
LEMMA PatchServiceKeeps ==
  ASSUME MemberInv, PatchService
  PROVE  MemberInv'
<1>1. LeftMesh'
  BY DEF MemberInv, LeftMesh, PatchService, WithLabels, EndMeshHook, askVars
<1>2. LabelsTyped'
  BY DEF MemberInv, LabelsTyped, MeshSteps, PatchService, WithLabels, EndMeshHook,
     askVars
<1>3. DecidedInTime'
  BY DEF MemberInv, LeftMesh, DecidedInTime, PatchService, WithLabels, EndMeshHook,
     askVars
<1>4. CarriesDecided'
  BY DEF MemberInv, CarriesDecided, PatchService, WithLabels, EndMeshHook, askVars
<1>5. Disjoint'
  BY DEF MemberInv, Disjoint, PatchService, WithLabels, EndMeshHook, askVars
<1>6. CarriesLabels'
  BY DEF MemberInv, LeftMesh, DecidedInTime, CarriesDecided, CarriesLabels,
     MeshQuiet, PatchService, WithLabels, EndMeshHook, askVars
<1>7. KeepsForeignLabels'
  BY MembershipAssumption DEF MemberInv, LabelsTyped, KeepsForeignLabels,
     PatchService, WithLabels, EndMeshHook, askVars
<1>8. ExcessKnown'
  BY MembershipAssumption DEF MemberInv, LeftMesh, LabelsTyped, DecidedInTime,
     Disjoint, KeepsForeignLabels, ExcessKnown, MeshQuiet, PatchService, WithLabels,
     EndMeshHook, askVars
<1> QED
  BY <1>1, <1>2, <1>3, <1>4, <1>5, <1>6, <1>7, <1>8 DEF MemberInv

(* Nothing was left to remember.                                           *)
LEMMA DeleteConfigMapKeeps ==
  ASSUME MemberInv, DeleteConfigMap
  PROVE  MemberInv'
<1>1. LeftMesh'
  BY DEF MemberInv, LeftMesh, DeleteConfigMap, EndMeshHook, askVars
<1>2. LabelsTyped'
  BY DEF MemberInv, LabelsTyped, MeshSteps, DeleteConfigMap, EndMeshHook, askVars
<1>3. DecidedInTime'
  BY DEF MemberInv, LeftMesh, DecidedInTime, DeleteConfigMap, EndMeshHook, askVars
<1>4. CarriesDecided'
  BY DEF MemberInv, CarriesDecided, DeleteConfigMap, EndMeshHook, askVars
<1>5. Disjoint'
  BY DEF MemberInv, Disjoint, DeleteConfigMap, EndMeshHook, askVars
<1>6. CarriesLabels'
  BY DEF MemberInv, LeftMesh, DecidedInTime, CarriesDecided, CarriesLabels,
     MeshQuiet, DeleteConfigMap, EndMeshHook, askVars
<1>7. KeepsForeignLabels'
  BY MembershipAssumption DEF MemberInv, LabelsTyped, KeepsForeignLabels,
     DeleteConfigMap, EndMeshHook, askVars
<1>8. ExcessKnown'
  BY MembershipAssumption DEF MemberInv, LeftMesh, LabelsTyped, DecidedInTime,
     Disjoint, KeepsForeignLabels, ExcessKnown, MeshQuiet, DeleteConfigMap,
     EndMeshHook, askVars
<1> QED
  BY <1>1, <1>2, <1>3, <1>4, <1>5, <1>6, <1>7, <1>8 DEF MemberInv

(* From here on there may be excess.                                       *)
LEMMA KillMeshHookKeeps ==
  ASSUME MemberInv, KillMeshHook
  PROVE  MemberInv'
<1>1. LeftMesh'
  BY DEF MemberInv, LeftMesh, KillMeshHook, askVars, kubeVars
<1>2. LabelsTyped'
  BY DEF MemberInv, LabelsTyped, MeshSteps, KillMeshHook, askVars, kubeVars
<1>3. DecidedInTime'
  BY DEF MemberInv, LeftMesh, DecidedInTime, KillMeshHook, askVars, kubeVars
<1>4. CarriesDecided'
  BY DEF MemberInv, CarriesDecided, KillMeshHook, askVars, kubeVars
<1>5. Disjoint'
  BY DEF MemberInv, Disjoint, KillMeshHook, askVars, kubeVars
<1>6. CarriesLabels'
  BY DEF MemberInv, LeftMesh, DecidedInTime, CarriesDecided, CarriesLabels,
     MeshQuiet, KillMeshHook, askVars, kubeVars
<1>7. KeepsForeignLabels'
  BY MembershipAssumption DEF MemberInv, LabelsTyped, KeepsForeignLabels,
     KillMeshHook, askVars, kubeVars
<1>8. ExcessKnown'
  BY MembershipAssumption DEF MemberInv, LeftMesh, LabelsTyped, DecidedInTime,
     Disjoint, KeepsForeignLabels, ExcessKnown, MeshQuiet, KillMeshHook, askVars,
     kubeVars
<1> QED
  BY <1>1, <1>2, <1>3, <1>4, <1>5, <1>6, <1>7, <1>8 DEF MemberInv

-----------------------------------------------------------------------------
LEMMA MemberStutterKeeps == ASSUME MemberInv, UNCHANGED memberVars PROVE MemberInv'
BY DEF MemberInv, LeftMesh, LabelsTyped, DecidedInTime, CarriesDecided, Disjoint,
   CarriesLabels,
   KeepsForeignLabels, ExcessKnown, MeshQuiet, memberVars, askVars, memberHook, kubeVars

(* The step of the induction, over the actions of the specification.       *)
LEMMA NextKeeps == MemberInv /\ [MemberNext]_memberVars => MemberInv'
<1> SUFFICES ASSUME MemberInv, [MemberNext]_memberVars PROVE MemberInv'
  OBVIOUS
<1>1. CASE \E labels \in SUBSET Labels : JoinMesh(labels)
  BY <1>1, JoinMeshKeeps
<1>2. CASE \E labels \in SUBSET Labels : AskForLabels(labels)
  BY <1>2, AskForLabelsKeeps
<1>3. CASE LeaveMesh
  BY <1>3, LeaveMeshKeeps
<1>4. CASE \E e \in {"changed", "broken"} : StartMeshHook(e)
  BY <1>4, StartMeshHookKeeps
<1>5. CASE ReadLabels
  BY <1>5, ReadLabelsKeeps
<1>6. CASE PatchConfigMap
  BY <1>6, PatchConfigMapKeeps
<1>7. CASE PatchStatefulSet
  BY <1>7, PatchStatefulSetKeeps
<1>8. CASE PatchService
  BY <1>8, PatchServiceKeeps
<1>9. CASE DeleteConfigMap
  BY <1>9, DeleteConfigMapKeeps
<1>10. CASE KillMeshHook
  BY <1>10, KillMeshHookKeeps
<1>11. CASE UNCHANGED memberVars
  BY <1>11, MemberStutterKeeps
<1> QED
  BY <1>1, <1>2, <1>3, <1>4, <1>5, <1>6, <1>7, <1>8, <1>9, <1>10, <1>11 DEF
     MemberNext

(* MemberInv holds throughout, for any labels and any number of kills.     *)
THEOREM MemberInvariant == MemberSpec => []MemberInv
BY MemberInitHolds, NextKeeps, PTL DEF MemberSpec

(* Once no event is owed, the workloads carry what the mesh asks for and   *)
(* what came from elsewhere, and nothing else as long as no hook was       *)
(* killed: reconcile_charm_labels and the ConfigMap do what they promise.  *)
THEOREM LabelsAlwaysFollowMesh == MemberSpec => []LabelsFollowMesh
<1>1. MemberInv => LabelsFollowMesh
  <2> SUFFICES ASSUME MemberInv PROVE LabelsFollowMesh
    OBVIOUS
  <2>1. CarriesLabels /\ KeepsForeignLabels
    BY DEF MemberInv
  <2>2. ASSUME MeshQuiet, kills = 0 PROVE podLabels = asked \cup ForeignLabels /\ svcLabels = podLabels
    BY <2>2 DEF MemberInv, ExcessKnown, MeshQuiet
  <2> QED
    BY <2>1, <2>2 DEF LabelsFollowMesh
<1> QED
  BY <1>1, MemberInvariant, PTL

(* MemberTypeOK, for any constants.                                        *)
THEOREM MemberStaysTyped == MemberSpec => []MemberTypeOK
<1>1. MemberInit => MemberTypeOK
  <2> SUFFICES ASSUME MemberInit PROVE MemberTypeOK
    OBVIOUS
  <2>1. kills \in 0..MaxKills
    BY MembershipAssumption DEF MemberInit
  <2>2. step \in MeshSteps /\ meshHook \in {"none", "changed", "broken"}
    BY DEF MemberInit, MeshSteps
  <2> QED
    BY <2>1, <2>2 DEF MemberInit, MemberTypeOK
<1>2. MemberTypeOK /\ [MemberNext]_memberVars => MemberTypeOK'
  <2> SUFFICES ASSUME MemberTypeOK, [MemberNext]_memberVars PROVE MemberTypeOK'
    OBVIOUS
  <2> USE MembershipAssumption DEF MemberTypeOK, MeshSteps
  <2>1. ASSUME NEW labels \in SUBSET Labels, JoinMesh(labels) \/ AskForLabels(labels) PROVE MemberTypeOK'
    BY <2>1 DEF JoinMesh, AskForLabels, memberHook, kubeVars
  <2>2. ASSUME LeaveMesh PROVE MemberTypeOK'
    BY <2>2 DEF LeaveMesh, memberHook, kubeVars
  <2>3. ASSUME NEW e \in {"changed", "broken"}, StartMeshHook(e) PROVE MemberTypeOK'
    BY <2>3 DEF StartMeshHook, askVars, kubeVars
  <2>4. ASSUME ReadLabels PROVE MemberTypeOK'
    BY <2>4 DEF ReadLabels, askVars
  <2>5. ASSUME PatchConfigMap PROVE MemberTypeOK'
    BY <2>5 DEF PatchConfigMap, askVars
  <2>6. ASSUME PatchStatefulSet PROVE MemberTypeOK'
    BY <2>6 DEF PatchStatefulSet, WithLabels, askVars
  <2>7. ASSUME PatchService PROVE MemberTypeOK'
    BY <2>7 DEF PatchService, WithLabels, EndMeshHook, askVars
  <2>8. ASSUME DeleteConfigMap PROVE MemberTypeOK'
    BY <2>8 DEF DeleteConfigMap, EndMeshHook, askVars
  <2>9. ASSUME KillMeshHook PROVE MemberTypeOK'
    BY <2>9 DEF KillMeshHook, askVars, kubeVars
  <2>10. ASSUME UNCHANGED memberVars PROVE MemberTypeOK'
    BY <2>10 DEF memberVars, askVars, memberHook, kubeVars
  <2> QED
    BY <2>1, <2>2, <2>3, <2>4, <2>5, <2>6, <2>7, <2>8, <2>9, <2>10 DEF MemberNext
<1> QED
  BY <1>1, <1>2, PTL DEF MemberSpec

-----------------------------------------------------------------------------
(* AuthorizesRelated. The invariant says what each party may rely on while *)
(* it owes no event: the databag holds the policies of the relations there *)
(* are, and the cluster, or the reconcile under way, what the databag asks *)
(* for. Every action keeps that because whoever changes one of them owes   *)
(* the other an event.                                                     *)

(* What the manager is to have, of the databag as it is.                   *)
Demanded == {ResourceFor(m) : m \in policyBag} \cup RawPolicies

BagFollowsRelations == ~policyOwed => policyBag = BuildMeshPolicies

ReconcileFollowsBag == ~managerOwed /\ todoPolicies # << >> => todoPolicies[1] = Demanded

ClusterFollowsBag == ~managerOwed /\ todoPolicies = << >> => authorized = Demanded

PolicyInv == BagFollowsRelations /\ ReconcileFollowsBag /\ ClusterFollowsBag

-----------------------------------------------------------------------------
LEMMA PolicyInitHolds == PolicyInit => PolicyInv
BY DEF PolicyInit, PolicyInv, BagFollowsRelations, ReconcileFollowsBag, ClusterFollowsBag

(* Another relation, or another identity: an event is owed of it.          *)
LEMMA RelationsKeep ==
  ASSUME PolicyInv, NEW a \in Callers,
         SendCmrData(a) \/ \E e \in AccessEndpoints : RelateCaller(e, a) \/ UnrelateCaller(e, a)
  PROVE  PolicyInv'
<1>1. policyOwed' = TRUE /\ UNCHANGED <<policyBag, managerOwed, todoPolicies, authorized>>
  BY DEF SendCmrData, RelateCaller, UnrelateCaller
<1>2. Demanded' = Demanded
  BY <1>1 DEF Demanded, ResourceFor
<1> QED
  BY <1>1, <1>2 DEF PolicyInv, BagFollowsRelations, ReconcileFollowsBag, ClusterFollowsBag

(* The databag becomes that of the relations; if it changes, the manager   *)
(* owes an event, and if it does not, all that it relies on is as before.  *)
LEMMA UpdateServiceMeshKeeps == PolicyInv /\ UpdateServiceMesh => PolicyInv'
<1> SUFFICES ASSUME PolicyInv, UpdateServiceMesh PROVE PolicyInv'
  OBVIOUS
<1>1. UNCHANGED <<callersOf, cmr>>
  BY DEF UpdateServiceMesh
<1>2. BagFollowsRelations'
  <2>1. BuildMeshPolicies' = BuildMeshPolicies
    BY <1>1 DEF BuildMeshPolicies, MeshPolicyFor, SourceOf
  <2> QED
    BY <2>1 DEF BagFollowsRelations, UpdateServiceMesh
<1>3. CASE policyBag' = policyBag
  <2>1. Demanded' = Demanded
    BY <1>3 DEF Demanded, ResourceFor
  <2>2. UNCHANGED <<todoPolicies, authorized, managerOwed>>
    BY <1>3 DEF UpdateServiceMesh
  <2> QED
    BY <1>2, <2>1, <2>2 DEF PolicyInv, ReconcileFollowsBag, ClusterFollowsBag
<1>4. CASE policyBag' # policyBag
  <2>1. managerOwed' = TRUE
    BY <1>4 DEF UpdateServiceMesh
  <2> QED
    BY <1>2, <2>1 DEF PolicyInv, ReconcileFollowsBag, ClusterFollowsBag
<1> QED
  BY <1>3, <1>4

(* A reconcile starts from the databag, ends where it wanted to, or fails  *)
(* and owes an event.                                                      *)
LEMMA ReconcileKeeps ==
  ASSUME PolicyInv, StartReconcile \/ DeletePolicy \/ ApplyPolicy \/ EndReconcile \/ FailReconcile
  PROVE  PolicyInv'
<1>0. UNCHANGED <<callersOf, cmr, policyOwed, policyBag>>
  BY DEF StartReconcile, DeletePolicy, ApplyPolicy, EndReconcile, FailReconcile
<1>1. Demanded' = Demanded /\ BuildMeshPolicies' = BuildMeshPolicies
  BY <1>0 DEF Demanded, ResourceFor, BuildMeshPolicies, MeshPolicyFor, SourceOf
<1>2. BagFollowsRelations'
  BY <1>0, <1>1 DEF PolicyInv, BagFollowsRelations
<1>3. CASE StartReconcile
  <2>1. todoPolicies' = << Demanded >>
    BY <1>3 DEF StartReconcile, Demanded
  <2> QED
    BY <1>1, <1>2, <2>1 DEF PolicyInv, ReconcileFollowsBag, ClusterFollowsBag
<1>4. CASE DeletePolicy \/ ApplyPolicy
  <2>1. todoPolicies # << >> /\ UNCHANGED <<managerOwed, todoPolicies>>
    BY <1>4 DEF DeletePolicy, ApplyPolicy
  <2> QED
    BY <1>1, <1>2, <2>1 DEF PolicyInv, ReconcileFollowsBag, ClusterFollowsBag
<1>5. CASE EndReconcile
  BY <1>1, <1>2, <1>5 DEF PolicyInv, ReconcileFollowsBag, ClusterFollowsBag, EndReconcile
<1>6. CASE FailReconcile
  <2>1. managerOwed' = TRUE
    BY <1>6 DEF FailReconcile
  <2> QED
    BY <1>2, <2>1 DEF PolicyInv, ReconcileFollowsBag, ClusterFollowsBag
<1> QED
  BY <1>3, <1>4, <1>5, <1>6

LEMMA PolicyStutterKeeps == ASSUME PolicyInv, UNCHANGED policyVars PROVE PolicyInv'
<1>1. Demanded' = Demanded /\ BuildMeshPolicies' = BuildMeshPolicies
  BY DEF policyVars, Demanded, ResourceFor, BuildMeshPolicies, MeshPolicyFor, SourceOf
<1> QED
  BY <1>1 DEF policyVars, PolicyInv, BagFollowsRelations, ReconcileFollowsBag, ClusterFollowsBag

(* PolicyInv holds throughout, for any relations, policies and failures.   *)
THEOREM PolicyInvariant == PolicySpec => []PolicyInv
<1>1. PolicyInv /\ [PolicyNext]_policyVars => PolicyInv'
  BY RelationsKeep, UpdateServiceMeshKeeps, ReconcileKeeps, PolicyStutterKeeps DEF PolicyNext
<1> QED
  BY <1>1, PolicyInitHolds, PTL DEF PolicySpec

-----------------------------------------------------------------------------
(* What a policy of the databag comes to in the cluster is the access it   *)
(* is about.                                                               *)
LEMMA ResourceIsAccess ==
  ASSUME NEW p \in AccessPolicies, NEW a
  PROVE  Access(ResourceFor(MeshPolicyFor(p, a))) = AccessOf(p, a)
BY DEF Access, AccessOf, ResourceFor, MeshPolicyFor, SourceOf

(* Once nobody owes an event the cluster authorizes every related          *)
(* application on the ports of its policy, and nobody else but for the     *)
(* ready-made policies: update_service_mesh and reconcile together.        *)
THEOREM AlwaysAuthorizesRelated == PolicySpec => []AuthorizesRelated
<1>1. PolicyInv => AuthorizesRelated
  <2> SUFFICES ASSUME PolicyInv, ~policyOwed, ~managerOwed, todoPolicies = << >>
               PROVE  /\ \A p \in AccessPolicies : \A a \in callersOf[p.relation] :
                           \E r \in authorized : Access(r) = AccessOf(p, a)
                      /\ \A r \in authorized \ RawPolicies :
                           \E p \in AccessPolicies : \E a \in callersOf[p.relation] : Access(r) = AccessOf(p, a)
    BY DEF AuthorizesRelated
  <2>1. authorized = {ResourceFor(m) : m \in BuildMeshPolicies} \cup RawPolicies
    BY DEF PolicyInv, BagFollowsRelations, ClusterFollowsBag, Demanded
  <2>2. ASSUME NEW p \in AccessPolicies, NEW a \in callersOf[p.relation]
        PROVE  \E r \in authorized : Access(r) = AccessOf(p, a)
    <3>1. MeshPolicyFor(p, a) \in BuildMeshPolicies
      BY <2>2 DEF BuildMeshPolicies
    <3>2. ResourceFor(MeshPolicyFor(p, a)) \in authorized
      BY <2>1, <3>1
    <3> QED
      BY <3>2, ResourceIsAccess
  <2>3. ASSUME NEW r \in authorized \ RawPolicies
        PROVE  \E p \in AccessPolicies : \E a \in callersOf[p.relation] : Access(r) = AccessOf(p, a)
    <3>1. PICK m \in BuildMeshPolicies : r = ResourceFor(m)
      BY <2>1, <2>3
    <3>2. PICK p \in AccessPolicies : \E a \in callersOf[p.relation] : m = MeshPolicyFor(p, a)
      BY <3>1 DEF BuildMeshPolicies
    <3>3. PICK a \in callersOf[p.relation] : m = MeshPolicyFor(p, a)
      BY <3>2
    <3> QED
      BY <3>1, <3>3, ResourceIsAccess
  <2> QED
    BY <2>2, <2>3
<1> QED
  BY <1>1, PolicyInvariant, PTL

(* The kinds of AuthorizationPolicies.                                     *)
Kinds == {"selector", "service"}

(* PolicyTypeOK, and of what kind is what a reconcile is to make.          *)
PolicyTyped ==
  /\ PolicyTypeOK
  /\ todoPolicies # << >> => todoPolicies = << todoPolicies[1] >> /\ \A r \in todoPolicies[1] : r.kind \in Kinds

(* A mesh policy is of the type of the policy of the charm it is made of.  *)
LEMMA BuiltTyped == \A m \in BuildMeshPolicies : m.type \in {"app", "unit"}
<1> SUFFICES ASSUME NEW m \in BuildMeshPolicies PROVE m.type \in {"app", "unit"}
  OBVIOUS
<1>1. PICK p \in AccessPolicies : \E a \in callersOf[p.relation] : m = MeshPolicyFor(p, a)
  BY DEF BuildMeshPolicies
<1>2. PICK a \in callersOf[p.relation] : m = MeshPolicyFor(p, a)
  BY <1>1
<1>3. MeshPolicyFor(p, a).type = p.type
  BY DEF MeshPolicyFor
<1> QED
  BY <1>2, <1>3, PolicyAssumption

(* PolicyTypeOK, for any constants.                                        *)
THEOREM PolicyStaysTyped == PolicySpec => []PolicyTypeOK
<1>1. PolicyInit => PolicyTyped
  <2> SUFFICES ASSUME PolicyInit PROVE PolicyTyped
    OBVIOUS
  <2>1. Len(todoPolicies) = 0 /\ todoPolicies = << >>
    BY DEF PolicyInit
  <2>2. Len(todoPolicies) <= 1
    BY <2>1
  <2> QED
    BY <2>1, <2>2 DEF PolicyInit, PolicyTyped, PolicyTypeOK
<1>2. PolicyTyped /\ [PolicyNext]_policyVars => PolicyTyped'
  <2> SUFFICES ASSUME PolicyTyped, [PolicyNext]_policyVars PROVE PolicyTyped'
    OBVIOUS
  <2> USE DEF PolicyTyped, PolicyTypeOK
  <2>1. ASSUME NEW e \in AccessEndpoints, NEW a \in Callers, RelateCaller(e, a) \/ UnrelateCaller(e, a)
        PROVE  PolicyTyped'
    BY <2>1 DEF RelateCaller, UnrelateCaller
  <2>2. ASSUME NEW a \in Callers, SendCmrData(a) PROVE PolicyTyped'
    BY <2>2 DEF SendCmrData
  <2>3. ASSUME UpdateServiceMesh PROVE PolicyTyped'
    BY <2>3, BuiltTyped DEF UpdateServiceMesh
  <2>4. ASSUME StartReconcile PROVE PolicyTyped'
    <3> DEFINE all == {ResourceFor(m) : m \in policyBag} \cup RawPolicies
    <3>1. ASSUME NEW r \in all PROVE r.kind \in Kinds
      <4>1. CASE r \in RawPolicies
        BY <4>1, PolicyAssumption DEF Kinds
      <4>2. CASE r \notin RawPolicies
        <5>1. PICK m \in policyBag : r = ResourceFor(m)
          BY <4>2
        <5>2. ResourceFor(m).kind \in Kinds
          BY DEF ResourceFor, Kinds
        <5> QED
          BY <5>1, <5>2
      <4> QED
        BY <4>1, <4>2
    <3>2. todoPolicies' = << all >>
      BY <2>4 DEF StartReconcile
    <3> HIDE DEF all
    <3>3. Len(todoPolicies') = 1 /\ todoPolicies'[1] = all
      BY <3>2
    <3>4. Len(todoPolicies') <= 1
      BY <3>3
    <3> QED
      BY <2>4, <3>1, <3>2, <3>3, <3>4 DEF StartReconcile
  <2>5. ASSUME DeletePolicy PROVE PolicyTyped'
    BY <2>5 DEF DeletePolicy
  <2>6. ASSUME ApplyPolicy PROVE PolicyTyped'
    BY <2>6 DEF ApplyPolicy, Kinds
  <2>7. ASSUME EndReconcile \/ FailReconcile PROVE PolicyTyped'
    <3>1. todoPolicies' = << >>
      BY <2>7 DEF EndReconcile, FailReconcile
    <3>2. Len(todoPolicies') = 0
      BY <3>1
    <3>3. Len(todoPolicies') <= 1
      BY <3>2
    <3> QED
      BY <2>7, <3>1, <3>3 DEF EndReconcile, FailReconcile
  <2>8. ASSUME UNCHANGED policyVars PROVE PolicyTyped'
    BY <2>8 DEF policyVars
  <2> QED
    BY <2>1, <2>2, <2>3, <2>4, <2>5, <2>6, <2>7, <2>8 DEF PolicyNext
<1>3. PolicyTyped => PolicyTypeOK
  BY DEF PolicyTyped
<1> QED
  BY <1>1, <1>2, <1>3, PTL DEF PolicySpec

=============================================================================
