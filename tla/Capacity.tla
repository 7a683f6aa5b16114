------------------------------ MODULE Capacity ------------------------------
(***************************************************************************)
(* Can the cluster host the workers of a model at all?  What capacity.py   *)
(* of llm-integrator answers before it deploys them, from options that     *)
(* config.py has let through, next to a Kubernetes that places their pods  *)
(* one by one on whatever node they fit.                                   *)
(*                                                                         *)
(* Simplifications.                                                        *)
(*  - Quantities are numbers of the smallest unit in use.                  *)
(*  - Nothing else runs on the nodes, as the check assumes: it compares    *)
(*    with what is allocatable, not with what is free.                     *)
(***************************************************************************)
EXTENDS Naturals, FiniteSets, FiniteSetsExt, Functions

CONSTANTS
  Nodes,         \* the names of the nodes
  Shapes,        \* the nodes there may be: allocatable resources, taints, unschedulable
  Options,       \* the values the options may be set to
  Defaults,      \* the resources of each accelerator, for options that are not set
  Unset          \* the value of an option that is not set

Quantities == {"cpuRequest", "cpuLimit", "memoryRequest", "memoryLimit"}

ASSUME CapacityAssumption ==
  /\ IsFiniteSet(Nodes) /\ Shapes # {} /\ Options # {} /\ Unset \in Nat
  /\ DOMAIN Defaults = {"cpu", "nvidia-gpu"} /\ \A a \in DOMAIN Defaults : Defaults[a] \in [Quantities -> Nat]
  /\ \A s \in Shapes : s.allocatable \in [{"cpu", "memory", "gpu"} -> Nat]
  /\ \A o \in Options : /\ o.accelerator \in DOMAIN Defaults /\ o.gpuCount \in Nat
                        /\ \A q \in Quantities : o[q] \in Nat
                        /\ o.minReplicas \in Nat /\ o.maxReplicas \in Nat

VARIABLES
  shape,      \* the shape of each node
  options,    \* the options of the charm
  placed      \* how many workers each node hosts

capacityVars == <<shape, options, placed>>

BlockingTaintEffects == {"NoSchedule", "NoExecute"}

(* worker_resources, is_gpu and worker_gpus.                               *)
WorkerResource(o) == IF options[o] = Unset THEN Defaults[options.accelerator][o] ELSE options[o]
IsGpu      == options.accelerator = "nvidia-gpu"
WorkerGpus == IF IsGpu THEN options.gpuCount ELSE 0

(* _check_gpu_options, _check_worker_resources and _check_replicas.        *)
OptionsValid ==
  /\ IsGpu => options.gpuCount >= 1
  /\ \A o \in Quantities : WorkerResource(o) > 0
  /\ WorkerResource("cpuRequest") <= WorkerResource("cpuLimit")
  /\ WorkerResource("memoryRequest") <= WorkerResource("memoryLimit")
  /\ options.minReplicas >= 1 /\ options.minReplicas <= options.maxReplicas

(* _validate_cluster_capacity: the request of a worker, and how many there *)
(* are; in disaggregated mode there are as many prefill as decode workers. *)
Ask == [cpu |-> WorkerResource("cpuRequest"), memory |-> WorkerResource("memoryRequest"), gpu |-> WorkerGpus]
Workers == options.minReplicas * (IF options.prefill THEN 2 ELSE 1)

IsSchedulable(n) == ~shape[n].unschedulable /\ shape[n].taints \cap BlockingTaintEffects = {}

Wanted == {"cpu", "memory"} \cup (IF Ask.gpu > 0 THEN {"gpu"} ELSE {})

WorkerSlots(n) == Min({shape[n].allocatable[r] \div Ask[r] : r \in Wanted})

(* A bug to catch: every resource of the cluster is counted in one heap.   *)
SlotsOfHeap(ns) ==
  Min({FoldFunction(+, 0, [n \in ns |-> shape[n].allocatable[r]]) \div Ask[r] : r \in Wanted})

Slots(ns) == FoldFunction(+, 0, [n \in ns |-> WorkerSlots(n)])

FindCapacityIssue ==
  LET schedulable == {n \in Nodes : IsSchedulable(n)} IN
  IF schedulable = {} THEN "no schedulable nodes"
  ELSE IF Ask.gpu > 0 /\ \A n \in schedulable : shape[n].allocatable["gpu"] < Ask.gpu
  THEN "no node offers the GPUs"
  ELSE IF Slots(schedulable) = 0 THEN "no node fits a worker"
  ELSE IF Slots(schedulable) < Workers THEN "too few workers fit"
  ELSE "none"

-----------------------------------------------------------------------------
CapacityTypeOK ==
  /\ shape \in [Nodes -> Shapes] /\ options \in Options /\ placed \in [Nodes -> Nat]

(* Some nodes, some options: both change.                                  *)
CapacityInit ==
  /\ shape = [n \in Nodes |-> CHOOSE s \in Shapes : TRUE]
  /\ options = CHOOSE o \in Options : TRUE
  /\ placed = [n \in Nodes |-> 0]

(* A node that hosts no worker is replaced, or cordoned, or tainted.       *)
ChangeNode(n, s) ==
  /\ placed[n] = 0 /\ shape[n] # s
  /\ shape' = [shape EXCEPT ![n] = s]
  /\ UNCHANGED <<options, placed>>

Configure(o) ==
  /\ \A n \in Nodes : placed[n] = 0
  /\ options' = o /\ o # options
  /\ UNCHANGED <<shape, placed>>

Unplaced == Workers - FoldFunction(+, 0, placed)

(* Kubernetes binds a pod without tolerations.                             *)
HasRoom(n) ==
  /\ ~shape[n].unschedulable
  /\ "NoSchedule" \notin shape[n].taints /\ "NoExecute" \notin shape[n].taints
  /\ \A r \in {"cpu", "memory", "gpu"} : (placed[n] + 1) * Ask[r] <= shape[n].allocatable[r]

(* Workers are created only from options that are valid.                   *)
Place(n) ==
  /\ OptionsValid /\ Unplaced > 0 /\ HasRoom(n)
  /\ placed' = [placed EXCEPT ![n] = @ + 1]
  /\ UNCHANGED <<shape, options>>

CapacityNext ==
  \/ \E n \in Nodes : Place(n) \/ \E s \in Shapes : ChangeNode(n, s)
  \/ \E o \in Options : Configure(o)
CapacitySpec == CapacityInit /\ [][CapacityNext]_capacityVars

-----------------------------------------------------------------------------
(* The verdict and the scheduler agree: where the check finds no issue the *)
(* scheduler never gets stuck with workers left over, whichever nodes it   *)
(* took for the first of them; where it finds one they never all run.      *)
(* That holds of valid options only, which the check takes for granted     *)
(* ("Requests must be positive, valid Kubernetes quantities").             *)
VerdictHolds ==
  OptionsValid =>
    /\ FindCapacityIssue = "none" /\ Unplaced > 0 => \E n \in Nodes : HasRoom(n)
    /\ FindCapacityIssue # "none" => Unplaced > 0
=============================================================================
