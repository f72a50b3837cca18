----------------------------- MODULE Scheduler -----------------------------
(***************************************************************************)
(* Choosing the device that runs a task (scheduler_constraints.rs and      *)
(* scheduler_score.rs): a device is eligible when none of the constraints  *)
(* of the task rejects it, an eligible device gets a weighted mean of      *)
(* eleven component scores in 0..1000, and the best one, on a tie the one  *)
(* with the smallest identifier, is selected.  The signals of the devices  *)
(* are measured and change one at a time; a selection is computed from the *)
(* current ones.                                                           *)
(***************************************************************************)
EXTENDS Integers, Sequences, FiniteSets

CONSTANTS
    TargetDevices,      \* numbers, in the order of the device identifiers
    Hardware,           \* [TargetDevices -> what does not change of a device]
    MaxSignalChanges    \* a bound: how many measurements change

ASSUME SchedulerAssumption ==
    /\ IsFiniteSet(TargetDevices) /\ TargetDevices \subseteq Nat
    /\ MaxSignalChanges \in Nat
    /\ \A d \in TargetDevices :
          {Hardware[d].cores, Hardware[d].memory, Hardware[d].disk} \subseteq Nat

VARIABLES
    task,           \* the definition of the task to place
    signals,        \* [TargetDevices -> [SignalNames -> position in SignalScale, 0: unmeasured]]
    signalChanges

schedulerVars == <<task, signals, signalChanges>>

(* The values a signal is tried with, from the worst for the device to the *)
(* best.  Loads are in thousandths of a core, sizes in MiB.                *)
PerMille == <<0, 400, 1000, 1200>>
SignalScale ==
    [ cacheWarmth |-> PerMille, dataLocality |-> PerMille,
      historicalSpeed |-> PerMille, userAffinity |-> PerMille,
      cpuLoad |-> <<9000, 1500, 0>>, freeMemory |-> <<100, 512, 3000>>,
      freeDisk |-> <<100, 512, 3000>>, transferCost |-> <<9000, 2048, 0>>,
      lowPower |-> <<TRUE, FALSE>>, power |-> <<"battery", "ac">>,
      network |-> <<"poor", "fair", "good", "excellent">>,
      foreground |-> <<"busy", "idle">>,
      thermal |-> <<"critical", "serious", "fair", "nominal">>,
      allowTaskExecution |-> <<FALSE, TRUE>> ]
SignalNames == DOMAIN SignalScale
AlwaysMeasured == {"lowPower", "allowTaskExecution"}

Unmeasured(d, s) == signals[d][s] = 0
Signal(d, s) == SignalScale[s][signals[d][s]]

Lesser(a, b) == IF a < b THEN a ELSE b
-----------------------------------------------------------------------------
(* resource_is_insufficient: without a measurement the capacity decides,   *)
(* and without a capacity the answer is that there is not enough.          *)
Insufficient(required, d, s, capacity) ==
    IF Unmeasured(d, s) THEN capacity = 0 \/ capacity < required
    ELSE Signal(d, s) < required

(* evaluate_scheduler_constraints: no rejection. *)
Eligible(d) ==
    /\ Signal(d, "allowTaskExecution")
    /\ task.platforms # {} => Hardware[d].platform \in task.platforms
    /\ task.features \subseteq Hardware[d].features
    /\ task.cpu <= Hardware[d].cores
    /\ task.memory > 0 => ~Insufficient(task.memory, d, "freeMemory", Hardware[d].memory)
    /\ task.disk > 0 => ~Insufficient(task.disk, d, "freeDisk", Hardware[d].disk)

(* infer_scheduler_task_class; no definition is given the class background. *)
TaskClass ==
    IF task.interactive THEN "interactive"
    ELSE IF task.namedTest THEN "test"
    ELSE IF task.outputs THEN "build" ELSE "batch"

Components ==
    <<"cacheWarmth", "idleCpu", "freeMemory", "powerPreference", "dataLocality",
      "networkQuality", "historicalSpeed", "userAffinity", "transferCost",
      "foreground", "thermal">>

(* SchedulerScoreWeights::for_task_class, in the order of Components. *)
Weights ==
    [ interactive |-> <<80, 160, 110, 70, 80, 120, 80, 180, 80, 170, 70>>,
      test        |-> <<170, 160, 130, 50, 120, 80, 130, 70, 100, 90, 60>>,
      build       |-> <<150, 150, 150, 50, 140, 80, 140, 50, 120, 80, 80>>,
      batch       |-> <<100, 130, 120, 90, 120, 90, 120, 60, 140, 80, 90>> ]

Unknown == 600                  \* DEFAULT_UNKNOWN_SCORE

BoundedSignal(d, s) == IF Unmeasured(d, s) THEN Unknown ELSE Lesser(Signal(d, s), 1000)

IdleCpuScore(d) ==
    LET capacity == (IF Hardware[d].cores = 0 THEN 1 ELSE Hardware[d].cores) * 1000
    IN  IF Unmeasured(d, "cpuLoad") THEN Unknown
        ELSE ((capacity - Lesser(Signal(d, "cpuLoad"), capacity)) * 1000) \div capacity

(* Against the requirement of the task, otherwise against all of the memory. *)
FreeMemoryScore(d) ==
    LET whole == IF task.memory > 0 THEN task.memory ELSE Hardware[d].memory
    IN  IF Unmeasured(d, "freeMemory") \/ whole = 0 THEN Unknown
        ELSE (Lesser(Signal(d, "freeMemory"), whole) * 1000) \div whole

PowerPreferenceScore(d) ==
    IF Signal(d, "lowPower") THEN 250
    ELSE IF Unmeasured(d, "power") THEN 700
    ELSE [ac |-> 1000, battery |-> 350][Signal(d, "power")]

Graded(d, s, grades) == IF Unmeasured(d, s) THEN Unknown ELSE grades[Signal(d, s)]

NetworkGrades == [excellent |-> 1000, good |-> 800, fair |-> 550, poor |-> 250]
ForegroundGrades == [idle |-> 1000, busy |-> 250]
ThermalGrades == [nominal |-> 1000, fair |-> 750, serious |-> 300, critical |-> 0]

TransferPenalty(d) == (Lesser(Signal(d, "transferCost"), 8192) * 1000) \div 8192
\* Mutant: the penalty is the score, as if a dear transfer were a merit.
DearTransferScore(d) ==
    IF Unmeasured(d, "transferCost") THEN Unknown ELSE TransferPenalty(d)
TransferCostScore(d) ==
    IF Unmeasured(d, "transferCost") THEN Unknown ELSE 1000 - TransferPenalty(d)

ComponentScores(d) ==
    <<BoundedSignal(d, "cacheWarmth"), IdleCpuScore(d), FreeMemoryScore(d),
      PowerPreferenceScore(d), BoundedSignal(d, "dataLocality"),
      Graded(d, "network", NetworkGrades), BoundedSignal(d, "historicalSpeed"),
      BoundedSignal(d, "userAffinity"), TransferCostScore(d),
      Graded(d, "foreground", ForegroundGrades), Graded(d, "thermal", ThermalGrades)>>

Total(numbers) ==
    LET sum[i \in 0..Len(numbers)] == IF i = 0 THEN 0 ELSE sum[i - 1] + numbers[i]
    IN  sum[Len(numbers)]

(* score_scheduler_candidate_with_class, for an eligible device. *)
Score(d) ==
    LET weights == Weights[TaskClass]
        scores == ComponentScores(d)
        points == [i \in DOMAIN Components |-> scores[i] * weights[i]]
    IN  Lesser(Total(points) \div Total(weights), 1000)

(* select_scheduler_target: the first of the eligible ones, sorted by      *)
(* falling score and then by identifier; empty when there is none.         *)
Selected ==
    LET score == [d \in TargetDevices |-> IF Eligible(d) THEN Score(d) ELSE 0]
    IN  {d \in TargetDevices :
            /\ Eligible(d)
            /\ \A o \in TargetDevices \ {d} :
                  Eligible(o) => \/ score[o] < score[d]
                                 \/ score[o] = score[d] /\ d < o}
-----------------------------------------------------------------------------
TaskSizes == {[cpu |-> 0, memory |-> 0, disk |-> 0], [cpu |-> 2, memory |-> 512, disk |-> 512]}

SchedulerInit ==
    /\ \E class \in DOMAIN Weights, size \in TaskSizes, picky \in BOOLEAN :
          task = [interactive |-> class = "interactive", namedTest |-> class = "test",
                  outputs |-> class = "build",
                  platforms |-> IF picky THEN {"linux-gnu"} ELSE {},
                  features |-> IF picky THEN {"symlinks"} ELSE {},
                  cpu |-> size.cpu, memory |-> size.memory, disk |-> size.disk]
    /\ signals = [d \in TargetDevices |->
                    [s \in SignalNames |-> IF s \in AlwaysMeasured THEN 2 ELSE 0]]
    /\ signalChanges = 0

(* A new snapshot of a device (collect_local_scheduler_device) or a new    *)
(* measurement of it (SchedulerScoreMeasurements) has another value.       *)
MeasureSignal(d, s) ==
    /\ signalChanges < MaxSignalChanges
    /\ \E i \in (IF s \in AlwaysMeasured THEN 1 ELSE 0)..Len(SignalScale[s]) :
          /\ i # signals[d][s]
          /\ signals' = [signals EXCEPT ![d][s] = i]
    /\ signalChanges' = signalChanges + 1
    /\ UNCHANGED task

SchedulerNext == \E d \in TargetDevices, s \in SignalNames : MeasureSignal(d, s)
-----------------------------------------------------------------------------
(* A measured signal of d has become better and nothing else has changed. *)
Improves(d) ==
    /\ signals' # signals
    /\ \A o \in TargetDevices \ {d} : signals'[o] = signals[o]
    /\ \A s \in SignalNames :
          signals'[d][s] # signals[d][s] => 0 < signals[d][s] /\ signals[d][s] < signals'[d][s]

(* A device that is selected stays selected when one of its measurements   *)
(* gets better: constraints, component scores, weights, rounding and the   *)
(* tie break of select_scheduler_target pull in the same direction.        *)
BetterSignalsKeepTheTask ==
    [][\A d \in TargetDevices : Improves(d) /\ Selected = {d} => Selected' = {d}]_schedulerVars
=============================================================================
