--------------------------- MODULE ResourcePolicy ---------------------------
(***************************************************************************)
(* What background work may use (config.rs): the policy of a resource      *)
(* profile, capped for the machine as it is now, and the doctor that       *)
(* reports it.  On macOS the doctor asks the machine with three commands,  *)
(* each of which may fail, while the user plugs it in and out and works.   *)
(***************************************************************************)
EXTENDS Integers

CONSTANTS
    CoreCounts,         \* what available_parallelism may say
    SlotLimits,         \* limits of slots a user writes, 0 among them
    Bandwidths,         \* limits of bandwidth a user writes
    LoadQuarters,       \* load averages, in quarters
    MaxMachineChanges   \* a bound on what happens to the machine

ASSUME ResourceAssumption ==
    /\ CoreCounts \subseteq Nat \ {0}
    /\ SlotLimits \subseteq Nat /\ Bandwidths \subseteq Nat /\ LoadQuarters \subseteq Nat
    /\ MaxMachineChanges \in Nat

VARIABLES
    machine,    \* the machine, and the configuration file on it
    policyDoctor  \* the command doctor resources: what it has read, and its report

resourceVars == <<machine, policyDoctor>>

(* Option<u64> of the bandwidth: -1 is None. *)
Unlimited == -1
ResourcePolicyLimits == [cpu : Nat, hash : Nat, bandwidth : Nat \cup {Unlimited}]
WrittenLimits == [cpu : SlotLimits, hash : SlotLimits, bandwidth : Bandwidths \cup {Unlimited}]

ResourceProfiles == {"adaptive", "instant", "eco", "custom", "balanced", "performance"}
Canonical(profile) ==
    CASE profile = "balanced" -> "adaptive"
      [] profile = "performance" -> "instant"
      [] OTHER -> profile

(* resource_profile and resource_policy_limits of a LocalConfig. *)
Settings == [profile : ResourceProfiles, configured : BOOLEAN, limits : WrittenLimits]

PowerSources == {"ac", "battery", "unknown"}
ForegroundLoads == {"idle", "busy", "unknown"}
ResourcePolicyContext ==
    [parallelism : CoreCounts, power : PowerSources, lowPower : BOOLEAN, load : ForegroundLoads]

AtLeastOne(n) == IF n < 1 THEN 1 ELSE n
Lower(a, b) == IF a <= b THEN a ELSE b

(* ResourcePolicyLimits::validate, and the two caps. *)
ValidLimits(limits) == limits.cpu # 0 /\ limits.hash # 0 /\ limits.bandwidth # 0

CapCpuAndHash(limits, cpu, hash) ==
    [limits EXCEPT !.cpu = AtLeastOne(Lower(@, AtLeastOne(cpu))),
                   !.hash = AtLeastOne(Lower(@, AtLeastOne(hash)))]

CapNetworkBandwidth(limits, cap) ==
    [limits EXCEPT !.bandwidth = IF @ = Unlimited THEN cap ELSE Lower(@, cap)]

(* ResourcePolicy::for_profile_with_parallelism. *)
Slots(n, bandwidth) == [cpu |-> n, hash |-> n, bandwidth |-> bandwidth]
ForProfile(profile, parallelism) ==
    CASE Canonical(profile) = "instant" -> Slots(parallelism, Unlimited)
      [] Canonical(profile) = "eco" -> Slots(1, 1024)
      [] OTHER -> Slots(AtLeastOne(parallelism \div 2), Unlimited)

\* Mutant: a battery sets the slots instead of capping them.
BatterySets(limits, context) ==
    LET cap == AtLeastOne(context.parallelism \div 4)
    IN  IF context.power = "battery" THEN CapNetworkBandwidth(Slots(cap, limits.bandwidth), 2048) ELSE limits

(* The three steps of adapted_for_context, in its order. *)
OnBattery(limits, context) ==
    LET cap == AtLeastOne(context.parallelism \div 4)
    IN  IF context.power = "battery"
        THEN CapNetworkBandwidth(CapCpuAndHash(limits, cap, cap), 2048) ELSE limits

InForeground(limits, context) ==
    IF context.load = "busy"
    THEN CapNetworkBandwidth(CapCpuAndHash(limits, AtLeastOne(limits.cpu \div 2),
                                           AtLeastOne(limits.hash \div 2)), 4096)
    ELSE limits

InLowPower(limits, context) ==
    IF context.lowPower THEN CapNetworkBandwidth(CapCpuAndHash(limits, 1, 1), 1024) ELSE limits

AdaptedForContext(limits, context) ==
    InLowPower(InForeground(OnBattery(limits, context), context), context)

(* LocalConfig::resource_policy_for_context, before it is adapted. *)
BaseLimits(settings, context) ==
    IF Canonical(settings.profile) = "custom" /\ settings.configured /\ ValidLimits(settings.limits)
    THEN settings.limits ELSE ForProfile(settings.profile, context.parallelism)

PolicyFor(settings, context) == AdaptedForContext(BaseLimits(settings, context), context)

(* ForegroundLoad::from_load_average, at three quarters of the cores. *)
FromLoadAverage(quarters, parallelism) == IF quarters >= 3 * parallelism THEN "busy" ELSE "idle"

(* ResourcePolicyContext::for_parallelism. *)
DefaultContext(parallelism) ==
    [parallelism |-> parallelism, power |-> "unknown", lowPower |-> FALSE, load |-> "unknown"]
-----------------------------------------------------------------------------
ResourceInit ==
    \E n \in CoreCounts, mac \in BOOLEAN, settings \in Settings :
        /\ machine = [parallelism |-> n, mac |-> mac, power |-> "ac", lowPower |-> FALSE,
                      quarters |-> 0, settings |-> settings, changes |-> 0]
        /\ policyDoctor = [pc |-> "start", settings |-> settings, context |-> DefaultContext(n),
                           limits |-> BaseLimits(settings, DefaultContext(n)), warned |-> FALSE]

(* Somebody plugs the machine in or out, saves power, or works on it. *)
MachineChanges ==
    /\ machine.changes < MaxMachineChanges
    /\ \/ \E power \in {"ac", "battery"}, low \in BOOLEAN :
              machine' = [machine EXCEPT !.power = power, !.lowPower = low, !.changes = @ + 1]
       \/ \E quarters \in LoadQuarters :
              machine' = [machine EXCEPT !.quarters = quarters, !.changes = @ + 1]
    /\ UNCHANGED policyDoctor

(* load_or_default_config: a file with a limit of zero does not load.  The *)
(* context starts from its defaults; only macOS asks for more.             *)
LoadSettings ==
    /\ policyDoctor.pc = "start"
    /\ policyDoctor' =
          IF machine.settings.configured /\ ~ValidLimits(machine.settings.limits)
          THEN [policyDoctor EXCEPT !.pc = "failed"]
          ELSE [policyDoctor EXCEPT !.pc = IF machine.mac THEN "power" ELSE "report",
                    !.settings = machine.settings, !.context = DefaultContext(machine.parallelism)]
    /\ UNCHANGED machine

(* pmset -g batt, pmset -g and sysctl -n vm.loadavg: what a command that   *)
(* fails or prints something else would have said stays at its default.    *)
ReadPowerSource ==
    /\ policyDoctor.pc = "power"
    /\ \E power \in {machine.power, "unknown"} :
          policyDoctor' = [policyDoctor EXCEPT !.pc = "lowpower", !.context.power = power]
    /\ UNCHANGED machine

ReadLowPowerMode ==
    /\ policyDoctor.pc = "lowpower"
    /\ \E low \in {machine.lowPower, FALSE} :
          policyDoctor' = [policyDoctor EXCEPT !.pc = "load", !.context.lowPower = low]
    /\ UNCHANGED machine

ReadLoadAverage ==
    /\ policyDoctor.pc = "load"
    /\ \E load \in {FromLoadAverage(machine.quarters, machine.parallelism), "unknown"} :
          policyDoctor' = [policyDoctor EXCEPT !.pc = "report", !.context.load = load]
    /\ UNCHANGED machine

(* run_resource_policy_doctor. *)
RunResourcePolicyDoctor ==
    LET settings == policyDoctor.settings
    IN  /\ policyDoctor.pc = "report"
        /\ policyDoctor' = [policyDoctor EXCEPT !.pc = "done",
                !.limits = PolicyFor(settings, policyDoctor.context),
                !.warned = Canonical(settings.profile) = "custom" /\ ~settings.configured]
        /\ UNCHANGED machine

ResourceNext ==
    \/ MachineChanges \/ LoadSettings
    \/ ReadPowerSource \/ ReadLowPowerMode \/ ReadLoadAverage
    \/ RunResourcePolicyDoctor
-----------------------------------------------------------------------------
AtMost(low, high) ==
    /\ low.cpu <= high.cpu /\ low.hash <= high.hash
    /\ high.bandwidth # Unlimited => low.bandwidth # Unlimited /\ low.bandwidth <= high.bandwidth

(* A context under no more strain than another one of the same machine. *)
Easier(easy, hard) ==
    /\ easy.parallelism = hard.parallelism
    /\ easy.power = "battery" => hard.power = "battery"
    /\ easy.lowPower => hard.lowPower
    /\ easy.load = "busy" => hard.load = "busy"

(* Strain never raises what background work may use: the reported limits   *)
(* are no more than what the profile allows in any context under less      *)
(* strain, the profile's own limits among them; and they never stop it     *)
(* altogether.  Each cap reads what the caps before it left, so this       *)
(* depends on their order and on none of them setting a limit.             *)
StrainNeverRaisesLimits ==
    policyDoctor.pc = "done" =>
        /\ policyDoctor.limits.cpu >= 1 /\ policyDoctor.limits.hash >= 1
        /\ policyDoctor.limits.bandwidth # 0
        /\ AtMost(policyDoctor.limits, BaseLimits(policyDoctor.settings, policyDoctor.context))
        /\ \A easy \in ResourcePolicyContext :
              Easier(easy, policyDoctor.context) =>
                 AtMost(policyDoctor.limits, PolicyFor(policyDoctor.settings, easy))
=============================================================================
