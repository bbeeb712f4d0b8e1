------------------------------ MODULE CpuFrequency ------------------------------
(***************************************************************************)
(* Frequencies and idle states of the CPUs (src/src/cpu/): a tree of       *)
(* packages, cores and CPUs.  At the start and at the end of a measurement *)
(* each CPU reads its counters from sysfs and its core and package add up  *)
(* what their children read.  Then the frequency and idle records of the   *)
(* measurement are handled one by one: a record changes its CPU, the       *)
(* change is carried up the tree to the package, and the package's new     *)
(* frequency is carried down to all its cores and CPUs.                    *)
(*                                                                         *)
(* The nodes are of the classes cpu_linux, cpu_core and cpu_package.  The  *)
(* root of the tree, system_level, sees what its packages see, but nothing *)
(* of it is shown or used.                                                 *)
(***************************************************************************)
EXTENDS Integers, FiniteSets, Sums

CONSTANTS
  Packages, Cores, Cpus,
  parent,        \* of each core and CPU
  Freqs,         \* frequencies; 0 is none, which is shown as "Idle"
  Readings,      \* values of a counter in sysfs
  Unreadable,    \* a counter that cannot be read: the CPU is offline
  MaxStamp       \* bound: the largest time stamp of a record

Nodes == Packages \cup Cores \cup Cpus

ASSUME TreeAssumption ==
  /\ IsFiniteSet(Cores) /\ IsFiniteSet(Cpus)
  /\ Packages \cap Cores = {} /\ Packages \cap Cpus = {} /\ Cores \cap Cpus = {}
  /\ parent \in [Cores \cup Cpus -> Packages \cup Cores]
  /\ \A k \in Cores : parent[k] \in Packages
  /\ \A c \in Cpus : parent[c] \in Cores
  /\ \A n \in Packages \cup Cores : \E m \in Cores \cup Cpus : parent[m] = n

ASSUME FreqsAssumption ==
  /\ Freqs \subseteq Nat /\ 0 \in Freqs /\ IsFiniteSet(Freqs)
  /\ \A S \in SUBSET Freqs : S # {} => \E f \in S : \A g \in S : f >= g

ASSUME ReadingsAssumption ==
  /\ Readings \subseteq Nat /\ Unreadable \notin Readings
  /\ MaxStamp \in Nat

Stamps == 1..MaxStamp

Children == [n \in Nodes |-> {m \in Cores \cup Cpus : parent[m] = n}]

PackageOf == [n \in Nodes |->
  CASE n \in Packages -> n
    [] n \in Cores    -> parent[n]
    [] n \in Cpus     -> parent[parent[n]]]

CpusBelow == [n \in Nodes |-> {c \in Cpus : n \in {c, parent[c], parent[parent[c]]}}]
-----------------------------------------------------------------------------
VARIABLES
  phase,                \* of the measurement: see Phases
  idle, old_idle,       \* per node: what the last record said, and what was
                        \* in force until then
  current_frequency, effective_frequency,
  last_stamp,           \* per node: the last record of its package, 0 for none
  time_after,           \* per node and frequency: `time_after' of its pstates
  cstates,              \* per node: the counters of an idle state
  duration_delta        \* per node: what is shown of the idle state

frequencyVars == <<idle, old_idle, current_frequency, effective_frequency, last_stamp, time_after>>
cstateVars == <<cstates, duration_delta>>
vars == <<phase, frequencyVars, cstateVars>>

Phases == {"off", "measuring", "ended", "processing"}

Counts == [duration_before : Nat, duration_after : Nat, before_count : Nat, after_count : Nat]
NoCounts == [duration_before |-> 0, duration_after |-> 0, before_count |-> 0, after_count |-> 0]

TypeOK ==
  /\ phase \in Phases
  /\ idle \in [Nodes -> BOOLEAN]
  /\ old_idle \in [Nodes -> BOOLEAN]
  /\ current_frequency \in [Nodes -> Freqs]
  /\ effective_frequency \in [Nodes -> Freqs]
  /\ last_stamp \in [Nodes -> 0..MaxStamp]
  /\ time_after \in [Nodes -> [Freqs -> Nat]]
  /\ cstates \in [Nodes -> Counts]
  /\ duration_delta \in [Nodes -> Nat]

NoTime == [n \in Nodes |-> [f \in Freqs |-> 0]]

Init ==
  /\ phase = "off"
  /\ idle = [n \in Nodes |-> FALSE]
  /\ old_idle = [n \in Nodes |-> FALSE]
  /\ current_frequency = [n \in Nodes |-> 0]
  /\ effective_frequency = [n \in Nodes |-> 0]
  /\ last_stamp = [n \in Nodes |-> 0]
  /\ time_after = NoTime
  /\ cstates = [n \in Nodes |-> NoCounts]
  /\ duration_delta = [n \in Nodes |-> 0]
-----------------------------------------------------------------------------
(***************************************************************************)
(* measurement_start and measurement_end.                                  *)
(***************************************************************************)

\* An idle state that is in a CPU's directory when a measurement starts.
Inserted(reading) ==
  IF reading = Unreadable THEN NoCounts
  ELSE [NoCounts EXCEPT !.duration_before = reading, !.before_count = 1]

MeasurementStart(reading) ==
  /\ phase = "off"
  /\ phase' = "measuring"
  /\ idle' = [n \in Nodes |-> FALSE]
  /\ old_idle' = [n \in Nodes |-> TRUE]
  /\ current_frequency' = [n \in Nodes |-> 0]
  /\ last_stamp' = [n \in Nodes |-> 0]
  /\ time_after' = NoTime
  /\ cstates' = [n \in Nodes |-> IF n \in Cpus THEN Inserted(reading[n]) ELSE NoCounts]
  /\ duration_delta' = [n \in Nodes |-> 0]
  /\ UNCHANGED effective_frequency

\* finalize_cstate: a state that was not there at the start is skipped.
Finalized(state, reading) ==
  IF reading = Unreadable \/ state.before_count = 0 THEN state
  ELSE [state EXCEPT !.duration_after = reading, !.after_count = 1]

\* A node adds up its children's states with update_cstate and finalize_cstate.
Merged(states, n) ==
  [duration_before |-> SumOf([m \in Children[n] |-> states[m].duration_before], Children[n]),
   duration_after  |-> SumOf([m \in Children[n] |-> states[m].duration_after], Children[n]),
   before_count    |-> SumOf([m \in Children[n] |-> states[m].before_count], Children[n]),
   after_count     |-> SumOf([m \in Children[n] |-> states[m].after_count], Children[n])]

Delta_AnyCount(state) ==   \* mutant: the counts need not agree
  IF state.after_count = 0 THEN 0
  ELSE (state.duration_after - state.duration_before) \div state.after_count

Delta(state) ==
  IF state.after_count = 0 \/ state.after_count # state.before_count THEN 0
  ELSE (state.duration_after - state.duration_before) \div state.after_count

\* The kernel's times at each frequency, which it counts from boot, are added to
\* the CPU's, and a node adds up its children's.
TimeFromBoot(boot) ==
  LET ofCpus  == [c \in Cpus |-> [f \in Freqs |-> time_after[c][f] + IF f = 0 THEN 0 ELSE boot[c]]]
      ofCores == [k \in Cores |-> [f \in Freqs |->
                   time_after[k][f] + SumOf([m \in Children[k] |-> ofCpus[m][f]], Children[k])]]
  IN [n \in Nodes |->
       CASE n \in Cpus     -> ofCpus[n]
         [] n \in Cores    -> ofCores[n]
         [] n \in Packages -> [f \in Freqs |->
              time_after[n][f] + SumOf([m \in Children[n] |-> ofCores[m][f]], Children[n])]]

MeasurementEnd(reading, boot) ==
  /\ phase = "measuring"
  /\ phase' = "ended"
  /\ \A c \in Cpus : reading[c] # Unreadable => reading[c] >= cstates[c].duration_before
  /\ cstates' =
       LET ofCpus  == [c \in Cpus |-> Finalized(cstates[c], reading[c])]
           ofCores == [k \in Cores |-> Merged(ofCpus, k)]
       IN [n \in Nodes |->
            CASE n \in Cpus     -> ofCpus[n]
              [] n \in Cores    -> ofCores[n]
              [] n \in Packages -> Merged(ofCores, n)]
  /\ duration_delta' = [n \in Nodes |-> Delta(cstates'[n])]
  /\ time_after' = TimeFromBoot(boot)
  /\ UNCHANGED <<idle, old_idle, current_frequency, effective_frequency, last_stamp>>
-----------------------------------------------------------------------------
(***************************************************************************)
(* process_cpu_data and the records.                                       *)
(***************************************************************************)
ResetPstateData ==
  /\ time_after' = NoTime
  /\ cstates' = [n \in Nodes |-> NoCounts]
  /\ UNCHANGED <<idle, old_idle, current_frequency, effective_frequency, last_stamp, duration_delta>>

ProcessCpuData ==
  /\ phase = "ended"
  /\ phase' = "processing"
  /\ ResetPstateData

EndCpuData ==
  /\ phase = "processing"
  /\ phase' = "off"
  /\ ResetPstateData

\* perf_bundle::process sorts the records (see TraceDelivery).
InOrder_Unsorted(time) == TRUE   \* mutant

InOrder(time) == \A n \in Nodes : last_stamp[n] <= time

\* change_effective_frequency: the time since the last record of the package
\* goes to the frequency in force until now.
TimeDelta(n, time) == IF last_stamp[n] = 0 THEN 1 ELSE time - last_stamp[n]

ChargedFrequency_NewIdle(n) == IF idle[n] THEN 0 ELSE effective_frequency[n]   \* mutant

ChargedFrequency(n) == IF old_idle[n] THEN 0 ELSE effective_frequency[n]

\* The package and what the change is carried down to.
Reached_NotCpus(package) ==   \* mutant: cores do not pass it on
  {n \in Packages \cup Cores : PackageOf[n] = package}

Reached(package) == {n \in Nodes : PackageOf[n] = package}

ChangeEffectiveFrequency(package, time, freq) ==
  /\ time_after' = [n \in Nodes |-> IF n \in Reached(package)
       THEN [time_after[n] EXCEPT ![ChargedFrequency(n)] = @ + TimeDelta(n, time)]
       ELSE time_after[n]]
  /\ effective_frequency' =
       [n \in Nodes |-> IF n \in Reached(package) THEN freq ELSE effective_frequency[n]]
  /\ last_stamp' = [n \in Nodes |-> IF n \in Reached(package) THEN time ELSE last_stamp[n]]

\* calculate_freq
AllIdle(isIdle, n) == \A m \in Children[n] : isIdle[m]

Fastest(isIdle, freq, n) == Max({0} \cup {freq[m] : m \in {k \in Children[n] : ~isIdle[k]}})

\* A record says that CPU c is idle or not, or changes its frequency.  The core
\* and the package look at their children, then the package's frequency is in
\* force, and only then does what was idle until now become old.
FreqUpdated(c, time, isIdle, freq) ==
  LET core    == parent[c]
      package == parent[core]
      cpuIdle  == [idle EXCEPT ![c] = isIdle]
      coreIdle == [cpuIdle EXCEPT ![core] = AllIdle(cpuIdle, core)]
      cpuFreq  == [current_frequency EXCEPT ![c] = freq]
      coreFreq == [cpuFreq EXCEPT ![core] = Fastest(cpuIdle, cpuFreq, core)]
  IN
  /\ phase = "processing"
  /\ InOrder(time)
  /\ idle' = [coreIdle EXCEPT ![package] = AllIdle(coreIdle, package)]
  /\ current_frequency' = [coreFreq EXCEPT ![package] = Fastest(coreIdle, coreFreq, package)]
  /\ ChangeEffectiveFrequency(package, time, current_frequency'[package])
  /\ old_idle' = [n \in Nodes |-> IF n \in {c, core, package} THEN idle'[n] ELSE old_idle[n]]
  /\ UNCHANGED <<phase, cstateVars>>

GoIdle(c, time)           == FreqUpdated(c, time, TRUE, current_frequency[c])
GoUnidle(c, time)         == FreqUpdated(c, time, FALSE, current_frequency[c])
ChangeFreq(c, time, freq) == FreqUpdated(c, time, idle[c], freq)
-----------------------------------------------------------------------------
HandleTracePoint(c, time) ==
  \/ GoIdle(c, time)
  \/ GoUnidle(c, time)
  \/ \E freq \in Freqs \ {0} : ChangeFreq(c, time, freq)

Next ==
  \/ \E reading \in [Cpus -> Readings \cup {Unreadable}] : MeasurementStart(reading)
  \/ \E reading \in [Cpus -> Readings \cup {Unreadable}], boot \in [Cpus -> Readings] :
       MeasurementEnd(reading, boot)
  \/ ProcessCpuData
  \/ \E c \in Cpus, time \in Stamps : HandleTracePoint(c, time)
  \/ EndCpuData

Spec == Init /\ [][Next]_vars
-----------------------------------------------------------------------------
(***************************************************************************)
(* Properties.                                                             *)
(***************************************************************************)

\* All columns of a package are percentages of the same time: its nodes have
\* handled the same records, and none lost or gained time over the others,
\* although each keeps its own stamp and takes part in it in a different way
\* (abstract_cpu::change_effective_frequency, total_pstate_time).
SameTotals ==
  phase = "processing" =>
    \A n, m \in Nodes : PackageOf[n] = PackageOf[m] =>
      /\ last_stamp[n] = last_stamp[m]
      /\ SumOf(time_after[n], Freqs) = SumOf(time_after[m], Freqs)

\* What is shown for the idle state of a core or a package is the mean of what is
\* shown for its CPUs, if each CPU that had the state at the start of the
\* measurement has it at the end; else nothing is shown, never a difference of
\* sums over different CPUs (abstract_cpu::measurement_end).
ResidencyIsMean ==
  phase = "ended" =>
    \A n \in Cores \cup Packages :
      LET counted == {c \in CpusBelow[n] : cstates[c].before_count = 1} IN
      duration_delta[n] =
        IF counted # {} /\ \A c \in counted : cstates[c].after_count = 1
        THEN SumOf(duration_delta, counted) \div Cardinality(counted)
        ELSE 0

\* While records are handled, each node has the time at each frequency that
\* FrequencyTime gives it, however the records of its CPUs alternate, whatever the
\* measurement before it left, and whatever sysfs said before: the flags and
\* frequencies that calculate_freq and change_effective_frequency pass along the
\* tree are never those of another moment.
Shown(value, none) == IF phase = "processing" THEN value ELSE none

Truth == INSTANCE FrequencyTime WITH
  below      <- CpusBelow,
  top        <- PackageOf,
  accounting <- phase = "processing",
  seen       <- Shown({c \in Cpus : idle[c] = old_idle[c]}, {}),
  busy       <- Shown({c \in Cpus : ~old_idle[c]}, {}),
  frequency  <- [c \in Cpus |-> Shown(current_frequency[c], 0)],
  stamp      <- [n \in Nodes |-> Shown(IF n \in Packages THEN last_stamp[n] ELSE 0, 0)],
  spent      <- Shown(time_after, NoTime)

AccountsTruly == Truth!Spec
=================================================================================
