---------------------------- MODULE MeasurementCycle ----------------------------
(***************************************************************************)
(* one_measurement() and the loops around it (src/src/main.cpp): what is   *)
(* started and ended in which order, and what the steps hand to each       *)
(* other.  Tracing, CPUs and meters have modules of their own; of the      *)
(* traces there is only what they leave here, the processes that ran.      *)
(***************************************************************************)
EXTENDS PowerConsumers, ReportTables, Sums

CONSTANTS
  Fixed,        \* sequence of the devices found at start
  UsbDevices,   \* devices that may be plugged in later
  Traces,       \* sequences of [task, runtime, power_charge] that a trace makes
  Usages,       \* functions from devices to the power they may use
  Layouts,      \* of a package, and the numbers of graphics cards in it;
  Gpus,         \* see ReportTables
  Hardware,     \* the parts that have tables: [links, xe], the latter what an Xe
                \* card has: [present, channels, gts, valid, fans]
  SettingStates, \* what the settings may be: [tunables, wakeups]
  Untunables,   \* their number
  SummaryRows, SoftwareRows, \* 10 and 100 in the code
  Columns       \* columns of a table: one more when power is shown

ASSUME ThingsAssumption ==
  /\ IsFiniteSet(Devices) /\ Fixed \in Seq(Devices) /\ UsbDevices \subseteq Devices
  /\ DOMAIN DevString \subseteq Devices
  /\ \A i \in DOMAIN Handles : Handles[i].task \in Tasks
  /\ Traces \subseteq Seq([task : Tasks, runtime : Nat, power_charge : Nat])
  /\ GroupingPrio \in [Devices -> Nat]

ASSUME PowersAssumption ==
  /\ Usages \subseteq [Devices -> Nat]
  /\ \A u \in Usages, d \in Devices : \A n \in 1..(2 * Len(Handles)) : u[d] % n = 0

\* find_create_process makes each task once, and without power.  Sound cards and
\* USB devices register a name (alsa.cpp, usb.cpp), and these are shown.
ASSUME OnceAssumption ==
  /\ Handles \in Seq([task : Tasks, names : SUBSET STRING])
  /\ IsInjective(Fixed)
  /\ \A traced \in Traces : \A i, j \in DOMAIN traced :
       traced[i].power_charge = 0 /\ (traced[i].task = traced[j].task => i = j)
  /\ DOMAIN DevString \cap Unlisted = {}

\* Only cores have CPUs.
Child == {c \in [type : {"Core", "GPU", "none"}, cpus : Nat, collapses : BOOLEAN] :
            IsCore(c) \/ c.cpus = 0}
Layout == [cores : Seq(Child), levels : {l \in SUBSET Int : IsFiniteSet(l)}, frequencies : Nat]

ASSUME TablesAssumption ==
  /\ Layouts \subseteq Layout /\ Gpus \subseteq Nat
  /\ Hardware \subseteq [links : Nat, xe : [present : BOOLEAN, channels : Nat, gts : Nat, valid : Nat, fans : Nat]]
  /\ SettingStates \subseteq [tunables : Seq(STRING), wakeups : Seq(STRING)]
  /\ Untunables \in Nat /\ SummaryRows \in Nat /\ SoftwareRows \in Nat /\ Columns \subseteq Nat

VARIABLES
  pc,           \* the next step of one_measurement
  replaying,    \* the test framework replays a recording
  ran,          \* run time of all processes in the trace
  tables,       \* the tables that the last step wrote
  shown_open    \* what the table of open devices shows

cycleVars == <<pc, replaying, ran>>
consumerVars == <<all_processes, all_proc_devices, all_power>>
deviceVars == <<all_devices, power_usage, hide, guilty>>
reportVars == <<tables, shown_open>>
vars == <<devlistVars, deviceVars, consumerVars, cycleVars, reportVars>>

Init ==
  /\ one = <<>> /\ two = <<>> /\ phase = 0 /\ devpower = <<>>
  /\ all_devices = Fixed
  /\ power_usage = [d \in Devices |-> 0]
  /\ hide = {} /\ guilty = [d \in Devices |-> {}]
  /\ all_processes = <<>> /\ all_proc_devices = <<>> /\ all_power = {}
  /\ pc = "create" /\ replaying \in BOOLEAN
  /\ ran = 0
  /\ tables = {} /\ shown_open = <<>>

Listed == ToSet(all_devices)

\* create_all_usb_devices: what is plugged in by now and not yet known.  The
\* devices, meters, tracing and the CPUs start, of which nothing is kept here.
CreateAllUsbDevices ==
  /\ pc = "create" /\ pc' = "sleep"
  /\ \E plugged \in SUBSET (UsbDevices \ Listed) :
       all_devices' = all_devices \o SetToSeq(plugged)
  /\ ran' = 0 /\ tables' = {} /\ shown_open' = <<>>
  /\ UNCHANGED <<devlistVars, power_usage, hide, guilty, consumerVars, replaying>>

\* devices_end_measurement: nothing registered keeps its power.
Registered(list, devices, usage) ==
  FoldLeft(LAMBDA acc, d : IF d \in DOMAIN DevString THEN RegisterDevpower(acc, d, usage[d]) ELSE acc,
           ClearDevpower(list), devices)

\* The ends, from end_cpu_measurement to end_power_measurement: open devices
\* are collected, then all devices end and register their power.
EndMeasurements ==
  /\ pc = "sleep" /\ pc' = "process"
  /\ CollectOpenDevices
  /\ \E used \in Usages :
       /\ power_usage' = [d \in Devices |-> IF d \in Listed THEN used[d] ELSE 0]
       /\ devpower' = Registered(devpower, all_devices, used)
  /\ guilty' = [d \in Devices |-> IF \E dp \in ToSet(devpower) : dp.dev = d THEN {} ELSE guilty[d]]
  /\ hide' = {}
  /\ UNCHANGED <<all_devices, consumerVars, replaying, ran, reportVars>>

\* process_process_data; nothing of it when a recording is replayed.
ProcessProcessData ==
  /\ pc = "process" /\ pc' = "display"
  /\ IF replaying
     THEN UNCHANGED <<consumerVars, hide, guilty, ran>>
     ELSE \E traced \in Traces :
            LET run == RunDevpowerList(traced)
                merged == MergeProcesses(run.processes)
                consumers == AllDevicesToAllPower(run.hide)
            IN /\ all_processes' = merged
               /\ ran' = FoldLeft(LAMBDA sum, p : sum + p.runtime, 0, traced)
               /\ hide' = run.hide /\ guilty' = run.guilty
               /\ all_proc_devices' = consumers
               /\ all_power' = ProcessesToPower(merged)
                    \cup {<<"device", i>> : i \in (Len(all_proc_devices) + 1)..Len(consumers)}
  /\ UNCHANGED <<devlistVars, all_devices, power_usage, replaying, reportVars>>

UsedConsumers == {r \in all_power : r[1] = "process" \/ all_proc_devices[r[2]].power # 0}

\* process_update_display, report_summary, the CPU tables and
\* report_process_update_display, all from the sorted all_power.
DisplayResults ==
  /\ pc = "display" /\ pc' = "end_data"
  /\ \E plain \in Layouts, gpus \in Gpus, cols \in Columns : LET layout == WithGpus(plain, gpus) IN
       tables' = {SummaryTable(Cardinality(all_power), Cardinality(UsedConsumers), SummaryRows, cols),
                  SoftwareTable(Cardinality(all_power), Cardinality({r \in UsedConsumers : r[1] = "process"}),
                                SoftwareRows, cols)}
                 \cup CStateTables(layout) \cup PStateTables(layout)
  /\ UNCHANGED <<devlistVars, deviceVars, consumerVars, replaying, ran, shown_open>>

\* mutant: the list stays when what it refers to is deleted.
ClearConsumers_KeepsList == all_processes' = <<>> /\ all_proc_devices' = <<>> /\ UNCHANGED all_power

ClearConsumers == all_processes' = <<>> /\ all_proc_devices' = <<>> /\ all_power' = {}

EndProcessData ==
  /\ pc = "end_data" /\ pc' = "reports"
  /\ ClearConsumers
  /\ tables' = {}
  /\ UNCHANGED <<devlistVars, deviceVars, replaying, ran, shown_open>>

\* By power; devices that use the same may come in any order.
ByPower(seq) ==
  {s \in SetToSeqs(ToSet(seq)) : \A i, j \in DOMAIN s : i < j => power_usage[s[i]] >= power_usage[s[j]]}

\* show_report_devices, report_show_open_devices, report_gpu_stats, report_devices
\* and ahci_create_device_stats_table; then store_results and, of a report, the
\* settings, or the next measurement.
ShowReports ==
  /\ pc = "reports" /\ pc' \in {"create", "settings"}
  /\ all_devices' \in ByPower(all_devices)
  /\ shown_open' = ReportedOpenDevices
  /\ \E cols \in Columns, parts \in Hardware :
       tables' = {DevicesTable(Cardinality({d \in Listed : ShowInList(d, hide)}), cols),
                  OpenDevicesTable(ReportedOpenDevices)}
                 \cup GpuTables(parts.xe) \cup AhciTables(parts.links)
  /\ UNCHANGED <<devlistVars, power_usage, hide, guilty, consumerVars, replaying, ran>>

\* make_report: report_show_tunables and report_show_wakeup; then the next of the
\* iterations or the end of the program.
ShowSettings ==
  /\ pc = "settings" /\ pc' \in {"create", "exit"}
  /\ \E first, second \in SettingStates :
       tables' = TunablesTables(first.tunables, second.tunables, Untunables)
                 \cup WakeupTables(first.wakeups, second.wakeups)
  /\ UNCHANGED <<devlistVars, deviceVars, consumerVars, replaying, ran, shown_open>>

\* clean_shutdown; before it main ends the process data once more.
CleanShutdown ==
  /\ pc = "exit" /\ UNCHANGED <<cycleVars, reportVars, phase>>
  /\ ClearConsumers
  /\ one' = <<>> /\ two' = <<>> /\ devpower' = <<>>
  /\ all_devices' = <<>> /\ power_usage' = [d \in Devices |-> 0]
  /\ hide' = {} /\ guilty' = [d \in Devices |-> {}]

Next ==
  \/ CreateAllUsbDevices
  \/ EndMeasurements
  \/ ProcessProcessData
  \/ DisplayResults
  \/ EndProcessData
  \/ ShowReports
  \/ ShowSettings
  \/ CleanShutdown

Spec == Init /\ [][Next]_vars
-----------------------------------------------------------------------------
PowerOf(r) ==
  IF r[1] = "device" THEN all_proc_devices[r[2]].power
  ELSE (CHOOSE p \in ToSet(all_processes) : p.task = r[2]).power_charge

RuntimeOf(r) ==
  IF r[1] = "device" THEN 0
  ELSE (CHOOSE p \in ToSet(all_processes) : p.task = r[2]).runtime

(***************************************************************************)
(* all_power holds plain pointers to objects that all_processes and        *)
(* all_proc_devices own; merging, the end of the process data and          *)
(* clean_shutdown delete them.  Whatever is still listed exists.           *)
(***************************************************************************)
AllPowerLives ==
  \A r \in all_power :
    IF r[1] = "device" THEN r[2] \in DOMAIN all_proc_devices
    ELSE \E p \in ToSet(all_processes) : p.task = r[2]

(***************************************************************************)
(* The power of each device is in the list once: by itself, in the entry   *)
(* of a device with the same path, or divided among those who had it open  *)
(* before or after the measurement, some of which may be merged or gone.   *)
(* Likewise no run time is lost or counted twice by merging.               *)
(***************************************************************************)
NothingLost ==
  pc = "display" /\ ~replaying =>
    /\ SumOf([r \in all_power |-> PowerOf(r)], all_power) = SumOf(power_usage, Listed \ Unlisted)
    /\ SumOf([r \in all_power |-> RuntimeOf(r)], all_power) = ran

(***************************************************************************)
(* After merge_processes no process stands behind one that it belongs to.  *)
(* A thread that ran before its process did is still listed by itself.     *)
(***************************************************************************)
ThreadsFolded ==
  pc = "display" =>
    \A i, j \in DOMAIN all_processes : i < j => ~Folds(all_processes[i], all_processes[j])

(***************************************************************************)
(* The two places that name the users of a device agree although they look *)
(* at different lists: whoever the table of open devices shows with a      *)
(* device is among those the device's description says it was charged to,  *)
(* and such a device is not shown as a consumer of its own.                *)
(***************************************************************************)
OpenersNamed ==
  ~replaying =>
    \A u \in ToSet(shown_open) : \A dp \in ToSet(devpower) :
      dp.device \in u.names => u.task.comm \in guilty[dp.dev] /\ dp.dev \in hide

(***************************************************************************)
(* No table is written beyond its end, those of the CPUs provided that all *)
(* cores of the package have the same number of CPUs, those of the         *)
(* settings provided that nobody changed one while they were written.      *)
(***************************************************************************)
TablesFit == \A t \in tables : t.exact => Fits(t)

(***************************************************************************)
(* The same without the proviso.  review/general-c++.md asks of buffers of *)
(* a fixed size that they provably do not overflow in any condition.       *)
(***************************************************************************)
EveryTableFits == \A t \in tables : Fits(t)
=================================================================================
