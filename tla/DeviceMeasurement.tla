---------------------------- MODULE DeviceMeasurement ----------------------------
(***************************************************************************)
(* One device, looked for and created, over several measurements, on a machine    *)
(* that works, changes its levels, loses the device or a CPU and gets it   *)
(* back; then the replay of what was recorded (src/src/devices/,           *)
(* src/src/cpu/ and src/src/test_framework.cpp).  "unit" says what kind of *)
(* device there is and on which model of CPU.                              *)
(***************************************************************************)
EXTENDS DeviceCreation, DevicePower, DevfreqStates

CONSTANTS
  Units,            \* the devices: [class, model]
  Packages,         \* the states that packages are in, by model
  Started,          \* values of the counters when powertop starts
  MaxMeasurements,  \* bound
  MaxTicks,         \* bound of the clock
  MaxFaults         \* bound of the times that something is lost

Classes ==
  ShareClasses \cup {"rapl_powercap", "rapl_msr", "xe_energy", "nic", "devfreq", "core", "package", "cpu",
                     "rc6", "xe_gts"}

\* What tells the models of a class apart matters to Intel's CPUs and to RAPL.
ASSUME UnitsAssumption ==
  \A u \in Units :
    /\ u.class \in Classes
    /\ u.class \in {"core", "package"} => u.model \in Models
    /\ u.class \in {"rapl_powercap", "rapl_msr"} => u.model \in Domains

ASSUME PackagesAssumption ==
  \A model \in Models : Packages[model] \subseteq {"c0"} \cup PackageStates(model)

\* Counters start anywhere; the times of a measurement fit into what is subtracted.
ASSUME BoundsAssumption ==
  /\ Started \subseteq Nat
  /\ MaxMeasurements \in Nat /\ MaxTicks \in Nat /\ MaxFaults \in Nat
  /\ Wide \in Nat /\ Wide > MaxTicks

\* What is in the files that have no number.
ASSUME ContentsAssumption ==
  /\ Absent # {"pp0", "dram"}
  /\ Absent \notin Seq(Seq(Nat))

VARIABLES
  unit,         \* the device
  present,      \* powertop knows it
  phase,        \* of powertop
  device,       \* its fields
  results,      \* what is reported: by name
  power,        \* what the device is charged for its results
  number,       \* the measurement
  \* history
  whole,        \* the measurement could be read, and nothing was lost within it
  began,        \* the machine when the measurement started
  spent,        \* [key -> what was counted since then]
  truths,       \* of the recorded measurements: [present, whole, shown]
  used,         \* energy or packets since the creation
  charged,      \* of them, charged to the device
  faults        \* times that something was lost

history == <<whole, began, spent, truths, used, charged, faults>>
vars == <<unit, phase, present, device, results, power, number, mode, kernel, gone, records, queues,
          whole, began, spent, truths, used, charged, faults>>

Class == unit.class
Model == unit.model
IsShare  == Class \in ShareClasses
IsRapl   == Class \in {"rapl_powercap", "rapl_msr"}
IsIntel  == Class \in {"core", "package", "cpu"}
IsLevels == Class \in {"backlight", "rfkill", "fan", "light", "xe_fan"}
IsTimes  == Class \in {"runtime_pm", "alsa", "ahci"}
IsCounted == IsRapl \/ Class \in {"xe_energy", "nic"}

(***************************************************************************)
(* The machine, as the kernel and the hardware show it.                    *)
(***************************************************************************)
HardwareRegister(state) ==
  M(IF Class = "package" /\ Model = "braswell" /\ state = "c6" THEN "c7" ELSE state)

EnergyCounter ==
  CASE Class = "rapl_msr"      -> EnergyMsr(Model)
    [] Class = "rapl_powercap" -> EnergyFile(Model)
    [] Class = "xe_energy"     -> Channel
    [] Class = "nic"           -> Packets

\* What the device may do for a tick of the clock.
Activities ==
  CASE Class = "usb" -> {"active", "idle"}
    [] IsLevels -> {"idle"}
    [] IsTimes ->
         IF Class = "ahci" /\ kernel[Accounting] = 0 THEN {"unknown"} ELSE ShareFiles[Class]
    [] IsCounted -> {"idle", "works"}
    [] Class = "devfreq" -> {"low", "high", "idle"}
    [] Class = "core" -> {"c0"} \cup CoreStates(Model)
    [] Class = "package" -> Packages[Model]
    [] Class = "cpu" -> {"idle", "slow", "fast"}
    [] Class = "rc6" -> Rc6States \cup {"on"}
    [] Class = "xe_gts" -> SUBSET Gts

\* What that adds to the counters.
Worked(activity) ==
  CASE Class = "usb" -> Once({R("connected")} \cup IF activity = "active" THEN {R("active")} ELSE {})
    [] IsLevels -> Once({})
    [] IsTimes -> Once(IF activity = "unknown" THEN {} ELSE {R(activity)})
    [] IsCounted -> All({EnergyCounter}, IF activity = "works" THEN 2 ELSE 0)
    [] Class = "devfreq" -> Once(IF activity = "idle" THEN {} ELSE {R(activity)})
    [] Class \in {"core", "package"} ->
         All({Tsc} \cup IF activity = "c0" THEN {} ELSE {HardwareRegister(activity)}, 2)
    [] Class = "cpu" ->
         Over(All({Tsc} \cup IF activity = "idle" THEN {} ELSE {Mperf}, 2),
              All({Aperf}, CASE activity = "fast" -> 3 [] activity = "slow" -> 1 [] OTHER -> 0))
    [] Class = "rc6" -> Once(IF activity = "on" THEN {} ELSE {R(activity)})
    [] Class = "xe_gts" -> Once({R(g) : g \in activity})

Counted(activity) == Over(Once({Now}), Worked(activity))

CounterKeys ==
  CASE Class = "usb" -> {R("active"), R("connected")}
    [] IsLevels -> {}
    [] IsTimes -> {R(f) : f \in ShareFiles[Class]}
    [] IsCounted -> {EnergyCounter}
    [] Class = "devfreq" -> {R("low"), R("high")}
    [] Class \in {"core", "package"} -> {Tsc, M("c6"), M("c7")} \cup {M(s) : s \in StatesOf(Class, Model)}
    [] Class = "cpu" -> {Tsc, Aperf, Mperf}
    [] Class = "rc6" -> {R(s) : s \in Rc6States}
    [] Class = "xe_gts" -> {R(g) : g \in Gts}

\* A devfreq device has a table of its counters in one file.
AsFiles(counters) ==
  IF Class = "devfreq"
  THEN All({TransStat}, <<<<1, counters[R("low")]>>, <<2, counters[R("high")]>>>>)
  ELSE counters

Level(f) ==
  CASE f \in {"hard", "soft", "dpms"} -> {0, 1}
    [] f = "level" /\ Class = "light" -> {0, 255}
    [] f = "max" -> {2}
    [] f = "link" -> IF Model = "wired" THEN {0, 1} ELSE {1}
    [] f = "speed" -> IF Model = "wired" THEN {10, 2500} ELSE {300}
    [] f \in {"up", "saving"} -> IF Model = "wireless" THEN {0, 1} ELSE {1}
    [] OTHER -> {0, 2}

LevelKeys ==
  CASE IsLevels -> {R(f) : f \in ShareFiles[Class]}
    [] Class = "nic" -> {I(f) : f \in {"link", "speed", "up", "saving"}}
    [] OTHER -> {}

\* The entries by which powertop finds the device.
Entries ==
  CASE Class = "usb" -> {A("active")}
    [] Class = "alsa" -> {A("on")}
    [] Class = "backlight" -> {D("backlight")}
    [] Class = "nic" -> {D("net")}
    [] Class = "rfkill" -> {D("rfkill"), R("name")}
    [] Class = "fan" -> {A("rate")}
    [] Class = "light" -> {A("level")}
    [] Class = "runtime_pm" -> {D("bus")}
    [] Class = "xe_energy" -> {D("hwmon"), A("power1_label"), A("energy1")}
    [] Class = "xe_fan" -> {D("hwmon"), A("rate")}
    [] Class = "devfreq" -> {D("devfreq")}
    [] Class = "rc6" -> {D("drm"), A("rc6")}
    [] Class = "xe_gts" -> {D("drm")} \cup {A(g) : g \in Gts}
    [] OTHER -> {}

\* The class of a USB device, the switch of SATA's accounting, what sysfs lists and
\* the registers of the other domains.
Settings ==
  CASE Class = "usb" -> All({R("bDeviceClass")}, IF Model = "hub" THEN HubClass ELSE 0)
    [] Class = "ahci" -> All({Accounting}, 0)
    [] Class = "rapl_powercap" -> All({Powercap}, {"pp0", "dram"})
    [] Class = "rapl_msr" ->
         Over(All({Powercap}, Absent), All({EnergyMsr(d) : d \in Domains \ {Model}}, 0))
    [] OTHER -> Once({})

Fixed == Over(Once(Entries), Settings)

Machine(value, levels) ==
  Over(AsFiles(All(CounterKeys, value)), Over(levels, Over(Fixed, All({Now}, TicksPerSecond))))

Advanced(machine, counted) ==
  [k \in DOMAIN machine |->
     CASE k = TransStat ->
            [i \in 1..2 |-> LET f == R(IF i = 1 THEN "low" ELSE "high")
                            IN <<i, machine[k][i][2] + IF f \in DOMAIN counted THEN counted[f] ELSE 0>>]
       [] k \in DOMAIN counted -> machine[k] + counted[k]
       [] OTHER -> machine[k]]

\* Hardware keeps its counters, whatever becomes of the drivers and of the CPU.
KeepsCounters == IsRapl \/ IsIntel \/ Class = "xe_energy"

(***************************************************************************)
(* The device.                                                             *)
(***************************************************************************)
New ==
  CASE IsShare -> NewShareDevice(Class)
    [] IsRapl -> NewRaplDevice
    [] Class = "xe_energy" -> NewXeDevice
    [] Class = "nic" -> NewNic
    [] Class = "devfreq" -> NewDevfreq
    [] Class \in {"core", "package"} -> NewUnit
    [] Class = "cpu" -> NewCpu
    [] Class = "rc6" -> NewGpu(Rc6States)
    [] Class = "xe_gts" -> NewGpu(Gts)

Listing == ReadContent(Powercap, 1)

\* The registers of a RAPL domain are read by the interface and by the device.
RaplReads ==
  LET looked == InterfaceReads(Listing)
      rapl == RaplInterface(Listing)
      own == IF Model \in rapl.domains THEN {EnergyKey(rapl, Model)} ELSE {}
  IN Over(All(own, IF rapl.powercap THEN 1 ELSE 2), Over(Once({Now}), looked))

CreateReads == IF IsRapl THEN RaplReads ELSE LookFor(Class).reads

Created(got) ==
  CASE IsRapl -> RaplCreated(RaplInterface(Listing), Model, got)
    [] Class = "xe_energy" -> XeCreated(got)
    [] Class = "usb" -> NewUsb(got[R("bDeviceClass")])
    [] OTHER -> New

\* USB devices are looked for again before each measurement.
LookAgain ==
  CASE Class = "usb" /\ ~present -> LookForUsb
    [] Class = "usb" /\ present -> LookForKnownUsb
    [] OTHER -> Look({}, present)

\* powertop learns when it has started and after each measurement but the first; for
\* a report it learns at the end only.  There are results enough to learn from.
Learned == Model # "reported" /\ number # 1

\* The device when the measurement starts: one that is new was not there to learn of.
AtStart(got) ==
  CASE Class = "usb" /\ ~present -> NewUsb(got[R("bDeviceClass")])
    [] Class = "usb" /\ present /\ Learned -> PrecomputeValid(device)
    [] OTHER -> device

DeviceStartReads ==
  CASE IsShare -> Once({R(f) : f \in StartFiles(Class)})
    [] IsRapl -> IF device.valid THEN Once({Now, EnergyKey(device.rapl, Model)}) ELSE Once({})
    [] Class = "xe_energy" -> XeStartReads(device)
    [] Class = "nic" -> NicReads(device, kernel[Now])
    [] Class = "devfreq" -> Once({Now, TransStat})
    [] Class \in {"core", "package"} -> UnitReads(Class, Model)
    [] Class = "cpu" -> CpuReads
    [] Class = "rc6" -> Rc6Reads
    [] Class = "xe_gts" -> XeReads

StartReads == Over(LookAgain.reads, IF LookAgain.found THEN DeviceStartReads ELSE Once({}))

\* The files of a device by their names.
Files(got) == [f \in {k[2] : k \in DOMAIN got} |-> got[R(f)]]

DeviceStarted(d, got) ==
  CASE IsShare -> ShareStarted(Class, d, Files(got))
    [] IsRapl -> IF d.valid THEN RaplStarted(d, Model, got) ELSE d
    [] Class = "xe_energy" -> XeStarted(d, got)
    [] Class = "nic" -> NicStarted(d, got, kernel[Now])
    [] Class = "devfreq" -> DevfreqStarted(got)
    [] Class \in {"core", "package"} -> UnitStarted(Class, Model, got)
    [] Class = "cpu" -> CpuStarted(got)
    [] Class = "rc6" -> GpuStarted(d, Rc6States, got)
    [] Class = "xe_gts" -> GpuStarted(d, Gts, got)

DeviceEndReads ==
  CASE IsShare -> Once({R(f) : f \in EndFiles(Class)})
    [] IsRapl -> IF device.valid THEN RaplEndReads(device, Model, ReadContent(Now, 1)) ELSE Once({})
    [] Class = "xe_energy" -> XeEndReads(device, ReadContent(Now, 1))
    [] OTHER -> DeviceStartReads

EndReads == IF present THEN DeviceEndReads ELSE Once({})

DeviceEnded(got) ==
  CASE IsShare -> ShareEnded(Class, device, Files(got))
    [] IsRapl -> IF device.valid THEN RaplEnded(device, Model, got) ELSE device
    [] Class = "xe_energy" -> XeEnded(device, got)
    [] Class = "nic" -> NicCharged(NicEnded(device, got, kernel[Now]))
    [] Class = "devfreq" -> DevfreqEnded(device, got)
    [] Class \in {"core", "package"} -> UnitEnded(Class, Model, device, got)
    [] Class = "cpu" -> CpuEnded(device, got)
    [] Class = "rc6" -> GpuEnded(device, Rc6States, got)
    [] Class = "xe_gts" -> GpuEnded(device, Gts, got)

Reported(d) ==
  CASE IsShare -> Over(ShareReports(Class, d), results)
    [] Class = "nic" -> NicReports(d)
    [] Class = "xe_gts" -> XeBusy(d, results)
    [] OTHER -> results

\* The power of devices that are charged for their results.
Charged(d, reported) ==
  CASE IsShare -> SharePower(Class, d, reported)
    [] Class = "nic" -> NicPower(d.valid, reported)
    [] OTHER -> 0

(***************************************************************************)
(* What is shown of a measurement, and what happened.                      *)
(***************************************************************************)
ShownNow ==
  CASE IsShare -> [share |-> ShareUtilization(Class, device), charge |-> power]
    [] Class = "nic" -> [results |-> results, charge |-> power]
    [] IsRapl -> RaplPower(device)
    [] Class = "xe_energy" -> XePower(device)
    [] Class = "devfreq" -> FillFreqUtilization(device)
    [] Class \in {"core", "package"} -> Residencies(device)
    [] Class = "cpu" -> [mhz |-> AvgFreq(device, 0)]
    [] Class = "rc6" -> Rc6Lines(device)
    [] Class = "xe_gts" -> results

\* The share of the measurement that a counter ran.
Spent(f) == Percent(spent[R(f)], spent[Now])

\* A level counts as the mean of its values at the start and at the end.
Mean(f) == (began[R(f)] + kernel[R(f)]) \div 2
Blocked(machine) == machine[R("hard")] = 1 \/ machine[R("soft")] = 1

HappenedShare ==
  CASE Class = "runtime_pm" -> Spent("active")
    [] Class = "usb" -> Spent("active")
    [] Class = "alsa" -> Spent("on")
    [] Class = "ahci" -> Percent(spent[R("active")] + spent[R("partial")], spent[Now])
    [] Class = "backlight" -> Percent(Mean("level"), kernel[R("max")])
    [] Class = "rfkill" ->
         50 * Cardinality({m \in {1, 2} : ~Blocked(IF m = 1 THEN began ELSE kernel)})
    [] Class = "fan" -> Mean("rate")
    [] Class = "xe_fan" -> kernel[R("rate")]
    [] Class = "light" -> Percent(began[R("level")] + kernel[R("level")], 2 * 255)

\* What a device is charged for: a display only when it is on, the states of a SATA
\* link apart, the link of a card at both ends of the measurement.
Linked(speeds) ==
  50 * Cardinality({m \in {1, 2} : LET machine == IF m = 1 THEN began ELSE kernel
                                   IN machine[I("link")] = 1 /\ machine[I("speed")] \in speeds})

HappenedResults ==
  CASE Class = "ahci" -> [active |-> Spent("active"), partial |-> Spent("partial")]
    [] Class = "backlight" ->
         [name |-> HappenedShare * kernel[R("dpms")], power |-> 100 * kernel[R("dpms")]]
    [] Class = "nic" ->
         [up |-> began[I("up")] + kernel[I("up")], powerunsave |-> 100 - 100 * kernel[I("saving")],
          link_100 |-> Linked(1..100), link_1000 |-> Linked(101..1000), link_high |-> Linked({2500})]
    [] OTHER -> [name |-> HappenedShare]

\* How often the counter of a RAPL domain wrapped in the measurement.
TimesWrapped == ((began[EnergyCounter] % EnergyRange) + spent[EnergyCounter]) \div EnergyRange

Happened ==
  CASE IsShare ->
         [share |-> HappenedShare, charge |-> SharePower(Class, device, HappenedResults)]
    [] Class = "nic" ->
         [results |-> HappenedResults,
          charge |-> NicPower([r \in NicResults |-> UtilizationPowerValid(r)], HappenedResults)]
    [] IsRapl -> [energy |-> spent[EnergyCounter] - EnergyRange * TimesWrapped, delta |-> spent[Now]]
    [] Class = "xe_energy" -> [energy |-> spent[EnergyCounter], delta |-> spent[Now]]
    [] Class = "devfreq" ->
         <<[freq |-> 1, share |-> Spent("low")], [freq |-> 2, share |-> Spent("high")],
           [freq |-> Idle,
            share |-> Percent(spent[Now] - spent[R("low")] - spent[R("high")], spent[Now])]>>
    [] Class \in {"core", "package"} ->
         [s \in StatesOf(Class, Model) |-> Percent(spent[HardwareRegister(s)], spent[Tsc])]
    [] Class = "cpu" -> [mhz |-> (2 * spent[Aperf]) \div spent[Mperf]]
    [] Class = "rc6" ->
         [s \in Rc6States \cup {"on"} |->
            IF s = "on" THEN 100 - Percent(spent[R("rc6")] + spent[R("rc6p")] + spent[R("rc6pp")], spent[Now])
            ELSE Spent(s)]
    [] Class = "xe_gts" -> [g \in Gts |-> 100 - Spent(g)]

\* The reads of a handler succeed, and their numbers fit the type they are read as.
ReadsInts == IsShare /\ Class # "alsa"
Readable(reads) ==
  /\ Class = "nic" => gone = {}
  /\ \A k \in DOMAIN reads :
       Content(k) # Absent /\ (ReadsInts => Content(k) <= MaxInt)

\* The measurement can be told from what is read: it took time, the domain of RAPL
\* is there, the Xe card had its channel when it was looked at, the radio was not
\* blocked by one switch first and by the other last, the CPU ran.
Tellable ==
  /\ spent[Now] > 0
  /\ IsRapl => device.valid
  /\ Class = "xe_energy" => device.energy_path
  /\ Class = "rfkill" => \A f, g \in {"hard", "soft"} :
       began[R(f)] = 1 /\ kernel[R(g)] = 1 => began[R(g)] = 1 \/ kernel[R(f)] = 1
  /\ Class = "cpu" => spent[Mperf] > 0

NewCharge ==
  CASE IsRapl -> RaplPower(device').energy
    [] Class = "xe_energy" -> XePower(device').energy
    [] Class = "nic" -> NicUtilization(device').packets
    [] OTHER -> 0

(***************************************************************************)
(* Actions.                                                                *)
(***************************************************************************)
Nothing == All(CounterKeys \cup {Now}, 0)

Init ==
  /\ unit \in Units
  /\ \E value \in Started, levels \in [LevelKeys -> UNION {Level(k[2]) : k \in LevelKeys}] :
       /\ \A k \in LevelKeys : levels[k] \in Level(k[2])
       /\ kernel = Machine(value, levels)
  /\ FrameworkInit(DOMAIN kernel)
  /\ phase = "new"
  /\ present = FALSE
  /\ device = New
  /\ results = <<>>
  /\ power = 0
  /\ number = 0
  /\ whole = FALSE
  /\ began = kernel
  /\ spent = Nothing
  /\ truths = <<>>
  /\ used = 0
  /\ charged = 0
  /\ faults = 0

\* An exception of the test framework, or the end that get_msr makes.
Stops(reads) == ~Served(reads) \/ (IsIntel /\ EndsPowertop(reads))

\* A replay makes the measurements of the recording.
MayStart ==
  /\ phase \in {"created", "ended"}
  /\ IF mode = "replaying" THEN number < Len(truths) ELSE number < MaxMeasurements

\* The machine works for a tick of the clock.
Tick ==
  /\ mode = "recording"
  /\ kernel[Now] < TicksPerSecond + MaxTicks
  /\ \E activity \in Activities :
       LET counted == Counted(activity)
       IN /\ kernel' = Advanced(kernel, counted)
          /\ spent' = [k \in DOMAIN spent |-> spent[k] + IF k \in DOMAIN counted THEN counted[k] ELSE 0]
          /\ used' = used + IF IsCounted /\ phase # "new" THEN counted[EnergyCounter] ELSE 0
  /\ UNCHANGED <<unit, phase, present, device, results, power, number, mode, gone, records, queues,
                 whole, began, truths, charged, faults>>

\* Somebody sets a level.
SetLevel ==
  /\ mode = "recording"
  /\ \E k \in LevelKeys : \E level \in Level(k[2]) :
       /\ level # kernel[k]
       /\ kernel' = [kernel EXCEPT ![k] = level]
  /\ UNCHANGED <<unit, phase, present, device, results, power, number, mode, gone, records, queues,
                 whole, began, spent, truths, used, charged, faults>>

\* The device goes, or the CPU goes offline.  The domains that sysfs lists are there
\* when powertop starts, and so are the CPUs.
Lost ==
  /\ mode = "recording"
  /\ phase = "new" => ~IsIntel /\ Class # "rapl_powercap"
  /\ faults < MaxFaults
  /\ gone = {}
  /\ gone' = DOMAIN kernel \ {Now, Powercap}
  /\ faults' = faults + 1
  /\ whole' = FALSE
  /\ UNCHANGED <<unit, phase, present, device, results, power, number, mode, kernel, records, queues,
                 began, spent, truths, used, charged>>

\* It comes back; drivers count from zero again.
Found ==
  /\ mode = "recording"
  /\ gone # {}
  /\ gone' = {}
  /\ kernel' = IF KeepsCounters THEN kernel ELSE Over(AsFiles(All(CounterKeys, 0)), kernel)
  /\ UNCHANGED <<unit, phase, present, device, results, power, number, mode, records, queues, history>>

\* SATA's accounting is switched on.
Create ==
  /\ phase = "new"
  /\ ~Stops(CreateReads)
  /\ present' = LookFor(Class).found
  /\ device' = IF present' THEN Created(Got(CreateReads)) ELSE New
  /\ kernel' = IF present' /\ Class = "ahci" THEN Written(Accounting, 1) ELSE kernel
  /\ Reads(CreateReads)
  /\ phase' = "created"
  /\ UNCHANGED <<unit, results, power, number, mode, gone, history>>

StartMeasurement ==
  /\ MayStart
  /\ ~Stops(StartReads)
  /\ present' = LookAgain.found
  /\ device' = IF present' THEN LET got == Got(StartReads) IN DeviceStarted(AtStart(got), got)
               ELSE device
  /\ Reads(StartReads)
  /\ phase' = "started"
  /\ number' = number + 1
  /\ whole' = (mode = "recording" /\ present' /\ Readable(StartReads))
  /\ began' = kernel
  /\ spent' = Nothing
  /\ UNCHANGED <<unit, results, power, mode, kernel, gone, truths, used, charged, faults>>

\* Devices are charged when the results of all are there.
EndMeasurement ==
  /\ phase = "started"
  /\ ~Stops(EndReads)
  /\ IF present
     THEN /\ device' = DeviceEnded(Got(EndReads))
          /\ results' = Reported(device')
          /\ power' = Charged(device', results')
     ELSE UNCHANGED <<device, results, power>>
  /\ Reads(EndReads)
  /\ phase' = "ended"
  /\ truths' = IF mode = "replaying" THEN truths
               ELSE LET told == whole /\ Readable(EndReads) /\ Tellable
                    IN Append(truths, [present |-> present, whole |-> told,
                                       shown |-> IF told THEN Happened ELSE <<>>])
  /\ charged' = charged + IF mode = "recording" /\ present THEN NewCharge ELSE 0
  /\ UNCHANGED <<unit, present, number, mode, kernel, gone, whole, began, spent, used, faults>>

Stop ==
  /\ \/ MayStart /\ Stops(StartReads)
     \/ phase = "started" /\ Stops(EndReads)
  /\ phase' = IF mode = "replaying" THEN "thrown" ELSE "exited"
  /\ UNCHANGED <<unit, present, device, results, power, number, mode, kernel, gone,
                 records, queues, history>>

\* powertop ends after a measurement, and is started to replay its recording.  A
\* network card looks at the machine's time in a replay too, and a register's answer
\* in a replay does not show the domains of RAPL.
Replay ==
  /\ phase = "ended"
  /\ Class \notin {"nic", "rapl_msr"}
  /\ SaveAndLoad
  /\ phase' = "new"
  /\ present' = FALSE
  /\ device' = New
  /\ results' = <<>>
  /\ power' = 0
  /\ number' = 0
  /\ UNCHANGED <<unit, kernel, gone, history>>

Next ==
  \/ Tick
  \/ SetLevel
  \/ Lost
  \/ Found
  \/ Create
  \/ StartMeasurement
  \/ EndMeasurement
  \/ Stop
  \/ Replay

Spec == Init /\ [][Next]_vars

(***************************************************************************)
(* Properties.                                                             *)
(***************************************************************************)
\* A device is found when it is there and measured from then on, and in a replay
\* from the same measurement.  A measurement that could be read shows what the
\* device did in it and nothing else: the share of its time, its energy, the mean
\* of its levels, and the power that follows from them, whatever was measured
\* before and whatever was lost before.  The energy of a RAPL domain is too small
\* by the counter's range each time that it wraps, and never in another way: the
\* program takes no wrap into account (cpu_rapl_device.cpp:66).  So does the replay of what was recorded,
\* measurement by measurement, and it never runs out of records (devices/*.cpp,
\* intel_cpus.cpp, test_framework.cpp).
ShowsWhatHappened ==
  /\ phase # "thrown"
  /\ phase = "ended" => truths[number].present = present
  /\ phase = "ended" /\ truths[number].whole => ShownNow = truths[number].shown

\* Energy and packets are charged at most once: all measurements together charge no
\* more than was used since powertop looked at the device first, though reads fail,
\* counters wrap or are reset, measurements follow each other within a second and
\* time passes between them (cpu_rapl_device.cpp, network.cpp; a failed read of an
\* Xe channel counts as zero, and is left out).
ChargedAtMostOnce ==
  IsRapl \/ Class = "nic" \/ (Class = "xe_energy" /\ faults = 0) => charged <= used
=============================================================================
