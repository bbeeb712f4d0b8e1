------------------------ MODULE DeviceMeasurement_proofs ------------------------
(***************************************************************************)
(* Proofs about DeviceMeasurement, for every device, every machine and     *)
(* every bound.                                                            *)
(***************************************************************************)
EXTENDS DeviceMeasurement, Sums_proofs, TLAPS

(***************************************************************************)
(* The devices and the keys of what is read.                               *)
(***************************************************************************)
LEMMA KindsOfUnits ==
  ASSUME unit \in Units
  PROVE  /\ Class \in Classes
         /\ Class \in {"core", "package"} => Model \in Models
         /\ IsRapl => Model \in Domains
BY UnitsAssumption DEF Class, Model, IsRapl

OtherClasses == {"devfreq", "core", "package", "cpu", "rc6", "xe_gts"}

LEMMA KindsApart ==
  /\ IsLevels => ~IsTimes /\ ~IsCounted /\ ~IsRapl
                   /\ Class \notin {"usb", "nic", "xe_energy", "ahci", "alsa", "runtime_pm"} \cup OtherClasses
  /\ IsTimes => ~IsLevels /\ ~IsCounted /\ ~IsRapl /\ Class \notin {"usb", "nic", "xe_energy"} \cup OtherClasses
  /\ IsCounted => ~IsLevels /\ ~IsTimes /\ Class \notin {"usb"} \cup OtherClasses
  /\ IsRapl \/ Class \in {"nic", "xe_energy"} => IsCounted
  /\ Class \in {"usb"} \cup OtherClasses => ~IsLevels /\ ~IsTimes /\ ~IsCounted /\ ~IsRapl
  /\ Class \in Classes => Class \in {"usb"} \cup OtherClasses \/ IsLevels \/ IsTimes \/ IsCounted
BY DEF IsLevels, IsTimes, IsCounted, IsRapl, OtherClasses, Classes, ShareClasses

LEMMA KeyNames ==
  \A a, b : /\ (R(a) = R(b)) <=> (a = b)
            /\ (M(a) = M(b)) <=> (a = b)
            /\ (A(a) = A(b)) <=> (a = b)
            /\ (D(a) = D(b)) <=> (a = b)
            /\ (I(a) = I(b)) <=> (a = b)
            /\ R(a) # M(b) /\ R(a) # A(b) /\ R(a) # D(b) /\ R(a) # I(b) /\ R(a) # Now
            /\ M(a) # A(b) /\ M(a) # D(b) /\ M(a) # I(b) /\ M(a) # Now
            /\ A(a) # D(b) /\ A(a) # I(b) /\ A(a) # Now
            /\ D(a) # I(b) /\ D(a) # Now /\ I(a) # Now
            /\ R(a)[1] = "R" /\ M(a)[1] = "M" /\ A(a)[1] = "A" /\ D(a)[1] = "D"
            /\ R(a)[2] = a /\ I(a)[2] = a
BY DEF R, M, A, D, I, Now

LEMMA KeysAre ==
  /\ Powercap = D("powercap") /\ Channel = R("energy1") /\ Packets = R("packets")
  /\ TransStat = R("trans_stat") /\ Accounting = R("ahci_alpm_accounting")
  /\ Tsc = M("tsc") /\ Aperf = M("aperf") /\ Mperf = M("mperf") /\ TheTime = Now
  /\ Now[1] = "T"
  /\ \A d : EnergyFile(d) = R(d) /\ EnergyMsr(d) = M(d)
BY DEF R, M, D, Now, Powercap, Channel, Packets, TransStat, Accounting, Tsc, Aperf, Mperf, TheTime, EnergyFile, EnergyMsr

LEMMA FilesOfShares ==
  /\ DOMAIN ShareFiles = ShareClasses
  /\ ShareFiles["runtime_pm"] = {"active", "suspended"}
  /\ ShareFiles["usb"] = {"active", "connected"}
  /\ ShareFiles["alsa"] = {"on", "off"}
  /\ ShareFiles["ahci"] = {"active", "partial", "slumber", "devslp"}
  /\ ShareFiles["backlight"] = {"max", "level", "dpms"}
  /\ ShareFiles["rfkill"] = {"hard", "soft"}
  /\ ShareFiles["fan"] = {"rate"}
  /\ ShareFiles["light"] = {"level"}
  /\ ShareFiles["xe_fan"] = {"rate"}
BY DEF ShareFiles, ShareClasses

LEMMA OverIs ==
  \A f, g : /\ DOMAIN Over(f, g) = DOMAIN f \cup DOMAIN g
            /\ \A k \in DOMAIN f : Over(f, g)[k] = f[k]
            /\ \A k \in DOMAIN g \ DOMAIN f : Over(f, g)[k] = g[k]
BY DEF Over

LEMMA AllIs == \A keys, value : DOMAIN All(keys, value) = keys /\ \A k \in keys : All(keys, value)[k] = value
BY DEF All

LEMMA OnceIs == \A keys : DOMAIN Once(keys) = keys /\ \A k \in keys : Once(keys)[k] = 1
BY DEF Once, All

\* The counters and the levels of a class.
LEMMA KeysOfClass ==
  ASSUME unit \in Units
  PROVE  /\ Class = "usb" => CounterKeys = {R("active"), R("connected")} /\ LevelKeys = {}
         /\ IsLevels => CounterKeys = {} /\ LevelKeys = {R(f) : f \in ShareFiles[Class]}
         /\ IsTimes => CounterKeys = {R(f) : f \in ShareFiles[Class]} /\ LevelKeys = {}
         /\ IsCounted => CounterKeys = {EnergyCounter}
         /\ Class = "nic" => LevelKeys = {I(f) : f \in {"link", "speed", "up", "saving"}}
         /\ IsRapl \/ Class = "xe_energy" => LevelKeys = {}
         /\ Class = "devfreq" => CounterKeys = {R("low"), R("high")} /\ LevelKeys = {}
         /\ Class \in {"core", "package"} =>
              /\ CounterKeys = {Tsc, M("c6"), M("c7")} \cup {M(s) : s \in StatesOf(Class, Model)}
              /\ LevelKeys = {}
         /\ Class = "cpu" => CounterKeys = {Tsc, Aperf, Mperf} /\ LevelKeys = {}
         /\ Class = "rc6" => CounterKeys = {R(s) : s \in Rc6States} /\ LevelKeys = {}
         /\ Class = "xe_gts" => CounterKeys = {R(g) : g \in Gts} /\ LevelKeys = {}
<1>1. CASE Class = "usb"  BY <1>1 DEF CounterKeys, LevelKeys, IsLevels, IsTimes, IsCounted, IsRapl
<1>2. CASE IsLevels
  <2>1. ~IsTimes /\ ~IsCounted /\ ~IsRapl /\ Class \notin {"usb", "nic", "xe_energy"} \cup OtherClasses
    BY <1>2, KindsApart
  <2>2. CounterKeys = {}  BY <1>2, <2>1 DEF CounterKeys, OtherClasses
  <2>3. LevelKeys = {R(f) : f \in ShareFiles[Class]}  BY <1>2, <2>1 DEF LevelKeys, OtherClasses
  <2> QED  BY <1>2, <2>1, <2>2, <2>3 DEF OtherClasses, IsLevels
<1>3. CASE IsTimes
  <2>1. ~IsLevels /\ ~IsCounted /\ ~IsRapl /\ Class \notin {"usb", "nic", "xe_energy"} \cup OtherClasses
    BY <1>3, KindsApart
  <2>2. CounterKeys = {R(f) : f \in ShareFiles[Class]}  BY <1>3, <2>1 DEF CounterKeys, OtherClasses
  <2>3. LevelKeys = {}  BY <1>3, <2>1 DEF LevelKeys, OtherClasses
  <2> QED  BY <1>3, <2>1, <2>2, <2>3 DEF OtherClasses, IsTimes
<1>4. CASE IsCounted
  <2>1. ~IsLevels /\ ~IsTimes /\ Class \notin {"usb", "devfreq", "core", "package", "cpu", "rc6", "xe_gts"}
        /\ (IsRapl \/ Class = "xe_energy" => Class # "nic")
    BY <1>4 DEF IsLevels, IsTimes, IsCounted, IsRapl
  <2>2. CounterKeys = {EnergyCounter}  BY <1>4, <2>1 DEF CounterKeys, OtherClasses
  <2>3. LevelKeys = IF Class = "nic" THEN {I(f) : f \in {"link", "speed", "up", "saving"}} ELSE {}
    BY <1>4, <2>1 DEF LevelKeys, OtherClasses
  <2> QED  BY <1>4, <2>1, <2>2, <2>3
<1>5. CASE Class \in {"devfreq", "core", "package", "cpu", "rc6", "xe_gts"}
  <2>1. ~IsLevels /\ ~IsTimes /\ ~IsCounted /\ ~IsRapl  BY <1>5 DEF IsLevels, IsTimes, IsCounted, IsRapl
  <2>2. LevelKeys = {}  BY <1>5, <2>1 DEF LevelKeys, OtherClasses
  <2>3. CounterKeys =
          CASE Class = "devfreq" -> {R("low"), R("high")}
            [] Class \in {"core", "package"} -> {Tsc, M("c6"), M("c7")} \cup {M(s) : s \in StatesOf(Class, Model)}
            [] Class = "cpu" -> {Tsc, Aperf, Mperf}
            [] Class = "rc6" -> {R(s) : s \in Rc6States}
            [] Class = "xe_gts" -> {R(g) : g \in Gts}
    BY <1>5, <2>1 DEF CounterKeys, OtherClasses
  <2> QED  BY <1>5, <2>1, <2>2, <2>3
<1> QED
  <2>1. Class \in Classes  BY KindsOfUnits
  <2> QED  BY <1>1, <1>2, <1>3, <1>4, <1>5, <2>1 DEF Classes, ShareClasses, IsLevels, IsTimes, IsCounted, IsRapl

LEMMA EnergyCounterIs ==
  /\ Class = "rapl_msr" => EnergyCounter = EnergyMsr(Model)
  /\ Class = "rapl_powercap" => EnergyCounter = EnergyFile(Model)
  /\ Class = "xe_energy" => EnergyCounter = Channel
  /\ Class = "nic" => EnergyCounter = Packets
BY DEF EnergyCounter

Special == {Now, Powercap, Accounting, TransStat}

LEMMA KeysApart ==
  ASSUME unit \in Units
  PROVE  /\ \A k \in CounterKeys : k \notin Special /\ k \notin LevelKeys
         /\ \A k \in LevelKeys : k \notin Special
         /\ Now # Powercap /\ Now # Accounting /\ Now # TransStat
<1>1. Now # Powercap /\ Now # Accounting /\ Now # TransStat  BY KeysAre, KeyNames
<1>2. CASE Class = "usb"  BY <1>1, <1>2, KeysOfClass, KeysAre, KeyNames DEF Special
<1>3. CASE IsLevels
  <2>1. \A f \in ShareFiles[Class] : f \notin {"trans_stat", "ahci_alpm_accounting"}
    BY <1>3, FilesOfShares DEF IsLevels
  <2>2. CounterKeys = {} /\ LevelKeys = {R(f) : f \in ShareFiles[Class]}  BY <1>3, KeysOfClass
  <2> QED  BY <1>1, <2>1, <2>2, KeysAre, KeyNames DEF Special
<1>4. CASE IsTimes
  <2>1. \A f \in ShareFiles[Class] : f \notin {"trans_stat", "ahci_alpm_accounting"}
    BY <1>4, FilesOfShares DEF IsTimes
  <2>2. LevelKeys = {} /\ CounterKeys = {R(f) : f \in ShareFiles[Class]}  BY <1>4, KeysOfClass
  <2> QED  BY <1>1, <2>1, <2>2, KeysAre, KeyNames DEF Special
<1>5. CASE IsCounted
  <2>1. CounterKeys = {EnergyCounter} /\ (LevelKeys = {} \/ LevelKeys = {I(f) : f \in {"link", "speed", "up", "saving"}})
    BY <1>5, KeysOfClass DEF IsCounted
  <2>2. \/ EnergyCounter \in {R("energy1"), R("packets")}
        \/ Model \in Domains /\ EnergyCounter \in {R(Model), M(Model)}
    BY <1>5, KindsOfUnits, KeysAre, EnergyCounterIs DEF IsCounted, IsRapl
  <2>3. Model \in Domains => Model \notin {"trans_stat", "ahci_alpm_accounting"}  BY DEF Domains
  <2>4. EnergyCounter \notin Special  BY <1>1, <2>2, <2>3, KeysAre, KeyNames DEF Special
  <2>5. \A f : I(f) \notin Special /\ I(f) # EnergyCounter  BY <2>2, KeysAre, KeyNames DEF Special
  <2> QED  BY <1>1, <2>1, <2>4, <2>5
<1>6. CASE Class \in {"devfreq", "core", "package", "cpu", "rc6", "xe_gts"}
  <2>1. LevelKeys = {}  BY <1>6, KeysOfClass
  <2>2. ASSUME NEW k \in CounterKeys PROVE k \notin Special
    <3>1. \A x \in {"low", "high"} \cup Rc6States \cup Gts : x \notin {"trans_stat", "ahci_alpm_accounting"}
      BY DEF Rc6States, Gts
    <3>2. (\E x \in {"low", "high"} \cup Rc6States \cup Gts : k = R(x)) \/ (\E x : k = M(x))
      BY <1>6, <2>2, KeysOfClass, KeysAre
    <3> QED  BY <1>1, <3>1, <3>2, KeysAre, KeyNames DEF Special
  <2> QED  BY <1>1, <2>1, <2>2
<1> QED
  <2>1. Class \in Classes  BY KindsOfUnits
  <2> QED  BY <1>2, <1>3, <1>4, <1>5, <1>6, <2>1 DEF Classes, ShareClasses, IsLevels, IsTimes, IsCounted, IsRapl

(***************************************************************************)
(* The machine.                                                            *)
(***************************************************************************)
\* The counters of a devfreq device are in its table.
Count(machine, k) ==
  IF Class = "devfreq" /\ k = R("low") THEN machine[TransStat][1][2]
  ELSE IF Class = "devfreq" /\ k = R("high") THEN machine[TransStat][2][2]
  ELSE machine[k]

FileKeys == IF Class = "devfreq" THEN {TransStat} ELSE CounterKeys
KernelKeys == FileKeys \cup LevelKeys \cup DOMAIN Fixed \cup {Now}

MachineOK(machine) ==
  /\ DOMAIN machine = KernelKeys
  /\ machine[Now] \in Nat
  /\ \A k \in CounterKeys : Count(machine, k) \in Nat
  /\ Class = "devfreq" =>
       machine[TransStat] = <<<<1, Count(machine, R("low"))>>, <<2, Count(machine, R("high"))>>>>
  /\ \A k \in LevelKeys : machine[k] \in Level(k[2])
  /\ Class = "rapl_powercap" => machine[Powercap] = {"pp0", "dram"}
  /\ Class = "rapl_msr" => machine[Powercap] = Absent

\* What a tick adds to a counter.
Added(activity, k) == IF k \in DOMAIN Worked(activity) THEN Worked(activity)[k] ELSE 0

\* What a tick adds, class by class.
AddedOK(activity) ==
  /\ DOMAIN Worked(activity) \subseteq CounterKeys
  /\ \A k \in CounterKeys : Added(activity, k) \in Nat
  /\ Class = "usb" => Added(activity, R("connected")) = 1 /\ Added(activity, R("active")) <= 1
  /\ Class = "runtime_pm" => Added(activity, R("active")) + Added(activity, R("suspended")) = 1
  /\ Class = "alsa" => Added(activity, R("on")) + Added(activity, R("off")) = 1
  /\ Class = "ahci" /\ kernel[Accounting] = 1 =>
       Added(activity, R("active")) + Added(activity, R("partial"))
         + Added(activity, R("slumber")) + Added(activity, R("devslp")) = 1
  /\ Class = "devfreq" => Added(activity, R("low")) + Added(activity, R("high")) <= 1
  /\ Class \in {"core", "package"} =>
       Added(activity, Tsc) = 2 /\ \A k \in CounterKeys : Added(activity, k) \in {0, 2}
  /\ Class = "cpu" => Added(activity, Tsc) = 2
  /\ Class = "rc6" => Added(activity, R("rc6")) + Added(activity, R("rc6p")) + Added(activity, R("rc6pp")) <= 1
  /\ Class = "xe_gts" => \A k \in CounterKeys : Added(activity, k) <= 1

LEMMA OnceAdds ==
  ASSUME NEW activity, NEW keys, Worked(activity) = Once(keys)
  PROVE  DOMAIN Worked(activity) = keys /\ \A k : Added(activity, k) = IF k \in keys THEN 1 ELSE 0
BY OnceIs DEF Added

LEMMA WorkAdds ==
  ASSUME unit \in Units, NEW activity \in Activities
  PROVE  AddedOK(activity)
<1>1. CASE Class = "usb"
  <2> DEFINE keys == {R("connected")} \cup IF activity = "active" THEN {R("active")} ELSE {}
  <2>1. Worked(activity) = Once(keys)
    BY <1>1 DEF Worked, IsLevels, IsTimes, IsCounted, IsRapl
  <2> HIDE DEF keys
  <2>2. DOMAIN Worked(activity) = keys /\ \A k : Added(activity, k) = IF k \in keys THEN 1 ELSE 0
    BY <2>1, OnceAdds
  <2>3. keys \subseteq CounterKeys /\ R("connected") \in keys  BY <1>1, KeysOfClass DEF keys
  <2> QED  BY <1>1, <2>2, <2>3 DEF AddedOK
<1>2. CASE IsLevels
  <2>1. Worked(activity) = Once({})
    BY <1>2 DEF Worked, IsLevels, IsTimes, IsCounted, IsRapl
  <2>2. DOMAIN Worked(activity) = {}  BY <2>1, OnceAdds
  <2>3. CounterKeys = {}  BY <1>2, KeysOfClass
  <2> QED  BY <1>2, <2>2, <2>3 DEF AddedOK, IsLevels
<1>3. CASE IsTimes
  <2> DEFINE keys == IF activity = "unknown" THEN {} ELSE {R(activity)}
  <2>1. ~IsLevels /\ ~IsCounted /\ Class \notin {"usb"} \cup OtherClasses  BY <1>3, KindsApart
  <2>2. Worked(activity) = Once(keys)  BY <1>3, <2>1 DEF Worked, OtherClasses
  <2>3. activity \in IF Class = "ahci" /\ kernel[Accounting] = 0 THEN {"unknown"} ELSE ShareFiles[Class]
    BY <1>3, <2>1 DEF Activities, OtherClasses
  <2> HIDE DEF keys
  <2>4. DOMAIN Worked(activity) = keys /\ \A k : Added(activity, k) = IF k \in keys THEN 1 ELSE 0
    BY <2>2, OnceAdds
  <2>5. CounterKeys = {R(f) : f \in ShareFiles[Class]}  BY <1>3, KeysOfClass
  <2>6. keys \subseteq CounterKeys  BY <2>3, <2>5 DEF keys
  <2>7. \A k \in CounterKeys : Added(activity, k) \in Nat  BY <2>4
  <2>8. DOMAIN Worked(activity) \subseteq CounterKeys  BY <2>4, <2>6
  <2>9. \A f : Added(activity, R(f)) = IF activity # "unknown" /\ f = activity THEN 1 ELSE 0
    BY <2>4, KeyNames DEF keys
  <2>10. CASE Class = "runtime_pm"
    <3>1. activity \in {"active", "suspended"}  BY <2>3, <2>10, FilesOfShares
    <3>2. Added(activity, R("active")) + Added(activity, R("suspended")) = 1  BY <2>9, <3>1
    <3> QED  BY <2>7, <2>8, <2>10, <3>2 DEF AddedOK
  <2>11. CASE Class = "alsa"
    <3>1. activity \in {"on", "off"}  BY <2>3, <2>11, FilesOfShares
    <3>2. Added(activity, R("on")) + Added(activity, R("off")) = 1  BY <2>9, <3>1
    <3> QED  BY <2>7, <2>8, <2>11, <3>2 DEF AddedOK
  <2>12. CASE Class = "ahci"
    <3>1. ASSUME kernel[Accounting] = 1 PROVE activity \in {"active", "partial", "slumber", "devslp"}
      <4>1. kernel[Accounting] # 0  BY <3>1
      <4>2. activity \in ShareFiles[Class]  BY <2>3, <4>1
      <4> QED  BY <2>12, <4>2, FilesOfShares
    <3>2. kernel[Accounting] = 1 =>
            Added(activity, R("active")) + Added(activity, R("partial"))
              + Added(activity, R("slumber")) + Added(activity, R("devslp")) = 1
      BY <2>9, <3>1
    <3> QED  BY <2>7, <2>8, <2>12, <3>2 DEF AddedOK
  <2> QED  BY <1>3, <2>10, <2>11, <2>12 DEF IsTimes
<1>4. CASE IsCounted
  <2>1. ~IsLevels /\ ~IsTimes /\ Class \notin {"usb"} \cup OtherClasses  BY <1>4, KindsApart
  <2>2. Worked(activity) = All({EnergyCounter}, IF activity = "works" THEN 2 ELSE 0)
    BY <1>4, <2>1 DEF Worked, OtherClasses
  <2>3. CounterKeys = {EnergyCounter}  BY <1>4, KeysOfClass
  <2>4. DOMAIN Worked(activity) = {EnergyCounter} /\ Worked(activity)[EnergyCounter] \in Nat
    BY <2>2, AllIs
  <2>5. \A k \in CounterKeys : Added(activity, k) \in Nat  BY <2>3, <2>4 DEF Added
  <2> QED  BY <2>1, <2>3, <2>4, <2>5 DEF AddedOK, IsTimes, OtherClasses
<1>5. CASE Class = "devfreq"
  <2> DEFINE keys == IF activity = "idle" THEN {} ELSE {R(activity)}
  <2>1. Worked(activity) = Once(keys) /\ activity \in {"low", "high", "idle"}
    BY <1>5 DEF Worked, Activities, IsLevels, IsTimes, IsCounted, IsRapl
  <2> HIDE DEF keys
  <2>2. DOMAIN Worked(activity) = keys /\ \A k : Added(activity, k) = IF k \in keys THEN 1 ELSE 0
    BY <2>1, OnceAdds
  <2> QED  BY <1>5, <2>1, <2>2, KeysOfClass, KeyNames DEF AddedOK, keys
<1>6. CASE Class \in {"core", "package"}
  <2> DEFINE keys == {Tsc} \cup IF activity = "c0" THEN {} ELSE {HardwareRegister(activity)}
  <2>1. Worked(activity) = All(keys, 2)
    BY <1>6 DEF Worked, IsLevels, IsTimes, IsCounted, IsRapl
  <2>2. activity \in {"c0"} \cup StatesOf(Class, Model)
    <3>1. Activities = IF Class = "core" THEN {"c0"} \cup CoreStates(Model) ELSE Packages[Model]
      BY <1>6 DEF Activities, IsLevels, IsTimes, IsCounted, IsRapl
    <3> QED  BY <1>6, <3>1, KindsOfUnits, PackagesAssumption DEF StatesOf
  <2>3. keys \subseteq CounterKeys
    <3>1. HardwareRegister(activity) \in {M(activity), M("c7")}  BY DEF HardwareRegister
    <3> QED  BY <1>6, <2>2, <3>1, KeysOfClass
  <2> HIDE DEF keys
  <2>4. DOMAIN Worked(activity) = keys /\ \A k : Added(activity, k) = IF k \in keys THEN 2 ELSE 0
    BY <2>1, AllIs DEF Added
  <2>5. Tsc \in keys  BY DEF keys
  <2>6. \A k \in CounterKeys : Added(activity, k) \in {0, 2} /\ Added(activity, k) \in Nat  BY <2>4
  <2>7. Added(activity, Tsc) = 2 /\ DOMAIN Worked(activity) \subseteq CounterKeys  BY <2>3, <2>4, <2>5
  <2> QED  BY <1>6, <2>6, <2>7 DEF AddedOK
<1>7. CASE Class = "cpu"
  <2> DEFINE ran == All({Tsc} \cup IF activity = "idle" THEN {} ELSE {Mperf}, 2)
             fast == All({Aperf}, CASE activity = "fast" -> 3 [] activity = "slow" -> 1 [] OTHER -> 0)
  <2>1. Worked(activity) = Over(ran, fast)
    BY <1>7 DEF Worked, IsLevels, IsTimes, IsCounted, IsRapl
  <2>2. DOMAIN ran \subseteq {Tsc, Mperf} /\ Tsc \in DOMAIN ran /\ \A k \in DOMAIN ran : ran[k] = 2
    BY AllIs
  <2>3. DOMAIN fast = {Aperf} /\ fast[Aperf] \in Nat  BY AllIs
  <2> HIDE DEF ran, fast
  <2>4. DOMAIN Worked(activity) = DOMAIN ran \cup {Aperf}  BY <2>1, <2>3, OverIs
  <2>5. \A k \in DOMAIN ran : Worked(activity)[k] = 2  BY <2>1, <2>2, OverIs
  <2>6. \A k \in DOMAIN Worked(activity) : Worked(activity)[k] \in Nat
    <3>1. Aperf \notin DOMAIN ran => Worked(activity)[Aperf] = fast[Aperf]  BY <2>1, <2>3, OverIs
    <3> QED  BY <2>3, <2>4, <2>5, <3>1
  <2>7. Added(activity, Tsc) = 2 /\ DOMAIN Worked(activity) \subseteq CounterKeys
    BY <1>7, <2>2, <2>4, <2>5, KeysOfClass DEF Added
  <2>8. \A k \in CounterKeys : Added(activity, k) \in Nat  BY <2>6 DEF Added
  <2> QED  BY <1>7, <2>7, <2>8 DEF AddedOK
<1>8. CASE Class = "rc6"
  <2> DEFINE keys == IF activity = "on" THEN {} ELSE {R(activity)}
  <2>1. Worked(activity) = Once(keys) /\ activity \in Rc6States \cup {"on"}
    BY <1>8 DEF Worked, Activities, IsLevels, IsTimes, IsCounted, IsRapl
  <2> HIDE DEF keys
  <2>2. DOMAIN Worked(activity) = keys /\ \A k : Added(activity, k) = IF k \in keys THEN 1 ELSE 0
    BY <2>1, OnceAdds
  <2> QED  BY <1>8, <2>1, <2>2, KeysOfClass, KeyNames DEF AddedOK, keys, Rc6States
<1>9. CASE Class = "xe_gts"
  <2> DEFINE keys == {R(g) : g \in activity}
  <2>1. Worked(activity) = Once(keys) /\ activity \in SUBSET Gts
    BY <1>9 DEF Worked, Activities, IsLevels, IsTimes, IsCounted, IsRapl
  <2>2. keys \subseteq CounterKeys  BY <1>9, <2>1, KeysOfClass
  <2> HIDE DEF keys
  <2>3. DOMAIN Worked(activity) = keys /\ \A k : Added(activity, k) = IF k \in keys THEN 1 ELSE 0
    BY <2>1, OnceAdds
  <2>4. \A k \in CounterKeys : Added(activity, k) \in Nat /\ Added(activity, k) <= 1  BY <2>3
  <2>5. DOMAIN Worked(activity) \subseteq CounterKeys  BY <2>2, <2>3
  <2> QED  BY <1>9, <2>4, <2>5 DEF AddedOK
<1> QED
  <2>1. Class \in Classes  BY KindsOfUnits
  <2> QED  BY <1>1, <1>2, <1>3, <1>4, <1>5, <1>6, <1>7, <1>8, <1>9, <2>1 DEF Classes, ShareClasses, IsLevels, IsTimes, IsCounted, IsRapl

\* What depends on the unit only.
LEMMA UnitKept ==
  ASSUME unit' = unit
  PROVE  /\ Class' = Class /\ Model' = Model
         /\ IsShare' = IsShare /\ IsRapl' = IsRapl /\ IsIntel' = IsIntel /\ IsLevels' = IsLevels
         /\ IsTimes' = IsTimes /\ IsCounted' = IsCounted
         /\ EnergyCounter' = EnergyCounter /\ CounterKeys' = CounterKeys /\ LevelKeys' = LevelKeys
         /\ KeepsCounters' = KeepsCounters
<1>1. Class' = Class /\ Model' = Model  BY DEF Class, Model
<1>2. /\ IsShare' = IsShare /\ IsRapl' = IsRapl /\ IsIntel' = IsIntel /\ IsLevels' = IsLevels
      /\ IsTimes' = IsTimes
  BY <1>1 DEF IsShare, IsRapl, IsIntel, IsLevels, IsTimes
<1>3. IsCounted' = IsCounted /\ KeepsCounters' = KeepsCounters  BY <1>1, <1>2 DEF IsCounted, KeepsCounters
<1>4. EnergyCounter' = EnergyCounter  BY <1>1 DEF EnergyCounter
<1>5. CounterKeys' = CounterKeys  BY <1>1, <1>2, <1>3, <1>4 DEF CounterKeys
<1>6. LevelKeys' = LevelKeys  BY <1>1, <1>2 DEF LevelKeys
<1> QED  BY <1>1, <1>2, <1>3, <1>4, <1>5, <1>6

LEMMA FixedKept ==
  ASSUME unit' = unit
  PROVE  Fixed' = Fixed /\ FileKeys' = FileKeys /\ KernelKeys' = KernelKeys
<1>1. Class' = Class /\ Model' = Model /\ CounterKeys' = CounterKeys /\ LevelKeys' = LevelKeys
  BY UnitKept
<1>2. Entries' = Entries  BY <1>1 DEF Entries
<1>3. Settings' = Settings  BY <1>1 DEF Settings
<1>4. Fixed' = Fixed  BY <1>2, <1>3 DEF Fixed
<1>5. FileKeys' = FileKeys  BY <1>1 DEF FileKeys
<1> QED  BY <1>1, <1>4, <1>5 DEF KernelKeys

LEMMA CountKept ==
  ASSUME unit' = unit, NEW machine, NEW f
  PROVE  (Level(f))' = Level(f)
BY UnitKept DEF Level

\* What is fixed is no counter, and the time is not.
LEMMA FixedIs ==
  /\ Now \notin DOMAIN Fixed
  /\ Class = "ahci" => Accounting \in DOMAIN Fixed
  /\ Class = "rapl_powercap" => Powercap \in DOMAIN Fixed /\ Fixed[Powercap] = {"pp0", "dram"}
  /\ Class = "rapl_msr" => Powercap \in DOMAIN Fixed /\ Fixed[Powercap] = Absent
<1>1. \A k \in Entries : k # Now
  <2>1. ASSUME NEW k \in Entries PROVE (\E a : k = A(a)) \/ (\E a : k = D(a)) \/ (\E a : k = R(a))
    BY DEF Entries
  <2> QED  BY <2>1, KeyNames
<1>2. \A k \in DOMAIN Settings : k # Now
  <2>1. CASE Class = "usb"
    <3>1. DOMAIN Settings = {R("bDeviceClass")}  BY <2>1, AllIs DEF Settings
    <3> QED  BY <3>1, KeyNames
  <2>2. CASE Class = "ahci"
    <3>1. DOMAIN Settings = {Accounting}  BY <2>2, AllIs DEF Settings
    <3> QED  BY <3>1, KeysAre, KeyNames
  <2>3. CASE Class = "rapl_powercap"
    <3>1. DOMAIN Settings = {Powercap}  BY <2>3, AllIs DEF Settings
    <3> QED  BY <3>1, KeysAre, KeyNames
  <2>4. CASE Class = "rapl_msr"
    <3> DEFINE others == {EnergyMsr(d) : d \in Domains \ {Model}}
    <3>1. Settings = Over(All({Powercap}, Absent), All(others, 0))  BY <2>4 DEF Settings
    <3> HIDE DEF others
    <3>4. DOMAIN All({Powercap}, Absent) = {Powercap} /\ DOMAIN All(others, 0) = others  BY AllIs
    <3>2. DOMAIN Settings = {Powercap} \cup others  BY <3>1, <3>4 DEF Over
    <3>3. \A k \in others : \E d : k = M(d)  BY KeysAre DEF others
    <3> QED  BY <3>2, <3>3, KeysAre, KeyNames
  <2>5. CASE Class \notin {"usb", "ahci", "rapl_powercap", "rapl_msr"}  BY <2>5, OnceIs DEF Settings
  <2> QED  BY <2>1, <2>2, <2>3, <2>4, <2>5
<1> DEFINE once == Once(Entries)
<1>13. DOMAIN once = Entries  BY OnceIs
<1>14. Fixed = Over(once, Settings)  BY DEF Fixed
<1> HIDE DEF once
<1>3. DOMAIN Fixed = Entries \cup DOMAIN Settings  BY <1>13, <1>14, OverIs
<1>4. \A k \in DOMAIN Settings \ Entries : Fixed[k] = Settings[k]  BY <1>13, <1>14, OverIs
<1>5. Class = "ahci" => Accounting \in DOMAIN Settings  BY AllIs DEF Settings
<1>6. Class \in {"rapl_powercap", "rapl_msr"} => Entries = {}  BY DEF Entries
<1>7. Class = "rapl_powercap" => Powercap \in DOMAIN Settings /\ Settings[Powercap] = {"pp0", "dram"}
  BY AllIs DEF Settings
<1>8. Class = "rapl_msr" => Powercap \in DOMAIN Settings /\ Settings[Powercap] = Absent
  <2> SUFFICES ASSUME Class = "rapl_msr" PROVE Powercap \in DOMAIN Settings /\ Settings[Powercap] = Absent
    OBVIOUS
  <2> DEFINE none == All({Powercap}, Absent)
             rest == All({EnergyMsr(d) : d \in Domains \ {Model}}, 0)
  <2>1. DOMAIN none = {Powercap} /\ none[Powercap] = Absent  BY AllIs
  <2>2. Settings = Over(none, rest)  BY DEF Settings
  <2> HIDE DEF none, rest
  <2> QED  BY <2>1, <2>2 DEF Over
<1> QED  BY <1>1, <1>2, <1>3, <1>4, <1>5, <1>6, <1>7, <1>8

\* The files of counters that all stand at one value.
LEMMA FilesAre ==
  ASSUME unit \in Units, NEW value \in Nat
  PROVE  LET files == AsFiles(All(CounterKeys, value))
         IN /\ DOMAIN files = FileKeys
            /\ \A k \in CounterKeys : Count(files, k) = value
            /\ Class = "devfreq" => files[TransStat] = <<<<1, value>>, <<2, value>>>>
<1> DEFINE files == AsFiles(All(CounterKeys, value))
<1>1. CASE Class = "devfreq"
  <2>1. CounterKeys = {R("low"), R("high")}  BY <1>1, KeysOfClass
  <2>2. files = All({TransStat}, <<<<1, value>>, <<2, value>>>>)  BY <1>1, <2>1, AllIs DEF AsFiles
  <2>3. DOMAIN files = {TransStat} /\ files[TransStat] = <<<<1, value>>, <<2, value>>>>  BY <2>2, AllIs
  <2> HIDE DEF files
  <2>4. Count(files, R("low")) = value /\ Count(files, R("high")) = value
    BY <1>1, <2>3, KeyNames DEF Count
  <2>5. FileKeys = {TransStat}  BY <1>1 DEF FileKeys
  <2> QED  BY <1>1, <2>1, <2>3, <2>4, <2>5 DEF files
<1>2. CASE Class # "devfreq"  BY <1>2, AllIs DEF AsFiles, Count, FileKeys
<1> QED  BY <1>1, <1>2

LEMMA FilesApart ==
  ASSUME unit \in Units
  PROVE  /\ Now \notin FileKeys /\ Powercap \notin FileKeys /\ Accounting \notin FileKeys
         /\ FileKeys \cap LevelKeys = {}
         /\ TransStat \notin LevelKeys
         /\ Now \notin LevelKeys /\ Powercap \notin LevelKeys /\ Accounting \notin LevelKeys
         /\ Now # Powercap /\ Now # Accounting /\ Now # TransStat
<1>1. Class = "devfreq" => LevelKeys = {}  BY KeysOfClass
<1>2. TransStat \notin {Powercap, Accounting}  BY KeysAre, KeyNames
<1> QED  BY <1>1, <1>2, KeysApart DEF FileKeys, Special

\* Machines that have the same files have the same counts.
LEMMA CountOfFiles ==
  ASSUME unit \in Units, NEW m, NEW n, \A k \in FileKeys : m[k] = n[k]
  PROVE  /\ \A k \in CounterKeys : Count(m, k) = Count(n, k)
         /\ Class = "devfreq" => m[TransStat] = n[TransStat]
<1>1. CASE Class = "devfreq"
  <2>1. CounterKeys = {R("low"), R("high")}  BY <1>1, KeysOfClass
  <2>2. m[TransStat] = n[TransStat]  BY <1>1 DEF FileKeys
  <2> QED  BY <1>1, <2>1, <2>2, KeyNames DEF Count
<1>2. CASE Class # "devfreq"  BY <1>2 DEF Count, FileKeys
<1> QED  BY <1>1, <1>2

LEMMA MachineStarts ==
  ASSUME unit \in Units, NEW value \in Nat, NEW levels, DOMAIN levels = LevelKeys,
         \A k \in LevelKeys : levels[k] \in Level(k[2])
  PROVE  LET machine == Machine(value, levels)
         IN /\ MachineOK(machine) /\ machine[Now] = TicksPerSecond
            /\ \A k \in CounterKeys : Count(machine, k) = value
<1> DEFINE files == AsFiles(All(CounterKeys, value))
           time == All({Now}, TicksPerSecond)
           machine == Machine(value, levels)
<1>1. /\ DOMAIN files = FileKeys
      /\ \A k \in CounterKeys : Count(files, k) = value
      /\ Class = "devfreq" => files[TransStat] = <<<<1, value>>, <<2, value>>>>
  BY FilesAre
<1>2. DOMAIN time = {Now} /\ time[Now] = TicksPerSecond  BY AllIs
<1> DEFINE fixed == Over(Fixed, time)
           rest  == Over(levels, fixed)
<1>3. machine = Over(files, rest)  BY DEF Machine
<1> HIDE DEF files, time, machine
<1>13. /\ DOMAIN fixed = DOMAIN Fixed \cup {Now} /\ fixed[Now] = TicksPerSecond
       /\ \A k \in DOMAIN Fixed : fixed[k] = Fixed[k]
  BY <1>2, FixedIs DEF Over, fixed
<1> HIDE DEF fixed
<1>14. /\ DOMAIN rest = LevelKeys \cup DOMAIN Fixed \cup {Now}
       /\ \A k \in LevelKeys : rest[k] = levels[k]
       /\ \A k \in DOMAIN fixed \ LevelKeys : rest[k] = fixed[k]
  BY <1>13 DEF Over, rest
<1> HIDE DEF rest
<1>15. /\ DOMAIN machine = FileKeys \cup DOMAIN rest
       /\ \A k \in FileKeys : machine[k] = files[k]
       /\ \A k \in DOMAIN rest \ FileKeys : machine[k] = rest[k]
  BY <1>1, <1>3 DEF Over
<1>4. DOMAIN machine = KernelKeys  BY <1>14, <1>15 DEF KernelKeys
<1>5. \A k \in FileKeys : machine[k] = files[k]  BY <1>15
<1>6. \A k \in LevelKeys : machine[k] = levels[k]  BY <1>14, <1>15, FilesApart
<1>7. machine[Now] = TicksPerSecond
  <2>1. Now \notin FileKeys /\ Now \notin LevelKeys  BY FilesApart
  <2> QED  BY <1>13, <1>14, <1>15, <2>1
<1>8. ASSUME NEW k \in DOMAIN Fixed, k \notin FileKeys, k \notin LevelKeys PROVE machine[k] = Fixed[k]
  BY <1>8, <1>13, <1>14, <1>15
<1>9. \A k \in CounterKeys : Count(machine, k) = value
  BY <1>1, <1>5, CountOfFiles
<1>10. Class = "devfreq" => machine[TransStat] = <<<<1, value>>, <<2, value>>>>
  BY <1>1, <1>5 DEF FileKeys
<1>11. /\ Class = "rapl_powercap" => machine[Powercap] = {"pp0", "dram"}
       /\ Class = "rapl_msr" => machine[Powercap] = Absent
  BY <1>8, FilesApart, FixedIs
<1>12. Class = "devfreq" => R("low") \in CounterKeys /\ R("high") \in CounterKeys  BY KeysOfClass
<1> QED
  BY <1>4, <1>6, <1>7, <1>9, <1>10, <1>11, <1>12, TicksAssumption DEF MachineOK, machine

LEMMA NatSums == 1 \in Nat /\ \A a, b \in Nat : a + b \in Nat
OBVIOUS

\* A machine that has counted is one.
LEMMA MachineCounts ==
  ASSUME NEW machine, MachineOK(machine), NEW activity, AddedOK(activity), NEW after,
         DOMAIN after = DOMAIN machine, after[Now] = machine[Now] + 1,
         \A k \in CounterKeys : Count(after, k) = Count(machine, k) + Added(activity, k),
         \A k \in LevelKeys : after[k] = machine[k],
         Powercap \in DOMAIN machine => after[Powercap] = machine[Powercap],
         Class = "devfreq" =>
           after[TransStat] = <<<<1, Count(after, R("low"))>>, <<2, Count(after, R("high"))>>>>,
         Class \in {"rapl_powercap", "rapl_msr"} => Powercap \in DOMAIN machine
  PROVE  MachineOK(after)
<1>3. machine[Now] \in Nat /\ \A k \in CounterKeys : Count(machine, k) \in Nat  BY DEF MachineOK
<1>4. \A k \in CounterKeys : Added(activity, k) \in Nat  BY DEF AddedOK
<1>1. after[Now] \in Nat  BY <1>3, NatSums, Zenon
<1>2. ASSUME NEW k \in CounterKeys PROVE Count(after, k) \in Nat
  <2>1. Count(after, k) = Count(machine, k) + Added(activity, k)  BY <1>2
  <2>2. Count(machine, k) \in Nat /\ Added(activity, k) \in Nat  BY <1>2, <1>3, <1>4
  <2> QED  BY <2>1, <2>2, NatSums, Zenon
<1> QED  BY <1>1, <1>2 DEF MachineOK

LEMMA CountedIs ==
  ASSUME unit \in Units, NEW activity \in Activities
  PROVE  /\ DOMAIN Counted(activity) = {Now} \cup DOMAIN Worked(activity)
         /\ Counted(activity)[Now] = 1
         /\ \A k \in DOMAIN Worked(activity) : Counted(activity)[k] = Worked(activity)[k]
         /\ \A k \in CounterKeys :
              (IF k \in DOMAIN Counted(activity) THEN Counted(activity)[k] ELSE 0) = Added(activity, k)
<1> DEFINE once == Once({Now})
<1>1. DOMAIN once = {Now} /\ once[Now] = 1  BY OnceIs
<1>2. Counted(activity) = Over(once, Worked(activity))  BY DEF Counted
<1>3. DOMAIN Worked(activity) \subseteq CounterKeys /\ Now \notin CounterKeys
  BY WorkAdds, KeysApart DEF AddedOK, Special
<1> HIDE DEF once
<1>4. DOMAIN Counted(activity) = {Now} \cup DOMAIN Worked(activity) /\ Counted(activity)[Now] = 1
  BY <1>1, <1>2 DEF Over
<1>5. \A k \in DOMAIN Worked(activity) : Counted(activity)[k] = Worked(activity)[k]
  BY <1>1, <1>2, <1>3 DEF Over
<1> QED  BY <1>3, <1>4, <1>5 DEF Added

\* What a tick makes of the machine.
LEMMA Advance ==
  ASSUME unit \in Units, NEW machine, MachineOK(machine), NEW activity \in Activities
  PROVE  LET after == Advanced(machine, Counted(activity))
         IN /\ MachineOK(after) /\ after[Now] = machine[Now] + 1
            /\ \A k \in CounterKeys : Count(after, k) = Count(machine, k) + Added(activity, k)
            /\ \A k \in LevelKeys : after[k] = machine[k]
            /\ Accounting \in DOMAIN machine => after[Accounting] = machine[Accounting]
<1> DEFINE after == Advanced(machine, Counted(activity))
<1>1. AddedOK(activity)  BY WorkAdds
<1>2. DOMAIN Worked(activity) \subseteq CounterKeys  BY <1>1 DEF AddedOK
<1>3. /\ DOMAIN Counted(activity) = {Now} \cup DOMAIN Worked(activity)
      /\ Counted(activity)[Now] = 1
      /\ \A k \in DOMAIN Worked(activity) : Counted(activity)[k] = Worked(activity)[k]
      /\ \A k \in CounterKeys :
           (IF k \in DOMAIN Counted(activity) THEN Counted(activity)[k] ELSE 0) = Added(activity, k)
  BY CountedIs
<1>4. DOMAIN after = DOMAIN machine  BY DEF Advanced
<1>5. DOMAIN machine = KernelKeys /\ Now \in KernelKeys /\ FileKeys \subseteq KernelKeys /\ LevelKeys \subseteq KernelKeys
  BY DEF MachineOK, KernelKeys
<1>6. ASSUME NEW k \in DOMAIN machine, k # TransStat, k \notin DOMAIN Counted(activity)
      PROVE  after[k] = machine[k]
  BY <1>6 DEF Advanced
<1>7. ASSUME NEW k \in DOMAIN machine, k # TransStat, k \in DOMAIN Counted(activity)
      PROVE  after[k] = machine[k] + Counted(activity)[k]
  BY <1>7 DEF Advanced
<1>8. after[Now] = machine[Now] + 1  BY <1>3, <1>5, <1>7, FilesApart
<1>9. \A k \in LevelKeys : after[k] = machine[k]
  BY <1>2, <1>3, <1>5, <1>6, FilesApart, KeysApart DEF Special
<1>10. \A k \in {Powercap, Accounting} : k \in DOMAIN machine => after[k] = machine[k]
  <2>1. TransStat \notin {Powercap, Accounting}  BY KeysAre, KeyNames
  <2>2. ASSUME NEW k \in {Powercap, Accounting} PROVE k \notin DOMAIN Counted(activity)
    BY <1>2, <1>3, <2>2, FilesApart, KeysApart DEF Special
  <2> QED  BY <1>6, <2>1, <2>2
<1>13. Class \in {"rapl_powercap", "rapl_msr"} => Powercap \in DOMAIN machine
  BY <1>5, FixedIs DEF KernelKeys
<1>11. CASE Class # "devfreq"
  <2>1. CounterKeys \subseteq DOMAIN machine /\ \A k \in CounterKeys : k # TransStat
    BY <1>5, <1>11, KeysApart DEF FileKeys, Special
  <2>2. ASSUME NEW k \in CounterKeys PROVE after[k] = machine[k] + Added(activity, k)
    <3>1. machine[k] \in Nat  BY <1>11 DEF MachineOK, Count
    <3>2. CASE k \in DOMAIN Counted(activity)  BY <1>3, <1>7, <2>1, <3>2
    <3>3. CASE k \notin DOMAIN Counted(activity)  BY <1>3, <1>6, <2>1, <3>1, <3>3
    <3> QED  BY <3>2, <3>3
  <2>3. \A k \in CounterKeys : Count(after, k) = Count(machine, k) + Added(activity, k)
    BY <1>11, <2>2 DEF Count
  <2> QED  BY <1>1, <1>4, <1>5, <1>8, <1>9, <1>10, <1>11, <1>13, <2>3, MachineCounts
<1>12. CASE Class = "devfreq"
  <2> DEFINE low == R("low")
             high == R("high")
  <2>1. CounterKeys = {low, high} /\ low # high  BY <1>12, KeysOfClass, KeyNames
  <2>2. machine[TransStat] = <<<<1, Count(machine, low)>>, <<2, Count(machine, high)>>>>  BY <1>12 DEF MachineOK
  <2>3. TransStat \in DOMAIN machine  BY <1>5, <1>12 DEF FileKeys
  <2>4. after[TransStat] =
          [i \in 1..2 |-> LET f == R(IF i = 1 THEN "low" ELSE "high")
             IN <<i, machine[TransStat][i][2] + IF f \in DOMAIN Counted(activity) THEN Counted(activity)[f] ELSE 0>>]
    <3>1. TransStat \notin DOMAIN Counted(activity)
      BY <1>2, <1>3, FilesApart, KeysApart DEF Special
    <3> QED  BY <2>3, <3>1 DEF Advanced
  <2>5. machine[TransStat][1][2] = Count(machine, low) /\ machine[TransStat][2][2] = Count(machine, high)
    BY <2>2
  <2>6. after[TransStat][1] = <<1, Count(machine, low) + Added(activity, low)>>
        /\ after[TransStat][2] = <<2, Count(machine, high) + Added(activity, high)>>
    BY <1>3, <2>1, <2>4, <2>5
  <2>7. after[TransStat] = <<after[TransStat][1], after[TransStat][2]>>  BY <2>4
  <2>8. Count(after, low) = Count(machine, low) + Added(activity, low)
        /\ Count(after, high) = Count(machine, high) + Added(activity, high)
    BY <1>12, <2>1, <2>6 DEF Count
  <2>9. after[TransStat] = <<<<1, Count(after, low)>>, <<2, Count(after, high)>>>>
    BY <2>6, <2>7, <2>8
  <2> QED  BY <1>1, <1>4, <1>5, <1>8, <1>9, <1>10, <1>12, <1>13, <2>1, <2>8, <2>9, MachineCounts
<1> QED  BY <1>11, <1>12

\* What the device finds when it comes back, if it does not keep its counters.
LEMMA Return ==
  ASSUME unit \in Units, NEW machine, MachineOK(machine)
  PROVE  LET after == Over(AsFiles(All(CounterKeys, 0)), machine)
         IN /\ MachineOK(after) /\ after[Now] = machine[Now]
            /\ \A k \in CounterKeys : Count(after, k) = 0
            /\ \A k \in LevelKeys : after[k] = machine[k]
            /\ Accounting \in DOMAIN machine => after[Accounting] = machine[Accounting]
<1> DEFINE files == AsFiles(All(CounterKeys, 0))
           after == Over(files, machine)
<1>1. /\ DOMAIN files = FileKeys
      /\ \A k \in CounterKeys : Count(files, k) = 0
      /\ Class = "devfreq" => files[TransStat] = <<<<1, 0>>, <<2, 0>>>>
  BY FilesAre
<1>2. DOMAIN machine = KernelKeys /\ Now \in KernelKeys /\ FileKeys \subseteq KernelKeys /\ LevelKeys \subseteq KernelKeys
  BY DEF MachineOK, KernelKeys
<1> HIDE DEF files
<1>3. /\ DOMAIN after = KernelKeys
      /\ \A k \in FileKeys : after[k] = files[k]
      /\ \A k \in KernelKeys \ FileKeys : after[k] = machine[k]
  BY <1>1, <1>2 DEF Over
<1>4. after[Now] = machine[Now] /\ \A k \in LevelKeys : after[k] = machine[k]
  BY <1>2, <1>3, FilesApart
<1>5. \A k \in {Powercap, Accounting} : k \in DOMAIN machine => after[k] = machine[k]
  BY <1>2, <1>3, FilesApart
<1>6. Class \in {"rapl_powercap", "rapl_msr"} => Powercap \in DOMAIN machine
  BY <1>2, FixedIs DEF KernelKeys
<1> HIDE DEF after
<1>7. /\ \A k \in CounterKeys : Count(after, k) = 0
      /\ Class = "devfreq" => after[TransStat] = <<<<1, 0>>, <<2, 0>>>>
  BY <1>1, <1>3, CountOfFiles DEF FileKeys
<1>8. Class = "devfreq" => R("low") \in CounterKeys /\ R("high") \in CounterKeys  BY KeysOfClass
<1>9. MachineOK(after)
  <2>1. DOMAIN after = KernelKeys /\ after[Now] \in Nat  BY <1>2, <1>3, <1>4 DEF MachineOK
  <2>2. \A k \in CounterKeys : Count(after, k) \in Nat  BY <1>7
  <2>3. /\ Class = "rapl_powercap" => after[Powercap] = {"pp0", "dram"}
        /\ Class = "rapl_msr" => after[Powercap] = Absent
    BY <1>5, <1>6 DEF MachineOK
  <2>4. Class = "devfreq" =>
          after[TransStat] = <<<<1, Count(after, R("low"))>>, <<2, Count(after, R("high"))>>>>
    BY <1>7, <1>8
  <2>5. \A k \in LevelKeys : after[k] \in Level(k[2])  BY <1>4 DEF MachineOK
  <2> QED  BY <2>1, <2>2, <2>3, <2>4, <2>5 DEF MachineOK
<1> QED  BY <1>4, <1>5, <1>7, <1>9 DEF after, files

\* A key is set that is no counter.
LEMMA KeySet ==
  ASSUME unit \in Units, NEW machine, MachineOK(machine), NEW key \in LevelKeys \cup {Accounting}, NEW value,
         key \in LevelKeys => value \in Level(key[2])
  PROVE  LET after == [machine EXCEPT ![key] = value]
         IN /\ MachineOK(after) /\ after[Now] = machine[Now]
            /\ \A k \in CounterKeys : Count(after, k) = Count(machine, k)
            /\ key = Accounting => \A k \in LevelKeys : after[k] = machine[k]
            /\ key \in LevelKeys /\ Accounting \in DOMAIN machine => after[Accounting] = machine[Accounting]
<1> DEFINE after == [machine EXCEPT ![key] = value]
<1>1. DOMAIN after = DOMAIN machine /\ \A k \in DOMAIN machine : k # key => after[k] = machine[k]
  OBVIOUS
<1>2. DOMAIN machine = KernelKeys /\ Now \in KernelKeys /\ FileKeys \subseteq KernelKeys /\ LevelKeys \subseteq KernelKeys
  BY DEF MachineOK, KernelKeys
<1>3. key # Now /\ key # Powercap /\ key \notin FileKeys /\ Accounting \notin LevelKeys
  BY FilesApart, KeysAre, KeyNames
<1>4. \A k \in LevelKeys : after[k] \in Level(k[2])  BY <1>2 DEF MachineOK
<1> HIDE DEF after
<1>5. /\ \A k \in CounterKeys : Count(after, k) = Count(machine, k)
      /\ Class = "devfreq" => after[TransStat] = machine[TransStat]
  <2>1. \A k \in FileKeys : after[k] = machine[k]  BY <1>1, <1>2, <1>3
  <2> QED  BY <2>1, CountOfFiles
<1>6. Class \in {"rapl_powercap", "rapl_msr"} => Powercap \in DOMAIN machine
  BY <1>2, FixedIs DEF KernelKeys
<1>7. Class = "devfreq" => R("low") \in CounterKeys /\ R("high") \in CounterKeys  BY KeysOfClass
<1>8. after[Now] = machine[Now]  BY <1>1, <1>2, <1>3
<1>9. MachineOK(after)
  <2>1. DOMAIN after = KernelKeys /\ after[Now] \in Nat  BY <1>1, <1>2, <1>8 DEF MachineOK
  <2>2. \A k \in CounterKeys : Count(after, k) \in Nat  BY <1>5 DEF MachineOK
  <2>3. /\ Class = "rapl_powercap" => after[Powercap] = {"pp0", "dram"}
        /\ Class = "rapl_msr" => after[Powercap] = Absent
    BY <1>1, <1>3, <1>6 DEF MachineOK
  <2>4. Class = "devfreq" =>
          after[TransStat] = <<<<1, Count(after, R("low"))>>, <<2, Count(after, R("high"))>>>>
    BY <1>5, <1>7 DEF MachineOK
  <2> QED  BY <1>4, <2>1, <2>2, <2>3, <2>4 DEF MachineOK
<1> QED  BY <1>1, <1>2, <1>3, <1>5, <1>8, <1>9 DEF after

\* A machine stays one when the unit is kept.
LEMMA MachineNext ==
  ASSUME unit' = unit
  PROVE  /\ MachineOK(kernel') => (MachineOK(kernel))'
         /\ MachineOK(began') => (MachineOK(began))'
         /\ \A k : (Count(kernel, k))' = Count(kernel', k)
         /\ \A k : (Count(began, k))' = Count(began', k)
<1>1. Class' = Class /\ CounterKeys' = CounterKeys /\ LevelKeys' = LevelKeys /\ KernelKeys' = KernelKeys
  BY UnitKept, FixedKept
<1>2. /\ \A k : (Count(kernel, k))' = Count(kernel', k)
      /\ \A k : (Count(began, k))' = Count(began', k)
  BY <1>1 DEF Count
<1>3. \A f : (Level(f))' = Level(f)  BY UnitKept DEF Level
<1>4. MachineOK(kernel') => (MachineOK(kernel))'  BY <1>1, <1>2, <1>3 DEF MachineOK
<1>5. MachineOK(began') => (MachineOK(began))'  BY <1>1, <1>2, <1>3 DEF MachineOK
<1> QED  BY <1>2, <1>4, <1>5

(***************************************************************************)
(* What holds of the machine and of what is counted, in every state.       *)
(***************************************************************************)
SpentOK ==
  /\ DOMAIN spent = CounterKeys \cup {Now}
  /\ \A k \in CounterKeys \cup {Now} : spent[k] \in Nat
  /\ Class = "usb" => spent[R("connected")] = spent[Now] /\ spent[R("active")] <= spent[Now]
  /\ Class = "runtime_pm" => spent[R("active")] + spent[R("suspended")] = spent[Now]
  /\ Class = "alsa" => spent[R("on")] + spent[R("off")] = spent[Now]
  /\ Class = "ahci" /\ whole =>
       spent[R("active")] + spent[R("partial")] + spent[R("slumber")] + spent[R("devslp")] = spent[Now]
  /\ Class = "devfreq" => spent[R("low")] + spent[R("high")] <= spent[Now]
  /\ Class \in {"core", "package"} =>
       spent[Tsc] = 2 * spent[Now] /\ \A k \in CounterKeys : \E y \in Nat : spent[k] = 2 * y
  /\ Class = "cpu" => spent[Tsc] = 2 * spent[Now]
  /\ Class = "rc6" => spent[R("rc6")] + spent[R("rc6p")] + spent[R("rc6pp")] <= spent[Now]
  /\ Class = "xe_gts" => \A k \in CounterKeys : spent[k] <= spent[Now]

MachinesOK ==
  /\ MachineOK(kernel) /\ MachineOK(began)
  /\ kernel[Now] >= TicksPerSecond
  /\ kernel[Now] <= TicksPerSecond + MaxTicks
  /\ kernel[Now] = began[Now] + spent[Now]
  /\ began[Now] >= TicksPerSecond
  /\ gone = {} \/ gone = KernelKeys \ {Now, Powercap}
  /\ faults = 0 => gone = {}
  /\ Class = "ahci" /\ (whole \/ (present /\ mode = "recording")) => kernel[Accounting] = 1

Phases == {"new", "created", "started", "ended", "exited", "thrown"}

PhasesOK ==
  /\ unit \in Units /\ mode \in {"recording", "replaying"} /\ phase \in Phases
  /\ present \in BOOLEAN /\ whole \in BOOLEAN
  /\ number \in Nat /\ faults \in Nat /\ used \in Nat
  /\ phase = "new" => number = 0 /\ ~present
  /\ mode = "recording" /\ phase = "new" => used = 0 /\ charged = 0 /\ truths = <<>> /\ device = New
  /\ mode = "recording" /\ phase = "new" /\ Class = "rapl_powercap" => gone = {}
  /\ mode = "replaying" => Class \notin {"nic", "rapl_msr"}

BaseOK == PhasesOK /\ MachinesOK /\ SpentOK

\* The keys that are spoken of below.
LEMMA KeysOfTheClass ==
  ASSUME unit \in Units
  PROVE  /\ Class = "usb" => R("connected") \in CounterKeys /\ R("active") \in CounterKeys
         /\ Class = "runtime_pm" => R("active") \in CounterKeys /\ R("suspended") \in CounterKeys
         /\ Class = "alsa" => R("on") \in CounterKeys /\ R("off") \in CounterKeys
         /\ Class = "ahci" => /\ R("active") \in CounterKeys /\ R("partial") \in CounterKeys
                              /\ R("slumber") \in CounterKeys /\ R("devslp") \in CounterKeys
         /\ Class = "devfreq" => R("low") \in CounterKeys /\ R("high") \in CounterKeys
         /\ Class \in {"core", "package", "cpu"} => Tsc \in CounterKeys
         /\ Class = "cpu" => Aperf \in CounterKeys /\ Mperf \in CounterKeys
         /\ Class = "rc6" => R("rc6") \in CounterKeys /\ R("rc6p") \in CounterKeys /\ R("rc6pp") \in CounterKeys
         /\ Now \notin CounterKeys
<1>1. Class \in {"runtime_pm", "alsa", "ahci"} => CounterKeys = {R(f) : f \in ShareFiles[Class]}
  BY KeysOfClass DEF IsTimes
<1>2. /\ Class = "runtime_pm" => R("active") \in CounterKeys /\ R("suspended") \in CounterKeys
      /\ Class = "alsa" => R("on") \in CounterKeys /\ R("off") \in CounterKeys
      /\ Class = "ahci" => /\ R("active") \in CounterKeys /\ R("partial") \in CounterKeys
                           /\ R("slumber") \in CounterKeys /\ R("devslp") \in CounterKeys
  BY <1>1, FilesOfShares
<1>3. Class = "rc6" => R("rc6") \in CounterKeys /\ R("rc6p") \in CounterKeys /\ R("rc6pp") \in CounterKeys
  BY KeysOfClass DEF Rc6States
<1>4. Now \notin CounterKeys  BY KeysApart DEF Special
<1> QED  BY <1>2, <1>3, <1>4, KeysOfClass

\* Nothing is spent yet.
LEMMA NothingIs ==
  ASSUME unit \in Units, NEW s, s = Nothing
  PROVE  /\ DOMAIN s = CounterKeys \cup {Now} /\ \A k \in CounterKeys \cup {Now} : s[k] = 0 /\ s[k] \in Nat
         /\ Class = "usb" => s[R("connected")] = s[Now] /\ s[R("active")] <= s[Now]
         /\ Class = "runtime_pm" => s[R("active")] + s[R("suspended")] = s[Now]
         /\ Class = "alsa" => s[R("on")] + s[R("off")] = s[Now]
         /\ Class = "ahci" => s[R("active")] + s[R("partial")] + s[R("slumber")] + s[R("devslp")] = s[Now]
         /\ Class = "devfreq" => s[R("low")] + s[R("high")] <= s[Now]
         /\ Class \in {"core", "package", "cpu"} => s[Tsc] = 2 * s[Now]
         /\ Class = "rc6" => s[R("rc6")] + s[R("rc6p")] + s[R("rc6pp")] <= s[Now]
         /\ \A k \in CounterKeys : s[k] <= s[Now]
         /\ \A k \in CounterKeys : \E y \in Nat : s[k] = 2 * y
<1>1. DOMAIN s = CounterKeys \cup {Now} /\ \A k \in CounterKeys \cup {Now} : s[k] = 0
  BY AllIs DEF Nothing
<1>2. \A k \in CounterKeys \cup {Now} : s[k] \in Nat  BY <1>1
<1>3. s[Now] = 0 /\ \A k \in CounterKeys : s[k] = 0  BY <1>1
<1>4. Class = "usb" => s[R("connected")] = s[Now] /\ s[R("active")] <= s[Now]  BY <1>3, KeysOfTheClass
<1>5. Class = "runtime_pm" => s[R("active")] + s[R("suspended")] = s[Now]  BY <1>3, KeysOfTheClass
<1>6. Class = "alsa" => s[R("on")] + s[R("off")] = s[Now]  BY <1>3, KeysOfTheClass
<1>7. Class = "ahci" => s[R("active")] + s[R("partial")] + s[R("slumber")] + s[R("devslp")] = s[Now]
  BY <1>3, KeysOfTheClass
<1>8. Class = "devfreq" => s[R("low")] + s[R("high")] <= s[Now]  BY <1>3, KeysOfTheClass
<1>9. Class \in {"core", "package", "cpu"} => s[Tsc] = 2 * s[Now]  BY <1>3, KeysOfTheClass
<1>10. Class = "rc6" => s[R("rc6")] + s[R("rc6p")] + s[R("rc6pp")] <= s[Now]  BY <1>3, KeysOfTheClass
<1>11. ASSUME NEW k \in CounterKeys PROVE s[k] <= s[Now] /\ \E y \in Nat : s[k] = 2 * y
  <2>1. s[k] = 0 /\ s[Now] = 0  BY <1>3
  <2> QED  BY <2>1
<1> QED  BY <1>1, <1>2, <1>4, <1>5, <1>6, <1>7, <1>8, <1>9, <1>10, <1>11

LEMMA NothingSpent ==
  ASSUME unit \in Units
  PROVE  /\ spent = Nothing => SpentOK
         /\ unit' = unit /\ spent' = Nothing => SpentOK'
<1>1. ASSUME spent = Nothing PROVE SpentOK
  <2> DEFINE s == spent
  <2>1. s = Nothing  BY <1>1
  <2> HIDE DEF s
  <2> QED  BY <2>1, NothingIs DEF SpentOK, s
<1>2. ASSUME unit' = unit, spent' = Nothing PROVE SpentOK'
  <2> DEFINE s == spent'
  <2>1. s = Nothing  BY <1>2
  <2>2. Class' = Class /\ CounterKeys' = CounterKeys  BY <1>2, UnitKept
  <2> HIDE DEF s
  <2> QED  BY <2>1, <2>2, NothingIs DEF SpentOK, s
<1> QED  BY <1>1, <1>2

\* What a tick does.
LEMMA TickIs ==
  ASSUME unit \in Units, MachineOK(kernel), SpentOK, Tick
  PROVE  /\ unit' = unit /\ MachineOK(kernel')
         /\ kernel'[Now] = kernel[Now] + 1
         /\ \A k \in LevelKeys : kernel'[k] = kernel[k]
         /\ Accounting \in DOMAIN kernel => kernel'[Accounting] = kernel[Accounting]
         /\ DOMAIN spent' = DOMAIN spent
         /\ spent'[Now] = spent[Now] + 1
         /\ \E activity \in Activities :
              /\ AddedOK(activity)
              /\ \A k \in CounterKeys : /\ Count(kernel', k) = Count(kernel, k) + Added(activity, k)
                                       /\ spent'[k] = spent[k] + Added(activity, k)
              /\ IsCounted => used' = used + IF phase # "new" THEN Added(activity, EnergyCounter) ELSE 0
              /\ ~IsCounted => used' = used + 0
<1>1. PICK activity \in Activities :
        /\ kernel' = Advanced(kernel, Counted(activity))
        /\ spent' = [k \in DOMAIN spent |->
             spent[k] + IF k \in DOMAIN Counted(activity) THEN Counted(activity)[k] ELSE 0]
        /\ used' = used + IF IsCounted /\ phase # "new" THEN Counted(activity)[EnergyCounter] ELSE 0
  BY DEF Tick
<1>2. unit' = unit  BY DEF Tick
<1>3. AddedOK(activity)  BY WorkAdds
<1>4. /\ MachineOK(kernel') /\ kernel'[Now] = kernel[Now] + 1
      /\ \A k \in CounterKeys : Count(kernel', k) = Count(kernel, k) + Added(activity, k)
      /\ \A k \in LevelKeys : kernel'[k] = kernel[k]
      /\ Accounting \in DOMAIN kernel => kernel'[Accounting] = kernel[Accounting]
  BY <1>1, Advance
<1>5. /\ DOMAIN Counted(activity) = {Now} \cup DOMAIN Worked(activity)
      /\ Counted(activity)[Now] = 1
      /\ \A k \in DOMAIN Worked(activity) : Counted(activity)[k] = Worked(activity)[k]
      /\ \A k \in CounterKeys :
           (IF k \in DOMAIN Counted(activity) THEN Counted(activity)[k] ELSE 0) = Added(activity, k)
  BY CountedIs
<1>6. DOMAIN spent = CounterKeys \cup {Now} /\ Now \notin CounterKeys
  BY KeysOfTheClass DEF SpentOK
<1>7. /\ DOMAIN spent' = DOMAIN spent
      /\ spent'[Now] = spent[Now] + 1
      /\ \A k \in CounterKeys : spent'[k] = spent[k] + Added(activity, k)
  BY <1>1, <1>5, <1>6
<1>8. IsCounted => Counted(activity)[EnergyCounter] = Added(activity, EnergyCounter)
  <2> SUFFICES ASSUME IsCounted PROVE Counted(activity)[EnergyCounter] = Added(activity, EnergyCounter)
    OBVIOUS
  <2>1. Worked(activity) = All({EnergyCounter}, IF activity = "works" THEN 2 ELSE 0)
    BY KindsApart DEF Worked, OtherClasses
  <2>2. EnergyCounter \in DOMAIN Worked(activity)  BY <2>1, AllIs
  <2> QED  BY <1>5, <2>2 DEF Added
<1>9. /\ IsCounted => used' = used + IF phase # "new" THEN Added(activity, EnergyCounter) ELSE 0
      /\ ~IsCounted => used' = used + 0
  BY <1>1, <1>8
<1> QED  BY <1>2, <1>3, <1>4, <1>7, <1>9

LEMMA TickSpends ==
  ASSUME unit \in Units, MachineOK(kernel), SpentOK, Tick, Class = "ahci" /\ whole => kernel[Accounting] = 1
  PROVE  SpentOK'
<1>1. PICK activity \in Activities :
        /\ AddedOK(activity)
        /\ \A k \in CounterKeys : spent'[k] = spent[k] + Added(activity, k)
  BY TickIs
<1>2. unit' = unit /\ whole' = whole  BY DEF Tick
<1>3. Class' = Class /\ CounterKeys' = CounterKeys  BY <1>2, UnitKept
<1> DEFINE s == spent'
<1> HIDE DEF s
<1>4. DOMAIN s = CounterKeys \cup {Now} /\ s[Now] = spent[Now] + 1
      /\ \A k \in CounterKeys : s[k] = spent[k] + Added(activity, k)
  BY <1>1, TickIs DEF SpentOK, s
<1>5. spent[Now] \in Nat /\ \A k \in CounterKeys : spent[k] \in Nat /\ Added(activity, k) \in Nat
  BY <1>1 DEF SpentOK, AddedOK
<1>6. \A k \in CounterKeys \cup {Now} : s[k] \in Nat
  <2>1. s[Now] \in Nat  BY <1>4, <1>5
  <2>2. ASSUME NEW k \in CounterKeys PROVE s[k] \in Nat
    <3>1. s[k] = spent[k] + Added(activity, k) /\ spent[k] \in Nat /\ Added(activity, k) \in Nat  BY <1>4, <1>5
    <3> QED  BY <3>1, NatSums, Zenon
  <2> QED  BY <2>1, <2>2
<1>7. CASE Class = "usb"
  <2>1. s[R("connected")] = spent[R("connected")] + Added(activity, R("connected"))
        /\ s[R("active")] = spent[R("active")] + Added(activity, R("active"))
    BY <1>4, <1>7, KeysOfTheClass
  <2>2. Added(activity, R("connected")) = 1 /\ Added(activity, R("active")) <= 1
    BY <1>1, <1>7 DEF AddedOK
  <2>3. spent[R("connected")] = spent[Now] /\ spent[R("active")] <= spent[Now]  BY <1>7 DEF SpentOK
  <2>4. spent[R("active")] \in Nat /\ Added(activity, R("active")) \in Nat  BY <1>5, <1>7, KeysOfTheClass
  <2>5. s[R("connected")] = s[Now] /\ s[R("active")] <= s[Now]  BY <1>4, <1>5, <2>1, <2>2, <2>3, <2>4
  <2> QED  BY <1>2, <1>3, <1>4, <1>6, <1>7, <2>5 DEF SpentOK, s
<1>8. CASE Class = "runtime_pm"
  <2> DEFINE a == R("active")
             b == R("suspended")
  <2>1. a \in CounterKeys /\ b \in CounterKeys  BY <1>8, KeysOfTheClass
  <2>2. Added(activity, a) + Added(activity, b) = 1  BY <1>1, <1>8 DEF AddedOK
  <2>3. spent[a] + spent[b] = spent[Now]  BY <1>8 DEF SpentOK
  <2>4. s[a] + s[b] = s[Now]
    <3> HIDE DEF a, b
    <3> QED  BY <1>4, <1>5, <2>1, <2>2, <2>3
  <2> QED  BY <1>2, <1>3, <1>4, <1>6, <1>8, <2>4 DEF SpentOK, s
<1>9. CASE Class = "alsa"
  <2> DEFINE a == R("on")
             b == R("off")
  <2>1. a \in CounterKeys /\ b \in CounterKeys  BY <1>9, KeysOfTheClass
  <2>2. Added(activity, a) + Added(activity, b) = 1  BY <1>1, <1>9 DEF AddedOK
  <2>3. spent[a] + spent[b] = spent[Now]  BY <1>9 DEF SpentOK
  <2>4. s[a] + s[b] = s[Now]
    <3> HIDE DEF a, b
    <3> QED  BY <1>4, <1>5, <2>1, <2>2, <2>3
  <2> QED  BY <1>2, <1>3, <1>4, <1>6, <1>9, <2>4 DEF SpentOK, s
<1>10. CASE Class = "ahci"
  <2> DEFINE a == R("active")
             b == R("partial")
             c == R("slumber")
             d == R("devslp")
  <2>1. a \in CounterKeys /\ b \in CounterKeys /\ c \in CounterKeys /\ d \in CounterKeys
    BY <1>10, KeysOfTheClass
  <2>2. whole => Added(activity, a) + Added(activity, b) + Added(activity, c) + Added(activity, d) = 1
    BY <1>1, <1>10 DEF AddedOK
  <2>3. whole => spent[a] + spent[b] + spent[c] + spent[d] = spent[Now]  BY <1>10 DEF SpentOK
  <2>4. whole => s[a] + s[b] + s[c] + s[d] = s[Now]
    <3> HIDE DEF a, b, c, d
    <3> QED  BY <1>4, <1>5, <2>1, <2>2, <2>3
  <2> QED  BY <1>2, <1>3, <1>4, <1>6, <1>10, <2>4 DEF SpentOK, s
<1>11. CASE Class = "devfreq"
  <2> DEFINE a == R("low")
             b == R("high")
  <2>1. a \in CounterKeys /\ b \in CounterKeys  BY <1>11, KeysOfTheClass
  <2>2. Added(activity, a) + Added(activity, b) <= 1  BY <1>1, <1>11 DEF AddedOK
  <2>3. spent[a] + spent[b] <= spent[Now]  BY <1>11 DEF SpentOK
  <2>4. s[a] + s[b] <= s[Now]
    <3> HIDE DEF a, b
    <3> QED  BY <1>4, <1>5, <2>1, <2>2, <2>3
  <2> QED  BY <1>2, <1>3, <1>4, <1>6, <1>11, <2>4 DEF SpentOK, s
<1>12. CASE Class \in {"core", "package"}
  <2>1. Tsc \in CounterKeys  BY <1>12, KeysOfTheClass
  <2>2. Added(activity, Tsc) = 2 /\ \A k \in CounterKeys : Added(activity, k) \in {0, 2}  BY <1>1, <1>12 DEF AddedOK
  <2>3. spent[Tsc] = 2 * spent[Now] /\ \A k \in CounterKeys : \E y \in Nat : spent[k] = 2 * y
    BY <1>12 DEF SpentOK
  <2>4. s[Tsc] = 2 * s[Now]  BY <1>4, <1>5, <2>1, <2>2, <2>3
  <2>5. ASSUME NEW k \in CounterKeys PROVE \E y \in Nat : s[k] = 2 * y
    <3>1. PICK y \in Nat : spent[k] = 2 * y  BY <2>3
    <3>2. Added(activity, k) = 0 \/ Added(activity, k) = 2  BY <2>2
    <3>3. s[k] = 2 * y \/ s[k] = 2 * (y + 1)
      <4>1. s[k] = spent[k] + Added(activity, k)  BY <1>4
      <4> QED  BY <3>1, <3>2, <4>1
    <3>4. y + 1 \in Nat  OBVIOUS
    <3> QED  BY <3>3, <3>4
  <2> QED  BY <1>2, <1>3, <1>4, <1>6, <1>12, <2>4, <2>5 DEF SpentOK, s
<1>13. CASE Class = "cpu"
  <2>1. Tsc \in CounterKeys  BY <1>13, KeysOfTheClass
  <2>2. Added(activity, Tsc) = 2  BY <1>1, <1>13 DEF AddedOK
  <2>3. spent[Tsc] = 2 * spent[Now]  BY <1>13 DEF SpentOK
  <2>4. s[Tsc] = 2 * s[Now]  BY <1>4, <1>5, <2>1, <2>2, <2>3
  <2> QED  BY <1>2, <1>3, <1>4, <1>6, <1>13, <2>4 DEF SpentOK, s
<1>14. CASE Class = "rc6"
  <2> DEFINE a == R("rc6")
             b == R("rc6p")
             c == R("rc6pp")
  <2>1. a \in CounterKeys /\ b \in CounterKeys /\ c \in CounterKeys  BY <1>14, KeysOfTheClass
  <2>2. Added(activity, a) + Added(activity, b) + Added(activity, c) <= 1  BY <1>1, <1>14 DEF AddedOK
  <2>3. spent[a] + spent[b] + spent[c] <= spent[Now]  BY <1>14 DEF SpentOK
  <2>4. s[a] + s[b] + s[c] <= s[Now]
    <3> HIDE DEF a, b, c
    <3> QED  BY <1>4, <1>5, <2>1, <2>2, <2>3
  <2> QED  BY <1>2, <1>3, <1>4, <1>6, <1>14, <2>4 DEF SpentOK, s
<1>15. CASE Class = "xe_gts"
  <2>1. ASSUME NEW k \in CounterKeys PROVE s[k] <= s[Now]
    <3>1. Added(activity, k) <= 1  BY <1>1, <1>15 DEF AddedOK
    <3>2. spent[k] <= spent[Now]  BY <1>15 DEF SpentOK
    <3>3. s[k] = spent[k] + Added(activity, k) /\ spent[k] \in Nat /\ Added(activity, k) \in Nat  BY <1>4, <1>5
    <3> QED  BY <1>4, <1>5, <3>1, <3>2, <3>3
  <2> QED  BY <1>2, <1>3, <1>4, <1>6, <1>15, <2>1 DEF SpentOK, s
<1>16. CASE IsLevels \/ IsCounted
  <2>1. Class \notin {"usb", "runtime_pm", "alsa", "ahci"} \cup OtherClasses  BY <1>16, KindsApart DEF IsTimes
  <2> QED  BY <1>2, <1>3, <1>4, <1>6, <2>1 DEF SpentOK, s, OtherClasses
<1> QED
  <2>1. Class \in Classes  BY KindsOfUnits
  <2>2. IsTimes <=> Class \in {"runtime_pm", "alsa", "ahci"}  BY DEF IsTimes
  <2>3. Class \in {"usb"} \cup OtherClasses \/ IsLevels \/ IsTimes \/ IsCounted  BY <2>1, KindsApart
  <2> QED  BY <1>7, <1>8, <1>9, <1>10, <1>11, <1>12, <1>13, <1>14, <1>15, <1>16, <2>2, <2>3 DEF OtherClasses

\* What is spent stays as it is when it is left alone.
LEMMA SpentKept ==
  ASSUME SpentOK, unit' = unit, spent' = spent, whole' => whole
  PROVE  SpentOK'
<1>1. Class' = Class /\ CounterKeys' = CounterKeys  BY UnitKept
<1> QED  BY <1>1 DEF SpentOK

\* The machine at one moment.
LEMMA MachineStays ==
  ASSUME BaseOK, unit' = unit, MachineOK(kernel'), kernel'[Now] = kernel[Now],
         \/ began' = began /\ spent'[Now] = spent[Now]
         \/ began' = kernel /\ spent'[Now] = 0,
         gone' = {} \/ gone' = KernelKeys \ {Now, Powercap},
         faults' = 0 => gone' = {},
         Class = "ahci" /\ (whole' \/ (present' /\ mode' = "recording")) => kernel'[Accounting] = 1
  PROVE  MachinesOK'
<1>1. Class' = Class /\ KernelKeys' = KernelKeys  BY UnitKept, FixedKept
<1>2. (MachineOK(kernel))' /\ (MachineOK(began))'
  <2>1. MachineOK(began')  BY DEF BaseOK, MachinesOK
  <2> QED  BY <2>1, MachineNext
<1>3. /\ kernel'[Now] = began'[Now] + spent'[Now] /\ began'[Now] >= TicksPerSecond
      /\ kernel'[Now] >= TicksPerSecond /\ kernel'[Now] <= TicksPerSecond + MaxTicks
  <2>1. kernel[Now] \in Nat  BY DEF BaseOK, MachinesOK, MachineOK
  <2>2. kernel'[Now] >= TicksPerSecond /\ kernel'[Now] <= TicksPerSecond + MaxTicks
    BY DEF BaseOK, MachinesOK
  <2>3. CASE began' = began /\ spent'[Now] = spent[Now]  BY <2>3 DEF BaseOK, MachinesOK
  <2>4. CASE began' = kernel /\ spent'[Now] = 0  BY <2>1, <2>4 DEF BaseOK, MachinesOK
  <2> QED  BY <2>2, <2>3, <2>4
<1> QED  BY <1>1, <1>2, <1>3 DEF MachinesOK

\* The machine when nothing touches it.
LEMMA MachineKept ==
  ASSUME BaseOK, UNCHANGED <<unit, kernel, gone, faults>>,
         \/ began' = began /\ spent'[Now] = spent[Now]
         \/ began' = kernel /\ spent'[Now] = 0,
         Class = "ahci" /\ (whole' \/ (present' /\ mode' = "recording")) =>
           whole \/ (present /\ mode = "recording")
  PROVE  MachinesOK'
<1>1. MachineOK(kernel')  BY DEF BaseOK, MachinesOK
<1>2. gone' = {} \/ gone' = KernelKeys \ {Now, Powercap}  BY DEF BaseOK, MachinesOK
<1>3. faults' = 0 => gone' = {}  BY DEF BaseOK, MachinesOK
<1>4. Class = "ahci" /\ (whole' \/ (present' /\ mode' = "recording")) => kernel'[Accounting] = 1
  <2>1. Class = "ahci" /\ (whole \/ (present /\ mode = "recording")) => kernel[Accounting] = 1
    BY DEF BaseOK, MachinesOK
  <2> QED  BY <2>1, Zenon
<1> QED  BY <1>1, <1>2, <1>3, <1>4, MachineStays

LEMMA BaseInit == Init => BaseOK
<1> SUFFICES ASSUME Init PROVE BaseOK  OBVIOUS
<1>1. unit \in Units  BY DEF Init
<1>2. PICK value \in Started, levels \in [LevelKeys -> UNION {Level(k[2]) : k \in LevelKeys}] :
        /\ \A k \in LevelKeys : levels[k] \in Level(k[2])
        /\ kernel = Machine(value, levels)
  BY DEF Init
<1>3. value \in Nat /\ MaxTicks \in Nat  BY BoundsAssumption
<1>4. MachineOK(kernel) /\ kernel[Now] = TicksPerSecond
  BY <1>1, <1>2, <1>3, MachineStarts
<1>5. /\ began = kernel /\ spent = Nothing /\ gone = {} /\ mode = "recording" /\ phase = "new"
      /\ present = FALSE /\ whole = FALSE /\ number = 0 /\ faults = 0 /\ used = 0 /\ charged = 0
      /\ truths = <<>> /\ device = New
  BY DEF Init, FrameworkInit
<1>6. SpentOK  BY <1>1, <1>5, NothingSpent
<1>7. spent[Now] = 0  BY <1>1, <1>5, NothingIs
<1>8. MachinesOK
  <2>1. kernel[Now] \in Nat /\ TicksPerSecond \in Nat  BY <1>4, TicksAssumption DEF MachineOK
  <2>2. kernel[Now] >= TicksPerSecond /\ kernel[Now] <= TicksPerSecond + MaxTicks
        /\ kernel[Now] = began[Now] + spent[Now] /\ began[Now] >= TicksPerSecond
    BY <1>3, <1>4, <1>5, <1>7, <2>1
  <2> QED  BY <1>4, <1>5, <2>2 DEF MachinesOK
<1>9. PhasesOK  BY <1>1, <1>5 DEF PhasesOK, Phases
<1> QED  BY <1>6, <1>8, <1>9 DEF BaseOK

LEMMA BaseTick == BaseOK /\ Tick => BaseOK'
<1> SUFFICES ASSUME BaseOK, Tick PROVE BaseOK'  OBVIOUS
<1>1. unit \in Units /\ MachineOK(kernel) /\ SpentOK /\ (Class = "ahci" /\ whole => kernel[Accounting] = 1)
  BY DEF BaseOK, PhasesOK, MachinesOK
<1>2. /\ unit' = unit /\ MachineOK(kernel') /\ kernel'[Now] = kernel[Now] + 1
      /\ Accounting \in DOMAIN kernel => kernel'[Accounting] = kernel[Accounting]
      /\ spent'[Now] = spent[Now] + 1
  BY <1>1, TickIs
<1>3. /\ UNCHANGED <<unit, phase, present, device, number, mode, gone, whole, began, truths, charged, faults>>
      /\ mode = "recording" /\ kernel[Now] < TicksPerSecond + MaxTicks
  BY DEF Tick
<1>4. SpentOK'  BY <1>1, TickSpends
<1>5. used' \in Nat /\ (phase = "new" => used' = used)
  <2>1. PICK activity \in Activities :
          /\ AddedOK(activity)
          /\ IsCounted => used' = used + IF phase # "new" THEN Added(activity, EnergyCounter) ELSE 0
          /\ ~IsCounted => used' = used + 0
    BY <1>1, TickIs
  <2>2. IsCounted => Added(activity, EnergyCounter) \in Nat
    BY <1>1, <2>1, KeysOfClass DEF AddedOK
  <2>3. used \in Nat  BY DEF BaseOK, PhasesOK
  <2> QED  BY <2>1, <2>2, <2>3
<1>6. PhasesOK'
  <2>1. Class' = Class /\ New' = New  BY <1>3, UnitKept DEF New, IsShare, IsRapl
  <2> QED  BY <1>3, <1>5, <2>1 DEF BaseOK, PhasesOK
<1>7. MachinesOK'
  <2>1. Class' = Class /\ KernelKeys' = KernelKeys  BY <1>3, UnitKept, FixedKept
  <2>2. (MachineOK(kernel))' /\ (MachineOK(began))'
    <3>1. MachineOK(began')  BY <1>3 DEF BaseOK, MachinesOK
    <3> QED  BY <1>2, <3>1, MachineNext
  <2>3. kernel[Now] \in Nat /\ TicksPerSecond \in Nat /\ MaxTicks \in Nat /\ spent[Now] \in Nat /\ began[Now] \in Nat
    BY TicksAssumption, BoundsAssumption DEF BaseOK, MachinesOK, MachineOK, SpentOK
  <2>4. /\ kernel'[Now] >= TicksPerSecond /\ kernel'[Now] <= TicksPerSecond + MaxTicks
        /\ kernel'[Now] = began'[Now] + spent'[Now] /\ began'[Now] >= TicksPerSecond
    BY <1>2, <1>3, <2>3 DEF BaseOK, MachinesOK
  <2>5. Class = "ahci" => Accounting \in DOMAIN kernel
    BY <1>1, FixedIs DEF MachineOK, KernelKeys
  <2>6. Class = "ahci" /\ (whole' \/ (present' /\ mode' = "recording")) => kernel'[Accounting] = 1
    BY <1>2, <1>3, <2>5 DEF BaseOK, MachinesOK
  <2> QED  BY <1>3, <2>1, <2>2, <2>4, <2>6 DEF BaseOK, MachinesOK
<1> QED  BY <1>4, <1>6, <1>7 DEF BaseOK

LEMMA NatNext == \A n \in Nat : n + 1 \in Nat /\ n + 1 # 0
OBVIOUS

LEMMA NewKept == unit' = unit => New' = New
BY UnitKept DEF New

LEMMA BaseSetLevel == BaseOK /\ SetLevel => BaseOK'
<1> SUFFICES ASSUME BaseOK, SetLevel PROVE BaseOK'  OBVIOUS
<1>1. PICK k \in LevelKeys : \E level \in Level(k[2]) : kernel' = [kernel EXCEPT ![k] = level]
  BY DEF SetLevel
<1>2. PICK level \in Level(k[2]) : kernel' = [kernel EXCEPT ![k] = level]  BY <1>1
<1>3. /\ UNCHANGED <<unit, phase, present, device, number, mode, gone, whole, began, spent, truths, used,
                     charged, faults>>
      /\ mode = "recording"
  BY DEF SetLevel
<1>4. unit \in Units /\ MachineOK(kernel)  BY DEF BaseOK, PhasesOK, MachinesOK
<1>5. MachineOK(kernel') /\ kernel'[Now] = kernel[Now]
      /\ (Accounting \in DOMAIN kernel => kernel'[Accounting] = kernel[Accounting])
  BY <1>2, <1>4, KeySet
<1>6. Class = "ahci" => Accounting \in DOMAIN kernel  BY <1>4, FixedIs DEF MachineOK, KernelKeys
<1>7. MachinesOK'
  <2>1. Class = "ahci" /\ (whole' \/ (present' /\ mode' = "recording")) => kernel'[Accounting] = 1
    BY <1>3, <1>5, <1>6 DEF BaseOK, MachinesOK
  <2>2. gone' = {} \/ gone' = KernelKeys \ {Now, Powercap}  BY <1>3 DEF BaseOK, MachinesOK
  <2>3. faults' = 0 => gone' = {}  BY <1>3 DEF BaseOK, MachinesOK
  <2> QED  BY <1>3, <1>5, <2>1, <2>2, <2>3, MachineStays
<1>8. SpentOK'  BY <1>3, SpentKept DEF BaseOK
<1>9. PhasesOK'
  <2>1. Class' = Class /\ New' = New  BY <1>3, UnitKept, NewKept
  <2> QED  BY <1>3, <2>1 DEF BaseOK, PhasesOK
<1> QED  BY <1>7, <1>8, <1>9 DEF BaseOK

LEMMA BaseLost == BaseOK /\ Lost => BaseOK'
<1> SUFFICES ASSUME BaseOK, Lost PROVE BaseOK'  OBVIOUS
<1>1. /\ UNCHANGED <<unit, phase, present, device, number, mode, kernel, began, spent, truths, used, charged>>
      /\ mode = "recording"
      /\ phase = "new" => Class # "rapl_powercap"
      /\ gone' = DOMAIN kernel \ {Now, Powercap}
      /\ faults' = faults + 1 /\ whole' = FALSE
  BY DEF Lost
<1>2. MachineOK(kernel) /\ DOMAIN kernel = KernelKeys  BY DEF BaseOK, MachinesOK, MachineOK
<1>3. faults \in Nat  BY DEF BaseOK, PhasesOK
<1>4. MachinesOK'
  <2>1. Class = "ahci" /\ (whole' \/ (present' /\ mode' = "recording")) => kernel'[Accounting] = 1
    BY <1>1 DEF BaseOK, MachinesOK
  <2>2. gone' = KernelKeys \ {Now, Powercap}  BY <1>1, <1>2
  <2>3. MachineOK(kernel')  BY <1>1, <1>2
  <2>4. faults' # 0  BY <1>1, <1>3, NatNext, Zenon
  <2> QED  BY <1>1, <2>1, <2>2, <2>3, <2>4, MachineStays
<1>5. SpentOK'  BY <1>1, SpentKept DEF BaseOK
<1>6. PhasesOK'
  <2>1. Class' = Class /\ New' = New  BY <1>1, UnitKept, NewKept
  <2>2. faults' \in Nat  BY <1>1, <1>3, NatNext, Zenon
  <2>3. mode' = "recording" /\ phase' = "new" => Class' # "rapl_powercap"  BY <1>1, <2>1
  <2> QED  BY <1>1, <2>1, <2>2, <2>3 DEF BaseOK, PhasesOK
<1> QED  BY <1>4, <1>5, <1>6 DEF BaseOK

LEMMA BaseFound == BaseOK /\ Found => BaseOK'
<1> SUFFICES ASSUME BaseOK, Found PROVE BaseOK'  OBVIOUS
<1>1. /\ UNCHANGED <<unit, phase, present, device, number, mode, whole, began, spent, truths, used, charged,
                     faults>>
      /\ gone' = {}
      /\ kernel' = IF KeepsCounters THEN kernel ELSE Over(AsFiles(All(CounterKeys, 0)), kernel)
  BY DEF Found, history
<1>2. unit \in Units /\ MachineOK(kernel)  BY DEF BaseOK, PhasesOK, MachinesOK
<1>3. /\ MachineOK(kernel') /\ kernel'[Now] = kernel[Now]
      /\ Accounting \in DOMAIN kernel => kernel'[Accounting] = kernel[Accounting]
  BY <1>1, <1>2, Return
<1>4. Class = "ahci" => Accounting \in DOMAIN kernel  BY <1>2, FixedIs DEF MachineOK, KernelKeys
<1>5. MachinesOK'
  <2>1. Class = "ahci" /\ (whole' \/ (present' /\ mode' = "recording")) => kernel'[Accounting] = 1
    BY <1>1, <1>3, <1>4 DEF BaseOK, MachinesOK
  <2> QED  BY <1>1, <1>3, <2>1, MachineStays
<1>6. SpentOK'  BY <1>1, SpentKept DEF BaseOK
<1>7. PhasesOK'
  <2>1. Class' = Class /\ New' = New  BY <1>1, UnitKept, NewKept
  <2> QED  BY <1>1, <2>1 DEF BaseOK, PhasesOK
<1> QED  BY <1>5, <1>6, <1>7 DEF BaseOK

\* Looking for a device says whether there is one.
LEMMA LookedFor == LookFor(Class).found \in BOOLEAN /\ LookForUsb.found \in BOOLEAN
<1>1. \A keys, found : found \in BOOLEAN => Look(keys, found).found \in BOOLEAN  BY DEF Look
<1>2. \A k : Present(k) \in BOOLEAN  BY DEF Present
<1>3. \A name : Accessible(name) \in BOOLEAN  BY DEF Accessible
<1>4. LookForUsb.found \in BOOLEAN  BY <1>3 DEF LookForUsb, Look
<1>5. LookForAlsa.found \in BOOLEAN /\ LookForFan.found \in BOOLEAN /\ LookForLight.found \in BOOLEAN
  BY <1>3 DEF LookForAlsa, LookForFan, LookForLight, Look
<1>6. LookForAhci.found \in BOOLEAN /\ LookForBacklight.found \in BOOLEAN /\ LookForNic.found \in BOOLEAN
      /\ LookForRfkill.found \in BOOLEAN
  BY <1>2 DEF LookForAhci, LookForBacklight, LookForNic, LookForRfkill, Look
<1>7. LookForRuntimePm.found \in BOOLEAN  BY DEF LookForRuntimePm, Look
<1>8. LookForXe.found \in BOOLEAN  BY DEF LookForXe, Look
<1>9. LookForXeFan.found \in BOOLEAN  BY DEF LookForXeFan, Look
<1>10. LookForDevfreq.found \in BOOLEAN /\ LookForXeCard.found \in BOOLEAN  BY <1>2 DEF LookForDevfreq, LookForXeCard
<1>11. LookForRc6.found \in BOOLEAN  BY DEF LookForRc6, Look
<1>12. Look({}, TRUE).found \in BOOLEAN  BY DEF Look
<1> QED  BY <1>4, <1>5, <1>6, <1>7, <1>8, <1>9, <1>10, <1>11, <1>12 DEF LookFor

LEMMA LookedAgain ==
  ASSUME present \in BOOLEAN
  PROVE  LookAgain.found \in BOOLEAN /\ (Class # "usb" => LookAgain.found = present)
<1>1. CASE Class # "usb"  BY <1>1 DEF LookAgain, Look
<1>2. CASE Class = "usb" /\ present
  <2>1. LookAgain = LookForKnownUsb  BY <1>2 DEF LookAgain
  <2> QED  BY <1>2, <2>1 DEF LookForKnownUsb, Look
<1>3. CASE Class = "usb" /\ ~present
  <2>1. LookAgain = LookForUsb  BY <1>3 DEF LookAgain
  <2> QED  BY <1>3, <2>1, LookedFor
<1> QED  BY <1>1, <1>2, <1>3

LEMMA BaseCreate == BaseOK /\ Create => BaseOK'
<1> SUFFICES ASSUME BaseOK, Create PROVE BaseOK'  OBVIOUS
<1>1. /\ UNCHANGED <<unit, number, mode, gone, whole, began, spent, truths, used, charged, faults>>
      /\ phase = "new" /\ phase' = "created"
      /\ present' = LookFor(Class).found
      /\ kernel' = IF present' /\ Class = "ahci" THEN Written(Accounting, 1) ELSE kernel
  BY DEF Create, history
<1>2. unit \in Units /\ MachineOK(kernel) /\ mode \in {"recording", "replaying"}
  BY DEF BaseOK, PhasesOK, MachinesOK
<1>3. Class = "ahci" => Accounting \in DOMAIN kernel  BY <1>2, FixedIs DEF MachineOK, KernelKeys
<1>4. /\ MachineOK(kernel') /\ kernel'[Now] = kernel[Now]
      /\ Class = "ahci" /\ kernel[Accounting] = 1 => kernel'[Accounting] = 1
  <2>1. CASE kernel' = kernel  BY <1>2, <2>1
  <2>2. CASE kernel' # kernel
    <3>1. kernel' = [kernel EXCEPT ![Accounting] = 1]  BY <1>1, <2>2 DEF Written
    <3>2. Accounting \notin LevelKeys  BY <1>2, FilesApart
    <3>3. MachineOK([kernel EXCEPT ![Accounting] = 1]) /\ [kernel EXCEPT ![Accounting] = 1][Now] = kernel[Now]
      BY <1>2, <3>2, KeySet
    <3>5. MachineOK(kernel') /\ kernel'[Now] = kernel[Now]  BY <3>1, <3>3
    <3>4. Class = "ahci" => kernel'[Accounting] = 1  BY <1>3, <3>1
    <3> QED  BY <3>4, <3>5
  <2> QED  BY <2>1, <2>2
<1>5. present' \in BOOLEAN
  <2>1. LookFor(Class).found \in BOOLEAN  BY LookedFor
  <2> QED  BY <1>1, <2>1
<1>6. Class = "ahci" /\ present' /\ mode = "recording" => kernel'[Accounting] = 1
  <2> SUFFICES ASSUME Class = "ahci", present', mode = "recording" PROVE kernel'[Accounting] = 1
    OBVIOUS
  <2>1. LookFor(Class).found = Present(Accounting)  BY DEF LookFor, LookForAhci, Look
  <2>2. Accounting \notin gone  BY <1>1, <2>1 DEF Present, ReadContent, Content
  <2>3. kernel' = [kernel EXCEPT ![Accounting] = 1]  BY <1>1, <2>2 DEF Written, Writable
  <2> QED  BY <1>3, <2>3
<1>7. MachinesOK'
  <2>1. Class = "ahci" /\ (whole' \/ (present' /\ mode' = "recording")) => kernel'[Accounting] = 1
    BY <1>1, <1>4, <1>6 DEF BaseOK, MachinesOK
  <2>2. gone' = {} \/ gone' = KernelKeys \ {Now, Powercap}  BY <1>1 DEF BaseOK, MachinesOK
  <2>3. faults' = 0 => gone' = {}  BY <1>1 DEF BaseOK, MachinesOK
  <2> QED  BY <1>1, <1>4, <2>1, <2>2, <2>3, MachineStays
<1>8. SpentOK'  BY <1>1, SpentKept DEF BaseOK
<1>9. PhasesOK'
  <2>1. Class' = Class /\ New' = New  BY <1>1, UnitKept, NewKept
  <2> QED  BY <1>1, <1>5, <2>1 DEF BaseOK, PhasesOK, Phases
<1> QED  BY <1>7, <1>8, <1>9 DEF BaseOK

LEMMA BaseStart == BaseOK /\ StartMeasurement => BaseOK'
<1> SUFFICES ASSUME BaseOK, StartMeasurement PROVE BaseOK'  OBVIOUS
<1>1. /\ UNCHANGED <<unit, mode, kernel, gone, truths, used, charged, faults>>
      /\ phase' = "started" /\ number' = number + 1
      /\ present' = LookAgain.found
      /\ whole' = (mode = "recording" /\ present' /\ Readable(StartReads))
      /\ began' = kernel /\ spent' = Nothing
  BY DEF StartMeasurement
<1>2. unit \in Units  BY DEF BaseOK, PhasesOK
<1>3. present' \in BOOLEAN /\ (Class # "usb" => present' = present)
  <2>1. LookAgain.found \in BOOLEAN /\ (Class # "usb" => LookAgain.found = present)  BY LookedAgain DEF BaseOK, PhasesOK
  <2> QED  BY <1>1, <2>1
<1>4. SpentOK' /\ spent'[Now] = 0  BY <1>1, <1>2, NothingSpent, NothingIs
<1>5. whole' \in BOOLEAN /\ (whole' => present' /\ mode = "recording")  BY <1>1
<1>6. MachinesOK'
  <2>1. Class = "ahci" /\ (whole' \/ (present' /\ mode' = "recording")) =>
          whole \/ (present /\ mode = "recording")
    BY <1>1, <1>3, <1>5
  <2> QED  BY <1>1, <1>4, <2>1, MachineKept
<1>7. PhasesOK'
  <2>1. Class' = Class /\ New' = New  BY <1>1, UnitKept, NewKept
  <2>2. number' \in Nat
    <3>1. number' = number + 1  BY <1>1
    <3>2. number \in Nat  BY DEF BaseOK, PhasesOK
    <3> QED  BY <3>1, <3>2, NatNext, Zenon
  <2>3. phase' # "new" /\ phase' \in Phases  BY <1>1 DEF Phases
  <2>4. unit' \in Units /\ mode' \in {"recording", "replaying"} /\ faults' \in Nat /\ used' \in Nat
        /\ (mode' = "replaying" => Class' \notin {"nic", "rapl_msr"})
    BY <1>1, <2>1 DEF BaseOK, PhasesOK
  <2> QED  BY <1>3, <1>5, <2>2, <2>3, <2>4 DEF PhasesOK
<1> QED  BY <1>4, <1>6, <1>7 DEF BaseOK

LEMMA BaseEnd == BaseOK /\ EndMeasurement => BaseOK'
<1> SUFFICES ASSUME BaseOK, EndMeasurement PROVE BaseOK'  OBVIOUS
<1>1. /\ UNCHANGED <<unit, present, number, mode, kernel, gone, whole, began, spent, used, faults>>
      /\ phase' = "ended"
  BY DEF EndMeasurement
<1>2. MachinesOK'  BY <1>1, MachineKept
<1>3. SpentOK'  BY <1>1, SpentKept DEF BaseOK
<1>4. PhasesOK'
  <2>1. Class' = Class /\ New' = New  BY <1>1, UnitKept, NewKept
  <2> QED  BY <1>1, <2>1 DEF BaseOK, PhasesOK, Phases
<1> QED  BY <1>2, <1>3, <1>4 DEF BaseOK

LEMMA BaseStop == BaseOK /\ Stop => BaseOK'
<1> SUFFICES ASSUME BaseOK, Stop PROVE BaseOK'  OBVIOUS
<1>1. /\ UNCHANGED <<unit, present, device, number, mode, kernel, gone, whole, began, spent, truths, used,
                     charged, faults>>
      /\ phase' \in {"thrown", "exited"}
  BY DEF Stop, history
<1>2. MachinesOK'  BY <1>1, MachineKept
<1>3. SpentOK'  BY <1>1, SpentKept DEF BaseOK
<1>4. PhasesOK'
  <2>1. Class' = Class /\ New' = New  BY <1>1, UnitKept, NewKept
  <2> QED  BY <1>1, <2>1 DEF BaseOK, PhasesOK, Phases
<1> QED  BY <1>2, <1>3, <1>4 DEF BaseOK

LEMMA BaseReplay == BaseOK /\ Replay => BaseOK'
<1> SUFFICES ASSUME BaseOK, Replay PROVE BaseOK'  OBVIOUS
<1>1. /\ UNCHANGED <<unit, kernel, gone, whole, began, spent, truths, used, charged, faults>>
      /\ phase' = "new" /\ mode' = "replaying" /\ present' = FALSE /\ number' = 0
      /\ Class \notin {"nic", "rapl_msr"}
  BY DEF Replay, SaveAndLoad, history
<1>2. MachinesOK'  BY <1>1, MachineKept
<1>3. SpentOK'  BY <1>1, SpentKept DEF BaseOK
<1>4. PhasesOK'
  <2>1. Class' = Class  BY <1>1, UnitKept
  <2> QED  BY <1>1, <2>1 DEF BaseOK, PhasesOK, Phases
<1> QED  BY <1>2, <1>3, <1>4 DEF BaseOK

LEMMA BaseStutter == BaseOK /\ UNCHANGED vars => BaseOK'
<1> SUFFICES ASSUME BaseOK, UNCHANGED vars PROVE BaseOK'  OBVIOUS
<1>1. UNCHANGED <<unit, phase, present, device, number, mode, kernel, gone, whole, began, spent, truths, used,
                  charged, faults>>
  BY DEF vars
<1>2. MachinesOK'  BY <1>1, MachineKept
<1>3. SpentOK'  BY <1>1, SpentKept DEF BaseOK
<1>4. PhasesOK'
  <2>1. Class' = Class /\ New' = New  BY <1>1, UnitKept, NewKept
  <2> QED  BY <1>1, <2>1 DEF BaseOK, PhasesOK
<1> QED  BY <1>2, <1>3, <1>4 DEF BaseOK

LEMMA BaseNext == BaseOK /\ [Next]_vars => BaseOK'
BY BaseTick, BaseSetLevel, BaseLost, BaseFound, BaseCreate, BaseStart, BaseEnd, BaseStop, BaseReplay,
   BaseStutter DEF Next

(***************************************************************************)
(* What is charged.                                                        *)
(***************************************************************************)
Counter == kernel[EnergyCounter]

RaplFields == {"rapl", "valid", "last_energy", "last_time", "consumed"}
NicFields  == {"last_time", "pkts", "start_pkts", "end_pkts", "before", "after", "start_up", "end_up",
               "start_speed", "end_speed", "valid"}
XeFields   == {"energy_path", "last_energy", "last_time", "consumed"}

\* A domain of RAPL was read last when its counter stood at "read".
RaplOK ==
  mode = "recording" /\ IsRapl /\ phase # "new" =>
    /\ present
    /\ DOMAIN device = RaplFields
    /\ device.valid \in BOOLEAN
    /\ charged \in Int
    /\ charged <= used
    /\ device.valid =>
         /\ EnergyKey(device.rapl, Model) = EnergyCounter
         /\ device.last_time \in Nat /\ device.last_time <= kernel[Now]
         /\ \E read \in Nat : /\ read <= Counter
                              /\ device.last_energy = read % EnergyRange
                              /\ charged + (Counter - read) <= used

\* What the next reads can charge at most.
Uncharged == IF gone # {} \/ Counter < device.pkts THEN 0 ELSE Counter - device.pkts

NicOK ==
  mode = "recording" /\ Class = "nic" /\ phase # "new" =>
    /\ DOMAIN device = NicFields
    /\ charged \in Int /\ charged <= used
    /\ device.pkts \in Nat
    /\ number = 0 => charged = 0 /\ device.last_time = 0
    /\ present /\ number # 0 => charged + Uncharged <= used
    /\ phase = "started" => number # 0 /\ (present => device.start_pkts = device.pkts)

\* An Xe card has not been lost.
Faultless == faults = 0

XeOK ==
  mode = "recording" /\ Class = "xe_energy" /\ phase # "new" /\ Faultless =>
    /\ present
    /\ DOMAIN device = XeFields
    /\ device.energy_path \in BOOLEAN
    /\ charged \in Int /\ charged <= used
    /\ device.energy_path =>
         /\ device.last_time \in Nat /\ device.last_time <= kernel[Now]
         /\ device.last_energy \in Nat /\ device.last_energy <= Counter
         /\ charged + (Counter - device.last_energy) <= used

\* A class that is charged for what it counts.
Accounted == IsRapl \/ Class = "nic" \/ (Class = "xe_energy" /\ Faultless)

ChargeOK == RaplOK /\ NicOK /\ XeOK /\ (Accounted => charged \in Int /\ charged <= used)

LEMMA CounterIs ==
  ASSUME BaseOK, IsCounted
  PROVE  /\ Counter \in Nat /\ kernel[Now] \in Nat /\ EnergyCounter \in KernelKeys
         /\ Absent \notin Nat /\ EnergyCounter # Now /\ EnergyCounter # Powercap
         /\ (EnergyCounter \in gone) <=> (gone # {})
         /\ Now \notin gone /\ Powercap \notin gone
<1>1. EnergyCounter \in CounterKeys /\ Class # "devfreq"
  <2>1. unit \in Units  BY DEF BaseOK, PhasesOK
  <2> QED  BY <2>1, KeysOfClass, KindsApart DEF OtherClasses
<1>2. Counter \in Nat /\ kernel[Now] \in Nat
  BY <1>1 DEF BaseOK, MachinesOK, MachineOK, Count, Counter
<1>3. EnergyCounter \in KernelKeys  BY <1>1 DEF KernelKeys, FileKeys
<1>4. EnergyCounter # Now /\ EnergyCounter # Powercap
  <2>1. unit \in Units  BY DEF BaseOK, PhasesOK
  <2> QED  BY <1>1, <2>1, KeysApart DEF Special
<1>5. gone = {} \/ gone = KernelKeys \ {Now, Powercap}  BY DEF BaseOK, MachinesOK
<1>6. Absent \notin Nat  BY FrameworkAssumption
<1> QED  BY <1>2, <1>3, <1>4, <1>5, <1>6

\* What is read of the machine itself.
LEMMA RecordingReads ==
  ASSUME mode = "recording"
  PROVE  /\ \A k, times : ReadContent(k, times) = Content(k)
         /\ \A reads : DOMAIN Got(reads) = DOMAIN reads /\ \A k \in DOMAIN reads : Got(reads)[k] = Content(k)
BY DEF ReadContent, Got

\* The difference of two readings of a counter that wraps is no more than what it counted.
LEMMA Wraps ==
  ASSUME NEW read \in Nat, NEW now \in Nat, read <= now
  PROVE  /\ (now % EnergyRange) - (read % EnergyRange) <= now - read
         /\ now % EnergyRange \in Nat /\ read % EnergyRange \in Nat
<1>1. EnergyRange \in Nat /\ EnergyRange > 0  BY EnergyRangeAssumption
<1> DEFINE r == EnergyRange
           a == read \div r
           b == now \div r
<1>2. /\ a \in Nat /\ b \in Nat
      /\ read = r * a + (read % r) /\ now = r * b + (now % r)
      /\ read % r \in 0..(r - 1) /\ now % r \in 0..(r - 1)
  BY <1>1
<1>3. a <= b
  <2> SUFFICES ASSUME a > b PROVE FALSE  BY <1>2
  <2>1. a >= b + 1  BY <1>2
  <2>2. r * a >= r * (b + 1)  BY <1>1, <1>2, <2>1
  <2>3. r * (b + 1) = r * b + r  BY <1>1, <1>2
  <2> QED  BY <1>1, <1>2, <2>2, <2>3
<1>4. r * a <= r * b  BY <1>1, <1>2, <1>3
<1> QED  BY <1>1, <1>2, <1>4

(***************************************************************************)
(* RAPL.                                                                   *)
(***************************************************************************)
LEMMA RaplKept ==
  ASSUME RaplOK, UNCHANGED <<unit, present, device, mode, charged, used>>,
         IsRapl => kernel' = kernel, phase' # "new" => phase # "new"
  PROVE  RaplOK'
<1>1. Model' = Model /\ IsRapl' = IsRapl /\ EnergyCounter' = EnergyCounter  BY UnitKept
<1>2. IsRapl => Counter' = Counter  BY <1>1 DEF Counter
<1> QED  BY <1>1, <1>2 DEF RaplOK, EnergyKey

LEMMA RaplTick == BaseOK /\ RaplOK /\ Tick => RaplOK'
<1> SUFFICES ASSUME BaseOK, RaplOK, Tick PROVE RaplOK'  OBVIOUS
<1>0. UNCHANGED <<unit, mode, phase>>  BY DEF Tick
<1>10. IsRapl' = IsRapl  BY <1>0, UnitKept
<1> SUFFICES ASSUME mode = "recording", IsRapl, phase # "new" PROVE RaplOK'
  BY <1>0, <1>10 DEF RaplOK
<1>1. unit \in Units /\ MachineOK(kernel) /\ SpentOK /\ IsCounted /\ Class # "devfreq"
  BY KindsApart DEF BaseOK, PhasesOK, MachinesOK, OtherClasses
<1>2. /\ unit' = unit /\ kernel'[Now] = kernel[Now] + 1
      /\ \E add \in Nat : kernel'[EnergyCounter] = Counter + add /\ used' = used + add
  <2>1. EnergyCounter \in CounterKeys  BY <1>1, KeysOfClass
  <2>2. PICK activity \in Activities :
          /\ AddedOK(activity)
          /\ \A k \in CounterKeys : Count(kernel', k) = Count(kernel, k) + Added(activity, k)
          /\ used' = used + IF phase # "new" THEN Added(activity, EnergyCounter) ELSE 0
    BY <1>1, TickIs
  <2>3. Count(kernel', EnergyCounter) = kernel'[EnergyCounter] /\ Count(kernel, EnergyCounter) = Counter
    BY <1>1 DEF Count, Counter
  <2>4. Added(activity, EnergyCounter) \in Nat  BY <2>1, <2>2 DEF AddedOK
  <2>5. kernel'[EnergyCounter] = Counter + Added(activity, EnergyCounter)
        /\ used' = used + Added(activity, EnergyCounter)
    BY <2>1, <2>2, <2>3
  <2> QED  BY <1>1, <2>4, <2>5, TickIs
<1>3. PICK add \in Nat : kernel'[EnergyCounter] = Counter + add /\ used' = used + add  BY <1>2
<1>4. Model' = Model /\ EnergyCounter' = EnergyCounter  BY <1>2, UnitKept
<1>5. Counter' = Counter + add  BY <1>3, <1>4 DEF Counter
<1>6. UNCHANGED <<present, device, charged, mode, phase>>  BY DEF Tick
<1>7. Counter \in Nat /\ kernel[Now] \in Nat /\ used \in Nat  BY <1>1, CounterIs DEF BaseOK, PhasesOK
<1>8. charged' \in Int /\ charged' <= used'  BY <1>3, <1>6, <1>7 DEF RaplOK
<1>9. ASSUME device.valid
      PROVE  /\ EnergyKey(device.rapl, Model) = EnergyCounter
             /\ device.last_time \in Nat /\ device.last_time <= kernel'[Now]
             /\ \E read \in Nat : /\ read <= Counter'
                                  /\ device.last_energy = read % EnergyRange
                                  /\ charged' + (Counter' - read) <= used'
  <2>1. PICK read \in Nat : /\ read <= Counter
                            /\ device.last_energy = read % EnergyRange
                            /\ charged + (Counter - read) <= used
    BY <1>9 DEF RaplOK
  <2>2. read <= Counter' /\ charged' + (Counter' - read) <= used'
    <3>1. charged \in Int  BY DEF RaplOK
    <3> QED  BY <1>3, <1>5, <1>6, <1>7, <2>1, <3>1
  <2>3. device.last_time \in Nat /\ device.last_time <= kernel'[Now]
    <3>1. device.last_time \in Nat /\ device.last_time <= kernel[Now]  BY <1>9 DEF RaplOK
    <3> QED  BY <1>2, <1>7, <3>1
  <2> QED  BY <1>9, <2>1, <2>2, <2>3 DEF RaplOK
<1> QED  BY <1>4, <1>6, <1>8, <1>9 DEF RaplOK, EnergyKey

\* A domain that is created reads its counter.
LEMMA RaplCreate == BaseOK /\ Create => RaplOK'
<1> SUFFICES ASSUME BaseOK, Create PROVE RaplOK'  OBVIOUS
<1>0. UNCHANGED <<unit, mode>>  BY DEF Create
<1>23. IsRapl' = IsRapl  BY <1>0, UnitKept
<1> SUFFICES ASSUME mode = "recording", IsRapl PROVE RaplOK'
  BY <1>0, <1>23 DEF RaplOK
<1>1. /\ phase = "new" /\ UNCHANGED <<unit, charged, used>>
      /\ present' = LookFor(Class).found
      /\ device' = IF present' THEN Created(Got(CreateReads)) ELSE New
      /\ kernel' = kernel
  BY DEF Create, history, IsRapl
<1>2. used = 0 /\ charged = 0  BY <1>1 DEF BaseOK, PhasesOK
<1>3. unit \in Units /\ IsCounted  BY KindsApart DEF BaseOK, PhasesOK
<1>4. Model' = Model /\ EnergyCounter' = EnergyCounter /\ Counter' = Counter  BY <1>1, UnitKept DEF Counter
<1>5. present'
  <2>1. LookFor(Class) = Look({}, TRUE)  BY DEF LookFor, IsRapl
  <2> QED  BY <1>1, <2>1 DEF Look
<1> DEFINE rapl == RaplInterface(Listing)
           got == Got(CreateReads)
           own == IF Model \in rapl.domains THEN {EnergyKey(rapl, Model)} ELSE {}
           rest == Over(Once({Now}), InterfaceReads(Listing))
           all == All(own, IF rapl.powercap THEN 1 ELSE 2)
<1>6. device' = RaplCreated(rapl, Model, got)  BY <1>1, <1>5 DEF Created, IsRapl
<1>7. CreateReads = Over(all, rest)  BY DEF CreateReads, RaplReads
<1>8. DOMAIN all = own  BY AllIs
<1>9. Now \in DOMAIN rest  BY OnceIs DEF Over
<1> HIDE DEF all, rest
<1>10. Now \in DOMAIN CreateReads /\ own \subseteq DOMAIN CreateReads  BY <1>7, <1>8, <1>9 DEF Over
<1>11. /\ Now \in DOMAIN got /\ got[Now] = Content(Now)
       /\ \A k \in own : got[k] = Content(k)
  BY <1>10, RecordingReads
<1> HIDE DEF got
<1>12. got[Now] = kernel[Now] /\ kernel[Now] \in Nat  BY <1>3, <1>11, CounterIs DEF Content
<1>13. Listing = Content(Powercap)  BY RecordingReads DEF Listing
<1>14. Powercap \notin gone /\ Content(Powercap) = kernel[Powercap]  BY <1>3, CounterIs DEF Content
<1>15. /\ rapl.powercap = (Listing # Absent)
       /\ rapl.domains = IF Listing # Absent THEN Listing ELSE {d \in Domains : MsrReturned(EnergyMsr(d), 1) > 0}
  BY DEF RaplInterface
<1> HIDE DEF rapl
<1>16. MachineOK(kernel)  BY DEF BaseOK, MachinesOK
<1>17. Model \in rapl.domains => EnergyKey(rapl, Model) = EnergyCounter /\ EnergyCounter \notin gone
  <2>1. CASE Class = "rapl_powercap"
    <3>1. Listing = {"pp0", "dram"}  BY <1>13, <1>14, <1>16, <2>1 DEF MachineOK
    <3>2. rapl.powercap  BY <1>15, <3>1, ContentsAssumption
    <3>3. gone = {}  BY <1>1, <2>1 DEF BaseOK, PhasesOK
    <3>4. EnergyKey(rapl, Model) = EnergyFile(Model)  BY <3>2 DEF EnergyKey
    <3> QED  BY <2>1, <3>3, <3>4, EnergyCounterIs
  <2>2. CASE Class = "rapl_msr"
    <3>1. Listing = Absent  BY <1>13, <1>14, <1>16, <2>2 DEF MachineOK
    <3>2. ~rapl.powercap  BY <1>15, <3>1
    <3>3. Model \in rapl.domains => MsrReturned(EnergyMsr(Model), 1) > 0  BY <1>15, <3>1
    <3>4. EnergyMsr(Model) \in gone => MsrReturned(EnergyMsr(Model), 1) = -1  BY DEF MsrReturned, Content
    <3>5. EnergyKey(rapl, Model) = EnergyMsr(Model)  BY <3>2 DEF EnergyKey
    <3>6. EnergyCounter = EnergyMsr(Model)  BY <2>2, EnergyCounterIs
    <3>7. ~(-1 > 0)  OBVIOUS
    <3>8. Model \in rapl.domains => EnergyMsr(Model) \notin gone  BY <3>3, <3>4, <3>7, Zenon
    <3> QED  BY <3>5, <3>6, <3>8
  <2> QED  BY <2>1, <2>2 DEF IsRapl
<1>18. /\ DOMAIN device' = RaplFields
       /\ device'.valid = (Model \in rapl.domains)
       /\ device'.rapl = rapl
       /\ device'.last_time = got[Now]
       /\ device'.last_energy =
            IF Model \in rapl.domains THEN EnergyStatus(got[EnergyKey(rapl, Model)], 0) ELSE 0
  BY <1>6 DEF RaplCreated, NewRaplDevice, RaplFields
<1>19. ASSUME Model \in rapl.domains
       PROVE  /\ EnergyKey(rapl, Model) = EnergyCounter
              /\ device'.last_energy = Counter % EnergyRange
              /\ Counter \in Nat
  <2>1. EnergyKey(rapl, Model) = EnergyCounter /\ EnergyCounter \notin gone  BY <1>17, <1>19
  <2>2. EnergyCounter \in own  BY <1>19, <2>1
  <2>3. got[EnergyCounter] = Counter  BY <1>11, <2>1, <2>2 DEF Content, Counter
  <2>4. Counter \in Nat /\ Counter # Absent  BY <1>3, CounterIs
  <2>5. device'.last_energy = EnergyStatus(got[EnergyCounter], 0)  BY <1>18, <1>19, <2>1
  <2>6. EnergyStatus(got[EnergyCounter], 0) = Counter % EnergyRange  BY <2>3, <2>4 DEF EnergyStatus
  <2> QED  BY <2>1, <2>4, <2>5, <2>6
<1>20. charged' = 0 /\ used' = 0  BY <1>1, <1>2
<1>21. ASSUME device'.valid
       PROVE  /\ EnergyKey(device'.rapl, Model) = EnergyCounter
              /\ device'.last_time \in Nat /\ device'.last_time <= kernel'[Now]
              /\ \E read \in Nat : /\ read <= Counter'
                                   /\ device'.last_energy = read % EnergyRange
                                   /\ charged' + (Counter' - read) <= used'
  <2>1. Model \in rapl.domains  BY <1>18, <1>21
  <2>2. Counter \in Nat /\ Counter <= Counter' /\ charged' + (Counter' - Counter) <= used'
    BY <1>4, <1>19, <1>20, <2>1
  <2>3. device'.last_time \in Nat /\ device'.last_time <= kernel'[Now]  BY <1>1, <1>12, <1>18
  <2> QED  BY <1>18, <1>19, <2>1, <2>2, <2>3
<1>22. device'.valid \in BOOLEAN  BY <1>18
<1> QED  BY <1>4, <1>5, <1>18, <1>20, <1>21, <1>22 DEF RaplOK, EnergyKey

\* What the status becomes, and what is left to charge.
LEMMA RaplReadsOnce ==
  ASSUME BaseOK, RaplOK, mode = "recording", IsRapl, phase # "new", device.valid,
         NEW energy, energy = EnergyStatus(Content(EnergyCounter), device.last_energy)
  PROVE  /\ energy \in Int /\ device.last_energy \in Int
         /\ charged + (energy - device.last_energy) <= used
         /\ \E read \in Nat : /\ read <= Counter
                              /\ energy = read % EnergyRange
                              /\ charged + (energy - device.last_energy) + (Counter - read) <= used
                              /\ charged + (Counter - read) <= used
<1>1. PICK read \in Nat : /\ read <= Counter
                          /\ device.last_energy = read % EnergyRange
                          /\ charged + (Counter - read) <= used
  BY DEF RaplOK
<1>2. IsCounted  BY KindsApart
<1>3. Counter \in Nat /\ used \in Nat /\ charged \in Int  BY <1>2, CounterIs DEF BaseOK, PhasesOK, RaplOK
<1>4. /\ (Counter % EnergyRange) - (read % EnergyRange) <= Counter - read
      /\ Counter % EnergyRange \in Nat /\ read % EnergyRange \in Nat
  BY <1>1, <1>3, Wraps
<1>5. CASE Content(EnergyCounter) = Absent
  <2>1. energy = device.last_energy  BY <1>5 DEF EnergyStatus
  <2> QED  BY <1>1, <1>3, <1>4, <2>1
<1>6. CASE Content(EnergyCounter) # Absent
  <2>1. Content(EnergyCounter) = Counter  BY <1>6 DEF Content, Counter
  <2>2. energy = Counter % EnergyRange  BY <1>6, <2>1 DEF EnergyStatus
  <2>3. charged + (energy - device.last_energy) <= used  BY <1>1, <1>3, <1>4, <2>2
  <2>4. charged + (energy - device.last_energy) + (Counter - Counter) <= used  BY <1>1, <1>3, <1>4, <2>2, <2>3
  <2>5. charged + (Counter - Counter) <= used  BY <1>3 DEF RaplOK
  <2> QED  BY <1>1, <1>3, <1>4, <2>2, <2>3, <2>4, <2>5
<1> QED  BY <1>5, <1>6

LEMMA RaplStart == BaseOK /\ RaplOK /\ StartMeasurement => RaplOK'
<1> SUFFICES ASSUME BaseOK, RaplOK, StartMeasurement PROVE RaplOK'  OBVIOUS
<1>1. UNCHANGED <<unit, mode, kernel, used, charged>>  BY DEF StartMeasurement
<1>2. Model' = Model /\ IsRapl' = IsRapl /\ EnergyCounter' = EnergyCounter  BY <1>1, UnitKept
<1> SUFFICES ASSUME mode = "recording", IsRapl PROVE RaplOK'
  BY <1>1, <1>2 DEF RaplOK
<1>3. phase # "new"  BY DEF StartMeasurement, MayStart
<1>4. Counter' = Counter  BY <1>1, <1>2 DEF Counter
<1> DEFINE got == Got(StartReads)
<1>5. LookAgain = Look({}, present) /\ present  BY <1>3 DEF LookAgain, IsRapl, RaplOK
<1>6. LookAgain.found = present /\ LookAgain.reads = Once({})  BY <1>5 DEF Look
<1>7. present' /\ device' = DeviceStarted(AtStart(got), got)  BY <1>5, <1>6 DEF StartMeasurement
<1>8. AtStart(got) = device  BY DEF AtStart, IsRapl
<1>9. ~IsShare /\ Class \notin {"xe_energy", "nic"} \cup OtherClasses  BY DEF IsRapl, IsShare, ShareClasses, OtherClasses
<1>10. device' = IF device.valid THEN RaplStarted(device, Model, got) ELSE device
  BY <1>7, <1>8, <1>9 DEF DeviceStarted, OtherClasses
<1>11. CASE ~device.valid
  BY <1>1, <1>2, <1>3, <1>7, <1>10, <1>11 DEF RaplOK
<1>12. CASE device.valid
  <2>1. DeviceStartReads = Once({Now, EnergyKey(device.rapl, Model)})
    BY <1>9, <1>12 DEF DeviceStartReads, OtherClasses
  <2>2. EnergyKey(device.rapl, Model) = EnergyCounter  BY <1>3, <1>12 DEF RaplOK
  <2>3. DOMAIN DeviceStartReads = {Now, EnergyCounter}  BY <2>1, <2>2, OnceIs
  <2>4. StartReads = Over(LookAgain.reads, DeviceStartReads)  BY <1>5, <1>6 DEF StartReads
  <2>5. DOMAIN LookAgain.reads = {}  BY <1>6, OnceIs
  <2>6. DOMAIN StartReads = {Now, EnergyCounter}  BY <2>3, <2>4, <2>5 DEF Over
  <2>7. got[Now] = Content(Now) /\ got[EnergyCounter] = Content(EnergyCounter)  BY <2>6, RecordingReads
  <2> HIDE DEF got
  <2>8. IsCounted  BY KindsApart
  <2>9. got[Now] = kernel[Now] /\ kernel[Now] \in Nat  BY <2>7, <2>8, CounterIs DEF Content
  <2>10. device' = RaplStarted(device, Model, got)  BY <1>10, <1>12
  <2>11. /\ DOMAIN device' = RaplFields /\ device'.valid = device.valid /\ device'.rapl = device.rapl
         /\ device'.last_time = got[Now]
         /\ device'.last_energy = EnergyStatus(got[EnergyCounter], device.last_energy)
    <3>1. DOMAIN device = RaplFields  BY <1>3 DEF RaplOK
    <3> QED  BY <2>2, <2>10, <3>1 DEF RaplStarted, RaplFields
  <2>12. \E read \in Nat : /\ read <= Counter
                           /\ device'.last_energy = read % EnergyRange
                           /\ charged + (Counter - read) <= used
    <3> DEFINE energy == device'.last_energy
    <3>1. energy = EnergyStatus(Content(EnergyCounter), device.last_energy)  BY <2>7, <2>11
    <3> HIDE DEF energy
    <3>2. \E read \in Nat : /\ read <= Counter
                            /\ energy = read % EnergyRange
                            /\ charged + (Counter - read) <= used
      BY <1>3, <1>12, <3>1, RaplReadsOnce
    <3> QED  BY <3>2 DEF energy
  <2>13. charged \in Int /\ charged <= used  BY <1>3 DEF RaplOK
  <2>14. device'.last_time \in Nat /\ device'.last_time <= kernel'[Now]  BY <1>1, <2>9, <2>11
  <2> QED  BY <1>1, <1>2, <1>4, <1>7, <1>12, <2>2, <2>11, <2>12, <2>13, <2>14 DEF RaplOK, EnergyKey
<1> QED  BY <1>11, <1>12

LEMMA RaplEnd == BaseOK /\ RaplOK /\ EndMeasurement => RaplOK'
<1> SUFFICES ASSUME BaseOK, RaplOK, EndMeasurement PROVE RaplOK'  OBVIOUS
<1>1. UNCHANGED <<unit, mode, kernel, used, present>>  BY DEF EndMeasurement
<1>2. Model' = Model /\ IsRapl' = IsRapl /\ EnergyCounter' = EnergyCounter  BY <1>1, UnitKept
<1> SUFFICES ASSUME mode = "recording", IsRapl PROVE RaplOK'
  BY <1>1, <1>2 DEF RaplOK
<1>3. phase = "started" /\ phase # "new"  BY DEF EndMeasurement
<1>4. Counter' = Counter  BY <1>1, <1>2 DEF Counter
<1> DEFINE got == Got(EndReads)
<1>5. present  BY <1>3 DEF RaplOK
<1>6. device' = DeviceEnded(got) /\ charged' = charged + NewCharge  BY <1>5 DEF EndMeasurement
<1>7. ~IsShare /\ Class \notin {"xe_energy", "nic"} \cup OtherClasses  BY DEF IsRapl, IsShare, ShareClasses, OtherClasses
<1>8. device' = IF device.valid THEN RaplEnded(device, Model, got) ELSE device
  BY <1>6, <1>7 DEF DeviceEnded, OtherClasses
<1>9. NewCharge = RaplPower(device').energy  BY <1>7 DEF NewCharge
<1>10. charged \in Int /\ charged <= used /\ DOMAIN device = RaplFields  BY <1>3 DEF RaplOK
<1>11. CASE ~device.valid
  <2>1. NewCharge = 0  BY <1>8, <1>9, <1>11 DEF RaplPower
  <2>2. charged' = charged  BY <1>6, <1>10, <2>1
  <2> QED  BY <1>1, <1>2, <1>3, <1>8, <1>11, <2>2 DEF RaplOK
<1>12. CASE device.valid
  <2>1. EnergyKey(device.rapl, Model) = EnergyCounter  BY <1>3, <1>12 DEF RaplOK
  <2>2. IsCounted  BY KindsApart
  <2>3. ReadContent(Now, 1) = kernel[Now] /\ kernel[Now] \in Nat  BY <2>2, CounterIs, RecordingReads DEF Content
  <2>4. EndReads = RaplEndReads(device, Model, kernel[Now])
    BY <1>5, <1>7, <1>12, <2>3 DEF EndReads, DeviceEndReads, OtherClasses
  <2>5. DOMAIN EndReads = {Now} \cup IF kernel[Now] > device.last_time THEN {EnergyCounter} ELSE {}
    BY <2>1, <2>4, OnceIs DEF RaplEndReads
  <2>6. got[Now] = kernel[Now]  BY <2>2, <2>5, RecordingReads, CounterIs DEF Content
  <2>7. kernel[Now] > device.last_time => got[EnergyCounter] = Content(EnergyCounter)
    BY <2>5, RecordingReads
  <2> HIDE DEF got
  <2>8. device.last_time \in Nat /\ device.last_time <= kernel[Now]  BY <1>3, <1>12 DEF RaplOK
  <2>9. device' = RaplEnded(device, Model, got)  BY <1>8, <1>12
  <2>10. CASE kernel[Now] = device.last_time
    <3>1. device' = [device EXCEPT !.consumed = [energy |-> 0, delta |-> 0]]  BY <2>6, <2>9, <2>10 DEF RaplEnded
    <3>2. /\ DOMAIN device' = RaplFields /\ device'.valid = device.valid /\ device'.rapl = device.rapl
          /\ device'.last_time = device.last_time /\ device'.last_energy = device.last_energy
          /\ device'.consumed = [energy |-> 0, delta |-> 0]
      BY <1>10, <3>1 DEF RaplFields
    <3>3. NewCharge = 0  BY <1>9, <1>12, <3>2 DEF RaplPower
    <3>4. charged' = charged  BY <1>6, <1>10, <3>3
    <3> QED  BY <1>1, <1>2, <1>3, <1>4, <3>2, <3>4 DEF RaplOK, EnergyKey
  <2>11. CASE kernel[Now] # device.last_time
    <3>1. kernel[Now] > device.last_time  BY <2>3, <2>8, <2>11
    <3> DEFINE energy == EnergyStatus(got[EnergyCounter], device.last_energy)
    <3>2. energy = EnergyStatus(Content(EnergyCounter), device.last_energy)  BY <2>7, <3>1
    <3>3. device' = [device EXCEPT !.consumed = [energy |-> energy - device.last_energy,
                                                 delta |-> got[Now] - device.last_time],
                                   !.last_energy = energy, !.last_time = got[Now]]
      BY <2>1, <2>6, <2>9, <2>11 DEF RaplEnded
    <3> HIDE DEF energy
    <3>4. /\ DOMAIN device' = RaplFields /\ device'.valid = device.valid /\ device'.rapl = device.rapl
          /\ device'.last_time = got[Now] /\ device'.last_energy = energy
          /\ device'.consumed.energy = energy - device.last_energy
      BY <1>10, <3>3 DEF RaplFields
    <3>5. NewCharge = energy - device.last_energy  BY <1>9, <1>12, <3>4 DEF RaplPower
    <3>6. /\ energy \in Int /\ device.last_energy \in Int
          /\ charged + (energy - device.last_energy) <= used
          /\ \E read \in Nat : /\ read <= Counter
                               /\ energy = read % EnergyRange
                               /\ charged + (energy - device.last_energy) + (Counter - read) <= used
      BY <1>3, <1>12, <3>2, RaplReadsOnce
    <3>7. charged' = charged + (energy - device.last_energy)  BY <1>6, <3>5
    <3>8. charged' \in Int /\ charged' <= used'  BY <1>1, <1>10, <3>6, <3>7
    <3>9. \E read \in Nat : /\ read <= Counter'
                           /\ device'.last_energy = read % EnergyRange
                           /\ charged' + (Counter' - read) <= used'
      BY <1>1, <1>4, <3>4, <3>6, <3>7
    <3>10. device'.last_time \in Nat /\ device'.last_time <= kernel'[Now]  BY <1>1, <2>3, <2>6, <3>4
    <3> QED  BY <1>1, <1>2, <1>5, <1>12, <2>1, <3>4, <3>8, <3>9, <3>10 DEF RaplOK, EnergyKey
  <2> QED  BY <2>10, <2>11
<1> QED  BY <1>11, <1>12

LEMMA RaplNext == BaseOK /\ RaplOK /\ [Next]_vars => RaplOK'
<1> SUFFICES ASSUME BaseOK, RaplOK, [Next]_vars PROVE RaplOK'  OBVIOUS
<1>1. CASE Tick  BY <1>1, RaplTick
<1>2. CASE SetLevel
  <2>1. ~IsRapl
    <3>1. IsRapl => LevelKeys = {}  BY KeysOfClass DEF BaseOK, PhasesOK
    <3> QED  BY <1>2, <3>1 DEF SetLevel
  <2> QED  BY <1>2, <2>1, RaplKept DEF SetLevel
<1>3. CASE Lost  BY <1>3, RaplKept DEF Lost
<1>4. CASE Found
  <2>1. IsRapl => kernel' = kernel  BY <1>4 DEF Found, KeepsCounters
  <2> QED  BY <1>4, <2>1, RaplKept DEF Found, history
<1>5. CASE Create  BY <1>5, RaplCreate
<1>6. CASE StartMeasurement  BY <1>6, RaplStart
<1>7. CASE EndMeasurement  BY <1>7, RaplEnd
<1>8. CASE Stop
  <2>1. phase # "new"  BY <1>8 DEF Stop, MayStart
  <2> QED  BY <1>8, <2>1, RaplKept DEF Stop, history
<1>9. CASE Replay  BY <1>9 DEF Replay, SaveAndLoad, RaplOK
<1>10. CASE UNCHANGED vars  BY <1>10, RaplKept DEF vars
<1> QED  BY <1>1, <1>2, <1>3, <1>4, <1>5, <1>6, <1>7, <1>8, <1>9, <1>10 DEF Next

(***************************************************************************)
(* The channel of an Xe card.                                              *)
(***************************************************************************)
LEMMA XeKept ==
  ASSUME XeOK, UNCHANGED <<unit, present, device, mode, charged, used, faults>>,
         Class = "xe_energy" => kernel' = kernel, phase' # "new" => phase # "new"
  PROVE  XeOK'
<1>1. Class' = Class /\ EnergyCounter' = EnergyCounter /\ Faultless' = Faultless  BY UnitKept DEF Faultless
<1>2. Class = "xe_energy" => Counter' = Counter  BY <1>1 DEF Counter
<1> QED  BY <1>1, <1>2 DEF XeOK

LEMMA XeTick == BaseOK /\ XeOK /\ Tick => XeOK'
<1> SUFFICES ASSUME BaseOK, XeOK, Tick PROVE XeOK'  OBVIOUS
<1>1. UNCHANGED <<unit, present, device, mode, phase, charged, faults>>  BY DEF Tick
<1>2. Class' = Class /\ EnergyCounter' = EnergyCounter /\ Faultless' = Faultless
  BY <1>1, UnitKept DEF Faultless
<1> SUFFICES ASSUME mode = "recording", Class = "xe_energy", phase # "new", Faultless PROVE XeOK'
  BY <1>1, <1>2 DEF XeOK
<1>3. unit \in Units /\ MachineOK(kernel) /\ SpentOK /\ IsCounted /\ Class # "devfreq"
  BY KindsApart DEF BaseOK, PhasesOK, MachinesOK, OtherClasses
<1>4. EnergyCounter \in CounterKeys  BY <1>3, KeysOfClass
<1>5. PICK activity \in Activities :
        /\ AddedOK(activity)
        /\ \A k \in CounterKeys : Count(kernel', k) = Count(kernel, k) + Added(activity, k)
        /\ used' = used + IF phase # "new" THEN Added(activity, EnergyCounter) ELSE 0
  BY <1>3, TickIs
<1> DEFINE add == Added(activity, EnergyCounter)
<1>6. add \in Nat  BY <1>4, <1>5 DEF AddedOK
<1>7. Count(kernel', EnergyCounter) = kernel'[EnergyCounter] /\ Count(kernel, EnergyCounter) = Counter
  BY <1>3 DEF Count, Counter
<1>8. kernel'[EnergyCounter] = Counter + add /\ used' = used + add  BY <1>4, <1>5, <1>7
<1> HIDE DEF add
<1>9. Counter' = Counter + add  BY <1>2, <1>8 DEF Counter
<1>10. kernel'[Now] = kernel[Now] + 1  BY <1>3, TickIs
<1>11. Counter \in Nat /\ kernel[Now] \in Nat /\ used \in Nat  BY <1>3, CounterIs DEF BaseOK, PhasesOK
<1>12. /\ present /\ DOMAIN device = XeFields /\ device.energy_path \in BOOLEAN
       /\ charged \in Int /\ charged <= used
  BY DEF XeOK
<1>13. charged' \in Int /\ charged' <= used'  BY <1>1, <1>6, <1>8, <1>11, <1>12
<1>14. ASSUME device.energy_path
       PROVE  /\ device.last_time \in Nat /\ device.last_time <= kernel'[Now]
              /\ device.last_energy \in Nat /\ device.last_energy <= Counter'
              /\ charged' + (Counter' - device.last_energy) <= used'
  <2>1. /\ device.last_time \in Nat /\ device.last_time <= kernel[Now]
        /\ device.last_energy \in Nat /\ device.last_energy <= Counter
        /\ charged + (Counter - device.last_energy) <= used
    BY <1>14 DEF XeOK
  <2>2. device.last_time \in Nat /\ device.last_time <= kernel'[Now]  BY <1>10, <1>11, <2>1
  <2>3. device.last_energy \in Nat /\ device.last_energy <= Counter'  BY <1>6, <1>9, <1>11, <2>1
  <2>4. charged' + (Counter' - device.last_energy) <= used'  BY <1>1, <1>6, <1>8, <1>9, <1>11, <1>12, <2>1
  <2> QED  BY <2>2, <2>3, <2>4
<1> QED  BY <1>1, <1>2, <1>12, <1>13, <1>14 DEF XeOK

LEMMA XeCreate == BaseOK /\ Create => XeOK'
<1> SUFFICES ASSUME BaseOK, Create PROVE XeOK'  OBVIOUS
<1>1. UNCHANGED <<unit, mode, charged, used, faults, gone>> /\ phase = "new"  BY DEF Create, history
<1>2. Class' = Class /\ EnergyCounter' = EnergyCounter /\ Faultless' = Faultless
  BY <1>1, UnitKept DEF Faultless
<1> SUFFICES ASSUME mode = "recording", Class = "xe_energy", Faultless PROVE XeOK'
  BY <1>1, <1>2 DEF XeOK
<1>3. /\ present' = LookFor(Class).found
      /\ device' = IF present' THEN Created(Got(CreateReads)) ELSE New
      /\ kernel' = kernel
  BY DEF Create
<1>4. IsCounted /\ ~IsRapl  BY KindsApart DEF IsRapl
<1>5. Counter \in Nat /\ kernel[Now] \in Nat /\ used = 0 /\ charged = 0 /\ gone = {} /\ Counter' = Counter
  BY <1>1, <1>2, <1>3, <1>4, CounterIs DEF BaseOK, PhasesOK, MachinesOK, Counter, Faultless
<1>6. LookFor(Class) = LookForXe  BY DEF LookFor
<1>7. present' = TRUE
  <2>1. LookForXe.found = TRUE  BY DEF LookForXe, Look
  <2> QED  BY <1>3, <1>6, <2>1
<1> DEFINE got == Got(CreateReads)
<1>8. device' = XeCreated(got)  BY <1>3, <1>4, <1>7 DEF Created
<1>9. Channel = EnergyCounter  BY EnergyCounterIs
<1>10. Channel \in DOMAIN got => Now \in DOMAIN got /\ got[Channel] = Counter /\ got[Now] = kernel[Now]
  <2>1. CreateReads = LookForXe.reads  BY <1>4, <1>6 DEF CreateReads
  <2>2. DOMAIN got = DOMAIN CreateReads  BY RecordingReads
  <2>3. Channel \notin {D("hwmon"), A("power1_label"), A("energy1")}  BY KeysAre, KeyNames
  <2> DEFINE channel == Present(D("hwmon")) /\ Accessible("power1_label")
             energy == channel /\ Accessible("energy1")
             first == And(Present(D("hwmon")), {A("power1_label")})
             second == And(channel, {A("energy1")})
             third == And(energy, {Channel, Now})
  <2>4. LookForXe.reads = Once({D("hwmon")} \cup first \cup second \cup third)
    BY DEF LookForXe, Look
  <2>5. first \subseteq {A("power1_label")} /\ second \subseteq {A("energy1")} /\ (third = {} \/ third = {Channel, Now})
    BY DEF And
  <2> HIDE DEF first, second, third
  <2>6. DOMAIN CreateReads = {D("hwmon")} \cup first \cup second \cup third  BY <2>1, <2>4, OnceIs
  <2>7. Channel \in DOMAIN CreateReads => Now \in DOMAIN CreateReads  BY <2>3, <2>5, <2>6
  <2>8. \A k \in DOMAIN CreateReads : got[k] = kernel[k]  BY <1>5, RecordingReads DEF Content
  <2> HIDE DEF got
  <2> QED  BY <1>9, <2>2, <2>7, <2>8 DEF Counter
<1> HIDE DEF got
<1>13. charged' \in Int /\ charged' <= used'  BY <1>1, <1>5
<1>11. CASE Channel \notin DOMAIN got
  <2>1. device' = NewXeDevice  BY <1>8, <1>11 DEF XeCreated
  <2>2. DOMAIN device' = XeFields /\ device'.energy_path = FALSE  BY <2>1 DEF NewXeDevice, XeFields
  <2> QED  BY <1>7, <1>13, <2>2 DEF XeOK
<1>12. CASE Channel \in DOMAIN got
  <2>1. device' = [NewXeDevice EXCEPT !.energy_path = TRUE,
                           !.last_energy = ReadUint64(got[Channel]), !.last_time = got[Now]]
    BY <1>8, <1>12 DEF XeCreated
  <2>2. ReadUint64(got[Channel]) = Counter
    <3>1. got[Channel] = Counter /\ Counter # Absent  BY <1>4, <1>10, <1>12, CounterIs
    <3> QED  BY <3>1 DEF ReadUint64
  <2>3. /\ DOMAIN device' = XeFields /\ device'.energy_path = TRUE
        /\ device'.last_energy = Counter /\ device'.last_time = kernel[Now]
    BY <1>10, <1>12, <2>1, <2>2 DEF NewXeDevice, XeFields
  <2>4. charged' + (Counter' - device'.last_energy) <= used'  BY <1>1, <1>5, <2>3
  <2>5. device'.last_time <= kernel'[Now] /\ device'.last_energy <= Counter'  BY <1>3, <1>5, <2>3
  <2>6. device'.last_time \in Nat /\ device'.last_energy \in Nat  BY <1>5, <2>3
  <2> QED  BY <1>7, <1>13, <2>3, <2>4, <2>5, <2>6 DEF XeOK
<1> QED  BY <1>11, <1>12

LEMMA XeStart == BaseOK /\ XeOK /\ StartMeasurement => XeOK'
<1> SUFFICES ASSUME BaseOK, XeOK, StartMeasurement PROVE XeOK'  OBVIOUS
<1>1. UNCHANGED <<unit, mode, kernel, used, charged, gone, faults>>  BY DEF StartMeasurement
<1>2. Class' = Class /\ EnergyCounter' = EnergyCounter /\ Faultless' = Faultless
  BY <1>1, UnitKept DEF Faultless
<1>3. phase # "new"  BY DEF StartMeasurement, MayStart
<1> SUFFICES ASSUME mode = "recording", Class = "xe_energy", Faultless PROVE XeOK'
  BY <1>1, <1>2 DEF XeOK
<1> DEFINE got == Got(StartReads)
<1>4. IsCounted /\ ~IsRapl /\ ~IsShare  BY KindsApart DEF IsRapl, IsShare, ShareClasses
<1>5. /\ Counter \in Nat /\ kernel[Now] \in Nat /\ gone = {} /\ Counter' = Counter
      /\ present /\ DOMAIN device = XeFields /\ device.energy_path \in BOOLEAN
      /\ charged \in Int /\ charged <= used
  BY <1>1, <1>2, <1>3, <1>4, CounterIs DEF BaseOK, PhasesOK, MachinesOK, Counter, XeOK, Faultless
<1>6. LookAgain = Look({}, present)  BY DEF LookAgain
<1>7. LookAgain.found = present /\ LookAgain.reads = Once({})  BY <1>6 DEF Look
<1>8. present' /\ device' = DeviceStarted(AtStart(got), got)  BY <1>5, <1>7 DEF StartMeasurement
<1>9. AtStart(got) = device  BY DEF AtStart
<1>10. device' = XeStarted(device, got)  BY <1>4, <1>8, <1>9 DEF DeviceStarted
<1>11. CASE ~device.energy_path
  <2>1. device' = device  BY <1>10, <1>11 DEF XeStarted
  <2> QED  BY <1>1, <1>5, <1>8, <1>11, <2>1 DEF XeOK
<1>12. CASE device.energy_path
  <2>1. DeviceStartReads = Once({Now, Channel})  BY <1>4, <1>12 DEF DeviceStartReads, XeStartReads
  <2>2. StartReads = Over(LookAgain.reads, DeviceStartReads)  BY <1>5, <1>7 DEF StartReads
  <2>3. DOMAIN LookAgain.reads = {} /\ DOMAIN DeviceStartReads = {Now, Channel}  BY <1>7, <2>1, OnceIs
  <2>4. DOMAIN StartReads = {Now, Channel}  BY <2>2, <2>3 DEF Over
  <2>5. got[Now] = kernel[Now] /\ got[Channel] = kernel[Channel]  BY <1>5, <2>4, RecordingReads DEF Content
  <2> HIDE DEF got
  <2>6. kernel[Channel] = Counter  BY EnergyCounterIs DEF Counter
  <2>7. ReadUint64(got[Channel]) = Counter
    <3>1. Counter # Absent  BY <1>4, CounterIs
    <3> QED  BY <2>5, <2>6, <3>1 DEF ReadUint64
  <2>8. device' = [device EXCEPT !.last_energy = ReadUint64(got[Channel]), !.last_time = got[Now]]
    BY <1>10, <1>12 DEF XeStarted
  <2>9. /\ DOMAIN device' = XeFields /\ device'.energy_path = device.energy_path
        /\ device'.last_energy = Counter /\ device'.last_time = kernel[Now]
    BY <1>5, <2>5, <2>7, <2>8 DEF XeFields
  <2>10. charged' + (Counter' - device'.last_energy) <= used'  BY <1>1, <1>5, <2>9
  <2>11. device'.last_time <= kernel'[Now] /\ device'.last_energy <= Counter'  BY <1>1, <1>5, <2>9
  <2> QED  BY <1>1, <1>5, <1>8, <2>9, <2>10, <2>11 DEF XeOK
<1> QED  BY <1>5, <1>11, <1>12

LEMMA XeEnd == BaseOK /\ XeOK /\ EndMeasurement => XeOK'
<1> SUFFICES ASSUME BaseOK, XeOK, EndMeasurement PROVE XeOK'  OBVIOUS
<1>1. UNCHANGED <<unit, mode, kernel, used, present, gone, faults>>  BY DEF EndMeasurement
<1>2. Class' = Class /\ EnergyCounter' = EnergyCounter /\ Faultless' = Faultless
  BY <1>1, UnitKept DEF Faultless
<1>3. phase = "started" /\ phase # "new"  BY DEF EndMeasurement
<1> SUFFICES ASSUME mode = "recording", Class = "xe_energy", Faultless PROVE XeOK'
  BY <1>1, <1>2 DEF XeOK
<1> DEFINE got == Got(EndReads)
<1>4. IsCounted /\ ~IsRapl /\ ~IsShare  BY KindsApart DEF IsRapl, IsShare, ShareClasses
<1>5. /\ Counter \in Nat /\ kernel[Now] \in Nat /\ gone = {} /\ Counter' = Counter
      /\ present /\ DOMAIN device = XeFields /\ device.energy_path \in BOOLEAN
      /\ charged \in Int /\ charged <= used
  BY <1>1, <1>2, <1>3, <1>4, CounterIs DEF BaseOK, PhasesOK, MachinesOK, Counter, XeOK, Faultless
<1>6. device' = DeviceEnded(got) /\ charged' = charged + NewCharge  BY <1>5 DEF EndMeasurement
<1>7. device' = XeEnded(device, got)  BY <1>4, <1>6 DEF DeviceEnded
<1>8. NewCharge = XePower(device').energy  BY <1>4 DEF NewCharge
<1>9. CASE ~device.energy_path
  <2>1. device' = [device EXCEPT !.consumed = [energy |-> 0, delta |-> 0]]  BY <1>7, <1>9 DEF XeEnded
  <2>2. DOMAIN device' = XeFields /\ device'.energy_path = device.energy_path  BY <1>5, <2>1 DEF XeFields
  <2>3. NewCharge = 0  BY <1>8, <1>9, <2>2 DEF XePower
  <2>4. charged' = charged  BY <1>5, <1>6, <2>3
  <2> QED  BY <1>1, <1>5, <1>9, <2>2, <2>4 DEF XeOK
<1>10. CASE device.energy_path
  <2>1. /\ device.last_time \in Nat /\ device.last_time <= kernel[Now]
        /\ device.last_energy \in Nat /\ device.last_energy <= Counter
        /\ charged + (Counter - device.last_energy) <= used
    BY <1>3, <1>10 DEF XeOK
  <2>2. ReadContent(Now, 1) = kernel[Now]  BY <1>5, RecordingReads DEF Content
  <2>3. DeviceEndReads = XeEndReads(device, kernel[Now])  BY <1>4, <2>2 DEF DeviceEndReads
  <2>4. EndReads = XeEndReads(device, kernel[Now])  BY <1>5, <2>3 DEF EndReads
  <2>5. DOMAIN EndReads = {Now} \cup IF kernel[Now] > device.last_time THEN {Channel} ELSE {}
    BY <1>10, <2>4, OnceIs DEF XeEndReads
  <2>6. got[Now] = kernel[Now] /\ (kernel[Now] > device.last_time => got[Channel] = kernel[Channel])
    BY <1>5, <2>5, RecordingReads DEF Content
  <2> HIDE DEF got
  <2>7. kernel[Channel] = Counter /\ Counter # Absent  BY <1>4, EnergyCounterIs, CounterIs DEF Counter
  <2>8. CASE kernel[Now] = device.last_time
    <3>1. device' = [device EXCEPT !.consumed = [energy |-> 0, delta |-> 0]]  BY <1>7, <2>6, <2>8 DEF XeEnded
    <3>2. /\ DOMAIN device' = XeFields /\ device'.energy_path = device.energy_path
          /\ device'.last_energy = device.last_energy /\ device'.last_time = device.last_time
          /\ device'.consumed = [energy |-> 0, delta |-> 0]
      BY <1>5, <3>1 DEF XeFields
    <3>3. NewCharge = 0  BY <1>8, <1>10, <3>2 DEF XePower
    <3>4. charged' = charged  BY <1>5, <1>6, <3>3
    <3> QED  BY <1>1, <1>5, <1>10, <2>1, <3>2, <3>4 DEF XeOK
  <2>9. CASE kernel[Now] # device.last_time
    <3>1. kernel[Now] > device.last_time  BY <1>5, <2>1, <2>9
    <3>2. ReadUint64(got[Channel]) = Counter  BY <2>6, <2>7, <3>1 DEF ReadUint64
    <3>3. device' = [device EXCEPT !.last_energy = Counter, !.last_time = kernel[Now],
                    !.consumed = [energy |-> Counter - device.last_energy, delta |-> kernel[Now] - device.last_time]]
      BY <1>7, <1>10, <2>6, <2>9, <3>2 DEF XeEnded
    <3>4. /\ DOMAIN device' = XeFields /\ device'.energy_path = device.energy_path
          /\ device'.last_energy = Counter /\ device'.last_time = kernel[Now]
          /\ device'.consumed.energy = Counter - device.last_energy
      BY <1>5, <3>3 DEF XeFields
    <3>5. NewCharge = Counter - device.last_energy  BY <1>8, <1>10, <3>4 DEF XePower
    <3>6. charged' = charged + (Counter - device.last_energy)  BY <1>6, <3>5
    <3>7. used \in Nat  BY DEF BaseOK, PhasesOK
    <3>8. charged' \in Int /\ charged' <= used' /\ charged' + (Counter' - device'.last_energy) <= used'
      BY <1>1, <1>5, <2>1, <3>4, <3>6, <3>7
    <3>9. device'.last_time <= kernel'[Now] /\ device'.last_energy <= Counter'  BY <1>1, <1>5, <3>4
    <3> QED  BY <1>1, <1>5, <3>4, <3>8, <3>9 DEF XeOK
  <2> QED  BY <2>8, <2>9
<1> QED  BY <1>5, <1>9, <1>10

LEMMA XeNext == BaseOK /\ XeOK /\ [Next]_vars => XeOK'
<1> SUFFICES ASSUME BaseOK, XeOK, [Next]_vars PROVE XeOK'  OBVIOUS
<1>1. CASE Tick  BY <1>1, XeTick
<1>2. CASE SetLevel
  <2>1. Class # "xe_energy"
    <3>1. Class = "xe_energy" => LevelKeys = {}  BY KeysOfClass DEF BaseOK, PhasesOK
    <3> QED  BY <1>2, <3>1 DEF SetLevel
  <2> QED  BY <1>2, <2>1, XeKept DEF SetLevel
<1>3. CASE Lost
  <2>1. faults' # 0
    <3>1. faults' = faults + 1 /\ faults \in Nat  BY <1>3 DEF Lost, BaseOK, PhasesOK
    <3> QED  BY <3>1, NatNext, Zenon
  <2> QED  BY <2>1 DEF XeOK, Faultless
<1>4. CASE Found
  <2>1. Class = "xe_energy" => kernel' = kernel  BY <1>4 DEF Found, KeepsCounters
  <2> QED  BY <1>4, <2>1, XeKept DEF Found, history
<1>5. CASE Create  BY <1>5, XeCreate
<1>6. CASE StartMeasurement  BY <1>6, XeStart
<1>7. CASE EndMeasurement  BY <1>7, XeEnd
<1>8. CASE Stop
  <2>1. phase # "new"  BY <1>8 DEF Stop, MayStart
  <2> QED  BY <1>8, <2>1, XeKept DEF Stop, history
<1>9. CASE Replay  BY <1>9 DEF Replay, SaveAndLoad, XeOK
<1>10. CASE UNCHANGED vars  BY <1>10, XeKept DEF vars
<1> QED  BY <1>1, <1>2, <1>3, <1>4, <1>5, <1>6, <1>7, <1>8, <1>9, <1>10 DEF Next

(***************************************************************************)
(* The packets of a network card.                                          *)
(***************************************************************************)
LEMMA NicKept ==
  ASSUME NicOK, UNCHANGED <<unit, present, device, mode, number, charged, used>>,
         Class = "nic" => kernel'[EnergyCounter] = Counter /\ (gone' = gone \/ gone' # {}),
         phase' # "new" => phase # "new", phase' = "started" => phase = "started"
  PROVE  NicOK'
<1>1. Class' = Class /\ EnergyCounter' = EnergyCounter  BY UnitKept
<1> SUFFICES ASSUME Class = "nic" PROVE NicOK'
  BY <1>1 DEF NicOK
<1>2. Counter' = Counter  BY <1>1 DEF Counter
<1>3. mode = "recording" /\ phase # "new" /\ present /\ number # 0 => charged + Uncharged' <= used
  <2> SUFFICES ASSUME mode = "recording", phase # "new", present, number # 0
               PROVE  charged + Uncharged' <= used
    OBVIOUS
  <2>1. CASE gone' = gone
    <3>1. Uncharged' = Uncharged  BY <1>2, <2>1 DEF Uncharged
    <3> QED  BY <3>1 DEF NicOK
  <2>2. CASE gone' # {}
    <3>1. Uncharged' = 0  BY <2>2 DEF Uncharged
    <3>2. charged \in Int /\ charged <= used  BY DEF NicOK
    <3> QED  BY <3>1, <3>2
  <2> QED  BY <2>1, <2>2
<1> QED  BY <1>1, <1>3 DEF NicOK

LEMMA NicTick == BaseOK /\ NicOK /\ Tick => NicOK'
<1> SUFFICES ASSUME BaseOK, NicOK, Tick PROVE NicOK'  OBVIOUS
<1>1. UNCHANGED <<unit, present, device, mode, phase, number, gone, charged>>  BY DEF Tick
<1>2. Class' = Class /\ EnergyCounter' = EnergyCounter  BY <1>1, UnitKept
<1> SUFFICES ASSUME mode = "recording", Class = "nic", phase # "new" PROVE NicOK'
  BY <1>1, <1>2 DEF NicOK
<1>3. unit \in Units /\ MachineOK(kernel) /\ SpentOK /\ IsCounted /\ Class # "devfreq"
  BY KindsApart DEF BaseOK, PhasesOK, MachinesOK, OtherClasses
<1>4. EnergyCounter \in CounterKeys  BY <1>3, KeysOfClass
<1>5. PICK activity \in Activities :
        /\ AddedOK(activity)
        /\ \A k \in CounterKeys : Count(kernel', k) = Count(kernel, k) + Added(activity, k)
        /\ used' = used + IF phase # "new" THEN Added(activity, EnergyCounter) ELSE 0
  BY <1>3, TickIs
<1> DEFINE add == Added(activity, EnergyCounter)
<1>6. add \in Nat  BY <1>4, <1>5 DEF AddedOK
<1>7. Count(kernel', EnergyCounter) = kernel'[EnergyCounter] /\ Count(kernel, EnergyCounter) = Counter
  BY <1>3 DEF Count, Counter
<1>8. kernel'[EnergyCounter] = Counter + add /\ used' = used + add  BY <1>4, <1>5, <1>7
<1> HIDE DEF add
<1>9. Counter' = Counter + add  BY <1>2, <1>8 DEF Counter
<1>10. Counter \in Nat /\ used \in Nat  BY <1>3, CounterIs DEF BaseOK, PhasesOK
<1>11. charged \in Int /\ charged <= used /\ device.pkts \in Nat  BY DEF NicOK
<1>12. charged' \in Int /\ charged' <= used'  BY <1>1, <1>6, <1>8, <1>10, <1>11
<1>13. ASSUME present, number # 0 PROVE charged' + Uncharged' <= used'
  <2>1. charged + Uncharged <= used  BY <1>13 DEF NicOK
  <2>2. CASE gone # {}
    <3>1. Uncharged' = 0  BY <1>1, <2>2 DEF Uncharged
    <3> QED  BY <1>12, <3>1
  <2>3. CASE gone = {}
    <3>1. Uncharged' = IF Counter' < device.pkts THEN 0 ELSE Counter' - device.pkts
      BY <1>1, <2>3 DEF Uncharged
    <3>2. Uncharged = IF Counter < device.pkts THEN 0 ELSE Counter - device.pkts
      BY <2>3 DEF Uncharged
    <3> QED  BY <1>1, <1>6, <1>8, <1>9, <1>10, <1>11, <2>1, <3>1, <3>2
  <2> QED  BY <2>2, <2>3
<1> QED  BY <1>1, <1>2, <1>12, <1>13 DEF NicOK

LEMMA NicFound == BaseOK /\ NicOK /\ Found => NicOK'
<1> SUFFICES ASSUME BaseOK, NicOK, Found PROVE NicOK'  OBVIOUS
<1>1. UNCHANGED <<unit, present, device, mode, phase, number, charged, used>>  BY DEF Found, history
<1>2. Class' = Class /\ EnergyCounter' = EnergyCounter  BY <1>1, UnitKept
<1> SUFFICES ASSUME mode = "recording", Class = "nic", phase # "new" PROVE NicOK'
  BY <1>1, <1>2 DEF NicOK
<1>3. ~KeepsCounters  BY DEF KeepsCounters, IsRapl, IsIntel
<1>4. unit \in Units /\ MachineOK(kernel) /\ IsCounted /\ Class # "devfreq"
  BY KindsApart DEF BaseOK, PhasesOK, MachinesOK, OtherClasses
<1>5. EnergyCounter \in CounterKeys  BY <1>4, KeysOfClass
<1>6. kernel' = Over(AsFiles(All(CounterKeys, 0)), kernel)  BY <1>3 DEF Found
<1>7. Count(kernel', EnergyCounter) = 0  BY <1>4, <1>5, <1>6, Return
<1>8. Counter' = 0  BY <1>2, <1>4, <1>7 DEF Count, Counter
<1>9. charged \in Int /\ charged <= used /\ device.pkts \in Nat /\ used \in Nat  BY DEF NicOK, BaseOK, PhasesOK
<1>10. Uncharged' = 0
  <2>1. Uncharged' = IF gone' # {} \/ 0 < device.pkts THEN 0 ELSE 0 - device.pkts  BY <1>1, <1>8 DEF Uncharged
  <2> QED  BY <1>9, <2>1
<1>11. charged' + Uncharged' <= used'  BY <1>1, <1>9, <1>10
<1> QED  BY <1>1, <1>2, <1>9, <1>11 DEF NicOK

LEMMA NicCreate == BaseOK /\ Create => NicOK'
<1> SUFFICES ASSUME BaseOK, Create PROVE NicOK'  OBVIOUS
<1>1. UNCHANGED <<unit, mode, charged, used, number, gone>> /\ phase = "new" /\ phase' = "created"
  BY DEF Create, history
<1>2. Class' = Class  BY <1>1, UnitKept
<1> SUFFICES ASSUME mode = "recording", Class = "nic" PROVE NicOK'
  BY <1>1, <1>2 DEF NicOK
<1>3. ~IsShare /\ ~IsRapl  BY DEF IsShare, IsRapl, ShareClasses
<1>4. New = NewNic  BY <1>3 DEF New
<1>5. \A got : Created(got) = New  BY <1>3 DEF Created
<1>6. device' = NewNic  BY <1>4, <1>5 DEF Create
<1>7. DOMAIN device' = NicFields /\ device'.pkts = 0 /\ device'.last_time = 0  BY <1>6 DEF NewNic, NicFields
<1>8. number' = 0 /\ charged' = 0 /\ used' = 0  BY <1>1 DEF BaseOK, PhasesOK
<1>9. charged' \in Int /\ charged' <= used' /\ device'.pkts \in Nat  BY <1>7, <1>8
<1> QED  BY <1>1, <1>7, <1>8, <1>9 DEF NicOK

\* What a look at /proc/net/dev makes of the card's count: now, and then nothing is
\* left to be charged, or what it was.
LEMMA NicCounts ==
  ASSUME BaseOK, NicOK, mode = "recording", Class = "nic", phase # "new",
         NEW got, NEW read, read = DoProcNetDev(device, got, kernel[Now]),
         SecondOf(kernel[Now]) # device.last_time => got[Packets] = Content(Packets)
  PROVE  /\ DOMAIN read = NicFields
         /\ read.start_pkts = device.start_pkts
         /\ read.pkts \in Nat
         /\ \/ read.pkts = device.pkts /\ (SecondOf(kernel[Now]) = device.last_time \/ gone # {})
            \/ read.pkts = Counter
<1>1. DOMAIN device = NicFields /\ device.pkts \in Nat  BY DEF NicOK
<1>2. IsCounted  BY KindsApart
<1>3. Counter \in Nat /\ Absent \notin Nat /\ Packets = EnergyCounter  BY <1>2, CounterIs, EnergyCounterIs
<1>4. CASE SecondOf(kernel[Now]) = device.last_time
  <2>1. read = device  BY <1>4 DEF DoProcNetDev
  <2> QED  BY <1>1, <1>4, <2>1
<1>5. CASE SecondOf(kernel[Now]) # device.last_time
  <2>1. got[Packets] = IF Packets \in gone THEN Absent ELSE Counter  BY <1>3, <1>5 DEF Content, Counter
  <2>2. read = [device EXCEPT !.last_time = SecondOf(kernel[Now]),
                              !.pkts = IF got[Packets] = Absent THEN @ ELSE got[Packets]]
    BY <1>5 DEF DoProcNetDev
  <2>3. /\ DOMAIN read = NicFields /\ read.start_pkts = device.start_pkts
        /\ read.pkts = IF got[Packets] = Absent THEN device.pkts ELSE got[Packets]
    BY <1>1, <2>2 DEF NicFields
  <2>4. CASE Packets \in gone
    <3>1. read.pkts = device.pkts /\ gone # {}  BY <2>1, <2>3, <2>4
    <3> QED  BY <1>1, <2>3, <3>1
  <2>5. CASE Packets \notin gone
    <3>1. got[Packets] = Counter /\ Counter # Absent  BY <1>3, <2>1, <2>5
    <3>2. read.pkts = Counter  BY <2>3, <3>1
    <3> QED  BY <1>3, <2>3, <3>2
  <2> QED  BY <2>4, <2>5
<1> QED  BY <1>4, <1>5

LEMMA SecondsPass == \A n \in Nat : n >= TicksPerSecond => SecondOf(n) >= 1
<1>1. TicksPerSecond \in Nat /\ TicksPerSecond > 0  BY TicksAssumption
<1> SUFFICES ASSUME NEW n \in Nat, n >= TicksPerSecond PROVE n \div TicksPerSecond >= 1  BY DEF SecondOf
<1> QED  BY <1>1

LEMMA NicStart == BaseOK /\ NicOK /\ StartMeasurement => NicOK'
<1> SUFFICES ASSUME BaseOK, NicOK, StartMeasurement PROVE NicOK'  OBVIOUS
<1>1. UNCHANGED <<unit, mode, kernel, used, charged, gone>> /\ number' = number + 1  BY DEF StartMeasurement
<1>2. Class' = Class /\ EnergyCounter' = EnergyCounter  BY <1>1, UnitKept
<1>3. phase # "new" /\ phase' = "started"  BY DEF StartMeasurement, MayStart
<1> SUFFICES ASSUME mode = "recording", Class = "nic" PROVE NicOK'
  BY <1>1, <1>2 DEF NicOK
<1> DEFINE got == Got(StartReads)
<1>4. IsCounted /\ ~IsRapl /\ ~IsShare  BY KindsApart DEF IsRapl, IsShare, ShareClasses
<1>5. /\ Counter \in Nat /\ kernel[Now] \in Nat /\ Counter' = Counter
      /\ DOMAIN device = NicFields /\ device.pkts \in Nat
      /\ charged \in Int /\ charged <= used /\ used \in Nat
  BY <1>1, <1>2, <1>3, <1>4, CounterIs DEF BaseOK, PhasesOK, MachinesOK, Counter, NicOK
<1>6. number' # 0
  <2>1. number \in Nat  BY DEF BaseOK, PhasesOK
  <2> QED  BY <1>1, <2>1, NatNext, Zenon
<1>7. LookAgain = Look({}, present)  BY DEF LookAgain
<1>8. LookAgain.found = present /\ LookAgain.reads = Once({})  BY <1>7 DEF Look
<1>9. present' = present /\ device' = IF present THEN DeviceStarted(AtStart(got), got) ELSE device
  BY <1>8 DEF StartMeasurement
<1>10. CASE ~present
  <2>1. device' = device  BY <1>9, <1>10
  <2> QED  BY <1>1, <1>3, <1>5, <1>6, <1>9, <1>10, <2>1 DEF NicOK
<1>11. CASE present
  <2>1. AtStart(got) = device  BY DEF AtStart
  <2>2. device' = NicStarted(device, got, kernel[Now])  BY <1>4, <1>9, <1>11, <2>1 DEF DeviceStarted
  <2>3. DeviceStartReads = NicReads(device, kernel[Now])  BY <1>4 DEF DeviceStartReads
  <2>4. StartReads = Over(LookAgain.reads, DeviceStartReads)  BY <1>8, <1>11 DEF StartReads
  <2>5. DOMAIN LookAgain.reads = {}  BY <1>8, OnceIs
  <2>6. DOMAIN DeviceStartReads =
          {<<"T", "now">>} \cup IF SecondOf(kernel[Now]) = device.last_time THEN {} ELSE {Packets}
    BY <2>3, OnceIs DEF NicReads
  <2>7. DOMAIN StartReads = DOMAIN DeviceStartReads  BY <2>4, <2>5 DEF Over
  <2>8. SecondOf(kernel[Now]) # device.last_time => got[Packets] = Content(Packets)
    BY <2>6, <2>7, RecordingReads
  <2> HIDE DEF got
  <2> DEFINE read == DoProcNetDev(device, got, kernel[Now])
  <2>9. device' = [read EXCEPT !.start_pkts = read.pkts, !.before = got[<<"T", "now">>],
                  !.start_up = get_iface_up, !.end_up = 1,
                  !.start_speed = get_iface_speed, !.end_speed = 0]
    BY <2>2 DEF NicStarted
  <2>10. /\ DOMAIN read = NicFields
         /\ read.pkts \in Nat
         /\ \/ read.pkts = device.pkts /\ (SecondOf(kernel[Now]) = device.last_time \/ gone # {})
            \/ read.pkts = Counter
    BY <1>3, <2>8, NicCounts
  <2> HIDE DEF read
  <2>11. DOMAIN device' = NicFields /\ device'.pkts = read.pkts /\ device'.start_pkts = read.pkts
    BY <2>9, <2>10 DEF NicFields
  <2>12. charged' + Uncharged' <= used'
    <3>1. CASE gone # {}
      <4>1. Uncharged' = 0  BY <1>1, <3>1 DEF Uncharged
      <4> QED  BY <1>1, <1>5, <4>1
    <3>2. CASE read.pkts = Counter
      <4>1. Uncharged' = IF gone # {} \/ Counter < Counter THEN 0 ELSE Counter - Counter
        BY <1>1, <1>5, <2>11, <3>2 DEF Uncharged
      <4>2. Uncharged' = 0  BY <1>5, <4>1
      <4> QED  BY <1>1, <1>5, <4>2
    <3>3. CASE read.pkts = device.pkts /\ SecondOf(kernel[Now]) = device.last_time
      <4>1. number # 0
        <5>1. number = 0 => device.last_time = 0  BY <1>3 DEF NicOK
        <5>2. SecondOf(kernel[Now]) # 0
          <6>1. kernel[Now] >= TicksPerSecond  BY DEF BaseOK, MachinesOK
          <6>2. SecondOf(kernel[Now]) >= 1  BY <1>5, <6>1, SecondsPass
          <6> QED  BY <6>2
        <5> QED  BY <3>3, <5>1, <5>2
      <4>2. charged + Uncharged <= used  BY <1>3, <1>11, <4>1 DEF NicOK
      <4>3. Uncharged' = Uncharged  BY <1>1, <1>5, <2>11, <3>3 DEF Uncharged
      <4> QED  BY <1>1, <4>2, <4>3
    <3> QED  BY <2>10, <3>1, <3>2, <3>3
  <2> QED  BY <1>1, <1>3, <1>5, <1>6, <2>10, <2>11, <2>12 DEF NicOK
<1> QED  BY <1>10, <1>11

LEMMA NicEnd == BaseOK /\ NicOK /\ EndMeasurement => NicOK'
<1> SUFFICES ASSUME BaseOK, NicOK, EndMeasurement PROVE NicOK'  OBVIOUS
<1>1. UNCHANGED <<unit, mode, kernel, used, gone, number, present>>  BY DEF EndMeasurement
<1>2. Class' = Class /\ EnergyCounter' = EnergyCounter  BY <1>1, UnitKept
<1>3. phase = "started" /\ phase # "new" /\ phase' = "ended"  BY DEF EndMeasurement
<1> SUFFICES ASSUME mode = "recording", Class = "nic" PROVE NicOK'
  BY <1>1, <1>2 DEF NicOK
<1> DEFINE got == Got(EndReads)
<1>4. IsCounted /\ ~IsRapl /\ ~IsShare  BY KindsApart DEF IsRapl, IsShare, ShareClasses
<1>5. /\ Counter \in Nat /\ kernel[Now] \in Nat /\ Counter' = Counter
      /\ DOMAIN device = NicFields /\ device.pkts \in Nat
      /\ charged \in Int /\ charged <= used /\ used \in Nat
      /\ number # 0 /\ (present => device.start_pkts = device.pkts)
  BY <1>1, <1>2, <1>3, <1>4, CounterIs DEF BaseOK, PhasesOK, MachinesOK, Counter, NicOK
<1>6. CASE ~present
  <2>1. device' = device /\ charged' = charged + 0  BY <1>6 DEF EndMeasurement
  <2>2. charged' = charged  BY <1>5, <2>1
  <2> QED  BY <1>1, <1>3, <1>5, <1>6, <2>1, <2>2 DEF NicOK
<1>7. CASE present
  <2>1. device' = DeviceEnded(got) /\ charged' = charged + NewCharge  BY <1>7 DEF EndMeasurement
  <2> DEFINE ended == NicEnded(device, got, kernel[Now])
             read == DoProcNetDev(device, got, kernel[Now])
             last == IF device.start_pkts > read.pkts THEN device.start_pkts ELSE read.pkts
  <2>2. device' = NicCharged(ended)  BY <1>4, <2>1 DEF DeviceEnded
  <2>3. DeviceEndReads = NicReads(device, kernel[Now])  BY <1>4 DEF DeviceEndReads, DeviceStartReads
  <2>4. EndReads = NicReads(device, kernel[Now])  BY <1>7, <2>3 DEF EndReads
  <2>5. DOMAIN EndReads =
          {<<"T", "now">>} \cup IF SecondOf(kernel[Now]) = device.last_time THEN {} ELSE {Packets}
    BY <2>4, OnceIs DEF NicReads
  <2>6. SecondOf(kernel[Now]) # device.last_time => got[Packets] = Content(Packets)
    BY <2>5, RecordingReads
  <2> HIDE DEF got
  <2>7. /\ DOMAIN read = NicFields
        /\ read.start_pkts = device.start_pkts
        /\ read.pkts \in Nat
        /\ \/ read.pkts = device.pkts
           \/ read.pkts = Counter
    BY <1>3, <2>6, NicCounts
  <2>8. ended = [read EXCEPT !.end_pkts = IF device.start_pkts > read.pkts THEN device.start_pkts ELSE read.pkts,
                  !.after = got[<<"T", "now">>],
                  !.end_up = get_iface_up, !.end_speed = get_iface_speed]
    BY DEF NicEnded
  <2> HIDE DEF read, ended
  <2>9. /\ DOMAIN ended = NicFields /\ ended.pkts = read.pkts /\ ended.start_pkts = device.start_pkts
        /\ ended.end_pkts = last
    BY <2>7, <2>8 DEF NicFields
  <2> HIDE DEF last
  <2>10. /\ DOMAIN device' = NicFields /\ device'.pkts = read.pkts /\ device'.start_pkts = device.start_pkts
         /\ device'.end_pkts = last
    BY <2>2, <2>9 DEF NicCharged, NicFields
  <2>11. NewCharge = NicUtilization(device').packets  BY <1>4 DEF NewCharge
  <2>12. NewCharge = 0 \/ NewCharge = last - device.start_pkts  BY <2>10, <2>11 DEF NicUtilization
  <2>13. charged + Uncharged <= used  BY <1>3, <1>5, <1>7 DEF NicOK
  <2>14. Uncharged' = IF gone # {} \/ Counter < read.pkts THEN 0 ELSE Counter - read.pkts
    BY <1>1, <1>5, <2>10 DEF Uncharged
  <2>15. last = IF device.pkts > read.pkts THEN device.pkts ELSE read.pkts  BY <1>5, <1>7 DEF last
  <2>16. read.pkts = Counter /\ read.pkts # device.pkts => gone = {}
    <3> SUFFICES ASSUME gone # {} PROVE read.pkts = device.pkts  OBVIOUS
    <3>1. Packets \in gone /\ Packets = EnergyCounter  BY <1>4, CounterIs, EnergyCounterIs
    <3>2. SecondOf(kernel[Now]) # device.last_time => got[Packets] = Absent  BY <2>6, <3>1 DEF Content
    <3> QED  BY <1>5, <3>2 DEF read, DoProcNetDev, NicFields
  <2>17. NewCharge \in Int /\ charged' \in Int /\ charged' <= used' /\ charged' + Uncharged' <= used'
    <3>1. CASE read.pkts = device.pkts
      <4>1. last = device.pkts  BY <1>5, <2>15, <3>1
      <4>2. NewCharge = 0  BY <1>5, <1>7, <2>12, <4>1
      <4>3. charged' = charged /\ Uncharged' = Uncharged  BY <1>5, <2>1, <2>14, <3>1, <4>2 DEF Uncharged
      <4> QED  BY <1>1, <1>5, <2>13, <4>2, <4>3
    <3>2. CASE read.pkts = Counter /\ read.pkts # device.pkts
      <4>1. gone = {}  BY <2>16, <3>2
      <4>2. Uncharged = IF Counter < device.pkts THEN 0 ELSE Counter - device.pkts  BY <4>1 DEF Uncharged
      <4>3. Uncharged' = 0  BY <1>5, <2>14, <3>2, <4>1
      <4>4. NewCharge = 0 \/ NewCharge = (IF device.pkts > Counter THEN device.pkts ELSE Counter) - device.pkts
        BY <1>5, <1>7, <2>12, <2>15, <3>2
      <4>5. NewCharge \in Int /\ NewCharge <= Uncharged /\ Uncharged \in Nat  BY <1>5, <4>2, <4>4
      <4> QED  BY <1>1, <1>5, <2>1, <2>13, <4>3, <4>5
    <3> QED  BY <2>7, <3>1, <3>2
  <2> QED  BY <1>1, <1>3, <1>5, <2>7, <2>10, <2>17 DEF NicOK
<1> QED  BY <1>6, <1>7

LEMMA NicNext == BaseOK /\ NicOK /\ [Next]_vars => NicOK'
<1> SUFFICES ASSUME BaseOK, NicOK, [Next]_vars PROVE NicOK'  OBVIOUS
<1>1. CASE Tick  BY <1>1, NicTick
<1>2. CASE SetLevel
  <2>1. Class = "nic" => kernel'[EnergyCounter] = Counter
    <3> SUFFICES ASSUME Class = "nic" PROVE kernel'[EnergyCounter] = Counter  OBVIOUS
    <3>1. unit \in Units /\ IsCounted  BY KindsApart DEF BaseOK, PhasesOK
    <3>2. EnergyCounter \in CounterKeys  BY <3>1, KeysOfClass
    <3>3. EnergyCounter \notin LevelKeys  BY <3>1, <3>2, KeysApart
    <3> QED  BY <1>2, <3>3 DEF SetLevel, Counter
  <2> QED  BY <1>2, <2>1, NicKept DEF SetLevel
<1>3. CASE Lost
  <2>1. (Now \in DOMAIN kernel /\ EnergyCounter \in DOMAIN kernel) \/ Class # "nic"
    <3>1. Class = "nic" => IsCounted  BY KindsApart
    <3>2. DOMAIN kernel = KernelKeys  BY DEF BaseOK, MachinesOK, MachineOK
    <3>3. Now \in KernelKeys  BY DEF KernelKeys
    <3> QED  BY <3>1, <3>2, <3>3, CounterIs
  <2>2. Class = "nic" => gone' # {}
    <3> SUFFICES ASSUME Class = "nic" PROVE gone' # {}  OBVIOUS
    <3>1. IsCounted  BY KindsApart
    <3>2. EnergyCounter # Now /\ EnergyCounter # Powercap  BY <3>1, CounterIs
    <3> QED  BY <1>3, <2>1, <3>2 DEF Lost
  <2>3. kernel'[EnergyCounter] = Counter  BY <1>3 DEF Lost, Counter
  <2> QED  BY <1>3, <2>2, <2>3, NicKept DEF Lost
<1>4. CASE Found  BY <1>4, NicFound
<1>5. CASE Create  BY <1>5, NicCreate
<1>6. CASE StartMeasurement  BY <1>6, NicStart
<1>7. CASE EndMeasurement  BY <1>7, NicEnd
<1>8. CASE Stop
  <2>1. phase # "new" /\ phase' # "started"  BY <1>8 DEF Stop, MayStart
  <2>2. kernel'[EnergyCounter] = Counter  BY <1>8 DEF Stop, Counter
  <2> QED  BY <1>8, <2>1, <2>2, NicKept DEF Stop, history
<1>9. CASE Replay  BY <1>9 DEF Replay, SaveAndLoad, NicOK
<1>10. CASE UNCHANGED vars
  <2>1. kernel'[EnergyCounter] = Counter  BY <1>10 DEF vars, Counter
  <2> QED  BY <1>10, <2>1, NicKept DEF vars
<1> QED  BY <1>1, <1>2, <1>3, <1>4, <1>5, <1>6, <1>7, <1>8, <1>9, <1>10 DEF Next

(***************************************************************************)
(* The charge of every class.                                              *)
(***************************************************************************)
LEMMA ChargeInit == Init => ChargeOK
<1> SUFFICES ASSUME Init PROVE ChargeOK  OBVIOUS
<1>1. phase = "new" /\ used = 0 /\ charged = 0  BY DEF Init
<1>2. RaplOK /\ NicOK /\ XeOK  BY <1>1 DEF RaplOK, NicOK, XeOK
<1> QED  BY <1>1, <1>2 DEF ChargeOK

\* A replay charges nothing.
LEMMA ReplayKeeps ==
  ASSUME [Next]_vars, mode' = "replaying"
  PROVE  UNCHANGED <<unit, used, faults>> /\ (charged' = charged \/ charged' = charged + 0)
<1>1. CASE Tick  BY <1>1 DEF Tick
<1>2. CASE SetLevel  BY <1>2 DEF SetLevel
<1>3. CASE Lost  BY <1>3 DEF Lost
<1>4. CASE Found  BY <1>4 DEF Found, history
<1>5. CASE Create  BY <1>5 DEF Create, history
<1>6. CASE StartMeasurement  BY <1>6 DEF StartMeasurement
<1>7. CASE EndMeasurement  BY <1>7 DEF EndMeasurement
<1>8. CASE Stop  BY <1>8 DEF Stop, history
<1>9. CASE Replay  BY <1>9 DEF Replay, history
<1>10. CASE UNCHANGED vars  BY <1>10 DEF vars
<1> QED  BY <1>1, <1>2, <1>3, <1>4, <1>5, <1>6, <1>7, <1>8, <1>9, <1>10 DEF Next

LEMMA ChargeNext == BaseOK /\ ChargeOK /\ [Next]_vars => ChargeOK'
<1> SUFFICES ASSUME BaseOK, ChargeOK, [Next]_vars PROVE ChargeOK'  OBVIOUS
<1>1. BaseOK'  BY BaseNext
<1>2. RaplOK' /\ NicOK' /\ XeOK'  BY RaplNext, NicNext, XeNext DEF ChargeOK
<1>3. CASE mode' = "replaying"
  <2>1. UNCHANGED <<unit, used, faults>> /\ (charged' = charged \/ charged' = charged + 0)
    BY <1>3, ReplayKeeps
  <2>2. Accounted' = Accounted  BY <2>1, UnitKept DEF Accounted, Faultless
  <2>3. Accounted => charged' \in Int /\ charged' <= used'
    <3>1. Accounted => charged \in Int /\ charged <= used  BY DEF ChargeOK
    <3> QED  BY <2>1, <3>1
  <2> QED  BY <1>2, <2>2, <2>3 DEF ChargeOK
<1>4. CASE mode' = "recording"
  <2>1. CASE phase' = "new"
    <3>1. used' = 0 /\ charged' = 0  BY <1>1, <1>4, <2>1 DEF BaseOK, PhasesOK
    <3> QED  BY <1>2, <3>1 DEF ChargeOK
  <2>2. CASE phase' # "new"
    <3>1. Accounted' => charged' \in Int /\ charged' <= used'
      BY <1>2, <1>4, <2>2 DEF Accounted, RaplOK, NicOK, XeOK
    <3> QED  BY <1>2, <3>1 DEF ChargeOK
  <2> QED  BY <2>1, <2>2
<1>5. mode' \in {"recording", "replaying"}  BY <1>1 DEF BaseOK, PhasesOK
<1> QED  BY <1>3, <1>4, <1>5

\* What all measurements together charge was used, whatever fails, wraps or is reset
\* (cpu_rapl_device.cpp, network.cpp, xe-gpu.cpp).
THEOREM ChargedOnce == Spec => []ChargedAtMostOnce
<1>1. Init => BaseOK /\ ChargeOK  BY BaseInit, ChargeInit
<1>2. BaseOK /\ ChargeOK /\ [Next]_vars => (BaseOK /\ ChargeOK)'  BY BaseNext, ChargeNext
<1>3. BaseOK /\ ChargeOK => ChargedAtMostOnce
  BY DEF ChargeOK, Accounted, Faultless, ChargedAtMostOnce
<1> QED  BY <1>1, <1>2, <1>3, PTL DEF Spec

(***************************************************************************)
(* What a device holds of the machine on which its measurement began.      *)
(***************************************************************************)
UsbFields == {"rootport", "cached_valid", "before", "after"}
GpuFields == {"before", "after", "began", "ended"}

ShareShape(d, fields) ==
  /\ DOMAIN d = fields
  /\ DOMAIN d.before = ShareFiles[Class] /\ DOMAIN d.after = ShareFiles[Class]

NicShape(d) ==
  DOMAIN d = NicFields /\ d.valid \in {<<>>, [r \in NicResults |-> UtilizationPowerValid(r)]}

ShareFieldsNow == IF Class = "usb" /\ present THEN UsbFields ELSE {"before", "after"}

\* The fields that a device has, whatever could be read, and the results that none is reported under.
ShapeOK ==
  mode = "recording" =>
    /\ IsShare => ShareShape(device, ShareFieldsNow)
    /\ Class = "xe_energy" => DOMAIN device = XeFields
    /\ Class = "nic" => NicShape(device)
    /\ Class \in {"rc6", "xe_gts"} => DOMAIN device = GpuFields
    /\ Class = "rfkill" => "radio" \notin DOMAIN results
    /\ Class = "runtime_pm" => "runtime" \notin DOMAIN results

SpeedAt(machine) == IF machine[I("link")] = 0 THEN 0 ELSE SpeedClass(machine[I("speed")])

Line(freq, before, after) == [freq |-> freq, time_before |-> before, time_after |-> after]

Held ==
  /\ IsShare => \A f \in StartFiles(Class) : device.before[f] = began[R(f)]
  /\ IsRapl /\ device.valid =>
       device.last_energy = Count(began, EnergyCounter) % EnergyRange /\ device.last_time = began[Now]
  /\ Class = "xe_energy" /\ device.energy_path =>
       device.last_energy = Count(began, EnergyCounter) /\ device.last_time = began[Now]
  /\ Class = "nic" => /\ device.before = began[Now] /\ device.start_up = began[I("up")]
                      /\ device.start_speed = SpeedAt(began)
  /\ Class = "devfreq" =>
       /\ DOMAIN device = {"dstates", "stamp_before", "sample_time"}
       /\ device.stamp_before = began[Now]
       /\ device.dstates = <<Line(1, Count(began, R("low")), 0), Line(2, Count(began, R("high")), 0),
                             Line(Idle, 0, 0)>>
  /\ Class \in {"core", "package"} =>
       /\ DOMAIN device = {"before", "tsc_before", "stamp_before", "durations", "time_factor"}
       /\ device.stamp_before = began[Now] /\ device.tsc_before = began[Tsc]
       /\ device.before = [s \in StatesOf(Class, Model) |-> began[Register(Class, Model, s)]]
  /\ Class = "cpu" =>
       /\ DOMAIN device = {"before", "after"}
       /\ \A k \in {Tsc, Aperf, Mperf, Now} : device.before[k] = began[k]
  /\ Class = "rc6" =>
       device.began = began[Now] /\ \A s \in Rc6States : device.before[s] = began[R(s)]
  /\ Class = "xe_gts" =>
       device.began = began[Now] /\ \A g \in Gts : device.before[g] = began[R(g)]

\* Nothing was lost since the measurement began.
HeldOK ==
  mode = "recording" /\ phase = "started" /\ whole =>
    /\ present
    /\ \A k \in CounterKeys : Count(kernel, k) = Count(began, k) + spent[k]
    /\ gone # {} => IsLevels \/ KeepsCounters
    /\ Held

LEMMA ReadableReads ==
  ASSUME mode = "recording", NEW reads, Readable(reads)
  PROVE  /\ DOMAIN Got(reads) = DOMAIN reads
         /\ Class = "nic" => gone = {}
         /\ \A k \in DOMAIN reads : /\ k \notin gone /\ Got(reads)[k] = kernel[k] /\ kernel[k] # Absent
                                    /\ ReadsInts => kernel[k] <= MaxInt
<1>1. /\ DOMAIN Got(reads) = DOMAIN reads
      /\ \A k \in DOMAIN reads : Got(reads)[k] = Content(k)
  BY RecordingReads
<1>2. /\ Class = "nic" => gone = {}
      /\ \A k \in DOMAIN reads : Content(k) # Absent /\ (ReadsInts => Content(k) <= MaxInt)
  BY DEF Readable
<1>3. \A k : Content(k) # Absent => k \notin gone /\ Content(k) = kernel[k]  BY DEF Content
<1> QED  BY <1>1, <1>2, <1>3

\* What the shares are of is a number.
LEMMA ShareContents ==
  ASSUME unit \in Units, IsShare, NEW machine, MachineOK(machine)
  PROVE  \A f \in ShareFiles[Class] : machine[R(f)] \in Nat /\ R(f) \in CounterKeys \cup LevelKeys
<1> SUFFICES ASSUME NEW f \in ShareFiles[Class]
             PROVE  machine[R(f)] \in Nat /\ R(f) \in CounterKeys \cup LevelKeys
  OBVIOUS
<1>1. Class = "usb" \/ IsTimes \/ IsLevels  BY DEF IsShare, ShareClasses, IsTimes, IsLevels
<1>2. CASE Class = "usb" \/ IsTimes
  <2>1. R(f) \in CounterKeys  BY <1>2, KeysOfClass, FilesOfShares
  <2>2. Class # "devfreq"  BY <1>2, KindsApart DEF OtherClasses
  <2> QED  BY <2>1, <2>2 DEF MachineOK, Count
<1>3. CASE IsLevels
  <2>1. R(f) \in LevelKeys  BY <1>3, KeysOfClass
  <2>2. machine[R(f)] \in Level(R(f)[2])  BY <2>1 DEF MachineOK
  <2>3. R(f)[2] = f  BY KeyNames
  <2>4. f \in {"max", "level", "dpms", "hard", "soft", "rate"}  BY <1>3, FilesOfShares DEF IsLevels
  <2>5. Level(f) \subseteq Nat  BY <2>4 DEF Level
  <2> QED  BY <2>1, <2>2, <2>3, <2>5
<1> QED  BY <1>1, <1>2, <1>3

LEMMA FilesRead ==
  ASSUME NEW got, NEW f, R(f) \in DOMAIN got
  PROVE  f \in DOMAIN Files(got) /\ Files(got)[f] = got[R(f)]
<1>1. R(f)[2] = f  BY KeyNames
<1>2. f \in {k[2] : k \in DOMAIN got}  BY <1>1
<1> QED  BY <1>2 DEF Files

LEMMA IntsRead ==
  ASSUME NEW old, NEW files, NEW f \in DOMAIN old, f \in DOMAIN files, files[f] \in Nat, files[f] <= MaxInt
  PROVE  DOMAIN Ints(old, files) = DOMAIN old /\ Ints(old, files)[f] = files[f]
<1>1. Absent \notin Nat /\ MaxInt \in Nat  BY FrameworkAssumption
<1>2. ReadInt(files[f]) = files[f]  BY <1>1 DEF ReadInt
<1> QED  BY <1>2 DEF Ints

LEMMA StartIs ==
  ASSUME BaseOK, StartMeasurement, whole'
  PROVE  /\ mode = "recording" /\ present'
         /\ device' = DeviceStarted(AtStart(Got(StartReads)), Got(StartReads))
         /\ \A k \in DOMAIN DeviceStartReads :
              /\ k \in DOMAIN Got(StartReads) /\ Got(StartReads)[k] = kernel[k]
              /\ k \notin gone /\ kernel[k] # Absent /\ (ReadsInts => kernel[k] <= MaxInt)
         /\ Class # "usb" => AtStart(Got(StartReads)) = device /\ present
         /\ Class = "nic" => gone = {}
         /\ Class = "usb" /\ gone # {} => A("active") \in DOMAIN StartReads /\ A("active") \notin gone
<1>1. /\ mode = "recording" /\ present' /\ Readable(StartReads)
      /\ present' = LookAgain.found
      /\ device' = DeviceStarted(AtStart(Got(StartReads)), Got(StartReads))
  BY DEF StartMeasurement
<1>2. LookAgain.found  BY <1>1
<1>3. StartReads = Over(LookAgain.reads, DeviceStartReads)  BY <1>2 DEF StartReads
<1>4. DOMAIN DeviceStartReads \subseteq DOMAIN StartReads /\ DOMAIN LookAgain.reads \subseteq DOMAIN StartReads
  <2>1. DOMAIN Over(LookAgain.reads, DeviceStartReads) = DOMAIN LookAgain.reads \cup DOMAIN DeviceStartReads
    BY Zenon, OverIs
  <2> QED  BY <1>3, <2>1
<1>5. /\ DOMAIN Got(StartReads) = DOMAIN StartReads
      /\ Class = "nic" => gone = {}
      /\ \A k \in DOMAIN StartReads :
           /\ k \notin gone /\ Got(StartReads)[k] = kernel[k] /\ kernel[k] # Absent
           /\ ReadsInts => kernel[k] <= MaxInt
  BY <1>1, ReadableReads
<1>6. Class # "usb" => AtStart(Got(StartReads)) = device  BY DEF AtStart
<1>7. Class # "usb" => present  BY <1>2, LookedAgain DEF BaseOK, PhasesOK
<1>8. Class = "usb" => A("active") \in DOMAIN LookAgain.reads
  <2>1. A("active") \in DOMAIN LookForUsb.reads /\ A("active") \in DOMAIN LookForKnownUsb.reads
    <3>1. LookForKnownUsb.reads = Once({A("active")})  BY DEF LookForKnownUsb, Look
    <3>2. LookForUsb.reads = Once({A("active")} \cup And(Accessible("active"), {R("bDeviceClass")}))
      BY DEF LookForUsb, Look
    <3> QED  BY <3>1, <3>2, OnceIs
  <2> QED  BY <2>1 DEF LookAgain
<1> QED  BY <1>1, <1>4, <1>5, <1>6, <1>7, <1>8

(***************************************************************************)
(* The fields.                                                             *)
(***************************************************************************)
LEMMA ShareStartShape ==
  ASSUME IsShare, NEW d, NEW fields, fields \in {UsbFields, {"before", "after"}}, ShareShape(d, fields),
         Class # "usb" => fields = {"before", "after"}, NEW got
  PROVE  ShareShape(ShareStarted(Class, d, got), fields)
<1> DEFINE old == d.before
           kept == Ints(old, got)
<1>1. DOMAIN kept = DOMAIN old /\ DOMAIN AlsaKept(old, got) = DOMAIN old  BY DEF Ints, AlsaKept
<1>2. "before" \in DOMAIN d /\ "after" \in DOMAIN d  BY DEF ShareShape, UsbFields
<1>3. DOMAIN Zeros("runtime_pm") = ShareFiles["runtime_pm"]  BY DEF Zeros
<1>4. Class \in ShareClasses  BY DEF IsShare
<1>5. CASE Class = "runtime_pm"
  <2>1. ShareStarted(Class, d, got) = [before |-> kept, after |-> Zeros("runtime_pm")]
    BY <1>5 DEF ShareStarted, RuntimePmStarted
  <2> HIDE DEF kept
  <2> QED  BY <1>1, <1>3, <1>5, <2>1 DEF ShareShape
<1>6. CASE Class = "rfkill"
  <2>1. ShareStarted(Class, d, got) = [before |-> kept, after |-> [f \in {"hard", "soft"} |-> 1]]
    BY <1>6 DEF ShareStarted, RfkillStarted
  <2> HIDE DEF kept
  <2> QED  BY <1>1, <1>6, <2>1, FilesOfShares DEF ShareShape
<1>7. CASE Class = "alsa"
  <2>1. ShareStarted(Class, d, got) = [d EXCEPT !.before = AlsaKept(old, got)]
    BY <1>7 DEF ShareStarted, AlsaStarted
  <2> QED  BY <1>1, <1>2, <2>1 DEF ShareShape
<1>8. CASE Class = "xe_fan"  BY <1>8 DEF ShareStarted
<1>9. CASE Class \in {"usb", "ahci", "backlight", "fan", "light"}
  <2>1. ShareStarted(Class, d, got) = [d EXCEPT !.before = kept]
    BY <1>9 DEF ShareStarted, UsbStarted, AhciStarted, BacklightStarted, FanStarted, LightStarted
  <2> HIDE DEF kept
  <2> QED  BY <1>1, <1>2, <2>1 DEF ShareShape
<1> QED  BY <1>4, <1>5, <1>6, <1>7, <1>8, <1>9 DEF ShareClasses

LEMMA ShareEndShape ==
  ASSUME IsShare, NEW d, NEW fields, fields \in {UsbFields, {"before", "after"}}, ShareShape(d, fields),
         NEW got
  PROVE  ShareShape(ShareEnded(Class, d, got), fields)
<1> DEFINE old == d.after
           kept == Ints(old, got)
           grown == [f \in DOMAIN old |->
                      IF f # "devslp" /\ ReadInt(got[f]) < d.before[f] THEN d.before[f] ELSE ReadInt(got[f])]
<1>1. DOMAIN kept = DOMAIN old /\ DOMAIN AlsaKept(old, got) = DOMAIN old /\ DOMAIN grown = DOMAIN old
  BY DEF Ints, AlsaKept
<1>2. "before" \in DOMAIN d /\ "after" \in DOMAIN d  BY DEF ShareShape, UsbFields
<1>4. Class \in ShareClasses  BY DEF IsShare
<1>5. CASE Class = "ahci"
  <2>1. ShareEnded(Class, d, got) = [d EXCEPT !.after = grown]
    BY <1>5 DEF ShareEnded, AhciEnded
  <2> HIDE DEF grown
  <2> QED  BY <1>1, <1>2, <2>1 DEF ShareShape
<1>6. CASE Class = "xe_fan"
  <2>1. ShareEnded(Class, d, got) = [d EXCEPT !.after = [rate |-> ReadUint64(got["rate"])]]
    BY <1>6 DEF ShareEnded, XeFanEnded
  <2> QED  BY <1>2, <1>6, <2>1, FilesOfShares DEF ShareShape
<1>7. CASE Class = "alsa"
  <2>1. ShareEnded(Class, d, got) = [d EXCEPT !.after = AlsaKept(old, got)]
    BY <1>7 DEF ShareEnded, AlsaEnded
  <2> QED  BY <1>1, <1>2, <2>1 DEF ShareShape
<1>9. CASE Class \in {"runtime_pm", "usb", "backlight", "rfkill", "fan", "light"}
  <2>1. ShareEnded(Class, d, got) = [d EXCEPT !.after = kept]
    BY <1>9 DEF ShareEnded, RuntimePmEnded, UsbEnded, BacklightEnded, RfkillEnded, FanEnded, LightEnded
  <2> HIDE DEF kept
  <2> QED  BY <1>1, <1>2, <2>1 DEF ShareShape
<1> QED  BY <1>4, <1>5, <1>6, <1>7, <1>9 DEF ShareClasses

\* What the last measurement reported under a name stays, or is reported again.
LEMMA ReportsShape ==
  ASSUME NEW d
  PROVE  /\ Class = "rfkill" /\ "radio" \notin DOMAIN results => "radio" \notin DOMAIN Reported(d)
         /\ Class = "runtime_pm" /\ "runtime" \notin DOMAIN results => "runtime" \notin DOMAIN Reported(d)
<1>1. Class \in {"rfkill", "runtime_pm"} => Reported(d) = Over(ShareReports(Class, d), results)
  BY DEF Reported, IsShare, ShareClasses
<1>2. DOMAIN Over(ShareReports(Class, d), results) = DOMAIN ShareReports(Class, d) \cup DOMAIN results
  BY OverIs, Zenon
<1>3. Class = "rfkill" => "radio" \notin DOMAIN ShareReports(Class, d)
  <2>1. Class = "rfkill" => ShareReports(Class, d) = [name |-> ShareUtilization(Class, d)]  BY DEF ShareReports
  <2> QED  BY <2>1
<1>4. Class = "runtime_pm" => DOMAIN ShareReports(Class, d) = {}  BY DEF ShareReports
<1> QED  BY <1>1, <1>2, <1>3, <1>4

LEMMA NewShape ==
  /\ IsShare => ShareShape(NewShareDevice(Class), {"before", "after"})
  /\ Class = "usb" => \A contents : ShareShape(NewUsb(contents), UsbFields)
  /\ DOMAIN NewXeDevice = XeFields
  /\ NicShape(NewNic)
  /\ \A names : DOMAIN NewGpu(names) = GpuFields
<1>1. \A class : DOMAIN Zeros(class) = ShareFiles[class]  BY DEF Zeros
<1>2. IsShare => ShareShape(NewShareDevice(Class), {"before", "after"})
  <2>1. NewShareDevice(Class) = [before |-> Zeros(Class), after |-> Zeros(Class)]  BY DEF NewShareDevice
  <2> QED  BY <1>1, <2>1 DEF ShareShape
<1>3. ASSUME Class = "usb", NEW contents PROVE ShareShape(NewUsb(contents), UsbFields)
  <2>1. /\ DOMAIN NewUsb(contents) = UsbFields
        /\ NewUsb(contents).before = Zeros("usb") /\ NewUsb(contents).after = Zeros("usb")
    BY DEF NewUsb, UsbFields
  <2> QED  BY <1>1, <1>3, <2>1 DEF ShareShape
<1>4. DOMAIN NewXeDevice = XeFields  BY DEF NewXeDevice, XeFields
<1>5. NicShape(NewNic)  BY DEF NewNic, NicShape, NicFields
<1>6. \A names : DOMAIN NewGpu(names) = GpuFields  BY DEF NewGpu, GpuFields
<1> QED  BY <1>2, <1>3, <1>4, <1>5, <1>6

LEMMA NewIs ==
  /\ IsShare => New = NewShareDevice(Class)
  /\ Class = "xe_energy" => New = NewXeDevice
  /\ Class = "nic" => New = NewNic
  /\ Class = "rc6" => New = NewGpu(Rc6States)
  /\ Class = "xe_gts" => New = NewGpu(Gts)
BY DEF New, IsShare, IsRapl, ShareClasses

LEMMA ShapeInit == Init => ShapeOK
<1> SUFFICES ASSUME Init PROVE ShapeOK  OBVIOUS
<1>1. device = New /\ present = FALSE /\ results = <<>>  BY DEF Init
<1>2. ShareFieldsNow = {"before", "after"}  BY <1>1 DEF ShareFieldsNow
<1>3. IsShare => ShareShape(device, ShareFieldsNow)  BY <1>1, <1>2, NewShape, NewIs
<1>4. Class = "xe_energy" => DOMAIN device = XeFields  BY <1>1, NewShape, NewIs
<1>5. Class = "nic" => NicShape(device)  BY <1>1, NewShape, NewIs
<1>6. Class \in {"rc6", "xe_gts"} => DOMAIN device = GpuFields  BY <1>1, NewShape, NewIs
<1>7. DOMAIN results = {}  BY <1>1
<1> QED  BY <1>3, <1>4, <1>5, <1>6, <1>7 DEF ShapeOK

LEMMA ShapeKept ==
  ASSUME ShapeOK, UNCHANGED <<unit, present, device, results, mode>>
  PROVE  ShapeOK'
<1>1. Class' = Class /\ IsShare' = IsShare  BY UnitKept
<1>2. ShareFieldsNow' = ShareFieldsNow /\ (ShareShape(device, ShareFieldsNow))' = ShareShape(device, ShareFieldsNow)
      /\ (NicShape(device))' = NicShape(device)
  BY <1>1 DEF ShareFieldsNow, ShareShape, NicShape
<1> QED  BY <1>1, <1>2 DEF ShapeOK

LEMMA ShapeCreate == BaseOK /\ ShapeOK /\ Create => ShapeOK'
<1> SUFFICES ASSUME BaseOK, ShapeOK, Create PROVE ShapeOK'  OBVIOUS
<1>1. /\ UNCHANGED <<unit, results, mode>>
      /\ device' = IF present' THEN Created(Got(CreateReads)) ELSE New
  BY DEF Create
<1>2. Class' = Class /\ IsShare' = IsShare  BY <1>1, UnitKept
<1> DEFINE got == Got(CreateReads)
<1> HIDE DEF got
<1>3. IsShare => ShareShape(device', IF Class = "usb" /\ present' THEN UsbFields ELSE {"before", "after"})
  <2> SUFFICES ASSUME IsShare
               PROVE  ShareShape(device', IF Class = "usb" /\ present' THEN UsbFields ELSE {"before", "after"})
    OBVIOUS
  <2>1. CASE Class = "usb" /\ present'
    <3>1. device' = NewUsb(got[R("bDeviceClass")])  BY <1>1, <2>1 DEF Created, IsRapl, got
    <3> QED  BY <2>1, <3>1, NewShape
  <2>2. CASE ~(Class = "usb" /\ present')
    <3>1. present' => Created(got) = New  BY <2>2 DEF Created, IsRapl, IsShare, ShareClasses
    <3>2. device' = New  BY <1>1, <3>1 DEF got
    <3> QED  BY <2>2, <3>2, NewShape, NewIs
  <2> QED  BY <2>1, <2>2
<1>4. Class = "xe_energy" => DOMAIN device' = XeFields
  <2> SUFFICES ASSUME Class = "xe_energy" PROVE DOMAIN device' = XeFields  OBVIOUS
  <2>1. Created(got) = XeCreated(got)  BY DEF Created, IsRapl
  <2>2. DOMAIN XeCreated(got) = XeFields
    <3>1. XeCreated(got) = NewXeDevice \/ XeCreated(got) =
            [NewXeDevice EXCEPT !.energy_path = TRUE,
                                !.last_energy = ReadUint64(got[Channel]), !.last_time = got[Now]]
      BY DEF XeCreated
    <3> QED  BY <3>1, NewShape
  <2> QED  BY <1>1, <2>1, <2>2, NewShape, NewIs DEF got
<1>5. Class \in {"nic", "rc6", "xe_gts"} => device' = New
  <2>1. Class \in {"nic", "rc6", "xe_gts"} => Created(got) = New  BY DEF Created, IsRapl
  <2> QED  BY <1>1, <2>1 DEF got
<1>6. Class = "nic" => NicShape(device')  BY <1>5, NewShape, NewIs
<1>7. Class \in {"rc6", "xe_gts"} => DOMAIN device' = GpuFields  BY <1>5, NewShape, NewIs
<1>8. IsShare' => (ShareShape(device, ShareFieldsNow))'
  BY <1>2, <1>3 DEF ShareShape, ShareFieldsNow
<1>9. Class' = "nic" => (NicShape(device))'  BY <1>2, <1>6 DEF NicShape
<1> QED  BY <1>1, <1>2, <1>4, <1>7, <1>8, <1>9 DEF ShapeOK

LEMMA UsbLook == Class = "usb" /\ present => LookAgain.found
<1>1. Class = "usb" /\ present => LookAgain = LookForKnownUsb  BY DEF LookAgain
<1>2. LookForKnownUsb.found  BY DEF LookForKnownUsb, Look
<1> QED  BY <1>1, <1>2

LEMMA StartShape ==
  ASSUME BaseOK, ShapeOK, mode = "recording", StartMeasurement
  PROVE  IsShare => ShareShape(device', IF Class = "usb" /\ present' THEN UsbFields ELSE {"before", "after"})
<1> SUFFICES ASSUME IsShare
             PROVE  ShareShape(device', IF Class = "usb" /\ present' THEN UsbFields ELSE {"before", "after"})
  OBVIOUS
<1> DEFINE got == Got(StartReads)
           start == AtStart(got)
<1>1. present' = LookAgain.found /\ device' = IF present' THEN DeviceStarted(start, got) ELSE device
  BY DEF StartMeasurement
<1> HIDE DEF got, start
<1>2. DeviceStarted(start, got) = ShareStarted(Class, start, Files(got))
  BY DEF DeviceStarted, IsRapl, IsShare, ShareClasses
<1>3. ShareShape(device, ShareFieldsNow)  BY DEF ShapeOK
<1>4. CASE ~present'
  <2>1. ~(Class = "usb" /\ present)  BY <1>1, <1>4, UsbLook
  <2> QED  BY <1>1, <1>3, <1>4, <2>1 DEF ShareFieldsNow
<1>5. CASE present' /\ Class # "usb"
  <2>1. start = device  BY <1>5 DEF start, AtStart
  <2>2. ShareShape(device, {"before", "after"})  BY <1>3, <1>5 DEF ShareFieldsNow
  <2> QED  BY <1>1, <1>2, <1>5, <2>1, <2>2, ShareStartShape
<1>6. CASE present' /\ Class = "usb"
  <2>1. ShareShape(start, UsbFields)
    <3>1. CASE ~present
      <4>1. start = NewUsb(got[R("bDeviceClass")])  BY <1>6, <3>1 DEF start, AtStart
      <4> QED  BY <1>6, <4>1, NewShape
    <3>2. CASE present
      <4>1. ShareShape(device, UsbFields)  BY <1>3, <1>6, <3>2 DEF ShareFieldsNow
      <4>2. start = device \/ start = PrecomputeValid(device)  BY <3>2 DEF start, AtStart
      <4>3. ShareShape(PrecomputeValid(device), UsbFields)  BY <4>1 DEF ShareShape, PrecomputeValid, UsbFields
      <4> QED  BY <4>1, <4>2, <4>3
    <3> QED  BY <3>1, <3>2
  <2> QED  BY <1>1, <1>2, <1>6, <2>1, ShareStartShape
<1> QED  BY <1>4, <1>5, <1>6

LEMMA ShapeStart == BaseOK /\ ShapeOK /\ StartMeasurement => ShapeOK'
<1> SUFFICES ASSUME BaseOK, ShapeOK, StartMeasurement PROVE ShapeOK'  OBVIOUS
<1> DEFINE got == Got(StartReads)
<1>1. /\ UNCHANGED <<unit, results, mode>>
      /\ device' = IF present' THEN DeviceStarted(AtStart(got), got) ELSE device
  BY DEF StartMeasurement
<1>2. Class' = Class /\ IsShare' = IsShare  BY <1>1, UnitKept
<1> SUFFICES ASSUME mode = "recording" PROVE ShapeOK'  BY <1>1 DEF ShapeOK
<1>3. IsShare' => (ShareShape(device, ShareFieldsNow))'
  BY <1>2, StartShape DEF ShareShape, ShareFieldsNow
<1> HIDE DEF got
<1>4. Class # "usb" => AtStart(got) = device  BY DEF AtStart
<1>5. Class = "xe_energy" => DOMAIN device' = XeFields
  <2> SUFFICES ASSUME Class = "xe_energy" PROVE DOMAIN device' = XeFields  OBVIOUS
  <2>1. DeviceStarted(device, got) = XeStarted(device, got)  BY DEF DeviceStarted, IsShare, IsRapl, ShareClasses
  <2>2. DOMAIN device = XeFields  BY DEF ShapeOK
  <2>3. DOMAIN XeStarted(device, got) = XeFields  BY <2>2 DEF XeStarted
  <2> QED  BY <1>1, <1>4, <2>1, <2>2, <2>3
<1>6. Class = "nic" => NicShape(device')
  <2> SUFFICES ASSUME Class = "nic" PROVE NicShape(device')  OBVIOUS
  <2>1. DeviceStarted(device, got) = NicStarted(device, got, kernel[Now])
    BY DEF DeviceStarted, IsShare, IsRapl, ShareClasses
  <2>2. NicShape(device)  BY DEF ShapeOK
  <2> DEFINE read == DoProcNetDev(device, got, kernel[Now])
  <2>3. NicShape(read)  BY <2>2 DEF DoProcNetDev, NicShape, NicFields
  <2>4. NicStarted(device, got, kernel[Now]) =
          [read EXCEPT !.start_pkts = read.pkts, !.before = got[<<"T", "now">>],
                  !.start_up = get_iface_up, !.end_up = 1,
                  !.start_speed = get_iface_speed, !.end_speed = 0]
    BY DEF NicStarted
  <2> HIDE DEF read
  <2>5. NicShape(NicStarted(device, got, kernel[Now]))  BY <2>3, <2>4 DEF NicShape, NicFields
  <2> QED  BY <1>1, <1>4, <2>1, <2>2, <2>5
<1>7. Class \in {"rc6", "xe_gts"} => DOMAIN device' = GpuFields
  <2> SUFFICES ASSUME Class \in {"rc6", "xe_gts"} PROVE DOMAIN device' = GpuFields  OBVIOUS
  <2>1. DeviceStarted(device, got) = GpuStarted(device, IF Class = "rc6" THEN Rc6States ELSE Gts, got)
    BY DEF DeviceStarted, IsShare, IsRapl, ShareClasses
  <2>2. DOMAIN device = GpuFields  BY DEF ShapeOK
  <2>3. \A names : DOMAIN GpuStarted(device, names, got) = GpuFields  BY <2>2 DEF GpuStarted
  <2> QED  BY <1>1, <1>4, <2>1, <2>2, <2>3
<1>8. Class' = "nic" => (NicShape(device))'  BY <1>2, <1>6 DEF NicShape
<1> QED  BY <1>1, <1>2, <1>3, <1>5, <1>7, <1>8 DEF ShapeOK

LEMMA ShapeEnd == BaseOK /\ ShapeOK /\ EndMeasurement => ShapeOK'
<1> SUFFICES ASSUME BaseOK, ShapeOK, EndMeasurement PROVE ShapeOK'  OBVIOUS
<1>0. UNCHANGED <<unit, present, mode>>  BY DEF EndMeasurement
<1>1. CASE ~present  BY <1>0, <1>1, ShapeKept DEF EndMeasurement
<1>2. CASE present
  <2> DEFINE got == Got(EndReads)
  <2>1. device' = DeviceEnded(got) /\ results' = Reported(device')  BY <1>2 DEF EndMeasurement
  <2>2. Class' = Class /\ IsShare' = IsShare  BY <1>0, UnitKept
  <2> SUFFICES ASSUME mode = "recording" PROVE ShapeOK'  BY <1>0 DEF ShapeOK
  <2> HIDE DEF got
  <2>3. IsShare => ShareShape(device', ShareFieldsNow)
    <3> SUFFICES ASSUME IsShare PROVE ShareShape(device', ShareFieldsNow)  OBVIOUS
    <3>1. ShareShape(device, ShareFieldsNow)  BY DEF ShapeOK
    <3>2. DeviceEnded(got) = ShareEnded(Class, device, Files(got))
      BY DEF DeviceEnded, IsRapl, IsShare, ShareClasses
    <3>3. ShareFieldsNow \in {UsbFields, {"before", "after"}}  BY DEF ShareFieldsNow
    <3> QED  BY <2>1, <3>1, <3>2, <3>3, ShareEndShape
  <2>4. IsShare' => (ShareShape(device, ShareFieldsNow))'
    BY <1>0, <2>2, <2>3 DEF ShareShape, ShareFieldsNow
  <2>5. Class = "xe_energy" => DOMAIN device' = XeFields
    <3> SUFFICES ASSUME Class = "xe_energy" PROVE DOMAIN device' = XeFields  OBVIOUS
    <3>1. DeviceEnded(got) = XeEnded(device, got)  BY DEF DeviceEnded, IsShare, IsRapl, ShareClasses
    <3>2. DOMAIN device = XeFields  BY DEF ShapeOK
    <3>3. DOMAIN XeEnded(device, got) = XeFields  BY <3>2 DEF XeEnded
    <3> QED  BY <2>1, <3>1, <3>3
  <2>6. Class = "nic" => NicShape(device')
    <3> SUFFICES ASSUME Class = "nic" PROVE NicShape(device')  OBVIOUS
    <3> DEFINE ended == NicEnded(device, got, kernel[Now])
               read == DoProcNetDev(device, got, kernel[Now])
    <3>1. DeviceEnded(got) = NicCharged(ended)  BY DEF DeviceEnded, IsShare, IsRapl, ShareClasses
    <3>2. NicShape(device)  BY DEF ShapeOK
    <3>3. NicShape(read)  BY <3>2 DEF DoProcNetDev, NicShape, NicFields
    <3>4. ended = [read EXCEPT !.end_pkts = IF device.start_pkts > read.pkts THEN device.start_pkts ELSE read.pkts,
                  !.after = got[<<"T", "now">>],
                  !.end_up = get_iface_up, !.end_speed = get_iface_speed]
      BY DEF NicEnded
    <3> HIDE DEF read, ended
    <3>5. NicShape(ended)  BY <3>3, <3>4 DEF NicShape, NicFields
    <3>6. NicShape(NicCharged(ended))  BY <3>5 DEF NicShape, NicFields, NicCharged
    <3> QED  BY <2>1, <3>1, <3>6
  <2>7. Class' = "nic" => (NicShape(device))'  BY <2>2, <2>6 DEF NicShape
  <2>8. Class \in {"rc6", "xe_gts"} => DOMAIN device' = GpuFields
    <3> SUFFICES ASSUME Class \in {"rc6", "xe_gts"} PROVE DOMAIN device' = GpuFields  OBVIOUS
    <3>1. DeviceEnded(got) = GpuEnded(device, IF Class = "rc6" THEN Rc6States ELSE Gts, got)
      BY DEF DeviceEnded, IsShare, IsRapl, ShareClasses
    <3>2. DOMAIN device = GpuFields  BY DEF ShapeOK
    <3>3. \A names : DOMAIN GpuEnded(device, names, got) = GpuFields  BY <3>2 DEF GpuEnded
    <3> QED  BY <2>1, <3>1, <3>3
  <2>9. /\ Class = "rfkill" => "radio" \notin DOMAIN results'
        /\ Class = "runtime_pm" => "runtime" \notin DOMAIN results'
    BY <2>1, ReportsShape DEF ShapeOK
  <2> QED  BY <1>0, <2>2, <2>4, <2>5, <2>7, <2>8, <2>9 DEF ShapeOK
<1> QED  BY <1>1, <1>2

LEMMA ShapeNext == BaseOK /\ ShapeOK /\ [Next]_vars => ShapeOK'
<1> SUFFICES ASSUME BaseOK, ShapeOK, [Next]_vars PROVE ShapeOK'  OBVIOUS
<1>1. CASE Tick  BY <1>1, ShapeKept DEF Tick
<1>2. CASE SetLevel  BY <1>2, ShapeKept DEF SetLevel
<1>3. CASE Lost  BY <1>3, ShapeKept DEF Lost
<1>4. CASE Found  BY <1>4, ShapeKept DEF Found
<1>5. CASE Create  BY <1>5, ShapeCreate
<1>6. CASE StartMeasurement  BY <1>6, ShapeStart
<1>7. CASE EndMeasurement  BY <1>7, ShapeEnd
<1>8. CASE Stop  BY <1>8, ShapeKept DEF Stop
<1>9. CASE Replay  BY <1>9 DEF Replay, SaveAndLoad, ShapeOK
<1>10. CASE UNCHANGED vars  BY <1>10, ShapeKept DEF vars
<1> QED  BY <1>1, <1>2, <1>3, <1>4, <1>5, <1>6, <1>7, <1>8, <1>9, <1>10 DEF Next

(***************************************************************************)
(* What a device holds when its measurement starts.                        *)
(***************************************************************************)
LEMMA AtStartBefore ==
  ASSUME BaseOK, ShapeOK, mode = "recording", IsShare, LookAgain.found, NEW got
  PROVE  \E fields \in {UsbFields, {"before", "after"}} :
           ShareShape(AtStart(got), fields) /\ (Class # "usb" => fields = {"before", "after"})
<1>1. ShareShape(device, ShareFieldsNow)  BY DEF ShapeOK
<1>2. CASE Class # "usb"
  <2>1. AtStart(got) = device  BY <1>2 DEF AtStart
  <2> QED  BY <1>1, <1>2, <2>1 DEF ShareFieldsNow
<1>3. CASE Class = "usb" /\ ~present
  <2>1. AtStart(got) = NewUsb(got[R("bDeviceClass")])  BY <1>3 DEF AtStart
  <2> QED  BY <1>3, <2>1, NewShape
<1>4. CASE Class = "usb" /\ present
  <2>1. ShareShape(device, UsbFields)  BY <1>1, <1>4 DEF ShareFieldsNow
  <2>2. AtStart(got) = device \/ AtStart(got) = PrecomputeValid(device)  BY <1>4 DEF AtStart
  <2>3. ShareShape(PrecomputeValid(device), UsbFields)  BY <2>1 DEF ShareShape, PrecomputeValid, UsbFields
  <2> QED  BY <1>4, <2>1, <2>2, <2>3
<1> QED  BY <1>2, <1>3, <1>4

LEMMA ShareHolds ==
  ASSUME BaseOK, ShapeOK, StartMeasurement, whole', IsShare
  PROVE  /\ \A f \in StartFiles(Class) : device'.before[f] = kernel[R(f)]
         /\ gone # {} => IsLevels
<1> DEFINE got == Got(StartReads)
           d == AtStart(got)
           files == Files(got)
<1>1. unit \in Units /\ MachineOK(kernel)  BY DEF BaseOK, PhasesOK, MachinesOK
<1>2. /\ mode = "recording" /\ present'
      /\ device' = DeviceStarted(d, got)
      /\ \A k \in DOMAIN DeviceStartReads :
           k \in DOMAIN got /\ got[k] = kernel[k] /\ k \notin gone /\ (ReadsInts => kernel[k] <= MaxInt)
  BY StartIs
<1>3. LookAgain.found  BY <1>2 DEF StartMeasurement
<1>4. PICK fields \in {UsbFields, {"before", "after"}} :
        ShareShape(d, fields) /\ (Class # "usb" => fields = {"before", "after"})
  BY <1>2, <1>3, AtStartBefore
<1>5. DeviceStartReads = Once({R(f) : f \in StartFiles(Class)})  BY DEF DeviceStartReads, IsRapl, IsShare, ShareClasses
<1>6. DOMAIN DeviceStartReads = {R(f) : f \in StartFiles(Class)}  BY <1>5, OnceIs, Zenon
<1> HIDE DEF got, d
<1>7. ASSUME NEW f \in StartFiles(Class)
      PROVE  /\ f \in DOMAIN files /\ files[f] = kernel[R(f)] /\ kernel[R(f)] \in Nat
             /\ ReadsInts => kernel[R(f)] <= MaxInt
             /\ f \in ShareFiles[Class] /\ R(f) \notin gone
  <2>1. R(f) \in DOMAIN DeviceStartReads  BY <1>6
  <2>2. f \in ShareFiles[Class]  BY DEF StartFiles
  <2>3. kernel[R(f)] \in Nat  BY <1>1, <2>2, ShareContents
  <2>4. R(f) \in DOMAIN got /\ got[R(f)] = kernel[R(f)]  BY <1>2, <2>1
  <2>5. f \in DOMAIN files /\ files[f] = got[R(f)]  BY <2>4, FilesRead
  <2> QED  BY <1>2, <2>1, <2>2, <2>3, <2>4, <2>5
<1> HIDE DEF files
<1>8. device' = ShareStarted(Class, d, files)
  BY <1>2 DEF DeviceStarted, IsRapl, IsShare, ShareClasses, files
<1>9. "before" \in DOMAIN d /\ DOMAIN d.before = ShareFiles[Class]  BY <1>4 DEF ShareShape, UsbFields
<1>10. ASSUME NEW f \in StartFiles(Class) PROVE device'.before[f] = kernel[R(f)]
  <2>1. CASE Class = "alsa"
    <3>1. device'.before = AlsaKept(d.before, files)  BY <1>8, <1>9, <2>1 DEF ShareStarted, AlsaStarted
    <3>2. files[f] # Absent  BY <1>7, FrameworkAssumption
    <3>3. f \in DOMAIN d.before  BY <1>7, <1>9
    <3>4. AlsaKept(d.before, files)[f] = files[f]  BY <3>2, <3>3 DEF AlsaKept
    <3> QED  BY <1>7, <3>1, <3>4
  <2>2. CASE Class # "alsa"
    <3>1. ReadsInts  BY <2>2 DEF ReadsInts
    <3>2. Class # "xe_fan"  BY DEF StartFiles
    <3> DEFINE ints == Ints(d.before, files)
    <3>3. ints[f] = kernel[R(f)]  BY <1>7, <1>9, <3>1, IntsRead
    <3> HIDE DEF ints
    <3>4. device'.before = ints
      BY <1>8, <1>9, <2>2, <3>2 DEF ShareStarted, IsShare, ShareClasses, RuntimePmStarted, UsbStarted, AhciStarted,
         BacklightStarted, RfkillStarted, FanStarted, LightStarted, ints
    <3> QED  BY <3>3, <3>4
  <2> QED  BY <2>1, <2>2
<1>11. ASSUME ~IsLevels PROVE gone = {}
  <2>1. Class = "usb" \/ IsTimes  BY <1>11 DEF IsShare, ShareClasses, IsTimes, IsLevels
  <2>2. PICK f : f \in StartFiles(Class) /\ R(f) \in CounterKeys
    <3>1. CASE Class = "usb"
      <4>1. "active" \in StartFiles(Class)  BY <3>1, FilesOfShares DEF StartFiles
      <4> QED  BY <1>1, <3>1, <4>1, KeysOfTheClass
    <3>2. CASE Class = "runtime_pm"
      <4>1. "active" \in StartFiles(Class)  BY <3>2, FilesOfShares DEF StartFiles
      <4> QED  BY <1>1, <3>2, <4>1, KeysOfTheClass
    <3>3. CASE Class = "alsa"
      <4>1. "on" \in StartFiles(Class)  BY <3>3, FilesOfShares DEF StartFiles
      <4> QED  BY <1>1, <3>3, <4>1, KeysOfTheClass
    <3>4. CASE Class = "ahci"
      <4>1. "active" \in StartFiles(Class)  BY <3>4, FilesOfShares DEF StartFiles
      <4> QED  BY <1>1, <3>4, <4>1, KeysOfTheClass
    <3> QED  BY <2>1, <3>1, <3>2, <3>3, <3>4 DEF IsTimes
  <2>3. R(f) \in KernelKeys \ {Now, Powercap}
    <3>1. Class # "devfreq"  BY <2>1, KindsApart DEF OtherClasses
    <3>2. R(f) \in KernelKeys  BY <2>2, <3>1 DEF KernelKeys, FileKeys
    <3> QED  BY <1>1, <2>2, <3>2, KeysApart DEF Special
  <2>4. R(f) \notin gone  BY <1>7, <2>2
  <2> QED  BY <2>3, <2>4 DEF BaseOK, MachinesOK
<1> QED  BY <1>10, <1>11

\* Sequences of two and three.
LEMMA AppendTwo ==
  ASSUME NEW a, NEW b
  PROVE  Append(<<a>>, b) = <<a, b>>
<1> DEFINE S == {a, b}
<1>1. <<a>> \in Seq(S) /\ Len(<<a>>) = 1  OBVIOUS
<1> DEFINE s == Append(<<a>>, b)
           t == <<a, b>>
<1>2. s \in Seq(S) /\ Len(s) = 2 /\ s[1] = a /\ s[2] = b  BY <1>1
<1>3. t \in Seq(S) /\ Len(t) = 2 /\ t[1] = a /\ t[2] = b  OBVIOUS
<1> HIDE DEF s, t
<1>4. \A i \in 1..2 : s[i] = t[i]
  <2>1. \A i \in 1..2 : i = 1 \/ i = 2  OBVIOUS
  <2> QED  BY <1>2, <1>3, <2>1
<1>5. s = [i \in 1..2 |-> s[i]] /\ t = [i \in 1..2 |-> t[i]]  BY <1>2, <1>3
<1>6. s = t  BY <1>4, <1>5
<1> QED  BY <1>6 DEF s, t

LEMMA AppendThree ==
  ASSUME NEW a, NEW b, NEW c
  PROVE  Append(<<a, b>>, c) = <<a, b, c>>
<1> DEFINE S == {a, b, c}
<1>1. <<a, b>> \in Seq(S) /\ Len(<<a, b>>) = 2 /\ <<a, b>>[1] = a /\ <<a, b>>[2] = b  OBVIOUS
<1> DEFINE s == Append(<<a, b>>, c)
           t == <<a, b, c>>
<1>2. s \in Seq(S) /\ Len(s) = 3 /\ s[1] = a /\ s[2] = b /\ s[3] = c  BY <1>1
<1>3. t \in Seq(S) /\ Len(t) = 3 /\ t[1] = a /\ t[2] = b /\ t[3] = c  OBVIOUS
<1> HIDE DEF s, t
<1>4. \A i \in 1..3 : s[i] = t[i]
  <2>1. \A i \in 1..3 : i = 1 \/ i = 2 \/ i = 3  OBVIOUS
  <2> QED  BY <1>2, <1>3, <2>1
<1>5. s = [i \in 1..3 |-> s[i]] /\ t = [i \in 1..3 |-> t[i]]  BY <1>2, <1>3
<1>6. s = t  BY <1>4, <1>5
<1> QED  BY <1>6 DEF s, t
(***************************************************************************)
(* The states of a devfreq device.                                         *)
(***************************************************************************)
Lines == [freq : Int, time_before : Int, time_after : Int]

\* States that have a frequency each.
States == {s \in Seq(Lines) : \A i, j \in DOMAIN s : s[i].freq = s[j].freq => i = j}

Timed(s, i, time) == [s EXCEPT ![i].time_after = time]

LEMMA UpdateIs ==
  ASSUME NEW s \in States, NEW freq \in Int, NEW time \in Int
  PROVE  /\ UpdateState(s, freq, time) \in States
         /\ (\A i \in DOMAIN s : s[i].freq # freq) =>
              UpdateState(s, freq, time) = Append(s, [freq |-> freq, time_before |-> time, time_after |-> 0])
         /\ \A i \in DOMAIN s : s[i].freq = freq =>
              UpdateState(s, freq, time) = Timed(s, i, time)
<1>1. s \in Seq(Lines) /\ DOMAIN s = 1..Len(s) /\ \A i, j \in DOMAIN s : s[i].freq = s[j].freq => i = j
  BY DEF States
<1>2. CASE \A i \in DOMAIN s : s[i].freq # freq
  <2> DEFINE line == [freq |-> freq, time_before |-> time, time_after |-> 0]
             after == Append(s, line)
  <2>1. UpdateState(s, freq, time) = after  BY <1>2 DEF UpdateState, AddState
  <2>2. line \in Lines /\ line.freq = freq  BY DEF Lines
  <2> HIDE DEF line
  <2>3. after \in Seq(Lines) /\ Len(after) = Len(s) + 1 /\ after[Len(s) + 1] = line
        /\ \A i \in 1..Len(s) : after[i] = s[i]
    BY <1>1, <2>2
  <2>4. DOMAIN after = 1..(Len(s) + 1) /\ Len(s) \in Nat  BY <1>1, <2>3
  <2> HIDE DEF after
  <2>5. \A i, j \in DOMAIN after : after[i].freq = after[j].freq => i = j
    <3> SUFFICES ASSUME NEW i \in 1..(Len(s) + 1), NEW j \in 1..(Len(s) + 1), after[i].freq = after[j].freq
                 PROVE  i = j
      BY <2>4
    <3>1. i \in 1..Len(s) \/ i = Len(s) + 1  BY <2>4
    <3>2. j \in 1..Len(s) \/ j = Len(s) + 1  BY <2>4
    <3> QED  BY <1>1, <1>2, <2>2, <2>3, <3>1, <3>2
  <2> QED  BY <1>2, <2>1, <2>3, <2>5 DEF States, after, line
<1>3. ASSUME NEW i \in DOMAIN s, s[i].freq = freq
      PROVE  /\ UpdateState(s, freq, time) = Timed(s, i, time)
             /\ UpdateState(s, freq, time) \in States
  <2> DEFINE Here == {j \in 1..Len(s) : s[j].freq = freq}
             after == [s EXCEPT ![i].time_after = time]
  <2>1. Here = {i} /\ i \in Int  BY <1>1, <1>3
  <2>2. Min({i}) = i  BY <2>1 DEF Min
  <2>3. SelectInSeq(s, LAMBDA x : x.freq = freq) = i
    <3>1. SelectInSeq(s, LAMBDA x : x.freq = freq) = IF Here # {} THEN Min(Here) ELSE 0  BY DEF SelectInSeq
    <3> HIDE DEF Here
    <3> QED  BY <2>1, <2>2, <3>1
  <2>4. UpdateState(s, freq, time) = after  BY <1>3, <2>3 DEF UpdateState
  <2>5. DOMAIN after = DOMAIN s /\ Len(after) = Len(s)  BY <1>1
  <2>6. \A j \in DOMAIN s : after[j] \in Lines /\ after[j].freq = s[j].freq
    <3> TAKE j \in DOMAIN s
    <3>1. s[j] \in Lines  BY <1>1
    <3>2. after[j] = IF j = i THEN [s[j] EXCEPT !.time_after = time] ELSE s[j]  OBVIOUS
    <3> HIDE DEF after
    <3> QED  BY <3>1, <3>2 DEF Lines
  <2>7. after \in Seq(Lines)
    <3>1. after = [j \in 1..Len(s) |-> after[j]]  BY <1>1
    <3> HIDE DEF after
    <3> QED  BY <1>1, <2>6, <3>1
  <2> HIDE DEF after
  <2>8. after \in States  BY <1>1, <2>5, <2>6, <2>7 DEF States
  <2> QED  BY <2>4, <2>8 DEF after, Timed
<1> QED  BY <1>2, <1>3

LEMMA UpdateNew ==
  ASSUME NEW s \in States, NEW freq \in Int, NEW time \in Int, \A i \in DOMAIN s : s[i].freq # freq
  PROVE  UpdateState(s, freq, time) = Append(s, Line(freq, time, 0)) /\ UpdateState(s, freq, time) \in States
BY UpdateIs DEF Line

LEMMA UpdateOld ==
  ASSUME NEW s \in States, NEW i \in DOMAIN s, NEW freq \in Int, NEW time \in Int, s[i].freq = freq
  PROVE  /\ UpdateState(s, freq, time) = Timed(s, i, time)
         /\ UpdateState(s, freq, time) \in States
<1>1. UpdateState(s, freq, time) \in States  BY UpdateIs, Zenon
<1>2. \A j \in DOMAIN s : s[j].freq = freq => UpdateState(s, freq, time) = Timed(s, j, time)
  BY UpdateIs, Zenon
<1> QED  BY <1>1, <1>2

\* parse_trans_stat: the states after each line.
ParseLine(states, line) == IF line[1] = 0 THEN states ELSE UpdateState(states, line[1], line[2])

ParseKeeps(Accs, S) == \A a \in Accs : \A x \in S : ParseLine(a, x) \in Accs

LEMMA ParseRuns ==
  ASSUME NEW S, NEW content \in Seq(S), NEW Accs, NEW states \in Accs, content # Absent, ParseKeeps(Accs, S)
  PROVE  \E t \in [0..Len(content) -> Accs] :
           /\ t[0] = states /\ t[Len(content)] = ParseTransStat(states, content)
           /\ \A k \in 1..Len(content) : t[k] = ParseLine(t[k - 1], content[k])
<1> DEFINE f == [a \in Accs |-> [x \in S |-> ParseLine(a, x)]]
           Behind(g) == g = [s \in SUBSET DOMAIN content |->
                               IF s = {} THEN states ELSE ParseLine(g[s \ {Max(s)}], content[Max(s)])]
<1>0. DOMAIN content = 1..Len(content)  OBVIOUS
<1>1. \E g : Behind(g)
  <2>1. \A a \in Accs : \A x \in S : f[a][x] = ParseLine(a, x)  OBVIOUS
  <2> HIDE DEF f
  <2>2. \A a \in Accs : \A x \in S : f[a][x] \in Accs  BY <2>1 DEF ParseKeeps
  <2>3. PICK g : Folded(f, states, content, g) /\ \A s \in SUBSET DOMAIN content : g[s] \in Accs
    BY <2>2, LeftFold
  <2>4. ASSUME NEW s \in SUBSET DOMAIN content, s # {}
        PROVE  f[g[s \ {Max(s)}]][content[Max(s)]] = ParseLine(g[s \ {Max(s)}], content[Max(s)])
    <3>1. Max(s) \in s  BY <2>4, MaxIn
    <3>2. content[Max(s)] \in S /\ g[s \ {Max(s)}] \in Accs  BY <2>3, <3>1
    <3> QED  BY <2>1, <3>2
  <2>5. Behind(g)  BY <2>3, <2>4 DEF Folded
  <2> QED  BY <2>5
<1>2. PICK g : Behind(g) /\ ParseTransStat(states, content) = g[DOMAIN content]
  BY <1>1 DEF ParseTransStat, ParseLine, FoldLeft, MapThenFoldSet
<1>3. \A s \in SUBSET DOMAIN content :
        g[s] = IF s = {} THEN states ELSE ParseLine(g[s \ {Max(s)}], content[Max(s)])
  BY <1>2, Zenon
<1>4. ASSUME NEW s \in SUBSET DOMAIN content, s # {}, g[s \ {Max(s)}] \in Accs PROVE g[s] \in Accs
  <2>1. g[s] = ParseLine(g[s \ {Max(s)}], content[Max(s)])  BY <1>3, <1>4
  <2>2. content[Max(s)] \in S
    <3>1. Max(s) \in s  BY <1>4, MaxIn
    <3> QED  BY <3>1
  <2> QED  BY <1>4, <2>1, <2>2 DEF ParseKeeps
<1>5. g[{}] = states  BY <1>3
<1> HIDE DEF Behind, f
<1>6. PICK t \in [0..Len(content) -> Accs] : Course(g, t, Len(content))
  <2>1. g[{}] \in Accs  BY <1>5
  <2> QED  BY <1>4, <2>1, FoldCourse
<1>7. ASSUME NEW k \in 1..Len(content) PROVE t[k] = ParseLine(t[k - 1], content[k])
  <2>1. PICK s \in SUBSET (1..Len(content)) : s # {} /\ Max(s) = k /\ g[s] = t[k] /\ g[s \ {Max(s)}] = t[k - 1]
    BY <1>6, Zenon DEF Course
  <2>2. g[s] = ParseLine(g[s \ {Max(s)}], content[Max(s)])  BY <1>0, <1>3, <2>1
  <2> QED  BY <2>1, <2>2
<1>8. t[0] = states /\ t[Len(content)] = ParseTransStat(states, content)
  BY <1>0, <1>2, <1>5, <1>6 DEF Course
<1> QED  BY <1>7, <1>8

\* A file of two frequencies is parsed in two steps.
LEMMA ParseTwo ==
  ASSUME NEW low \in Nat, NEW high \in Nat, NEW states \in States, <<<<1, low>>, <<2, high>>>> # Absent
  PROVE  /\ UpdateState(states, 1, low) \in States
         /\ ParseTransStat(states, <<<<1, low>>, <<2, high>>>>) = UpdateState(UpdateState(states, 1, low), 2, high)
         /\ ParseTransStat(states, <<<<1, low>>, <<2, high>>>>) \in States
<1> DEFINE content == <<<<1, low>>, <<2, high>>>>
           S == {<<1, low>>, <<2, high>>}
<1>1. content \in Seq(S) /\ Len(content) = 2 /\ content[1] = <<1, low>> /\ content[2] = <<2, high>>  OBVIOUS
<1>2. \A a : ParseLine(a, <<1, low>>) = UpdateState(a, 1, low) /\ ParseLine(a, <<2, high>>) = UpdateState(a, 2, high)
  BY DEF ParseLine
<1>3. \A a \in States : UpdateState(a, 1, low) \in States /\ UpdateState(a, 2, high) \in States
  <2> TAKE a \in States
  <2>1. 1 \in Int /\ 2 \in Int /\ low \in Int /\ high \in Int  OBVIOUS
  <2> QED  BY <2>1, UpdateIs, Zenon
<1>4. \A a \in States : \A x \in S : ParseLine(a, x) \in States  BY <1>2, <1>3
<1> HIDE DEF content, S
<1>5. PICK t \in [0..Len(content) -> States] :
        /\ t[0] = states /\ t[Len(content)] = ParseTransStat(states, content)
        /\ \A k \in 1..Len(content) : t[k] = ParseLine(t[k - 1], content[k])
  <2>1. content # Absent  BY DEF content
  <2>2. content \in Seq(S)  BY <1>1
  <2>3. ParseKeeps(States, S)  BY <1>4 DEF ParseKeeps
  <2> QED  BY <2>1, <2>2, <2>3, ParseRuns
<1>6. t[1] = ParseLine(t[0], content[1]) /\ t[2] = ParseLine(t[1], content[2])
  <2>1. 1 \in 1..Len(content) /\ 2 \in 1..Len(content) /\ 1 - 1 = 0 /\ 2 - 1 = 1  BY <1>1
  <2>2. t[1] = ParseLine(t[1 - 1], content[1]) /\ t[2] = ParseLine(t[2 - 1], content[2])
    BY <1>5, <2>1, Zenon
  <2> QED  BY <2>1, <2>2
<1>7. ParseTransStat(states, content) = UpdateState(UpdateState(states, 1, low), 2, high)
  BY <1>1, <1>2, <1>5, <1>6
<1> QED  BY <1>3, <1>7 DEF content

\* The states when a measurement starts.
LEMMA StatesAtStart ==
  ASSUME NEW low \in Nat, NEW high \in Nat, <<<<1, low>>, <<2, high>>>> # Absent
  PROVE  UpdateState(ParseTransStat(<<>>, <<<<1, low>>, <<2, high>>>>), Idle, 0) =
           <<Line(1, low, 0), Line(2, high, 0), Line(Idle, 0, 0)>>
<1> DEFINE one == <<Line(1, low, 0)>>
           two == <<Line(1, low, 0), Line(2, high, 0)>>
           three == <<Line(1, low, 0), Line(2, high, 0), Line(Idle, 0, 0)>>
<1>1. <<>> \in States /\ \A i \in DOMAIN <<>> : <<>>[i].freq # 1  BY DEF States
<1>2. \A freq, time : Line(freq, time, 0) = [freq |-> freq, time_before |-> time, time_after |-> 0]
  BY DEF Line
<1>3. /\ Append(<<>>, Line(1, low, 0)) = one
      /\ Append(one, Line(2, high, 0)) = two
      /\ Append(two, Line(Idle, 0, 0)) = three
  <2> DEFINE a == Line(1, low, 0)
             b == Line(2, high, 0)
             c == Line(Idle, 0, 0)
  <2> HIDE DEF a, b, c
  <2>1. Append(<<>>, a) = <<a>>  OBVIOUS
  <2>2. Append(<<a>>, b) = <<a, b>>  BY AppendTwo, Zenon
  <2>3. Append(<<a, b>>, c) = <<a, b, c>>  BY AppendThree, Zenon
  <2> QED  BY <2>1, <2>2, <2>3 DEF a, b, c
<1>4. UpdateState(<<>>, 1, low) = one /\ one \in States  BY <1>1, <1>3, UpdateNew
<1>5. \A i \in DOMAIN one : one[i].freq # 2  BY DEF Line
<1>6. UpdateState(one, 2, high) = two /\ two \in States
  <2> HIDE DEF one, two
  <2>1. one \in States /\ 2 \in Int /\ high \in Int  BY <1>4
  <2>2. UpdateState(one, 2, high) = Append(one, Line(2, high, 0)) /\ UpdateState(one, 2, high) \in States
    BY <1>5, <2>1, UpdateNew, Zenon
  <2> QED  BY <1>3, <2>2
<1>7. \A i \in DOMAIN two : two[i].freq # Idle  BY DEF Line, Idle
<1>8. UpdateState(two, Idle, 0) = three
  <2> HIDE DEF two, three
  <2>1. two \in States /\ Idle \in Int /\ 0 \in Int  BY <1>6 DEF Idle
  <2>2. UpdateState(two, Idle, 0) = Append(two, Line(Idle, 0, 0))  BY <1>7, <2>1, UpdateNew, Zenon
  <2> QED  BY <1>3, <2>2
<1>9. ParseTransStat(<<>>, <<<<1, low>>, <<2, high>>>>) = UpdateState(UpdateState(<<>>, 1, low), 2, high)
  BY <1>1, ParseTwo
<1> HIDE DEF one, two
<1> QED  BY <1>4, <1>6, <1>8, <1>9

\* The states when it ends: their times are new.
LEMMA StatesAtEnd ==
  ASSUME NEW low \in Nat, NEW high \in Nat, NEW lower \in Nat, NEW higher \in Nat,
         <<<<1, low>>, <<2, high>>>> # Absent
  PROVE  ParseTransStat(<<Line(1, lower, 0), Line(2, higher, 0), Line(Idle, 0, 0)>>, <<<<1, low>>, <<2, high>>>>) =
           <<Line(1, lower, low), Line(2, higher, high), Line(Idle, 0, 0)>>
<1> DEFINE old == <<Line(1, lower, 0), Line(2, higher, 0), Line(Idle, 0, 0)>>
           half == <<Line(1, lower, low), Line(2, higher, 0), Line(Idle, 0, 0)>>
           new == <<Line(1, lower, low), Line(2, higher, high), Line(Idle, 0, 0)>>
<1>0. Idle = 0  BY DEF Idle
<1>1. \A freq, before, after \in Int : Line(freq, before, after) \in Lines /\ Line(freq, before, after).freq = freq
  BY DEF Line, Lines
<1>2. old \in States
  <2>1. old \in Seq(Lines)  BY <1>0, <1>1
  <2>2. DOMAIN old = 1..3 /\ old[1].freq = 1 /\ old[2].freq = 2 /\ old[3].freq = 0  BY <1>0, <1>1
  <2> HIDE DEF old
  <2>3. \A i \in 1..3 : i = 1 \/ i = 2 \/ i = 3  OBVIOUS
  <2> QED  BY <2>1, <2>2, <2>3 DEF States
<1>3. 1 \in DOMAIN old /\ old[1].freq = 1  BY <1>1
<1>4. Timed(old, 1, low) = half  BY DEF Line, Timed
<1>5. UpdateState(old, 1, low) = half /\ half \in States
  <2> HIDE DEF old, half
  <2>0. 1 \in Int /\ low \in Int  OBVIOUS
  <2>1. UpdateState(old, 1, low) = Timed(old, 1, low)  BY <1>2, <1>3, <2>0, UpdateOld, Zenon
  <2>2. UpdateState(old, 1, low) \in States  BY <1>2, <1>3, <2>0, UpdateOld, Zenon
  <2> QED  BY <1>4, <2>1, <2>2
<1>6. 2 \in DOMAIN half /\ half[2].freq = 2  BY <1>1
<1>7. Timed(half, 2, high) = new  BY DEF Line, Timed
<1>8. UpdateState(half, 2, high) = new
  <2> HIDE DEF half, new
  <2>0. 2 \in Int /\ high \in Int  OBVIOUS
  <2>1. UpdateState(half, 2, high) = Timed(half, 2, high)
    BY <1>5, <1>6, <2>0, UpdateOld, Zenon
  <2> QED  BY <1>7, <2>1
<1> HIDE DEF old, half, new
<1>9. ParseTransStat(old, <<<<1, low>>, <<2, high>>>>) = UpdateState(UpdateState(old, 1, low), 2, high)
  BY <1>2, ParseTwo
<1>10. ParseTransStat(old, <<<<1, low>>, <<2, high>>>>) = new  BY <1>5, <1>8, <1>9
<1> QED  BY <1>10 DEF old, new



\* The devices that are no shares start with what they read.
LEMMA OthersStart ==
  ASSUME BaseOK, StartMeasurement, whole', ~IsShare
  PROVE  \E got : /\ device' = DeviceStarted(device, got)
                  /\ \A k \in DOMAIN DeviceStartReads :
                       got[k] = kernel[k] /\ k \notin gone /\ kernel[k] # Absent
<1>1. Class # "usb"  BY DEF IsShare, ShareClasses
<1> DEFINE got == Got(StartReads)
<1>2. /\ device' = DeviceStarted(AtStart(got), got)
      /\ \A k \in DOMAIN DeviceStartReads : got[k] = kernel[k] /\ k \notin gone /\ kernel[k] # Absent
      /\ AtStart(got) = device
  BY <1>1, StartIs
<1> QED  BY <1>2

LEMMA CounterRead ==
  ASSUME BaseOK, NEW k \in FileKeys, k \notin gone
  PROVE  gone = {}
<1>1. unit \in Units  BY DEF BaseOK, PhasesOK
<1>2. k \in KernelKeys \ {Now, Powercap}  BY <1>1, FilesApart DEF KernelKeys
<1> QED  BY <1>2 DEF BaseOK, MachinesOK

LEMMA RaplHolds ==
  ASSUME BaseOK, RaplOK, StartMeasurement, whole', IsRapl, device'.valid
  PROVE  device'.last_energy = Count(kernel, EnergyCounter) % EnergyRange /\ device'.last_time = kernel[Now]
<1>1. ~IsShare /\ Class \notin {"xe_energy", "nic"} \cup OtherClasses  BY DEF IsRapl, IsShare, ShareClasses, OtherClasses
<1>2. PICK got : /\ device' = DeviceStarted(device, got)
                 /\ \A k \in DOMAIN DeviceStartReads : got[k] = kernel[k] /\ kernel[k] # Absent
  BY <1>1, OthersStart
<1>3. device' = IF device.valid THEN RaplStarted(device, Model, got) ELSE device
  BY <1>1, <1>2 DEF DeviceStarted, OtherClasses
<1>4. mode = "recording" /\ phase # "new"  BY DEF StartMeasurement, MayStart
<1>5. DOMAIN device = RaplFields  BY <1>4 DEF RaplOK
<1>6. device.valid
  <2>1. CASE ~device.valid  BY <1>3, <2>1
  <2> QED  BY <2>1
<1>7. EnergyKey(device.rapl, Model) = EnergyCounter  BY <1>4, <1>6 DEF RaplOK
<1>8. DOMAIN DeviceStartReads = {Now, EnergyCounter}
  <2>1. DeviceStartReads = Once({Now, EnergyCounter})  BY <1>1, <1>6, <1>7 DEF DeviceStartReads, OtherClasses
  <2> QED  BY <2>1, OnceIs, Zenon
<1>9. got[Now] = kernel[Now] /\ got[EnergyCounter] = kernel[EnergyCounter] /\ kernel[EnergyCounter] # Absent
  BY <1>2, <1>8
<1>10. EnergyStatus(got[EnergyCounter], device.last_energy) = kernel[EnergyCounter] % EnergyRange
  BY <1>9 DEF EnergyStatus
<1>11. device'.last_time = got[Now] /\ device'.last_energy = EnergyStatus(got[EnergyCounter], device.last_energy)
  BY <1>3, <1>5, <1>6, <1>7 DEF RaplStarted, RaplFields
<1>12. Count(kernel, EnergyCounter) = kernel[EnergyCounter]  BY <1>1 DEF Count, OtherClasses
<1> QED  BY <1>9, <1>10, <1>11, <1>12

LEMMA XeHolds ==
  ASSUME BaseOK, ShapeOK, StartMeasurement, whole', Class = "xe_energy", device'.energy_path
  PROVE  device'.last_energy = Count(kernel, EnergyCounter) /\ device'.last_time = kernel[Now]
<1>1. ~IsShare /\ ~IsRapl  BY DEF IsRapl, IsShare, ShareClasses
<1>2. PICK got : /\ device' = DeviceStarted(device, got)
                 /\ \A k \in DOMAIN DeviceStartReads : got[k] = kernel[k] /\ kernel[k] # Absent
  BY <1>1, OthersStart
<1>3. device' = XeStarted(device, got)  BY <1>1, <1>2 DEF DeviceStarted
<1>4. DOMAIN device = XeFields
  <2>1. mode = "recording"  BY DEF StartMeasurement
  <2> QED  BY <2>1 DEF ShapeOK
<1>5. device.energy_path
  <2>1. CASE ~device.energy_path  BY <1>3, <2>1 DEF XeStarted
  <2> QED  BY <2>1
<1>6. device'.last_energy = ReadUint64(got[Channel]) /\ device'.last_time = got[Now]
  BY <1>3, <1>4, <1>5 DEF XeStarted, XeFields
<1>7. DOMAIN DeviceStartReads = {Now, Channel}
  <2>1. DeviceStartReads = Once({Now, Channel})  BY <1>1, <1>5 DEF DeviceStartReads, XeStartReads
  <2> QED  BY <2>1, OnceIs, Zenon
<1>8. Count(kernel, EnergyCounter) = kernel[Channel]  BY EnergyCounterIs DEF Count
<1> QED  BY <1>2, <1>6, <1>7, <1>8 DEF ReadUint64

\* The answers of a card that is there.
LEMMA NicAnswers ==
  ASSUME unit \in Units, Class = "nic", MachineOK(kernel), gone = {}
  PROVE  /\ get_iface_up = kernel[I("up")] /\ get_iface_speed = SpeedAt(kernel)
         /\ get_wifi_power_saving = kernel[I("saving")]
<1> DEFINE names == {"link", "speed", "up", "saving"}
<1>1. \A f \in names : I(f) \in LevelKeys /\ I(f)[2] = f  BY KeysOfClass, KeyNames
<1>2. \A f \in names : kernel[I(f)] \in Level(f)  BY <1>1 DEF MachineOK
<1>3. \A f \in names : Level(f) \subseteq Nat  BY DEF Level
<1>4. Absent \notin Nat  BY FrameworkAssumption
<1>5. \A f \in names : Content(I(f)) = kernel[I(f)] /\ kernel[I(f)] # Absent
  BY <1>2, <1>3, <1>4 DEF Content
<1>6. \A f \in names : Answer(f) = kernel[I(f)]  BY <1>5 DEF Answer
<1>7. kernel[I("speed")] # NoSpeed
  <2>1. Level("speed") \subseteq {10, 2500, 300}  BY DEF Level
  <2> QED  BY <1>2, <2>1 DEF NoSpeed
<1> HIDE DEF names
<1>8. "link" \in names /\ "speed" \in names /\ "up" \in names /\ "saving" \in names  BY DEF names
<1> QED  BY <1>5, <1>6, <1>7, <1>8 DEF get_iface_up, get_iface_speed, get_wifi_power_saving, SpeedAt

LEMMA NicHolds ==
  ASSUME BaseOK, ShapeOK, StartMeasurement, whole', Class = "nic"
  PROVE  /\ device'.before = kernel[Now] /\ device'.start_up = kernel[I("up")]
         /\ device'.start_speed = SpeedAt(kernel) /\ gone = {}
<1>1. ~IsShare /\ ~IsRapl  BY DEF IsRapl, IsShare, ShareClasses
<1>2. PICK got : /\ device' = DeviceStarted(device, got)
                 /\ \A k \in DOMAIN DeviceStartReads : got[k] = kernel[k] /\ kernel[k] # Absent
  BY <1>1, OthersStart
<1>3. gone = {} /\ mode = "recording"  BY StartIs
<1>4. NicShape(device)  BY <1>3 DEF ShapeOK
<1> DEFINE read == DoProcNetDev(device, got, kernel[Now])
<1>5. DOMAIN read = NicFields  BY <1>4 DEF DoProcNetDev, NicShape, NicFields
<1>6. device' = [read EXCEPT !.start_pkts = read.pkts, !.before = got[<<"T", "now">>],
                  !.start_up = get_iface_up, !.end_up = 1,
                  !.start_speed = get_iface_speed, !.end_speed = 0]
  BY <1>1, <1>2 DEF DeviceStarted, NicStarted
<1> HIDE DEF read
<1>7. device'.before = got[<<"T", "now">>] /\ device'.start_up = get_iface_up /\ device'.start_speed = get_iface_speed
  BY <1>5, <1>6 DEF NicFields
<1>8. Now \in DOMAIN DeviceStartReads
  <2>1. DeviceStartReads = NicReads(device, kernel[Now])  BY <1>1 DEF DeviceStartReads
  <2>2. DOMAIN NicReads(device, kernel[Now]) =
          {<<"T", "now">>} \cup IF SecondOf(kernel[Now]) = device.last_time THEN {} ELSE {Packets}
    BY OnceIs DEF NicReads
  <2> QED  BY <2>1, <2>2 DEF Now
<1>9. unit \in Units /\ MachineOK(kernel)  BY DEF BaseOK, PhasesOK, MachinesOK
<1> QED  BY <1>2, <1>3, <1>7, <1>8, <1>9, NicAnswers DEF Now

LEMMA DevfreqHolds ==
  ASSUME BaseOK, StartMeasurement, whole', Class = "devfreq"
  PROVE  /\ DOMAIN device' = {"dstates", "stamp_before", "sample_time"}
         /\ device'.stamp_before = kernel[Now]
         /\ device'.dstates = <<Line(1, Count(kernel, R("low")), 0), Line(2, Count(kernel, R("high")), 0),
                                Line(Idle, 0, 0)>>
         /\ gone = {}
<1>1. ~IsShare /\ ~IsRapl  BY DEF IsRapl, IsShare, ShareClasses
<1>2. PICK got : /\ device' = DeviceStarted(device, got)
                 /\ \A k \in DOMAIN DeviceStartReads : got[k] = kernel[k] /\ k \notin gone /\ kernel[k] # Absent
  BY <1>1, OthersStart
<1>3. DOMAIN DeviceStartReads = {Now, TransStat}
  <2>1. DeviceStartReads = Once({Now, TransStat})  BY <1>1 DEF DeviceStartReads
  <2> QED  BY <2>1, OnceIs, Zenon
<1>4. device' = [dstates |-> UpdateState(ParseTransStat(<<>>, got[TransStat]), Idle, 0),
                 stamp_before |-> got[Now], sample_time |-> 0]
  BY <1>1, <1>2 DEF DeviceStarted, DevfreqStarted, Now
<1>5. unit \in Units /\ MachineOK(kernel)  BY DEF BaseOK, PhasesOK, MachinesOK
<1> DEFINE low == Count(kernel, R("low"))
           high == Count(kernel, R("high"))
<1>6. low \in Nat /\ high \in Nat  BY <1>5, KeysOfTheClass DEF MachineOK
<1>7. kernel[TransStat] = <<<<1, low>>, <<2, high>>>>  BY <1>5 DEF MachineOK
<1>8. got[TransStat] = kernel[TransStat] /\ kernel[TransStat] # Absent /\ got[Now] = kernel[Now] /\ TransStat \notin gone
  BY <1>2, <1>3
<1>9. gone = {}  BY <1>8, CounterRead DEF FileKeys
<1> HIDE DEF low, high
<1>10. UpdateState(ParseTransStat(<<>>, got[TransStat]), Idle, 0) =
         <<Line(1, low, 0), Line(2, high, 0), Line(Idle, 0, 0)>>
  <2>1. <<<<1, low>>, <<2, high>>>> # Absent  BY <1>7, <1>8
  <2>2. UpdateState(ParseTransStat(<<>>, <<<<1, low>>, <<2, high>>>>), Idle, 0) =
          <<Line(1, low, 0), Line(2, high, 0), Line(Idle, 0, 0)>>
    BY <1>6, <2>1, StatesAtStart, Zenon
  <2> QED  BY <1>7, <1>8, <2>2
<1> QED  BY <1>4, <1>8, <1>9, <1>10 DEF low, high

LEMMA UnitHolds ==
  ASSUME BaseOK, StartMeasurement, whole', Class \in {"core", "package"}
  PROVE  /\ DOMAIN device' = {"before", "tsc_before", "stamp_before", "durations", "time_factor"}
         /\ device'.stamp_before = kernel[Now] /\ device'.tsc_before = kernel[Tsc]
         /\ device'.before = [s \in StatesOf(Class, Model) |-> kernel[Register(Class, Model, s)]]
<1>1. ~IsShare /\ ~IsRapl  BY DEF IsRapl, IsShare, ShareClasses
<1>2. PICK got : /\ device' = DeviceStarted(device, got)
                 /\ \A k \in DOMAIN DeviceStartReads : got[k] = kernel[k]
  BY <1>1, OthersStart
<1>3. device' = UnitStarted(Class, Model, got)  BY <1>1, <1>2 DEF DeviceStarted
<1>4. DOMAIN DeviceStartReads = {Tsc, TheTime} \cup {Register(Class, Model, s) : s \in StatesOf(Class, Model)}
  <2>1. DeviceStartReads = UnitReads(Class, Model)  BY <1>1 DEF DeviceStartReads
  <2> QED  BY <2>1, OnceIs DEF UnitReads
<1>5. /\ DOMAIN device' = {"before", "tsc_before", "stamp_before", "durations", "time_factor"}
      /\ device'.stamp_before = got[TheTime] /\ device'.tsc_before = got[Tsc]
      /\ device'.before = Counters(Class, Model, got)
  BY <1>3 DEF UnitStarted, NewUnit
<1>6. \A s \in StatesOf(Class, Model) : got[Register(Class, Model, s)] = kernel[Register(Class, Model, s)]
  BY <1>2, <1>4
<1>7. Counters(Class, Model, got) = [s \in StatesOf(Class, Model) |-> kernel[Register(Class, Model, s)]]
  BY <1>6 DEF Counters
<1>8. got[TheTime] = kernel[Now] /\ got[Tsc] = kernel[Tsc]  BY <1>2, <1>4, KeysAre
<1> QED  BY <1>5, <1>7, <1>8

LEMMA CpuHolds ==
  ASSUME BaseOK, StartMeasurement, whole', Class = "cpu"
  PROVE  DOMAIN device' = {"before", "after"} /\ \A k \in {Tsc, Aperf, Mperf, Now} : device'.before[k] = kernel[k]
<1>1. ~IsShare /\ ~IsRapl  BY DEF IsRapl, IsShare, ShareClasses
<1>2. PICK got : /\ device' = DeviceStarted(device, got)
                 /\ \A k \in DOMAIN DeviceStartReads : got[k] = kernel[k]
  BY <1>1, OthersStart
<1>3. device' = CpuStarted(got)  BY <1>1, <1>2 DEF DeviceStarted
<1>4. DOMAIN DeviceStartReads = {Aperf, Mperf, Tsc, Now}
  <2>1. DeviceStartReads = CpuReads  BY <1>1 DEF DeviceStartReads
  <2> QED  BY <2>1, OnceIs, KeysAre DEF CpuReads
<1>5. DOMAIN device' = {"before", "after"} /\ device'.before = got  BY <1>3 DEF CpuStarted, NewCpu
<1> QED  BY <1>2, <1>4, <1>5

LEMMA GpuHolds ==
  ASSUME BaseOK, ShapeOK, StartMeasurement, whole', Class \in {"rc6", "xe_gts"}
  PROVE  LET names == IF Class = "rc6" THEN Rc6States ELSE Gts
         IN /\ device'.began = kernel[Now] /\ \A s \in names : device'.before[s] = kernel[R(s)]
            /\ gone = {}
<1> DEFINE names == IF Class = "rc6" THEN Rc6States ELSE Gts
<1>1. ~IsShare /\ ~IsRapl  BY DEF IsRapl, IsShare, ShareClasses
<1>2. PICK got : /\ device' = DeviceStarted(device, got)
                 /\ \A k \in DOMAIN DeviceStartReads : got[k] = kernel[k] /\ k \notin gone /\ kernel[k] # Absent
  BY <1>1, OthersStart
<1>3. device' = GpuStarted(device, names, got)  BY <1>1, <1>2 DEF DeviceStarted
<1>4. DeviceStartReads = Once({TheTime} \cup {R(s) : s \in names})
  BY <1>1 DEF DeviceStartReads, Rc6Reads, XeReads, R
<1>5. CounterKeys = {R(s) : s \in names}
  <2>1. unit \in Units  BY DEF BaseOK, PhasesOK
  <2> QED  BY <2>1, KeysOfClass
<1>6. \E s \in names : TRUE  BY DEF Rc6States, Gts
<1> HIDE DEF names
<1>7. DOMAIN DeviceStartReads = {TheTime} \cup {R(s) : s \in names}  BY <1>4, OnceIs, Zenon
<1>8. DOMAIN device = GpuFields
  <2>1. mode = "recording"  BY DEF StartMeasurement
  <2> QED  BY <2>1 DEF ShapeOK
<1>9. device'.began = got[TheTime] /\ device'.before = Milliseconds(names, got)
  BY <1>3, <1>8 DEF GpuStarted, GpuFields
<1>10. ASSUME NEW s \in names PROVE device'.before[s] = kernel[R(s)] /\ R(s) \notin gone
  <2>1. got[R(s)] = kernel[R(s)] /\ kernel[R(s)] # Absent /\ R(s) \notin gone  BY <1>2, <1>7
  <2>2. Milliseconds(names, got)[s] = ReadUint64(got[R(s)])  BY DEF Milliseconds, R
  <2> QED  BY <1>9, <2>1, <2>2 DEF ReadUint64
<1>11. gone = {}
  <2>1. PICK s \in names : TRUE  BY <1>6
  <2>2. R(s) \in FileKeys /\ R(s) \notin gone  BY <1>5, <1>10 DEF FileKeys
  <2> QED  BY <2>2, CounterRead
<1>12. got[TheTime] = kernel[Now]  BY <1>2, <1>7, KeysAre
<1> QED  BY <1>9, <1>10, <1>11, <1>12 DEF names

(***************************************************************************)
(* What the device holds stays until its measurement ends.                 *)
(***************************************************************************)
LEMMA StartHeld == BaseOK /\ ShapeOK /\ RaplOK /\ StartMeasurement => HeldOK'
<1> SUFFICES ASSUME BaseOK, ShapeOK, RaplOK, StartMeasurement, whole' PROVE HeldOK'  BY DEF HeldOK
<1>1. /\ UNCHANGED <<unit, mode, kernel, gone>>
      /\ began' = kernel /\ spent' = Nothing
  BY DEF StartMeasurement
<1>2. present' /\ mode = "recording"  BY StartIs
<1>3. /\ Class' = Class /\ Model' = Model /\ IsShare' = IsShare /\ IsRapl' = IsRapl /\ IsLevels' = IsLevels
      /\ EnergyCounter' = EnergyCounter /\ CounterKeys' = CounterKeys /\ KeepsCounters' = KeepsCounters
  BY <1>1, UnitKept
<1>4. unit \in Units /\ MachineOK(kernel)  BY DEF BaseOK, PhasesOK, MachinesOK
<1>5. \A k \in CounterKeys' : Count(kernel, k)' = Count(began, k)' + spent'[k]
  <2>1. \A k \in CounterKeys : spent'[k] = 0  BY <1>1, <1>4, NothingIs
  <2>2. \A k \in CounterKeys : Count(kernel, k) \in Nat  BY <1>4 DEF MachineOK
  <2>3. \A k : Count(kernel, k)' = Count(kernel, k) /\ Count(began, k)' = Count(kernel, k)
    BY <1>1, <1>3 DEF Count
  <2> QED  BY <1>3, <2>1, <2>2, <2>3
<1>6. gone # {} => IsLevels \/ KeepsCounters
  <2>1. IsShare \/ IsRapl \/ Class \in {"xe_energy", "nic"} \cup OtherClasses
    BY <1>4, KindsOfUnits DEF Classes, OtherClasses, IsShare, IsRapl
  <2>2. CASE IsShare  BY <2>2, <1>2, ShareHolds
  <2>3. CASE IsRapl \/ Class = "xe_energy" \/ Class \in {"core", "package", "cpu"}
    BY <2>3 DEF KeepsCounters, IsIntel
  <2>4. CASE Class \in {"nic", "devfreq", "rc6", "xe_gts"}  BY <2>4, NicHolds, DevfreqHolds, GpuHolds
  <2> QED  BY <2>1, <2>2, <2>3, <2>4 DEF OtherClasses
<1>7. IsShare => \A f \in StartFiles(Class) : device'.before[f] = kernel[R(f)]  BY ShareHolds
<1>8. IsRapl /\ device'.valid =>
       device'.last_energy = Count(kernel, EnergyCounter) % EnergyRange /\ device'.last_time = kernel[Now]
  BY RaplHolds
<1>9. Class = "xe_energy" /\ device'.energy_path =>
       device'.last_energy = Count(kernel, EnergyCounter) /\ device'.last_time = kernel[Now]
  BY XeHolds
<1>10. Class = "nic" => /\ device'.before = kernel[Now] /\ device'.start_up = kernel[I("up")]
                        /\ device'.start_speed = SpeedAt(kernel)
  BY NicHolds
<1>11. Class = "devfreq" =>
       /\ DOMAIN device' = {"dstates", "stamp_before", "sample_time"}
       /\ device'.stamp_before = kernel[Now]
       /\ device'.dstates = <<Line(1, Count(kernel, R("low")), 0), Line(2, Count(kernel, R("high")), 0),
                             Line(Idle, 0, 0)>>
  BY DevfreqHolds
<1>12. Class \in {"core", "package"} =>
       /\ DOMAIN device' = {"before", "tsc_before", "stamp_before", "durations", "time_factor"}
       /\ device'.stamp_before = kernel[Now] /\ device'.tsc_before = kernel[Tsc]
       /\ device'.before = [s \in StatesOf(Class, Model) |-> kernel[Register(Class, Model, s)]]
  BY UnitHolds
<1>13. Class = "cpu" =>
       /\ DOMAIN device' = {"before", "after"}
       /\ \A k \in {Tsc, Aperf, Mperf, Now} : device'.before[k] = kernel[k]
  BY CpuHolds
<1>14. Class = "rc6" =>
       device'.began = kernel[Now] /\ \A s \in Rc6States : device'.before[s] = kernel[R(s)]
  BY GpuHolds
<1>15. Class = "xe_gts" =>
       device'.began = kernel[Now] /\ \A g \in Gts : device'.before[g] = kernel[R(g)]
  BY GpuHolds
<1> DEFINE m == kernel
           d == device'
           c == Class
           o == Model
           e == EnergyCounter
<1>16. Held'
  <2>1. /\ Class' = c /\ Model' = o /\ device' = d /\ began' = m /\ EnergyCounter' = e
        /\ IsShare' = IsShare /\ IsRapl' = IsRapl
    BY <1>1, <1>3
  <2>2. \A k : Count(began, k)' = Count(m, k) /\ SpeedAt(began)' = SpeedAt(m)
    BY <1>1, <1>3 DEF Count, SpeedAt
  <2> HIDE DEF m, d, c, o, e
  <2>3. IsShare' => \A f \in StartFiles(Class') : device'.before[f] = began'[R(f)]
    BY <1>7, <2>1 DEF d, m, c
  <2>4. IsRapl' /\ device'.valid =>
          device'.last_energy = Count(began, EnergyCounter)' % EnergyRange /\ device'.last_time = began'[Now]
    BY <1>1, <1>3, <1>8 DEF Count
  <2>5. Class' = "xe_energy" /\ device'.energy_path =>
          device'.last_energy = Count(began, EnergyCounter)' /\ device'.last_time = began'[Now]
    BY <1>1, <1>3, <1>9 DEF Count
  <2>6. Class' = "nic" => /\ device'.before = began'[Now] /\ device'.start_up = began'[I("up")]
                          /\ device'.start_speed = SpeedAt(began)'
    BY <1>1, <1>3, <1>10 DEF SpeedAt
  <2>7. Class' = "devfreq" =>
       /\ DOMAIN device' = {"dstates", "stamp_before", "sample_time"}
       /\ device'.stamp_before = began'[Now]
       /\ device'.dstates = <<Line(1, Count(began, R("low"))', 0), Line(2, Count(began, R("high"))', 0),
                             Line(Idle, 0, 0)>>
    BY <1>1, <1>3, <1>11, <2>2 DEF m
  <2>8. Class' \in {"core", "package"} =>
       /\ DOMAIN device' = {"before", "tsc_before", "stamp_before", "durations", "time_factor"}
       /\ device'.stamp_before = began'[Now] /\ device'.tsc_before = began'[Tsc]
       /\ device'.before = [s \in StatesOf(Class', Model') |-> began'[Register(Class', Model', s)]]
    BY <1>1, <1>3, <1>12
  <2>9. Class' = "cpu" =>
       /\ DOMAIN device' = {"before", "after"}
       /\ \A k \in {Tsc, Aperf, Mperf, Now} : device'.before[k] = began'[k]
    BY <1>1, <1>3, <1>13
  <2>10. Class' = "rc6" =>
       device'.began = began'[Now] /\ \A s \in Rc6States : device'.before[s] = began'[R(s)]
    BY <1>1, <1>3, <1>14
  <2>11. Class' = "xe_gts" =>
       device'.began = began'[Now] /\ \A g \in Gts : device'.before[g] = began'[R(g)]
    BY <1>1, <1>3, <1>15
  <2> QED  BY <2>3, <2>4, <2>5, <2>6, <2>7, <2>8, <2>9, <2>10, <2>11 DEF Held
<1> QED  BY <1>1, <1>2, <1>3, <1>5, <1>6, <1>16 DEF HeldOK

LEMMA HeldSame ==
  ASSUME UNCHANGED <<unit, device, began>>
  PROVE  Held => Held'
<1>1. /\ Class' = Class /\ Model' = Model /\ IsShare' = IsShare /\ IsRapl' = IsRapl
      /\ EnergyCounter' = EnergyCounter
  BY UnitKept
<1>2. \A k : Count(began, k)' = Count(began, k)  BY <1>1 DEF Count
<1>3. SpeedAt(began)' = SpeedAt(began)  BY DEF SpeedAt
<1> QED  BY <1>1, <1>2, <1>3 DEF Held

\* The machine works: what its counters show is counted.
LEMMA HeldTick == BaseOK /\ HeldOK /\ Tick => HeldOK'
<1> SUFFICES ASSUME BaseOK, HeldOK, Tick, mode = "recording", phase = "started", whole PROVE HeldOK'
  BY DEF HeldOK, Tick
<1>1. UNCHANGED <<unit, phase, present, device, mode, gone, whole, began>>  BY DEF Tick
<1>2. /\ CounterKeys' = CounterKeys /\ IsLevels' = IsLevels /\ KeepsCounters' = KeepsCounters /\ Class' = Class
  BY <1>1, UnitKept
<1>3. /\ present /\ Held /\ (gone # {} => IsLevels \/ KeepsCounters)
      /\ \A k \in CounterKeys : Count(kernel, k) = Count(began, k) + spent[k]
  BY DEF HeldOK
<1>4. unit \in Units /\ MachineOK(kernel) /\ MachineOK(began) /\ SpentOK
  BY DEF BaseOK, PhasesOK, MachinesOK
<1>5. PICK activity \in Activities :
        /\ AddedOK(activity)
        /\ \A k \in CounterKeys : /\ Count(kernel', k) = Count(kernel, k) + Added(activity, k)
                                 /\ spent'[k] = spent[k] + Added(activity, k)
  BY <1>4, TickIs
<1>6. ASSUME NEW k \in CounterKeys PROVE Count(kernel', k) = Count(began, k) + spent'[k]
  <2>1. Count(began, k) \in Nat /\ spent[k] \in Nat /\ Added(activity, k) \in Nat
    BY <1>4, <1>5 DEF MachineOK, SpentOK, AddedOK
  <2>2. Count(kernel', k) = Count(kernel, k) + Added(activity, k) /\ spent'[k] = spent[k] + Added(activity, k)
    BY <1>5
  <2>3. Count(kernel, k) = Count(began, k) + spent[k]  BY <1>3
  <2> QED  BY <2>1, <2>2, <2>3
<1>7. \A k : Count(kernel, k)' = Count(kernel', k) /\ Count(began, k)' = Count(began, k)
  BY <1>1, <1>2 DEF Count
<1>8. Held'  BY <1>1, <1>3, HeldSame
<1> QED  BY <1>1, <1>2, <1>3, <1>6, <1>7, <1>8 DEF HeldOK

\* Neither a level that is set nor a device that returns changes a counter.
LEMMA HeldKept ==
  ASSUME HeldOK, UNCHANGED <<unit, phase, present, device, mode, whole, began, spent>>,
         phase = "started" /\ whole =>
           /\ gone' # {} => gone # {}
           /\ \A k \in CounterKeys : Count(kernel', k) = Count(kernel, k)
  PROVE  HeldOK'
<1> SUFFICES ASSUME mode = "recording", phase = "started", whole PROVE HeldOK'  BY DEF HeldOK
<1>2. /\ CounterKeys' = CounterKeys /\ IsLevels' = IsLevels /\ KeepsCounters' = KeepsCounters /\ Class' = Class
  BY UnitKept
<1>3. /\ present /\ Held /\ (gone # {} => IsLevels \/ KeepsCounters)
      /\ \A k \in CounterKeys : Count(kernel, k) = Count(began, k) + spent[k]
  BY DEF HeldOK
<1>7. \A k : Count(kernel, k)' = Count(kernel', k) /\ Count(began, k)' = Count(began, k)
  BY <1>2 DEF Count
<1>8. Held'  BY <1>3, HeldSame
<1> QED  BY <1>2, <1>3, <1>7, <1>8 DEF HeldOK

LEMMA HeldNext == BaseOK /\ ShapeOK /\ RaplOK /\ HeldOK /\ [Next]_vars => HeldOK'
<1> SUFFICES ASSUME BaseOK, ShapeOK, RaplOK, HeldOK, [Next]_vars PROVE HeldOK'  OBVIOUS
<1>0. unit \in Units /\ MachineOK(kernel)  BY DEF BaseOK, PhasesOK, MachinesOK
<1>1. CASE Tick  BY <1>1, HeldTick
<1>2. CASE SetLevel
  <2>1. PICK k \in LevelKeys : \E level \in Level(k[2]) : kernel' = [kernel EXCEPT ![k] = level]
    BY <1>2 DEF SetLevel
  <2>2. PICK level \in Level(k[2]) : kernel' = [kernel EXCEPT ![k] = level]  BY <2>1
  <2>3. \A c \in CounterKeys : Count(kernel', c) = Count(kernel, c)
    <3> DEFINE after == [kernel EXCEPT ![k] = level]
    <3>1. k \in LevelKeys \cup {Accounting}  OBVIOUS
    <3>2. \A c \in CounterKeys : Count(after, c) = Count(kernel, c)  BY <1>0, <3>1, KeySet, Zenon
    <3>3. kernel' = after  BY <2>2
    <3> HIDE DEF after
    <3> QED  BY <3>2, <3>3
  <2>4. UNCHANGED <<unit, phase, present, device, mode, whole, began, spent, gone>>  BY <1>2 DEF SetLevel
  <2> QED  BY <2>3, <2>4, HeldKept
<1>3. CASE Lost  BY <1>3 DEF Lost, HeldOK
<1>4. CASE Found
  <2>1. UNCHANGED <<unit, phase, present, device, mode, whole, began, spent>>  BY <1>4 DEF Found, history
  <2>2. gone' = {} /\ gone # {} /\ mode = "recording"  BY <1>4 DEF Found
  <2>3. ASSUME phase = "started", whole PROVE \A k \in CounterKeys : Count(kernel', k) = Count(kernel, k)
    <3>1. CASE KeepsCounters
      <4>1. kernel' = kernel  BY <1>4, <3>1 DEF Found
      <4> QED  BY <4>1
    <3>2. CASE IsLevels
      <4>1. CounterKeys = {}  BY <1>0, <3>2, KeysOfClass
      <4> QED  BY <4>1
    <3> QED  BY <2>2, <2>3, <3>1, <3>2 DEF HeldOK
  <2> QED  BY <2>1, <2>2, <2>3, HeldKept
<1>5. CASE Create  BY <1>5 DEF Create, HeldOK
<1>6. CASE StartMeasurement  BY <1>6, StartHeld
<1>7. CASE EndMeasurement  BY <1>7 DEF EndMeasurement, HeldOK
<1>8. CASE Stop  BY <1>8 DEF Stop, HeldOK
<1>9. CASE Replay  BY <1>9 DEF Replay, SaveAndLoad, HeldOK
<1>10. CASE UNCHANGED vars
  <2>1. UNCHANGED <<unit, phase, present, device, mode, whole, began, spent, gone, kernel>>  BY <1>10 DEF vars
  <2> QED  BY <2>1, HeldKept
<1> QED  BY <1>1, <1>2, <1>3, <1>4, <1>5, <1>6, <1>7, <1>8, <1>9, <1>10 DEF Next

(***************************************************************************)
(* Shares.                                                                 *)
(***************************************************************************)
LEMMA DivIs ==
  ASSUME NEW a \in Nat, NEW b \in Nat, b # 0
  PROVE  a \div b \in Nat /\ \E rest \in Nat : a = b * (a \div b) + rest /\ rest < b
<1>1. a \div b \in Nat /\ a % b \in Nat /\ a % b < b /\ a = b * (a \div b) + (a % b)  OBVIOUS
<1> QED  BY <1>1

\* There is one quotient.
LEMMA OneQuotient ==
  ASSUME NEW b \in Nat, NEW p \in Nat, NEW q \in Nat, NEW r \in Nat, NEW s \in Nat,
         b * p + r = b * q + s, r < b, s < b
  PROVE  p = q
<1>1. ASSUME NEW x \in Nat, NEW y \in Nat, NEW t \in Nat, NEW u \in Nat, x < y, b * x + t = b * y + u, t < b
      PROVE  FALSE
  <2>1. y - x - 1 \in Nat  BY <1>1
  <2> DEFINE k == y - x - 1
  <2>2. b * y = b * x + b * k + b  OBVIOUS
  <2>3. b * k \in Nat /\ b * x \in Nat  BY <2>1
  <2> HIDE DEF k
  <2> QED  BY <1>1, <2>2, <2>3
<1> QED  BY <1>1

\* A factor of both is cancelled.
LEMMA DivCancel ==
  ASSUME NEW n \in Nat, n # 0, NEW a \in Nat, NEW b \in Nat, b # 0
  PROVE  (n * a) \div (n * b) = a \div b
<1> DEFINE q == a \div b
           p == (n * a) \div (n * b)
<1>1. PICK r \in Nat : a = b * q + r /\ r < b  BY DivIs
<1>2. n * a \in Nat /\ n * b \in Nat /\ n * b # 0  OBVIOUS
<1>3. p \in Nat /\ q \in Nat /\ \E s \in Nat : n * a = (n * b) * p + s /\ s < n * b
  <2> DEFINE x == n * a
             y == n * b
  <2>1. x \in Nat /\ y \in Nat /\ y # 0  BY <1>2
  <2> HIDE DEF x, y
  <2>2. x \div y \in Nat /\ \E s \in Nat : x = y * (x \div y) + s /\ s < y  BY <2>1, DivIs
  <2>3. q \in Nat  BY DivIs
  <2> QED  BY <2>2, <2>3 DEF x, y
<1>4. PICK s \in Nat : n * a = (n * b) * p + s /\ s < n * b  BY <1>3
<1> HIDE DEF p, q
<1>5. n * a = (n * b) * q + n * r
  <2>1. n * a = n * (b * q + r)  BY <1>1
  <2> QED  BY <1>1, <1>3, <2>1
<1>6. n * r \in Nat /\ n * r < n * b
  <2>1. b - r - 1 \in Nat  BY <1>1
  <2>2. n * b = n * r + n * (b - r - 1) + n  BY <1>1
  <2>3. n * (b - r - 1) \in Nat  BY <2>1
  <2> QED  BY <2>2, <2>3
<1>7. p = q
  <2> DEFINE y == n * b
             t == n * r
  <2>1. y \in Nat /\ t \in Nat /\ y * p + s = y * q + t /\ s < y /\ t < y  BY <1>2, <1>4, <1>5, <1>6
  <2> HIDE DEF y, t
  <2> QED  BY <1>3, <2>1, OneQuotient
<1> QED  BY <1>7 DEF p, q

LEMMA DivProduct ==
  ASSUME NEW b \in Nat, b # 0, NEW q \in Nat
  PROVE  (b * q) \div b = q
<1> DEFINE x == b * q
<1>1. x \in Nat  OBVIOUS
<1>2. x = b * q + 0  OBVIOUS
<1> HIDE DEF x
<1>3. PICK r \in Nat : x = b * (x \div b) + r /\ r < b  BY <1>1, DivIs
<1>4. x \div b \in Nat  BY <1>1, DivIs
<1>5. b * (x \div b) + r = b * q + 0  BY <1>2, <1>3
<1>6. x \div b = q  BY <1>3, <1>4, <1>5, OneQuotient
<1> QED  BY <1>6 DEF x

\* The share of a part lies between nothing and all.
LEMMA PercentRange ==
  ASSUME NEW part \in Nat, NEW all \in Nat, part <= all
  PROVE  /\ Percent(part, all) \in 0..100
         /\ all # 0 => Percent(part, all) = (100 * part) \div all
<1>1. CASE all = 0  BY <1>1 DEF Percent
<1>2. CASE all # 0
  <2>1. Percent(part, all) = (100 * part) \div all  BY <1>2 DEF Percent
  <2> DEFINE x == 100 * part
             q == x \div all
  <2>2. x \in Nat  OBVIOUS
  <2>3. q \in Nat /\ \E r \in Nat : x = all * q + r /\ r < all  BY <1>2, <2>2, DivIs
  <2>4. PICK r \in Nat : x = all * q + r  BY <2>3
  <2> HIDE DEF q
  <2>5. ASSUME q > 100 PROVE FALSE
    <3>1. q - 101 \in Nat  BY <2>3, <2>5
    <3>2. all * q = all * (q - 101) + 101 * all  BY <2>3
    <3>3. all * (q - 101) \in Nat  BY <3>1
    <3> QED  BY <1>2, <2>4, <3>2, <3>3
  <2> QED  BY <2>1, <2>3, <2>5 DEF q
<1> QED  BY <1>1, <1>2

LEMMA Bounded ==
  ASSUME NEW n \in 0..100
  PROVE  NotBelow(0, n) = n /\ NotAbove(100, n) = n /\ Clamped(n) = n
BY DEF NotBelow, NotAbove, Clamped

\* The moments of a measurement at which something holds: its start and its end.
LEMMA Moments ==
  ASSUME NEW S, S \in SUBSET {1, 2}
  PROVE  Cardinality(S) = (IF 1 \in S THEN 1 ELSE 0) + (IF 2 \in S THEN 1 ELSE 0)
<1>1. S = {} \/ S = {1} \/ S = {2} \/ S = {1, 2}  OBVIOUS
<1>2. Cardinality({}) = 0 /\ Cardinality({1}) = 1 /\ Cardinality({2}) = 1  BY FS_EmptySet, FS_Singleton
<1>3. Cardinality({1, 2}) = 2
  <2>1. IsFiniteSet({1})  BY FS_Singleton
  <2>2. {1, 2} = {1} \cup {2} /\ 2 \notin {1}  OBVIOUS
  <2>3. Cardinality({1} \cup {2}) = Cardinality({1}) + 1  BY <2>1, <2>2, FS_AddElement
  <2> QED  BY <1>2, <2>2, <2>3
<1>4. CASE S = {}  BY <1>2, <1>4
<1>5. CASE S = {1}  BY <1>2, <1>5
<1>6. CASE S = {2}  BY <1>2, <1>6
<1>7. CASE S = {1, 2}  BY <1>3, <1>7
<1> QED  BY <1>1, <1>4, <1>5, <1>6, <1>7

(***************************************************************************)
(* What is shown at the end of a measurement.                              *)
(***************************************************************************)
Telling ==
  /\ BaseOK /\ ShapeOK /\ RaplOK /\ HeldOK
  /\ EndMeasurement /\ mode = "recording" /\ whole /\ Readable(EndReads) /\ Tellable

\* What the reads gave, and what the counters show.
EndsWith(got) ==
  /\ device' = DeviceEnded(got) /\ results' = Reported(device') /\ power' = Charged(device', results')
  /\ DOMAIN got = DOMAIN DeviceEndReads
  /\ \A k \in DOMAIN DeviceEndReads :
       got[k] = kernel[k] /\ k \notin gone /\ kernel[k] # Absent /\ (ReadsInts => kernel[k] <= MaxInt)

LEMMA EndIs ==
  ASSUME Telling
  PROVE  /\ present /\ unit \in Units /\ Held
         /\ EndsWith(Got(EndReads))
         /\ MachineOK(kernel) /\ MachineOK(began)
         /\ Class = "nic" => gone = {}
         /\ spent[Now] \in Nat /\ spent[Now] # 0 /\ began[Now] \in Nat /\ kernel[Now] \in Nat
         /\ kernel[Now] = began[Now] + spent[Now] /\ spent[Now] <= MaxTicks
         /\ \A k \in CounterKeys : /\ spent[k] \in Nat /\ Count(began, k) \in Nat /\ Count(kernel, k) \in Nat
                                   /\ Count(kernel, k) = Count(began, k) + spent[k]
         /\ Class' = Class /\ Model' = Model /\ IsShare' = IsShare /\ IsRapl' = IsRapl
<1>1. phase = "started" /\ mode = "recording" /\ whole  BY DEF Telling, EndMeasurement
<1>2. /\ present /\ Held
      /\ \A k \in CounterKeys : Count(kernel, k) = Count(began, k) + spent[k]
  BY <1>1 DEF Telling, HeldOK
<1>3. /\ unit \in Units /\ MachineOK(kernel) /\ MachineOK(began) /\ SpentOK
      /\ kernel[Now] = began[Now] + spent[Now] /\ began[Now] >= TicksPerSecond
      /\ kernel[Now] <= TicksPerSecond + MaxTicks
  BY DEF Telling, BaseOK, PhasesOK, MachinesOK
<1>4. /\ spent[Now] \in Nat /\ began[Now] \in Nat /\ kernel[Now] \in Nat
      /\ \A k \in CounterKeys : spent[k] \in Nat /\ Count(began, k) \in Nat /\ Count(kernel, k) \in Nat
  BY <1>3 DEF MachineOK, SpentOK
<1>5. spent[Now] # 0  BY <1>4 DEF Telling, Tellable
<1>6. spent[Now] <= MaxTicks  BY <1>3, <1>4, TicksAssumption, BoundsAssumption
<1>7. /\ device' = DeviceEnded(Got(EndReads)) /\ results' = Reported(device')
      /\ power' = Charged(device', results') /\ unit' = unit
  BY <1>2 DEF Telling, EndMeasurement
<1>8. EndReads = DeviceEndReads  BY <1>2 DEF EndReads
<1>9. /\ DOMAIN Got(EndReads) = DOMAIN EndReads
      /\ Class = "nic" => gone = {}
      /\ \A k \in DOMAIN EndReads : /\ k \notin gone /\ Got(EndReads)[k] = kernel[k] /\ kernel[k] # Absent
                                    /\ ReadsInts => kernel[k] <= MaxInt
  BY ReadableReads DEF Telling
<1>10. EndsWith(Got(EndReads))  BY <1>7, <1>8, <1>9 DEF EndsWith
<1>11. Class' = Class /\ Model' = Model /\ IsShare' = IsShare /\ IsRapl' = IsRapl  BY <1>7, UnitKept
<1> QED  BY <1>2, <1>3, <1>4, <1>5, <1>6, <1>9, <1>10, <1>11

\* A device of shares holds the files at the start and at the end.
LEMMA ShareAfter ==
  ASSUME Telling, IsShare
  PROVE  /\ \A f \in StartFiles(Class) : device'.before[f] = began[R(f)]
         /\ \A f \in EndFiles(Class) : device'.after[f] = kernel[R(f)]
         /\ Class = "usb" => device'.rootport = device.rootport /\ device'.cached_valid = device.cached_valid
         /\ results' = Over(ShareReports(Class, device'), results)
         /\ power' = SharePower(Class, device', results')
         /\ ShownNow' = [share |-> ShareUtilization(Class, device'), charge |-> power']
<1> DEFINE got == Got(EndReads)
           files == Files(got)
           old == device.after
<1>1. /\ present /\ unit \in Units /\ Held /\ EndsWith(got)
      /\ MachineOK(kernel) /\ MachineOK(began) /\ Class' = Class /\ IsShare' = IsShare
      /\ \A k \in CounterKeys : /\ spent[k] \in Nat /\ Count(began, k) \in Nat
                                /\ Count(kernel, k) = Count(began, k) + spent[k]
  BY EndIs
<1> HIDE DEF got
<1>2. /\ device' = DeviceEnded(got) /\ results' = Reported(device') /\ power' = Charged(device', results')
      /\ \A k \in DOMAIN DeviceEndReads :
           k \in DOMAIN got /\ got[k] = kernel[k] /\ (ReadsInts => kernel[k] <= MaxInt)
  BY <1>1 DEF EndsWith
<1>3. Class # "nic" /\ ~IsRapl /\ Class \notin OtherClasses /\ Class # "xe_energy"
  BY DEF IsRapl, IsShare, ShareClasses, OtherClasses
<1>4. device' = ShareEnded(Class, device, files)  BY <1>2 DEF DeviceEnded, IsRapl, IsShare, ShareClasses
<1>5. DOMAIN DeviceEndReads = {R(f) : f \in EndFiles(Class)}
  <2>1. DeviceEndReads = Once({R(f) : f \in EndFiles(Class)})  BY DEF DeviceEndReads, IsRapl, IsShare, ShareClasses
  <2> QED  BY <2>1, OnceIs, Zenon
<1>6. PICK fields \in {UsbFields, {"before", "after"}} :
        ShareShape(device, fields) /\ (Class = "usb" => fields = UsbFields)
  <2>1. ShareShape(device, ShareFieldsNow)  BY DEF Telling, ShapeOK
  <2> QED  BY <1>1, <2>1 DEF ShareFieldsNow
<1>7. ASSUME NEW f \in EndFiles(Class)
      PROVE  /\ f \in DOMAIN files /\ files[f] = kernel[R(f)] /\ kernel[R(f)] \in Nat
             /\ ReadsInts => kernel[R(f)] <= MaxInt
             /\ f \in ShareFiles[Class]
  <2>1. R(f) \in DOMAIN DeviceEndReads  BY <1>5
  <2>2. f \in ShareFiles[Class]  BY DEF EndFiles
  <2>3. kernel[R(f)] \in Nat  BY <1>1, <2>2, ShareContents
  <2>4. R(f) \in DOMAIN got /\ got[R(f)] = kernel[R(f)]  BY <1>2, <2>1
  <2>5. f \in DOMAIN files /\ files[f] = got[R(f)]  BY <2>4, FilesRead
  <2> QED  BY <1>2, <2>1, <2>2, <2>3, <2>4, <2>5
<1> HIDE DEF files
<1>8. DOMAIN old = ShareFiles[Class] /\ "after" \in DOMAIN device /\ "before" \in DOMAIN device
  BY <1>6 DEF ShareShape, UsbFields
<1>9. \A f \in StartFiles(Class) : device.before[f] = began[R(f)]  BY <1>1 DEF Held
<1>10. \E after : /\ device' = [device EXCEPT !.after = after]
                  /\ \A f \in EndFiles(Class) : after[f] = kernel[R(f)]
  <2>1. CASE Class = "alsa"
    <3>1. device' = [device EXCEPT !.after = AlsaKept(old, files)]
      BY <1>4, <2>1 DEF ShareEnded, AlsaEnded
    <3>2. ASSUME NEW f \in EndFiles(Class) PROVE AlsaKept(old, files)[f] = kernel[R(f)]
      <4>1. files[f] # Absent  BY <1>7, FrameworkAssumption
      <4> QED  BY <1>7, <1>8, <4>1 DEF AlsaKept
    <3> QED  BY <3>1, <3>2
  <2>2. CASE Class = "xe_fan"
    <3>1. device' = [device EXCEPT !.after = [rate |-> ReadUint64(files["rate"])]]
      BY <1>4, <2>2 DEF ShareEnded, XeFanEnded
    <3>2. EndFiles(Class) = {"rate"}  BY <2>2, FilesOfShares DEF EndFiles
    <3>3. files["rate"] = kernel[R("rate")] /\ files["rate"] # Absent  BY <1>7, <3>2, FrameworkAssumption
    <3>4. [rate |-> ReadUint64(files["rate"])]["rate"] = kernel[R("rate")]  BY <3>3 DEF ReadUint64
    <3> QED  BY <3>1, <3>2, <3>4
  <2>3. CASE Class = "ahci"
    <3> DEFINE grown == [f \in DOMAIN old |->
                          IF f # "devslp" /\ ReadInt(files[f]) < device.before[f] THEN device.before[f]
                          ELSE ReadInt(files[f])]
    <3>1. device' = [device EXCEPT !.after = grown]  BY <1>4, <2>3 DEF ShareEnded, AhciEnded
    <3>2. ASSUME NEW f \in EndFiles(Class) PROVE grown[f] = kernel[R(f)]
      <4>1. ReadInt(files[f]) = kernel[R(f)]
        <5>1. files[f] = kernel[R(f)] /\ files[f] \in Nat /\ files[f] <= MaxInt  BY <1>7, <2>3 DEF ReadsInts
        <5>2. Absent \notin Nat /\ MaxInt \in Nat  BY FrameworkAssumption
        <5> QED  BY <5>1, <5>2 DEF ReadInt
      <4>2. f \in StartFiles(Class) /\ f \in ShareFiles[Class]
        BY <2>3, FilesOfShares DEF StartFiles, EndFiles
      <4>3. device.before[f] <= kernel[R(f)]
        <5>1. R(f) \in CounterKeys  BY <1>1, <2>3, <4>2, KeysOfClass DEF IsTimes
        <5>2. Count(kernel, R(f)) = kernel[R(f)] /\ Count(began, R(f)) = began[R(f)]  BY <2>3 DEF Count
        <5> QED  BY <1>1, <1>9, <4>2, <5>1, <5>2
      <4>4. device.before[f] \in Nat  
        BY <1>1, <1>9, <4>2, ShareContents
      <4> QED  BY <1>7, <1>8, <4>1, <4>3, <4>4
    <3> HIDE DEF grown
    <3> QED  BY <3>1, <3>2
  <2>4. CASE Class \in {"runtime_pm", "usb", "backlight", "rfkill", "fan", "light"}
    <3> DEFINE ints == Ints(old, files)
    <3>1. device' = [device EXCEPT !.after = ints]
      BY <1>4, <2>4 DEF ShareEnded, RuntimePmEnded, UsbEnded, BacklightEnded, RfkillEnded, FanEnded, LightEnded
    <3>2. ASSUME NEW f \in EndFiles(Class) PROVE ints[f] = kernel[R(f)]
      <4>1. kernel[R(f)] <= MaxInt  BY <1>7, <2>4 DEF ReadsInts
      <4> QED  BY <1>7, <1>8, <4>1, IntsRead
    <3> HIDE DEF ints
    <3> QED  BY <3>1, <3>2
  <2> QED  BY <2>1, <2>2, <2>3, <2>4 DEF IsShare, ShareClasses
<1>11. PICK after : /\ device' = [device EXCEPT !.after = after]
                    /\ \A f \in EndFiles(Class) : after[f] = kernel[R(f)]
  BY <1>10
<1>12. device'.before = device.before /\ device'.after = after  BY <1>8, <1>11
<1>13. Class = "usb" => device'.rootport = device.rootport /\ device'.cached_valid = device.cached_valid
  BY <1>6, <1>11 DEF ShareShape, UsbFields
<1>14. results' = Over(ShareReports(Class, device'), results) /\ power' = SharePower(Class, device', results')
  BY <1>2 DEF Reported, Charged, IsRapl, IsShare, ShareClasses
<1>15. ShownNow' = [share |-> ShareUtilization(Class, device'), charge |-> power']
  BY <1>1 DEF ShownNow, IsRapl, IsShare, ShareClasses
<1> QED  BY <1>9, <1>11, <1>12, <1>13, <1>14, <1>15

\* What is reported under a name.
LEMMA ReportedUnder ==
  ASSUME NEW reports, NEW name \in DOMAIN reports
  PROVE  ResultValue(Over(reports, results), name) = reports[name]
<1>1. name \in DOMAIN Over(reports, results) /\ Over(reports, results)[name] = reports[name]  BY DEF Over
<1> QED  BY <1>1 DEF ResultValue

\* The counters of shares.
LEMMA ShareSpent ==
  ASSUME Telling, Class \in {"usb", "runtime_pm", "alsa", "ahci"}, NEW f \in ShareFiles[Class]
  PROVE  Delta(device', f) = spent[R(f)] /\ spent[R(f)] \in Nat
<1>1. IsShare /\ (Class = "usb" \/ IsTimes)  BY DEF IsShare, ShareClasses, IsTimes
<1>2. f \notin {"max", "dpms"}  BY FilesOfShares
<1>3. f \in StartFiles(Class) /\ f \in EndFiles(Class)  BY <1>2 DEF StartFiles, EndFiles
<1>4. device'.before[f] = began[R(f)] /\ device'.after[f] = kernel[R(f)]  BY <1>1, <1>3, ShareAfter
<1>5. unit \in Units  BY EndIs
<1>6. R(f) \in CounterKeys  BY <1>1, <1>5, KeysOfClass, FilesOfShares
<1>7. spent[R(f)] \in Nat /\ Count(began, R(f)) \in Nat /\ Count(kernel, R(f)) = Count(began, R(f)) + spent[R(f)]
  BY <1>6, EndIs
<1>8. Count(kernel, R(f)) = kernel[R(f)] /\ Count(began, R(f)) = began[R(f)]  BY DEF Count
<1> QED  BY <1>4, <1>7, <1>8 DEF Delta

LEMMA SpentShares ==
  ASSUME Telling
  PROVE  /\ Class = "usb" => spent[R("connected")] = spent[Now] /\ spent[R("active")] <= spent[Now]
         /\ Class = "runtime_pm" => spent[R("active")] + spent[R("suspended")] = spent[Now]
         /\ Class = "alsa" => spent[R("on")] + spent[R("off")] = spent[Now]
         /\ Class = "ahci" =>
              spent[R("active")] + spent[R("partial")] + spent[R("slumber")] + spent[R("devslp")] = spent[Now]
         /\ Class = "devfreq" => spent[R("low")] + spent[R("high")] <= spent[Now]
         /\ Class \in {"core", "package"} =>
              spent[Tsc] = 2 * spent[Now] /\ \A k \in CounterKeys : \E y \in Nat : spent[k] = 2 * y
         /\ Class = "cpu" => spent[Tsc] = 2 * spent[Now]
         /\ Class = "rc6" => spent[R("rc6")] + spent[R("rc6p")] + spent[R("rc6pp")] <= spent[Now]
         /\ Class = "xe_gts" => \A k \in CounterKeys : spent[k] <= spent[Now]
BY DEF Telling, BaseOK, SpentOK

LEMMA UsbTold == Telling /\ Class = "usb" => ShownNow' = Happened
<1> SUFFICES ASSUME Telling, Class = "usb" PROVE ShownNow' = Happened  OBVIOUS
<1>1. IsShare  BY DEF IsShare, ShareClasses
<1> DEFINE active == spent[R("active")]
           all == spent[Now]
           util == ShareUtilization(Class, device')
<1>2. active \in Nat /\ Delta(device', "active") = active /\ Delta(device', "connected") = all
      /\ all \in Nat /\ active <= all
  <2>1. ShareFiles[Class] = {"active", "connected"}  BY FilesOfShares
  <2>2. all \in Nat  BY EndIs
  <2> QED  BY <2>1, <2>2, ShareSpent, SpentShares
<1>3. util = HappenedShare
  <2>1. util = NotAbove(100, NotBelow(0, Percent(active, all)))
    BY <1>2 DEF ShareUtilization, UsbUtilization
  <2>2. Percent(active, all) \in 0..100  BY <1>2, PercentRange
  <2>3. HappenedShare = Percent(active, all)  BY DEF HappenedShare, Spent
  <2> HIDE DEF active, all, util
  <2> QED  BY <2>1, <2>2, <2>3, Bounded
<1> HIDE DEF util
<1>4. results' = Over([name |-> util], results)  BY <1>1, ShareAfter DEF ShareReports, util
<1>5. ResultValue(results', "name") = util
  <2> DEFINE reports == [name |-> util]
  <2>1. "name" \in DOMAIN reports /\ reports["name"] = util  OBVIOUS
  <2> HIDE DEF reports
  <2>2. ResultValue(Over(reports, results), "name") = util  BY <2>1, ReportedUnder
  <2> QED  BY <1>4, <2>2 DEF reports
<1>6. HappenedResults = [name |-> HappenedShare]  BY DEF HappenedResults
<1>7. ResultValue(HappenedResults, "name") = HappenedShare  BY <1>6 DEF ResultValue
<1>8. SharePower(Class, device', results') = SharePower(Class, device, HappenedResults)
  <2>1. device'.rootport = device.rootport /\ device'.cached_valid = device.cached_valid
    BY <1>1, ShareAfter
  <2> QED  BY <1>3, <1>5, <1>7, <2>1 DEF SharePower, UsbPower
<1>9. Happened = [share |-> HappenedShare, charge |-> SharePower(Class, device, HappenedResults)]
  BY <1>1 DEF Happened, IsCounted, IsRapl, IsShare, ShareClasses
<1> QED  BY <1>1, <1>3, <1>8, <1>9, ShareAfter DEF util

LEMMA ShareTold ==
  ASSUME Telling, IsShare, ShareUtilization(Class, device') = HappenedShare,
         SharePower(Class, device', results') = SharePower(Class, device, HappenedResults)
  PROVE  ShownNow' = Happened
<1>1. Happened = [share |-> HappenedShare, charge |-> SharePower(Class, device, HappenedResults)]
  BY DEF Happened, IsCounted, IsRapl, IsShare, ShareClasses
<1> QED  BY <1>1, ShareAfter

\* A share that is reported under "name".
LEMMA NamedResult ==
  ASSUME Telling, Class \in {"usb", "alsa", "rfkill", "fan", "light"},
         ShareUtilization(Class, device') = HappenedShare
  PROVE  /\ ResultValue(results', "name") = HappenedShare
         /\ ResultValue(HappenedResults, "name") = HappenedShare
<1>1. IsShare  BY DEF IsShare, ShareClasses
<1> DEFINE util == ShareUtilization(Class, device')
           reports == [name |-> util]
<1>2. ShareReports(Class, device') = reports  BY DEF ShareReports
<1>3. results' = Over(reports, results)  BY <1>1, <1>2, ShareAfter
<1>4. "name" \in DOMAIN reports /\ reports["name"] = util  OBVIOUS
<1> HIDE DEF util, reports
<1>5. ResultValue(results', "name") = util  BY <1>3, <1>4, ReportedUnder
<1>6. HappenedResults = [name |-> HappenedShare]  BY DEF HappenedResults
<1>7. ResultValue(HappenedResults, "name") = HappenedShare  BY <1>6 DEF ResultValue
<1> QED  BY <1>5, <1>7 DEF util

LEMMA AlsaTold == Telling /\ Class = "alsa" => ShownNow' = Happened
<1> SUFFICES ASSUME Telling, Class = "alsa" PROVE ShownNow' = Happened  OBVIOUS
<1>1. IsShare  BY DEF IsShare, ShareClasses
<1> DEFINE on == spent[R("on")]
           off == spent[R("off")]
           all == spent[Now]
<1>2. /\ on \in Nat /\ off \in Nat /\ all \in Nat /\ on + off = all
      /\ Delta(device', "on") = on /\ Delta(device', "off") = off
  <2>1. ShareFiles[Class] = {"on", "off"}  BY FilesOfShares
  <2>2. all \in Nat  BY EndIs
  <2> QED  BY <2>1, <2>2, ShareSpent, SpentShares
<1>3. ShareUtilization(Class, device') = HappenedShare
  <2>1. ShareUtilization(Class, device') = Percent(NotBelow(0, on), NotBelow(0, on + off))
    BY <1>2 DEF ShareUtilization, AlsaUtilization
  <2>2. HappenedShare = Percent(on, all)  BY DEF HappenedShare, Spent
  <2> HIDE DEF on, off, all
  <2>3. NotBelow(0, on) = on /\ NotBelow(0, on + off) = all  BY <1>2 DEF NotBelow
  <2> QED  BY <2>1, <2>2, <2>3
<1>4. SharePower(Class, device', results') = SharePower(Class, device, HappenedResults)
  <2>1. ResultValue(results', "name") = ResultValue(HappenedResults, "name")  BY <1>3, NamedResult
  <2> QED  BY <2>1 DEF SharePower, AlsaPower
<1> QED  BY <1>1, <1>3, <1>4, ShareTold

LEMMA RuntimePmTold == Telling /\ Class = "runtime_pm" => ShownNow' = Happened
<1> SUFFICES ASSUME Telling, Class = "runtime_pm" PROVE ShownNow' = Happened  OBVIOUS
<1>1. IsShare  BY DEF IsShare, ShareClasses
<1> DEFINE active == spent[R("active")]
           rest == spent[R("suspended")]
           all == spent[Now]
<1>2. /\ active \in Nat /\ rest \in Nat /\ all \in Nat /\ active + rest = all
      /\ Delta(device', "active") = active /\ Delta(device', "suspended") = rest
  <2>1. ShareFiles[Class] = {"active", "suspended"}  BY FilesOfShares
  <2>2. all \in Nat  BY EndIs
  <2> QED  BY <2>1, <2>2, ShareSpent, SpentShares
<1>3. ShareUtilization(Class, device') = HappenedShare
  <2>1. ShareUtilization(Class, device') = NotAbove(100, NotBelow(0, Percent(active, active + rest)))
    BY <1>2 DEF ShareUtilization, RuntimePmUtilization
  <2>2. HappenedShare = Percent(active, all)  BY DEF HappenedShare, Spent
  <2> HIDE DEF active, rest, all
  <2>3. Percent(active, all) \in 0..100  BY <1>2, PercentRange
  <2> QED  BY <1>2, <2>1, <2>2, <2>3, Bounded
<1>4. SharePower(Class, device', results') = SharePower(Class, device, HappenedResults)
  <2>1. ResultValue(results', "runtime") = 0
    <3>1. "runtime" \notin DOMAIN results  BY DEF Telling, ShapeOK
    <3>2. DOMAIN ShareReports(Class, device') = {}  BY DEF ShareReports
    <3>3. results' = Over(ShareReports(Class, device'), results)  BY <1>1, ShareAfter
    <3>4. "runtime" \notin DOMAIN results'  BY <3>1, <3>2, <3>3 DEF Over
    <3> QED  BY <3>4 DEF ResultValue
  <2>2. ResultValue(HappenedResults, "runtime") = 0
    <3>1. DOMAIN HappenedResults = {"name"}  BY DEF HappenedResults
    <3> QED  BY <3>1 DEF ResultValue
  <2> QED  BY <2>1, <2>2 DEF SharePower, RuntimePmPower
<1> QED  BY <1>1, <1>3, <1>4, ShareTold

LEMMA AhciTold == Telling /\ Class = "ahci" => ShownNow' = Happened
<1> SUFFICES ASSUME Telling, Class = "ahci" PROVE ShownNow' = Happened  OBVIOUS
<1>1. IsShare  BY DEF IsShare, ShareClasses
<1> DEFINE active == spent[R("active")]
           partial == spent[R("partial")]
           slumber == spent[R("slumber")]
           devslp == spent[R("devslp")]
           all == spent[Now]
<1>2. /\ active \in Nat /\ partial \in Nat /\ slumber \in Nat /\ devslp \in Nat /\ all \in Nat /\ all # 0
      /\ active + partial + slumber + devslp = all
      /\ Delta(device', "active") = active /\ Delta(device', "partial") = partial
      /\ Delta(device', "slumber") = slumber /\ Delta(device', "devslp") = devslp
  <2>1. ShareFiles[Class] = {"active", "partial", "slumber", "devslp"}  BY FilesOfShares
  <2>2. all \in Nat /\ all # 0  BY EndIs
  <2> QED  BY <2>1, <2>2, ShareSpent, SpentShares
<1>3. AhciTotal(device') = all  BY <1>2 DEF AhciTotal
<1>4. ShareUtilization(Class, device') = HappenedShare
  <2>1. ShareUtilization(Class, device') = NotBelow(0, Percent(partial + active, all))
    BY <1>2, <1>3 DEF ShareUtilization, AhciUtilization
  <2>2. HappenedShare = Percent(active + partial, all)  BY DEF HappenedShare
  <2> HIDE DEF active, partial, slumber, devslp, all
  <2>3. active + partial \in Nat /\ active + partial <= all /\ partial + active = active + partial  BY <1>2
  <2>4. Percent(active + partial, all) \in 0..100  BY <1>2, <2>3, PercentRange
  <2> QED  BY <2>1, <2>2, <2>3, <2>4, Bounded
<1> DEFINE reports == ShareReports(Class, device')
<1>5. results' = Over(reports, results)  BY <1>1, ShareAfter
<1>6. reports = [f \in ShareFiles["ahci"] |-> NotBelow(0, Percent(Delta(device', f), AhciTotal(device')))]
  BY <1>2, <1>3 DEF ShareReports, AhciReports
<1>7. ASSUME NEW f \in {"active", "partial"}
      PROVE  ResultValue(results', f) = Spent(f)
  <2>1. f \in ShareFiles["ahci"]  BY FilesOfShares
  <2>2. Delta(device', f) = spent[R(f)] /\ spent[R(f)] \in Nat /\ spent[R(f)] <= all  BY <1>2
  <2>3. f \in DOMAIN reports /\ reports[f] = NotBelow(0, Percent(spent[R(f)], all))
    BY <1>3, <1>6, <2>1, <2>2
  <2> HIDE DEF reports
  <2>4. ResultValue(Over(reports, results), f) = reports[f]  BY <2>3, ReportedUnder
  <2>5. Percent(spent[R(f)], all) \in 0..100  BY <1>2, <2>2, PercentRange
  <2>6. NotBelow(0, Percent(spent[R(f)], all)) = Percent(spent[R(f)], all)  BY <2>5, Bounded
  <2> QED  BY <1>5, <2>3, <2>4, <2>6 DEF Spent
<1>8. HappenedResults = [active |-> Spent("active"), partial |-> Spent("partial")]  BY DEF HappenedResults
<1>9. ResultValue(HappenedResults, "active") = Spent("active") /\ ResultValue(HappenedResults, "partial") = Spent("partial")
  BY <1>8 DEF ResultValue
<1>10. SharePower(Class, device', results') = SharePower(Class, device, HappenedResults)
  <2>1. ResultValue(results', "active") = Spent("active") /\ ResultValue(results', "partial") = Spent("partial")
    BY <1>7
  <2> QED  BY <1>9, <2>1 DEF SharePower, AhciPower
<1> QED  BY <1>1, <1>4, <1>10, ShareTold

\* The levels at the start and at the end.
LEMMA LevelsRead ==
  ASSUME Telling, IsLevels, NEW f \in ShareFiles[Class]
  PROVE  /\ f # "dpms" /\ Class # "xe_fan" => device'.before[f] = began[R(f)] /\ began[R(f)] \in Level(f)
         /\ f # "max" => device'.after[f] = kernel[R(f)]
         /\ began[R(f)] \in Level(f) /\ kernel[R(f)] \in Level(f)
<1>1. IsShare  BY DEF IsLevels, IsShare, ShareClasses
<1>2. unit \in Units /\ MachineOK(kernel) /\ MachineOK(began)  BY EndIs
<1>3. R(f) \in LevelKeys /\ R(f)[2] = f  BY <1>2, KeysOfClass, KeyNames
<1>4. began[R(f)] \in Level(f) /\ kernel[R(f)] \in Level(f)  BY <1>2, <1>3 DEF MachineOK
<1>5. f # "max" => f \in EndFiles(Class)  BY DEF EndFiles
<1>6. f # "dpms" /\ Class # "xe_fan" => f \in StartFiles(Class)  BY DEF StartFiles
<1> QED  BY <1>1, <1>4, <1>5, <1>6, ShareAfter

LEMMA RfkillTold == Telling /\ Class = "rfkill" => ShownNow' = Happened
<1> SUFFICES ASSUME Telling, Class = "rfkill" PROVE ShownNow' = Happened  OBVIOUS
<1>1. IsShare /\ IsLevels  BY DEF IsShare, ShareClasses, IsLevels
<1> DEFINE hb == began[R("hard")]
           sb == began[R("soft")]
           ha == kernel[R("hard")]
           sa == kernel[R("soft")]
           free == {m \in {1, 2} : ~Blocked(IF m = 1 THEN began ELSE kernel)}
<1>2. /\ hb \in {0, 1} /\ sb \in {0, 1} /\ ha \in {0, 1} /\ sa \in {0, 1}
      /\ device'.before["hard"] = hb /\ device'.before["soft"] = sb
      /\ device'.after["hard"] = ha /\ device'.after["soft"] = sa
  <2>1. "hard" \in ShareFiles[Class] /\ "soft" \in ShareFiles[Class]  BY FilesOfShares
  <2>2. Level("hard") = {0, 1} /\ Level("soft") = {0, 1}  BY DEF Level
  <2> QED  BY <1>1, <2>1, <2>2, LevelsRead
<1>3. /\ hb = 1 /\ sa = 1 => sb = 1 \/ ha = 1
      /\ sb = 1 /\ ha = 1 => hb = 1 \/ sa = 1
  BY DEF Telling, Tellable
<1>4. 1 \in free <=> ~(hb = 1 \/ sb = 1)  BY DEF Blocked
<1>5. 2 \in free <=> ~(ha = 1 \/ sa = 1)  BY DEF Blocked
<1>6. free \in SUBSET {1, 2}  OBVIOUS
<1>7. HappenedShare = 50 * Cardinality(free)  BY DEF HappenedShare
<1>8. ShareUtilization(Class, device') = 100 - 50 * NotBelow(hb + ha, sb + sa)
  BY <1>2 DEF ShareUtilization, RfkillUtilization
<1> HIDE DEF hb, sb, ha, sa, free
<1>9. Cardinality(free) = (IF 1 \in free THEN 1 ELSE 0) + (IF 2 \in free THEN 1 ELSE 0)  BY <1>6, Moments
<1>10. NotBelow(hb + ha, sb + sa) = IF sb + sa < hb + ha THEN hb + ha ELSE sb + sa  BY DEF NotBelow
<1>11. 100 - 50 * NotBelow(hb + ha, sb + sa) = 50 * Cardinality(free)
  <2>1. CASE hb = 0 /\ sb = 0  BY <1>2, <1>3, <1>4, <1>5, <1>9, <1>10, <2>1
  <2>2. CASE hb = 0 /\ sb = 1  BY <1>2, <1>3, <1>4, <1>5, <1>9, <1>10, <2>2
  <2>3. CASE hb = 1 /\ sb = 0  BY <1>2, <1>3, <1>4, <1>5, <1>9, <1>10, <2>3
  <2>4. CASE hb = 1 /\ sb = 1  BY <1>2, <1>3, <1>4, <1>5, <1>9, <1>10, <2>4
  <2> QED  BY <1>2, <2>1, <2>2, <2>3, <2>4
<1>12. ShareUtilization(Class, device') = HappenedShare  BY <1>7, <1>8, <1>11
<1>13. SharePower(Class, device', results') = SharePower(Class, device, HappenedResults)
  <2>1. ResultValue(results', "radio") = 0
    <3>1. "radio" \notin DOMAIN results  BY DEF Telling, ShapeOK
    <3> DEFINE reports == ShareReports(Class, device')
    <3>2. reports = [name |-> ShareUtilization(Class, device')]  BY DEF ShareReports
    <3>3. DOMAIN reports = {"name"}  BY <3>2
    <3> HIDE DEF reports
    <3>4. results' = Over(reports, results)  BY <1>1, ShareAfter DEF reports
    <3>5. "radio" \notin DOMAIN results'  BY <3>1, <3>3, <3>4 DEF Over
    <3> QED  BY <3>5 DEF ResultValue
  <2>2. ResultValue(HappenedResults, "radio") = 0
    <3>1. DOMAIN HappenedResults = {"name"}  BY DEF HappenedResults
    <3> QED  BY <3>1 DEF ResultValue
  <2> QED  BY <2>1, <2>2 DEF SharePower, RfkillPower
<1> QED  BY <1>1, <1>12, <1>13, ShareTold

LEMMA FansTold == Telling /\ Class \in {"fan", "light", "xe_fan"} => ShownNow' = Happened
<1> SUFFICES ASSUME Telling, Class \in {"fan", "light", "xe_fan"} PROVE ShownNow' = Happened  OBVIOUS
<1>1. IsShare /\ IsLevels  BY DEF IsShare, ShareClasses, IsLevels
<1>2. CASE Class = "fan"
  <2>1. "rate" \in ShareFiles[Class]  BY <1>2, FilesOfShares
  <2>2. device'.before["rate"] = began[R("rate")] /\ device'.after["rate"] = kernel[R("rate")]
    BY <1>1, <1>2, <2>1, LevelsRead
  <2>3. ShareUtilization(Class, device') = HappenedShare
    BY <1>2, <2>2 DEF ShareUtilization, FanUtilization, HappenedShare, Mean
  <2>4. ResultValue(results', "name") = ResultValue(HappenedResults, "name")  BY <1>2, <2>3, NamedResult
  <2>5. SharePower(Class, device', results') = SharePower(Class, device, HappenedResults)
    BY <1>2, <2>4 DEF SharePower, FanPower
  <2> QED  BY <1>1, <2>3, <2>5, ShareTold
<1>3. CASE Class = "light"
  <2>1. "level" \in ShareFiles[Class]  BY <1>3, FilesOfShares
  <2>2. device'.before["level"] = began[R("level")] /\ device'.after["level"] = kernel[R("level")]
    BY <1>1, <1>3, <2>1, LevelsRead
  <2>3. ShareUtilization(Class, device') = HappenedShare
    BY <1>3, <2>2 DEF ShareUtilization, LightUtilization, HappenedShare
  <2>4. ResultValue(results', "name") = ResultValue(HappenedResults, "name")  BY <1>3, <2>3, NamedResult
  <2>5. SharePower(Class, device', results') = SharePower(Class, device, HappenedResults)
    BY <1>3, <2>4 DEF SharePower, LightPower
  <2> QED  BY <1>1, <2>3, <2>5, ShareTold
<1>4. CASE Class = "xe_fan"
  <2>1. "rate" \in ShareFiles[Class]  BY <1>4, FilesOfShares
  <2>2. device'.after["rate"] = kernel[R("rate")]  BY <1>1, <1>4, <2>1, LevelsRead
  <2>3. ShareUtilization(Class, device') = HappenedShare
    BY <1>4, <2>2 DEF ShareUtilization, XeFanUtilization, HappenedShare
  <2>5. SharePower(Class, device', results') = SharePower(Class, device, HappenedResults)
    BY <1>4 DEF SharePower
  <2> QED  BY <1>1, <2>3, <2>5, ShareTold
<1> QED  BY <1>2, <1>3, <1>4

LEMMA BacklightTold == Telling /\ Class = "backlight" => ShownNow' = Happened
<1> SUFFICES ASSUME Telling, Class = "backlight" PROVE ShownNow' = Happened  OBVIOUS
<1>1. IsShare /\ IsLevels  BY DEF IsShare, ShareClasses, IsLevels
<1> DEFINE before == began[R("level")]
           after == kernel[R("level")]
           max == began[R("max")]
           dpms == kernel[R("dpms")]
           util == ShareUtilization(Class, device')
<1>2. /\ before \in {0, 2} /\ after \in {0, 2} /\ max = 2 /\ kernel[R("max")] = 2 /\ dpms \in {0, 1}
      /\ device'.before["level"] = before /\ device'.after["level"] = after
      /\ device'.before["max"] = max /\ device'.after["dpms"] = dpms
  <2>1. "level" \in ShareFiles[Class] /\ "max" \in ShareFiles[Class] /\ "dpms" \in ShareFiles[Class]
    BY FilesOfShares
  <2>2. Level("level") = {0, 2} /\ Level("max") = {2} /\ Level("dpms") = {0, 1}  BY DEF Level
  <2> QED  BY <1>1, <2>1, <2>2, LevelsRead
<1>3. util = HappenedShare /\ util \in Nat
  <2>1. util = (100 * (after + before)) \div (2 * 2)
    BY <1>2 DEF ShareUtilization, BacklightUtilization
  <2>2. HappenedShare = Percent((before + after) \div 2, 2)  BY <1>2 DEF HappenedShare, Mean
  <2>3. HappenedShare = (100 * ((before + after) \div 2)) \div 2  BY <2>2 DEF Percent
  <2> HIDE DEF before, after, util
  <2>4. CASE before = 0 /\ after = 0  BY <2>1, <2>3, <2>4
  <2>5. CASE before + after = 2  BY <2>1, <2>3, <2>5, <1>2
  <2>6. CASE before = 2 /\ after = 2  BY <2>1, <2>3, <2>6
  <2> QED  BY <1>2, <2>4, <2>5, <2>6
<1> DEFINE reports == [name |-> IF dpms = 1 THEN util ELSE 0, power |-> 100 * dpms]
<1>4. ShareReports(Class, device') = reports
  BY <1>2 DEF ShareReports, BacklightReports, ShareUtilization
<1>5. results' = Over(reports, results)  BY <1>1, <1>4, ShareAfter
<1>6. /\ "name" \in DOMAIN reports /\ reports["name"] = IF dpms = 1 THEN util ELSE 0
      /\ "power" \in DOMAIN reports /\ reports["power"] = 100 * dpms
  OBVIOUS
<1> HIDE DEF reports
<1>7. ResultValue(results', "name") = (IF dpms = 1 THEN util ELSE 0) /\ ResultValue(results', "power") = 100 * dpms
  BY <1>5, <1>6, ReportedUnder
<1>8. HappenedResults = [name |-> HappenedShare * dpms, power |-> 100 * dpms]  BY DEF HappenedResults
<1>9. ResultValue(HappenedResults, "name") = HappenedShare * dpms /\ ResultValue(HappenedResults, "power") = 100 * dpms
  BY <1>8 DEF ResultValue
<1> HIDE DEF util, dpms
<1>10. HappenedShare * dpms = IF dpms = 1 THEN util ELSE 0
  <2>1. CASE dpms = 0  BY <1>3, <2>1
  <2>2. CASE dpms = 1  BY <1>3, <2>2
  <2> QED  BY <1>2, <2>1, <2>2
<1>11. SharePower(Class, device', results') = SharePower(Class, device, HappenedResults)
  BY <1>7, <1>9, <1>10 DEF SharePower, BacklightPower
<1> QED  BY <1>1, <1>3, <1>11, ShareTold DEF util

(***************************************************************************)
(* Energy.                                                                 *)
(***************************************************************************)
\* A counter shows what was added to it, but for its range each time it wraps.
LEMMA WrapsShow ==
  ASSUME NEW n \in Nat, NEW more \in Nat
  PROVE  /\ ((n % EnergyRange) + more) \div EnergyRange \in Nat
         /\ ((n + more) % EnergyRange) - (n % EnergyRange)
              = more - EnergyRange * (((n % EnergyRange) + more) \div EnergyRange)
<1>1. EnergyRange \in Nat /\ EnergyRange # 0  BY EnergyRangeAssumption
<1> DEFINE p == n \div EnergyRange
           r == n % EnergyRange
           q == (n + more) \div EnergyRange
           t == (n + more) % EnergyRange
           k == (r + more) \div EnergyRange
<1>2. p \in Nat /\ r \in Nat /\ r < EnergyRange /\ n = EnergyRange * p + r  BY <1>1
<1>3. q \in Nat /\ t \in Nat /\ t < EnergyRange /\ n + more = EnergyRange * q + t
  <2> DEFINE m == n + more
  <2>1. m \in Nat  OBVIOUS
  <2> HIDE DEF m
  <2>2. m \div EnergyRange \in Nat /\ m % EnergyRange \in Nat /\ m % EnergyRange < EnergyRange
        /\ m = EnergyRange * (m \div EnergyRange) + (m % EnergyRange)
    BY <1>1, <2>1
  <2> QED  BY <2>2 DEF m
<1>4. k \in Nat /\ \E u \in Nat : r + more = EnergyRange * k + u /\ u < EnergyRange
  <2> DEFINE m == r + more
  <2>1. m \in Nat  BY <1>2
  <2> HIDE DEF m
  <2>2. m \div EnergyRange \in Nat
        /\ \E u \in Nat : m = EnergyRange * (m \div EnergyRange) + u /\ u < EnergyRange
    BY <1>1, <2>1, DivIs
  <2> QED  BY <2>2 DEF m
<1> HIDE DEF p, r, q, t, k
<1>5. PICK u \in Nat : r + more = EnergyRange * k + u /\ u < EnergyRange  BY <1>4
<1>6. EnergyRange * q + t = EnergyRange * (p + k) + u
  <2>1. EnergyRange * (p + k) = EnergyRange * p + EnergyRange * k  BY <1>1, <1>2, <1>4
  <2>2. EnergyRange * p \in Nat /\ EnergyRange * k \in Nat /\ EnergyRange * q \in Nat
    BY <1>1, <1>2, <1>3, <1>4
  <2> DEFINE a == EnergyRange * p
             b == EnergyRange * k
             c == EnergyRange * q
  <2> HIDE DEF a, b, c
  <2>3. a \in Nat /\ b \in Nat /\ c \in Nat  BY <2>2 DEF a, b, c
  <2>4. n = a + r /\ r + more = b + u /\ n + more = c + t  BY <1>2, <1>3, <1>5 DEF a, b, c
  <2>5. c + t = (a + b) + u  BY <1>2, <1>3, <1>5, <2>3, <2>4
  <2> QED  BY <2>1, <2>5 DEF a, b, c
<1>7. q = p + k
  <2>1. p + k \in Nat  BY <1>2, <1>4
  <2> QED  BY <1>1, <1>3, <1>5, <1>6, <2>1, OneQuotient
<1>8. t = u
  <2> DEFINE e == EnergyRange * q
  <2>1. e \in Nat /\ e + t = e + u  BY <1>1, <1>3, <1>6, <1>7
  <2> HIDE DEF e
  <2> QED  BY <1>3, <1>5, <2>1
<1>9. t - r = more - EnergyRange * k
  <2> DEFINE e == EnergyRange * k
  <2>1. e \in Nat /\ r + more = e + t  BY <1>1, <1>4, <1>5, <1>8
  <2> HIDE DEF e
  <2>2. t - r = more - e  BY <1>2, <1>3, <2>1
  <2> QED  BY <2>2 DEF e
<1> QED  BY <1>4, <1>9 DEF r, t, k

LEMMA RaplTold == Telling /\ IsRapl => ShownNow' = Happened
<1> SUFFICES ASSUME Telling, IsRapl PROVE ShownNow' = Happened  OBVIOUS
<1>0. ~IsShare /\ Class \notin {"xe_energy", "nic"} \cup OtherClasses /\ IsCounted
  BY DEF IsRapl, IsShare, ShareClasses, OtherClasses, IsCounted
<1> DEFINE got == Got(EndReads)
           b == Count(began, EnergyCounter)
           n == Count(kernel, EnergyCounter)
           more == spent[EnergyCounter]
           time == spent[Now]
           energy == n % EnergyRange
<1>1. /\ present /\ Held /\ EndsWith(got) /\ unit \in Units
      /\ time \in Nat /\ time # 0 /\ began[Now] \in Nat /\ kernel[Now] \in Nat /\ kernel[Now] = began[Now] + time
      /\ Class' = Class /\ IsShare' = IsShare /\ IsRapl' = IsRapl
  BY EndIs
<1>2. b \in Nat /\ more \in Nat /\ n = b + more
  <2>1. EnergyCounter \in CounterKeys  BY <1>0, <1>1, KeysOfClass
  <2> QED  BY <2>1, EndIs
<1> HIDE DEF got, b, n
<1>3. device.valid  BY DEF Telling, Tellable
<1>4. /\ EnergyKey(device.rapl, Model) = EnergyCounter /\ DOMAIN device = RaplFields
  <2>1. mode = "recording" /\ phase # "new"  BY DEF Telling, EndMeasurement
  <2> QED  BY <1>3, <2>1 DEF Telling, RaplOK
<1>5. n = kernel[EnergyCounter] /\ b = began[EnergyCounter]
  BY <1>0 DEF Count, OtherClasses, b, n
<1>6. device.last_energy = b % EnergyRange /\ device.last_time = began[Now]  BY <1>1, <1>3 DEF Held, b
<1>7. DeviceEndReads = RaplEndReads(device, Model, ReadContent(Now, 1))
  BY <1>0, <1>3 DEF DeviceEndReads, OtherClasses
<1>8. Now \in DOMAIN DeviceEndReads
      /\ (ReadContent(Now, 1) > device.last_time => EnergyCounter \in DOMAIN DeviceEndReads)
  <2>1. DOMAIN RaplEndReads(device, Model, ReadContent(Now, 1)) =
          {Now} \cup IF ReadContent(Now, 1) > device.last_time THEN {EnergyCounter} ELSE {}
    BY <1>4, OnceIs DEF RaplEndReads
  <2> QED  BY <1>7, <2>1
<1>9. got[Now] = kernel[Now] /\ Now \notin gone  BY <1>1, <1>8 DEF EndsWith
<1>10. ReadContent(Now, 1) = kernel[Now]  BY <1>9 DEF ReadContent, Content, Telling
<1>11. EnergyCounter \in DOMAIN DeviceEndReads  BY <1>1, <1>6, <1>8, <1>10
<1>12. got[EnergyCounter] = n /\ n # Absent  BY <1>1, <1>5, <1>11 DEF EndsWith
<1>13. device' = RaplEnded(device, Model, got)
  <2>1. device' = DeviceEnded(got)  BY <1>1 DEF EndsWith
  <2> QED  BY <1>0, <1>3, <2>1 DEF DeviceEnded, OtherClasses
<1>14. EnergyStatus(got[EnergyCounter], device.last_energy) = energy  BY <1>12 DEF EnergyStatus
<1>15. got[Now] # device.last_time  BY <1>1, <1>6, <1>9
<1>16. device' = [device EXCEPT !.consumed = [energy |-> energy - device.last_energy, delta |-> got[Now] - device.last_time],
                                !.last_energy = energy, !.last_time = got[Now]]
  BY <1>4, <1>13, <1>14, <1>15 DEF RaplEnded
<1> HIDE DEF energy
<1>17. device'.consumed = [energy |-> energy - device.last_energy, delta |-> got[Now] - device.last_time]
       /\ device'.valid
  BY <1>3, <1>4, <1>16 DEF RaplFields
<1>18. energy - device.last_energy = more - EnergyRange * TimesWrapped
  <2>1. TimesWrapped = ((b % EnergyRange) + more) \div EnergyRange  BY <1>5 DEF TimesWrapped
  <2> QED  BY <1>2, <1>6, <2>1, WrapsShow DEF energy
<1>19. got[Now] - device.last_time = time  BY <1>1, <1>6, <1>9
<1>20. Happened = [energy |-> more - EnergyRange * TimesWrapped, delta |-> time]  BY <1>0 DEF Happened, OtherClasses
<1>21. ShownNow' = RaplPower(device')  BY <1>0, <1>1 DEF ShownNow, OtherClasses
<1> QED  BY <1>17, <1>18, <1>19, <1>20, <1>21 DEF RaplPower

LEMMA XeTold == Telling /\ Class = "xe_energy" => ShownNow' = Happened
<1> SUFFICES ASSUME Telling, Class = "xe_energy" PROVE ShownNow' = Happened  OBVIOUS
<1>0. ~IsShare /\ ~IsRapl /\ IsCounted  BY DEF IsRapl, IsShare, ShareClasses, IsCounted
<1> DEFINE got == Got(EndReads)
           b == Count(began, EnergyCounter)
           n == Count(kernel, EnergyCounter)
           more == spent[EnergyCounter]
           time == spent[Now]
<1>1. /\ present /\ Held /\ EndsWith(got) /\ unit \in Units
      /\ time \in Nat /\ time # 0 /\ began[Now] \in Nat /\ kernel[Now] \in Nat /\ kernel[Now] = began[Now] + time
      /\ Class' = Class /\ IsShare' = IsShare /\ IsRapl' = IsRapl
  BY EndIs
<1>2. b \in Nat /\ more \in Nat /\ n = b + more
  <2>1. EnergyCounter \in CounterKeys  BY <1>0, <1>1, KeysOfClass
  <2> QED  BY <2>1, EndIs
<1> HIDE DEF got, b, n
<1>3. device.energy_path  BY DEF Telling, Tellable
<1>4. DOMAIN device = XeFields  BY DEF Telling, ShapeOK
<1>5. n = kernel[Channel] /\ EnergyCounter = Channel  BY EnergyCounterIs DEF Count, n
<1>6. device.last_energy = b /\ device.last_time = began[Now]  BY <1>1, <1>3 DEF Held, b
<1>7. DeviceEndReads = XeEndReads(device, ReadContent(Now, 1))  BY <1>0 DEF DeviceEndReads
<1>8. Now \in DOMAIN DeviceEndReads
      /\ (ReadContent(Now, 1) > device.last_time => Channel \in DOMAIN DeviceEndReads)
  <2>1. DOMAIN XeEndReads(device, ReadContent(Now, 1)) =
          {Now} \cup IF ReadContent(Now, 1) > device.last_time THEN {Channel} ELSE {}
    BY <1>3, OnceIs DEF XeEndReads
  <2> QED  BY <1>7, <2>1
<1>9. got[Now] = kernel[Now] /\ Now \notin gone  BY <1>1, <1>8 DEF EndsWith
<1>10. ReadContent(Now, 1) = kernel[Now]  BY <1>9 DEF ReadContent, Content, Telling
<1>11. Channel \in DOMAIN DeviceEndReads  BY <1>1, <1>6, <1>8, <1>10
<1>12. got[Channel] = n /\ n # Absent  BY <1>1, <1>5, <1>11 DEF EndsWith
<1>13. device' = XeEnded(device, got)
  <2>1. device' = DeviceEnded(got)  BY <1>1 DEF EndsWith
  <2> QED  BY <1>0, <2>1 DEF DeviceEnded
<1>14. ReadUint64(got[Channel]) = n  BY <1>12 DEF ReadUint64
<1>15. got[Now] # device.last_time  BY <1>1, <1>6, <1>9
<1>16. device' = [device EXCEPT !.last_energy = n, !.last_time = got[Now],
                    !.consumed = [energy |-> n - device.last_energy, delta |-> got[Now] - device.last_time]]
  BY <1>3, <1>13, <1>14, <1>15 DEF XeEnded
<1>17. device'.consumed = [energy |-> n - device.last_energy, delta |-> got[Now] - device.last_time]
       /\ device'.energy_path
  BY <1>3, <1>4, <1>16 DEF XeFields
<1>18. n - device.last_energy = more  BY <1>2, <1>6
<1>19. got[Now] - device.last_time = time  BY <1>1, <1>6, <1>9
<1>20. Happened = [energy |-> more, delta |-> time]  BY <1>0 DEF Happened
<1>21. ShownNow' = XePower(device')  BY <1>0, <1>1 DEF ShownNow
<1> QED  BY <1>17, <1>18, <1>19, <1>20, <1>21 DEF XePower

(***************************************************************************)
(* Residency.                                                              *)
(***************************************************************************)
GpuTook(names) ==
  /\ device'.ended - device'.began = spent[Now] /\ device'.ended # device'.began
  /\ \A s \in names : /\ device'.after[s] \in Nat /\ device'.before[s] \in Nat /\ spent[R(s)] \in Nat
                      /\ device'.after[s] = device'.before[s] + spent[R(s)]

LEMMA GpuAfter ==
  ASSUME Telling, NEW names, (Class = "rc6" /\ names = Rc6States) \/ (Class = "xe_gts" /\ names = Gts)
  PROVE  GpuTook(names)
<1>0. ~IsShare /\ ~IsRapl  BY DEF IsRapl, IsShare, ShareClasses
<1> DEFINE got == Got(EndReads)
<1>1. /\ Held /\ EndsWith(got) /\ unit \in Units
      /\ spent[Now] \in Nat /\ spent[Now] # 0 /\ began[Now] \in Nat /\ kernel[Now] = began[Now] + spent[Now]
      /\ \A k \in CounterKeys : /\ spent[k] \in Nat /\ Count(began, k) \in Nat /\ Count(kernel, k) \in Nat
                                /\ Count(kernel, k) = Count(began, k) + spent[k]
  BY EndIs
<1> HIDE DEF got
<1>2. DOMAIN device = GpuFields  BY DEF Telling, ShapeOK
<1>3. device' = GpuEnded(device, names, got)
  <2>1. device' = DeviceEnded(got)  BY <1>1 DEF EndsWith
  <2> QED  BY <1>0, <2>1 DEF DeviceEnded
<1>4. /\ device'.after = Milliseconds(names, got) /\ device'.ended = got[TheTime]
      /\ device'.before = device.before /\ device'.began = device.began
  BY <1>2, <1>3 DEF GpuEnded, GpuFields
<1>5. DeviceEndReads = Once({TheTime} \cup {R(s) : s \in names})
  BY <1>0 DEF DeviceEndReads, DeviceStartReads, Rc6Reads, XeReads, R
<1>6. DOMAIN DeviceEndReads = {TheTime} \cup {R(s) : s \in names}  BY <1>5, OnceIs, Zenon
<1>7. got[TheTime] = kernel[Now]  BY <1>1, <1>6, KeysAre DEF EndsWith
<1>8. device.began = began[Now] /\ \A s \in names : device.before[s] = began[R(s)]  BY <1>1 DEF Held
<1>9. ASSUME NEW s \in names
      PROVE  /\ device'.after[s] \in Nat /\ device'.before[s] \in Nat /\ spent[R(s)] \in Nat
             /\ device'.after[s] = device'.before[s] + spent[R(s)]
  <2>1. got[R(s)] = kernel[R(s)] /\ kernel[R(s)] # Absent  BY <1>1, <1>6 DEF EndsWith
  <2>2. Milliseconds(names, got)[s] = ReadUint64(got[R(s)])  BY DEF Milliseconds, R
  <2>3. device'.after[s] = kernel[R(s)]  BY <1>4, <2>1, <2>2 DEF ReadUint64
  <2>4. R(s) \in CounterKeys  BY <1>1, KeysOfClass
  <2>5. Count(kernel, R(s)) = kernel[R(s)] /\ Count(began, R(s)) = began[R(s)]  BY DEF Count
  <2> QED  BY <1>1, <1>4, <1>8, <2>3, <2>4, <2>5
<1> QED  BY <1>1, <1>4, <1>7, <1>8, <1>9 DEF GpuTook

LEMMA Rc6Told == Telling /\ Class = "rc6" => ShownNow' = Happened
<1> SUFFICES ASSUME Telling, Class = "rc6" PROVE ShownNow' = Happened  OBVIOUS
<1>0. ~IsShare /\ ~IsRapl /\ ~IsCounted  BY DEF IsRapl, IsShare, ShareClasses, IsCounted
<1> DEFINE time == spent[Now]
           all == spent[R("rc6")] + spent[R("rc6p")] + spent[R("rc6pp")]
           ms(s) == device'.after[s] - device'.before[s]
<1>1. /\ device'.ended - device'.began = time /\ device'.ended # device'.began
      /\ \A s \in Rc6States : spent[R(s)] \in Nat /\ ms(s) = spent[R(s)]
  <2>1. GpuTook(Rc6States)  BY GpuAfter
  <2> QED  BY <2>1 DEF GpuTook
<1>2. time \in Nat /\ time # 0 /\ Class' = Class /\ IsShare' = IsShare /\ IsRapl' = IsRapl  BY EndIs
<1>3. all \in Nat /\ all <= time /\ all = ms("rc6") + ms("rc6p") + ms("rc6pp")
      /\ \A s \in Rc6States : spent[R(s)] <= time
  <2>1. all <= time  BY SpentShares
  <2> QED  BY <1>1, <1>2, <2>1 DEF Rc6States
<1> HIDE DEF all, time
<1>4. ASSUME NEW part \in Nat, part <= time
      PROVE  GpuShare(device', part) = Percent(part, time) /\ Percent(part, time) \in 0..100
  BY <1>1, <1>2, <1>4, PercentRange DEF GpuShare
<1>5. Rc6Lines(device') =
        [s \in Rc6States \cup {"on"} |->
           IF s = "on" THEN Clamped(100 - GpuShare(device', ms("rc6") + ms("rc6p") + ms("rc6pp")))
           ELSE Clamped(GpuShare(device', ms(s)))]
  BY <1>1 DEF Rc6Lines
<1>6. Clamped(100 - GpuShare(device', ms("rc6") + ms("rc6p") + ms("rc6pp"))) = 100 - Percent(all, time)
  <2>1. GpuShare(device', all) = Percent(all, time) /\ Percent(all, time) \in 0..100  BY <1>3, <1>4
  <2>2. 100 - Percent(all, time) \in 0..100  BY <2>1
  <2>3. Clamped(100 - Percent(all, time)) = 100 - Percent(all, time)  BY <2>2, Bounded
  <2> QED  BY <1>3, <2>1, <2>3
<1>7. \A s \in Rc6States : Clamped(GpuShare(device', ms(s))) = Spent(s)
  <2> TAKE s \in Rc6States
  <2>1. GpuShare(device', ms(s)) = Percent(spent[R(s)], time) /\ Percent(spent[R(s)], time) \in 0..100
    BY <1>1, <1>3, <1>4
  <2> QED  BY <2>1, Bounded DEF Spent, time
<1>8. Happened = [s \in Rc6States \cup {"on"} |-> IF s = "on" THEN 100 - Percent(all, time) ELSE Spent(s)]
  BY <1>0 DEF Happened, all, time
<1>9. ShownNow' = Rc6Lines(device')  BY <1>0, <1>2 DEF ShownNow
<1> HIDE DEF ms
<1>10. Rc6Lines(device') = [s \in Rc6States \cup {"on"} |-> IF s = "on" THEN 100 - Percent(all, time) ELSE Spent(s)]
  BY <1>5, <1>6, <1>7
<1> QED  BY <1>8, <1>9, <1>10

LEMMA GtsTold == Telling /\ Class = "xe_gts" => ShownNow' = Happened
<1> SUFFICES ASSUME Telling, Class = "xe_gts" PROVE ShownNow' = Happened  OBVIOUS
<1>0. ~IsShare /\ ~IsRapl /\ ~IsCounted  BY DEF IsRapl, IsShare, ShareClasses, IsCounted
<1> DEFINE time == spent[Now]
<1>1. /\ device'.ended - device'.began = time /\ device'.ended # device'.began
      /\ \A g \in Gts : /\ device'.after[g] \in Nat /\ device'.before[g] \in Nat /\ spent[R(g)] \in Nat
                        /\ device'.after[g] = device'.before[g] + spent[R(g)]
  <2>1. GpuTook(Gts)  BY GpuAfter
  <2> QED  BY <2>1 DEF GpuTook
<1>2. time \in Nat /\ time # 0 /\ Class' = Class /\ IsShare' = IsShare /\ IsRapl' = IsRapl /\ unit \in Units  BY EndIs
<1>3. \A g \in Gts : spent[R(g)] <= time
  <2>1. \A g \in Gts : R(g) \in CounterKeys  BY <1>2, KeysOfClass
  <2> QED  BY <2>1, SpentShares
<1> HIDE DEF time
<1>4. ASSUME NEW g \in Gts
      PROVE  Clamped(100 - (IF device'.after[g] >= device'.before[g]
                            THEN GpuShare(device', device'.after[g] - device'.before[g]) ELSE 0)) = 100 - Spent(g)
  <2>1. device'.after[g] >= device'.before[g] /\ device'.after[g] - device'.before[g] = spent[R(g)]  BY <1>1
  <2>2. GpuShare(device', spent[R(g)]) = Percent(spent[R(g)], time) /\ Percent(spent[R(g)], time) \in 0..100
    BY <1>1, <1>2, <1>3, PercentRange DEF GpuShare
  <2>3. 100 - Percent(spent[R(g)], time) \in 0..100  BY <2>2
  <2>4. Clamped(100 - Percent(spent[R(g)], time)) = 100 - Percent(spent[R(g)], time)  BY <2>3, Bounded
  <2> QED  BY <2>1, <2>2, <2>4 DEF Spent, time
<1>5. results' = XeBusy(device', results)
  <2>1. results' = Reported(device')  BY EndIs DEF EndsWith
  <2> QED  BY <1>0, <2>1 DEF Reported
<1>6. XeBusy(device', results) =
        [g \in Gts |-> Clamped(100 - (IF device'.after[g] >= device'.before[g]
                                      THEN GpuShare(device', device'.after[g] - device'.before[g]) ELSE 0))]
  BY <1>1 DEF XeBusy
<1>7. Happened = [g \in Gts |-> 100 - Spent(g)]  BY <1>0 DEF Happened
<1>8. ShownNow' = results'  BY <1>0, <1>2 DEF ShownNow
<1> QED  BY <1>4, <1>5, <1>6, <1>7, <1>8

LEMMA CpuTold == Telling /\ Class = "cpu" => ShownNow' = Happened
<1> SUFFICES ASSUME Telling, Class = "cpu" PROVE ShownNow' = Happened  OBVIOUS
<1>0. ~IsShare /\ ~IsRapl /\ ~IsCounted  BY DEF IsRapl, IsShare, ShareClasses, IsCounted
<1> DEFINE got == Got(EndReads)
           keys == {Tsc, Aperf, Mperf}
           a == spent[Aperf]
           m == spent[Mperf]
           t == spent[Now]
<1>1. /\ Held /\ EndsWith(got) /\ unit \in Units /\ Class' = Class /\ IsShare' = IsShare /\ IsRapl' = IsRapl
      /\ t \in Nat /\ t # 0 /\ began[Now] \in Nat /\ kernel[Now] = began[Now] + t
      /\ \A k \in CounterKeys : /\ spent[k] \in Nat /\ Count(began, k) \in Nat
                                /\ Count(kernel, k) = Count(began, k) + spent[k]
  BY EndIs
<1> HIDE DEF got
<1>2. DOMAIN device = {"before", "after"} /\ \A k \in {Tsc, Aperf, Mperf, Now} : device.before[k] = began[k]
  BY <1>1 DEF Held
<1>3. device' = CpuEnded(device, got)
  <2>1. device' = DeviceEnded(got)  BY <1>1 DEF EndsWith
  <2> QED  BY <1>0, <2>1 DEF DeviceEnded
<1>4. device'.before = device.before /\ device'.after = got  BY <1>2, <1>3 DEF CpuEnded
<1>5. DOMAIN DeviceEndReads = {Aperf, Mperf, Tsc, Now}
  <2>1. DeviceEndReads = CpuReads  BY <1>0 DEF DeviceEndReads, DeviceStartReads
  <2> QED  BY <2>1, OnceIs, KeysAre DEF CpuReads
<1>6. \A k \in {Tsc, Aperf, Mperf, Now} : device'.after[k] = kernel[k] /\ device'.before[k] = began[k]
  BY <1>1, <1>2, <1>4, <1>5 DEF EndsWith
<1>7. /\ \A k \in keys : device'.after[k] - device'.before[k] = spent[k] /\ spent[k] \in Nat
      /\ device'.after[Now] - device'.before[Now] = t
  <2>1. \A k \in keys : k \in CounterKeys /\ Count(began, k) = began[k] /\ Count(kernel, k) = kernel[k]
    BY <1>1, KeysOfClass DEF Count
  <2> QED  BY <1>1, <1>6, <2>1
<1>8. m > 0 /\ spent[Tsc] = 2 * t
  BY SpentShares DEF Telling, Tellable
<1>9. a \in Nat /\ m \in Nat  BY <1>7
<1>10. AvgFreq(device', 0) = (spent[Tsc] * a) \div (m * t)
  <2>1. TheTime = Now  BY KeysAre
  <2>2. device'.after[Mperf] - device'.before[Mperf] = m /\ device'.after[Tsc] - device'.before[Tsc] = spent[Tsc]
        /\ device'.after[Aperf] - device'.before[Aperf] = a /\ device'.after[TheTime] - device'.before[TheTime] = t
    BY <1>7, <2>1
  <2> HIDE DEF a, m, t
  <2> QED  BY <1>1, <1>8, <1>9, <2>2 DEF AvgFreq
<1>11. (spent[Tsc] * a) \div (m * t) = (2 * a) \div m
  <2> HIDE DEF a, m, t
  <2>1. (t * (2 * a)) \div (t * m) = (2 * a) \div m
    <3>1. 2 * a \in Nat /\ m # 0  BY <1>8, <1>9
    <3> DEFINE x == 2 * a
    <3> HIDE DEF x
    <3>2. (t * x) \div (t * m) = x \div m  BY <1>1, <1>9, <3>1, DivCancel DEF x
    <3> QED  BY <3>2 DEF x
  <2>2. spent[Tsc] * a = t * (2 * a) /\ m * t = t * m  BY <1>1, <1>8, <1>9
  <2> QED  BY <2>1, <2>2
<1>12. Happened = [mhz |-> (2 * a) \div m]  BY <1>0 DEF Happened
<1>13. ShownNow' = [mhz |-> AvgFreq(device', 0)]  BY <1>0, <1>1 DEF ShownNow
<1> QED  BY <1>10, <1>11, <1>12, <1>13

LEMMA UnitTold == Telling /\ Class \in {"core", "package"} => ShownNow' = Happened
<1> SUFFICES ASSUME Telling, Class \in {"core", "package"} PROVE ShownNow' = Happened  OBVIOUS
<1>0. ~IsShare /\ ~IsRapl /\ ~IsCounted  BY DEF IsRapl, IsShare, ShareClasses, IsCounted
<1> DEFINE got == Got(EndReads)
           names == StatesOf(Class, Model)
           Place(s) == Register(Class, Model, s)
           t == spent[Now]
<1>1. /\ Held /\ EndsWith(got) /\ unit \in Units /\ Class' = Class /\ IsShare' = IsShare /\ IsRapl' = IsRapl
      /\ t \in Nat /\ t # 0 /\ began[Now] \in Nat /\ kernel[Now] = began[Now] + t
      /\ \A k \in CounterKeys : /\ spent[k] \in Nat /\ Count(began, k) \in Nat
                                /\ Count(kernel, k) = Count(began, k) + spent[k]
  BY EndIs
<1> HIDE DEF got
<1>2. /\ DOMAIN device = {"before", "tsc_before", "stamp_before", "durations", "time_factor"}
      /\ device.stamp_before = began[Now] /\ device.tsc_before = began[Tsc]
      /\ device.before = [s \in names |-> began[Place(s)]]
  BY <1>1 DEF Held
<1>3. device' = UnitEnded(Class, Model, device, got)
  <2>1. device' = DeviceEnded(got)  BY <1>1 DEF EndsWith
  <2> QED  BY <1>0, <2>1 DEF DeviceEnded
<1>4. DOMAIN DeviceEndReads = {Tsc, TheTime} \cup {Place(s) : s \in names}
  <2>1. DeviceEndReads = UnitReads(Class, Model)  BY <1>0 DEF DeviceEndReads, DeviceStartReads
  <2> QED  BY <2>1, OnceIs DEF UnitReads
<1>5. ASSUME NEW s \in names
      PROVE  /\ Place(s) \in CounterKeys /\ Place(s) = HardwareRegister(s)
             /\ got[Place(s)] = kernel[Place(s)]
  <2>1. Place(s) = HardwareRegister(s)  BY DEF HardwareRegister, Register, M
  <2>2. Place(s) = M("c7") \/ Place(s) = M(s)  BY DEF Register, M
  <2>3. Place(s) \in CounterKeys  BY <1>1, <2>2, KeysOfClass
  <2> QED  BY <1>1, <1>4, <2>1, <2>3 DEF EndsWith
<1>6. got[Tsc] = kernel[Tsc] /\ got[TheTime] = kernel[Now]  BY <1>1, <1>4, KeysAre DEF EndsWith
<1>7. /\ spent[Tsc] = 2 * t /\ Tsc \in CounterKeys
      /\ \A k \in CounterKeys : Count(began, k) = began[k] /\ Count(kernel, k) = kernel[k]
      /\ \A k \in CounterKeys : \E y \in Nat : spent[k] = 2 * y
  BY <1>1, SpentShares, KeysOfClass DEF Count
<1> HIDE DEF names, Place, t
<1> DEFINE time == got[TheTime] - device.stamp_before
           tsc == got[Tsc] - device.tsc_before
           after == Counters(Class, Model, got)
           took == [s \in DOMAIN after |-> IF tsc = 0 THEN 0 ELSE (time * (after[s] - device.before[s])) \div tsc]
<1>8. time = t /\ tsc = 2 * t  BY <1>1, <1>2, <1>6, <1>7
<1>9. DOMAIN after = names /\ \A s \in names : after[s] = kernel[Place(s)]
  BY <1>5 DEF Counters, names, Place
<1>10. device'.durations = took /\ device'.time_factor = time
  <2>1. device' = [device EXCEPT !.time_factor = time, !.durations = took]  BY <1>3 DEF UnitEnded
  <2> HIDE DEF time, took
  <2> QED  BY <1>2, <2>1
<1> HIDE DEF time, tsc, after
<1>11. ASSUME NEW s \in names
       PROVE  (100 * took[s]) \div time = Percent(spent[HardwareRegister(s)], spent[Tsc])
  <2> DEFINE used2 == spent[Place(s)]
  <2>1. PICK y \in Nat : used2 = 2 * y  BY <1>5, <1>7
  <2>2. after[s] - device.before[s] = used2
    <3>1. device.before[s] = began[Place(s)] /\ after[s] = kernel[Place(s)]  BY <1>2, <1>9
    <3> QED  BY <1>1, <1>5, <1>7, <3>1
  <2> HIDE DEF used2
  <2>3. took[s] = (t * used2) \div (2 * t)  BY <1>1, <1>8, <1>9, <2>2
  <2>4. (t * used2) \div (2 * t) = y
    <3> DEFINE b == 2 * t
    <3>1. t * used2 = b * y  BY <1>1, <2>1
    <3>2. b \in Nat /\ b # 0  BY <1>1
    <3> HIDE DEF b
    <3>3. (b * y) \div b = y  BY <3>2, DivProduct
    <3> QED  BY <3>1, <3>3 DEF b
  <2>5. Percent(used2, spent[Tsc]) = (100 * y) \div t
    <3>1. Percent(used2, spent[Tsc]) = (100 * used2) \div (2 * t)  BY <1>1, <1>7 DEF Percent
    <3> DEFINE x == 100 * y
    <3>2. 100 * used2 = 2 * x /\ x \in Nat  BY <2>1
    <3> HIDE DEF x
    <3>3. (2 * x) \div (2 * t) = x \div t  BY <1>1, <3>2, DivCancel
    <3> QED  BY <3>1, <3>2, <3>3 DEF x
  <2>6. took[s] = y  BY <2>3, <2>4
  <2> HIDE DEF took
  <2> QED  BY <1>5, <1>8, <2>5, <2>6 DEF used2
<1>12. DOMAIN took = names  BY <1>9
<1> HIDE DEF took
<1>13. Residencies(device') = [s \in names |-> (100 * took[s]) \div time]
  <2>1. time # 0  BY <1>1, <1>8
  <2> QED  BY <1>10, <1>12, <2>1 DEF Residencies
<1>14. Happened = [s \in names |-> Percent(spent[HardwareRegister(s)], spent[Tsc])]
  BY <1>0 DEF Happened, names
<1>15. ShownNow' = Residencies(device')  BY <1>0, <1>1 DEF ShownNow
<1> QED  BY <1>11, <1>13, <1>14, <1>15

(***************************************************************************)
(* Frequencies.                                                            *)
(***************************************************************************)
\* What is added up before the last of three states.
LEMMA OthersOfThree ==
  ASSUME NEW s, Len(s) = 3, NEW first \in Nat, NEW second \in Nat,
         (s[1].time_after - s[1].time_before) % Wide = first,
         (s[2].time_after - s[2].time_before) % Wide = second
  PROVE  FoldLeft(LAMBDA sum, i : sum + ((s[i].time_after - s[i].time_before) % Wide), 0,
                  [i \in 1..(Len(s) - 1) |-> i]) = first + second
<1> DEFINE seq == [i \in 1..(Len(s) - 1) |-> i]
           S == {1, 2}
           f == [a \in Int |-> [x \in S |-> a + ((s[x].time_after - s[x].time_before) % Wide)]]
           Behind(g) == g = [t \in SUBSET DOMAIN seq |->
                               IF t = {} THEN 0
                               ELSE g[t \ {Max(t)}] + ((s[seq[Max(t)]].time_after - s[seq[Max(t)]].time_before) % Wide)]
<1>0. seq \in Seq(S) /\ DOMAIN seq = 1..2 /\ Len(seq) = 2 /\ seq[1] = 1 /\ seq[2] = 2
  <2>1. Len(s) - 1 = 2  OBVIOUS
  <2>2. seq = [i \in 1..2 |-> i]  BY <2>1
  <2>3. \A i \in 1..2 : i \in S  OBVIOUS
  <2> QED  BY <2>2, <2>3
<1> DEFINE spend == [x \in S |-> (s[x].time_after - s[x].time_before) % Wide]
<1>00. spend[1] = first /\ spend[2] = second
       /\ \A x \in S : spend[x] \in Int /\ spend[x] = (s[x].time_after - s[x].time_before) % Wide
  <2>1. \A x \in S : spend[x] = (s[x].time_after - s[x].time_before) % Wide  OBVIOUS
  <2>2. 1 \in S /\ 2 \in S /\ \A x \in S : x = 1 \/ x = 2  OBVIOUS
  <2> HIDE DEF spend, S
  <2>3. spend[1] = first /\ spend[2] = second  BY <2>1, <2>2
  <2> QED  BY <2>1, <2>2, <2>3
<1> HIDE DEF seq, S, spend
<1>1. \E g : Behind(g)
  <2>1. \A a \in Int : \A x \in S : f[a][x] = a + spend[x]  BY <1>00
  <2> HIDE DEF f
  <2>2. \A a \in Int : \A x \in S : f[a][x] \in Int  BY <1>00, <2>1
  <2>3. PICK g : Folded(f, 0, seq, g) /\ \A t \in SUBSET DOMAIN seq : g[t] \in Int
    <3>1. seq \in Seq(S) /\ 0 \in Int  BY <1>0
    <3> QED  BY <2>2, <3>1, LeftFold
  <2>4. ASSUME NEW t \in SUBSET DOMAIN seq, t # {}
        PROVE  f[g[t \ {Max(t)}]][seq[Max(t)]] =
                 g[t \ {Max(t)}] + ((s[seq[Max(t)]].time_after - s[seq[Max(t)]].time_before) % Wide)
    <3>1. Max(t) \in t  BY <1>0, <2>4, MaxIn
    <3>2. seq[Max(t)] \in S /\ g[t \ {Max(t)}] \in Int  BY <1>0, <2>3, <3>1
    <3> QED  BY <1>00, <2>1, <3>2
  <2>5. Behind(g)  BY <2>3, <2>4 DEF Folded
  <2> QED  BY <2>5
<1>2. PICK g : /\ Behind(g)
               /\ FoldLeft(LAMBDA sum, i : sum + ((s[i].time_after - s[i].time_before) % Wide), 0, seq) = g[DOMAIN seq]
  BY <1>1 DEF FoldLeft, MapThenFoldSet
<1>3. \A t \in SUBSET DOMAIN seq :
        g[t] = IF t = {} THEN 0
               ELSE g[t \ {Max(t)}] + ((s[seq[Max(t)]].time_after - s[seq[Max(t)]].time_before) % Wide)
  BY <1>2, Zenon
<1> HIDE DEF Behind, f
<1>4. Max(1..1) = 1 /\ Max(1..2) = 2 /\ (1..1) \ {1} = {} /\ (1..2) \ {2} = 1..1 /\ 1..1 # {} /\ 1..2 # {}
  <2>1. 1 \in Nat /\ 1 # 0 /\ 2 \in Nat /\ 2 # 0  OBVIOUS
  <2>2. Max(1..1) = 1 /\ Max(1..2) = 2  BY <2>1, Initials, Zenon
  <2> QED  BY <2>2
<1>5. g[{}] = 0  BY <1>3
<1>6. g[1..1] = g[{}] + first
  <2>1. 1..1 \in SUBSET DOMAIN seq  BY <1>0
  <2>2. g[1..1] = g[(1..1) \ {Max(1..1)}] + ((s[seq[Max(1..1)]].time_after - s[seq[Max(1..1)]].time_before) % Wide)
    BY <1>3, <1>4, <2>1, Zenon
  <2> QED  BY <1>0, <1>4, <2>2
<1>7. g[1..2] = g[1..1] + second
  <2>1. 1..2 \in SUBSET DOMAIN seq  BY <1>0
  <2>2. g[1..2] = g[(1..2) \ {Max(1..2)}] + ((s[seq[Max(1..2)]].time_after - s[seq[Max(1..2)]].time_before) % Wide)
    BY <1>3, <1>4, <2>1, Zenon
  <2> QED  BY <1>0, <1>4, <2>2
<1>8. FoldLeft(LAMBDA sum, i : sum + ((s[i].time_after - s[i].time_before) % Wide), 0, seq) = first + second
  <2>1. g[DOMAIN seq] = first + second  BY <1>0, <1>5, <1>6, <1>7
  <2> QED  BY <1>2, <2>1
<1> QED  BY <1>8 DEF seq

LEMMA StampsOfThree ==
  ASSUME NEW s, Len(s) = 3, DOMAIN s = 1..3, NEW first \in Nat, NEW second \in Nat,
         (s[1].time_after - s[1].time_before) % Wide = first,
         (s[2].time_after - s[2].time_before) % Wide = second,
         NEW sample \in Nat, first + second <= sample
  PROVE  ProcessTimeStamps(s, sample) =
           [i \in 1..3 |-> [s[i] EXCEPT !.time_after =
              IF i = 1 THEN first ELSE IF i = 2 THEN second ELSE sample - first - second]]
<1> DEFINE others == FoldLeft(LAMBDA sum, i : sum + ((s[i].time_after - s[i].time_before) % Wide), 0,
                              [i \in 1..(Len(s) - 1) |-> i])
           value(i) == IF i < Len(s) THEN (s[i].time_after - s[i].time_before) % Wide
                       ELSE IF sample > others THEN sample - others ELSE 0
<1>1. others = first + second  BY OthersOfThree
<1>2. ProcessTimeStamps(s, sample) = [i \in DOMAIN s |-> [s[i] EXCEPT !.time_after = value(i)]]
  BY DEF ProcessTimeStamps
<1> HIDE DEF others
<1>3. ASSUME NEW i \in 1..3
      PROVE  value(i) = IF i = 1 THEN first ELSE IF i = 2 THEN second ELSE sample - first - second
  BY <1>1
<1> HIDE DEF value
<1> QED  BY <1>2, <1>3

LEMMA DevfreqTold == Telling /\ Class = "devfreq" => ShownNow' = Happened
<1> SUFFICES ASSUME Telling, Class = "devfreq" PROVE ShownNow' = Happened  OBVIOUS
<1>0. ~IsShare /\ ~IsRapl /\ ~IsCounted  BY DEF IsRapl, IsShare, ShareClasses, IsCounted
<1> DEFINE got == Got(EndReads)
           t == spent[Now]
           lower == Count(began, R("low"))
           higher == Count(began, R("high"))
           low == Count(kernel, R("low"))
           high == Count(kernel, R("high"))
           first == spent[R("low")]
           second == spent[R("high")]
<1>1. /\ Held /\ EndsWith(got) /\ unit \in Units /\ Class' = Class /\ IsShare' = IsShare /\ IsRapl' = IsRapl
      /\ t \in Nat /\ t # 0 /\ t <= MaxTicks /\ began[Now] \in Nat /\ kernel[Now] = began[Now] + t
      /\ MachineOK(kernel)
  BY EndIs
<1>2. /\ lower \in Nat /\ higher \in Nat /\ low \in Nat /\ high \in Nat /\ first \in Nat /\ second \in Nat
      /\ low = lower + first /\ high = higher + second
  <2>1. R("low") \in CounterKeys /\ R("high") \in CounterKeys  BY <1>1, KeysOfTheClass
  <2> QED  BY <2>1, EndIs
<1>3. first + second <= t  BY SpentShares
<1> HIDE DEF got
<1>4. /\ DOMAIN device = {"dstates", "stamp_before", "sample_time"} /\ device.stamp_before = began[Now]
      /\ device.dstates = <<Line(1, lower, 0), Line(2, higher, 0), Line(Idle, 0, 0)>>
  BY <1>1 DEF Held
<1>5. device' = DevfreqEnded(device, got)
  <2>1. device' = DeviceEnded(got)  BY <1>1 DEF EndsWith
  <2> QED  BY <1>0, <2>1 DEF DeviceEnded
<1>6. DOMAIN DeviceEndReads = {Now, TransStat}
  <2>1. DeviceEndReads = Once({Now, TransStat})  BY <1>0 DEF DeviceEndReads, DeviceStartReads
  <2> QED  BY <2>1, OnceIs, Zenon
<1>7. got[Now] = kernel[Now] /\ got[TransStat] = <<<<1, low>>, <<2, high>>>> /\ got[TransStat] # Absent
  <2>1. kernel[TransStat] = <<<<1, low>>, <<2, high>>>>  BY <1>1 DEF MachineOK
  <2> QED  BY <1>1, <1>6, <2>1 DEF EndsWith
<1> HIDE DEF t, lower, higher, low, high, first, second
<1> DEFINE parsed == <<Line(1, lower, low), Line(2, higher, high), Line(Idle, 0, 0)>>
<1>8. ParseTransStat(device.dstates, got[TransStat]) = parsed
  <2>1. <<<<1, low>>, <<2, high>>>> # Absent  BY <1>7
  <2>2. ParseTransStat(<<Line(1, lower, 0), Line(2, higher, 0), Line(Idle, 0, 0)>>, <<<<1, low>>, <<2, high>>>>) = parsed
    BY <1>2, <2>1, StatesAtEnd, Zenon
  <2> QED  BY <1>4, <1>7, <2>2
<1>9. got[<<"T", "now">>] - device.stamp_before = t  BY <1>1, <1>4, <1>7 DEF Now
<1> DEFINE dstates == ProcessTimeStamps(parsed, t)
<1>10. device'.dstates = dstates /\ device'.sample_time = t
  <2> HIDE DEF parsed
  <2>1. device' = [device EXCEPT !.dstates = ProcessTimeStamps(ParseTransStat(device.dstates, got[TransStat]),
                                                               got[<<"T", "now">>] - device.stamp_before),
                                 !.sample_time = got[<<"T", "now">>] - device.stamp_before]
    BY <1>5 DEF DevfreqEnded
  <2>2. device' = [device EXCEPT !.dstates = dstates, !.sample_time = t]  BY <1>8, <1>9, <2>1
  <2> HIDE DEF dstates
  <2> QED  BY <1>4, <2>2
<1>11. /\ Len(parsed) = 3 /\ DOMAIN parsed = 1..3 /\ parsed[1].freq = 1 /\ parsed[2].freq = 2 /\ parsed[3].freq = Idle
       /\ \A i \in 1..3 : DOMAIN parsed[i] = {"freq", "time_before", "time_after"}
       /\ parsed[1].time_after = low /\ parsed[1].time_before = lower
       /\ parsed[2].time_after = high /\ parsed[2].time_before = higher
  <2>1. \A i \in 1..3 : i = 1 \/ i = 2 \/ i = 3  OBVIOUS
  <2> QED  BY <2>1 DEF Line
<1> HIDE DEF parsed
<1>12. (parsed[1].time_after - parsed[1].time_before) % Wide = first
       /\ (parsed[2].time_after - parsed[2].time_before) % Wide = second
  <2>1. Wide \in Nat /\ MaxTicks \in Nat /\ MaxTicks < Wide  BY BoundsAssumption
  <2>2. low - lower = first /\ high - higher = second  BY <1>2
  <2>3. first < Wide /\ second < Wide  BY <1>1, <1>2, <1>3, <2>1
  <2>4. \A n \in Nat : n < Wide => n % Wide = n  BY <2>1
  <2> QED  BY <1>2, <1>11, <2>2, <2>3, <2>4
<1>13. dstates = [i \in 1..3 |-> [parsed[i] EXCEPT !.time_after =
                    IF i = 1 THEN first ELSE IF i = 2 THEN second ELSE t - first - second]]
  BY <1>1, <1>2, <1>3, <1>11, <1>12, StampsOfThree
<1> HIDE DEF dstates
<1>14. /\ DOMAIN dstates = 1..3
       /\ dstates[1].freq = 1 /\ dstates[1].time_after = first
       /\ dstates[2].freq = 2 /\ dstates[2].time_after = second
       /\ dstates[3].freq = Idle /\ dstates[3].time_after = t - first - second
  <2>1. \A i \in 1..3 : dstates[i] = [parsed[i] EXCEPT !.time_after =
                    IF i = 1 THEN first ELSE IF i = 2 THEN second ELSE t - first - second]
    BY <1>13
  <2>2. DOMAIN dstates = 1..3  BY <1>13
  <2>3. dstates[1] = [parsed[1] EXCEPT !.time_after = first] /\ dstates[2] = [parsed[2] EXCEPT !.time_after = second]
        /\ dstates[3] = [parsed[3] EXCEPT !.time_after = t - first - second]
    BY <2>1
  <2> QED  BY <1>11, <2>2, <2>3
<1> DEFINE Part(n) == (100 * n) \div t
           lines == FillFreqUtilization(device')
           told == <<[freq |-> 1, share |-> Part(first)], [freq |-> 2, share |-> Part(second)],
                     [freq |-> Idle, share |-> Part(t - first - second)]>>
<1>15. lines = [i \in 1..3 |-> [freq |-> dstates[i].freq, share |-> Part(dstates[i].time_after)]]
  BY <1>1, <1>10, <1>14 DEF FillFreqUtilization
<1>16. Happened = told
  <2>1. Percent(first, t) = Part(first) /\ Percent(second, t) = Part(second)
        /\ Percent(t - first - second, t) = Part(t - first - second)
    BY <1>1 DEF Percent
  <2>2. Happened = <<[freq |-> 1, share |-> Percent(first, t)], [freq |-> 2, share |-> Percent(second, t)],
                     [freq |-> Idle, share |-> Percent(t - first - second, t)]>>
    BY <1>0 DEF Happened, Spent, t, first, second
  <2> HIDE DEF Part
  <2> QED  BY <2>1, <2>2
<1> HIDE DEF Part
<1>17. lines = told
  <2>1. DOMAIN told = 1..3 /\ told[1] = [freq |-> 1, share |-> Part(first)]
        /\ told[2] = [freq |-> 2, share |-> Part(second)] /\ told[3] = [freq |-> Idle, share |-> Part(t - first - second)]
        /\ told = [i \in 1..3 |-> told[i]]
    OBVIOUS
  <2>2. lines[1] = [freq |-> 1, share |-> Part(first)]
        /\ lines[2] = [freq |-> 2, share |-> Part(second)] /\ lines[3] = [freq |-> Idle, share |-> Part(t - first - second)]
        /\ lines = [i \in 1..3 |-> lines[i]]
    <3> HIDE DEF lines
    <3> QED  BY <1>14, <1>15
  <2> HIDE DEF lines, told
  <2>3. \A i \in 1..3 : i = 1 \/ i = 2 \/ i = 3  OBVIOUS
  <2>4. \A i \in 1..3 : lines[i] = told[i]  BY <2>1, <2>2, <2>3
  <2> QED  BY <2>1, <2>2, <2>4
<1> HIDE DEF told
<1>18. ShownNow' = FillFreqUtilization(device')  BY <1>0, <1>1 DEF ShownNow
<1> QED  BY <1>16, <1>17, <1>18 DEF lines

(***************************************************************************)
(* Network cards.                                                          *)
(***************************************************************************)
\* The classes of the speeds that a card may have.
LEMMA SpeedClasses ==
  ASSUME unit \in Units, Class = "nic", NEW machine, MachineOK(machine)
  PROVE  /\ SpeedAt(machine) \in {100} <=> machine[I("link")] = 1 /\ machine[I("speed")] \in 1..100
         /\ SpeedAt(machine) \in {1000} <=> machine[I("link")] = 1 /\ machine[I("speed")] \in 101..1000
         /\ SpeedAt(machine) \in {speed \in Nat : speed > 1000} <=>
              machine[I("link")] = 1 /\ machine[I("speed")] \in {2500}
<1> DEFINE link == machine[I("link")]
           speed == machine[I("speed")]
<1>1. link \in {0, 1} /\ speed \in {10, 300, 2500}
  <2>1. I("link") \in LevelKeys /\ I("speed") \in LevelKeys /\ I("link")[2] = "link" /\ I("speed")[2] = "speed"
    BY KeysOfClass, KeyNames
  <2>2. link \in Level("link") /\ speed \in Level("speed")  BY <2>1 DEF MachineOK
  <2>3. Level("link") \subseteq {0, 1} /\ Level("speed") \subseteq {10, 300, 2500}  BY DEF Level
  <2> QED  BY <2>2, <2>3
<1>2. SpeedAt(machine) = IF link = 0 THEN 0 ELSE SpeedClass(speed)  BY DEF SpeedAt
<1> HIDE DEF link, speed
<1>3. CASE speed = 10
  <2>1. SpeedClass(speed) = 100  BY <1>3 DEF SpeedClass
  <2> QED  BY <1>1, <1>2, <1>3, <2>1 DEF link, speed
<1>4. CASE speed = 300
  <2>1. SpeedClass(speed) = 1000  BY <1>4 DEF SpeedClass
  <2> QED  BY <1>1, <1>2, <1>4, <2>1 DEF link, speed
<1>5. CASE speed = 2500
  <2>1. SpeedClass(speed) = 2500  BY <1>5 DEF SpeedClass
  <2> QED  BY <1>1, <1>2, <1>5, <2>1 DEF link, speed
<1> QED  BY <1>1, <1>3, <1>4, <1>5

\* A card after its measurement.
LEMMA NicAfter ==
  ASSUME Telling, Class = "nic"
  PROVE  /\ device'.start_up = began[I("up")] /\ device'.start_speed = SpeedAt(began)
         /\ device'.end_up = kernel[I("up")] /\ device'.end_speed = SpeedAt(kernel)
         /\ device'.valid = [r \in NicResults |-> UtilizationPowerValid(r)]
<1>0. ~IsShare /\ ~IsRapl  BY DEF IsRapl, IsShare, ShareClasses
<1> DEFINE got == Got(EndReads)
           read == DoProcNetDev(device, got, kernel[Now])
           ended == NicEnded(device, got, kernel[Now])
           count == IF device.start_pkts > read.pkts THEN device.start_pkts ELSE read.pkts
<1>1. Held /\ EndsWith(got) /\ unit \in Units /\ MachineOK(kernel) /\ gone = {}  BY EndIs
<1> HIDE DEF got
<1>2. NicShape(device)  BY DEF Telling, ShapeOK
<1>3. device' = NicCharged(ended)
  <2>1. device' = DeviceEnded(got)  BY <1>1 DEF EndsWith
  <2> QED  BY <1>0, <2>1 DEF DeviceEnded
<1>4. DOMAIN read = NicFields /\ read.start_up = device.start_up /\ read.start_speed = device.start_speed
      /\ read.valid = device.valid
  BY <1>2 DEF DoProcNetDev, NicShape, NicFields
<1>5. ended = [read EXCEPT !.end_pkts = count, !.after = got[<<"T", "now">>],
                           !.end_up = get_iface_up, !.end_speed = get_iface_speed]
  BY DEF NicEnded
<1> HIDE DEF read, ended, count
<1>6. /\ DOMAIN ended = NicFields /\ ended.valid = device.valid
      /\ ended.start_up = device.start_up /\ ended.start_speed = device.start_speed
      /\ ended.end_up = get_iface_up /\ ended.end_speed = get_iface_speed
  BY <1>4, <1>5 DEF NicFields
<1> DEFINE valid == [r \in NicResults |-> UtilizationPowerValid(r)]
<1>7. device.valid \in {<<>>, valid}  BY <1>2 DEF NicShape
<1> HIDE DEF valid
<1>8. device'.valid = valid
  <2>1. CASE ended.valid # <<>>
    <3>1. device' = ended  BY <1>3, <2>1 DEF NicCharged
    <3> QED  BY <1>6, <1>7, <2>1, <3>1
  <2>2. CASE ended.valid = <<>>
    <3>1. device' = [ended EXCEPT !.valid = valid]  BY <1>3, <2>2 DEF NicCharged, valid
    <3> QED  BY <1>6, <3>1 DEF NicFields
  <2> QED  BY <2>1, <2>2
<1>9. /\ device'.start_up = ended.start_up /\ device'.start_speed = ended.start_speed
      /\ device'.end_up = ended.end_up /\ device'.end_speed = ended.end_speed
  <2>1. device' = ended \/ device' = [ended EXCEPT !.valid = valid]  BY <1>3 DEF NicCharged, valid
  <2> QED  BY <1>6, <2>1 DEF NicFields
<1>10. device.start_up = began[I("up")] /\ device.start_speed = SpeedAt(began)  BY <1>1 DEF Held
<1>11. get_iface_up = kernel[I("up")] /\ get_iface_speed = SpeedAt(kernel)  BY <1>1, NicAnswers
<1> QED  BY <1>6, <1>8, <1>9, <1>10, <1>11 DEF valid

\* The share of a measurement for which the link had one of the speeds of a class.
LEMMA LinkedFor ==
  ASSUME NEW d, d.start_speed = SpeedAt(began), d.end_speed = SpeedAt(kernel), NEW class, NEW speeds,
         SpeedAt(began) \in class <=> began[I("link")] = 1 /\ began[I("speed")] \in speeds,
         SpeedAt(kernel) \in class <=> kernel[I("link")] = 1 /\ kernel[I("speed")] \in speeds
  PROVE  LinkShare(d, class) = Linked(speeds)
<1> DEFINE S == {m \in {1, 2} : (IF m = 1 THEN d.start_speed ELSE d.end_speed) \in class}
           T == {m \in {1, 2} : LET machine == IF m = 1 THEN began ELSE kernel
                                IN machine[I("link")] = 1 /\ machine[I("speed")] \in speeds}
<1>1. \A m \in {1, 2} : m \in S <=> m \in T  OBVIOUS
<1>2. S = T  BY <1>1
<1> QED  BY <1>2 DEF LinkShare, Linked

LEMMA NicTold == Telling /\ Class = "nic" => ShownNow' = Happened
<1> SUFFICES ASSUME Telling, Class = "nic" PROVE ShownNow' = Happened  OBVIOUS
<1>0. ~IsShare /\ ~IsRapl  BY DEF IsRapl, IsShare, ShareClasses
<1>1. /\ unit \in Units /\ MachineOK(began) /\ MachineOK(kernel) /\ gone = {}
      /\ results' = Reported(device') /\ power' = Charged(device', results')
      /\ Class' = Class /\ IsShare' = IsShare /\ IsRapl' = IsRapl
  BY EndIs DEF EndsWith
<1>2. /\ device'.start_up = began[I("up")] /\ device'.start_speed = SpeedAt(began)
      /\ device'.end_up = kernel[I("up")] /\ device'.end_speed = SpeedAt(kernel)
      /\ device'.valid = [r \in NicResults |-> UtilizationPowerValid(r)]
  BY NicAfter
<1>3. LinkShare(device', {100}) = Linked(1..100)  BY <1>1, <1>2, SpeedClasses, LinkedFor
<1>4. LinkShare(device', {1000}) = Linked(101..1000)  BY <1>1, <1>2, SpeedClasses, LinkedFor
<1>5. LinkShare(device', {speed \in Nat : speed > 1000}) = Linked({2500})  BY <1>1, <1>2, SpeedClasses, LinkedFor
<1>6. get_wifi_power_saving = kernel[I("saving")]  BY <1>1, NicAnswers
<1>7. NicReports(device') = HappenedResults
  <2>1. HappenedResults =
          [up |-> began[I("up")] + kernel[I("up")], powerunsave |-> 100 - 100 * kernel[I("saving")],
           link_100 |-> Linked(1..100), link_1000 |-> Linked(101..1000), link_high |-> Linked({2500})]
    BY DEF HappenedResults
  <2>2. NicReports(device') =
          [up |-> began[I("up")] + kernel[I("up")], powerunsave |-> 100 - 100 * kernel[I("saving")],
           link_100 |-> Linked(1..100), link_1000 |-> Linked(101..1000), link_high |-> Linked({2500})]
    BY <1>2, <1>3, <1>4, <1>5, <1>6 DEF NicReports
  <2> QED  BY <2>1, <2>2
<1>8. results' = HappenedResults  BY <1>0, <1>1, <1>7 DEF Reported
<1>9. power' = NicPower([r \in NicResults |-> UtilizationPowerValid(r)], HappenedResults)
  BY <1>0, <1>1, <1>2, <1>8 DEF Charged
<1>10. ShownNow' = [results |-> results', charge |-> power']  BY <1>0, <1>1 DEF ShownNow
<1>11. Happened = [results |-> HappenedResults,
                   charge |-> NicPower([r \in NicResults |-> UtilizationPowerValid(r)], HappenedResults)]
  BY <1>0 DEF Happened
<1> QED  BY <1>8, <1>9, <1>10, <1>11

\* What is shown of a measurement that can be told is what happened.
LEMMA Told == Telling => ShownNow' = Happened
<1> SUFFICES ASSUME Telling PROVE ShownNow' = Happened  OBVIOUS
<1>1. Class \in Classes
  <2>1. unit \in Units  BY EndIs
  <2> QED  BY <2>1, KindsOfUnits
<1>2. CASE Class \in {"usb", "alsa", "runtime_pm", "ahci", "rfkill", "backlight"}
  BY <1>2, UsbTold, AlsaTold, RuntimePmTold, AhciTold, RfkillTold, BacklightTold
<1>3. CASE Class \in {"fan", "light", "xe_fan"}  BY <1>3, FansTold
<1>4. CASE IsRapl  BY <1>4, RaplTold
<1>5. CASE Class \in {"xe_energy", "nic"}  BY <1>5, XeTold, NicTold
<1>6. CASE Class \in {"devfreq", "core", "package", "cpu", "rc6", "xe_gts"}
  BY <1>6, DevfreqTold, UnitTold, CpuTold, Rc6Told, GtsTold
<1> QED  BY <1>1, <1>2, <1>3, <1>4, <1>5, <1>6 DEF Classes, ShareClasses, IsRapl

(***************************************************************************)
(* The measurements of a recording.                                        *)
(***************************************************************************)
\* What is shown of a device of a kind.
Shown(u, d, reported, charge) ==
  CASE u.class \in ShareClasses -> [share |-> ShareUtilization(u.class, d), charge |-> charge]
    [] u.class = "nic" -> [results |-> reported, charge |-> charge]
    [] u.class \in {"rapl_powercap", "rapl_msr"} -> RaplPower(d)
    [] u.class = "xe_energy" -> XePower(d)
    [] u.class = "devfreq" -> FillFreqUtilization(d)
    [] u.class \in {"core", "package"} -> Residencies(d)
    [] u.class = "cpu" -> [mhz |-> AvgFreq(d, 0)]
    [] u.class = "rc6" -> Rc6Lines(d)
    [] u.class = "xe_gts" -> reported

LEMMA ShownIs ==
  /\ ShownNow = Shown(unit, device, results, power)
  /\ ShownNow' = Shown(unit', device', results', power')
<1>1. ShownNow = Shown(unit, device, results, power)
  BY DEF ShownNow, Shown, Class, IsShare, IsRapl
<1>2. ShownNow' = Shown(unit', device', results', power')
  BY DEF ShownNow, Shown, Class, IsShare, IsRapl
<1> QED  BY <1>1, <1>2

\* Each measurement has left a truth, and the last one is told as it is.
TruthsOK ==
  mode = "recording" =>
    /\ phase # "thrown"
    /\ \E S : truths \in Seq(S)
    /\ phase \in {"new", "created", "ended"} => number = Len(truths)
    /\ phase = "started" => number = Len(truths) + 1
    /\ phase = "ended" => /\ number # 0 /\ truths[number].present = present
                          /\ truths[number].whole => ShownNow = truths[number].shown

RecordOK == BaseOK /\ ShapeOK /\ RaplOK /\ HeldOK /\ TruthsOK

LEMMA TruthsInit == Init => TruthsOK
<1> SUFFICES ASSUME Init PROVE TruthsOK  OBVIOUS
<1>1. phase = "new" /\ truths = <<>> /\ number = 0  BY DEF Init
<1>2. <<>> \in Seq({}) /\ Len(<<>>) = 0  OBVIOUS
<1> QED  BY <1>1, <1>2 DEF TruthsOK

LEMMA TruthsKept ==
  ASSUME TruthsOK, UNCHANGED <<unit, phase, present, device, results, power, number, mode, truths>>
  PROVE  TruthsOK'
<1>1. ShownNow' = ShownNow  BY ShownIs
<1> QED  BY <1>1 DEF TruthsOK

\* What a sequence has after something is appended.
LEMMA Appended ==
  ASSUME NEW S, NEW s \in Seq(S), NEW e
  PROVE  /\ \E T : Append(s, e) \in Seq(T)
         /\ Len(Append(s, e)) = Len(s) + 1 /\ Len(s) \in Nat
         /\ Append(s, e)[Len(s) + 1] = e
         /\ \A i \in 1..Len(s) : Append(s, e)[i] = s[i]
<1> DEFINE T == S \cup {e}
<1>1. s \in Seq(T) /\ e \in T  OBVIOUS
<1> HIDE DEF T
<1>2. Append(s, e) \in Seq(T)  BY <1>1
<1> QED  BY <1>1, <1>2

LEMMA TruthsEnd == RecordOK /\ EndMeasurement => TruthsOK'
<1> SUFFICES ASSUME RecordOK, EndMeasurement, mode = "recording" PROVE TruthsOK'
  BY DEF TruthsOK, EndMeasurement
<1> DEFINE told == whole /\ Readable(EndReads) /\ Tellable
           truth == [present |-> present, whole |-> told, shown |-> IF told THEN Happened ELSE <<>>]
<1>1. /\ phase = "started" /\ phase' = "ended" /\ UNCHANGED <<number, present, mode>>
      /\ truths' = Append(truths, truth)
  BY DEF EndMeasurement
<1>2. number = Len(truths) + 1 /\ \E S : truths \in Seq(S)  BY <1>1 DEF RecordOK, TruthsOK
<1>3. told => ShownNow' = Happened  BY Told DEF RecordOK, Telling
<1>4. truth.present = present /\ (truth.whole => told /\ truth.shown = Happened)  OBVIOUS
<1> HIDE DEF truth, told
<1>5. /\ \E S : truths' \in Seq(S)
      /\ Len(truths') = number' /\ number' # 0 /\ truths'[number'] = truth
  <2>1. PICK S : truths \in Seq(S)  BY <1>2
  <2>2. /\ \E T : Append(truths, truth) \in Seq(T)
        /\ Len(Append(truths, truth)) = Len(truths) + 1 /\ Len(truths) \in Nat
        /\ Append(truths, truth)[Len(truths) + 1] = truth
    BY <2>1, Appended
  <2> QED  BY <1>1, <1>2, <2>2
<1> QED  BY <1>1, <1>3, <1>4, <1>5 DEF TruthsOK

LEMMA TruthsNext == RecordOK /\ [Next]_vars => TruthsOK'
<1> SUFFICES ASSUME RecordOK, [Next]_vars PROVE TruthsOK'  OBVIOUS
<1>0. TruthsOK  BY DEF RecordOK
<1>1. CASE Tick  BY <1>0, <1>1, TruthsKept DEF Tick
<1>2. CASE SetLevel  BY <1>0, <1>2, TruthsKept DEF SetLevel
<1>3. CASE Lost  BY <1>0, <1>3, TruthsKept DEF Lost
<1>4. CASE Found  BY <1>0, <1>4, TruthsKept DEF Found, history
<1>5. CASE Create  BY <1>0, <1>5 DEF Create, history, TruthsOK
<1>6. CASE StartMeasurement
  <2>1. phase \in {"created", "ended"} /\ phase' = "started" /\ number' = number + 1 /\ UNCHANGED <<mode, truths>>
    BY <1>6 DEF StartMeasurement, MayStart
  <2> QED  BY <1>0, <2>1 DEF TruthsOK
<1>7. CASE EndMeasurement  BY <1>7, TruthsEnd
<1>8. CASE Stop
  <2>1. UNCHANGED <<mode, truths>> /\ (mode = "recording" => phase' = "exited")  BY <1>8 DEF Stop, history
  <2> QED  BY <1>0, <2>1 DEF TruthsOK
<1>9. CASE Replay  BY <1>9 DEF Replay, SaveAndLoad, TruthsOK
<1>10. CASE UNCHANGED vars  BY <1>0, <1>10, TruthsKept DEF vars
<1> QED  BY <1>1, <1>2, <1>3, <1>4, <1>5, <1>6, <1>7, <1>8, <1>9, <1>10 DEF Next

LEMMA RecordInit == Init => RecordOK
<1> SUFFICES ASSUME Init PROVE RecordOK  OBVIOUS
<1>1. mode = "recording" /\ phase = "new"  BY DEF Init, FrameworkInit
<1>2. RaplOK /\ HeldOK  BY <1>1 DEF RaplOK, HeldOK
<1> QED  BY <1>2, BaseInit, ShapeInit, TruthsInit DEF RecordOK

LEMMA RecordNext == RecordOK /\ [Next]_vars => RecordOK'
BY BaseNext, ShapeNext, RaplNext, HeldNext, TruthsNext DEF RecordOK

(***************************************************************************)
(* How a device is looked for by what was read.                            *)
(***************************************************************************)
Looked(class, g) ==
  LET has(k) == g[k] # Absent
  IN CASE class = "usb" -> Look({A("active")} \cup And(has(A("active")), {R("bDeviceClass")}), has(A("active")))
       [] class = "alsa" -> Look({A("on")}, has(A("on")))
       [] class = "ahci" -> Look({Accounting}, has(Accounting))
       [] class = "backlight" -> Look({D("backlight")}, has(D("backlight")))
       [] class = "rfkill" ->
            Look({D("rfkill")} \cup And(has(D("rfkill")), {R("name")}), has(D("rfkill")))
       [] class = "fan" -> Look({A("rate")}, has(A("rate")))
       [] class = "light" -> Look({A("level")}, has(A("level")))
       [] class = "runtime_pm" ->
            LET files == {R("suspended")} \cup And(~has(R("suspended")), {R("active")})
            IN Look({D("bus")} \cup And(has(D("bus")), files), has(D("bus")) /\ \E f \in files : has(f))
       [] class = "xe_energy" ->
            LET channel == has(D("hwmon")) /\ has(A("power1_label"))
            IN Look({D("hwmon")} \cup And(has(D("hwmon")), {A("power1_label")}) \cup And(channel, {A("energy1")})
                      \cup And(channel /\ has(A("energy1")), {Channel, Now}), TRUE)
       [] class = "xe_fan" ->
            Look({D("hwmon")} \cup And(has(D("hwmon")), {A("rate")}), has(D("hwmon")) /\ has(A("rate")))
       [] class = "devfreq" ->
            [reads |-> All({D("devfreq")}, IF has(D("devfreq")) THEN 2 ELSE 1), found |-> has(D("devfreq"))]
       [] class = "rc6" ->
            Look({D("drm")} \cup And(has(D("drm")), {A("rc6")}), has(D("drm")) /\ has(A("rc6")))
       [] class = "xe_gts" ->
            [reads |-> Over(All({D("drm")}, IF has(D("drm")) THEN 2 ELSE 1),
                            Once(And(has(D("drm")), {A(gt) : gt \in Gts}))),
             found |-> has(D("drm"))]
       [] OTHER -> Look({}, TRUE)

Same(reads, g) == \A k \in DOMAIN reads : g[k] = ReadContent(k, 1)

LEMMA LookIs == \A keys, found : DOMAIN Look(keys, found).reads = keys /\ Look(keys, found).found = found
BY OnceIs DEF Look

\* Looking sees the same when the same is read.
LEMMA LookAgrees ==
  ASSUME NEW class, class # "nic", NEW g, Same(LookFor(class).reads, g) \/ Same(Looked(class, g).reads, g)
  PROVE  Looked(class, g) = LookFor(class)
<1> DEFINE has(k) == g[k] # Absent
           seen(k) == ReadContent(k, 1) # Absent
           Known(k) == k \in DOMAIN LookFor(class).reads /\ k \in DOMAIN Looked(class, g).reads
<1>1. \A k : Known(k) => has(k) = seen(k)  BY DEF Same
<1>2. \A k : Present(k) = seen(k)  BY DEF Present
<1>3. \A f : Accessible(f) = seen(A(f))  BY DEF Accessible
<1>4. CASE class = "alsa"
  <2>1. Looked(class, g) = Look({A("on")}, has(A("on")))  BY <1>4 DEF Looked
  <2>2. LookFor(class) = Look({A("on")}, seen(A("on")))  BY <1>2, <1>3, <1>4 DEF LookFor, LookForAlsa
  <2> HIDE DEF has, seen
  <2> QED  BY <1>1, <2>1, <2>2, LookIs
<1>5. CASE class = "ahci"
  <2>1. Looked(class, g) = Look({Accounting}, has(Accounting))  BY <1>5 DEF Looked
  <2>2. LookFor(class) = Look({Accounting}, seen(Accounting))  BY <1>2, <1>3, <1>5 DEF LookFor, LookForAhci
  <2> HIDE DEF has, seen
  <2> QED  BY <1>1, <2>1, <2>2, LookIs
<1>6. CASE class = "backlight"
  <2>1. Looked(class, g) = Look({D("backlight")}, has(D("backlight")))  BY <1>6 DEF Looked
  <2>2. LookFor(class) = Look({D("backlight")}, seen(D("backlight")))  BY <1>2, <1>3, <1>6 DEF LookFor, LookForBacklight
  <2> HIDE DEF has, seen
  <2> QED  BY <1>1, <2>1, <2>2, LookIs
<1>7. CASE class = "fan"
  <2>1. Looked(class, g) = Look({A("rate")}, has(A("rate")))  BY <1>7 DEF Looked
  <2>2. LookFor(class) = Look({A("rate")}, seen(A("rate")))  BY <1>2, <1>3, <1>7 DEF LookFor, LookForFan
  <2> HIDE DEF has, seen
  <2> QED  BY <1>1, <2>1, <2>2, LookIs
<1>8. CASE class = "light"
  <2>1. Looked(class, g) = Look({A("level")}, has(A("level")))  BY <1>8 DEF Looked
  <2>2. LookFor(class) = Look({A("level")}, seen(A("level")))  BY <1>2, <1>3, <1>8 DEF LookFor, LookForLight
  <2> HIDE DEF has, seen
  <2> QED  BY <1>1, <2>1, <2>2, LookIs
<1>9. CASE class = "usb"
  <2>1. Looked(class, g) = Look({A("active")} \cup And(has(A("active")), {R("bDeviceClass")}), has(A("active")))  BY <1>9 DEF Looked
  <2>2. LookFor(class) = Look({A("active")} \cup And(seen(A("active")), {R("bDeviceClass")}), seen(A("active")))
    BY <1>2, <1>3, <1>9 DEF LookFor, LookForUsb
  <2> HIDE DEF has, seen
  <2>3. has(A("active")) = seen(A("active"))  BY <1>1, <2>1, <2>2, LookIs
  <2>4. has(A("active")) => (has(R("bDeviceClass")) = seen(R("bDeviceClass")))  BY <1>1, <2>1, <2>2, <2>3, LookIs DEF And
  <2> QED  BY <2>1, <2>2, <2>3, <2>4 DEF And
<1>10. CASE class = "rfkill"
  <2>1. Looked(class, g) = Look({D("rfkill")} \cup And(has(D("rfkill")), {R("name")}), has(D("rfkill")))  BY <1>10 DEF Looked
  <2>2. LookFor(class) = Look({D("rfkill")} \cup And(seen(D("rfkill")), {R("name")}), seen(D("rfkill")))
    BY <1>2, <1>3, <1>10 DEF LookFor, LookForRfkill
  <2> HIDE DEF has, seen
  <2>3. has(D("rfkill")) = seen(D("rfkill"))  BY <1>1, <2>1, <2>2, LookIs
  <2>4. has(D("rfkill")) => (has(R("name")) = seen(R("name")))  BY <1>1, <2>1, <2>2, <2>3, LookIs DEF And
  <2> QED  BY <2>1, <2>2, <2>3, <2>4 DEF And
<1>11. CASE class = "xe_fan"
  <2>1. Looked(class, g) = Look({D("hwmon")} \cup And(has(D("hwmon")), {A("rate")}), has(D("hwmon")) /\ has(A("rate")))  BY <1>11 DEF Looked
  <2>2. LookFor(class) = Look({D("hwmon")} \cup And(seen(D("hwmon")), {A("rate")}), seen(D("hwmon")) /\ seen(A("rate")))
    BY <1>2, <1>3, <1>11 DEF LookFor, LookForXeFan
  <2> HIDE DEF has, seen
  <2>3. has(D("hwmon")) = seen(D("hwmon"))  BY <1>1, <2>1, <2>2, LookIs
  <2>4. has(D("hwmon")) => (has(A("rate")) = seen(A("rate")))  BY <1>1, <2>1, <2>2, <2>3, LookIs DEF And
  <2> QED  BY <2>1, <2>2, <2>3, <2>4 DEF And
<1>12. CASE class = "rc6"
  <2>1. Looked(class, g) = Look({D("drm")} \cup And(has(D("drm")), {A("rc6")}), has(D("drm")) /\ has(A("rc6")))  BY <1>12 DEF Looked
  <2>2. LookFor(class) = Look({D("drm")} \cup And(seen(D("drm")), {A("rc6")}), seen(D("drm")) /\ seen(A("rc6")))
    BY <1>2, <1>3, <1>12 DEF LookFor, LookForRc6
  <2> HIDE DEF has, seen
  <2>3. has(D("drm")) = seen(D("drm"))  BY <1>1, <2>1, <2>2, LookIs
  <2>4. has(D("drm")) => (has(A("rc6")) = seen(A("rc6")))  BY <1>1, <2>1, <2>2, <2>3, LookIs DEF And
  <2> QED  BY <2>1, <2>2, <2>3, <2>4 DEF And
<1>13. CASE class = "runtime_pm"
  <2> DEFINE bus == D("bus")
             first == R("suspended")
             last == R("active")
             Files1 == {first} \cup And(~has(first), {last})
             Files2 == {first} \cup And(~seen(first), {last})
  <2>1. Looked(class, g) = Look({bus} \cup And(has(bus), Files1), has(bus) /\ \E f \in Files1 : has(f))
    BY <1>13 DEF Looked
  <2>2. LookFor(class) = Look({bus} \cup And(seen(bus), Files2), seen(bus) /\ \E f \in Files2 : seen(f))
    BY <1>2, <1>3, <1>13 DEF LookFor, LookForRuntimePm, RuntimePmFiles
  <2>0. /\ DOMAIN Looked(class, g).reads = {bus} \cup And(has(bus), Files1)
        /\ DOMAIN LookFor(class).reads = {bus} \cup And(seen(bus), Files2)
    <3> DEFINE K1 == {bus} \cup And(has(bus), Files1)
               K2 == {bus} \cup And(seen(bus), Files2)
               F1 == has(bus) /\ \E f \in Files1 : has(f)
               F2 == seen(bus) /\ \E f \in Files2 : seen(f)
    <3>1. Looked(class, g) = Look(K1, F1) /\ LookFor(class) = Look(K2, F2)  BY <2>1, <2>2
    <3> HIDE DEF K1, K2, F1, F2
    <3>2. DOMAIN Looked(class, g).reads = K1 /\ DOMAIN LookFor(class).reads = K2  BY <3>1, LookIs
    <3> QED  BY <3>2 DEF K1, K2
  <2> HIDE DEF has, seen, bus, first, last
  <2>3. has(bus) = seen(bus)  BY <1>1, <2>0
  <2>4. has(bus) => (has(first) = seen(first))  BY <1>1, <2>0, <2>3 DEF And
  <2>5. has(bus) /\ ~has(first) => (has(last) = seen(last))  BY <1>1, <2>0, <2>3, <2>4 DEF And
  <2>6. CASE ~has(bus)  BY <2>1, <2>2, <2>3, <2>6 DEF And
  <2>7. CASE has(bus) /\ has(first)
    <3>1. Files1 = Files2 /\ \A f \in Files1 : has(f) = seen(f)  BY <2>4, <2>7 DEF And
    <3> QED  BY <2>1, <2>2, <2>3, <2>7, <3>1
  <2>8. CASE has(bus) /\ ~has(first)
    <3>1. Files1 = Files2 /\ \A f \in Files1 : has(f) = seen(f)  BY <2>4, <2>5, <2>8 DEF And
    <3> QED  BY <2>1, <2>2, <2>3, <2>8, <3>1
  <2> QED  BY <2>6, <2>7, <2>8
<1>14. CASE class = "xe_energy"
  <2> DEFINE dir == D("hwmon")
             label == A("power1_label")
             file == A("energy1")
  <2>1. Looked(class, g) = Look({dir} \cup And(has(dir), {label}) \cup And(has(dir) /\ has(label), {file})
                                  \cup And((has(dir) /\ has(label)) /\ has(file), {Channel, Now}), TRUE)
    BY <1>14 DEF Looked
  <2>2. LookFor(class) = Look({dir} \cup And(seen(dir), {label}) \cup And(seen(dir) /\ seen(label), {file})
                                  \cup And((seen(dir) /\ seen(label)) /\ seen(file), {Channel, Now}), TRUE)
    BY <1>2, <1>3, <1>14 DEF LookFor, LookForXe
  <2> DEFINE K1 == {dir} \cup And(has(dir), {label}) \cup And(has(dir) /\ has(label), {file})
                     \cup And((has(dir) /\ has(label)) /\ has(file), {Channel, Now})
             K2 == {dir} \cup And(seen(dir), {label}) \cup And(seen(dir) /\ seen(label), {file})
                     \cup And((seen(dir) /\ seen(label)) /\ seen(file), {Channel, Now})
  <2>0. Looked(class, g) = Look(K1, TRUE) /\ LookFor(class) = Look(K2, TRUE)  BY <2>1, <2>2
  <2> HIDE DEF has, seen, dir, label, file, K1, K2
  <2>00. DOMAIN Looked(class, g).reads = K1 /\ DOMAIN LookFor(class).reads = K2  BY <2>0, LookIs
  <2>3. has(dir) = seen(dir)  BY <1>1, <2>00 DEF K1, K2
  <2>4. has(dir) => (has(label) = seen(label))  BY <1>1, <2>00, <2>3 DEF And, K1, K2
  <2>5. has(dir) /\ has(label) => (has(file) = seen(file))  BY <1>1, <2>00, <2>3, <2>4 DEF And, K1, K2
  <2>6. K1 = K2  BY <2>3, <2>4, <2>5 DEF And, K1, K2
  <2> QED  BY <2>0, <2>6
<1>15. CASE class = "devfreq"
  <2> DEFINE dir == D("devfreq")
             Listed(there) == [reads |-> All({dir}, IF there THEN 2 ELSE 1), found |-> there]
  <2>1. Looked(class, g) = Listed(has(dir))  BY <1>15 DEF Looked
  <2>2. LookFor(class) = Listed(seen(dir))  BY <1>2, <1>15 DEF LookFor, LookForDevfreq
  <2>3. \A there : DOMAIN Listed(there).reads = {dir}  BY DEF All
  <2> HIDE DEF has, seen, dir, Listed
  <2>4. has(dir) = seen(dir)  BY <1>1, <2>1, <2>2, <2>3
  <2>5. Listed(TRUE) = Listed(TRUE) /\ (has(dir) = seen(dir))  BY <2>4
  <2> QED  BY <2>1, <2>2, <2>4
<1>16. CASE class = "xe_gts"
  <2> DEFINE dir == D("drm")
             Listed(there) == [reads |-> Over(All({dir}, IF there THEN 2 ELSE 1), Once(And(there, {A(gt) : gt \in Gts}))),
                               found |-> there]
  <2>1. Looked(class, g) = Listed(has(dir))  BY <1>16 DEF Looked
  <2>2. LookFor(class) = Listed(seen(dir))  BY <1>2, <1>16 DEF LookFor, LookForXeCard
  <2>3. \A there : dir \in DOMAIN Listed(there).reads  BY DEF All, Over
  <2> HIDE DEF has, seen, dir, Listed
  <2>4. has(dir) = seen(dir)  BY <1>1, <2>1, <2>2, <2>3
  <2> QED  BY <2>1, <2>2, <2>4
<1>17. CASE class \notin ShareClasses \cup {"xe_energy", "devfreq", "rc6", "xe_gts"}
  <2>1. Looked(class, g) = Look({}, TRUE)  BY <1>17 DEF Looked, ShareClasses
  <2>2. LookFor(class) = Look({}, TRUE)  BY <1>17 DEF LookFor, ShareClasses
  <2> QED  BY <2>1, <2>2
<1> QED  BY <1>4, <1>5, <1>6, <1>7, <1>8, <1>9, <1>10, <1>11, <1>12, <1>13, <1>14, <1>15, <1>16, <1>17 DEF ShareClasses

(***************************************************************************)
(* What a handler reads and what it makes of it, by the device, its state  *)
(* and what is read: a replay goes where its recording went.  Network      *)
(* cards and RAPL's registers are not replayed.                            *)
(***************************************************************************)
Replayable == Class \notin {"nic", "rapl_msr"}

NowState ==
  [present |-> present, device |-> device, results |-> results, power |-> power,
   number |-> number, phase |-> phase]

CreateReadsBy(u, g) ==
  IF u.class = "rapl_powercap"
  THEN Over(All(And(u.model \in g[Powercap], {EnergyFile(u.model)}), 1), Over(Once({Now}), Once({Powercap})))
  ELSE Looked(u.class, g).reads

CreatedBy(u, s, g) ==
  CASE u.class = "rapl_powercap" -> RaplCreated([powercap |-> TRUE, domains |-> g[Powercap]], u.model, g)
    [] u.class = "xe_energy" -> XeCreated(g)
    [] u.class = "usb" -> NewUsb(g[R("bDeviceClass")])
    [] OTHER -> s.device

DeviceReadsBy(u, d) ==
  CASE u.class \in ShareClasses -> Once({R(f) : f \in StartFiles(u.class)})
    [] u.class = "rapl_powercap" -> IF d.valid THEN Once({Now, EnergyKey(d.rapl, u.model)}) ELSE Once({})
    [] u.class = "xe_energy" -> XeStartReads(d)
    [] u.class = "devfreq" -> Once({Now, TransStat})
    [] u.class \in {"core", "package"} -> UnitReads(u.class, u.model)
    [] u.class = "cpu" -> CpuReads
    [] u.class = "rc6" -> Rc6Reads
    [] u.class = "xe_gts" -> XeReads

LookAgainBy(u, s, g) ==
  CASE u.class = "usb" /\ ~s.present -> Looked("usb", g)
    [] u.class = "usb" /\ s.present -> LookForKnownUsb
    [] OTHER -> Look({}, s.present)

StartReadsBy(u, s, g) ==
  Over(LookAgainBy(u, s, g).reads, IF LookAgainBy(u, s, g).found THEN DeviceReadsBy(u, s.device) ELSE Once({}))

AtStartBy(u, s, g) ==
  CASE u.class = "usb" /\ ~s.present -> NewUsb(g[R("bDeviceClass")])
    [] u.class = "usb" /\ s.present /\ u.model # "reported" /\ s.number # 1 -> PrecomputeValid(s.device)
    [] OTHER -> s.device

StartedBy(u, d, g) ==
  CASE u.class \in ShareClasses -> ShareStarted(u.class, d, Files(g))
    [] u.class = "rapl_powercap" -> IF d.valid THEN RaplStarted(d, u.model, g) ELSE d
    [] u.class = "xe_energy" -> XeStarted(d, g)
    [] u.class = "devfreq" -> DevfreqStarted(g)
    [] u.class \in {"core", "package"} -> UnitStarted(u.class, u.model, g)
    [] u.class = "cpu" -> CpuStarted(g)
    [] u.class = "rc6" -> GpuStarted(d, Rc6States, g)
    [] u.class = "xe_gts" -> GpuStarted(d, Gts, g)

EndReadsBy(u, s, g) ==
  CASE ~s.present -> Once({})
    [] s.present /\ u.class \in ShareClasses -> Once({R(f) : f \in EndFiles(u.class)})
    [] s.present /\ u.class = "rapl_powercap" ->
         IF s.device.valid THEN RaplEndReads(s.device, u.model, g[Now]) ELSE Once({})
    [] s.present /\ u.class = "xe_energy" -> XeEndReads(s.device, g[Now])
    [] OTHER -> DeviceReadsBy(u, s.device)

EndedBy(u, d, g) ==
  CASE u.class \in ShareClasses -> ShareEnded(u.class, d, Files(g))
    [] u.class = "rapl_powercap" -> IF d.valid THEN RaplEnded(d, u.model, g) ELSE d
    [] u.class = "xe_energy" -> XeEnded(d, g)
    [] u.class = "devfreq" -> DevfreqEnded(d, g)
    [] u.class \in {"core", "package"} -> UnitEnded(u.class, u.model, d, g)
    [] u.class = "cpu" -> CpuEnded(d, g)
    [] u.class = "rc6" -> GpuEnded(d, Rc6States, g)
    [] u.class = "xe_gts" -> GpuEnded(d, Gts, g)

ReportedBy(u, d, reported) ==
  CASE u.class \in ShareClasses -> Over(ShareReports(u.class, d), reported)
    [] u.class = "xe_gts" -> XeBusy(d, reported)
    [] OTHER -> reported

ChargedBy(u, d, reported) == IF u.class \in ShareClasses THEN SharePower(u.class, d, reported) ELSE 0

ReadsBy(u, s, g) ==
  CASE s.phase = "new" -> CreateReadsBy(u, g)
    [] s.phase = "started" -> EndReadsBy(u, s, g)
    [] OTHER -> StartReadsBy(u, s, g)

AfterCreate(u, s, g) ==
  [s EXCEPT !.present = Looked(u.class, g).found,
            !.device = IF Looked(u.class, g).found THEN CreatedBy(u, s, g) ELSE @,
            !.phase = "created"]

AfterStart(u, s, g) ==
  [s EXCEPT !.present = LookAgainBy(u, s, g).found,
            !.device = IF LookAgainBy(u, s, g).found THEN StartedBy(u, AtStartBy(u, s, g), g) ELSE @,
            !.number = s.number + 1,
            !.phase = "started"]

AfterEnd(u, s, g) ==
  LET ended == EndedBy(u, s.device, g)
      reported == ReportedBy(u, ended, s.results)
  IN IF s.present
     THEN [s EXCEPT !.device = ended, !.results = reported, !.power = ChargedBy(u, ended, reported), !.phase = "ended"]
     ELSE [s EXCEPT !.phase = "ended"]

After(u, s, g) ==
  CASE s.phase = "new" -> AfterCreate(u, s, g)
    [] s.phase = "started" -> AfterEnd(u, s, g)
    [] OTHER -> AfterStart(u, s, g)

LEMMA DeviceReadsAre == Replayable => DeviceStartReads = DeviceReadsBy(unit, device)
BY DEF DeviceStartReads, DeviceReadsBy, Replayable, Class, Model, IsShare, IsRapl

LEMMA StartedIs == \A d, g : Replayable => DeviceStarted(d, g) = StartedBy(unit, d, g)
BY DEF DeviceStarted, StartedBy, Replayable, Class, Model, IsShare, IsRapl

LEMMA EndedIs == \A g : Replayable => DeviceEnded(g) = EndedBy(unit, device, g)
BY DEF DeviceEnded, EndedBy, Replayable, Class, Model, IsShare, IsRapl

LEMMA AtStartIs == \A g : AtStart(g) = AtStartBy(unit, NowState, g)
BY DEF AtStart, AtStartBy, NowState, Class, Model, Learned

LEMMA ReportedIs ==
  ASSUME Replayable
  PROVE  \A d : Reported(d) = ReportedBy(unit, d, results) /\ \A r : Charged(d, r) = ChargedBy(unit, d, r)
BY DEF Reported, ReportedBy, Charged, ChargedBy, Replayable, Class, IsShare

LEMMA SameOver ==
  ASSUME NEW f, NEW h, NEW g, Same(Over(f, h), g)
  PROVE  Same(f, g) /\ Same(h, g)
<1>1. DOMAIN Over(f, h) = DOMAIN f \cup DOMAIN h  BY OverIs, Zenon
<1> QED  BY <1>1 DEF Same

\* When the same is read, the same is read on.
LEMMA CreateAgrees ==
  ASSUME Replayable, NEW g, Class = "rapl_powercap" => g[Powercap] # Absent,
         Same(CreateReads, g) \/ Same(CreateReadsBy(unit, g), g)
  PROVE  /\ CreateReadsBy(unit, g) = CreateReads
         /\ LookFor(Class).found = Looked(unit.class, g).found
         /\ Class = "rapl_powercap" => Listing = g[Powercap]
<1>0. Class = unit.class /\ Model = unit.model  BY DEF Class, Model
<1>1. CASE Class = "rapl_powercap"
  <2> DEFINE own == IF Model \in RaplInterface(Listing).domains THEN {EnergyKey(RaplInterface(Listing), Model)} ELSE {}
             times == IF RaplInterface(Listing).powercap THEN 1 ELSE 2
             ownBy == And(unit.model \in g[Powercap], {EnergyFile(unit.model)})
  <2>1. CreateReads = Over(All(own, times), Over(Once({Now}), InterfaceReads(Listing)))
    BY <1>1 DEF CreateReads, RaplReads, IsRapl
  <2>2. CreateReadsBy(unit, g) = Over(All(ownBy, 1), Over(Once({Now}), Once({Powercap})))
    BY <1>0, <1>1 DEF CreateReadsBy
  <2> HIDE DEF own, times, ownBy
  <2>3. Powercap \in DOMAIN InterfaceReads(Listing) /\ Powercap \in DOMAIN Once({Powercap})
    BY OnceIs DEF InterfaceReads
  <2>4. Same(InterfaceReads(Listing), g) \/ Same(Once({Powercap}), g)
    <3>1. CASE Same(CreateReads, g)
      <4>1. Same(Over(Once({Now}), InterfaceReads(Listing)), g)  BY <2>1, <3>1, SameOver
      <4> QED  BY <4>1, SameOver
    <3>2. CASE Same(CreateReadsBy(unit, g), g)
      <4>1. Same(Over(Once({Now}), Once({Powercap})), g)  BY <2>2, <3>2, SameOver
      <4> QED  BY <4>1, SameOver
    <3> QED  BY <3>1, <3>2
  <2>5. Listing = g[Powercap]  BY <2>3, <2>4 DEF Same, Listing
  <2>6. Listing # Absent  BY <1>1, <2>5
  <2>7. InterfaceReads(Listing) = Once({Powercap})
    <3>1. {Powercap} \cup (IF Listing = Absent THEN {EnergyMsr(d) : d \in Domains} ELSE {}) = {Powercap}  BY <2>6
    <3> QED  BY <3>1 DEF InterfaceReads
  <2>8. RaplInterface(Listing).powercap = TRUE /\ RaplInterface(Listing).domains = Listing
    BY <2>6 DEF RaplInterface
  <2>9. own = ownBy /\ times = 1  BY <1>0, <2>5, <2>8 DEF own, ownBy, times, And, EnergyKey
  <2>10. LookFor(Class).found = TRUE /\ Looked(unit.class, g).found = TRUE  BY <1>0, <1>1 DEF LookFor, Looked, Look
  <2> QED  BY <2>1, <2>2, <2>5, <2>7, <2>9, <2>10
<1>2. CASE Class # "rapl_powercap"
  <2>1. CreateReads = LookFor(Class).reads  BY <1>2 DEF CreateReads, Replayable, IsRapl
  <2>2. CreateReadsBy(unit, g) = Looked(Class, g).reads  BY <1>0, <1>2 DEF CreateReadsBy
  <2>3. Looked(Class, g) = LookFor(Class)  BY <2>1, <2>2, LookAgrees DEF Replayable
  <2> QED  BY <1>0, <1>2, <2>1, <2>2, <2>3
<1> QED  BY <1>1, <1>2

LEMMA LookAgainAgrees ==
  ASSUME NEW g, Same(LookAgain.reads, g) \/ Same(LookAgainBy(unit, NowState, g).reads, g)
  PROVE  LookAgainBy(unit, NowState, g) = LookAgain
<1>0. Class = unit.class /\ NowState.present = present  BY DEF Class, NowState
<1>1. CASE Class = "usb" /\ ~present
  <2>1. LookAgain = LookFor("usb")  BY <1>1 DEF LookAgain, LookFor
  <2>2. LookAgainBy(unit, NowState, g) = Looked("usb", g)  BY <1>0, <1>1 DEF LookAgainBy
  <2> QED  BY <2>1, <2>2, LookAgrees
<1>2. CASE Class = "usb" /\ present  BY <1>0, <1>2 DEF LookAgain, LookAgainBy
<1>3. CASE Class # "usb"  BY <1>0, <1>3 DEF LookAgain, LookAgainBy
<1> QED  BY <1>1, <1>2, <1>3

LEMMA StartAgrees ==
  ASSUME Replayable, NEW g, Same(StartReads, g) \/ Same(StartReadsBy(unit, NowState, g), g)
  PROVE  StartReadsBy(unit, NowState, g) = StartReads /\ LookAgainBy(unit, NowState, g) = LookAgain
<1>1. LookAgainBy(unit, NowState, g) = LookAgain
  <2>1. Same(StartReads, g) => Same(LookAgain.reads, g)  BY SameOver DEF StartReads
  <2>2. Same(StartReadsBy(unit, NowState, g), g) => Same(LookAgainBy(unit, NowState, g).reads, g)
    BY SameOver DEF StartReadsBy
  <2> QED  BY <2>1, <2>2, LookAgainAgrees
<1>2. DeviceStartReads = DeviceReadsBy(unit, NowState.device)  BY DeviceReadsAre DEF NowState
<1> QED  BY <1>1, <1>2 DEF StartReads, StartReadsBy

LEMMA EndAgrees ==
  ASSUME Replayable, NEW g, Same(EndReads, g) \/ Same(EndReadsBy(unit, NowState, g), g)
  PROVE  EndReadsBy(unit, NowState, g) = EndReads
<1>0. Class = unit.class /\ Model = unit.model /\ NowState.present = present /\ NowState.device = device
  BY DEF Class, Model, NowState
<1>1. CASE ~present  BY <1>0, <1>1 DEF EndReads, EndReadsBy
<1>2. CASE present /\ IsShare
  <2> DEFINE files == Once({R(f) : f \in EndFiles(Class)})
  <2>0. Class \notin {"rapl_powercap", "rapl_msr", "xe_energy"}  BY <1>2 DEF IsShare, ShareClasses
  <2>1. EndReads = files  BY <1>2, <2>0 DEF EndReads, DeviceEndReads, IsRapl
  <2>2. EndReadsBy(unit, NowState, g) = files  BY <1>0, <1>2, <2>0 DEF EndReadsBy, IsShare
  <2> QED  BY <2>1, <2>2
<1>3. CASE present /\ Class = "rapl_powercap"
  <2> DEFINE seen == ReadContent(Now, 1)
  <2>0. unit.class \notin ShareClasses  BY <1>0, <1>3 DEF ShareClasses
  <2>1. EndReads = IF device.valid THEN RaplEndReads(device, Model, seen) ELSE Once({})
    BY <1>0, <1>3, <2>0 DEF EndReads, DeviceEndReads, IsShare, IsRapl
  <2>2. EndReadsBy(unit, NowState, g) = IF device.valid THEN RaplEndReads(device, Model, g[Now]) ELSE Once({})
    BY <1>0, <1>3, <2>0 DEF EndReadsBy
  <2>3. \A now : Now \in DOMAIN RaplEndReads(device, Model, now)  BY OnceIs DEF RaplEndReads
  <2>4. device.valid => g[Now] = seen  BY <2>1, <2>2, <2>3 DEF Same
  <2> QED  BY <2>1, <2>2, <2>4
<1>4. CASE present /\ Class = "xe_energy"
  <2> DEFINE seen == ReadContent(Now, 1)
  <2>0. unit.class \notin ShareClasses  BY <1>0, <1>4 DEF ShareClasses
  <2>1. EndReads = XeEndReads(device, seen)
    BY <1>0, <1>4, <2>0 DEF EndReads, DeviceEndReads, IsShare, IsRapl
  <2>2. EndReadsBy(unit, NowState, g) = XeEndReads(device, g[Now])
    BY <1>0, <1>4, <2>0 DEF EndReadsBy
  <2>3. ASSUME device.energy_path, NEW now PROVE Now \in DOMAIN XeEndReads(device, now)
    BY <2>3, OnceIs DEF XeEndReads
  <2>4. device.energy_path => g[Now] = seen  BY <2>1, <2>2, <2>3 DEF Same
  <2>5. ~device.energy_path => XeEndReads(device, g[Now]) = XeEndReads(device, seen)  BY DEF XeEndReads
  <2> QED  BY <2>1, <2>2, <2>4, <2>5
<1>5. CASE present /\ ~IsShare /\ Class \notin {"rapl_powercap", "xe_energy"}
  <2>1. EndReads = DeviceStartReads  BY <1>5 DEF EndReads, DeviceEndReads, Replayable, IsRapl
  <2>2. EndReadsBy(unit, NowState, g) = DeviceReadsBy(unit, device)  BY <1>0, <1>5 DEF EndReadsBy, IsShare
  <2> QED  BY <2>1, <2>2, DeviceReadsAre
<1> QED  BY <1>1, <1>2, <1>3, <1>4, <1>5

\* A step of a device from one state to the next: the reads, what they got.
StepOK(u, s, reads, g, t) ==
  /\ reads = ReadsBy(u, s, g) /\ t = After(u, s, g)
  /\ g = [k \in DOMAIN reads |-> g[k]]
  /\ s.phase = "new" /\ u.class = "rapl_powercap" => g[Powercap] # Absent

Handler == Create \/ StartMeasurement \/ EndMeasurement

HandlerReads ==
  CASE phase = "new" -> CreateReads
    [] phase = "started" -> EndReads
    [] OTHER -> StartReads

LEMMA NowIs ==
  /\ NowState.present = present /\ NowState.device = device /\ NowState.results = results
  /\ NowState.power = power /\ NowState.number = number /\ NowState.phase = phase
BY DEF NowState

LEMMA NowNext ==
  NowState' = [present |-> present', device |-> device', results |-> results', power |-> power',
               number |-> number', phase |-> phase']
BY DEF NowState

LEMMA CreateStep ==
  ASSUME Replayable, Create, device = New, NEW g, g = Got(CreateReads), Same(CreateReads, g),
         Class = "rapl_powercap" => g[Powercap] # Absent
  PROVE  StepOK(unit, NowState, CreateReads, g, NowState')
<1>0. Class = unit.class /\ Model = unit.model  BY DEF Class, Model
<1>1. /\ phase = "new" /\ phase' = "created" /\ present' = LookFor(Class).found
      /\ device' = IF present' THEN Created(g) ELSE New
      /\ results' = results /\ power' = power /\ number' = number
  BY DEF Create
<1>2. /\ CreateReadsBy(unit, g) = CreateReads
      /\ LookFor(Class).found = Looked(unit.class, g).found
      /\ Class = "rapl_powercap" => Listing = g[Powercap]
  BY CreateAgrees
<1>3. Created(g) = CreatedBy(unit, NowState, g)
  <2>1. CASE Class = "rapl_powercap"
    <3>1. RaplInterface(Listing) = [powercap |-> TRUE, domains |-> g[Powercap]]
      BY <1>2, <2>1 DEF RaplInterface
    <3>2. Created(g) = RaplCreated(RaplInterface(Listing), Model, g)  BY <2>1 DEF Created, IsRapl
    <3>3. CreatedBy(unit, NowState, g) = RaplCreated([powercap |-> TRUE, domains |-> g[Powercap]], Model, g)
      BY <1>0, <2>1 DEF CreatedBy
    <3> QED  BY <3>1, <3>2, <3>3
  <2>2. CASE Class # "rapl_powercap"
    <3>1. ~IsRapl  BY <2>2 DEF Replayable, IsRapl
    <3> QED  BY <1>0, <2>2, <3>1, NowIs DEF Created, CreatedBy
  <2> QED  BY <2>1, <2>2
<1>4. CreateReads = ReadsBy(unit, NowState, g)  BY <1>1, <1>2, NowIs DEF ReadsBy
<1>5. After(unit, NowState, g) = AfterCreate(unit, NowState, g)  BY <1>1, NowIs DEF After
<1>6. NowState' = AfterCreate(unit, NowState, g)
  <2> DEFINE found == Looked(unit.class, g).found
             created == CreatedBy(unit, NowState, g)
  <2>1. AfterCreate(unit, NowState, g) =
          [NowState EXCEPT !.present = found, !.device = IF found THEN created ELSE device, !.phase = "created"]
    BY NowIs DEF AfterCreate
  <2>2. present' = found /\ device' = IF found THEN created ELSE device  BY <1>1, <1>2, <1>3
  <2> HIDE DEF found, created
  <2> QED  BY <1>1, <2>1, <2>2, NowNext DEF NowState
<1>7. g = [k \in DOMAIN CreateReads |-> g[k]]  BY DEF Got
<1> QED  BY <1>0, <1>4, <1>5, <1>6, <1>7 DEF StepOK

LEMMA StartStep ==
  ASSUME Replayable, StartMeasurement, NEW g, g = Got(StartReads), Same(StartReads, g)
  PROVE  StepOK(unit, NowState, StartReads, g, NowState')
<1>1. /\ phase \in {"created", "ended"} /\ phase' = "started" /\ present' = LookAgain.found
      /\ device' = IF present' THEN DeviceStarted(AtStart(g), g) ELSE device
      /\ results' = results /\ power' = power /\ number' = number + 1
  BY DEF StartMeasurement, MayStart
<1>2. StartReadsBy(unit, NowState, g) = StartReads /\ LookAgainBy(unit, NowState, g) = LookAgain
  BY StartAgrees
<1>3. DeviceStarted(AtStart(g), g) = StartedBy(unit, AtStartBy(unit, NowState, g), g)  BY StartedIs, AtStartIs
<1>4. StartReads = ReadsBy(unit, NowState, g)  BY <1>1, <1>2, NowIs DEF ReadsBy
<1>5. After(unit, NowState, g) = AfterStart(unit, NowState, g)  BY <1>1, NowIs DEF After
<1>6. NowState' = AfterStart(unit, NowState, g)
  <2> DEFINE found == LookAgainBy(unit, NowState, g).found
             started == StartedBy(unit, AtStartBy(unit, NowState, g), g)
  <2>1. AfterStart(unit, NowState, g) =
          [NowState EXCEPT !.present = found, !.device = IF found THEN started ELSE device,
                           !.number = number + 1, !.phase = "started"]
    BY NowIs DEF AfterStart
  <2>2. present' = found /\ device' = IF found THEN started ELSE device  BY <1>1, <1>2, <1>3
  <2> HIDE DEF found, started
  <2> QED  BY <1>1, <2>1, <2>2, NowNext DEF NowState
<1>7. g = [k \in DOMAIN StartReads |-> g[k]]  BY DEF Got
<1>8. NowState.phase # "new"  BY <1>1, NowIs
<1> QED  BY <1>4, <1>5, <1>6, <1>7, <1>8 DEF StepOK

LEMMA EndStep ==
  ASSUME Replayable, EndMeasurement, NEW g, g = Got(EndReads), Same(EndReads, g)
  PROVE  StepOK(unit, NowState, EndReads, g, NowState')
<1>1. /\ phase = "started" /\ phase' = "ended"
      /\ IF present
         THEN device' = DeviceEnded(g) /\ results' = Reported(device') /\ power' = Charged(device', results')
         ELSE UNCHANGED <<device, results, power>>
      /\ UNCHANGED <<present, number>>
  BY DEF EndMeasurement
<1>2. EndReadsBy(unit, NowState, g) = EndReads  BY EndAgrees
<1>4. EndReads = ReadsBy(unit, NowState, g)  BY <1>1, <1>2, NowIs DEF ReadsBy
<1>5. After(unit, NowState, g) = AfterEnd(unit, NowState, g)  BY <1>1, NowIs DEF After
<1>6. NowState' = AfterEnd(unit, NowState, g)
  <2> DEFINE ended == EndedBy(unit, device, g)
             reported == ReportedBy(unit, ended, results)
             charge == ChargedBy(unit, ended, reported)
  <2>1. AfterEnd(unit, NowState, g) =
          IF present
          THEN [NowState EXCEPT !.device = ended, !.results = reported, !.power = charge, !.phase = "ended"]
          ELSE [NowState EXCEPT !.phase = "ended"]
    BY NowIs DEF AfterEnd
  <2>2. present => device' = ended /\ results' = reported /\ power' = charge  BY <1>1, EndedIs, ReportedIs
  <2> HIDE DEF ended, reported, charge
  <2> QED  BY <1>1, <2>1, <2>2, NowNext DEF NowState
<1>7. g = [k \in DOMAIN EndReads |-> g[k]]  BY DEF Got
<1>8. NowState.phase # "new"  BY <1>1, NowIs
<1> QED  BY <1>4, <1>5, <1>6, <1>7, <1>8 DEF StepOK

\* Whatever is done, it is a step of the device.
LEMMA HandlerStep ==
  ASSUME Replayable, Handler, phase = "new" => device = New, NEW g, g = Got(HandlerReads), Same(HandlerReads, g),
         Class = "rapl_powercap" /\ phase = "new" => g[Powercap] # Absent
  PROVE  StepOK(unit, NowState, HandlerReads, g, NowState')
<1>1. CASE Create
  <2>1. phase = "new"  BY <1>1 DEF Create
  <2>2. HandlerReads = CreateReads  BY <2>1 DEF HandlerReads
  <2> QED  BY <1>1, <2>1, <2>2, CreateStep
<1>2. CASE StartMeasurement
  <2>1. phase \in {"created", "ended"}  BY <1>2 DEF StartMeasurement, MayStart
  <2>2. HandlerReads = StartReads  BY <2>1 DEF HandlerReads
  <2> QED  BY <1>2, <2>2, StartStep
<1>3. CASE EndMeasurement
  <2>1. phase = "started"  BY <1>3 DEF EndMeasurement
  <2>2. HandlerReads = EndReads  BY <2>1 DEF HandlerReads
  <2> QED  BY <1>3, <2>2, EndStep
<1> QED  BY <1>1, <1>2, <1>3 DEF Handler

\* The reads of a handler are those of the step that the answers make.
LEMMA HandlerAgrees ==
  ASSUME Replayable, phase \in {"new", "created", "started", "ended"}, NEW g, Same(ReadsBy(unit, NowState, g), g),
         Class = "rapl_powercap" /\ phase = "new" => g[Powercap] # Absent
  PROVE  ReadsBy(unit, NowState, g) = HandlerReads
<1>1. CASE phase = "new"
  <2>1. ReadsBy(unit, NowState, g) = CreateReadsBy(unit, g) /\ HandlerReads = CreateReads
    BY <1>1, NowIs DEF ReadsBy, HandlerReads
  <2> QED  BY <1>1, <2>1, CreateAgrees
<1>2. CASE phase = "started"
  <2>1. ReadsBy(unit, NowState, g) = EndReadsBy(unit, NowState, g) /\ HandlerReads = EndReads
    BY <1>2, NowIs DEF ReadsBy, HandlerReads
  <2> QED  BY <2>1, EndAgrees
<1>3. CASE phase \in {"created", "ended"}
  <2>1. ReadsBy(unit, NowState, g) = StartReadsBy(unit, NowState, g) /\ HandlerReads = StartReads
    BY <1>3, NowIs DEF ReadsBy, HandlerReads
  <2> QED  BY <2>1, StartAgrees
<1> QED  BY <1>1, <1>2, <1>3

(***************************************************************************)
(* What handlers read is there to be recorded.                             *)
(***************************************************************************)
Readings(keys) == keys \subseteq KernelKeys /\ \A k \in keys : k[1] = "M" => IsIntel

Recordable(reads) == Readings(DOMAIN reads) /\ \A k \in DOMAIN reads : reads[k] \in Nat /\ reads[k] # 0

LEMMA OnceRecordable ==
  /\ \A keys : Readings(keys) => Recordable(Once(keys)) /\ Recordable(All(keys, 1)) /\ Recordable(All(keys, 2))
  /\ \A a, b : Readings(a) /\ Readings(b) => Readings(a \cup b)
  /\ Readings({})
BY OnceIs, AllIs DEF Recordable, Readings

LEMMA OverRecordable ==
  ASSUME NEW f, NEW h, Recordable(f), Recordable(h)
  PROVE  Recordable(Over(f, h))
<1>1. DOMAIN Over(f, h) = DOMAIN f \cup DOMAIN h  BY OverIs, Zenon
<1>2. \A k \in DOMAIN Over(f, h) : Over(f, h)[k] = IF k \in DOMAIN f THEN f[k] ELSE h[k]
  BY <1>1 DEF Over
<1> QED  BY <1>1, <1>2 DEF Recordable, Readings

LEMMA FixedAre == DOMAIN Fixed = Entries \cup DOMAIN Settings
<1>1. DOMAIN Once(Entries) = Entries  BY OnceIs
<1>2. DOMAIN Over(Once(Entries), Settings) = DOMAIN Once(Entries) \cup DOMAIN Settings  BY OverIs, Zenon
<1> QED  BY <1>1, <1>2 DEF Fixed

LEMMA KeysRead ==
  ASSUME unit \in Units
  PROVE  /\ Now \in KernelKeys /\ Entries \subseteq KernelKeys /\ DOMAIN Settings \subseteq KernelKeys
         /\ LevelKeys \subseteq KernelKeys
         /\ Class = "devfreq" => TransStat \in KernelKeys
         /\ Class # "devfreq" => CounterKeys \subseteq KernelKeys
         /\ \A a : R(a)[1] # "M" /\ A(a)[1] # "M" /\ D(a)[1] # "M" /\ Now[1] # "M"
BY FixedAre, KeysAre, KeyNames DEF KernelKeys, FileKeys

LEMMA LookRecordable ==
  ASSUME unit \in Units, Replayable
  PROVE  Recordable(LookFor(Class).reads)
<1> DEFINE Fine(k) == k \in KernelKeys /\ k[1] # "M"
<1>1. \A keys, found : (\A k \in keys : Fine(k)) => Recordable(Look(keys, found).reads)
  BY OnceRecordable DEF Look, Readings
<1>2. \A c, keys : (\A k \in keys : Fine(k)) => \A k \in And(c, keys) : Fine(k)  BY DEF And
<1>3. CASE Class = "usb"
  <2>1. DOMAIN Settings = {R("bDeviceClass")} /\ Entries = {A("active")}  BY <1>3, AllIs DEF Settings, Entries
  <2>2. Fine(A("active")) /\ Fine(R("bDeviceClass"))  BY <2>1, KeysRead
  <2> HIDE DEF Fine
  <2>3. LookFor(Class) = LookForUsb  BY <1>3 DEF LookFor
  <2>4. \A k \in {A("active")} \cup And(Accessible("active"), {R("bDeviceClass")}) : Fine(k)  BY <2>2 DEF And
  <2> QED  BY <1>1, <2>3, <2>4 DEF LookForUsb
<1>4. CASE Class \in {"alsa", "fan", "light", "ahci", "backlight"}
  <2>1. /\ Class = "alsa" => Entries = {A("on")} /\ LookFor(Class) = LookForAlsa
        /\ Class = "fan" => Entries = {A("rate")} /\ LookFor(Class) = LookForFan
        /\ Class = "light" => Entries = {A("level")} /\ LookFor(Class) = LookForLight
        /\ Class = "ahci" => DOMAIN Settings = {Accounting} /\ LookFor(Class) = LookForAhci
        /\ Class = "backlight" => Entries = {D("backlight")} /\ LookFor(Class) = LookForBacklight
    BY <1>4, AllIs DEF Settings, Entries, LookFor
  <2>2. /\ Class = "alsa" => Fine(A("on"))
        /\ Class = "fan" => Fine(A("rate"))
        /\ Class = "light" => Fine(A("level"))
        /\ Class = "ahci" => Fine(Accounting)
        /\ Class = "backlight" => Fine(D("backlight"))
    BY <2>1, KeysRead, KeysAre
  <2> HIDE DEF Fine
  <2> QED  BY <1>1, <1>4, <2>1, <2>2 DEF LookForAlsa, LookForFan, LookForLight, LookForAhci, LookForBacklight
<1>5. CASE Class = "rfkill"
  <2>1. Entries = {D("rfkill"), R("name")} /\ LookFor(Class) = LookForRfkill  BY <1>5 DEF Entries, LookFor
  <2>2. Fine(D("rfkill")) /\ Fine(R("name"))  BY <2>1, KeysRead
  <2> HIDE DEF Fine
  <2>3. \A k \in {D("rfkill")} \cup And(Present(D("rfkill")), {R("name")}) : Fine(k)  BY <2>2 DEF And
  <2> QED  BY <1>1, <2>1, <2>3 DEF LookForRfkill
<1>6. CASE Class = "xe_fan"
  <2>1. Entries = {D("hwmon"), A("rate")} /\ LookFor(Class) = LookForXeFan  BY <1>6 DEF Entries, LookFor
  <2>2. Fine(D("hwmon")) /\ Fine(A("rate"))  BY <2>1, KeysRead
  <2> HIDE DEF Fine
  <2>3. \A k \in {D("hwmon")} \cup And(Present(D("hwmon")), {A("rate")}) : Fine(k)  BY <2>2 DEF And
  <2> QED  BY <1>1, <2>1, <2>3 DEF LookForXeFan
<1>7. CASE Class = "rc6"
  <2>1. Entries = {D("drm"), A("rc6")} /\ LookFor(Class) = LookForRc6  BY <1>7 DEF Entries, LookFor
  <2>2. Fine(D("drm")) /\ Fine(A("rc6"))  BY <2>1, KeysRead
  <2> HIDE DEF Fine
  <2>3. \A k \in {D("drm")} \cup And(Present(D("drm")), {A("rc6")}) : Fine(k)  BY <2>2 DEF And
  <2> QED  BY <1>1, <2>1, <2>3 DEF LookForRc6
<1>8. CASE Class = "runtime_pm"
  <2>1. Entries = {D("bus")} /\ LookFor(Class) = LookForRuntimePm  BY <1>8 DEF Entries, LookFor
  <2>2. Fine(D("bus")) /\ Fine(R("suspended")) /\ Fine(R("active"))
    BY <1>8, <2>1, KeysRead, KeysOfTheClass
  <2> HIDE DEF Fine
  <2>3. \A k \in RuntimePmFiles : Fine(k)  BY <2>2 DEF And, RuntimePmFiles
  <2>4. \A k \in {D("bus")} \cup And(Present(D("bus")), RuntimePmFiles) : Fine(k)  BY <2>2, <2>3 DEF And
  <2> QED  BY <1>1, <2>1, <2>4 DEF LookForRuntimePm
<1>9. CASE Class = "xe_energy"
  <2>1. Entries = {D("hwmon"), A("power1_label"), A("energy1")} /\ LookFor(Class) = LookForXe
    BY <1>9 DEF Entries, LookFor
  <2>2. Channel \in CounterKeys  BY <1>9, KeysOfClass, EnergyCounterIs, KindsApart
  <2>3. Fine(D("hwmon")) /\ Fine(A("power1_label")) /\ Fine(A("energy1")) /\ Fine(Channel) /\ Fine(Now)
    BY <1>9, <2>1, <2>2, KeysRead, KeysAre
  <2> DEFINE card == Present(D("hwmon"))
             channel == card /\ Accessible("power1_label")
             energy == channel /\ Accessible("energy1")
             keys == {D("hwmon")} \cup And(card, {A("power1_label")})
                       \cup And(channel, {A("energy1")}) \cup And(energy, {Channel, Now})
  <2>4. LookFor(Class) = Look(keys, TRUE)  BY <2>1 DEF LookForXe
  <2> HIDE DEF Fine, card, channel, energy
  <2>5. \A k \in keys : Fine(k)  BY <2>3 DEF And
  <2> HIDE DEF keys
  <2> QED  BY <1>1, <2>4, <2>5
<1>10. CASE Class = "devfreq"
  <2>1. Entries = {D("devfreq")} /\ LookFor(Class) = LookForDevfreq  BY <1>10 DEF Entries, LookFor
  <2>2. Readings({D("devfreq")})  BY <2>1, KeysRead DEF Readings
  <2> QED  BY <2>1, <2>2, OnceRecordable DEF LookForDevfreq
<1>11. CASE Class = "xe_gts"
  <2> DEFINE gts == {A(g) : g \in Gts}
             card == Present(D("drm"))
             first == All({D("drm")}, IF card THEN 2 ELSE 1)
             second == Once(And(card, gts))
  <2>1. Entries = {D("drm")} \cup gts /\ LookFor(Class) = LookForXeCard  BY <1>11 DEF Entries, LookFor
  <2>2. Readings({D("drm")}) /\ Readings(gts)  BY <2>1, KeysRead DEF Readings
  <2> HIDE DEF gts
  <2>3. Recordable(first)  BY <2>2, OnceRecordable
  <2>4. Recordable(second)  BY <2>2, OnceRecordable DEF And
  <2>5. LookForXeCard.reads = Over(first, second)  BY DEF LookForXeCard, gts
  <2> HIDE DEF first, second
  <2> QED  BY <2>1, <2>3, <2>4, <2>5, OverRecordable
<1>12. CASE Class \notin ShareClasses \cup {"xe_energy", "devfreq", "rc6", "xe_gts"}
  <2>1. LookFor(Class) = Look({}, TRUE)  BY <1>12 DEF LookFor, ShareClasses, Replayable
  <2> QED  BY <1>1, <2>1
<1> QED  BY <1>3, <1>4, <1>5, <1>6, <1>7, <1>8, <1>9, <1>10, <1>11, <1>12 DEF ShareClasses

LEMMA CreateRecordable ==
  ASSUME BaseOK, Replayable, mode = "recording", phase = "new"
  PROVE  /\ Recordable(CreateReads)
         /\ Class = "rapl_powercap" => Powercap \in DOMAIN CreateReads /\ Content(Powercap) # Absent
<1>0. unit \in Units  BY DEF BaseOK, PhasesOK
<1>1. CASE Class = "rapl_powercap"
  <2>1. IsCounted /\ IsRapl  BY <1>1, KindsApart DEF IsRapl
  <2>2. Powercap \notin gone /\ EnergyCounter \in KernelKeys  BY <2>1, CounterIs
  <2>3. kernel[Powercap] = {"pp0", "dram"} /\ Powercap \in KernelKeys
    BY <1>1, FixedIs DEF BaseOK, MachinesOK, MachineOK, KernelKeys
  <2>4. Content(Powercap) = {"pp0", "dram"}  BY <2>2, <2>3 DEF Content
  <2>5. Listing = {"pp0", "dram"}  BY <2>4 DEF Listing, ReadContent
  <2>6. Listing # Absent  BY <2>5, ContentsAssumption
  <2> DEFINE own == IF Model \in RaplInterface(Listing).domains THEN {EnergyKey(RaplInterface(Listing), Model)} ELSE {}
             times == IF RaplInterface(Listing).powercap THEN 1 ELSE 2
  <2>7. CreateReads = Over(All(own, times), Over(Once({Now}), InterfaceReads(Listing)))
    BY <2>1 DEF CreateReads, RaplReads
  <2>8. InterfaceReads(Listing) = Once({Powercap})
    <3>1. {Powercap} \cup (IF Listing = Absent THEN {EnergyMsr(d) : d \in Domains} ELSE {}) = {Powercap}  BY <2>6
    <3> QED  BY <3>1 DEF InterfaceReads
  <2>9. own \subseteq {EnergyCounter} /\ times = 1
    <3>1. RaplInterface(Listing).powercap = TRUE  BY <2>6 DEF RaplInterface
    <3>2. EnergyKey(RaplInterface(Listing), Model) = EnergyCounter  BY <1>1, <3>1, EnergyCounterIs DEF EnergyKey
    <3> QED  BY <3>1, <3>2
  <2>10. Readings(own)
    <3>1. EnergyCounter[1] # "M"
      <4>1. EnergyCounter = R(Model)  BY <1>1, EnergyCounterIs, KeysAre
      <4> QED  BY <4>1, KeyNames
    <3> QED  BY <2>2, <2>9, <3>1 DEF Readings
  <2>11. Readings({Now}) /\ Readings({Powercap})  BY <1>0, <2>3, KeysRead, KeysAre DEF Readings
  <2> HIDE DEF own, times
  <2>12. Recordable(Over(Once({Now}), Once({Powercap})))  BY <2>11, OnceRecordable, OverRecordable
  <2>13. Recordable(CreateReads)
    <3>1. Recordable(All(own, times))  BY <2>9, <2>10, OnceRecordable
    <3> QED  BY <2>7, <2>8, <2>12, <3>1, OverRecordable
  <2>14. Powercap \in DOMAIN CreateReads
    <3>1. Powercap \in DOMAIN Once({Powercap})  BY OnceIs
    <3>2. Powercap \in DOMAIN Over(Once({Now}), Once({Powercap}))  BY <3>1 DEF Over
    <3> QED  BY <2>7, <2>8, <3>2 DEF Over
  <2> QED  BY <2>4, <2>5, <2>6, <2>13, <2>14
<1>2. CASE Class # "rapl_powercap"
  <2>1. CreateReads = LookFor(Class).reads  BY <1>2 DEF CreateReads, Replayable, IsRapl
  <2> QED  BY <1>0, <1>2, <2>1, LookRecordable
<1> QED  BY <1>1, <1>2

LEMMA LookAgainRecordable ==
  ASSUME unit \in Units, Replayable
  PROVE  Recordable(LookAgain.reads)
<1>1. CASE Class = "usb" /\ ~present
  <2>1. LookAgain = LookFor(Class)  BY <1>1 DEF LookAgain, LookFor
  <2> QED  BY <2>1, LookRecordable
<1>2. CASE Class = "usb" /\ present
  <2>1. LookAgain.reads = Once({A("active")})  BY <1>2 DEF LookAgain, LookForKnownUsb, Look
  <2>2. Entries = {A("active")}  BY <1>2 DEF Entries
  <2>3. Readings({A("active")})  BY <2>2, KeysRead DEF Readings
  <2> QED  BY <2>1, <2>3, OnceRecordable
<1>3. CASE Class # "usb"
  <2>1. LookAgain.reads = Once({})  BY <1>3 DEF LookAgain, Look
  <2> QED  BY <2>1, OnceRecordable
<1> QED  BY <1>1, <1>2, <1>3

\* The files, the registers and the time that a measurement reads.
LEMMA DeviceRecordable ==
  ASSUME BaseOK, RaplOK, Replayable, mode = "recording", phase # "new"
  PROVE  Recordable(DeviceStartReads) /\ Recordable(DeviceEndReads)
<1>0. unit \in Units  BY DEF BaseOK, PhasesOK
<1>1. Readings({Now})  BY <1>0, KeysRead, KeysAre DEF Readings
<1>2. CASE IsShare
  <2>1. Class \notin OtherClasses \cup {"nic", "xe_energy", "rapl_powercap", "rapl_msr"}
    BY <1>2 DEF IsShare, ShareClasses, OtherClasses
  <2>2. /\ DeviceStartReads = Once({R(f) : f \in StartFiles(Class)})
        /\ DeviceEndReads = Once({R(f) : f \in EndFiles(Class)})
    BY <1>2, <2>1 DEF DeviceStartReads, DeviceEndReads, IsRapl, OtherClasses
  <2>3. \A f \in ShareFiles[Class] : R(f) \in CounterKeys \cup LevelKeys
    <3>1. MachineOK(kernel)  BY DEF BaseOK, MachinesOK
    <3> QED  BY <1>0, <1>2, <3>1, ShareContents
  <2>4. \A f \in ShareFiles[Class] : R(f) \in KernelKeys /\ R(f)[1] # "M"
    BY <1>0, <2>1, <2>3, KeysRead DEF OtherClasses
  <2>5. StartFiles(Class) \subseteq ShareFiles[Class] /\ EndFiles(Class) \subseteq ShareFiles[Class]
    BY DEF StartFiles, EndFiles
  <2>6. Readings({R(f) : f \in StartFiles(Class)}) /\ Readings({R(f) : f \in EndFiles(Class)})
    BY <2>4, <2>5 DEF Readings
  <2> QED  BY <2>2, <2>6, OnceRecordable
<1>3. CASE IsRapl
  <2> DEFINE key == EnergyKey(device.rapl, Model)
  <2>1. ~IsShare /\ Class = "rapl_powercap" /\ IsCounted  BY <1>3, KindsApart DEF IsShare, ShareClasses, IsRapl, Replayable
  <2>2. DeviceStartReads = IF device.valid THEN Once({Now, key}) ELSE Once({})
    BY <1>3, <2>1 DEF DeviceStartReads
  <2>3. DeviceEndReads =
          IF device.valid THEN Once({Now} \cup IF ReadContent(Now, 1) > device.last_time THEN {key} ELSE {}) ELSE Once({})
    BY <1>3, <2>1 DEF DeviceEndReads, RaplEndReads
  <2>4. device.valid => key = EnergyCounter  BY <1>3 DEF RaplOK
  <2>5. Readings({EnergyCounter})
    <3>1. EnergyCounter = R(Model)  BY <2>1, EnergyCounterIs, KeysAre
    <3>2. EnergyCounter \in KernelKeys  BY <2>1, CounterIs
    <3> QED  BY <3>1, <3>2, KeyNames DEF Readings
  <2> HIDE DEF key
  <2>6. device.valid => Readings({Now, key}) /\ Readings({Now} \cup IF ReadContent(Now, 1) > device.last_time THEN {key} ELSE {})
    BY <1>1, <2>4, <2>5 DEF Readings
  <2> QED  BY <2>2, <2>3, <2>6, OnceRecordable
<1>4. CASE Class = "xe_energy"
  <2>1. ~IsShare /\ ~IsRapl /\ IsCounted  BY <1>4 DEF IsShare, ShareClasses, IsRapl, IsCounted
  <2>2. DeviceStartReads = XeStartReads(device) /\ DeviceEndReads = XeEndReads(device, ReadContent(Now, 1))
    BY <1>4, <2>1 DEF DeviceStartReads, DeviceEndReads
  <2>3. Readings({Channel})
    <3>1. Channel \in KernelKeys  BY <1>4, <2>1, EnergyCounterIs, CounterIs
    <3>2. Channel[1] # "M"  BY KeysAre, KeyNames
    <3> QED  BY <3>1, <3>2 DEF Readings
  <2>4. Readings(IF device.energy_path THEN {Now, Channel} ELSE {})  BY <1>1, <2>3 DEF Readings
  <2>5. \A now : Readings(IF ~device.energy_path THEN {} ELSE {Now} \cup IF now > device.last_time THEN {Channel} ELSE {})
    BY <1>1, <2>3 DEF Readings
  <2> QED  BY <2>2, <2>4, <2>5, OnceRecordable DEF XeStartReads, XeEndReads
<1>5. CASE Class = "devfreq"
  <2>1. ~IsShare /\ ~IsRapl  BY <1>5 DEF IsShare, ShareClasses, IsRapl
  <2>2. DeviceStartReads = Once({Now, TransStat}) /\ DeviceEndReads = DeviceStartReads
    BY <1>5, <2>1 DEF DeviceStartReads, DeviceEndReads
  <2>3. TransStat \in KernelKeys /\ TransStat[1] # "M"  BY <1>0, <1>5, KeysRead, KeysAre
  <2>4. Readings({Now, TransStat})  BY <1>1, <2>3 DEF Readings
  <2> QED  BY <2>2, <2>4, OnceRecordable
<1>6. CASE Class \in {"core", "package"}
  <2> DEFINE keys == {Tsc, TheTime} \cup {Register(Class, Model, s) : s \in StatesOf(Class, Model)}
  <2>1. ~IsShare /\ ~IsRapl /\ IsIntel  BY <1>6 DEF IsShare, ShareClasses, IsRapl, IsIntel
  <2>2. DeviceStartReads = Once(keys) /\ DeviceEndReads = DeviceStartReads
    BY <1>6, <2>1 DEF DeviceStartReads, DeviceEndReads, UnitReads
  <2>3. \A s : Register(Class, Model, s) = M(s) \/ Register(Class, Model, s) = M("c7")  BY DEF Register, M
  <2>4. CounterKeys = {Tsc, M("c6"), M("c7")} \cup {M(s) : s \in StatesOf(Class, Model)}  BY <1>0, <1>6, KeysOfClass
  <2>5. CounterKeys \subseteq KernelKeys  BY <1>0, <1>6, KeysRead
  <2>6. Readings(keys)  BY <1>1, <2>1, <2>3, <2>4, <2>5, KeysAre DEF Readings
  <2> HIDE DEF keys
  <2> QED  BY <2>2, <2>6, OnceRecordable
<1>7. CASE Class = "cpu"
  <2>1. ~IsShare /\ ~IsRapl /\ IsIntel  BY <1>7 DEF IsShare, ShareClasses, IsRapl, IsIntel
  <2>2. DeviceStartReads = Once({Aperf, Mperf, Tsc, TheTime}) /\ DeviceEndReads = DeviceStartReads
    BY <1>7, <2>1 DEF DeviceStartReads, DeviceEndReads, CpuReads
  <2>3. {Aperf, Mperf, Tsc} \subseteq KernelKeys
    <3>1. CounterKeys = {Tsc, Aperf, Mperf} /\ CounterKeys \subseteq KernelKeys  BY <1>0, <1>7, KeysOfClass, KeysRead
    <3> QED  BY <3>1
  <2>4. Readings({Aperf, Mperf, Tsc, TheTime})  BY <1>1, <2>1, <2>3, KeysAre DEF Readings
  <2> QED  BY <2>2, <2>4, OnceRecordable
<1>8. CASE Class \in {"rc6", "xe_gts"}
  <2> DEFINE names == IF Class = "rc6" THEN Rc6States ELSE Gts
             keys == {TheTime} \cup {R(s) : s \in names}
  <2>1. ~IsShare /\ ~IsRapl  BY <1>8 DEF IsShare, ShareClasses, IsRapl
  <2>2. DeviceStartReads = Once(keys) /\ DeviceEndReads = DeviceStartReads
    BY <1>8, <2>1 DEF DeviceStartReads, DeviceEndReads, Rc6Reads, XeReads, R
  <2>3. CounterKeys = {R(s) : s \in names} /\ CounterKeys \subseteq KernelKeys  BY <1>0, <1>8, KeysOfClass, KeysRead
  <2>4. Readings(keys)  BY <1>0, <1>1, <2>3, KeysAre, KeysRead DEF Readings
  <2> HIDE DEF keys
  <2> QED  BY <2>2, <2>4, OnceRecordable
<1> QED
  <2>1. Class \in Classes  BY <1>0, KindsOfUnits
  <2> QED  BY <1>2, <1>3, <1>4, <1>5, <1>6, <1>7, <1>8, <2>1 DEF Classes, IsShare, IsRapl, Replayable

LEMMA HandlerRecordable ==
  ASSUME BaseOK, RaplOK, Replayable, mode = "recording", Handler
  PROVE  Recordable(HandlerReads)
<1>0. unit \in Units  BY DEF BaseOK, PhasesOK
<1>1. CASE phase = "new"
  <2>1. HandlerReads = CreateReads  BY <1>1 DEF HandlerReads
  <2> QED  BY <1>1, <2>1, CreateRecordable
<1>2. CASE phase = "started"
  <2>1. HandlerReads = IF present THEN DeviceEndReads ELSE Once({})  BY <1>2 DEF HandlerReads, EndReads
  <2> QED  BY <1>2, <2>1, DeviceRecordable, OnceRecordable
<1>3. CASE phase \notin {"new", "started"}
  <2>1. HandlerReads = Over(LookAgain.reads, IF LookAgain.found THEN DeviceStartReads ELSE Once({}))
    BY <1>3 DEF HandlerReads, StartReads
  <2>2. Recordable(IF LookAgain.found THEN DeviceStartReads ELSE Once({}))  BY <1>3, DeviceRecordable, OnceRecordable
  <2> QED  BY <1>0, <2>1, <2>2, LookAgainRecordable, OverRecordable
<1> QED  BY <1>1, <1>2, <1>3

(***************************************************************************)
(* What a handler leaves in the records, and takes from them.              *)
(***************************************************************************)
Times(reads, k) == IF k \in DOMAIN reads THEN reads[k] ELSE 0

Sequences(f) == \A k \in DOMAIN f : \E S : f[k] \in Seq(S)

LEMMA Followed ==
  ASSUME NEW S, NEW s \in Seq(S), NEW b \in Seq(S)
  PROVE  /\ s \o b \in Seq(S)
         /\ Len(s) \in Nat /\ Len(s \o b) = Len(s) + Len(b)
         /\ \A j \in 1..Len(s) : (s \o b)[j] = s[j]
         /\ \A j \in 1..Len(b) : (s \o b)[Len(s) + j] = b[j]
<1>1. Len(s) \in Nat /\ Len(b) \in Nat  OBVIOUS
<1>2. \A j \in 1..Len(b) : (s \o b)[Len(s) + j] = b[j]
  <2> SUFFICES ASSUME NEW j \in 1..Len(b) PROVE (s \o b)[Len(s) + j] = b[j]  OBVIOUS
  <2>1. Len(s) + j \in 1..(Len(s) + Len(b)) /\ Len(s) + j > Len(s) /\ (Len(s) + j) - Len(s) = j  BY <1>1
  <2>2. (s \o b)[Len(s) + j] = b[(Len(s) + j) - Len(s)]  BY <1>1, <2>1
  <2> QED  BY <2>1, <2>2
<1> QED  BY <1>1, <1>2

LEMMA Repeated ==
  ASSUME NEW e, NEW m \in Nat
  PROVE  LET b == [i \in 1..m |-> e] IN b \in Seq({e}) /\ Len(b) = m /\ \A j \in 1..m : b[j] = e
OBVIOUS

LEMMA Rest ==
  ASSUME NEW S, NEW s \in Seq(S), NEW m \in Nat, m <= Len(s)
  PROVE  LET t == SubSeq(s, m + 1, Len(s))
         IN /\ t \in Seq(S) /\ Len(s) \in Nat /\ Len(t) = Len(s) - m
            /\ \A j \in 1..Len(t) : t[j] = s[m + j]
<1> DEFINE t == SubSeq(s, m + 1, Len(s))
<1>1. Len(s) \in Nat  OBVIOUS
<1>2. t \in Seq(S)  BY <1>1
<1>3. Len(t) = Len(s) - m  BY <1>1
<1>4. ASSUME NEW j \in 1..Len(t) PROVE t[j] = s[m + j]
  <2>1. t[j] = s[(m + 1) + j - 1]  BY <1>1, <1>3
  <2>2. (m + 1) + j - 1 = m + j  BY <1>1, <1>3
  <2> QED  BY <2>1, <2>2
<1> QED  BY <1>1, <1>2, <1>3, <1>4

\* A handler makes the reads that its guard has looked at.
LEMMA HandlerIs ==
  ASSUME Handler
  PROVE  /\ Reads(HandlerReads) /\ ~Stops(HandlerReads)
         /\ UNCHANGED <<unit, mode, gone>>
         /\ phase \in {"new", "created", "started", "ended"} /\ phase' \in {"created", "started", "ended"}
<1>1. CASE Create
  <2>1. HandlerReads = CreateReads  BY <1>1 DEF HandlerReads, Create
  <2> QED  BY <1>1, <2>1 DEF Create
<1>2. CASE StartMeasurement
  <2>1. HandlerReads = StartReads  BY <1>2 DEF HandlerReads, StartMeasurement, MayStart
  <2> QED  BY <1>2, <2>1 DEF StartMeasurement, MayStart
<1>3. CASE EndMeasurement
  <2>1. HandlerReads = EndReads  BY <1>3 DEF HandlerReads, EndMeasurement
  <2> QED  BY <1>3, <2>1 DEF EndMeasurement
<1> QED  BY <1>1, <1>2, <1>3 DEF Handler

\* What was read is recorded at the end of what was recorded before.
LEMMA RecordsGrow ==
  ASSUME BaseOK, RaplOK, Replayable, mode = "recording", Handler, DOMAIN records = KernelKeys, Sequences(records)
  PROVE  /\ DOMAIN records' = DOMAIN records /\ Sequences(records')
         /\ \A k \in KernelKeys :
              /\ Len(records[k]) \in Nat
              /\ Len(records'[k]) = Len(records[k]) + Times(HandlerReads, k)
              /\ \A j \in 1..Len(records[k]) : records'[k][j] = records[k][j]
              /\ \A j \in 1..Times(HandlerReads, k) : records'[k][Len(records[k]) + j] = Got(HandlerReads)[k]
<1> DEFINE reads == HandlerReads
<1>1. Reads(reads) /\ ~Stops(reads)  BY HandlerIs
<1>2. Recordable(reads)  BY HandlerRecordable
<1> HIDE DEF reads
<1>3. records' = [k \in DOMAIN records |-> IF k \in DOMAIN reads THEN Recorded(k, reads[k]) ELSE records[k]]
  BY <1>1 DEF Reads
<1>4. ASSUME NEW k \in DOMAIN reads
      PROVE  Recorded(k, reads[k]) = records[k] \o [i \in 1..reads[k] |-> Content(k)]
  <2>1. CASE k[1] = "M"
    <3>1. IsIntel  BY <1>2, <2>1 DEF Recordable, Readings
    <3>2. ~EndsPowertop(reads)  BY <1>1, <3>1 DEF Stops
    <3>3. ~(MsrReturned(k, 1) < 0)  BY <2>1, <3>2 DEF EndsPowertop
    <3>4. Content(k) = Absent => MsrReturned(k, 1) = -1  BY DEF MsrReturned
    <3>5. Content(k) # Absent  BY <3>3, <3>4
    <3> QED  BY <2>1, <3>5 DEF Recorded, RecordedMsr
  <2>2. CASE k[1] # "M"  BY <2>2 DEF Recorded, RecordedRead
  <2> QED  BY <2>1, <2>2
<1>5. ASSUME NEW k \in KernelKeys
      PROVE  /\ \E S : records'[k] \in Seq(S)
             /\ Len(records[k]) \in Nat
             /\ Len(records'[k]) = Len(records[k]) + Times(reads, k)
             /\ \A j \in 1..Len(records[k]) : records'[k][j] = records[k][j]
             /\ \A j \in 1..Times(reads, k) : records'[k][Len(records[k]) + j] = Got(reads)[k]
  <2>1. PICK S : records[k] \in Seq(S)  BY DEF Sequences
  <2>2. CASE k \in DOMAIN reads
    <3>1. reads[k] \in Nat /\ Times(reads, k) = reads[k]  BY <1>2, <2>2 DEF Recordable, Times
    <3>2. Got(reads)[k] = Content(k)  BY <2>2, RecordingReads
    <3>3. records'[k] = records[k] \o [i \in 1..reads[k] |-> Content(k)]  BY <1>3, <1>4, <2>2
    <3> DEFINE block == [i \in 1..reads[k] |-> Content(k)]
               T == S \cup {Content(k)}
    <3>4. block \in Seq({Content(k)}) /\ Len(block) = reads[k] /\ \A j \in 1..reads[k] : block[j] = Content(k)
      BY <3>1, Repeated
    <3>5. records'[k] = records[k] \o block  BY <3>3
    <3> HIDE DEF block
    <3>6. records[k] \in Seq(T) /\ block \in Seq(T)  BY <2>1, <3>4
    <3> HIDE DEF T
    <3>7. /\ records'[k] \in Seq(T)
          /\ Len(records[k]) \in Nat /\ Len(records'[k]) = Len(records[k]) + Len(block)
          /\ \A j \in 1..Len(records[k]) : records'[k][j] = records[k][j]
          /\ \A j \in 1..Len(block) : records'[k][Len(records[k]) + j] = block[j]
      BY <3>5, <3>6, Followed
    <3> QED  BY <3>1, <3>2, <3>4, <3>7
  <2>3. CASE k \notin DOMAIN reads
    <3>1. records'[k] = records[k] /\ Times(reads, k) = 0  BY <1>3, <2>3 DEF Times
    <3> QED  BY <2>1, <3>1
  <2> QED  BY <2>2, <2>3
<1>6. DOMAIN records' = DOMAIN records  BY <1>3
<1> QED  BY <1>5, <1>6 DEF Sequences, reads

\* A replay takes from the front.
LEMMA QueuesShrink ==
  ASSUME mode = "replaying", Handler, Sequences(queues),
         \A k \in DOMAIN HandlerReads : k \in DOMAIN queues /\ HandlerReads[k] \in Nat /\ HandlerReads[k] <= Len(queues[k])
  PROVE  /\ DOMAIN queues' = DOMAIN queues /\ Sequences(queues')
         /\ \A k \in DOMAIN queues :
              /\ Len(queues[k]) \in Nat
              /\ Len(queues'[k]) = Len(queues[k]) - Times(HandlerReads, k)
              /\ \A j \in 1..Len(queues'[k]) : queues'[k][j] = queues[k][Times(HandlerReads, k) + j]
<1> DEFINE reads == HandlerReads
<1>1. queues' = [k \in DOMAIN queues |->
                   IF k \in DOMAIN reads THEN SubSeq(queues[k], reads[k] + 1, Len(queues[k])) ELSE queues[k]]
  BY HandlerIs DEF Reads
<1> HIDE DEF reads
<1>2. ASSUME NEW k \in DOMAIN queues
      PROVE  /\ \E S : queues'[k] \in Seq(S)
             /\ Len(queues[k]) \in Nat
             /\ Len(queues'[k]) = Len(queues[k]) - Times(reads, k)
             /\ \A j \in 1..Len(queues'[k]) : queues'[k][j] = queues[k][Times(reads, k) + j]
  <2>1. PICK S : queues[k] \in Seq(S)  BY DEF Sequences
  <2>2. CASE k \in DOMAIN reads
    <3> DEFINE t == SubSeq(queues[k], reads[k] + 1, Len(queues[k]))
    <3>1. queues'[k] = t /\ Times(reads, k) = reads[k]  BY <1>1, <2>2 DEF Times
    <3>2. reads[k] \in Nat /\ reads[k] <= Len(queues[k])  BY <2>2 DEF reads
    <3>3. /\ t \in Seq(S) /\ Len(queues[k]) \in Nat /\ Len(t) = Len(queues[k]) - reads[k]
          /\ \A j \in 1..Len(t) : t[j] = queues[k][reads[k] + j]
      BY <2>1, <3>2, Rest
    <3> HIDE DEF t
    <3> QED  BY <3>1, <3>3
  <2>3. CASE k \notin DOMAIN reads
    <3>1. queues'[k] = queues[k] /\ Times(reads, k) = 0  BY <1>1, <2>3 DEF Times
    <3> QED  BY <2>1, <3>1
  <2> QED  BY <2>2, <2>3
<1>3. DOMAIN queues' = DOMAIN queues  BY <1>1
<1> QED  BY <1>2, <1>3 DEF Sequences, reads

(***************************************************************************)
(* The handlers that a recording ran, and where they left the records.     *)
(***************************************************************************)
\* A measurement that ended shows its truth.
ToldBy(u, ts, s) ==
  s.phase = "ended" =>
    /\ s.number \in Nat /\ s.number # 0 /\ s.number <= Len(ts)
    /\ ts[s.number].present = s.present
    /\ ts[s.number].whole => Shown(u, s.device, s.results, s.power) = ts[s.number].shown

\* What a handler got is on the tape, between two positions of each key.
ReadFrom(tape, from, to, reads, g) ==
  /\ \A k \in DOMAIN reads : k \in DOMAIN tape /\ reads[k] \in Nat /\ reads[k] # 0
  /\ \A k \in DOMAIN tape :
       /\ from[k] \in Nat /\ to[k] = from[k] + Times(reads, k) /\ to[k] <= Len(tape[k])
       /\ \A j \in 1..Times(reads, k) : tape[k][from[k] + j] = g[k]

Entry(u, ts, tape, s, reads, g, t, from, to) ==
  /\ StepOK(u, s, reads, g, t) /\ ToldBy(u, ts, t)
  /\ t.phase \in {"created", "started", "ended"}
  /\ ReadFrom(tape, from, to, reads, g)

\* The states that n handlers went through, with what they read.
Log(u, ts, tape, fresh, n, st, rd, g, at) ==
  /\ n \in Nat /\ st[0] = fresh
  /\ \A k \in DOMAIN tape : Len(tape[k]) \in Nat /\ at[0][k] = 0
  /\ \A i \in 1..n : Entry(u, ts, tape, st[i - 1], rd[i], g[i], st[i], at[i - 1], at[i])

FreshState ==
  [present |-> FALSE, device |-> New, results |-> <<>>, power |-> 0, number |-> 0, phase |-> "new"]

Longer(tape, tape2) ==
  /\ DOMAIN tape2 = DOMAIN tape
  /\ \A k \in DOMAIN tape :
       /\ Len(tape[k]) \in Nat /\ Len(tape2[k]) \in Nat /\ Len(tape[k]) <= Len(tape2[k])
       /\ \A j \in 1..Len(tape[k]) : tape2[k][j] = tape[k][j]

LEMMA TimesIs ==
  ASSUME NEW reads, \A k \in DOMAIN reads : reads[k] \in Nat
  PROVE  \A k : Times(reads, k) \in Nat
BY DEF Times

\* Later entries leave earlier ones as they are.
LEMMA EntryKept ==
  ASSUME NEW u, NEW ts, NEW ts2, NEW tape, NEW tape2, NEW s, NEW reads, NEW g, NEW t, NEW from, NEW to,
         Entry(u, ts, tape, s, reads, g, t, from, to), Longer(tape, tape2),
         ToldBy(u, ts, t) => ToldBy(u, ts2, t)
  PROVE  Entry(u, ts2, tape2, s, reads, g, t, from, to)
<1>1. ReadFrom(tape, from, to, reads, g)  BY DEF Entry
<1>2. \A k : Times(reads, k) \in Nat  BY <1>1, TimesIs DEF ReadFrom
<1>3. ASSUME NEW k \in DOMAIN tape
      PROVE  /\ from[k] \in Nat /\ to[k] = from[k] + Times(reads, k) /\ to[k] <= Len(tape2[k])
             /\ \A j \in 1..Times(reads, k) : tape2[k][from[k] + j] = g[k]
  <2>1. /\ from[k] \in Nat /\ to[k] = from[k] + Times(reads, k) /\ to[k] <= Len(tape[k])
        /\ \A j \in 1..Times(reads, k) : tape[k][from[k] + j] = g[k]
    BY <1>1 DEF ReadFrom
  <2>2. /\ Len(tape[k]) \in Nat /\ Len(tape2[k]) \in Nat /\ Len(tape[k]) <= Len(tape2[k])
        /\ \A j \in 1..Len(tape[k]) : tape2[k][j] = tape[k][j]
    BY DEF Longer
  <2>3. Times(reads, k) \in Nat  BY <1>2
  <2>4. to[k] <= Len(tape2[k])  BY <2>1, <2>2, <2>3
  <2>5. ASSUME NEW j \in 1..Times(reads, k) PROVE tape2[k][from[k] + j] = g[k]
    <3>1. from[k] + j \in 1..Len(tape[k])  BY <2>1, <2>2, <2>3
    <3> QED  BY <2>1, <2>2, <3>1
  <2> QED  BY <2>1, <2>4, <2>5
<1>4. ReadFrom(tape2, from, to, reads, g)  BY <1>1, <1>3 DEF ReadFrom, Longer
<1> QED  BY <1>4 DEF Entry

\* What was known of the measurements is still known.
StillTold(u, ts, ts2) == \A s : ToldBy(u, ts, s) => ToldBy(u, ts2, s)

\* Some n handlers lead to the state s and to the positions pos.
Logged(u, ts, tape, fresh, n, s, pos) ==
  \E st, rd, g, at : Log(u, ts, tape, fresh, n, st, rd, g, at) /\ st[n] = s /\ at[n] = pos

LEMMA LogGrows ==
  ASSUME NEW u, NEW ts, NEW ts2, NEW tape, NEW tape2, NEW fresh, NEW n, NEW s, NEW pos,
         NEW reads, NEW got, NEW next, NEW end,
         Logged(u, ts, tape, fresh, n, s, pos), Longer(tape, tape2), StillTold(u, ts, ts2),
         Entry(u, ts2, tape2, s, reads, got, next, pos, end)
  PROVE  Logged(u, ts2, tape2, fresh, n + 1, next, end)
<1>0. PICK st, rd, g, at : Log(u, ts, tape, fresh, n, st, rd, g, at) /\ st[n] = s /\ at[n] = pos
  BY DEF Logged
<1> DEFINE st2 == [i \in 0..(n + 1) |-> IF i = n + 1 THEN next ELSE st[i]]
           rd2 == [i \in 1..(n + 1) |-> IF i = n + 1 THEN reads ELSE rd[i]]
           g2  == [i \in 1..(n + 1) |-> IF i = n + 1 THEN got ELSE g[i]]
           at2 == [i \in 0..(n + 1) |-> IF i = n + 1 THEN end ELSE at[i]]
<1>1. /\ n \in Nat /\ st[0] = fresh
      /\ \A k \in DOMAIN tape : Len(tape[k]) \in Nat /\ at[0][k] = 0
      /\ \A i \in 1..n : Entry(u, ts, tape, st[i - 1], rd[i], g[i], st[i], at[i - 1], at[i])
  BY <1>0 DEF Log
<1>2. n + 1 \in Nat /\ n + 1 # 0 /\ n + 1 \in 1..(n + 1) /\ n + 1 \in 0..(n + 1) /\ 0 \in 0..(n + 1)  BY <1>1
<1>3. st2[n + 1] = next /\ rd2[n + 1] = reads /\ g2[n + 1] = got /\ at2[n + 1] = end  BY <1>2
<1>4. \A i \in 0..n : st2[i] = st[i] /\ at2[i] = at[i]
  <2> SUFFICES ASSUME NEW i \in 0..n PROVE st2[i] = st[i] /\ at2[i] = at[i]  OBVIOUS
  <2>1. i \in 0..(n + 1) /\ i # n + 1  BY <1>1
  <2> QED  BY <2>1
<1>5. \A i \in 1..n : rd2[i] = rd[i] /\ g2[i] = g[i]
  <2> SUFFICES ASSUME NEW i \in 1..n PROVE rd2[i] = rd[i] /\ g2[i] = g[i]  OBVIOUS
  <2>1. i \in 1..(n + 1) /\ i # n + 1  BY <1>1
  <2> QED  BY <2>1
<1> HIDE DEF st2, rd2, g2, at2
<1>6. ASSUME NEW i \in 1..(n + 1)
      PROVE  Entry(u, ts2, tape2, st2[i - 1], rd2[i], g2[i], st2[i], at2[i - 1], at2[i])
  <2>1. CASE i = n + 1
    <3>1. i - 1 = n /\ n \in 0..n  BY <1>1, <2>1
    <3> QED  BY <1>0, <1>3, <1>4, <2>1, <3>1
  <2>2. CASE i # n + 1
    <3>1. i \in 1..n /\ i - 1 \in 0..n /\ i \in 0..n  BY <1>1, <2>2
    <3>2. Entry(u, ts, tape, st[i - 1], rd[i], g[i], st[i], at[i - 1], at[i])  BY <1>1, <3>1
    <3>3. Entry(u, ts2, tape2, st[i - 1], rd[i], g[i], st[i], at[i - 1], at[i])
      BY <3>2, EntryKept DEF StillTold
    <3>4. st2[i - 1] = st[i - 1] /\ at2[i - 1] = at[i - 1] /\ rd2[i] = rd[i] /\ g2[i] = g[i]
          /\ st2[i] = st[i] /\ at2[i] = at[i]
      BY <1>4, <1>5, <3>1
    <3> QED  BY <3>3, <3>4
  <2> QED  BY <2>1, <2>2
<1>7. \A k \in DOMAIN tape2 : Len(tape2[k]) \in Nat /\ at2[0][k] = 0
  <2>1. at2[0] = at[0]  BY <1>1, <1>4
  <2> QED  BY <1>1, <2>1 DEF Longer
<1>8. st2[0] = fresh  BY <1>1, <1>4
<1>9. Log(u, ts2, tape2, fresh, n + 1, st2, rd2, g2, at2)  BY <1>2, <1>6, <1>7, <1>8 DEF Log
<1> QED  BY <1>3, <1>9 DEF Logged

(***************************************************************************)
(* A recording is the log of its handlers.                                 *)
(***************************************************************************)
LoggedBy(n, st, rd, g, at) ==
  /\ Log(unit, truths, records, FreshState, n, st, rd, g, at)
  /\ st[n] = NowState
  /\ \A k \in DOMAIN records : at[n][k] = Len(records[k])

LoggedOK ==
  mode = "recording" /\ Replayable =>
    /\ DOMAIN records = KernelKeys /\ Sequences(records)
    /\ phase # "exited" => \E n, st, rd, g, at : LoggedBy(n, st, rd, g, at)

LEMMA FreshKept == unit' = unit => FreshState' = FreshState
BY NewKept DEF FreshState

LEMMA LoggedInit == Init => LoggedOK
<1> SUFFICES ASSUME Init PROVE LoggedOK  OBVIOUS
<1>1. /\ records = [k \in DOMAIN kernel |-> <<>>] /\ phase = "new" /\ present = FALSE /\ device = New
      /\ results = <<>> /\ power = 0 /\ number = 0
  BY DEF Init, FrameworkInit
<1>2. DOMAIN kernel = KernelKeys  BY BaseInit DEF BaseOK, MachinesOK, MachineOK
<1>3. DOMAIN records = KernelKeys /\ \A k \in DOMAIN records : records[k] = <<>>  BY <1>1, <1>2
<1>4. <<>> \in Seq({}) /\ Len(<<>>) = 0  OBVIOUS
<1>5. Sequences(records)  BY <1>3, <1>4 DEF Sequences
<1>6. NowState = FreshState  BY <1>1 DEF NowState, FreshState
<1> DEFINE st == [i \in {0} |-> NowState]
           at == [i \in {0} |-> [k \in KernelKeys |-> 0]]
           none == [i \in {} |-> 0]
<1>7. LoggedBy(0, st, none, none, at)
  <2>1. st[0] = FreshState /\ st[0] = NowState  BY <1>6
  <2>2. \A k \in KernelKeys : at[0][k] = 0  OBVIOUS
  <2> HIDE DEF st, at, none
  <2>3. \A k \in DOMAIN records : Len(records[k]) = 0 /\ at[0][k] = 0  BY <1>3, <1>4, <2>2
  <2>4. \A i \in 1..0 : FALSE  OBVIOUS
  <2>5. Log(unit, truths, records, FreshState, 0, st, none, none, at)  BY <2>1, <2>3, <2>4 DEF Log
  <2> QED  BY <2>1, <2>3, <2>5 DEF LoggedBy
<1> HIDE DEF st, at, none
<1> QED  BY <1>3, <1>5, <1>7 DEF LoggedOK

LEMMA NowKept ==
  ASSUME UNCHANGED <<present, device, results, power, number, phase>>
  PROVE  NowState' = NowState
BY DEF NowState

LEMMA LoggedKept ==
  ASSUME LoggedOK, UNCHANGED <<unit, phase, present, device, results, power, number, mode, truths, records>>
  PROVE  LoggedOK'
<1>1. KernelKeys' = KernelKeys /\ FreshState' = FreshState /\ NowState' = NowState /\ Replayable' = Replayable
  BY FixedKept, FreshKept, NowKept, UnitKept DEF Replayable
<1>2. \A n, st, rd, g, at : LoggedBy(n, st, rd, g, at)' = LoggedBy(n, st, rd, g, at)
  BY <1>1 DEF LoggedBy
<1>3. Sequences(records)' = Sequences(records)  BY DEF Sequences
<1> QED  BY <1>1, <1>2, <1>3 DEF LoggedOK

\* In a recording all reads of a handler give what is there.
LEMMA RecordingSame == mode = "recording" => \A reads : Same(reads, Got(reads))
BY RecordingReads DEF Same

LEMMA RecordingStep ==
  ASSUME RecordOK, Replayable, mode = "recording", Handler
  PROVE  StepOK(unit, NowState, HandlerReads, Got(HandlerReads), NowState')
<1>1. phase = "new" => device = New  BY DEF RecordOK, BaseOK, PhasesOK
<1>2. Same(HandlerReads, Got(HandlerReads))  BY RecordingSame
<1>3. ASSUME Class = "rapl_powercap", phase = "new" PROVE Got(HandlerReads)[Powercap] # Absent
  <2>1. HandlerReads = CreateReads  BY <1>3 DEF HandlerReads
  <2>2. Powercap \in DOMAIN CreateReads /\ Content(Powercap) # Absent
    BY <1>3, CreateRecordable DEF RecordOK
  <2> QED  BY <2>1, <2>2, RecordingReads
<1> DEFINE g == Got(HandlerReads)
<1>4. g = Got(HandlerReads)  OBVIOUS
<1> HIDE DEF g
<1>5. StepOK(unit, NowState, HandlerReads, g, NowState')  BY <1>1, <1>2, <1>3, <1>4, HandlerStep
<1> QED  BY <1>4, <1>5

\* The truths that are known stay.
LEMMA TruthsStay ==
  ASSUME RecordOK, mode = "recording", Handler
  PROVE  \A s : ToldBy(unit, truths, s) => ToldBy(unit, truths', s)
<1>1. PICK S : truths \in Seq(S)  BY DEF RecordOK, TruthsOK
<1>2. CASE truths' = truths  BY <1>2
<1>3. CASE \E e : truths' = Append(truths, e)
  <2>1. PICK e : truths' = Append(truths, e)  BY <1>3
  <2>2. /\ Len(truths') = Len(truths) + 1 /\ Len(truths) \in Nat
        /\ \A i \in 1..Len(truths) : truths'[i] = truths[i]
    BY <1>1, <2>1, Appended
  <2> SUFFICES ASSUME NEW s, ToldBy(unit, truths, s), s.phase = "ended" PROVE ToldBy(unit, truths', s)
    BY DEF ToldBy
  <2>3. s.number \in Nat /\ s.number # 0 /\ s.number <= Len(truths)  BY DEF ToldBy
  <2>4. s.number <= Len(truths') /\ truths'[s.number] = truths[s.number]  BY <2>2, <2>3
  <2> QED  BY <2>4 DEF ToldBy
<1>4. truths' = truths \/ \E e : truths' = Append(truths, e)
  <2>1. CASE EndMeasurement  BY <2>1 DEF EndMeasurement
  <2>2. CASE Create \/ StartMeasurement  BY <2>2 DEF Create, StartMeasurement, history
  <2> QED  BY <2>1, <2>2 DEF Handler
<1> QED  BY <1>2, <1>3, <1>4

LEMMA ToldNow ==
  ASSUME RecordOK', mode' = "recording"
  PROVE  ToldBy(unit', truths', NowState')
<1>1. /\ NowState'.present = present' /\ NowState'.device = device' /\ NowState'.results = results'
      /\ NowState'.power = power' /\ NowState'.number = number' /\ NowState'.phase = phase'
  BY NowNext
<1>2. /\ \E S : truths' \in Seq(S)
      /\ phase' = "ended" => /\ number' = Len(truths') /\ number' # 0
                             /\ truths'[number'].present = present'
                             /\ truths'[number'].whole => ShownNow' = truths'[number'].shown
  BY DEF RecordOK, TruthsOK
<1>3. Len(truths') \in Nat
  <2>1. PICK S : truths' \in Seq(S)  BY <1>2
  <2> QED  BY <2>1
<1>4. ShownNow' = Shown(unit', device', results', power')  BY ShownIs
<1> QED  BY <1>1, <1>2, <1>3, <1>4 DEF ToldBy

LEMMA LoggedHandler == RecordOK /\ LoggedOK /\ mode = "recording" /\ Handler => LoggedOK'
<1> SUFFICES ASSUME RecordOK, LoggedOK, mode = "recording", Handler PROVE LoggedOK'  OBVIOUS
<1>1. BaseOK /\ RaplOK  BY DEF RecordOK
<1>3. UNCHANGED <<unit, mode>> /\ phase \in {"new", "created", "started", "ended"}
      /\ phase' \in {"created", "started", "ended"}
  BY HandlerIs
<1>4. KernelKeys' = KernelKeys /\ FreshState' = FreshState /\ Replayable' = Replayable
  BY <1>3, FixedKept, FreshKept, UnitKept DEF Replayable
<1>5. CASE Replayable
  <2>0. DOMAIN records = KernelKeys /\ Sequences(records)  BY <1>5 DEF LoggedOK
  <2> DEFINE reads == HandlerReads
             got == Got(HandlerReads)
             end == [k \in KernelKeys |-> Len(records'[k])]
  <2>1. /\ DOMAIN records' = DOMAIN records /\ Sequences(records')
        /\ \A k \in KernelKeys :
             /\ Len(records[k]) \in Nat
             /\ Len(records'[k]) = Len(records[k]) + Times(reads, k)
             /\ \A j \in 1..Len(records[k]) : records'[k][j] = records[k][j]
             /\ \A j \in 1..Times(reads, k) : records'[k][Len(records[k]) + j] = got[k]
    BY <1>1, <2>0, <1>5, RecordsGrow
  <2>2. PICK n, st, rd, g, at : LoggedBy(n, st, rd, g, at)  BY <1>3, <1>5 DEF LoggedOK
  <2>3. Recordable(reads)  BY <1>1, <1>5, HandlerRecordable
  <2>4. StepOK(unit, NowState, reads, got, NowState')  BY <1>5, RecordingStep
  <2>5. \A s : ToldBy(unit, truths, s) => ToldBy(unit, truths', s)  BY TruthsStay
  <2>6. ToldBy(unit, truths', NowState')
    <3>1. RecordOK'
      <4>1. [Next]_vars  BY DEF Handler, Next
      <4> QED  BY <4>1, RecordNext
    <3> QED  BY <1>3, <3>1, ToldNow
  <2>7. NowState'.phase = phase'  BY NowNext
  <2>8. \A k \in KernelKeys : end[k] = Len(records'[k])  OBVIOUS
  <2> HIDE DEF reads, got, end
  <2>9. \A k : Times(reads, k) \in Nat  BY <2>3, TimesIs DEF Recordable
  <2>10. \A k \in KernelKeys : Len(records'[k]) \in Nat  BY <2>1, <2>9
  <2>11. Longer(records, records')  BY <2>0, <2>1, <2>9, <2>10 DEF Longer
  <2>12. /\ Log(unit, truths, records, FreshState, n, st, rd, g, at) /\ st[n] = NowState
         /\ \A k \in DOMAIN records : at[n][k] = Len(records[k])
    BY <2>2 DEF LoggedBy
  <2>13. ReadFrom(records', at[n], end, reads, got)
    <3>1. \A k \in DOMAIN reads : k \in DOMAIN records' /\ reads[k] \in Nat /\ reads[k] # 0
      BY <2>0, <2>1, <2>3 DEF Recordable, Readings
    <3>2. ASSUME NEW k \in DOMAIN records'
          PROVE  /\ at[n][k] \in Nat /\ end[k] = at[n][k] + Times(reads, k) /\ end[k] <= Len(records'[k])
                 /\ \A j \in 1..Times(reads, k) : records'[k][at[n][k] + j] = got[k]
      <4>1. at[n][k] = Len(records[k]) /\ k \in KernelKeys  BY <2>0, <2>1, <2>12
      <4>2. end[k] = Len(records'[k]) /\ Len(records'[k]) \in Nat  BY <2>8, <2>10, <4>1
      <4> QED  BY <2>1, <4>1, <4>2
    <3> QED  BY <3>1, <3>2 DEF ReadFrom
  <2>14. Entry(unit, truths', records', st[n], reads, got, NowState', at[n], end)
    BY <1>3, <2>4, <2>6, <2>7, <2>12, <2>13 DEF Entry
  <2>15. /\ Logged(unit, truths, records, FreshState, n, st[n], at[n])
         /\ StillTold(unit, truths, truths')
    BY <2>5, <2>12 DEF Logged, StillTold
  <2>16. Logged(unit, truths', records', FreshState, n + 1, NowState', end)
    BY <2>11, <2>14, <2>15, LogGrows
  <2>17. PICK st2, rd2, g2, at2 :
            /\ Log(unit, truths', records', FreshState, n + 1, st2, rd2, g2, at2)
            /\ st2[n + 1] = NowState' /\ at2[n + 1] = end
    BY <2>16 DEF Logged
  <2>18. LoggedBy(n + 1, st2, rd2, g2, at2)'
    BY <2>0, <1>3, <1>4, <2>1, <2>8, <2>17 DEF LoggedBy
  <2> QED  BY <2>0, <1>4, <2>1, <2>18 DEF LoggedOK
<1>6. CASE ~Replayable  BY <1>4, <1>6 DEF LoggedOK
<1> QED  BY <1>5, <1>6

(***************************************************************************)
(* A replay goes where its recording went.                                 *)
(***************************************************************************)
\* What is left to be replayed is the tape from there on.
Left(tape, from, q) ==
  /\ DOMAIN q = DOMAIN tape
  /\ \A k \in DOMAIN tape :
       /\ Len(tape[k]) \in Nat /\ from[k] \in Nat
       /\ Len(q[k]) = Len(tape[k]) - from[k]
       /\ \A j \in 1..Len(q[k]) : q[k][j] = tape[k][from[k] + j]

\* The replay has run p of the n handlers of the recording.
ReplayedBy(tape, n, st, rd, g, at, p) ==
  /\ Log(unit, truths, tape, FreshState, n, st, rd, g, at)
  /\ p \in 0..n /\ st[p] = NowState
  /\ Left(tape, at[p], queues)
  /\ st[n].phase = "ended" /\ st[n].number = Len(truths)

ReplayOK ==
  mode = "replaying" =>
    /\ Replayable /\ (phase = "new" => device = New)
    /\ Sequences(queues) /\ Len(truths) \in Nat
    /\ \E tape, n, st, rd, g, at, p : ReplayedBy(tape, n, st, rd, g, at, p)

\* A handler that the recording ran at this place finds what it read there.
LEMMA ReadsReplayed ==
  ASSUME mode = "replaying", NEW tape, NEW from, NEW to, NEW reads, NEW g,
         ReadFrom(tape, from, to, reads, g), Left(tape, from, queues), g = [k \in DOMAIN reads |-> g[k]]
  PROVE  /\ \A k \in DOMAIN reads : k \in DOMAIN queues /\ reads[k] \in Nat /\ reads[k] <= Len(queues[k])
         /\ Served(reads) /\ Same(reads, g) /\ Got(reads) = g
<1>1. ASSUME NEW k \in DOMAIN reads
      PROVE  /\ k \in DOMAIN queues /\ reads[k] \in Nat /\ reads[k] <= Len(queues[k])
             /\ queues[k][1] = g[k] /\ queues[k][reads[k]] = g[k]
  <2>1. k \in DOMAIN tape /\ reads[k] \in Nat /\ reads[k] # 0 /\ Times(reads, k) = reads[k]
    BY DEF ReadFrom, Times
  <2>2. /\ from[k] \in Nat /\ to[k] = from[k] + reads[k] /\ to[k] <= Len(tape[k])
        /\ \A j \in 1..reads[k] : tape[k][from[k] + j] = g[k]
    BY <2>1 DEF ReadFrom
  <2>3. /\ k \in DOMAIN queues /\ Len(tape[k]) \in Nat /\ Len(queues[k]) = Len(tape[k]) - from[k]
        /\ \A j \in 1..Len(queues[k]) : queues[k][j] = tape[k][from[k] + j]
    BY <2>1 DEF Left
  <2>4. reads[k] <= Len(queues[k]) /\ Len(queues[k]) \in Nat  BY <2>1, <2>2, <2>3
  <2>5. 1 \in 1..reads[k] /\ reads[k] \in 1..reads[k] /\ 1 \in 1..Len(queues[k]) /\ reads[k] \in 1..Len(queues[k])
    BY <2>1, <2>4
  <2> QED  BY <2>1, <2>2, <2>3, <2>4, <2>5
<1>2. Served(reads)  BY <1>1 DEF Served
<1>3. \A k \in DOMAIN reads : ReadContent(k, 1) = g[k] /\ ReadContent(k, reads[k]) = g[k]
  BY <1>1 DEF ReadContent, Replayed
<1>4. Same(reads, g)  BY <1>3 DEF Same
<1>5. Got(reads) = [k \in DOMAIN reads |-> g[k]]  BY <1>3 DEF Got
<1> QED  BY <1>1, <1>2, <1>4, <1>5

\* There is something to do.
Due == phase \in {"new", "started"} \/ MayStart

\* Then the recording went on, and the handler reads what was read there.
Going(tape, n, st, rd, g, at, p) ==
  /\ ReplayedBy(tape, n, st, rd, g, at, p)
  /\ p + 1 \in 1..n
  /\ Entry(unit, truths, tape, NowState, HandlerReads, g[p + 1], st[p + 1], at[p], at[p + 1])
  /\ Served(HandlerReads) /\ Same(HandlerReads, g[p + 1]) /\ Got(HandlerReads) = g[p + 1]
  /\ \A k \in DOMAIN HandlerReads :
       k \in DOMAIN queues /\ HandlerReads[k] \in Nat /\ HandlerReads[k] <= Len(queues[k])

LEMMA ReplayGoes ==
  ASSUME ReplayOK, mode = "replaying", Due
  PROVE  \E tape, n, st, rd, g, at, p : Going(tape, n, st, rd, g, at, p)
<1>1. PICK tape, n, st, rd, g, at, p : ReplayedBy(tape, n, st, rd, g, at, p)  BY DEF ReplayOK
<1>2. /\ n \in Nat /\ p \in 0..n /\ st[p] = NowState /\ st[n].phase = "ended" /\ st[n].number = Len(truths)
      /\ \A i \in 1..n : Entry(unit, truths, tape, st[i - 1], rd[i], g[i], st[i], at[i - 1], at[i])
  BY <1>1 DEF ReplayedBy, Log
<1>3. p # n
  <2>1. phase \in {"new", "started"} => phase # "ended"  OBVIOUS
  <2>2. MayStart => number < Len(truths)  BY DEF MayStart
  <2>3. Len(truths) \in Nat  BY DEF ReplayOK
  <2>4. number # Len(truths) \/ phase # "ended"
    <3>1. CASE MayStart  BY <2>2, <2>3, <3>1
    <3>2. CASE phase \in {"new", "started"}  BY <2>1, <3>2
    <3> QED  BY <3>1, <3>2 DEF Due
  <2> QED  BY <1>2, <2>4, NowIs
<1>4. p + 1 \in 1..n /\ (p + 1) - 1 = p  BY <1>2, <1>3
<1> DEFINE reads == rd[p + 1]
           got == g[p + 1]
<1>5. Entry(unit, truths, tape, NowState, reads, got, st[p + 1], at[p], at[p + 1])  BY <1>2, <1>4
<1> HIDE DEF reads, got
<1>6. /\ reads = ReadsBy(unit, NowState, got) /\ got = [k \in DOMAIN reads |-> got[k]]
      /\ Class = "rapl_powercap" /\ phase = "new" => got[Powercap] # Absent
      /\ ReadFrom(tape, at[p], at[p + 1], reads, got)
  BY <1>5, NowIs DEF Entry, StepOK, Class
<1>7. Left(tape, at[p], queues)  BY <1>1 DEF ReplayedBy
<1>8. /\ \A k \in DOMAIN reads : k \in DOMAIN queues /\ reads[k] \in Nat /\ reads[k] <= Len(queues[k])
      /\ Served(reads) /\ Same(reads, got) /\ Got(reads) = got
  BY <1>6, <1>7, ReadsReplayed
<1>9. reads = HandlerReads
  <2>1. Replayable  BY DEF ReplayOK
  <2>2. phase \in {"new", "created", "started", "ended"}  BY DEF Due, MayStart
  <2>3. Same(ReadsBy(unit, NowState, got), got)  BY <1>6, <1>8
  <2>4. ReadsBy(unit, NowState, got) = HandlerReads  BY <1>6, <2>1, <2>2, <2>3, HandlerAgrees
  <2> QED  BY <1>6, <2>4
<1>10. Going(tape, n, st, rd, g, at, p)
  <2>1. Entry(unit, truths, tape, NowState, HandlerReads, got, st[p + 1], at[p], at[p + 1])  BY <1>5, <1>9
  <2>2. Served(HandlerReads) /\ Same(HandlerReads, got) /\ Got(HandlerReads) = got  BY <1>8, <1>9
  <2>3. \A k \in DOMAIN HandlerReads :
          k \in DOMAIN queues /\ HandlerReads[k] \in Nat /\ HandlerReads[k] <= Len(queues[k])
    BY <1>8, <1>9
  <2> QED  BY <1>1, <1>4, <2>1, <2>2, <2>3 DEF Going, got
<1> QED  BY <1>10

\* It never stops: nothing lacks, and registers answer.
LEMMA ReplayServed ==
  ASSUME ReplayOK, mode = "replaying", Due
  PROVE  ~Stops(HandlerReads)
<1>1. PICK tape, n, st, rd, g, at, p : Going(tape, n, st, rd, g, at, p)  BY ReplayGoes
<1>2. Served(HandlerReads)  BY <1>1 DEF Going
<1>3. ~EndsPowertop(HandlerReads)  BY DEF EndsPowertop, MsrReturned
<1> QED  BY <1>2, <1>3 DEF Stops

\* A handler takes from the queues what it reads.
LEMMA LeftNext ==
  ASSUME NEW tape, NEW from, NEW to, NEW reads, NEW g, NEW q, NEW q2,
         ReadFrom(tape, from, to, reads, g), Left(tape, from, q), DOMAIN q2 = DOMAIN q,
         \A k \in DOMAIN q :
           /\ Len(q[k]) \in Nat
           /\ Len(q2[k]) = Len(q[k]) - Times(reads, k)
           /\ \A j \in 1..Len(q2[k]) : q2[k][j] = q[k][Times(reads, k) + j]
  PROVE  Left(tape, to, q2)
<1>1. \A k : Times(reads, k) \in Nat  BY TimesIs DEF ReadFrom
<1>2. DOMAIN q2 = DOMAIN tape  BY DEF Left
<1>3. ASSUME NEW k \in DOMAIN tape
      PROVE  /\ Len(tape[k]) \in Nat /\ to[k] \in Nat
             /\ Len(q2[k]) = Len(tape[k]) - to[k]
             /\ \A j \in 1..Len(q2[k]) : q2[k][j] = tape[k][to[k] + j]
  <2>1. /\ from[k] \in Nat /\ to[k] = from[k] + Times(reads, k) /\ to[k] <= Len(tape[k])
    BY DEF ReadFrom
  <2>2. /\ k \in DOMAIN q /\ Len(tape[k]) \in Nat /\ Len(q[k]) = Len(tape[k]) - from[k]
        /\ \A j \in 1..Len(q[k]) : q[k][j] = tape[k][from[k] + j]
    BY DEF Left
  <2>3. /\ Len(q2[k]) = Len(q[k]) - Times(reads, k)
        /\ \A j \in 1..Len(q2[k]) : q2[k][j] = q[k][Times(reads, k) + j]
    BY <2>2
  <2>4. Times(reads, k) \in Nat  BY <1>1
  <2>5. to[k] \in Nat /\ Len(q2[k]) = Len(tape[k]) - to[k]  BY <2>1, <2>2, <2>3, <2>4
  <2>6. ASSUME NEW j \in 1..Len(q2[k]) PROVE q2[k][j] = tape[k][to[k] + j]
    <3>1. Times(reads, k) + j \in 1..Len(q[k])  BY <2>1, <2>2, <2>3, <2>4, <2>5
    <3>2. from[k] + (Times(reads, k) + j) = to[k] + j  BY <2>1, <2>4, <2>5
    <3> QED  BY <2>2, <2>3, <3>1, <3>2
  <2> QED  BY <2>2, <2>5, <2>6
<1> QED  BY <1>2, <1>3 DEF Left

LEMMA HandlerDue == Handler => Due
BY DEF Handler, Create, StartMeasurement, EndMeasurement, Due

\* A replay learns of no more truths.
LEMMA ReplayTruths == mode = "replaying" /\ Handler => truths' = truths
BY DEF Handler, Create, StartMeasurement, EndMeasurement, history

LEMMA ReplayHandler == ReplayOK /\ mode = "replaying" /\ Handler => ReplayOK'
<1> SUFFICES ASSUME ReplayOK, mode = "replaying", Handler PROVE ReplayOK'  OBVIOUS
<1>1. Due  BY HandlerDue
<1>2. PICK tape, n, st, rd, g, at, p : Going(tape, n, st, rd, g, at, p)  BY <1>1, ReplayGoes
<1> DEFINE got == g[p + 1]
           next == st[p + 1]
<1>3. /\ ReplayedBy(tape, n, st, rd, g, at, p) /\ p + 1 \in 1..n
      /\ Entry(unit, truths, tape, NowState, HandlerReads, got, next, at[p], at[p + 1])
      /\ Same(HandlerReads, got) /\ Got(HandlerReads) = got
      /\ \A k \in DOMAIN HandlerReads :
           k \in DOMAIN queues /\ HandlerReads[k] \in Nat /\ HandlerReads[k] <= Len(queues[k])
  BY <1>2 DEF Going
<1> HIDE DEF got, next
<1>4. Replayable /\ (phase = "new" => device = New) /\ Sequences(queues) /\ Len(truths) \in Nat
  BY DEF ReplayOK
<1>5. /\ UNCHANGED <<unit, mode>> /\ phase' \in {"created", "started", "ended"}  BY HandlerIs
<1>6. truths' = truths  BY ReplayTruths
<1>7. NowState' = next
  <2>1. StepOK(unit, NowState, HandlerReads, got, next)  BY <1>3 DEF Entry
  <2>2. Class = "rapl_powercap" /\ phase = "new" => got[Powercap] # Absent
    BY <2>1, NowIs DEF StepOK, Class
  <2>3. StepOK(unit, NowState, HandlerReads, got, NowState')  BY <1>3, <1>4, <2>2, HandlerStep
  <2> QED  BY <2>1, <2>3 DEF StepOK
<1>8. /\ DOMAIN queues' = DOMAIN queues /\ Sequences(queues')
      /\ \A k \in DOMAIN queues :
           /\ Len(queues[k]) \in Nat
           /\ Len(queues'[k]) = Len(queues[k]) - Times(HandlerReads, k)
           /\ \A j \in 1..Len(queues'[k]) : queues'[k][j] = queues[k][Times(HandlerReads, k) + j]
  BY <1>3, <1>4, QueuesShrink
<1>9. Left(tape, at[p + 1], queues')
  <2>1. ReadFrom(tape, at[p], at[p + 1], HandlerReads, got)  BY <1>3 DEF Entry
  <2>2. Left(tape, at[p], queues)  BY <1>3 DEF ReplayedBy
  <2> QED  BY <1>8, <2>1, <2>2, LeftNext
<1>10. FreshState' = FreshState /\ Replayable' = Replayable  BY <1>5, FreshKept, UnitKept DEF Replayable
<1>11. ReplayedBy(tape, n, st, rd, g, at, p + 1)'
  <2>1. /\ Log(unit, truths, tape, FreshState, n, st, rd, g, at)
        /\ st[n].phase = "ended" /\ st[n].number = Len(truths)
    BY <1>3 DEF ReplayedBy
  <2>2. n \in Nat /\ p \in 0..n  BY <1>3 DEF ReplayedBy, Log
  <2>3. p + 1 \in 0..n  BY <1>3, <2>2
  <2> QED  BY <1>5, <1>6, <1>7, <1>9, <1>10, <2>1, <2>3 DEF ReplayedBy, next
<1> QED  BY <1>4, <1>5, <1>6, <1>8, <1>10, <1>11 DEF ReplayOK

\* powertop is started again, with the records of what it did.
LEMMA ReplayBegins == RecordOK /\ LoggedOK /\ Replay => ReplayOK'
<1> SUFFICES ASSUME RecordOK, LoggedOK, Replay PROVE ReplayOK'  OBVIOUS
<1>1. /\ phase = "ended" /\ Replayable /\ mode = "recording" /\ mode' = "replaying"
      /\ queues' = records /\ unit' = unit /\ truths' = truths
      /\ phase' = "new" /\ present' = FALSE /\ device' = New /\ results' = <<>> /\ power' = 0 /\ number' = 0
  BY DEF Replay, SaveAndLoad, Replayable, history
<1>2. PICK n, st, rd, g, at : LoggedBy(n, st, rd, g, at)  BY <1>1 DEF LoggedOK
<1>3. /\ Log(unit, truths, records, FreshState, n, st, rd, g, at) /\ st[n] = NowState
      /\ n \in Nat /\ st[0] = FreshState
      /\ \A k \in DOMAIN records : Len(records[k]) \in Nat /\ at[0][k] = 0
  BY <1>2 DEF LoggedBy, Log
<1>4. number = Len(truths) /\ \E S : truths \in Seq(S)  BY <1>1 DEF RecordOK, TruthsOK
<1>5. Len(truths) \in Nat
  <2>1. PICK S : truths \in Seq(S)  BY <1>4
  <2> QED  BY <2>1
<1>6. FreshState' = FreshState /\ New' = New /\ Replayable' = Replayable
  BY <1>1, FreshKept, NewKept, UnitKept DEF Replayable
<1>7. NowState' = FreshState  BY <1>1, NowNext DEF FreshState
<1>8. Left(records, at[0], queues')
  <2>1. ASSUME NEW k \in DOMAIN records
        PROVE  /\ Len(records[k]) \in Nat /\ at[0][k] \in Nat
               /\ Len(queues'[k]) = Len(records[k]) - at[0][k]
               /\ \A j \in 1..Len(queues'[k]) : queues'[k][j] = records[k][at[0][k] + j]
    <3>1. Len(records[k]) \in Nat /\ at[0][k] = 0 /\ queues'[k] = records[k]  BY <1>1, <1>3
    <3>2. \A j \in 1..Len(queues'[k]) : at[0][k] + j = j  BY <3>1
    <3>3. Len(queues'[k]) = Len(records[k]) - at[0][k]  BY <3>1
    <3> QED  BY <3>1, <3>2, <3>3
  <2> QED  BY <1>1, <2>1 DEF Left
<1>9. st[n].phase = "ended" /\ st[n].number = Len(truths)  BY <1>1, <1>3, <1>4, NowIs
<1>10. 0 \in 0..n  BY <1>3
<1>11. PICK tape : tape = records  OBVIOUS
<1>12. ReplayedBy(tape, n, st, rd, g, at, 0)'
  <2>1. Log(unit, truths, tape, FreshState, n, st, rd, g, at) /\ Left(tape, at[0], queues')
    BY <1>3, <1>8, <1>11
  <2> QED  BY <1>1, <1>3, <1>6, <1>7, <1>9, <1>10, <2>1 DEF ReplayedBy
<1>13. Sequences(queues')  BY <1>1 DEF LoggedOK, Sequences
<1> QED  BY <1>1, <1>5, <1>6, <1>12, <1>13 DEF ReplayOK

LEMMA NoStop == ReplayOK /\ mode = "replaying" => ~Stop
<1> SUFFICES ASSUME ReplayOK, mode = "replaying", Stop PROVE FALSE  OBVIOUS
<1>1. CASE MayStart /\ Stops(StartReads)
  <2>1. HandlerReads = StartReads  BY <1>1 DEF MayStart, HandlerReads
  <2>2. Due  BY <1>1 DEF Due
  <2>3. ~Stops(HandlerReads)  BY <2>2, ReplayServed
  <2> QED  BY <1>1, <2>1, <2>3
<1>2. CASE phase = "started" /\ Stops(EndReads)
  <2>1. HandlerReads = EndReads  BY <1>2 DEF HandlerReads
  <2>2. Due  BY <1>2 DEF Due
  <2>3. ~Stops(HandlerReads)  BY <2>2, ReplayServed
  <2> QED  BY <1>2, <2>1, <2>3
<1> QED  BY <1>1, <1>2 DEF Stop

\* The machine's own steps, while powertop records.
MachineSteps == Tick \/ SetLevel \/ Lost \/ Found

LEMMA MachineKeeps ==
  ASSUME MachineSteps
  PROVE  /\ mode = "recording" /\ mode' = mode
         /\ UNCHANGED <<unit, phase, present, device, results, power, number, mode, truths, records>>
BY DEF MachineSteps, Tick, SetLevel, Lost, Found, history

LEMMA HandlersAre == Next => MachineSteps \/ Handler \/ Stop \/ Replay
BY DEF Next, MachineSteps, Handler

LEMMA LoggedNext == RecordOK /\ LoggedOK /\ [Next]_vars => LoggedOK'
<1> SUFFICES ASSUME RecordOK, LoggedOK, [Next]_vars PROVE LoggedOK'  OBVIOUS
<1>1. CASE MachineSteps
  <2>1. UNCHANGED <<unit, phase, present, device, results, power, number, mode, truths, records>>
    BY <1>1, MachineKeeps
  <2> QED  BY <2>1, LoggedKept
<1>2. CASE Handler
  <2>1. CASE mode = "recording"  BY <1>2, <2>1, LoggedHandler
  <2>2. CASE mode # "recording"
    <3>1. mode' = mode  BY <1>2, HandlerIs
    <3> QED  BY <2>2, <3>1 DEF LoggedOK
  <2> QED  BY <2>1, <2>2
<1>3. CASE Stop
  <2>1. /\ UNCHANGED <<unit, mode, records>>
        /\ mode = "recording" => phase' = "exited"
    BY <1>3 DEF Stop
  <2>2. KernelKeys' = KernelKeys /\ Replayable' = Replayable  BY <2>1, FixedKept, UnitKept DEF Replayable
  <2>3. Sequences(records)' = Sequences(records)  BY <2>1 DEF Sequences
  <2> QED  BY <2>1, <2>2, <2>3 DEF LoggedOK
<1>4. CASE Replay
  <2>1. mode' # "recording"  BY <1>4 DEF Replay, SaveAndLoad
  <2> QED  BY <2>1 DEF LoggedOK
<1>5. CASE UNCHANGED vars
  <2>1. UNCHANGED <<unit, phase, present, device, results, power, number, mode, truths, records>>
    BY <1>5 DEF vars
  <2> QED  BY <2>1, LoggedKept
<1> QED  BY <1>1, <1>2, <1>3, <1>4, <1>5, HandlersAre

LEMMA ReplayNext == RecordOK /\ LoggedOK /\ ReplayOK /\ [Next]_vars => ReplayOK'
<1> SUFFICES ASSUME RecordOK, LoggedOK, ReplayOK, [Next]_vars PROVE ReplayOK'  OBVIOUS
<1>0. mode \in {"recording", "replaying"}  BY DEF RecordOK, BaseOK, PhasesOK
<1>1. CASE MachineSteps
  <2>1. mode' = "recording"  BY <1>1, MachineKeeps
  <2> QED  BY <2>1 DEF ReplayOK
<1>2. CASE Handler
  <2>1. CASE mode = "recording"
    <3>1. mode' = mode  BY <1>2, HandlerIs
    <3> QED  BY <2>1, <3>1 DEF ReplayOK
  <2>2. CASE mode = "replaying"  BY <1>2, <2>2, ReplayHandler
  <2> QED  BY <1>0, <2>1, <2>2
<1>3. CASE Stop
  <2>1. mode = "recording" /\ mode' = mode  BY <1>0, <1>3, NoStop DEF Stop
  <2> QED  BY <2>1 DEF ReplayOK
<1>4. CASE Replay  BY <1>4, ReplayBegins
<1>5. CASE UNCHANGED vars
  <2>1. UNCHANGED <<unit, phase, present, device, results, power, number, mode, truths, queues>>
    BY <1>5 DEF vars
  <2>2. FreshState' = FreshState /\ NowState' = NowState /\ Replayable' = Replayable /\ New' = New
    BY <2>1, FreshKept, NowKept, UnitKept, NewKept DEF Replayable
  <2>3. \A tape, n, st, rd, g, at, p : ReplayedBy(tape, n, st, rd, g, at, p)' = ReplayedBy(tape, n, st, rd, g, at, p)
    BY <2>1, <2>2 DEF ReplayedBy
  <2>4. Sequences(queues)' = Sequences(queues)  BY <2>1 DEF Sequences
  <2> QED  BY <2>1, <2>2, <2>3, <2>4 DEF ReplayOK
<1> QED  BY <1>1, <1>2, <1>3, <1>4, <1>5, HandlersAre

\* In a replay the measurement that ended is the one that was recorded.
LEMMA ReplayShows == ReplayOK /\ mode = "replaying" => ShowsWhatHappened
<1> SUFFICES ASSUME ReplayOK, mode = "replaying" PROVE ShowsWhatHappened  OBVIOUS
<1>1. PICK tape, n, st, rd, g, at, p : ReplayedBy(tape, n, st, rd, g, at, p)  BY DEF ReplayOK
<1>2. /\ n \in Nat /\ p \in 0..n /\ st[p] = NowState /\ st[0] = FreshState
      /\ \A i \in 1..n : Entry(unit, truths, tape, st[i - 1], rd[i], g[i], st[i], at[i - 1], at[i])
  BY <1>1 DEF ReplayedBy, Log
<1>3. CASE p = 0
  <2>1. phase = "new"  BY <1>2, <1>3, NowIs DEF FreshState
  <2> QED  BY <2>1 DEF ShowsWhatHappened
<1>4. CASE p # 0
  <2>1. p \in 1..n  BY <1>2, <1>4
  <2>2. Entry(unit, truths, tape, st[p - 1], rd[p], g[p], NowState, at[p - 1], at[p])  BY <1>2, <2>1
  <2>3. phase \in {"created", "started", "ended"} /\ ToldBy(unit, truths, NowState)  BY <2>2, NowIs DEF Entry
  <2>4. ShownNow = Shown(unit, device, results, power)  BY ShownIs
  <2> QED  BY <2>3, <2>4, NowIs DEF ToldBy, ShowsWhatHappened
<1> QED  BY <1>3, <1>4

\* What a recording keeps, what a replay has of it, and what both show.
ShownOK == RecordOK /\ LoggedOK /\ ReplayOK

LEMMA ShownInit == Init => ShownOK
<1> SUFFICES ASSUME Init PROVE ShownOK  OBVIOUS
<1>1. mode = "recording"  BY DEF Init, FrameworkInit
<1> QED  BY <1>1, RecordInit, LoggedInit DEF ShownOK, ReplayOK

LEMMA ShownNext == ShownOK /\ [Next]_vars => ShownOK'
BY RecordNext, LoggedNext, ReplayNext DEF ShownOK

LEMMA ShownShows == ShownOK => ShowsWhatHappened
<1> SUFFICES ASSUME ShownOK PROVE ShowsWhatHappened  OBVIOUS
<1>1. mode \in {"recording", "replaying"}  BY DEF ShownOK, RecordOK, BaseOK, PhasesOK
<1>2. CASE mode = "recording"  BY <1>2 DEF ShownOK, RecordOK, TruthsOK, ShowsWhatHappened
<1>3. CASE mode = "replaying"  BY <1>3, ReplayShows DEF ShownOK
<1> QED  BY <1>1, <1>2, <1>3

\* No measurement ends powertop's replay, a device is there in the measurements that
\* found it, and what could be read is shown as it happened, while powertop records and
\* when it replays: the share, the energy, the residencies, the frequencies and the power
\* of every class of devices (devices/*.cpp, intel_cpus.cpp, cpu_rapl_device.cpp,
\* intel_gpu.cpp, xe-gpu.cpp, test_framework.cpp).
THEOREM ShownTruly == Spec => []ShowsWhatHappened
BY ShownInit, ShownNext, ShownShows, PTL DEF Spec
=================================================================================
