------------------------------ MODULE EnergyDevices ------------------------------
(***************************************************************************)
(* Devices that are charged by an energy counter: the RAPL domains of a    *)
(* CPU, its memory and its graphics                                        *)
(* (src/src/cpu/rapl/rapl_interface.cpp and the three *_rapl_device.cpp)   *)
(* and the channels of an Xe graphics card (src/src/devices/xe-gpu.cpp).   *)
(* Of a power there is the energy and the time it is their ratio of.       *)
(***************************************************************************)
EXTENDS TestFramework

CONSTANTS
  EnergyRange   \* the counters wrap here

ASSUME EnergyRangeAssumption == EnergyRange \in Nat \ {0}

Domains == {"pp0", "dram", "pp1"}

Now == <<"T", "now">>
Powercap == <<"D", "powercap">>                 \* the domains that sysfs has
EnergyFile(domain) == <<"R", domain>>
EnergyMsr(domain)  == <<"M", domain>>

\* The constructor of c_rapl_interface looks into sysfs, and at the registers
\* only where sysfs has no package of this name.
InterfaceReads(listing) ==
  Once({Powercap} \cup IF listing = Absent THEN {EnergyMsr(d) : d \in Domains} ELSE {})

RaplInterface(listing) ==
  [powercap |-> listing # Absent,
   domains  |-> IF listing # Absent THEN listing
                ELSE {d \in Domains : MsrReturned(EnergyMsr(d), 1) > 0}]

EnergyKey(rapl, domain) == IF rapl.powercap THEN EnergyFile(domain) ELSE EnergyMsr(domain)

\* mutant: the status is cleared before the counter is read.
EnergyStatus_ZeroOnFailure(content, status) ==
  IF content = Absent THEN 0 ELSE content % EnergyRange

\* get_pp0_energy_status and its like: a failed read leaves the status alone.
EnergyStatus(content, status) ==
  IF content = Absent THEN status ELSE content % EnergyRange

NewRaplDevice ==
  [rapl |-> [powercap |-> FALSE, domains |-> {}], valid |-> FALSE,
   last_energy |-> 0, last_time |-> 0, consumed |-> [energy |-> 0, delta |-> 0]]

\* The constructor of the device, after that of the interface.
RaplCreated(rapl, domain, got) ==
  [NewRaplDevice EXCEPT
     !.rapl = rapl,
     !.valid = domain \in rapl.domains,
     !.last_energy = IF domain \in rapl.domains THEN EnergyStatus(got[EnergyKey(rapl, domain)], 0) ELSE 0,
     !.last_time = got[Now]]

RaplStarted(d, domain, got) ==
  [d EXCEPT !.last_time = got[Now],
            !.last_energy = EnergyStatus(got[EnergyKey(d.rapl, domain)], @)]

\* The counter is read only after some time.
RaplEndReads(d, domain, now) ==
  Once({Now} \cup IF now > d.last_time THEN {EnergyKey(d.rapl, domain)} ELSE {})

RaplEnded(d, domain, got) ==
  IF got[Now] = d.last_time
  THEN [d EXCEPT !.consumed = [energy |-> 0, delta |-> 0]]
  ELSE LET energy == EnergyStatus(got[EnergyKey(d.rapl, domain)], d.last_energy)
       IN [d EXCEPT !.consumed = [energy |-> energy - d.last_energy, delta |-> got[Now] - d.last_time],
                    !.last_energy = energy,
                    !.last_time = got[Now]]

RaplPower(d) == IF d.valid THEN d.consumed ELSE [energy |-> 0, delta |-> 0]

\* The first channel of an Xe card, which its power comes from.
Channel == <<"R", "energy1">>
NewXeDevice ==
  [energy_path |-> FALSE, last_energy |-> 0, last_time |-> 0, consumed |-> [energy |-> 0, delta |-> 0]]

\* The card is looked through once: what has no energy file then never gets one.
XeCreated(got) ==
  IF Channel \notin DOMAIN got THEN NewXeDevice
  ELSE [NewXeDevice EXCEPT !.energy_path = TRUE,
                           !.last_energy = ReadUint64(got[Channel]), !.last_time = got[Now]]

XeStartReads(d) == Once(IF d.energy_path THEN {Now, Channel} ELSE {})

XeStarted(d, got) ==
  IF d.energy_path THEN [d EXCEPT !.last_energy = ReadUint64(got[Channel]), !.last_time = got[Now]]
  ELSE d

XeEndReads(d, now) ==
  Once(IF ~d.energy_path THEN {} ELSE {Now} \cup IF now > d.last_time THEN {Channel} ELSE {})

XeEnded(d, got) ==
  IF ~d.energy_path \/ got[Now] = d.last_time
  THEN [d EXCEPT !.consumed = [energy |-> 0, delta |-> 0]]
  ELSE LET energy == ReadUint64(got[Channel])
       IN [d EXCEPT !.last_energy = energy, !.last_time = got[Now],
                    !.consumed = [energy |-> energy - d.last_energy, delta |-> got[Now] - d.last_time]]

\* Without the channel the power comes from the operations in the trace, which are
\* not here.
XePower(d) == IF d.energy_path THEN d.consumed ELSE [energy |-> 0, delta |-> 0]
=============================================================================
