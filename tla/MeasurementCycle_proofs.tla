------------------------- MODULE MeasurementCycle_proofs -------------------------
(***************************************************************************)
(* Proofs about MeasurementCycle for any processes, devices, open files    *)
(* and traces: references to consumers, the merging of processes, who is   *)
(* charged for a device, what the list of consumers adds up to, and the    *)
(* sizes of the tables of a report.                                        *)
(***************************************************************************)
EXTENDS MeasurementCycle, Sums_proofs, SequenceTheorems, TLAPS

Comms == {t.comm : t \in Tasks}
Process == [task : Tasks, runtime : Nat, power_charge : Nat]
Consumer == [device : Devices, prio : Nat, power : Nat]
Opened == {Handles[i] : i \in DOMAIN Handles}
Registration ==
  {r \in [device : {DevString[d] : d \in DOMAIN DevString}, dev : DOMAIN DevString, power : Nat] :
     r.device = DevString[r.dev]}
Plan == {"create", "sleep", "process", "display", "end_data", "reports", "settings", "exit"}

Places == [i \in DOMAIN AllOpen |-> i]

Uncharged(ps) == [processes |-> ps, hide |-> hide, guilty |-> guilty]

RegisterStep(list, d, usage) ==
  IF d \in DOMAIN DevString THEN RegisterDevpower(list, d, usage[d]) ELSE list

-----------------------------------------------------------------------------
(***************************************************************************)
(* The inductive invariant: between measurements nothing is left of the    *)
(* consumers; everyone who had a registered device open has been charged   *)
(* as soon as the process data is processed; the table of open devices     *)
(* shows entries of the two lists and is gone before these change.         *)
(***************************************************************************)
CycleTypeOK ==
  /\ one \in Seq(Opened) /\ two \in Seq(Opened) /\ phase \in {0, 1}
  /\ devpower \in Seq(Registration) /\ all_devices \in Seq(Devices)
  /\ power_usage \in [Devices -> Nat]
  /\ hide \in SUBSET Devices /\ guilty \in [Devices -> SUBSET Comms]
  /\ all_processes \in Seq(Process) /\ all_proc_devices \in Seq(Consumer)
  /\ shown_open \in Seq(Opened)
  /\ pc \in Plan /\ replaying \in BOOLEAN

ConsumersCleared ==
  pc \notin {"display", "end_data"} =>
    all_processes = <<>> /\ all_proc_devices = <<>> /\ all_power = {}

Charged(dp, hidden, blamed) ==
  \A i \in OpenersOf(dp.device) : AllOpen[i].task.comm \in blamed[dp.dev] /\ dp.dev \in hidden

OpenersCharged ==
  ~replaying /\ pc # "process" => \A i \in DOMAIN devpower : Charged(devpower[i], hide, guilty)

ShownIsListed ==
  /\ pc \in {"sleep", "process"} => shown_open = <<>>
  /\ devpower # <<>> => ToSet(shown_open) \subseteq ToSet(AllOpen)

CycleInv ==
  /\ CycleTypeOK /\ ConsumersCleared /\ OpenersCharged /\ ShownIsListed
  /\ AllPowerLives /\ ThreadsFolded

-----------------------------------------------------------------------------
(***************************************************************************)
(* The folds: what each step keeps is kept.                                *)
(***************************************************************************)
\* merge_processes: what is kept after each process.
LEMMA MergeRuns ==
  ASSUME NEW S, NEW ps \in Seq(S),
         NEW A, <<>> \in A, \A a \in A : \A x \in S : MergeInto(a, x) \in A
  PROVE  \E t \in [0..Len(ps) -> A] :
           /\ t[0] = <<>> /\ t[Len(ps)] = MergeProcesses(ps)
           /\ \A k \in 1..Len(ps) : t[k] = MergeInto(t[k - 1], ps[k])
<1> DEFINE f == [a \in A |-> [x \in S |-> MergeInto(a, x)]]
           Behind(g) == g = [s \in SUBSET DOMAIN ps |->
                               IF s = {} THEN <<>> ELSE MergeInto(g[s \ {Max(s)}], ps[Max(s)])]
<1>0. DOMAIN ps = 1..Len(ps)  OBVIOUS
<1>1. \E g : Behind(g)
  <2>1. \A a \in A : \A x \in S : f[a][x] = MergeInto(a, x)  OBVIOUS
  <2> HIDE DEF f
  <2>2. \A a \in A : \A x \in S : f[a][x] \in A  BY <2>1
  <2>3. PICK g : Folded(f, <<>>, ps, g) /\ \A s \in SUBSET DOMAIN ps : g[s] \in A
    BY <2>2, LeftFold
  <2>4. ASSUME NEW s \in SUBSET DOMAIN ps, s # {}
        PROVE  f[g[s \ {Max(s)}]][ps[Max(s)]] = MergeInto(g[s \ {Max(s)}], ps[Max(s)])
    <3>1. Max(s) \in s  BY <2>4, MaxIn
    <3>2. ps[Max(s)] \in S /\ g[s \ {Max(s)}] \in A  BY <2>3, <3>1
    <3> QED  BY <2>1, <3>2
  <2>5. Behind(g)  BY <2>3, <2>4 DEF Folded
  <2> QED  BY <2>5
<1>2. PICK g : Behind(g) /\ MergeProcesses(ps) = g[DOMAIN ps]
  BY <1>1 DEF MergeProcesses, FoldLeft, MapThenFoldSet
<1>3. \A s \in SUBSET DOMAIN ps : g[s] = IF s = {} THEN <<>> ELSE MergeInto(g[s \ {Max(s)}], ps[Max(s)])
  BY <1>2, Zenon
<1>4. ASSUME NEW s \in SUBSET DOMAIN ps, s # {}, g[s \ {Max(s)}] \in A PROVE g[s] \in A
  <2>1. g[s] = MergeInto(g[s \ {Max(s)}], ps[Max(s)])  BY <1>3, <1>4
  <2>2. ps[Max(s)] \in S
    <3>1. Max(s) \in s  BY <1>4, MaxIn
    <3> QED  BY <3>1
  <2> QED  BY <1>4, <2>1, <2>2
<1>5. g[{}] = <<>>  BY <1>3
<1> HIDE DEF Behind, f
<1>6. PICK t \in [0..Len(ps) -> A] : Course(g, t, Len(ps))
  <2>1. g[{}] \in A  BY <1>5
  <2> QED  BY <1>4, <2>1, FoldCourse
<1>7. ASSUME NEW k \in 1..Len(ps) PROVE t[k] = MergeInto(t[k - 1], ps[k])
  <2>1. PICK s \in SUBSET (1..Len(ps)) : s # {} /\ Max(s) = k /\ g[s] = t[k] /\ g[s \ {Max(s)}] = t[k - 1]
    BY <1>6, Zenon DEF Course
  <2>2. g[s] = MergeInto(g[s \ {Max(s)}], ps[Max(s)])  BY <1>0, <1>3, <2>1
  <2> QED  BY <2>1, <2>2
<1>8. t[0] = <<>> /\ t[Len(ps)] = MergeProcesses(ps)  BY <1>0, <1>2, <1>5, <1>6 DEF Course
<1> QED  BY <1>7, <1>8

\* all_devices_to_all_power: the consumers after each device.
LEMMA DeviceRuns ==
  ASSUME NEW S, NEW hidden,
         all_devices \in Seq(S),
         NEW A, all_proc_devices \in A, \A a \in A : \A x \in S : AddDevice(a, x, hidden) \in A
  PROVE  \E t \in [0..Len(all_devices) -> A] :
           /\ t[0] = all_proc_devices /\ t[Len(all_devices)] = AllDevicesToAllPower(hidden)
           /\ \A k \in 1..Len(all_devices) : t[k] = AddDevice(t[k - 1], all_devices[k], hidden)
<1> DEFINE f == [a \in A |-> [x \in S |-> AddDevice(a, x, hidden)]]
           Behind(g) == g = [s \in SUBSET DOMAIN all_devices |->
                               IF s = {} THEN all_proc_devices ELSE AddDevice(g[s \ {Max(s)}], all_devices[Max(s)], hidden)]
<1>0. DOMAIN all_devices = 1..Len(all_devices)  OBVIOUS
<1>1. \E g : Behind(g)
  <2>1. \A a \in A : \A x \in S : f[a][x] = AddDevice(a, x, hidden)  OBVIOUS
  <2> HIDE DEF f
  <2>2. \A a \in A : \A x \in S : f[a][x] \in A  BY <2>1
  <2>3. PICK g : Folded(f, all_proc_devices, all_devices, g) /\ \A s \in SUBSET DOMAIN all_devices : g[s] \in A
    BY <2>2, LeftFold
  <2>4. ASSUME NEW s \in SUBSET DOMAIN all_devices, s # {}
        PROVE  f[g[s \ {Max(s)}]][all_devices[Max(s)]] = AddDevice(g[s \ {Max(s)}], all_devices[Max(s)], hidden)
    <3>1. Max(s) \in s  BY <2>4, MaxIn
    <3>2. all_devices[Max(s)] \in S /\ g[s \ {Max(s)}] \in A  BY <2>3, <3>1
    <3> QED  BY <2>1, <3>2
  <2>5. Behind(g)  BY <2>3, <2>4 DEF Folded
  <2> QED  BY <2>5
<1>2. PICK g : Behind(g) /\ AllDevicesToAllPower(hidden) = g[DOMAIN all_devices]
  BY <1>1 DEF AllDevicesToAllPower, FoldLeft, MapThenFoldSet
<1>3. \A s \in SUBSET DOMAIN all_devices : g[s] = IF s = {} THEN all_proc_devices ELSE AddDevice(g[s \ {Max(s)}], all_devices[Max(s)], hidden)
  BY <1>2, Zenon
<1>4. ASSUME NEW s \in SUBSET DOMAIN all_devices, s # {}, g[s \ {Max(s)}] \in A PROVE g[s] \in A
  <2>1. g[s] = AddDevice(g[s \ {Max(s)}], all_devices[Max(s)], hidden)  BY <1>3, <1>4
  <2>2. all_devices[Max(s)] \in S
    <3>1. Max(s) \in s  BY <1>4, MaxIn
    <3> QED  BY <3>1
  <2> QED  BY <1>4, <2>1, <2>2
<1>5. g[{}] = all_proc_devices  BY <1>3
<1> HIDE DEF Behind, f
<1>6. PICK t \in [0..Len(all_devices) -> A] : Course(g, t, Len(all_devices))
  <2>1. g[{}] \in A  BY <1>5
  <2> QED  BY <1>4, <2>1, FoldCourse
<1>7. ASSUME NEW k \in 1..Len(all_devices) PROVE t[k] = AddDevice(t[k - 1], all_devices[k], hidden)
  <2>1. PICK s \in SUBSET (1..Len(all_devices)) : s # {} /\ Max(s) = k /\ g[s] = t[k] /\ g[s \ {Max(s)}] = t[k - 1]
    BY <1>6, Zenon DEF Course
  <2>2. g[s] = AddDevice(g[s \ {Max(s)}], all_devices[Max(s)], hidden)  BY <1>0, <1>3, <2>1
  <2> QED  BY <2>1, <2>2
<1>8. t[0] = all_proc_devices /\ t[Len(all_devices)] = AllDevicesToAllPower(hidden)  BY <1>0, <1>2, <1>5, <1>6 DEF Course
<1> QED  BY <1>7, <1>8

OpenersKeep(A, S, name, power) ==
  \A a \in A : \A x \in S : ChargeOpener(a, name, power, x) \in A

OpenersPass(t, ps, name, power) ==
  /\ t[0] = ps /\ t[Len(Places)] = ChargeOpeners(ps, name, power)
  /\ \A k \in 1..Len(Places) : t[k] = ChargeOpener(t[k - 1], name, power, Places[k])

\* charge_device_to_openers: the processes after each open file.
LEMMA OpenerRuns ==
  ASSUME NEW S, NEW ps, NEW name, NEW power,
         Places \in Seq(S),
         NEW A, ps \in A, OpenersKeep(A, S, name, power)
  PROVE  \E t \in [0..Len(Places) -> A] : OpenersPass(t, ps, name, power)
<1> USE DEF OpenersKeep
<1> DEFINE f == [a \in A |-> [x \in S |-> ChargeOpener(a, name, power, x)]]
           Behind(g) == g = [s \in SUBSET DOMAIN Places |->
                               IF s = {} THEN ps ELSE ChargeOpener(g[s \ {Max(s)}], name, power, Places[Max(s)])]
<1>0. DOMAIN Places = 1..Len(Places)  OBVIOUS
<1>1. \E g : Behind(g)
  <2>1. \A a \in A : \A x \in S : f[a][x] = ChargeOpener(a, name, power, x)  OBVIOUS
  <2> HIDE DEF f
  <2>2. \A a \in A : \A x \in S : f[a][x] \in A  BY <2>1
  <2>3. PICK g : Folded(f, ps, Places, g) /\ \A s \in SUBSET DOMAIN Places : g[s] \in A
    BY <2>2, LeftFold
  <2>4. ASSUME NEW s \in SUBSET DOMAIN Places, s # {}
        PROVE  f[g[s \ {Max(s)}]][Places[Max(s)]] = ChargeOpener(g[s \ {Max(s)}], name, power, Places[Max(s)])
    <3>1. Max(s) \in s  BY <2>4, MaxIn
    <3>2. Places[Max(s)] \in S /\ g[s \ {Max(s)}] \in A  BY <2>3, <3>1
    <3> QED  BY <2>1, <3>2
  <2>5. Behind(g)  BY <2>3, <2>4 DEF Folded
  <2> QED  BY <2>5
<1>2. PICK g : Behind(g) /\ ChargeOpeners(ps, name, power) = g[DOMAIN Places]
  BY <1>1 DEF Places, ChargeOpeners, FoldLeftDomain, FoldLeft, MapThenFoldSet
<1>3. \A s \in SUBSET DOMAIN Places : g[s] = IF s = {} THEN ps ELSE ChargeOpener(g[s \ {Max(s)}], name, power, Places[Max(s)])
  BY <1>2, Zenon
<1>4. ASSUME NEW s \in SUBSET DOMAIN Places, s # {}, g[s \ {Max(s)}] \in A PROVE g[s] \in A
  <2>1. g[s] = ChargeOpener(g[s \ {Max(s)}], name, power, Places[Max(s)])  BY <1>3, <1>4
  <2>2. Places[Max(s)] \in S
    <3>1. Max(s) \in s  BY <1>4, MaxIn
    <3> QED  BY <3>1
  <2> QED  BY <1>4, <2>1, <2>2
<1>5. g[{}] = ps  BY <1>3
<1> HIDE DEF Behind, f
<1>6. PICK t \in [0..Len(Places) -> A] : Course(g, t, Len(Places))
  <2>1. g[{}] \in A  BY <1>5
  <2> QED  BY <1>4, <2>1, FoldCourse
<1>7. ASSUME NEW k \in 1..Len(Places) PROVE t[k] = ChargeOpener(t[k - 1], name, power, Places[k])
  <2>1. PICK s \in SUBSET (1..Len(Places)) : s # {} /\ Max(s) = k /\ g[s] = t[k] /\ g[s \ {Max(s)}] = t[k - 1]
    BY <1>6, Zenon DEF Course
  <2>2. g[s] = ChargeOpener(g[s \ {Max(s)}], name, power, Places[Max(s)])  BY <1>0, <1>3, <2>1
  <2> QED  BY <2>1, <2>2
<1>8. t[0] = ps /\ t[Len(Places)] = ChargeOpeners(ps, name, power)  BY <1>0, <1>2, <1>5, <1>6 DEF Course
<1> QED  BY <1>7, <1>8 DEF OpenersPass

\* run_devpower_list: what is known after each registered name.
LEMMA NameRuns ==
  ASSUME NEW S, NEW ps,
         devpower \in Seq(S),
         NEW A, Uncharged(ps) \in A, \A a \in A : \A x \in S : RunDevpower(a, x) \in A
  PROVE  \E t \in [0..Len(devpower) -> A] :
           /\ t[0] = Uncharged(ps) /\ t[Len(devpower)] = RunDevpowerList(ps)
           /\ \A k \in 1..Len(devpower) : t[k] = RunDevpower(t[k - 1], devpower[k])
<1> DEFINE f == [a \in A |-> [x \in S |-> RunDevpower(a, x)]]
           Behind(g) == g = [s \in SUBSET DOMAIN devpower |->
                               IF s = {} THEN Uncharged(ps) ELSE RunDevpower(g[s \ {Max(s)}], devpower[Max(s)])]
<1>0. DOMAIN devpower = 1..Len(devpower)  OBVIOUS
<1>1. \E g : Behind(g)
  <2>1. \A a \in A : \A x \in S : f[a][x] = RunDevpower(a, x)  OBVIOUS
  <2> HIDE DEF f
  <2>2. \A a \in A : \A x \in S : f[a][x] \in A  BY <2>1
  <2>3. PICK g : Folded(f, Uncharged(ps), devpower, g) /\ \A s \in SUBSET DOMAIN devpower : g[s] \in A
    BY <2>2, LeftFold
  <2>4. ASSUME NEW s \in SUBSET DOMAIN devpower, s # {}
        PROVE  f[g[s \ {Max(s)}]][devpower[Max(s)]] = RunDevpower(g[s \ {Max(s)}], devpower[Max(s)])
    <3>1. Max(s) \in s  BY <2>4, MaxIn
    <3>2. devpower[Max(s)] \in S /\ g[s \ {Max(s)}] \in A  BY <2>3, <3>1
    <3> QED  BY <2>1, <3>2
  <2>5. Behind(g)  BY <2>3, <2>4 DEF Folded
  <2> QED  BY <2>5
<1>2. PICK g : Behind(g) /\ RunDevpowerList(ps) = g[DOMAIN devpower]
  BY <1>1 DEF Uncharged, RunDevpowerList, FoldLeft, MapThenFoldSet
<1>3. \A s \in SUBSET DOMAIN devpower : g[s] = IF s = {} THEN Uncharged(ps) ELSE RunDevpower(g[s \ {Max(s)}], devpower[Max(s)])
  BY <1>2, Zenon
<1>4. ASSUME NEW s \in SUBSET DOMAIN devpower, s # {}, g[s \ {Max(s)}] \in A PROVE g[s] \in A
  <2>1. g[s] = RunDevpower(g[s \ {Max(s)}], devpower[Max(s)])  BY <1>3, <1>4
  <2>2. devpower[Max(s)] \in S
    <3>1. Max(s) \in s  BY <1>4, MaxIn
    <3> QED  BY <3>1
  <2> QED  BY <1>4, <2>1, <2>2
<1>5. g[{}] = Uncharged(ps)  BY <1>3
<1> HIDE DEF Behind, f
<1>6. PICK t \in [0..Len(devpower) -> A] : Course(g, t, Len(devpower))
  <2>1. g[{}] \in A  BY <1>5
  <2> QED  BY <1>4, <2>1, FoldCourse
<1>7. ASSUME NEW k \in 1..Len(devpower) PROVE t[k] = RunDevpower(t[k - 1], devpower[k])
  <2>1. PICK s \in SUBSET (1..Len(devpower)) : s # {} /\ Max(s) = k /\ g[s] = t[k] /\ g[s \ {Max(s)}] = t[k - 1]
    BY <1>6, Zenon DEF Course
  <2>2. g[s] = RunDevpower(g[s \ {Max(s)}], devpower[Max(s)])  BY <1>0, <1>3, <2>1
  <2> QED  BY <2>1, <2>2
<1>8. t[0] = Uncharged(ps) /\ t[Len(devpower)] = RunDevpowerList(ps)  BY <1>0, <1>2, <1>5, <1>6 DEF Course
<1> QED  BY <1>7, <1>8

RegistrationKeeps(A, S, usage) == \A a \in A : \A x \in S : RegisterStep(a, x, usage) \in A

RegistrationPasses(t, list, devices, usage) ==
  /\ t[0] = ClearDevpower(list) /\ t[Len(devices)] = Registered(list, devices, usage)
  /\ \A k \in 1..Len(devices) : t[k] = RegisterStep(t[k - 1], devices[k], usage)

\* devices_end_measurement: the registered names after each device.
LEMMA RegistrationRuns ==
  ASSUME NEW S, NEW list, NEW devices \in Seq(S), NEW usage,
         NEW A, ClearDevpower(list) \in A, RegistrationKeeps(A, S, usage)
  PROVE  \E t \in [0..Len(devices) -> A] : RegistrationPasses(t, list, devices, usage)
<1> USE DEF RegistrationKeeps
<1> DEFINE f == [a \in A |-> [x \in S |-> RegisterStep(a, x, usage)]]
           Behind(g) == g = [s \in SUBSET DOMAIN devices |->
                               IF s = {} THEN ClearDevpower(list) ELSE RegisterStep(g[s \ {Max(s)}], devices[Max(s)], usage)]
<1>0. DOMAIN devices = 1..Len(devices)  OBVIOUS
<1>1. \E g : Behind(g)
  <2>1. \A a \in A : \A x \in S : f[a][x] = RegisterStep(a, x, usage)  OBVIOUS
  <2> HIDE DEF f
  <2>2. \A a \in A : \A x \in S : f[a][x] \in A  BY <2>1
  <2>3. PICK g : Folded(f, ClearDevpower(list), devices, g) /\ \A s \in SUBSET DOMAIN devices : g[s] \in A
    BY <2>2, LeftFold
  <2>4. ASSUME NEW s \in SUBSET DOMAIN devices, s # {}
        PROVE  f[g[s \ {Max(s)}]][devices[Max(s)]] = RegisterStep(g[s \ {Max(s)}], devices[Max(s)], usage)
    <3>1. Max(s) \in s  BY <2>4, MaxIn
    <3>2. devices[Max(s)] \in S /\ g[s \ {Max(s)}] \in A  BY <2>3, <3>1
    <3> QED  BY <2>1, <3>2
  <2>5. Behind(g)  BY <2>3, <2>4 DEF Folded
  <2> QED  BY <2>5
<1>2. PICK g : Behind(g) /\ Registered(list, devices, usage) = g[DOMAIN devices]
  BY <1>1 DEF Registered, RegisterStep, FoldLeft, MapThenFoldSet
<1>3. \A s \in SUBSET DOMAIN devices : g[s] = IF s = {} THEN ClearDevpower(list) ELSE RegisterStep(g[s \ {Max(s)}], devices[Max(s)], usage)
  BY <1>2, Zenon
<1>4. ASSUME NEW s \in SUBSET DOMAIN devices, s # {}, g[s \ {Max(s)}] \in A PROVE g[s] \in A
  <2>1. g[s] = RegisterStep(g[s \ {Max(s)}], devices[Max(s)], usage)  BY <1>3, <1>4
  <2>2. devices[Max(s)] \in S
    <3>1. Max(s) \in s  BY <1>4, MaxIn
    <3> QED  BY <3>1
  <2> QED  BY <1>4, <2>1, <2>2
<1>5. g[{}] = ClearDevpower(list)  BY <1>3
<1> HIDE DEF Behind, f
<1>6. PICK t \in [0..Len(devices) -> A] : Course(g, t, Len(devices))
  <2>1. g[{}] \in A  BY <1>5
  <2> QED  BY <1>4, <2>1, FoldCourse
<1>7. ASSUME NEW k \in 1..Len(devices) PROVE t[k] = RegisterStep(t[k - 1], devices[k], usage)
  <2>1. PICK s \in SUBSET (1..Len(devices)) : s # {} /\ Max(s) = k /\ g[s] = t[k] /\ g[s \ {Max(s)}] = t[k - 1]
    BY <1>6, Zenon DEF Course
  <2>2. g[s] = RegisterStep(g[s \ {Max(s)}], devices[Max(s)], usage)  BY <1>0, <1>3, <2>1
  <2> QED  BY <2>1, <2>2
<1>8. t[0] = ClearDevpower(list) /\ t[Len(devices)] = Registered(list, devices, usage)  BY <1>0, <1>2, <1>5, <1>6 DEF Course
<1> QED  BY <1>7, <1>8 DEF RegistrationPasses

-----------------------------------------------------------------------------
(***************************************************************************)
(* Processes: what is charged and merged stays a list of processes.        *)
(***************************************************************************)
\* No process stands behind one that it folds into.
Apart(ps) == \A i, j \in DOMAIN ps : i < j => ~Folds(ps[i], ps[j])

LEMMA SetCharge ==
  ASSUME NEW p \in Process, NEW n \in Nat
  PROVE  [p EXCEPT !.power_charge = n] \in Process /\ [p EXCEPT !.power_charge = n].task = p.task
BY DEF Process

LEMMA MergeProcessType ==
  ASSUME NEW p \in Process, NEW q \in Process
  PROVE  MergeProcess(p, q) \in Process /\ MergeProcess(p, q).task = p.task
<1> DEFINE r == [p EXCEPT !.runtime = @ + q.runtime]
           more == p.power_charge + q.power_charge
<1>1. r \in Process /\ r.task = p.task  BY DEF Process
<1>2. MergeProcess(p, q) = [r EXCEPT !.power_charge = more]  BY Zenon DEF MergeProcess
<1>3. more \in Nat  BY DEF Process
<1> HIDE DEF r, more
<1>4. [r EXCEPT !.power_charge = more] \in Process /\ [r EXCEPT !.power_charge = more].task = r.task
  BY <1>1, <1>3, SetCharge
<1> QED  BY <1>1, <1>2, <1>4

LEMMA MergeKeeps ==
  ASSUME NEW kept \in Seq(Process), Apart(kept), NEW q \in Process
  PROVE  MergeInto(kept, q) \in Seq(Process) /\ Apart(MergeInto(kept, q))
<1> DEFINE earlier == {i \in DOMAIN kept : Folds(kept[i], q)}
           new == MergeInto(kept, q)
<1>1. CASE earlier = {}
  <2>1. new = Append(kept, q)  BY <1>1 DEF MergeInto
  <2>2. new \in Seq(Process) /\ DOMAIN new = 1..(Len(kept) + 1) /\ DOMAIN kept = 1..Len(kept)
        /\ (\A i \in DOMAIN kept : new[i] = kept[i]) /\ new[Len(kept) + 1] = q
    BY <2>1
  <2> HIDE DEF new
  <2>3. Apart(new)
    <3> SUFFICES ASSUME NEW i \in DOMAIN new, NEW j \in DOMAIN new, i < j PROVE ~Folds(new[i], new[j])
      BY DEF Apart
    <3>1. i \in DOMAIN kept /\ new[i] = kept[i]  BY <2>2
    <3>2. CASE j \in DOMAIN kept  BY <2>2, <3>1, <3>2 DEF Apart
    <3>3. CASE j = Len(kept) + 1  BY <1>1, <2>2, <3>1, <3>3
    <3> QED  BY <2>2, <3>2, <3>3
  <2> QED  BY <2>2, <2>3 DEF new
<1>2. CASE earlier # {}
  <2> DEFINE m == Min(earlier)
  <2>1. m \in earlier
    <3>1. earlier \subseteq Nat  OBVIOUS
    <3> QED  BY <1>2, <3>1, LeastIn
  <2>2. new = [kept EXCEPT ![m] = MergeProcess(@, q)]  BY <1>2 DEF MergeInto
  <2> HIDE DEF m, new
  <2>3. DOMAIN new = DOMAIN kept /\ \A i \in DOMAIN kept :
          new[i] = IF i = m THEN MergeProcess(kept[i], q) ELSE kept[i]
    BY <2>2
  <2>4. \A i \in DOMAIN kept : new[i] \in Process /\ new[i].task = kept[i].task
    <3> TAKE i \in DOMAIN kept
    <3>1. kept[i] \in Process  OBVIOUS
    <3> QED  BY <2>3, <3>1, MergeProcessType
  <2>5. new \in Seq(Process)
    <3>1. DOMAIN kept = 1..Len(kept) /\ Len(kept) \in Nat  OBVIOUS
    <3>2. new \in [1..Len(kept) -> Process]
      <4>1. new = [i \in DOMAIN kept |-> IF i = m THEN MergeProcess(kept[i], q) ELSE kept[i]]  BY <2>2
      <4> QED  BY <2>3, <2>4, <3>1, <4>1
    <3> QED  BY <3>1, <3>2
  <2>6. Apart(new)  BY <2>3, <2>4 DEF Apart, Folds
  <2> QED  BY <2>5, <2>6 DEF new
<1> QED  BY <1>1, <1>2

LEMMA MergedApart ==
  ASSUME NEW ps \in Seq(Process)
  PROVE  MergeProcesses(ps) \in Seq(Process) /\ Apart(MergeProcesses(ps))
<1> DEFINE A == {s \in Seq(Process) : Apart(s)}
<1>1. <<>> \in A  BY DEF Apart
<1>2. \A a \in A : \A x \in Process : MergeInto(a, x) \in A  BY MergeKeeps
<1> HIDE DEF A
<1>3. PICK t \in [0..Len(ps) -> A] : t[Len(ps)] = MergeProcesses(ps)  BY <1>1, <1>2, MergeRuns
<1>4. t[Len(ps)] \in A  OBVIOUS
<1> QED  BY <1>3, <1>4 DEF A

LEMMA ChargeType ==
  ASSUME NEW ps \in Seq(Process), NEW t \in Tasks, NEW share \in Nat
  PROVE  ChargeTask(FindCreate(ps, t), t, share) \in Seq(Process)
<1>1. FindCreate(ps, t) \in Seq(Process)
  <2>1. NewProcess(t) \in Process  BY DEF NewProcess, Process
  <2> QED  BY <2>1 DEF FindCreate
<1> DEFINE qs == FindCreate(ps, t)
<1> HIDE DEF qs
<1>2. qs \in Seq(Process) => ChargeTask(qs, t, share) \in Seq(Process)
  <2> SUFFICES ASSUME qs \in Seq(Process) PROVE ChargeTask(qs, t, share) \in Seq(Process)  OBVIOUS
  <2>1. DOMAIN qs = 1..Len(qs) /\ Len(qs) \in Nat  OBVIOUS
  <2>2. \A i \in DOMAIN qs : qs[i] \in Process /\ [qs[i] EXCEPT !.power_charge = @ + share] \in Process
    <3> TAKE i \in DOMAIN qs
    <3>1. PICK p \in Process : p = qs[i]  BY <2>1
    <3>2. [p EXCEPT !.power_charge = @ + share] \in Process
      <4>1. p.power_charge + share \in Nat  BY DEF Process
      <4> QED  BY <4>1, SetCharge
    <3> QED  BY <3>1, <3>2
  <2>3. ChargeTask(qs, t, share) \in [1..Len(qs) -> Process]  BY <2>1, <2>2 DEF ChargeTask
  <2> QED  BY <2>1, <2>3
<1> QED  BY <1>1, <1>2 DEF qs

-----------------------------------------------------------------------------
(***************************************************************************)
(* Open files: charging the power of all registered devices leaves each    *)
(* device with an opener hidden and naming all that were charged for it.   *)
(***************************************************************************)
LEMMA OpenedTasks ==
  ASSUME one \in Seq(Opened), two \in Seq(Opened)
  PROVE  /\ AllOpen \in Seq(Opened) /\ DOMAIN AllOpen = 1..Len(AllOpen) /\ Len(AllOpen) \in Nat
         /\ \A i \in DOMAIN AllOpen : AllOpen[i].task \in Tasks /\ AllOpen[i].task.comm \in Comms
         /\ \A name : IsFiniteSet(OpenersOf(name)) /\ OpenersOf(name) \subseteq DOMAIN AllOpen
<1>1. AllOpen \in Seq(Opened)  BY DEF AllOpen
<1>2. DOMAIN AllOpen = 1..Len(AllOpen) /\ Len(AllOpen) \in Nat /\ \A i \in DOMAIN AllOpen : AllOpen[i] \in Opened
  BY <1>1
<1>3. \A o \in Opened : o.task \in Tasks  BY ThingsAssumption DEF Opened
<1>4. IsFiniteSet(1..Len(AllOpen))  BY <1>2, FS_Interval
<1>5. \A name : OpenersOf(name) \subseteq DOMAIN AllOpen  BY DEF OpenersOf
<1>6. \A name : IsFiniteSet(OpenersOf(name))  BY <1>2, <1>4, <1>5, FS_Subset
<1> QED  BY <1>1, <1>2, <1>3, <1>5, <1>6 DEF Comms

\* A share of a power is a power.
LEMMA ShareType ==
  ASSUME NEW power \in Nat, NEW n \in Nat, n # 0
  PROVE  power \div n \in Nat
OBVIOUS

LEMMA ChargeOpenersType ==
  ASSUME one \in Seq(Opened), two \in Seq(Opened),
         NEW ps \in Seq(Process), NEW name, NEW power \in Nat
  PROVE  ChargeOpeners(ps, name, power) \in Seq(Process)
<1> DEFINE A == Seq(Process)
<1>1. Places \in Seq(DOMAIN AllOpen)
  <2>1. Places \in [1..Len(AllOpen) -> DOMAIN AllOpen] /\ Len(AllOpen) \in Nat  BY OpenedTasks DEF Places
  <2> QED  BY <2>1
<1>2. ASSUME NEW a \in A, NEW i \in DOMAIN AllOpen PROVE ChargeOpener(a, name, power, i) \in A
  <2> DEFINE n == Cardinality(OpenersOf(name))
  <2>1. CASE i \notin OpenersOf(name)  BY <2>1 DEF ChargeOpener
  <2>2. CASE i \in OpenersOf(name)
    <3>1. n \in Nat /\ n # 0  BY <2>2, OpenedTasks, FS_CardinalityType, FS_EmptySet
    <3>2. power \div n \in Nat
      <4> HIDE DEF n
      <4> QED  BY ONLY <3>1, power \in Nat, ShareType
    <3>3. AllOpen[i].task \in Tasks  BY OpenedTasks
    <3> QED  BY <2>2, <3>2, <3>3, ChargeType DEF ChargeOpener
  <2> QED  BY <2>1, <2>2
<1> HIDE DEF A
<1>3. PICK t \in [0..Len(Places) -> A] : t[Len(Places)] = ChargeOpeners(ps, name, power)
  <2>1. ps \in A  BY DEF A
  <2>2. \A a \in A : \A i \in DOMAIN AllOpen : ChargeOpener(a, name, power, i) \in A  BY <1>2
  <2>3. OpenersKeep(A, DOMAIN AllOpen, name, power)  BY <2>2 DEF OpenersKeep
  <2>4. \E t \in [0..Len(Places) -> A] : OpenersPass(t, ps, name, power)
    BY <1>1, <2>1, <2>3, OpenerRuns
  <2> QED  BY <2>4 DEF OpenersPass
<1>4. Len(Places) \in 0..Len(Places)  BY <1>1
<1> QED  BY <1>3, <1>4 DEF A

Charges == [processes : Seq(Process), hide : SUBSET Devices, guilty : [Devices -> SUBSET Comms]]

LEMMA RunDevpowerType ==
  ASSUME one \in Seq(Opened), two \in Seq(Opened), NEW acc \in Charges, NEW dp \in Registration
  PROVE  RunDevpower(acc, dp) \in Charges
<1>1. /\ dp.dev \in Devices /\ dp.power \in Nat
      /\ acc.processes \in Seq(Process) /\ acc.hide \in SUBSET Devices /\ acc.guilty \in [Devices -> SUBSET Comms]
  BY ThingsAssumption DEF Registration, Charges
<1> DEFINE processes == ChargeOpeners(acc.processes, dp.device, dp.power)
           hidden == IF OpenersOf(dp.device) = {} THEN acc.hide \ {dp.dev} ELSE acc.hide \cup {dp.dev}
           comms == {AllOpen[i].task.comm : i \in OpenersOf(dp.device)}
           blamed == [acc.guilty EXCEPT ![dp.dev] = @ \cup comms]
<1>2. processes \in Seq(Process)  BY <1>1, ChargeOpenersType
<1>3. hidden \in SUBSET Devices  BY <1>1
<1>4. comms \in SUBSET Comms  BY OpenedTasks
<1>5. blamed \in [Devices -> SUBSET Comms]
  <2> HIDE DEF comms
  <2> QED  BY <1>1, <1>4
<1>6. RunDevpower(acc, dp) = [processes |-> processes, hide |-> hidden, guilty |-> blamed]
  BY DEF RunDevpower
<1> HIDE DEF processes, hidden, blamed
<1> QED  BY <1>2, <1>3, <1>5, <1>6 DEF Charges

LEMMA AllCharged ==
  ASSUME one \in Seq(Opened), two \in Seq(Opened), devpower \in Seq(Registration),
         hide \in SUBSET Devices, guilty \in [Devices -> SUBSET Comms], NEW ps \in Seq(Process)
  PROVE  LET run == RunDevpowerList(ps)
         IN run \in Charges /\ \A i \in DOMAIN devpower : Charged(devpower[i], run.hide, run.guilty)
<1> DEFINE base == Uncharged(ps)
           n == Len(devpower)
<1>1. n \in Nat /\ DOMAIN devpower = 1..n /\ \A k \in 1..n : devpower[k] \in Registration  OBVIOUS
<1>2. base \in Charges  BY DEF Charges, Uncharged
<1>3. PICK t \in [0..n -> Charges] :
        /\ t[0] = base /\ t[n] = RunDevpowerList(ps)
        /\ \A k \in 1..n : t[k] = RunDevpower(t[k - 1], devpower[k])
  <2> HIDE DEF base
  <2>1. \A a \in Charges : \A x \in Registration : RunDevpower(a, x) \in Charges  BY RunDevpowerType
  <2>2. devpower \in Seq(Registration)  OBVIOUS
  <2>3. Uncharged(ps) \in Charges  BY <1>2 DEF base
  <2>4. \E t \in [0..Len(devpower) -> Charges] :
          /\ t[0] = Uncharged(ps) /\ t[Len(devpower)] = RunDevpowerList(ps)
          /\ \A k \in 1..Len(devpower) : t[k] = RunDevpower(t[k - 1], devpower[k])
    BY ONLY <2>1, <2>2, <2>3, NameRuns
  <2> QED  BY <2>4 DEF base
<1> HIDE DEF n, base
<1> DEFINE I == [k \in 0..n |-> {c \in Charges : \A j \in 1..k : Charged(devpower[j], c.hide, c.guilty)}]
<1>4. t[0] \in I[0]
  <2>1. t[0] \in Charges /\ 0 \in 0..n  BY <1>1
  <2>2. \A j \in 1..0 : Charged(devpower[j], t[0].hide, t[0].guilty)  OBVIOUS
  <2> QED  BY <2>1, <2>2
<1>5. ASSUME NEW k \in 1..n, t[k - 1] \in I[k - 1] PROVE t[k] \in I[k]
  <2> DEFINE acc == t[k - 1]
             dp == devpower[k]
  <2>1. k \in 0..n /\ k - 1 \in 0..n /\ dp \in Registration  BY <1>1
  <2>2. acc \in Charges /\ \A j \in 1..(k - 1) : Charged(devpower[j], acc.hide, acc.guilty)  BY <1>5, <2>1
  <2>3. t[k] = RunDevpower(acc, dp) /\ t[k] \in Charges  BY <1>3, <2>1
  <2> HIDE DEF acc, dp, I
  <2> DEFINE next == t[k]
  <2>4. /\ next.hide = IF OpenersOf(dp.device) = {} THEN acc.hide \ {dp.dev} ELSE acc.hide \cup {dp.dev}
        /\ next.guilty = [acc.guilty EXCEPT ![dp.dev] = @ \cup {AllOpen[i].task.comm : i \in OpenersOf(dp.device)}]
    BY <2>3 DEF RunDevpower
  <2> HIDE DEF next
  <2>5. acc.guilty \in [Devices -> SUBSET Comms] /\ dp.dev \in Devices
    BY <2>1, <2>2, ThingsAssumption DEF Charges, Registration
  <2>6. ASSUME NEW d \in Devices PROVE acc.guilty[d] \subseteq next.guilty[d]
    BY <2>4, <2>5
  <2>7. ASSUME NEW j \in 1..k PROVE Charged(devpower[j], next.hide, next.guilty)
    <3> DEFINE e == devpower[j]
    <3>0. e \in Registration
      <4>1. j \in 1..n  BY <1>1
      <4> QED  BY <1>1, <4>1
    <3> HIDE DEF e
    <3>1. e.dev \in Devices /\ e.device = DevString[e.dev] /\ dp.device = DevString[dp.dev]
      BY <2>1, <3>0, ThingsAssumption DEF Registration
    <3> SUFFICES ASSUME NEW i \in OpenersOf(e.device)
                 PROVE  AllOpen[i].task.comm \in next.guilty[e.dev] /\ e.dev \in next.hide
      BY DEF Charged, e
    <3>2. CASE j = k
      <4>1. e = dp  BY <3>2 DEF dp, e
      <4>2. OpenersOf(dp.device) # {}  BY <4>1
      <4>3. next.guilty[dp.dev] = acc.guilty[dp.dev] \cup {AllOpen[x].task.comm : x \in OpenersOf(dp.device)}
        BY <2>4, <2>5
      <4> QED  BY <2>4, <4>1, <4>2, <4>3
    <3>3. CASE j # k
      <4>1. Charged(e, acc.hide, acc.guilty)  BY <2>2, <3>3 DEF e
      <4>2. AllOpen[i].task.comm \in acc.guilty[e.dev] /\ e.dev \in acc.hide  BY <4>1 DEF Charged
      <4>3. AllOpen[i].task.comm \in next.guilty[e.dev]  BY <2>6, <3>1, <4>2
      <4>4. OpenersOf(dp.device) = {} => e.dev # dp.dev  BY <3>1
      <4> QED  BY <2>4, <4>2, <4>3, <4>4
    <3> QED  BY <3>2, <3>3
  <2> QED  BY <2>1, <2>3, <2>7 DEF I, next
<1>6. t[n] \in I[n]
  <2> HIDE DEF I
  <2> QED  BY <1>1, <1>4, <1>5, Steps
<1>7. n \in 0..n  BY <1>1
<1> QED  BY <1>1, <1>3, <1>6, <1>7

-----------------------------------------------------------------------------
(***************************************************************************)
(* Devices: the consumers made of them, the names they register and their  *)
(* order.                                                                  *)
(***************************************************************************)
LEMMA IsSequence == ASSUME NEW S, NEW n \in Nat, NEW f \in [1..n -> S] PROVE f \in Seq(S)
OBVIOUS

LEMMA JoinType ==
  ASSUME NEW c \in Consumer, NEW d \in Devices, NEW n \in Nat
  PROVE  LET sum == [c EXCEPT !.power = @ + n]
         IN (IF c.prio < GroupingPrio[d] THEN [sum EXCEPT !.device = d, !.prio = GroupingPrio[d]] ELSE sum)
              \in Consumer
<1> DEFINE sum == [c EXCEPT !.power = @ + n]
           named == [sum EXCEPT !.device = d]
<1>1. sum \in Consumer  BY DEF Consumer
<1> HIDE DEF sum
<1>2. named \in Consumer  BY <1>1 DEF Consumer
<1>3. GroupingPrio[d] \in Nat  BY ThingsAssumption
<1>4. [sum EXCEPT !.device = d, !.prio = GroupingPrio[d]] = [named EXCEPT !.prio = GroupingPrio[d]]
  BY Zenon
<1> HIDE DEF named
<1>5. [named EXCEPT !.prio = GroupingPrio[d]] \in Consumer  BY <1>2, <1>3 DEF Consumer
<1> QED  BY <1>1, <1>4, <1>5 DEF sum

LEMMA AddDeviceType ==
  ASSUME power_usage \in [Devices -> Nat],
         NEW consumers \in Seq(Consumer), NEW d \in Devices, NEW hidden
  PROVE  AddDevice(consumers, d, hidden) \in Seq(Consumer)
<1> DEFINE same == {i \in DOMAIN consumers : SamePath(d, consumers[i].device)}
           joined(c) == LET sum == [c EXCEPT !.power = @ + power_usage[d]]
                        IN IF c.prio < GroupingPrio[d]
                           THEN [sum EXCEPT !.device = d, !.prio = GroupingPrio[d]] ELSE sum
           m == Min(same)
<1>1. same # {} => m \in same
  <2>1. same \subseteq Nat  OBVIOUS
  <2> QED  BY <2>1, LeastIn
<1>2. ASSUME NEW i \in DOMAIN consumers PROVE joined(consumers[i]) \in Consumer
  <2>1. consumers[i] \in Consumer /\ power_usage[d] \in Nat  OBVIOUS
  <2> QED  BY <2>1, JoinType
<1> HIDE DEF joined
<1>3. same # {} => [consumers EXCEPT ![m] = joined(@)] \in Seq(Consumer)
  <2> SUFFICES ASSUME same # {} PROVE [consumers EXCEPT ![m] = joined(@)] \in Seq(Consumer)  OBVIOUS
  <2>1. DOMAIN consumers = 1..Len(consumers) /\ Len(consumers) \in Nat  OBVIOUS
  <2>2. m \in DOMAIN consumers  BY <1>1
  <2> HIDE DEF m
  <2>3. joined(consumers[m]) \in Consumer  BY <1>2, <2>2
  <2> QED  BY <2>1, <2>2, <2>3
<1>4. Append(consumers, NewConsumer(d)) \in Seq(Consumer)
  <2>1. NewConsumer(d) \in Consumer  BY ThingsAssumption DEF NewConsumer, Consumer
  <2> QED  BY <2>1
<1>5. \/ AddDevice(consumers, d, hidden) = consumers
      \/ same # {} /\ AddDevice(consumers, d, hidden) = [consumers EXCEPT ![m] = joined(@)]
      \/ AddDevice(consumers, d, hidden) = Append(consumers, NewConsumer(d))
  BY Zenon DEF AddDevice, joined
<1> QED  BY <1>3, <1>4, <1>5

LEMMA ConsumersType ==
  ASSUME power_usage \in [Devices -> Nat], all_devices \in Seq(Devices),
         all_proc_devices \in Seq(Consumer), NEW hidden
  PROVE  AllDevicesToAllPower(hidden) \in Seq(Consumer)
<1> DEFINE A == Seq(Consumer)
<1>1. \A a \in A : \A x \in Devices : AddDevice(a, x, hidden) \in A  BY AddDeviceType
<1> HIDE DEF A
<1>2. all_devices \in Seq(Devices) /\ all_proc_devices \in A  BY DEF A
<1>3. PICK t \in [0..Len(all_devices) -> A] :
        /\ t[0] = all_proc_devices /\ t[Len(all_devices)] = AllDevicesToAllPower(hidden)
        /\ \A k \in 1..Len(all_devices) : t[k] = AddDevice(t[k - 1], all_devices[k], hidden)
  BY ONLY <1>1, <1>2, DeviceRuns
<1>4. Len(all_devices) \in 0..Len(all_devices)  OBVIOUS
<1> QED  BY <1>3, <1>4 DEF A

LEMMA RegisterType ==
  ASSUME NEW list \in Seq(Registration), NEW d \in Devices, NEW usage \in [Devices -> Nat]
  PROVE  RegisterStep(list, d, usage) \in Seq(Registration)
<1> DEFINE entry == [device |-> DevString[d], dev |-> d, power |-> usage[d]]
           same(i) == list[i].device = DevString[d]
           changed == [i \in DOMAIN list |-> IF same(i) THEN entry ELSE list[i]]
<1>1. CASE d \notin DOMAIN DevString  BY <1>1 DEF RegisterStep
<1>2. CASE d \in DOMAIN DevString
  <2>1. entry \in Registration  BY <1>2 DEF Registration
  <2> HIDE DEF entry
  <2>2. Append(list, entry) \in Seq(Registration)  BY <2>1
  <2>3. changed \in Seq(Registration)
    <3>1. DOMAIN list = 1..Len(list) /\ Len(list) \in Nat /\ \A i \in DOMAIN list : list[i] \in Registration
      OBVIOUS
    <3> HIDE DEF same
    <3>2. changed \in [1..Len(list) -> Registration]  BY <2>1, <3>1
    <3> HIDE DEF changed
    <3> QED  BY <3>1, <3>2
  <2>4. RegisterStep(list, d, usage) = changed \/ RegisterStep(list, d, usage) = Append(list, entry)
    BY <1>2, Zenon DEF RegisterStep, RegisterDevpower, entry
  <2> QED  BY <2>2, <2>3, <2>4
<1> QED  BY <1>1, <1>2

LEMMA RegisteredType ==
  ASSUME NEW list \in Seq(Registration), NEW devices \in Seq(Devices), NEW usage \in [Devices -> Nat]
  PROVE  Registered(list, devices, usage) \in Seq(Registration)
<1> DEFINE A == Seq(Registration)
<1>1. ClearDevpower(list) \in A
  <2>1. DOMAIN list = 1..Len(list) /\ Len(list) \in Nat  OBVIOUS
  <2>2. ASSUME NEW r \in Registration PROVE [r EXCEPT !.power = 0] \in Registration
    BY DEF Registration
  <2>3. \A i \in DOMAIN list : [list[i] EXCEPT !.power = 0] \in Registration
    <3> TAKE i \in DOMAIN list
    <3>1. list[i] \in Registration  OBVIOUS
    <3> QED  BY <2>2, <3>1
  <2>4. ClearDevpower(list) \in [1..Len(list) -> Registration]  BY <2>1, <2>3 DEF ClearDevpower
  <2> DEFINE cleared == ClearDevpower(list)
  <2>5. cleared \in [1..Len(list) -> Registration]  BY <2>4
  <2> HIDE DEF cleared
  <2>6. cleared \in Seq(Registration)  BY <2>1, <2>5, IsSequence
  <2> QED  BY <2>6 DEF cleared
<1>2. RegistrationKeeps(A, Devices, usage)  BY RegisterType DEF RegistrationKeeps
<1> HIDE DEF A
<1>3. devices \in Seq(Devices)  OBVIOUS
<1>4. PICK t \in [0..Len(devices) -> A] : RegistrationPasses(t, list, devices, usage)
  BY ONLY <1>1, <1>2, <1>3, RegistrationRuns
<1>5. Len(devices) \in 0..Len(devices)  OBVIOUS
<1> QED  BY <1>4, <1>5 DEF A, RegistrationPasses

LEMMA SetToSeqType ==
  ASSUME NEW S, IsFiniteSet(S)
  PROVE  SetToSeq(S) \in Seq(S)
<1>1. Cardinality(S) \in Nat  BY FS_CardinalityType
<1>2. \E f \in [1..Cardinality(S) -> S] : IsInjective(f)
  <2>1. PICK f \in Bijection(1..Cardinality(S), S) : TRUE
    BY FS_CardinalityType DEF ExistsBijection
  <2>2. f \in [1..Cardinality(S) -> S] /\ IsInjective(f)  BY DEF Bijection, Injection
  <2> QED  BY <2>2
<1>3. SetToSeq(S) \in [1..Cardinality(S) -> S]  BY <1>2 DEF SetToSeq
<1> QED  BY <1>1, <1>3

LEMMA ByPowerType ==
  ASSUME all_devices \in Seq(Devices), NEW s \in ByPower(all_devices)
  PROVE  s \in Seq(Devices)
<1> DEFINE D == ToSet(all_devices)
<1>1. D \subseteq Devices /\ IsFiniteSet(D)
  <2>1. D \subseteq Devices  BY DEF ToSet
  <2> QED  BY <2>1, ThingsAssumption, FS_Subset
<1>2. Cardinality(D) \in Nat  BY <1>1, FS_CardinalityType
<1>3. s \in [1..Cardinality(D) -> D]  BY DEF ByPower, SetToSeqs
<1> HIDE DEF D
<1>4. s \in [1..Cardinality(D) -> Devices]  BY <1>1, <1>3
<1> QED  BY <1>2, <1>4

-----------------------------------------------------------------------------
(***************************************************************************)
(* The steps of one_measurement keep the invariant.                        *)
(***************************************************************************)
LEMMA Starts == Init => CycleInv
<1> SUFFICES ASSUME Init PROVE CycleInv  OBVIOUS
<1> USE DEF Init
<1>1. CycleTypeOK
  <2>1. power_usage \in [Devices -> Nat] /\ guilty \in [Devices -> SUBSET Comms]  OBVIOUS
  <2>2. all_devices \in Seq(Devices)  BY ThingsAssumption
  <2> QED  BY <2>1, <2>2 DEF CycleTypeOK, Plan
<1>2. ConsumersCleared  BY DEF ConsumersCleared
<1>3. OpenersCharged  BY DEF OpenersCharged
<1>4. ShownIsListed  BY DEF ShownIsListed
<1>5. AllPowerLives  BY DEF AllPowerLives
<1>6. ThreadsFolded  BY DEF ThreadsFolded
<1> QED  BY <1>1, <1>2, <1>3, <1>4, <1>5, <1>6 DEF CycleInv

\* Steps that leave the devices, what was registered and the consumers alone.
LEMMA NothingCharged ==
  ASSUME CycleInv, UNCHANGED <<one, two, devpower, hide, guilty>>
  PROVE  /\ AllOpen' = AllOpen
         /\ (~replaying /\ pc # "process") /\ ~replaying' => OpenersCharged'
<1>1. AllOpen' = AllOpen  BY DEF AllOpen
<1>2. \A i \in DOMAIN devpower : Charged(devpower[i], hide, guilty) => Charged(devpower[i], hide, guilty)'
  BY <1>1 DEF Charged, OpenersOf
<1> QED  BY <1>1, <1>2 DEF CycleInv, OpenersCharged

LEMMA CreateKeeps == ASSUME CycleInv, CreateAllUsbDevices PROVE CycleInv'
<1> USE DEF CreateAllUsbDevices, devlistVars, consumerVars
<1>1. CycleTypeOK'
  <2>1. PICK plugged \in SUBSET (UsbDevices \ Listed) : all_devices' = all_devices \o SetToSeq(plugged)
    OBVIOUS
  <2>2. plugged \in SUBSET Devices /\ IsFiniteSet(plugged)  BY ThingsAssumption, FS_Subset
  <2>3. SetToSeq(plugged) \in Seq(Devices)
    <3>1. SetToSeq(plugged) \in Seq(plugged)  BY <2>2, SetToSeqType
    <3> HIDE DEF CreateAllUsbDevices
    <3> QED  BY <2>2, <3>1
  <2>4. all_devices' \in Seq(Devices)  BY <2>1, <2>3 DEF CycleInv, CycleTypeOK
  <2> QED  BY <2>4 DEF CycleInv, CycleTypeOK, Plan
<1>2. ConsumersCleared'  BY DEF CycleInv, ConsumersCleared
<1>3. AllOpen' = AllOpen /\ OpenersCharged'
  <2>1. UNCHANGED <<one, two, devpower, hide, guilty>> /\ pc # "process" /\ replaying' = replaying  OBVIOUS
  <2> HIDE DEF CreateAllUsbDevices
  <2> QED  BY <2>1, NothingCharged DEF OpenersCharged
<1>4. ShownIsListed'  BY DEF ShownIsListed, ToSet
<1>5. AllPowerLives'  BY DEF CycleInv, AllPowerLives
<1>6. ThreadsFolded'  BY DEF ThreadsFolded
<1> QED  BY <1>1, <1>2, <1>3, <1>4, <1>5, <1>6 DEF CycleInv

LEMMA EndKeeps == ASSUME CycleInv, EndMeasurements PROVE CycleInv'
<1> USE DEF EndMeasurements, consumerVars, reportVars
<1>1. CycleTypeOK'
  <2>1. one' \in Seq(Opened) /\ two' \in Seq(Opened) /\ phase' \in {0, 1}
    <3>1. PICK n \in 0..Len(Handles) : \E places \in [1..n -> DOMAIN Handles] :
            LET found == [i \in 1..n |-> Handles[places[i]]]
            IN /\ (one' = found /\ two' = two) \/ (two' = found /\ one' = one)
               /\ phase' = 1 - phase
      BY DEF CollectOpenDevices
    <3>2. PICK places \in [1..n -> DOMAIN Handles] :
            LET found == [i \in 1..n |-> Handles[places[i]]]
            IN /\ (one' = found /\ two' = two) \/ (two' = found /\ one' = one)
               /\ phase' = 1 - phase
      BY <3>1
    <3> DEFINE found == [i \in 1..n |-> Handles[places[i]]]
    <3>3. found \in [1..n -> Opened]  BY DEF Opened
    <3>4. n \in Nat
      <4>1. n \in Int /\ 0 <= n  BY <3>1
      <4> QED  BY <4>1
    <3>5. (one' = found /\ two' = two) \/ (two' = found /\ one' = one)  BY <3>2
    <3> HIDE DEF found
    <3>6. found \in Seq(Opened)  BY <3>3, <3>4, IsSequence
    <3>7. phase' \in {0, 1}  BY <3>2 DEF CycleInv, CycleTypeOK
    <3> QED  BY <3>5, <3>6, <3>7 DEF CycleInv, CycleTypeOK
  <2>2. PICK used \in Usages :
          /\ power_usage' = [d \in Devices |-> IF d \in Listed THEN used[d] ELSE 0]
          /\ devpower' = Registered(devpower, all_devices, used)
    OBVIOUS
  <2>3. used \in [Devices -> Nat]  BY PowersAssumption
  <2>4. power_usage' \in [Devices -> Nat]  BY <2>2, <2>3
  <2>5. devpower' \in Seq(Registration)  BY <2>2, <2>3, RegisteredType DEF CycleInv, CycleTypeOK
  <2>6. guilty' \in [Devices -> SUBSET Comms] /\ hide' \in SUBSET Devices  BY DEF CycleInv, CycleTypeOK
  <2> QED  BY <2>1, <2>4, <2>5, <2>6 DEF CycleInv, CycleTypeOK, Plan
<1>2. ConsumersCleared'  BY DEF CycleInv, ConsumersCleared
<1>3. OpenersCharged'  BY DEF OpenersCharged
<1>4. ShownIsListed'
  <2>1. shown_open' = <<>>  BY DEF CycleInv, ShownIsListed
  <2>2. ToSet(shown_open') = {}  BY <2>1 DEF ToSet
  <2> QED  BY <2>1, <2>2 DEF ShownIsListed, ToSet
<1>5. AllPowerLives'  BY DEF CycleInv, AllPowerLives
<1>6. ThreadsFolded'  BY DEF ThreadsFolded
<1> QED  BY <1>1, <1>2, <1>3, <1>4, <1>5, <1>6 DEF CycleInv

LEMMA ProcessKeeps == ASSUME CycleInv, ProcessProcessData PROVE CycleInv'
<1>0. CycleTypeOK /\ ConsumersCleared /\ OpenersCharged /\ ShownIsListed /\ AllPowerLives /\ ThreadsFolded
  BY DEF CycleInv
<1>1. /\ pc = "process" /\ pc' = "display" /\ replaying' = replaying
      /\ UNCHANGED <<one, two, phase, devpower, all_devices, power_usage, shown_open>>
  BY DEF ProcessProcessData, devlistVars, reportVars
<1>2. all_processes = <<>> /\ all_proc_devices = <<>> /\ all_power = {}  BY <1>0, <1>1 DEF ConsumersCleared
<1>3. AllOpen' = AllOpen  BY <1>1 DEF AllOpen
<1>4. ShownIsListed'  BY <1>0, <1>1, <1>3 DEF ShownIsListed
<1>5. ConsumersCleared'  BY <1>1 DEF ConsumersCleared
<1>6. CASE replaying
  <2>1. UNCHANGED <<all_processes, all_proc_devices, all_power, hide, guilty>>
    BY <1>6 DEF ProcessProcessData, consumerVars
  <2>2. CycleTypeOK'  BY <1>0, <1>1, <2>1 DEF CycleTypeOK, Plan
  <2>3. OpenersCharged'  BY <1>1, <1>6 DEF OpenersCharged
  <2>4. AllPowerLives'  BY <1>2, <2>1 DEF AllPowerLives
  <2>5. ThreadsFolded'  BY <1>2, <2>1 DEF ThreadsFolded
  <2> QED  BY <1>4, <1>5, <2>2, <2>3, <2>4, <2>5 DEF CycleInv
<1>7. CASE ~replaying
  <2>1. PICK traced \in Traces :
          /\ all_processes' = MergeProcesses(RunDevpowerList(traced).processes)
          /\ hide' = RunDevpowerList(traced).hide /\ guilty' = RunDevpowerList(traced).guilty
          /\ all_proc_devices' = AllDevicesToAllPower(RunDevpowerList(traced).hide)
          /\ all_power' = ProcessesToPower(MergeProcesses(RunDevpowerList(traced).processes))
               \cup {<<"device", i>> : i \in (Len(all_proc_devices) + 1)..
                                             Len(AllDevicesToAllPower(RunDevpowerList(traced).hide))}
    BY <1>7 DEF ProcessProcessData
  <2> DEFINE run == RunDevpowerList(traced)
             merged == MergeProcesses(run.processes)
             consumers == AllDevicesToAllPower(run.hide)
  <2>2. traced \in Seq(Process)  BY ThingsAssumption DEF Process
  <2>3. run \in Charges /\ \A i \in DOMAIN devpower : Charged(devpower[i], run.hide, run.guilty)
    BY <1>0, <2>2, AllCharged DEF CycleTypeOK
  <2>4. /\ all_processes' = merged /\ hide' = run.hide /\ guilty' = run.guilty
        /\ all_proc_devices' = consumers
        /\ all_power' = ProcessesToPower(merged) \cup {<<"device", i>> : i \in 1..Len(consumers)}
    <3>1. Len(all_proc_devices) + 1 = 1  BY <1>2
    <3> QED  BY <2>1, <3>1
  <2> HIDE DEF run
  <2>5. merged \in Seq(Process) /\ Apart(merged)
    <3>1. run.processes \in Seq(Process)  BY <2>3 DEF Charges
    <3> QED  BY <3>1, MergedApart
  <2>6. consumers \in Seq(Consumer)  BY <1>0, ConsumersType DEF CycleTypeOK
  <2> HIDE DEF merged, consumers
  <2>7. CycleTypeOK'
    <3>1. hide' \in SUBSET Devices /\ guilty' \in [Devices -> SUBSET Comms]  BY <2>3, <2>4 DEF Charges
    <3> QED  BY <1>0, <1>1, <2>4, <2>5, <2>6, <3>1 DEF CycleTypeOK, Plan
  <2>8. OpenersCharged'
    <3>1. ASSUME NEW i \in DOMAIN devpower PROVE Charged(devpower[i], hide, guilty)'
      <4> DEFINE dp == devpower[i]
      <4>1. \A x \in OpenersOf(dp.device) : AllOpen[x].task.comm \in run.guilty[dp.dev] /\ dp.dev \in run.hide
        BY <2>3 DEF Charged
      <4>2. OpenersOf(dp.device)' = OpenersOf(dp.device) /\ dp' = dp  BY <1>1, <1>3 DEF OpenersOf
      <4> QED  BY <1>3, <2>4, <4>1, <4>2 DEF Charged
    <3> QED  BY <1>1, <3>1 DEF OpenersCharged
  <2>9. AllPowerLives'
    <3> SUFFICES ASSUME NEW r \in all_power'
                 PROVE  IF r[1] = "device" THEN r[2] \in DOMAIN all_proc_devices'
                        ELSE \E p \in ToSet(all_processes') : p.task = r[2]
      BY DEF AllPowerLives
    <3>1. CASE r \in ProcessesToPower(merged)
      <4>1. PICK p \in ToSet(merged) : r = <<"process", p.task>>  BY <3>1 DEF ProcessesToPower
      <4>2. r[1] = "process" /\ r[2] = p.task  BY <4>1
      <4> QED  BY <2>4, <4>1, <4>2
    <3>2. CASE r \in {<<"device", i>> : i \in 1..Len(consumers)}
      <4>1. PICK i \in 1..Len(consumers) : r = <<"device", i>>  BY <3>2
      <4>2. r[1] = "device" /\ r[2] = i /\ i \in DOMAIN consumers  BY <2>6, <4>1
      <4> QED  BY <2>4, <4>2
    <3> QED  BY <2>4, <3>1, <3>2
  <2>10. ThreadsFolded'  BY <2>4, <2>5 DEF ThreadsFolded, Apart
  <2> QED  BY <1>4, <1>5, <2>7, <2>8, <2>9, <2>10 DEF CycleInv
<1> QED  BY <1>6, <1>7

LEMMA DisplayKeeps == ASSUME CycleInv, DisplayResults PROVE CycleInv'
<1>1. /\ pc = "display" /\ pc' = "end_data" /\ replaying' = replaying
      /\ UNCHANGED <<one, two, phase, devpower, all_devices, power_usage, hide, guilty>>
      /\ UNCHANGED <<all_processes, all_proc_devices, all_power, shown_open>>
  BY DEF DisplayResults, devlistVars, deviceVars, consumerVars
<1>2. CycleTypeOK'  BY <1>1 DEF CycleInv, CycleTypeOK, Plan
<1>3. ConsumersCleared'  BY <1>1 DEF ConsumersCleared
<1>4. AllOpen' = AllOpen /\ OpenersCharged'  BY <1>1, NothingCharged DEF OpenersCharged
<1>5. ShownIsListed'  BY <1>1, <1>4 DEF CycleInv, ShownIsListed
<1>6. AllPowerLives'  BY <1>1 DEF CycleInv, AllPowerLives
<1>7. ThreadsFolded'  BY <1>1 DEF ThreadsFolded
<1> QED  BY <1>2, <1>3, <1>4, <1>5, <1>6, <1>7 DEF CycleInv

LEMMA EndDataKeeps == ASSUME CycleInv, EndProcessData PROVE CycleInv'
<1>1. /\ pc = "end_data" /\ pc' = "reports" /\ replaying' = replaying
      /\ UNCHANGED <<one, two, phase, devpower, all_devices, power_usage, hide, guilty, shown_open>>
      /\ all_processes' = <<>> /\ all_proc_devices' = <<>> /\ all_power' = {}
  BY DEF EndProcessData, ClearConsumers, devlistVars, deviceVars
<1>2. CycleTypeOK'  BY <1>1 DEF CycleInv, CycleTypeOK, Plan
<1>3. ConsumersCleared'  BY <1>1 DEF ConsumersCleared
<1>4. AllOpen' = AllOpen /\ OpenersCharged'  BY <1>1, NothingCharged DEF OpenersCharged
<1>5. ShownIsListed'  BY <1>1, <1>4 DEF CycleInv, ShownIsListed
<1>6. AllPowerLives'  BY <1>1 DEF AllPowerLives
<1>7. ThreadsFolded'  BY <1>1 DEF ThreadsFolded
<1> QED  BY <1>2, <1>3, <1>4, <1>5, <1>6, <1>7 DEF CycleInv

LEMMA ReportsKeep == ASSUME CycleInv, ShowReports PROVE CycleInv'
<1>1. /\ pc = "reports" /\ pc' \in {"create", "settings"} /\ replaying' = replaying
      /\ UNCHANGED <<one, two, phase, devpower, power_usage, hide, guilty>>
      /\ UNCHANGED <<all_processes, all_proc_devices, all_power>>
      /\ all_devices' \in ByPower(all_devices) /\ shown_open' = ReportedOpenDevices
  BY DEF ShowReports, devlistVars, consumerVars
<1>2. one \in Seq(Opened) /\ two \in Seq(Opened)  BY DEF CycleInv, CycleTypeOK
<1>3. shown_open' \in {one, two}  BY <1>1 DEF ReportedOpenDevices
<1>4. CycleTypeOK'
  <2>1. all_devices' \in Seq(Devices)  BY <1>1, ByPowerType DEF CycleInv, CycleTypeOK
  <2>2. shown_open' \in Seq(Opened)  BY <1>2, <1>3
  <2> QED  BY <1>1, <2>1, <2>2 DEF CycleInv, CycleTypeOK, Plan
<1>5. ConsumersCleared'  BY <1>1 DEF CycleInv, ConsumersCleared
<1>6. AllOpen' = AllOpen /\ OpenersCharged'  BY <1>1, NothingCharged DEF OpenersCharged
<1>7. ShownIsListed'
  <2>1. ToSet(one) \subseteq ToSet(AllOpen) /\ ToSet(two) \subseteq ToSet(AllOpen)
    <3>1. ASSUME NEW i \in DOMAIN one PROVE one[i] \in ToSet(AllOpen)
      <4>1. i \in DOMAIN AllOpen /\ AllOpen[i] = one[i]  BY <1>2 DEF AllOpen
      <4> QED  BY <4>1 DEF ToSet
    <3>2. ASSUME NEW i \in DOMAIN two PROVE two[i] \in ToSet(AllOpen)
      <4>1. Len(one) + i \in DOMAIN AllOpen /\ AllOpen[Len(one) + i] = two[i]  BY <1>2 DEF AllOpen
      <4> QED  BY <4>1 DEF ToSet
    <3> QED  BY <3>1, <3>2 DEF ToSet
  <2> QED  BY <1>1, <1>3, <1>6, <2>1 DEF ShownIsListed
<1>8. AllPowerLives'  BY <1>1 DEF CycleInv, AllPowerLives
<1>9. ThreadsFolded'  BY <1>1 DEF ThreadsFolded
<1> QED  BY <1>4, <1>5, <1>6, <1>7, <1>8, <1>9 DEF CycleInv

LEMMA SettingsKeep == ASSUME CycleInv, ShowSettings PROVE CycleInv'
<1>1. /\ pc = "settings" /\ pc' \in {"create", "exit"} /\ replaying' = replaying
      /\ UNCHANGED <<one, two, phase, devpower, all_devices, power_usage, hide, guilty>>
      /\ UNCHANGED <<all_processes, all_proc_devices, all_power, shown_open>>
  BY DEF ShowSettings, devlistVars, deviceVars, consumerVars
<1>2. CycleTypeOK'  BY <1>1 DEF CycleInv, CycleTypeOK, Plan
<1>3. ConsumersCleared'  BY <1>1 DEF CycleInv, ConsumersCleared
<1>4. AllOpen' = AllOpen /\ OpenersCharged'  BY <1>1, NothingCharged DEF OpenersCharged
<1>5. ShownIsListed'  BY <1>1, <1>4 DEF CycleInv, ShownIsListed
<1>6. AllPowerLives'  BY <1>1 DEF CycleInv, AllPowerLives
<1>7. ThreadsFolded'  BY <1>1 DEF ThreadsFolded
<1> QED  BY <1>2, <1>3, <1>4, <1>5, <1>6, <1>7 DEF CycleInv

LEMMA ShutdownKeeps == ASSUME CycleInv, CleanShutdown PROVE CycleInv'
<1>1. /\ pc = "exit" /\ pc' = pc /\ UNCHANGED <<replaying, phase, shown_open>>
      /\ all_processes' = <<>> /\ all_proc_devices' = <<>> /\ all_power' = {}
      /\ one' = <<>> /\ two' = <<>> /\ devpower' = <<>> /\ all_devices' = <<>> /\ hide' = {}
      /\ power_usage' = [d \in Devices |-> 0] /\ guilty' = [d \in Devices |-> {}]
  BY DEF CleanShutdown, ClearConsumers, cycleVars, reportVars
<1>2. CycleTypeOK'
  <2>1. power_usage' \in [Devices -> Nat] /\ guilty' \in [Devices -> SUBSET Comms]  BY <1>1
  <2> QED  BY <1>1, <2>1 DEF CycleInv, CycleTypeOK, Plan
<1>3. ConsumersCleared'  BY <1>1 DEF ConsumersCleared
<1>4. OpenersCharged'  BY <1>1 DEF OpenersCharged
<1>5. ShownIsListed'  BY <1>1 DEF ShownIsListed
<1>6. AllPowerLives'  BY <1>1 DEF AllPowerLives
<1>7. ThreadsFolded'  BY <1>1 DEF ThreadsFolded
<1> QED  BY <1>2, <1>3, <1>4, <1>5, <1>6, <1>7 DEF CycleInv

LEMMA CycleKeeps == ASSUME CycleInv, [Next]_vars PROVE CycleInv'
<1>1. CASE Next
  BY <1>1, CreateKeeps, EndKeeps, ProcessKeeps, DisplayKeeps, EndDataKeeps, ReportsKeep, SettingsKeep, ShutdownKeeps
     DEF Next
<1>2. CASE UNCHANGED vars
  <2>1. /\ UNCHANGED <<one, two, phase, devpower, all_devices, power_usage, hide, guilty>>
        /\ UNCHANGED <<all_processes, all_proc_devices, all_power, shown_open, pc, replaying>>
    BY <1>2 DEF vars, devlistVars, deviceVars, consumerVars, cycleVars, reportVars
  <2>2. CycleTypeOK'  BY <2>1 DEF CycleInv, CycleTypeOK
  <2>3. ConsumersCleared'  BY <2>1 DEF CycleInv, ConsumersCleared
  <2>4. AllOpen' = AllOpen  BY <2>1 DEF AllOpen
  <2>5. OpenersCharged'  BY <2>1, <2>4, NothingCharged DEF CycleInv, OpenersCharged
  <2>6. ShownIsListed'  BY <2>1, <2>4 DEF CycleInv, ShownIsListed
  <2>7. AllPowerLives'  BY <2>1 DEF CycleInv, AllPowerLives
  <2>8. ThreadsFolded'  BY <2>1 DEF CycleInv, ThreadsFolded
  <2> QED  BY <2>2, <2>3, <2>5, <2>6, <2>7, <2>8 DEF CycleInv
<1> QED  BY <1>1, <1>2

LEMMA CycleInvHolds == Spec => []CycleInv
<1>1. CycleInv /\ [Next]_vars => CycleInv'  BY CycleKeeps
<1> QED  BY Starts, <1>1, PTL DEF Spec

(***************************************************************************)
(* all_power never refers to a consumer that merging, the end of the       *)
(* process data or clean_shutdown has deleted, whatever runs, is plugged   *)
(* in or is replayed.                                                      *)
(***************************************************************************)
THEOREM PowerRefersToTheLiving == Spec => []AllPowerLives
<1>1. CycleInv => AllPowerLives  BY DEF CycleInv
<1> QED  BY CycleInvHolds, <1>1, PTL

(***************************************************************************)
(* merge_processes leaves no process behind one that it belongs to.        *)
(***************************************************************************)
THEOREM ThreadsAreFolded == Spec => []ThreadsFolded
<1>1. CycleInv => ThreadsFolded  BY DEF CycleInv
<1> QED  BY CycleInvHolds, <1>1, PTL

(***************************************************************************)
(* Whoever the table of open devices shows with a device is among those    *)
(* that the device's description names, and the device is hidden.          *)
(***************************************************************************)
THEOREM OpenersAreNamed == Spec => []OpenersNamed
<1>1. CycleInv => OpenersNamed
  <2> SUFFICES ASSUME CycleInv, ~replaying, NEW u \in ToSet(shown_open), NEW dp \in ToSet(devpower),
                      dp.device \in u.names
               PROVE  u.task.comm \in guilty[dp.dev] /\ dp.dev \in hide
    BY DEF OpenersNamed
  <2>1. pc # "process" /\ devpower # <<>>  BY DEF CycleInv, ShownIsListed, ToSet
  <2>2. u \in ToSet(AllOpen)  BY <2>1 DEF CycleInv, ShownIsListed
  <2>3. PICK i \in DOMAIN AllOpen : AllOpen[i] = u  BY <2>2 DEF ToSet
  <2>4. PICK k \in DOMAIN devpower : devpower[k] = dp  BY DEF ToSet
  <2>5. Charged(dp, hide, guilty)  BY <2>1, <2>4 DEF CycleInv, OpenersCharged
  <2>6. i \in OpenersOf(dp.device)  BY <2>3 DEF OpenersOf
  <2> QED  BY <2>3, <2>5, <2>6 DEF Charged
<1> QED  BY CycleInvHolds, <1>1, PTL

-----------------------------------------------------------------------------
(***************************************************************************)
(* The books: what the processes were charged and how long they ran stays  *)
(* the same when they are merged.                                          *)
(***************************************************************************)
AddRunTime(sum, p) == sum + p.runtime
RunTimes(ps) == FoldLeft(LAMBDA sum, p : sum + p.runtime, 0, ps)

\* The run time of a trace, after each process.
LEMMA RunTimeRuns ==
  ASSUME NEW S, NEW ps \in Seq(S),
         NEW A, 0 \in A, \A a \in A : \A x \in S : AddRunTime(a, x) \in A
  PROVE  \E t \in [0..Len(ps) -> A] :
           /\ t[0] = 0 /\ t[Len(ps)] = RunTimes(ps)
           /\ \A k \in 1..Len(ps) : t[k] = AddRunTime(t[k - 1], ps[k])
<1> DEFINE f == [a \in A |-> [x \in S |-> AddRunTime(a, x)]]
           Behind(g) == g = [s \in SUBSET DOMAIN ps |->
                               IF s = {} THEN 0 ELSE AddRunTime(g[s \ {Max(s)}], ps[Max(s)])]
<1>0. DOMAIN ps = 1..Len(ps)  OBVIOUS
<1>1. \E g : Behind(g)
  <2>1. \A a \in A : \A x \in S : f[a][x] = AddRunTime(a, x)  OBVIOUS
  <2> HIDE DEF f
  <2>2. \A a \in A : \A x \in S : f[a][x] \in A  BY <2>1
  <2>3. PICK g : Folded(f, 0, ps, g) /\ \A s \in SUBSET DOMAIN ps : g[s] \in A
    BY <2>2, LeftFold
  <2>4. ASSUME NEW s \in SUBSET DOMAIN ps, s # {}
        PROVE  f[g[s \ {Max(s)}]][ps[Max(s)]] = AddRunTime(g[s \ {Max(s)}], ps[Max(s)])
    <3>1. Max(s) \in s  BY <2>4, MaxIn
    <3>2. ps[Max(s)] \in S /\ g[s \ {Max(s)}] \in A  BY <2>3, <3>1
    <3> QED  BY <2>1, <3>2
  <2>5. Behind(g)  BY <2>3, <2>4 DEF Folded
  <2> QED  BY <2>5
<1>2. PICK g : Behind(g) /\ RunTimes(ps) = g[DOMAIN ps]
  BY <1>1 DEF RunTimes, AddRunTime, FoldLeft, MapThenFoldSet
<1>3. \A s \in SUBSET DOMAIN ps : g[s] = IF s = {} THEN 0 ELSE AddRunTime(g[s \ {Max(s)}], ps[Max(s)])
  BY <1>2, Zenon
<1>4. ASSUME NEW s \in SUBSET DOMAIN ps, s # {}, g[s \ {Max(s)}] \in A PROVE g[s] \in A
  <2>1. g[s] = AddRunTime(g[s \ {Max(s)}], ps[Max(s)])  BY <1>3, <1>4
  <2>2. ps[Max(s)] \in S
    <3>1. Max(s) \in s  BY <1>4, MaxIn
    <3> QED  BY <3>1
  <2> QED  BY <1>4, <2>1, <2>2
<1>5. g[{}] = 0  BY <1>3
<1> HIDE DEF Behind, f
<1>6. PICK t \in [0..Len(ps) -> A] : Course(g, t, Len(ps))
  <2>1. g[{}] \in A  BY <1>5
  <2> QED  BY <1>4, <2>1, FoldCourse
<1>7. ASSUME NEW k \in 1..Len(ps) PROVE t[k] = AddRunTime(t[k - 1], ps[k])
  <2>1. PICK s \in SUBSET (1..Len(ps)) : s # {} /\ Max(s) = k /\ g[s] = t[k] /\ g[s \ {Max(s)}] = t[k - 1]
    BY <1>6, Zenon DEF Course
  <2>2. g[s] = AddRunTime(g[s \ {Max(s)}], ps[Max(s)])  BY <1>0, <1>3, <2>1
  <2> QED  BY <2>1, <2>2
<1>8. t[0] = 0 /\ t[Len(ps)] = RunTimes(ps)  BY <1>0, <1>2, <1>5, <1>6 DEF Course
<1> QED  BY <1>7, <1>8

RunTime == [p \in Process |-> p.runtime]
PowerCharge == [p \in Process |-> p.power_charge]
Once(ps) == \A i, j \in DOMAIN ps : ps[i].task = ps[j].task => i = j

LEMMA MeasureTypes == RunTime \in [Process -> Nat] /\ PowerCharge \in [Process -> Nat]
BY DEF RunTime, PowerCharge, Process

LEMMA RunTimesAre ==
  ASSUME NEW ps \in Seq(Process)
  PROVE  RunTimes(ps) = SeqTotal(RunTime, ps)
<1> DEFINE f == SeqValues(RunTime, ps)
           n == Len(ps)
<1>1. n \in Nat /\ DOMAIN ps = 1..n /\ n \in 0..n  OBVIOUS
<1>2. PICK t \in [0..n -> Nat] :
        t[0] = 0 /\ t[n] = RunTimes(ps) /\ \A k \in 1..n : t[k] = AddRunTime(t[k - 1], ps[k])
  <2>1. \A a \in Nat : \A x \in Process : AddRunTime(a, x) \in Nat  BY DEF AddRunTime, Process
  <2>2. 0 \in Nat /\ ps \in Seq(Process)  OBVIOUS
  <2> QED  BY ONLY <2>1, <2>2, RunTimeRuns DEF n
<1> HIDE DEF n
<1> DEFINE I == [k \in 0..n |-> {SumOf(f, 1..k)}]
<1>3. t[0] \in I[0]
  <2>1. 1..0 = {} /\ 0 \in 0..n  BY <1>1
  <2>2. SumOf(f, 1..0) = 0  BY <2>1, SumOfNone
  <2> QED  BY <1>2, <2>1, <2>2
<1>4. ASSUME NEW k \in 1..n, t[k - 1] \in I[k - 1] PROVE t[k] \in I[k]
  <2>1. k \in 0..n /\ k - 1 \in 0..n /\ ps[k] \in Process  BY <1>1
  <2>2. t[k - 1] = SumOf(f, 1..(k - 1))  BY <1>4, <2>1
  <2>3. SumOf(f, 1..k) = SumOf(f, 1..(k - 1)) + RunTime[ps[k]]
    BY MeasureTypes, TotalSoFar DEF n
  <2>4. RunTime[ps[k]] = ps[k].runtime  BY <2>1 DEF RunTime
  <2>5. t[k] = SumOf(f, 1..k)  BY <1>2, <2>2, <2>3, <2>4 DEF AddRunTime
  <2> QED  BY <2>1, <2>5
<1>5. t[n] \in I[n]
  <2> HIDE DEF I
  <2> QED  BY <1>1, <1>3, <1>4, Steps
<1> QED  BY <1>1, <1>2, <1>5 DEF SeqTotal

LEMMA MergedMeasures ==
  ASSUME NEW m \in {RunTime, PowerCharge}, NEW p \in Process, NEW q \in Process
  PROVE  m[MergeProcess(p, q)] = m[p] + m[q]
<1> DEFINE r == MergeProcess(p, q)
<1>1. r \in Process  BY MergeProcessType
<1>2. r.runtime = p.runtime + q.runtime /\ r.power_charge = p.power_charge + q.power_charge
  BY DEF MergeProcess, Process
<1> HIDE DEF r
<1>3. RunTime[r] = RunTime[p] + RunTime[q]  BY <1>1, <1>2 DEF RunTime
<1>4. PowerCharge[r] = PowerCharge[p] + PowerCharge[q]  BY <1>1, <1>2 DEF PowerCharge
<1> QED  BY <1>3, <1>4 DEF r

LEMMA MergeTotal ==
  ASSUME NEW m \in {RunTime, PowerCharge}, NEW kept \in Seq(Process), NEW q \in Process
  PROVE  SeqTotal(m, MergeInto(kept, q)) = SeqTotal(m, kept) + m[q]
<1> DEFINE earlier == {i \in DOMAIN kept : Folds(kept[i], q)}
           i == Min(earlier)
           joined == MergeProcess(kept[i], q)
<1>1. m \in [Process -> Nat]  BY MeasureTypes
<1>2. CASE earlier = {}
  <2>1. MergeInto(kept, q) = Append(kept, q)  BY <1>2 DEF MergeInto
  <2> QED  BY <1>1, <2>1, TotalAppend
<1>3. CASE earlier # {}
  <2>1. i \in DOMAIN kept
    <3>1. earlier \subseteq Nat  OBVIOUS
    <3> QED  BY <1>3, <3>1, LeastIn
  <2>2. MergeInto(kept, q) = [kept EXCEPT ![i] = joined]  BY <1>3 DEF MergeInto
  <2> HIDE DEF i
  <2>3. kept[i] \in Process  BY <2>1
  <2>4. joined \in Process /\ m[joined] = m[kept[i]] + m[q]  BY <2>3, MergeProcessType, MergedMeasures
  <2> HIDE DEF joined
  <2>5. SeqTotal(m, [kept EXCEPT ![i] = joined]) = SeqTotal(m, kept) + (m[joined] - m[kept[i]])
    <3>1. kept \in Seq(Process) /\ i \in DOMAIN kept /\ joined \in Process /\ m \in [Process -> Nat]
      BY <1>1, <2>1, <2>4
    <3> QED  BY ONLY <3>1, TotalChange
  <2>6. SeqTotal(m, kept) \in Nat /\ m[kept[i]] \in Nat /\ m[q] \in Nat
    BY <1>1, <2>3, ValuesType
  <2> QED  BY <2>2, <2>4, <2>5, <2>6
<1> QED  BY <1>2, <1>3

LEMMA MergeIntoType ==
  ASSUME NEW kept \in Seq(Process), NEW q \in Process
  PROVE  MergeInto(kept, q) \in Seq(Process)
<1> DEFINE earlier == {i \in DOMAIN kept : Folds(kept[i], q)}
           i == Min(earlier)
           joined == MergeProcess(kept[i], q)
<1>1. CASE earlier = {}
  <2>1. MergeInto(kept, q) = Append(kept, q)  BY <1>1 DEF MergeInto
  <2> QED  BY <2>1
<1>2. CASE earlier # {}
  <2>1. i \in DOMAIN kept
    <3>1. earlier \subseteq Nat  OBVIOUS
    <3> QED  BY <1>2, <3>1, LeastIn
  <2>2. MergeInto(kept, q) = [kept EXCEPT ![i] = joined]  BY <1>2 DEF MergeInto
  <2> HIDE DEF i
  <2>3. kept[i] \in Process  BY <2>1
  <2>4. joined \in Process  BY <2>3, MergeProcessType
  <2> HIDE DEF joined
  <2> QED  BY <2>1, <2>2, <2>4
<1> QED  BY <1>1, <1>2

LEMMA MergedTotal ==
  ASSUME NEW m \in {RunTime, PowerCharge}, NEW ps \in Seq(Process)
  PROVE  SeqTotal(m, MergeProcesses(ps)) = SeqTotal(m, ps)
<1> DEFINE f == SeqValues(m, ps)
           n == Len(ps)
           A == Seq(Process)
<1>1. n \in Nat /\ DOMAIN ps = 1..n /\ n \in 0..n /\ m \in [Process -> Nat]  BY MeasureTypes
<1>2. PICK t \in [0..n -> A] :
        t[0] = <<>> /\ t[n] = MergeProcesses(ps) /\ \A k \in 1..n : t[k] = MergeInto(t[k - 1], ps[k])
  <2>1. \A a \in A : \A x \in Process : MergeInto(a, x) \in A  BY MergeIntoType
  <2>2. <<>> \in A /\ ps \in Seq(Process)  OBVIOUS
  <2> HIDE DEF A
  <2> QED  BY ONLY <2>1, <2>2, MergeRuns DEF n
<1> HIDE DEF n
<1> DEFINE I == [k \in 0..n |-> {s \in A : SeqTotal(m, s) = SumOf(f, 1..k)}]
<1>3. t[0] \in I[0]
  <2>1. 1..0 = {} /\ 0 \in 0..n  BY <1>1
  <2>2. SumOf(f, 1..0) = 0  BY <2>1, SumOfNone
  <2> QED  BY <1>2, <2>1, <2>2, TotalOfNone
<1>4. ASSUME NEW k \in 1..n, t[k - 1] \in I[k - 1] PROVE t[k] \in I[k]
  <2>1. k \in 0..n /\ k - 1 \in 0..n /\ ps[k] \in Process  BY <1>1
  <2>2. t[k - 1] \in A /\ SeqTotal(m, t[k - 1]) = SumOf(f, 1..(k - 1))  BY <1>4, <2>1
  <2>3. SumOf(f, 1..k) = SumOf(f, 1..(k - 1)) + m[ps[k]]
    BY <1>1, TotalSoFar DEF n
  <2>4. t[k] = MergeInto(t[k - 1], ps[k]) /\ t[k] \in A  BY <1>2, <2>1
  <2> HIDE DEF f, I
  <2>5. SeqTotal(m, t[k]) = SumOf(f, 1..k)
    <3> DEFINE kept == t[k - 1]
               q == ps[k]
    <3>1. kept \in Seq(Process) /\ q \in Process  BY <2>1, <2>2
    <3> HIDE DEF kept, q
    <3>2. SeqTotal(m, MergeInto(kept, q)) = SeqTotal(m, kept) + m[q]  BY <3>1, MergeTotal
    <3> QED  BY <2>2, <2>3, <2>4, <3>2 DEF kept, q
  <2> QED  BY <2>1, <2>4, <2>5 DEF I
<1>5. t[n] \in I[n]
  <2> HIDE DEF I
  <2> QED  BY <1>1, <1>3, <1>4, Steps
<1> QED  BY <1>1, <1>2, <1>5 DEF SeqTotal

-----------------------------------------------------------------------------
(***************************************************************************)
(* Charging a device to those who have it open divides all of its power    *)
(* among the processes, each of them known once, and takes no time.        *)
(***************************************************************************)
LEMMA FindCreateAdds ==
  ASSUME NEW ps \in Seq(Process), Once(ps), NEW t \in Tasks
  PROVE  LET qs == FindCreate(ps, t)
         IN /\ qs \in Seq(Process) /\ Once(qs) /\ \E j \in DOMAIN qs : qs[j].task = t
            /\ \A m \in {RunTime, PowerCharge} : SeqTotal(m, qs) = SeqTotal(m, ps)
<1> DEFINE qs == FindCreate(ps, t)
           new == NewProcess(t)
           n == Len(ps) + 1
<1>1. CASE \E p \in ToSet(ps) : p.task = t
  <2>1. qs = ps  BY <1>1 DEF FindCreate
  <2>2. \E j \in DOMAIN ps : ps[j].task = t  BY <1>1 DEF ToSet
  <2> QED  BY <2>1, <2>2
<1>2. CASE ~ \E p \in ToSet(ps) : p.task = t
  <2>1. qs = Append(ps, new)  BY <1>2 DEF FindCreate
  <2>2. new \in Process /\ new.task = t /\ new.runtime = 0 /\ new.power_charge = 0
    BY DEF NewProcess, Process
  <2> HIDE DEF new
  <2>3. /\ qs \in Seq(Process) /\ DOMAIN qs = DOMAIN ps \cup {n} /\ n \notin DOMAIN ps
        /\ qs[n] = new /\ \A i \in DOMAIN ps : qs[i] = ps[i]
    BY <2>1, <2>2
  <2>4. \A i \in DOMAIN ps : ps[i].task # t  BY <1>2 DEF ToSet
  <2>5. Once(qs)
    <3> HIDE DEF qs, n
    <3> QED  BY <2>2, <2>3, <2>4 DEF Once
  <2>6. ASSUME NEW m \in {RunTime, PowerCharge} PROVE SeqTotal(m, qs) = SeqTotal(m, ps)
    <3>1. m[new] = 0  BY <2>2 DEF RunTime, PowerCharge
    <3>2. m \in [Process -> Nat] /\ ps \in Seq(Process) /\ new \in Process  BY <2>2, MeasureTypes
    <3>3. SeqTotal(m, Append(ps, new)) = SeqTotal(m, ps) + m[new]  BY ONLY <3>2, TotalAppend
    <3>4. SeqTotal(m, ps) \in Nat  BY <3>2, ValuesType
    <3> QED  BY <2>1, <3>1, <3>3, <3>4
  <2> QED  BY <2>2, <2>3, <2>5, <2>6
<1> QED  BY <1>1, <1>2

\* The one process of a task gets the share.
LEMMA ChargeAdds ==
  ASSUME NEW qs \in Seq(Process), Once(qs), NEW j \in DOMAIN qs, NEW share \in Nat
  PROVE  LET new == ChargeTask(qs, qs[j].task, share)
         IN /\ new \in Seq(Process) /\ Once(new)
            /\ SeqTotal(RunTime, new) = SeqTotal(RunTime, qs)
            /\ SeqTotal(PowerCharge, new) = SeqTotal(PowerCharge, qs) + share
<1> DEFINE p == [qs[j] EXCEPT !.power_charge = @ + share]
           new == ChargeTask(qs, qs[j].task, share)
<1>1. \A i \in DOMAIN qs : qs[i].task = qs[j].task <=> i = j  BY DEF Once
<1>2. new = [i \in DOMAIN qs |-> IF i = j THEN p ELSE qs[i]]
  BY <1>1 DEF ChargeTask
<1>3. new = [qs EXCEPT ![j] = p]  BY <1>2
<1>4. qs[j] \in Process  OBVIOUS
<1>5. /\ p \in Process /\ p.task = qs[j].task /\ p.runtime = qs[j].runtime
      /\ p.power_charge = qs[j].power_charge + share
  BY <1>4 DEF Process
<1> HIDE DEF p, new
<1>6. new \in Seq(Process) /\ DOMAIN new = DOMAIN qs /\ \A i \in DOMAIN qs : new[i].task = qs[i].task
  BY <1>3, <1>5
<1>7. Once(new)  BY <1>6 DEF Once
<1>8. ASSUME NEW m \in {RunTime, PowerCharge}
      PROVE  /\ SeqTotal(m, new) = SeqTotal(m, qs) + (m[p] - m[qs[j]])
             /\ SeqTotal(m, qs) \in Nat /\ m[qs[j]] \in Nat
  <2>1. qs \in Seq(Process) /\ j \in DOMAIN qs /\ p \in Process /\ m \in [Process -> Nat]
    BY <1>5, MeasureTypes
  <2>2. SeqTotal(m, [qs EXCEPT ![j] = p]) = SeqTotal(m, qs) + (m[p] - m[qs[j]])  BY ONLY <2>1, TotalChange
  <2>3. SeqTotal(m, qs) \in Nat  BY <2>1, ValuesType
  <2> QED  BY <1>3, <1>4, <2>1, <2>2, <2>3
<1>9. RunTime[p] = RunTime[qs[j]]  BY <1>4, <1>5 DEF RunTime
<1>10. PowerCharge[p] = PowerCharge[qs[j]] + share  BY <1>4, <1>5 DEF PowerCharge
<1>11. SeqTotal(RunTime, new) = SeqTotal(RunTime, qs)  BY <1>8, <1>9
<1>12. SeqTotal(PowerCharge, new) = SeqTotal(PowerCharge, qs) + share  BY <1>8, <1>10
<1> QED  BY <1>6, <1>7, <1>11, <1>12 DEF new

LEMMA SharesMakeThePower ==
  ASSUME NEW power \in Nat, NEW n \in Nat, n # 0, power % n = 0
  PROVE  (power \div n) * n = power
OBVIOUS

ChargedOnce(ps, base, more) ==
  /\ ps \in Seq(Process) /\ Once(ps)
  /\ SeqTotal(RunTime, ps) = SeqTotal(RunTime, base)
  /\ SeqTotal(PowerCharge, ps) = SeqTotal(PowerCharge, base) + more

\* charge_device_to_openers, one open file.
LEMMA OpenerAdds ==
  ASSUME one \in Seq(Opened), two \in Seq(Opened), NEW base, NEW more \in Nat,
         SeqTotal(PowerCharge, base) \in Nat,
         NEW ps, ChargedOnce(ps, base, more),
         NEW name, NEW power, NEW share \in Nat,
         share = power \div Cardinality(OpenersOf(name)), NEW i \in DOMAIN AllOpen
  PROVE  ChargedOnce(ChargeOpener(ps, name, power, i), base, more + IF i \in OpenersOf(name) THEN share ELSE 0)
<1>0. ps \in Seq(Process) /\ Once(ps)  BY DEF ChargedOnce
<1>1. CASE i \notin OpenersOf(name)  BY <1>1 DEF ChargeOpener
<1>2. CASE i \in OpenersOf(name)
  <2> DEFINE t == AllOpen[i].task
             qs == FindCreate(ps, t)
             new == ChargeTask(qs, t, share)
  <2>1. t \in Tasks  BY OpenedTasks
  <2>2. ChargeOpener(ps, name, power, i) = new  BY <1>2 DEF ChargeOpener
  <2> HIDE DEF t
  <2>3. /\ qs \in Seq(Process) /\ Once(qs)
        /\ \A m \in {RunTime, PowerCharge} : SeqTotal(m, qs) = SeqTotal(m, ps)
        /\ \E j \in DOMAIN qs : qs[j].task = t
    BY <1>0, <2>1, FindCreateAdds
  <2> HIDE DEF qs
  <2>4. PICK j \in DOMAIN qs : qs[j].task = t  BY <2>3
  <2>5. /\ new \in Seq(Process) /\ Once(new)
        /\ SeqTotal(RunTime, new) = SeqTotal(RunTime, qs)
        /\ SeqTotal(PowerCharge, new) = SeqTotal(PowerCharge, qs) + share
    BY <2>3, <2>4, ChargeAdds
  <2> HIDE DEF new
  <2> QED  BY <1>2, <2>2, <2>3, <2>5 DEF ChargedOnce
<1> QED  BY <1>1, <1>2

LEMMA OpenersAdd ==
  ASSUME one \in Seq(Opened), two \in Seq(Opened),
         NEW ps \in Seq(Process), Once(ps), NEW name, NEW power \in Nat,
         OpenersOf(name) # {} => power % Cardinality(OpenersOf(name)) = 0
  PROVE  ChargedOnce(ChargeOpeners(ps, name, power), ps, IF OpenersOf(name) = {} THEN 0 ELSE power)
<1> DEFINE P == OpenersOf(name)
           c == Cardinality(P)
           share == IF P = {} THEN 0 ELSE power \div c
           G == [i \in DOMAIN AllOpen |-> IF i \in P THEN share ELSE 0]
           f == SeqValues(G, Places)
           n == Len(Places)
           A == Seq(Process)
<1>1. /\ Places \in Seq(DOMAIN AllOpen) /\ DOMAIN Places = DOMAIN AllOpen /\ n \in Nat
      /\ DOMAIN AllOpen = 1..n /\ n \in 0..n /\ \A k \in 1..n : Places[k] = k
  <2>1. Places \in [1..Len(AllOpen) -> DOMAIN AllOpen] /\ Len(AllOpen) \in Nat /\ DOMAIN AllOpen = 1..Len(AllOpen)
    BY OpenedTasks DEF Places
  <2>2. Places \in Seq(DOMAIN AllOpen) /\ n = Len(AllOpen)  BY <2>1
  <2> QED  BY <2>1, <2>2 DEF Places
<1>2. IsFiniteSet(P) /\ P \subseteq DOMAIN AllOpen /\ c \in Nat /\ (P # {} => c # 0)
  BY OpenedTasks, FS_CardinalityType, FS_EmptySet
<1>3. share \in Nat /\ share * c = IF P = {} THEN 0 ELSE power
  <2>1. CASE P = {}
    <3>1. share = 0  BY <2>1
    <3> HIDE DEF share
    <3>2. 0 * c = 0  BY <1>2
    <3> QED  BY <2>1, <3>1, <3>2
  <2>2. CASE P # {}
    <3>1. share = power \div c /\ c \in Nat /\ c # 0 /\ power % c = 0 /\ power \in Nat  BY <1>2, <2>2
    <3> HIDE DEF c, share
    <3>2. power \div c \in Nat /\ (power \div c) * c = power  BY ONLY <3>1, ShareType, SharesMakeThePower
    <3> QED  BY <2>2, <3>1, <3>2
  <2> QED  BY <2>1, <2>2
<1> HIDE DEF P, c, share
<1>4. G \in [DOMAIN AllOpen -> Nat] /\ f \in [DOMAIN AllOpen -> Nat]
      /\ \A i \in DOMAIN AllOpen : f[i] = IF i \in P THEN share ELSE 0
  <2>1. G \in [DOMAIN AllOpen -> Nat]  BY <1>3
  <2>2. \A i \in DOMAIN AllOpen : f[i] = G[i]  BY <1>1 DEF SeqValues
  <2>3. f = [i \in DOMAIN AllOpen |-> G[Places[i]]]  BY <1>1 DEF SeqValues
  <2> QED  BY <1>1, <2>1, <2>2, <2>3
<1>5. SumOf(f, DOMAIN AllOpen) = share * c
  <2> DEFINE D == DOMAIN AllOpen
             z == [i \in D |-> 0]
  <2>1. IsFiniteSet(D) /\ {} \in SUBSET D /\ P \in SUBSET D /\ share \in Int
    BY <1>1, <1>2, <1>3, FS_Interval
  <2>2. \A i \in D : z[i] \in Int /\ z[i] = 0 /\ f[i] = IF i \in P THEN z[i] + share ELSE z[i]
    BY <1>3, <1>4
  <2> HIDE DEF D, z, f, G
  <2>3. SumOf(z, D) = SumOf(z, {})
    <3>1. IsFiniteSet(D) /\ {} \in SUBSET D /\ (\A i \in D : z[i] \in Int) /\ \A i \in D \ {} : z[i] = 0
      BY <2>1, <2>2
    <3> QED  BY ONLY <3>1, SumOfPart
  <2>4. SumOf(z, {}) = 0  BY SumOfNone
  <2>5. SumOf(f, D) = SumOf(z, D) + share * Cardinality(P)
    <3>1. \A i \in D : z[i] \in Int /\ f[i] = IF i \in P THEN z[i] + share ELSE z[i]  BY <2>2
    <3> QED  BY ONLY <2>1, <3>1, SumPasses
  <2>6. share * c \in Nat  BY <1>3
  <2> QED  BY <2>3, <2>4, <2>5, <2>6 DEF D, c
<1>6. PICK t \in [0..n -> A] :
        t[0] = ps /\ t[n] = ChargeOpeners(ps, name, power)
        /\ \A k \in 1..n : t[k] = ChargeOpener(t[k - 1], name, power, Places[k])
  <2> HIDE DEF G, f
  <2>1. ASSUME NEW a \in A, NEW i \in DOMAIN AllOpen PROVE ChargeOpener(a, name, power, i) \in A
    <3>1. CASE i \notin P  BY <3>1 DEF ChargeOpener, P
    <3>2. CASE i \in P
      <4>1. AllOpen[i].task \in Tasks  BY OpenedTasks
      <4>2. share = power \div Cardinality(OpenersOf(name))  BY <3>2 DEF share, c, P
      <4>3. a \in Seq(Process) /\ share \in Nat  BY <1>3
      <4>4. ChargeOpener(a, name, power, i) = ChargeTask(FindCreate(a, AllOpen[i].task), AllOpen[i].task, share)
        BY <3>2, <4>2 DEF ChargeOpener, P
      <4> QED  BY <4>1, <4>3, <4>4, ChargeType
    <3> QED  BY <3>1, <3>2
  <2>2. OpenersKeep(A, DOMAIN AllOpen, name, power)
    <3> HIDE DEF A
    <3> QED  BY <2>1 DEF OpenersKeep
  <2>3. ps \in A  OBVIOUS
  <2> HIDE DEF A
  <2>4. \E t \in [0..Len(Places) -> A] : OpenersPass(t, ps, name, power)
    BY <1>1, <2>2, <2>3, OpenerRuns
  <2> QED  BY <2>4 DEF OpenersPass
<1> HIDE DEF n, G, f
<1> DEFINE I == [k \in 0..n |-> {s \in A : ChargedOnce(s, ps, SumOf(f, 1..k))}]
<1>7. SeqTotal(PowerCharge, ps) \in Nat  BY MeasureTypes, ValuesType
<1>8. t[0] \in I[0]
  <2>1. 1..0 = {} /\ 0 \in 0..n  BY <1>1
  <2>2. SumOf(f, 1..0) = 0  BY <2>1, SumOfNone
  <2> QED  BY <1>6, <1>7, <2>1, <2>2 DEF ChargedOnce
<1>9. ASSUME NEW k \in 1..n, t[k - 1] \in I[k - 1] PROVE t[k] \in I[k]
  <2>1. k \in 0..n /\ k - 1 \in 0..n /\ k \in DOMAIN AllOpen /\ Places[k] = k  BY <1>1
  <2> DEFINE s == t[k - 1]
             more == SumOf(f, 1..(k - 1))
  <2>2. ChargedOnce(s, ps, more)  BY <1>9, <2>1
  <2>3. SumOf(f, 1..k) = more + G[k] /\ more \in Nat
    <3>1. G \in [DOMAIN AllOpen -> Nat] /\ Places \in Seq(DOMAIN AllOpen) /\ k \in 1..Len(Places)
      BY <1>1, <1>4 DEF n
    <3> QED  BY ONLY <2>1, <3>1, TotalSoFar DEF f
  <2>4. t[k] = ChargeOpener(s, name, power, k) /\ t[k] \in A  BY <1>6, <2>1
  <2>5. G[k] = IF k \in P THEN share ELSE 0  BY <2>1 DEF G
  <2> HIDE DEF s, more, I
  <2>6. ChargedOnce(ChargeOpener(s, name, power, k), ps, more + G[k])
    <3>1. CASE P = {}
      <4>1. ChargeOpener(s, name, power, k) = s /\ G[k] = 0  BY <2>5, <3>1 DEF ChargeOpener, P
      <4> QED  BY <2>2, <2>3, <4>1
    <3>2. CASE P # {}
      <4>1. share = power \div Cardinality(OpenersOf(name))  BY <3>2 DEF share, c, P
      <4>2. ChargedOnce(ChargeOpener(s, name, power, k), ps, more + IF k \in OpenersOf(name) THEN share ELSE 0)
        BY <1>3, <1>7, <2>1, <2>2, <2>3, <4>1, OpenerAdds
      <4> QED  BY <2>5, <4>2 DEF P
    <3> QED  BY <3>1, <3>2
  <2> QED  BY <2>1, <2>3, <2>4, <2>6 DEF I
<1>10. t[n] \in I[n]
  <2> HIDE DEF I
  <2> QED  BY <1>1, <1>8, <1>9, Steps
<1>11. ChargedOnce(ChargeOpeners(ps, name, power), ps, SumOf(f, 1..n))  BY <1>1, <1>6, <1>10
<1> QED  BY <1>1, <1>3, <1>5, <1>11 DEF P

-----------------------------------------------------------------------------
(***************************************************************************)
(* run_devpower_list charges the processes with exactly the power of the   *)
(* devices that it hides, provided that each is registered once and with   *)
(* the power it uses, and that this power can be divided among its openers. *)
(***************************************************************************)
ListsBounded == Len(one) <= Len(Handles) /\ Len(two) <= Len(Handles)
PowersDivide == \A d \in Devices : \A n \in 1..(2 * Len(Handles)) : power_usage[d] % n = 0
DevicesNamedOnce == \A i, j \in DOMAIN devpower : devpower[i].device = devpower[j].device => i = j
PowersRegistered == \A i \in DOMAIN devpower : devpower[i].power = power_usage[devpower[i].dev]

\* However many have a device open, its power is divided without a rest.
LEMMA NoRest ==
  ASSUME one \in Seq(Opened), two \in Seq(Opened), ListsBounded, PowersDivide, NEW d \in Devices,
         NEW name, OpenersOf(name) # {}
  PROVE  power_usage[d] % Cardinality(OpenersOf(name)) = 0
<1> DEFINE P == OpenersOf(name)
           n == Cardinality(P)
<1>1. Len(AllOpen) = Len(one) + Len(two) /\ Len(one) \in Nat /\ Len(two) \in Nat  BY DEF AllOpen
<1>2. P \subseteq 1..Len(AllOpen) /\ IsFiniteSet(P) /\ Len(AllOpen) \in Nat  BY OpenedTasks
<1>3. IsFiniteSet(1..Len(AllOpen)) /\ Cardinality(1..Len(AllOpen)) = Len(AllOpen)
  <2> DEFINE l == Len(AllOpen)
  <2>1. l \in Nat  BY <1>2
  <2> HIDE DEF l
  <2>2. IsFiniteSet(1..l) /\ Cardinality(1..l) = l  BY <2>1, FS_Interval
  <2> QED  BY <2>2 DEF l
<1>4. n <= Len(AllOpen)  BY <1>2, <1>3, FS_Subset
<1>5. n \in Nat /\ n # 0  BY <1>2, FS_CardinalityType, FS_EmptySet
<1> HIDE DEF n, P
<1>6. Len(Handles) \in Nat  BY OnceAssumption
<1>7. n \in 1..(2 * Len(Handles))  BY <1>1, <1>4, <1>5, <1>6 DEF ListsBounded
<1> QED  BY <1>7 DEF PowersDivide, n, P

LEMMA FiniteDevices == \A S \in SUBSET Devices : IsFiniteSet(S)
BY ThingsAssumption, FS_Subset

\* run_devpower_list: what is charged is the power of what it hides.
LEMMA NamesAdd ==
  ASSUME one \in Seq(Opened), two \in Seq(Opened), devpower \in Seq(Registration),
         guilty \in [Devices -> SUBSET Comms], hide = {}, power_usage \in [Devices -> Nat],
         ListsBounded, PowersDivide, DevicesNamedOnce, PowersRegistered,
         NEW ps \in Seq(Process), Once(ps)
  PROVE  LET run == RunDevpowerList(ps)
         IN /\ ChargedOnce(run.processes, ps, SumOf(power_usage, run.hide))
            /\ run.hide \subseteq {devpower[i].dev : i \in DOMAIN devpower}
<1> DEFINE n == Len(devpower)
           devs(k) == {devpower[j].dev : j \in 1..k}
<1>1. n \in Nat /\ DOMAIN devpower = 1..n /\ n \in 0..n /\ \A k \in 1..n : devpower[k] \in Registration  OBVIOUS
<1>2. Uncharged(ps) \in Charges  BY DEF Charges, Uncharged
<1>3. PICK t \in [0..n -> Charges] :
        /\ t[0] = Uncharged(ps) /\ t[n] = RunDevpowerList(ps)
        /\ \A k \in 1..n : t[k] = RunDevpower(t[k - 1], devpower[k])
  <2>1. \A a \in Charges : \A x \in Registration : RunDevpower(a, x) \in Charges  BY RunDevpowerType
  <2>2. devpower \in Seq(Registration)  OBVIOUS
  <2>3. \E t \in [0..Len(devpower) -> Charges] :
          /\ t[0] = Uncharged(ps) /\ t[Len(devpower)] = RunDevpowerList(ps)
          /\ \A k \in 1..Len(devpower) : t[k] = RunDevpower(t[k - 1], devpower[k])
    BY ONLY <1>2, <2>1, <2>2, NameRuns
  <2> QED  BY <2>3
<1> HIDE DEF n
<1> DEFINE I == [k \in 0..n |-> {c \in Charges : /\ ChargedOnce(c.processes, ps, SumOf(power_usage, c.hide))
                                                 /\ c.hide \subseteq devs(k)}]
<1>4. t[0] \in I[0]
  <2>1. t[0] \in Charges /\ t[0].processes = ps /\ t[0].hide = {} /\ 0 \in 0..n
    <3>1. Uncharged(ps).processes = ps /\ Uncharged(ps).hide = hide  BY DEF Uncharged
    <3>2. 0 \in 0..n  BY <1>1
    <3> QED  BY <1>3, <3>1, <3>2
  <2>2. SumOf(power_usage, {}) = 0  BY SumOfNone
  <2>3. SeqTotal(PowerCharge, ps) \in Nat  BY MeasureTypes, ValuesType
  <2>4. ChargedOnce(ps, ps, SumOf(power_usage, {}))  BY <2>2, <2>3 DEF ChargedOnce
  <2> QED  BY <2>1, <2>4
<1>5. ASSUME NEW k \in 1..n, t[k - 1] \in I[k - 1] PROVE t[k] \in I[k]
  <2> DEFINE acc == t[k - 1]
             dp == devpower[k]
             d == dp.dev
             none == OpenersOf(dp.device) = {}
             new == ChargeOpeners(acc.processes, dp.device, dp.power)
  <2>1. k \in 0..n /\ k - 1 \in 0..n /\ dp \in Registration /\ k \in DOMAIN devpower  BY <1>1
  <2>2. acc \in Charges /\ ChargedOnce(acc.processes, ps, SumOf(power_usage, acc.hide)) /\ acc.hide \subseteq devs(k - 1)
    BY <1>5, <2>1
  <2>3. t[k] = RunDevpower(acc, dp) /\ t[k] \in Charges  BY <1>3, <2>1
  <2> HIDE DEF I
  <2>4. t[k].processes = new /\ t[k].hide = IF none THEN acc.hide \ {d} ELSE acc.hide \cup {d}
    BY <2>3 DEF RunDevpower
  <2>5. d \in Devices /\ dp.power = power_usage[d] /\ dp.power \in Nat /\ dp.device = DevString[d]
    BY <2>1, ThingsAssumption DEF Registration, PowersRegistered
  <2>6. d \notin acc.hide
    <3> SUFFICES ASSUME NEW j \in 1..(k - 1), devpower[j].dev = d PROVE FALSE  BY <2>2
    <3>1. j \in DOMAIN devpower /\ j # k  BY <1>1
    <3>2. devpower[j].device = DevString[devpower[j].dev]  BY <3>1 DEF Registration
    <3>3. devpower[j].device = devpower[k].device  BY <2>5, <3>2
    <3> QED  BY <2>1, <3>1, <3>3 DEF DevicesNamedOnce
  <2>7. ChargedOnce(new, acc.processes, IF none THEN 0 ELSE dp.power)
    <3>1. acc.processes \in Seq(Process) /\ Once(acc.processes)  BY <2>2 DEF ChargedOnce
    <3>2. ~none => dp.power % Cardinality(OpenersOf(dp.device)) = 0  BY <2>5, NoRest
    <3> DEFINE qs == acc.processes
               name == dp.device
               power == dp.power
    <3>3. /\ qs \in Seq(Process) /\ Once(qs) /\ power \in Nat
          /\ OpenersOf(name) # {} => power % Cardinality(OpenersOf(name)) = 0
      BY <2>5, <3>1, <3>2
    <3> HIDE DEF qs, name, power
    <3>4. one \in Seq(Opened) /\ two \in Seq(Opened)  OBVIOUS
    <3>5. ChargedOnce(ChargeOpeners(qs, name, power), qs, IF OpenersOf(name) = {} THEN 0 ELSE power)
      BY ONLY <3>3, <3>4, OpenersAdd
    <3> QED  BY <3>5 DEF qs, name, power
  <2>8. /\ SumOf(power_usage, t[k].hide) = SumOf(power_usage, acc.hide) + IF none THEN 0 ELSE power_usage[d]
        /\ SumOf(power_usage, acc.hide) \in Int
    <3> DEFINE H == acc.hide
    <3>1. H \in SUBSET Devices  BY <2>2 DEF Charges
    <3>2. IsFiniteSet(H) /\ d \notin H /\ power_usage[d] \in Int /\ \A y \in H : power_usage[y] \in Int
      BY <2>5, <2>6, <3>1, FiniteDevices
    <3> HIDE DEF H, d
    <3>3. SumOf(power_usage, H \cup {d}) = SumOf(power_usage, H) + power_usage[d] /\ SumOf(power_usage, H) \in Int
      BY ONLY <3>2, SumAdd
    <3>4. H \ {d} = H  BY <3>2
    <3>5. t[k].hide = IF none THEN H ELSE H \cup {d}  BY <2>4, <3>4 DEF H
    <3> HIDE DEF none
    <3> QED  BY <3>3, <3>5 DEF H
  <2>9. t[k].hide \subseteq devs(k)
    <3>1. devs(k - 1) \subseteq devs(k) /\ d \in devs(k)  BY <1>1
    <3> QED  BY <2>2, <2>4, <3>1
  <2>10. ChargedOnce(t[k].processes, ps, SumOf(power_usage, t[k].hide))
    <3>1. SeqTotal(PowerCharge, ps) \in Nat  BY MeasureTypes, ValuesType
    <3> HIDE DEF acc, dp, d, none, new
    <3> QED  BY <2>2, <2>4, <2>5, <2>7, <2>8, <3>1 DEF ChargedOnce
  <2> QED  BY <2>1, <2>3, <2>9, <2>10 DEF I
<1>6. t[n] \in I[n]
  <2> HIDE DEF I
  <2> QED  BY <1>1, <1>4, <1>5, Steps
<1> QED  BY <1>1, <1>3, <1>6

-----------------------------------------------------------------------------
(***************************************************************************)
(* all_devices_to_all_power: the consumers use what the shown devices use. *)
(***************************************************************************)
Power == [c \in Consumer |-> c.power]
Shown(hidden) == [d \in Devices |-> IF ShowInList(d, hidden) THEN power_usage[d] ELSE 0]

LEMMA AddDeviceAdds ==
  ASSUME power_usage \in [Devices -> Nat],
         NEW consumers \in Seq(Consumer), NEW d \in Devices, NEW hidden
  PROVE  SeqTotal(Power, AddDevice(consumers, d, hidden)) = SeqTotal(Power, consumers) + Shown(hidden)[d]
<1> DEFINE same == {i \in DOMAIN consumers : SamePath(d, consumers[i].device)}
           joined(c) == LET sum == [c EXCEPT !.power = @ + power_usage[d]]
                        IN IF c.prio < GroupingPrio[d]
                           THEN [sum EXCEPT !.device = d, !.prio = GroupingPrio[d]] ELSE sum
           i == Min(same)
           new == NewConsumer(d)
<1>1. Power \in [Consumer -> Nat] /\ power_usage[d] \in Nat  BY DEF Power, Consumer
<1>2. SeqTotal(Power, consumers) \in Nat  BY <1>1, ValuesType
<1>3. CASE ~ShowInList(d, hidden)
  <2>1. AddDevice(consumers, d, hidden) = consumers
    BY <1>3, Zenon DEF AddDevice
  <2> QED  BY <1>2, <1>3, <2>1 DEF Shown
<1>4. CASE ShowInList(d, hidden) /\ same = {}
  <2>1. AddDevice(consumers, d, hidden) = Append(consumers, new)  BY <1>4, Zenon DEF AddDevice
  <2>2. new \in Consumer /\ new.power = power_usage[d]  BY ThingsAssumption DEF NewConsumer, Consumer
  <2> HIDE DEF new
  <2>3. SeqTotal(Power, Append(consumers, new)) = SeqTotal(Power, consumers) + Power[new]
    <3>1. consumers \in Seq(Consumer) /\ new \in Consumer /\ Power \in [Consumer -> Nat]  BY <1>1, <2>2
    <3> QED  BY ONLY <3>1, TotalAppend
  <2>4. Power[new] = power_usage[d]  BY <2>2 DEF Power
  <2> QED  BY <1>4, <2>1, <2>3, <2>4 DEF Shown
<1>5. CASE ShowInList(d, hidden) /\ same # {}
  <2>1. i \in DOMAIN consumers
    <3>1. same \subseteq Nat  OBVIOUS
    <3> QED  BY <1>5, <3>1, LeastIn
  <2>2. AddDevice(consumers, d, hidden) = [consumers EXCEPT ![i] = joined(@)]
    BY <1>5, Zenon DEF AddDevice
  <2>3. [consumers EXCEPT ![i] = joined(@)] = [consumers EXCEPT ![i] = joined(consumers[i])]
    BY Zenon
  <2> HIDE DEF i
  <2> DEFINE c == consumers[i]
             c2 == joined(c)
  <2>4. c \in Consumer  BY <2>1
  <2> HIDE DEF c
  <2>5. c2 \in Consumer  BY <1>1, <2>4, JoinType
  <2>6. c2.power = c.power + power_usage[d]
    <3> DEFINE sum == [c EXCEPT !.power = @ + power_usage[d]]
    <3>1. sum \in Consumer /\ sum.power = c.power + power_usage[d]
      <4>1. \A x \in Nat : [c EXCEPT !.power = x] \in Consumer /\ [c EXCEPT !.power = x].power = x
        BY <2>4 DEF Consumer
      <4>2. c.power + power_usage[d] \in Nat  BY <1>1, <2>4 DEF Consumer
      <4> QED  BY <4>1, <4>2
    <3>2. c2 = IF c.prio < GroupingPrio[d] THEN [sum EXCEPT !.device = d, !.prio = GroupingPrio[d]] ELSE sum
      OBVIOUS
    <3> HIDE DEF sum, c2
    <3>3. [sum EXCEPT !.device = d, !.prio = GroupingPrio[d]].power = sum.power
      <4>1. \A x, y : [sum EXCEPT !.device = x, !.prio = y].power = sum.power  BY <3>1 DEF Consumer
      <4> QED  BY <4>1
    <3> QED  BY <3>1, <3>2, <3>3
  <2> HIDE DEF c2
  <2>7. Power[c2] = Power[c] + power_usage[d] /\ Power[c] \in Nat  BY <1>1, <2>4, <2>5, <2>6 DEF Power
  <2>8. SeqTotal(Power, [consumers EXCEPT ![i] = c2]) = SeqTotal(Power, consumers) + (Power[c2] - Power[consumers[i]])
    <3>1. consumers \in Seq(Consumer) /\ c2 \in Consumer /\ Power \in [Consumer -> Nat] /\ i \in DOMAIN consumers
      BY <1>1, <2>1, <2>5
    <3> QED  BY ONLY <3>1, TotalChange
  <2>9. SeqTotal(Power, [consumers EXCEPT ![i] = c2]) = SeqTotal(Power, consumers) + power_usage[d]
    BY <1>1, <1>2, <2>7, <2>8 DEF c
  <2>10. Shown(hidden)[d] = power_usage[d]  BY <1>5 DEF Shown
  <2>11. AddDevice(consumers, d, hidden) = [consumers EXCEPT ![i] = c2]  BY <2>2, <2>3 DEF c, c2
  <2> QED  BY <2>9, <2>10, <2>11
<1> QED  BY <1>3, <1>4, <1>5

LEMMA ConsumersAdd ==
  ASSUME power_usage \in [Devices -> Nat], all_devices \in Seq(Devices), all_proc_devices = <<>>, NEW hidden
  PROVE  SeqTotal(Power, AllDevicesToAllPower(hidden)) = SeqTotal(Shown(hidden), all_devices)
<1> DEFINE m == Shown(hidden)
           f == SeqValues(m, all_devices)
           n == Len(all_devices)
           A == Seq(Consumer)
<1>1. n \in Nat /\ DOMAIN all_devices = 1..n /\ n \in 0..n /\ m \in [Devices -> Nat]  BY DEF Shown
<1>2. PICK t \in [0..n -> A] :
        t[0] = <<>> /\ t[n] = AllDevicesToAllPower(hidden)
        /\ \A k \in 1..n : t[k] = AddDevice(t[k - 1], all_devices[k], hidden)
  <2>1. \A a \in A : \A x \in Devices : AddDevice(a, x, hidden) \in A  BY AddDeviceType
  <2>2. all_proc_devices \in A /\ all_devices \in Seq(Devices)  OBVIOUS
  <2> HIDE DEF A
  <2>3. \E t \in [0..Len(all_devices) -> A] :
           /\ t[0] = all_proc_devices /\ t[Len(all_devices)] = AllDevicesToAllPower(hidden)
           /\ \A k \in 1..Len(all_devices) : t[k] = AddDevice(t[k - 1], all_devices[k], hidden)
    BY ONLY <2>1, <2>2, DeviceRuns
  <2> QED  BY <2>3
<1> HIDE DEF n, m
<1> DEFINE I == [k \in 0..n |-> {s \in A : SeqTotal(Power, s) = SumOf(f, 1..k)}]
<1>3. t[0] \in I[0]
  <2>1. 1..0 = {} /\ 0 \in 0..n  BY <1>1
  <2>2. SumOf(f, 1..0) = 0  BY <2>1, SumOfNone
  <2> QED  BY <1>2, <2>1, <2>2, TotalOfNone
<1>4. ASSUME NEW k \in 1..n, t[k - 1] \in I[k - 1] PROVE t[k] \in I[k]
  <2>1. k \in 0..n /\ k - 1 \in 0..n /\ all_devices[k] \in Devices  BY <1>1
  <2>2. t[k - 1] \in A /\ SeqTotal(Power, t[k - 1]) = SumOf(f, 1..(k - 1))  BY <1>4, <2>1
  <2>3. SumOf(f, 1..k) = SumOf(f, 1..(k - 1)) + m[all_devices[k]]
    BY <1>1, TotalSoFar DEF n
  <2>4. t[k] = AddDevice(t[k - 1], all_devices[k], hidden) /\ t[k] \in A  BY <1>2, <2>1
  <2> HIDE DEF f, I
  <2>5. SeqTotal(Power, t[k]) = SumOf(f, 1..k)
    <3> DEFINE kept == t[k - 1]
               d == all_devices[k]
    <3>1. kept \in Seq(Consumer) /\ d \in Devices  BY <2>1, <2>2
    <3> HIDE DEF kept, d
    <3>2. SeqTotal(Power, AddDevice(kept, d, hidden)) = SeqTotal(Power, kept) + m[d]  BY <3>1, AddDeviceAdds DEF m
    <3> QED  BY <2>2, <2>3, <2>4, <3>2 DEF kept, d
  <2> QED  BY <2>1, <2>4, <2>5 DEF I
<1>5. t[n] \in I[n]
  <2> HIDE DEF I
  <2> QED  BY <1>1, <1>3, <1>4, Steps
<1> QED  BY <1>1, <1>2, <1>5 DEF SeqTotal, m

LEMMA ShownOnce ==
  ASSUME power_usage \in [Devices -> Nat], all_devices \in Seq(Devices), IsInjective(all_devices), NEW hidden
  PROVE  SeqTotal(Shown(hidden), all_devices) = SumOf(power_usage, Listed \ (Unlisted \cup hidden))
<1> DEFINE m == Shown(hidden)
           f == SeqValues(m, all_devices)
           D == DOMAIN all_devices
           T == Listed
           P == Listed \ (Unlisted \cup hidden)
<1>1. /\ IsFiniteSet(D) /\ all_devices \in [D -> T]
      /\ (\A x, y \in D : all_devices[x] = all_devices[y] => x = y) /\ \A z \in T : \E x \in D : all_devices[x] = z
  BY ValuesType DEF Listed, ToSet, IsInjective
<1>2. m \in [Devices -> Nat] /\ T \subseteq Devices /\ P \in SUBSET T  BY DEF Shown, Listed, ToSet
<1>3. \A x \in D : f[x] \in Int /\ m[all_devices[x]] = f[x]
  <2>1. \A x \in D : f[x] = m[all_devices[x]] /\ all_devices[x] \in Devices  BY DEF SeqValues
  <2> QED  BY <1>2, <2>1
<1>4. \A d \in T : m[d] \in Int  BY <1>2
<1>5. \A d \in T \ P : m[d] = 0  BY <1>2 DEF Shown, ShowInList
<1>6. \A d \in P : m[d] \in Int /\ m[d] = power_usage[d]  BY <1>2 DEF Shown, ShowInList
<1>7. IsFiniteSet(T) /\ IsFiniteSet(P)
  <2>1. T \in SUBSET Devices /\ P \in SUBSET Devices  BY <1>2
  <2> QED  BY <2>1, FiniteDevices
<1> HIDE DEF m, f, D, T, P
<1>8. SumOf(m, T) = SumOf(f, D)
  <2>1. Renames(all_devices, D, T) /\ KeepsValues(all_devices, D, f, m)  BY <1>1, <1>3 DEF Renames, KeepsValues
  <2> QED  BY <1>1, <2>1, SumRenamed
<1>9. SumOf(m, T) = SumOf(m, P)  BY <1>2, <1>4, <1>5, <1>7, SumOfPart
<1>10. SumOf(m, P) = SumOf(power_usage, P)  BY <1>6, <1>7, SumSame
<1> QED  BY <1>8, <1>9, <1>10 DEF m, f, D, P, SeqTotal

-----------------------------------------------------------------------------
(***************************************************************************)
(* The list of all consumers adds up to what it was made from.             *)
(***************************************************************************)
DeviceRefs(cs) == {<<"device", i>> : i \in 1..Len(cs)}

\* What the list of all consumers adds up to, whatever it is that is added.
LEMMA ListAdds ==
  ASSUME NEW ps \in Seq(Process), Once(ps), NEW m \in {RunTime, PowerCharge},
         NEW cs \in Seq(Consumer), NEW w \in [Consumer -> Nat],
         NEW F, \A i \in DOMAIN ps : ps[i].runtime # 0 \/ ps[i].power_charge # 0 => F[<<"process", ps[i].task>>] = m[ps[i]],
         \A i \in 1..Len(cs) : F[<<"device", i>>] = w[cs[i]]
  PROVE  SumOf(F, ProcessesToPower(ps) \cup DeviceRefs(cs)) = SeqTotal(m, ps) + SeqTotal(w, cs)
<1> DEFINE f == SeqValues(m, ps)
           D == DOMAIN ps
           K == {i \in D : ps[i].runtime # 0 \/ ps[i].power_charge # 0}
           P == ProcessesToPower(ps)
           h == [i \in K |-> <<"process", ps[i].task>>]
           g == SeqValues(w, cs)
           E == 1..Len(cs)
           Q == DeviceRefs(cs)
           l == [i \in E |-> <<"device", i>>]
<1>1. /\ D = 1..Len(ps) /\ IsFiniteSet(D) /\ K \in SUBSET D /\ IsFiniteSet(K)
      /\ m \in [Process -> Nat] /\ f \in [D -> Nat] /\ \A i \in D : ps[i] \in Process /\ f[i] = m[ps[i]]
  <2>1. m \in [Process -> Nat]  BY MeasureTypes
  <2>2. D = 1..Len(ps) /\ IsFiniteSet(D) /\ f \in [D -> Nat]  BY <2>1, ValuesType
  <2>3. K \subseteq D  OBVIOUS
  <2>4. IsFiniteSet(K)  BY <2>2, <2>3, FS_Subset
  <2>5. \A i \in D : ps[i] \in Process /\ f[i] = m[ps[i]]  BY DEF SeqValues
  <2> QED  BY <2>1, <2>2, <2>3, <2>4, <2>5
<1>2. /\ E = DOMAIN cs /\ IsFiniteSet(E) /\ g \in [E -> Nat] /\ \A i \in E : g[i] = w[cs[i]]
  <2>1. DOMAIN cs = E /\ IsFiniteSet(DOMAIN cs) /\ g \in [DOMAIN cs -> Nat]  BY ValuesType
  <2>2. \A i \in DOMAIN cs : g[i] = w[cs[i]]  BY DEF SeqValues
  <2> QED  BY <2>1, <2>2
<1>3. /\ h \in [K -> P] /\ (\A x, y \in K : h[x] = h[y] => x = y) /\ \A z \in P : \E x \in K : h[x] = z
  <2>1. ASSUME NEW i \in K PROVE h[i] = <<"process", ps[i].task>> /\ h[i] \in P
    <3>1. ps[i] \in ToSet(ps)  BY DEF ToSet
    <3> QED  BY <3>1 DEF ProcessesToPower
  <2>2. ASSUME NEW x \in K, NEW y \in K, h[x] = h[y] PROVE x = y
    <3>1. ps[x].task = ps[y].task  BY <2>1, <2>2
    <3> QED  BY <3>1 DEF Once
  <2>3. ASSUME NEW z \in P PROVE \E x \in K : h[x] = z
    <3>1. PICK p \in ToSet(ps) : (p.runtime # 0 \/ p.power_charge # 0) /\ z = <<"process", p.task>>
      BY DEF ProcessesToPower
    <3>2. PICK i \in D : ps[i] = p  BY DEF ToSet
    <3>3. i \in K  BY <3>1, <3>2
    <3> QED  BY <2>1, <3>1, <3>2, <3>3
  <2>4. h \in [K -> P]  BY <2>1
  <2> QED  BY <2>2, <2>3, <2>4
<1>4. /\ l \in [E -> Q] /\ (\A x, y \in E : l[x] = l[y] => x = y) /\ \A z \in Q : \E x \in E : l[x] = z
  BY DEF DeviceRefs
<1>5. \A x \in K : f[x] \in Int /\ F[h[x]] = f[x]  BY <1>1
<1>6. \A x \in E : g[x] \in Int /\ F[l[x]] = g[x]
  <2> TAKE x \in E
  <2>1. F[<<"device", x>>] = w[cs[x]] /\ l[x] = <<"device", x>>  OBVIOUS
  <2>2. g[x] \in Nat /\ g[x] = w[cs[x]]  BY <1>2
  <2> QED  BY <2>1, <2>2
<1>7. P \cap Q = {}
  <2>1. (\A r \in P : r[1] = "process") /\ \A r \in Q : r[1] = "device"  BY DEF ProcessesToPower, DeviceRefs
  <2> QED  BY <2>1
<1>8. \A i \in D \ K : f[i] = 0
  <2>1. \A i \in D \ K : ps[i].runtime = 0 /\ ps[i].power_charge = 0  OBVIOUS
  <2> QED  BY <1>1, <2>1 DEF RunTime, PowerCharge
<1>9. \A i \in D : f[i] \in Int  BY <1>1
<1> HIDE DEF f, D, K, P, h, g, E, Q, l
<1>10. SumOf(F, P) = SumOf(f, K)
  <2>1. IsFiniteSet(K)  BY <1>1
  <2>2. Renames(h, K, P) /\ KeepsValues(h, K, f, F)  BY <1>3, <1>5 DEF Renames, KeepsValues
  <2> QED  BY ONLY <2>1, <2>2, SumRenamed
<1>11. SumOf(F, Q) = SumOf(g, E)
  <2>1. IsFiniteSet(E)  BY <1>2
  <2>2. Renames(l, E, Q) /\ KeepsValues(l, E, g, F)  BY <1>4, <1>6 DEF Renames, KeepsValues
  <2> QED  BY ONLY <2>1, <2>2, SumRenamed
<1>12. SumOf(f, D) = SumOf(f, K)  BY <1>1, <1>8, <1>9, SumOfPart
<1>13. SumOf(F, P \cup Q) = SumOf(F, P) + SumOf(F, Q)
  <2> DEFINE U == P \cup Q
  <2>1. IsFiniteSet(P) /\ IsFiniteSet(Q)
    <3>1. h \in Surjection(K, P) /\ l \in Surjection(E, Q)  BY <1>3, <1>4 DEF Surjection
    <3> QED  BY <1>1, <1>2, <3>1, FS_Surjection
  <2>2. IsFiniteSet(U) /\ P \in SUBSET U /\ Q \in SUBSET U  BY <2>1, FS_Union
  <2>3. \A x \in U : F[x] \in Int
    <3>1. \A z \in P : F[z] \in Int  BY <1>3, <1>5
    <3>2. \A z \in Q : F[z] \in Int  BY <1>4, <1>6
    <3> QED  BY <3>1, <3>2
  <2> HIDE DEF U
  <2>4. SumOf(F, P \cup Q) = SumOf(F, P) + SumOf(F, Q)  BY ONLY <1>7, <2>2, <2>3, SumOfUnion
  <2> QED  BY <2>4
<1> QED  BY <1>2, <1>10, <1>11, <1>12, <1>13 DEF P, Q, D, f, g, SeqTotal

LEMMA TaskChosen ==
  ASSUME NEW ps \in Seq(Process), Once(ps), NEW i \in DOMAIN ps
  PROVE  (CHOOSE p \in ToSet(ps) : p.task = ps[i].task) = ps[i]
<1>1. ps[i] \in ToSet(ps)  BY DEF ToSet
<1>2. \A p \in ToSet(ps) : p.task = ps[i].task => p = ps[i]
  <2> SUFFICES ASSUME NEW p \in ToSet(ps), p.task = ps[i].task PROVE p = ps[i]  OBVIOUS
  <2>1. PICK j \in DOMAIN ps : ps[j] = p  BY DEF ToSet
  <2> QED  BY <2>1 DEF Once
<1> QED  BY <1>1, <1>2

\* Merged processes are of different tasks: of the same they would fold.
LEMMA ApartOnce == ASSUME NEW ps \in Seq(Process), Apart(ps) PROVE Once(ps)
<1> SUFFICES ASSUME NEW i \in DOMAIN ps, NEW j \in DOMAIN ps, ps[i].task = ps[j].task, i # j PROVE FALSE
  BY DEF Once
<1>1. i \in Int /\ j \in Int /\ Folds(ps[i], ps[j]) /\ Folds(ps[j], ps[i])  BY DEF Folds
<1>2. i < j \/ j < i  BY <1>1
<1> QED  BY <1>1, <1>2 DEF Apart

-----------------------------------------------------------------------------
(***************************************************************************)
(* Registered names: each is there once, of a device that exists, and after *)
(* devices_end_measurement with the power of that device.                  *)
(***************************************************************************)
\* Registering keeps the names apart; what is registered has its power.
InOrder(list, devices, usage, k) ==
  /\ \A i, j \in DOMAIN list : list[i].device = list[j].device => i = j
  /\ \A i \in DOMAIN list : list[i].dev \in ToSet(devices)
  /\ \A i \in DOMAIN list : \A j \in 1..k :
       devices[j] \in DOMAIN DevString /\ DevString[devices[j]] = list[i].device => list[i].power = usage[list[i].dev]

LEMMA RegisterInOrder ==
  ASSUME NEW list \in Seq(Registration), NEW devices \in Seq(Devices), NEW usage \in [Devices -> Nat],
         NEW k \in 1..Len(devices), InOrder(list, devices, usage, k - 1)
  PROVE  InOrder(RegisterStep(list, devices[k], usage), devices, usage, k)
<1> DEFINE d == devices[k]
           entry == [device |-> DevString[d], dev |-> d, power |-> usage[d]]
           changed == [i \in DOMAIN list |-> IF list[i].device = DevString[d] THEN entry ELSE list[i]]
<1>1. d \in Devices /\ d \in ToSet(devices)  BY DEF ToSet
<1>2. \A j \in 1..k : j \in 1..(k - 1) \/ j = k  OBVIOUS
<1>3. CASE d \notin DOMAIN DevString
  <2>1. RegisterStep(list, d, usage) = list  BY <1>3 DEF RegisterStep
  <2> QED  BY <1>2, <1>3, <2>1 DEF InOrder
<1>4. CASE d \in DOMAIN DevString
  <2>1. entry.device = DevString[d] /\ entry.dev = d /\ entry.power = usage[d]  OBVIOUS
  <2> HIDE DEF entry
  <2>2. CASE \E i \in DOMAIN list : list[i].device = DevString[d]
    <3>1. RegisterStep(list, d, usage) = changed
      BY <1>4, <2>2, Zenon DEF RegisterStep, RegisterDevpower, entry
    <3>2. DOMAIN changed = DOMAIN list
          /\ \A i \in DOMAIN list : changed[i] = IF list[i].device = DevString[d] THEN entry ELSE list[i]
      OBVIOUS
    <3> HIDE DEF changed, d
    <3>3. \A i \in DOMAIN list : changed[i].device = list[i].device  BY <2>1, <3>2
    <3>4. \A i, j \in DOMAIN changed : changed[i].device = changed[j].device => i = j
      BY <3>2, <3>3 DEF InOrder
    <3>5. \A i \in DOMAIN changed : changed[i].dev \in ToSet(devices)  BY <1>1, <2>1, <3>2 DEF InOrder
    <3>6. ASSUME NEW i \in DOMAIN changed, NEW j \in 1..k,
                 devices[j] \in DOMAIN DevString, DevString[devices[j]] = changed[i].device
          PROVE  changed[i].power = usage[changed[i].dev]
      <4>1. CASE list[i].device = DevString[d]  BY <2>1, <3>2, <4>1
      <4>2. CASE list[i].device # DevString[d]
        <5>1. j \in 1..(k - 1)  BY <1>2, <3>3, <3>6, <3>2, <4>2 DEF d
        <5> QED  BY <3>2, <3>6, <4>2, <5>1 DEF InOrder
      <4> QED  BY <4>1, <4>2
    <3> QED  BY <3>1, <3>4, <3>5, <3>6 DEF InOrder, d
  <2>3. CASE ~ \E i \in DOMAIN list : list[i].device = DevString[d]
    <3> DEFINE longer == Append(list, entry)
               n == Len(list) + 1
    <3>1. RegisterStep(list, d, usage) = longer
      BY <1>4, <2>3, Zenon DEF RegisterStep, RegisterDevpower, entry
    <3>2. /\ DOMAIN longer = DOMAIN list \cup {n} /\ n \notin DOMAIN list
          /\ longer[n] = entry /\ \A i \in DOMAIN list : longer[i] = list[i]
      OBVIOUS
    <3> HIDE DEF longer, n, d
    <3>3. \A i, j \in DOMAIN longer : longer[i].device = longer[j].device => i = j
      BY <2>1, <2>3, <3>2 DEF InOrder
    <3>4. \A i \in DOMAIN longer : longer[i].dev \in ToSet(devices)  BY <1>1, <2>1, <3>2 DEF InOrder
    <3>5. ASSUME NEW i \in DOMAIN longer, NEW j \in 1..k,
                 devices[j] \in DOMAIN DevString, DevString[devices[j]] = longer[i].device
          PROVE  longer[i].power = usage[longer[i].dev]
      <4>1. CASE i = n  BY <2>1, <3>2, <4>1
      <4>2. CASE i \in DOMAIN list
        <5>1. j \in 1..(k - 1)  BY <1>2, <2>3, <3>2, <3>5, <4>2 DEF d
        <5> QED  BY <3>2, <3>5, <4>2, <5>1 DEF InOrder
      <4> QED  BY <3>2, <4>1, <4>2
    <3> QED  BY <3>1, <3>3, <3>4, <3>5 DEF InOrder, d
  <2> QED  BY <2>2, <2>3
<1> QED  BY <1>3, <1>4

LEMMA RegisteredInOrder ==
  ASSUME NEW list \in Seq(Registration), NEW devices \in Seq(Devices), NEW usage \in [Devices -> Nat],
         InOrder(list, devices, usage, 0)
  PROVE  LET new == Registered(list, devices, usage)
         IN InOrder(new, devices, usage, Len(devices)) /\ \A i \in DOMAIN new : new[i].power = usage[new[i].dev]
<1> DEFINE A == Seq(Registration)
           n == Len(devices)
           cleared == ClearDevpower(list)
<1>1. n \in Nat /\ DOMAIN devices = 1..n /\ n \in 0..n  OBVIOUS
<1>2. cleared \in A /\ InOrder(cleared, devices, usage, 0)
  <2>1. DOMAIN list = 1..Len(list) /\ Len(list) \in Nat  OBVIOUS
  <2>2. ASSUME NEW r \in Registration
        PROVE  [r EXCEPT !.power = 0] \in Registration /\ [r EXCEPT !.power = 0].dev = r.dev
               /\ [r EXCEPT !.power = 0].device = r.device
    BY DEF Registration
  <2>3. \A i \in DOMAIN list : list[i] \in Registration  OBVIOUS
  <2>4. /\ cleared = [i \in DOMAIN list |-> [list[i] EXCEPT !.power = 0]]
        /\ DOMAIN cleared = DOMAIN list
        /\ \A i \in DOMAIN list : cleared[i] \in Registration /\ cleared[i].dev = list[i].dev
                                   /\ cleared[i].device = list[i].device
    BY <2>2, <2>3 DEF ClearDevpower
  <2>5. cleared \in [1..Len(list) -> Registration]  BY <2>1, <2>4
  <2> HIDE DEF cleared
  <2>6. cleared \in A  BY <2>1, <2>5, IsSequence
  <2>7. InOrder(cleared, devices, usage, 0)
    <3>1. \A i, j \in DOMAIN cleared : cleared[i].device = cleared[j].device => i = j  BY <2>4 DEF InOrder
    <3>2. \A i \in DOMAIN cleared : cleared[i].dev \in ToSet(devices)  BY <2>4 DEF InOrder
    <3>3. 1..0 = {}  OBVIOUS
    <3> QED  BY <3>1, <3>2, <3>3 DEF InOrder
  <2> QED  BY <2>6, <2>7
<1>3. PICK t \in [0..n -> A] : RegistrationPasses(t, list, devices, usage)
  <2>1. RegistrationKeeps(A, Devices, usage)  BY RegisterType DEF RegistrationKeeps
  <2>2. devices \in Seq(Devices) /\ ClearDevpower(list) \in A  BY <1>2
  <2> HIDE DEF A
  <2> QED  BY ONLY <2>1, <2>2, RegistrationRuns DEF n
<1>4. t[0] = cleared /\ t[n] = Registered(list, devices, usage)
      /\ \A k \in 1..n : t[k] = RegisterStep(t[k - 1], devices[k], usage)
  BY <1>3 DEF RegistrationPasses
<1> HIDE DEF n, cleared
<1> DEFINE I == [k \in 0..n |-> {s \in A : InOrder(s, devices, usage, k)}]
<1>5. t[0] \in I[0]
  <2>1. 0 \in 0..n  BY <1>1
  <2> QED  BY <1>2, <1>4, <2>1
<1>6. ASSUME NEW k \in 1..n, t[k - 1] \in I[k - 1] PROVE t[k] \in I[k]
  <2> DEFINE s == t[k - 1]
  <2>1. k \in 0..n /\ k - 1 \in 0..n /\ k \in 1..Len(devices)  BY <1>1 DEF n
  <2>2. s \in Seq(Registration) /\ InOrder(s, devices, usage, k - 1)  BY <1>6, <2>1
  <2>3. t[k] = RegisterStep(s, devices[k], usage) /\ t[k] \in A  BY <1>3, <1>4, <2>1
  <2> HIDE DEF s, I
  <2>4. InOrder(RegisterStep(s, devices[k], usage), devices, usage, k)  BY <2>1, <2>2, RegisterInOrder
  <2> QED  BY <2>1, <2>3, <2>4 DEF I
<1>7. t[n] \in I[n]
  <2> HIDE DEF I
  <2> QED  BY <1>1, <1>5, <1>6, Steps
<1> DEFINE new == Registered(list, devices, usage)
<1>8. new \in Seq(Registration) /\ InOrder(new, devices, usage, n)  BY <1>1, <1>4, <1>7
<1> HIDE DEF new, I
<1>9. ASSUME NEW i \in DOMAIN new PROVE new[i].power = usage[new[i].dev]
  <2>1. new[i].dev \in ToSet(devices)  BY <1>8 DEF InOrder
  <2>2. PICK j \in 1..n : devices[j] = new[i].dev  BY <1>1, <2>1 DEF ToSet
  <2>3. new[i] \in Registration  BY <1>8
  <2>4. devices[j] \in DOMAIN DevString /\ DevString[devices[j]] = new[i].device  BY <2>2, <2>3 DEF Registration
  <2> QED  BY <1>8, <2>4 DEF InOrder
<1> QED  BY <1>8, <1>9 DEF new, n

-----------------------------------------------------------------------------
(***************************************************************************)
(* The inductive invariant of the books: no device is known twice; what is *)
(* registered belongs to a known device and, until the process data is     *)
(* processed, has its power; all powers can be divided among the openers.  *)
(***************************************************************************)
DevicesKnown == \A i \in DOMAIN devpower : devpower[i].dev \in Listed

BooksInv ==
  /\ CycleInv
  /\ IsInjective(all_devices)
  /\ ListsBounded /\ PowersDivide /\ DevicesNamedOnce /\ DevicesKnown
  /\ pc = "process" => hide = {} /\ PowersRegistered
  /\ NothingLost

LEMMA HandlesCounted == Len(Handles) \in Nat
BY OnceAssumption

LEMMA ZeroDivides == \A n \in Nat : n # 0 => 0 % n = 0
OBVIOUS

LEMMA NoPowerDivides == ASSUME power_usage = [d \in Devices |-> 0] PROVE PowersDivide
<1> SUFFICES ASSUME NEW d \in Devices, NEW n \in 1..(2 * Len(Handles)) PROVE power_usage[d] % n = 0
  BY DEF PowersDivide
<1>1. n \in Nat /\ n # 0  BY HandlesCounted
<1> QED  BY <1>1, ZeroDivides

LEMMA BooksStart == Init => BooksInv
<1> SUFFICES ASSUME Init PROVE BooksInv  OBVIOUS
<1>1. /\ all_devices = Fixed /\ one = <<>> /\ two = <<>> /\ devpower = <<>> /\ pc = "create"
      /\ power_usage = [d \in Devices |-> 0]
  BY DEF Init
<1>2. CycleInv  BY Starts
<1>3. ListsBounded  BY <1>1, HandlesCounted DEF ListsBounded
<1>4. PowersDivide  BY <1>1, NoPowerDivides
<1>5. DevicesNamedOnce /\ DevicesKnown  BY <1>1 DEF DevicesNamedOnce, DevicesKnown
<1>6. IsInjective(all_devices)  BY <1>1, OnceAssumption
<1> QED  BY <1>1, <1>2, <1>3, <1>4, <1>5, <1>6 DEF BooksInv, NothingLost

\* Steps that leave the devices and what is registered alone.
LEMMA BooksLeft ==
  ASSUME BooksInv, CycleInv', pc' \notin {"process", "display"},
         UNCHANGED <<one, two, devpower, all_devices, power_usage>>
  PROVE  BooksInv'
<1>1. ListsBounded' /\ PowersDivide' /\ DevicesNamedOnce' /\ DevicesKnown'
  BY DEF BooksInv, ListsBounded, PowersDivide, DevicesNamedOnce, DevicesKnown, Listed
<1> QED  BY <1>1 DEF BooksInv, NothingLost

LEMMA DistinctSeq ==
  ASSUME NEW S, IsFiniteSet(S)
  PROVE  SetToSeq(S) \in Seq(S) /\ IsInjective(SetToSeq(S))
<1>1. \E f \in [1..Cardinality(S) -> S] : IsInjective(f)
  <2>1. PICK f \in Bijection(1..Cardinality(S), S) : TRUE
    BY FS_CardinalityType DEF ExistsBijection
  <2>2. f \in [1..Cardinality(S) -> S] /\ IsInjective(f)  BY DEF Bijection, Injection
  <2> QED  BY <2>2
<1>2. IsInjective(SetToSeq(S))  BY <1>1 DEF SetToSeq
<1> QED  BY <1>2, SetToSeqType

LEMMA CreateKeepsBooks == ASSUME BooksInv, CreateAllUsbDevices PROVE BooksInv'
<1>1. /\ pc' = "sleep" /\ UNCHANGED <<one, two, devpower, power_usage>>
      /\ \E plugged \in SUBSET (UsbDevices \ Listed) : all_devices' = all_devices \o SetToSeq(plugged)
  BY DEF CreateAllUsbDevices, devlistVars
<1>2. CycleInv'  BY CreateKeeps DEF BooksInv
<1>3. PICK plugged \in SUBSET (UsbDevices \ Listed) : all_devices' = all_devices \o SetToSeq(plugged)
  BY <1>1
<1> DEFINE more == SetToSeq(plugged)
<1>4. more \in Seq(plugged) /\ IsInjective(more)
  <2>1. IsFiniteSet(plugged)  BY ThingsAssumption, FS_Subset
  <2> QED  BY <2>1, DistinctSeq
<1>5. all_devices' = all_devices \o more  BY <1>3
<1> HIDE DEF more
<1>6. all_devices \in Seq(Devices) /\ IsInjective(all_devices)  BY DEF BooksInv, CycleInv, CycleTypeOK
<1> DEFINE l == Len(all_devices)
<1>7. /\ DOMAIN all_devices' = 1..(l + Len(more)) /\ l \in Nat /\ Len(more) \in Nat
      /\ DOMAIN all_devices = 1..l /\ DOMAIN more = 1..Len(more)
      /\ (\A i \in 1..l : all_devices'[i] = all_devices[i])
      /\ \A i \in 1..(l + Len(more)) : i > l => all_devices'[i] = more[i - l] /\ i - l \in DOMAIN more
  BY <1>4, <1>5, <1>6
<1> HIDE DEF l
<1>8. \A i \in DOMAIN more : more[i] \notin Listed  BY <1>4
<1>9. \A i \in 1..l : all_devices[i] \in Listed  BY <1>7 DEF Listed, ToSet
<1>10. IsInjective(all_devices')
  <2> SUFFICES ASSUME NEW a \in DOMAIN all_devices', NEW b \in DOMAIN all_devices', all_devices'[a] = all_devices'[b]
               PROVE  a = b
    BY DEF IsInjective
  <2>1. a \in 1..l \/ a > l  BY <1>7
  <2>2. b \in 1..l \/ b > l  BY <1>7
  <2>3. CASE a \in 1..l /\ b \in 1..l  BY <1>6, <1>7, <2>3 DEF IsInjective
  <2>4. CASE a > l /\ b > l
    <3>1. a - l = b - l  BY <1>4, <1>7, <2>4 DEF IsInjective
    <3> QED  BY <1>7, <3>1
  <2>5. CASE a \in 1..l /\ b > l  BY <1>7, <1>8, <1>9, <2>5
  <2>6. CASE a > l /\ b \in 1..l  BY <1>7, <1>8, <1>9, <2>6
  <2> QED  BY <2>1, <2>2, <2>3, <2>4, <2>5, <2>6
<1>11. Listed \subseteq Listed'
  <2>1. ASSUME NEW i \in DOMAIN all_devices PROVE all_devices[i] \in Listed'
    <3>1. i \in DOMAIN all_devices' /\ all_devices'[i] = all_devices[i]  BY <1>7
    <3> QED  BY <3>1 DEF Listed, ToSet
  <2> QED  BY <2>1 DEF Listed, ToSet
<1>12. ListsBounded' /\ PowersDivide' /\ DevicesNamedOnce' /\ DevicesKnown'
  BY <1>1, <1>11 DEF BooksInv, ListsBounded, PowersDivide, DevicesNamedOnce, DevicesKnown
<1> QED  BY <1>1, <1>2, <1>10, <1>12 DEF BooksInv, NothingLost

LEMMA EndKeepsBooks == ASSUME BooksInv, EndMeasurements PROVE BooksInv'
<1>1. pc' = "process" /\ hide' = {} /\ all_devices' = all_devices /\ CollectOpenDevices
  BY DEF EndMeasurements
<1>2. CycleInv'  BY EndKeeps DEF BooksInv
<1>3. PICK used \in Usages :
        /\ power_usage' = [d \in Devices |-> IF d \in Listed THEN used[d] ELSE 0]
        /\ devpower' = Registered(devpower, all_devices, used)
  BY DEF EndMeasurements
<1>4. used \in [Devices -> Nat] /\ all_devices \in Seq(Devices) /\ devpower \in Seq(Registration)
  BY PowersAssumption DEF BooksInv, CycleInv, CycleTypeOK
<1>5. ListsBounded'
  <2>1. PICK n \in 0..Len(Handles) : \E places \in [1..n -> DOMAIN Handles] :
          LET found == [i \in 1..n |-> Handles[places[i]]]
          IN (one' = found /\ two' = two) \/ (two' = found /\ one' = one)
    BY <1>1 DEF CollectOpenDevices
  <2>2. PICK places \in [1..n -> DOMAIN Handles] :
          LET found == [i \in 1..n |-> Handles[places[i]]]
          IN (one' = found /\ two' = two) \/ (two' = found /\ one' = one)
    BY <2>1
  <2> DEFINE found == [i \in 1..n |-> Handles[places[i]]]
  <2>3. (one' = found /\ two' = two) \/ (two' = found /\ one' = one)  BY <2>2
  <2>4. n \in Nat /\ n <= Len(Handles)  BY HandlesCounted
  <2>5. Len(found) = n  BY <2>4
  <2> HIDE DEF found
  <2> QED  BY <2>3, <2>4, <2>5 DEF BooksInv, ListsBounded
<1>6. PowersDivide'
  <2> SUFFICES ASSUME NEW d \in Devices, NEW n \in 1..(2 * Len(Handles)) PROVE power_usage'[d] % n = 0
    BY DEF PowersDivide
  <2>1. CASE d \in Listed  BY <1>3, <2>1, PowersAssumption
  <2>2. CASE d \notin Listed
    <3>1. n \in Nat /\ n # 0  BY HandlesCounted
    <3> QED  BY <1>3, <2>2, <3>1, ZeroDivides
  <2> QED  BY <2>1, <2>2
<1>7. /\ InOrder(devpower', all_devices, used, Len(all_devices))
      /\ \A i \in DOMAIN devpower' : devpower'[i].power = used[devpower'[i].dev]
  <2>1. InOrder(devpower, all_devices, used, 0)
    <3>1. 1..0 = {}  OBVIOUS
    <3>2. \A i, j \in DOMAIN devpower : devpower[i].device = devpower[j].device => i = j
      BY DEF BooksInv, DevicesNamedOnce
    <3>3. \A i \in DOMAIN devpower : devpower[i].dev \in ToSet(all_devices)
      BY DEF BooksInv, DevicesKnown, Listed
    <3> QED  BY <3>1, <3>2, <3>3 DEF InOrder
  <2> QED  BY <1>3, <1>4, <2>1, RegisteredInOrder
<1>8. DevicesNamedOnce' /\ DevicesKnown'
  BY <1>1, <1>7 DEF InOrder, DevicesNamedOnce, DevicesKnown, Listed
<1>9. PowersRegistered'
  <2> SUFFICES ASSUME NEW i \in DOMAIN devpower' PROVE devpower'[i].power = power_usage'[devpower'[i].dev]
    BY DEF PowersRegistered
  <2>1. devpower'[i].dev \in Listed  BY <1>7 DEF InOrder, Listed
  <2>2. Listed \subseteq Devices  BY <1>4 DEF Listed, ToSet
  <2> QED  BY <1>3, <1>7, <2>1, <2>2
<1>10. IsInjective(all_devices')  BY <1>1 DEF BooksInv
<1> QED  BY <1>1, <1>2, <1>5, <1>6, <1>8, <1>9, <1>10 DEF BooksInv, NothingLost

LEMMA ReportsKeepBooks == ASSUME BooksInv, ShowReports PROVE BooksInv'
<1>1. /\ pc' \in {"create", "settings"} /\ UNCHANGED <<one, two, devpower, power_usage>>
      /\ all_devices' \in ByPower(all_devices)
  BY DEF ShowReports, devlistVars
<1>2. CycleInv'  BY ReportsKeep DEF BooksInv
<1> DEFINE n == Cardinality(Listed)
<1>3. Listed \in SUBSET Devices /\ IsFiniteSet(Listed) /\ n \in Nat
  <2>1. Listed \in SUBSET Devices  BY DEF BooksInv, CycleInv, CycleTypeOK, Listed, ToSet
  <2> QED  BY <2>1, FiniteDevices, FS_CardinalityType
<1>4. all_devices' \in [1..n -> Listed] /\ \A i, j \in 1..n : i # j => all_devices'[i] # all_devices'[j]
  BY <1>1 DEF ByPower, SetToSeqs, Listed
<1> HIDE DEF n
<1>5. IsInjective(all_devices')  BY <1>4 DEF IsInjective
<1>6. Listed' = Listed
  <2> DEFINE f == all_devices'
             S == 1..n
             T == Listed
  <2>1. f \in Injection(S, T)
    <3>1. f \in [S -> T] /\ IsInjective(f)  BY <1>4, <1>5
    <3> HIDE DEF f, S, T
    <3> QED  BY <3>1 DEF Injection
  <2>2. IsFiniteSet(S) /\ Cardinality(S) = n  BY <1>3, FS_Interval
  <2>3. f \in Surjection(S, T)
    <3>1. Cardinality(S) = Cardinality(T) /\ IsFiniteSet(T)  BY <1>3, <2>2 DEF n
    <3> HIDE DEF f, S, T
    <3> QED  BY <2>1, <3>1, FS_Injection
  <2>4. DOMAIN f = S /\ (\A z \in T : \E x \in S : f[x] = z) /\ \A x \in S : f[x] \in T
    BY <1>4, <2>3 DEF Surjection
  <2>5. ToSet(f) = T
    <3> HIDE DEF f, S, T
    <3> QED  BY <2>4 DEF ToSet
  <2> QED  BY <2>5 DEF Listed
<1>7. ListsBounded' /\ PowersDivide' /\ DevicesNamedOnce' /\ DevicesKnown'
  BY <1>1, <1>6 DEF BooksInv, ListsBounded, PowersDivide, DevicesNamedOnce, DevicesKnown
<1> QED  BY <1>1, <1>2, <1>5, <1>7 DEF BooksInv, NothingLost

LEMMA ShutdownKeepsBooks == ASSUME BooksInv, CleanShutdown PROVE BooksInv'
<1>1. /\ pc = "exit" /\ pc' = pc /\ one' = <<>> /\ two' = <<>> /\ devpower' = <<>> /\ all_devices' = <<>>
      /\ power_usage' = [d \in Devices |-> 0]
  BY DEF CleanShutdown, cycleVars
<1>2. CycleInv'  BY ShutdownKeeps DEF BooksInv
<1>3. ListsBounded'  BY <1>1, HandlesCounted DEF ListsBounded
<1>4. PowersDivide'
  <2> SUFFICES ASSUME NEW d \in Devices, NEW n \in 1..(2 * Len(Handles)) PROVE power_usage'[d] % n = 0
    BY DEF PowersDivide
  <2>1. n \in Nat /\ n # 0  BY HandlesCounted
  <2> QED  BY <1>1, <2>1, ZeroDivides
<1>5. DevicesNamedOnce' /\ DevicesKnown'  BY <1>1 DEF DevicesNamedOnce, DevicesKnown
<1>6. IsInjective(all_devices')  BY <1>1 DEF IsInjective
<1> QED  BY <1>1, <1>2, <1>3, <1>4, <1>5, <1>6 DEF BooksInv, NothingLost

\* What is charged for hidden devices and what the shown ones use make up all.
LEMMA HiddenAndShown ==
  ASSUME power_usage \in [Devices -> Nat], all_devices \in Seq(Devices), NEW H \in SUBSET Listed, H \cap Unlisted = {}
  PROVE  SumOf(power_usage, H) + SumOf(power_usage, Listed \ (Unlisted \cup H)) = SumOf(power_usage, Listed \ Unlisted)
<1> DEFINE U == Listed \ Unlisted
           Q == Listed \ (Unlisted \cup H)
<1>1. U \in SUBSET Devices  BY DEF Listed, ToSet
<1>2. /\ IsFiniteSet(U) /\ H \in SUBSET U /\ Q \in SUBSET U /\ H \cap Q = {} /\ H \cup Q = U
      /\ \A d \in U : power_usage[d] \in Int
  BY <1>1, FiniteDevices
<1> HIDE DEF U, Q
<1>3. SumOf(power_usage, H \cup Q) = SumOf(power_usage, H) + SumOf(power_usage, Q)  BY ONLY <1>2, SumOfUnion
<1> QED  BY <1>2, <1>3 DEF U, Q

NoTime == [c \in Consumer |-> 0]

LEMMA ProcessKeepsBooks == ASSUME BooksInv, ProcessProcessData PROVE BooksInv'
<1>0. /\ CycleTypeOK /\ ConsumersCleared /\ IsInjective(all_devices)
      /\ ListsBounded /\ PowersDivide /\ DevicesNamedOnce /\ DevicesKnown
  BY DEF BooksInv, CycleInv
<1>1. /\ pc = "process" /\ pc' = "display" /\ replaying' = replaying
      /\ UNCHANGED <<one, two, devpower, all_devices, power_usage>>
  BY DEF ProcessProcessData, devlistVars
<1>2. CycleInv'  BY ProcessKeeps DEF BooksInv
<1>3. hide = {} /\ PowersRegistered  BY <1>1 DEF BooksInv
<1>4. ListsBounded' /\ PowersDivide' /\ DevicesNamedOnce' /\ DevicesKnown' /\ IsInjective(all_devices')
  BY <1>0, <1>1 DEF ListsBounded, PowersDivide, DevicesNamedOnce, DevicesKnown, Listed
<1>5. NothingLost'
  <2> SUFFICES ASSUME ~replaying PROVE NothingLost'  BY <1>1 DEF NothingLost
  <2>1. PICK traced \in Traces :
          /\ all_processes' = MergeProcesses(RunDevpowerList(traced).processes)
          /\ ran' = RunTimes(traced)
          /\ all_proc_devices' = AllDevicesToAllPower(RunDevpowerList(traced).hide)
          /\ all_power' = ProcessesToPower(MergeProcesses(RunDevpowerList(traced).processes))
               \cup {<<"device", i>> : i \in (Len(all_proc_devices) + 1)..
                                             Len(AllDevicesToAllPower(RunDevpowerList(traced).hide))}
    BY DEF ProcessProcessData, RunTimes
  <2> DEFINE run == RunDevpowerList(traced)
             charged == run.processes
             H == run.hide
             ps == MergeProcesses(charged)
             cs == AllDevicesToAllPower(H)
             R == ProcessesToPower(ps) \cup DeviceRefs(cs)
             powers == [r \in R |-> PowerOf(r)']
             times == [r \in R |-> RuntimeOf(r)']
  <2>2. traced \in Seq(Process) /\ Once(traced) /\ \A i \in DOMAIN traced : PowerCharge[traced[i]] = 0
    <3>1. traced \in Seq(Process)  BY ThingsAssumption DEF Process
    <3>2. \A i, j \in DOMAIN traced : traced[i].power_charge = 0 /\ (traced[i].task = traced[j].task => i = j)
      BY OnceAssumption
    <3>3. \A i \in DOMAIN traced : traced[i] \in Process /\ traced[i].power_charge = 0  BY <3>1, <3>2
    <3>4. Once(traced)  BY <3>2 DEF Once
    <3>5. \A i \in DOMAIN traced : PowerCharge[traced[i]] = 0  BY <3>3 DEF PowerCharge
    <3> QED  BY <3>1, <3>4, <3>5
  <2>3. /\ one \in Seq(Opened) /\ two \in Seq(Opened) /\ devpower \in Seq(Registration)
        /\ guilty \in [Devices -> SUBSET Comms] /\ power_usage \in [Devices -> Nat] /\ all_devices \in Seq(Devices)
    BY <1>0 DEF CycleTypeOK
  <2>4. ChargedOnce(charged, traced, SumOf(power_usage, H)) /\ H \subseteq {devpower[i].dev : i \in DOMAIN devpower}
    BY <1>0, <1>3, <2>2, <2>3, NamesAdd
  <2>5. H \in SUBSET Listed /\ H \cap Unlisted = {}
    <3>1. \A i \in DOMAIN devpower : devpower[i].dev \in DOMAIN DevString /\ devpower[i].dev \in Listed
      BY <1>0, <2>3 DEF Registration, DevicesKnown
    <3> QED  BY <2>4, <3>1, OnceAssumption
  <2>6. all_processes' = ps /\ all_proc_devices' = cs /\ all_power' = R
    <3>1. Len(all_proc_devices) + 1 = 1  BY <1>0, <1>1 DEF ConsumersCleared
    <3> QED  BY <2>1, <3>1 DEF DeviceRefs
  <2> HIDE DEF run
  <2>7. ps \in Seq(Process) /\ Once(ps) /\ charged \in Seq(Process)
    <3>1. charged \in Seq(Process)  BY <2>4 DEF ChargedOnce
    <3> HIDE DEF charged
    <3> QED  BY <3>1, MergedApart, ApartOnce
  <2>8. cs \in Seq(Consumer) /\ all_proc_devices = <<>>
    BY <1>0, <1>1, ConsumersType DEF CycleTypeOK, ConsumersCleared
  <2>9. /\ SeqTotal(RunTime, ps) = SeqTotal(RunTime, traced)
        /\ SeqTotal(PowerCharge, ps) = SeqTotal(PowerCharge, traced) + SumOf(power_usage, H)
    <3> HIDE DEF charged, H
    <3> QED  BY <2>4, <2>7, MergedTotal DEF ChargedOnce
  <2>10. SeqTotal(PowerCharge, traced) = 0
    <3>1. PowerCharge \in [Process -> Nat]  BY MeasureTypes
    <3> QED  BY ONLY <2>2, <3>1, TotalOfZeros
  <2>11. SeqTotal(Power, cs) = SumOf(power_usage, Listed \ (Unlisted \cup H))
    <3>1. SeqTotal(Power, cs) = SeqTotal(Shown(H), all_devices)  BY <2>3, <2>8, ConsumersAdd
    <3>2. SeqTotal(Shown(H), all_devices) = SumOf(power_usage, Listed \ (Unlisted \cup H))  BY <1>0, <2>3, ShownOnce
    <3> QED  BY <3>1, <3>2
  <2> HIDE DEF charged, ps, cs, H
  <2>12. SeqTotal(NoTime, cs) = 0
    <3>1. NoTime \in [Consumer -> Nat] /\ \A i \in DOMAIN cs : NoTime[cs[i]] = 0  BY <2>8 DEF NoTime
    <3> QED  BY <2>8, <3>1, TotalOfZeros
  <2>13. ASSUME NEW i \in DOMAIN ps, ps[i].runtime # 0 \/ ps[i].power_charge # 0
         PROVE  /\ powers[<<"process", ps[i].task>>] = PowerCharge[ps[i]]
                /\ times[<<"process", ps[i].task>>] = RunTime[ps[i]]
    <3>1. ps[i] \in ToSet(ps) /\ ps[i] \in Process  BY <2>7 DEF ToSet
    <3>2. <<"process", ps[i].task>> \in R  BY <2>13, <3>1 DEF ProcessesToPower
    <3>3. PICK r \in R : r = <<"process", ps[i].task>> /\ r[1] # "device" /\ r[2] = ps[i].task  BY <3>2
    <3>4. PowerOf(r)' = ps[i].power_charge /\ RuntimeOf(r)' = ps[i].runtime
      <4>1. (CHOOSE p \in ToSet(ps) : p.task = ps[i].task) = ps[i]  BY <2>7, TaskChosen
      <4>2. PowerOf(r)' = (CHOOSE p \in ToSet(ps) : p.task = ps[i].task).power_charge
        BY <2>6, <3>3 DEF PowerOf
      <4>3. RuntimeOf(r)' = (CHOOSE p \in ToSet(ps) : p.task = ps[i].task).runtime
        BY <2>6, <3>3 DEF RuntimeOf
      <4> QED  BY <4>1, <4>2, <4>3
    <3>5. powers[r] = PowerOf(r)' /\ times[r] = RuntimeOf(r)'  OBVIOUS
    <3> QED  BY <3>1, <3>3, <3>4, <3>5 DEF PowerCharge, RunTime
  <2>14. ASSUME NEW i \in 1..Len(cs)
         PROVE  /\ powers[<<"device", i>>] = Power[cs[i]]
                /\ times[<<"device", i>>] = NoTime[cs[i]]
    <3> DEFINE r == <<"device", i>>
    <3>1. r \in R /\ r[1] = "device" /\ r[2] = i  BY DEF DeviceRefs
    <3>2. cs[i] \in Consumer  BY <2>8
    <3> HIDE DEF r
    <3>3. PowerOf(r)' = cs[i].power /\ RuntimeOf(r)' = 0  BY <2>6, <3>1 DEF PowerOf, RuntimeOf
    <3>4. powers[r] = PowerOf(r)' /\ times[r] = RuntimeOf(r)'  BY <3>1
    <3> QED  BY <3>2, <3>3, <3>4 DEF Power, NoTime, r
  <2>15. powers = [r \in all_power' |-> PowerOf(r)'] /\ times = [r \in all_power' |-> RuntimeOf(r)']
    BY <2>6
  <2> HIDE DEF powers, times
  <2>16. SumOf(powers, R) = SeqTotal(PowerCharge, ps) + SeqTotal(Power, cs)
    <3>1. PowerCharge \in {RunTime, PowerCharge} /\ Power \in [Consumer -> Nat]  BY DEF Power, Consumer
    <3> QED  BY <2>7, <2>8, <2>13, <2>14, <3>1, ListAdds
  <2>17. SumOf(times, R) = SeqTotal(RunTime, ps) + SeqTotal(NoTime, cs)
    <3>1. RunTime \in {RunTime, PowerCharge} /\ NoTime \in [Consumer -> Nat]  BY DEF NoTime
    <3> QED  BY <2>7, <2>8, <2>13, <2>14, <3>1, ListAdds
  <2>18. SumOf(powers, R) = SumOf(power_usage, Listed \ Unlisted)
    <3>1. SumOf(power_usage, H) + SumOf(power_usage, Listed \ (Unlisted \cup H)) = SumOf(power_usage, Listed \ Unlisted)
      BY <2>3, <2>5, HiddenAndShown
    <3>2. SumOf(power_usage, H) \in Nat
      <4>1. Listed \subseteq Devices  BY <2>3 DEF Listed, ToSet
      <4>2. IsFiniteSet(H) /\ \A d \in H : power_usage[d] \in Nat  BY <2>3, <2>5, <4>1, FiniteDevices
      <4> QED  BY <4>2, SumIsNat
    <3> QED  BY <2>9, <2>10, <2>11, <2>16, <3>1, <3>2
  <2>19. SumOf(times, R) = ran'
    <3>1. ran' = SeqTotal(RunTime, traced)  BY <2>1, <2>2, RunTimesAre
    <3>2. SeqTotal(RunTime, traced) \in Nat  BY <2>2, MeasureTypes, ValuesType
    <3> QED  BY <2>9, <2>12, <2>17, <3>1, <3>2
  <2>20. Listed' = Listed  BY <1>1 DEF Listed
  <2> HIDE DEF R
  <2> QED  BY <1>1, <2>6, <2>15, <2>18, <2>19, <2>20 DEF NothingLost
<1> QED  BY <1>1, <1>2, <1>4, <1>5 DEF BooksInv

LEMMA BooksKeep == ASSUME BooksInv, [Next]_vars PROVE BooksInv'
<1>0. CycleInv /\ CycleInv'  BY CycleKeeps DEF BooksInv
<1>1. CASE DisplayResults
  <2>1. pc' = "end_data" /\ UNCHANGED <<one, two, devpower, all_devices, power_usage>>
    BY <1>1 DEF DisplayResults, devlistVars, deviceVars
  <2> QED  BY <1>0, <2>1, BooksLeft
<1>2. CASE EndProcessData
  <2>1. pc' = "reports" /\ UNCHANGED <<one, two, devpower, all_devices, power_usage>>
    BY <1>2 DEF EndProcessData, devlistVars, deviceVars
  <2> QED  BY <1>0, <2>1, BooksLeft
<1>3. CASE ShowSettings
  <2>1. pc' \in {"create", "exit"} /\ UNCHANGED <<one, two, devpower, all_devices, power_usage>>
    BY <1>3 DEF ShowSettings, devlistVars, deviceVars
  <2> QED  BY <1>0, <2>1, BooksLeft
<1>4. CASE UNCHANGED vars
  <2>1. /\ UNCHANGED <<one, two, devpower, all_devices, power_usage, hide, all_processes>>
        /\ UNCHANGED <<all_proc_devices, all_power, pc, replaying, ran>>
    BY <1>4 DEF vars, devlistVars, deviceVars, consumerVars, cycleVars
  <2>2. ListsBounded' /\ PowersDivide' /\ DevicesNamedOnce' /\ DevicesKnown'
    BY <2>1 DEF BooksInv, ListsBounded, PowersDivide, DevicesNamedOnce, DevicesKnown, Listed
  <2>3. IsInjective(all_devices') /\ (pc' = "process" => hide' = {} /\ PowersRegistered')
    BY <2>1 DEF BooksInv, PowersRegistered
  <2>4. \A r : PowerOf(r)' = PowerOf(r) /\ RuntimeOf(r)' = RuntimeOf(r)  BY <2>1 DEF PowerOf, RuntimeOf
  <2>5. /\ [r \in all_power |-> PowerOf(r)]' = [r \in all_power |-> PowerOf(r)]
        /\ [r \in all_power |-> RuntimeOf(r)]' = [r \in all_power |-> RuntimeOf(r)]
    BY <2>1, <2>4
  <2>6. NothingLost'  BY <2>1, <2>5, Zenon DEF BooksInv, NothingLost, Listed
  <2> QED  BY <1>0, <2>2, <2>3, <2>6 DEF BooksInv
<1> QED  BY <1>1, <1>2, <1>3, <1>4, CreateKeepsBooks, EndKeepsBooks, ProcessKeepsBooks, ReportsKeepBooks,
            ShutdownKeepsBooks DEF Next

(***************************************************************************)
(* What is shown adds up: the power of each device is in the list once,    *)
(* as its own, as that of the device at the same path, or divided among    *)
(* those who had it open, merged or not; and so is all the time that ran.  *)
(***************************************************************************)
THEOREM PowerAddsUp == Spec => []NothingLost
<1>1. BooksInv => NothingLost  BY DEF BooksInv
<1>2. BooksInv /\ [Next]_vars => BooksInv'  BY BooksKeep
<1> QED  BY BooksStart, <1>1, <1>2, PTL DEF Spec

-----------------------------------------------------------------------------
(***************************************************************************)
(* The tables of the CPUs.                                                 *)
(***************************************************************************)
AddCpus(n, core) == n + core.cpus

LinesDone(core, levels, cells, base, lines) ==
  FoldLeft(LAMBDA a, l : CStateLine(core, levels, cells, a, l), base, lines)
CStatesDone(layout) == FoldLeft(LAMBDA acc, core : CStateCore(layout, acc, core), Start, layout.cores)
PStatesDone(layout) == FoldLeft(LAMBDA acc, core : PStateCore(layout, acc, core), Start, layout.cores)

\* get_num_cpus: counted after each child.
LEMMA CpuRuns ==
  ASSUME NEW S, NEW layout, layout.cores \in Seq(S),
         NEW A, 0 \in A, \A a \in A : \A x \in S : AddCpus(a, x) \in A
  PROVE  \E t \in [0..Len(layout.cores) -> A] :
           /\ t[0] = 0 /\ t[Len(layout.cores)] = CpusOf(layout)
           /\ \A k \in 1..Len(layout.cores) : t[k] = AddCpus(t[k - 1], layout.cores[k])
<1> DEFINE f == [a \in A |-> [x \in S |-> AddCpus(a, x)]]
           Behind(g) == g = [s \in SUBSET DOMAIN layout.cores |->
                               IF s = {} THEN 0 ELSE AddCpus(g[s \ {Max(s)}], layout.cores[Max(s)])]
<1>0. DOMAIN layout.cores = 1..Len(layout.cores)  OBVIOUS
<1>1. \E g : Behind(g)
  <2>1. \A a \in A : \A x \in S : f[a][x] = AddCpus(a, x)  OBVIOUS
  <2> HIDE DEF f
  <2>2. \A a \in A : \A x \in S : f[a][x] \in A  BY <2>1
  <2>3. PICK g : Folded(f, 0, layout.cores, g) /\ \A s \in SUBSET DOMAIN layout.cores : g[s] \in A
    BY <2>2, LeftFold
  <2>4. ASSUME NEW s \in SUBSET DOMAIN layout.cores, s # {}
        PROVE  f[g[s \ {Max(s)}]][layout.cores[Max(s)]] = AddCpus(g[s \ {Max(s)}], layout.cores[Max(s)])
    <3>1. Max(s) \in s  BY <2>4, MaxIn
    <3>2. layout.cores[Max(s)] \in S /\ g[s \ {Max(s)}] \in A  BY <2>3, <3>1
    <3> QED  BY <2>1, <3>2
  <2>5. Behind(g)  BY <2>3, <2>4 DEF Folded
  <2> QED  BY <2>5
<1>2. PICK g : Behind(g) /\ CpusOf(layout) = g[DOMAIN layout.cores]
  BY <1>1 DEF AddCpus, CpusOf, FoldLeft, MapThenFoldSet
<1>3. \A s \in SUBSET DOMAIN layout.cores : g[s] = IF s = {} THEN 0 ELSE AddCpus(g[s \ {Max(s)}], layout.cores[Max(s)])
  BY <1>2, Zenon
<1>4. ASSUME NEW s \in SUBSET DOMAIN layout.cores, s # {}, g[s \ {Max(s)}] \in A PROVE g[s] \in A
  <2>1. g[s] = AddCpus(g[s \ {Max(s)}], layout.cores[Max(s)])  BY <1>3, <1>4
  <2>2. layout.cores[Max(s)] \in S
    <3>1. Max(s) \in s  BY <1>4, MaxIn
    <3> QED  BY <3>1
  <2> QED  BY <1>4, <2>1, <2>2
<1>5. g[{}] = 0  BY <1>3
<1> HIDE DEF Behind, f
<1>6. PICK t \in [0..Len(layout.cores) -> A] : Course(g, t, Len(layout.cores))
  <2>1. g[{}] \in A  BY <1>5
  <2> QED  BY <1>4, <2>1, FoldCourse
<1>7. ASSUME NEW k \in 1..Len(layout.cores) PROVE t[k] = AddCpus(t[k - 1], layout.cores[k])
  <2>1. PICK s \in SUBSET (1..Len(layout.cores)) : s # {} /\ Max(s) = k /\ g[s] = t[k] /\ g[s \ {Max(s)}] = t[k - 1]
    BY <1>6, Zenon DEF Course
  <2>2. g[s] = AddCpus(g[s \ {Max(s)}], layout.cores[Max(s)])  BY <1>0, <1>3, <2>1
  <2> QED  BY <2>1, <2>2
<1>8. t[0] = 0 /\ t[Len(layout.cores)] = CpusOf(layout)  BY <1>0, <1>2, <1>5, <1>6 DEF Course
<1> QED  BY <1>7, <1>8

LinesKeep(A, S, core, levels, cells) ==
  \A a \in A : \A x \in S : CStateLine(core, levels, cells, a, x) \in A

LinesPass(t, lines, core, levels, cells, base) ==
  /\ t[0] = base /\ t[Len(lines)] = LinesDone(core, levels, cells, base, lines)
  /\ \A k \in 1..Len(lines) : t[k] = CStateLine(core, levels, cells, t[k - 1], lines[k])

\* The cells after each line of a core.
LEMMA LineRuns ==
  ASSUME NEW S, NEW lines \in Seq(S), NEW core, NEW levels, NEW cells, NEW base,
         NEW A, base \in A, LinesKeep(A, S, core, levels, cells)
  PROVE  \E t \in [0..Len(lines) -> A] : LinesPass(t, lines, core, levels, cells, base)
<1> USE DEF LinesKeep
<1> DEFINE f == [a \in A |-> [x \in S |-> CStateLine(core, levels, cells, a, x)]]
           Behind(g) == g = [s \in SUBSET DOMAIN lines |->
                               IF s = {} THEN base ELSE CStateLine(core, levels, cells, g[s \ {Max(s)}], lines[Max(s)])]
<1>0. DOMAIN lines = 1..Len(lines)  OBVIOUS
<1>1. \E g : Behind(g)
  <2>1. \A a \in A : \A x \in S : f[a][x] = CStateLine(core, levels, cells, a, x)  OBVIOUS
  <2> HIDE DEF f
  <2>2. \A a \in A : \A x \in S : f[a][x] \in A  BY <2>1
  <2>3. PICK g : Folded(f, base, lines, g) /\ \A s \in SUBSET DOMAIN lines : g[s] \in A
    BY <2>2, LeftFold
  <2>4. ASSUME NEW s \in SUBSET DOMAIN lines, s # {}
        PROVE  f[g[s \ {Max(s)}]][lines[Max(s)]] = CStateLine(core, levels, cells, g[s \ {Max(s)}], lines[Max(s)])
    <3>1. Max(s) \in s  BY <2>4, MaxIn
    <3>2. lines[Max(s)] \in S /\ g[s \ {Max(s)}] \in A  BY <2>3, <3>1
    <3> QED  BY <2>1, <3>2
  <2>5. Behind(g)  BY <2>3, <2>4 DEF Folded
  <2> QED  BY <2>5
<1>2. PICK g : Behind(g) /\ LinesDone(core, levels, cells, base, lines) = g[DOMAIN lines]
  BY <1>1 DEF LinesDone, FoldLeft, MapThenFoldSet
<1>3. \A s \in SUBSET DOMAIN lines : g[s] = IF s = {} THEN base ELSE CStateLine(core, levels, cells, g[s \ {Max(s)}], lines[Max(s)])
  BY <1>2, Zenon
<1>4. ASSUME NEW s \in SUBSET DOMAIN lines, s # {}, g[s \ {Max(s)}] \in A PROVE g[s] \in A
  <2>1. g[s] = CStateLine(core, levels, cells, g[s \ {Max(s)}], lines[Max(s)])  BY <1>3, <1>4
  <2>2. lines[Max(s)] \in S
    <3>1. Max(s) \in s  BY <1>4, MaxIn
    <3> QED  BY <3>1
  <2> QED  BY <1>4, <2>1, <2>2
<1>5. g[{}] = base  BY <1>3
<1> HIDE DEF Behind, f
<1>6. PICK t \in [0..Len(lines) -> A] : Course(g, t, Len(lines))
  <2>1. g[{}] \in A  BY <1>5
  <2> QED  BY <1>4, <2>1, FoldCourse
<1>7. ASSUME NEW k \in 1..Len(lines) PROVE t[k] = CStateLine(core, levels, cells, t[k - 1], lines[k])
  <2>1. PICK s \in SUBSET (1..Len(lines)) : s # {} /\ Max(s) = k /\ g[s] = t[k] /\ g[s \ {Max(s)}] = t[k - 1]
    BY <1>6, Zenon DEF Course
  <2>2. g[s] = CStateLine(core, levels, cells, g[s \ {Max(s)}], lines[Max(s)])  BY <1>0, <1>3, <2>1
  <2> QED  BY <2>1, <2>2
<1>8. t[0] = base /\ t[Len(lines)] = LinesDone(core, levels, cells, base, lines)  BY <1>0, <1>2, <1>5, <1>6 DEF Course
<1> QED  BY <1>7, <1>8 DEF LinesPass

\* The cells after each child of a package.
LEMMA CStateRuns ==
  ASSUME NEW S, NEW layout, layout.cores \in Seq(S),
         NEW A, Start \in A, \A a \in A : \A x \in S : CStateCore(layout, a, x) \in A
  PROVE  \E t \in [0..Len(layout.cores) -> A] :
           /\ t[0] = Start /\ t[Len(layout.cores)] = CStatesDone(layout)
           /\ \A k \in 1..Len(layout.cores) : t[k] = CStateCore(layout, t[k - 1], layout.cores[k])
<1> DEFINE f == [a \in A |-> [x \in S |-> CStateCore(layout, a, x)]]
           Behind(g) == g = [s \in SUBSET DOMAIN layout.cores |->
                               IF s = {} THEN Start ELSE CStateCore(layout, g[s \ {Max(s)}], layout.cores[Max(s)])]
<1>0. DOMAIN layout.cores = 1..Len(layout.cores)  OBVIOUS
<1>1. \E g : Behind(g)
  <2>1. \A a \in A : \A x \in S : f[a][x] = CStateCore(layout, a, x)  OBVIOUS
  <2> HIDE DEF f
  <2>2. \A a \in A : \A x \in S : f[a][x] \in A  BY <2>1
  <2>3. PICK g : Folded(f, Start, layout.cores, g) /\ \A s \in SUBSET DOMAIN layout.cores : g[s] \in A
    BY <2>2, LeftFold
  <2>4. ASSUME NEW s \in SUBSET DOMAIN layout.cores, s # {}
        PROVE  f[g[s \ {Max(s)}]][layout.cores[Max(s)]] = CStateCore(layout, g[s \ {Max(s)}], layout.cores[Max(s)])
    <3>1. Max(s) \in s  BY <2>4, MaxIn
    <3>2. layout.cores[Max(s)] \in S /\ g[s \ {Max(s)}] \in A  BY <2>3, <3>1
    <3> QED  BY <2>1, <3>2
  <2>5. Behind(g)  BY <2>3, <2>4 DEF Folded
  <2> QED  BY <2>5
<1>2. PICK g : Behind(g) /\ CStatesDone(layout) = g[DOMAIN layout.cores]
  BY <1>1 DEF CStatesDone, FoldLeft, MapThenFoldSet
<1>3. \A s \in SUBSET DOMAIN layout.cores : g[s] = IF s = {} THEN Start ELSE CStateCore(layout, g[s \ {Max(s)}], layout.cores[Max(s)])
  BY <1>2, Zenon
<1>4. ASSUME NEW s \in SUBSET DOMAIN layout.cores, s # {}, g[s \ {Max(s)}] \in A PROVE g[s] \in A
  <2>1. g[s] = CStateCore(layout, g[s \ {Max(s)}], layout.cores[Max(s)])  BY <1>3, <1>4
  <2>2. layout.cores[Max(s)] \in S
    <3>1. Max(s) \in s  BY <1>4, MaxIn
    <3> QED  BY <3>1
  <2> QED  BY <1>4, <2>1, <2>2
<1>5. g[{}] = Start  BY <1>3
<1> HIDE DEF Behind, f
<1>6. PICK t \in [0..Len(layout.cores) -> A] : Course(g, t, Len(layout.cores))
  <2>1. g[{}] \in A  BY <1>5
  <2> QED  BY <1>4, <2>1, FoldCourse
<1>7. ASSUME NEW k \in 1..Len(layout.cores) PROVE t[k] = CStateCore(layout, t[k - 1], layout.cores[k])
  <2>1. PICK s \in SUBSET (1..Len(layout.cores)) : s # {} /\ Max(s) = k /\ g[s] = t[k] /\ g[s \ {Max(s)}] = t[k - 1]
    BY <1>6, Zenon DEF Course
  <2>2. g[s] = CStateCore(layout, g[s \ {Max(s)}], layout.cores[Max(s)])  BY <1>0, <1>3, <2>1
  <2> QED  BY <2>1, <2>2
<1>8. t[0] = Start /\ t[Len(layout.cores)] = CStatesDone(layout)  BY <1>0, <1>2, <1>5, <1>6 DEF Course
<1> QED  BY <1>7, <1>8

\* The cells after each child of a package.
LEMMA PStateRuns ==
  ASSUME NEW S, NEW layout, layout.cores \in Seq(S),
         NEW A, Start \in A, \A a \in A : \A x \in S : PStateCore(layout, a, x) \in A
  PROVE  \E t \in [0..Len(layout.cores) -> A] :
           /\ t[0] = Start /\ t[Len(layout.cores)] = PStatesDone(layout)
           /\ \A k \in 1..Len(layout.cores) : t[k] = PStateCore(layout, t[k - 1], layout.cores[k])
<1> DEFINE f == [a \in A |-> [x \in S |-> PStateCore(layout, a, x)]]
           Behind(g) == g = [s \in SUBSET DOMAIN layout.cores |->
                               IF s = {} THEN Start ELSE PStateCore(layout, g[s \ {Max(s)}], layout.cores[Max(s)])]
<1>0. DOMAIN layout.cores = 1..Len(layout.cores)  OBVIOUS
<1>1. \E g : Behind(g)
  <2>1. \A a \in A : \A x \in S : f[a][x] = PStateCore(layout, a, x)  OBVIOUS
  <2> HIDE DEF f
  <2>2. \A a \in A : \A x \in S : f[a][x] \in A  BY <2>1
  <2>3. PICK g : Folded(f, Start, layout.cores, g) /\ \A s \in SUBSET DOMAIN layout.cores : g[s] \in A
    BY <2>2, LeftFold
  <2>4. ASSUME NEW s \in SUBSET DOMAIN layout.cores, s # {}
        PROVE  f[g[s \ {Max(s)}]][layout.cores[Max(s)]] = PStateCore(layout, g[s \ {Max(s)}], layout.cores[Max(s)])
    <3>1. Max(s) \in s  BY <2>4, MaxIn
    <3>2. layout.cores[Max(s)] \in S /\ g[s \ {Max(s)}] \in A  BY <2>3, <3>1
    <3> QED  BY <2>1, <3>2
  <2>5. Behind(g)  BY <2>3, <2>4 DEF Folded
  <2> QED  BY <2>5
<1>2. PICK g : Behind(g) /\ PStatesDone(layout) = g[DOMAIN layout.cores]
  BY <1>1 DEF PStatesDone, FoldLeft, MapThenFoldSet
<1>3. \A s \in SUBSET DOMAIN layout.cores : g[s] = IF s = {} THEN Start ELSE PStateCore(layout, g[s \ {Max(s)}], layout.cores[Max(s)])
  BY <1>2, Zenon
<1>4. ASSUME NEW s \in SUBSET DOMAIN layout.cores, s # {}, g[s \ {Max(s)}] \in A PROVE g[s] \in A
  <2>1. g[s] = PStateCore(layout, g[s \ {Max(s)}], layout.cores[Max(s)])  BY <1>3, <1>4
  <2>2. layout.cores[Max(s)] \in S
    <3>1. Max(s) \in s  BY <1>4, MaxIn
    <3> QED  BY <3>1
  <2> QED  BY <1>4, <2>1, <2>2
<1>5. g[{}] = Start  BY <1>3
<1> HIDE DEF Behind, f
<1>6. PICK t \in [0..Len(layout.cores) -> A] : Course(g, t, Len(layout.cores))
  <2>1. g[{}] \in A  BY <1>5
  <2> QED  BY <1>4, <2>1, FoldCourse
<1>7. ASSUME NEW k \in 1..Len(layout.cores) PROVE t[k] = PStateCore(layout, t[k - 1], layout.cores[k])
  <2>1. PICK s \in SUBSET (1..Len(layout.cores)) : s # {} /\ Max(s) = k /\ g[s] = t[k] /\ g[s \ {Max(s)}] = t[k - 1]
    BY <1>6, Zenon DEF Course
  <2>2. g[s] = PStateCore(layout, g[s \ {Max(s)}], layout.cores[Max(s)])  BY <1>0, <1>3, <2>1
  <2> QED  BY <2>1, <2>2
<1>8. t[0] = Start /\ t[Len(layout.cores)] = PStatesDone(layout)  BY <1>0, <1>2, <1>5, <1>6 DEF Course
<1> QED  BY <1>7, <1>8

-----------------------------------------------------------------------------
CoresUpTo(layout, n) == {k \in 1..n : IsCore(layout.cores[k])}

LEMMA DivideProduct == ASSUME NEW c \in Nat, NEW m \in Nat, m # 0 PROVE (c * m) \div m = c
OBVIOUS

LEMMA CoresCounted ==
  ASSUME NEW layout \in Layout
  PROVE  /\ CoresUpTo(layout, 0) = {} /\ Cardinality(CoresUpTo(layout, 0)) = 0
         /\ CoresOf(layout) = Cardinality(CoresUpTo(layout, Len(layout.cores)))
         /\ \A n \in Nat : IsFiniteSet(CoresUpTo(layout, n)) /\ Cardinality(CoresUpTo(layout, n)) \in Nat
         /\ \A n \in 1..Len(layout.cores) :
              Cardinality(CoresUpTo(layout, n)) =
                Cardinality(CoresUpTo(layout, n - 1)) + (IF IsCore(layout.cores[n]) THEN 1 ELSE 0)
<1>1. CoresUpTo(layout, 0) = {}  BY DEF CoresUpTo
<1>2. ASSUME NEW n \in Nat PROVE IsFiniteSet(CoresUpTo(layout, n)) /\ Cardinality(CoresUpTo(layout, n)) \in Nat
  <2>1. IsFiniteSet(1..n) /\ CoresUpTo(layout, n) \subseteq 1..n  BY FS_Interval DEF CoresUpTo
  <2> QED  BY <2>1, FS_Subset, FS_CardinalityType
<1>3. ASSUME NEW n \in 1..Len(layout.cores)
      PROVE  Cardinality(CoresUpTo(layout, n)) =
               Cardinality(CoresUpTo(layout, n - 1)) + (IF IsCore(layout.cores[n]) THEN 1 ELSE 0)
  <2>1. 1..n = (1..(n - 1)) \cup {n} /\ n \notin 1..(n - 1) /\ n - 1 \in Nat  OBVIOUS
  <2>2. CASE IsCore(layout.cores[n])
    <3>1. CoresUpTo(layout, n) = CoresUpTo(layout, n - 1) \cup {n} /\ n \notin CoresUpTo(layout, n - 1)
      BY <2>1, <2>2 DEF CoresUpTo
    <3> QED  BY <1>2, <2>1, <2>2, <3>1, FS_AddElement
  <2>3. CASE ~IsCore(layout.cores[n])
    <3>1. CoresUpTo(layout, n) = CoresUpTo(layout, n - 1)  BY <2>1, <2>3 DEF CoresUpTo
    <3> QED  BY <1>2, <2>1, <2>3, <3>1
  <2> QED  BY <2>2, <2>3
<1>4. DOMAIN layout.cores = 1..Len(layout.cores)  BY DEF Layout
<1>5. CoresOf(layout) = Cardinality(CoresUpTo(layout, Len(layout.cores)))  BY <1>4 DEF CoresOf, CoresUpTo
<1> QED  BY <1>1, <1>2, <1>3, <1>5, FS_EmptySet

LEMMA OneMore == ASSUME NEW c \in Nat, NEW n \in Nat PROVE c * n + c = c * (n + 1) /\ c * n \in Nat
OBVIOUS

\* In a package of equal cores none has more CPUs than its table has room for.
LEMMA CpusPerCoreIs ==
  ASSUME NEW layout \in Layout
  PROVE  /\ CpusPerCore(layout) \in Nat
         /\ Uniform(layout) => \A k \in DOMAIN layout.cores : layout.cores[k].cpus <= CpusPerCore(layout)
<1> DEFINE cores == layout.cores
           L == Len(cores)
<1>1. cores \in Seq(Child) /\ L \in Nat /\ DOMAIN cores = 1..L  BY DEF Layout
<1>2. ASSUME NEW x \in Child PROVE x.cpus \in Nat /\ (IsCore(x) \/ x.cpus = 0)  BY DEF Child
<1>3. CpusOf(layout) \in Nat
  <2>1. \A a \in Nat : \A x \in Child : AddCpus(a, x) \in Nat  BY <1>2 DEF AddCpus
  <2>2. 0 \in Nat  OBVIOUS
  <2>3. PICK t \in [0..L -> Nat] : t[L] = CpusOf(layout)  BY <1>1, <2>1, <2>2, CpuRuns
  <2> QED  BY <1>1, <2>3
<1>4. CoresOf(layout) \in Nat  BY <1>1, CoresCounted
<1>5. CpusPerCore(layout) \in Nat
  <2>1. \A m, n \in Nat : n > 0 => m \div n \in Nat  OBVIOUS
  <2> QED  BY <1>3, <1>4, <2>1 DEF CpusPerCore
<1>6. ASSUME Uniform(layout), NEW k \in DOMAIN cores PROVE cores[k].cpus <= CpusPerCore(layout)
  <2>0. cores[k] \in Child  BY <1>1
  <2>1. CASE ~IsCore(cores[k])  BY <1>2, <1>5, <2>0, <2>1
  <2>2. CASE IsCore(cores[k])
    <3> DEFINE c == cores[k].cpus
               T == [n \in Nat |-> {c * Cardinality(CoresUpTo(layout, n))}]
    <3>1. c \in Nat  BY <1>2, <2>0
    <3>2. \A n \in 1..L : cores[n].cpus = IF IsCore(cores[n]) THEN c ELSE 0
      BY <1>1, <1>2, <1>6, <2>2 DEF Uniform
    <3>3. PICK t \in [0..L -> Nat] :
            t[0] = 0 /\ t[L] = CpusOf(layout) /\ \A n \in 1..L : t[n] = AddCpus(t[n - 1], cores[n])
      <4>1. \A a \in Nat : \A x \in Child : AddCpus(a, x) \in Nat  BY <1>2 DEF AddCpus
      <4> QED  BY <1>1, <4>1, CpuRuns
    <3>4. t[0] \in T[0]  BY <3>1, <3>3, CoresCounted
    <3>5. ASSUME NEW n \in 1..L, t[n - 1] \in T[n - 1] PROVE t[n] \in T[n]
      <4> DEFINE m == Cardinality(CoresUpTo(layout, n - 1))
      <4>1. n - 1 \in Nat /\ n \in Nat /\ m \in Nat  BY <1>1, CoresCounted
      <4>2. t[n - 1] = c * m  BY <3>5, <4>1
      <4>3. Cardinality(CoresUpTo(layout, n)) = m + (IF IsCore(cores[n]) THEN 1 ELSE 0)  BY CoresCounted
      <4>4. t[n] = c * m + cores[n].cpus  BY <3>3, <4>2 DEF AddCpus
      <4>5. c * m + c = c * (m + 1) /\ c * m \in Nat  BY <3>1, <4>1, OneMore
      <4>6. t[n] = c * Cardinality(CoresUpTo(layout, n))
        <5> HIDE DEF m, c, cores, L, T
        <5>1. CASE IsCore(cores[n])  BY <3>2, <4>3, <4>4, <4>5, <5>1
        <5>2. CASE ~IsCore(cores[n])  BY <3>2, <4>1, <4>3, <4>4, <4>5, <5>2
        <5> QED  BY <5>1, <5>2
      <4> QED  BY <4>1, <4>6
    <3>6. t[L] \in T[L]
      <4> HIDE DEF T
      <4> QED  BY <1>1, <3>4, <3>5, Steps
    <3>7. CpusOf(layout) = c * CoresOf(layout)  BY <1>1, <3>3, <3>6, CoresCounted
    <3>8. CoresOf(layout) # 0
      <4>1. k \in CoresUpTo(layout, L)  BY <1>1, <2>2 DEF CoresUpTo
      <4>2. IsFiniteSet(CoresUpTo(layout, L))  BY <1>1, CoresCounted
      <4> QED  BY <4>1, <4>2, CoresCounted, FS_EmptySet
    <3>9. CpusPerCore(layout) = c  BY <1>4, <3>1, <3>7, <3>8, DivideProduct DEF CpusPerCore
    <3> QED  BY <3>1, <3>9
  <2> QED  BY <2>1, <2>2
<1> QED  BY <1>5, <1>6

-----------------------------------------------------------------------------
Cells == [package : Nat, core : Nat, cpu : Nat, first : BOOLEAN, stopped : BOOLEAN]

\* Cells are written in pairs, as long as there is room for one.
InPairs(c, room) == \E m \in 0..room : c = 2 * m

PairsIn(a, room) == a \in Cells /\ InPairs(a.core, room)

\* b is a after at most so many cells for the package, if it is still written,
\* and for the CPUs.
Advanced(a, b, package, cpu) ==
  /\ b.first = a.first /\ b.cpu <= a.cpu + cpu
  /\ b.package <= a.package + (IF a.first THEN package ELSE 0)

LEMMA CellsOf ==
  ASSUME NEW a \in Cells
  PROVE  /\ a.package \in Nat /\ a.core \in Nat /\ a.cpu \in Nat /\ a.first \in BOOLEAN
         /\ a = [package |-> a.package, core |-> a.core, cpu |-> a.cpu, first |-> a.first, stopped |-> a.stopped]
BY DEF Cells

Written(a, b, p, c, n) == b = [a EXCEPT !.package = p, !.cpu = n, !.core = c]

LEMMA WriteCells ==
  ASSUME NEW a \in Cells, NEW p \in Nat, NEW c \in Nat, NEW n \in Nat,
         NEW b, Written(a, b, p, c, n)
  PROVE  b \in Cells /\ b.package = p /\ b.core = c /\ b.cpu = n /\ b.first = a.first
BY DEF Cells, Written

LEMMA StopHere ==
  ASSUME NEW a \in Cells, NEW p \in Nat, NEW b, b = [a EXCEPT !.package = p, !.stopped = TRUE]
  PROVE  b \in Cells /\ b.package = p /\ b.core = a.core /\ b.cpu = a.cpu /\ b.first = a.first
BY DEF Cells

LEMMA WrittenSoFar ==
  ASSUME NEW a \in Cells, NEW b \in Cells, NEW room \in Nat, NEW n \in Nat, NEW w \in Nat,
         InPairs(b.core, room), b.first = a.first,
         b.package <= a.package + (IF a.first THEN n ELSE 0), b.cpu <= a.cpu + w
  PROVE  PairsIn(b, room) /\ Advanced(a, b, n, w)
BY DEF PairsIn, Advanced

LEMMA NextPair ==
  ASSUME NEW c \in Nat, NEW room \in Nat, InPairs(c, room), c < 2 * room
  PROVE  c + 2 \in Nat /\ InPairs(c + 2, room)
<1>1. PICK m \in 0..room : c = 2 * m  BY DEF InPairs
<1>2. m + 1 \in 0..room /\ c + 2 = 2 * (m + 1)  BY <1>1
<1> QED  BY <1>2 DEF InPairs

LEMMA LineAdds ==
  ASSUME NEW core \in Child, NEW levels, NEW room \in Nat, NEW width \in Nat, 2 * core.cpus + 1 <= width,
         NEW line, NEW a, PairsIn(a, room)
  PROVE  /\ PairsIn(CStateLine(core, levels, 2 * room, a, line), room)
         /\ Advanced(a, CStateLine(core, levels, 2 * room, a, line), 2, width)
<1> DEFINE package == a.package + (IF a.first THEN 2 ELSE 0)
           full == ~core.collapses /\ a.core >= 2 * room
           cells == IF line = LEVEL_HEADER THEN 2 * core.cpus
                    ELSE IF core.cpus > 0 THEN 1 + 2 * core.cpus ELSE 0
           pair == IF core.collapses THEN a.core ELSE a.core + 2
           more == a.cpu + cells
           b == CStateLine(core, levels, 2 * room, a, line)
<1> SUFFICES PairsIn(b, room) /\ Advanced(a, b, 2, width)  OBVIOUS
<1>1. a \in Cells /\ InPairs(a.core, room)  BY DEF PairsIn
<1>2. /\ a.package \in Nat /\ a.core \in Nat /\ a.cpu \in Nat /\ a.first \in BOOLEAN
      /\ core.cpus \in Nat
  BY <1>1, CellsOf DEF Child
<1>3. /\ package \in Nat /\ package <= a.package + (IF a.first THEN 2 ELSE 0)
      /\ cells \in Nat /\ cells <= width /\ a.package <= package
  BY <1>2
<1>4. CASE a.stopped \/ line \notin {LEVEL_HEADER} \cup levels
  <2>1. b = a  BY <1>4 DEF CStateLine
  <2> QED  BY <1>1, <1>2, <2>1 DEF PairsIn, Advanced
<1>5. CASE ~(a.stopped \/ line \notin {LEVEL_HEADER} \cup levels) /\ full
  <2>1. b = [a EXCEPT !.package = package, !.stopped = TRUE]  BY <1>5 DEF CStateLine
  <2> HIDE DEF b
  <2>2. b \in Cells /\ b.package = package /\ b.core = a.core /\ b.cpu = a.cpu /\ b.first = a.first
    <3> HIDE DEF package
    <3>1. a \in Cells /\ package \in Nat  BY <1>1, <1>3
    <3> QED  BY ONLY <3>1, <2>1, StopHere, Zenon
  <2>3. b.cpu <= a.cpu + width /\ b.package <= a.package + (IF a.first THEN 2 ELSE 0)
    BY <1>2, <1>3, <2>2
  <2>6. a \in Cells /\ b \in Cells /\ room \in Nat /\ 2 \in Nat /\ width \in Nat /\ InPairs(b.core, room) /\ b.first = a.first
    BY <1>1, <2>2, <2>3
  <2> QED  BY ONLY <2>3, <2>6, WrittenSoFar, Zenon
<1>6. CASE ~(a.stopped \/ line \notin {LEVEL_HEADER} \cup levels) /\ ~full
  <2>1. Written(a, b, package, pair, more)  BY <1>6 DEF CStateLine, Written
  <2> HIDE DEF b
  <2>2. pair \in Nat /\ InPairs(pair, room)  BY <1>1, <1>2, <1>6, NextPair
  <2>3. more \in Nat  BY <1>2, <1>3
  <2>4. b \in Cells /\ b.package = package /\ b.core = pair /\ b.cpu = more /\ b.first = a.first
    <3> HIDE DEF package, pair, cells, more
    <3>1. a \in Cells /\ package \in Nat /\ pair \in Nat /\ more \in Nat  BY <1>1, <1>3, <2>2, <2>3
    <3>2. Written(a, b, package, pair, more)  BY <2>1
    <3>3. b \in Cells  BY ONLY <3>1, <3>2, WriteCells, Zenon
    <3>4. b.package = package  BY ONLY <3>1, <3>2, WriteCells
    <3>5. b.core = pair  BY ONLY <3>1, <3>2, WriteCells
    <3>6. b.cpu = more  BY ONLY <3>1, <3>2, WriteCells
    <3>7. b.first = a.first  BY ONLY <3>1, <3>2, WriteCells
    <3> QED  BY <3>3, <3>4, <3>5, <3>6, <3>7
  <2>5. b.cpu <= a.cpu + width /\ b.package <= a.package + (IF a.first THEN 2 ELSE 0)
    <3> HIDE DEF package, pair, cells
    <3> QED  BY <1>2, <1>3, <2>4
  <2>6. a \in Cells /\ b \in Cells /\ room \in Nat /\ 2 \in Nat /\ width \in Nat /\ InPairs(b.core, room) /\ b.first = a.first
    BY <1>1, <2>2, <2>4, <2>5
  <2> QED  BY ONLY <2>5, <2>6, WrittenSoFar, Zenon
<1> QED  BY <1>4, <1>5, <1>6

LEMMA AdvancedTwice ==
  ASSUME NEW a \in Cells, NEW b \in Cells, NEW c \in Cells, NEW n \in Nat, NEW w \in Nat,
         Advanced(a, b, 2 * n, n * w), Advanced(b, c, 2, w)
  PROVE  Advanced(a, c, 2 * (n + 1), (n + 1) * w)
<1>1. /\ a.package \in Nat /\ b.package \in Nat /\ c.package \in Nat
      /\ a.cpu \in Nat /\ b.cpu \in Nat /\ c.cpu \in Nat
      /\ a.first \in BOOLEAN /\ b.first \in BOOLEAN /\ c.first \in BOOLEAN
  BY CellsOf
<1>2. (n + 1) * w = n * w + w /\ n * w \in Nat  OBVIOUS
<1>3. c.cpu <= a.cpu + (n + 1) * w
  <2>1. c.cpu <= b.cpu + w /\ b.cpu <= a.cpu + n * w  BY DEF Advanced
  <2> QED  BY <1>1, <1>2, <2>1
<1>4. c.package <= a.package + (IF a.first THEN 2 * (n + 1) ELSE 0)  BY <1>1 DEF Advanced
<1> QED  BY <1>3, <1>4 DEF Advanced

LEMMA LinesAdd ==
  ASSUME NEW core \in Child, NEW levels, NEW room \in Nat, NEW width \in Nat, 2 * core.cpus + 1 <= width,
         NEW S, NEW lines \in Seq(S), NEW a, PairsIn(a, room)
  PROVE  /\ PairsIn(LinesDone(core, levels, 2 * room, a, lines), room)
         /\ Advanced(a, LinesDone(core, levels, 2 * room, a, lines), 2 * Len(lines), Len(lines) * width)
<1> DEFINE L == Len(lines)
           A == {b \in Cells : InPairs(b.core, room)}
           I == [n \in Nat |-> {b \in A : Advanced(a, b, 2 * n, n * width)}]
<1>1. \A b : b \in A <=> PairsIn(b, room)  BY DEF PairsIn
<1>2. \A b \in A : \A x \in S : CStateLine(core, levels, 2 * room, b, x) \in A
  <2> HIDE DEF A
  <2> QED  BY <1>1, LineAdds
<1>3. a \in A /\ L \in Nat  BY <1>1
<1>4. PICK t \in [0..L -> A] : LinesPass(t, lines, core, levels, 2 * room, a)
  <2>1. LinesKeep(A, S, core, levels, 2 * room)  BY <1>2 DEF LinesKeep
  <2>2. a \in A /\ lines \in Seq(S)  BY <1>3
  <2> HIDE DEF A
  <2> QED  BY ONLY <2>1, <2>2, LineRuns, Zenon DEF L
<1>5. t[0] \in I[0]
  <2>1. a.package \in Nat /\ a.cpu \in Nat /\ 0 * width = 0 /\ 2 * 0 = 0  BY <1>3, CellsOf
  <2>2. Advanced(a, a, 2 * 0, 0 * width)  BY <2>1 DEF Advanced
  <2> HIDE DEF A
  <2> QED  BY <1>3, <1>4, <2>2 DEF LinesPass
<1>6. ASSUME NEW n \in 1..L, t[n - 1] \in I[n - 1] PROVE t[n] \in I[n]
  <2>1. n - 1 \in Nat /\ n \in Nat /\ (n - 1) + 1 = n /\ n - 1 \in 0..L /\ n \in 0..L  BY <1>3
  <2>2. t[n - 1] \in A /\ t[n] \in A /\ Advanced(a, t[n - 1], 2 * (n - 1), (n - 1) * width)  BY <1>4, <1>6, <2>1
  <2>3. Advanced(t[n - 1], t[n], 2, width)
    <3>1. t[n] = CStateLine(core, levels, 2 * room, t[n - 1], lines[n])  BY <1>4 DEF LinesPass
    <3>2. PairsIn(t[n - 1], room)  BY <1>1, <2>2
    <3> HIDE DEF A
    <3> QED  BY <3>1, <3>2, LineAdds
  <2>4. a \in Cells /\ t[n - 1] \in Cells /\ t[n] \in Cells  BY <1>3, <2>2
  <2>5. Advanced(a, t[n], 2 * n, n * width)
    <3> HIDE DEF A, I, L
    <3>1. Advanced(a, t[n], 2 * ((n - 1) + 1), ((n - 1) + 1) * width)  BY <2>1, <2>2, <2>3, <2>4, AdvancedTwice
    <3> QED  BY <2>1, <3>1
  <2> HIDE DEF A
  <2> QED  BY <2>1, <2>2, <2>5
<1>7. t[L] \in I[L]
  <2> HIDE DEF I
  <2> QED  BY <1>3, <1>5, <1>6, Steps
<1> QED
  <2> HIDE DEF A
  <2> QED  BY <1>1, <1>3, <1>4, <1>7 DEF LinesPass

-----------------------------------------------------------------------------
LEMMA LastLine ==
  ASSUME NEW layout \in Layout
  PROVE  /\ cstates_num(layout) \in Nat
         /\ Lines(layout) \in Seq(Int) /\ Len(Lines(layout)) = cstates_num(layout) + 3
<1> DEFINE s == layout.levels \cup {0}
           n == cstates_num(layout)
<1>1. IsFiniteSet(s) /\ s # {} /\ s \subseteq Int
  <2>1. IsFiniteSet(layout.levels) /\ layout.levels \subseteq Int  BY DEF Layout
  <2> QED  BY <2>1, FS_AddElement
<1>2. n \in s  BY <1>1, Initials DEF cstates_num
<1>3. n \in Int /\ n >= 0
  <2>1. \A y \in s : n >= y
    <3>1. n = Max(s)  BY DEF cstates_num
    <3> HIDE DEF s, n
    <3> QED  BY <1>1, <3>1, Initials
  <2> QED  BY <1>1, <1>2, <2>1
<1>4. n \in Nat  BY <1>3
<1>5. Lines(layout) = [i \in 1..(n + 3) |-> i - 3]  BY DEF Lines
<1> HIDE DEF n
<1>6. \A i \in 1..(n + 3) : i - 3 \in Int  OBVIOUS
<1>7. n + 3 \in Nat  BY <1>4
<1>8. Lines(layout) \in Seq(Int) /\ Len(Lines(layout)) = n + 3
  <2> DEFINE e == [i \in 1..(n + 3) |-> i - 3]
  <2>1. e \in [1..(n + 3) -> Int]  BY <1>6
  <2>2. e \in Seq(Int) /\ Len(e) = n + 3
    <3> HIDE DEF e
    <3> QED  BY <1>7, <2>1
  <2> QED  BY <1>5, <2>2
<1> QED  BY <1>4, <1>8 DEF n

\* The cells of the table of the cores, in pairs.
CoreRoom(layout) == cstates_num(layout) * Len(layout.cores) + Len(layout.cores)

LEMMA CoreRoomIs ==
  ASSUME NEW layout \in Layout
  PROVE  CoreRoom(layout) \in Nat /\ CStateCells(layout).core = 2 * CoreRoom(layout)
<1>1. cstates_num(layout) \in Nat /\ Len(layout.cores) \in Nat  BY LastLine DEF Layout
<1>2. \A m, n \in Nat : m * n + n \in Nat  OBVIOUS
<1> QED  BY <1>1, <1>2 DEF CoreRoom, CStateCells

\* b is a after the lines of a core, if there is one.
LEMMA CoreAdds ==
  ASSUME NEW layout \in Layout, NEW core \in Child, NEW a, PairsIn(a, CoreRoom(layout)),
         NEW width \in Nat, 2 * core.cpus + 1 <= width
  PROVE  LET b == CStateCore(layout, a, core)
             n == cstates_num(layout)
         IN /\ PairsIn(b, CoreRoom(layout))
            /\ b.cpu <= a.cpu + (n + 4) * width
            /\ b.first => a.first /\ b.package = a.package
            /\ b.package <= a.package + (IF a.first THEN 2 * (n + 3) ELSE 0)
<1> DEFINE n == cstates_num(layout)
           room == CoreRoom(layout)
           begun == [a EXCEPT !.cpu = a.cpu + 1, !.stopped = FALSE]
           cells == CStateCells(layout).core
           done == LinesDone(core, layout.levels, cells, begun, Lines(layout))
           b == CStateCore(layout, a, core)
<1>1. a \in Cells /\ InPairs(a.core, room) /\ room \in Nat /\ n \in Nat  BY CoreRoomIs, LastLine DEF PairsIn
<1>2. /\ a.package \in Nat /\ a.cpu \in Nat /\ a.first \in BOOLEAN
      /\ a.cpu + 1 \in Nat
  BY <1>1, CellsOf
<1>3. /\ begun \in Cells /\ begun.package = a.package /\ begun.core = a.core
      /\ begun.cpu = a.cpu + 1 /\ begun.first = a.first
  BY <1>1, <1>2 DEF Cells
<1>4. b = IF IsPresent(core) THEN [done EXCEPT !.first = FALSE] ELSE begun
  BY DEF CStateCore, LinesDone
<1> HIDE DEF n, room, begun, done
<1>5. PairsIn(begun, room)  BY <1>1, <1>3 DEF PairsIn
<1>6. (n + 4) * width = (n + 3) * width + width /\ (n + 3) * width \in Nat /\ 1 <= width
  <2>1. \A m \in Nat : (m + 4) * width = (m + 3) * width + width /\ (m + 3) * width \in Nat  OBVIOUS
  <2>2. core.cpus \in Nat  BY DEF Child
  <2> QED  BY <1>1, <2>1, <2>2
<1>7. CASE ~IsPresent(core)
  <2>1. b = begun  BY <1>4, <1>7
  <2> HIDE DEF b
  <2>2. b.cpu <= a.cpu + (n + 4) * width  BY <1>2, <1>3, <1>6, <2>1
  <2>3. b.package <= a.package + (IF a.first THEN 2 * (n + 3) ELSE 0)  BY <1>1, <1>2, <1>3, <2>1
  <2> QED  BY <1>3, <1>5, <2>1, <2>2, <2>3 DEF b, n, room
<1>8. CASE IsPresent(core)
  <2>1. /\ PairsIn(done, room)
        /\ Advanced(begun, done, 2 * Len(Lines(layout)), Len(Lines(layout)) * width)
    <3>1. Lines(layout) \in Seq(Int)  BY LastLine
    <3>2. cells = 2 * room  BY CoreRoomIs DEF room
    <3>3. core \in Child /\ room \in Nat /\ width \in Nat /\ 2 * core.cpus + 1 <= width  BY <1>1
    <3> HIDE DEF cells
    <3> QED  BY ONLY <1>5, <3>1, <3>2, <3>3, LinesAdd DEF done
  <2>2. Len(Lines(layout)) = n + 3  BY LastLine DEF n
  <2>3. done \in Cells  BY <2>1 DEF PairsIn
  <2>4. done.cpu <= a.cpu + 1 + (n + 3) * width  BY <1>3, <2>1, <2>2 DEF Advanced
  <2>5. done.package <= a.package + (IF a.first THEN 2 * (n + 3) ELSE 0)  BY <1>3, <2>1, <2>2 DEF Advanced
  <2>6. b = [done EXCEPT !.first = FALSE]  BY <1>4, <1>8
  <2> HIDE DEF b
  <2>7. b \in Cells /\ b.package = done.package /\ b.core = done.core /\ b.cpu = done.cpu /\ ~b.first
    BY <2>3, <2>6 DEF Cells
  <2>8. b.cpu <= a.cpu + (n + 4) * width
    <3>1. done.cpu \in Nat  BY <2>3, CellsOf
    <3> QED  BY <1>2, <1>6, <2>4, <2>7, <3>1
  <2>9. PairsIn(b, room)  BY <2>1, <2>7 DEF PairsIn
  <2> QED  BY <2>5, <2>7, <2>8, <2>9 DEF b, n, room
<1> QED  BY <1>7, <1>8

\* What is written after n children of a package: the lines of the package
\* once, and for the CPUs no more than what one child may need for each.
Within(layout, n, package, room, child) ==
  {a \in Cells : /\ InPairs(a.core, room)
                 /\ a.package <= package /\ (a.first => a.package = 0)
                 /\ Uniform(layout) => a.cpu <= n * child}

LEMMA StartsWithin ==
  ASSUME NEW layout, NEW package \in Nat, NEW room \in Nat, NEW child \in Nat
  PROVE  Start \in Within(layout, 0, package, room, child)
<1>1. /\ Start \in Cells /\ Start.package = 0 /\ Start.core = 0 /\ Start.cpu = 0
  BY DEF Start, Cells
<1>2. InPairs(0, room)
  <2>1. 0 \in 0..room /\ 0 = 2 * 0  OBVIOUS
  <2> QED  BY <2>1 DEF InPairs
<1>3. 0 <= 0 * child /\ 0 <= package  OBVIOUS
<1> QED  BY <1>1, <1>2, <1>3 DEF Within

\* The widest line of the CPUs.
CStateWidth(layout) == 2 * CpusPerCore(layout) + 1

CStateWithin(layout, n) ==
  Within(layout, n, 2 * (cstates_num(layout) + 3), CoreRoom(layout),
         (cstates_num(layout) + 4) * CStateWidth(layout))

LEMMA CStateStep ==
  ASSUME NEW layout \in Layout, NEW n \in 1..Len(layout.cores), NEW a \in CStateWithin(layout, n - 1)
  PROVE  CStateCore(layout, a, layout.cores[n]) \in CStateWithin(layout, n)
<1> DEFINE core == layout.cores[n]
           lines == cstates_num(layout)
           room == CoreRoom(layout)
           width == CStateWidth(layout)
           child == (lines + 4) * width
           own == 2 * core.cpus + 1
           b == CStateCore(layout, a, core)
<1>1. layout.cores \in Seq(Child) /\ n \in Nat /\ n - 1 \in Nat /\ core \in Child  BY DEF Layout
<1>2. lines \in Nat /\ room \in Nat  BY LastLine, CoreRoomIs
<1>3. width \in Nat  BY CpusPerCoreIs DEF CStateWidth
<1>4. core.cpus \in Nat /\ own \in Nat /\ own <= own  BY <1>1 DEF Child
<1>5. /\ a \in Cells /\ InPairs(a.core, room) /\ a.package <= 2 * (lines + 3) /\ (a.first => a.package = 0)
      /\ Uniform(layout) => a.cpu <= (n - 1) * child
  BY DEF CStateWithin, Within
<1>6. PairsIn(a, room)  BY <1>5 DEF PairsIn
<1>7. a.package \in Nat /\ a.cpu \in Nat /\ a.first \in BOOLEAN  BY <1>5, CellsOf
<1>8. /\ PairsIn(b, room) /\ (b.first => a.first /\ b.package = a.package)
      /\ b.package <= a.package + (IF a.first THEN 2 * (lines + 3) ELSE 0)
  BY <1>1, <1>4, <1>6, CoreAdds
<1>9. ASSUME Uniform(layout) PROVE b.cpu <= n * child
  <2>1. own <= width
    <3>1. core.cpus <= CpusPerCore(layout) /\ CpusPerCore(layout) \in Nat  BY <1>1, <1>9, CpusPerCoreIs
    <3> QED  BY <1>4, <3>1 DEF CStateWidth
  <2>2. b.cpu <= a.cpu + child  BY <1>1, <1>3, <1>6, <2>1, CoreAdds
  <2>3. child \in Nat
    <3>1. \A i, j \in Nat : (i + 4) * j \in Nat  OBVIOUS
    <3> HIDE DEF lines, width
    <3> QED  BY <1>2, <1>3, <3>1
  <2>4. b.cpu \in Nat  BY <1>8, CellsOf DEF PairsIn
  <2>5. a.cpu <= (n - 1) * child  BY <1>5, <1>9
  <2> HIDE DEF child, b
  <2>6. (n - 1) * child + child = n * child /\ (n - 1) * child \in Nat  BY <1>1, <2>3
  <2> QED  BY <1>7, <2>2, <2>3, <2>4, <2>5, <2>6
<1> HIDE DEF b, lines, width, core, room
<1>10. b \in Cells /\ InPairs(b.core, room)  BY <1>8 DEF PairsIn
<1>11. b.package <= 2 * (lines + 3) /\ (b.first => b.package = 0)
  <2>1. b.package \in Nat /\ b.first \in BOOLEAN  BY <1>10, CellsOf
  <2> QED  BY <1>2, <1>5, <1>7, <1>8, <2>1
<1>12. b \in CStateWithin(layout, n)  BY <1>9, <1>10, <1>11 DEF CStateWithin, Within, lines, room, width
<1> QED  BY <1>12 DEF b, core

LEMMA CStatesWithin ==
  ASSUME NEW layout \in Layout
  PROVE  CStatesDone(layout) \in CStateWithin(layout, Len(layout.cores))
<1> DEFINE L == Len(layout.cores)
           I == [n \in Nat |-> CStateWithin(layout, n)]
           A == {a \in Cells : InPairs(a.core, CoreRoom(layout))}
<1>1. layout.cores \in Seq(Child) /\ L \in Nat  BY DEF Layout
<1>2. CoreRoom(layout) \in Nat /\ cstates_num(layout) \in Nat  BY CoreRoomIs, LastLine
<1>3. Start \in I[0]
  <2>1. 2 * (cstates_num(layout) + 3) \in Nat  BY <1>2
  <2>2. (cstates_num(layout) + 4) * CStateWidth(layout) \in Nat
    <3>1. \A i, j \in Nat : (i + 4) * j \in Nat  OBVIOUS
    <3>2. CStateWidth(layout) \in Nat  BY CpusPerCoreIs DEF CStateWidth
    <3> QED  BY <1>2, <3>1, <3>2
  <2>3. Start \in CStateWithin(layout, 0)  BY <1>2, <2>1, <2>2, StartsWithin DEF CStateWithin
  <2> QED  BY <2>3
<1>4. Start \in A  BY <1>3 DEF CStateWithin, Within
<1>5. ASSUME NEW a \in A, NEW x \in Child PROVE CStateCore(layout, a, x) \in A
  <2>1. x.cpus \in Nat /\ 2 * x.cpus + 1 \in Nat /\ 2 * x.cpus + 1 <= 2 * x.cpus + 1  BY DEF Child
  <2>2. PairsIn(a, CoreRoom(layout))  BY <1>5 DEF PairsIn
  <2>3. PairsIn(CStateCore(layout, a, x), CoreRoom(layout))  BY <2>1, <2>2, CoreAdds
  <2> QED  BY <2>3 DEF PairsIn
<1>6. PICK t \in [0..L -> A] : /\ t[0] = Start /\ t[L] = CStatesDone(layout)
                               /\ \A k \in 1..L : t[k] = CStateCore(layout, t[k - 1], layout.cores[k])
  <2> HIDE DEF A
  <2> QED  BY <1>1, <1>4, <1>5, CStateRuns
<1>7. ASSUME NEW n \in 1..L, t[n - 1] \in I[n - 1] PROVE t[n] \in I[n]
  <2>1. n \in Nat /\ n - 1 \in Nat /\ t[n] = CStateCore(layout, t[n - 1], layout.cores[n])  BY <1>1, <1>6
  <2>2. t[n - 1] \in CStateWithin(layout, n - 1)  BY <1>7, <2>1
  <2>3. t[n] \in CStateWithin(layout, n)  BY <2>1, <2>2, CStateStep
  <2> QED  BY <2>1, <2>3
<1>8. t[L] \in I[L]
  <2> HIDE DEF I
  <2> QED  BY <1>1, <1>3, <1>6, <1>7, Steps
<1> QED  BY <1>1, <1>6, <1>8

LEMMA ProductOfThree ==
  ASSUME NEW l \in Nat, NEW n \in Nat, NEW w \in Nat
  PROVE  l * ((n + 4) * w) = w * ((n + 1 - (-2)) * l + l)
OBVIOUS

\* None of the tables of the idle states is too small, that of the CPUs if the
\* cores are alike.
LEMMA CStateTablesFit ==
  ASSUME NEW layout \in Layout, NEW t \in CStateTables(layout), t.exact PROVE Fits(t)
<1> DEFINE cells == CStateCells(layout)
           done == CStatesDone(layout)
           L == Len(layout.cores)
           n == cstates_num(layout)
           width == CStateWidth(layout)
<1>1. t \in {Table("package_idle", cells.package, done.package),
             Table("core_idle", cells.core, done.core),
             TableIf(Uniform(layout), "cpu_idle", cells.cpu, done.cpu)}
  BY DEF CStateTables, CStatesDone
<1>2. L \in Nat /\ n \in Nat /\ CoreRoom(layout) \in Nat  BY LastLine, CoreRoomIs DEF Layout
<1>3. width \in Nat  BY CpusPerCoreIs DEF CStateWidth
<1>4. /\ done \in Cells /\ InPairs(done.core, CoreRoom(layout))
      /\ done.package <= 2 * (n + 3) /\ (Uniform(layout) => done.cpu <= L * ((n + 4) * width))
  BY CStatesWithin DEF CStateWithin, Within
<1>5. done.package \in Nat  BY <1>4, CellsOf
<1>6. done.package <= cells.package
  <2>1. cells.package = 2 * ((n + 1) - (-2) + 1)  BY DEF CStateCells, LEVEL_HEADER
  <2> HIDE DEF n, cells, done
  <2> QED  BY <1>2, <1>4, <1>5, <2>1
<1>7. done.core <= cells.core
  <2>1. PICK m \in 0..CoreRoom(layout) : done.core = 2 * m  BY <1>4 DEF InPairs
  <2>2. cells.core = 2 * CoreRoom(layout)  BY CoreRoomIs
  <2> HIDE DEF cells, done
  <2> QED  BY <1>2, <2>1, <2>2
<1>8. Uniform(layout) => done.cpu <= cells.cpu
  <2>1. cells.cpu = width * ((n + 1 - (-2)) * L + L)  BY DEF CStateCells, LEVEL_HEADER, CStateWidth
  <2> HIDE DEF n, cells, done, L, width
  <2>2. cells.cpu = L * ((n + 4) * width)  BY <1>2, <1>3, <2>1, ProductOfThree
  <2> QED  BY <1>4, <2>2
<1> HIDE DEF cells, done
<1> QED  BY <1>1, <1>6, <1>7, <1>8 DEF Table, TableIf, Fits

-----------------------------------------------------------------------------
\* The same of the frequencies, whose table of the cores needs no end.
PStateWithin(layout, n) ==
  {a \in Cells : /\ a.package <= 2 * (layout.frequencies + 1) /\ (a.first => a.package = 0)
                 /\ a.core <= n * (2 * (layout.frequencies + 1))
                 /\ Uniform(layout) => a.cpu <= n * ((layout.frequencies + 3) * (CpusPerCore(layout) + 1))}

LEMMA OneMoreChild ==
  ASSUME NEW n \in Nat, n # 0, NEW w \in Nat
  PROVE  (n - 1) * w + w = n * w /\ (n - 1) * w \in Nat
OBVIOUS

\* The widest child has its lines and one more cell for each CPU.
LEMMA PStateLines ==
  ASSUME NEW f \in Nat, NEW c \in Nat, NEW most \in Nat, c <= most
  PROVE  /\ 1 + c + f * (IF c > 0 THEN 1 + c ELSE 0) <= (f + 3) * (most + 1)
         /\ f * (IF c > 0 THEN 1 + c ELSE 0) \in Nat /\ (f + 3) * (most + 1) \in Nat
<1>1. f * (IF c > 0 THEN 1 + c ELSE 0) <= f * (1 + c) /\ f * (IF c > 0 THEN 1 + c ELSE 0) \in Nat
  <2>1. f * 0 = 0 /\ f * (1 + c) \in Nat  OBVIOUS
  <2>2. CASE c > 0  BY <2>1, <2>2
  <2>3. CASE ~(c > 0)  BY <2>1, <2>3
  <2> QED  BY <2>2, <2>3
<1>2. (f + 3) * (c + 1) = f * (1 + c) + 3 * (1 + c)  OBVIOUS
<1>3. (f + 3) * (c + 1) <= (f + 3) * (most + 1) /\ (f + 3) * (most + 1) \in Nat
  <2>1. \A m, i, j \in Nat : i <= j => m * i <= m * j /\ m * j \in Nat  OBVIOUS
  <2>2. f + 3 \in Nat /\ c + 1 \in Nat /\ most + 1 \in Nat /\ c + 1 <= most + 1  OBVIOUS
  <2> QED  BY ONLY <2>1, <2>2
<1>4. f * (1 + c) \in Nat  OBVIOUS
<1> QED  BY <1>1, <1>2, <1>3, <1>4

LEMMA PStateStep ==
  ASSUME NEW layout \in Layout, NEW n \in 1..Len(layout.cores), NEW a \in PStateWithin(layout, n - 1)
  PROVE  PStateCore(layout, a, layout.cores[n]) \in PStateWithin(layout, n)
<1> DEFINE core == layout.cores[n]
           f == layout.frequencies
           own == f * (IF core.cpus > 0 THEN 1 + core.cpus ELSE 0)
           most == CpusPerCore(layout)
           child == (f + 3) * (most + 1)
           lines == 2 * (f + 1)
           package == IF a.first THEN a.package + lines ELSE a.package
           cores == IF core.collapses THEN a.core ELSE a.core + lines
           cpu == a.cpu + 1 + core.cpus + own
           b == PStateCore(layout, a, core)
<1>1. layout.cores \in Seq(Child) /\ n \in Nat /\ n # 0 /\ core \in Child /\ f \in Nat  BY DEF Layout
<1>2. core.cpus \in Nat /\ most \in Nat  BY <1>1, CpusPerCoreIs DEF Child
<1>3. own \in Nat /\ child \in Nat /\ lines \in Nat
  <2>1. most \in Nat /\ 0 <= most  BY <1>2
  <2>2. lines \in Nat  BY <1>1
  <2>3. own \in Nat  BY <1>1, <1>2, PStateLines
  <2>4. child \in Nat
    <3>1. 0 \in Nat  OBVIOUS
    <3> QED  BY <1>1, <2>1, <3>1, PStateLines
  <2> QED  BY <2>2, <2>3, <2>4
<1>4. /\ a \in Cells /\ a.package <= lines /\ (a.first => a.package = 0) /\ a.core <= (n - 1) * lines
      /\ Uniform(layout) => a.cpu <= (n - 1) * child
  BY DEF PStateWithin
<1>5. a.package \in Nat /\ a.core \in Nat /\ a.cpu \in Nat /\ a.first \in BOOLEAN  BY <1>4, CellsOf
<1>6. /\ (n - 1) * lines + lines = n * lines /\ (n - 1) * lines \in Nat
      /\ (n - 1) * child + child = n * child /\ (n - 1) * child \in Nat
  <2> HIDE DEF lines, child
  <2> QED  BY <1>1, <1>3, OneMoreChild
<1>7. ASSUME Uniform(layout) PROVE 1 + core.cpus + own <= child
  <2>1. core.cpus <= most  BY <1>1, <1>7, CpusPerCoreIs
  <2> QED  BY <1>1, <1>2, <2>1, PStateLines
<1>8. CASE ~IsCore(core)
  <2>1. b = [a EXCEPT !.cpu = a.cpu + 1]  BY <1>8 DEF PStateCore
  <2> HIDE DEF b
  <2>2. /\ b \in Cells /\ b.package = a.package /\ b.core = a.core /\ b.cpu = a.cpu + 1 /\ b.first = a.first
    BY <1>4, <1>5, <2>1 DEF Cells
  <2>3. b.core <= n * lines
    <3> HIDE DEF lines
    <3> QED  BY <1>3, <1>4, <1>5, <1>6, <2>2
  <2>4. Uniform(layout) => b.cpu <= n * child
    <3> HIDE DEF child, own, core
    <3> QED  BY <1>2, <1>3, <1>4, <1>5, <1>6, <1>7, <2>2
  <2>5. b \in PStateWithin(layout, n)  BY <1>4, <2>2, <2>3, <2>4 DEF PStateWithin
  <2> QED  BY <2>5 DEF b, core
<1>9. CASE IsCore(core)
  <2>1. b = [a EXCEPT !.package = package, !.core = cores, !.cpu = cpu, !.first = FALSE]  BY <1>9 DEF PStateCore
  <2> HIDE DEF b
  <2>2. package \in Nat /\ cores \in Nat /\ cpu \in Nat
    <3> HIDE DEF lines, own, core
    <3>1. package \in Nat /\ cores \in Nat  BY <1>3, <1>5
    <3>2. cpu \in Nat  BY <1>2, <1>3, <1>5
    <3> QED  BY <3>1, <3>2
  <2>3. b \in Cells /\ b.package = package /\ b.core = cores /\ b.cpu = cpu /\ ~b.first
    <3> HIDE DEF package, cores, cpu
    <3> QED  BY <1>4, <2>1, <2>2 DEF Cells
  <2>4. b.package <= lines
    <3> HIDE DEF lines
    <3> QED  BY <1>3, <1>4, <1>5, <2>3
  <2>5. b.core <= n * lines
    <3> HIDE DEF lines, core
    <3> QED  BY <1>3, <1>4, <1>5, <1>6, <2>3
  <2>6. Uniform(layout) => b.cpu <= n * child
    <3> HIDE DEF child, own, core
    <3> QED  BY <1>2, <1>3, <1>4, <1>5, <1>6, <1>7, <2>3
  <2>7. b \in PStateWithin(layout, n)  BY <2>3, <2>4, <2>5, <2>6 DEF PStateWithin
  <2> QED  BY <2>7 DEF b, core
<1> QED  BY <1>8, <1>9

LEMMA PStatesWithin ==
  ASSUME NEW layout \in Layout
  PROVE  PStatesDone(layout) \in PStateWithin(layout, Len(layout.cores))
<1> DEFINE L == Len(layout.cores)
           I == [n \in Nat |-> PStateWithin(layout, n)]
<1>1. layout.cores \in Seq(Child) /\ L \in Nat /\ layout.frequencies \in Nat  BY DEF Layout
<1>2. Start \in I[0]
  <2>1. /\ Start \in Cells /\ Start.package = 0 /\ Start.core = 0 /\ Start.cpu = 0
    BY DEF Start, Cells
  <2>2. \A w : 0 * w = 0 \/ w \notin Int  OBVIOUS
  <2>3. (layout.frequencies + 3) * (CpusPerCore(layout) + 1) \in Nat
    <3>1. CpusPerCore(layout) \in Nat /\ 0 \in Nat /\ 0 <= CpusPerCore(layout)  BY CpusPerCoreIs
    <3> QED  BY <1>1, <3>1, PStateLines
  <2>4. 2 * (layout.frequencies + 1) \in Nat  BY <1>1
  <2>5. \A w \in Nat : 0 <= 0 * w  OBVIOUS
  <2>6. Start \in PStateWithin(layout, 0)  BY <2>1, <2>3, <2>4, <2>5 DEF PStateWithin
  <2> QED  BY <2>6
<1>3. PICK t : /\ t[0] = Start /\ t[L] = PStatesDone(layout)
               /\ \A k \in 1..L : t[k] = PStateCore(layout, t[k - 1], layout.cores[k])
  <2> DEFINE A == {a \in Cells : a.package \in Nat}
  <2>1. Start \in A  BY DEF Start, Cells
  <2>2. ASSUME NEW a \in A, NEW x \in Child PROVE PStateCore(layout, a, x) \in A
    <3> DEFINE own == layout.frequencies * (IF x.cpus > 0 THEN 1 + x.cpus ELSE 0)
    <3>1. x.cpus \in Nat /\ x.cpus <= x.cpus  BY <1>1 DEF Child
    <3>2. own \in Nat  BY <1>1, <3>1, PStateLines
    <3>3. a \in Cells /\ a.package \in Nat /\ a.core \in Nat /\ a.cpu \in Nat /\ a.first \in BOOLEAN  BY CellsOf
    <3>4. CASE ~IsCore(x)
      <4>1. PStateCore(layout, a, x) = [a EXCEPT !.cpu = a.cpu + 1]  BY <3>4 DEF PStateCore
      <4> QED  BY <3>3, <4>1 DEF Cells
    <3>5. CASE IsCore(x)
      <4> DEFINE lines == 2 * (layout.frequencies + 1)
                 package == IF a.first THEN a.package + lines ELSE a.package
                 cores == IF x.collapses THEN a.core ELSE a.core + lines
                 cpu == a.cpu + 1 + x.cpus + own
      <4>1. PStateCore(layout, a, x) = [a EXCEPT !.package = package, !.core = cores, !.cpu = cpu, !.first = FALSE]
        BY <3>5 DEF PStateCore
      <4>2. package \in Nat /\ cores \in Nat /\ cpu \in Nat
        <5>1. lines \in Nat  BY <1>1
        <5> HIDE DEF lines, own
        <5> QED  BY <3>1, <3>2, <3>3, <5>1
      <4> HIDE DEF package, cores, cpu
      <4>3. PStateCore(layout, a, x) \in Cells  BY <3>3, <4>1, <4>2 DEF Cells
      <4> QED  BY <4>3, CellsOf
    <3> QED  BY <3>4, <3>5
  <2> HIDE DEF A
  <2> QED  BY <1>1, <2>1, <2>2, PStateRuns
<1>4. ASSUME NEW n \in 1..L, t[n - 1] \in I[n - 1] PROVE t[n] \in I[n]
  <2>1. n \in Nat /\ n - 1 \in Nat /\ t[n] = PStateCore(layout, t[n - 1], layout.cores[n])  BY <1>1, <1>3
  <2>2. t[n - 1] \in PStateWithin(layout, n - 1)  BY <1>4, <2>1
  <2>3. t[n] \in PStateWithin(layout, n)  BY <2>1, <2>2, PStateStep
  <2> QED  BY <2>1, <2>3
<1>5. t[L] \in I[L]
  <2> HIDE DEF I
  <2> QED  BY <1>1, <1>2, <1>3, <1>4, Steps
<1> QED  BY <1>1, <1>3, <1>5

LEMMA FrequencyProducts ==
  ASSUME NEW l \in Nat, NEW f \in Nat, NEW w \in Nat
  PROVE  /\ l * ((f + 3) * w) = w * ((f + 2) * l + l)
         /\ l * (2 * (f + 1)) <= 2 * ((f + 2) * l)
<1>1. l * ((f + 3) * w) = w * ((f + 2) * l + l)  OBVIOUS
<1>2. 2 * ((f + 2) * l) = l * (2 * (f + 1)) + 2 * l  OBVIOUS
<1>3. l * (2 * (f + 1)) \in Nat  OBVIOUS
<1> QED  BY <1>1, <1>2, <1>3

LEMMA PStateTablesFit ==
  ASSUME NEW layout \in Layout, NEW t \in PStateTables(layout), t.exact PROVE Fits(t)
<1> DEFINE cells == PStateCells(layout)
           done == PStatesDone(layout)
           L == Len(layout.cores)
           f == layout.frequencies
           width == CpusPerCore(layout) + 1
<1>1. t \in {Table("package_frequency", cells.package, done.package),
             Table("core_frequency", cells.core, done.core),
             TableIf(Uniform(layout), "cpu_frequency", cells.cpu, done.cpu)}
  BY DEF PStateTables, PStatesDone
<1>2. L \in Nat /\ f \in Nat  BY DEF Layout
<1>3. width \in Nat  BY CpusPerCoreIs
<1>4. /\ done \in Cells /\ done.package <= 2 * (f + 1) /\ done.core <= L * (2 * (f + 1))
      /\ (Uniform(layout) => done.cpu <= L * ((f + 3) * width))
  BY PStatesWithin DEF PStateWithin
<1>5. done.package \in Nat /\ done.core \in Nat  BY <1>4, CellsOf
<1>6. /\ cells.package = 2 * ((f + 1) - (-2) + 2) /\ cells.core = 2 * ((f + 2) * L)
      /\ cells.cpu = width * ((f + 2) * L + L)
  BY DEF PStateCells, LEVEL_HEADER
<1> HIDE DEF cells, done, L, f, width
<1>7. done.package <= cells.package  BY <1>2, <1>4, <1>5, <1>6
<1>8. done.core <= cells.core
  <2>1. L * (2 * (f + 1)) <= 2 * ((f + 2) * L)  BY <1>2, <1>3, FrequencyProducts
  <2>2. L * (2 * (f + 1)) \in Nat /\ 2 * ((f + 2) * L) \in Nat  BY <1>2
  <2> QED  BY <1>4, <1>5, <1>6, <2>1, <2>2
<1>9. Uniform(layout) => done.cpu <= cells.cpu
  <2>1. L * ((f + 3) * width) = width * ((f + 2) * L + L)  BY <1>2, <1>3, FrequencyProducts
  <2> QED  BY <1>4, <1>6, <2>1
<1> QED  BY <1>1, <1>7, <1>8, <1>9 DEF Table, TableIf, Fits

LEMMA WithGpusType ==
  ASSUME NEW layout \in Layout, NEW n \in Nat PROVE WithGpus(layout, n) \in Layout
<1> DEFINE gpu == [type |-> "GPU", cpus |-> 0, collapses |-> FALSE]
           gpus == [i \in 1..n |-> gpu]
           cores == layout.cores \o gpus
<1>1. gpu \in Child  BY DEF Child
<1>2. gpus \in Seq(Child)
  <2> HIDE DEF gpu
  <2> QED  BY <1>1
<1>3. layout.cores \in Seq(Child) /\ layout.levels \in {l \in SUBSET Int : IsFiniteSet(l)} /\ layout.frequencies \in Nat
  BY DEF Layout
<1>4. cores \in Seq(Child)
  <2> HIDE DEF gpus
  <2> QED  BY <1>2, <1>3
<1>5. WithGpus(layout, n) = [layout EXCEPT !.cores = cores]  BY DEF WithGpus
<1> HIDE DEF cores
<1> QED  BY <1>3, <1>4, <1>5 DEF Layout

-----------------------------------------------------------------------------
(***************************************************************************)
(* The other tables.                                                       *)
(***************************************************************************)
LEMMA LesserIs ==
  ASSUME NEW m \in Int, NEW n \in Int
  PROVE  Min({m, n}) \in {m, n} /\ Min({m, n}) <= m /\ Min({m, n}) <= n
<1>1. \E x \in {m, n} : \A y \in {m, n} : x <= y
  <2>1. CASE m <= n  BY <2>1
  <2>2. CASE n <= m  BY <2>2
  <2> QED  BY <2>1, <2>2
<1>2. Min({m, n}) \in {m, n} /\ \A y \in {m, n} : Min({m, n}) <= y  BY <1>1 DEF Min
<1> QED  BY <1>2

LEMMA NoMoreRows ==
  ASSUME NEW cols \in Nat, NEW m \in Int, NEW n \in Int, m <= n
  PROVE  cols + cols * m <= cols * (n + 1)
<1>1. cols * m <= cols * n /\ cols * m \in Int /\ cols * n \in Int  OBVIOUS
<1>2. cols * (n + 1) = cols * n + cols  OBVIOUS
<1> QED  BY <1>1, <1>2

LEMMA SummaryFits ==
  ASSUME NEW n \in Nat, NEW used \in Nat, NEW limit \in Nat, NEW cols \in Nat
  PROVE  Fits(SummaryTable(n, used, limit, cols))
<1> DEFINE total == Min({n, limit})
           shown == Min({used, total + 1})
<1>1. total \in Int  BY LesserIs
<1>2. shown \in Int /\ shown <= total + 1
  <2> HIDE DEF total
  <2> QED  BY <1>1, LesserIs
<1>3. SummaryTable(n, used, limit, cols) = Table("summary", cols * (total + 1 + 1), cols + cols * shown)
  BY DEF SummaryTable
<1> HIDE DEF total, shown
<1>4. cols + cols * shown <= cols * (total + 1 + 1)  BY <1>1, <1>2, NoMoreRows
<1> QED  BY <1>3, <1>4 DEF Fits, Table, TableIf

LEMMA SoftwareFits ==
  ASSUME NEW n \in Nat, NEW used \in Nat, NEW limit \in Nat, NEW cols \in Nat
  PROVE  Fits(SoftwareTable(n, used, limit, cols))
<1> DEFINE total == Min({n, limit})
           shown == Min({used, total})
<1>1. total \in Int  BY LesserIs
<1>2. shown \in Int /\ shown <= total
  <2> HIDE DEF total
  <2> QED  BY <1>1, LesserIs
<1>3. SoftwareTable(n, used, limit, cols) = Table("software", cols * (total + 1), cols + cols * shown)
  BY DEF SoftwareTable
<1> HIDE DEF total, shown
<1>4. cols + cols * shown <= cols * (total + 1)  BY <1>1, <1>2, NoMoreRows
<1> QED  BY <1>3, <1>4 DEF Fits, Table, TableIf

LEMMA ReportFits ==
  ASSUME NEW shown \in Nat, NEW cols \in Nat, NEW S, NEW list \in Seq(S)
  PROVE  Fits(DevicesTable(shown, cols)) /\ Fits(OpenDevicesTable(list))
<1>1. cols + cols * shown <= cols * (shown + 1)  BY NoMoreRows
<1>2. 2 + 2 * Len(list) <= 2 * (Len(list) + 1)  OBVIOUS
<1>3. Fits(DevicesTable(shown, cols))  BY <1>1 DEF Fits, Table, TableIf, DevicesTable
<1>4. Fits(OpenDevicesTable(list))  BY <1>2 DEF Fits, Table, TableIf, OpenDevicesTable
<1> QED  BY <1>3, <1>4

LEMMA HardwareFits ==
  ASSUME NEW links \in Nat,
         NEW xe \in [present : BOOLEAN, channels : Nat, gts : Nat, valid : Nat, fans : Nat],
         NEW t \in GpuTables(xe) \cup AhciTables(links)
  PROVE  Fits(t)
<1>1. ASSUME NEW name, NEW n \in Nat, NEW cols \in Nat, NEW u \in GpuRows(name, n, cols) PROVE Fits(u)
  <2>1. u = Table(name, (n + 1) * cols, cols + n * cols)  BY <1>1 DEF GpuRows
  <2>2. cols + n * cols <= (n + 1) * cols
    <3>1. (n + 1) * cols = n * cols + cols /\ n * cols \in Nat  OBVIOUS
    <3> QED  BY <3>1
  <2> QED  BY <2>1, <2>2 DEF Fits, Table, TableIf
<1>2. xe.channels \in Nat /\ xe.gts \in Nat /\ xe.valid \in Nat /\ xe.fans \in Nat  OBVIOUS
<1>3. CASE t \in GpuTables(xe)
  <2>1. \/ t \in GpuRows("gpu_power", xe.channels, 3) \/ t \in GpuRows("gpu_frequency", xe.gts, 6)
        \/ t \in GpuRows("gpu_idle", xe.valid, 3) \/ t \in GpuRows("gpu_fans", xe.fans, 2)
    BY <1>3 DEF GpuTables
  <2>2. 2 \in Nat /\ 3 \in Nat /\ 6 \in Nat  OBVIOUS
  <2> QED  BY <1>1, <1>2, <2>1, <2>2
<1>4. CASE t \in AhciTables(links)
  <2>1. t = Table("ahci", 5 * (links + 1), 5 * links + 5)  BY <1>4 DEF AhciTables
  <2> QED  BY <2>1 DEF Fits, Table, TableIf
<1> QED  BY <1>3, <1>4

LEMMA CountedType == ASSUME NEW S, NEW seq \in Seq(S), NEW state PROVE Counted(seq, state) \in Nat
<1>1. DOMAIN seq = 1..Len(seq) /\ Len(seq) \in Nat  OBVIOUS
<1>2. IsFiniteSet(DOMAIN seq)  BY <1>1, FS_Interval
<1>3. {t \in DOMAIN seq : seq[t] = state} \subseteq DOMAIN seq  OBVIOUS
<1> QED  BY <1>2, <1>3, FS_Subset, FS_CardinalityType DEF Counted

LEMMA SettingsFit ==
  ASSUME NEW first \in Seq(STRING), NEW second, NEW n \in Nat,
         NEW t \in TunablesTables(first, second, n), t.exact
  PROVE  Fits(t)
<1> DEFINE bad == Counted(first, "bad")
           good == Counted(first, "good")
<1>1. bad \in Nat /\ good \in Nat  BY CountedType
<1>2. \/ t = TableIf(first = second, "tunables", 2 * (bad + 1), 2 + 2 * Counted(second, "bad"))
      \/ t = Table("untunables", n + 1, 1 + n)
      \/ t = TableIf(first = second, "tuned", good + 1, 1 + Counted(second, "good"))
  BY DEF TunablesTables
<1> HIDE DEF bad, good
<1>3. CASE t = TableIf(first = second, "tunables", 2 * (bad + 1), 2 + 2 * Counted(second, "bad"))
  <2>1. first = second  BY <1>3 DEF TableIf
  <2>2. Counted(second, "bad") = bad  BY <2>1 DEF bad
  <2> QED  BY <1>1, <1>3, <2>2 DEF TableIf, Fits
<1>4. CASE t = Table("untunables", n + 1, 1 + n)  BY <1>4 DEF Table, TableIf, Fits
<1>5. CASE t = TableIf(first = second, "tuned", good + 1, 1 + Counted(second, "good"))
  <2>1. first = second  BY <1>5 DEF TableIf
  <2>2. Counted(second, "good") = good  BY <2>1 DEF good
  <2> QED  BY <1>1, <1>5, <2>2 DEF TableIf, Fits
<1> QED  BY <1>2, <1>3, <1>4, <1>5

LEMMA WakeupsFit ==
  ASSUME NEW first \in Seq(STRING), NEW second, NEW t \in WakeupTables(first, second), t.exact
  PROVE  Fits(t)
<1> DEFINE off == Counted(first, "disabled")
<1>1. off \in Nat  BY CountedType
<1>2. t = TableIf(first = second, "wakeup", 2 * (off + 1), 2 + 2 * Counted(second, "disabled"))
  BY DEF WakeupTables
<1>3. first = second  BY <1>2 DEF TableIf
<1>4. Counted(second, "disabled") = off  BY <1>3
<1> HIDE DEF off
<1> QED  BY <1>1, <1>2, <1>4 DEF TableIf, Fits

LEMMA PowerListFinite ==
  ASSUME NEW S, NEW ps \in Seq(S), NEW n \in Nat
  PROVE  IsFiniteSet(ProcessesToPower(ps) \cup {<<"device", i>> : i \in 1..n})
<1> DEFINE listed == {i \in 1..Len(ps) : ps[i].runtime # 0 \/ ps[i].power_charge # 0}
           f == [i \in listed |-> <<"process", ps[i].task>>]
           g == [i \in 1..n |-> <<"device", i>>]
           devs == {<<"device", i>> : i \in 1..n}
<1>1. IsFiniteSet(1..Len(ps)) /\ IsFiniteSet(1..n)  BY FS_Interval
<1>2. IsFiniteSet(listed)  BY <1>1, FS_Subset
<1>3. f \in Surjection(listed, ProcessesToPower(ps))
  <2>1. DOMAIN ps = 1..Len(ps)  OBVIOUS
  <2>2. ASSUME NEW i \in listed PROVE f[i] \in ProcessesToPower(ps)  BY <2>1 DEF ProcessesToPower, ToSet
  <2>3. ASSUME NEW r \in ProcessesToPower(ps) PROVE \E i \in listed : f[i] = r
    <3>1. PICK p \in ToSet(ps) : r = <<"process", p.task>> /\ (p.runtime # 0 \/ p.power_charge # 0)
      BY <2>3 DEF ProcessesToPower
    <3>2. PICK i \in DOMAIN ps : ps[i] = p  BY DEF ToSet
    <3>3. i \in listed  BY <2>1, <3>1, <3>2
    <3> QED  BY <3>1, <3>2, <3>3
  <2>4. f \in [listed -> ProcessesToPower(ps)]  BY <2>2
  <2> QED  BY <2>3, <2>4 DEF Surjection
<1>4. g \in Surjection(1..n, devs)
  <2>1. g \in [1..n -> devs]  OBVIOUS
  <2>2. ASSUME NEW r \in devs PROVE \E i \in 1..n : g[i] = r  BY <2>2
  <2> QED  BY <2>1, <2>2 DEF Surjection
<1>5. IsFiniteSet(ProcessesToPower(ps)) /\ IsFiniteSet(devs)
  <2> HIDE DEF f, g, listed, devs
  <2> QED  BY <1>1, <1>2, <1>3, <1>4, FS_Surjection
<1> QED  BY <1>5, FS_Union

-----------------------------------------------------------------------------
(***************************************************************************)
(* No step writes a table beyond its end.                                  *)
(***************************************************************************)
TablesInv == CycleInv /\ IsFiniteSet(all_power) /\ TablesFit

LEMMA DisplayFits ==
  ASSUME CycleInv, IsFiniteSet(all_power), DisplayResults PROVE TablesFit'
<1>1. PICK plain \in Layouts, gpus \in Gpus, cols \in Columns :
        tables' = {SummaryTable(Cardinality(all_power), Cardinality(UsedConsumers), SummaryRows, cols),
                   SoftwareTable(Cardinality(all_power), Cardinality({r \in UsedConsumers : r[1] = "process"}),
                                 SoftwareRows, cols)}
                  \cup CStateTables(WithGpus(plain, gpus)) \cup PStateTables(WithGpus(plain, gpus))
  BY DEF DisplayResults
<1> DEFINE layout == WithGpus(plain, gpus)
           n == Cardinality(all_power)
           used == Cardinality(UsedConsumers)
           programs == Cardinality({r \in UsedConsumers : r[1] = "process"})
<1>2. layout \in Layout  BY WithGpusType, TablesAssumption
<1>3. n \in Nat /\ used \in Nat /\ programs \in Nat
  <2>1. UsedConsumers \subseteq all_power /\ {r \in UsedConsumers : r[1] = "process"} \subseteq all_power
    BY DEF UsedConsumers
  <2> QED  BY <2>1, FS_Subset, FS_CardinalityType
<1>4. cols \in Nat /\ SummaryRows \in Nat /\ SoftwareRows \in Nat  BY TablesAssumption
<1> HIDE DEF layout, n, used, programs
<1>5. tables' = {SummaryTable(n, used, SummaryRows, cols), SoftwareTable(n, programs, SoftwareRows, cols)}
                \cup CStateTables(layout) \cup PStateTables(layout)
  BY <1>1 DEF layout, n, used, programs
<1>6. ASSUME NEW t \in tables', t.exact PROVE Fits(t)
  <2>1. CASE t = SummaryTable(n, used, SummaryRows, cols)  BY <1>3, <1>4, <2>1, SummaryFits
  <2>2. CASE t = SoftwareTable(n, programs, SoftwareRows, cols)  BY <1>3, <1>4, <2>2, SoftwareFits
  <2>3. CASE t \in CStateTables(layout)  BY <1>2, <1>6, <2>3, CStateTablesFit
  <2>4. CASE t \in PStateTables(layout)  BY <1>2, <1>6, <2>4, PStateTablesFit
  <2> QED  BY <1>5, <1>6, <2>1, <2>2, <2>3, <2>4
<1> QED  BY <1>6 DEF TablesFit

LEMMA ReportsFit == ASSUME CycleInv, ShowReports PROVE TablesFit'
<1> DEFINE shown == Cardinality({d \in Listed : ShowInList(d, hide)})
<1>1. PICK cols \in Columns, parts \in Hardware :
        tables' = {DevicesTable(shown, cols), OpenDevicesTable(ReportedOpenDevices)}
                  \cup GpuTables(parts.xe) \cup AhciTables(parts.links)
  BY DEF ShowReports
<1>2. shown \in Nat
  <2>1. {d \in Listed : ShowInList(d, hide)} \subseteq Devices  BY DEF Listed, ToSet, CycleInv, CycleTypeOK
  <2> QED  BY <2>1, ThingsAssumption, FS_Subset, FS_CardinalityType
<1>3. cols \in Nat /\ parts.links \in Nat
      /\ parts.xe \in [present : BOOLEAN, channels : Nat, gts : Nat, valid : Nat, fans : Nat]
  BY TablesAssumption
<1>4. ReportedOpenDevices \in Seq(Opened)  BY DEF ReportedOpenDevices, CycleInv, CycleTypeOK
<1> HIDE DEF shown
<1>5. ASSUME NEW t \in tables' PROVE Fits(t)
  <2>1. CASE t = DevicesTable(shown, cols)  BY <1>2, <1>3, <1>4, <2>1, ReportFits
  <2>2. CASE t = OpenDevicesTable(ReportedOpenDevices)  BY <1>2, <1>3, <1>4, <2>2, ReportFits
  <2>3. CASE t \in GpuTables(parts.xe) \cup AhciTables(parts.links)  BY <1>3, <2>3, HardwareFits
  <2> QED  BY <1>1, <1>5, <2>1, <2>2, <2>3
<1> QED  BY <1>5 DEF TablesFit

LEMMA SettingsTablesFit == ASSUME ShowSettings PROVE TablesFit'
<1>1. PICK first \in SettingStates, second \in SettingStates :
        tables' = TunablesTables(first.tunables, second.tunables, Untunables)
                  \cup WakeupTables(first.wakeups, second.wakeups)
  BY DEF ShowSettings
<1>2. first.tunables \in Seq(STRING) /\ first.wakeups \in Seq(STRING) /\ Untunables \in Nat  BY TablesAssumption
<1>3. ASSUME NEW t \in tables', t.exact PROVE Fits(t)
  <2>1. CASE t \in TunablesTables(first.tunables, second.tunables, Untunables)  BY <1>2, <1>3, <2>1, SettingsFit
  <2>2. CASE t \in WakeupTables(first.wakeups, second.wakeups)  BY <1>2, <1>3, <2>2, WakeupsFit
  <2> QED  BY <1>1, <1>3, <2>1, <2>2
<1> QED  BY <1>3 DEF TablesFit

LEMMA PowerStaysFinite == ASSUME CycleInv, IsFiniteSet(all_power), ProcessProcessData PROVE IsFiniteSet(all_power)'
<1>1. CASE replaying  BY <1>1 DEF ProcessProcessData, consumerVars
<1>2. CASE ~replaying
  <2>1. PICK traced \in Traces :
          all_power' = ProcessesToPower(MergeProcesses(RunDevpowerList(traced).processes))
               \cup {<<"device", i>> : i \in (Len(all_proc_devices) + 1)..
                                             Len(AllDevicesToAllPower(RunDevpowerList(traced).hide))}
    BY <1>2 DEF ProcessProcessData
  <2> DEFINE run == RunDevpowerList(traced)
             merged == MergeProcesses(run.processes)
             consumers == AllDevicesToAllPower(run.hide)
  <2>2. Len(all_proc_devices) + 1 = 1
    <3>1. pc = "process"  BY DEF ProcessProcessData
    <3>2. all_proc_devices = <<>>  BY <3>1 DEF CycleInv, ConsumersCleared
    <3> QED  BY <3>2
  <2>3. run \in Charges
    <3>1. traced \in Seq(Process)  BY ThingsAssumption DEF Process
    <3> QED  BY <3>1, AllCharged DEF CycleInv, CycleTypeOK
  <2>4. merged \in Seq(Process)
    <3>1. run.processes \in Seq(Process)  BY <2>3 DEF Charges
    <3> HIDE DEF run
    <3> QED  BY <3>1, MergedApart
  <2>5. Len(consumers) \in Nat
    <3> HIDE DEF run
    <3>1. consumers \in Seq(Consumer)  BY ConsumersType DEF CycleInv, CycleTypeOK
    <3> QED  BY <3>1
  <2>6. all_power' = ProcessesToPower(merged) \cup {<<"device", i>> : i \in 1..Len(consumers)}  BY <2>1, <2>2
  <2> HIDE DEF run, merged, consumers
  <2> QED  BY <2>4, <2>5, <2>6, PowerListFinite
<1> QED  BY <1>1, <1>2

LEMMA TablesKeep == ASSUME TablesInv, [Next]_vars PROVE TablesInv'
<1>1. CycleInv /\ IsFiniteSet(all_power) /\ TablesFit  BY DEF TablesInv
<1>2. CycleInv'  BY <1>1, CycleKeeps
<1>3. IsFiniteSet(all_power)'
  <2>1. CASE UNCHANGED all_power \/ all_power' = {}  BY <1>1, <2>1, FS_EmptySet
  <2>2. CASE ProcessProcessData  BY <1>1, <2>2, PowerStaysFinite
  <2> QED  BY <2>1, <2>2 DEF Next, vars, consumerVars, CreateAllUsbDevices, EndMeasurements, DisplayResults,
                             EndProcessData, ClearConsumers, ShowReports, ShowSettings, CleanShutdown
<1>4. TablesFit'
  <2>1. CASE UNCHANGED tables \/ tables' = {}  BY <1>1, <2>1 DEF TablesFit
  <2>2. CASE DisplayResults  BY <1>1, <2>2, DisplayFits
  <2>3. CASE ShowReports  BY <1>1, <2>3, ReportsFit
  <2>4. CASE ShowSettings  BY <2>4, SettingsTablesFit
  <2> QED  BY <2>1, <2>2, <2>3, <2>4 DEF Next, vars, reportVars, CreateAllUsbDevices, EndMeasurements,
                                         ProcessProcessData, EndProcessData, CleanShutdown
<1> QED  BY <1>2, <1>3, <1>4 DEF TablesInv

(***************************************************************************)
(* No function of a report writes a cell beyond the table it allocated:    *)
(* whatever packages, cores and idle states there are, if all cores have   *)
(* the same number of CPUs, however many consumers, devices and graphics   *)
(* cards, and as long as no setting changes while it is reported.          *)
(***************************************************************************)
THEOREM TablesAreLargeEnough == Spec => []TablesFit
<1>1. Init => TablesInv
  <2>1. Init => all_power = {} /\ tables = {}  BY DEF Init
  <2>2. tables = {} => TablesFit  BY DEF TablesFit
  <2> QED  BY <2>1, <2>2, Starts, FS_EmptySet DEF TablesInv
<1>2. TablesInv /\ [Next]_vars => TablesInv'  BY TablesKeep
<1>3. TablesInv => TablesFit  BY DEF TablesInv
<1> QED  BY <1>1, <1>2, <1>3, PTL DEF Spec
=================================================================================
