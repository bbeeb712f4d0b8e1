# TLA+ models of powertop

powertop measures for a while, derives from what it measured who used the
processor, how often it was woken up and by whom, how long frequencies and idle
states lasted, and divides the measured power among processes and devices. This
directory holds TLA+ models of that logic, TLC configurations that check them on
small instances, and proofs for instances of any size.

Paths below are relative to the root of the repository; the program itself is in
its directory `src/`.

## The system

| Component | State | Operations | Hard part | Module |
| --- | --- | --- | --- | --- |
| Trace accounting (`src/process/`) | per CPU: stack of consumers, blame, level, credit; per consumer: run time, child time, wakeups, operations; starts | one handler for each tracepoint; begin and end of processing | lost records, nesting, several CPUs, state left by an earlier measurement | `TraceAccounting`, `TraceTruth`, `WakeupCause` |
| Perf records (`src/perf/`) | a ring for each tracepoint of each CPU, the list of records | start, stop, drain, sort, hand over | records dropped, ties in the sort, wrap | `PerfBundle`, `TraceDelivery` |
| Measurement cycle (`src/main.cpp`, `src/devlist.cpp`, end of `src/process/`) | step, device openers before and after, `all_power`, tables of the report | `one_measurement`, charging devices to openers, merging threads, tables | order of the steps, what each step deletes | `MeasurementCycle`, `OpenDevices`, `PowerConsumers`, `ReportTables` |
| CPU frequencies and idle states (`src/cpu/`) | tree of package, core, CPU; states with counts before and after | frequency and idle events, `calculate_freq`, `measurement_start/end` | events of several CPUs interleaved, CPUs that come and go | `CpuFrequency`, `FrequencyTime` |
| Intel residency (`src/cpu/intel_cpus.cpp`, `intel_gpu.cpp`, `xe_gpu.cpp`) | counters before and after | measurement start and end | registers by model, CPUs that go offline | `IntelResidency` |
| Devices (`src/devices/`), RAPL (`src/cpu/rapl/`, `*_rapl_device.cpp`) | counters or levels before and after, energy and time | create, start, end, utilization, report, charge | unreadable files, resets and wraps, devices that come later | `DeviceCreation`, `ShareDevices`, `EnergyDevices`, `NetworkDevices`, `DevfreqStates`, `DevicePower` |
| Test framework, reads and writes (`src/test_framework.cpp`, `src/lib.cpp`) | recorded values, queues of the replay | read, write, save, load | a replay must read what the recording read | `TestFramework`; composed with the devices in `DeviceMeasurement` |
| Power meters (`src/measurement/`) | joules, `tlast`, sums of the sampling thread | start, end, sample | threads that share a device and a clock | `PowerMeters` |
| Parameters (`src/parameters/`) | index tables, past results, two files | register, report, store, save, load, learn | stale values, a file cut off | `ResultBundles` |
| Calibration (`src/calibrate/`) | saved settings, threads | save, restore, burn, measure | partial failure | `Calibration`; with meters and results in `PowerLearning` |
| Tunables, wakeups, tabs (`src/tuning/`, `src/wakeup/`, `src/display.cpp`) | list of tunables, cursor, tab shown | keys, toggle, refresh, `--auto-tune` | a cursor into a list that changes | `Tunables`, `Tabs` |
| Bluetooth tunable (`src/tuning/bluetooth.cpp`) | two snapshots | `good_bad`, `toggle` | time between calls | `BluetoothIdle` |
| Report formatters, translations, netlink protocol, PCI names | none that matters here | formatting, I/O | - | not modelled |

The components meet in `one_measurement()`: meters, devices, process tracing and
CPUs are started in this order and ended in another; then the CPU records and the
process records are handled, the results are shown, all process data is deleted,
and the results are stored for learning. The trace records are the only
concurrent input: the kernel writes the rings while the program sleeps.

What makes a component correct:

- trace accounting: nobody is charged for time or wakeups of others; no wakeup is
  counted twice; what ring buffers dropped may cost accuracy but never
  consistency; nothing of an earlier measurement is used in a later one;
- perf records: what was committed before a measurement ended is handled once, in
  the order of time stamps;
- frequencies: all time of a CPU is accounted once, to the frequency in force;
- measurement cycle: each step finds the data it needs, and no step uses what
  another has deleted; power charged to openers adds up to the device's;
- meters: the sampling thread ends, and the average is of this measurement;
- parameters: what is saved is what is read back; a partial file does no harm;
- calibration: settings are restored on every path, and the threads of one step do not load the machine
  in another (but for those that a step leaves behind when it gives up);
- devices: what is shown of a measurement is what the device did in it, whatever
  was unreadable or reset before; energy is charged once;
- test framework: a replay shows what the recording showed;
- tabs and tunables: Enter acts on the entry under the cursor and does what it
  announces.

## Modules

### TraceAccounting

One action for each branch of `perf_process_bundle::handle_trace_point`, and
four around them: `StartMeasurement` (`start_process_measurement`),
`BeginProcessing` (`process_process_data` up to the loop over the records),
`EndProcessData` (`end_process_data`), and `OtherRecord` for a record that no
branch handles or one with an unreadable field. Every action of a record begins
with `Record(time)`, the update of `first_stamp` and `last_stamp` that
`handle_trace_point` makes before it looks at the record's type.

| State | Code |
| --- | --- |
| `cpu_stack`, `cpu_level`, `cpu_credit`, `cpu_blame` | the vectors of the same names in `do_process.cpp` |
| `objects` | which `process`, `interrupt`, `timer` and `work` objects exist |
| `accumulated_runtime` ... `hard_disk_hits` | the fields of `power_consumer`; 0 for an object that does not exist, as its constructor leaves them |
| `running`, `running_since`, `waker`, `last_waker` | fields of `process` |
| `irq_since` | `interrupt::running_since` |
| `timer_since`, `work_since` | the maps of `timer.cpp` and `work.cpp`, keyed by structure; 0 for a key that is absent |
| `first_stamp`, `last_stamp`, `prev_disk_time` | the statics of `do_process.cpp`; `NoStamp` is `~0ULL` |
| `phase`, `handled` | where `one_measurement()` is, and how many records were handled |

A consumer is a member of one of four disjoint sets; what the code decides by
comparing names (the X server, kernel threads, the timer interrupt, deferred
timers, delayed work ...) is membership in a subset. The name "timer" gives an
interrupt object for each CPU, as `find_create_interrupt` does.

`Next` admits any record on any CPU at any time not before the last one. This is
what the handlers really have to cope with: each tracepoint of each CPU has its
own ring that drops what does not fit, tracing starts in the middle of whatever
the kernel does, and only `perf_bundle::process` puts the records in order.
Run times are natural numbers here, not 64-bit ones: that no difference is
negative is a property (`TypeOK`), and sums of nanoseconds do not reach 2^64.

Left out: the C-state and P-state data (`src/cpu/`), `raw_count`, descriptions,
`measurement_time`, CPUs above `get_max_cpu()` (for which `change_blame` and
`consume_blame` return at once), and what follows the records in
`process_process_data` (merging, sorting, display).

### TraceTruth

`TraceAccounting` driven by a kernel that loses no record. `context` is the
kernel's own stack of executing contexts of each CPU; `active` and `alone` are
clocks that no handler sees: how long each consumer was executing, and how long
with nothing traced on top. The kernel's rules are external to the repository and
kept weak: a process runs on one CPU at a time, interrupts of one line do not
overlap, a softirq vector may run on several CPUs at once, timers with one
callback may run on several CPUs with their own structures, work items run in a
process and do not nest. Contexts that began before the trace may end in it.
With this the derived times can be compared with the true ones.

### WakeupCause

`TraceAccounting` restricted to CPUs that go idle only in their idle thread, with
one history variable that says whether the consumer held to blame was already
held when the CPU went idle.

### PerfBundle and TraceDelivery

`TraceDelivery` is what a bundle of perf events promises: what the kernel commits
while a measurement collects is delivered once, in the order of time, after it has
closed; all of it or none; nothing of it in the next. `PerfBundle` is the code,
together with the kernel's side of the buffers, and `DeliversAll` says that it
implements `TraceDelivery`. This is where the guard `InOrder` of
`TraceAccounting` comes from. Two committed samples with one time stamp may be
handed over in either order, as `std::ranges::sort` is not stable;
`TraceAccounting` therefore admits any order among records of one time.

| State | Code |
| --- | --- |
| `phase`, `at` | which of `start`, `stop`, `process` of the bundle runs, and the index of its loop over `events` |
| `fd` | `perf_event::perf_fd`: closed, or open and enabled or not |
| `data_mmap`, `data_head`, `data_tail` | the mapping of each event and the offsets in its first page |
| `lost` | in the kernel: records were dropped since the last one written |
| `records` | the copies that `handle_event` made |
| `done`, `handed` | which copies the loop of `perf_bundle::process` has handed to `handle_trace_point`, and in what order |

The kernel is external: it appends a record if it fits between `data_head` and
`data_tail` with a unit to spare, never wraps `data_head`, and puts a
`PERF_RECORD_LOST` before the first record that fits after a loss. `process()` sees
records of that other type and must skip them. A mapping that fails leaves the
event closed; a descriptor that cannot be opened ends the program, at any event.
Clearing happens after processing, or without it, as when a test is replayed.

Sizes and offsets are in units instead of bytes, and header, time and event are all
that is left of a record: the correction of the sample's CPU number changes neither
order nor number of what is handed over. That an enabled event can be disabled
is assumed; the program has no other answer to a failure than a message.

### CpuFrequency and FrequencyTime

`FrequencyTime` is what the frequency columns promise, without a tree: a CPU is
busy or idle and has a frequency, the highest frequency of a package's busy CPUs is
in force in all of it, and the time between two records of a package goes to that
frequency for each CPU, core and package that was busy and to "Idle" for each that
rested. `CpuFrequency` is the code: `calculate_freq` carries a change up from CPU
to core to package, each looking at its own children only, and
`change_effective_frequency` carries the result down. `AccountsTruly` says that it
implements `FrequencyTime`.

| State | Code |
| --- | --- |
| `phase` | between `start_cpu_measurement`, `end_cpu_measurement`, `process_cpu_data` and `end_cpu_data` |
| `parent` | the tree that `handle_one_cpu` builds; each core and package has a child because they are made when one of their CPUs is |
| `idle`, `old_idle`, `current_frequency`, `effective_frequency`, `last_stamp` | the fields of `abstract_cpu`, of each node |
| `time_after` | `time_after` of the node's `pstates`, 0 for a frequency that has no entry |
| `cstates`, `duration_delta` | one idle state of each node; all states are handled alike and alone, and `usage` as `duration` is |

`go_idle`, `go_unidle` and `change_freq` are one action each; the whole way up the
tree and down again belongs to it. The measurement's two ends read
sysfs, where a counter may be unreadable at either end (a CPU that is offline) and
otherwise does not decrease. In between, `time_after` holds the kernel's times since boot, which
`process_cpu_data` sets back before it handles the records.

One thing the abstract specification states rather than hides: a CPU that no record has
named yet counts as resting by itself but as busy, at no frequency, for its core and
package once those have been named. Nodes no record has named at all rest.

The Intel classes (`nhm_cpu` and others) inherit the handling of records and add
counters read from registers, which are in `IntelResidency`, as are those of the GPU,
which take no part in frequencies. Not modelled are the root of the tree (`system_level`, whose own
frequency is never shown), and `wiggle`, which only provokes records.

### MeasurementCycle, OpenDevices, PowerConsumers, ReportTables

`MeasurementCycle` is `one_measurement()` and the loops around it, one action for
each group of calls that nothing can come between: `CreateAllUsbDevices` (with all
that starts), `EndMeasurements` (with `collect_open_devices` and the charging of
openers), `ProcessProcessData` (merging and the list of all that uses power),
`DisplayResults`, `EndProcessData`, `ShowReports`, `ShowSettings` (the tables of
tunables and wakeups, which a report ends with) and `CleanShutdown`. Traces come from
outside, as the processes that ran; `TraceAccounting` is what makes them.

| State | Code |
| --- | --- |
| `one`, `two`, `phase` and the rest of `devlistVars` (`OpenDevices`) | the two lists of `devlist.cpp`, which of them is current, and `devpower` |
| `all_processes`, `all_proc_devices`, `all_power` (`PowerConsumers`) | the lists of `process.cpp` and `processdevice.cpp`; `all_power` holds references into the other two, as the code holds plain pointers |
| `hide`, `guilty`, `power_usage` | fields of `device` |
| `tables` (`ReportTables`) | the tables that the last step wrote: cells allocated and cells written |
| `shown_open` | the table of open devices |

`ReportTables` has an operator for each function that fills a table: those of
processes, devices, CPUs, SATA links, an Xe card, tunables and wakeups. A layout is the
tree of CPUs the table is made for; graphics cores are appended to it as
`handle_i965_gpu` and `handle_xe_gpu` do.

### IntelResidency, DeviceCreation, ShareDevices, EnergyDevices, NetworkDevices, DevfreqStates, DevicePower

Each is the fields of its devices and what `start_measurement`, `end_measurement`,
`utilization` and `power_usage` do to them, as operators from the old fields and what
was read to the new ones. `DeviceCreation` says for each class what powertop looks
at to find it. `DevicePower` is the charge for the reported results, with
the parameters and past results that `utilization_power_valid` looks at; powers are
in hundredths and a fan turns in units of 3600 per minute, so that they are integers.

### TestFramework and DeviceMeasurement

`TestFramework` is how all of these read and write: files, directories, access
checks, registers and the time, each recorded with its key, and served from queues in a
replay. `DeviceMeasurement` composes all: one device of one class (`unit`) on a
machine that works, changes levels, loses the device and gets it back, from creation
through measurements to the replay of the recording.

| State | Code |
| --- | --- |
| `mode`, `records`, `queues` | `test_framework_manager`: recording or replaying, what was recorded, what is left |
| `kernel`, `gone` | the machine: contents of files and registers; those that cannot be read now |
| `present`, `device` | an entry in `all_devices` and its fields |
| `results`, `power` | `all_results`, and what `power_usage` returns for them |
| `began`, `spent`, `used`, `charged`, `truths` | history: what really happened |

The counters (`Counted`, `Advanced`, `HardwareRegister`, `Level` and others) are external:
they say what the kernel and the hardware count.

### PowerMeters, ResultBundles, Calibration, PowerLearning

`PowerLearning` is a run of the program as far as power is measured and learned from:
what `main()` does is a sequence of operations (a report with or without a workload, the
interactive loop, a calibration), and a measurement goes through `PowerMeters` step by step
with three kinds of threads beside it: the Extech's sampler, the background thread of
a workload, and those that burn CPU for a calibration. `Calibration` holds the steps and
settings of a calibration, `ResultBundles` past results, parameters and both files. `Crash`
and `CrashWhileSaving` stop the machine anywhere; the next run finds the files.

| State | Code |
| --- | --- |
| `at`, `todo`, `left` | where the main thread is, what is left of `main()` and of the measurement |
| `sampled`, `tlast`, `tnow` | what `joules` accounts for; the statics and locals of `global_sample_power` |
| `sampler`, `thread_started`, `end_sampling`, `samples`, `turn` | `extech_power_meter` |
| `background`, `end_thread` | the thread of `one_measurement` |
| `burners`, `stop_measurement`, `settings`, `saved_sysfs` | `calibrate.cpp` |
| `past_results`, `param_index`, `slots`, `results_file`, `parameters_file` | `parameters.cpp` and `persistent.cpp` |

### BluetoothIdle, Tunables, Tabs

`BluetoothIdle` is the two snapshots of `bt_tunable`; `Tunables` the verdicts, toggles
and commands of every kind of tunable and wakeup source and their lists; `Tabs` the
screen and the keys. Each action of `Tabs` is a whole handler (a key, a refresh, the end
of a measurement, `--auto-tune`), for nothing else of powertop runs meanwhile; others
may write settings, unplug devices and send data between handlers.

| State | Code |
| --- | --- |
| `setting` | contents of the files and states of interfaces |
| `all_tunables`, `all_untunables`, `wakeup_all` | the lists of the same names |
| `memory` | `bad_value` and `toggle_bad` |
| `snap`, `bytes`, `clock` | `snap_bytes`, `snap_time`; the interface's counters and `time()` |
| `current_tab`, `cursor_pos`, `cursor_max`, `ypad_pos`, `pad`, `screen` | `display.cpp` and `tab_window`: the state of each tab, what was painted, what is visible |
| `mode` | "crashed" when Enter reads past the end of the list |

### Sums

`Sums` is the sum over a finite set that the properties of several modules use; `Sums_proofs` is what
the proofs know about it, and about folds (see "Proofs").

### What is left

Every safety property that a run checks is a theorem. The liveness properties and the
counterexamples stay with TLC.

## Runs

| Run | Instance | What it shows |
| --- | --- | --- |
| `trace_all` | 1 CPU; a process, X, the idle thread; a device and a timer interrupt, a softirq, a plain, a delayed-work and a deferred timer, a work item; 5 records, stamps 1..2 | with any losses: types, no pointer to a deleted object, no start in the future or from an earlier measurement, processes only at the bottom of stacks, hard disk hits spaced |
| `trace_blame` | 2 CPUs (interchangeable); process, X, idle thread, kernel thread; a device interrupt; 5 records, stamps 1..2 | blame, levels, credits and wakers, with any losses and CPUs interleaved |
| `trace_truth` | 2 CPUs; process, idle thread, softirq, timer interrupt, two timers (one deferred) with two structures, a work item; 5 records, stamps 1..3 | without losses: the stacks are the kernel's, run times are exact, never too high, and do not include what ran on top |
| `child_time` | 1 CPU, 6 records | the code adds nested time to a consumer twice (a counterexample) |
| `wakeup_cause` | 1 CPU, 6 records | a wakeup is charged to a process that ran before the idle period (a counterexample) |
| `perf_bundle` | 2 events with buffers of 4 units, samples of 1 or 3 units, stamps 1..2 | no buffer wraps, processing ends, and the code implements `TraceDelivery` |
| `cpu_frequency` | a package of two cores with two CPUs (interchangeable) and one; frequencies 0..2, counters 0 or 2 or unreadable, stamps 1..2 | the code implements `FrequencyTime`, all nodes of a package account for the same time, idle time of cores and packages is the mean of their CPUs' |
| `measurement_cycle` | a process with a thread that renames itself and one that exits; two USB devices, a sound card and a runtime PM entry; layouts whose cores are alike, with 0 or 2 graphics cores | measurements one after the other: nothing listed is deleted, every power and run time is listed once, openers are named, no table is written past its end |
| `cpu_tables` | the same with cores of 2 and 1 CPUs | the table of the CPUs' idle states is written past its end (a counterexample) |
| `power_learning` | a battery and an Extech; a report with a workload, interactive, a calibration; 2 runs that share files | time is sampled once, threads belong to their measurement, or were left by a CPU calibration that gave up, measurements end, files are read back, names have slots, settings are restored |
| `tabs` | three machines of 3 or 4 tunables and at most one wakeup source | Enter does what it says and reads past the end of a shortened list only, the highlighted entry gets out of sight only where the code moves one of cursor and scroll position alone, and moving up finds it again, `--auto-tune` mends what it can, Bluetooth is idle only after a quiet minute |
| `device_measurement` | every class of device, every family of CPU models; 2 measurements, 3 ticks, 1 loss | what is shown and charged, live and replayed, is what happened; energy and packets are charged at most once |

Bounds: `MaxRecords` bounds the records of one measurement and `MaxStamp` the
time; the number of measurements is not bounded, so whatever outlives
`end_process_data` (blame, level, credit, stamps) reaches the next one. Five
records are enough for an entry, a nested entry, a switch on another CPU, an exit
and one record more; deeper nesting repeats the same steps on a longer stack. Two
stamps tell "same time" from "later", three are needed where a difference is
compared with a true duration. One CPU is enough for what concerns one stack; the
runs about processes, which move between CPUs, have two. Symmetry is used for
CPUs only, in a run of safety properties. Deadlock is checked in all runs of the
accounting and in `cpu_frequency`, where a measurement can always go on, and not in
`perf_bundle`, whose program may exit.

The buffers of `perf_bundle` hold three units, so that three samples of one unit fill
one, a sample of three units fills it alone, and after a loss a
`PERF_RECORD_LOST` can stand before or between samples. Two events are enough for
one that still records while the other has stopped.

`cpu_frequency` bounds the stamps only; the number of records and measurements is not
bounded. A core of two CPUs and one of one make the levels of the tree differ, two
frequencies besides none tell the highest from the last, and two stamps tell the first
interval, which has no known beginning, from one that has. Counters of 0 and 2 make
means and differences that division by 1, 2 or 3 tells apart.

`measurement_cycle` has no bound but the sets of its instance; tables have limits of 2 and 3
rows instead of 10 and 100, so that they are reached, and every device's power is divisible by
each number of openers.

`power_learning` bounds samples (`MaxSamples` 1), the time of a measurement (`MaxTime` 2) and the
runs that share files (`MaxStarts` 2; `RemoveFiles` starts anew). Results kept are 2 instead of 750
(`MAX_PARAM`), of which the first is never replaced (`FIRST_KEPT`), saved at every second
(`SAVE_EVERY`); a measurement must last 2 to be stored and in a calibration lasts 2
(`MIN_DURATION`, `Long`). Runs that find files are plain reports (`LaterPlans`). The second
calibration of the CPU has 2 threads instead of 4. A crash of the machine sets the settings back, as a boot does.

`tabs` has three machines: one with Bluetooth and a PCI bridge without power
management, one with a number, a wireless card, a file and a USB device, one with a setting of each CPU, a CPU
that may go offline, a wireless card and a wakeup source. A minute is 2 ticks (`Minute`), the clock stops
at 4 (`MaxClock`), which leaves room for a snapshot, its successor and traffic in either minute; byte
counts pass `HalfRange`, where their sum turns negative, at 2. Others change one setting
(`MaxChanges`). Terminals of 8 and 9 lines (`Sizes`) with `ScrollMargin` 7 make
lists scroll.

`device_measurement` has counters that start at 0 or next to `MaxInt` (300, for 2^31 - 1), so that they
cross it within 3 ticks (`MaxTicks`); the energy counter wraps at 5 (`EnergyRange`), the differences of
devfreq at 16 (`Wide`). Two measurements show what the first leaves for the second; one loss
(`MaxFaults`) can fall at any point of both, also before powertop starts. A second has 2 ticks
(`TicksPerSecond`), so that measurements end within the second of the last read.

No liveness is claimed of the accounting: it is a loop over a finite list. The
liveness of `perf_bundle`, `ProcessEnds`, rests on weak fairness of the two loops of
`perf_bundle::process`: it is one sequential call that waits for nothing, so it
goes on as long as it can. Nothing is assumed of the kernel. That of `power_learning`,
`MeasurementEnds`, rests on weak fairness of each thread's steps: threads are
scheduled, their sleeps and reads of the serial line have timeouts, and the workload ends. Nothing
is assumed of when time passes or the machine crashes.

### What the three counterexamples show

- `child_time`: `consumer_child_time` adds the time of an ended context to every
  entry left on the stack. A context two levels up gets it from the inner one and
  again as part of the middle one. `child_runtime` then exceeds
  `accumulated_runtime`; `total_cpu_time()` and `description()` set it to 0 in that
  case and `Witts()` clamps the difference, so the consumer is shown with too
  much or too little time. `tests/base/test_power_consumer_base.cpp` calls such
  values bogus. What does hold is `NestedTimeExcluded`: a consumer is never left
  with more than the time it was executing by itself.
- `wakeup_cause`: the process that ran before the CPU went idle is still the one to
  blame when it leaves idle, so it is charged with the wakeup, whereas
  `review/class.md` describes `wake_ups` as wakeups caused by the consumer. What
  does hold is `WakeupPaidByIdle`: one charge for each idle period at most.

- `cpu_tables`: `report_display_cpu_cstates` makes room for the rounded mean of the CPUs of
  a core and writes the cells of each CPU. With a core of two CPUs and one of one (a CPU is
  offline) cells are written past the vector's end. What does hold is `TablesFit`, for packages
  whose cores are alike, and for all other tables; not for those of tunables and wakeups when settings
  change between the pass that counts them and the pass that writes them.

A further limit that the properties state rather than hide: a softirq vector has
one start for all CPUs, so if it runs on two at once its time is too low
(`ActiveTimeExact` excludes that case by `overlap`); it is never too high
(`NeverOvercharged`).

### What `ShowsWhatHappened` and `ChargedAtMostOnce` leave out

A measurement is compared with what happened when everything read in it could be read and nothing was
lost within it; it must take time. Besides:

- radios that are blocked by one switch at the start and by the other at the end (`rfkill::utilization`
  adds each switch up alone), and whose charge reads a result of another name than the one reported;
- devices with runtime power management, which report no result, are charged nothing; their times are
  read as int and count as 0 above it;
- of network cards the links and their power; packets are read at most once a second by the time of
  the machine, so that a measurement may see none, and are checked by `ChargedAtMostOnce` only;
- a CPU that did not run. (A wrap of an energy counter is not left out: the program takes none into account, and what
  is shown is too small by the range of the counter for each, `TimesWrapped`; so `ChargedAtMostOnce` says nothing of it);
- replays of network cards (the framework does not know their system calls) and of RAPL by registers (a
  replayed register returns no size, `local.md`), the line that sums several units of an Xe card, "C0" of
  Intel cores (from another counter than residencies), and packages whose number is not that of one of their CPUs;
- an Xe card whose channel could not be looked at when powertop started, or could not be read later (a failed
  read counts as 0).

### Seen in the code, without a run

Modelled as the code has them, these are no promises of a document that a run could refute:

- `store_results` stores the power of the last discharge while on AC (`parameters.cpp:311`); a record with a
  line cut to one or two characters ends there (`persistent.cpp:100`); `min_power` is lowered by records that are discarded;
- `end_measurement` of the Extech measures under the lock that `extech.h:40` says is never held across I/O;
- `network::power_usage` decides at its first call which links have a power and keeps that
  (`network.cpp:366`): without saved results links are never charged;
- a USB device is charged only if learning ran after it was created (`usb.cpp:129`); a report learns at its end
  only, so in a report no USB device is ever charged;
- `ahci` does not clamp the time in devslp and keeps old results when no time was counted; `alsa` keeps an old start
  when the file cannot be read; a frequency first seen at the end of a measurement is taken for the state that gets the rest;
- `backlight::utilization` does not look at dpms, its results do;
- the package of Intel models reads its registers on the CPU that has the package's number;
- Enter on an empty list of tunables, or on one that became shorter, reads past its end (`tuning.cpp:166`; `waketab.cpp:101`
  checks); `EnterDoesWhatItSays` says that it does so there only;
- `cursor_max` is not set when a list is made anew; `expose()` resets the cursor and not the scroll position,
  refresh the reverse; the highlighted entry may then be out of sight until it is moved up (`HighlightInSight`);
- `cpu_calibration` returns when a thread cannot be created and leaves the others running (`calibrate.cpp:236-239`); they
  load the machine in later measurements (`LeftBehind` in `OwnThreadsOnly`).

Each property of a passing run has a mutant of the code's definition that breaks
it: the operators marked "mutant".

## Proofs

Eight modules hold theorems: one for each module of the model they are about (`TraceTruth_proofs` is
also about `TraceAccounting`), and `Sums_proofs`. All hold for every value of the constants that the named assumptions of the modules admit.

### Induction over data: `Sums_proofs`

The library states induction for predicates, which none of the provers can instantiate. With a set in the
place of the predicate it is first-order: `Induction` (over natural numbers) and `SubsetInduction` (over the
subsets of a finite set) follow from `WellFoundedInduction`; `Recursion` says that a function defined on the
subsets of a finite set by taking off a chosen member exists, which is what the community modules' folds are
(a `CHOOSE` of such a function). From it come the laws of `SumOf` (`SumRest`, `SumAdd`, `SumChange`,
`SumMonotone`, `SumOfUnion`, `SumOfSums` and others), those of the totals of sequences, and `FoldCourse`: a fold over a sequence runs through one value for
each member. The proof modules have one such lemma for each fold of the model (their names end in `Runs`).

### Trace accounting

`TraceTruth_proofs`, from `SubsetsAssumption`, `KindsAssumption`, `FiniteAssumption` and
`BoundsAssumption`:

| Theorem | Argument |
| --- | --- |
| `TypeCorrect`, `NoFutureStart` | `TypeOK` alone is not inductive: `end_interrupt` subtracts a start from the record's time, which is natural only if no start lies in the future. `TypeInv` adds `StartsInPast`; a start is the stamp of a handled record, so it never exceeds `last_stamp`, and a record is never earlier than that (`InOrder`). When `start_process_measurement` sets `last_stamp` back to 0 there is no start left to lie above it, since `end_process_data` deletes every object and empties both maps (`ClearStarts`). One lemma for each handler. |
| `BlameHasLevelAlways`, `BlameIsKept`, `WakeupsArePaid` | all three follow from one lemma, `HandlerBlame`: a record may only leave the blame of its CPU alone, set the credit, put a consumer with a level forward, or try to charge. |
| `WakersAreOfSleepers` | inductive by itself, given the types: only `sched_switch`, `sched_wakeup` and the deletions touch wakers. |
| `DontBlameIsHonoured` | from the same lemma and `WakerOfSleepers`: a switch puts forward either a waker or the process it switches to. |
| `ProcessesAtBottom` | from `HandlerStack`: a record may only leave the stack of its CPU alone, push or pop a context, or make a process the whole of it. |
| `RunningIsOnCpuAlways` | `RunningIsOnCpu` is not inductive: `deschedule_thread` leaves a process running that has no start or one in the future. `StartedIsOnCpu` adds that what runs has a start; `StartsInPast` says the start is not in the future. |
| `NothingDangles` | the invariant is split into stacks, blames and wakers. What a record pushes or blames exists by then (`HandlerStack`, `HandlerBlame`), a waker was on top of a stack, no record deletes anything, and `process_process_data` drops what the deleted objects of the last measurement left. |
| `HardHitsAreSpaced` | `HitsInv`: the hits of all consumers together, times the gap, never exceed `prev_disk_time`. One hit moves that stamp on by more than the gap (`SumChange`); what deletes consumers only lowers the sum. |

The second half of `TraceTruth_proofs` is about records of a kernel that loses none. It uses what is proved of
`TraceAccounting`, since such a run is a run of `TraceAccounting` (`KernelRunsAreRuns`). The
invariant `TruthInv` consists of:

| Part | What it says |
| --- | --- |
| `KernelInv` | no consumer is twice in the contexts of a CPU nor on two CPUs, unless it is a callback or a softirq that overlaps itself; no timer is below a deferred one; timers and work items in progress have structures of their own; whatever is in progress has its start in the maps; the stack is the contexts without deferred timers |
| `ChargesAddUp`, `NeverCharged` | what was charged to a consumer and what is in progress on all CPUs add up to the time it executed, exactly if it is not a softirq that overlapped itself |
| `NestingAddsUp` | the time a consumer was not innermost is covered by its child time and by what is in progress right on top of it |
| `NothingBetween` | between measurements nothing is charged |

| Theorem | Argument |
| --- | --- |
| `StacksMirrorKernel` | what a record does to the contexts is what `handle_trace_point` does to the stack (`HandlerStack`), deferred timers left out on both sides |
| `ActiveTimesAreExact`, `NobodyIsOvercharged` | the stacks are the contexts, so a consumer on none has nothing in progress; sums over CPUs change at the CPU of the record only (`SumChange`) |
| `NestedTimesAreExcluded` | `ChargesAddUp` less `NestingAddsUp`: what is left to a consumer is at most the time it was innermost |

### Perf records

`PerfBundle_proofs`, for any number of events, any buffer and any sizes of records, from `SizesAssumption`:

| Theorem | Argument |
| --- | --- |
| `TypeCorrect`, `NoWrap` | `Inv` says what a buffer looks like (`BufferOK`: from `data_tail` on, headers follow one another up to `data_head`, with nothing between them and nothing behind), which events record and what has been read in each phase (`PhaseOK`), and that the copies are of different records (`CopiesOK`). The kernel writes only while nothing has been read (`KernelFindsUnread`), so the room it finds ends before the end of the mapping, and no offset is ever wrapped. |
| `Refinement` | what is pending is what lies in the buffers and what was copied and not handed over. A commit adds one sample (`CommitCollects`); reading moves one from buffer to copies (`ReadKeepsAll`); the end of a buffer's loop, which sets `data_tail` to `data_head`, skips nothing because it is there already (`BufferDoneMovesNothing`); handing over takes one away, the earliest, and just one since copies differ (`HandOverDelivers`); a fresh mapping replaces an empty one (`CreateLosesNothing`); clearing drops everything or nothing (`ClearDrops`). |

### CPU frequencies and idle states

`CpuFrequency_proofs`, for any tree and any frequencies that have a highest in
each subset, from `TreeAssumption`, `FreqsAssumption` and `ReadingsAssumption`:

| Theorem | Argument |
| --- | --- |
| `FrequencyRefinement` | `Inv` says of each node (`NodeOK`) what it looks like before a record has named one of its CPUs, and afterwards that its flags and its frequency are what its children make of them and that the package's frequency is in force. A record repairs the three nodes it passes (`Updated`) and leaves the children of all others alone (`OtherChildren`). From `Inv` a node's `old_idle` is what `FrequencyTime` calls resting (`OldIdleRests`), and the maximum of maxima is the maximum over all busy CPUs (`FastestOfTree`), so time is charged to the frequency in force (`ChargedIsInForce`). Before the first record nothing is named, whatever the last measurement left (`UntouchedIsOK`). |
| `FrequencyTypeCorrect` | with `Inv`, which has most types already; times are added only from earlier stamps |
| `TotalsAgree` | while records are handled every node has the total of its package (`TotalsInv`): a change of frequency gives the same interval to each node of the package, as their stamps agree |
| `ResidenciesAreMeans` | adding child by child and level by level adds up the CPUs (`SumOfSums`), their number likewise |

### Measurement cycle

`MeasurementCycle_proofs`, for any processes, traces, devices, open files and layouts of CPUs, from
`ThingsAssumption`, `TablesAssumption` and, for sums, `OnceAssumption` (objects are made once, and what registers a
name is shown) and `PowersAssumption` (a power can be divided without a rest by the number of openers, as
doubles are in the code but for rounding). The invariant is `CycleInv`: types, nothing left of the
consumers between measurements (`ConsumersCleared`), openers charged once the process data is processed
(`OpenersCharged`), and a table of open devices that is gone before the lists change (`ShownIsListed`).

| Theorem | Argument |
| --- | --- |
| `PowerRefersToTheLiving` | every action that shortens a list also ends or remakes `all_power` in the same step |
| `ThreadsAreFolded` | by induction over the processes: after each, whoever is kept belongs to no one kept before it |
| `OpenersAreNamed` | by induction over devices and over open files: a device with an opener is hidden and names all that were charged; nothing takes that back before the table is shown |
| `PowerAddsUp` | `BooksInv` adds that no device is known twice and that what is registered has, until it is charged, the power of its device. Then sums are followed through each fold: sharing a power adds all of it to the processes (`OpenersAdd`), the list of registered names charges what it hides (`NamesAdd`), merging changes neither charges nor run times (`MergedTotal`), the consumers use what the shown devices use (`ConsumersAdd`), and the list of references to both drops only zeros (`ListAdds`). Hidden and shown devices are all that are listed |
| `TablesAreLargeEnough` | for each table, rows and columns of the cells written against those allocated. The CPUs' tables need the lines of a core (the rounded mean of CPUs per core, `CpusPerCoreIs`), which are enough if all cores have the same number (`CoreAdds`, `CStateTablesFit`); the lists are finite and do not change from the pass that counts to the one that writes |

### Power measurement and learning

`PowerLearning_proofs`, for any files, devices and parameters, from `PlansAssumption` (the plans are
those of `main()`), `FilesAssumption`, `NamesAssumption`, `ValuesAssumption` and `RingAssumption`. The invariant `IInv` has
a part for each concern: `PlanInv` (what is left of the plan), `BurnersInv` (whose threads load the machine), `SettingsInv` (the settings are those found, or are saved and
will be restored), `EnergyInv` (which thread is between adding energy and setting `tlast`), `SamplerInv`,
`NamesInv` and `ResultsInv`.

| Theorem | Argument |
| --- | --- |
| `TimeIsSampledOnce` | two threads read and write `sampled` and `tlast` without a lock. `EnergyInv`: the main thread samples only after it has joined the other, so at most one is in between, and the two agree otherwise |
| `ThreadsAreOwn` | the Extech's thread is joined before its samples are used, and a step's threads are stopped by the operation that follows its measurement (`Trailing`). `BurnersInv`: each thread is of the step that is to be stopped next, or after the measurement at hand, or was left behind: only a step of several threads leaves any when it cannot create the last |
| `SettingsAreRestored` | a plan that changes settings ends with the one operation that restores them (`Closing`), also when the steps of threads that could not be created are taken out |
| `NamesAlwaysHaveSlots` | by induction over the lines of the file and over the devices: whatever a line registers, the vectors are one slot longer than the names |
| `LoadsTheSavedOnly` | by induction over the lines of a file that was cut: what was read up to each line is a front of what was being written |

### Tabs and tunables

`Tabs_proofs`, for any tunables, files, wakeup sources and sizes of the terminal, from
`ScreenAssumption` (at least six lines, which the program's own layout takes), `FilesAssumption`, `TargetAssumption`,
`RankAssumption` (descriptions and scores give an order) and `WrapAssumption`:

| Theorem | Argument |
| --- | --- |
| `IdleIsQuiet` | `SnapOK`: if the counter is what a snapshot says, nothing was sent since, and the older of two was taken a minute before the younger. However often and by whom it is judged, a snapshot is right when it is taken and traffic only raises the counter |
| `EnterActsOnTheScreen` | `ScreenInv`: what was painted last is the list and the cursor as they are, whatever tab was exposed, refreshed or left out; and the cursor never exceeds `cursor_max` |
| `HighlightIsInSight` | arithmetic of rows, scroll position and lines, with `ScreenInv` and the scroll margin of six or more: moving down in a list of its first length (`DownKeepsSight`) and moving up in any (`UpKeepsSight`) keep an entry in sight, moving up from elsewhere lowers the sum of cursor and scroll position (`UpStep`), and all other steps but a refresh leave the tab, the lines and both positions (`StayStep`) |
| `AutoTuneMends` | by induction over the list: toggling what is bad gives its files the wanted content, which is judged good for each kind (`BadGetsWanted`), makes or removes no file, and spoils no other tunable, as those that share a file want the same (`TargetAssumption`; `tuning.cpp:76-77` are two paths to one preference) |

### Device measurements

`DeviceMeasurement_proofs`, for any devices, any values of the counters, any range of the energy counter, any
number of measurements, ticks and losses, from `UnitsAssumption`, `PackagesAssumption`, `BoundsAssumption`,
`ContentsAssumption`, `FrameworkAssumption`, `EnergyRangeAssumption` and `TicksAssumption`:

| Theorem | Argument |
| --- | --- |
| `ChargedOnce` | `BaseOK` says what the machine looks like (each counter a number, each level one of its values, `MachineOK`), that time and counters only grow while they are kept, and what each phase leaves. `ChargeOK` splits what was used since powertop looked at the device into what is charged, what the fields of the device still hold and what has been counted since they were last written (`RaplOK`, `NicOK`, `XeOK`). A wrap subtracts no more than it should because a remainder never exceeds what it is the remainder of (`Wraps`); a reset puts the counter below what was last read, which a card does not take for traffic; a read within the second of the last leaves everything as it is. |
| `ShownTruly` | Of the recording (`RecordOK`), `HeldOK`: from the start of a measurement to its end the fields of the device are what the machine was when the measurement began, and the counters that are still there are that plus what was spent, for each class of device (`StartHeld`, `HeldTick`). From that the end computes what happened, class by class: a mean of levels is rounded as the code does (`DivCancel`, `DivProduct`), a percentage stays within its range (`PercentRange`), the difference of two remainders is what was added less the range for each wrap (`WrapsShow`), a table of frequencies keeps one line for each (`StatesAtStart`, `StatesAtEnd`), a speed falls into one class (`SpeedClasses`); `Told` puts them together and `TruthsOK` keeps it for the last measurement. Of the replay, the argument is below |

A replay does not see the machine, and what it shows does not follow from its own state: `ReplayOK` says
that it follows its recording. Two facts make it so. What a handler reads and what it makes of the device
depends only on the device, its state and what is read (`ReadsBy`, `After`; `HandlerAgrees`, `HandlerStep`);
that includes how often it reads each key when a later read depends on an earlier one, as in
`usb.cpp` or for RAPL's domains. And a recording is the log of its handlers (`LoggedOK`): the states they led to,
what each read, and for each key the positions of its records between which that lies (`Entry`, `ReadFrom`,
`LogGrows`); each that ended a measurement shows its truth (`ToldBy`). A replay that has run the
first p handlers of the log is in the state they led to, and what is left to be served is the rest of the
records (`Left`). So the next handler reads what was read there and finds all of it (`ReadsReplayed`,
`ReplayGoes`), never throws (`ReplayServed`, `NoStop`), and leads to the next state of the log (`ReplayHandler`). The log is
not state of the model but a witness: `LoggedOK` and `ReplayOK` say that there is one, so that TLC cannot evaluate
them; it checks what follows, `ShowsWhatHappened`, in `device_measurement`.

### Only model-checked

- `ProcessEnds` and `MeasurementEnds`: liveness and `ENABLED` are out of the prover's reach;
- all three counterexamples are TLC's.

## Not modelled

- the descent of `learn.cpp` and all arithmetic of doubles: usage, Watts, the order of lists;
- devices charged by operations in the trace (`i915-gpu.cpp`, a graphics card without energy channels) and what
  process power is left for the "misc" entries of the CPU;
- OPAL sensors; the ACPI meter, which nothing creates; the serial protocol of the Extech;
- report formatters, HTML, CSV and Markdown: text without state of its own;
- sideways scrolling, and the tabs without a cursor but for their length;
- numeric tunables with a wildcard (a panel setting of AMD), `ethernet_tunable`, which nothing adds, the dump mode of
  `--auto-tune`;
- the netlink protocol behind a wireless card's power saving, translation, command line, PCI names.
