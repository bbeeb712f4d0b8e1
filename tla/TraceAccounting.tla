--------------------------- MODULE TraceAccounting ---------------------------
(***************************************************************************)
(* The accounting that powertop derives from the kernel's trace records    *)
(* (src/src/process/do_process.cpp, with process.cpp, interrupt.cpp,       *)
(* timer.cpp and work.cpp).  After a measurement the recorded events of    *)
(* all CPUs are handled one by one in time order.  For each CPU the code   *)
(* keeps a stack of the consumers that are executing there, the consumer   *)
(* to blame for the next wakeup, and a credit that says whether a wakeup   *)
(* is still to be charged; for each consumer it accumulates run time, the  *)
(* time of what ran on top of it, wakeups and device operations.           *)
(*                                                                         *)
(* Every tracepoint of every CPU has a ring buffer of its own that drops   *)
(* what no longer fits, so the records are a lossy view of what the kernel *)
(* did: Next admits any record at any moment, subject only to the order of *)
(* time stamps that perf_bundle::process establishes by sorting.           *)
(*                                                                         *)
(* Operators marked "mutant" are deliberate mistakes in the definition     *)
(* they precede.  Nothing uses them; the properties at the end find them.  *)
(***************************************************************************)
EXTENDS Integers, Sequences, FiniteSets, Functions

CONSTANTS
  CPUs,
  Processes,       \* objects of class process: one for each (pid, comm)
  Idle,            \* those with pid 0
  XServers,        \* comm_is_xorg(comm)
  DontBlame,       \* dont_blame_me(comm)
  KernelThreads,   \* comm starts with migration/, kworker/ or kondemand/
  HardIrqs,        \* handler names of device interrupts
  TimerNamed,      \* those whose name contains "timer"
  TickHandler,     \* the one named exactly "timer": an object for each CPU
  SoftIrqs,        \* the ten vectors of softirqs[]
  Timers,          \* objects of class timer: one for each callback function
  Deferred,        \* those /proc/timer_stats marks as deferred
  DelayedWork,     \* handler = "delayed_work_timer_fn"
  Works,           \* objects of class work: one for each work function
  QuietWorks,      \* handler is do_dbs_timer or vmstat_update
  TimerStructs,    \* addresses of struct timer_list and struct hrtimer
  WorkStructs,     \* addresses of struct work_struct
  HardGap,         \* one second: a dirty inode later than that spins up a disk
  MaxStamp,        \* bound: the largest time stamp
  MaxRecords,      \* bound: records handled in one measurement
  NULL

TickObjects == {<<TickHandler, cpu>> : cpu \in CPUs}
Interrupts  == (HardIrqs \ {TickHandler}) \cup TickObjects \cup SoftIrqs
Consumers   == Processes \cup Interrupts \cup Timers \cup Works

ASSUME SubsetsAssumption ==
  /\ Idle \subseteq Processes
  /\ XServers \subseteq DontBlame
  /\ DontBlame \subseteq Processes
  /\ KernelThreads \subseteq Processes
  /\ TimerNamed \subseteq HardIrqs
  /\ Deferred \subseteq Timers

ASSUME KindsAssumption ==
  /\ Processes \cap (Interrupts \cup Timers \cup Works) = {}
  /\ Interrupts \cap (Timers \cup Works) = {}
  /\ Timers \cap Works = {}
  /\ NULL \notin Consumers

ASSUME FiniteAssumption == IsFiniteSet(CPUs) /\ IsFiniteSet(Consumers)

ASSUME BoundsAssumption ==
  /\ HardGap \in Nat
  /\ MaxStamp \in Nat \ {0}
  /\ MaxRecords \in Nat

LEVEL_HARDIRQ == 1
LEVEL_SOFTIRQ == 2
LEVEL_TIMER   == 3
LEVEL_PROCESS == 5
LEVEL_WORK    == 6
Levels        == {0, LEVEL_HARDIRQ, LEVEL_SOFTIRQ, LEVEL_TIMER, LEVEL_PROCESS, LEVEL_WORK}

NoStamp == MaxStamp + 1   \* ~0ULL: above every stamp
-----------------------------------------------------------------------------
VARIABLES
  phase,                \* where one_measurement() is: see Phases
  handled,              \* records handled so far
  objects,              \* the consumer objects that exist
  cpu_stack,            \* what executes on each CPU, innermost last
  cpu_level, cpu_credit, cpu_blame,
  first_stamp, last_stamp, prev_disk_time,
  accumulated_runtime, child_runtime,
  wake_ups, xwakes, gpu_ops, disk_hits, hard_disk_hits,
  running, running_since, waker, last_waker,   \* of a process
  irq_since,            \* interrupt::running_since
  timer_since,          \* running_since of timer.cpp, keyed by the struct's address
  work_since            \* running_since of work.cpp, likewise

blameVars  == <<cpu_level, cpu_credit, cpu_blame, wake_ups>>
timeVars   == <<accumulated_runtime, child_runtime>>
opVars     == <<xwakes, gpu_ops, disk_hits, hard_disk_hits, prev_disk_time>>
runVars    == <<running, running_since>>
wakerVars  == <<waker, last_waker>>
sinceVars  == <<irq_since, timer_since, work_since>>
recordVars == <<phase, handled, first_stamp, last_stamp>>
vars == <<recordVars, objects, cpu_stack, blameVars, timeVars, opVars,
          runVars, wakerVars, sinceVars>>

Phases == {"idle", "measuring", "processing"}
Unset  == 0     \* running_since before the first start; a key a map does not hold

\* The state of no object and of an object its constructor has just made.
NoCounts == [c \in Consumers |-> 0]
NoWaker  == [p \in Processes |-> NULL]

TypeOK ==
  /\ phase \in Phases
  /\ handled \in 0..MaxRecords
  /\ objects \subseteq Consumers
  /\ cpu_stack \in [CPUs -> Seq(Consumers)]
  /\ cpu_level \in [CPUs -> Levels]
  /\ cpu_credit \in [CPUs -> {0, 1}]
  /\ cpu_blame \in [CPUs -> Consumers \cup {NULL}]
  /\ first_stamp \in 1..NoStamp
  /\ last_stamp \in 0..MaxStamp
  /\ prev_disk_time \in 0..MaxStamp
  /\ accumulated_runtime \in [Consumers -> Nat]
  /\ child_runtime \in [Consumers -> Nat]
  /\ wake_ups \in [Consumers -> Nat]
  /\ xwakes \in [Consumers -> Nat]
  /\ gpu_ops \in [Consumers -> Nat]
  /\ disk_hits \in [Consumers -> Nat]
  /\ hard_disk_hits \in [Consumers -> Nat]
  /\ running \in [Processes -> {0, 1}]
  /\ running_since \in [Processes -> 0..MaxStamp]
  /\ waker \in [Processes -> Processes \cup {NULL}]
  /\ last_waker \in [Processes -> Processes \cup {NULL}]
  /\ irq_since \in [Interrupts -> 0..MaxStamp]
  /\ timer_since \in [TimerStructs -> 0..MaxStamp]
  /\ work_since \in [WorkStructs -> 0..MaxStamp]
-----------------------------------------------------------------------------
(***************************************************************************)
(* The stack and blame helpers.                                            *)
(***************************************************************************)
current_consumer(cpu) ==
  IF cpu_stack[cpu] = <<>> THEN NULL ELSE cpu_stack[cpu][Len(cpu_stack[cpu])]

Popped(cpu) == SubSeq(cpu_stack[cpu], 1, Len(cpu_stack[cpu]) - 1)

push_consumer(cpu, consumer) ==
  cpu_stack' = [cpu_stack EXCEPT ![cpu] = Append(@, consumer)]

pop_consumer(cpu) == cpu_stack' = [cpu_stack EXCEPT ![cpu] = Popped(cpu)]

\* consumer_child_time after the pop: every entry left on the stack, once for
\* each place it has there.
PlacesBelow_FromOne(cpu, c) == {i \in DOMAIN Popped(cpu) \ {1} : Popped(cpu)[i] = c}   \* mutant

PlacesBelow(cpu, c) == {i \in DOMAIN Popped(cpu) : Popped(cpu)[i] = c}

consumer_child_time(cpu, delta) ==
  child_runtime' =
    [c \in Consumers |-> child_runtime[c] + delta * Cardinality(PlacesBelow(cpu, c))]

\* change_blame: a consumer displaces the one to blame only at a higher level.
Outranked_OrEqual(cpu, level) == cpu_level[cpu] <= level   \* mutant

Outranked(cpu, level) == cpu_level[cpu] < level

change_blame(cpu, consumer, level) ==
  /\ cpu_blame' = IF Outranked(cpu, level) THEN [cpu_blame EXCEPT ![cpu] = consumer] ELSE cpu_blame
  /\ cpu_level' = IF Outranked(cpu, level) THEN [cpu_level EXCEPT ![cpu] = level] ELSE cpu_level
  /\ UNCHANGED <<cpu_credit, wake_ups>>

Charge_KeepsLevel(cpu, blamed) ==   \* mutant
  /\ wake_ups' = [wake_ups EXCEPT ![blamed] = @ + 1]
  /\ cpu_blame' = [cpu_blame EXCEPT ![cpu] = NULL]
  /\ cpu_credit' = [cpu_credit EXCEPT ![cpu] = 0]
  /\ UNCHANGED cpu_level

Charge_KeepsCredit(cpu, blamed) ==   \* mutant
  /\ wake_ups' = [wake_ups EXCEPT ![blamed] = @ + 1]
  /\ cpu_blame' = [cpu_blame EXCEPT ![cpu] = NULL]
  /\ cpu_level' = [cpu_level EXCEPT ![cpu] = 0]
  /\ UNCHANGED cpu_credit

Charge(cpu, blamed) ==
  /\ wake_ups' = [wake_ups EXCEPT ![blamed] = @ + 1]
  /\ cpu_blame' = [cpu_blame EXCEPT ![cpu] = NULL]
  /\ cpu_level' = [cpu_level EXCEPT ![cpu] = 0]
  /\ cpu_credit' = [cpu_credit EXCEPT ![cpu] = 0]

\* consume_blame when `blamed` at `level` is the one to blame: without a credit
\* or somebody to blame, both wait for a later call.
consume_blame(cpu, blamed, level) ==
  IF cpu_credit[cpu] = 1 /\ blamed # NULL
  THEN Charge(cpu, blamed)
  ELSE /\ cpu_blame' = [cpu_blame EXCEPT ![cpu] = blamed]
       /\ cpu_level' = [cpu_level EXCEPT ![cpu] = level]
       /\ UNCHANGED <<cpu_credit, wake_ups>>
-----------------------------------------------------------------------------
(***************************************************************************)
(* What handle_trace_point does with every record before it looks at the   *)
(* record's type.  perf_bundle::process hands records over in time order.  *)
(***************************************************************************)
InOrder_Unsorted(time) == TRUE   \* mutant

InOrder(time) == time >= last_stamp

Record(time) ==
  /\ phase = "processing"
  /\ handled < MaxRecords
  /\ InOrder(time)
  /\ handled' = handled + 1
  /\ first_stamp' = IF time < first_stamp THEN time ELSE first_stamp
  /\ last_stamp' = IF time > last_stamp THEN time ELSE last_stamp
  /\ UNCHANGED phase

\* A record of another type, or one a field of which cannot be read.
OtherRecord(time) ==
  /\ Record(time)
  /\ UNCHANGED <<objects, cpu_stack, blameVars, timeVars, opVars, runVars, wakerVars, sinceVars>>

(***************************************************************************)
(* sched_switch: the process at the bottom of the stack is retired with    *)
(* everything above it, and the next one becomes the whole stack.          *)
(***************************************************************************)
Bottom(cpu) == IF cpu_stack[cpu] = <<>> THEN NULL ELSE cpu_stack[cpu][1]

OldProcess(cpu) == IF Bottom(cpu) \in Processes THEN Bottom(cpu) ELSE NULL

\* deschedule_thread stops early when the thread was never started and when
\* its start lies in the future.
Retired(old, time) ==
  /\ old # NULL
  /\ running_since[old] # Unset
  /\ time >= running_since[old]

RunningSince_SetOnce(old, next, time) ==   \* mutant
  [p \in Processes |-> IF p = next /\ running_since[p] = Unset THEN time ELSE running_since[p]]

RunningSince(old, next, time) ==
  [p \in Processes |-> IF p = next THEN time
                       ELSE IF p = old /\ time < running_since[p] THEN Unset
                       ELSE running_since[p]]

WakersKept_NextToo(old, next) ==   \* mutant
  [p \in Processes |-> IF p = old THEN NULL ELSE waker[p]]

WakersKept(old, next) ==
  [p \in Processes |-> IF p \in {old, next} THEN NULL ELSE waker[p]]

RetireAndStart(old, prevIsIdle, next, time) ==
  /\ accumulated_runtime' =
       IF Retired(old, time) /\ ~prevIsIdle
       THEN [accumulated_runtime EXCEPT ![old] = @ + (time - running_since[old])]
       ELSE accumulated_runtime
  /\ running' = [p \in Processes |->
       IF p = next THEN 1 ELSE IF p = old /\ Retired(old, time) THEN 0 ELSE running[p]]
  /\ running_since' = RunningSince(old, next, time)
  /\ waker' = WakersKept(old, next)

\* Whom the switch puts forward: nobody for the idle thread, else the process
\* that woke the next one up, else the next one itself.
Candidate(old, next) ==
  CASE next \in Idle -> NULL
    [] next \notin Idle /\ next # old /\ waker[next] # NULL -> waker[next]
    [] OTHER -> next

BlameSwitch(cpu, candidate) ==
  IF candidate # NULL /\ Outranked(cpu, LEVEL_PROCESS)
  THEN consume_blame(cpu, candidate, LEVEL_PROCESS)
  ELSE consume_blame(cpu, cpu_blame[cpu], cpu_level[cpu])

SwitchedStack_PopsOne(cpu, next) == Append(Popped(cpu), next)   \* mutant

SwitchedStack(cpu, next) == <<next>>

SchedSwitch(cpu, time, prevIsIdle, next) ==
  LET old == OldProcess(cpu) IN
  /\ Record(time)
  /\ objects' = objects \cup {next}
  /\ RetireAndStart(old, prevIsIdle, next, time)
  /\ cpu_stack' = [cpu_stack EXCEPT ![cpu] = SwitchedStack(cpu, next)]
  /\ IF next \in KernelThreads THEN UNCHANGED blameVars ELSE BlameSwitch(cpu, Candidate(old, next))
  /\ UNCHANGED <<child_runtime, opVars, last_waker, sinceVars>>

(***************************************************************************)
(* sched_wakeup: remember who woke a sleeping process up.  A wakeup from   *)
(* interrupt context has no waker: the timer that the code picks up there  *)
(* is dropped again because it is not a process.                           *)
(***************************************************************************)
WakeupSource(cpu, inIrq) ==
  IF ~inIrq /\ current_consumer(cpu) \in Processes THEN current_consumer(cpu) ELSE NULL

BecomesWaker_Anyone(from, dest) ==   \* mutant
  from # NULL /\ running[dest] = 0 /\ waker[dest] = NULL /\ dest \notin Idle

BecomesWaker(from, dest) ==
  /\ from # NULL /\ from \notin DontBlame
  /\ running[dest] = 0 /\ waker[dest] = NULL /\ dest \notin Idle

SchedWakeup(cpu, time, inIrq, dest) ==
  LET from == WakeupSource(cpu, inIrq) IN
  /\ Record(time)
  /\ objects' = objects \cup {dest}
  /\ waker' = IF BecomesWaker(from, dest) THEN [waker EXCEPT ![dest] = from] ELSE waker
  /\ last_waker' = IF from # NULL THEN [last_waker EXCEPT ![dest] = from] ELSE last_waker
  /\ xwakes' = IF from # NULL /\ dest \in XServers
               THEN [xwakes EXCEPT ![from] = @ + 1] ELSE xwakes
  /\ UNCHANGED <<cpu_stack, blameVars, timeVars, gpu_ops, disk_hits, hard_disk_hits,
                 prev_disk_time, runVars, sinceVars>>

(***************************************************************************)
(* Interrupts: hard ones carry a name, soft ones a vector.                 *)
(***************************************************************************)
find_create_interrupt(handler, cpu) ==
  IF handler = TickHandler THEN <<TickHandler, cpu>> ELSE handler

StartInterrupt(cpu, time, irq) ==
  /\ Record(time)
  /\ objects' = objects \cup {irq}
  /\ push_consumer(cpu, irq)
  /\ irq_since' = [irq_since EXCEPT ![irq] = time]
  /\ UNCHANGED <<timeVars, opVars, runVars, wakerVars, timer_since, work_since>>

IrqHandlerEntry(cpu, time, handler) ==
  LET irq == find_create_interrupt(handler, cpu) IN
  /\ StartInterrupt(cpu, time, irq)
  /\ IF handler \in TimerNamed
     THEN UNCHANGED blameVars ELSE change_blame(cpu, irq, LEVEL_HARDIRQ)

SoftirqEntry(cpu, time, vec) ==
  /\ StartInterrupt(cpu, time, vec)
  /\ change_blame(cpu, vec, LEVEL_SOFTIRQ)

\* irq_handler_exit and softirq_exit: whatever interrupt is on top ends.
EndInterrupt(cpu, time) ==
  LET irq == current_consumer(cpu)
      delta == time - irq_since[irq]
  IN
  /\ Record(time)
  /\ irq \in Interrupts
  /\ pop_consumer(cpu)
  /\ accumulated_runtime' = [accumulated_runtime EXCEPT ![irq] = @ + delta]
  /\ consumer_child_time(cpu, delta)
  /\ UNCHANGED <<objects, blameVars, opVars, runVars, wakerVars, sinceVars>>

InterruptExit(cpu, time) ==
  \/ EndInterrupt(cpu, time)
  \/ current_consumer(cpu) \notin Interrupts /\ OtherRecord(time)

(***************************************************************************)
(* Timers: timer_expire_* and hrtimer_expire_*.  The start is remembered   *)
(* for the timer's structure, the time charged to its callback.            *)
(***************************************************************************)
StartedAt_Insert(since, struct, time) ==   \* mutant: map::insert keeps what is there
  [since EXCEPT ![struct] = IF @ = Unset THEN time ELSE @]

StartedAt(since, struct, time) == [since EXCEPT ![struct] = time]

FireTimer(cpu, time, timer, struct) ==
  /\ Record(time)
  /\ objects' = objects \cup {timer}
  /\ push_consumer(cpu, timer)
  /\ timer_since' = StartedAt(timer_since, struct, time)
  /\ IF timer \in DelayedWork
     THEN UNCHANGED blameVars ELSE change_blame(cpu, timer, LEVEL_TIMER)
  /\ UNCHANGED <<timeVars, opVars, runVars, wakerVars, irq_since, work_since>>

\* The object of a deferred timer is made, then the record is dropped.
SkipDeferred(time, timer) ==
  /\ Record(time)
  /\ objects' = objects \cup {timer}
  /\ UNCHANGED <<cpu_stack, blameVars, timeVars, opVars, runVars, wakerVars, sinceVars>>

TimerExpireEntry_TakesAll(cpu, time, timer, struct) ==   \* mutant
  FireTimer(cpu, time, timer, struct)

TimerExpireEntry(cpu, time, timer, struct) ==
  \/ timer \notin Deferred /\ FireTimer(cpu, time, timer, struct)
  \/ timer \in Deferred /\ SkipDeferred(time, timer)

HrtimerExpireEntry(cpu, time, timer, struct) == FireTimer(cpu, time, timer, struct)

\* The start of what is being retired: when the entry was not seen, it is taken
\* to have begun with the measurement.
StartOf(since, struct) == IF since[struct] = Unset THEN first_stamp' ELSE since[struct]

Elapsed_Reversed(start, time) == IF start > time THEN 0 ELSE start - time   \* mutant

Elapsed(start, time) == IF start > time THEN 0 ELSE time - start

DoneTimer(cpu, time, struct) ==
  LET timer == current_consumer(cpu)
      start == StartOf(timer_since, struct)
  IN
  /\ Record(time)
  /\ timer \in Timers
  /\ pop_consumer(cpu)
  /\ timer_since' = [timer_since EXCEPT ![struct] = start]
  /\ accumulated_runtime' = [accumulated_runtime EXCEPT ![timer] = @ + Elapsed(start, time)]
  /\ consumer_child_time(cpu, Elapsed(start, time))
  /\ UNCHANGED <<objects, blameVars, opVars, runVars, wakerVars, irq_since, work_since>>

TimerExpireExit(cpu, time, struct) ==
  \/ DoneTimer(cpu, time, struct)
  \/ current_consumer(cpu) \notin Timers /\ OtherRecord(time)

(***************************************************************************)
(* Workqueue items, in the same way.                                       *)
(***************************************************************************)
WorkqueueExecuteStart(cpu, time, work, struct) ==
  /\ Record(time)
  /\ objects' = objects \cup {work}
  /\ push_consumer(cpu, work)
  /\ work_since' = StartedAt(work_since, struct, time)
  /\ IF work \in QuietWorks
     THEN UNCHANGED blameVars ELSE change_blame(cpu, work, LEVEL_WORK)
  /\ UNCHANGED <<timeVars, opVars, runVars, wakerVars, irq_since, timer_since>>

DoneWork(cpu, time, struct) ==
  LET work  == current_consumer(cpu)
      start == StartOf(work_since, struct)
  IN
  /\ Record(time)
  /\ work \in Works
  /\ pop_consumer(cpu)
  /\ work_since' = [work_since EXCEPT ![struct] = start]
  /\ accumulated_runtime' = [accumulated_runtime EXCEPT ![work] = @ + Elapsed(start, time)]
  /\ consumer_child_time(cpu, Elapsed(start, time))
  /\ UNCHANGED <<objects, blameVars, opVars, runVars, wakerVars, irq_since, timer_since>>

WorkqueueExecuteEnd(cpu, time, struct) ==
  \/ DoneWork(cpu, time, struct)
  \/ current_consumer(cpu) \notin Works /\ OtherRecord(time)

(***************************************************************************)
(* cpu_idle, or power_start and power_end on kernels without it: a CPU     *)
(* that goes idle is owed a wakeup, one that leaves idle charges it.       *)
(***************************************************************************)
EnterIdle(cpu, time) ==
  /\ Record(time)
  /\ cpu_credit' = [cpu_credit EXCEPT ![cpu] = 1]
  /\ UNCHANGED <<objects, cpu_stack, cpu_level, cpu_blame, wake_ups, timeVars, opVars,
                 runVars, wakerVars, sinceVars>>

ExitIdle(cpu, time) ==
  /\ Record(time)
  /\ consume_blame(cpu, cpu_blame[cpu], cpu_level[cpu])
  /\ UNCHANGED <<objects, cpu_stack, timeVars, opVars, runVars, wakerVars, sinceVars>>

(***************************************************************************)
(* A graphics job (i915 or xe): what X submits is counted for the process  *)
(* that woke it up last.                                                   *)
(***************************************************************************)
GpuConsumer(cpu) ==
  LET consumer == current_consumer(cpu) IN
  IF consumer \in XServers /\ last_waker[consumer] # NULL THEN last_waker[consumer] ELSE consumer

GpuSubmit(cpu, time, inIrq) ==
  /\ Record(time)
  /\ gpu_ops' = IF ~inIrq /\ GpuConsumer(cpu) # NULL
                THEN [gpu_ops EXCEPT ![GpuConsumer(cpu)] = @ + 1] ELSE gpu_ops
  /\ UNCHANGED <<objects, cpu_stack, blameVars, timeVars, xwakes, disk_hits, hard_disk_hits,
                 prev_disk_time, runVars, wakerVars, sinceVars>>

\* writeback_inode_dirty of a real device by a process.
IsHardHit_AtGap(time) == time - prev_disk_time >= HardGap   \* mutant

IsHardHit(time) == time - prev_disk_time > HardGap

DirtyInode(cpu, time) ==
  LET consumer == current_consumer(cpu) IN
  /\ Record(time)
  /\ consumer \in Processes
  /\ disk_hits' = [disk_hits EXCEPT ![consumer] = @ + 1]
  /\ hard_disk_hits' = IF IsHardHit(time)
                       THEN [hard_disk_hits EXCEPT ![consumer] = @ + 1] ELSE hard_disk_hits
  /\ prev_disk_time' = time
  /\ UNCHANGED <<objects, cpu_stack, blameVars, timeVars, xwakes, gpu_ops, runVars, wakerVars,
                 sinceVars>>

WritebackInodeDirty(cpu, time) ==
  \/ DirtyInode(cpu, time)
  \/ current_consumer(cpu) \notin Processes /\ OtherRecord(time)
-----------------------------------------------------------------------------
(***************************************************************************)
(* One measurement: start_process_measurement, the collection of records,  *)
(* process_process_data around the records, end_process_data.              *)
(***************************************************************************)
StartMeasurement ==
  /\ phase = "idle"
  /\ phase' = "measuring"
  /\ first_stamp' = NoStamp
  /\ last_stamp' = 0
  /\ prev_disk_time' = 0
  /\ UNCHANGED <<handled, objects, cpu_stack, blameVars, timeVars, xwakes, gpu_ops, disk_hits,
                 hard_disk_hits, runVars, wakerVars, sinceVars>>

\* A deleted object takes its fields with it.
Cleared(f, gone) == [c \in DOMAIN f |-> IF c \in gone THEN 0 ELSE f[c]]

Delete(gone) ==
  /\ objects' = objects \ gone
  /\ accumulated_runtime' = Cleared(accumulated_runtime, gone)
  /\ child_runtime' = Cleared(child_runtime, gone)
  /\ wake_ups' = Cleared(wake_ups, gone)
  /\ xwakes' = Cleared(xwakes, gone)
  /\ gpu_ops' = Cleared(gpu_ops, gone)
  /\ disk_hits' = Cleared(disk_hits, gone)
  /\ hard_disk_hits' = Cleared(hard_disk_hits, gone)
  /\ running' = Cleared(running, gone)
  /\ running_since' = Cleared(running_since, gone)
  /\ waker' = [p \in Processes |-> IF p \in gone THEN NULL ELSE waker[p]]
  /\ last_waker' = [p \in Processes |-> IF p \in gone THEN NULL ELSE last_waker[p]]
  /\ irq_since' = Cleared(irq_since, gone)

ResetBlame_CreditOnly ==   \* mutant
  /\ cpu_credit' = [cpu \in CPUs |-> 0]
  /\ UNCHANGED <<cpu_level, cpu_blame>>

ResetBlame ==
  /\ cpu_credit' = [cpu \in CPUs |-> 0]
  /\ cpu_level' = [cpu \in CPUs |-> 0]
  /\ cpu_blame' = [cpu \in CPUs |-> NULL]

\* process_process_data up to its loop over the records: processes, interrupts,
\* stacks, credits, levels and blames start afresh, timers and work do not.
BeginProcessing ==
  /\ phase = "measuring"
  /\ phase' = "processing"
  /\ handled' = 0
  /\ Delete(Processes \cup Interrupts)
  /\ cpu_stack' = [cpu \in CPUs |-> <<>>]
  /\ ResetBlame
  /\ UNCHANGED <<first_stamp, last_stamp, prev_disk_time, timer_since, work_since>>

\* clear_timers and clear_work empty the maps of starts, too.
ClearStarts_WorkOnly ==   \* mutant
  /\ work_since' = [struct \in WorkStructs |-> Unset]
  /\ UNCHANGED timer_since

ClearStarts ==
  /\ timer_since' = [struct \in TimerStructs |-> Unset]
  /\ work_since' = [struct \in WorkStructs |-> Unset]

\* end_process_data: every object goes; level, credit and blame stay as they are.
EndProcessData ==
  /\ phase = "processing"
  /\ phase' = "idle"
  /\ Delete(Consumers)
  /\ ClearStarts
  /\ cpu_stack' = [cpu \in CPUs |-> <<>>]
  /\ UNCHANGED <<handled, first_stamp, last_stamp, prev_disk_time, cpu_credit, cpu_level, cpu_blame>>
-----------------------------------------------------------------------------
Init ==
  /\ phase = "idle"
  /\ handled = 0
  /\ objects = {}
  /\ cpu_stack = [cpu \in CPUs |-> <<>>]
  /\ cpu_level = [cpu \in CPUs |-> 0]
  /\ cpu_credit = [cpu \in CPUs |-> 0]
  /\ cpu_blame = [cpu \in CPUs |-> NULL]
  /\ first_stamp = NoStamp
  /\ last_stamp = 0
  /\ prev_disk_time = 0
  /\ accumulated_runtime = NoCounts
  /\ child_runtime = NoCounts
  /\ wake_ups = NoCounts
  /\ xwakes = NoCounts
  /\ gpu_ops = NoCounts
  /\ disk_hits = NoCounts
  /\ hard_disk_hits = NoCounts
  /\ running = [p \in Processes |-> 0]
  /\ running_since = [p \in Processes |-> Unset]
  /\ waker = NoWaker
  /\ last_waker = NoWaker
  /\ irq_since = [irq \in Interrupts |-> Unset]
  /\ timer_since = [struct \in TimerStructs |-> Unset]
  /\ work_since = [struct \in WorkStructs |-> Unset]

Stamps == 1..MaxStamp

HandleTracePoint(cpu, time) ==
  \/ OtherRecord(time)
  \/ \E prevIsIdle \in BOOLEAN, next \in Processes : SchedSwitch(cpu, time, prevIsIdle, next)
  \/ \E inIrq \in BOOLEAN, dest \in Processes : SchedWakeup(cpu, time, inIrq, dest)
  \/ \E handler \in HardIrqs : IrqHandlerEntry(cpu, time, handler)
  \/ \E vec \in SoftIrqs : SoftirqEntry(cpu, time, vec)
  \/ InterruptExit(cpu, time)
  \/ \E timer \in Timers, struct \in TimerStructs : TimerExpireEntry(cpu, time, timer, struct)
  \/ \E timer \in Timers, struct \in TimerStructs : HrtimerExpireEntry(cpu, time, timer, struct)
  \/ \E struct \in TimerStructs : TimerExpireExit(cpu, time, struct)
  \/ \E work \in Works, struct \in WorkStructs : WorkqueueExecuteStart(cpu, time, work, struct)
  \/ \E struct \in WorkStructs : WorkqueueExecuteEnd(cpu, time, struct)
  \/ EnterIdle(cpu, time)
  \/ ExitIdle(cpu, time)
  \/ \E inIrq \in BOOLEAN : GpuSubmit(cpu, time, inIrq)
  \/ WritebackInodeDirty(cpu, time)

Next ==
  \/ StartMeasurement
  \/ BeginProcessing
  \/ \E cpu \in CPUs, time \in Stamps : HandleTracePoint(cpu, time)
  \/ EndProcessData

Spec == Init /\ [][Next]_vars
-----------------------------------------------------------------------------
(***************************************************************************)
(* Properties.                                                             *)
(***************************************************************************)

\* While records are handled, no stack, blame or waker pointer refers to a
\* consumer that an earlier measurement deleted (process_process_data resets
\* them before perf_events->process()).
NoDanglingConsumer ==
  phase = "processing" =>
    /\ \A cpu \in CPUs : /\ \A i \in DOMAIN cpu_stack[cpu] : cpu_stack[cpu][i] \in objects
                         /\ cpu_blame[cpu] \in objects \cup {NULL}
    /\ \A p \in Processes : {waker[p], last_waker[p]} \subseteq objects \cup {NULL}

\* No start lies after the last record, and none is left over when a measurement
\* begins, which sets the last stamp back to 0: with the order of the records this
\* is what makes the unchecked unsigned subtraction of end_interrupt safe.
StartsInPast ==
  /\ \A p \in Processes : running_since[p] <= last_stamp
  /\ \A irq \in Interrupts : irq_since[irq] <= last_stamp
  /\ \A struct \in TimerStructs : timer_since[struct] <= last_stamp
  /\ \A struct \in WorkStructs : work_since[struct] <= last_stamp
  /\ phase # "processing" =>
       /\ \A p \in Processes : running_since[p] = Unset
       /\ \A irq \in Interrupts : irq_since[irq] = Unset
       /\ \A struct \in TimerStructs : timer_since[struct] = Unset
       /\ \A struct \in WorkStructs : work_since[struct] = Unset

\* A CPU has somebody to blame exactly when it has a blame level: a level left
\* behind would shut out every later candidate (change_blame, consume_blame).
BlameHasLevel == \A cpu \in CPUs : cpu_level[cpu] = 0 <=> cpu_blame[cpu] = NULL

\* Whatever records are lost, a process is only ever the lowest entry of a
\* stack, which is what entitles sched_switch to retire the entry it finds there.
ProcessAtBottom ==
  \A cpu \in CPUs : \A i \in 2..Len(cpu_stack[cpu]) : cpu_stack[cpu][i] \notin Processes

\* A process marked as running is at the bottom of some CPU's stack: no process
\* is left running by a switch that returned early (deschedule_thread).
RunningIsOnCpu ==
  \A p \in Processes : running[p] = 1 => \E cpu \in CPUs : Bottom(cpu) = p

\* Only a process that is not running has a waker, and the X server, D-Bus and
\* interrupts are never one: the guards of sched_wakeup and the resets of
\* sched_switch together.
WakerOfSleepers ==
  \A p \in Processes : waker[p] # NULL => running[p] = 0 /\ waker[p] \notin DontBlame

\* A wakeup is charged once for each idle period: to one consumer, by the CPU
\* whose credit it uses up, and only if that CPU went idle since the last one.
WakeupPaidByIdle ==
  [][\A c \in Consumers : wake_ups'[c] > wake_ups[c] =>
       /\ wake_ups' = [wake_ups EXCEPT ![c] = @ + 1]
       /\ \E cpu \in CPUs : /\ cpu_credit[cpu] = 1
                            /\ cpu_credit' = [cpu_credit EXCEPT ![cpu] = 0]]_vars

\* The one to blame is replaced only by a consumer of a higher level or by being
\* charged; nothing else, and no other CPU's record, drops it (until the next
\* process_process_data).
BlameKept ==
  [][\A cpu \in CPUs : (cpu_blame[cpu] \notin {NULL, cpu_blame'[cpu]} /\ phase' = phase) =>
       \/ cpu_level'[cpu] > cpu_level[cpu]
       \/ cpu_level'[cpu] = 0 /\ cpu_credit[cpu] = 1 /\ cpu_credit'[cpu] = 0]_vars

\* A process on the dont_blame_me list is blamed for its own switch only, never
\* for a process it woke up.
DontBlameHonoured ==
  [][\A cpu \in CPUs :
       cpu_blame'[cpu] \in DontBlame \ {cpu_blame[cpu]} => cpu_stack'[cpu] = <<cpu_blame'[cpu]>>]_vars

\* Hard disk hits are more than a second apart, over all processes and CPUs: a
\* measurement holds no more of them than such gaps fit before its last stamp.
HardHitsSpaced ==
  FoldFunction(+, 0, hard_disk_hits) * (HardGap + 1) <= prev_disk_time
=============================================================================
