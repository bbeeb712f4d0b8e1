--------------------------- MODULE TraceTruth_proofs ---------------------------
(***************************************************************************)
(* Proofs about TraceAccounting and TraceTruth, for every set of consumers *)
(* and CPUs and every bound.  First what the handlers guarantee whatever   *)
(* records the kernel's ring buffers dropped, and type correctness.  Then, *)
(* with no record lost, that the stacks are the kernel's, that nobody is   *)
(* charged more time than it executed, and that what ran on top of a       *)
(* consumer is taken off again.                                            *)
(***************************************************************************)
EXTENDS TraceTruth, Sums_proofs, SequenceTheorems

\* The top of a stack is NULL or a consumer, and NULL is not one.
LEMMA CurrentType ==
  ASSUME TypeOK, NEW cpu \in CPUs
  PROVE  current_consumer(cpu) \in Consumers \cup {NULL}
BY DEF TypeOK, current_consumer

\* What a pop leaves is a stack again.
LEMMA PoppedType ==
  ASSUME TypeOK, NEW cpu \in CPUs
  PROVE  Popped(cpu) \in Seq(Consumers)
<1> DEFINE s == cpu_stack[cpu]
<1>1. s \in Seq(Consumers)  BY DEF TypeOK
<1>2. CASE s = <<>>
  <2>1. Popped(cpu) = <<>>  BY <1>1, <1>2 DEF Popped
  <2> QED  BY <2>1
<1>3. CASE s # <<>>
  BY <1>1, <1>3 DEF Popped
<1> QED  BY <1>2, <1>3

\* The places a consumer has on a stack are counted by a natural number.
LEMMA PlacesType ==
  ASSUME TypeOK, NEW cpu \in CPUs, NEW c
  PROVE  Cardinality(PlacesBelow(cpu, c)) \in Nat
<1>1. Popped(cpu) \in Seq(Consumers)  BY PoppedType
<1>2. DOMAIN Popped(cpu) = 1..Len(Popped(cpu)) /\ Len(Popped(cpu)) \in Nat  BY <1>1
<1>3. IsFiniteSet(1..Len(Popped(cpu)))  BY <1>2, FS_Interval
<1>4. IsFiniteSet(PlacesBelow(cpu, c))  BY <1>2, <1>3, FS_Subset DEF PlacesBelow
<1> QED  BY <1>4, FS_CardinalityType

\* What a handler adds to child_runtime is a natural number.
LEMMA ChildTimeType ==
  ASSUME TypeOK, NEW cpu \in CPUs, NEW delta \in Nat, consumer_child_time(cpu, delta)
  PROVE  child_runtime' \in [Consumers -> Nat]
<1>1. \A c \in Consumers : Cardinality(PlacesBelow(cpu, c)) \in Nat  BY PlacesType
<1>2. ASSUME NEW c \in Consumers
      PROVE  child_runtime[c] + delta * Cardinality(PlacesBelow(cpu, c)) \in Nat
  <2>1. \A n \in Nat : delta * n \in Nat  OBVIOUS
  <2>2. child_runtime[c] \in Nat  BY DEF TypeOK
  <2> QED  BY <1>1, <2>1, <2>2
<1> QED  BY <1>2 DEF consumer_child_time

\* The time of a record is one of the stamps; handling it keeps the stamps typed.
LEMMA RecordType ==
  ASSUME TypeOK, NEW time \in Stamps, Record(time)
  PROVE  /\ phase' \in Phases
         /\ handled' \in 0..MaxRecords
         /\ first_stamp' \in 1..NoStamp
         /\ first_stamp' <= time
         /\ last_stamp' \in 0..MaxStamp
         /\ last_stamp' = time
BY BoundsAssumption DEF TypeOK, Record, InOrder, Stamps, NoStamp

\* change_blame keeps the blame state typed.
LEMMA ChangeBlameType ==
  ASSUME TypeOK, NEW cpu \in CPUs, NEW c \in Consumers, NEW level \in Levels,
         change_blame(cpu, c, level)
  PROVE  /\ cpu_level' \in [CPUs -> Levels]
         /\ cpu_credit' \in [CPUs -> {0, 1}]
         /\ cpu_blame' \in [CPUs -> Consumers \cup {NULL}]
         /\ wake_ups' \in [Consumers -> Nat]
BY DEF TypeOK, change_blame

\* So does consume_blame.
LEMMA ConsumeBlameType ==
  ASSUME TypeOK, NEW cpu \in CPUs, NEW c \in Consumers \cup {NULL}, NEW level \in Levels,
         consume_blame(cpu, c, level)
  PROVE  /\ cpu_level' \in [CPUs -> Levels]
         /\ cpu_credit' \in [CPUs -> {0, 1}]
         /\ cpu_blame' \in [CPUs -> Consumers \cup {NULL}]
         /\ wake_ups' \in [Consumers -> Nat]
<1>1. CASE cpu_credit[cpu] = 1 /\ c # NULL
  <2>1. c \in Consumers /\ Charge(cpu, c)  BY <1>1 DEF consume_blame
  <2> QED  BY <2>1 DEF TypeOK, Charge, Levels
<1>2. CASE ~(cpu_credit[cpu] = 1 /\ c # NULL)
  BY <1>2 DEF TypeOK, consume_blame
<1> QED  BY <1>1, <1>2

\* The objects stay consumers and every other record's fields stay typed when a
\* handler leaves them alone: the groups of variables one by one.
LEMMA OtherRecordType ==
  ASSUME TypeOK, NEW time \in Stamps, OtherRecord(time)
  PROVE  TypeOK'
BY RecordType
   DEF TypeOK, OtherRecord, blameVars, timeVars, opVars, runVars, wakerVars, sinceVars

\* sched_switch: the retired process is a process, and so is the candidate.
LEMMA SwitchType ==
  ASSUME TypeOK, NEW cpu \in CPUs, NEW time \in Stamps, NEW prevIsIdle \in BOOLEAN,
         NEW next \in Processes, SchedSwitch(cpu, time, prevIsIdle, next)
  PROVE  TypeOK'
<1> DEFINE old == OldProcess(cpu)
<1>1. old \in Processes \cup {NULL} /\ NULL \notin Consumers
  BY KindsAssumption DEF OldProcess
<1>2. /\ accumulated_runtime' \in [Consumers -> Nat]
      /\ running' \in [Processes -> {0, 1}]
      /\ running_since' \in [Processes -> 0..MaxStamp]
      /\ waker' \in [Processes -> Processes \cup {NULL}]
  <2>1. RetireAndStart(old, prevIsIdle, next, time)  BY DEF SchedSwitch
  <2>2. Retired(old, time) => /\ old \in Processes
                              /\ time - running_since[old] \in Nat
    BY <1>1, BoundsAssumption DEF Retired, TypeOK, Stamps
  <2>3. accumulated_runtime' \in [Consumers -> Nat]
    <3>1. CASE Retired(old, time) /\ ~prevIsIdle
      <4>1. old \in Consumers /\ accumulated_runtime[old] \in Nat  BY <2>2, <3>1 DEF TypeOK, Consumers
      <4>2. accumulated_runtime[old] + (time - running_since[old]) \in Nat  BY <2>2, <3>1, <4>1
      <4> QED  BY <2>1, <3>1, <4>1, <4>2 DEF RetireAndStart, TypeOK
    <3>2. CASE ~(Retired(old, time) /\ ~prevIsIdle)
      BY <2>1, <3>2 DEF RetireAndStart, TypeOK
    <3> QED  BY <3>1, <3>2
  <2>4. running' \in [Processes -> {0, 1}]
    BY <2>1 DEF RetireAndStart, TypeOK
  <2>5. running_since' \in [Processes -> 0..MaxStamp]
    BY <2>1, BoundsAssumption DEF RetireAndStart, RunningSince, Unset, TypeOK, Stamps
  <2>6. waker' \in [Processes -> Processes \cup {NULL}]
    BY <2>1 DEF RetireAndStart, WakersKept, TypeOK
  <2> QED  BY <2>3, <2>4, <2>5, <2>6
<1>3. cpu_stack' \in [CPUs -> Seq(Consumers)]
  <2>1. <<next>> \in Seq(Consumers)  BY DEF Consumers
  <2> QED  BY <2>1 DEF SchedSwitch, SwitchedStack, TypeOK
<1>4. /\ cpu_level' \in [CPUs -> Levels]
      /\ cpu_credit' \in [CPUs -> {0, 1}]
      /\ cpu_blame' \in [CPUs -> Consumers \cup {NULL}]
      /\ wake_ups' \in [Consumers -> Nat]
  <2>1. CASE next \in KernelThreads
    BY <2>1 DEF SchedSwitch, blameVars, TypeOK
  <2>2. CASE next \notin KernelThreads
    <3>1. Candidate(old, next) \in Consumers \cup {NULL}
      BY DEF Candidate, TypeOK, Consumers
    <3>2. BlameSwitch(cpu, Candidate(old, next))  BY <2>2 DEF SchedSwitch
    <3>3. cpu_level[cpu] \in Levels /\ LEVEL_PROCESS \in Levels
          /\ cpu_blame[cpu] \in Consumers \cup {NULL}
      BY DEF TypeOK, Levels
    <3>4. CASE Candidate(old, next) # NULL /\ Outranked(cpu, LEVEL_PROCESS)
      <4>1. consume_blame(cpu, Candidate(old, next), LEVEL_PROCESS)  BY <3>2, <3>4 DEF BlameSwitch
      <4> QED  BY <3>1, <3>3, <4>1, ConsumeBlameType
    <3>5. CASE ~(Candidate(old, next) # NULL /\ Outranked(cpu, LEVEL_PROCESS))
      <4>1. consume_blame(cpu, cpu_blame[cpu], cpu_level[cpu])  BY <3>2, <3>5 DEF BlameSwitch
      <4> QED  BY <3>3, <4>1, ConsumeBlameType
    <3> QED  BY <3>4, <3>5
  <2> QED  BY <2>1, <2>2
<1>5. /\ phase' \in Phases
      /\ handled' \in 0..MaxRecords
      /\ first_stamp' \in 1..NoStamp
      /\ last_stamp' \in 0..MaxStamp
  BY RecordType DEF SchedSwitch
<1>6. objects' \subseteq Consumers  BY DEF SchedSwitch, TypeOK, Consumers
<1> QED
  BY <1>2, <1>3, <1>4, <1>5, <1>6 DEF SchedSwitch, TypeOK, opVars, sinceVars

\* sched_wakeup: the source is a process or nobody.
LEMMA WakeupType ==
  ASSUME TypeOK, NEW cpu \in CPUs, NEW time \in Stamps, NEW inIrq \in BOOLEAN,
         NEW dest \in Processes, SchedWakeup(cpu, time, inIrq, dest)
  PROVE  TypeOK'
<1> DEFINE from == WakeupSource(cpu, inIrq)
<1>1. from \in Processes \cup {NULL}  BY DEF WakeupSource
<1>2. waker' \in [Processes -> Processes \cup {NULL}]
  BY <1>1 DEF SchedWakeup, TypeOK
<1>3. last_waker' \in [Processes -> Processes \cup {NULL}]
  BY <1>1 DEF SchedWakeup, TypeOK
<1>4. xwakes' \in [Consumers -> Nat]
  <2>1. xwakes \in [Consumers -> Nat]  BY DEF TypeOK
  <2>2. CASE from # NULL /\ dest \in XServers
    <3>1. from \in Consumers  BY <1>1, <2>2 DEF Consumers
    <3>2. xwakes' = [xwakes EXCEPT ![from] = @ + 1]  BY <2>2 DEF SchedWakeup
    <3> QED  BY <2>1, <3>1, <3>2
  <2>3. CASE ~(from # NULL /\ dest \in XServers)
    <3>1. xwakes' = xwakes  BY <2>3 DEF SchedWakeup
    <3> QED  BY <2>1, <3>1
  <2> QED  BY <2>2, <2>3
<1>5. objects' \subseteq Consumers  BY DEF SchedWakeup, TypeOK, Consumers
<1>6. /\ phase' \in Phases
      /\ handled' \in 0..MaxRecords
      /\ first_stamp' \in 1..NoStamp
      /\ last_stamp' \in 0..MaxStamp
  BY RecordType DEF SchedWakeup
<1> QED
  BY <1>2, <1>3, <1>4, <1>5, <1>6
  DEF SchedWakeup, TypeOK, blameVars, timeVars, runVars, sinceVars

\* A push of a consumer.
LEMMA PushType ==
  ASSUME TypeOK, NEW cpu \in CPUs, NEW c \in Consumers, push_consumer(cpu, c)
  PROVE  cpu_stack' \in [CPUs -> Seq(Consumers)]
<1>1. Append(cpu_stack[cpu], c) \in Seq(Consumers)  BY DEF TypeOK
<1> QED  BY <1>1 DEF push_consumer, TypeOK

\* A pop.
LEMMA PopType ==
  ASSUME TypeOK, NEW cpu \in CPUs, pop_consumer(cpu)
  PROVE  cpu_stack' \in [CPUs -> Seq(Consumers)]
BY PoppedType DEF pop_consumer, TypeOK

\* Interrupt objects are interrupts, whether shared or one for each CPU.
LEMMA InterruptObjects ==
  ASSUME NEW cpu \in CPUs
  PROVE  /\ \A handler \in HardIrqs : find_create_interrupt(handler, cpu) \in Interrupts
         /\ SoftIrqs \subseteq Interrupts
BY DEF find_create_interrupt, Interrupts, TickObjects

\* irq_handler_entry and softirq_entry.
LEMMA StartInterruptType ==
  ASSUME TypeOK, NEW cpu \in CPUs, NEW time \in Stamps, NEW irq \in Interrupts,
         NEW level \in Levels, StartInterrupt(cpu, time, irq),
         UNCHANGED blameVars \/ change_blame(cpu, irq, level)
  PROVE  TypeOK'
<1>1. irq \in Consumers  BY DEF Consumers
<1>2. /\ cpu_level' \in [CPUs -> Levels]
      /\ cpu_credit' \in [CPUs -> {0, 1}]
      /\ cpu_blame' \in [CPUs -> Consumers \cup {NULL}]
      /\ wake_ups' \in [Consumers -> Nat]
  <2>1. CASE UNCHANGED blameVars  BY <2>1 DEF blameVars, TypeOK
  <2>2. CASE change_blame(cpu, irq, level)  BY <1>1, <2>2, ChangeBlameType
  <2> QED  BY <2>1, <2>2
<1>3. Record(time) /\ push_consumer(cpu, irq)  BY DEF StartInterrupt
<1>4. cpu_stack' \in [CPUs -> Seq(Consumers)]  BY <1>1, <1>3, PushType
<1>5. objects' \subseteq Consumers  BY <1>1 DEF StartInterrupt, TypeOK
<1>6. irq_since' \in [Interrupts -> 0..MaxStamp]
  BY BoundsAssumption DEF StartInterrupt, TypeOK, Stamps
<1> QED
  BY <1>2, <1>3, <1>4, <1>5, <1>6, RecordType
  DEF StartInterrupt, TypeOK, timeVars, opVars, runVars, wakerVars

\* irq_handler_exit and softirq_exit: no interrupt on a stack started later
\* than the record that ends one, because the records are in order.
LEMMA EndInterruptType ==
  ASSUME TypeOK, StartsInPast,
         NEW cpu \in CPUs, NEW time \in Stamps, EndInterrupt(cpu, time)
  PROVE  TypeOK'
<1> DEFINE irq == current_consumer(cpu)
<1>1. irq \in Interrupts /\ irq \in Consumers  BY DEF EndInterrupt, Consumers
<1>2. Record(time) /\ pop_consumer(cpu) /\ consumer_child_time(cpu, time - irq_since[irq])
  BY DEF EndInterrupt
<1>3. time - irq_since[irq] \in Nat
  BY <1>1, <1>2, BoundsAssumption DEF TypeOK, StartsInPast, Record, InOrder, Stamps
<1>4. child_runtime' \in [Consumers -> Nat]  BY <1>2, <1>3, ChildTimeType
<1>5. accumulated_runtime' \in [Consumers -> Nat]
  <2>1. accumulated_runtime[irq] + (time - irq_since[irq]) \in Nat
    BY <1>1, <1>3 DEF TypeOK
  <2> QED  BY <1>1, <2>1 DEF EndInterrupt, TypeOK
<1>6. cpu_stack' \in [CPUs -> Seq(Consumers)]  BY <1>2, PopType
<1> QED
  BY <1>2, <1>4, <1>5, <1>6, RecordType
  DEF EndInterrupt, TypeOK, blameVars, opVars, runVars, wakerVars, sinceVars

\* Elapsed never goes negative.
LEMMA ElapsedType ==
  ASSUME NEW start \in 0..MaxStamp, NEW time \in Stamps
  PROVE  Elapsed(start, time) \in Nat
BY BoundsAssumption DEF Elapsed, Stamps

\* The start assumed for what is being retired is a stamp.
LEMMA StartType ==
  ASSUME TypeOK, NEW time \in Stamps, Record(time), NEW Structs,
         NEW since \in [Structs -> 0..MaxStamp], NEW struct \in Structs
  PROVE  StartOf(since, struct) \in 0..MaxStamp
<1>1. first_stamp' \in 0..MaxStamp
  BY RecordType, BoundsAssumption DEF NoStamp, Stamps
<1> QED  BY <1>1 DEF StartOf

\* timer_expire_entry and hrtimer_expire_entry.
LEMMA FireTimerType ==
  ASSUME TypeOK, NEW cpu \in CPUs, NEW time \in Stamps, NEW timer \in Timers,
         NEW struct \in TimerStructs, FireTimer(cpu, time, timer, struct)
  PROVE  TypeOK'
<1>1. timer \in Consumers /\ LEVEL_TIMER \in Levels  BY DEF Consumers, Levels
<1>2. /\ cpu_level' \in [CPUs -> Levels]
      /\ cpu_credit' \in [CPUs -> {0, 1}]
      /\ cpu_blame' \in [CPUs -> Consumers \cup {NULL}]
      /\ wake_ups' \in [Consumers -> Nat]
  <2>1. CASE UNCHANGED blameVars  BY <2>1 DEF blameVars, TypeOK
  <2>2. CASE change_blame(cpu, timer, LEVEL_TIMER)  BY <1>1, <2>2, ChangeBlameType
  <2> QED  BY <2>1, <2>2 DEF FireTimer
<1>3. Record(time) /\ push_consumer(cpu, timer)  BY DEF FireTimer
<1>4. cpu_stack' \in [CPUs -> Seq(Consumers)]  BY <1>1, <1>3, PushType
<1>5. objects' \subseteq Consumers  BY <1>1 DEF FireTimer, TypeOK
<1>6. timer_since' \in [TimerStructs -> 0..MaxStamp]
  BY BoundsAssumption DEF FireTimer, StartedAt, TypeOK, Stamps
<1> QED
  BY <1>2, <1>3, <1>4, <1>5, <1>6, RecordType
  DEF FireTimer, TypeOK, timeVars, opVars, runVars, wakerVars

\* timer_expire_entry of a deferred timer.
LEMMA SkipDeferredType ==
  ASSUME TypeOK, NEW time \in Stamps, NEW timer \in Timers, SkipDeferred(time, timer)
  PROVE  TypeOK'
<1>1. objects' \subseteq Consumers  BY DEF SkipDeferred, TypeOK, Consumers
<1> QED
  BY <1>1, RecordType
  DEF SkipDeferred, TypeOK, blameVars, timeVars, opVars, runVars, wakerVars, sinceVars

\* timer_expire_exit and hrtimer_expire_exit.
LEMMA DoneTimerType ==
  ASSUME TypeOK, NEW cpu \in CPUs, NEW time \in Stamps, NEW struct \in TimerStructs,
         DoneTimer(cpu, time, struct)
  PROVE  TypeOK'
<1> DEFINE timer == current_consumer(cpu)
           start == StartOf(timer_since, struct)
<1>1. timer \in Consumers  BY DEF DoneTimer, Consumers
<1>2. Record(time) /\ pop_consumer(cpu) /\ consumer_child_time(cpu, Elapsed(start, time))
  BY DEF DoneTimer
<1>3. start \in 0..MaxStamp  BY <1>2, StartType DEF TypeOK
<1>4. Elapsed(start, time) \in Nat  BY <1>3, ElapsedType
<1>5. child_runtime' \in [Consumers -> Nat]  BY <1>2, <1>4, ChildTimeType
<1>6. accumulated_runtime' \in [Consumers -> Nat]
  <2>1. accumulated_runtime[timer] + Elapsed(start, time) \in Nat  BY <1>1, <1>4 DEF TypeOK
  <2> QED  BY <1>1, <2>1 DEF DoneTimer, TypeOK
<1>7. cpu_stack' \in [CPUs -> Seq(Consumers)]  BY <1>2, PopType
<1>8. timer_since' \in [TimerStructs -> 0..MaxStamp]  BY <1>3 DEF DoneTimer, TypeOK
<1> QED
  BY <1>2, <1>5, <1>6, <1>7, <1>8, RecordType
  DEF DoneTimer, TypeOK, blameVars, opVars, runVars, wakerVars

\* workqueue_execute_start.
LEMMA WorkStartType ==
  ASSUME TypeOK, NEW cpu \in CPUs, NEW time \in Stamps, NEW work \in Works,
         NEW struct \in WorkStructs, WorkqueueExecuteStart(cpu, time, work, struct)
  PROVE  TypeOK'
<1>1. work \in Consumers /\ LEVEL_WORK \in Levels  BY DEF Consumers, Levels
<1>2. /\ cpu_level' \in [CPUs -> Levels]
      /\ cpu_credit' \in [CPUs -> {0, 1}]
      /\ cpu_blame' \in [CPUs -> Consumers \cup {NULL}]
      /\ wake_ups' \in [Consumers -> Nat]
  <2>1. CASE UNCHANGED blameVars  BY <2>1 DEF blameVars, TypeOK
  <2>2. CASE change_blame(cpu, work, LEVEL_WORK)  BY <1>1, <2>2, ChangeBlameType
  <2> QED  BY <2>1, <2>2 DEF WorkqueueExecuteStart
<1>3. Record(time) /\ push_consumer(cpu, work)  BY DEF WorkqueueExecuteStart
<1>4. cpu_stack' \in [CPUs -> Seq(Consumers)]  BY <1>1, <1>3, PushType
<1>5. objects' \subseteq Consumers  BY <1>1 DEF WorkqueueExecuteStart, TypeOK
<1>6. work_since' \in [WorkStructs -> 0..MaxStamp]
  BY BoundsAssumption DEF WorkqueueExecuteStart, StartedAt, TypeOK, Stamps
<1> QED
  BY <1>2, <1>3, <1>4, <1>5, <1>6, RecordType
  DEF WorkqueueExecuteStart, TypeOK, timeVars, opVars, runVars, wakerVars

\* workqueue_execute_end.
LEMMA DoneWorkType ==
  ASSUME TypeOK, NEW cpu \in CPUs, NEW time \in Stamps, NEW struct \in WorkStructs,
         DoneWork(cpu, time, struct)
  PROVE  TypeOK'
<1> DEFINE work  == current_consumer(cpu)
           start == StartOf(work_since, struct)
<1>1. work \in Consumers  BY DEF DoneWork, Consumers
<1>2. Record(time) /\ pop_consumer(cpu) /\ consumer_child_time(cpu, Elapsed(start, time))
  BY DEF DoneWork
<1>3. start \in 0..MaxStamp  BY <1>2, StartType DEF TypeOK
<1>4. Elapsed(start, time) \in Nat  BY <1>3, ElapsedType
<1>5. child_runtime' \in [Consumers -> Nat]  BY <1>2, <1>4, ChildTimeType
<1>6. accumulated_runtime' \in [Consumers -> Nat]
  <2>1. accumulated_runtime[work] + Elapsed(start, time) \in Nat  BY <1>1, <1>4 DEF TypeOK
  <2> QED  BY <1>1, <2>1 DEF DoneWork, TypeOK
<1>7. cpu_stack' \in [CPUs -> Seq(Consumers)]  BY <1>2, PopType
<1>8. work_since' \in [WorkStructs -> 0..MaxStamp]  BY <1>3 DEF DoneWork, TypeOK
<1> QED
  BY <1>2, <1>5, <1>6, <1>7, <1>8, RecordType
  DEF DoneWork, TypeOK, blameVars, opVars, runVars, wakerVars

\* cpu_idle, both ways, and the two events of older kernels.
LEMMA IdleType ==
  ASSUME TypeOK, NEW cpu \in CPUs, NEW time \in Stamps,
         EnterIdle(cpu, time) \/ ExitIdle(cpu, time)
  PROVE  TypeOK'
<1>1. CASE EnterIdle(cpu, time)
  <2>1. Record(time)  BY <1>1 DEF EnterIdle
  <2> QED
    BY <1>1, <2>1, RecordType
    DEF EnterIdle, TypeOK, timeVars, opVars, runVars, wakerVars, sinceVars
<1>2. CASE ExitIdle(cpu, time)
  <2>1. Record(time) /\ consume_blame(cpu, cpu_blame[cpu], cpu_level[cpu])
    BY <1>2 DEF ExitIdle
  <2>2. cpu_level[cpu] \in Levels /\ cpu_blame[cpu] \in Consumers \cup {NULL}  BY DEF TypeOK
  <2>3. /\ cpu_level' \in [CPUs -> Levels]
        /\ cpu_credit' \in [CPUs -> {0, 1}]
        /\ cpu_blame' \in [CPUs -> Consumers \cup {NULL}]
        /\ wake_ups' \in [Consumers -> Nat]
    BY <2>1, <2>2, ConsumeBlameType
  <2> QED
    BY <1>2, <2>1, <2>3, RecordType
    DEF ExitIdle, TypeOK, timeVars, opVars, runVars, wakerVars, sinceVars
<1> QED  BY <1>1, <1>2

\* The graphics handlers: what X is charged for goes to a process, too.
LEMMA GpuType ==
  ASSUME TypeOK, NEW cpu \in CPUs, NEW time \in Stamps, NEW inIrq \in BOOLEAN,
         GpuSubmit(cpu, time, inIrq)
  PROVE  TypeOK'
<1>1. current_consumer(cpu) \in Consumers \cup {NULL}  BY CurrentType
<1>2. GpuConsumer(cpu) \in Consumers \cup {NULL}
  <2>1. CASE current_consumer(cpu) \in XServers
    <3>1. current_consumer(cpu) \in Processes  BY <2>1, SubsetsAssumption
    <3>2. last_waker[current_consumer(cpu)] \in Processes \cup {NULL}  BY <3>1 DEF TypeOK
    <3> QED  BY <1>1, <3>2 DEF GpuConsumer, Consumers
  <2>2. CASE current_consumer(cpu) \notin XServers
    BY <1>1, <2>2 DEF GpuConsumer
  <2> QED  BY <2>1, <2>2
<1>3. gpu_ops' \in [Consumers -> Nat]
  <2>1. gpu_ops \in [Consumers -> Nat]  BY DEF TypeOK
  <2>2. CASE ~inIrq /\ GpuConsumer(cpu) # NULL
    <3>1. gpu_ops' = [gpu_ops EXCEPT ![GpuConsumer(cpu)] = @ + 1]  BY <2>2 DEF GpuSubmit
    <3> QED  BY <1>2, <2>1, <2>2, <3>1
  <2>3. CASE ~(~inIrq /\ GpuConsumer(cpu) # NULL)
    <3>1. gpu_ops' = gpu_ops  BY <2>3 DEF GpuSubmit
    <3> QED  BY <2>1, <3>1
  <2> QED  BY <2>2, <2>3
<1>4. Record(time)  BY DEF GpuSubmit
<1> QED
  BY <1>3, <1>4, RecordType
  DEF GpuSubmit, TypeOK, blameVars, timeVars, runVars, wakerVars, sinceVars

\* writeback_inode_dirty.
LEMMA DirtyInodeType ==
  ASSUME TypeOK, NEW cpu \in CPUs, NEW time \in Stamps, DirtyInode(cpu, time)
  PROVE  TypeOK'
<1> DEFINE consumer == current_consumer(cpu)
<1>1. consumer \in Consumers  BY DEF DirtyInode, Consumers
<1>2. disk_hits' \in [Consumers -> Nat]  BY <1>1 DEF DirtyInode, TypeOK
<1>3. hard_disk_hits' \in [Consumers -> Nat]
  <2>1. hard_disk_hits \in [Consumers -> Nat]  BY DEF TypeOK
  <2>2. CASE IsHardHit(time)
    <3>1. hard_disk_hits' = [hard_disk_hits EXCEPT ![consumer] = @ + 1]
      BY <2>2 DEF DirtyInode
    <3> QED  BY <1>1, <2>1, <3>1
  <2>3. CASE ~IsHardHit(time)
    <3>1. hard_disk_hits' = hard_disk_hits  BY <2>3 DEF DirtyInode
    <3> QED  BY <2>1, <3>1
  <2> QED  BY <2>2, <2>3
<1>4. Record(time)  BY DEF DirtyInode
<1>5. prev_disk_time' \in 0..MaxStamp  BY BoundsAssumption DEF DirtyInode, Stamps
<1> QED
  BY <1>2, <1>3, <1>4, <1>5, RecordType
  DEF DirtyInode, TypeOK, blameVars, timeVars, runVars, wakerVars, sinceVars

\* Deleting objects leaves every field typed.
LEMMA DeleteType ==
  ASSUME TypeOK, NEW gone, Delete(gone)
  PROVE  /\ objects' \subseteq Consumers
         /\ accumulated_runtime' \in [Consumers -> Nat]
         /\ child_runtime' \in [Consumers -> Nat]
         /\ wake_ups' \in [Consumers -> Nat]
         /\ xwakes' \in [Consumers -> Nat]
         /\ gpu_ops' \in [Consumers -> Nat]
         /\ disk_hits' \in [Consumers -> Nat]
         /\ hard_disk_hits' \in [Consumers -> Nat]
         /\ running' \in [Processes -> {0, 1}]
         /\ running_since' \in [Processes -> 0..MaxStamp]
         /\ waker' \in [Processes -> Processes \cup {NULL}]
         /\ last_waker' \in [Processes -> Processes \cup {NULL}]
         /\ irq_since' \in [Interrupts -> 0..MaxStamp]
<1>1. \A f \in [Consumers -> Nat] : Cleared(f, gone) \in [Consumers -> Nat]  BY DEF Cleared
<1>2. \A f \in [Processes -> {0, 1}] : Cleared(f, gone) \in [Processes -> {0, 1}]
  BY DEF Cleared
<1>3. \A S : \A f \in [S -> 0..MaxStamp] : Cleared(f, gone) \in [S -> 0..MaxStamp]
  BY BoundsAssumption DEF Cleared
<1> QED  BY <1>1, <1>2, <1>3 DEF Delete, TypeOK

\* A stack for each CPU, all of them empty.
LEMMA EmptyStacks == [cpu \in CPUs |-> <<>>] \in [CPUs -> Seq(Consumers)]
<1>1. <<>> \in Seq(Consumers)  OBVIOUS
<1> QED  BY <1>1

\* start_process_measurement.
LEMMA StartMeasurementType ==
  ASSUME TypeOK, StartMeasurement
  PROVE  TypeOK'
BY BoundsAssumption
DEF StartMeasurement, TypeOK, Phases, NoStamp, blameVars, timeVars, runVars, wakerVars, sinceVars

\* process_process_data up to its loop.
LEMMA BeginProcessingType ==
  ASSUME TypeOK, BeginProcessing
  PROVE  TypeOK'
<1>1. Delete(Processes \cup Interrupts) /\ ResetBlame  BY DEF BeginProcessing
<1>2. /\ cpu_credit' \in [CPUs -> {0, 1}]
      /\ cpu_level' \in [CPUs -> Levels]
      /\ cpu_blame' \in [CPUs -> Consumers \cup {NULL}]
  BY <1>1 DEF ResetBlame, Levels
<1>3. cpu_stack' \in [CPUs -> Seq(Consumers)]  BY EmptyStacks DEF BeginProcessing
<1>4. phase' \in Phases /\ handled' \in 0..MaxRecords
  BY BoundsAssumption DEF BeginProcessing, Phases
<1> QED
  BY <1>1, <1>2, <1>3, <1>4, DeleteType DEF BeginProcessing, TypeOK

\* end_process_data.
LEMMA EndProcessDataType ==
  ASSUME TypeOK, EndProcessData
  PROVE  TypeOK'
<1>1. Delete(Consumers)  BY DEF EndProcessData
<1>2. /\ timer_since' \in [TimerStructs -> 0..MaxStamp]
      /\ work_since' \in [WorkStructs -> 0..MaxStamp]
  BY BoundsAssumption DEF EndProcessData, ClearStarts, Unset
<1>3. cpu_stack' \in [CPUs -> Seq(Consumers)]  BY EmptyStacks DEF EndProcessData
<1>4. phase' \in Phases  BY DEF EndProcessData, Phases
<1> QED
  BY <1>1, <1>2, <1>3, <1>4, DeleteType DEF EndProcessData, TypeOK
-----------------------------------------------------------------------------
(***************************************************************************)
(* Starts lie in the past.                                                 *)
(***************************************************************************)

\* When a record is handled every start so far is no later than it.
LEMMA StartsBefore ==
  ASSUME TypeOK, StartsInPast, NEW time \in Stamps, Record(time)
  PROVE  /\ \A p \in Processes : running_since[p] <= time
         /\ \A irq \in Interrupts : irq_since[irq] <= time
         /\ \A struct \in TimerStructs : timer_since[struct] <= time
         /\ \A struct \in WorkStructs : work_since[struct] <= time
<1>1. last_stamp <= time /\ last_stamp \in Nat /\ time \in Nat
  BY BoundsAssumption DEF Record, InOrder, TypeOK, Stamps
<1>2. \A n \in 0..MaxStamp : n <= last_stamp => n <= time  BY <1>1, BoundsAssumption
<1> QED  BY <1>2 DEF StartsInPast, TypeOK

\* It is enough that no start is later than the record.
LEMMA StartsStep ==
  ASSUME TypeOK, NEW time \in Stamps, Record(time),
         \A p \in Processes : running_since'[p] <= time,
         \A irq \in Interrupts : irq_since'[irq] <= time,
         \A struct \in TimerStructs : timer_since'[struct] <= time,
         \A struct \in WorkStructs : work_since'[struct] <= time
  PROVE  StartsInPast'
<1>1. last_stamp' = time  BY RecordType
<1>2. phase' = "processing"  BY DEF Record
<1> QED  BY <1>1, <1>2 DEF StartsInPast

\* A record that starts and ends nothing.
LEMMA StartsKept ==
  ASSUME TypeOK, StartsInPast, NEW time \in Stamps, Record(time),
         UNCHANGED <<running_since, irq_since, timer_since, work_since>>
  PROVE  StartsInPast'
BY StartsBefore, StartsStep

\* sched_switch starts the next process at the record and forgets a start that
\* lies in the future.
LEMMA SwitchStarts ==
  ASSUME TypeOK, StartsInPast, NEW cpu \in CPUs, NEW time \in Stamps,
         NEW prevIsIdle \in BOOLEAN, NEW next \in Processes,
         SchedSwitch(cpu, time, prevIsIdle, next)
  PROVE  StartsInPast'
<1> DEFINE old == OldProcess(cpu)
<1>1. Record(time)  BY DEF SchedSwitch
<1>2. running_since' = RunningSince(old, next, time)  BY DEF SchedSwitch, RetireAndStart
<1>3. \A p \in Processes : running_since[p] <= time  BY <1>1, StartsBefore
<1>4. \A p \in Processes : running_since'[p] <= time
  BY <1>2, <1>3, BoundsAssumption DEF RunningSince, Unset, Stamps
<1>5. UNCHANGED <<irq_since, timer_since, work_since>>  BY DEF SchedSwitch, sinceVars
<1> QED  BY <1>1, <1>4, <1>5, StartsBefore, StartsStep

\* irq_handler_entry and softirq_entry start at the record.
LEMMA InterruptStarts ==
  ASSUME TypeOK, StartsInPast, NEW cpu \in CPUs, NEW time \in Stamps, NEW irq \in Interrupts,
         StartInterrupt(cpu, time, irq)
  PROVE  StartsInPast'
<1>1. Record(time)  BY DEF StartInterrupt
<1>2. irq_since' = [irq_since EXCEPT ![irq] = time]  BY DEF StartInterrupt
<1>3. \A i \in Interrupts : irq_since[i] <= time  BY <1>1, StartsBefore
<1>4. \A i \in Interrupts : irq_since'[i] <= time
  BY <1>2, <1>3, BoundsAssumption DEF TypeOK, Stamps
<1>5. UNCHANGED <<running_since, timer_since, work_since>>  BY DEF StartInterrupt, runVars
<1> QED  BY <1>1, <1>4, <1>5, StartsBefore, StartsStep

\* What is retired without a start is given one: the first stamp.
LEMMA StartOfBefore ==
  ASSUME TypeOK, NEW time \in Stamps, Record(time), NEW Structs,
         NEW since \in [Structs -> 0..MaxStamp], NEW struct \in Structs,
         since[struct] <= time
  PROVE  StartOf(since, struct) <= time
BY RecordType DEF StartOf

\* The four timer events.
LEMMA TimerStarts ==
  ASSUME TypeOK, StartsInPast, NEW cpu \in CPUs, NEW time \in Stamps, NEW struct \in TimerStructs,
         \/ \E timer \in Timers : FireTimer(cpu, time, timer, struct)
         \/ DoneTimer(cpu, time, struct)
  PROVE  StartsInPast'
<1>1. Record(time)  BY DEF FireTimer, DoneTimer
<1>2. timer_since \in [TimerStructs -> 0..MaxStamp]  BY DEF TypeOK
<1>3. \A s \in TimerStructs : timer_since[s] <= time  BY <1>1, StartsBefore
<1>4. StartOf(timer_since, struct) <= time  BY <1>1, <1>2, <1>3, StartOfBefore
<1>5. time <= time  BY BoundsAssumption DEF Stamps
<1>6. \/ timer_since' = [timer_since EXCEPT ![struct] = time]
      \/ timer_since' = [timer_since EXCEPT ![struct] = StartOf(timer_since, struct)]
  BY DEF FireTimer, DoneTimer, StartedAt
<1>7. \A s \in TimerStructs : timer_since'[s] <= time
  BY <1>2, <1>3, <1>4, <1>5, <1>6
<1>8. UNCHANGED <<running_since, irq_since, work_since>>  BY DEF FireTimer, DoneTimer, runVars
<1> QED  BY <1>1, <1>7, <1>8, StartsBefore, StartsStep

\* The two workqueue events.
LEMMA WorkStarts ==
  ASSUME TypeOK, StartsInPast, NEW cpu \in CPUs, NEW time \in Stamps, NEW struct \in WorkStructs,
         \/ \E work \in Works : WorkqueueExecuteStart(cpu, time, work, struct)
         \/ DoneWork(cpu, time, struct)
  PROVE  StartsInPast'
<1>1. Record(time)  BY DEF WorkqueueExecuteStart, DoneWork
<1>2. work_since \in [WorkStructs -> 0..MaxStamp]  BY DEF TypeOK
<1>3. \A s \in WorkStructs : work_since[s] <= time  BY <1>1, StartsBefore
<1>4. StartOf(work_since, struct) <= time  BY <1>1, <1>2, <1>3, StartOfBefore
<1>5. time <= time  BY BoundsAssumption DEF Stamps
<1>6. \/ work_since' = [work_since EXCEPT ![struct] = time]
      \/ work_since' = [work_since EXCEPT ![struct] = StartOf(work_since, struct)]
  BY DEF WorkqueueExecuteStart, DoneWork, StartedAt
<1>7. \A s \in WorkStructs : work_since'[s] <= time
  BY <1>2, <1>3, <1>4, <1>5, <1>6
<1>8. UNCHANGED <<running_since, irq_since, timer_since>>
  BY DEF WorkqueueExecuteStart, DoneWork, runVars
<1> QED  BY <1>1, <1>7, <1>8, StartsBefore, StartsStep

\* The steps around the records: nothing is running outside of processing, so
\* the stamps may go back to 0 there.
LEMMA PhaseStarts ==
  ASSUME TypeOK, StartsInPast, StartMeasurement \/ BeginProcessing \/ EndProcessData
  PROVE  StartsInPast'
<1>1. CASE StartMeasurement
  <2>1. phase # "processing" /\ last_stamp' = 0 /\ phase' = "measuring"
        /\ UNCHANGED <<running_since, irq_since, timer_since, work_since>>
    BY <1>1 DEF StartMeasurement, runVars, sinceVars
  <2> QED  BY <2>1 DEF StartsInPast, Unset
<1>2. CASE BeginProcessing
  <2>1. /\ phase # "processing" /\ phase' = "processing" /\ last_stamp' = last_stamp
        /\ running_since' = Cleared(running_since, Processes \cup Interrupts)
        /\ irq_since' = Cleared(irq_since, Processes \cup Interrupts)
        /\ UNCHANGED <<timer_since, work_since>>
    BY <1>2 DEF BeginProcessing, Delete
  <2>2. last_stamp >= 0  BY BoundsAssumption DEF TypeOK
  <2> QED  BY <2>1, <2>2 DEF StartsInPast, Cleared, Unset, TypeOK
<1>3. CASE EndProcessData
  <2>1. /\ last_stamp' = last_stamp
        /\ running_since' = Cleared(running_since, Consumers)
        /\ irq_since' = Cleared(irq_since, Consumers)
        /\ timer_since' = [struct \in TimerStructs |-> Unset]
        /\ work_since' = [struct \in WorkStructs |-> Unset]
    BY <1>3 DEF EndProcessData, ClearStarts, Delete
  <2>2. last_stamp >= 0  BY BoundsAssumption DEF TypeOK
  <2>3. Processes \subseteq Consumers /\ Interrupts \subseteq Consumers  BY DEF Consumers
  <2>4. /\ \A p \in Processes : running_since'[p] = 0
        /\ \A irq \in Interrupts : irq_since'[irq] = 0
    BY <2>1, <2>3 DEF Cleared, TypeOK
  <2> QED  BY <2>1, <2>2, <2>4 DEF StartsInPast, Unset
<1> QED  BY <1>1, <1>2, <1>3
-----------------------------------------------------------------------------
(***************************************************************************)
(* Type correctness.                                                       *)
(***************************************************************************)

\* The inductive invariant: the difference that end_interrupt adds to a run time
\* is natural only because no start lies in the future.
TypeInv == TypeOK /\ StartsInPast

\* Before the first measurement.
LEMMA InitType == Init => TypeInv
<1> SUFFICES ASSUME Init PROVE TypeInv  OBVIOUS
<1>1. cpu_stack \in [CPUs -> Seq(Consumers)]  BY EmptyStacks DEF Init
<1>2. 0 \in Levels /\ 0 \in 0..MaxStamp /\ 0 \in 0..MaxRecords /\ NoStamp \in 1..NoStamp
  BY BoundsAssumption DEF Levels, NoStamp
<1>3. TypeOK
  BY <1>1, <1>2 DEF Init, TypeOK, Phases, NoCounts, NoWaker, Unset
<1>4. StartsInPast  BY DEF Init, StartsInPast, Unset
<1> QED  BY <1>3, <1>4 DEF TypeInv

\* A record that only passes through.
LEMMA OtherRecordKeeps ==
  ASSUME TypeInv, NEW time \in Stamps, OtherRecord(time)
  PROVE  TypeInv'
<1>1. Record(time) /\ UNCHANGED <<running_since, irq_since, timer_since, work_since>>
  BY DEF OtherRecord, runVars, sinceVars
<1> QED  BY <1>1, OtherRecordType, StartsKept DEF TypeInv

\* Every handler of a record keeps the invariant.
LEMMA HandlerKeepsType ==
  ASSUME TypeInv, NEW cpu \in CPUs, NEW time \in Stamps, HandleTracePoint(cpu, time)
  PROVE  TypeInv'
<1> USE DEF TypeInv
<1>1. CASE OtherRecord(time)  BY <1>1, OtherRecordKeeps
<1>2. ASSUME NEW prevIsIdle \in BOOLEAN, NEW next \in Processes,
             SchedSwitch(cpu, time, prevIsIdle, next)
      PROVE  TypeInv'
  BY <1>2, SwitchType, SwitchStarts
<1>3. ASSUME NEW inIrq \in BOOLEAN, NEW dest \in Processes, SchedWakeup(cpu, time, inIrq, dest)
      PROVE  TypeInv'
  <2>1. Record(time) /\ UNCHANGED <<running_since, irq_since, timer_since, work_since>>
    BY <1>3 DEF SchedWakeup, runVars, sinceVars
  <2> QED  BY <1>3, <2>1, WakeupType, StartsKept
<1>4. ASSUME NEW handler \in HardIrqs, IrqHandlerEntry(cpu, time, handler)
      PROVE  TypeInv'
  <2> DEFINE irq == find_create_interrupt(handler, cpu)
  <2>1. irq \in Interrupts  BY InterruptObjects
  <2>2. StartInterrupt(cpu, time, irq)
        /\ (UNCHANGED blameVars \/ change_blame(cpu, irq, LEVEL_HARDIRQ))
    BY <1>4 DEF IrqHandlerEntry
  <2>3. LEVEL_HARDIRQ \in Levels  BY DEF Levels
  <2> QED  BY <2>1, <2>2, <2>3, StartInterruptType, InterruptStarts
<1>5. ASSUME NEW vec \in SoftIrqs, SoftirqEntry(cpu, time, vec)
      PROVE  TypeInv'
  <2>1. vec \in Interrupts  BY InterruptObjects
  <2>2. StartInterrupt(cpu, time, vec) /\ change_blame(cpu, vec, LEVEL_SOFTIRQ)
    BY <1>5 DEF SoftirqEntry
  <2>3. LEVEL_SOFTIRQ \in Levels  BY DEF Levels
  <2> QED  BY <2>1, <2>2, <2>3, StartInterruptType, InterruptStarts
<1>6. CASE InterruptExit(cpu, time)
  <2>1. CASE EndInterrupt(cpu, time)
    <3>1. Record(time) /\ UNCHANGED <<running_since, irq_since, timer_since, work_since>>
      BY <2>1 DEF EndInterrupt, runVars, sinceVars
    <3> QED  BY <2>1, <3>1, EndInterruptType, StartsKept
  <2> QED  BY <1>6, <2>1, OtherRecordKeeps DEF InterruptExit
<1>7. ASSUME NEW timer \in Timers, NEW struct \in TimerStructs,
             \/ TimerExpireEntry(cpu, time, timer, struct)
             \/ HrtimerExpireEntry(cpu, time, timer, struct)
      PROVE  TypeInv'
  <2>1. CASE FireTimer(cpu, time, timer, struct)  BY <2>1, FireTimerType, TimerStarts
  <2>2. CASE SkipDeferred(time, timer)
    <3>1. Record(time) /\ UNCHANGED <<running_since, irq_since, timer_since, work_since>>
      BY <2>2 DEF SkipDeferred, runVars, sinceVars
    <3> QED  BY <2>2, <3>1, SkipDeferredType, StartsKept
  <2> QED  BY <1>7, <2>1, <2>2 DEF TimerExpireEntry, HrtimerExpireEntry
<1>8. ASSUME NEW struct \in TimerStructs, TimerExpireExit(cpu, time, struct)
      PROVE  TypeInv'
  <2>1. CASE DoneTimer(cpu, time, struct)  BY <2>1, DoneTimerType, TimerStarts
  <2> QED  BY <1>8, <2>1, OtherRecordKeeps DEF TimerExpireExit
<1>9. ASSUME NEW work \in Works, NEW struct \in WorkStructs,
             WorkqueueExecuteStart(cpu, time, work, struct)
      PROVE  TypeInv'
  BY <1>9, WorkStartType, WorkStarts
<1>10. ASSUME NEW struct \in WorkStructs, WorkqueueExecuteEnd(cpu, time, struct)
       PROVE  TypeInv'
  <2>1. CASE DoneWork(cpu, time, struct)  BY <2>1, DoneWorkType, WorkStarts
  <2> QED  BY <1>10, <2>1, OtherRecordKeeps DEF WorkqueueExecuteEnd
<1>11. CASE EnterIdle(cpu, time) \/ ExitIdle(cpu, time)
  <2>1. Record(time) /\ UNCHANGED <<running_since, irq_since, timer_since, work_since>>
    BY <1>11 DEF EnterIdle, ExitIdle, runVars, sinceVars
  <2> QED  BY <1>11, <2>1, IdleType, StartsKept
<1>12. ASSUME NEW inIrq \in BOOLEAN, GpuSubmit(cpu, time, inIrq)
       PROVE  TypeInv'
  <2>1. Record(time) /\ UNCHANGED <<running_since, irq_since, timer_since, work_since>>
    BY <1>12 DEF GpuSubmit, runVars, sinceVars
  <2> QED  BY <1>12, <2>1, GpuType, StartsKept
<1>13. CASE WritebackInodeDirty(cpu, time)
  <2>1. CASE DirtyInode(cpu, time)
    <3>1. Record(time) /\ UNCHANGED <<running_since, irq_since, timer_since, work_since>>
      BY <2>1 DEF DirtyInode, runVars, sinceVars
    <3> QED  BY <2>1, <3>1, DirtyInodeType, StartsKept
  <2> QED  BY <1>13, <2>1, OtherRecordKeeps DEF WritebackInodeDirty
<1> QED
  BY <1>1, <1>2, <1>3, <1>4, <1>5, <1>6, <1>7, <1>8, <1>9, <1>10, <1>11, <1>12, <1>13
  DEF HandleTracePoint

\* Every step keeps it.
LEMMA NextKeepsType == TypeInv /\ [Next]_vars => TypeInv'
<1> SUFFICES ASSUME TypeInv, [Next]_vars PROVE TypeInv'  OBVIOUS
<1>1. CASE StartMeasurement  BY <1>1, StartMeasurementType, PhaseStarts DEF TypeInv
<1>2. CASE BeginProcessing  BY <1>2, BeginProcessingType, PhaseStarts DEF TypeInv
<1>3. CASE EndProcessData  BY <1>3, EndProcessDataType, PhaseStarts DEF TypeInv
<1>4. ASSUME NEW cpu \in CPUs, NEW time \in Stamps, HandleTracePoint(cpu, time)
      PROVE  TypeInv'
  BY <1>4, HandlerKeepsType
<1>5. CASE UNCHANGED vars
  BY <1>5
  DEF TypeInv, TypeOK, StartsInPast, vars, recordVars, blameVars, timeVars, opVars, runVars,
      wakerVars, sinceVars
<1> QED  BY <1>1, <1>2, <1>3, <1>4, <1>5 DEF Next

\* The inductive invariant holds in every state.
LEMMA TypeInvariant == Spec => []TypeInv
BY InitType, NextKeepsType, PTL DEF Spec

\* Every counter, stack and stamp keeps its type whatever records arrive: in
\* particular no run time, child time or count is ever negative, although
\* end_interrupt subtracts unsigned and without a check.
THEOREM TypeCorrect == Spec => []TypeOK
<1>1. TypeInv => TypeOK  BY DEF TypeInv
<1> QED  BY <1>1, TypeInvariant, PTL

\* No start lies after the last record handled, and none survives a measurement.
THEOREM NoFutureStart == Spec => []StartsInPast
<1>1. TypeInv => StartsInPast  BY DEF TypeInv
<1> QED  BY <1>1, TypeInvariant, PTL
-----------------------------------------------------------------------------
(***************************************************************************)
(* Blame and wakeups.                                                      *)
(***************************************************************************)

\* A consumer that is no process, and exists, is put forward at some level.
PutForward(cpu) ==
  \E c \in (objects' \cap Consumers) \ Processes, level \in Levels \ {0} :
    change_blame(cpu, c, level)

\* What a record may do to the blame of its CPU, and to no other CPU's: nothing,
\* owe a wakeup, put a consumer of some level forward, or try to charge.
LEMMA HandlerBlame ==
  ASSUME TypeOK, NEW cpu \in CPUs, NEW time \in Stamps, HandleTracePoint(cpu, time)
  PROVE  \/ UNCHANGED blameVars
         \/ /\ cpu_credit' = [cpu_credit EXCEPT ![cpu] = 1]
            /\ UNCHANGED <<cpu_level, cpu_blame, wake_ups>>
         \/ PutForward(cpu)
         \/ consume_blame(cpu, cpu_blame[cpu], cpu_level[cpu])
         \/ \E c \in Processes :
              /\ Outranked(cpu, LEVEL_PROCESS) /\ consume_blame(cpu, c, LEVEL_PROCESS)
              /\ \/ \E p \in Processes : c = waker[p]
                 \/ cpu_stack' = [cpu_stack EXCEPT ![cpu] = <<c>>]
<1>1. (Interrupts \cup Timers \cup Works) \subseteq Consumers \ Processes
  BY KindsAssumption DEF Consumers
<1>2. {LEVEL_HARDIRQ, LEVEL_SOFTIRQ, LEVEL_TIMER, LEVEL_WORK} \subseteq Levels \ {0}
  BY DEF Levels, LEVEL_HARDIRQ, LEVEL_SOFTIRQ, LEVEL_TIMER, LEVEL_WORK
<1>3. ASSUME NEW prevIsIdle \in BOOLEAN, NEW next \in Processes,
             SchedSwitch(cpu, time, prevIsIdle, next)
      PROVE  \/ UNCHANGED blameVars
             \/ consume_blame(cpu, cpu_blame[cpu], cpu_level[cpu])
             \/ \E c \in Processes :
                  /\ Outranked(cpu, LEVEL_PROCESS) /\ consume_blame(cpu, c, LEVEL_PROCESS)
                  /\ \/ \E p \in Processes : c = waker[p]
                     \/ cpu_stack' = [cpu_stack EXCEPT ![cpu] = <<c>>]
  <2> DEFINE c == Candidate(OldProcess(cpu), next)
  <2>1. c \in Processes \cup {NULL} /\ c \in {NULL, waker[next], next}
    BY DEF Candidate, TypeOK
  <2>2. cpu_stack' = [cpu_stack EXCEPT ![cpu] = <<next>>]
    BY <1>3 DEF SchedSwitch, SwitchedStack
  <2>3. UNCHANGED blameVars \/ BlameSwitch(cpu, c)  BY <1>3 DEF SchedSwitch
  <2>4. CASE c # NULL /\ Outranked(cpu, LEVEL_PROCESS) /\ consume_blame(cpu, c, LEVEL_PROCESS)
    BY <2>1, <2>2, <2>4
  <2> QED  BY <2>3, <2>4 DEF BlameSwitch
<1>4. ASSUME NEW handler \in HardIrqs, IrqHandlerEntry(cpu, time, handler)
      PROVE  \/ UNCHANGED blameVars
             \/ PutForward(cpu)
  BY <1>1, <1>2, <1>4, InterruptObjects DEF IrqHandlerEntry, StartInterrupt, PutForward
<1>5. ASSUME NEW vec \in SoftIrqs, SoftirqEntry(cpu, time, vec)
      PROVE  PutForward(cpu)
  BY <1>1, <1>2, <1>5, InterruptObjects DEF SoftirqEntry, StartInterrupt, PutForward
<1>6. ASSUME NEW timer \in Timers, NEW struct \in TimerStructs,
             \/ TimerExpireEntry(cpu, time, timer, struct)
             \/ HrtimerExpireEntry(cpu, time, timer, struct)
      PROVE  \/ UNCHANGED blameVars
             \/ PutForward(cpu)
  BY <1>1, <1>2, <1>6 DEF TimerExpireEntry, HrtimerExpireEntry, FireTimer, SkipDeferred,
                         PutForward
<1>7. ASSUME NEW work \in Works, NEW struct \in WorkStructs,
             WorkqueueExecuteStart(cpu, time, work, struct)
      PROVE  \/ UNCHANGED blameVars
             \/ PutForward(cpu)
  BY <1>1, <1>2, <1>7 DEF WorkqueueExecuteStart, PutForward
<1>8. CASE \/ OtherRecord(time)
           \/ \E inIrq \in BOOLEAN, dest \in Processes : SchedWakeup(cpu, time, inIrq, dest)
           \/ InterruptExit(cpu, time)
           \/ \E struct \in TimerStructs : TimerExpireExit(cpu, time, struct)
           \/ \E struct \in WorkStructs : WorkqueueExecuteEnd(cpu, time, struct)
           \/ \E inIrq \in BOOLEAN : GpuSubmit(cpu, time, inIrq)
           \/ WritebackInodeDirty(cpu, time)
  <2>1. UNCHANGED blameVars
    BY <1>8
    DEF OtherRecord, SchedWakeup, InterruptExit, EndInterrupt, TimerExpireExit, DoneTimer,
        WorkqueueExecuteEnd, DoneWork, GpuSubmit, WritebackInodeDirty, DirtyInode
  <2> QED  BY <2>1
<1>9. CASE EnterIdle(cpu, time)  BY <1>9 DEF EnterIdle
<1>10. CASE ExitIdle(cpu, time)  BY <1>10 DEF ExitIdle
<1> QED
  BY <1>3, <1>4, <1>5, <1>6, <1>7, <1>8, <1>9, <1>10 DEF HandleTracePoint

\* Starting and ending a measurement.
LEMMA PhaseBlame ==
  ASSUME TypeOK, StartMeasurement \/ BeginProcessing \/ EndProcessData
  PROVE  /\ phase' # phase
         /\ ResetBlame \/ UNCHANGED <<cpu_level, cpu_credit, cpu_blame>>
         /\ \A c \in Consumers : wake_ups'[c] \in {0, wake_ups[c]}
<1>1. wake_ups \in [Consumers -> Nat]  BY DEF TypeOK
<1>2. CASE StartMeasurement
  <2>1. phase' # phase /\ UNCHANGED blameVars  BY <1>2 DEF StartMeasurement
  <2> QED  BY <1>1, <2>1 DEF blameVars
<1>3. ASSUME NEW gone, wake_ups' = Cleared(wake_ups, gone)
      PROVE  \A c \in Consumers : wake_ups'[c] \in {0, wake_ups[c]}
  BY <1>1, <1>3 DEF Cleared
<1>4. CASE BeginProcessing
  BY <1>3, <1>4 DEF BeginProcessing, Delete
<1>5. CASE EndProcessData
  BY <1>3, <1>5 DEF EndProcessData, Delete
<1> QED  BY <1>2, <1>4, <1>5

\* A consumer to blame without a level, or a level without one, never arises.
LEMMA NextKeepsBlame == TypeOK /\ BlameHasLevel /\ [Next]_vars => BlameHasLevel'
<1> SUFFICES ASSUME TypeOK, BlameHasLevel, [Next]_vars PROVE BlameHasLevel'  OBVIOUS
<1>1. NULL \notin Consumers  BY KindsAssumption
<1>2. CASE StartMeasurement \/ BeginProcessing \/ EndProcessData
  <2>1. ResetBlame \/ UNCHANGED <<cpu_level, cpu_credit, cpu_blame>>  BY <1>2, PhaseBlame
  <2> QED  BY <2>1 DEF ResetBlame, BlameHasLevel
<1>3. ASSUME NEW cpu \in CPUs, NEW time \in Stamps, HandleTracePoint(cpu, time)
      PROVE  BlameHasLevel'
  <2>1. CASE \/ UNCHANGED blameVars
             \/ /\ cpu_credit' = [cpu_credit EXCEPT ![cpu] = 1]
                /\ UNCHANGED <<cpu_level, cpu_blame, wake_ups>>
    BY <2>1 DEF blameVars, BlameHasLevel
  <2>2. ASSUME NEW c \in Consumers \ Processes, NEW level \in Levels \ {0},
               change_blame(cpu, c, level)
        PROVE  BlameHasLevel'
    BY <1>1, <2>2 DEF change_blame, BlameHasLevel, TypeOK
  <2>3. ASSUME NEW c \in Consumers \cup {NULL}, NEW level \in Levels,
               c = NULL <=> level = 0, consume_blame(cpu, c, level)
        PROVE  BlameHasLevel'
    BY <2>3 DEF consume_blame, Charge, BlameHasLevel, TypeOK
  <2>4. CASE consume_blame(cpu, cpu_blame[cpu], cpu_level[cpu])
    BY <2>3, <2>4 DEF BlameHasLevel, TypeOK
  <2>5. ASSUME NEW c \in Processes, consume_blame(cpu, c, LEVEL_PROCESS)
        PROVE  BlameHasLevel'
    <3>1. c \in Consumers /\ c # NULL  BY <1>1 DEF Consumers
    <3>2. LEVEL_PROCESS \in Levels /\ LEVEL_PROCESS # 0  BY DEF Levels, LEVEL_PROCESS
    <3> QED  BY <2>3, <2>5, <3>1, <3>2
  <2> QED  BY <1>3, <2>1, <2>2, <2>4, <2>5, HandlerBlame DEF PutForward
<1>4. CASE UNCHANGED vars  BY <1>4 DEF vars, blameVars, BlameHasLevel
<1> QED  BY <1>2, <1>3, <1>4 DEF Next

\* A CPU has somebody to blame exactly when it has a blame level, whatever
\* records arrive.
THEOREM BlameHasLevelAlways == Spec => []BlameHasLevel
<1>1. Init => BlameHasLevel  BY DEF Init, BlameHasLevel
<1>2. TypeInv => TypeOK  BY DEF TypeInv
<1> QED  BY <1>1, <1>2, NextKeepsBlame, TypeInvariant, PTL DEF Spec

\* Only a charge raises a wakeup count, and it spends the credit of the CPU.
LEMMA NextPaysForWakeup ==
  ASSUME TypeOK, Next, NEW c \in Consumers, wake_ups'[c] > wake_ups[c]
  PROVE  /\ wake_ups' = [wake_ups EXCEPT ![c] = @ + 1]
         /\ \E cpu \in CPUs : /\ cpu_credit[cpu] = 1
                              /\ cpu_credit' = [cpu_credit EXCEPT ![cpu] = 0]
<1>1. wake_ups \in [Consumers -> Nat]  BY DEF TypeOK
<1>2. ~(wake_ups[c] > wake_ups[c])  BY <1>1
<1>3. wake_ups' # wake_ups  BY <1>2
<1>4. ~(StartMeasurement \/ BeginProcessing \/ EndProcessData)
  <2>1. wake_ups'[c] \notin {0, wake_ups[c]}
    <3>1. wake_ups[c] \in Nat  BY <1>1
    <3> QED  BY <3>1
  <2> QED  BY <2>1, PhaseBlame
<1>5. PICK cpu \in CPUs, time \in Stamps : HandleTracePoint(cpu, time)  BY <1>4 DEF Next
<1>6. PICK b \in Consumers : cpu_credit[cpu] = 1 /\ Charge(cpu, b)
  <2>1. \/ consume_blame(cpu, cpu_blame[cpu], cpu_level[cpu])
        \/ \E p \in Processes : consume_blame(cpu, p, LEVEL_PROCESS)
    BY <1>3, <1>5, HandlerBlame DEF blameVars, change_blame, PutForward
  <2>2. cpu_blame[cpu] \in Consumers \cup {NULL} /\ Processes \subseteq Consumers
    BY DEF TypeOK, Consumers
  <2> QED  BY <1>3, <2>1, <2>2 DEF consume_blame
<1>7. wake_ups' = [wake_ups EXCEPT ![b] = @ + 1]  BY <1>6 DEF Charge
<1>8. b = c  BY <1>1, <1>2, <1>7
<1> QED  BY <1>6, <1>7, <1>8 DEF Charge

\* Every wakeup counted is paid for by one CPU that went idle, and by one only.
THEOREM WakeupsArePaid == Spec => WakeupPaidByIdle
<1>1. TypeInv => TypeOK  BY DEF TypeInv
<1>2. TypeOK /\ [Next]_vars =>
        [\A c \in Consumers : wake_ups'[c] > wake_ups[c] =>
           /\ wake_ups' = [wake_ups EXCEPT ![c] = @ + 1]
           /\ \E cpu \in CPUs : /\ cpu_credit[cpu] = 1
                                /\ cpu_credit' = [cpu_credit EXCEPT ![cpu] = 0]]_vars
  BY NextPaysForWakeup
<1> QED  BY <1>1, <1>2, TypeInvariant, PTL DEF Spec, WakeupPaidByIdle
-----------------------------------------------------------------------------
\* The one to blame is outranked, or charged, and nothing else.
LEMMA NextKeepsWhomToBlame ==
  ASSUME TypeOK, Next, phase' = phase, NEW cpu \in CPUs,
         cpu_blame[cpu] \notin {NULL, cpu_blame'[cpu]}
  PROVE  \/ cpu_level'[cpu] > cpu_level[cpu]
         \/ cpu_level'[cpu] = 0 /\ cpu_credit[cpu] = 1 /\ cpu_credit'[cpu] = 0
<1>1. PICK here \in CPUs, time \in Stamps : HandleTracePoint(here, time)
  BY PhaseBlame DEF Next
<1>2. \/ \E c \in Consumers, level \in Levels : change_blame(here, c, level)
      \/ consume_blame(here, cpu_blame[here], cpu_level[here])
      \/ \E c \in Processes :
           Outranked(here, LEVEL_PROCESS) /\ consume_blame(here, c, LEVEL_PROCESS)
  BY <1>1, HandlerBlame DEF blameVars, PutForward
<1>3. \A n \in Levels : n \in Nat  BY DEF Levels, LEVEL_HARDIRQ, LEVEL_SOFTIRQ, LEVEL_TIMER,
                                          LEVEL_PROCESS, LEVEL_WORK
<1>4. CASE \E c \in Consumers, level \in Levels : change_blame(here, c, level)
  BY <1>3, <1>4 DEF change_blame, Outranked, TypeOK
<1>5. ASSUME NEW c \in Consumers \cup {NULL}, Charge(here, c), cpu_credit[here] = 1
      PROVE  cpu_level'[cpu] = 0 /\ cpu_credit[cpu] = 1 /\ cpu_credit'[cpu] = 0
  BY <1>5 DEF Charge, TypeOK
<1>6. CASE consume_blame(here, cpu_blame[here], cpu_level[here])
  BY <1>5, <1>6 DEF consume_blame, TypeOK
<1>7. CASE \E c \in Processes :
             Outranked(here, LEVEL_PROCESS) /\ consume_blame(here, c, LEVEL_PROCESS)
  <2>1. PICK c \in Processes :
          Outranked(here, LEVEL_PROCESS) /\ consume_blame(here, c, LEVEL_PROCESS)
    BY <1>7
  <2>2. CASE cpu_credit[here] = 1 /\ c # NULL
    BY <1>5, <2>1, <2>2 DEF consume_blame, Consumers
  <2>3. CASE ~(cpu_credit[here] = 1 /\ c # NULL)
    BY <1>3, <2>1, <2>3 DEF consume_blame, Outranked, TypeOK
  <2> QED  BY <2>2, <2>3
<1> QED  BY <1>2, <1>4, <1>6, <1>7

\* Nobody who is to blame is forgotten for less than a higher level.
THEOREM BlameIsKept == Spec => BlameKept
<1>1. TypeInv => TypeOK  BY DEF TypeInv
<1>2. TypeOK /\ [Next]_vars =>
        [\A cpu \in CPUs : (cpu_blame[cpu] \notin {NULL, cpu_blame'[cpu]} /\ phase' = phase) =>
           \/ cpu_level'[cpu] > cpu_level[cpu]
           \/ cpu_level'[cpu] = 0 /\ cpu_credit[cpu] = 1 /\ cpu_credit'[cpu] = 0]_vars
  BY NextKeepsWhomToBlame
<1> QED  BY <1>1, <1>2, TypeInvariant, PTL DEF Spec, BlameKept
-----------------------------------------------------------------------------
(***************************************************************************)
(* Wakers.                                                                 *)
(***************************************************************************)

\* Only sched_switch and sched_wakeup look at wakers and at who is running.
LEMMA NextKeepsWakers == TypeOK /\ WakerOfSleepers /\ [Next]_vars => WakerOfSleepers'
<1> SUFFICES ASSUME TypeOK, WakerOfSleepers, [Next]_vars PROVE WakerOfSleepers'  OBVIOUS
<1>1. CASE UNCHANGED <<running, waker>>  BY <1>1 DEF WakerOfSleepers
<1>2. ASSUME NEW cpu \in CPUs, NEW time \in Stamps, NEW prevIsIdle \in BOOLEAN,
             NEW next \in Processes, SchedSwitch(cpu, time, prevIsIdle, next)
      PROVE  WakerOfSleepers'
  <2> DEFINE old == OldProcess(cpu)
  <2>1. RetireAndStart(old, prevIsIdle, next, time)  BY <1>2 DEF SchedSwitch
  <2>2. waker' = [p \in Processes |-> IF p \in {old, next} THEN NULL ELSE waker[p]]
    BY <2>1 DEF RetireAndStart, WakersKept
  <2>3. \A p \in Processes \ {old, next} : running'[p] = running[p]
    BY <2>1 DEF RetireAndStart
  <2> QED  BY <2>2, <2>3 DEF WakerOfSleepers
<1>3. ASSUME NEW cpu \in CPUs, NEW time \in Stamps, NEW inIrq \in BOOLEAN,
             NEW dest \in Processes, SchedWakeup(cpu, time, inIrq, dest)
      PROVE  WakerOfSleepers'
  <2> DEFINE from == WakeupSource(cpu, inIrq)
  <2>1. running' = running  BY <1>3 DEF SchedWakeup, runVars
  <2>2. CASE BecomesWaker(from, dest)
    <3>1. waker' = [waker EXCEPT ![dest] = from]  BY <1>3, <2>2 DEF SchedWakeup
    <3>2. running[dest] = 0 /\ from \notin DontBlame  BY <2>2 DEF BecomesWaker
    <3> QED  BY <2>1, <3>1, <3>2 DEF WakerOfSleepers, TypeOK
  <2>3. CASE ~BecomesWaker(from, dest)
    <3>1. waker' = waker  BY <1>3, <2>3 DEF SchedWakeup
    <3> QED  BY <2>1, <3>1 DEF WakerOfSleepers
  <2> QED  BY <2>2, <2>3
<1>4. ASSUME NEW gone, Delete(gone), Processes \subseteq gone
      PROVE  WakerOfSleepers'
  BY <1>4 DEF Delete, WakerOfSleepers
<1>5. ASSUME NEW cpu \in CPUs, NEW time \in Stamps, HandleTracePoint(cpu, time)
      PROVE  \/ UNCHANGED <<running, waker>>
             \/ \E prevIsIdle \in BOOLEAN, next \in Processes :
                  SchedSwitch(cpu, time, prevIsIdle, next)
             \/ \E inIrq \in BOOLEAN, dest \in Processes : SchedWakeup(cpu, time, inIrq, dest)
  BY <1>5
  DEF HandleTracePoint, OtherRecord, IrqHandlerEntry, SoftirqEntry, StartInterrupt, InterruptExit,
      EndInterrupt, TimerExpireEntry, HrtimerExpireEntry, FireTimer, SkipDeferred,
      TimerExpireExit, DoneTimer, WorkqueueExecuteStart, WorkqueueExecuteEnd, DoneWork,
      EnterIdle, ExitIdle, GpuSubmit, WritebackInodeDirty, DirtyInode, runVars, wakerVars
<1>6. CASE StartMeasurement  BY <1>1, <1>6 DEF StartMeasurement, runVars, wakerVars
<1>7. CASE BeginProcessing  BY <1>4, <1>7 DEF BeginProcessing
<1>8. CASE EndProcessData  BY <1>4, <1>8 DEF EndProcessData, Consumers
<1>9. CASE UNCHANGED vars  BY <1>1, <1>9 DEF vars, runVars, wakerVars
<1> QED  BY <1>1, <1>2, <1>3, <1>5, <1>6, <1>7, <1>8, <1>9 DEF Next

\* No process that runs has a waker, and no waker is on the dont_blame_me list,
\* even when the switch that stopped a process was lost.
THEOREM WakersAreOfSleepers == Spec => []WakerOfSleepers
<1>1. Init => WakerOfSleepers  BY DEF Init, WakerOfSleepers, NoWaker
<1>2. TypeInv => TypeOK  BY DEF TypeInv
<1> QED  BY <1>1, <1>2, NextKeepsWakers, TypeInvariant, PTL DEF Spec

\* Blame for somebody on the list comes from that process's own switch.
LEMMA NextHonoursDontBlame ==
  ASSUME TypeOK, WakerOfSleepers, Next, NEW cpu \in CPUs,
         cpu_blame'[cpu] \in DontBlame \ {cpu_blame[cpu]}
  PROVE  cpu_stack'[cpu] = <<cpu_blame'[cpu]>>
<1>1. NULL \notin DontBlame /\ DontBlame \subseteq Processes
  BY SubsetsAssumption, KindsAssumption DEF Consumers
<1>2. CASE StartMeasurement \/ BeginProcessing \/ EndProcessData
  BY <1>1, <1>2, PhaseBlame DEF ResetBlame
<1>3. ASSUME NEW here \in CPUs, NEW time \in Stamps, HandleTracePoint(here, time)
      PROVE  cpu_stack'[cpu] = <<cpu_blame'[cpu]>>
  <2>1. ASSUME NEW c \in Consumers \ Processes, NEW level \in Levels \ {0},
               change_blame(here, c, level)
        PROVE  FALSE
    BY <1>1, <2>1 DEF change_blame, TypeOK
  <2>2. cpu_blame' # cpu_blame  OBVIOUS
  <2>3. ASSUME NEW c, NEW level, consume_blame(here, c, level)
        PROVE  cpu = here /\ cpu_blame'[cpu] = c
    BY <1>1, <2>3 DEF consume_blame, Charge, TypeOK
  <2>4. ~consume_blame(here, cpu_blame[here], cpu_level[here])  BY <2>3
  <2>5. PICK c \in Processes :
          /\ consume_blame(here, c, LEVEL_PROCESS)
          /\ \/ \E p \in Processes : c = waker[p]
             \/ cpu_stack' = [cpu_stack EXCEPT ![here] = <<c>>]
    BY <1>3, <2>1, <2>2, <2>4, HandlerBlame DEF blameVars, PutForward
  <2>6. cpu = here /\ cpu_blame'[cpu] = c  BY <2>3, <2>5
  <2>7. c \in DontBlame /\ c # NULL  BY <1>1, <2>6
  <2>8. \A p \in Processes : c # waker[p]  BY <2>7 DEF WakerOfSleepers
  <2> QED  BY <2>5, <2>6, <2>8 DEF TypeOK
<1> QED  BY <1>2, <1>3 DEF Next

\* The X server, D-Bus and interrupts are blamed for their own switch only.
THEOREM DontBlameIsHonoured == Spec => DontBlameHonoured
<1>1. TypeInv => TypeOK  BY DEF TypeInv
<1>2. TypeOK /\ WakerOfSleepers /\ [Next]_vars =>
        [\A cpu \in CPUs : cpu_blame'[cpu] \in DontBlame \ {cpu_blame[cpu]} =>
           cpu_stack'[cpu] = <<cpu_blame'[cpu]>>]_vars
  BY NextHonoursDontBlame
<1> QED  BY <1>1, <1>2, TypeInvariant, WakersAreOfSleepers, PTL DEF Spec, DontBlameHonoured
-----------------------------------------------------------------------------
-----------------------------------------------------------------------------
(***************************************************************************)
(* The stacks: where processes stand on them, that what runs is on one,    *)
(* and that nothing on them, blamed or remembered as a waker has been      *)
(* deleted.                                                                *)
(***************************************************************************)

\* What can be on top of a process.
Contexts == Interrupts \cup Timers \cup Works

\* Contexts are consumers, but no processes.
LEMMA ContextsType == Contexts \subseteq Consumers \ Processes
BY KindsAssumption DEF Contexts, Consumers

\* What a record may do to the stack of its CPU, and to no other CPU's: nothing,
\* or push or pop a context, or it is a switch, which alone starts and stops
\* processes.  What a record puts there exists, and it deletes nothing.
LEMMA HandlerStack ==
  ASSUME TypeOK, NEW cpu \in CPUs, NEW time \in Stamps, HandleTracePoint(cpu, time)
  PROVE  /\ objects \subseteq objects'
         /\ \/ /\ UNCHANGED runVars
               /\ \/ UNCHANGED cpu_stack
                  \/ \E c \in Contexts \cap objects' : push_consumer(cpu, c)
                  \/ current_consumer(cpu) \in Contexts /\ pop_consumer(cpu)
            \/ \E prevIsIdle \in BOOLEAN, next \in Processes \cap objects' :
                 SchedSwitch(cpu, time, prevIsIdle, next)
<1> DEFINE Moves == \/ /\ UNCHANGED runVars
                       /\ \/ UNCHANGED cpu_stack
                          \/ \E c \in Contexts \cap objects' : push_consumer(cpu, c)
                          \/ current_consumer(cpu) \in Contexts /\ pop_consumer(cpu)
                    \/ \E prevIsIdle \in BOOLEAN, next \in Processes \cap objects' :
                         SchedSwitch(cpu, time, prevIsIdle, next)
<1>1. CASE OtherRecord(time)  BY <1>1 DEF OtherRecord
<1>2. ASSUME NEW prevIsIdle \in BOOLEAN, NEW next \in Processes,
             SchedSwitch(cpu, time, prevIsIdle, next)
      PROVE  objects \subseteq objects' /\ Moves
  BY <1>2 DEF SchedSwitch
<1>3. ASSUME NEW inIrq \in BOOLEAN, NEW dest \in Processes, SchedWakeup(cpu, time, inIrq, dest)
      PROVE  objects \subseteq objects' /\ Moves
  BY <1>3 DEF SchedWakeup
<1>4. ASSUME NEW irq \in Interrupts, StartInterrupt(cpu, time, irq)
      PROVE  objects \subseteq objects' /\ Moves
  BY <1>4 DEF StartInterrupt, Contexts
<1>5. ASSUME \/ \E handler \in HardIrqs : IrqHandlerEntry(cpu, time, handler)
             \/ \E vec \in SoftIrqs : SoftirqEntry(cpu, time, vec)
      PROVE  objects \subseteq objects' /\ Moves
  BY <1>4, <1>5, InterruptObjects DEF IrqHandlerEntry, SoftirqEntry
<1>6. CASE InterruptExit(cpu, time)
  BY <1>1, <1>6 DEF InterruptExit, EndInterrupt, Contexts
<1>7. ASSUME NEW timer \in Timers, NEW struct \in TimerStructs,
             \/ TimerExpireEntry(cpu, time, timer, struct)
             \/ HrtimerExpireEntry(cpu, time, timer, struct)
      PROVE  objects \subseteq objects' /\ Moves
  <2>1. CASE FireTimer(cpu, time, timer, struct)  BY <2>1 DEF FireTimer, Contexts
  <2>2. CASE SkipDeferred(time, timer)  BY <2>2 DEF SkipDeferred
  <2> QED  BY <1>7, <2>1, <2>2 DEF TimerExpireEntry, HrtimerExpireEntry
<1>8. ASSUME NEW struct \in TimerStructs, TimerExpireExit(cpu, time, struct)
      PROVE  objects \subseteq objects' /\ Moves
  BY <1>1, <1>8 DEF TimerExpireExit, DoneTimer, Contexts
<1>9. ASSUME NEW work \in Works, NEW struct \in WorkStructs,
             WorkqueueExecuteStart(cpu, time, work, struct)
      PROVE  objects \subseteq objects' /\ Moves
  BY <1>9 DEF WorkqueueExecuteStart, Contexts
<1>10. ASSUME NEW struct \in WorkStructs, WorkqueueExecuteEnd(cpu, time, struct)
       PROVE  objects \subseteq objects' /\ Moves
  BY <1>1, <1>10 DEF WorkqueueExecuteEnd, DoneWork, Contexts
<1>11. CASE \/ EnterIdle(cpu, time)
            \/ ExitIdle(cpu, time)
            \/ \E inIrq \in BOOLEAN : GpuSubmit(cpu, time, inIrq)
            \/ WritebackInodeDirty(cpu, time)
  BY <1>1, <1>11 DEF EnterIdle, ExitIdle, GpuSubmit, WritebackInodeDirty, DirtyInode
<1> QED
  BY <1>1, <1>2, <1>3, <1>5, <1>6, <1>7, <1>8, <1>9, <1>10, <1>11 DEF HandleTracePoint

\* Starting and ending a measurement leaves or empties the stacks.
LEMMA PhaseStack ==
  ASSUME StartMeasurement \/ BeginProcessing \/ EndProcessData
  PROVE  \/ phase' # "processing" /\ UNCHANGED cpu_stack
         \/ cpu_stack' = [cpu \in CPUs |-> <<>>]
BY DEF StartMeasurement, BeginProcessing, EndProcessData

\* A stack after a push: the new entry above the old ones.
LEMMA PushedStack ==
  ASSUME TypeOK, NEW cpu \in CPUs, NEW c \in Consumers, push_consumer(cpu, c)
  PROVE  /\ \A other \in CPUs \ {cpu} : cpu_stack'[other] = cpu_stack[other]
         /\ DOMAIN cpu_stack'[cpu] = 1..Len(cpu_stack[cpu]) + 1
         /\ Len(cpu_stack'[cpu]) = Len(cpu_stack[cpu]) + 1
         /\ Len(cpu_stack[cpu]) \in Nat
         /\ \A i \in DOMAIN cpu_stack[cpu] : cpu_stack'[cpu][i] = cpu_stack[cpu][i]
         /\ cpu_stack'[cpu][Len(cpu_stack[cpu]) + 1] = c
<1>1. cpu_stack[cpu] \in Seq(Consumers)  BY DEF TypeOK
<1>2. cpu_stack'[cpu] = Append(cpu_stack[cpu], c)  BY DEF push_consumer, TypeOK
<1>3. \A other \in CPUs \ {cpu} : cpu_stack'[other] = cpu_stack[other]
  BY DEF push_consumer, TypeOK
<1> QED  BY <1>1, <1>2, <1>3

\* A stack after a pop of its top: the other entries as they were.
LEMMA PoppedStack ==
  ASSUME TypeOK, NEW cpu \in CPUs, current_consumer(cpu) \in Contexts, pop_consumer(cpu)
  PROVE  /\ \A other \in CPUs \ {cpu} : cpu_stack'[other] = cpu_stack[other]
         /\ Len(cpu_stack[cpu]) \in Nat \ {0}
         /\ current_consumer(cpu) = cpu_stack[cpu][Len(cpu_stack[cpu])]
         /\ DOMAIN cpu_stack'[cpu] = 1..Len(cpu_stack[cpu]) - 1
         /\ Len(cpu_stack'[cpu]) = Len(cpu_stack[cpu]) - 1
         /\ \A i \in DOMAIN cpu_stack'[cpu] : cpu_stack'[cpu][i] = cpu_stack[cpu][i]
<1>1. cpu_stack[cpu] \in Seq(Consumers)  BY DEF TypeOK
<1>2. cpu_stack[cpu] # <<>>
  BY ContextsType, KindsAssumption DEF current_consumer
<1>3. Len(cpu_stack[cpu]) \in Nat \ {0}  BY <1>1, <1>2
<1>4. cpu_stack'[cpu] = SubSeq(cpu_stack[cpu], 1, Len(cpu_stack[cpu]) - 1)
  BY DEF pop_consumer, Popped, TypeOK
<1>5. \A other \in CPUs \ {cpu} : cpu_stack'[other] = cpu_stack[other]
  BY DEF pop_consumer, TypeOK
<1>6. current_consumer(cpu) = cpu_stack[cpu][Len(cpu_stack[cpu])]
  BY <1>2 DEF current_consumer
<1> QED  BY <1>1, <1>3, <1>4, <1>5, <1>6
-----------------------------------------------------------------------------
(***************************************************************************)
(* Processes at the bottom.                                                *)
(***************************************************************************)

\* A push adds no process, a pop moves none, a switch leaves one entry.
LEMMA NextKeepsBottom == TypeOK /\ ProcessAtBottom /\ [Next]_vars => ProcessAtBottom'
<1> SUFFICES ASSUME TypeOK, ProcessAtBottom, [Next]_vars PROVE ProcessAtBottom'  OBVIOUS
<1>1. CASE UNCHANGED cpu_stack  BY <1>1 DEF ProcessAtBottom
<1>2. CASE StartMeasurement \/ BeginProcessing \/ EndProcessData
  BY <1>1, <1>2, PhaseStack DEF ProcessAtBottom
<1>3. ASSUME NEW cpu \in CPUs, NEW time \in Stamps, HandleTracePoint(cpu, time)
      PROVE  ProcessAtBottom'
  <2> DEFINE n == Len(cpu_stack[cpu])
  <2>1. ASSUME NEW c \in Contexts, push_consumer(cpu, c)
        PROVE  ProcessAtBottom'
    <3>1. c \in Consumers /\ c \notin Processes  BY ContextsType
    <3>2. \A i \in 2..n + 1 : cpu_stack'[cpu][i] \notin Processes
      <4>1. n \in Nat /\ cpu_stack'[cpu][n + 1] = c
            /\ \A i \in DOMAIN cpu_stack[cpu] : cpu_stack'[cpu][i] = cpu_stack[cpu][i]
        BY <2>1, <3>1, PushedStack
      <4>2. DOMAIN cpu_stack[cpu] = 1..n  BY DEF TypeOK
      <4>3. \A i \in 2..n : cpu_stack[cpu][i] \notin Processes  BY DEF ProcessAtBottom
      <4> QED  BY <3>1, <4>1, <4>2, <4>3
    <3>3. Len(cpu_stack'[cpu]) = n + 1
          /\ \A other \in CPUs \ {cpu} : cpu_stack'[other] = cpu_stack[other]
      BY <2>1, <3>1, PushedStack
    <3> QED  BY <3>2, <3>3 DEF ProcessAtBottom
  <2>2. CASE current_consumer(cpu) \in Contexts /\ pop_consumer(cpu)
    <3>1. /\ n \in Nat \ {0}
          /\ DOMAIN cpu_stack'[cpu] = 1..n - 1
          /\ Len(cpu_stack'[cpu]) = n - 1
          /\ \A i \in DOMAIN cpu_stack'[cpu] : cpu_stack'[cpu][i] = cpu_stack[cpu][i]
          /\ \A other \in CPUs \ {cpu} : cpu_stack'[other] = cpu_stack[other]
      BY <2>2, PoppedStack
    <3>2. \A i \in 2..n - 1 : cpu_stack'[cpu][i] \notin Processes
      BY <3>1 DEF ProcessAtBottom
    <3> QED  BY <3>1, <3>2 DEF ProcessAtBottom
  <2>3. ASSUME NEW c \in Processes, cpu_stack' = [cpu_stack EXCEPT ![cpu] = <<c>>]
        PROVE  ProcessAtBottom'
    <3>1. Len(cpu_stack'[cpu]) = 1
          /\ \A other \in CPUs \ {cpu} : cpu_stack'[other] = cpu_stack[other]
      BY <2>3 DEF TypeOK
    <3> QED  BY <3>1 DEF ProcessAtBottom
  <2>4. ASSUME NEW prevIsIdle \in BOOLEAN, NEW next \in Processes,
               SchedSwitch(cpu, time, prevIsIdle, next)
        PROVE  ProcessAtBottom'
    BY <2>3, <2>4 DEF SchedSwitch, SwitchedStack
  <2> QED  BY <1>1, <1>3, <2>1, <2>2, <2>4, HandlerStack
<1>4. CASE UNCHANGED vars  BY <1>1, <1>4 DEF vars
<1> QED  BY <1>2, <1>3, <1>4 DEF Next

\* Whatever is lost, a process is only ever the lowest entry of a stack.
THEOREM ProcessesAtBottom == Spec => []ProcessAtBottom
<1>1. Init => ProcessAtBottom  BY DEF Init, ProcessAtBottom
<1>2. TypeInv => TypeOK  BY DEF TypeInv
<1> QED  BY <1>1, <1>2, NextKeepsBottom, TypeInvariant, PTL DEF Spec
-----------------------------------------------------------------------------
(***************************************************************************)
(* What runs is on a CPU.                                                  *)
(***************************************************************************)

\* RunningIsOnCpu needs to know that what runs has a start: deschedule_thread
\* leaves a process running that has none.
StartedIsOnCpu ==
  \A p \in Processes : running[p] = 1 =>
    /\ running_since[p] # Unset
    /\ \E cpu \in CPUs : Bottom(cpu) = p

\* Contexts come and go above the process at the bottom.
LEMMA BottomKept ==
  ASSUME TypeOK, NEW cpu \in CPUs,
         \/ \E c \in Contexts : push_consumer(cpu, c)
         \/ current_consumer(cpu) \in Contexts /\ pop_consumer(cpu),
         NEW here \in CPUs, Bottom(here) \in Processes
  PROVE  Bottom(here)' = Bottom(here)
<1> DEFINE n == Len(cpu_stack[cpu])
<1>1. NULL \notin Processes  BY KindsAssumption DEF Consumers
<1>2. cpu_stack[here] # <<>> /\ Bottom(here) = cpu_stack[here][1]
  BY <1>1 DEF Bottom
<1>3. CASE here # cpu
  <2>1. cpu_stack'[here] = cpu_stack[here]
    BY <1>3, ContextsType DEF push_consumer, pop_consumer, TypeOK
  <2> QED  BY <2>1 DEF Bottom
<1>4. ASSUME here = cpu, NEW c \in Contexts, push_consumer(cpu, c)
      PROVE  Bottom(here)' = Bottom(here)
  <2>1. c \in Consumers  BY ContextsType
  <2>2. cpu_stack[cpu] \in Seq(Consumers)  BY DEF TypeOK
  <2>3. 1 \in DOMAIN cpu_stack[cpu]  BY <1>2, <1>4, <2>2
  <2>4. cpu_stack'[cpu] = Append(cpu_stack[cpu], c)  BY <1>4 DEF push_consumer, TypeOK
  <2>5. cpu_stack'[cpu] # <<>> /\ cpu_stack'[cpu][1] = cpu_stack[cpu][1]
    BY <2>1, <2>2, <2>3, <2>4
  <2> QED  BY <1>2, <1>4, <2>5 DEF Bottom
<1>5. CASE here = cpu /\ current_consumer(cpu) \in Contexts /\ pop_consumer(cpu)
  <2>1. /\ n \in Nat \ {0}
        /\ current_consumer(cpu) = cpu_stack[cpu][n]
        /\ DOMAIN cpu_stack'[cpu] = 1..n - 1
        /\ \A i \in DOMAIN cpu_stack'[cpu] : cpu_stack'[cpu][i] = cpu_stack[cpu][i]
    BY <1>5, PoppedStack
  <2>2. n # 1  BY <1>2, <1>5, <2>1, ContextsType
  <2> HIDE DEF n
  <2>3. 1 \in 1..n - 1  BY <2>1, <2>2
  <2>4. 1 \in DOMAIN cpu_stack'[cpu]  BY <2>1, <2>3
  <2>5. cpu_stack'[cpu][1] = cpu_stack[cpu][1] /\ cpu_stack'[cpu] # <<>>  BY <2>1, <2>4
  <2> QED  BY <1>2, <1>5, <2>5 DEF Bottom
<1> QED  BY <1>3, <1>4, <1>5

\* A switch stops the process at the bottom, since it has a start and the start
\* is not in the future, and starts the one it puts there.
LEMMA SwitchKeepsStarted ==
  ASSUME TypeInv, StartedIsOnCpu, NEW cpu \in CPUs, NEW time \in Stamps,
         NEW prevIsIdle \in BOOLEAN, NEW next \in Processes,
         SchedSwitch(cpu, time, prevIsIdle, next)
  PROVE  StartedIsOnCpu'
<1> DEFINE old == OldProcess(cpu)
<1>1. Record(time) /\ RetireAndStart(old, prevIsIdle, next, time)
      /\ cpu_stack' = [cpu_stack EXCEPT ![cpu] = <<next>>]
  BY DEF SchedSwitch, SwitchedStack
<1>2. \A p \in Processes : running_since[p] \in Nat /\ running_since[p] <= time
  BY <1>1, StartsBefore DEF TypeInv, TypeOK
<1>3. Bottom(cpu)' = next /\ \A other \in CPUs \ {cpu} : Bottom(other)' = Bottom(other)
  BY <1>1 DEF Bottom, TypeInv, TypeOK
<1>4. time \in Nat \ {0}  BY BoundsAssumption DEF Stamps
<1> SUFFICES ASSUME NEW p \in Processes, running'[p] = 1
             PROVE  running_since'[p] # Unset /\ \E here \in CPUs : Bottom(here)' = p
  BY DEF StartedIsOnCpu
<1>5. CASE p = next
  <2>1. running_since'[p] = time
    BY <1>1, <1>5 DEF RetireAndStart, RunningSince
  <2> QED  BY <1>3, <1>4, <1>5, <2>1 DEF Unset
<1>6. CASE p # next
  <2>1. running[p] = 1 /\ ~(p = old /\ Retired(old, time))
    BY <1>1, <1>6 DEF RetireAndStart, TypeInv, TypeOK
  <2>2. running_since[p] # Unset  BY <2>1 DEF StartedIsOnCpu
  <2>3. time >= running_since[p]  BY <1>2, <1>4
  <2>4. p # NULL  BY KindsAssumption DEF Consumers
  <2>5. p # old  BY <2>1, <2>2, <2>3, <2>4 DEF Retired
  <2>6. running_since'[p] = running_since[p]
    BY <1>1, <1>6, <2>5 DEF RetireAndStart, RunningSince
  <2>7. PICK here \in CPUs : Bottom(here) = p  BY <2>1 DEF StartedIsOnCpu
  <2>8. here # cpu  BY <2>5, <2>7 DEF OldProcess
  <2> QED  BY <1>3, <2>2, <2>6, <2>7, <2>8
<1> QED  BY <1>5, <1>6

\* Nothing else starts or stops a process.
LEMMA NextKeepsStarted == TypeInv /\ StartedIsOnCpu /\ [Next]_vars => StartedIsOnCpu'
<1> SUFFICES ASSUME TypeInv, StartedIsOnCpu, [Next]_vars PROVE StartedIsOnCpu'  OBVIOUS
<1>1. TypeOK  BY DEF TypeInv
<1>2. CASE UNCHANGED <<running, running_since, cpu_stack>>
  BY <1>2 DEF StartedIsOnCpu, Bottom
<1>3. ASSUME NEW gone, Delete(gone), Processes \subseteq gone
      PROVE  StartedIsOnCpu'
  BY <1>1, <1>3 DEF Delete, Cleared, StartedIsOnCpu, TypeOK
<1>4. CASE StartMeasurement  BY <1>2, <1>4 DEF StartMeasurement, runVars
<1>5. CASE BeginProcessing  BY <1>3, <1>5 DEF BeginProcessing
<1>6. CASE EndProcessData  BY <1>3, <1>6 DEF EndProcessData, Consumers
<1>7. ASSUME NEW cpu \in CPUs, NEW time \in Stamps, HandleTracePoint(cpu, time)
      PROVE  StartedIsOnCpu'
  <2>1. ASSUME UNCHANGED <<running, running_since>>,
               \/ \E c \in Contexts : push_consumer(cpu, c)
               \/ current_consumer(cpu) \in Contexts /\ pop_consumer(cpu)
        PROVE  StartedIsOnCpu'
    <3>1. \A here \in CPUs : Bottom(here) \in Processes => Bottom(here)' = Bottom(here)
      BY <1>1, <2>1, BottomKept
    <3> QED  BY <2>1, <3>1 DEF StartedIsOnCpu
  <2>2. ASSUME NEW prevIsIdle \in BOOLEAN, NEW next \in Processes,
               SchedSwitch(cpu, time, prevIsIdle, next)
        PROVE  StartedIsOnCpu'
    BY <2>2, SwitchKeepsStarted
  <2> QED  BY <1>1, <1>2, <1>7, <2>1, <2>2, HandlerStack DEF runVars
<1>8. CASE UNCHANGED vars  BY <1>2, <1>8 DEF vars, runVars
<1> QED  BY <1>4, <1>5, <1>6, <1>7, <1>8 DEF Next

\* A process marked as running is at the bottom of some CPU's stack, whichever
\* switches were lost.
THEOREM RunningIsOnCpuAlways == Spec => []RunningIsOnCpu
<1>1. Init => StartedIsOnCpu  BY DEF Init, StartedIsOnCpu
<1>2. StartedIsOnCpu => RunningIsOnCpu  BY DEF StartedIsOnCpu, RunningIsOnCpu
<1> QED  BY <1>1, <1>2, NextKeepsStarted, TypeInvariant, PTL DEF Spec
-----------------------------------------------------------------------------
(***************************************************************************)
(* Nothing deleted is referred to.                                         *)
(***************************************************************************)
StacksLive == \A cpu \in CPUs : \A i \in DOMAIN cpu_stack[cpu] : cpu_stack[cpu][i] \in objects
BlamesLive == \A cpu \in CPUs : cpu_blame[cpu] \in objects \cup {NULL}
WakersLive == \A p \in Processes : {waker[p], last_waker[p]} \subseteq objects \cup {NULL}

\* What is pushed exists, and no record deletes anything.
LEMMA HandlerKeepsStacksLive ==
  ASSUME TypeOK, StacksLive, NEW cpu \in CPUs, NEW time \in Stamps, HandleTracePoint(cpu, time)
  PROVE  StacksLive'
<1>1. objects \subseteq objects'  BY HandlerStack
<1>2. ASSUME UNCHANGED cpu_stack
      PROVE  StacksLive'
  BY <1>1, <1>2 DEF StacksLive
<1>3. ASSUME NEW c \in Contexts \cap objects', push_consumer(cpu, c)
      PROVE  StacksLive'
  <2> DEFINE n == Len(cpu_stack[cpu])
  <2>1. c \in Consumers  BY ContextsType
  <2>2. /\ n \in Nat
        /\ DOMAIN cpu_stack'[cpu] = 1..n + 1
        /\ cpu_stack'[cpu][n + 1] = c
        /\ \A i \in DOMAIN cpu_stack[cpu] : cpu_stack'[cpu][i] = cpu_stack[cpu][i]
        /\ \A other \in CPUs \ {cpu} : cpu_stack'[other] = cpu_stack[other]
    BY <1>3, <2>1, PushedStack
  <2>3. DOMAIN cpu_stack[cpu] = 1..n  BY DEF TypeOK
  <2> HIDE DEF n
  <2>4. ASSUME NEW i \in DOMAIN cpu_stack'[cpu]
        PROVE  cpu_stack'[cpu][i] \in objects'
    <3>1. CASE i = n + 1  BY <1>3, <2>2, <3>1
    <3>2. CASE i # n + 1
      <4>1. i \in DOMAIN cpu_stack[cpu]  BY <2>2, <2>3, <2>4, <3>2
      <4> QED  BY <1>1, <2>2, <4>1 DEF StacksLive
    <3> QED  BY <3>1, <3>2
  <2>5. ASSUME NEW other \in CPUs \ {cpu}, NEW i \in DOMAIN cpu_stack'[other]
        PROVE  cpu_stack'[other][i] \in objects'
    <3>1. cpu_stack'[other] = cpu_stack[other]  BY <2>2
    <3> QED  BY <1>1, <2>5, <3>1 DEF StacksLive
  <2> QED  BY <2>4, <2>5 DEF StacksLive
<1>4. ASSUME current_consumer(cpu) \in Contexts, pop_consumer(cpu)
      PROVE  StacksLive'
  <2> DEFINE n == Len(cpu_stack[cpu])
  <2>1. /\ n \in Nat
        /\ DOMAIN cpu_stack'[cpu] = 1..n - 1
        /\ \A i \in DOMAIN cpu_stack'[cpu] : cpu_stack'[cpu][i] = cpu_stack[cpu][i]
        /\ \A other \in CPUs \ {cpu} : cpu_stack'[other] = cpu_stack[other]
    BY <1>4, PoppedStack
  <2>2. DOMAIN cpu_stack[cpu] = 1..n  BY DEF TypeOK
  <2> HIDE DEF n
  <2>3. DOMAIN cpu_stack'[cpu] \subseteq DOMAIN cpu_stack[cpu]  BY <2>1, <2>2
  <2>4. ASSUME NEW i \in DOMAIN cpu_stack'[cpu]
        PROVE  cpu_stack'[cpu][i] \in objects'
    BY <1>1, <2>1, <2>3, <2>4 DEF StacksLive
  <2>5. ASSUME NEW other \in CPUs \ {cpu}, NEW i \in DOMAIN cpu_stack'[other]
        PROVE  cpu_stack'[other][i] \in objects'
    <3>1. cpu_stack'[other] = cpu_stack[other]  BY <2>1
    <3> QED  BY <1>1, <2>5, <3>1 DEF StacksLive
  <2> QED  BY <2>4, <2>5 DEF StacksLive
<1>5. ASSUME NEW next \in objects', cpu_stack' = [cpu_stack EXCEPT ![cpu] = <<next>>]
      PROVE  StacksLive'
  <2>1. cpu_stack'[cpu] = <<next>>
        /\ \A other \in CPUs \ {cpu} : cpu_stack'[other] = cpu_stack[other]
    BY <1>5 DEF TypeOK
  <2>2. ASSUME NEW i \in DOMAIN cpu_stack'[cpu]
        PROVE  cpu_stack'[cpu][i] \in objects'
    BY <1>5, <2>1, <2>2
  <2>3. ASSUME NEW other \in CPUs \ {cpu}, NEW i \in DOMAIN cpu_stack'[other]
        PROVE  cpu_stack'[other][i] \in objects'
    <3>1. cpu_stack'[other] = cpu_stack[other]  BY <2>1
    <3> QED  BY <1>1, <2>3, <3>1 DEF StacksLive
  <2> QED  BY <2>2, <2>3 DEF StacksLive
<1>6. ASSUME NEW prevIsIdle \in BOOLEAN, NEW next \in Processes \cap objects',
             SchedSwitch(cpu, time, prevIsIdle, next)
      PROVE  StacksLive'
  BY <1>5, <1>6 DEF SchedSwitch, SwitchedStack
<1> QED  BY <1>2, <1>3, <1>4, <1>6, HandlerStack

\* Whoever is put forward exists: it is being pushed, switched to, or was
\* remembered as a waker.
LEMMA HandlerKeepsBlamesLive ==
  ASSUME TypeOK, StacksLive, BlamesLive, WakersLive,
         NEW cpu \in CPUs, NEW time \in Stamps, HandleTracePoint(cpu, time)
  PROVE  BlamesLive'
<1>1. objects \subseteq objects'  BY HandlerStack
<1>2. ASSUME NEW c \in objects' \cup {NULL},
             \A other \in CPUs : cpu_blame'[other] \in {cpu_blame[other], c, NULL}
      PROVE  BlamesLive'
  BY <1>1, <1>2 DEF BlamesLive
<1>3. CASE UNCHANGED cpu_blame  BY <1>2, <1>3
<1>4. CASE PutForward(cpu)
  BY <1>2, <1>4 DEF PutForward, change_blame, TypeOK
<1>5. ASSUME NEW c \in objects' \cup {NULL}, NEW level, consume_blame(cpu, c, level)
      PROVE  BlamesLive'
  BY <1>2, <1>5 DEF consume_blame, Charge, TypeOK
<1>6. ASSUME NEW c \in Processes, consume_blame(cpu, c, LEVEL_PROCESS),
             \/ \E p \in Processes : c = waker[p]
             \/ cpu_stack' = [cpu_stack EXCEPT ![cpu] = <<c>>]
      PROVE  BlamesLive'
  <2>1. CASE \E p \in Processes : c = waker[p]
    BY <1>1, <1>5, <1>6, <2>1 DEF WakersLive
  <2>2. CASE cpu_stack' = [cpu_stack EXCEPT ![cpu] = <<c>>]
    <3>1. StacksLive'  BY HandlerKeepsStacksLive
    <3>2. cpu_stack'[cpu] = <<c>>  BY <2>2 DEF TypeOK
    <3>3. 1 \in DOMAIN cpu_stack'[cpu] /\ cpu_stack'[cpu][1] = c  BY <3>2
    <3>4. c \in objects'  BY <3>1, <3>3 DEF StacksLive
    <3> QED  BY <1>5, <1>6, <3>4
  <2> QED  BY <1>6, <2>1, <2>2
<1>7. CASE consume_blame(cpu, cpu_blame[cpu], cpu_level[cpu])
  <2>1. cpu_blame[cpu] \in objects' \cup {NULL}  BY <1>1 DEF BlamesLive
  <2> QED  BY <1>5, <1>7, <2>1
<1> QED  BY <1>3, <1>4, <1>6, <1>7, HandlerBlame DEF blameVars

\* A waker is on top of the stack when it is remembered.
LEMMA HandlerKeepsWakersLive ==
  ASSUME TypeOK, StacksLive, WakersLive,
         NEW cpu \in CPUs, NEW time \in Stamps, HandleTracePoint(cpu, time)
  PROVE  WakersLive'
<1>1. objects \subseteq objects'  BY HandlerStack
<1>2. CASE UNCHANGED wakerVars  BY <1>1, <1>2 DEF WakersLive, wakerVars
<1>3. ASSUME NEW prevIsIdle \in BOOLEAN, NEW next \in Processes,
             SchedSwitch(cpu, time, prevIsIdle, next)
      PROVE  WakersLive'
  <2>1. \A p \in Processes : waker'[p] \in {NULL, waker[p]}
    BY <1>3 DEF SchedSwitch, RetireAndStart, WakersKept
  <2>2. last_waker' = last_waker  BY <1>3 DEF SchedSwitch
  <2> QED  BY <1>1, <2>1, <2>2 DEF WakersLive
<1>4. ASSUME NEW inIrq \in BOOLEAN, NEW dest \in Processes, SchedWakeup(cpu, time, inIrq, dest)
      PROVE  WakersLive'
  <2> DEFINE from == WakeupSource(cpu, inIrq)
  <2>1. from \in objects \cup {NULL}
    <3>1. CASE cpu_stack[cpu] = <<>>
      BY <3>1, KindsAssumption DEF WakeupSource, current_consumer, Consumers
    <3>2. CASE cpu_stack[cpu] # <<>>
      <4>1. cpu_stack[cpu] \in Seq(Consumers)  BY DEF TypeOK
      <4>2. Len(cpu_stack[cpu]) \in DOMAIN cpu_stack[cpu]  BY <3>2, <4>1
      <4> QED  BY <3>2, <4>2 DEF WakeupSource, current_consumer, StacksLive
    <3> QED  BY <3>1, <3>2
  <2> HIDE DEF from
  <2>2. waker' \in {waker, [waker EXCEPT ![dest] = from]}
        /\ last_waker' \in {last_waker, [last_waker EXCEPT ![dest] = from]}
    BY <1>4 DEF SchedWakeup, from
  <2>3. \A p \in Processes : /\ waker'[p] \in {waker[p], from}
                             /\ last_waker'[p] \in {last_waker[p], from}
    BY <2>2 DEF TypeOK
  <2> QED  BY <1>1, <2>1, <2>3 DEF WakersLive
<1>5. \/ UNCHANGED wakerVars
      \/ \E prevIsIdle \in BOOLEAN, next \in Processes : SchedSwitch(cpu, time, prevIsIdle, next)
      \/ \E inIrq \in BOOLEAN, dest \in Processes : SchedWakeup(cpu, time, inIrq, dest)
  BY DEF HandleTracePoint, OtherRecord, IrqHandlerEntry, SoftirqEntry, StartInterrupt,
         InterruptExit, EndInterrupt, TimerExpireEntry, HrtimerExpireEntry, FireTimer,
         SkipDeferred, TimerExpireExit, DoneTimer, WorkqueueExecuteStart, WorkqueueExecuteEnd,
         DoneWork, EnterIdle, ExitIdle, GpuSubmit, WritebackInodeDirty, DirtyInode, wakerVars
<1> QED  BY <1>2, <1>3, <1>4, <1>5

\* The handlers keep references alive, and process_process_data has dropped the
\* ones an earlier measurement left before it handles a record.
LEMMA NextKeepsLive == TypeOK /\ NoDanglingConsumer /\ [Next]_vars => NoDanglingConsumer'
<1> SUFFICES ASSUME TypeOK, NoDanglingConsumer, [Next]_vars PROVE NoDanglingConsumer'  OBVIOUS
<1>1. NoDanglingConsumer <=> (phase = "processing" => StacksLive /\ BlamesLive /\ WakersLive)
  BY DEF NoDanglingConsumer, StacksLive, BlamesLive, WakersLive
<1>2. NoDanglingConsumer' <=> (phase' = "processing" => StacksLive' /\ BlamesLive' /\ WakersLive')
  BY DEF NoDanglingConsumer, StacksLive, BlamesLive, WakersLive
<1>3. CASE StartMeasurement  BY <1>2, <1>3 DEF StartMeasurement
<1>4. CASE EndProcessData  BY <1>2, <1>4 DEF EndProcessData
<1>5. CASE BeginProcessing
  <2>1. StacksLive'  BY <1>5 DEF BeginProcessing, StacksLive
  <2>2. BlamesLive'  BY <1>5 DEF BeginProcessing, ResetBlame, BlamesLive
  <2>3. WakersLive'  BY <1>5 DEF BeginProcessing, Delete, WakersLive
  <2> QED  BY <1>2, <2>1, <2>2, <2>3
<1>6. ASSUME NEW cpu \in CPUs, NEW time \in Stamps, HandleTracePoint(cpu, time)
      PROVE  NoDanglingConsumer'
  <2>1. phase = "processing"
    BY <1>6
    DEF HandleTracePoint, OtherRecord, SchedSwitch, SchedWakeup, IrqHandlerEntry, SoftirqEntry,
        StartInterrupt, InterruptExit, EndInterrupt, TimerExpireEntry, HrtimerExpireEntry,
        FireTimer, SkipDeferred, TimerExpireExit, DoneTimer, WorkqueueExecuteStart,
        WorkqueueExecuteEnd, DoneWork, EnterIdle, ExitIdle, GpuSubmit, WritebackInodeDirty,
        DirtyInode, Record
  <2>2. StacksLive /\ BlamesLive /\ WakersLive  BY <1>1, <2>1
  <2> QED
    BY <1>2, <1>6, <2>2, HandlerKeepsStacksLive, HandlerKeepsBlamesLive, HandlerKeepsWakersLive
<1>7. CASE UNCHANGED vars
  BY <1>7 DEF vars, recordVars, blameVars, wakerVars, NoDanglingConsumer
<1> QED  BY <1>3, <1>4, <1>5, <1>6, <1>7 DEF Next

\* No stack, blame or waker refers to a consumer that has been deleted while
\* records are handled, although end_process_data deletes every consumer and
\* leaves the blame behind.
THEOREM NothingDangles == Spec => []NoDanglingConsumer
<1>1. Init => NoDanglingConsumer  BY DEF Init, NoDanglingConsumer
<1>2. TypeInv => TypeOK  BY DEF TypeInv
<1> QED  BY <1>1, <1>2, NextKeepsLive, TypeInvariant, PTL DEF Spec

-----------------------------------------------------------------------------
(***************************************************************************)
(* Hard disk hits.                                                         *)
(***************************************************************************)
\* Between measurements there are none, and the last one is not in the future.
HitsInv ==
  /\ SumOf(hard_disk_hits, Consumers) * (HardGap + 1) <= prev_disk_time
  /\ prev_disk_time <= last_stamp
  /\ phase # "processing" => hard_disk_hits = NoCounts

LEMMA HitsAreSum == \A f \in [Consumers -> Nat] : FoldFunction(+, 0, f) = SumOf(f, Consumers)
<1> SUFFICES ASSUME NEW f \in [Consumers -> Nat] PROVE FoldFunction(+, 0, f) = SumOf(f, Consumers)
  OBVIOUS
<1>1. DOMAIN f = Consumers  OBVIOUS
<1>2. FoldFunction(+, 0, f) = (CHOOSE g : IsSum(f, DOMAIN f, g))[DOMAIN f]
  BY DEF FoldFunction, FoldFunctionOnSet, MapThenFoldSet, IsSum, First
<1>3. SumOf(f, Consumers) = (CHOOSE g : IsSum(f, Consumers, g))[Consumers]  BY SumIs
<1> QED  BY <1>1, <1>2, <1>3

LEMMA NoHits == SumOf(NoCounts, Consumers) = 0
<1> DEFINE A == {T \in SUBSET Consumers : SumOf(NoCounts, T) = 0}
<1>1. {} \in A  BY SumOfNone
<1>2. ASSUME NEW T \in SUBSET Consumers, NEW x \in Consumers \ T, T \in A PROVE T \cup {x} \in A
  <2>1. IsFiniteSet(T)  BY FiniteAssumption, FS_Subset
  <2>2. NoCounts[x] = 0 /\ (\A y \in T : NoCounts[y] = 0)  BY DEF NoCounts
  <2>3. SumOf(NoCounts, T \cup {x}) = SumOf(NoCounts, T) + NoCounts[x]  BY <2>1, <2>2, SumAdd
  <2> QED  BY <1>2, <2>2, <2>3
<1>3. Consumers \in A
  <2> HIDE DEF A
  <2> QED  BY <1>1, <1>2, FiniteAssumption, OneByOne
<1> QED  BY <1>3

\* One more hit after a gap.
LEMMA OneMoreHit ==
  ASSUME NEW s \in Nat, NEW g \in Nat, NEW before \in Nat, NEW time \in Nat,
         s * (g + 1) <= before, time - before > g
  PROVE  (s + 1) * (g + 1) <= time
<1>1. (s + 1) * (g + 1) = s * (g + 1) + (g + 1) /\ s * (g + 1) \in Nat  OBVIOUS
<1>2. time >= before + (g + 1)  OBVIOUS
<1> QED  BY <1>1, <1>2

LEMMA NextKeepsHits == TypeOK /\ HitsInv /\ [Next]_vars => HitsInv'
<1> SUFFICES ASSUME TypeOK, HitsInv, [Next]_vars PROVE HitsInv'  OBVIOUS
<1>1. prev_disk_time \in Nat /\ last_stamp \in Nat /\ hard_disk_hits \in [Consumers -> Nat] /\ HardGap \in Nat
  BY BoundsAssumption DEF TypeOK
<1>2. 0 * (HardGap + 1) = 0  BY <1>1
<1>3. CASE StartMeasurement
  <2>1. hard_disk_hits' = NoCounts /\ prev_disk_time' = 0 /\ last_stamp' = 0
    BY <1>3 DEF StartMeasurement, HitsInv
  <2> QED  BY <1>2, <2>1, NoHits DEF HitsInv
<1>4. CASE BeginProcessing
  <2>1. hard_disk_hits = NoCounts /\ hard_disk_hits' = Cleared(hard_disk_hits, Processes \cup Interrupts)
    BY <1>4 DEF BeginProcessing, HitsInv, Delete
  <2>2. hard_disk_hits' = NoCounts  BY <2>1 DEF Cleared, NoCounts
  <2> QED  BY <1>4, <2>1, <2>2 DEF BeginProcessing, HitsInv
<1>5. CASE EndProcessData
  <2>1. hard_disk_hits' = Cleared(hard_disk_hits, Consumers)  BY <1>5 DEF EndProcessData, Delete
  <2>2. hard_disk_hits' = NoCounts  BY <1>1, <2>1 DEF Cleared, NoCounts
  <2>3. UNCHANGED <<prev_disk_time, last_stamp>>  BY <1>5 DEF EndProcessData
  <2> QED  BY <1>1, <1>2, <2>2, <2>3, NoHits DEF HitsInv
<1>6. ASSUME NEW cpu \in CPUs, NEW time \in Stamps, HandleTracePoint(cpu, time)
      PROVE  HitsInv'
  <2>1. phase' = "processing" /\ time \in Nat /\ time >= last_stamp /\ last_stamp' = time
    <3>1. Record(time)
      BY <1>6
      DEF HandleTracePoint, OtherRecord, SchedSwitch, SchedWakeup, IrqHandlerEntry, SoftirqEntry,
          StartInterrupt, InterruptExit, EndInterrupt, TimerExpireEntry, HrtimerExpireEntry,
          FireTimer, SkipDeferred, TimerExpireExit, DoneTimer, WorkqueueExecuteStart,
          WorkqueueExecuteEnd, DoneWork, EnterIdle, ExitIdle, GpuSubmit, WritebackInodeDirty,
          DirtyInode
    <3>2. time \in Nat  BY BoundsAssumption DEF Stamps
    <3> QED  BY <1>1, <3>1, <3>2 DEF Record, InOrder
  <2>2. CASE UNCHANGED <<hard_disk_hits, prev_disk_time>>  BY <1>1, <2>1, <2>2 DEF HitsInv
  <2>3. CASE DirtyInode(cpu, time)
    <3> DEFINE c == current_consumer(cpu)
    <3>1. c \in Consumers /\ prev_disk_time' = time  BY <2>3 DEF DirtyInode, Consumers
    <3>2. CASE ~IsHardHit(time)
      <4>1. hard_disk_hits' = hard_disk_hits  BY <2>3, <3>2 DEF DirtyInode
      <4>2. SumOf(hard_disk_hits, Consumers) * (HardGap + 1) <= time
        <5>1. SumOf(hard_disk_hits, Consumers) \in Nat  BY <1>1, FiniteAssumption, SumIsNat
        <5> DEFINE n == SumOf(hard_disk_hits, Consumers) * (HardGap + 1)
        <5>2. n \in Nat  BY <1>1, <5>1
        <5>3. n <= prev_disk_time /\ prev_disk_time <= last_stamp  BY DEF HitsInv
        <5> HIDE DEF n
        <5>4. n <= time  BY <1>1, <2>1, <5>2, <5>3
        <5> QED  BY <5>4 DEF n
      <4> QED  BY <2>1, <3>1, <4>1, <4>2 DEF HitsInv
    <3>3. CASE IsHardHit(time)
      <4>1. hard_disk_hits' = [hard_disk_hits EXCEPT ![c] = @ + 1]  BY <2>3, <3>3 DEF DirtyInode
      <4> HIDE DEF c
      <4>2. \A x \in Consumers : hard_disk_hits'[x] = IF x = c THEN hard_disk_hits[x] + 1 ELSE hard_disk_hits[x]
        BY <1>1, <4>1
      <4>3. \A x \in Consumers : hard_disk_hits[x] \in Int  BY <1>1
      <4>4. SumOf(hard_disk_hits', Consumers) = SumOf(hard_disk_hits, Consumers) + 1
        BY <3>1, <4>2, <4>3, FiniteAssumption, SumChange
      <4>5. SumOf(hard_disk_hits, Consumers) \in Nat  BY <1>1, FiniteAssumption, SumIsNat
      <4>6. (SumOf(hard_disk_hits, Consumers) + 1) * (HardGap + 1) <= time
        BY <1>1, <2>1, <3>3, <4>5, OneMoreHit DEF HitsInv, IsHardHit
      <4>7. SumOf(hard_disk_hits', Consumers) * (HardGap + 1) <= prev_disk_time'
        BY <3>1, <4>4, <4>6
      <4> QED  BY <2>1, <3>1, <4>7 DEF HitsInv
    <3> QED  BY <3>2, <3>3
  <2>4. UNCHANGED <<hard_disk_hits, prev_disk_time>> \/ DirtyInode(cpu, time)
    BY <1>6
    DEF HandleTracePoint, OtherRecord, SchedSwitch, SchedWakeup, IrqHandlerEntry, SoftirqEntry,
        StartInterrupt, InterruptExit, EndInterrupt, TimerExpireEntry, HrtimerExpireEntry,
        FireTimer, SkipDeferred, TimerExpireExit, DoneTimer, WorkqueueExecuteStart,
        WorkqueueExecuteEnd, DoneWork, EnterIdle, ExitIdle, GpuSubmit, WritebackInodeDirty, opVars
  <2> QED  BY <2>2, <2>3, <2>4
<1>7. CASE UNCHANGED vars  BY <1>7 DEF vars, recordVars, opVars, HitsInv
<1> QED  BY <1>3, <1>4, <1>5, <1>6, <1>7 DEF Next

\* However many processes and CPUs write, their hard disk hits fit into the time
\* up to the last write with a gap for each: prev_disk_time is one for all.
THEOREM HardHitsAreSpaced == Spec => []HardHitsSpaced
<1>1. Init => HitsInv
  <2> SUFFICES ASSUME Init PROVE HitsInv  OBVIOUS
  <2>1. hard_disk_hits = NoCounts /\ prev_disk_time = 0 /\ last_stamp = 0  BY DEF Init
  <2>2. 0 * (HardGap + 1) = 0  BY BoundsAssumption
  <2> QED  BY <2>1, <2>2, NoHits DEF HitsInv
<1>2. TypeInv => TypeOK  BY DEF TypeInv
<1>3. TypeOK /\ HitsInv => HardHitsSpaced  BY HitsAreSum DEF TypeOK, HitsInv, HardHitsSpaced
<1> QED  BY <1>1, <1>2, <1>3, NextKeepsHits, TypeInvariant, PTL DEF Spec

(***************************************************************************)
(* TraceTruth: a kernel that loses no record.                              *)
(***************************************************************************)

(***************************************************************************)
(* The inductive invariant.                                                *)
(***************************************************************************)
Entries    == [who : Consumers, key : TimerStructs \cup WorkStructs \cup {NULL}]
Members(s) == {s[i] : i \in DOMAIN s}
Held(cpu)  == Members(context[cpu])

TruthTypeOK ==
  /\ context \in [CPUs -> Seq(Entries)]
  /\ active \in [Consumers -> Nat]
  /\ alone \in [Consumers -> Nat]
  /\ overlap \in BOOLEAN

\* No consumer is twice in a CPU's contexts, and no timer is below a deferred one.
Distinct(s) == \A i, j \in DOMAIN s : s[i].who = s[j].who => i = j
Orderly(s) ==
  /\ Distinct(s)
  /\ \A i, j \in DOMAIN s : i < j /\ s[j].who \in Deferred => s[i].who \notin Timers

OrderlyContexts == \A cpu \in CPUs : Orderly(context[cpu])

\* Contexts are forgotten between measurements.
EmptyBetween == phase # "processing" => \A cpu \in CPUs : context[cpu] = <<>>

\* Callbacks run on several CPUs at once, and so do softirqs, but not unnoticed.
Shared(c) == c \in Timers \cup Works \/ (c \in SoftIrqs /\ overlap)

OnOneCPU ==
  \A cpu, other \in CPUs : \A e \in Held(cpu), d \in Held(other) :
    e.who = d.who => cpu = other \/ Shared(e.who)

\* A timer or work item in progress has a structure of its own.
KeyFits(e) == (e.who \in Timers => e.key \in TimerStructs) /\ (e.who \in Works => e.key \in WorkStructs)
KeysFit == \A cpu \in CPUs : \A e \in Held(cpu) : KeyFits(e)
KeysDiffer ==
  \A cpu, other \in CPUs : \A e \in Held(cpu), d \in Held(other) :
    e.who \in Timers \cup Works /\ d.who \in Timers \cup Works /\ e.key = d.key
      => e = d /\ cpu = other

\* When the code has it that an entry began.
Began ==
  [e \in Entries |->
     IF e.who \in Processes THEN running_since[e.who]
     ELSE IF e.who \in Interrupts THEN irq_since[e.who]
     ELSE IF e.who \in Timers THEN timer_since[e.key] ELSE work_since[e.key]]

\* No exit finds its entry's start missing.
BeginningsKnown == \A cpu \in CPUs : \A e \in Held(cpu) : e.who \notin Deferred => Began[e] # Unset

KernelInv ==
  /\ TruthTypeOK /\ EmptyBetween /\ OrderlyContexts /\ OnOneCPU
  /\ KeysFit /\ KeysDiffer /\ BeginningsKnown /\ StackMirrorsKernel

\* The time up to now of what is still in progress, for each consumer on each CPU.
Holds(s, c)  == \E e \in Members(s) : e.who = c
EntryOf(s, c) == CHOOSE e \in Members(s) : e.who = c
Spent(contexts, began, now) ==
  [c \in Consumers |-> [cpu \in CPUs |->
     IF Holds(contexts[cpu], c) THEN now - began[EntryOf(contexts[cpu], c)] ELSE 0]]

Exact(c) == c \in SoftIrqs => ~overlap

\* What was charged and what is still in progress are what was executed.
ChargesAddUp ==
  \A c \in Accounted :
    LET sum == accumulated_runtime[c] + SumOf(Spent(context, Began, last_stamp)[c], CPUs) IN
    sum <= active[c] /\ (Exact(c) => sum = active[c])

NeverCharged == \A c \in Idle \cup Deferred : accumulated_runtime[c] = 0

NothingBetween ==
  phase # "processing" => \A c \in Consumers : accumulated_runtime[c] = 0 /\ child_runtime[c] = 0

\* The time up to now since something began right on top of each consumer.
PlacesUnder(s, c) == {i \in DOMAIN s : i < Len(s) /\ s[i] = c}
OnTopOf(s, c)     == s[(CHOOSE i \in PlacesUnder(s, c) : TRUE) + 1]
TimeOnTop(s, c, began, now) ==
  IF PlacesUnder(Shown(s), c) = {} THEN 0 ELSE now - began[EntryOf(s, OnTopOf(Shown(s), c))]
Under(contexts, began, now) ==
  [c \in Consumers |-> [cpu \in CPUs |-> TimeOnTop(contexts[cpu], c, began, now)]]

\* What was charged to those below covers the time they were not innermost.
NestingAddsUp ==
  ~overlap => \A c \in Accounted :
    active[c] - alone[c] <= child_runtime[c] + SumOf(Under(context, Began, last_stamp)[c], CPUs)

TruthInv == TypeInv /\ KernelInv /\ ChargesAddUp /\ NeverCharged /\ NothingBetween /\ NestingAddsUp
-----------------------------------------------------------------------------
(***************************************************************************)
(* What is shown of a CPU's contexts.                                      *)
(***************************************************************************)

\* Induction over sequences, one member at a time.
LEMMA SeqInduction ==
  ASSUME NEW S, NEW A, <<>> \in A,
         \A s \in Seq(S) : \A e \in S : s \in A => Append(s, e) \in A
  PROVE  Seq(S) \subseteq A
<1> DEFINE N == {n \in Nat : \A s \in Seq(S) : Len(s) = n => s \in A}
<1>1. 0 \in N  OBVIOUS
<1>2. ASSUME NEW n \in Nat, n \in N PROVE n + 1 \in N
  <2> SUFFICES ASSUME NEW s \in Seq(S), Len(s) = n + 1 PROVE s \in A  OBVIOUS
  <2> DEFINE front == SubSeq(s, 1, Len(s) - 1)
  <2>1. front \in Seq(S) /\ Len(front) = n /\ s[Len(s)] \in S /\ s = Append(front, s[Len(s)])
    OBVIOUS
  <2> HIDE DEF front
  <2>2. front \in A  BY <1>2, <2>1
  <2> QED  BY <2>1, <2>2
<1>3. \A n \in Nat : n \in N
  <2> HIDE DEF N
  <2> QED  BY <1>1, <1>2, Induction
<1> QED  BY <1>3

LEMMA KernelStepsAreSteps == TruthNext => Next
<1> SUFFICES ASSUME TruthNext PROVE Next  OBVIOUS
<1>1. ASSUME NEW cpu \in CPUs, NEW time \in Stamps, KernelRecord(cpu, time)
      PROVE  HandleTracePoint(cpu, time)
  BY <1>1
  DEF KernelRecord, KernelOther, KernelSwitch, KernelIrqEntry, KernelSoftirqEntry,
      KernelInterruptExit, KernelTimerEntry, KernelTimerExit, KernelWorkStart, KernelWorkEnd,
      HandleTracePoint
<1> QED  BY <1>1 DEF TruthNext, Next
\* What is shown after each context.
LEMMA ShownRuns ==
  ASSUME NEW S, NEW ctx \in Seq(S),
         NEW A, <<>> \in A, \A a \in A : \A x \in S : ShownTo(a, x) \in A
  PROVE  \E t \in [0..Len(ctx) -> A] :
           /\ t[0] = <<>> /\ t[Len(ctx)] = Shown(ctx)
           /\ \A k \in 1..Len(ctx) : t[k] = ShownTo(t[k - 1], ctx[k])
<1> DEFINE f == [a \in A |-> [x \in S |-> ShownTo(a, x)]]
           Behind(g) == g = [s \in SUBSET DOMAIN ctx |->
                               IF s = {} THEN <<>> ELSE ShownTo(g[s \ {Max(s)}], ctx[Max(s)])]
<1>0. DOMAIN ctx = 1..Len(ctx)  OBVIOUS
<1>1. \E g : Behind(g)
  <2>1. \A a \in A : \A x \in S : f[a][x] = ShownTo(a, x)  OBVIOUS
  <2> HIDE DEF f
  <2>2. \A a \in A : \A x \in S : f[a][x] \in A  BY <2>1
  <2>3. PICK g : Folded(f, <<>>, ctx, g) /\ \A s \in SUBSET DOMAIN ctx : g[s] \in A
    BY <2>2, LeftFold
  <2>4. ASSUME NEW s \in SUBSET DOMAIN ctx, s # {}
        PROVE  f[g[s \ {Max(s)}]][ctx[Max(s)]] = ShownTo(g[s \ {Max(s)}], ctx[Max(s)])
    <3>1. Max(s) \in s  BY <2>4, MaxIn
    <3>2. ctx[Max(s)] \in S /\ g[s \ {Max(s)}] \in A  BY <2>3, <3>1
    <3> QED  BY <2>1, <3>2
  <2>5. Behind(g)  BY <2>3, <2>4 DEF Folded
  <2> QED  BY <2>5
<1>2. PICK g : Behind(g) /\ Shown(ctx) = g[DOMAIN ctx]
  BY <1>1 DEF Shown, FoldLeft, MapThenFoldSet
<1>3. \A s \in SUBSET DOMAIN ctx : g[s] = IF s = {} THEN <<>> ELSE ShownTo(g[s \ {Max(s)}], ctx[Max(s)])
  BY <1>2, Zenon
<1>4. ASSUME NEW s \in SUBSET DOMAIN ctx, s # {}, g[s \ {Max(s)}] \in A PROVE g[s] \in A
  <2>1. g[s] = ShownTo(g[s \ {Max(s)}], ctx[Max(s)])  BY <1>3, <1>4
  <2>2. ctx[Max(s)] \in S
    <3>1. Max(s) \in s  BY <1>4, MaxIn
    <3> QED  BY <3>1
  <2> QED  BY <1>4, <2>1, <2>2
<1>5. g[{}] = <<>>  BY <1>3
<1> HIDE DEF Behind, f
<1>6. PICK t \in [0..Len(ctx) -> A] : Course(g, t, Len(ctx))
  <2>1. g[{}] \in A  BY <1>5
  <2> QED  BY <1>4, <2>1, FoldCourse
<1>7. ASSUME NEW k \in 1..Len(ctx) PROVE t[k] = ShownTo(t[k - 1], ctx[k])
  <2>1. PICK s \in SUBSET (1..Len(ctx)) : s # {} /\ Max(s) = k /\ g[s] = t[k] /\ g[s \ {Max(s)}] = t[k - 1]
    BY <1>6, Zenon DEF Course
  <2>2. g[s] = ShownTo(g[s \ {Max(s)}], ctx[Max(s)])  BY <1>0, <1>3, <2>1
  <2> QED  BY <2>1, <2>2
<1>8. t[0] = <<>> /\ t[Len(ctx)] = Shown(ctx)  BY <1>0, <1>2, <1>5, <1>6 DEF Course
<1> QED  BY <1>7, <1>8

LEMMA ShownNone == Shown(<<>>) = <<>>
<1> DEFINE A == {<<>>}
           S == {}
<1>1. <<>> \in Seq(S) /\ Len(<<>>) = 0  OBVIOUS
<1>2. \A a \in A : \A x \in S : ShownTo(a, x) \in A  OBVIOUS
<1>3. <<>> \in A  OBVIOUS
<1> HIDE DEF A, S
<1>4. PICK t \in [0..Len(<<>>) -> A] : t[0] = <<>> /\ t[Len(<<>>)] = Shown(<<>>)
  BY <1>1, <1>2, <1>3, ShownRuns
<1> QED  BY <1>1, <1>4

\* One context more.
LEMMA ShownMore ==
  ASSUME NEW s \in Seq(Entries), NEW e \in Entries
  PROVE  Shown(Append(s, e)) = ShownTo(Shown(s), e) /\ Shown(s) \in Seq(Consumers)
<1> DEFINE A == Seq(Consumers)
           r == Append(s, e)
           n == Len(s)
<1>1. <<>> \in A  OBVIOUS
<1>2. \A a \in A : \A x \in Entries : ShownTo(a, x) \in A  BY DEF ShownTo, Entries
<1>3. /\ r \in Seq(Entries) /\ n \in Nat /\ Len(r) = n + 1 /\ r[n + 1] = e
      /\ \A k \in 1..n : r[k] = s[k]
  OBVIOUS
<1> HIDE DEF A, r, n
<1>4. PICK t \in [0..n -> A] : /\ t[0] = <<>> /\ t[n] = Shown(s)
                               /\ \A k \in 1..n : t[k] = ShownTo(t[k - 1], s[k])
  BY <1>1, <1>2, ShownRuns DEF n
<1>5. PICK u \in [0..(n + 1) -> A] : /\ u[0] = <<>> /\ u[n + 1] = Shown(r)
                                     /\ \A k \in 1..(n + 1) : u[k] = ShownTo(u[k - 1], r[k])
  <2>1. \E u \in [0..Len(r) -> A] : /\ u[0] = <<>> /\ u[Len(r)] = Shown(r)
                                   /\ \A k \in 1..Len(r) : u[k] = ShownTo(u[k - 1], r[k])
    <3>1. r \in Seq(Entries)  BY <1>3
    <3> QED  BY ONLY <1>1, <1>2, <3>1, ShownRuns
  <2> QED  BY <1>3, <2>1
<1> DEFINE N == {k \in Nat : k <= n => t[k] = u[k]}
<1>6. 0 \in N  BY <1>4, <1>5
<1>7. ASSUME NEW k \in Nat, k \in N PROVE k + 1 \in N
  <2> SUFFICES ASSUME k + 1 <= n PROVE t[k + 1] = u[k + 1]  OBVIOUS
  <2>1. k + 1 \in 1..n /\ k + 1 \in 1..(n + 1) /\ (k + 1) - 1 = k /\ k <= n  BY <1>3
  <2>2. t[k] = u[k]  BY <1>7, <2>1
  <2>3. t[k + 1] = ShownTo(t[k], s[k + 1])  BY <1>4, <2>1
  <2>4. u[k + 1] = ShownTo(u[k], r[k + 1])  BY <1>5, <2>1
  <2>5. r[k + 1] = s[k + 1]  BY <1>3, <2>1
  <2> QED  BY <2>2, <2>3, <2>4, <2>5
<1>8. n \in N
  <2> HIDE DEF N
  <2> QED  BY <1>3, <1>6, <1>7, Induction
<1>9. t[n] = u[n] /\ t[n] \in A
  <2>1. n \in 0..n  BY <1>3
  <2> QED  BY <1>3, <1>4, <1>8, <2>1
<1>10. u[n + 1] = ShownTo(u[n], e)
  <2>1. n + 1 \in 1..(n + 1) /\ (n + 1) - 1 = n  BY <1>3
  <2> QED  BY <1>3, <1>5, <2>1
<1> QED  BY <1>4, <1>5, <1>9, <1>10 DEF A, r

\* The consumers shown are those of the contexts, but for the deferred.
Showing(s) ==
  /\ Shown(s) \in Seq(Consumers)
  /\ \A c : (\E i \in DOMAIN Shown(s) : Shown(s)[i] = c)
               <=> c \notin Deferred /\ \E i \in DOMAIN s : s[i].who = c
  /\ Distinct(s) => \A i, j \in DOMAIN Shown(s) : Shown(s)[i] = Shown(s)[j] => i = j

LEMMA ShownMembers == \A s \in Seq(Entries) : Showing(s)
<1> DEFINE A == {s \in Seq(Entries) : Showing(s)}
<1>1. <<>> \in A
  <2>1. <<>> \in Seq(Entries) /\ <<>> \in Seq(Consumers) /\ \A i : i \notin DOMAIN <<>>  OBVIOUS
  <2>2. Showing(<<>>)  BY <2>1, ShownNone, Zenon DEF Showing
  <2> QED  BY <2>1, <2>2
<1>2. ASSUME NEW s \in Seq(Entries), NEW e \in Entries, s \in A PROVE Append(s, e) \in A
  <2> DEFINE r == Append(s, e)
             n == Len(s)
             v == Shown(s)
             w == Shown(r)
             m == Len(v)
  <2>1. w = (IF e.who \in Deferred THEN v ELSE Append(v, e.who)) /\ v \in Seq(Consumers)
    BY ShownMore DEF ShownTo
  <2>2. e.who \in Consumers  BY DEF Entries
  <2>3. w \in Seq(Consumers) /\ r \in Seq(Entries)  BY <2>1, <2>2
  <2>4. /\ n \in Nat /\ DOMAIN s = 1..n /\ DOMAIN r = 1..(n + 1) /\ r[n + 1] = e
        /\ \A k \in 1..n : r[k] = s[k]
    OBVIOUS
  <2>5. e.who \notin Deferred =>
          /\ m \in Nat /\ DOMAIN v = 1..m /\ DOMAIN w = 1..(m + 1) /\ w[m + 1] = e.who
          /\ \A k \in 1..m : w[k] = v[k]
    BY <2>1, <2>2
  <2>6. Showing(s)  BY <1>2
  <2> HIDE DEF r, n, v, w, m
  <2>7. ASSUME NEW c
        PROVE  (\E i \in DOMAIN w : w[i] = c) <=> c \notin Deferred /\ \E i \in DOMAIN r : r[i].who = c
    <3>1. (\E i \in DOMAIN v : v[i] = c) <=> c \notin Deferred /\ \E i \in DOMAIN s : s[i].who = c
      BY <2>6 DEF Showing, v
    <3>2. (\E i \in DOMAIN r : r[i].who = c) <=> c = e.who \/ \E i \in DOMAIN s : s[i].who = c
      BY <2>4
    <3>3. CASE e.who \in Deferred  BY <2>1, <3>1, <3>2, <3>3
    <3>4. CASE e.who \notin Deferred
      <4>1. (\E i \in DOMAIN w : w[i] = c) <=> c = e.who \/ \E i \in DOMAIN v : v[i] = c
        <5>1. m \in Nat /\ DOMAIN v = 1..m /\ DOMAIN w = 1..(m + 1)  BY <2>5, <3>4, Zenon
        <5>2. 1..(m + 1) = 1..m \cup {m + 1}  BY <5>1
        <5>3. w[m + 1] = e.who /\ \A k \in 1..m : w[k] = v[k]  BY <2>5, <3>4, Zenon
        <5> QED  BY <5>1, <5>2, <5>3, Zenon
      <4> QED  BY <3>1, <3>2, <3>4, <4>1
    <3> QED  BY <3>3, <3>4
  <2>8. ASSUME Distinct(r)
        PROVE  \A i, j \in DOMAIN w : w[i] = w[j] => i = j
    <3>0. \A i, j \in DOMAIN r : r[i].who = r[j].who => i = j  BY <2>8 DEF Distinct
    <3>1. Distinct(s)  BY <2>4, <3>0 DEF Distinct
    <3>2. \A i, j \in DOMAIN v : v[i] = v[j] => i = j  BY <2>6, <3>1 DEF Showing, v
    <3>3. CASE e.who \in Deferred  BY <2>1, <3>2, <3>3
    <3>4. CASE e.who \notin Deferred
      <4>1. \A i \in DOMAIN s : s[i].who # e.who  BY <2>4, <3>0
      <4>2. \A i \in DOMAIN v : v[i] # e.who  BY <2>6, <4>1 DEF Showing, v
      <4> QED  BY <2>5, <3>2, <3>4, <4>2
    <3> QED  BY <3>3, <3>4
  <2> QED  BY <2>3, <2>7, <2>8 DEF Showing, r, w
<1>3. Seq(Entries) \subseteq A
  <2> HIDE DEF A
  <2> QED  BY <1>1, <1>2, SeqInduction
<1> QED  BY <1>3

\* Something begins on top.
LEMMA Entering ==
  ASSUME NEW s \in Seq(Entries), NEW e \in Entries, Orderly(s), ~Holds(s, e.who),
         e.who \in Deferred => \A d \in Members(s) : d.who \notin Timers
  PROVE  /\ Append(s, e) \in Seq(Entries) /\ Orderly(Append(s, e))
         /\ Members(Append(s, e)) = Members(s) \cup {e}
<1> DEFINE r == Append(s, e)
           n == Len(s)
<1>1. /\ n \in Nat /\ DOMAIN s = 1..n /\ DOMAIN r = 1..(n + 1) /\ r[n + 1] = e
      /\ (\A k \in 1..n : r[k] = s[k]) /\ r \in Seq(Entries)
  OBVIOUS
<1> HIDE DEF r, n
<1>2. \A i \in 1..n : s[i].who # e.who  BY <1>1 DEF Holds, Members
<1>3. Distinct(r)  BY <1>1, <1>2 DEF Orderly, Distinct
<1>4. \A i, j \in DOMAIN r : i < j /\ r[j].who \in Deferred => r[i].who \notin Timers
  BY <1>1 DEF Orderly, Members
<1>5. Members(r) = Members(s) \cup {e}
  <2>1. 1..(n + 1) = 1..n \cup {n + 1}  BY <1>1
  <2>2. DOMAIN r = DOMAIN s \cup {n + 1}  BY <1>1, <2>1
  <2>3. (\A k \in DOMAIN s : r[k] = s[k]) /\ r[n + 1] = e  BY <1>1
  <2> QED  BY <2>2, <2>3 DEF Members
<1> QED  BY <1>1, <1>3, <1>4, <1>5 DEF Orderly, r

\* What is on top ends.
LEMMA Leaving ==
  ASSUME NEW s \in Seq(Entries), s # <<>>, Orderly(s), NEW e, e = s[Len(s)]
  PROVE  /\ Front(s) \in Seq(Entries) /\ Orderly(Front(s)) /\ s = Append(Front(s), e)
         /\ e \in Entries /\ e \in Members(s) /\ Members(Front(s)) = Members(s) \ {e}
         /\ ~Holds(Front(s), e.who)
         /\ e.who \in Deferred => \A d \in Members(Front(s)) : d.who \notin Timers
<1> DEFINE r == Front(s)
           n == Len(r)
<1>1. /\ n \in Nat /\ Len(s) = n + 1 /\ DOMAIN s = 1..(n + 1) /\ DOMAIN r = 1..n /\ s[n + 1] = e
      /\ (\A k \in 1..n : r[k] = s[k]) /\ r \in Seq(Entries) /\ s = Append(r, e) /\ e \in Entries
  <2>1. Len(s) \in Nat /\ Len(s) # 0 /\ s[Len(s)] \in Entries /\ DOMAIN s = 1..Len(s)  OBVIOUS
  <2>2. r \in Seq(Entries) /\ Len(r) = Len(s) - 1 /\ \A k \in 1..(Len(s) - 1) : r[k] = s[k]
    BY <2>1 DEF Front
  <2>3. Len(s) = n + 1 /\ n \in Nat /\ DOMAIN r = 1..n  BY <2>1, <2>2
  <2>4. s = Append(r, s[Len(s)])  BY <2>1 DEF Front
  <2> QED  BY <2>1, <2>2, <2>3, <2>4
<1> HIDE DEF r, n
<1>2. /\ \A i, j \in 1..(n + 1) : s[i].who = s[j].who => i = j
      /\ \A i, j \in 1..(n + 1) : i < j /\ s[j].who \in Deferred => s[i].who \notin Timers
  BY <1>1 DEF Orderly, Distinct
<1>3. Orderly(r)  BY <1>1, <1>2 DEF Orderly, Distinct
<1>4. \A i \in 1..n : r[i].who # e.who  BY <1>1, <1>2
<1>5. ~Holds(r, e.who)  BY <1>1, <1>4 DEF Holds, Members
<1>6. e.who \in Deferred => \A d \in Members(r) : d.who \notin Timers
  BY <1>1, <1>2 DEF Members
<1>7. e \in Members(s) /\ Members(r) = Members(s) \ {e}
  <2>1. 1..(n + 1) = 1..n \cup {n + 1}  BY <1>1
  <2>2. DOMAIN s = DOMAIN r \cup {n + 1}  BY <1>1, <2>1
  <2>3. (\A k \in DOMAIN r : r[k] = s[k]) /\ s[n + 1] = e  BY <1>1
  <2>4. \A k \in DOMAIN r : r[k] # e  BY <1>1, <1>4
  <2> QED  BY <2>2, <2>3, <2>4 DEF Members
<1> QED  BY <1>1, <1>3, <1>5, <1>6, <1>7 DEF r

\* Nothing is in progress, or one thing.
LEMMA FewMembers ==
  /\ Orderly(<<>>) /\ Members(<<>>) = {} /\ <<>> \in Seq(Entries)
  /\ \A e \in Entries : /\ Orderly(<<e>>) /\ Members(<<e>>) = {e} /\ <<e>> \in Seq(Entries)
                        /\ Shown(<<e>>) = IF e.who \in Deferred THEN <<>> ELSE <<e.who>>
<1>1. DOMAIN <<>> = {} /\ <<>> \in Seq(Entries)  OBVIOUS
<1>2. Orderly(<<>>) /\ Members(<<>>) = {}  BY <1>1, Zenon DEF Orderly, Distinct, Members
<1>3. ASSUME NEW e \in Entries
      PROVE  /\ Orderly(<<e>>) /\ Members(<<e>>) = {e} /\ <<e>> \in Seq(Entries)
             /\ Shown(<<e>>) = IF e.who \in Deferred THEN <<>> ELSE <<e.who>>
  <2>1. Append(<<>>, e) = <<e>> /\ Append(<<>>, e.who) = <<e.who>> /\ ~Holds(<<>>, e.who)
    BY <1>2 DEF Holds
  <2>2. Orderly(Append(<<>>, e)) /\ Members(Append(<<>>, e)) = Members(<<>>) \cup {e}
        /\ Append(<<>>, e) \in Seq(Entries)
    BY <1>1, <1>2, <2>1, Entering
  <2>3. Shown(Append(<<>>, e)) = ShownTo(<<>>, e)  BY <1>1, ShownNone, ShownMore
  <2> QED  BY <1>2, <2>1, <2>2, <2>3 DEF ShownTo
<1> QED  BY <1>1, <1>2, <1>3
-----------------------------------------------------------------------------
(***************************************************************************)
(* What a record does to the contexts, and what the code does with it.     *)
(***************************************************************************)
sinces == <<running_since, irq_since, timer_since, work_since>>

SameStep == UNCHANGED <<context, overlap, cpu_stack, timeVars, sinces>>

EnterStep(cpu, e, time) ==
  /\ Enter(cpu, e.who, e.key)
  /\ e.who \notin Processes /\ KeyFits(e)
  /\ ~InContext(e.who, cpu)
  /\ e.who \in Deferred => \A t \in Timers : ~InContext(t, cpu)
  /\ \A other \in CPUs : InContext(e.who, other) => e.who \in SoftIrqs \cup Timers \cup Works
  /\ e.who \in Timers \cup Works => ~KeyInUse(e.key)
  /\ cpu_stack' = IF e.who \in Deferred THEN cpu_stack
                  ELSE [cpu_stack EXCEPT ![cpu] = Append(@, e.who)]
  /\ UNCHANGED <<timeVars, running_since>>
  /\ irq_since' = IF e.who \in Interrupts THEN [irq_since EXCEPT ![e.who] = time] ELSE irq_since
  /\ timer_since' = IF e.who \in Timers \ Deferred
                    THEN [timer_since EXCEPT ![e.key] = time] ELSE timer_since
  /\ work_since' = IF e.who \in Works THEN [work_since EXCEPT ![e.key] = time] ELSE work_since

LeaveStep(cpu, e, time) ==
  /\ context[cpu] # <<>> /\ e = context[cpu][Len(context[cpu])] /\ e.who \notin Processes
  /\ context' = [context EXCEPT ![cpu] = Front(@)]
  /\ UNCHANGED <<overlap, sinces>>
  /\ IF e.who \in Deferred THEN UNCHANGED <<cpu_stack, timeVars>>
     ELSE /\ pop_consumer(cpu)
          /\ accumulated_runtime' = [accumulated_runtime EXCEPT ![e.who] = @ + (time - Began[e])]
          /\ consumer_child_time(cpu, time - Began[e])

SwitchStep(cpu, next, time) ==
  /\ Len(context[cpu]) <= 1
  /\ context[cpu] # <<>> => Inner(cpu) \in Processes
  /\ \A other \in CPUs : ~InContext(next, other)
  /\ context' = [context EXCEPT ![cpu] = <<Entry(next, NULL)>>]
  /\ cpu_stack' = [cpu_stack EXCEPT ![cpu] = <<next>>]
  /\ running_since' = [running_since EXCEPT ![next] = time]
  /\ accumulated_runtime' =
       IF context[cpu] # <<>> /\ Inner(cpu) \notin Idle
       THEN [accumulated_runtime EXCEPT ![Inner(cpu)] = @ + (time - Began[context[cpu][1]])]
       ELSE accumulated_runtime
  /\ UNCHANGED <<overlap, child_runtime, irq_since, timer_since, work_since>>

\* The top of a stack.
LEMMA TopOfStack ==
  ASSUME KernelInv, NEW cpu \in CPUs, context[cpu] # <<>>, NEW e, e = context[cpu][Len(context[cpu])]
  PROVE  /\ e \in Entries /\ e \in Held(cpu)
         /\ e.who \notin Deferred =>
              current_consumer(cpu) = e.who /\ Popped(cpu) = Shown(Front(context[cpu]))
         /\ e.who \in Deferred =>
              current_consumer(cpu) \notin Timers /\ cpu_stack[cpu] = Shown(Front(context[cpu]))
<1> DEFINE s == context[cpu]
           r == Front(s)
<1>1. s \in Seq(Entries) /\ Orderly(s) /\ cpu_stack[cpu] = Shown(s)
  BY DEF KernelInv, TruthTypeOK, OrderlyContexts, StackMirrorsKernel, Traced
<1> HIDE DEF s
<1>2. /\ r \in Seq(Entries) /\ s = Append(r, e) /\ e \in Entries /\ e \in Members(s)
      /\ e.who \in Deferred => \A d \in Members(r) : d.who \notin Timers
  BY <1>1, Leaving DEF s
<1> HIDE DEF r
<1>3. Shown(s) = ShownTo(Shown(r), e) /\ Shown(r) \in Seq(Consumers)  BY <1>2, ShownMore
<1>4. e.who \in Consumers  BY <1>2 DEF Entries
<1>5. ASSUME e.who \notin Deferred
      PROVE  current_consumer(cpu) = e.who /\ Popped(cpu) = Shown(r)
  <2>1. cpu_stack[cpu] = Append(Shown(r), e.who)  BY <1>1, <1>3, <1>5 DEF ShownTo
  <2> QED  BY <1>3, <1>4, <2>1 DEF current_consumer, Popped
<1>6. ASSUME e.who \in Deferred
      PROVE  current_consumer(cpu) \notin Timers /\ cpu_stack[cpu] = Shown(r)
  <2>1. cpu_stack[cpu] = Shown(r)  BY <1>1, <1>3, <1>6 DEF ShownTo
  <2>2. CASE Shown(r) = <<>>
    BY <2>1, <2>2, KindsAssumption DEF current_consumer, Consumers
  <2>3. CASE Shown(r) # <<>>
    <3>1. current_consumer(cpu) = Shown(r)[Len(Shown(r))] /\ Len(Shown(r)) \in DOMAIN Shown(r)
      BY <1>3, <2>1, <2>3 DEF current_consumer
    <3>2. \E i \in DOMAIN r : r[i].who = current_consumer(cpu)
      BY <1>2, <3>1, ShownMembers DEF Showing
    <3>3. \A i \in DOMAIN r : r[i] \in Members(r)  BY DEF Members
    <3> QED  BY <1>2, <1>6, <2>1, <3>2, <3>3
  <2> QED  BY <2>1, <2>2, <2>3
<1> QED  BY <1>2, <1>5, <1>6 DEF Held, s, r

LEMMA EmptyStack ==
  ASSUME KernelInv, NEW cpu \in CPUs, context[cpu] = <<>>
  PROVE  cpu_stack[cpu] = <<>> /\ current_consumer(cpu) = NULL
BY ShownNone DEF KernelInv, StackMirrorsKernel, Traced, current_consumer

\* An exit record of a context that is older than the trace changes nothing.
LEMMA OtherIsSame ==
  ASSUME NEW time \in Stamps, OtherRecord(time), UNCHANGED <<context, overlap>>
  PROVE  SameStep
BY DEF OtherRecord, SameStep, sinces, runVars, sinceVars, timeVars

\* The kinds of consumers do not mix.
LEMMA Kinds ==
  /\ \A c \in Deferred : c \in Timers
  /\ \A c \in Idle : c \in Processes
  /\ \A c \in Processes : c \notin Interrupts \cup Timers \cup Works
  /\ \A c \in Interrupts : c \notin Processes \cup Timers \cup Works
  /\ \A c \in Timers : c \notin Processes \cup Interrupts \cup Works
  /\ \A c \in Works : c \notin Processes \cup Interrupts \cup Timers
  /\ \A c \in SoftIrqs : c \in Interrupts
  /\ Processes \subseteq Consumers /\ Interrupts \subseteq Consumers
  /\ Timers \subseteq Consumers /\ Works \subseteq Consumers /\ NULL \notin Consumers
BY SubsetsAssumption, KindsAssumption DEF Interrupts, Consumers

LEMMA InterruptExitLeaves ==
  ASSUME TypeOK, KernelInv, NEW cpu \in CPUs, NEW time \in Stamps, KernelInterruptExit(cpu, time)
  PROVE  SameStep \/ \E e \in Entries : LeaveStep(cpu, e, time)
<1>1. CASE context[cpu] = <<>>
  <2>1. current_consumer(cpu) \notin Interrupts  BY <1>1, EmptyStack, Kinds
  <2>2. OtherRecord(time)  BY <2>1 DEF KernelInterruptExit, InterruptExit, EndInterrupt
  <2>3. UNCHANGED <<context, overlap>>  BY <1>1 DEF KernelInterruptExit, Leave
  <2> QED  BY <2>2, <2>3, OtherIsSame
<1>2. CASE context[cpu] # <<>>
  <2> DEFINE e == context[cpu][Len(context[cpu])]
  <2>1. /\ e.who \in Interrupts
        /\ context' = [context EXCEPT ![cpu] = Front(@)] /\ UNCHANGED overlap
    BY <1>2 DEF KernelInterruptExit, Leave, Inner
  <2> HIDE DEF e
  <2>2. /\ e \in Entries /\ current_consumer(cpu) = e.who
        /\ e.who \notin Processes /\ e.who \notin Deferred
    BY <1>2, <2>1, TopOfStack, Kinds DEF e
  <2>3. EndInterrupt(cpu, time)  BY <2>1, <2>2 DEF KernelInterruptExit, InterruptExit
  <2>4. Began[e] = irq_since[e.who]  BY <2>1, <2>2 DEF Began
  <2>5. LeaveStep(cpu, e, time)
    BY <1>2, <2>1, <2>2, <2>3, <2>4 DEF LeaveStep, EndInterrupt, sinces, sinceVars, runVars, e
  <2> QED  BY <2>2, <2>5
<1> QED  BY <1>1, <1>2

LEMMA TimerExitLeaves ==
  ASSUME TypeInv, KernelInv, NEW cpu \in CPUs, NEW time \in Stamps, NEW struct \in TimerStructs,
         KernelTimerExit(cpu, time, struct)
  PROVE  SameStep \/ \E e \in Entries : LeaveStep(cpu, e, time)
<1>1. CASE context[cpu] = <<>>
  <2>1. current_consumer(cpu) \notin Timers  BY <1>1, EmptyStack, Kinds
  <2>2. OtherRecord(time)  BY <2>1 DEF KernelTimerExit, TimerExpireExit, DoneTimer
  <2>3. UNCHANGED <<context, overlap>>  BY <1>1 DEF KernelTimerExit, Leave
  <2> QED  BY <2>2, <2>3, OtherIsSame
<1>2. CASE context[cpu] # <<>>
  <2> DEFINE e == context[cpu][Len(context[cpu])]
  <2>1. /\ e.who \in Timers /\ e.key = struct
        /\ context' = [context EXCEPT ![cpu] = Front(@)] /\ UNCHANGED overlap
    BY <1>2 DEF KernelTimerExit, Leave, Inner
  <2> HIDE DEF e
  <2>2. /\ e \in Entries /\ e \in Held(cpu) /\ e.who \notin Processes
    BY <1>2, <2>1, TopOfStack, Kinds DEF e
  <2>3. CASE e.who \in Deferred
    <3>1. current_consumer(cpu) \notin Timers  BY <1>2, <2>3, TopOfStack DEF e
    <3>2. OtherRecord(time)  BY <3>1 DEF KernelTimerExit, TimerExpireExit, DoneTimer
    <3>3. LeaveStep(cpu, e, time)
      BY <1>2, <2>1, <2>2, <2>3, <3>2
      DEF LeaveStep, OtherRecord, sinces, sinceVars, runVars, timeVars, e
    <3> QED  BY <2>2, <3>3
  <2>4. CASE e.who \notin Deferred
    <3>1. current_consumer(cpu) = e.who  BY <1>2, <2>4, TopOfStack DEF e
    <3>2. DoneTimer(cpu, time, struct)  BY <2>1, <3>1 DEF KernelTimerExit, TimerExpireExit
    <3>3. Record(time)  BY <3>2 DEF DoneTimer
    <3>4. Began[e] = timer_since[struct]  BY <2>1, <2>2, Kinds DEF Began
    <3>5. timer_since[struct] # Unset  BY <2>2, <2>4, <3>4 DEF KernelInv, BeginningsKnown
    <3>6. StartOf(timer_since, struct) = timer_since[struct]  BY <3>5 DEF StartOf
    <3>7. timer_since \in [TimerStructs -> 0..MaxStamp] /\ timer_since[struct] <= time
      BY <3>3, StartsBefore DEF TypeInv, TypeOK
    <3>8. Elapsed(StartOf(timer_since, struct), time) = time - Began[e]
      BY <3>4, <3>6, <3>7, BoundsAssumption DEF Elapsed, Stamps
    <3>9. timer_since' = timer_since  BY <3>2, <3>6, <3>7 DEF DoneTimer
    <3>10. LeaveStep(cpu, e, time)
      BY <1>2, <2>1, <2>2, <2>4, <3>1, <3>2, <3>8, <3>9
      DEF LeaveStep, DoneTimer, sinces, runVars, e
    <3> QED  BY <2>2, <3>10
  <2> QED  BY <2>3, <2>4
<1> QED  BY <1>1, <1>2

LEMMA WorkEndLeaves ==
  ASSUME TypeInv, KernelInv, NEW cpu \in CPUs, NEW time \in Stamps, NEW struct \in WorkStructs,
         KernelWorkEnd(cpu, time, struct)
  PROVE  SameStep \/ \E e \in Entries : LeaveStep(cpu, e, time)
<1>1. CASE context[cpu] = <<>>
  <2>1. current_consumer(cpu) \notin Works  BY <1>1, EmptyStack, Kinds
  <2>2. OtherRecord(time)  BY <2>1 DEF KernelWorkEnd, WorkqueueExecuteEnd, DoneWork
  <2>3. UNCHANGED <<context, overlap>>  BY <1>1 DEF KernelWorkEnd, Leave
  <2> QED  BY <2>2, <2>3, OtherIsSame
<1>2. CASE context[cpu] # <<>>
  <2> DEFINE e == context[cpu][Len(context[cpu])]
  <2>1. /\ e.who \in Works /\ e.key = struct
        /\ context' = [context EXCEPT ![cpu] = Front(@)] /\ UNCHANGED overlap
    BY <1>2 DEF KernelWorkEnd, Leave, Inner
  <2> HIDE DEF e
  <2>2. /\ e \in Entries /\ e \in Held(cpu) /\ e.who \notin Processes /\ e.who \notin Deferred
    BY <1>2, <2>1, TopOfStack, Kinds DEF e
  <2>3. current_consumer(cpu) = e.who  BY <1>2, <2>2, TopOfStack DEF e
  <2>4. DoneWork(cpu, time, struct)  BY <2>1, <2>3 DEF KernelWorkEnd, WorkqueueExecuteEnd
  <2>5. Record(time)  BY <2>4 DEF DoneWork
  <2>6. Began[e] = work_since[struct]  BY <2>1, <2>2, Kinds DEF Began
  <2>7. work_since[struct] # Unset  BY <2>2, <2>6 DEF KernelInv, BeginningsKnown
  <2>8. StartOf(work_since, struct) = work_since[struct]  BY <2>7 DEF StartOf
  <2>9. work_since \in [WorkStructs -> 0..MaxStamp] /\ work_since[struct] <= time
    BY <2>5, StartsBefore DEF TypeInv, TypeOK
  <2>10. Elapsed(StartOf(work_since, struct), time) = time - Began[e]
    BY <2>6, <2>8, <2>9, BoundsAssumption DEF Elapsed, Stamps
  <2>11. work_since' = work_since  BY <2>4, <2>8, <2>9 DEF DoneWork
  <2>12. LeaveStep(cpu, e, time)
    BY <1>2, <2>1, <2>2, <2>3, <2>4, <2>10, <2>11 DEF LeaveStep, DoneWork, sinces, runVars, e
  <2> QED  BY <2>2, <2>12
<1> QED  BY <1>1, <1>2

LEMMA OnCPU ==
  ASSUME NEW c, NEW cpu
  PROVE  InContext(c, cpu) <=> Holds(context[cpu], c)
BY DEF InContext, Holds, Members

LEMMA EntryIsEntry ==
  ASSUME NEW who, NEW key
  PROVE  /\ Entry(who, key).who = who /\ Entry(who, key).key = key
         /\ who \in Consumers /\ key \in TimerStructs \cup WorkStructs \cup {NULL} => Entry(who, key) \in Entries
BY DEF Entry, Entries

\* irq_handler_entry and softirq_entry of the kernel.
LEMMA IrqEnters ==
  ASSUME NEW cpu \in CPUs, NEW time \in Stamps, NEW irq \in Interrupts,
         StartInterrupt(cpu, time, irq), Enter(cpu, irq, NULL), ~InContext(irq, cpu),
         \A other \in CPUs : InContext(irq, other) => irq \in SoftIrqs
  PROVE  \E e \in Entries : EnterStep(cpu, e, time)
<1> DEFINE e == Entry(irq, NULL)
<1>1. e \in Entries /\ e.who = irq /\ e.key = NULL  BY Kinds, EntryIsEntry
<1> HIDE DEF e
<1>2. irq \notin Processes \cup Timers \cup Works \cup Deferred  BY Kinds
<1>3. EnterStep(cpu, e, time)
  BY <1>1, <1>2 DEF EnterStep, KeyFits, StartInterrupt, push_consumer, runVars
<1> QED  BY <1>1, <1>3

LEMMA KernelIrqEnters ==
  ASSUME NEW cpu \in CPUs, NEW time \in Stamps, NEW handler \in HardIrqs,
         KernelIrqEntry(cpu, time, handler)
  PROVE  \E e \in Entries : EnterStep(cpu, e, time)
<1> DEFINE irq == find_create_interrupt(handler, cpu)
<1>1. irq \in Interrupts  BY InterruptObjects
<1>2. /\ StartInterrupt(cpu, time, irq) /\ Enter(cpu, irq, NULL)
      /\ \A other \in CPUs : ~InContext(irq, other)
  BY DEF KernelIrqEntry, IrqHandlerEntry
<1> HIDE DEF irq
<1> QED  BY <1>1, <1>2, IrqEnters

LEMMA KernelSoftirqEnters ==
  ASSUME NEW cpu \in CPUs, NEW time \in Stamps, NEW vec \in SoftIrqs,
         KernelSoftirqEntry(cpu, time, vec)
  PROVE  \E e \in Entries : EnterStep(cpu, e, time)
<1>1. vec \in Interrupts  BY Kinds
<1>2. StartInterrupt(cpu, time, vec) /\ Enter(cpu, vec, NULL) /\ ~InContext(vec, cpu)
  BY <1>1 DEF KernelSoftirqEntry, SoftirqEntry
<1> QED  BY <1>1, <1>2, IrqEnters

LEMMA KernelTimerEnters ==
  ASSUME NEW cpu \in CPUs, NEW time \in Stamps, NEW timer \in Timers, NEW struct \in TimerStructs,
         KernelTimerEntry(cpu, time, timer, struct)
  PROVE  \E e \in Entries : EnterStep(cpu, e, time)
<1> DEFINE e == Entry(timer, struct)
<1>1. e \in Entries /\ e.who = timer /\ e.key = struct  BY Kinds, EntryIsEntry
<1> HIDE DEF e
<1>2. timer \notin Processes \cup Interrupts \cup Works  BY Kinds
<1>3. /\ Enter(cpu, timer, struct) /\ ~KeyInUse(struct) /\ ~InContext(timer, cpu)
      /\ timer \in Deferred => \A t \in Timers : ~InContext(t, cpu)
      /\ TimerExpireEntry(cpu, time, timer, struct)
  BY DEF KernelTimerEntry
<1>4. EnterStep(cpu, e, time)
  <2>1. CASE timer \in Deferred
    <3>1. SkipDeferred(time, timer)  BY <1>3, <2>1 DEF TimerExpireEntry
    <3> QED
      BY <1>1, <1>2, <1>3, <2>1, <3>1
      DEF EnterStep, KeyFits, SkipDeferred, timeVars, runVars, sinceVars
  <2>2. CASE timer \notin Deferred
    <3>1. FireTimer(cpu, time, timer, struct)  BY <1>3, <2>2 DEF TimerExpireEntry
    <3> QED
      BY <1>1, <1>2, <1>3, <2>2, <3>1
      DEF EnterStep, KeyFits, FireTimer, push_consumer, StartedAt, runVars
  <2> QED  BY <2>1, <2>2
<1> QED  BY <1>1, <1>4

LEMMA KernelWorkEnters ==
  ASSUME KernelInv, NEW cpu \in CPUs, NEW time \in Stamps, NEW work \in Works,
         NEW struct \in WorkStructs, KernelWorkStart(cpu, time, work, struct)
  PROVE  \E e \in Entries : EnterStep(cpu, e, time)
<1> DEFINE e == Entry(work, struct)
<1>1. e \in Entries /\ e.who = work /\ e.key = struct  BY Kinds, EntryIsEntry
<1> HIDE DEF e
<1>2. work \notin Processes \cup Interrupts \cup Timers \cup Deferred  BY Kinds
<1>3. /\ Enter(cpu, work, struct) /\ ~KeyInUse(struct)
      /\ Len(context[cpu]) = 1 /\ context[cpu][Len(context[cpu])].who \in Processes
      /\ WorkqueueExecuteStart(cpu, time, work, struct)
  BY DEF KernelWorkStart, Inner
<1>4. ~InContext(work, cpu)
  <2>1. DOMAIN context[cpu] = {1}
    <3>1. context[cpu] \in Seq(Entries)  BY DEF KernelInv, TruthTypeOK
    <3> QED  BY <1>3, <3>1
  <2> QED  BY <1>2, <1>3, <2>1 DEF InContext
<1>5. EnterStep(cpu, e, time)
  BY <1>1, <1>2, <1>3, <1>4
  DEF EnterStep, KeyFits, WorkqueueExecuteStart, push_consumer, StartedAt, runVars
<1> QED  BY <1>1, <1>5

LEMMA LoneMember ==
  ASSUME NEW S, NEW s \in Seq(S), s # <<>>, Len(s) <= 1
  PROVE  Len(s) = 1 /\ s = <<s[1]>> /\ s[1] \in S /\ DOMAIN s = {1}
<1>1. Len(s) \in Nat \ {0}  BY EmptySeq
<1>2. Len(s) = 1  BY <1>1
<1> QED  BY <1>2

\* sched_switch of the kernel: the process that is retired is the one that ran.
LEMMA KernelSwitches ==
  ASSUME TypeInv, KernelInv, NEW cpu \in CPUs, NEW time \in Stamps, NEW next \in Processes,
         KernelSwitch(cpu, time, next)
  PROVE  SwitchStep(cpu, next, time)
<1> DEFINE s == context[cpu]
<1>1. /\ Len(s) <= 1 /\ (s # <<>> => Inner(cpu) \in Processes)
      /\ \A other \in CPUs : ~InContext(next, other)
      /\ context' = [context EXCEPT ![cpu] = <<Entry(next, NULL)>>] /\ UNCHANGED overlap
  BY DEF KernelSwitch
<1>2. PICK prevIsIdle \in BOOLEAN :
        /\ s # <<>> => (prevIsIdle <=> Inner(cpu) \in Idle)
        /\ SchedSwitch(cpu, time, prevIsIdle, next)
  BY DEF KernelSwitch
<1>3. /\ Record(time) /\ RetireAndStart(OldProcess(cpu), prevIsIdle, next, time)
      /\ cpu_stack' = [cpu_stack EXCEPT ![cpu] = <<next>>]
      /\ UNCHANGED <<child_runtime, irq_since, timer_since, work_since>>
  BY <1>2 DEF SchedSwitch, SwitchedStack, sinceVars
<1>4. running_since \in [Processes -> 0..MaxStamp] /\ \A p \in Processes : running_since[p] <= time
  BY <1>3, StartsBefore DEF TypeInv, TypeOK
<1>5. running_since' = [running_since EXCEPT ![next] = time]
  <2>1. \A p \in Processes : ~(time < running_since[p])  BY <1>4, BoundsAssumption DEF Stamps
  <2>2. running_since' = RunningSince(OldProcess(cpu), next, time)  BY <1>3 DEF RetireAndStart
  <2>3. running_since' = [p \in Processes |-> IF p = next THEN time ELSE running_since[p]]
    BY <2>1, <2>2, Zenon DEF RunningSince
  <2> QED  BY <1>4, <2>3
<1>6. accumulated_runtime' =
        IF s # <<>> /\ Inner(cpu) \notin Idle
        THEN [accumulated_runtime EXCEPT ![Inner(cpu)] = @ + (time - Began[s[1]])]
        ELSE accumulated_runtime
  <2>1. CASE s = <<>>
    <3>1. cpu_stack[cpu] = <<>>  BY <2>1, EmptyStack
    <3>2. OldProcess(cpu) = NULL  BY <3>1, Kinds DEF OldProcess, Bottom
    <3> QED  BY <1>3, <2>1, <3>2 DEF RetireAndStart, Retired
  <2>2. CASE s # <<>>
    <3> DEFINE e == s[1]
    <3>1. s \in Seq(Entries)  BY DEF KernelInv, TruthTypeOK
    <3>2. Len(s) = 1 /\ s = <<e>> /\ e \in Entries /\ Inner(cpu) = e.who /\ e \in Members(s)
      <4>0. Len(s) <= 1  BY <1>1
      <4>1. Len(s) = 1 /\ s = <<e>> /\ e \in Entries /\ DOMAIN s = {1}
        BY <2>2, <3>1, <4>0, LoneMember
      <4> QED  BY <4>1 DEF Inner, Members
    <3> HIDE DEF e, s
    <3>3. e.who \in Processes /\ e.who \notin Deferred  BY <1>1, <2>2, <3>2, Kinds
    <3>4. cpu_stack[cpu] = <<e.who>>
      <4>1. cpu_stack[cpu] = Shown(s)  BY DEF KernelInv, StackMirrorsKernel, Traced, s
      <4> QED  BY <3>2, <3>3, <4>1, FewMembers
    <3>5. OldProcess(cpu) = e.who /\ e.who # NULL
      <4>1. Bottom(cpu) = e.who  BY <3>4 DEF Bottom
      <4> QED  BY <3>3, <4>1, Kinds DEF OldProcess
    <3>6. Began[e] = running_since[e.who]  BY <3>2, <3>3 DEF Began
    <3>7. Began[e] # Unset  BY <3>2, <3>3 DEF KernelInv, BeginningsKnown, Held, s
    <3>8. Retired(e.who, time)  BY <1>4, <3>3, <3>5, <3>6, <3>7, BoundsAssumption DEF Retired, Stamps
    <3> QED  BY <1>2, <1>3, <2>2, <3>2, <3>5, <3>6, <3>8 DEF RetireAndStart, e
  <2> QED  BY <2>1, <2>2
<1> QED  BY <1>1, <1>3, <1>5, <1>6 DEF SwitchStep

\* Every record of the kernel is one of four steps.
LEMMA RecordSteps ==
  ASSUME TypeInv, KernelInv, NEW cpu \in CPUs, NEW time \in Stamps, KernelRecord(cpu, time)
  PROVE  \/ SameStep
         \/ \E e \in Entries : EnterStep(cpu, e, time)
         \/ \E e \in Entries : LeaveStep(cpu, e, time)
         \/ \E next \in Processes : SwitchStep(cpu, next, time)
<1>0. TypeOK  BY DEF TypeInv
<1>1. CASE KernelOther(time)  BY <1>1, OtherIsSame DEF KernelOther
<1>2. CASE \E next \in Processes : KernelSwitch(cpu, time, next)  BY <1>2, KernelSwitches
<1>3. CASE \E handler \in HardIrqs : KernelIrqEntry(cpu, time, handler)  BY <1>3, KernelIrqEnters
<1>4. CASE \E vec \in SoftIrqs : KernelSoftirqEntry(cpu, time, vec)  BY <1>4, KernelSoftirqEnters
<1>5. CASE KernelInterruptExit(cpu, time)  BY <1>0, <1>5, InterruptExitLeaves
<1>6. CASE \E timer \in Timers, struct \in TimerStructs : KernelTimerEntry(cpu, time, timer, struct)
  BY <1>6, KernelTimerEnters
<1>7. CASE \E struct \in TimerStructs : KernelTimerExit(cpu, time, struct)  BY <1>7, TimerExitLeaves
<1>8. CASE \E work \in Works, struct \in WorkStructs : KernelWorkStart(cpu, time, work, struct)
  BY <1>8, KernelWorkEnters
<1>9. CASE \E struct \in WorkStructs : KernelWorkEnd(cpu, time, struct)  BY <1>9, WorkEndLeaves
<1> QED  BY <1>1, <1>2, <1>3, <1>4, <1>5, <1>6, <1>7, <1>8, <1>9 DEF KernelRecord
-----------------------------------------------------------------------------
(***************************************************************************)
(* The contexts stay a kernel's, and the stacks stay theirs.               *)
(***************************************************************************)
ContextsOK ==
  /\ context \in [CPUs -> Seq(Entries)] /\ OrderlyContexts
  /\ \A cpu \in CPUs : cpu_stack[cpu] = Shown(context[cpu])

LEMMA ContextsEntered ==
  ASSUME TypeOK, KernelInv, NEW cpu \in CPUs, NEW time \in Stamps, NEW e \in Entries,
         EnterStep(cpu, e, time)
  PROVE  /\ ContextsOK' /\ Held(cpu)' = Held(cpu) \cup {e} /\ overlap' \in BOOLEAN
         /\ \A k \in CPUs \ {cpu} : Held(k)' = Held(k)
<1> DEFINE s == context[cpu]
           r == Append(s, e)
<1>1. /\ context \in [CPUs -> Seq(Entries)] /\ overlap \in BOOLEAN
      /\ \A k \in CPUs : Orderly(context[k]) /\ cpu_stack[k] = Shown(context[k])
  BY DEF KernelInv, TruthTypeOK, OrderlyContexts, StackMirrorsKernel, Traced
<1>2. context' = [context EXCEPT ![cpu] = r]
  <2>1. e = Entry(e.who, e.key)  BY DEF Entry, Entries
  <2> QED  BY <2>1 DEF EnterStep, Enter
<1>3. s \in Seq(Entries)  BY <1>1
<1>4. ~Holds(s, e.who) /\ (e.who \in Deferred => \A d \in Members(s) : d.who \notin Timers)
  <2>1. ~InContext(e.who, cpu) /\ (e.who \in Deferred => \A t \in Timers : ~InContext(t, cpu))
    BY DEF EnterStep
  <2> QED  BY <2>1 DEF InContext, Holds, Members
<1> HIDE DEF s
<1>5. r \in Seq(Entries) /\ Orderly(r) /\ Members(r) = Members(s) \cup {e}
  BY <1>1, <1>3, <1>4, Entering DEF s
<1>6. Shown(r) = ShownTo(Shown(s), e)  BY <1>3, ShownMore
<1> HIDE DEF r
<1>7. context' \in [CPUs -> Seq(Entries)] /\ context'[cpu] = r
      /\ \A k \in CPUs \ {cpu} : context'[k] = context[k]
  BY <1>1, <1>2, <1>5
<1>8. ASSUME NEW k \in CPUs PROVE cpu_stack'[k] = Shown(context'[k])
  <2>1. cpu_stack' = IF e.who \in Deferred THEN cpu_stack
                     ELSE [cpu_stack EXCEPT ![cpu] = Append(@, e.who)]
    BY DEF EnterStep
  <2>2. DOMAIN cpu_stack = CPUs /\ cpu_stack[cpu] = Shown(s)  BY <1>1 DEF TypeOK, s
  <2>3. CASE k = cpu  BY <1>6, <1>7, <2>1, <2>2, <2>3 DEF ShownTo
  <2>4. CASE k # cpu
    <3>1. context'[k] = context[k] /\ cpu_stack[k] = Shown(context[k])  BY <1>1, <1>7, <2>4
    <3>2. cpu_stack'[k] = cpu_stack[k]  BY <2>1, <2>2, <2>4
    <3> QED  BY <3>1, <3>2
  <2> QED  BY <2>3, <2>4
<1>9. OrderlyContexts'  BY <1>1, <1>5, <1>7 DEF OrderlyContexts
<1>10. Held(cpu)' = Held(cpu) \cup {e} /\ \A k \in CPUs \ {cpu} : Held(k)' = Held(k)
  <2>1. Held(cpu)' = Members(context'[cpu]) /\ \A k \in CPUs : Held(k)' = Members(context'[k])
    BY DEF Held, Members
  <2> QED  BY <1>5, <1>7, <2>1 DEF Held, s
<1>11. overlap' \in BOOLEAN  BY DEF EnterStep, Enter
<1> QED  BY <1>7, <1>8, <1>9, <1>10, <1>11 DEF ContextsOK

LEMMA ContextsLeft ==
  ASSUME TypeOK, KernelInv, NEW cpu \in CPUs, NEW time \in Stamps, NEW e \in Entries,
         LeaveStep(cpu, e, time)
  PROVE  /\ ContextsOK' /\ Held(cpu)' = Held(cpu) \ {e} /\ overlap' = overlap
         /\ \A k \in CPUs \ {cpu} : Held(k)' = Held(k)
<1> DEFINE s == context[cpu]
           r == Front(s)
<1>1. /\ context \in [CPUs -> Seq(Entries)]
      /\ \A k \in CPUs : Orderly(context[k]) /\ cpu_stack[k] = Shown(context[k])
  BY DEF KernelInv, TruthTypeOK, OrderlyContexts, StackMirrorsKernel, Traced
<1>2. context' = [context EXCEPT ![cpu] = r] /\ s # <<>> /\ e = s[Len(s)] /\ overlap' = overlap
  BY DEF LeaveStep
<1>3. s \in Seq(Entries) /\ Orderly(s)  BY <1>1
<1> HIDE DEF s
<1>4. r \in Seq(Entries) /\ Orderly(r) /\ Members(r) = Members(s) \ {e}
  BY <1>2, <1>3, Leaving
<1> HIDE DEF r
<1>5. context' \in [CPUs -> Seq(Entries)] /\ context'[cpu] = r
      /\ \A k \in CPUs \ {cpu} : context'[k] = context[k]
  BY <1>1, <1>2, <1>4
<1>6. ASSUME NEW k \in CPUs PROVE cpu_stack'[k] = Shown(context'[k])
  <2>1. cpu_stack' = IF e.who \in Deferred THEN cpu_stack
                     ELSE [cpu_stack EXCEPT ![cpu] = Popped(cpu)]
    BY DEF LeaveStep, pop_consumer
  <2>2. DOMAIN cpu_stack = CPUs  BY DEF TypeOK
  <2>3. CASE k = cpu
    <3>1. /\ e.who \notin Deferred => Popped(cpu) = Shown(r)
          /\ e.who \in Deferred => cpu_stack[cpu] = Shown(r)
      BY <1>2, TopOfStack DEF r, s
    <3> QED  BY <1>5, <2>1, <2>2, <2>3, <3>1
  <2>4. CASE k # cpu
    <3>1. context'[k] = context[k] /\ cpu_stack[k] = Shown(context[k])  BY <1>1, <1>5, <2>4
    <3>2. cpu_stack'[k] = cpu_stack[k]  BY <2>1, <2>2, <2>4
    <3> QED  BY <3>1, <3>2
  <2> QED  BY <2>3, <2>4
<1>7. OrderlyContexts'  BY <1>1, <1>4, <1>5 DEF OrderlyContexts
<1>8. Held(cpu)' = Held(cpu) \ {e} /\ \A k \in CPUs \ {cpu} : Held(k)' = Held(k)
  <2>1. Held(cpu)' = Members(context'[cpu]) /\ \A k \in CPUs : Held(k)' = Members(context'[k])
    BY DEF Held, Members
  <2> QED  BY <1>4, <1>5, <2>1 DEF Held, s
<1> QED  BY <1>2, <1>5, <1>6, <1>7, <1>8 DEF ContextsOK

LEMMA ContextsSwitched ==
  ASSUME TypeOK, KernelInv, NEW cpu \in CPUs, NEW time \in Stamps, NEW next \in Processes,
         SwitchStep(cpu, next, time)
  PROVE  /\ ContextsOK' /\ Held(cpu)' = {Entry(next, NULL)} /\ overlap' = overlap
         /\ \A k \in CPUs \ {cpu} : Held(k)' = Held(k)
<1> DEFINE e == Entry(next, NULL)
           r == <<e>>
<1>1. /\ context \in [CPUs -> Seq(Entries)]
      /\ \A k \in CPUs : Orderly(context[k]) /\ cpu_stack[k] = Shown(context[k])
  BY DEF KernelInv, TruthTypeOK, OrderlyContexts, StackMirrorsKernel, Traced
<1>2. context' = [context EXCEPT ![cpu] = r] /\ overlap' = overlap
      /\ cpu_stack' = [cpu_stack EXCEPT ![cpu] = <<next>>]
  BY DEF SwitchStep
<1>3. e \in Entries /\ e.who = next /\ next \notin Deferred  BY EntryIsEntry, Kinds
<1> HIDE DEF e
<1>4. r \in Seq(Entries) /\ Orderly(r) /\ Members(r) = {e} /\ Shown(r) = <<next>>
  BY <1>3, FewMembers
<1> HIDE DEF r
<1>5. context' \in [CPUs -> Seq(Entries)] /\ context'[cpu] = r
      /\ \A k \in CPUs \ {cpu} : context'[k] = context[k]
  BY <1>1, <1>2, <1>4
<1>6. ASSUME NEW k \in CPUs PROVE cpu_stack'[k] = Shown(context'[k])
  <2>1. DOMAIN cpu_stack = CPUs  BY DEF TypeOK
  <2>2. CASE k = cpu  BY <1>2, <1>4, <1>5, <2>1, <2>2
  <2>3. CASE k # cpu
    <3>1. context'[k] = context[k] /\ cpu_stack[k] = Shown(context[k])  BY <1>1, <1>5, <2>3
    <3>2. cpu_stack'[k] = cpu_stack[k]  BY <1>2, <2>1, <2>3
    <3> QED  BY <3>1, <3>2
  <2> QED  BY <2>2, <2>3
<1>7. OrderlyContexts'  BY <1>1, <1>4, <1>5 DEF OrderlyContexts
<1>8. Held(cpu)' = {e} /\ \A k \in CPUs \ {cpu} : Held(k)' = Held(k)
  <2>1. Held(cpu)' = Members(context'[cpu]) /\ \A k \in CPUs : Held(k)' = Members(context'[k])
    BY DEF Held, Members
  <2> QED  BY <1>4, <1>5, <2>1 DEF Held
<1> QED  BY <1>2, <1>5, <1>6, <1>7, <1>8 DEF ContextsOK, e

\* Whoever is held is an entry.
LEMMA HeldType ==
  ASSUME KernelInv, NEW cpu \in CPUs, NEW d \in Held(cpu)
  PROVE  d \in Entries /\ d.who \in Consumers /\ KeyFits(d) /\ InContext(d.who, cpu)
<1>1. context[cpu] \in Seq(Entries)  BY DEF KernelInv, TruthTypeOK
<1>2. d \in Entries /\ InContext(d.who, cpu)  BY <1>1 DEF Held, Members, InContext
<1> QED  BY <1>2 DEF KernelInv, KeysFit, Entries

\* A new entry begins now; it takes the start of nobody else but, for a softirq,
\* that of the same vector on another CPU.
LEMMA BeganEntered ==
  ASSUME TypeOK, KernelInv, NEW cpu \in CPUs, NEW time \in Stamps, NEW e \in Entries,
         EnterStep(cpu, e, time)
  PROVE  /\ e.who \notin Deferred => Began'[e] = time
         /\ \A k \in CPUs : \A d \in Held(k) :
              \/ Began'[d] = Began[d]
              \/ k # cpu /\ d.who = e.who /\ d.who \in SoftIrqs /\ overlap' /\ Began'[d] = time
<1>1. Began' = [d \in Entries |->
         IF d.who \in Processes THEN running_since'[d.who]
         ELSE IF d.who \in Interrupts THEN irq_since'[d.who]
         ELSE IF d.who \in Timers THEN timer_since'[d.key] ELSE work_since'[d.key]]
  BY DEF Began
<1>2. /\ running_since' = running_since /\ e.who \notin Processes /\ KeyFits(e)
      /\ irq_since' = IF e.who \in Interrupts THEN [irq_since EXCEPT ![e.who] = time] ELSE irq_since
      /\ timer_since' = IF e.who \in Timers \ Deferred
                        THEN [timer_since EXCEPT ![e.key] = time] ELSE timer_since
      /\ work_since' = IF e.who \in Works THEN [work_since EXCEPT ![e.key] = time] ELSE work_since
  BY DEF EnterStep
<1>3. /\ irq_since \in [Interrupts -> 0..MaxStamp]
      /\ timer_since \in [TimerStructs -> 0..MaxStamp] /\ work_since \in [WorkStructs -> 0..MaxStamp]
  BY DEF TypeOK
<1>4. e.who \in Processes \cup Interrupts \cup Timers \cup Works  BY DEF Entries, Consumers
<1>5. ASSUME e.who \notin Deferred PROVE Began'[e] = time
  <2>1. CASE e.who \in Interrupts  BY <1>1, <1>2, <1>3, <2>1
  <2>2. CASE e.who \in Timers
    <3>1. e.key \in TimerStructs /\ e.who \notin Interrupts  BY <1>2, <2>2, Kinds DEF KeyFits
    <3> QED  BY <1>1, <1>2, <1>3, <1>5, <2>2, <3>1
  <2>3. CASE e.who \in Works
    <3>1. e.key \in WorkStructs /\ e.who \notin Interrupts \cup Timers
      BY <1>2, <2>3, Kinds DEF KeyFits
    <3> QED  BY <1>1, <1>2, <1>3, <2>3, <3>1
  <2> QED  BY <1>2, <1>4, <2>1, <2>2, <2>3
<1>6. ASSUME NEW k \in CPUs, NEW d \in Held(k), Began'[d] # Began[d]
      PROVE  k # cpu /\ d.who = e.who /\ d.who \in SoftIrqs /\ overlap' /\ Began'[d] = time
  <2>1. d \in Entries /\ d.who \in Consumers /\ KeyFits(d) /\ InContext(d.who, k)  BY HeldType
  <2>2. Began[d] = IF d.who \in Processes THEN running_since[d.who]
         ELSE IF d.who \in Interrupts THEN irq_since[d.who]
         ELSE IF d.who \in Timers THEN timer_since[d.key] ELSE work_since[d.key]
    BY <2>1 DEF Began
  <2>3. Began'[d] = IF d.who \in Processes THEN running_since'[d.who]
         ELSE IF d.who \in Interrupts THEN irq_since'[d.who]
         ELSE IF d.who \in Timers THEN timer_since'[d.key] ELSE work_since'[d.key]
    BY <1>1, <2>1
  <2>4. d.who \notin Processes  BY <1>2, <1>6, <2>2, <2>3
  <2>5. e.who \in Timers \cup Works => d.key # e.key
    <3>1. d.key = e.key => KeyInUse(e.key)
      <4>1. \E i \in DOMAIN context[k] : context[k][i] = d  BY DEF Held, Members
      <4> QED  BY <4>1 DEF KeyInUse
    <3> QED  BY <3>1 DEF EnterStep
  <2>6. d.who \in Interrupts
    <3>1. CASE d.who \in Timers
      <4>1. d.who \notin Interrupts /\ d.key \in TimerStructs  BY <2>1, <3>1, Kinds DEF KeyFits
      <4>2. timer_since'[d.key] = timer_since[d.key]  BY <1>2, <1>3, <2>5, <4>1
      <4> QED  BY <1>6, <2>2, <2>3, <2>4, <3>1, <4>1, <4>2
    <3>2. CASE d.who \in Works
      <4>1. d.who \notin Interrupts \cup Timers /\ d.key \in WorkStructs
        BY <2>1, <3>2, Kinds DEF KeyFits
      <4>2. work_since'[d.key] = work_since[d.key]  BY <1>2, <1>3, <2>5, <4>1
      <4> QED  BY <1>6, <2>2, <2>3, <2>4, <4>1, <4>2
    <3> QED  BY <2>1, <2>4, <3>1, <3>2 DEF Consumers
  <2>7. e.who \in Interrupts /\ d.who = e.who /\ Began'[d] = time
    BY <1>2, <1>3, <1>6, <2>2, <2>3, <2>4, <2>6
  <2>8. k # cpu /\ d.who \in SoftIrqs
    <3>1. ~InContext(e.who, cpu)
          /\ (InContext(e.who, k) => e.who \in SoftIrqs \cup Timers \cup Works)
      BY DEF EnterStep
    <3> QED  BY <2>1, <2>7, <3>1, Kinds
  <2>9. overlap'
    <3>1. overlap' = (overlap \/ \E other \in CPUs \ {cpu} : e.who \in SoftIrqs /\ InContext(e.who, other))
      BY DEF EnterStep, Enter
    <3> QED  BY <2>1, <2>7, <2>8, <3>1
  <2> QED  BY <2>7, <2>8, <2>9
<1> QED  BY <1>5, <1>6

LEMMA BeganLeft ==
  ASSUME UNCHANGED sinces
  PROVE  Began' = Began
BY DEF Began, sinces

LEMMA BeganSwitched ==
  ASSUME TypeOK, KernelInv, NEW cpu \in CPUs, NEW time \in Stamps, NEW next \in Processes,
         SwitchStep(cpu, next, time)
  PROVE  /\ Began'[Entry(next, NULL)] = time
         /\ \A k \in CPUs : \A d \in Held(k) : Began'[d] = Began[d]
<1>1. Began' = [d \in Entries |->
         IF d.who \in Processes THEN running_since'[d.who]
         ELSE IF d.who \in Interrupts THEN irq_since'[d.who]
         ELSE IF d.who \in Timers THEN timer_since'[d.key] ELSE work_since'[d.key]]
  BY DEF Began
<1>2. /\ running_since' = [running_since EXCEPT ![next] = time]
      /\ running_since \in [Processes -> 0..MaxStamp]
      /\ irq_since' = irq_since /\ timer_since' = timer_since /\ work_since' = work_since
  BY DEF SwitchStep, TypeOK
<1>3. Began'[Entry(next, NULL)] = time
  <2>1. Entry(next, NULL) \in Entries /\ Entry(next, NULL).who = next  BY EntryIsEntry, Kinds
  <2> QED  BY <1>1, <1>2, <2>1
<1>4. ASSUME NEW k \in CPUs, NEW d \in Held(k) PROVE Began'[d] = Began[d]
  <2>1. d \in Entries /\ InContext(d.who, k)  BY HeldType
  <2>2. d.who # next  BY <2>1 DEF SwitchStep
  <2> QED  BY <1>1, <1>2, <2>1, <2>2 DEF Began
<1> QED  BY <1>3, <1>4

\* The clocks of the truth tick on.
LEMMA ClocksType ==
  ASSUME TypeOK, KernelInv, NEW time \in Stamps, time >= last_stamp, TimePasses(time)
  PROVE  active' \in [Consumers -> Nat] /\ alone' \in [Consumers -> Nat]
<1>1. time - last_stamp \in Nat  BY BoundsAssumption DEF TypeOK, Stamps
<1> DEFINE H(c) == {cpu \in CPUs : InContext(c, cpu)}
           I(c) == {cpu \in CPUs : Traced(cpu) # <<>> /\ Traced(cpu)[Len(Traced(cpu))] = c}
<1>3. \A c : Cardinality(H(c)) \in Nat /\ Cardinality(I(c)) \in Nat
  <2> TAKE c
  <2>1. IsFiniteSet(H(c)) /\ IsFiniteSet(I(c))  BY FiniteAssumption, FS_Subset
  <2> QED  BY <2>1, FS_CardinalityType
<1>4. /\ active' = [c \in Consumers |-> active[c] + (time - last_stamp) * Cardinality(H(c))]
      /\ alone' = [c \in Consumers |-> alone[c] + (time - last_stamp) * Cardinality(I(c))]
  BY DEF TimePasses
<1>5. active \in [Consumers -> Nat] /\ alone \in [Consumers -> Nat]  BY DEF KernelInv, TruthTypeOK
<1> HIDE DEF H, I
<1>6. \A a, p, n \in Nat : a + p * n \in Nat  OBVIOUS
<1>7. \A c \in Consumers : active[c] \in Nat /\ alone[c] \in Nat  BY <1>5
<1>8. \A c \in Consumers : /\ active[c] + (time - last_stamp) * Cardinality(H(c)) \in Nat
                           /\ alone[c] + (time - last_stamp) * Cardinality(I(c)) \in Nat
  BY <1>1, <1>3, <1>6, <1>7
<1> QED  BY <1>4, <1>8

Clocks == active \in [Consumers -> Nat] /\ alone \in [Consumers -> Nat]

LEMMA EnterKeepsKernel ==
  ASSUME TypeOK, KernelInv, NEW cpu \in CPUs, NEW time \in Stamps, NEW e \in Entries,
         EnterStep(cpu, e, time), Clocks', phase' = "processing"
  PROVE  KernelInv'
<1>1. /\ ContextsOK' /\ Held(cpu)' = Held(cpu) \cup {e} /\ overlap' \in BOOLEAN
      /\ \A k \in CPUs \ {cpu} : Held(k)' = Held(k)
  BY ContextsEntered
<1>2. /\ KeyFits(e)
      /\ \A other \in CPUs : InContext(e.who, other) => e.who \in SoftIrqs \cup Timers \cup Works
      /\ e.who \in Timers \cup Works => ~KeyInUse(e.key)
      /\ overlap' = (overlap \/ \E other \in CPUs \ {cpu} : e.who \in SoftIrqs /\ InContext(e.who, other))
  BY DEF EnterStep, Enter
<1>3. \A k \in CPUs : \A d \in Held(k) : d \in Entries /\ KeyFits(d) /\ InContext(d.who, k)
  BY HeldType
<1>4. ASSUME NEW k \in CPUs, NEW d \in Held(k)' PROVE d \in Held(k) \/ (k = cpu /\ d = e)
  <2>1. CASE k = cpu  BY <1>1, <1>4, <2>1
  <2>2. CASE k # cpu  BY <1>1, <1>4, <2>2
  <2> QED  BY <2>1, <2>2
<1>5. OnOneCPU'
  <2> SUFFICES ASSUME NEW k \in CPUs, NEW l \in CPUs, NEW a \in Held(k)', NEW b \in Held(l)',
                      a.who = b.who, k # l
               PROVE  Shared(a.who)'
    BY DEF OnOneCPU
  <2>1. Shared(a.who) => Shared(a.who)'  BY <1>2 DEF Shared
  <2>2. CASE a \in Held(k) /\ b \in Held(l)
    <3>1. Shared(a.who)  BY <2>2 DEF KernelInv, OnOneCPU
    <3> QED  BY <2>1, <3>1
  <2>3. CASE a = e /\ k = cpu /\ b \in Held(l)
    <3>1. InContext(e.who, l)  BY <1>3, <2>3
    <3> QED  BY <1>2, <2>3, <3>1 DEF Shared
  <2>4. CASE b = e /\ l = cpu /\ a \in Held(k)
    <3>1. InContext(e.who, k)  BY <1>3, <2>4
    <3> QED  BY <1>2, <2>4, <3>1 DEF Shared
  <2> QED  BY <1>4, <2>2, <2>3, <2>4
<1>6. KeysFit'
  <2> SUFFICES ASSUME NEW k \in CPUs, NEW d \in Held(k)' PROVE KeyFits(d)  BY DEF KeysFit, KeyFits
  <2> QED  BY <1>2, <1>3, <1>4
<1>7. KeysDiffer'
  <2> SUFFICES ASSUME NEW k \in CPUs, NEW l \in CPUs, NEW a \in Held(k)', NEW b \in Held(l)',
                      a.who \in Timers \cup Works, b.who \in Timers \cup Works, a.key = b.key
               PROVE  a = b /\ k = l
    BY DEF KeysDiffer
  <2>1. \A m \in CPUs : \A d \in Held(m) : e.who \in Timers \cup Works => d.key # e.key
    <3> SUFFICES ASSUME NEW m \in CPUs, NEW d \in Held(m), d.key = e.key PROVE KeyInUse(e.key)
      BY <1>2
    <3>1. \E i \in DOMAIN context[m] : context[m][i] = d  BY DEF Held, Members
    <3> QED  BY <3>1 DEF KeyInUse
  <2>2. CASE a \in Held(k) /\ b \in Held(l)  BY <2>2 DEF KernelInv, KeysDiffer
  <2> QED  BY <1>4, <2>1, <2>2
<1>8. BeginningsKnown'
  <2> SUFFICES ASSUME NEW k \in CPUs, NEW d \in Held(k)', d.who \notin Deferred PROVE Began'[d] # Unset
    BY DEF BeginningsKnown
  <2>1. time # Unset  BY BoundsAssumption DEF Stamps, Unset
  <2>2. CASE d = e  BY <2>1, <2>2, BeganEntered
  <2>3. CASE d \in Held(k)
    <3>1. Began[d] # Unset  BY <2>3 DEF KernelInv, BeginningsKnown
    <3>2. Began'[d] = Began[d] \/ Began'[d] = time  BY <2>3, BeganEntered
    <3> QED  BY <2>1, <3>1, <3>2
  <2> QED  BY <1>4, <2>2, <2>3
<1>9. ASSUME ContextsOK', Clocks', overlap' \in BOOLEAN, phase' = "processing",
             OnOneCPU', KeysFit', KeysDiffer', BeginningsKnown'
      PROVE  KernelInv'
  BY <1>9 DEF ContextsOK, Clocks, KernelInv, TruthTypeOK, EmptyBetween, StackMirrorsKernel, Traced
<1> QED  BY <1>1, <1>5, <1>6, <1>7, <1>8, <1>9

LEMMA LeaveKeepsKernel ==
  ASSUME TypeOK, KernelInv, NEW cpu \in CPUs, NEW time \in Stamps, NEW e \in Entries,
         LeaveStep(cpu, e, time), Clocks', phase' = "processing"
  PROVE  KernelInv'
<1>1. /\ ContextsOK' /\ Held(cpu)' = Held(cpu) \ {e} /\ overlap' = overlap
      /\ \A k \in CPUs \ {cpu} : Held(k)' = Held(k)
  BY ContextsLeft
<1>2. Began' = Began  BY BeganLeft DEF LeaveStep, sinces
<1>3. ASSUME NEW k \in CPUs, NEW d \in Held(k)' PROVE d \in Held(k)
  <2>1. CASE k = cpu  BY <1>1, <1>3, <2>1
  <2>2. CASE k # cpu  BY <1>1, <1>3, <2>2
  <2> QED  BY <2>1, <2>2
<1>4. OnOneCPU' /\ KeysFit' /\ KeysDiffer' /\ BeginningsKnown'
  <2>1. OnOneCPU /\ KeysFit /\ KeysDiffer /\ BeginningsKnown  BY DEF KernelInv
  <2>2. OnOneCPU'  BY <1>1, <1>3, <2>1 DEF OnOneCPU, Shared
  <2>3. KeysFit'  BY <1>3, <2>1 DEF KeysFit
  <2>4. KeysDiffer'  BY <1>3, <2>1 DEF KeysDiffer
  <2>5. BeginningsKnown'  BY <1>2, <1>3, <2>1 DEF BeginningsKnown
  <2> QED  BY <2>2, <2>3, <2>4, <2>5
<1>5. overlap' \in BOOLEAN  BY <1>1 DEF KernelInv, TruthTypeOK
<1> QED
  BY <1>1, <1>4, <1>5
  DEF ContextsOK, Clocks, KernelInv, TruthTypeOK, EmptyBetween, StackMirrorsKernel, Traced

LEMMA SwitchKeepsKernel ==
  ASSUME TypeOK, KernelInv, NEW cpu \in CPUs, NEW time \in Stamps, NEW next \in Processes,
         SwitchStep(cpu, next, time), Clocks', phase' = "processing"
  PROVE  KernelInv'
<1> DEFINE e == Entry(next, NULL)
<1>1. /\ ContextsOK' /\ Held(cpu)' = {e} /\ overlap' = overlap
      /\ \A k \in CPUs \ {cpu} : Held(k)' = Held(k)
  BY ContextsSwitched
<1>2. Began'[e] = time /\ \A k \in CPUs : \A d \in Held(k) : Began'[d] = Began[d]  BY BeganSwitched
<1>3. e.who = next /\ next \notin Timers \cup Works  BY EntryIsEntry, Kinds
<1>4. \A k \in CPUs : \A d \in Held(k) : d.who # next
  <2>1. \A k \in CPUs : ~InContext(next, k)  BY DEF SwitchStep
  <2> QED  BY <2>1, HeldType
<1> HIDE DEF e
<1>5. ASSUME NEW k \in CPUs, NEW d \in Held(k)' PROVE d \in Held(k) \/ (k = cpu /\ d = e)
  <2>1. CASE k = cpu  BY <1>1, <1>5, <2>1
  <2>2. CASE k # cpu  BY <1>1, <1>5, <2>2
  <2> QED  BY <2>1, <2>2
<1>6. OnOneCPU /\ KeysFit /\ KeysDiffer /\ BeginningsKnown  BY DEF KernelInv
<1>7. OnOneCPU'
  <2> SUFFICES ASSUME NEW k \in CPUs, NEW l \in CPUs, NEW a \in Held(k)', NEW b \in Held(l)',
                      a.who = b.who, k # l
               PROVE  Shared(a.who)'
    BY DEF OnOneCPU
  <2>1. a \in Held(k) /\ b \in Held(l)  BY <1>3, <1>4, <1>5
  <2> QED  BY <1>1, <1>6, <2>1 DEF OnOneCPU, Shared
<1>8. KeysFit'  BY <1>3, <1>5, <1>6 DEF KeysFit, KeyFits
<1>9. KeysDiffer'  BY <1>3, <1>5, <1>6 DEF KeysDiffer
<1>10. BeginningsKnown'
  <2>1. time # Unset  BY BoundsAssumption DEF Stamps, Unset
  <2> QED  BY <1>2, <1>5, <1>6, <2>1 DEF BeginningsKnown
<1>11. overlap' \in BOOLEAN  BY <1>1 DEF KernelInv, TruthTypeOK
<1> QED
  BY <1>1, <1>7, <1>8, <1>9, <1>10, <1>11
  DEF ContextsOK, Clocks, KernelInv, TruthTypeOK, EmptyBetween, StackMirrorsKernel, Traced

LEMMA SameKeepsKernel ==
  ASSUME KernelInv, SameStep, Clocks', phase' = "processing"
  PROVE  KernelInv'
<1>1. /\ context' = context /\ overlap' = overlap /\ cpu_stack' = cpu_stack
      /\ UNCHANGED sinces
  BY DEF SameStep
<1>2. Began' = Began  BY <1>1, BeganLeft
<1>3. \A k : Held(k)' = Held(k)  BY <1>1 DEF Held, Members
<1>4. OrderlyContexts' /\ StackMirrorsKernel'
  BY <1>1 DEF KernelInv, OrderlyContexts, StackMirrorsKernel, Traced
<1>5. OnOneCPU' /\ KeysFit' /\ KeysDiffer' /\ BeginningsKnown'
  BY <1>1, <1>2, <1>3
  DEF KernelInv, OnOneCPU, KeysFit, KeysDiffer, BeginningsKnown, Shared, KeyFits
<1> QED  BY <1>1, <1>4, <1>5 DEF Clocks, KernelInv, TruthTypeOK, EmptyBetween
-----------------------------------------------------------------------------
(***************************************************************************)
(* The time in progress, as contexts come and go.                          *)
(***************************************************************************)
Timed(contexts, began) ==
  /\ contexts \in [CPUs -> Seq(Entries)]
  /\ \A cpu \in CPUs : Orderly(contexts[cpu])
  /\ \A cpu \in CPUs : \A d \in Members(contexts[cpu]) : began[d] \in Int

LEMMA EntryOfMember ==
  ASSUME NEW s, Distinct(s), NEW d \in Members(s)
  PROVE  Holds(s, d.who) /\ EntryOf(s, d.who) = d
<1>1. \A e \in Members(s) : e.who = d.who => e = d  BY DEF Distinct, Members
<1> QED  BY <1>1 DEF Holds, EntryOf

LEMMA SpentOn ==
  ASSUME NEW contexts, NEW began, Timed(contexts, began), NEW now \in Int,
         NEW c \in Consumers, NEW cpu \in CPUs
  PROVE  /\ Spent(contexts, began, now)[c][cpu] \in Int
         /\ ~Holds(contexts[cpu], c) => Spent(contexts, began, now)[c][cpu] = 0
         /\ \A d \in Members(contexts[cpu]) :
              d.who = c => Spent(contexts, began, now)[c][cpu] = now - began[d]
<1> DEFINE s == contexts[cpu]
<1>1. Spent(contexts, began, now)[c][cpu] = IF Holds(s, c) THEN now - began[EntryOf(s, c)] ELSE 0
  BY DEF Spent
<1>2. Distinct(s) /\ \A d \in Members(s) : began[d] \in Int  BY DEF Timed, Orderly
<1> HIDE DEF s
<1>3. \A d \in Members(s) : d.who = c => Spent(contexts, began, now)[c][cpu] = now - began[d]
  BY <1>1, <1>2, EntryOfMember
<1>4. Holds(s, c) => Spent(contexts, began, now)[c][cpu] \in Int
  BY <1>2, <1>3 DEF Holds
<1> QED  BY <1>1, <1>3, <1>4 DEF s

LEMMA SpentSum ==
  ASSUME NEW contexts, NEW began, Timed(contexts, began), NEW now \in Int, NEW c \in Consumers
  PROVE  SumOf(Spent(contexts, began, now)[c], CPUs) \in Int
<1>1. \A cpu \in CPUs : Spent(contexts, began, now)[c][cpu] \in Int  BY SpentOn
<1> QED  BY <1>1, FiniteAssumption, SumRest

\* Time passes for everybody who is in a context.
LEMMA SpentPasses ==
  ASSUME NEW contexts, NEW began, Timed(contexts, began), NEW now \in Int, NEW later \in Int,
         NEW c \in Consumers
  PROVE  SumOf(Spent(contexts, began, later)[c], CPUs) =
           SumOf(Spent(contexts, began, now)[c], CPUs)
             + (later - now) * Cardinality({cpu \in CPUs : Holds(contexts[cpu], c)})
<1> DEFINE f == Spent(contexts, began, now)[c]
           g == Spent(contexts, began, later)[c]
           P == {cpu \in CPUs : Holds(contexts[cpu], c)}
<1>1. ASSUME NEW cpu \in CPUs
      PROVE  f[cpu] \in Int /\ g[cpu] = IF cpu \in P THEN f[cpu] + (later - now) ELSE f[cpu]
  <2>1. CASE cpu \in P
    <3>1. PICK d \in Members(contexts[cpu]) : d.who = c  BY <2>1 DEF Holds
    <3>2. f[cpu] = now - began[d] /\ g[cpu] = later - began[d]  BY <3>1, SpentOn
    <3>3. began[d] \in Int  BY DEF Timed
    <3> HIDE DEF f, g, P
    <3> QED  BY <2>1, <3>2, <3>3
  <2>2. CASE cpu \notin P
    <3>1. f[cpu] = 0 /\ g[cpu] = 0  BY <2>2, SpentOn
    <3> HIDE DEF f, g, P
    <3> QED  BY <2>2, <3>1
  <2> QED  BY <2>1, <2>2
<1>2. later - now \in Int /\ P \in SUBSET CPUs  OBVIOUS
<1> HIDE DEF f, g, P
<1>3. SumOf(g, CPUs) = SumOf(f, CPUs) + (later - now) * Cardinality(P)
  BY <1>1, <1>2, FiniteAssumption, SumPasses
<1> QED  BY <1>3 DEF f, g, P

\* An entry that begins now adds nothing; a start taken over by a later one may
\* only lose time, and nobody else's is touched.
LEMMA SpentEntered ==
  ASSUME NEW before, NEW began, Timed(before, began), NEW after, NEW begins, Timed(after, begins),
         NEW time \in Int, NEW cpu \in CPUs, NEW e, NEW c \in Consumers,
         Members(after[cpu]) = Members(before[cpu]) \cup {e},
         \A k \in CPUs \ {cpu} : Members(after[k]) = Members(before[k]),
         ~Holds(before[cpu], e.who),
         c = e.who => begins[e] = time,
         \A k \in CPUs : \A d \in Members(before[k]) :
           began[d] <= time /\ (begins[d] = began[d] \/ (d.who = e.who /\ begins[d] = time))
  PROVE  /\ SumOf(Spent(after, begins, time)[c], CPUs) <= SumOf(Spent(before, began, time)[c], CPUs)
         /\ (\A k \in CPUs : \A d \in Members(before[k]) : d.who = c => begins[d] = began[d])
              => SumOf(Spent(after, begins, time)[c], CPUs) = SumOf(Spent(before, began, time)[c], CPUs)
<1> DEFINE f == Spent(before, began, time)[c]
           g == Spent(after, begins, time)[c]
<1>1. ASSUME NEW k \in CPUs
      PROVE  /\ f[k] \in Int /\ g[k] \in Int /\ g[k] <= f[k]
             /\ (\A d \in Members(before[k]) : d.who = c => begins[d] = began[d]) => f[k] = g[k]
  <2>1. f[k] \in Int /\ g[k] \in Int  BY SpentOn
  <2>2. CASE Holds(before[k], c)
    <3>1. PICK d \in Members(before[k]) : d.who = c  BY <2>2 DEF Holds
    <3>2. d \in Members(after[k])  BY <3>1
    <3>3. f[k] = time - began[d] /\ g[k] = time - begins[d]  BY <3>1, <3>2, SpentOn
    <3>4. began[d] \in Int /\ begins[d] \in Int  BY <3>2 DEF Timed
    <3>5. began[d] <= time /\ (begins[d] = began[d] \/ begins[d] = time)  BY <3>1
    <3> HIDE DEF f, g
    <3> QED  BY <2>1, <3>1, <3>3, <3>4, <3>5
  <2>3. CASE ~Holds(before[k], c)
    <3>1. f[k] = 0  BY <2>3, SpentOn
    <3>2. CASE k = cpu /\ c = e.who
      <4>1. e \in Members(after[k])  BY <3>2
      <4>2. g[k] = time - begins[e] /\ begins[e] = time  BY <3>2, <4>1, SpentOn
      <4> HIDE DEF f, g
      <4> QED  BY <2>1, <3>1, <4>2
    <3>3. CASE ~(k = cpu /\ c = e.who)
      <4>1. ~Holds(after[k], c)  BY <2>3, <3>3 DEF Holds
      <4>2. g[k] = 0  BY <4>1, SpentOn
      <4> HIDE DEF f, g
      <4> QED  BY <2>1, <3>1, <4>2
    <3> QED  BY <3>2, <3>3
  <2> QED  BY <2>2, <2>3
<1>2. (\A k \in CPUs : \A d \in Members(before[k]) : d.who = c => begins[d] = began[d])
        => \A k \in CPUs : f[k] \in Int /\ f[k] = g[k]
  <2> HIDE DEF f, g
  <2> QED  BY <1>1
<1> HIDE DEF f, g
<1>3. SumOf(g, CPUs) <= SumOf(f, CPUs)  BY <1>1, FiniteAssumption, SumMonotone
<1>4. (\A k \in CPUs : f[k] \in Int /\ f[k] = g[k]) => SumOf(g, CPUs) = SumOf(f, CPUs)
  BY FiniteAssumption, SumSame
<1> QED  BY <1>2, <1>3, <1>4 DEF f, g

\* An entry that ends takes its time along.
LEMMA SpentLeft ==
  ASSUME NEW before, NEW began, Timed(before, began), NEW after, Timed(after, began),
         NEW time \in Int, NEW cpu \in CPUs, NEW e \in Members(before[cpu]), NEW c \in Consumers,
         Members(after[cpu]) = Members(before[cpu]) \ {e},
         \A k \in CPUs \ {cpu} : Members(after[k]) = Members(before[k])
  PROVE  SumOf(Spent(after, began, time)[c], CPUs) =
           SumOf(Spent(before, began, time)[c], CPUs) - (IF c = e.who THEN time - began[e] ELSE 0)
<1> DEFINE f == Spent(before, began, time)[c]
           g == Spent(after, began, time)[c]
           x == IF c = e.who THEN 0 - (time - began[e]) ELSE 0
<1>1. began[e] \in Int  BY DEF Timed
<1>2. ASSUME NEW k \in CPUs PROVE f[k] \in Int /\ g[k] = IF k = cpu THEN f[k] + x ELSE f[k]
  <2>1. f[k] \in Int /\ g[k] \in Int  BY SpentOn
  <2>2. \A d \in Members(before[cpu]) : d.who = e.who => d = e
    BY DEF Timed, Orderly, Distinct, Members
  <2>3. CASE k = cpu /\ c = e.who
    <3>1. ~Holds(after[k], c)  BY <2>2, <2>3 DEF Holds
    <3>2. g[k] = 0 /\ f[k] = time - began[e]  BY <2>3, <3>1, SpentOn
    <3> HIDE DEF f, g
    <3> QED  BY <1>1, <2>1, <2>3, <3>2
  <2>4. CASE ~(k = cpu /\ c = e.who)
    <3>1. g[k] = f[k]
      <4>1. CASE Holds(before[k], c)
        <5>1. PICK d \in Members(before[k]) : d.who = c  BY <4>1 DEF Holds
        <5>2. d \in Members(after[k])  BY <2>4, <5>1
        <5> QED  BY <5>1, <5>2, SpentOn
      <4>2. CASE ~Holds(before[k], c)
        <5>1. ~Holds(after[k], c)  BY <4>2 DEF Holds
        <5> QED  BY <4>2, <5>1, SpentOn
      <4> QED  BY <4>1, <4>2
    <3> HIDE DEF f, g
    <3> QED  BY <2>1, <2>4, <3>1
  <2> QED  BY <2>3, <2>4
<1>3. x \in Int  BY <1>1
<1> HIDE DEF f, g, x
<1>4. SumOf(g, CPUs) = SumOf(f, CPUs) + x  BY <1>2, <1>3, FiniteAssumption, SumChange
<1>5. SumOf(f, CPUs) \in Int  BY <1>2, FiniteAssumption, SumRest
<1>6. SumOf(f, CPUs) + x = SumOf(f, CPUs) - (IF c = e.who THEN time - began[e] ELSE 0)
  BY <1>1, <1>5 DEF x
<1> QED  BY <1>4, <1>6 DEF f, g
-----------------------------------------------------------------------------
(***************************************************************************)
(* Charges add up.                                                         *)
(***************************************************************************)

\* What is held began at a stamp, and not later than the last one.
LEMMA KernelTimed ==
  TypeInv /\ KernelInv =>
    /\ Timed(context, Began)
    /\ \A cpu \in CPUs : \A d \in Members(context[cpu]) : Began[d] \in Int /\ Began[d] <= last_stamp
<1> SUFFICES ASSUME TypeInv, KernelInv
             PROVE  /\ Timed(context, Began)
                    /\ \A cpu \in CPUs : \A d \in Members(context[cpu]) :
                         Began[d] \in Int /\ Began[d] <= last_stamp
  OBVIOUS
<1>1. ASSUME NEW cpu \in CPUs, NEW d \in Members(context[cpu])
      PROVE  Began[d] \in Int /\ Began[d] <= last_stamp
  <2>1. d \in Entries /\ d.who \in Consumers /\ KeyFits(d)
    <3>1. d \in Held(cpu)  BY DEF Held
    <3> QED  BY <3>1, HeldType
  <2>2. Began[d] = IF d.who \in Processes THEN running_since[d.who]
         ELSE IF d.who \in Interrupts THEN irq_since[d.who]
         ELSE IF d.who \in Timers THEN timer_since[d.key] ELSE work_since[d.key]
    BY <2>1 DEF Began
  <2>3. /\ running_since \in [Processes -> 0..MaxStamp] /\ irq_since \in [Interrupts -> 0..MaxStamp]
        /\ timer_since \in [TimerStructs -> 0..MaxStamp] /\ work_since \in [WorkStructs -> 0..MaxStamp]
    BY DEF TypeInv, TypeOK
  <2>4. /\ \A p \in Processes : running_since[p] <= last_stamp
        /\ \A irq \in Interrupts : irq_since[irq] <= last_stamp
        /\ \A struct \in TimerStructs : timer_since[struct] <= last_stamp
        /\ \A struct \in WorkStructs : work_since[struct] <= last_stamp
    BY DEF TypeInv, StartsInPast
  <2>5. \A n \in 0..MaxStamp : n \in Int  BY BoundsAssumption
  <2>6. CASE d.who \in Processes  BY <2>2, <2>3, <2>4, <2>5, <2>6
  <2>7. CASE d.who \in Interrupts
    <3>1. d.who \notin Processes  BY <2>7, Kinds
    <3> QED  BY <2>2, <2>3, <2>4, <2>5, <2>7, <3>1
  <2>8. CASE d.who \in Timers
    <3>1. d.who \notin Processes \cup Interrupts /\ d.key \in TimerStructs
      BY <2>1, <2>8, Kinds DEF KeyFits
    <3> QED  BY <2>2, <2>3, <2>4, <2>5, <2>8, <3>1
  <2>9. CASE d.who \in Works
    <3>1. d.who \notin Processes \cup Interrupts \cup Timers /\ d.key \in WorkStructs
      BY <2>1, <2>9, Kinds DEF KeyFits
    <3> QED  BY <2>2, <2>3, <2>4, <2>5, <3>1
  <2> QED  BY <2>1, <2>6, <2>7, <2>8, <2>9 DEF Consumers
<1>2. context \in [CPUs -> Seq(Entries)] /\ \A cpu \in CPUs : Orderly(context[cpu])
  BY DEF KernelInv, TruthTypeOK, OrderlyContexts
<1> QED  BY <1>1, <1>2 DEF Timed

LEMMA KernelTimedNext == TypeInv' /\ KernelInv' => Timed(context', Began')
<1>1. TypeInv /\ KernelInv => Timed(context, Began)  BY KernelTimed
<1>2. (TypeInv /\ KernelInv)' => Timed(context, Began)'  BY <1>1, PTL
<1>3. Timed(context, Began)' <=> Timed(context', Began')  BY DEF Timed, Orderly, Distinct, Members
<1> QED  BY <1>2, <1>3

\* The charges and the time in progress of c, contexts and starts being as given.
Charged(c, accumulated, contexts, began, now) ==
  accumulated[c] + SumOf(Spent(contexts, began, now)[c], CPUs)

LEMMA ChargedType ==
  ASSUME NEW contexts, NEW began, Timed(contexts, began), NEW now \in Int,
         NEW accumulated \in [Consumers -> Nat], NEW c \in Consumers
  PROVE  Charged(c, accumulated, contexts, began, now) \in Int
BY SpentSum DEF Charged

LEMMA AccountedAre == \A c \in Accounted : c \in Consumers /\ c \notin Idle /\ c \notin Deferred
BY DEF Accounted

\* When the record arrives.
LEMMA ChargesPass ==
  ASSUME TypeInv, KernelInv, ChargesAddUp, NEW time \in Stamps, TimePasses(time),
         NEW c \in Accounted
  PROVE  /\ Charged(c, accumulated_runtime, context, Began, time) <= active'[c]
         /\ Exact(c) => Charged(c, accumulated_runtime, context, Began, time) = active'[c]
<1> DEFINE f == SumOf(Spent(context, Began, last_stamp)[c], CPUs)
           g == SumOf(Spent(context, Began, time)[c], CPUs)
           H == {cpu \in CPUs : InContext(c, cpu)}
           n == (time - last_stamp) * Cardinality(H)
<1>1. c \in Consumers  BY AccountedAre
<1>2. last_stamp \in Int /\ time \in Int  BY BoundsAssumption DEF TypeInv, TypeOK, Stamps
<1>3. Timed(context, Began)  BY KernelTimed
<1>4. f \in Int /\ g \in Int  BY <1>1, <1>2, <1>3, SpentSum
<1>5. g = f + n
  <2>1. H = {cpu \in CPUs : Holds(context[cpu], c)}  BY OnCPU
  <2>2. g = f + (time - last_stamp) * Cardinality({cpu \in CPUs : Holds(context[cpu], c)})
    BY <1>1, <1>2, <1>3, SpentPasses
  <2> QED  BY <2>1, <2>2
<1>6. n \in Int
  <2>1. IsFiniteSet(H)  BY FiniteAssumption, FS_Subset
  <2>2. Cardinality(H) \in Int /\ time - last_stamp \in Int  BY <1>2, <2>1, FS_CardinalityType
  <2> HIDE DEF H
  <2>3. \A a, b \in Int : a * b \in Int  OBVIOUS
  <2> QED  BY <2>2, <2>3
<1>7. active'[c] = active[c] + n  BY <1>1 DEF TimePasses
<1>8. /\ accumulated_runtime[c] + f <= active[c]
      /\ Exact(c) => accumulated_runtime[c] + f = active[c]
  BY DEF ChargesAddUp
<1>9. accumulated_runtime[c] \in Nat /\ active[c] \in Nat
  BY <1>1 DEF TypeInv, TypeOK, KernelInv, TruthTypeOK
<1>10. Charged(c, accumulated_runtime, context, Began, time) = accumulated_runtime[c] + g
  BY DEF Charged
<1> HIDE DEF f, g, n
<1> QED  BY <1>4, <1>5, <1>6, <1>7, <1>8, <1>9, <1>10

\* It is enough that the step keeps what was charged at the time of the record.
LEMMA ChargesFollow ==
  ASSUME TypeInv, KernelInv, ChargesAddUp, NEW time \in Stamps, TimePasses(time),
         TypeInv', KernelInv', last_stamp' = time, overlap => overlap',
         \A c \in Accounted :
           /\ Charged(c, accumulated_runtime', context', Began', time)
                <= Charged(c, accumulated_runtime, context, Began, time)
           /\ (c \in SoftIrqs => ~overlap') =>
                Charged(c, accumulated_runtime', context', Began', time)
                  = Charged(c, accumulated_runtime, context, Began, time)
  PROVE  ChargesAddUp'
<1> SUFFICES ASSUME NEW c \in Accounted
             PROVE  LET sum == accumulated_runtime'[c] + SumOf(Spent(context', Began', time)[c], CPUs) IN
                    sum <= active'[c] /\ ((c \in SoftIrqs => ~overlap') => sum = active'[c])
  BY DEF ChargesAddUp, Exact
<1>1. /\ Charged(c, accumulated_runtime, context, Began, time) <= active'[c]
      /\ Exact(c) => Charged(c, accumulated_runtime, context, Began, time) = active'[c]
  BY ChargesPass
<1>2. time \in Int  BY BoundsAssumption DEF Stamps
<1>3. Charged(c, accumulated_runtime, context, Began, time) \in Int
  <2>1. accumulated_runtime \in [Consumers -> Nat]  BY DEF TypeInv, TypeOK
  <2> QED  BY <1>2, <2>1, KernelTimed, ChargedType, AccountedAre
<1>4. Charged(c, accumulated_runtime', context', Began', time) \in Int
  <2>1. accumulated_runtime' \in [Consumers -> Nat]  BY DEF TypeInv, TypeOK
  <2> QED  BY <1>2, <2>1, KernelTimedNext, ChargedType, AccountedAre
<1>5. active'[c] \in Int
  <2>1. active' \in [Consumers -> Nat]  BY DEF KernelInv, TruthTypeOK
  <2> QED  BY <2>1, AccountedAre
<1>6. Charged(c, accumulated_runtime', context', Began', time)
        = accumulated_runtime'[c] + SumOf(Spent(context', Began', time)[c], CPUs)
  BY DEF Charged
<1>7. (c \in SoftIrqs => ~overlap') => Exact(c)  BY DEF Exact
<1>8. /\ Charged(c, accumulated_runtime', context', Began', time)
           <= Charged(c, accumulated_runtime, context, Began, time)
      /\ (c \in SoftIrqs => ~overlap') =>
           Charged(c, accumulated_runtime', context', Began', time)
             = Charged(c, accumulated_runtime, context, Began, time)
  OBVIOUS
<1> QED  BY ONLY <1>1, <1>3, <1>4, <1>5, <1>6, <1>7, <1>8

\* What is held began no later than the record.
LEMMA HeldBefore ==
  ASSUME TypeInv, KernelInv, NEW time \in Stamps, time >= last_stamp
  PROVE  \A k \in CPUs : \A d \in Members(context[k]) : Began[d] \in Int /\ Began[d] <= time
<1> SUFFICES ASSUME NEW k \in CPUs, NEW d \in Members(context[k]) PROVE Began[d] \in Int /\ Began[d] <= time
  OBVIOUS
<1>1. Began[d] \in Int /\ Began[d] <= last_stamp  BY KernelTimed
<1>2. last_stamp \in Int /\ time \in Int  BY BoundsAssumption DEF TypeInv, TypeOK, Stamps
<1> QED  BY <1>1, <1>2

LEMMA EnterCharges ==
  ASSUME TypeInv, KernelInv, NEW cpu \in CPUs, NEW time \in Stamps, NEW e \in Entries,
         EnterStep(cpu, e, time), time >= last_stamp, TypeInv', KernelInv',
         NEW c \in Accounted
  PROVE  /\ Charged(c, accumulated_runtime', context', Began', time)
              <= Charged(c, accumulated_runtime, context, Began, time)
         /\ (c \in SoftIrqs => ~overlap') =>
              Charged(c, accumulated_runtime', context', Began', time)
                = Charged(c, accumulated_runtime, context, Began, time)
<1> DEFINE f == SumOf(Spent(context, Began, time)[c], CPUs)
           g == SumOf(Spent(context', Began', time)[c], CPUs)
<1>0. TypeOK /\ c \in Consumers /\ c \notin Deferred /\ time \in Int
  BY AccountedAre, BoundsAssumption DEF TypeInv, Stamps
<1>1. Timed(context, Began) /\ Timed(context', Began')  BY KernelTimed, KernelTimedNext
<1>2. /\ Members(context'[cpu]) = Members(context[cpu]) \cup {e}
      /\ \A k \in CPUs \ {cpu} : Members(context'[k]) = Members(context[k])
  <2>1. /\ Held(cpu)' = Held(cpu) \cup {e}
        /\ \A k \in CPUs \ {cpu} : Held(k)' = Held(k)
    BY <1>0, ContextsEntered
  <2>2. \A k : Held(k)' = Members(context'[k])  BY DEF Held, Members
  <2> QED  BY <2>1, <2>2 DEF Held
<1>3. ~Holds(context[cpu], e.who)  BY OnCPU DEF EnterStep
<1>4. /\ e.who \notin Deferred => Began'[e] = time
      /\ \A k \in CPUs : \A d \in Members(context[k]) :
           \/ Began'[d] = Began[d]
           \/ k # cpu /\ d.who = e.who /\ d.who \in SoftIrqs /\ overlap' /\ Began'[d] = time
  BY <1>0, BeganEntered DEF Held
<1>5. \A k \in CPUs : \A d \in Members(context[k]) : Began[d] \in Int /\ Began[d] <= time
  BY HeldBefore
<1>6. c = e.who => Began'[e] = time  BY <1>0, <1>4
<1>7. \A k \in CPUs : \A d \in Members(context[k]) :
        Began[d] <= time /\ (Began'[d] = Began[d] \/ (d.who = e.who /\ Began'[d] = time))
  BY <1>4, <1>5
<1>8. /\ g <= f
      /\ (\A k \in CPUs : \A d \in Members(context[k]) : d.who = c => Began'[d] = Began[d]) => g = f
  BY ONLY <1>0, <1>1, <1>2, <1>3, <1>6, <1>7, cpu \in CPUs, SpentEntered
<1>9. (c \in SoftIrqs => ~overlap') => g = f  BY <1>4, <1>8
<1>10. f \in Int /\ g \in Int  BY <1>0, <1>1, SpentSum
<1>11. /\ Charged(c, accumulated_runtime', context', Began', time) = accumulated_runtime[c] + g
       /\ Charged(c, accumulated_runtime, context, Began, time) = accumulated_runtime[c] + f
  BY DEF Charged, EnterStep, timeVars
<1>12. accumulated_runtime[c] \in Int  BY <1>0 DEF TypeOK
<1> HIDE DEF f, g
<1> QED  BY <1>8, <1>9, <1>10, <1>11, <1>12

LEMMA LeaveCharges ==
  ASSUME TypeInv, KernelInv, NEW cpu \in CPUs, NEW time \in Stamps, NEW e \in Entries,
         LeaveStep(cpu, e, time), TypeInv', KernelInv', NEW c \in Accounted
  PROVE  Charged(c, accumulated_runtime', context', Began', time)
           = Charged(c, accumulated_runtime, context, Began, time)
<1> DEFINE f == SumOf(Spent(context, Began, time)[c], CPUs)
           g == SumOf(Spent(context', Began', time)[c], CPUs)
           x == IF c = e.who THEN time - Began[e] ELSE 0
<1>0. TypeOK /\ c \in Consumers /\ c \notin Deferred /\ time \in Int
  BY AccountedAre, BoundsAssumption DEF TypeInv, Stamps
<1>1. Began' = Began  BY BeganLeft DEF LeaveStep
<1>2. Timed(context, Began) /\ Timed(context', Began)  BY <1>1, KernelTimed, KernelTimedNext
<1>3. /\ Members(context'[cpu]) = Members(context[cpu]) \ {e}
      /\ \A k \in CPUs \ {cpu} : Members(context'[k]) = Members(context[k])
  <2>1. /\ Held(cpu)' = Held(cpu) \ {e}
        /\ \A k \in CPUs \ {cpu} : Held(k)' = Held(k)
    BY <1>0, ContextsLeft
  <2>2. \A k : Held(k)' = Members(context'[k])  BY DEF Held, Members
  <2> QED  BY <2>1, <2>2 DEF Held
<1>4. e \in Members(context[cpu])  BY TopOfStack DEF LeaveStep, Held
<1>5. SumOf(Spent(context', Began, time)[c], CPUs) = f - x
  BY ONLY <1>0, <1>2, <1>3, <1>4, cpu \in CPUs, SpentLeft
<1>6. g = f - x  BY <1>1, <1>5
<1>7. accumulated_runtime'[c] = accumulated_runtime[c] + x
  <2>1. accumulated_runtime[c] \in Int /\ DOMAIN accumulated_runtime = Consumers
    BY <1>0 DEF TypeOK
  <2>2. CASE e.who \in Deferred
    <3>1. accumulated_runtime' = accumulated_runtime /\ c # e.who
      BY <1>0, <2>2 DEF LeaveStep, timeVars
    <3> QED  BY <2>1, <3>1
  <2>3. CASE e.who \notin Deferred
    <3>1. accumulated_runtime' = [accumulated_runtime EXCEPT ![e.who] = @ + (time - Began[e])]
      BY <2>3 DEF LeaveStep
    <3> QED  BY <1>0, <2>1, <3>1
  <2> QED  BY <2>2, <2>3
<1>8. f \in Int /\ accumulated_runtime[c] \in Int /\ x \in Int
  <2>1. Began[e] \in Int  BY <1>2, <1>4 DEF Timed
  <2> QED  BY <1>0, <1>2, <2>1, SpentSum DEF TypeOK
<1>9. /\ Charged(c, accumulated_runtime', context', Began', time) = accumulated_runtime'[c] + g
      /\ Charged(c, accumulated_runtime, context, Began, time) = accumulated_runtime[c] + f
  BY DEF Charged
<1> HIDE DEF f, g, x
<1> QED  BY <1>6, <1>7, <1>8, <1>9

\* A CPU's contexts are put aside.
Aside(contexts, cpu) == [k \in CPUs |-> IF k = cpu THEN <<>> ELSE contexts[k]]

LEMMA TimedAside ==
  ASSUME NEW contexts, NEW began, Timed(contexts, began), NEW cpu \in CPUs
  PROVE  /\ Timed(Aside(contexts, cpu), began)
         /\ Aside(contexts, cpu)[cpu] = <<>> /\ Members(Aside(contexts, cpu)[cpu]) = {}
         /\ \A k \in CPUs \ {cpu} : Aside(contexts, cpu)[k] = contexts[k]
<1> DEFINE aside == Aside(contexts, cpu)
<1>1. Orderly(<<>>) /\ Members(<<>>) = {} /\ <<>> \in Seq(Entries)  BY FewMembers
<1>2. contexts \in [CPUs -> Seq(Entries)]  BY DEF Timed
<1>3. /\ aside \in [CPUs -> Seq(Entries)] /\ aside[cpu] = <<>>
      /\ \A k \in CPUs \ {cpu} : aside[k] = contexts[k]
  BY <1>1, <1>2 DEF Aside
<1> HIDE DEF aside
<1>4. \A k \in CPUs : Orderly(aside[k])  BY <1>1, <1>3 DEF Timed
<1>5. \A k \in CPUs : \A d \in Members(aside[k]) : began[d] \in Int  BY <1>1, <1>3 DEF Timed
<1> QED  BY <1>1, <1>3, <1>4, <1>5 DEF Timed, aside

LEMMA SwitchCharges ==
  ASSUME TypeInv, KernelInv, NEW cpu \in CPUs, NEW time \in Stamps, NEW next \in Processes,
         SwitchStep(cpu, next, time), time >= last_stamp, TypeInv', KernelInv', NEW c \in Accounted
  PROVE  Charged(c, accumulated_runtime', context', Began', time)
           = Charged(c, accumulated_runtime, context, Began, time)
<1> DEFINE aside == Aside(context, cpu)
           e == Entry(next, NULL)
           p == context[cpu][1]
           f == SumOf(Spent(context, Began, time)[c], CPUs)
           h == SumOf(Spent(aside, Began, time)[c], CPUs)
           g == SumOf(Spent(context', Began', time)[c], CPUs)
           x == IF context[cpu] # <<>> /\ c = p.who THEN time - Began[p] ELSE 0
<1>0. TypeOK /\ c \in Consumers /\ c \notin Deferred /\ c \notin Idle /\ time \in Int
  BY AccountedAre, BoundsAssumption DEF TypeInv, Stamps
<1>1. Timed(context, Began) /\ Timed(context', Began')  BY KernelTimed, KernelTimedNext
<1>2. /\ Timed(aside, Began) /\ aside[cpu] = <<>> /\ Members(aside[cpu]) = {}
      /\ \A k \in CPUs \ {cpu} : aside[k] = context[k]
  BY <1>1, TimedAside
<1>3. /\ Members(context'[cpu]) = {e}
      /\ \A k \in CPUs \ {cpu} : Members(context'[k]) = Members(context[k])
  <2>1. Held(cpu)' = {e} /\ \A k \in CPUs \ {cpu} : Held(k)' = Held(k)
    BY <1>0, ContextsSwitched
  <2>2. \A k : Held(k)' = Members(context'[k])  BY DEF Held, Members
  <2> QED  BY <2>1, <2>2 DEF Held
<1>4. context[cpu] # <<>> => /\ p \in Members(context[cpu]) /\ Members(context[cpu]) = {p}
                             /\ p.who \in Processes /\ p.who = Inner(cpu)
  <2> SUFFICES ASSUME context[cpu] # <<>>
               PROVE  /\ p \in Members(context[cpu]) /\ Members(context[cpu]) = {p}
                      /\ p.who \in Processes /\ p.who = Inner(cpu)
    OBVIOUS
  <2>1. Len(context[cpu]) <= 1 /\ Inner(cpu) \in Processes  BY DEF SwitchStep
  <2>2. context[cpu] \in Seq(Entries)  BY DEF KernelInv, TruthTypeOK
  <2>3. Len(context[cpu]) = 1 /\ DOMAIN context[cpu] = {1}  BY <2>1, <2>2, LoneMember
  <2> QED  BY <2>1, <2>3 DEF Inner, Members
<1>5. h = f - x
  <2>1. CASE context[cpu] = <<>>
    <3>1. aside = context
      <4>1. context \in [CPUs -> Seq(Entries)]  BY <1>1 DEF Timed
      <4> QED  BY <2>1, <4>1 DEF Aside
    <3>2. f \in Int  BY <1>0, <1>1, SpentSum
    <3> QED  BY <2>1, <3>1, <3>2
  <2>2. CASE context[cpu] # <<>>
    <3>1. /\ p \in Members(context[cpu]) /\ Members(aside[cpu]) = Members(context[cpu]) \ {p}
          /\ \A k \in CPUs \ {cpu} : Members(aside[k]) = Members(context[k])
      BY <1>2, <1>4, <2>2
    <3> HIDE DEF aside, p
    <3>2. h = f - (IF c = p.who THEN time - Began[p] ELSE 0)
      BY ONLY <1>0, <1>1, <1>2, <3>1, cpu \in CPUs, SpentLeft DEF h, f
    <3> QED  BY <2>2, <3>2 DEF p
  <2> QED  BY <2>1, <2>2
<1>6. g = h
  <2>1. /\ e.who = next /\ Began'[e] = time
        /\ \A k \in CPUs : \A d \in Held(k) : Began'[d] = Began[d]
    BY <1>0, BeganSwitched, EntryIsEntry
  <2>2. \A k \in CPUs : \A d \in Members(aside[k]) : d \in Held(k)
    BY <1>2 DEF Held
  <2>3. \A k \in CPUs : \A d \in Members(aside[k]) :
          Began[d] <= time /\ (Began'[d] = Began[d] \/ (d.who = e.who /\ Began'[d] = time))
    BY <2>1, <2>2, HeldBefore DEF Held
  <2>4. \A k \in CPUs : \A d \in Members(aside[k]) : d.who = c => Began'[d] = Began[d]
    BY <2>1, <2>2
  <2>5. /\ Members(context'[cpu]) = Members(aside[cpu]) \cup {e}
        /\ \A k \in CPUs \ {cpu} : Members(context'[k]) = Members(aside[k])
    BY <1>2, <1>3
  <2>6. ~Holds(aside[cpu], e.who)  BY <1>2 DEF Holds
  <2>7. c = e.who => Began'[e] = time  BY <2>1
  <2> HIDE DEF aside, e
  <2> QED
    BY ONLY <1>0, <1>1, <1>2, <2>3, <2>4, <2>5, <2>6, <2>7, cpu \in CPUs, SpentEntered DEF g, h
<1>7. accumulated_runtime'[c] = accumulated_runtime[c] + x
  <2>1. accumulated_runtime[c] \in Int /\ DOMAIN accumulated_runtime = Consumers
    BY <1>0 DEF TypeOK
  <2>2. accumulated_runtime' =
          IF context[cpu] # <<>> /\ Inner(cpu) \notin Idle
          THEN [accumulated_runtime EXCEPT ![Inner(cpu)] = @ + (time - Began[p])]
          ELSE accumulated_runtime
    BY DEF SwitchStep
  <2>3. CASE context[cpu] # <<>> /\ c = p.who
    <3>1. Inner(cpu) = c /\ c \notin Idle  BY <1>0, <1>4, <2>3
    <3> HIDE DEF p
    <3> QED  BY <1>0, <2>1, <2>2, <2>3, <3>1
  <2>4. CASE ~(context[cpu] # <<>> /\ c = p.who)
    <3>1. context[cpu] # <<>> => Inner(cpu) # c  BY <1>4, <2>4
    <3>2. x = 0  BY <2>4
    <3> HIDE DEF p, x
    <3> QED  BY <1>0, <2>1, <2>2, <3>1, <3>2
  <2> QED  BY <2>3, <2>4
<1>8. f \in Int /\ accumulated_runtime[c] \in Int /\ x \in Int
  <2>1. context[cpu] # <<>> => Began[p] \in Int  BY <1>1, <1>4 DEF Timed
  <2> HIDE DEF p
  <2> QED  BY <1>0, <1>1, <2>1, SpentSum DEF TypeOK
<1>9. /\ Charged(c, accumulated_runtime', context', Began', time) = accumulated_runtime'[c] + g
      /\ Charged(c, accumulated_runtime, context, Began, time) = accumulated_runtime[c] + f
  BY DEF Charged
<1> HIDE DEF f, g, h, x
<1> QED  BY <1>5, <1>6, <1>7, <1>8, <1>9

\* The step keeps what was charged at the time of the record, or loses some of it
\* for a softirq that executes on two CPUs.
KeepsCharges(time) ==
  \A c \in Accounted :
    /\ Charged(c, accumulated_runtime', context', Began', time)
         <= Charged(c, accumulated_runtime, context, Began, time)
    /\ (c \in SoftIrqs => ~overlap') =>
         Charged(c, accumulated_runtime', context', Began', time)
           = Charged(c, accumulated_runtime, context, Began, time)

\* Nobody who is not accounted for is charged.
Uncharged == \A c \in Idle \cup Deferred : accumulated_runtime'[c] = accumulated_runtime[c]

LEMMA RecordCharges ==
  ASSUME TypeInv, KernelInv, NEW cpu \in CPUs, NEW time \in Stamps, KernelRecord(cpu, time),
         time >= last_stamp, TypeInv', KernelInv'
  PROVE  KeepsCharges(time) /\ Uncharged /\ (overlap => overlap')
<1>0. TypeOK /\ accumulated_runtime \in [Consumers -> Nat] /\ time \in Int
  BY BoundsAssumption DEF TypeInv, TypeOK, Stamps
<1>1. \A c \in Accounted : Charged(c, accumulated_runtime, context, Began, time) \in Int
  BY <1>0, KernelTimed, ChargedType, AccountedAre
<1>2. CASE SameStep
  <2>1. accumulated_runtime' = accumulated_runtime /\ context' = context /\ overlap' = overlap
        /\ UNCHANGED sinces
    BY <1>2 DEF SameStep, timeVars
  <2>2. Began' = Began  BY <2>1, BeganLeft
  <2>3. KeepsCharges(time)  BY <1>1, <2>1, <2>2 DEF KeepsCharges
  <2> QED  BY <2>1, <2>3 DEF Uncharged
<1>3. CASE \E e \in Entries : EnterStep(cpu, e, time)
  <2>1. PICK e \in Entries : EnterStep(cpu, e, time)  BY <1>3
  <2>2. KeepsCharges(time)  BY <2>1, EnterCharges DEF KeepsCharges
  <2> QED  BY <2>1, <2>2 DEF Uncharged, EnterStep, Enter, timeVars
<1>4. CASE \E e \in Entries : LeaveStep(cpu, e, time)
  <2>1. PICK e \in Entries : LeaveStep(cpu, e, time)  BY <1>4
  <2>2. \A c \in Accounted : Charged(c, accumulated_runtime', context', Began', time)
                               = Charged(c, accumulated_runtime, context, Began, time)
    BY <2>1, LeaveCharges
  <2>3. KeepsCharges(time)  BY <1>1, <2>2 DEF KeepsCharges
  <2>4. ASSUME NEW c \in Idle \cup Deferred PROVE accumulated_runtime'[c] = accumulated_runtime[c]
    <3>1. CASE e.who \in Deferred
      BY <2>1, <3>1 DEF LeaveStep, timeVars
    <3>2. CASE e.who \notin Deferred
      <4>1. c # e.who  BY <2>1, <3>2, Kinds DEF LeaveStep
      <4>2. accumulated_runtime' = [accumulated_runtime EXCEPT ![e.who] = @ + (time - Began[e])]
        BY <2>1, <3>2 DEF LeaveStep
      <4> QED  BY <4>1, <4>2
    <3> QED  BY <3>1, <3>2
  <2>5. overlap' = overlap  BY <2>1 DEF LeaveStep
  <2> QED  BY <2>3, <2>4, <2>5 DEF Uncharged
<1>5. CASE \E next \in Processes : SwitchStep(cpu, next, time)
  <2>1. PICK next \in Processes : SwitchStep(cpu, next, time)  BY <1>5
  <2>2. \A c \in Accounted : Charged(c, accumulated_runtime', context', Began', time)
                               = Charged(c, accumulated_runtime, context, Began, time)
    BY <2>1, SwitchCharges
  <2>3. KeepsCharges(time)  BY <1>1, <2>2 DEF KeepsCharges
  <2>4. ASSUME NEW c \in Idle \cup Deferred PROVE accumulated_runtime'[c] = accumulated_runtime[c]
    <3>1. context[cpu] # <<>> /\ Inner(cpu) \notin Idle => Inner(cpu) # c
      BY <2>1, Kinds DEF SwitchStep
    <3>2. accumulated_runtime' =
            IF context[cpu] # <<>> /\ Inner(cpu) \notin Idle
            THEN [accumulated_runtime EXCEPT ![Inner(cpu)] = @ + (time - Began[context[cpu][1]])]
            ELSE accumulated_runtime
      BY <2>1 DEF SwitchStep
    <3> QED  BY <3>1, <3>2
  <2>5. overlap' = overlap  BY <2>1 DEF SwitchStep
  <2> QED  BY <2>3, <2>4, <2>5 DEF Uncharged
<1> QED  BY <1>2, <1>3, <1>4, <1>5, RecordSteps
-----------------------------------------------------------------------------
(***************************************************************************)
(* Between measurements nothing is in progress, and nothing is charged.    *)
(***************************************************************************)
Fresh ==
  /\ context = [cpu \in CPUs |-> <<>>] /\ active = NoCounts /\ alone = NoCounts /\ overlap = FALSE
  /\ \A cpu \in CPUs : cpu_stack[cpu] = <<>>
  /\ \A c \in Consumers : accumulated_runtime[c] = 0 /\ child_runtime[c] = 0

LEMMA SumOfZeros == \A f : (\A cpu \in CPUs : f[cpu] = 0) => SumOf(f, CPUs) = 0
<1> SUFFICES ASSUME NEW f, \A cpu \in CPUs : f[cpu] = 0 PROVE SumOf(f, CPUs) = 0  OBVIOUS
<1>1. {} \in SUBSET CPUs /\ \A cpu \in CPUs : f[cpu] \in Int  OBVIOUS
<1>2. \A cpu \in CPUs \ {} : f[cpu] = 0  OBVIOUS
<1>3. SumOf(f, CPUs) = SumOf(f, {})  BY <1>1, <1>2, FiniteAssumption, SumOfPart
<1> QED  BY <1>3, SumOfNone

\* Nothing is in progress of a consumer that is off every stack.
LEMMA OffStack ==
  ASSUME KernelInv, NEW c \in Consumers, c \notin Deferred, ~OnStack(c)
  PROVE  \A cpu \in CPUs : /\ ~Holds(context[cpu], c)
                           /\ \A i \in DOMAIN Shown(context[cpu]) : Shown(context[cpu])[i] # c
<1> SUFFICES ASSUME NEW cpu \in CPUs
             PROVE  /\ ~Holds(context[cpu], c)
                    /\ \A i \in DOMAIN Shown(context[cpu]) : Shown(context[cpu])[i] # c
  OBVIOUS
<1>1. context[cpu] \in Seq(Entries) /\ cpu_stack[cpu] = Shown(context[cpu])
  BY DEF KernelInv, TruthTypeOK, StackMirrorsKernel, Traced
<1>2. \A i \in DOMAIN Shown(context[cpu]) : Shown(context[cpu])[i] # c  BY <1>1 DEF OnStack
<1>3. ~\E i \in DOMAIN context[cpu] : context[cpu][i].who = c
  BY <1>1, <1>2, ShownMembers DEF Showing
<1> QED  BY <1>2, <1>3 DEF Holds, Members

LEMMA FreshCharges == TypeInv /\ Fresh => KernelInv /\ ChargesAddUp /\ NeverCharged
<1> SUFFICES ASSUME TypeInv, Fresh PROVE KernelInv /\ ChargesAddUp /\ NeverCharged  OBVIOUS
<1>1. /\ Orderly(<<>>) /\ Members(<<>>) = {} /\ <<>> \in Seq(Entries) /\ Shown(<<>>) = <<>>
  BY FewMembers, ShownNone
<1>2. /\ context \in [CPUs -> Seq(Entries)] /\ active \in [Consumers -> Nat]
      /\ alone \in [Consumers -> Nat] /\ overlap \in BOOLEAN
  BY <1>1 DEF Fresh, NoCounts
<1>3. \A cpu \in CPUs : context[cpu] = <<>> /\ Held(cpu) = {}  BY <1>1 DEF Fresh, Held
<1>4. OnOneCPU /\ KeysFit /\ KeysDiffer /\ BeginningsKnown
  BY <1>3 DEF OnOneCPU, KeysFit, KeysDiffer, BeginningsKnown
<1>5. StackMirrorsKernel  BY <1>1, <1>3 DEF StackMirrorsKernel, Traced, Fresh
<1>6. OrderlyContexts  BY <1>1, <1>3 DEF OrderlyContexts
<1>7. KernelInv  BY <1>2, <1>3, <1>4, <1>5, <1>6 DEF KernelInv, TruthTypeOK, EmptyBetween
<1>8. ASSUME NEW c \in Accounted
      PROVE  /\ accumulated_runtime[c] = 0 /\ active[c] = 0
             /\ SumOf(Spent(context, Began, last_stamp)[c], CPUs) = 0
  <2>1. c \in Consumers  BY AccountedAre
  <2>2. Timed(context, Began)  BY <1>7, KernelTimed
  <2>3. last_stamp \in Int  BY BoundsAssumption DEF TypeInv, TypeOK
  <2>4. \A cpu \in CPUs : ~Holds(context[cpu], c)  BY <1>1, <1>3 DEF Holds
  <2>5. \A cpu \in CPUs : Spent(context, Began, last_stamp)[c][cpu] = 0
    BY <2>1, <2>2, <2>3, <2>4, SpentOn
  <2> QED  BY <2>1, <2>5, SumOfZeros DEF Fresh, NoCounts
<1>9. ChargesAddUp  BY <1>8 DEF ChargesAddUp
<1>10. NeverCharged  BY Kinds DEF Fresh, NeverCharged
<1> QED  BY <1>7, <1>9, <1>10

\* What clearing leaves of nothing is nothing.
LEMMA ClearedTimes ==
  ASSUME TypeOK, NEW gone, Delete(gone), NEW c \in Consumers
  PROVE  /\ accumulated_runtime[c] = 0 \/ c \in gone => accumulated_runtime'[c] = 0
         /\ child_runtime[c] = 0 \/ c \in gone => child_runtime'[c] = 0
BY DEF TypeOK, Delete, Cleared

LEMMA PhasesAreFresh ==
  ASSUME TypeOK, KernelInv, NothingBetween, Forget,
         StartMeasurement \/ BeginProcessing \/ EndProcessData
  PROVE  Fresh'
<1>1. context' = [cpu \in CPUs |-> <<>>] /\ active' = NoCounts /\ alone' = NoCounts /\ ~overlap'
      /\ overlap' \in BOOLEAN
  BY DEF Forget
<1>2. overlap' = FALSE  BY <1>1, Zenon
<1>3. \A cpu \in CPUs : cpu_stack'[cpu] = <<>>
  <2>1. CASE StartMeasurement
    <3>1. phase # "processing" /\ cpu_stack' = cpu_stack  BY <2>1 DEF StartMeasurement
    <3>2. \A cpu \in CPUs : context[cpu] = <<>>  BY <3>1 DEF KernelInv, EmptyBetween
    <3> QED  BY <3>1, <3>2, EmptyStack
  <2>2. CASE ~StartMeasurement
    <3>1. cpu_stack' = [cpu \in CPUs |-> <<>>]  BY <2>2 DEF BeginProcessing, EndProcessData
    <3> QED  BY <3>1
  <2> QED  BY <2>1, <2>2
<1>4. ASSUME NEW c \in Consumers PROVE accumulated_runtime'[c] = 0 /\ child_runtime'[c] = 0
  <2>1. CASE StartMeasurement
    <3>1. phase # "processing" /\ UNCHANGED timeVars  BY <2>1 DEF StartMeasurement
    <3> QED  BY <3>1 DEF NothingBetween, timeVars
  <2>2. CASE BeginProcessing
    <3>1. phase # "processing" /\ Delete(Processes \cup Interrupts)
      BY <2>2 DEF BeginProcessing
    <3> QED  BY <3>1, ClearedTimes DEF NothingBetween
  <2>3. CASE EndProcessData
    <3>1. Delete(Consumers)  BY <2>3 DEF EndProcessData
    <3> QED  BY <3>1, ClearedTimes
  <2> QED  BY <2>1, <2>2, <2>3
<1> QED  BY <1>1, <1>2, <1>3, <1>4 DEF Fresh

\* A record of the kernel, while time passes.
LEMMA RecordKeepsKernel ==
  ASSUME TypeInv, KernelInv, NEW cpu \in CPUs, NEW time \in Stamps,
         KernelRecord(cpu, time), TimePasses(time)
  PROVE  KernelInv' /\ time >= last_stamp /\ last_stamp' = time /\ phase = "processing"
         /\ phase' = "processing"
<1>0. TypeOK  BY DEF TypeInv
<1>1. Record(time)
  BY DEF KernelRecord, KernelOther, OtherRecord, KernelSwitch, SchedSwitch, KernelIrqEntry,
         IrqHandlerEntry, StartInterrupt, KernelSoftirqEntry, SoftirqEntry, KernelInterruptExit,
         InterruptExit, EndInterrupt, KernelTimerEntry, TimerExpireEntry, FireTimer, SkipDeferred,
         KernelTimerExit, TimerExpireExit, DoneTimer, KernelWorkStart, WorkqueueExecuteStart,
         KernelWorkEnd, WorkqueueExecuteEnd, DoneWork
<1>2. phase = "processing" /\ phase' = "processing" /\ time >= last_stamp /\ last_stamp' = time
  BY <1>0, <1>1, RecordType DEF Record, InOrder
<1>3. Clocks'  BY <1>0, <1>2, ClocksType DEF Clocks
<1>4. KernelInv'
  BY <1>0, <1>2, <1>3, RecordSteps, SameKeepsKernel, EnterKeepsKernel, LeaveKeepsKernel,
     SwitchKeepsKernel
<1> QED  BY <1>2, <1>4

LEMMA RecordKeepsCharges ==
  ASSUME TypeInv, KernelInv, ChargesAddUp, NeverCharged, NEW cpu \in CPUs, NEW time \in Stamps,
         KernelRecord(cpu, time), TimePasses(time), TypeInv'
  PROVE  ChargesAddUp' /\ NeverCharged'
<1>1. KernelInv' /\ time >= last_stamp /\ last_stamp' = time  BY RecordKeepsKernel
<1>2. KeepsCharges(time) /\ Uncharged /\ (overlap => overlap')  BY <1>1, RecordCharges
<1>3. ChargesAddUp'  BY <1>1, <1>2, ChargesFollow DEF KeepsCharges
<1>4. NeverCharged'  BY <1>2 DEF NeverCharged, Uncharged
<1> QED  BY <1>3, <1>4
-----------------------------------------------------------------------------
(***************************************************************************)
(* The time spent with something on top.                                   *)
(***************************************************************************)
Places(v, c) == {i \in DOMAIN v : v[i] = c}

LEMMA SameMember ==
  ASSUME NEW s, Distinct(s), NEW d \in Members(s), NEW e \in Members(s), d.who = e.who
  PROVE  d = e
BY DEF Distinct, Members

\* It is that of the entry on top.
LEMMA TimeOfTop ==
  ASSUME NEW s \in Seq(Entries), Distinct(s), NEW began, NEW now \in Int, NEW c,
         \A d \in Members(s) : began[d] \in Int
  PROVE  /\ TimeOnTop(s, c, began, now) \in Int
         /\ PlacesUnder(Shown(s), c) = {} => TimeOnTop(s, c, began, now) = 0
         /\ \A i \in PlacesUnder(Shown(s), c) : \E d \in Members(s) :
              d.who = Shown(s)[i + 1] /\ TimeOnTop(s, c, began, now) = now - began[d]
<1> DEFINE v == Shown(s)
<1>1. /\ v \in Seq(Consumers)
      /\ \A x : (\E i \in DOMAIN v : v[i] = x) => \E i \in DOMAIN s : s[i].who = x
      /\ \A i, j \in DOMAIN v : v[i] = v[j] => i = j
  BY ShownMembers DEF Showing
<1> HIDE DEF v
<1>2. PlacesUnder(v, c) = {} => TimeOnTop(s, c, began, now) = 0  BY DEF TimeOnTop, v
<1>3. ASSUME NEW i \in PlacesUnder(v, c)
      PROVE  \E d \in Members(s) :
               d.who = v[i + 1] /\ began[d] \in Int /\ TimeOnTop(s, c, began, now) = now - began[d]
  <2>1. i \in DOMAIN v /\ i < Len(v) /\ v[i] = c  BY DEF PlacesUnder
  <2>2. \A j \in PlacesUnder(v, c) : j = i  BY <1>1, <2>1 DEF PlacesUnder
  <2>3. (CHOOSE j \in PlacesUnder(v, c) : TRUE) = i  BY <2>2
  <2>4. OnTopOf(v, c) = v[i + 1]  BY <2>3 DEF OnTopOf
  <2>5. i + 1 \in DOMAIN v  BY <1>1, <2>1
  <2>6. PICK k \in DOMAIN s : s[k].who = v[i + 1]  BY <1>1, <2>5
  <2>7. s[k] \in Members(s)  BY DEF Members
  <2>8. EntryOf(s, v[i + 1]) = s[k]  BY <2>6, <2>7, EntryOfMember
  <2>9. TimeOnTop(s, c, began, now) = now - began[s[k]]  BY <2>4, <2>8 DEF TimeOnTop, v
  <2> QED  BY <2>6, <2>7, <2>9
<1>4. TimeOnTop(s, c, began, now) \in Int
  <2>1. CASE PlacesUnder(v, c) = {}  BY <1>2, <2>1
  <2>2. CASE PlacesUnder(v, c) # {}
    <3>1. PICK d \in Members(s) : began[d] \in Int /\ TimeOnTop(s, c, began, now) = now - began[d]
      BY <1>3, <2>2
    <3> QED  BY <3>1
  <2> QED  BY <2>1, <2>2
<1> QED  BY <1>2, <1>3, <1>4 DEF v

\* One place more.
LEMMA PlacesMore ==
  ASSUME NEW S, NEW v \in Seq(S), NEW x \in S, NEW c
  PROVE  /\ PlacesUnder(Append(v, x), c) = Places(v, c)
         /\ PlacesUnder(v, c) = {i \in Places(v, c) : i < Len(v)}
         /\ \A i \in Places(v, c) :
              /\ i \in Nat /\ i <= Len(v)
              /\ i < Len(v) => Append(v, x)[i + 1] = v[i + 1]
              /\ i = Len(v) => Append(v, x)[i + 1] = x
<1> DEFINE w == Append(v, x)
           m == Len(v)
<1>1. /\ m \in Nat /\ DOMAIN v = 1..m /\ Len(w) = m + 1 /\ DOMAIN w = 1..(m + 1) /\ w[m + 1] = x
      /\ \A k \in 1..m : w[k] = v[k]
  OBVIOUS
<1> HIDE DEF w
<1>2. PlacesUnder(w, c) = Places(v, c)
  <2>1. \A i \in 1..(m + 1) : i < m + 1 <=> i \in 1..m  BY <1>1
  <2>2. \A i \in 1..m : i \in 1..(m + 1)  BY <1>1
  <2>3. \A i : i \in PlacesUnder(w, c) <=> i \in 1..(m + 1) /\ i < m + 1 /\ w[i] = c
    BY <1>1 DEF PlacesUnder
  <2>4. \A i : i \in Places(v, c) <=> i \in 1..m /\ v[i] = c  BY <1>1 DEF Places
  <2>5. \A i : i \in PlacesUnder(w, c) <=> i \in Places(v, c)  BY <1>1, <2>1, <2>2, <2>3, <2>4
  <2> QED  BY <2>5
<1>3. PlacesUnder(v, c) = {i \in Places(v, c) : i < Len(v)}  BY DEF PlacesUnder, Places
<1>4. ASSUME NEW i \in Places(v, c)
      PROVE  /\ i \in Nat /\ i <= m /\ (i < m => w[i + 1] = v[i + 1]) /\ (i = m => w[i + 1] = x)
  <2>1. i \in 1..m  BY <1>1 DEF Places
  <2>2. i < m => i + 1 \in 1..m  BY <1>1, <2>1
  <2> QED  BY <1>1, <2>1, <2>2
<1> QED  BY <1>2, <1>3, <1>4 DEF w

\* What is on top of everything else is on top of the one below.
LEMMA TimeOnTopMore ==
  ASSUME NEW s \in Seq(Entries), NEW e \in Entries, Distinct(s), Distinct(Append(s, e)),
         Members(Append(s, e)) = Members(s) \cup {e}, NEW began, NEW begins, NEW now \in Int, NEW c,
         \A d \in Members(s) : began[d] \in Int /\ begins[d] = began[d], begins[e] \in Int
  PROVE  TimeOnTop(Append(s, e), c, begins, now) =
           TimeOnTop(s, c, began, now)
             + (IF e.who \notin Deferred /\ Len(Shown(s)) \in Places(Shown(s), c)
                THEN now - begins[e] ELSE 0)
<1> DEFINE r == Append(s, e)
           v == Shown(s)
           w == Shown(r)
           m == Len(v)
           t == TimeOnTop(s, c, began, now)
           u == TimeOnTop(r, c, begins, now)
<1>1. r \in Seq(Entries) /\ Distinct(r) /\ Members(r) = Members(s) \cup {e} /\ e.who \in Consumers
  BY DEF Entries
<1>2. w = (IF e.who \in Deferred THEN v ELSE Append(v, e.who)) /\ v \in Seq(Consumers)
  BY ShownMore DEF ShownTo
<1>3. \A i, j \in DOMAIN v : v[i] = v[j] => i = j  BY ShownMembers DEF Showing
<1> HIDE DEF r
<1>4. \A d \in Members(r) : begins[d] \in Int  BY <1>1
<1>5. /\ t \in Int /\ (PlacesUnder(v, c) = {} => t = 0)
      /\ \A i \in PlacesUnder(v, c) : \E d \in Members(s) : d.who = v[i + 1] /\ t = now - began[d]
  BY TimeOfTop
<1>6. /\ u \in Int /\ (PlacesUnder(w, c) = {} => u = 0)
      /\ \A i \in PlacesUnder(w, c) : \E d \in Members(r) : d.who = w[i + 1] /\ u = now - begins[d]
  BY <1>1, <1>4, TimeOfTop
<1> HIDE DEF t, u, v, w
\* The same is on top.
<1>7. ASSUME NEW i \in PlacesUnder(v, c), i \in PlacesUnder(w, c), v[i + 1] = w[i + 1]
      PROVE  u = t
  <2>1. PICK d \in Members(s) : d.who = v[i + 1] /\ t = now - began[d]  BY <1>5
  <2>2. PICK k \in Members(r) : k.who = w[i + 1] /\ u = now - begins[k]  BY <1>6, <1>7
  <2>3. d = k
    <3>1. d \in Members(r) /\ d.who = k.who  BY <1>1, <1>7, <2>1, <2>2
    <3> QED  BY <1>1, <3>1, SameMember
  <2> QED  BY <2>1, <2>2, <2>3
<1>8. CASE e.who \in Deferred
  <2>1. w = v  BY <1>2, <1>8
  <2>2. u = t
    <3>1. CASE PlacesUnder(v, c) = {}  BY <1>5, <1>6, <2>1, <3>1
    <3>2. CASE PlacesUnder(v, c) # {}  BY <1>7, <2>1, <3>2
    <3> QED  BY <3>1, <3>2
  <2> QED  BY <1>5, <1>8, <2>2 DEF t, u, r
<1>9. CASE e.who \notin Deferred
  <2>1. w = Append(v, e.who)  BY <1>2, <1>9
  <2>2. /\ PlacesUnder(w, c) = Places(v, c)
        /\ PlacesUnder(v, c) = {i \in Places(v, c) : i < m}
        /\ \A i \in Places(v, c) :
             /\ i \in Nat /\ i <= m
             /\ i < m => w[i + 1] = v[i + 1]
             /\ i = m => w[i + 1] = e.who
    BY <1>1, <1>2, <2>1, PlacesMore
  <2>3. m \in Nat  BY <1>2
  <2>4. \A i, j \in Places(v, c) : i = j  BY <1>3 DEF Places
  <2> HIDE DEF m
  <2>5. CASE m \in Places(v, c)
    <3>1. PlacesUnder(v, c) = {}
      <4>1. \A i \in Places(v, c) : i = m  BY <2>4, <2>5
      <4> QED  BY <2>2, <2>3, <4>1
    <3>2. PICK k \in Members(r) : k.who = e.who /\ u = now - begins[k]
      <4>1. m \in PlacesUnder(w, c) /\ w[m + 1] = e.who  BY <2>2, <2>5
      <4> QED  BY <1>6, <4>1
    <3>3. k = e
      <4>1. e \in Members(r)  BY <1>1
      <4> QED  BY <1>1, <3>2, <4>1, SameMember
    <3>4. u = t + (now - begins[e])  BY <1>5, <1>6, <3>1, <3>2, <3>3
    <3> QED  BY <1>9, <2>5, <3>4 DEF t, u, r, v, m
  <2>6. CASE m \notin Places(v, c)
    <3>1. \A i \in Places(v, c) : i < m
      <4> SUFFICES ASSUME NEW i \in Places(v, c) PROVE i < m  OBVIOUS
      <4>1. i \in Nat /\ i <= m /\ i # m  BY <2>2, <2>6
      <4> QED  BY <2>3, <4>1
    <3>2. u = t
      <4>1. CASE Places(v, c) = {}  BY <1>5, <1>6, <2>2, <4>1
      <4>2. CASE Places(v, c) # {}
        <5>1. PICK i \in Places(v, c) : TRUE  BY <4>2
        <5>2. i \in PlacesUnder(v, c) /\ i \in PlacesUnder(w, c) /\ v[i + 1] = w[i + 1]
          BY <2>2, <3>1
        <5> QED  BY <1>7, <5>2
      <4> QED  BY <4>1, <4>2
    <3>3. t + 0 = t  BY <1>5
    <3> QED  BY <2>6, <3>2, <3>3 DEF t, u, r, v, m
  <2> QED  BY <2>5, <2>6
<1> QED  BY <1>8, <1>9

\* The same of a stack that has a name.
Atop(s, e) == Append(s, e)
LEMMA TimeOnTopOf ==
  ASSUME NEW s \in Seq(Entries), NEW e \in Entries, NEW r, r = Atop(s, e), Distinct(s), Distinct(r),
         Members(r) = Members(s) \cup {e}, NEW began, NEW begins, NEW now \in Int, NEW c,
         \A d \in Members(s) : began[d] \in Int /\ begins[d] = began[d], begins[e] \in Int
  PROVE  TimeOnTop(r, c, begins, now) =
           TimeOnTop(s, c, began, now)
             + (IF e.who \notin Deferred /\ Len(Shown(s)) \in Places(Shown(s), c)
                THEN now - begins[e] ELSE 0)
<1>1. Distinct(Append(s, e)) /\ Members(Append(s, e)) = Members(s) \cup {e}  BY DEF Atop
<1>2. TimeOnTop(Append(s, e), c, begins, now) =
           TimeOnTop(s, c, began, now)
             + (IF e.who \notin Deferred /\ Len(Shown(s)) \in Places(Shown(s), c)
                THEN now - begins[e] ELSE 0)
  BY <1>1, TimeOnTopMore
<1> QED  BY <1>2 DEF Atop

\* The entries on top, over all CPUs.
LEMMA UnderOn ==
  ASSUME NEW contexts, NEW began, Timed(contexts, began), NEW now \in Int,
         NEW c \in Consumers, NEW cpu \in CPUs
  PROVE  /\ Under(contexts, began, now)[c][cpu] = TimeOnTop(contexts[cpu], c, began, now)
         /\ TimeOnTop(contexts[cpu], c, began, now) \in Int
         /\ PlacesUnder(Shown(contexts[cpu]), c) = {} => TimeOnTop(contexts[cpu], c, began, now) = 0
<1> DEFINE s == contexts[cpu]
<1>1. s \in Seq(Entries) /\ Distinct(s) /\ \A d \in Members(s) : began[d] \in Int
  BY DEF Timed, Orderly
<1> HIDE DEF s
<1>2. /\ TimeOnTop(s, c, began, now) \in Int
      /\ PlacesUnder(Shown(s), c) = {} => TimeOnTop(s, c, began, now) = 0
  BY <1>1, TimeOfTop
<1>3. Under(contexts, began, now)[c][cpu] = TimeOnTop(contexts[cpu], c, began, now)  BY DEF Under
<1> QED  BY <1>2, <1>3 DEF s

LEMMA UnderSum ==
  ASSUME NEW contexts, NEW began, Timed(contexts, began), NEW now \in Int, NEW c \in Consumers
  PROVE  SumOf(Under(contexts, began, now)[c], CPUs) \in Int
<1>1. \A cpu \in CPUs : Under(contexts, began, now)[c][cpu] \in Int  BY UnderOn
<1> QED  BY <1>1, FiniteAssumption, SumRest

LEMMA TopTimePasses ==
  ASSUME NEW s \in Seq(Entries), Distinct(s), NEW began, NEW now \in Int, NEW later \in Int, NEW c,
         \A d \in Members(s) : began[d] \in Int, PlacesUnder(Shown(s), c) # {}
  PROVE  TimeOnTop(s, c, began, later) = TimeOnTop(s, c, began, now) + (later - now)
<1>1. PICK i \in PlacesUnder(Shown(s), c) : TRUE  OBVIOUS
<1>2. PICK d \in Members(s) :
        d.who = Shown(s)[i + 1] /\ TimeOnTop(s, c, began, now) = now - began[d]
  BY TimeOfTop
<1>3. PICK e \in Members(s) :
        e.who = Shown(s)[i + 1] /\ TimeOnTop(s, c, began, later) = later - began[e]
  BY TimeOfTop
<1>4. d = e  BY <1>2, <1>3, SameMember
<1>5. began[d] \in Int  OBVIOUS
<1> QED  BY <1>2, <1>3, <1>4, <1>5

\* Where something is on top of c.
CoveredOn(contexts, c) == {cpu \in CPUs : PlacesUnder(Shown(contexts[cpu]), c) # {}}

LEMMA UnderPasses ==
  ASSUME NEW contexts, NEW began, Timed(contexts, began), NEW now \in Int, NEW later \in Int,
         NEW c \in Consumers
  PROVE  SumOf(Under(contexts, began, later)[c], CPUs) =
           SumOf(Under(contexts, began, now)[c], CPUs)
             + (later - now) * Cardinality(CoveredOn(contexts, c))
<1> DEFINE f == Under(contexts, began, now)[c]
           g == Under(contexts, began, later)[c]
           P == CoveredOn(contexts, c)
<1>0. P = {cpu \in CPUs : PlacesUnder(Shown(contexts[cpu]), c) # {}}  BY DEF CoveredOn
<1>1. ASSUME NEW cpu \in CPUs
      PROVE  f[cpu] \in Int /\ g[cpu] = IF cpu \in P THEN f[cpu] + (later - now) ELSE f[cpu]
  <2>1. /\ f[cpu] = TimeOnTop(contexts[cpu], c, began, now) /\ f[cpu] \in Int
        /\ g[cpu] = TimeOnTop(contexts[cpu], c, began, later)
    BY UnderOn
  <2>2. CASE cpu \in P
    <3>1. contexts[cpu] \in Seq(Entries) /\ Distinct(contexts[cpu])
          /\ \A d \in Members(contexts[cpu]) : began[d] \in Int
      BY DEF Timed, Orderly
    <3>2. g[cpu] = f[cpu] + (later - now)  BY <1>0, <2>1, <2>2, <3>1, TopTimePasses
    <3> QED  BY <2>1, <2>2, <3>2
  <2>3. CASE cpu \notin P
    <3>1. f[cpu] = 0 /\ g[cpu] = 0  BY <1>0, <2>1, <2>3, UnderOn
    <3> QED  BY <2>3, <3>1
  <2> QED  BY <2>2, <2>3
<1>2. later - now \in Int /\ P \in SUBSET CPUs  BY <1>0
<1> HIDE DEF f, g, P
<1>3. SumOf(g, CPUs) = SumOf(f, CPUs) + (later - now) * Cardinality(P)
  BY <1>1, <1>2, FiniteAssumption, SumPasses
<1> QED  BY <1>3 DEF f, g, P

\* Whoever executes is innermost, or something is on top.
LEMMA TopOrUnder ==
  ASSUME NEW v \in Seq(Consumers), \A i, j \in DOMAIN v : v[i] = v[j] => i = j, NEW c
  PROVE  /\ (\E i \in DOMAIN v : v[i] = c) <=> (v # <<>> /\ v[Len(v)] = c) \/ PlacesUnder(v, c) # {}
         /\ ~(v # <<>> /\ v[Len(v)] = c /\ PlacesUnder(v, c) # {})
<1> DEFINE m == Len(v)
<1>1. m \in Nat /\ DOMAIN v = 1..m /\ (v # <<>> => m \in 1..m) /\ (v = <<>> => m = 0)  OBVIOUS
<1> HIDE DEF m
<1>2. PlacesUnder(v, c) = {i \in 1..m : i < m /\ v[i] = c}  BY <1>1 DEF PlacesUnder, m
<1>3. ASSUME NEW i \in DOMAIN v, v[i] = c, PlacesUnder(v, c) = {} PROVE v # <<>> /\ v[m] = c
  <2>1. i \in 1..m /\ ~(i < m)  BY <1>1, <1>2, <1>3
  <2>2. i = m  BY <1>1, <2>1
  <2>3. v # <<>>  BY <1>1, <2>1
  <2> QED  BY <1>3, <2>2, <2>3
<1>4. ASSUME v # <<>>, v[m] = c PROVE m \in DOMAIN v /\ PlacesUnder(v, c) = {}
  <2>1. m \in DOMAIN v  BY <1>1, <1>4
  <2>2. \A i \in 1..m : v[i] = c => i = m  BY <1>1, <1>4, <2>1
  <2>3. \A i \in 1..m : i = m => ~(i < m)  BY <1>1
  <2> QED  BY <1>2, <2>1, <2>2, <2>3
<1>5. PlacesUnder(v, c) # {} => \E i \in DOMAIN v : v[i] = c  BY DEF PlacesUnder
<1> QED  BY <1>3, <1>4, <1>5 DEF m

\* The time of the nested, when the record arrives.
Covered(c, child, contexts, began, now) == child[c] + SumOf(Under(contexts, began, now)[c], CPUs)

LEMMA NestingPasses ==
  ASSUME TypeInv, KernelInv, NestingAddsUp, ~overlap, NEW time \in Stamps, TimePasses(time),
         NEW c \in Accounted
  PROVE  active'[c] - alone'[c] <= Covered(c, child_runtime, context, Began, time)
<1> DEFINE f == SumOf(Under(context, Began, last_stamp)[c], CPUs)
           g == SumOf(Under(context, Began, time)[c], CPUs)
           H == {cpu \in CPUs : InContext(c, cpu)}
           I == {cpu \in CPUs : Traced(cpu) # <<>> /\ Traced(cpu)[Len(Traced(cpu))] = c}
           B == CoveredOn(context, c)
           p == time - last_stamp
<1>1. c \in Consumers /\ c \notin Deferred  BY AccountedAre
<1>2. last_stamp \in Int /\ time \in Int /\ p \in Int  BY BoundsAssumption DEF TypeInv, TypeOK, Stamps
<1>3. Timed(context, Began)  BY KernelTimed
<1>4. f \in Int  BY <1>1, <1>2, <1>3, UnderSum
<1>5. g = f + p * Cardinality(B)  BY <1>1, <1>2, <1>3, UnderPasses
<1>6. ASSUME NEW cpu \in CPUs
      PROVE  (cpu \in H <=> cpu \in I \/ cpu \in B) /\ ~(cpu \in I /\ cpu \in B)
  <2>1. context[cpu] \in Seq(Entries) /\ Distinct(context[cpu])  BY <1>3 DEF Timed, Orderly
  <2>2. /\ Traced(cpu) \in Seq(Consumers)
        /\ \A i, j \in DOMAIN Traced(cpu) : Traced(cpu)[i] = Traced(cpu)[j] => i = j
        /\ (\E i \in DOMAIN Traced(cpu) : Traced(cpu)[i] = c)
             <=> \E i \in DOMAIN context[cpu] : context[cpu][i].who = c
    BY <1>1, <2>1, ShownMembers DEF Showing, Traced
  <2>3. /\ (\E i \in DOMAIN Traced(cpu) : Traced(cpu)[i] = c)
             <=> (Traced(cpu) # <<>> /\ Traced(cpu)[Len(Traced(cpu))] = c)
                   \/ PlacesUnder(Traced(cpu), c) # {}
        /\ ~(Traced(cpu) # <<>> /\ Traced(cpu)[Len(Traced(cpu))] = c /\ PlacesUnder(Traced(cpu), c) # {})
    BY <2>2, TopOrUnder
  <2> QED  BY <2>2, <2>3 DEF InContext, Traced, CoveredOn
<1>7. /\ Cardinality(H) = Cardinality(I) + Cardinality(B)
      /\ Cardinality(I) \in Int /\ Cardinality(B) \in Int
  <2>1. H = I \cup B /\ I \cap B = {}  BY <1>6 DEF CoveredOn
  <2>2. IsFiniteSet(I) /\ IsFiniteSet(B)  BY FiniteAssumption, FS_Subset DEF CoveredOn
  <2> HIDE DEF H, I, B
  <2>3. Cardinality(I) \in Nat /\ Cardinality(B) \in Nat  BY <2>2, FS_CardinalityType
  <2>4. Cardinality(I \cup B) = Cardinality(I) + Cardinality(B) - Cardinality(I \cap B)
    BY <2>2, FS_Union
  <2>5. Cardinality(I \cap B) = 0  BY <2>1, FS_EmptySet
  <2> QED  BY <2>1, <2>3, <2>4, <2>5
<1>8. active'[c] = active[c] + p * Cardinality(H) /\ alone'[c] = alone[c] + p * Cardinality(I)
  BY <1>1 DEF TimePasses
<1>9. active[c] - alone[c] <= child_runtime[c] + f  BY DEF NestingAddsUp
<1>10. active[c] \in Nat /\ alone[c] \in Nat /\ child_runtime[c] \in Nat
  BY <1>1 DEF TypeInv, TypeOK, KernelInv, TruthTypeOK
<1>11. Covered(c, child_runtime, context, Began, time) = child_runtime[c] + g  BY DEF Covered
<1> HIDE DEF f, g, p, H, I, B
<1>12. \A x, y, z \in Int : x * (y + z) = x * y + x * z /\ x * y \in Int /\ x * z \in Int  OBVIOUS
<1>13. /\ p * Cardinality(H) = p * Cardinality(I) + p * Cardinality(B)
       /\ p * Cardinality(I) \in Int /\ p * Cardinality(B) \in Int
  BY <1>2, <1>7, <1>12
<1> QED  BY <1>4, <1>5, <1>8, <1>9, <1>10, <1>11, <1>13

\* The step takes no time of the nested away, unless softirqs overlapped.
KeepsNesting(time) ==
  ~overlap' => \A c \in Accounted :
    Covered(c, child_runtime, context, Began, time) <= Covered(c, child_runtime', context', Began', time)

\* It is enough to look at the CPU of the record.
LEMMA NestingFollows ==
  ASSUME TypeInv, KernelInv, TypeInv', KernelInv', NEW cpu \in CPUs, NEW time \in Stamps,
         NEW c \in Accounted, NEW delta \in Nat,
         \A k \in CPUs \ {cpu} : context'[k] = context[k],
         \A k \in CPUs \ {cpu} : \A d \in Members(context[k]) : Began'[d] = Began[d],
         TimeOnTop(context[cpu], c, Began, time) <= TimeOnTop(context'[cpu], c, Began', time) + delta,
         child_runtime'[c] = child_runtime[c] + delta
  PROVE  Covered(c, child_runtime, context, Began, time)
           <= Covered(c, child_runtime', context', Began', time)
<1> DEFINE f == Under(context, Began, time)[c]
           g == Under(context', Began', time)[c]
           h == [k \in CPUs |-> IF k = cpu THEN g[k] + delta ELSE g[k]]
<1>1. c \in Consumers /\ time \in Int /\ child_runtime[c] \in Nat
  BY AccountedAre, BoundsAssumption DEF TypeInv, TypeOK, Stamps
<1>2. Timed(context, Began) /\ Timed(context', Began')  BY KernelTimed, KernelTimedNext
<1>3. \A k \in CPUs : /\ f[k] = TimeOnTop(context[k], c, Began, time) /\ f[k] \in Int
                      /\ g[k] = TimeOnTop(context'[k], c, Began', time) /\ g[k] \in Int
  BY <1>1, <1>2, UnderOn
<1>4. ASSUME NEW k \in CPUs, k # cpu PROVE f[k] = g[k]
  <2>1. context'[k] = context[k] /\ \A d \in Members(context[k]) : Began'[d] = Began[d]
    BY <1>4
  <2>2. TimeOnTop(context[k], c, Began, time) = TimeOnTop(context[k], c, Began', time)
    <3> DEFINE s == context[k]
    <3>1. s \in Seq(Entries) /\ Distinct(s) /\ \A d \in Members(s) : Began[d] \in Int /\ Began'[d] \in Int
      BY <1>2, <2>1 DEF Timed, Orderly
    <3>2. \A d \in Members(s) : Began'[d] = Began[d]  BY <2>1
    <3> HIDE DEF s
    <3>3. CASE PlacesUnder(Shown(s), c) = {}  BY <3>3 DEF TimeOnTop, s
    <3>4. CASE PlacesUnder(Shown(s), c) # {}
      <4>1. PICK i \in PlacesUnder(Shown(s), c) : TRUE  BY <3>4
      <4>2. PICK d \in Members(s) :
              d.who = Shown(s)[i + 1] /\ TimeOnTop(s, c, Began, time) = time - Began[d]
        BY <1>1, <3>1, TimeOfTop
      <4>3. PICK e \in Members(s) :
              e.who = Shown(s)[i + 1] /\ TimeOnTop(s, c, Began', time) = time - Began'[e]
        BY <1>1, <3>1, TimeOfTop
      <4>4. d = e  BY <3>1, <4>2, <4>3, SameMember
      <4> QED  BY <3>2, <4>2, <4>3, <4>4 DEF s
    <3> QED  BY <3>3, <3>4
  <2> QED  BY <1>3, <2>1, <2>2
<1>5. f[cpu] <= g[cpu] + delta  BY <1>3
<1>6. SumOf(f, CPUs) \in Int /\ SumOf(g, CPUs) \in Int  BY <1>1, <1>2, UnderSum
<1>7. /\ Covered(c, child_runtime, context, Began, time) = child_runtime[c] + SumOf(f, CPUs)
      /\ Covered(c, child_runtime', context', Began', time) = child_runtime'[c] + SumOf(g, CPUs)
  BY DEF Covered
<1> HIDE DEF f, g
<1>8. \A k \in CPUs : h[k] = IF k = cpu THEN g[k] + delta ELSE g[k]  OBVIOUS
<1>9. \A k \in CPUs : f[k] \in Int /\ h[k] \in Int /\ f[k] <= h[k]
  <2> SUFFICES ASSUME NEW k \in CPUs PROVE f[k] \in Int /\ h[k] \in Int /\ f[k] <= h[k]  OBVIOUS
  <2> HIDE DEF h
  <2>1. f[k] \in Int /\ g[k] \in Int /\ h[k] = (IF k = cpu THEN g[k] + delta ELSE g[k])
    BY <1>3, <1>8
  <2>2. CASE k = cpu  BY <1>5, <2>1, <2>2
  <2>3. CASE k # cpu  BY <1>4, <2>1, <2>3
  <2> QED  BY <2>2, <2>3
<1> HIDE DEF h
<1>10. SumOf(f, CPUs) <= SumOf(h, CPUs)  BY <1>9, FiniteAssumption, SumMonotone
<1>11. \A k \in CPUs : g[k] \in Int  BY <1>3
<1>12. SumOf(h, CPUs) = SumOf(g, CPUs) + delta
  <2>1. delta \in Int  OBVIOUS
  <2> QED  BY <1>8, <1>11, <2>1, FiniteAssumption, SumChange
<1> QED  BY <1>1, <1>6, <1>7, <1>10, <1>12

LEMMA EnterNesting ==
  ASSUME TypeInv, KernelInv, NEW cpu \in CPUs, NEW time \in Stamps, NEW e \in Entries,
         EnterStep(cpu, e, time), TypeInv', KernelInv'
  PROVE  KeepsNesting(time)
<1> SUFFICES ASSUME ~overlap', NEW c \in Accounted
             PROVE  Covered(c, child_runtime, context, Began, time)
                      <= Covered(c, child_runtime', context', Began', time)
  BY DEF KeepsNesting
<1> DEFINE s == context[cpu]
           r == Append(s, e)
<1>0. TypeOK /\ time \in Int /\ 0 \in Nat  BY BoundsAssumption DEF TypeInv, Stamps
<1>1. Timed(context, Began) /\ Timed(context', Began')  BY KernelTimed, KernelTimedNext
<1>2. context' = [context EXCEPT ![cpu] = r] /\ UNCHANGED timeVars
  <2>1. e = Entry(e.who, e.key)  BY DEF Entry, Entries
  <2> QED  BY <2>1 DEF EnterStep, Enter
<1>3. context \in [CPUs -> Seq(Entries)]  BY <1>1 DEF Timed
<1>4. context'[cpu] = r /\ \A k \in CPUs \ {cpu} : context'[k] = context[k]
  <2> HIDE DEF r
  <2> QED  BY <1>2, <1>3
<1>5. /\ e.who \notin Deferred => Began'[e] = time
      /\ \A k \in CPUs : \A d \in Members(context[k]) : Began'[d] = Began[d]
  BY <1>0, BeganEntered DEF Held
<1>6. s \in Seq(Entries) /\ Distinct(s) /\ Distinct(r) /\ Members(r) = Members(s) \cup {e}
  <2>1. Distinct(s) /\ Distinct(context'[cpu])  BY <1>1 DEF Timed, Orderly
  <2>2. Held(cpu)' = Held(cpu) \cup {e} /\ Held(cpu)' = Members(context'[cpu])
    BY <1>0, ContextsEntered DEF Held, Members
  <2> QED  BY <1>3, <1>4, <2>1, <2>2 DEF Held
<1>7. \A d \in Members(s) : Began[d] \in Int /\ Began'[d] = Began[d]  BY <1>1, <1>5 DEF Timed
<1>8. Began'[e] \in Int
  <2>1. \A d \in Members(context'[cpu]) : Began'[d] \in Int  BY <1>1 DEF Timed
  <2> QED  BY <1>4, <1>6, <2>1
<1> HIDE DEF s
<1>9. TimeOnTop(r, c, Began', time) = TimeOnTop(s, c, Began, time)
        + (IF e.who \notin Deferred /\ Len(Shown(s)) \in Places(Shown(s), c)
           THEN time - Began'[e] ELSE 0)
  <2>1. r = Atop(s, e)  BY DEF Atop
  <2> HIDE DEF r
  <2> QED  BY ONLY <1>0, <1>6, <1>7, <1>8, <2>1, e \in Entries, TimeOnTopOf
<1>10. TimeOnTop(s, c, Began, time) \in Int  BY <1>0, <1>6, <1>7, TimeOfTop
<1> HIDE DEF r
<1>11. TimeOnTop(s, c, Began, time) <= TimeOnTop(context'[cpu], c, Began', time) + 0
  <2>1. e.who \notin Deferred => time - Began'[e] = 0  BY <1>0, <1>5
  <2>2. TimeOnTop(r, c, Began', time) = TimeOnTop(s, c, Began, time) + 0  BY <1>9, <2>1
  <2> QED  BY <1>4, <1>10, <2>2
<1>12. child_runtime'[c] = child_runtime[c] + 0
  <2>1. child_runtime[c] \in Nat  BY <1>0, AccountedAre DEF TypeOK
  <2> QED  BY <1>2, <2>1 DEF timeVars
<1> QED  BY <1>0, <1>4, <1>5, <1>11, <1>12, NestingFollows DEF s

\* Taking the top off a stack takes no more from what is on top of the one below
\* than is added to its child time for each of its places.
LEMMA TopTimeLeaves ==
  ASSUME NEW s, NEW r \in Seq(Entries), NEW e \in Entries, s = Atop(r, e), Orderly(r), Distinct(s),
         Members(s) = Members(r) \cup {e}, NEW began, NEW now \in Int, NEW c,
         \A d \in Members(r) : began[d] \in Int, began[e] \in Int, began[e] <= now,
         NEW n, n = Cardinality(Places(Shown(r), c))
  PROVE  /\ (now - began[e]) * n \in Nat
         /\ TimeOnTop(s, c, began, now) <=
              TimeOnTop(r, c, began, now) + (IF e.who \in Deferred THEN 0 ELSE (now - began[e]) * n)
<1> DEFINE t == TimeOnTop(s, c, began, now)
           u == TimeOnTop(r, c, began, now)
           product == (now - began[e]) * n
<1>1. n \in Nat /\ (Len(Shown(r)) \in Places(Shown(r), c) => n >= 1)
  <2>1. Shown(r) \in Seq(Consumers)  BY ShownMembers DEF Showing
  <2>2. IsFiniteSet(DOMAIN Shown(r))
    <3>1. DOMAIN Shown(r) = 1..Len(Shown(r)) /\ Len(Shown(r)) \in Nat  BY <2>1
    <3> QED  BY <3>1, FS_Interval
  <2>3. IsFiniteSet(Places(Shown(r), c))  BY <2>2, FS_Subset DEF Places
  <2>4. n \in Nat /\ (n = 0 => Places(Shown(r), c) = {})
    BY <2>3, FS_CardinalityType, FS_EmptySet
  <2> QED  BY <2>4
<1>2. product \in Nat /\ (n >= 1 => now - began[e] <= product)
  <2>1. now - began[e] \in Nat  OBVIOUS
  <2>2. \A x, y \in Nat : x * y \in Nat /\ (y >= 1 => x <= x * y)
    <3> SUFFICES ASSUME NEW x \in Nat, NEW y \in Nat PROVE x * y \in Nat /\ (y >= 1 => x <= x * y)
      OBVIOUS
    <3>1. CASE y = 0  BY <3>1
    <3>2. CASE y # 0
      <4>1. x * y = x * (y - 1) + x /\ x * (y - 1) \in Nat  BY <3>2
      <4> QED  BY <4>1
    <3> QED  BY <3>1, <3>2
  <2> QED  BY <1>1, <2>1, <2>2
<1>3. Distinct(r)  BY DEF Orderly
<1>4. u \in Int  BY <1>3, TimeOfTop
<1>5. \A d \in Members(r) : began[d] \in Int /\ began[d] = began[d]  OBVIOUS
<1>6. t = u + (IF e.who \notin Deferred /\ Len(Shown(r)) \in Places(Shown(r), c)
               THEN now - began[e] ELSE 0)
  BY <1>3, <1>5, TimeOnTopOf
<1> HIDE DEF t, u, product
<1>7. t <= u + (IF e.who \in Deferred THEN 0 ELSE product)
  <2>1. CASE e.who \notin Deferred /\ Len(Shown(r)) \in Places(Shown(r), c)
    BY <1>1, <1>2, <1>4, <1>6, <2>1
  <2>2. CASE ~(e.who \notin Deferred /\ Len(Shown(r)) \in Places(Shown(r), c))
    BY <1>2, <1>4, <1>6, <2>2
  <2> QED  BY <2>1, <2>2
<1> QED  BY <1>2, <1>7 DEF t, u, product

LEMMA LeaveNesting ==
  ASSUME TypeInv, KernelInv, NEW cpu \in CPUs, NEW time \in Stamps, NEW e \in Entries,
         LeaveStep(cpu, e, time), time >= last_stamp, TypeInv', KernelInv'
  PROVE  KeepsNesting(time)
<1> SUFFICES ASSUME NEW c \in Accounted
             PROVE  Covered(c, child_runtime, context, Began, time)
                      <= Covered(c, child_runtime', context', Began', time)
  BY DEF KeepsNesting
<1> DEFINE s == context[cpu]
           r == Front(s)
           n == Cardinality(Places(Shown(r), c))
           delta == IF e.who \in Deferred THEN 0 ELSE (time - Began[e]) * n
<1>0. TypeOK /\ time \in Int  BY BoundsAssumption DEF TypeInv, Stamps
<1>1. Timed(context, Began)  BY KernelTimed
<1>2. /\ context' = [context EXCEPT ![cpu] = r] /\ s # <<>> /\ e = s[Len(s)] /\ Began' = Began
  BY BeganLeft DEF LeaveStep
<1>3. context \in [CPUs -> Seq(Entries)] /\ Orderly(s)  BY <1>1 DEF Timed
<1>4. context'[cpu] = r /\ \A k \in CPUs \ {cpu} : context'[k] = context[k]
  <2> HIDE DEF r
  <2> QED  BY <1>2, <1>3
<1>5. /\ s \in Seq(Entries) /\ r \in Seq(Entries) /\ Orderly(r) /\ s = Append(r, e)
      /\ e \in Members(s) /\ Members(s) = Members(r) \cup {e}
  <2> HIDE DEF s
  <2>1. s \in Seq(Entries)  BY <1>3 DEF s
  <2> QED  BY <1>2, <1>3, <2>1, Leaving
<1>6. /\ Began[e] \in Int /\ Began[e] <= time
      /\ \A d \in Members(r) : Began[d] \in Int
  BY <1>5, HeldBefore
<1>7. e.who \notin Deferred => Popped(cpu) = Shown(r)  BY <1>2, TopOfStack
<1> HIDE DEF s, r
<1>8. /\ Distinct(s) /\ s = Atop(r, e)
      /\ Orderly(r) /\ Members(s) = Members(r) \cup {e} /\ r \in Seq(Entries)
  BY <1>3, <1>5 DEF Orderly, Atop, s
<1>9. /\ delta \in Nat
      /\ TimeOnTop(s, c, Began, time) <= TimeOnTop(r, c, Began, time) + delta
  <2>1. /\ (time - Began[e]) * n \in Nat
        /\ TimeOnTop(s, c, Began, time) <=
             TimeOnTop(r, c, Began, time) + (IF e.who \in Deferred THEN 0 ELSE (time - Began[e]) * n)
    <3>1. time \in Int  BY <1>0
    <3> QED  BY ONLY <1>6, <1>8, <3>1, e \in Entries, TopTimeLeaves
  <2> QED  BY <2>1
<1> HIDE DEF n
<1>10. child_runtime'[c] = child_runtime[c] + delta
  <2>1. child_runtime[c] \in Nat /\ c \in Consumers  BY <1>0, AccountedAre DEF TypeOK
  <2>2. CASE e.who \in Deferred
    <3>1. child_runtime' = child_runtime  BY <2>2 DEF LeaveStep, timeVars
    <3> QED  BY <2>1, <2>2, <3>1
  <2>3. CASE e.who \notin Deferred
    <3>1. consumer_child_time(cpu, time - Began[e])  BY <2>3 DEF LeaveStep
    <3>2. PlacesBelow(cpu, c) = Places(Shown(r), c)  BY <1>7, <2>3 DEF PlacesBelow, Places
    <3>3. child_runtime'[c] = child_runtime[c] + (time - Began[e]) * n
      BY <2>1, <3>1, <3>2 DEF consumer_child_time, n
    <3> QED  BY <2>3, <3>3
  <2> QED  BY <2>2, <2>3
<1>11. /\ TimeOnTop(context[cpu], c, Began, time) <= TimeOnTop(context'[cpu], c, Began', time) + delta
       /\ \A k \in CPUs \ {cpu} : \A d \in Members(context[k]) : Began'[d] = Began[d]
  <2> HIDE DEF delta
  <2> QED  BY <1>2, <1>4, <1>9 DEF s
<1> HIDE DEF delta
<1> QED  BY <1>4, <1>9, <1>10, <1>11, NestingFollows

LEMMA SwitchNesting ==
  ASSUME TypeInv, KernelInv, NEW cpu \in CPUs, NEW time \in Stamps, NEW next \in Processes,
         SwitchStep(cpu, next, time), TypeInv', KernelInv'
  PROVE  KeepsNesting(time)
<1> SUFFICES ASSUME NEW c \in Accounted
             PROVE  Covered(c, child_runtime, context, Began, time)
                      <= Covered(c, child_runtime', context', Began', time)
  BY DEF KeepsNesting
<1> DEFINE e == Entry(next, NULL)
<1>0. TypeOK /\ 0 \in Nat  BY DEF TypeInv
<1>1. /\ Len(context[cpu]) <= 1 /\ context' = [context EXCEPT ![cpu] = <<e>>]
      /\ child_runtime' = child_runtime
  BY DEF SwitchStep
<1>2. context \in [CPUs -> Seq(Entries)]  BY DEF KernelInv, TruthTypeOK
<1>3. context'[cpu] = <<e>> /\ \A k \in CPUs \ {cpu} : context'[k] = context[k]
  <2> HIDE DEF e
  <2> QED  BY <1>1, <1>2
<1>4. \A k \in CPUs : \A d \in Members(context[k]) : Began'[d] = Began[d]
  BY <1>0, BeganSwitched DEF Held
<1>5. \A d \in Entries : \A began : TimeOnTop(<<d>>, c, began, time) = 0
  <2> SUFFICES ASSUME NEW d \in Entries, NEW began PROVE TimeOnTop(<<d>>, c, began, time) = 0
    OBVIOUS
  <2>1. Shown(<<d>>) = <<>> \/ Shown(<<d>>) = <<d.who>>  BY FewMembers
  <2>2. PlacesUnder(<<>>, c) = {} /\ PlacesUnder(<<d.who>>, c) = {}
    BY DEF PlacesUnder
  <2>3. PlacesUnder(Shown(<<d>>), c) = {}  BY <2>1, <2>2
  <2> QED  BY <2>3 DEF TimeOnTop
<1>6. \A began : TimeOnTop(<<>>, c, began, time) = 0
  <2>1. PlacesUnder(<<>>, c) = {}  BY DEF PlacesUnder
  <2> QED  BY <2>1, ShownNone DEF TimeOnTop
<1>7. TimeOnTop(context[cpu], c, Began, time) = 0
  <2>1. CASE context[cpu] = <<>>  BY <1>6, <2>1
  <2>2. CASE context[cpu] # <<>>
    <3>1. context[cpu] \in Seq(Entries)  BY <1>2
    <3>2. context[cpu] = <<context[cpu][1]>> /\ context[cpu][1] \in Entries
      BY <1>1, <2>2, <3>1, LoneMember
    <3> QED  BY <1>5, <3>2
  <2> QED  BY <2>1, <2>2
<1>8. TimeOnTop(context'[cpu], c, Began', time) = 0
  <2>1. e \in Entries  BY EntryIsEntry, Kinds
  <2> HIDE DEF e
  <2> QED  BY <1>3, <1>5, <2>1
<1>9. child_runtime'[c] = child_runtime[c] + 0
  <2>1. child_runtime[c] \in Nat  BY <1>0, AccountedAre DEF TypeOK
  <2> QED  BY <1>1, <2>1
<1>10. TimeOnTop(context[cpu], c, Began, time) <= TimeOnTop(context'[cpu], c, Began', time) + 0
  BY <1>7, <1>8
<1> QED  BY <1>0, <1>3, <1>4, <1>9, <1>10, NestingFollows

LEMMA RecordKeepsNesting ==
  ASSUME TypeInv, KernelInv, NestingAddsUp, NEW cpu \in CPUs, NEW time \in Stamps,
         KernelRecord(cpu, time), TimePasses(time), TypeInv'
  PROVE  NestingAddsUp'
<1>1. KernelInv' /\ time >= last_stamp /\ last_stamp' = time  BY RecordKeepsKernel
<1>2. KeepsNesting(time)
  <2>1. CASE SameStep
    <3>1. context' = context /\ child_runtime' = child_runtime /\ UNCHANGED sinces
      BY <2>1 DEF SameStep, timeVars
    <3>2. Began' = Began  BY <3>1, BeganLeft
    <3>3. time \in Int  BY BoundsAssumption DEF Stamps
    <3>4. \A c \in Accounted : Covered(c, child_runtime, context, Began, time) \in Int
      <4> SUFFICES ASSUME NEW c \in Accounted
                   PROVE  Covered(c, child_runtime, context, Began, time) \in Int
        OBVIOUS
      <4>1. child_runtime[c] \in Nat /\ c \in Consumers  BY AccountedAre DEF TypeInv, TypeOK
      <4>2. SumOf(Under(context, Began, time)[c], CPUs) \in Int
        BY <3>3, <4>1, KernelTimed, UnderSum
      <4> QED  BY <4>1, <4>2 DEF Covered
    <3>5. \A x \in Int : x <= x  OBVIOUS
    <3> QED  BY <3>1, <3>2, <3>4, <3>5 DEF KeepsNesting
  <2>2. CASE \E e \in Entries : EnterStep(cpu, e, time)  BY <1>1, <2>2, EnterNesting
  <2>3. CASE \E e \in Entries : LeaveStep(cpu, e, time)  BY <1>1, <2>3, LeaveNesting
  <2>4. CASE \E next \in Processes : SwitchStep(cpu, next, time)  BY <1>1, <2>4, SwitchNesting
  <2> QED  BY <2>1, <2>2, <2>3, <2>4, RecordSteps
<1>3. overlap => overlap'  BY <1>1, RecordCharges
<1> SUFFICES ASSUME ~overlap', NEW c \in Accounted
             PROVE  active'[c] - alone'[c]
                      <= child_runtime'[c] + SumOf(Under(context', Began', time)[c], CPUs)
  BY <1>1 DEF NestingAddsUp
<1>4. active'[c] - alone'[c] <= Covered(c, child_runtime, context, Began, time)
  BY <1>3, NestingPasses
<1>5. Covered(c, child_runtime, context, Began, time) <= Covered(c, child_runtime', context', Began', time)
  BY <1>2 DEF KeepsNesting
<1>6. Covered(c, child_runtime', context', Began', time)
        = child_runtime'[c] + SumOf(Under(context', Began', time)[c], CPUs)
  BY DEF Covered
<1>7. /\ Covered(c, child_runtime, context, Began, time) \in Int
      /\ Covered(c, child_runtime', context', Began', time) \in Int
      /\ active'[c] - alone'[c] \in Int
  <2>1. time \in Int /\ c \in Consumers  BY AccountedAre, BoundsAssumption DEF Stamps
  <2>2. child_runtime[c] \in Nat /\ child_runtime'[c] \in Nat  BY <2>1 DEF TypeInv, TypeOK
  <2>3. Timed(context, Began) /\ Timed(context', Began')  BY <1>1, KernelTimed, KernelTimedNext
  <2>4. /\ SumOf(Under(context, Began, time)[c], CPUs) \in Int
        /\ SumOf(Under(context', Began', time)[c], CPUs) \in Int
    BY <2>1, <2>3, UnderSum
  <2>5. active'[c] \in Nat /\ alone'[c] \in Nat  BY <1>1, <2>1 DEF KernelInv, TruthTypeOK
  <2> QED  BY <2>2, <2>4, <2>5 DEF Covered
<1> QED  BY ONLY <1>4, <1>5, <1>6, <1>7

\* Nothing is under anything off the stacks.
LEMMA OffStackSums ==
  ASSUME TypeInv, KernelInv, NEW c \in Consumers, c \notin Deferred, ~OnStack(c)
  PROVE  /\ SumOf(Spent(context, Began, last_stamp)[c], CPUs) = 0
         /\ SumOf(Under(context, Began, last_stamp)[c], CPUs) = 0
<1>1. last_stamp \in Int /\ Timed(context, Began)
  BY KernelTimed, BoundsAssumption DEF TypeInv, TypeOK
<1>2. \A cpu \in CPUs : /\ ~Holds(context[cpu], c)
                        /\ \A i \in DOMAIN Shown(context[cpu]) : Shown(context[cpu])[i] # c
  BY OffStack
<1>3. \A cpu \in CPUs : PlacesUnder(Shown(context[cpu]), c) = {}  BY <1>2 DEF PlacesUnder
<1>4. \A cpu \in CPUs : Spent(context, Began, last_stamp)[c][cpu] = 0  BY <1>1, <1>2, SpentOn
<1>5. \A cpu \in CPUs : Under(context, Began, last_stamp)[c][cpu] = 0  BY <1>1, <1>3, UnderOn
<1> QED  BY <1>4, <1>5, SumOfZeros

LEMMA FreshKeeps == TypeInv /\ Fresh => KernelInv /\ ChargesAddUp /\ NeverCharged /\ NestingAddsUp
<1> SUFFICES ASSUME TypeInv, Fresh
             PROVE  KernelInv /\ ChargesAddUp /\ NeverCharged /\ NestingAddsUp
  OBVIOUS
<1>1. KernelInv /\ ChargesAddUp /\ NeverCharged  BY FreshCharges
<1>2. ASSUME NEW c \in Accounted
      PROVE  active[c] - alone[c] <= child_runtime[c] + SumOf(Under(context, Began, last_stamp)[c], CPUs)
  <2>1. c \in Consumers /\ c \notin Deferred  BY AccountedAre
  <2>2. ~OnStack(c)  BY DEF Fresh, OnStack
  <2>3. SumOf(Under(context, Began, last_stamp)[c], CPUs) = 0
    BY <1>1, <2>1, <2>2, OffStackSums
  <2>4. active[c] = 0 /\ alone[c] = 0 /\ child_runtime[c] = 0  BY <2>1 DEF Fresh, NoCounts
  <2> QED  BY <2>3, <2>4
<1> QED  BY <1>1, <1>2 DEF NestingAddsUp

LEMMA FreshKeepsNext ==
  TypeInv' /\ Fresh' => KernelInv' /\ ChargesAddUp' /\ NeverCharged' /\ NestingAddsUp'
BY FreshKeeps, PTL
-----------------------------------------------------------------------------
(***************************************************************************)
(* The invariant, and what it says.                                        *)
(***************************************************************************)
LEMMA TruthInitInv == TruthInit => TruthInv
<1> SUFFICES ASSUME TruthInit PROVE TruthInv  OBVIOUS
<1>1. TypeInv  BY InitType DEF TruthInit
<1>2. Fresh  BY DEF TruthInit, Init, Fresh, NoCounts
<1>3. NothingBetween  BY DEF TruthInit, Init, NothingBetween, NoCounts
<1> QED  BY <1>1, <1>2, <1>3, FreshKeeps DEF TruthInv

LEMMA TruthStutters == TruthInv /\ UNCHANGED truthVars => TruthInv'
<1> SUFFICES ASSUME TruthInv, UNCHANGED truthVars PROVE TruthInv'  OBVIOUS
<1>1. /\ UNCHANGED <<context, active, alone, overlap, phase, cpu_stack, last_stamp>>
      /\ UNCHANGED <<accumulated_runtime, child_runtime>> /\ UNCHANGED sinces /\ UNCHANGED vars
  BY DEF truthVars, vars, recordVars, timeVars, runVars, sinceVars, sinces
<1>2. TypeInv'  BY <1>1, NextKeepsType DEF TruthInv
<1>3. Began' = Began  BY <1>1, BeganLeft
<1>4. SameStep  BY <1>1 DEF SameStep, timeVars
<1>5. KernelInv'
  <2>1. \A k : Held(k)' = Held(k)  BY <1>1 DEF Held, Members
  <2>2. TruthTypeOK' /\ EmptyBetween' /\ OrderlyContexts' /\ StackMirrorsKernel'
    BY <1>1 DEF TruthInv, KernelInv, TruthTypeOK, EmptyBetween, OrderlyContexts,
                StackMirrorsKernel, Traced
  <2>3. OnOneCPU' /\ KeysFit' /\ KeysDiffer' /\ BeginningsKnown'
    BY <1>1, <1>3, <2>1
    DEF TruthInv, KernelInv, OnOneCPU, KeysFit, KeysDiffer, BeginningsKnown, Shared, KeyFits
  <2> QED  BY <2>2, <2>3 DEF KernelInv
<1>6. ChargesAddUp' /\ NeverCharged' /\ NothingBetween' /\ NestingAddsUp'
  BY <1>1, <1>3
  DEF TruthInv, ChargesAddUp, Exact, NeverCharged, NothingBetween, NestingAddsUp
<1> QED  BY <1>2, <1>5, <1>6 DEF TruthInv

LEMMA TruthNextKeeps == TruthInv /\ [TruthNext]_truthVars => TruthInv'
<1> SUFFICES ASSUME TruthInv, TruthNext PROVE TruthInv'  BY TruthStutters
<1>0. TypeInv /\ KernelInv /\ ChargesAddUp /\ NeverCharged /\ NothingBetween /\ NestingAddsUp
  BY DEF TruthInv
<1>1. TypeInv'  BY <1>0, KernelStepsAreSteps, NextKeepsType
<1>2. CASE \E cpu \in CPUs, time \in Stamps : KernelRecord(cpu, time) /\ TimePasses(time)
  <2>1. PICK cpu \in CPUs, time \in Stamps : KernelRecord(cpu, time) /\ TimePasses(time)
    BY <1>2
  <2>2. KernelInv' /\ phase' = "processing"  BY <1>0, <2>1, RecordKeepsKernel
  <2>3. ChargesAddUp' /\ NeverCharged'  BY <1>0, <1>1, <2>1, RecordKeepsCharges
  <2>4. NestingAddsUp'  BY <1>0, <1>1, <2>1, RecordKeepsNesting
  <2>5. NothingBetween'  BY <2>2 DEF NothingBetween
  <2> QED  BY <1>1, <2>2, <2>3, <2>4, <2>5 DEF TruthInv
<1>3. CASE Forget /\ (StartMeasurement \/ BeginProcessing \/ EndProcessData)
  <2>1. Fresh'
    <3>1. TypeOK  BY <1>0 DEF TypeInv
    <3> QED  BY <1>0, <1>3, <3>1, PhasesAreFresh
  <2>2. KernelInv' /\ ChargesAddUp' /\ NeverCharged' /\ NestingAddsUp'
    BY <1>1, <2>1, FreshKeepsNext
  <2>3. NothingBetween'  BY <2>1 DEF Fresh, NothingBetween
  <2> QED  BY <1>1, <2>2, <2>3 DEF TruthInv
<1> QED  BY <1>2, <1>3 DEF TruthNext

LEMMA TruthInvariant == TruthSpec => []TruthInv
BY TruthInitInv, TruthNextKeeps, PTL DEF TruthSpec

\* What the kernel loses nothing of is a run of TraceAccounting, too: what is
\* proved about handle_trace_point for any records holds of these.
THEOREM KernelRunsAreRuns == TruthSpec => Spec
<1>1. TruthInit => Init  BY DEF TruthInit
<1>2. [TruthNext]_truthVars => [Next]_vars  BY KernelStepsAreSteps DEF truthVars
<1> QED  BY <1>1, <1>2, PTL DEF TruthSpec, Spec

\* With no record lost, the stack kept for a CPU is the kernel's but for deferred
\* timers (the pushes, pops and early returns of handle_trace_point).
THEOREM StacksMirrorKernel == TruthSpec => []StackMirrorsKernel
<1>1. TruthInv => StackMirrorsKernel  BY DEF TruthInv, KernelInv
<1> QED  BY <1>1, TruthInvariant, PTL

\* A consumer off every stack has been charged exactly the time it was executing,
\* but for a softirq that overlapped itself (end_interrupt, done of timers and
\* work, deschedule_thread).
THEOREM ActiveTimesAreExact == TruthSpec => []ActiveTimeExact
<1>1. TruthInv => ActiveTimeExact
  <2> SUFFICES ASSUME TruthInv, NEW c \in Accounted, ~OnStack(c), c \in SoftIrqs => ~overlap
               PROVE  accumulated_runtime[c] = active[c]
    BY DEF ActiveTimeExact
  <2>0. TypeInv /\ KernelInv /\ ChargesAddUp  BY DEF TruthInv
  <2>1. SumOf(Spent(context, Began, last_stamp)[c], CPUs) = 0
    BY <2>0, OffStackSums, AccountedAre
  <2>2. accumulated_runtime[c] + SumOf(Spent(context, Began, last_stamp)[c], CPUs) = active[c]
    BY <2>0 DEF ChargesAddUp, Exact
  <2>3. accumulated_runtime[c] \in Nat  BY <2>0, AccountedAre DEF TypeInv, TypeOK
  <2> QED  BY <2>1, <2>2, <2>3
<1> QED  BY <1>1, TruthInvariant, PTL

\* Nobody is charged more time than it was executing, whatever overlaps.
THEOREM NobodyIsOvercharged == TruthSpec => []NeverOvercharged
<1>1. TruthInv => NeverOvercharged
  <2> SUFFICES ASSUME TruthInv, NEW c \in Consumers PROVE accumulated_runtime[c] <= active[c]
    BY DEF NeverOvercharged
  <2>0. TypeInv /\ KernelInv /\ ChargesAddUp /\ NeverCharged  BY DEF TruthInv
  <2>1. accumulated_runtime[c] \in Nat /\ active[c] \in Nat
    BY <2>0 DEF TypeInv, TypeOK, KernelInv, TruthTypeOK
  <2>2. CASE c \in Idle \cup Deferred  BY <2>0, <2>1, <2>2 DEF NeverCharged
  <2>3. CASE c \notin Idle \cup Deferred
    <3>1. accumulated_runtime[c] + SumOf(Spent(context, Began, last_stamp)[c], CPUs) <= active[c]
      BY <2>0, <2>3 DEF ChargesAddUp, Accounted
    <3>2. last_stamp \in Int /\ Timed(context, Began)
      BY <2>0, KernelTimed, BoundsAssumption DEF TypeInv, TypeOK
    <3>3. ASSUME NEW cpu \in CPUs PROVE Spent(context, Began, last_stamp)[c][cpu] \in Nat
      <4>1. CASE Holds(context[cpu], c)
        <5>1. PICK d \in Members(context[cpu]) : d.who = c  BY <4>1 DEF Holds
        <5>2. Began[d] \in Int /\ Began[d] <= last_stamp  BY <2>0, KernelTimed
        <5>3. Spent(context, Began, last_stamp)[c][cpu] = last_stamp - Began[d]
          BY <3>2, <5>1, SpentOn
        <5> QED  BY <3>2, <5>2, <5>3
      <4>2. CASE ~Holds(context[cpu], c)
        <5>1. Spent(context, Began, last_stamp)[c][cpu] = 0  BY <3>2, <4>2, SpentOn
        <5> QED  BY <5>1
      <4> QED  BY <4>1, <4>2
    <3>4. SumOf(Spent(context, Began, last_stamp)[c], CPUs) \in Nat
      BY <3>3, FiniteAssumption, SumIsNat
    <3> QED  BY <2>1, <3>1, <3>4
  <2> QED  BY <2>2, <2>3
<1> QED  BY <1>1, TruthInvariant, PTL

\* What is left to a consumer after child_runtime is no more than the time it was
\* executing by itself (consumer_child_time): nested time is charged once.
THEOREM NestedTimesAreExcluded == TruthSpec => []NestedTimeExcluded
<1>1. TruthInv => NestedTimeExcluded
  <2> SUFFICES ASSUME TruthInv, ~overlap, NEW c \in Accounted, ~OnStack(c)
               PROVE  accumulated_runtime[c] - child_runtime[c] <= alone[c]
    BY DEF NestedTimeExcluded
  <2>0. TypeInv /\ KernelInv /\ ChargesAddUp /\ NestingAddsUp /\ c \in Consumers /\ c \notin Deferred
    BY AccountedAre DEF TruthInv
  <2>1. /\ SumOf(Spent(context, Began, last_stamp)[c], CPUs) = 0
        /\ SumOf(Under(context, Began, last_stamp)[c], CPUs) = 0
    BY <2>0, OffStackSums
  <2>2. accumulated_runtime[c] + SumOf(Spent(context, Began, last_stamp)[c], CPUs) = active[c]
    BY <2>0 DEF ChargesAddUp, Exact
  <2>3. active[c] - alone[c] <= child_runtime[c] + SumOf(Under(context, Began, last_stamp)[c], CPUs)
    BY <2>0 DEF NestingAddsUp
  <2>4. /\ accumulated_runtime[c] \in Nat /\ child_runtime[c] \in Nat
        /\ active[c] \in Nat /\ alone[c] \in Nat
    BY <2>0 DEF TypeInv, TypeOK, KernelInv, TruthTypeOK
  <2> QED  BY <2>1, <2>2, <2>3, <2>4
<1> QED  BY <1>1, TruthInvariant, PTL
================================================================================
