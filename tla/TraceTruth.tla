------------------------------ MODULE TraceTruth ------------------------------
(***************************************************************************)
(* TraceAccounting driven by a kernel that loses no record.  The kernel's  *)
(* side is external to src/: a stack of execution contexts for each CPU,   *)
(* from which the trace records follow, and clocks that say how long each  *)
(* consumer was really executing, in all and with nothing on top of it.    *)
(* The run times the code derives from the records are compared with these *)
(* clocks.  Contexts that began before the measurement are not known to    *)
(* either side.                                                            *)
(*                                                                         *)
(* Records that touch neither stacks nor run times (wakeups, idle states,  *)
(* graphics jobs, dirty inodes) are left out: for what is compared here    *)
(* they are OtherRecord.                                                   *)
(***************************************************************************)
EXTENDS TraceAccounting, SequencesExt

VARIABLES
  context,   \* [CPUs -> sequence of [who, key]]: innermost last
  active,    \* time each consumer has been in a context
  alone,     \* the part of it with nothing traced on top
  overlap    \* a softirq vector has been executing on two CPUs at once

truthVars == <<vars, context, active, alone, overlap>>

Entry(who, key) == [who |-> who, key |-> key]
InContext(c, cpu) == \E i \in DOMAIN context[cpu] : context[cpu][i].who = c
KeyInUse(key) == \E cpu \in CPUs : \E i \in DOMAIN context[cpu] : context[cpu][i].key = key
Inner(cpu) == context[cpu][Len(context[cpu])].who

\* What the trace shows of a CPU's contexts: deferred timers are not accounted.
ShownTo(shown, entry) == IF entry.who \in Deferred THEN shown ELSE Append(shown, entry.who)
Shown(contexts) == FoldLeft(ShownTo, <<>>, contexts)
Traced(cpu) == Shown(context[cpu])

\* Time up to the next record passes for everything that is executing.
TimePasses(time) ==
  LET passed == time - last_stamp
      Holding(c) == {cpu \in CPUs : InContext(c, cpu)}
      Innermost(c) == {cpu \in CPUs : Traced(cpu) # <<>> /\ Traced(cpu)[Len(Traced(cpu))] = c}
  IN
  /\ active' = [c \in Consumers |-> active[c] + passed * Cardinality(Holding(c))]
  /\ alone'  = [c \in Consumers |-> alone[c] + passed * Cardinality(Innermost(c))]

Enter(cpu, who, key) ==
  /\ context' = [context EXCEPT ![cpu] = Append(@, Entry(who, key))]
  /\ overlap' = (overlap \/ \E other \in CPUs \ {cpu} : who \in SoftIrqs /\ InContext(who, other))

\* An exit is that of the innermost context, or of one older than the trace.
Leave(cpu, kind, key) ==
  /\ \/ /\ context[cpu] = <<>>
        /\ key # NULL => ~KeyInUse(key)
        /\ context' = context
     \/ /\ context[cpu] # <<>>
        /\ Inner(cpu) \in kind
        /\ context[cpu][Len(context[cpu])].key = key
        /\ context' = [context EXCEPT ![cpu] = Front(@)]
  /\ UNCHANGED overlap

\* A CPU switches outside of interrupts, from the process it runs to one that
\* no CPU runs; a work item is finished first.
KernelSwitch(cpu, time, next) ==
  /\ Len(context[cpu]) <= 1
  /\ context[cpu] # <<>> => Inner(cpu) \in Processes
  /\ \A other \in CPUs : ~InContext(next, other)
  /\ \E prevIsIdle \in BOOLEAN :
       /\ context[cpu] # <<>> => (prevIsIdle <=> Inner(cpu) \in Idle)
       /\ SchedSwitch(cpu, time, prevIsIdle, next)
  /\ context' = [context EXCEPT ![cpu] = <<Entry(next, NULL)>>]
  /\ UNCHANGED overlap

\* A device's line is masked while its handler runs, on every CPU.
KernelIrqEntry(cpu, time, handler) ==
  LET irq == find_create_interrupt(handler, cpu) IN
  /\ \A other \in CPUs : ~InContext(irq, other)
  /\ IrqHandlerEntry(cpu, time, handler)
  /\ Enter(cpu, irq, NULL)

\* Softirqs run one at a time on a CPU, before or after interrupts and never on
\* top of one; each CPU runs them by itself.
KernelSoftirqEntry(cpu, time, vec) ==
  /\ \A c \in Interrupts \cup Timers : ~InContext(c, cpu)
  /\ SoftirqEntry(cpu, time, vec)
  /\ Enter(cpu, vec, NULL)

KernelInterruptExit(cpu, time) ==
  /\ InterruptExit(cpu, time)
  /\ Leave(cpu, Interrupts, NULL)

\* The same callback may run on several CPUs, each with its own structure.
\* No callback interrupts itself; those of timer_list do not nest in a timer, and
\* only they are ever deferred.
KernelTimerEntry(cpu, time, timer, struct) ==
  /\ ~KeyInUse(struct)
  /\ ~InContext(timer, cpu)
  /\ timer \in Deferred => \A t \in Timers : ~InContext(t, cpu)
  /\ TimerExpireEntry(cpu, time, timer, struct)
  /\ Enter(cpu, timer, struct)

KernelTimerExit(cpu, time, struct) ==
  /\ TimerExpireExit(cpu, time, struct)
  /\ Leave(cpu, Timers, struct)

\* Work items run in the context of a worker process and do not nest.
KernelWorkStart(cpu, time, work, struct) ==
  /\ ~KeyInUse(struct)
  /\ Len(context[cpu]) = 1 /\ Inner(cpu) \in Processes
  /\ WorkqueueExecuteStart(cpu, time, work, struct)
  /\ Enter(cpu, work, struct)

KernelWorkEnd(cpu, time, struct) ==
  /\ WorkqueueExecuteEnd(cpu, time, struct)
  /\ Leave(cpu, Works, struct)

KernelOther(time) == OtherRecord(time) /\ UNCHANGED <<context, overlap>>

KernelRecord(cpu, time) ==
  \/ KernelOther(time)
  \/ \E next \in Processes : KernelSwitch(cpu, time, next)
  \/ \E handler \in HardIrqs : KernelIrqEntry(cpu, time, handler)
  \/ \E vec \in SoftIrqs : KernelSoftirqEntry(cpu, time, vec)
  \/ KernelInterruptExit(cpu, time)
  \/ \E timer \in Timers, struct \in TimerStructs : KernelTimerEntry(cpu, time, timer, struct)
  \/ \E struct \in TimerStructs : KernelTimerExit(cpu, time, struct)
  \/ \E work \in Works, struct \in WorkStructs : KernelWorkStart(cpu, time, work, struct)
  \/ \E struct \in WorkStructs : KernelWorkEnd(cpu, time, struct)

Forget ==
  /\ context' = [cpu \in CPUs |-> <<>>]
  /\ active' = NoCounts
  /\ alone' = NoCounts
  /\ overlap' = FALSE

TruthInit ==
  /\ Init
  /\ context = [cpu \in CPUs |-> <<>>]
  /\ active = NoCounts
  /\ alone = NoCounts
  /\ overlap = FALSE

TruthNext ==
  \/ StartMeasurement /\ Forget
  \/ BeginProcessing /\ Forget
  \/ \E cpu \in CPUs, time \in Stamps : KernelRecord(cpu, time) /\ TimePasses(time)
  \/ EndProcessData /\ Forget

TruthSpec == TruthInit /\ [][TruthNext]_truthVars
-----------------------------------------------------------------------------
OnStack(c) == \E cpu \in CPUs : \E i \in DOMAIN cpu_stack[cpu] : cpu_stack[cpu][i] = c

Accounted == Consumers \ (Idle \cup Deferred)

\* The stack the code keeps for a CPU is the kernel's, but for deferred timers:
\* every entry and exit record finds the entry it is about (the pushes, pops and
\* early returns of handle_trace_point).
StackMirrorsKernel == \A cpu \in CPUs : cpu_stack[cpu] = Traced(cpu)

\* A consumer that is off every stack has been charged exactly the time it was
\* executing.  Softirqs are the exception: a vector has one running_since for
\* all CPUs (interrupt.h:35), so one that ever overlapped itself is not exact.
ActiveTimeExact ==
  \A c \in Accounted :
    ~OnStack(c) /\ (c \in SoftIrqs => ~overlap) => accumulated_runtime[c] = active[c]

\* Nobody is ever charged more time than it was executing, softirqs that overlap
\* on several CPUs and timers that share a callback included.
NeverOvercharged == \A c \in Consumers : accumulated_runtime[c] <= active[c]

\* What ran on top of a consumer is not charged to it: what is left after
\* child_runtime is no more than the time it was executing by itself.
NestedTimeExcluded ==
  ~overlap => \A c \in Accounted :
    ~OnStack(c) => accumulated_runtime[c] - child_runtime[c] <= alone[c]

\* A consumer that is off every stack has spent no more time under others than
\* it was on a stack for: the tests call anything else bogus
\* (tests/base/test_power_consumer_base.cpp).
ChildWithinAccumulated ==
  \A c \in Accounted : ~OnStack(c) => child_runtime[c] <= accumulated_runtime[c]
=============================================================================
