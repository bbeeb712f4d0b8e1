----------------------------- MODULE WakeupCause -----------------------------
(***************************************************************************)
(* Which idle period a wakeup is charged to.  TraceAccounting, with CPUs   *)
(* that go idle only while they run their idle thread, observed by a       *)
(* history variable: whether the consumer a CPU holds to blame was already *)
(* there when the CPU went idle.                                           *)
(***************************************************************************)
EXTENDS TraceAccounting

VARIABLE stale    \* [CPUs -> BOOLEAN]

\* External: the kernel's idle loop runs in the idle thread, with nothing on top.
IdleInIdleThread ==
  \A cpu \in CPUs :
    cpu_credit'[cpu] # cpu_credit[cpu] /\ cpu_credit'[cpu] = 1 =>
      Len(cpu_stack[cpu]) = 1 /\ Bottom(cpu) \in Idle

GoesIdle(cpu) == cpu_credit[cpu] = 0 /\ cpu_credit'[cpu] = 1

ObserveBlame ==
  stale' = [cpu \in CPUs |->
    /\ cpu_blame'[cpu] # NULL
    /\ cpu_blame'[cpu] = cpu_blame[cpu]
    /\ stale[cpu] \/ GoesIdle(cpu)]

CauseSpec ==
  /\ Init /\ stale = [cpu \in CPUs |-> FALSE]
  /\ [][Next /\ IdleInIdleThread /\ ObserveBlame]_<<vars, stale>>
-----------------------------------------------------------------------------
\* The wakeup that ends an idle period is charged to a consumer that became the
\* one to blame after the CPU went idle, or that the charging record itself puts
\* forward: wake_ups is the "number of CPU wakeups caused by this consumer"
\* (review/class.md:47).
WakeupChargedToCause ==
  [][\A c \in Consumers, cpu \in CPUs :
       /\ wake_ups'[c] > wake_ups[c]
       /\ cpu_credit[cpu] = 1 /\ cpu_credit'[cpu] = 0
       /\ cpu_blame[cpu] = c /\ stale[cpu]
       => \E next \in Processes :
            cpu_stack'[cpu] = <<next>> /\ c \in {next, waker[next]}]_<<vars, stale>>
=============================================================================
