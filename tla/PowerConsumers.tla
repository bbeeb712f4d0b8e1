----------------------------- MODULE PowerConsumers -----------------------------
(***************************************************************************)
(* From devices and processes to all_power, the list of what uses power    *)
(* (src/src/process/process.cpp, processdevice.cpp and the end of          *)
(* process_process_data): threads and duplicates are merged, then every    *)
(* process that ran or was charged and every device that is not hidden is  *)
(* listed.  Devices with the same path in sysfs share an entry.            *)
(***************************************************************************)
EXTENDS OpenDevices

CONSTANTS
  RealPath,     \* [device -> path in sysfs, or NoPath]
  NoPath,
  GroupingPrio, \* [device -> Nat]
  Unlisted      \* devices whose class is never shown in lists

VARIABLES
  all_devices,     \* sequence of devices
  power_usage,     \* per device: what its utilization makes of its parameter
  all_proc_devices,\* sequence of [device, prio, power]: the device_consumers
  all_power        \* set of references: <<"process", task>>, <<"device", index>>

Folds(p, q) ==
  \/ p.task.pid = q.task.tgid /\ q.task.tgid # 0
  \/ p.task.desc = q.task.desc

MergeProcess(p, q) ==
  [p EXCEPT !.runtime = @ + q.runtime, !.power_charge = @ + q.power_charge]

\* mutant: the process after an erased one is skipped.
MergeProcesses_Skips(ps) ==
  LET merge(acc, q) ==
        LET earlier == {i \in DOMAIN acc.kept : Folds(acc.kept[i], q)}
        IN IF earlier = {} \/ acc.erased
           THEN [kept |-> Append(acc.kept, q), erased |-> FALSE]
           ELSE [kept |-> [acc.kept EXCEPT ![Min(earlier)] = MergeProcess(@, q)], erased |-> TRUE]
  IN FoldLeft(merge, [kept |-> <<>>, erased |-> FALSE], ps).kept

\* Each process goes to the first of those kept before it that it folds into.
\* That is what the nested loops do: what is compared does not change.
MergeInto(kept, q) ==
  LET earlier == {i \in DOMAIN kept : Folds(kept[i], q)}
  IN IF earlier = {} THEN Append(kept, q)
     ELSE [kept EXCEPT ![Min(earlier)] = MergeProcess(@, q)]

MergeProcesses(ps) == FoldLeft(MergeInto, <<>>, ps)

ProcessesToPower(ps) ==
  {<<"process", p.task>> : p \in {q \in ToSet(ps) : q.runtime # 0 \/ q.power_charge # 0}}

ShowInList(d, hidden) == d \notin Unlisted \cup hidden

SamePath(d, e) == RealPath[d] # NoPath /\ RealPath[e] = RealPath[d]

NewConsumer(d) == [device |-> d, prio |-> GroupingPrio[d], power |-> power_usage[d]]

\* The first consumer of the same object gets the power, and the device of the
\* higher priority gives it its name.
AddDevice(consumers, d, hidden) ==
  LET same == {i \in DOMAIN consumers : SamePath(d, consumers[i].device)}
      joined(c) == LET sum == [c EXCEPT !.power = @ + power_usage[d]]
                   IN IF c.prio < GroupingPrio[d]
                      THEN [sum EXCEPT !.device = d, !.prio = GroupingPrio[d]] ELSE sum
  IN CASE ~ShowInList(d, hidden) -> consumers
       [] same # {} /\ ShowInList(d, hidden) ->
            [consumers EXCEPT ![Min(same)] = joined(@)]
       [] OTHER -> Append(consumers, NewConsumer(d))

AllDevicesToAllPower(hidden) ==
  FoldLeft(LAMBDA acc, d : AddDevice(acc, d, hidden), all_proc_devices, all_devices)
=================================================================================
