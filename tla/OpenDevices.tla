------------------------------ MODULE OpenDevices ------------------------------
(***************************************************************************)
(* Who has which device open (src/src/devlist.cpp).  The open files of all *)
(* processes are listed once in each measurement, in turn into one of two  *)
(* lists, so that the other still holds those of the measurement before.   *)
(* The power of a device that registered its name is divided among all     *)
(* entries of both lists whose file has the name in it, and the device is  *)
(* then hidden; a device that nobody has open is shown itself.             *)
(*                                                                         *)
(* A file is what its links name contains: the set of the registered names *)
(* in it.  A process object is a task (comm and pid) with what it was      *)
(* charged; see PowerConsumers.                                            *)
(***************************************************************************)
EXTENDS Integers, Sequences, FiniteSets, SequencesExt

CONSTANTS
  Tasks,        \* records [pid, comm, tgid, desc]
  Devices,
  DevString,    \* [device -> name]: of the devices that register one
  Handles       \* sequence of [task, names]: the files that may be open, in
                \* the order of /proc, each with the names that occur in it

VARIABLES
  one, two,     \* the two lists of open files
  phase,        \* which of them the next collection does not write
  devpower,     \* sequence of [device, dev, power]: the registered names
  hide,         \* devices whose power was charged to openers
  guilty,       \* per device: the commands it was charged to
  all_processes \* sequence of [task, runtime, power_charge]

devlistVars == <<one, two, phase, devpower>>

NewProcess(t) == [task |-> t, runtime |-> 0, power_charge |-> 0]

\* find_create_process: the constructor reads tgid and the command line anew.
FindCreate(ps, t) ==
  IF \E p \in ToSet(ps) : p.task = t THEN ps ELSE Append(ps, NewProcess(t))

ChargeTask(ps, t, share) ==
  [i \in DOMAIN ps |-> IF ps[i].task = t THEN [ps[i] EXCEPT !.power_charge = @ + share] ELSE ps[i]]

\* A list is kept for the next collection; the other is written.
CollectOpenDevices ==
  \E n \in 0..Len(Handles) : \E places \in [1..n -> DOMAIN Handles] :
    LET found == [i \in 1..n |-> Handles[places[i]]]
    IN /\ \A i, j \in 1..n : i < j => places[i] < places[j]
       /\ IF phase = 1
          THEN one' = found /\ two' = two
          ELSE two' = found /\ one' = one
       /\ phase' = 1 - phase

\* one, and then two
AllOpen == one \o two

\* mutant: only the last collection counts.
OpenersOf_LastList(name) ==
  {i \in DOMAIN AllOpen : (phase = 1 <=> i > Len(one)) /\ name \in AllOpen[i].names}

\* The entries of both lists that a name is charged to.
OpenersOf(name) == {i \in DOMAIN AllOpen : name \in AllOpen[i].names}

\* mutant: the power is divided by the number of one list.
ChargeOpener_HalfCount(ps, name, power, i) ==
  LET t == AllOpen[i].task
      count == Cardinality({j \in OpenersOf(name) : j <= Len(one)})
  IN IF i \in OpenersOf(name) THEN ChargeTask(FindCreate(ps, t), t, power \div Max({count, 1})) ELSE ps

ChargeOpener(ps, name, power, i) ==
  LET t == AllOpen[i].task
  IN IF i \in OpenersOf(name)
     THEN ChargeTask(FindCreate(ps, t), t, power \div Cardinality(OpenersOf(name))) ELSE ps

ChargeOpeners(ps, name, power) ==
  FoldLeftDomain(LAMBDA acc, i : ChargeOpener(acc, name, power, i), ps, AllOpen)

\* The last entry with that name; names are registered once.
RegisterDevpower(list, d, power) ==
  LET entry == [device |-> DevString[d], dev |-> d, power |-> power]
      same(i) == list[i].device = DevString[d]
  IN IF \E i \in DOMAIN list : same(i)
     THEN [i \in DOMAIN list |-> IF same(i) THEN entry ELSE list[i]]
     ELSE Append(list, entry)

ClearDevpower(list) == [i \in DOMAIN list |-> [list[i] EXCEPT !.power = 0]]

\* One entry of the list after the other; hide is set or reset for its device.
RunDevpower(acc, dp) ==
  [processes |-> ChargeOpeners(acc.processes, dp.device, dp.power),
   hide |-> IF OpenersOf(dp.device) = {} THEN acc.hide \ {dp.dev} ELSE acc.hide \cup {dp.dev},
   guilty |-> [acc.guilty EXCEPT ![dp.dev] = @ \cup {AllOpen[i].task.comm : i \in OpenersOf(dp.device)}]]

RunDevpowerList(ps) == FoldLeft(RunDevpower, [processes |-> ps, hide |-> hide, guilty |-> guilty], devpower)

\* phase has changed since the collection, so this is the other list: the one
\* of the measurement before.
ReportedOpenDevices == IF phase = 1 THEN one ELSE two
================================================================================
