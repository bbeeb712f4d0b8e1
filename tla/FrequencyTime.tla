----------------------------- MODULE FrequencyTime -----------------------------
(***************************************************************************)
(* What the frequency columns promise for one measurement.  Each CPU that  *)
(* a record has named is busy or idle and has a frequency; the frequency   *)
(* of a package is the highest of its busy CPUs, and the time from one     *)
(* record of a package to the next goes to that frequency for every CPU,   *)
(* core and package that was busy, and to 0, shown as "Idle", for those    *)
(* that rested.                                                            *)
(***************************************************************************)
EXTENDS Integers, FiniteSets, FiniteSetsExt

CONSTANTS
  Cpus, Nodes,    \* CPUs; CPUs, cores and packages
  below,          \* the CPUs of each node
  top,            \* the package of each node
  Freqs,          \* 0 is no frequency
  Stamps

VARIABLES
  accounting,     \* the records of a measurement are being handled
  seen,           \* CPUs that a record has named
  busy,           \* those of them that are not idle
  frequency,      \* of each CPU
  stamp,          \* of each package: its last record
  spent           \* of each node: time at each frequency

vars == <<accounting, seen, busy, frequency, stamp, spent>>

Empty ==
  /\ seen = {}
  /\ busy = {}
  /\ frequency = [c \in Cpus |-> 0]
  /\ stamp = [n \in Nodes |-> 0]
  /\ spent = [n \in Nodes |-> [f \in Freqs |-> 0]]

Init == ~accounting /\ Empty

\* As long as no record has named a CPU of a node, the node counts as resting;
\* from then on, CPUs not yet named count as busy for their core and package.
Rests(n) == below[n] \cap seen = {} \/ below[n] \subseteq seen \ busy

Fastest(package) == Max({0} \cup {frequency[c] : c \in below[package] \cap busy})

InForce(n) == IF Rests(n) THEN 0 ELSE Fastest(top[n])

\* The time before the first record is not known.
Elapsed(package, time) == IF stamp[package] = 0 THEN 1 ELSE time - stamp[package]

Record(c, time, isBusy, f) ==
  /\ accounting
  /\ \A n \in Nodes : stamp[n] <= time
  /\ spent' = [n \in Nodes |-> IF top[n] = top[c]
       THEN [spent[n] EXCEPT ![InForce(n)] = @ + Elapsed(top[c], time)]
       ELSE spent[n]]
  /\ stamp' = [n \in Nodes |-> IF n = top[c] THEN time ELSE stamp[n]]
  /\ seen' = seen \cup {c}
  /\ busy' = IF isBusy THEN busy \cup {c} ELSE busy \ {c}
  /\ frequency' = [frequency EXCEPT ![c] = f]
  /\ UNCHANGED accounting

Open ==
  /\ ~accounting
  /\ accounting' = TRUE
  /\ UNCHANGED <<seen, busy, frequency, stamp, spent>>

Close ==
  /\ accounting
  /\ accounting' = FALSE
  /\ Empty'

Next ==
  \/ Open
  \/ Close
  \/ \E c \in Cpus, time \in Stamps, isBusy \in BOOLEAN, f \in Freqs : Record(c, time, isBusy, f)

Spec == Init /\ [][Next]_vars
================================================================================
