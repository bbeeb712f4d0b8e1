----------------------------- MODULE TraceDelivery -----------------------------
(***************************************************************************)
(* What a perf_bundle promises to those who derive from it: each sample    *)
(* the kernel committed while the measurement ran is handed to             *)
(* handle_trace_point once, in the order of time, after the measurement    *)
(* has ended; a measurement is handed over completely or not at all, and   *)
(* nothing of it reaches the next one.                                     *)
(***************************************************************************)
EXTENDS Integers, Sequences

CONSTANTS
  Samples         \* what the kernel can commit: records with a time stamp

VARIABLES
  collecting,     \* the kernel may commit samples
  pending,        \* committed and not handed over
  delivered       \* handed over, in this order

vars == <<collecting, pending, delivered>>

Init ==
  /\ collecting = FALSE
  /\ pending = {}
  /\ delivered = <<>>

Open ==
  /\ ~collecting
  /\ pending = {}
  /\ collecting' = TRUE
  /\ delivered' = <<>>
  /\ UNCHANGED pending

Commit(s) ==
  /\ collecting
  /\ pending' = pending \cup {s}
  /\ UNCHANGED <<collecting, delivered>>

Close ==
  /\ collecting
  /\ collecting' = FALSE
  /\ UNCHANGED <<pending, delivered>>

Deliver(s) ==
  /\ ~collecting
  /\ s \in pending
  /\ \A other \in pending : s.time <= other.time
  /\ pending' = pending \ {s}
  /\ delivered' = Append(delivered, s)
  /\ UNCHANGED collecting

\* A measurement nobody is interested in.
DropAll ==
  /\ ~collecting
  /\ delivered = <<>>
  /\ pending' = {}
  /\ UNCHANGED <<collecting, delivered>>

Next ==
  \/ Open
  \/ \E s \in Samples : Commit(s) \/ Deliver(s)
  \/ Close
  \/ DropAll

Spec == Init /\ [][Next]_vars
================================================================================
