-------------------------- MODULE MCTraceAccounting --------------------------
(***************************************************************************)
(* Instances of TraceAccounting for TLC.                                   *)
(***************************************************************************)
EXTENDS TraceAccounting, TLC

\* The CPUs are interchangeable: no definition tells one from another.
CPUSymmetry == Permutations(CPUs)
=============================================================================
