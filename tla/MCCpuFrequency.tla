---------------------------- MODULE MCCpuFrequency ----------------------------
(***************************************************************************)
(* A package of two cores, one of them with two CPUs.                      *)
(***************************************************************************)
EXTENDS CpuFrequency, TLC

CONSTANTS p1, k1, k2, c1, c2, c3

MCParent == [n \in {k1, k2, c1, c2, c3} |->
  CASE n \in {k1, k2} -> p1
    [] n \in {c1, c2} -> k1
    [] n = c3         -> k2]

\* The two CPUs of one core are interchangeable.
CpuSymmetry == Permutations({c1, c2})
===============================================================================
