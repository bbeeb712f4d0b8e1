---------------------------------- MODULE Sums ----------------------------------
(***************************************************************************)
(* Sums over finite sets, of what a function gives each member.            *)
(***************************************************************************)
EXTENDS FiniteSetsExt

SumOf(f, S) == MapThenSumSet(LAMBDA x : f[x], S)
=================================================================================
