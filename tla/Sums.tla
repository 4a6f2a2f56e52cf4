---------------------------------- MODULE Sums ---------------------------------
(***************************************************************************)
(* Sums of the values of a function over a finite set, whatever the order  *)
(* they are added in.                                                      *)
(***************************************************************************)
EXTENDS Integers, FiniteSets, FiniteSetsExt

SumOf(f, S) == MapThenSumSet(LAMBDA x : f[x], S)
================================================================================
