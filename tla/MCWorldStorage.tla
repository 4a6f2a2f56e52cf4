---------------------------- MODULE MCWorldStorage ----------------------------
(* Model values and symmetry for the TLC runs of WorldStorage.             *)
EXTENDS WorldStorage, TLC

\* Region objects are interchangeable.
ObjectSymmetry == Permutations(Object)

\* So are the threads: any of them may issue any call.
ThreadSymmetry == Permutations(Object) \cup Permutations(Thread)
===============================================================================
