------------------------------ MODULE MCFirstUse ------------------------------
(* Three threads: one makes the instance, one waits for the mutex, one reads  *)
(* without it, or main alone starts the two others; one meets the flag that   *)
(* another has set or reset while a third is between test and setting.  Two   *)
(* cleanups: the second tells whether the first one reset the flag.  Only     *)
(* invariants are checked, and no definition tells one thread from another.   *)
EXTENDS FirstUse, TLC

Symmetry == Permutations(Threads)
=============================================================================
