-------------------------- MODULE TLineSchedulerMC --------------------------
(* Instances of TLineScheduler for TLC.                                     *)
EXTENDS TLineScheduler, TLC

\* Runs and workers are interchangeable: no definition orders them.
Symmetric == Permutations(Runs) \cup Permutations(Workers)
=============================================================================
