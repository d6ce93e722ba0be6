--------------------------- MODULE TLineExecutionMC ---------------------------
(* Instances of TLineExecution for TLC.                                     *)
EXTENDS TLineExecution, TLC

\* Runs, championships and workers are interchangeable: no definition orders them.
Symmetric == Permutations(Runs) \cup Permutations(Champs) \cup Permutations(Workers)
=============================================================================
