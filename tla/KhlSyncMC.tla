------------------------------ MODULE KhlSyncMC ------------------------------
(* Instances of KhlSync for TLC.                                            *)
EXTENDS KhlSync, TLC

\* Games and workers are interchangeable; runs are numbers and are not.
Symmetric == Permutations(Games) \cup Permutations(Workers)
=============================================================================
