---------------------------- MODULE MCParallelScan ----------------------------
(* Instances of ParallelScan for TLC.                                      *)
EXTENDS ParallelScan, TLC

\* Threads and rows are interchangeable; liveness is checked without symmetry.
Symmetry == Permutations(Threads) \cup Permutations(Rows)
===============================================================================
