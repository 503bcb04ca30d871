------------------------------ MODULE MCWorker ------------------------------
(* Worker with one or two runs; runs are interchangeable.                  *)
EXTENDS Worker, TLC

Symmetry == Permutations(Runs)
=============================================================================
