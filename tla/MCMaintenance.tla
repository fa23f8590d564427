----------------------------- MODULE MCMaintenance -----------------------------
(* Values of Maintenance's constants for TLC: an old binary and a newer one. *)
EXTENDS Maintenance, TLC

CONSTANTS p1, p2

Levels == [p \in Proc |-> IF p = p1 THEN 1 ELSE 2]
OneLevel == [p \in Proc |-> 1]
Interchangeable == Permutations(File)

\* What is left in a file that nobody can reach any more does not matter.
Reachable == <<dir, side, [f \in File |-> IF f \in Fresh THEN Blank ELSE file[f]],
  proc, second, abandoned>>
================================================================================
