------------------------------- MODULE MCClusters ------------------------------
(* Values of Clusters' constants for TLC.  The streams are of two kinds: one   *)
(* that repeats itself, overshoots and then moves down, and one that yields    *)
(* the same point for ever, so that two stellia do not fit.                    *)
EXTENDS Clusters, TLC

CONSTANTS x1, x2

Draws == [x \in {x1, x2} |->
  IF x = x1 THEN << <<5, 0, 0>>, <<4, 0, 0>>, <<2, -2, 2>>, <<-2, 0, 2>> >>
            ELSE << <<1, 1, 1>>, <<1, 1, 1>>, <<1, 1, 1>>, <<1, 1, 1>> >>]
StreamOf(seed, n) == Draws[seed][n]

Interchangeable == Permutations(Request) \cup Permutations(Game) \cup Permutations(SeatId)
================================================================================
