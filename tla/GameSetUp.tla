------------------------------- MODULE GameSetUp -------------------------------
(***************************************************************************)
(* The stages of a game before its first turn: created, set up with a      *)
(* seed, mapped.  Each stage is entered once and never left for an earlier *)
(* one, and the map is the one that the game's seed draws.                 *)
(***************************************************************************)
EXTENDS Sequences

CONSTANTS Game, Seed, Shape, Drawn(_, _)

VARIABLE stage

Init == stage = [g \in Game |-> <<>>]

SetUp(g, seed) ==
  /\ stage[g] = <<>>
  /\ stage' = [stage EXCEPT ![g] = <<seed>>]

Map(g, shape) ==
  /\ Len(stage[g]) = 1
  /\ Drawn(stage[g][1], shape) # {}                 \* it fits into the radius
  /\ stage' = [stage EXCEPT ![g] = <<@[1], shape, Drawn(@[1], shape)>>]

Next ==
  \E g \in Game : \/ \E seed \in Seed : SetUp(g, seed)
                  \/ \E shape \in Shape : Map(g, shape)

Spec == Init /\ [][Next]_stage
================================================================================
