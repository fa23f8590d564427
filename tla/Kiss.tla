---------------------------------- MODULE Kiss ---------------------------------
(***************************************************************************)
(* The kiss cluster generator.  What the engine's random stream yields is  *)
(* a constant: draw number n of a seed's stream is a vector of the unit    *)
(* ball, in fractions 1/Unit (the trigonometry that turns three floats     *)
(* into a direction and a cube root of a distance is left out).  The       *)
(* rounding, the clamp, the set of points and the budget of draws are the  *)
(* code's.                                                                 *)
(***************************************************************************)
EXTENDS Integers, FiniteSets

CONSTANTS
  Unit,                 \* fractions of the radius that a draw distinguishes
  Stream(_, _),         \* Stream(seed, n): the n-th draw of the seed's stream
  DrawsPerStellium,     \* draws allowed for each stellium asked for
  MinStelliumCount, MaxStelliumCount, MinRadius, MaxRadius

ASSUME KissAssumption ==
  /\ Unit \in Nat \ {0} /\ DrawsPerStellium \in Nat \ {0}
  /\ MinStelliumCount \in Nat \ {0} /\ MaxStelliumCount \in Nat
  /\ MinRadius \in Nat \ {0} /\ MaxRadius \in Nat

Count == MinStelliumCount .. MaxStelliumCount
Radius == MinRadius .. MaxRadius
Coordinate == -MaxRadius .. MaxRadius
Point == Coordinate \X Coordinate \X Coordinate

\* A draw is a vector of the ball up to one fraction of overshoot, which stands
\* for what the floating-point product r * cos(theta) may exceed r by.
Direction ==
  {d \in (-(Unit + 1) .. Unit + 1) \X (-(Unit + 1) .. Unit + 1)
           \X (-(Unit + 1) .. Unit + 1) :
     d[1] * d[1] + d[2] * d[2] + d[3] * d[3] <= (Unit + 1) * (Unit + 1)}

Clamp(n, radius) ==
  IF n > radius THEN radius ELSE IF n < -radius THEN -radius ELSE n

\* v / Unit rounded to an integer, away from zero.
CeilNoClamp(v, radius) ==                                       \* mutant
  IF v >= 0 THEN (v + Unit - 1) \div Unit ELSE -((-v + Unit - 1) \div Unit)
CeilAwayFromZero(v, radius) ==
  Clamp(IF v >= 0 THEN (v + Unit - 1) \div Unit ELSE -((-v + Unit - 1) \div Unit),
        radius)

DrawPoint(d, radius) ==
  <<CeilAwayFromZero(radius * d[1], radius),
    CeilAwayFromZero(radius * d[2], radius),
    CeilAwayFromZero(radius * d[3], radius)>>

\* The set of points after n draws, and the numbers of draws after which it has
\* as many as were asked for, within the budget.
Points(seed, radius, n) == {DrawPoint(Stream(seed, i), radius) : i \in 1 .. n}
Enough(seed, count, radius) ==
  {n \in 0 .. count * DrawsPerStellium : Cardinality(Points(seed, radius, n)) = count}

\* ErrCrowded: the budget is spent and the points are too few.
Crowded(seed, count, radius) == Enough(seed, count, radius) = {}

GivesUpEarly(seed, count, radius) ==                            \* mutant
  Points(seed, radius, count)
Cluster(seed, count, radius) ==
  Points(seed, radius,
         CHOOSE n \in Enough(seed, count, radius) :
           \A k \in Enough(seed, count, radius) : n <= k)

\* Point.Compare: by x, then y, then z.
Before(p, q) ==
  \/ p[1] < q[1]
  \/ p[1] = q[1] /\ p[2] < q[2]
  \/ p[1] = q[1] /\ p[2] = q[2] /\ p[3] < q[3]

\* SortStelliums: the points of a set one after another (one list, for Before
\* is a strict total order).
Listed(S) ==                                                    \* mutant
  {list \in [1 .. Cardinality(S) -> S] : {list[i] : i \in DOMAIN list} = S}
Sorted(S) ==
  {list \in [1 .. Cardinality(S) -> S] :
     /\ {list[i] : i \in DOMAIN list} = S
     /\ \A i, j \in DOMAIN list : i < j => Before(list[i], list[j])}
================================================================================
