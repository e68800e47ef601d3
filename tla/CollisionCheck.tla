---------------------------- MODULE CollisionCheck ----------------------------
(***************************************************************************)
(* ComputerSystem's collision test (checkAxes, checkCollision), as         *)
(* operators on records of aircraft, and what it is to decide.             *)
(***************************************************************************)
EXTENDS Messages

CONSTANTS
  Constraint,      \* CONSTRAINT_X, CONSTRAINT_Y, CONSTRAINT_Z
  PairsPerMessage  \* kMaxPairs: how many pairs the 256 bytes of data hold

ASSUME ConstraintAssumption ==
  Constraint \in [Axes -> Nat] /\ PairsPerMessage \in Nat

(* fabs(x - y)                                                             *)
Distance(x, y) == IF x >= y THEN x - y ELSE y - x

Within(v, w) == \A a \in Axes : Distance(v[a], w[a]) <= Constraint[a]

(* s = s0 + vt                                                             *)
PositionAfter(plane, t) ==
  [a \in Axes |-> plane.position[a] + plane.velocity[a] * t]

(* checkAxes: near each other after timeConstraintCollisionFreq seconds,   *)
(* or near each other now.                                                 *)
checkAxes(plane1, plane2, timeConstraintCollisionFreq) ==
  \/ Within(PositionAfter(plane1, timeConstraintCollisionFreq),
            PositionAfter(plane2, timeConstraintCollisionFreq))
  \/ Within(plane1.position, plane2.position)

CollisionPairs_OrderedTwice(planes, t) ==
  {pair \in (DOMAIN planes) \X (DOMAIN planes) :
     pair[1] # pair[2] /\ checkAxes(planes[pair[1]], planes[pair[2]], t)}

(* checkCollision: "every unique pair of planes", by their indices.        *)
CollisionPairs(planes, timeConstraintCollisionFreq) ==
  {pair \in (DOMAIN planes) \X (DOMAIN planes) :
     /\ pair[1] < pair[2]
     /\ checkAxes(planes[pair[1]], planes[pair[2]], timeConstraintCollisionFreq)}

(* The order in which the two loops find the pairs.                        *)
Precedes(p, q) == p[1] < q[1] \/ (p[1] = q[1] /\ p[2] < q[2])
FoundBefore(pairs, p) == {q \in pairs : Precedes(q, p)}

(* The k-th pair that they find.                                           *)
NthFound(pairs, k) == CHOOSE p \in pairs : Cardinality(FoundBefore(pairs, p)) = k - 1

(* The ids of the first so many pairs.                                     *)
AlertOf(planes, pairs, numPairs) ==
  [k \in 1 .. numPairs |->
     <<planes[NthFound(pairs, k)[1]].id, planes[NthFound(pairs, k)[2]].id>>]

CollisionMessage_Uncut(planes, timeConstraintCollisionFreq) ==
  LET pairs == CollisionPairs(planes, timeConstraintCollisionFreq)
  IN  AlertOf(planes, pairs, Cardinality(pairs))

(* The message to the Display: the first kMaxPairs pairs, in the order of  *)
(* the two loops, as ids. There is no message when there is no pair.       *)
CollisionMessage(planes, timeConstraintCollisionFreq) ==
  LET pairs == CollisionPairs(planes, timeConstraintCollisionFreq)
      found == Cardinality(pairs)
  IN  AlertOf(planes, pairs, IF found <= PairsPerMessage THEN found ELSE PairsPerMessage)

-----------------------------------------------------------------------------
(* What checkAxes is to decide: "two planes entering the defined airspace  *)
(* constraints within the time constraint" (ComputerSystem.cpp:163), now   *)
(* or at a whole second from now.                                          *)
Conflict(plane1, plane2, timeConstraintCollisionFreq) ==
  \E t \in {0} \cup 0 .. timeConstraintCollisionFreq :
     Within(PositionAfter(plane1, t), PositionAfter(plane2, t))
=============================================================================
