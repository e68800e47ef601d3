----------------------------- MODULE MCCollision ------------------------------
(***************************************************************************)
(* Every two aircraft of a small set, and time constraints of a set, a     *)
(* negative one among them, with one change of the constraint before any   *)
(* of the loads.                                                           *)
(***************************************************************************)
EXTENDS CollisionTest

V(x, y, z) == [a \in Axes |-> CASE a = "X" -> x [] a = "Y" -> y [] OTHER -> z]
MCConstraint == V(1, 0, 1)

MCTested ==
  {[id |-> 1, position |-> V(x, 0, z), velocity |-> V(v, 0, w)] :
     x \in {0, 2, 4}, z \in {0, 2}, v \in {-2, -1, 0, 1}, w \in {0, -1}}
MCTimeConstraints == {-1, 0, 1, 4}
=============================================================================
