------------------------------ MODULE MCMonitor -------------------------------
EXTENDS Monitor

V(x, y, z) == [a \in Axes |-> CASE a = "X" -> x [] a = "Y" -> y [] OTHER -> z]
At(p, x, v) == [id |-> p, position |-> V(x, 0, 1), velocity |-> V(v, 0, 0)]

(* Aircraft 1 and 3 hover next to each other and 2 comes near both: the    *)
(* alert of these three pairs is cut off, and so may be that of a torn     *)
(* reading; the alert of 1 and 2 is not. Radar's set has no order.         *)
MCSnapshots ==
  {<<>>, <<At(1, 0, 0)>>, <<At(1, 0, 0), At(2, 5, -1)>>,
   <<At(3, 1, 0), At(2, 4, -1), At(1, 0, 0)>>}
MCTwoSnapshots == {<<>>, <<At(1, 0, 0)>>, <<At(2, 4, -1), At(1, 0, 0)>>}
MCConstraint == V(1, 1, 1)
=============================================================================
