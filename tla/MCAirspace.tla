----------------------------- MODULE MCAirspace -----------------------------
EXTENDS AirspaceSnapshots

V(x, y, z) == [a \in Axes |-> CASE a = "X" -> x [] a = "Y" -> y [] OTHER -> z]

MCLower == V(0, 0, 1)
MCUpper == V(2, 0, 2)
MCArrival == [p \in Planes |-> p - 1]
MCPosition == [p \in Planes |-> V(0, 0, 1)]
MCSpeed == [p \in Planes |-> V(1, 0, 0)]
NoCommands == {}

(* Liveness runs: a smaller airspace, and in one of them an aircraft that  *)
(* hovers and so never leaves.                                             *)
MCSmallUpper == V(1, 0, 1)
MCHover == [p \in Planes |-> IF p = 1 THEN V(0, 0, 0) ELSE V(1, 0, 0)]
MCNow == [p \in Planes |-> 0]

(* Aircraft 1 is told to stop, to jump out of the airspace sideways and to *)
(* climb out of it.                                                        *)
Command(type, data) ==
  [type |-> type, planeID |-> 1, data |-> data, complete |-> TRUE]
MCCommands ==
  {Command("REQUEST_CHANGE_OF_HEADING", V(0, 0, 0)),
   Command("REQUEST_CHANGE_POSITION", V(5, 0, 1)),
   Command("REQUEST_CHANGE_ALTITUDE", V(0, 0, 4))}
=============================================================================
