------------------------------ MODULE Messages ------------------------------
(***************************************************************************)
(* The data that the threads and processes of the air traffic control      *)
(* system exchange (Msg_structs.h, the same file in all three projects).   *)
(*                                                                         *)
(* Positions and velocities are doubles in the code and integers here.     *)
(***************************************************************************)
EXTENDS Integers, Sequences, FiniteSets

CONSTANTS
  Planes,   \* the ids of the aircraft in planes.txt
  NoPlane   \* the id 0 of a zero-initialised record; planes.txt starts at 1

ASSUME PlanesAssumption == IsFiniteSet(Planes) /\ NoPlane \notin Planes

Axes == {"X", "Y", "Z"}
Vector == [Axes -> Int]

(* A msg_plane_info, and the one that `msg_plane_info received_info{}`     *)
(* denotes.                                                                *)
PlaneInfo == [id : Planes \cup {NoPlane}, position : Vector, velocity : Vector]
ZeroVector == [a \in Axes |-> 0]
ZeroInfo == [id |-> NoPlane, position |-> ZeroVector, velocity |-> ZeroVector]

(* The intra-process messages that an aircraft sends to Radar.             *)
AirspaceMessage == [type : {"ENTER_AIRSPACE", "EXIT_AIRSPACE"}, planeID : Planes]

(* The inter-process messages that CommunicationsSystem sends to an        *)
(* aircraft. "complete" abstracts dataSize: the payload is at least as     *)
(* long as the struct the aircraft copies out of it. An altitude command   *)
(* uses the Z component of data.                                           *)
AircraftCommand ==
  [type : {"REQUEST_CHANGE_OF_HEADING", "REQUEST_CHANGE_POSITION",
           "REQUEST_CHANGE_ALTITUDE"},
   planeID : Planes, data : Vector, complete : BOOLEAN]
=============================================================================
