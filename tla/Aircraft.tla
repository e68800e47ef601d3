------------------------------ MODULE Aircraft ------------------------------
(***************************************************************************)
(* The aircraft threads (Aircraft.cpp): one thread runs updatePosition for *)
(* every line of planes.txt. This module gives what each step does to the  *)
(* aircraft's own state; module Airspace joins these steps with those of   *)
(* the thread at the other end of the message.                             *)
(*                                                                         *)
(* aircraftPc[p] is where the thread of p is:                              *)
(*   arriving     counting down its arrival time                           *)
(*   opened       name_open on the Radar channel succeeded                 *)
(*   entering     blocked in MsgSend of ENTER_AIRSPACE                     *)
(*   attaching    about to name_attach its own channel                     *)
(*   moving       at the head of the position loop                         *)
(*   receiving    in MsgReceive on its own channel                         *)
(*   waiting      in timer.waitTimer()                                     *)
(*   exiting      blocked in MsgSend of EXIT_AIRSPACE                      *)
(*   detaching    left the loop, about to name_detach                      *)
(*   finished     pthread_exit                                             *)
(*   unannounced  returned EXIT_FAILURE before Radar had its ENTER         *)
(*   failed       returned EXIT_FAILURE after that                         *)
(***************************************************************************)
EXTENDS Messages

CONSTANTS
  ArrivalTime, InitialPosition, InitialSpeed,   \* the columns of planes.txt
  LowerBoundary, UpperBoundary,                 \* airspace_struct
  AttachMayFail   \* whether name_attach of a plane channel may return NULL

ASSUME AircraftAssumption ==
  /\ ArrivalTime \in [Planes -> Nat]
  /\ InitialPosition \in [Planes -> Vector]
  /\ InitialSpeed \in [Planes -> Vector]
  /\ LowerBoundary \in Vector /\ UpperBoundary \in Vector
  /\ AttachMayFail \in BOOLEAN

VARIABLES
  aircraftPc, currentTime, position, speed,
  planeChannels   \* the aircraft whose channel name is attached

aircraftVars == <<aircraftPc, currentTime, position, speed, planeChannels>>

Early == {"arriving", "opened", "entering", "unannounced"}
Flying == {"moving", "receiving", "waiting", "exiting"}
Leaving == {"detaching", "finished"}
Ended == {"finished", "failed", "unannounced"}
AircraftPcs == Early \cup {"attaching", "failed"} \cup Flying \cup Leaving

AircraftTypeOK ==
  /\ aircraftPc \in [Planes -> AircraftPcs]
  /\ \A p \in Planes : currentTime[p] \in 0 .. ArrivalTime[p]
  /\ currentTime \in [Planes -> Nat]
  /\ position \in [Planes -> Vector]
  /\ speed \in [Planes -> Vector]
  /\ planeChannels \subseteq Planes

AircraftInit ==
  /\ aircraftPc = [p \in Planes |-> "arriving"]
  /\ currentTime = [p \in Planes |-> 0]
  /\ position = InitialPosition
  /\ speed = InitialSpeed
  /\ planeChannels = {}

InAirspace(v) == \A a \in Axes : v[a] >= LowerBoundary[a] /\ v[a] <= UpperBoundary[a]

Goto(p, from, to) ==
  /\ aircraftPc[p] = from
  /\ aircraftPc' = [aircraftPc EXCEPT ![p] = to]

-----------------------------------------------------------------------------
AwaitArrival_OneTooMany(p) ==
  /\ aircraftPc[p] = "arriving"
  /\ currentTime[p] <= ArrivalTime[p]
  /\ currentTime' = [currentTime EXCEPT ![p] = @ + 1]
  /\ UNCHANGED <<aircraftPc, position, speed, planeChannels>>

(* while (currentTime < arrivalTime): one timer period.                    *)
AwaitArrival(p) ==
  /\ aircraftPc[p] = "arriving"
  /\ currentTime[p] < ArrivalTime[p]
  /\ currentTime' = [currentTime EXCEPT ![p] = @ + 1]
  /\ UNCHANGED <<aircraftPc, position, speed, planeChannels>>

(* name_open on Radar's channel; the thread returns if nobody attached it. *)
OpenRadar(p, radarUp) ==
  /\ currentTime[p] >= ArrivalTime[p]
  /\ Goto(p, "arriving", IF radarUp THEN "opened" ELSE "unannounced")
  /\ UNCHANGED <<currentTime, position, speed, planeChannels>>

SendEnter(p, radarUp) ==
  /\ Goto(p, "opened", IF radarUp THEN "entering" ELSE "unannounced")
  /\ UNCHANGED <<currentTime, position, speed, planeChannels>>

EnterReplied(p) ==
  /\ Goto(p, "entering", "attaching")
  /\ UNCHANGED <<currentTime, position, speed, planeChannels>>

(* The channel name exists only after Radar has answered the ENTER.        *)
AttachChannel(p) ==
  /\ \/ /\ Goto(p, "attaching", "moving")
        /\ planeChannels' = planeChannels \cup {p}
     \/ /\ AttachMayFail
        /\ Goto(p, "attaching", "failed")
        /\ UNCHANGED planeChannels
  /\ UNCHANGED <<currentTime, position, speed>>

Moved(p) == [a \in Axes |-> position[p][a] + speed[p][a]]

Move_ChecksOldPosition(p, radarUp) ==
  /\ position' = [position EXCEPT ![p] = Moved(p)]
  /\ Goto(p, "moving", IF InAirspace(position[p]) THEN "receiving"
                       ELSE IF radarUp THEN "exiting" ELSE "failed")
  /\ UNCHANGED <<currentTime, speed, planeChannels>>

(* The head of the loop: the new position, then either MsgReceive or, out  *)
(* of bounds, MsgSend of EXIT_AIRSPACE.                                    *)
Move(p, radarUp) ==
  /\ position' = [position EXCEPT ![p] = Moved(p)]
  /\ Goto(p, "moving", IF InAirspace(Moved(p)) THEN "receiving"
                       ELSE IF radarUp THEN "exiting" ELSE "failed")
  /\ UNCHANGED <<currentTime, speed, planeChannels>>

(* What the aircraft answers a REQUEST_POSITION: Radar leaves the header   *)
(* byte of its request uninitialised, and if bit 0 of it is set the        *)
(* request is taken for an inter-process message of unknown type, whose    *)
(* reply is the int 0 in place of a msg_plane_info.                        *)
PositionReply(p, headerBit) ==
  IF headerBit THEN ZeroInfo
  ELSE [id |-> p, position |-> position[p], velocity |-> speed[p]]

(* MsgReceive and MsgReply of a message that asks for no change of state:  *)
(* a position request, one of a type the aircraft does not know, a pulse.  *)
Reply(p) ==
  /\ Goto(p, "receiving", "waiting")
  /\ UNCHANGED <<currentTime, position, speed, planeChannels>>

(* The payload is checked before it is copied out of the message.          *)
Asks(command, type) == command.complete /\ command.type = type

(* MsgReceive and MsgReply of a command from CommunicationsSystem.         *)
ReplyToCommand(p, command) ==
  /\ Goto(p, "receiving", "waiting")
  /\ speed' = IF Asks(command, "REQUEST_CHANGE_OF_HEADING")
              THEN [speed EXCEPT ![p] = command.data] ELSE speed
  /\ position' = IF Asks(command, "REQUEST_CHANGE_POSITION")
                 THEN [position EXCEPT ![p] = command.data]
                 ELSE IF Asks(command, "REQUEST_CHANGE_ALTITUDE")
                 THEN [position EXCEPT ![p]["Z"] = command.data["Z"]]
                 ELSE position
  /\ UNCHANGED <<currentTime, planeChannels>>

WaitTimer(p) ==
  /\ Goto(p, "waiting", "moving")
  /\ UNCHANGED <<currentTime, position, speed, planeChannels>>

ExitReplied_SkipsDetach(p) ==
  /\ Goto(p, "exiting", "finished")
  /\ UNCHANGED <<currentTime, position, speed, planeChannels>>

ExitReplied(p) ==
  /\ Goto(p, "exiting", "detaching")
  /\ UNCHANGED <<currentTime, position, speed, planeChannels>>

(* name_detach of the plane's channel, name_close and pthread_exit.        *)
DetachChannel(p) ==
  /\ Goto(p, "detaching", "finished")
  /\ planeChannels' = planeChannels \ {p}
  /\ UNCHANGED <<currentTime, position, speed>>

(* Radar's channel is destroyed: a MsgSend blocked on it returns -1.       *)
RadarChannelLost ==
  /\ aircraftPc' = [p \in Planes |->
       IF aircraftPc[p] = "entering" THEN "unannounced"
       ELSE IF aircraftPc[p] = "exiting" THEN "failed" ELSE aircraftPc[p]]
  /\ UNCHANGED <<currentTime, position, speed, planeChannels>>
=============================================================================
