---------------------------- MODULE AirspaceProofs ----------------------------
(***************************************************************************)
(* Proofs about module Airspace, for every set of aircraft, every          *)
(* trajectory and every bound.                                             *)
(***************************************************************************)
EXTENDS Airspace, TLAPS

-----------------------------------------------------------------------------
(* Type correctness, one lemma per thread.                                 *)

(* Every step of an aircraft thread keeps the aircraft's variables in      *)
(* their types, the position after a move and a command's data included.   *)
LEMMA AircraftStepType ==
  ASSUME AircraftTypeOK, NEW p \in Planes, NEW up \in BOOLEAN,
         \/ AwaitArrival(p) \/ OpenRadar(p, up) \/ SendEnter(p, up)
         \/ EnterReplied(p) \/ AttachChannel(p) \/ Move(p, up) \/ Reply(p)
         \/ WaitTimer(p) \/ ExitReplied(p) \/ DetachChannel(p)
         \/ \E c \in AircraftCommand : ReplyToCommand(p, c)
         \/ RadarChannelLost
  PROVE  AircraftTypeOK'
<1> USE AircraftAssumption DEF AircraftTypeOK, AircraftPcs, Early, Flying, Leaving
<1>1. CASE AwaitArrival(p)
  BY <1>1 DEF AwaitArrival
<1>2. CASE OpenRadar(p, up)
  BY <1>2 DEF OpenRadar, Goto
<1>3. CASE SendEnter(p, up)
  BY <1>3 DEF SendEnter, Goto
<1>4. CASE EnterReplied(p)
  BY <1>4 DEF EnterReplied, Goto
<1>5. CASE AttachChannel(p)
  BY <1>5 DEF AttachChannel, Goto
<1>6. CASE Move(p, up)
  <2>1. Moved(p) \in Vector
    BY DEF Moved, Vector
  <2>2. position' \in [Planes -> Vector]
    BY <1>6, <2>1 DEF Move
  <2>3. aircraftPc' \in [Planes -> AircraftPcs]
    BY <1>6 DEF Move, Goto
  <2> QED BY <1>6, <2>2, <2>3 DEF Move
<1>7. CASE Reply(p)
  BY <1>7 DEF Reply, Goto
<1>8. CASE WaitTimer(p)
  BY <1>8 DEF WaitTimer, Goto
<1>9. CASE ExitReplied(p)
  BY <1>9 DEF ExitReplied, Goto
<1>10. CASE DetachChannel(p)
  BY <1>10 DEF DetachChannel, Goto
<1>11. CASE \E c \in AircraftCommand : ReplyToCommand(p, c)
  <2>1. PICK c \in AircraftCommand : ReplyToCommand(p, c)
    BY <1>11
  <2>2. c.data \in Vector /\ c.data["Z"] \in Int
    BY DEF AircraftCommand, Vector, Axes
  <2>3. speed' \in [Planes -> Vector]
    BY <2>1, <2>2 DEF ReplyToCommand, Asks
  <2>4. [position[p] EXCEPT !["Z"] = c.data["Z"]] \in Vector
    BY <2>2 DEF Vector, Axes
  <2>5. position' \in [Planes -> Vector]
    BY <2>1, <2>2, <2>4 DEF ReplyToCommand, Asks
  <2>6. aircraftPc' \in [Planes -> AircraftPcs]
    BY <2>1 DEF ReplyToCommand, Goto
  <2> QED BY <2>1, <2>3, <2>5, <2>6 DEF ReplyToCommand
<1>12. CASE RadarChannelLost
  BY <1>12 DEF RadarChannelLost
<1> QED BY <1>1, <1>2, <1>3, <1>4, <1>5, <1>6, <1>7, <1>8, <1>9, <1>10, <1>11, <1>12

(* The answer to a position request is a msg_plane_info, whether or not    *)
(* the aircraft takes the request for what it is.                          *)
LEMMA PositionReplyType ==
  ASSUME AircraftTypeOK, NEW p \in Planes, NEW bit \in BOOLEAN
  PROVE  PositionReply(p, bit) \in PlaneInfo
  BY DEF AircraftTypeOK, PositionReply, PlaneInfo, ZeroInfo, ZeroVector, Vector

(* The arrival thread: its own variables.                                  *)
LEMMA ArrivalStepType ==
  ASSUME ArrivalTypeOK,
         \/ AttachRadar \/ ArrivalLoop \/ ReceiveStray \/ ReceiveFails
         \/ HandleAirspaceMessage
         \/ \E msg \in AirspaceMessage : ReceiveAirspaceMessage(msg)
         \/ StopThreads \/ DetachRadar
  PROVE  ArrivalTypeOK'
<1> USE PlanesAssumption DEF ArrivalTypeOK, ArrivalGoto
<1>1. CASE AttachRadar
  BY <1>1 DEF AttachRadar
<1>2. CASE ArrivalLoop
  BY <1>2 DEF ArrivalLoop
<1>3. CASE ReceiveStray
  BY <1>3 DEF ReceiveStray
<1>4. CASE ReceiveFails
  BY <1>4 DEF ReceiveFails
<1>5. CASE HandleAirspaceMessage
  BY <1>5 DEF HandleAirspaceMessage, Tracked, AirspaceMessage, NoMessage
<1>6. CASE \E msg \in AirspaceMessage : ReceiveAirspaceMessage(msg)
  BY <1>6 DEF ReceiveAirspaceMessage
<1>7. CASE StopThreads
  BY <1>7 DEF StopThreads, arrivalVars
<1>8. CASE DetachRadar
  BY <1>8 DEF DetachRadar, arrivalVars
<1> QED BY <1>1, <1>2, <1>3, <1>4, <1>5, <1>6, <1>7, <1>8

(* The polling thread: its own variables.                                  *)
LEMMA PollStepType ==
  ASSUME ArrivalTypeOK, PollTypeOK, NEW tick \in Nat,
         \/ PollLoop \/ CheckAirspace \/ CopyPlanes
         \/ \E p \in Planes : PollNext(p) \/ PollSkip(p)
         \/ PollDone \/ RequestPosition(planeChannels) \/ RequestFailed
         \/ \E info \in PlaneInfo : PositionReceived(info)
         \/ StoreReply \/ WriteTimestamp(tick) \/ WriteIsEmpty
         \/ WriteCount \/ (\E i \in toCopy : WritePlaneData(i)) \/ ClearBuffer
  PROVE  PollTypeOK'
<1> USE DEF ArrivalTypeOK, PollTypeOK, PollPcs, PollGoto, roundVars, bufferVars, emptyVars
<1>0. ZeroInfo \in PlaneInfo
  BY DEF ZeroInfo, ZeroVector, PlaneInfo, Vector
<1>1. CASE PollLoop
  BY <1>1 DEF PollLoop
<1>2. CASE CheckAirspace
  BY <1>2 DEF CheckAirspace
<1>3. CASE CopyPlanes
  BY <1>3 DEF CopyPlanes
<1>4. CASE \E p \in Planes : PollNext(p) \/ PollSkip(p)
  BY <1>4 DEF PollNext, PollSkip
<1>5. CASE PollDone
  BY <1>5 DEF PollDone
<1>6. CASE RequestPosition(planeChannels)
  BY <1>6 DEF RequestPosition
<1>7. CASE RequestFailed
  BY <1>7 DEF RequestFailed
<1>8. CASE \E info \in PlaneInfo : PositionReceived(info)
  BY <1>8 DEF PositionReceived
<1>9. CASE StoreReply
  BY <1>0, <1>9 DEF StoreReply
<1>10. CASE WriteTimestamp(tick)
  BY <1>10 DEF WriteTimestamp
<1>11. CASE WriteIsEmpty
  BY <1>11 DEF WriteIsEmpty
<1>12. CASE WriteCount
  BY <1>12 DEF WriteCount, CountToWrite, Source, SourceIndex
<1>13. CASE \E i \in toCopy : WritePlaneData(i)
  BY <1>13 DEF WritePlaneData, Source, SourceIndex
<1>14. CASE ClearBuffer
  <2>1. SourceIndex \in {0, 1}
    BY DEF SourceIndex
  <2>2. planesInAirspaceData' = [planesInAirspaceData EXCEPT ![SourceIndex] = <<>>]
    BY <1>14 DEF ClearBuffer
  <2>3. planesInAirspaceData' \in [{0, 1} -> Seq(PlaneInfo)]
    BY <2>1, <2>2
  <2> QED BY <1>14, <2>3 DEF ClearBuffer
<1> QED BY <1>1, <1>2, <1>3, <1>4, <1>5, <1>6, <1>7, <1>8, <1>9, <1>10, <1>11, <1>12, <1>13,
           <1>14

(* The shared memory, written by the polling thread and cleared by main.   *)
LEMMA ShmStepType ==
  ASSUME PollTypeOK, ShmTypeOK, NEW tick \in Nat,
         \/ WriteTimestamp(tick) \/ WriteIsEmpty \/ WriteCount
         \/ \E i \in toCopy : WritePlaneData(i)
         \/ ClearPlaneData \/ ClearCount \/ ClearIsEmpty \/ ClearTimestamp
  PROVE  ShmTypeOK'
<1> USE CapacityAssumption DEF ShmTypeOK
<1>1. Source \in Seq(PlaneInfo)
  BY DEF PollTypeOK, Source, SourceIndex
<1>2. CASE WriteTimestamp(tick)
  BY <1>2 DEF WriteTimestamp
<1>3. CASE WriteIsEmpty
  BY <1>3 DEF WriteIsEmpty
<1>4. CASE WriteCount
  BY <1>1, <1>4 DEF WriteCount, CountToWrite
<1>5. CASE \E i \in toCopy : WritePlaneData(i)
  <2>1. PICK i \in toCopy : WritePlaneData(i)
    BY <1>5
  <2>2. Source[i] \in PlaneInfo
    BY <1>1, <2>1 DEF PollTypeOK, WritePlaneData, ClearBuffer, PollGoto
  <2> QED BY <2>1, <2>2 DEF WritePlaneData
<1>6. CASE ClearPlaneData
  BY <1>6 DEF ClearPlaneData, ZeroPlaneData, ZeroInfo, ZeroVector, PlaneInfo, Vector
<1>7. CASE ClearCount
  BY <1>7 DEF ClearCount
<1>8. CASE ClearIsEmpty
  BY <1>8 DEF ClearIsEmpty
<1>9. CASE ClearTimestamp
  BY <1>9 DEF ClearTimestamp
<1> QED BY <1>2, <1>3, <1>4, <1>5, <1>6, <1>7, <1>8, <1>9

(* Whoever takes no part in a step keeps its type.                         *)
LEMMA UnchangedType ==
  ASSUME TypeOK
  PROVE  /\ UNCHANGED aircraftVars => AircraftTypeOK'
         /\ UNCHANGED arrivalVars /\ UNCHANGED <<Radar_channel, stopThreads>> => ArrivalTypeOK'
         /\ UNCHANGED pollVars => PollTypeOK'
         /\ UNCHANGED shmVars => ShmTypeOK'
         /\ UNCHANGED radarVars => RadarTypeOK'
         /\ UNCHANGED mainVars => MainTypeOK'
         /\ UNCHANGED commsVars => CommsTypeOK'
<1> USE DEF TypeOK
<1>1. UNCHANGED aircraftVars => AircraftTypeOK'
  BY DEF AircraftTypeOK, aircraftVars
<1>2. UNCHANGED arrivalVars /\ UNCHANGED <<Radar_channel, stopThreads>> => ArrivalTypeOK'
  BY DEF RadarTypeOK, ArrivalTypeOK, arrivalVars
<1>3. UNCHANGED pollVars => PollTypeOK'
  BY DEF RadarTypeOK, PollTypeOK, pollVars, roundVars, bufferVars, emptyVars, Source, SourceIndex
<1>4. UNCHANGED shmVars => ShmTypeOK'
  BY DEF RadarTypeOK, ShmTypeOK, shmVars
<1>5. UNCHANGED radarVars => RadarTypeOK'
  BY <1>2, <1>3, <1>4 DEF RadarTypeOK, radarVars
<1>6. UNCHANGED mainVars => MainTypeOK'
  BY DEF MainTypeOK, mainVars
<1>7. UNCHANGED commsVars => CommsTypeOK'
  BY DEF CommsTypeOK, commsVars
<1> QED BY <1>1, <1>2, <1>3, <1>4, <1>5, <1>6, <1>7

(* A step of any thread, with that of the thread it talks to.              *)
LEMMA TypeStep ==
  ASSUME TypeOK, [Next]_vars
  PROVE  TypeOK'
<1> USE UnchangedType DEF TypeOK
<1>0. RadarUp \in BOOLEAN
  BY DEF RadarUp
<1>1. ASSUME NEW p \in Planes, AircraftAlone(p)
      PROVE  TypeOK'
  <2>1. AircraftTypeOK'
    BY <1>0, <1>1, AircraftStepType DEF AircraftAlone
  <2> QED BY <1>1, <2>1 DEF AircraftAlone
<1>2. ASSUME NEW p \in Planes, AnswerPoll(p)
      PROVE  TypeOK'
  <2>1. AircraftTypeOK'
    BY <1>2, AircraftStepType DEF AnswerPoll
  <2>2. PICK bit \in HeaderBits : PositionReceived(PositionReply(p, bit))
    BY <1>2 DEF AnswerPoll
  <2>3. PositionReply(p, bit) \in PlaneInfo
    BY PositionReplyType, AirspaceAssumption
  <2>4. PollTypeOK'
    BY <2>2, <2>3, PollStepType DEF RadarTypeOK
  <2>5. ArrivalTypeOK' /\ ShmTypeOK'
    BY <2>2 DEF PositionReceived, PollGoto, radarVars
  <2> QED BY <1>2, <2>1, <2>4, <2>5 DEF AnswerPoll, RadarTypeOK
<1>3. ASSUME NEW p \in Planes, ObeyCommand(p)
      PROVE  TypeOK'
  <2>1. command \in AircraftCommand
    BY <1>3, PlanesAssumption, AirspaceAssumption DEF ObeyCommand, CommsTypeOK, NoCommand
  <2>2. AircraftTypeOK'
    BY <1>3, <2>1, AircraftStepType DEF ObeyCommand
  <2>3. CommsTypeOK'
    BY <1>3 DEF ObeyCommand, CommsTypeOK
  <2> QED BY <1>3, <2>2, <2>3 DEF ObeyCommand
<1>4. ASSUME NEW p \in Planes, AnswerStray(p)
      PROVE  TypeOK'
  <2>1. AircraftTypeOK'
    BY <1>4, AircraftStepType DEF AnswerStray
  <2> QED BY <1>4, <2>1 DEF AnswerStray
<1>5. ASSUME NEW p \in Planes, Depart(p)
      PROVE  TypeOK'
  <2>1. AircraftTypeOK'
    BY <1>5, AircraftStepType DEF Depart
  <2>2. RadarTypeOK'
    <3>1. CASE RequestFailed
      <4>1. PollTypeOK'
        BY <3>1, PollStepType DEF RadarTypeOK
      <4> QED BY <3>1, <4>1 DEF RequestFailed, PollGoto, RadarTypeOK
    <3>2. CASE UNCHANGED radarVars
      BY <3>2
    <3> QED BY <1>5, <3>1, <3>2 DEF Depart
  <2>3. CommsTypeOK'
    BY <1>5 DEF Depart, CommsTypeOK
  <2> QED BY <1>5, <2>1, <2>2, <2>3 DEF Depart
<1>6. ASSUME NEW p \in Planes, AnswerEnter(p) \/ AnswerExit(p)
      PROVE  TypeOK'
  <2>1. AircraftTypeOK'
    BY <1>6, AircraftStepType DEF AnswerEnter, AnswerExit
  <2>2. PICK msg \in AirspaceMessage : ReceiveAirspaceMessage(msg)
    BY <1>6 DEF AnswerEnter, AnswerExit, AirspaceMessage
  <2>3. ArrivalTypeOK'
    BY <2>2, ArrivalStepType DEF RadarTypeOK
  <2>4. PollTypeOK' /\ ShmTypeOK'
    BY <2>2 DEF ReceiveAirspaceMessage, ArrivalGoto
  <2> QED BY <1>6, <2>1, <2>3, <2>4 DEF AnswerEnter, AnswerExit, RadarTypeOK
<1>7. CASE ArrivalAlone \/ ArrivalStray
  <2>1. ArrivalTypeOK'
    BY <1>7, ArrivalStepType DEF ArrivalAlone, ArrivalStray, RadarTypeOK
  <2>2. PollTypeOK' /\ ShmTypeOK'
    BY <1>7 DEF ArrivalAlone, ArrivalStray, AttachRadar, ArrivalLoop, ReceiveStray,
                ReceiveFails, HandleAirspaceMessage, ArrivalGoto
  <2> QED BY <1>7, <2>1, <2>2 DEF ArrivalAlone, ArrivalStray, RadarTypeOK
<1>8. CASE PollAlone
  <2>1. tick_counter \in Nat
    BY AirspaceAssumption DEF MainTypeOK
  <2>2. PollTypeOK'
    BY <1>8, <2>1, PollStepType DEF PollAlone, RadarTypeOK
  <2>3. ArrivalTypeOK'
    BY <1>8 DEF PollAlone, PollLoop, CheckAirspace, CopyPlanes, PollNext, PollSkip, PollDone,
                RequestPosition, StoreReply, WriteTimestamp, WriteIsEmpty, WriteCount,
                WritePlaneData, ClearBuffer, PollGoto
  <2>4. ShmTypeOK'
    <3>1. CASE \/ WriteTimestamp(tick_counter) \/ WriteIsEmpty \/ WriteCount
               \/ \E i \in toCopy : WritePlaneData(i)
      BY <2>1, <3>1, ShmStepType DEF RadarTypeOK
    <3>2. CASE UNCHANGED shmVars
      BY <3>2
    <3> QED BY <1>8, <3>1, <3>2 DEF PollAlone, PollLoop, CheckAirspace, CopyPlanes, PollNext,
                PollSkip, PollDone, RequestPosition, StoreReply, ClearBuffer
  <2> QED BY <1>8, <2>2, <2>3, <2>4 DEF PollAlone, RadarTypeOK
<1>9. CASE Tick
  <2>1. MainTypeOK'
    BY <1>9, AirspaceAssumption DEF Tick, MainTypeOK
  <2> QED BY <1>9, <2>1 DEF Tick
<1>10. CASE Main
  <2>1. MainTypeOK'
    BY <1>10 DEF Main, JoinPlanes, JoinTimer, DetachRadarChannel, JoinThreads,
                 ClearSharedMemory, MainGoto, MainTypeOK, MainPcs
  <2>2. AircraftTypeOK'
    <3>1. CASE RadarChannelLost
      <4>1. CASE Planes = {}
        BY <3>1, <4>1 DEF RadarChannelLost, AircraftTypeOK
      <4>2. CASE Planes # {}
        BY <1>0, <3>1, <4>2, AircraftStepType
      <4> QED BY <4>1, <4>2
    <3>2. CASE UNCHANGED aircraftVars
      BY <3>2
    <3> QED BY <1>10, <3>1, <3>2 DEF Main, JoinPlanes, JoinTimer, DetachRadarChannel,
                 JoinThreads, ClearSharedMemory
  <2>3. ArrivalTypeOK' /\ PollTypeOK'
    <3>1. CASE StopThreads \/ DetachRadar
      <4>1. ArrivalTypeOK'
        BY <3>1, ArrivalStepType DEF RadarTypeOK
      <4> QED BY <3>1, <4>1 DEF StopThreads, DetachRadar
    <3>2. CASE UNCHANGED <<Radar_channel, stopThreads, arrivalVars, pollVars>>
      BY <3>2
    <3> QED BY <1>10, <3>1, <3>2 DEF Main, JoinPlanes, JoinTimer, DetachRadarChannel,
                 JoinThreads, ClearSharedMemory, ClearPlaneData, ClearCount, ClearIsEmpty,
                 ClearTimestamp, radarVars
  <2>4. ShmTypeOK'
    <3>1. CASE ClearPlaneData \/ ClearCount \/ ClearIsEmpty \/ ClearTimestamp
      BY <3>1, ShmStepType DEF RadarTypeOK
    <3>2. CASE UNCHANGED shmVars
      BY <3>2
    <3> QED BY <1>10, <3>1, <3>2 DEF Main, JoinPlanes, JoinTimer, DetachRadarChannel,
                 JoinThreads, ClearSharedMemory, StopThreads, DetachRadar, radarVars
  <2>5. CommsTypeOK'
    BY <1>10 DEF Main, JoinPlanes, JoinTimer, DetachRadarChannel, JoinThreads,
                 ClearSharedMemory
  <2> QED BY <2>1, <2>2, <2>3, <2>4, <2>5 DEF RadarTypeOK
<1>11. ASSUME NEW c \in Commands, SendCommand(c)
       PROVE  TypeOK'
  <2>1. CommsTypeOK'
    BY <1>11, AirspaceAssumption DEF SendCommand, CommsTypeOK
  <2> QED BY <1>11, <2>1 DEF SendCommand
<1>12. CASE UNCHANGED vars
  BY <1>12 DEF vars
<1> QED
  BY <1>1, <1>2, <1>3, <1>4, <1>5, <1>6, <1>7, <1>8, <1>9, <1>10, <1>11, <1>12
     DEF Next, Terminated

(* Every variable keeps its type: in particular every record Radar stores  *)
(* or publishes, the phantom included, is a whole msg_plane_info.          *)
THEOREM TypeCorrect == Spec => []TypeOK
<1>1. Init => TypeOK
  <2> SUFFICES ASSUME Init PROVE TypeOK
    OBVIOUS
  <2>1. AircraftTypeOK
    BY AircraftAssumption DEF Init, AircraftInit, AircraftTypeOK, AircraftPcs, Early
  <2>2. ZeroInfo \in PlaneInfo
    BY DEF ZeroInfo, ZeroVector, PlaneInfo, Vector
  <2>3. RadarTypeOK
    BY <2>2 DEF Init, RadarInit, ShmInit, RadarTypeOK, ArrivalTypeOK, PollTypeOK, PollPcs,
             ShmTypeOK, ZeroPlaneData
  <2>4. MainTypeOK /\ CommsTypeOK
    BY AirspaceAssumption DEF Init, MainTypeOK, MainPcs, CommsTypeOK
  <2> QED BY <2>1, <2>3, <2>4 DEF TypeOK
<1>2. TypeOK /\ [Next]_vars => TypeOK'
  BY TypeStep
<1> QED BY <1>1, <1>2, PTL DEF Spec

-----------------------------------------------------------------------------
(* Radar's set against the aircraft: every step keeps RadarView, given the *)
(* one message in hand.                                                    *)
LEMMA ViewStep ==
  ASSUME TypeOK, MessageInHand, RadarView, [Next]_vars
  PROVE  (MessageInHand /\ RadarView)'
<1> USE DEF MessageInHand, RadarView, InHand, Announced, Early, Flying, Leaving
<1>0. aircraftPc \in [Planes -> AircraftPcs]
  BY DEF TypeOK, AircraftTypeOK
<1>1. ASSUME NEW p \in Planes, AircraftAlone(p)
      PROVE  (MessageInHand /\ RadarView)'
  <2>1. UNCHANGED <<arrivalPc, arrivalMsg, planesInAirspace>>
    BY <1>1 DEF AircraftAlone, radarVars, arrivalVars
  <2>2. \A q \in Planes : q # p => aircraftPc'[q] = aircraftPc[q]
    BY <1>0, <1>1 DEF AircraftAlone, AwaitArrival, OpenRadar, SendEnter, AttachChannel, Move,
                      WaitTimer, Goto
  <2>3. \/ aircraftPc[p] \in Early /\ aircraftPc'[p] \in Early
        \/ aircraftPc[p] \in Announced /\ aircraftPc'[p] \in Announced
    BY <1>0, <1>1 DEF AircraftAlone, AwaitArrival, OpenRadar, SendEnter, AttachChannel, Move,
                      WaitTimer, Goto
  <2> QED BY <2>1, <2>2, <2>3
<1>2. ASSUME NEW p \in Planes, AnswerPoll(p) \/ ObeyCommand(p) \/ AnswerStray(p)
      PROVE  (MessageInHand /\ RadarView)'
  <2>1. UNCHANGED <<arrivalPc, arrivalMsg, planesInAirspace>>
    BY <1>2 DEF AnswerPoll, ObeyCommand, AnswerStray, PositionReceived, PollGoto, radarVars,
                arrivalVars
  <2>2. aircraftPc[p] = "receiving" /\ aircraftPc' = [aircraftPc EXCEPT ![p] = "waiting"]
    BY <1>2 DEF AnswerPoll, ObeyCommand, AnswerStray, Reply, ReplyToCommand, Goto
  <2> QED BY <1>0, <2>1, <2>2
<1>3. ASSUME NEW p \in Planes, Depart(p)
      PROVE  (MessageInHand /\ RadarView)'
  <2>1. UNCHANGED <<arrivalPc, arrivalMsg, planesInAirspace>>
    BY <1>3 DEF Depart, RequestFailed, PollGoto, radarVars, arrivalVars
  <2>2. aircraftPc[p] = "detaching" /\ aircraftPc' = [aircraftPc EXCEPT ![p] = "finished"]
    BY <1>3 DEF Depart, DetachChannel, Goto
  <2> QED BY <1>0, <2>1, <2>2
<1>4. ASSUME NEW p \in Planes, AnswerEnter(p)
      PROVE  (MessageInHand /\ RadarView)'
  <2>1. /\ arrivalPc = "receive" /\ arrivalPc' = "handle"
        /\ arrivalMsg' = [type |-> "ENTER_AIRSPACE", planeID |-> p]
        /\ planesInAirspace' = planesInAirspace
    BY <1>4 DEF AnswerEnter, ReceiveAirspaceMessage, ArrivalGoto
  <2>2. aircraftPc[p] = "entering" /\ aircraftPc' = [aircraftPc EXCEPT ![p] = "attaching"]
    BY <1>4 DEF AnswerEnter, EnterReplied, Goto
  <2> QED BY <1>0, <2>1, <2>2 DEF NoMessage
<1>5. ASSUME NEW p \in Planes, AnswerExit(p)
      PROVE  (MessageInHand /\ RadarView)'
  <2>1. /\ arrivalPc = "receive" /\ arrivalPc' = "handle"
        /\ arrivalMsg' = [type |-> "EXIT_AIRSPACE", planeID |-> p]
        /\ planesInAirspace' = planesInAirspace
    BY <1>5 DEF AnswerExit, ReceiveAirspaceMessage, ArrivalGoto
  <2>2. aircraftPc[p] = "exiting" /\ aircraftPc' = [aircraftPc EXCEPT ![p] = "detaching"]
    BY <1>5 DEF AnswerExit, ExitReplied, Goto
  <2> QED BY <1>0, <2>1, <2>2 DEF NoMessage
<1>6. CASE ArrivalAlone \/ ArrivalStray
  <2>1. aircraftPc' = aircraftPc
    BY <1>6 DEF ArrivalAlone, ArrivalStray, aircraftVars, ReceiveStray
  <2>2. CASE HandleAirspaceMessage
    <3>1. /\ arrivalPc = "handle" /\ arrivalPc' = "loop" /\ arrivalMsg' = NoMessage
          /\ planesInAirspace' = IF arrivalMsg.type = "ENTER_AIRSPACE"
                                 THEN planesInAirspace \cup {arrivalMsg.planeID}
                                 ELSE planesInAirspace \ {arrivalMsg.planeID}
      BY <2>2 DEF HandleAirspaceMessage, Tracked, ArrivalGoto
    <3>2. arrivalMsg \in AirspaceMessage \cup {NoMessage}
      BY DEF TypeOK, RadarTypeOK, ArrivalTypeOK
    <3>3. CASE arrivalMsg \in AirspaceMessage
      <4>1. PICK type \in {"ENTER_AIRSPACE", "EXIT_AIRSPACE"}, q \in Planes :
              arrivalMsg = [type |-> type, planeID |-> q]
        BY <3>3 DEF AirspaceMessage
      <4>2. CASE type = "ENTER_AIRSPACE"
        BY <2>1, <3>1, <4>1, <4>2 DEF NoMessage
      <4>3. CASE type = "EXIT_AIRSPACE"
        BY <2>1, <3>1, <4>1, <4>3 DEF NoMessage
      <4> QED BY <4>1, <4>2, <4>3
    <3>4. CASE arrivalMsg = NoMessage
      BY <2>1, <3>1, <3>4, PlanesAssumption DEF NoMessage
    <3> QED BY <3>2, <3>3, <3>4
  <2>3. CASE AttachRadar \/ ArrivalLoop \/ ReceiveFails \/ ReceiveStray
    <3>1. UNCHANGED <<arrivalMsg, planesInAirspace>> /\ arrivalPc # "handle"
      BY <2>3 DEF AttachRadar, ArrivalLoop, ReceiveFails, ReceiveStray, ArrivalGoto
    <3> QED BY <2>1, <3>1
  <2> QED BY <1>6, <2>2, <2>3 DEF ArrivalAlone, ArrivalStray
<1>7. CASE PollAlone \/ Tick \/ \E c \in Commands : SendCommand(c)
  <2>1. UNCHANGED <<aircraftPc, arrivalPc, arrivalMsg, planesInAirspace>>
    BY <1>7 DEF PollAlone, PollLoop, CheckAirspace, CopyPlanes, PollNext, PollSkip, PollDone,
                RequestPosition, StoreReply, WriteTimestamp, WriteIsEmpty, WriteCount,
                WritePlaneData, ClearBuffer, PollGoto, arrivalVars, aircraftVars, Tick, SendCommand, radarVars
  <2> QED BY <2>1
<1>8. CASE Main
  <2>1. UNCHANGED <<arrivalPc, arrivalMsg, planesInAirspace>>
    BY <1>8 DEF Main, JoinPlanes, JoinTimer, DetachRadarChannel, JoinThreads, ClearSharedMemory,
                ClearPlaneData, ClearCount, ClearIsEmpty, ClearTimestamp, StopThreads,
                DetachRadar, radarVars, arrivalVars
  <2>2. CASE RadarChannelLost
    BY <1>0, <2>1, <2>2 DEF RadarChannelLost
  <2>3. CASE UNCHANGED aircraftVars
    BY <2>1, <2>3 DEF aircraftVars
  <2> QED BY <1>8, <2>2, <2>3 DEF Main, JoinPlanes, JoinTimer, DetachRadarChannel, JoinThreads,
                ClearSharedMemory
<1>9. CASE UNCHANGED vars
  BY <1>9 DEF vars, aircraftVars, radarVars, arrivalVars
<1> QED
  BY <1>1, <1>2, <1>3, <1>4, <1>5, <1>6, <1>7, <1>8, <1>9 DEF Next, Terminated

(* An aircraft is in planesInAirspace from its ENTER to its EXIT, up to    *)
(* the one message that is answered and not yet handled.                   *)
THEOREM RadarViewCorrect == Spec => []RadarView
<1>1. Init => MessageInHand /\ RadarView
  BY PlanesAssumption DEF Init, AircraftInit, RadarInit, MessageInHand, RadarView, InHand,
     NoMessage, Early, Announced, Flying, Leaving
<1>2. TypeOK /\ (MessageInHand /\ RadarView) /\ [Next]_vars => (MessageInHand /\ RadarView)'
  BY ViewStep
<1> QED BY <1>1, <1>2, TypeCorrect, PTL DEF Spec

-----------------------------------------------------------------------------
(* The channels against the threads that serve and use them.               *)

(* Outside the joins, and whatever Radar does, an aircraft thread that has *)
(* ended stays ended; main leaves its joins with all of them ended.        *)
LEMMA ChannelStep ==
  ASSUME TypeOK, ChannelInv, [Next]_vars
  PROVE  ChannelInv'
<1> USE DEF ChannelInv, ChannelsAttached, JoinedHaveEnded, RadarOutlivesAircraft,
            NobodyAbandoned, WillAnswer, Serving, Early, Flying, Ended, RadarUp
<1>0. aircraftPc \in [Planes -> AircraftPcs] /\ planeChannels \subseteq Planes
  BY DEF TypeOK, AircraftTypeOK
<1>1. ASSUME NEW p \in Planes, AircraftAlone(p)
      PROVE  ChannelInv'
  <2>1. UNCHANGED <<Radar_channel, mainPc, pollPc, polled, commsPc, command>>
    BY <1>1 DEF AircraftAlone, radarVars, pollVars, roundVars, mainVars, commsVars
  <2>2. CASE AttachChannel(p)
    <3>1. aircraftPc[p] = "attaching"
      BY <2>2 DEF AttachChannel, Goto
    <3>2. CASE /\ aircraftPc' = [aircraftPc EXCEPT ![p] = "moving"]
               /\ planeChannels' = planeChannels \cup {p}
      BY <1>0, <2>1, <3>1, <3>2
    <3>3. CASE /\ aircraftPc' = [aircraftPc EXCEPT ![p] = "failed"]
               /\ planeChannels' = planeChannels
      BY <1>0, <2>1, <3>1, <3>3
    <3> QED BY <2>2, <3>2, <3>3 DEF AttachChannel, Goto
  <2>3. CASE Move(p, RadarUp)
    <3>1. aircraftPc[p] = "moving" /\ RadarUp
      BY <2>3 DEF Move, Goto
    <3>2. /\ aircraftPc' = [aircraftPc EXCEPT ![p] = IF InAirspace(Moved(p)) THEN "receiving"
                                                     ELSE "exiting"]
          /\ planeChannels' = planeChannels
      BY <2>3, <3>1 DEF Move, Goto
    <3> QED BY <1>0, <2>1, <3>1, <3>2
  <2>4. CASE AwaitArrival(p)
    BY <2>1, <2>4 DEF AwaitArrival
  <2>5. CASE OpenRadar(p, RadarUp) \/ SendEnter(p, RadarUp)
    <3>1. /\ aircraftPc[p] \in {"arriving", "opened"}
          /\ \E to \in {"unannounced"} \cup (IF RadarUp THEN {"opened", "entering"} ELSE {}) :
               aircraftPc' = [aircraftPc EXCEPT ![p] = to]
          /\ planeChannels' = planeChannels
      BY <2>5 DEF OpenRadar, SendEnter, Goto
    <3> QED BY <1>0, <2>1, <3>1
  <2>6. CASE WaitTimer(p)
    <3>1. /\ aircraftPc[p] = "waiting" /\ aircraftPc' = [aircraftPc EXCEPT ![p] = "moving"]
          /\ planeChannels' = planeChannels
      BY <2>6 DEF WaitTimer, Goto
    <3> QED BY <1>0, <2>1, <3>1
  <2> QED BY <1>1, <2>2, <2>3, <2>4, <2>5, <2>6 DEF AircraftAlone
<1>2. ASSUME NEW p \in Planes, AnswerPoll(p) \/ ObeyCommand(p) \/ AnswerStray(p)
      PROVE  ChannelInv'
  <2>1. /\ aircraftPc[p] = "receiving" /\ aircraftPc' = [aircraftPc EXCEPT ![p] = "waiting"]
        /\ planeChannels' = planeChannels
    BY <1>2 DEF AnswerPoll, ObeyCommand, AnswerStray, Reply, ReplyToCommand, Goto
  <2>2. /\ UNCHANGED <<Radar_channel, mainPc>>
        /\ pollPc' = "blocked" => UNCHANGED <<pollPc, polled>>
        /\ commsPc' = "blocked" => UNCHANGED <<commsPc, command>>
    BY <1>2 DEF AnswerPoll, ObeyCommand, AnswerStray, PositionReceived, PollGoto, radarVars,
                pollVars, roundVars, mainVars, commsVars
  <2> QED BY <1>0, <2>1, <2>2
<1>3. ASSUME NEW p \in Planes, Depart(p)
      PROVE  ChannelInv'
  <2>1. /\ aircraftPc[p] = "detaching" /\ aircraftPc' = [aircraftPc EXCEPT ![p] = "finished"]
        /\ planeChannels' = planeChannels \ {p}
    BY <1>3 DEF Depart, DetachChannel, Goto
  <2>2. /\ UNCHANGED <<Radar_channel, mainPc>>
        /\ pollPc' = "blocked" => UNCHANGED <<pollPc, polled>> /\ polled # p
        /\ commsPc' = "blocked" => UNCHANGED <<commsPc, command>> /\ command.planeID # p
    BY <1>3 DEF Depart, RequestFailed, PollGoto, radarVars, pollVars, roundVars, mainVars
  <2> QED BY <1>0, <2>1, <2>2
<1>4. ASSUME NEW p \in Planes, AnswerEnter(p) \/ AnswerExit(p)
      PROVE  ChannelInv'
  <2>1. /\ RadarUp
        /\ UNCHANGED <<Radar_channel, mainPc, pollPc, polled, commsPc, command, planeChannels>>
    BY <1>4 DEF AnswerEnter, AnswerExit, EnterReplied, ExitReplied, ReceiveAirspaceMessage,
                ArrivalGoto, pollVars, roundVars, mainVars, commsVars
  <2>2. \/ /\ aircraftPc[p] = "entering"
           /\ aircraftPc' = [aircraftPc EXCEPT ![p] = "attaching"]
        \/ /\ aircraftPc[p] = "exiting"
           /\ aircraftPc' = [aircraftPc EXCEPT ![p] = "detaching"]
    BY <1>4 DEF AnswerEnter, AnswerExit, EnterReplied, ExitReplied, Goto
  <2> QED BY <1>0, <2>1, <2>2
<1>5. CASE ArrivalAlone \/ ArrivalStray
  <2>1. UNCHANGED <<aircraftPc, planeChannels, mainPc, pollPc, polled, commsPc, command>>
    BY <1>5 DEF ArrivalAlone, ArrivalStray, AttachRadar, ArrivalLoop, HandleAirspaceMessage,
                ReceiveFails, ReceiveStray, ArrivalGoto, pollVars, roundVars, aircraftVars,
                mainVars, commsVars
  <2>2. RadarUp => RadarUp'
    BY <1>5 DEF ArrivalAlone, ArrivalStray, AttachRadar, ArrivalLoop, HandleAirspaceMessage,
                ReceiveFails, ReceiveStray
  <2> QED BY <2>1, <2>2
<1>6. CASE PollAlone
  <2>1. UNCHANGED <<aircraftPc, planeChannels, mainPc, Radar_channel, commsPc, command>>
    BY <1>6 DEF PollAlone, PollLoop, CheckAirspace, CopyPlanes, PollNext, PollSkip, PollDone,
                RequestPosition, StoreReply, WriteTimestamp, WriteIsEmpty, WriteCount,
                WritePlaneData, ClearBuffer, PollGoto, aircraftVars, mainVars, commsVars
  <2>2. pollPc' = "blocked" => polled' \in planeChannels
    BY <1>6 DEF PollAlone, PollLoop, CheckAirspace, CopyPlanes, PollNext, PollSkip, PollDone,
                RequestPosition, StoreReply, WriteTimestamp, WriteIsEmpty, WriteCount,
                WritePlaneData, ClearBuffer, PollGoto
  <2> QED BY <1>0, <2>1, <2>2
<1>7. CASE Tick
  BY <1>7 DEF Tick, aircraftVars, radarVars, pollVars, roundVars, commsVars
<1>8. CASE Main
  <2>1. UNCHANGED <<planeChannels, pollPc, polled, commsPc, command>>
    BY <1>8 DEF Main, JoinPlanes, JoinTimer, DetachRadarChannel, JoinThreads, ClearSharedMemory,
                ClearPlaneData, ClearCount, ClearIsEmpty, ClearTimestamp, StopThreads,
                DetachRadar, RadarChannelLost, radarVars, pollVars, roundVars, commsVars,
                aircraftVars
  <2>2. \A p \in Planes : aircraftPc[p] \in Ended
    BY <1>8 DEF Main, JoinPlanes, JoinTimer, DetachRadarChannel, JoinThreads, ClearSharedMemory,
                MainGoto
  <2>3. \A p \in Planes : aircraftPc'[p] = aircraftPc[p]
    BY <1>8, <2>2 DEF Main, JoinPlanes, JoinTimer, DetachRadarChannel, JoinThreads,
                ClearSharedMemory, RadarChannelLost, aircraftVars
  <2> QED BY <1>0, <2>1, <2>2, <2>3
<1>9. ASSUME NEW c \in Commands, SendCommand(c)
      PROVE  ChannelInv'
  BY <1>0, <1>9 DEF SendCommand, aircraftVars, radarVars, pollVars, roundVars, mainVars
<1>10. CASE UNCHANGED vars
  BY <1>10 DEF vars, aircraftVars, radarVars, pollVars, roundVars, mainVars, commsVars
<1> QED
  BY <1>1, <1>2, <1>3, <1>4, <1>5, <1>6, <1>7, <1>8, <1>9, <1>10 DEF Next, Terminated

(* The inductive invariant of the channels: names are attached while their *)
(* threads serve them, and main leaves its joins last.                     *)
THEOREM ChannelsCorrect == Spec => []ChannelInv
<1>1. Init => ChannelInv
  BY DEF Init, AircraftInit, RadarInit, ChannelInv, ChannelsAttached, JoinedHaveEnded,
     RadarOutlivesAircraft, NobodyAbandoned, Serving, Early, Flying
<1>2. TypeOK /\ ChannelInv /\ [Next]_vars => ChannelInv'
  BY ChannelStep
<1> QED BY <1>1, <1>2, TypeCorrect, PTL DEF Spec

(* Neither Radar nor CommunicationsSystem is ever blocked on an aircraft   *)
(* thread that has ended.                                                  *)
THEOREM NobodyAbandonedCorrect == Spec => []NobodyAbandoned
<1>1. ChannelInv => NobodyAbandoned
  BY DEF ChannelInv
<1> QED BY <1>1, ChannelsCorrect, PTL

(* The Radar channel is there as long as an aircraft that has opened it    *)
(* has its ENTER or its EXIT still to send, or waits for the answer.       *)
THEOREM RadarOutlivesAircraftCorrect == Spec => []RadarOutlivesAircraft
<1>1. ChannelInv => RadarOutlivesAircraft
  BY DEF ChannelInv
<1> QED BY <1>1, ChannelsCorrect, PTL

=============================================================================
