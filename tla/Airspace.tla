------------------------------ MODULE Airspace ------------------------------
(***************************************************************************)
(* The process Lab4_ATC_ARCH64: the aircraft threads, the two Radar        *)
(* threads, the tick counter thread and the main thread that starts and    *)
(* joins them (main.cpp, AirTrafficControl.cpp), together with the thread  *)
(* of CommunicationsSystem, in another process, that sends commands.       *)
(*                                                                         *)
(* QNX message passing is synchronous: MsgSend blocks its thread until the *)
(* receiver calls MsgReply or its channel is destroyed. So a pending       *)
(* message is a thread that is blocked on it, and MsgReceive with its      *)
(* MsgReply is one step of two threads. MsgReceive may take any pending    *)
(* message: the order (priority, then arrival) is left open. Besides the   *)
(* program's own messages a channel carries those of the QNX library, for  *)
(* name_open and name_close; they are the stray messages below.            *)
(*                                                                         *)
(* A wait for a timer takes any time: nothing relates the pace of one      *)
(* thread to that of another.                                              *)
(***************************************************************************)
EXTENDS Aircraft, Radar

CONSTANTS
  HeaderBits,    \* the values bit 0 of the uninitialised header byte takes
  Commands,      \* the commands that the operator may give
  MaxCommands,   \* bound: how many commands are sent
  MaxTick        \* bound: the tick counter stops there

ASSUME AirspaceAssumption ==
  /\ HeaderBits \subseteq BOOLEAN
  /\ Commands \subseteq AircraftCommand
  /\ MaxCommands \in Nat
  /\ MaxTick \in Nat

VARIABLES
  mainPc,       \* joining, joinTimer, detaching, joinThreads, clear..., done
  running,      \* the flag of the tick counter thread
  timerPc,      \* sleeping, exited
  tick_counter,
  commsPc,      \* idle, or blocked in MsgSend to an aircraft
  command,      \* the command it is blocked on
  sent          \* how many commands it has sent

mainVars == <<mainPc, running, timerPc, tick_counter>>
commsVars == <<commsPc, command, sent>>
vars == <<aircraftVars, radarVars, mainVars, commsVars>>

NoCommand == [type |-> "none", planeID |-> NoPlane]

MainPcs == {"joining", "joinTimer", "detaching", "joinThreads", "clearPlaneData",
            "clearIsEmpty", "clearTimestamp", "done"}

MainTypeOK ==
  /\ mainPc \in MainPcs
  /\ running \in BOOLEAN
  /\ timerPc \in {"sleeping", "exited"}
  /\ tick_counter \in 0 .. MaxTick

CommsTypeOK ==
  /\ commsPc \in {"idle", "blocked"}
  /\ command \in Commands \cup {NoCommand}
  /\ sent \in 0 .. MaxCommands

TypeOK == AircraftTypeOK /\ RadarTypeOK /\ MainTypeOK /\ CommsTypeOK

(* Radar has been constructed and startPlanes has created the threads; a   *)
(* thread that is created late is one that is slow to take its first step. *)
Init ==
  /\ AircraftInit
  /\ RadarInit
  /\ mainPc = "joining"
  /\ running = TRUE
  /\ timerPc = "sleeping"
  /\ tick_counter = 0
  /\ commsPc = "idle"
  /\ command = NoCommand
  /\ sent = 0

-----------------------------------------------------------------------------
(* Steps of an aircraft thread on its own.                                 *)
AircraftAlone(p) ==
  /\ \/ AwaitArrival(p)
     \/ OpenRadar(p, RadarUp)
     \/ SendEnter(p, RadarUp)
     \/ AttachChannel(p)
     \/ Move(p, RadarUp)
     \/ WaitTimer(p)
  /\ UNCHANGED <<radarVars, mainVars, commsVars>>

(* An aircraft takes one message per round of its loop: Radar's request,   *)
AnswerPoll(p) ==
  /\ polled = p
  /\ Reply(p)
  /\ \E bit \in HeaderBits : PositionReceived(PositionReply(p, bit))
  /\ UNCHANGED <<mainVars, commsVars>>

(* a command of the operator,                                              *)
ObeyCommand(p) ==
  /\ commsPc = "blocked" /\ command.planeID = p
  /\ ReplyToCommand(p, command)
  /\ commsPc' = "idle" /\ command' = NoCommand
  /\ UNCHANGED <<sent, radarVars, mainVars>>

(* or a message that asks for nothing.                                     *)
AnswerStray(p) ==
  /\ Reply(p)
  /\ UNCHANGED <<radarVars, mainVars, commsVars>>

(* name_detach ends the wait of whoever is blocked on the channel.         *)
Depart(p) ==
  /\ DetachChannel(p)
  /\ IF pollPc = "blocked" /\ polled = p THEN RequestFailed ELSE UNCHANGED radarVars
  /\ IF commsPc = "blocked" /\ command.planeID = p
     THEN commsPc' = "idle" /\ command' = NoCommand ELSE UNCHANGED <<commsPc, command>>
  /\ UNCHANGED <<sent, mainVars>>

(* The arrival thread answers an ENTER_AIRSPACE or an EXIT_AIRSPACE, and   *)
(* the aircraft goes on at once, before the message is handled.            *)
AnswerEnter(p) ==
  /\ EnterReplied(p)
  /\ ReceiveAirspaceMessage([type |-> "ENTER_AIRSPACE", planeID |-> p])
  /\ UNCHANGED <<mainVars, commsVars>>

AnswerExit(p) ==
  /\ ExitReplied(p)
  /\ ReceiveAirspaceMessage([type |-> "EXIT_AIRSPACE", planeID |-> p])
  /\ UNCHANGED <<mainVars, commsVars>>

ArrivalAlone ==
  /\ AttachRadar \/ ArrivalLoop \/ HandleAirspaceMessage \/ ReceiveFails
  /\ UNCHANGED <<aircraftVars, mainVars, commsVars>>

ArrivalStray ==
  /\ ReceiveStray
  /\ UNCHANGED <<aircraftVars, mainVars, commsVars>>

PollAlone ==
  /\ \/ PollLoop
     \/ CheckAirspace
     \/ CopyPlanes
     \/ \E p \in Planes : PollNext(p) \/ PollSkip(p)
     \/ PollDone
     \/ RequestPosition(planeChannels)
     \/ StoreReply
     \/ WriteTimestamp(tick_counter)
     \/ WriteIsEmpty
     \/ WriteCount
     \/ \E i \in toCopy : WritePlaneData(i)
     \/ ClearBuffer
  /\ UNCHANGED <<aircraftVars, mainVars, commsVars>>

-----------------------------------------------------------------------------
(* timer_tick: sleep, count, test the flag. At its bound the counter       *)
(* stays.                                                                  *)
Tick ==
  /\ timerPc = "sleeping"
  /\ tick_counter < MaxTick \/ ~running
  /\ tick_counter' = IF tick_counter < MaxTick THEN tick_counter + 1 ELSE tick_counter
  /\ timerPc' = IF running THEN "sleeping" ELSE "exited"
  /\ UNCHANGED <<mainPc, running, aircraftVars, radarVars, commsVars>>

MainGoto(from, to) == mainPc = from /\ mainPc' = to

JoinPlanes_FirstOnly ==
  /\ MainGoto("joining", "joinTimer")
  /\ \E p \in Planes : aircraftPc[p] \in Ended
  /\ running' = FALSE
  /\ UNCHANGED <<timerPc, tick_counter, aircraftVars, radarVars, commsVars>>

(* pthread_join of every aircraft; areAllPlanesFinished is then true.      *)
JoinPlanes ==
  /\ MainGoto("joining", "joinTimer")
  /\ \A p \in Planes : aircraftPc[p] \in Ended
  /\ running' = FALSE
  /\ UNCHANGED <<timerPc, tick_counter, aircraftVars, radarVars, commsVars>>

(* timer_thread.join(), and the first statement of Radar::shutdown.        *)
JoinTimer ==
  /\ MainGoto("joinTimer", "detaching")
  /\ timerPc = "exited"
  /\ StopThreads
  /\ UNCHANGED <<running, timerPc, tick_counter, aircraftVars, commsVars>>

DetachRadarChannel ==
  /\ MainGoto("detaching", "joinThreads")
  /\ DetachRadar
  /\ IF RadarUp THEN RadarChannelLost ELSE UNCHANGED aircraftVars
  /\ UNCHANGED <<running, timerPc, tick_counter, commsVars>>

JoinThreads_ArrivalOnly ==
  /\ MainGoto("joinThreads", "clearPlaneData")
  /\ arrivalPc = "exited"
  /\ UNCHANGED <<running, timerPc, tick_counter, aircraftVars, radarVars, commsVars>>

JoinThreads ==
  /\ MainGoto("joinThreads", "clearPlaneData")
  /\ ThreadsExited
  /\ UNCHANGED <<running, timerPc, tick_counter, aircraftVars, radarVars, commsVars>>

ClearSharedMemory ==
  /\ \/ MainGoto("clearPlaneData", "clearPlaneData") /\ ClearPlaneData
     \/ MainGoto("clearPlaneData", "clearIsEmpty") /\ ClearCount
     \/ MainGoto("clearIsEmpty", "clearTimestamp") /\ ClearIsEmpty
     \/ MainGoto("clearTimestamp", "done") /\ ClearTimestamp
  /\ UNCHANGED <<running, timerPc, tick_counter, aircraftVars, commsVars>>

Main == JoinPlanes \/ JoinTimer \/ DetachRadarChannel \/ JoinThreads \/ ClearSharedMemory

(* CommunicationsSystem::messageAircraft: the command is dropped when the  *)
(* channel of the aircraft does not exist.                                 *)
SendCommand(c) ==
  /\ commsPc = "idle" /\ sent < MaxCommands
  /\ c.planeID \in planeChannels
  /\ commsPc' = "blocked" /\ command' = c
  /\ sent' = sent + 1
  /\ UNCHANGED <<aircraftVars, radarVars, mainVars>>

(* The process has returned from main: nothing is left to happen.          *)
Terminated ==
  /\ mainPc = "done"
  /\ UNCHANGED vars

Next ==
  \/ \E p \in Planes : \/ AircraftAlone(p) \/ AnswerPoll(p) \/ ObeyCommand(p)
                       \/ AnswerStray(p) \/ Depart(p)
                       \/ AnswerEnter(p) \/ AnswerExit(p)
  \/ ArrivalAlone
  \/ ArrivalStray
  \/ PollAlone
  \/ Tick
  \/ Main
  \/ \E c \in Commands : SendCommand(c)
  \/ Terminated

(* Every thread is scheduled, and a timer fires. A receiver that returns   *)
(* to MsgReceive again and again does not pass over the same pending       *)
(* message for ever, because the kernel serves threads of equal priority   *)
(* in order of arrival: hence strong fairness of the answers. Nothing      *)
(* obliges the operator to give commands or the library to send messages.  *)
Fairness ==
  /\ \A p \in Planes :
       /\ WF_vars(AircraftAlone(p))
       /\ WF_vars(Depart(p))
       /\ SF_vars(AnswerPoll(p))
       /\ SF_vars(ObeyCommand(p))
       /\ SF_vars(AnswerEnter(p))
       /\ SF_vars(AnswerExit(p))
  /\ WF_vars(ArrivalAlone)
  /\ WF_vars(PollAlone)
  /\ WF_vars(Tick)
  /\ WF_vars(Main)

Spec == Init /\ [][Next]_vars
FairSpec == Spec /\ Fairness

-----------------------------------------------------------------------------
(* Safety.                                                                 *)

Announced == Flying \cup {"attaching", "failed"}
InHand(type, p) == arrivalMsg = [type |-> type, planeID |-> p]

(* Radar's set against the aircraft themselves: an aircraft is in          *)
(* planesInAirspace from the answer to its ENTER to the answer to its      *)
(* EXIT, except that the one message the arrival thread has answered and   *)
(* not yet handled is missing.                                             *)
RadarView ==
  \A p \in Planes :
    /\ aircraftPc[p] \in Early => p \notin planesInAirspace
    /\ aircraftPc[p] \in Announced =>
         (p \notin planesInAirspace <=> InHand("ENTER_AIRSPACE", p))
    /\ aircraftPc[p] \in Leaving =>
         (p \in planesInAirspace <=> InHand("EXIT_AIRSPACE", p))

(* What makes RadarView inductive: the arrival thread has at most one      *)
(* message in hand, and its sender cannot have gone past the next one.     *)
MessageInHand ==
  /\ arrivalPc # "handle" => arrivalMsg = NoMessage
  /\ \A p \in Planes :
       /\ InHand("ENTER_AIRSPACE", p) => aircraftPc[p] \in Announced
       /\ InHand("EXIT_AIRSPACE", p) => aircraftPc[p] \in Leaving

(* Whoever is blocked on an aircraft's channel is blocked on a thread that *)
(* will receive again or destroy the channel, never on one that is gone.   *)
Serving == Flying \cup {"detaching"}
WillAnswer(p) == p \in planeChannels /\ aircraftPc[p] \in Serving
NobodyAbandoned ==
  /\ pollPc = "blocked" => WillAnswer(polled)
  /\ commsPc = "blocked" => WillAnswer(command.planeID)

(* No aircraft outlives the channel it reports its departure on: one that  *)
(* has opened it will not find it gone, neither for its ENTER nor for its  *)
(* EXIT.                                                                   *)
RadarOutlivesAircraft ==
  \A p \in Planes : aircraftPc[p] \notin {"arriving"} \cup Ended => RadarUp

(* What makes the two inductive: a channel is attached exactly while its   *)
(* thread is between its name_attach and its name_detach, and main leaves  *)
(* its joins only when every aircraft thread has ended.                    *)
ChannelsAttached ==
  \A p \in Planes : p \in planeChannels <=> aircraftPc[p] \in Serving
JoinedHaveEnded == mainPc # "joining" => \A p \in Planes : aircraftPc[p] \in Ended

ChannelInv ==
  /\ ChannelsAttached
  /\ JoinedHaveEnded
  /\ RadarOutlivesAircraft
  /\ NobodyAbandoned

(* Between two rounds both buffers are empty, and while a round fills the  *)
(* inactive buffer the other one is empty: no record of an earlier round   *)
(* can be published by the fallback of writeToSharedMemory.                *)
BuffersDrained ==
  /\ pollPc \in {"loop", "check", "copy", "exited"} =>
       \A b \in {0, 1} : planesInAirspaceData[b] = <<>>
  /\ planesInAirspaceData[1 - inactiveBufferIndex] = <<>>
  /\ planesInAirspaceData[inactiveBufferIndex] # <<>> =>
       activeBufferIndex = inactiveBufferIndex

(* How many aircraft are being asked.                                      *)
Asking == IF pollPc \in {"request", "blocked", "replied"} THEN 1 ELSE 0

(* The picture lists only aircraft that were tracked when the last round   *)
(* began; a phantom record (ZeroInfo) is none of them.                     *)
PictureOfLastRound ==
  pollPc \in {"loop", "check"} => Listed \subseteq planesToPoll \cup {NoPlane}

(* What makes it inductive: an answer is that of the aircraft asked, or    *)
(* the int 0 that it mistook the request for; the buffers hold only        *)
(* answers of this round; and what is copied is what the buffer holds.     *)
AnswerOfAsked ==
  /\ polled \in planesToPoll \cup {NoPlane}
  /\ Asking = 0 => polled = NoPlane
  /\ received_info.id \in {NoPlane} \cup IF pollPc = "replied" THEN {polled} ELSE {}

BuffersOfRound ==
  \A b \in {0, 1} : \A i \in DOMAIN planesInAirspaceData[b] :
    planesInAirspaceData[b][i].id \in planesToPoll \cup {NoPlane}

CopiedSoFar ==
  pollPc = "plane_data" =>
    /\ count = Len(Source)
    /\ \A i \in DOMAIN Source \ toCopy : plane_data[i] = Source[i]

RoundInv == AnswerOfAsked /\ BuffersOfRound /\ CopiedSoFar /\ PictureOfLastRound

(* Except between the two writes themselves, the flag a reader tests and   *)
(* the count it then loops to agree.                                       *)
PictureConsistent ==
  pollPc # "count" /\ mainPc # "clearIsEmpty" =>
    (is_empty <=> count = 0)

(* Radar skips the write for an empty airspace only if the shared memory   *)
(* already says that it is empty.                                          *)
EmptinessPublished ==
  wasAirspaceEmpty /\ pollPc \in {"loop", "check", "exited"} => is_empty

(* A round never holds more records than plane_data has room for, although *)
(* neither the buffer nor the memcpy into shared memory is bounded.        *)
PictureFits ==
  /\ \A b \in {0, 1} : Len(planesInAirspaceData[b]) <= Capacity
  /\ count <= Capacity

(* What makes these inductive: a round has room for the planes it has      *)
(* still to ask; nothing is in the buffers when the airspace has become    *)
(* empty; count is written from the buffer is_empty was written from.      *)
RoundFits ==
  Len(planesInAirspaceData[inactiveBufferIndex]) + Cardinality(unpolled) + Asking <= Capacity

DrainingIsEmpty ==
  draining => /\ pollPc \in {"timestamp", "is_empty", "count", "plane_data"}
              /\ \A b \in {0, 1} : planesInAirspaceData[b] = <<>>
              /\ pollPc \in {"count", "plane_data"} => is_empty

FlagOfSource == pollPc = "count" => (is_empty <=> Source = <<>>)

ClearedSoFar ==
  /\ mainPc \in {"clearPlaneData", "clearIsEmpty", "clearTimestamp", "done"} =>
       ThreadsExited
  /\ mainPc \in {"clearIsEmpty", "clearTimestamp", "done"} =>
       plane_data = ZeroPlaneData /\ count = 0
  /\ mainPc \in {"clearTimestamp", "done"} => is_empty
  /\ mainPc = "done" => timestamp = 0

PictureInv ==
  /\ BuffersDrained /\ RoundFits /\ PictureFits
  /\ DrainingIsEmpty /\ FlagOfSource
  /\ PictureConsistent /\ EmptinessPublished
  /\ ClearedSoFar

(* Radar never publishes, or holds, a position outside the airspace.       *)
Plausible(info) == info.id # NoPlane => InAirspace(info.position)
PositionsInAirspace ==
  /\ \A i \in Slots : Plausible(plane_data[i])
  /\ \A b \in {0, 1} : \A i \in DOMAIN planesInAirspaceData[b] :
       Plausible(planesInAirspaceData[b][i])

(* What makes it inductive: an aircraft that may be asked is inside, where *)
(* its last move took it; a command that moves it takes the place of the   *)
(* answer.                                                                 *)
AircraftInside == \A p \in Planes : aircraftPc[p] = "receiving" => InAirspace(position[p])

PositionsInv == PositionsInAirspace /\ Plausible(received_info) /\ AircraftInside

(* Once main has begun to clear the shared memory nobody writes to it any  *)
(* more, and it ends up cleared.                                           *)
ClearedForGood ==
  mainPc = "done" => plane_data = ZeroPlaneData /\ count = 0 /\ is_empty /\ timestamp = 0

-----------------------------------------------------------------------------
(* What the comments of the code say, and the code does not do.            *)

(* "Aircraft replies with msg_plane_info bytes" (Radar.cpp:166): a round   *)
(* that is written lists only aircraft, never the record that an int 0     *)
(* makes.                                                                  *)
OnlyAircraftListed == pollPc \in {"loop", "check"} => Listed \subseteq Planes

-----------------------------------------------------------------------------
(* Liveness, under FairSpec.                                               *)

(* Neither Radar nor CommunicationsSystem waits for one aircraft for ever. *)
SendersReturn ==
  /\ pollPc = "blocked" ~> pollPc # "blocked"
  /\ commsPc = "blocked" ~> commsPc = "idle"

(* When the aircraft are gone the process ends: both Radar threads leave   *)
(* their blocking calls.                                                   *)
ShutdownCompletes == (\A p \in Planes : aircraftPc[p] \in Ended) ~> mainPc = "done"

(* A departed aircraft disappears from the picture and stays away.         *)
DepartedDisappears ==
  \A p \in Planes : aircraftPc[p] = "finished" ~> [](p \notin Listed)

(* An aircraft that flies on is listed, if its request's header bit is     *)
(* clear.                                                                  *)
FlyingIsListed ==
  \A p \in Planes : aircraftPc[p] = "moving" ~> (p \in Listed \/ aircraftPc[p] \in Ended)
=============================================================================
