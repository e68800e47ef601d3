-------------------------------- MODULE Radar -------------------------------
(***************************************************************************)
(* The two threads of class Radar (Radar.cpp) and its constructor-to-      *)
(* destructor state: the arrival thread, which keeps planesInAirspace, and *)
(* the polling thread, which asks every tracked aircraft for its position  *)
(* once a second and publishes the answers in shared memory. The module    *)
(* gives what each step does to Radar's own state; module Airspace joins   *)
(* it with the step of the aircraft at the other end of a message.         *)
(*                                                                         *)
(* airspaceMutex protects single accesses to planesInAirspace, each part   *)
(* of one step here; it is never held across a message. bufferSwitchMutex  *)
(* protects the two buffers, which only the polling thread uses.           *)
(***************************************************************************)
EXTENDS SharedMemory

VARIABLES
  Radar_channel,      \* "none", "attached" or "detached"
  stopThreads,
  arrivalPc,          \* attach, loop, receive, handle, exited
  arrivalMsg,         \* the message the arrival thread has just answered
  planesInAirspace,
  pollPc,             \* see PollPcs
  planesToPoll,       \* the copy of planesInAirspace made for this round
  unpolled,           \* those of planesToPoll the loop has not come to
  polled,             \* the plane whose turn it is
  received_info,      \* its answer
  planesInAirspaceData, activeBufferIndex, inactiveBufferIndex,
  toCopy,             \* the records of a memcpy still to be copied
  draining,           \* writing because the airspace has become empty
  wasAirspaceEmpty

arrivalVars == <<arrivalPc, arrivalMsg, planesInAirspace>>
roundVars == <<planesToPoll, unpolled, polled, received_info>>
bufferVars == <<planesInAirspaceData, activeBufferIndex, inactiveBufferIndex>>
emptyVars == <<draining, wasAirspaceEmpty>>
pollVars == <<pollPc, roundVars, bufferVars, toCopy, emptyVars>>
radarVars == <<Radar_channel, stopThreads, arrivalVars, pollVars, shmVars>>

RadarUp == Radar_channel = "attached"
NoMessage == [type |-> "none", planeID |-> NoPlane]

PollPcs == {"loop", "check", "copy", "next", "request", "blocked", "replied",
            "timestamp", "is_empty", "count", "plane_data", "exited"}

(* writeToSharedMemory takes its records from the active buffer, or, if    *)
(* that is empty, from the other one.                                      *)
SourceIndex == IF planesInAirspaceData[activeBufferIndex] # <<>>
               THEN activeBufferIndex ELSE 1 - activeBufferIndex
Source == planesInAirspaceData[SourceIndex]

ArrivalTypeOK ==
  /\ Radar_channel \in {"none", "attached", "detached"}
  /\ stopThreads \in BOOLEAN
  /\ arrivalPc \in {"attach", "loop", "receive", "handle", "exited"}
  /\ arrivalMsg \in AirspaceMessage \cup {NoMessage}
  /\ planesInAirspace \subseteq Planes

PollTypeOK ==
  /\ pollPc \in PollPcs
  /\ planesToPoll \subseteq Planes
  /\ unpolled \subseteq planesToPoll
  /\ polled \in Planes \cup {NoPlane}
  /\ received_info \in PlaneInfo
  /\ planesInAirspaceData \in [{0, 1} -> Seq(PlaneInfo)]
  /\ activeBufferIndex \in {0, 1} /\ inactiveBufferIndex \in {0, 1}
  /\ toCopy \subseteq IF pollPc = "plane_data" THEN DOMAIN Source ELSE {}
  /\ draining \in BOOLEAN /\ wasAirspaceEmpty \in BOOLEAN

RadarTypeOK == ArrivalTypeOK /\ PollTypeOK /\ ShmTypeOK

(* The constructor has returned: the shared memory is cleared and both     *)
(* threads are started, of which neither has run yet. The constructor ends *)
(* with Radar_channel = NULL after it has started them; that the arrival   *)
(* thread may be faster than this assignment is in module RadarLifecycle.  *)
RadarInit ==
  /\ Radar_channel = "none"
  /\ stopThreads = FALSE
  /\ arrivalPc = "attach"
  /\ arrivalMsg = NoMessage
  /\ planesInAirspace = {}
  /\ pollPc = "loop"
  /\ planesToPoll = {} /\ unpolled = {}
  /\ polled = NoPlane
  /\ received_info = ZeroInfo
  /\ planesInAirspaceData = [b \in {0, 1} |-> <<>>]
  /\ activeBufferIndex = 0 /\ inactiveBufferIndex = 1
  /\ toCopy = {}
  /\ draining = FALSE
  /\ wasAirspaceEmpty = TRUE
  /\ ShmInit

-----------------------------------------------------------------------------
(* The arrival thread: ListenAirspaceArrivalAndDeparture.                  *)

ArrivalGoto(from, to) ==
  /\ arrivalPc = from /\ arrivalPc' = to
  /\ UNCHANGED <<stopThreads, pollVars, shmVars>>

(* If name_attach returns NULL the thread ends the whole process with exit *)
(* (Radar.cpp:48-51): the behaviour stops there, for all its threads.      *)
AttachRadar ==
  /\ ArrivalGoto("attach", "loop")
  /\ Radar_channel' = "attached"
  /\ UNCHANGED <<arrivalMsg, planesInAirspace>>

ArrivalLoop ==
  /\ ArrivalGoto("loop", IF stopThreads THEN "exited" ELSE "receive")
  /\ UNCHANGED <<Radar_channel, arrivalMsg, planesInAirspace>>

(* MsgReceive and, before anything is done about the message, MsgReply.    *)
ReceiveAirspaceMessage(msg) ==
  /\ RadarUp
  /\ ArrivalGoto("receive", "handle")
  /\ arrivalMsg' = msg
  /\ UNCHANGED <<Radar_channel, planesInAirspace>>

(* A pulse or a message of unknown type: dropped.                          *)
ReceiveStray ==
  /\ RadarUp
  /\ ArrivalGoto("receive", "loop")
  /\ UNCHANGED <<Radar_channel, arrivalMsg, planesInAirspace>>

(* MsgReceive on the detached channel returns -1.                          *)
ReceiveFails ==
  /\ Radar_channel = "detached"
  /\ ArrivalGoto("receive", "loop")
  /\ UNCHANGED <<Radar_channel, arrivalMsg, planesInAirspace>>

Tracked_ClearsAll(msg) ==
  IF msg.type = "ENTER_AIRSPACE" THEN planesInAirspace \cup {msg.planeID} ELSE {}
Tracked_KeepsDeparted(msg) ==
  IF msg.type = "ENTER_AIRSPACE" THEN planesInAirspace \cup {msg.planeID} ELSE planesInAirspace

(* addPlaneToAirspace or removePlaneFromAirspace, under airspaceMutex.     *)
Tracked(msg) ==
  IF msg.type = "ENTER_AIRSPACE" THEN planesInAirspace \cup {msg.planeID}
                                 ELSE planesInAirspace \ {msg.planeID}

HandleAirspaceMessage ==
  /\ ArrivalGoto("handle", "loop")
  /\ planesInAirspace' = Tracked(arrivalMsg)
  /\ arrivalMsg' = NoMessage
  /\ UNCHANGED Radar_channel

-----------------------------------------------------------------------------
(* The polling thread: ListenUpdatePosition and pollAirspace. A local      *)
(* variable that goes out of scope is reset.                               *)

PollGoto(from, to) ==
  /\ pollPc = from /\ pollPc' = to
  /\ UNCHANGED <<Radar_channel, stopThreads, arrivalVars>>

(* The test of stopThreads; the wait for the timer follows it.             *)
PollLoop ==
  /\ PollGoto("loop", IF stopThreads THEN "exited" ELSE "check")
  /\ UNCHANGED <<roundVars, bufferVars, toCopy, emptyVars, shmVars>>

(* planesInAirspace.empty() is read without the mutex.                     *)
CheckAirspace ==
  /\ PollGoto("check", IF planesInAirspace # {} THEN "copy"
                       ELSE IF ~wasAirspaceEmpty THEN "timestamp" ELSE "loop")
  /\ draining' = (planesInAirspace = {} /\ ~wasAirspaceEmpty)
  /\ UNCHANGED <<roundVars, toCopy, bufferVars, wasAirspaceEmpty, shmVars>>

CopyPlanes ==
  /\ PollGoto("copy", "next")
  /\ planesToPoll' = planesInAirspace
  /\ unpolled' = planesInAirspace
  /\ inactiveBufferIndex' = 1 - activeBufferIndex
  /\ planesInAirspaceData' = [planesInAirspaceData EXCEPT ![1 - activeBufferIndex] = <<>>]
  /\ UNCHANGED <<polled, received_info, activeBufferIndex, toCopy, emptyVars, shmVars>>

(* The next plane of the loop, in any order (an unordered_set), if it is   *)
(* still in planesInAirspace ...                                           *)
PollNext(p) ==
  /\ PollGoto("next", "request")
  /\ p \in unpolled /\ p \in planesInAirspace
  /\ unpolled' = unpolled \ {p}
  /\ polled' = p
  /\ UNCHANGED <<planesToPoll, received_info, bufferVars, toCopy, emptyVars, shmVars>>

(* ... or not, in which case only the buffers are switched.                *)
PollSkip(p) ==
  /\ PollGoto("next", "next")
  /\ p \in unpolled /\ p \notin planesInAirspace
  /\ unpolled' = unpolled \ {p}
  /\ activeBufferIndex' = inactiveBufferIndex
  /\ UNCHANGED <<planesToPoll, polled, received_info, planesInAirspaceData, inactiveBufferIndex, toCopy, emptyVars, shmVars>>

PollDone ==
  /\ PollGoto("next", "timestamp")
  /\ unpolled = {}
  /\ UNCHANGED <<roundVars, bufferVars, toCopy, emptyVars, shmVars>>

(* getAircraftData: name_open and MsgSend. A plane whose channel name is   *)
(* not attached is an exception, and the loop goes on to the next one.     *)
RequestPosition(channels) ==
  /\ PollGoto("request", IF polled \in channels THEN "blocked" ELSE "next")
  /\ polled' = IF polled \in channels THEN polled ELSE NoPlane
  /\ UNCHANGED <<planesToPoll, unpolled, received_info, bufferVars, toCopy, emptyVars, shmVars>>

PositionReceived(info) ==
  /\ PollGoto("blocked", "replied")
  /\ received_info' = info
  /\ UNCHANGED <<planesToPoll, unpolled, polled, bufferVars, toCopy, emptyVars, shmVars>>

(* The aircraft's channel is destroyed while Radar is blocked on it: -1,   *)
(* an exception, and the next plane.                                       *)
RequestFailed ==
  /\ PollGoto("blocked", "next")
  /\ polled' = NoPlane
  /\ UNCHANGED <<planesToPoll, unpolled, received_info, bufferVars, toCopy, emptyVars, shmVars>>

StoreReply_Twice ==
  /\ PollGoto("replied", "next")
  /\ planesInAirspaceData' =
       [planesInAirspaceData EXCEPT ![inactiveBufferIndex] = @ \o <<received_info, received_info>>]
  /\ activeBufferIndex' = inactiveBufferIndex
  /\ polled' = NoPlane /\ received_info' = ZeroInfo
  /\ UNCHANGED <<planesToPoll, unpolled, inactiveBufferIndex, toCopy, emptyVars, shmVars>>

(* emplace_back, and the switch of the buffers that follows every plane.   *)
StoreReply ==
  /\ PollGoto("replied", "next")
  /\ planesInAirspaceData' =
       [planesInAirspaceData EXCEPT ![inactiveBufferIndex] = Append(@, received_info)]
  /\ activeBufferIndex' = inactiveBufferIndex
  /\ polled' = NoPlane /\ received_info' = ZeroInfo
  /\ UNCHANGED <<planesToPoll, unpolled, inactiveBufferIndex, toCopy, emptyVars, shmVars>>

-----------------------------------------------------------------------------
(* writeToSharedMemory.                                                    *)

WriteTimestamp(tick_counter) ==
  /\ PollGoto("timestamp", "is_empty")
  /\ timestamp' = tick_counter
  /\ UNCHANGED <<roundVars, bufferVars, toCopy, emptyVars, plane_data, count, is_empty>>

WriteIsEmpty ==
  /\ PollGoto("is_empty", "count")
  /\ is_empty' = (Source = <<>>)
  /\ UNCHANGED <<roundVars, bufferVars, toCopy, emptyVars, plane_data, count, timestamp>>

CountToWrite_OnlyGrows == IF count <= Len(Source) THEN Len(Source) ELSE count
CountToWrite_NotOnEmpty == IF Source = <<>> THEN count ELSE Len(Source)
CountToWrite == Len(Source)

WriteCount ==
  /\ PollGoto("count", "plane_data")
  /\ count' = CountToWrite
  /\ toCopy' = DOMAIN Source
  /\ UNCHANGED <<roundVars, bufferVars, emptyVars, plane_data, is_empty, timestamp>>

WritePlaneData(i) ==
  /\ PollGoto("plane_data", "plane_data")
  /\ i \in toCopy
  /\ toCopy' = toCopy \ {i}
  /\ plane_data' = [plane_data EXCEPT ![i] = Source[i]]
  /\ UNCHANGED <<roundVars, bufferVars, emptyVars, count, is_empty, timestamp>>

ClearBuffer_Omitted ==
  /\ PollGoto("plane_data", "loop")
  /\ toCopy = {}
  /\ wasAirspaceEmpty' = draining
  /\ draining' = FALSE
  /\ UNCHANGED <<roundVars, bufferVars, toCopy, shmVars>>

ClearBuffer_ForgetsTransition ==
  /\ PollGoto("plane_data", "loop")
  /\ toCopy = {}
  /\ planesInAirspaceData' = [planesInAirspaceData EXCEPT ![SourceIndex] = <<>>]
  /\ draining' = FALSE
  /\ UNCHANGED <<roundVars, activeBufferIndex, inactiveBufferIndex, toCopy, wasAirspaceEmpty, shmVars>>

(* The buffer copied is cleared and, back in the caller, it is recorded    *)
(* whether this was the write that follows the last departure.             *)
ClearBuffer ==
  /\ PollGoto("plane_data", "loop")
  /\ toCopy = {}
  /\ planesInAirspaceData' = [planesInAirspaceData EXCEPT ![SourceIndex] = <<>>]
  /\ wasAirspaceEmpty' = draining
  /\ draining' = FALSE
  /\ UNCHANGED <<roundVars, activeBufferIndex, inactiveBufferIndex, toCopy, shmVars>>

-----------------------------------------------------------------------------
(* The destructor, run by the main thread: shutdown() and                  *)
(* clearSharedMemory().                                                    *)

StopThreads ==
  /\ stopThreads' = TRUE
  /\ UNCHANGED <<Radar_channel, arrivalVars, pollVars, shmVars>>

DetachRadar_KeepsName ==
  UNCHANGED <<Radar_channel, stopThreads, arrivalVars, pollVars, shmVars>>

DetachRadar ==
  /\ Radar_channel' = IF RadarUp THEN "detached" ELSE Radar_channel
  /\ UNCHANGED <<stopThreads, arrivalVars, pollVars, shmVars>>

ThreadsExited == arrivalPc = "exited" /\ pollPc = "exited"

(* The memset of plane_data, record by record as the memcpy.               *)
ClearPlaneData ==
  /\ \E i \in Slots : /\ plane_data[i] # ZeroInfo
                      /\ plane_data' = [plane_data EXCEPT ![i] = ZeroInfo]
  /\ UNCHANGED <<Radar_channel, stopThreads, arrivalVars, pollVars, count, is_empty, timestamp>>

ClearCount ==
  /\ plane_data = ZeroPlaneData
  /\ count' = 0
  /\ UNCHANGED <<Radar_channel, stopThreads, arrivalVars, pollVars, plane_data, is_empty, timestamp>>

ClearIsEmpty ==
  /\ is_empty' = TRUE
  /\ UNCHANGED <<Radar_channel, stopThreads, arrivalVars, pollVars, plane_data, count, timestamp>>

ClearTimestamp ==
  /\ timestamp' = 0
  /\ UNCHANGED <<Radar_channel, stopThreads, arrivalVars, pollVars, plane_data, count, is_empty>>
=============================================================================
