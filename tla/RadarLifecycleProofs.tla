------------------------ MODULE RadarLifecycleProofs ------------------------
(***************************************************************************)
(* Radar's pointer to its channel, for any number of aircraft and any      *)
(* number of queued pulses: the process ends by itself for no other reason *)
(* than the two the code gives, and a channel that was used is detached.   *)
(***************************************************************************)
EXTENDS RadarLifecycle, TLAPS

(* The bound of the pulses in TypeOK is the bound of Clock; it_value keeps *)
(* to {0, 1} because the timer's period is one second.                     *)
TypeInv ==
  /\ TypeOK
  /\ it_interval = [t \in Timers |-> 1] /\ created \in [Timers -> BOOLEAN]

LifecycleInv == TypeInv /\ PointerInv /\ CrashHasCause /\ ChannelClosed

(* The constructor's first step: nothing is attached, nothing has crashed. *)
LEMMA LifecycleInit == Init => LifecycleInv
<1> SUFFICES ASSUME Init PROVE LifecycleInv
  OBVIOUS
<1>1. /\ it_value \in [Timers -> {0, 1}] /\ pulses = [t \in Timers |-> 0]
      /\ it_interval = [t \in Timers |-> 1] /\ created \in [Timers -> BOOLEAN]
  BY DEF Init, TimerInit, Specification
<1>2. pulses \in [Timers -> 0 .. MaxPulses]
  BY <1>1, LifecycleAssumption
<1>3. aircraftPc \in [Planes -> {"new", "entering", "inside", "exiting", "gone"}]
  BY DEF Init
<1>4. TypeInv
  BY <1>1, <1>2, <1>3 DEF Init, TypeInv, TypeOK
<1> QED
  BY <1>4 DEF Init, LifecycleInv, PointerInv, CrashHasCause, ChannelClosed

(* Every step of every thread keeps the types.                             *)
LEMMA TypeStep == TypeInv /\ [Next]_vars => TypeInv'
<1> SUFFICES ASSUME TypeInv, [Next]_vars PROVE TypeInv'
  OBVIOUS
<1> USE DEF TypeInv, TypeOK
<1>1. CASE Main
  BY <1>1 DEF Main, EndConstructor, JoinPlanes, Detach, JoinThreads, MainGoto,
              channelVars, timerVars
<1>2. CASE Arrival
  <2>1. UNCHANGED <<mainPc, updatePc, it_value, it_interval, pulses, created>>
    BY <1>2 DEF Arrival, ArrivalAlone, AttachRadar, TestAttached, TestStop, LoadChid,
       ReceiveFails, ReceiveStray, Receive, ArrivalGoto, timerVars
  <2>2. CASE \E a \in Planes : Receive(a)
    BY <1>2, <2>1, <2>2 DEF Receive, Replied, ArrivalGoto
  <2>3. CASE ArrivalAlone \/ ReceiveStray
    BY <1>2, <2>1, <2>3 DEF ArrivalAlone, AttachRadar, TestAttached, TestStop, LoadChid,
       ReceiveFails, ReceiveStray, ArrivalGoto, channelVars
  <2> QED BY <1>2, <2>2, <2>3 DEF Arrival
<1>3. CASE Update
  <2>1. updatePc' \in {"looping", "waiting", "polling", "ended"}
    BY <1>3 DEF Update, UpdateGoto
  <2>2. pulses' \in [Timers -> 0 .. MaxPulses] /\ UNCHANGED <<it_value, it_interval, created>>
    BY <1>3, LifecycleAssumption DEF Update, waitTimer, timerVars
  <2> QED BY <1>3, <2>1, <2>2 DEF Update, channelVars
<1>4. CASE Clock
  <2>1. pulses' \in [Timers -> 0 .. MaxPulses]
    BY <1>4, LifecycleAssumption DEF Clock, Elapse
  <2>2. it_value' \in [Timers -> {0, 1}] /\ UNCHANGED <<it_interval, created>>
    BY <1>4 DEF Clock, Elapse
  <2> QED BY <1>4, <2>1, <2>2 DEF Clock, threadVars, channelVars
<1>5. CASE \E a \in Planes : Send(a)
  BY <1>5 DEF Send, channelVars, timerVars
<1>6. CASE UNCHANGED vars
  BY <1>6 DEF vars, threadVars, channelVars, timerVars
<1> QED BY <1>1, <1>2, <1>3, <1>4, <1>5, <1>6 DEF Next

(* The main thread: the constructor's NULL, the end of the flights, the    *)
(* detach and the joins.                                                   *)
LEMMA MainStep ==
  LifecycleInv /\ Main => (PointerInv /\ CrashHasCause /\ ChannelClosed)'
<1> SUFFICES ASSUME LifecycleInv, Main PROVE (PointerInv /\ CrashHasCause /\ ChannelClosed)'
  OBVIOUS
<1> USE DEF LifecycleInv, PointerInv, CrashHasCause, ChannelClosed, TypeInv, TypeOK
<1>1. process = "running" /\ UNCHANGED <<arrivalPc, aircraftPc, process>>
  BY DEF Main
<1>2. CASE EndConstructor
  BY <1>1, <1>2 DEF EndConstructor, MainGoto
<1>3. CASE JoinPlanes
  BY <1>1, <1>3 DEF JoinPlanes, MainGoto
<1>4. CASE Detach
  BY <1>1, <1>4 DEF Detach, MainGoto
<1>5. CASE JoinThreads
  BY <1>1, <1>5 DEF JoinThreads, MainGoto, channelVars
<1> QED BY <1>2, <1>3, <1>4, <1>5 DEF Main

(* The arrival thread: it attaches the channel once, and uses it after     *)
(* having found it, whatever the main thread has done to it since.         *)
LEMMA ArrivalStep ==
  LifecycleInv /\ Arrival => (PointerInv /\ CrashHasCause /\ ChannelClosed)'
<1> SUFFICES ASSUME LifecycleInv, Arrival PROVE (PointerInv /\ CrashHasCause /\ ChannelClosed)'
  OBVIOUS
<1> USE DEF LifecycleInv, PointerInv, CrashHasCause, ChannelClosed, TypeInv, TypeOK, ArrivalGoto
<1>1. process = "running" /\ UNCHANGED mainPc
  BY DEF Arrival, ArrivalAlone, AttachRadar, TestAttached, TestStop, LoadChid, ReceiveFails,
     ReceiveStray, Receive
<1>2. CASE AttachRadar
  BY <1>1, <1>2 DEF AttachRadar
<1>3. CASE TestAttached
  BY <1>1, <1>3 DEF TestAttached, channelVars
<1>4. CASE TestStop \/ ReceiveFails \/ ReceiveStray
  BY <1>1, <1>4 DEF TestStop, ReceiveFails, ReceiveStray, channelVars
<1>5. CASE LoadChid
  BY <1>1, <1>5 DEF LoadChid, channelVars
<1>6. ASSUME NEW a \in Planes, Receive(a)
      PROVE (PointerInv /\ CrashHasCause /\ ChannelClosed)'
  <2>1. mainPc \notin {"detaching", "joining", "done"}
    BY <1>6 DEF Receive
  <2> QED BY <1>1, <1>6, <2>1 DEF Receive
<1> QED BY <1>2, <1>3, <1>4, <1>5, <1>6 DEF Arrival, ArrivalAlone

(* The other threads and the clock leave the pointer and the channel.      *)
LEMMA OtherStep ==
  ASSUME LifecycleInv, Update \/ Clock \/ (\E a \in Planes : Send(a)) \/ UNCHANGED vars
  PROVE  (PointerInv /\ CrashHasCause /\ ChannelClosed)'
<1> USE DEF LifecycleInv, PointerInv, CrashHasCause, ChannelClosed
<1>1. UNCHANGED <<mainPc, arrivalPc, process, Radar_channel, channel, stopThreads, raced, served>>
  BY DEF Update, Clock, Send, vars, threadVars, channelVars
<1>2. mainPc # "flying" => UNCHANGED aircraftPc
  BY DEF Update, Clock, Send, vars, threadVars
<1> QED BY <1>1, <1>2

(* The invariant holds in every state of the process.                      *)
THEOREM LifecycleCorrect == Spec => []LifecycleInv
<1>1. LifecycleInv /\ [Next]_vars => LifecycleInv'
  BY TypeStep, MainStep, ArrivalStep, OtherStep DEF LifecycleInv, Next
<1> QED BY LifecycleInit, <1>1, PTL DEF Spec

(* The process ends early only because the constructor's NULL has replaced *)
(* the channel, the destructor has freed it, or the name was taken.        *)
THEOREM CrashHasCauseCorrect == Spec => []CrashHasCause
BY LifecycleCorrect, PTL DEF LifecycleInv

(* A channel that has served an aircraft is detached when the process ends *)
(* in order, unless the constructor has lost the pointer to it.            *)
THEOREM ChannelClosedCorrect == Spec => []ChannelClosed
BY LifecycleCorrect, PTL DEF LifecycleInv

(* The variables of the process keep their types.                          *)
THEOREM LifecycleTypeCorrect == Spec => []TypeOK
BY LifecycleCorrect, PTL DEF LifecycleInv, TypeInv

(* An aircraft looks for the channel while the main thread waits for the   *)
(* flights to end: the channel is not freed then, and one that is not      *)
(* there has served nobody.                                                *)
LEMMA TurnedAwayStep ==
  ASSUME LifecycleInv, Next, NEW a \in Planes,
         aircraftPc[a] = "new", aircraftPc'[a] = "gone"
  PROVE  served = {}
<1> USE DEF LifecycleInv, TypeInv, TypeOK
<1>1. CASE \E b \in Planes : Send(b)
  <2>1. PICK b \in Planes : Send(b)
    BY <1>1
  <2>2. mainPc = "flying" /\ channel # "attached"
    BY <2>1 DEF Send
  <2> QED BY <2>2 DEF PointerInv
<1>2. CASE \E b \in Planes : Receive(b)
  BY <1>2 DEF Receive, Replied
<1>3. CASE Main \/ Update \/ Clock
  BY <1>3 DEF Main, Update, Clock, threadVars
<1>4. CASE ArrivalAlone \/ ReceiveStray
  BY <1>4 DEF ArrivalAlone, AttachRadar, TestAttached, TestStop, LoadChid, ReceiveFails,
     ReceiveStray
<1> QED BY <1>1, <1>2, <1>3, <1>4 DEF Next, Arrival

(* Once an aircraft has been answered, none is turned away.                *)
THEOREM OnlyEarlyTurnedAwayCorrect == Spec => OnlyEarlyTurnedAway
<1> DEFINE TurnedAway(a) == aircraftPc[a] = "new" /\ aircraftPc'[a] = "gone"
<1>1. LifecycleInv /\ [Next]_vars =>
        [\A a \in Planes : TurnedAway(a) => served = {}]_vars
  BY TurnedAwayStep
<1> QED BY <1>1, LifecycleCorrect, PTL DEF Spec, OnlyEarlyTurnedAway
=============================================================================
