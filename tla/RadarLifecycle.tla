---------------------------- MODULE RadarLifecycle ----------------------------
(***************************************************************************)
(* The start and the end of Radar's threads and of the pointer they share: *)
(* Radar_channel. The constructor starts the arrival thread, which stores  *)
(* the channel it attaches there, and then stores NULL itself; nothing     *)
(* orders the two. The destructor detaches the channel, which frees it, if *)
(* the pointer is not NULL, while the arrival thread may be about to use   *)
(* it. Whatever these threads do besides is in module Airspace, which      *)
(* starts where this pointer is set and keeps its value.                   *)
(*                                                                         *)
(* mainPc       constructing, flying, detaching, joining or done           *)
(* arrivalPc    attaching, testing (the result for NULL), looping,         *)
(*              loading (Radar_channel->chid), receiving or ended          *)
(* updatePc     looping, waiting (for the timer), polling or ended         *)
(* aircraftPc   new, entering (blocked in MsgSend), inside, exiting        *)
(*              (blocked again) or gone                                    *)
(* process      running, failed (exit(EXIT_FAILURE)) or crashed            *)
(***************************************************************************)
EXTENDS ATCTimer

CONSTANTS
  Planes,
  MaxPulses   \* bound: Radar's timer expires no more when so many are queued

ASSUME LifecycleAssumption == Timers = {"Radar"} /\ MaxPulses \in Nat \ {0}

VARIABLES
  mainPc, arrivalPc, updatePc, aircraftPc, process,
  Radar_channel,   \* NULL or set
  channel,         \* the channel itself: none, attached or freed
  stopThreads,
  raced,           \* history: the constructor's NULL replaced the channel
  served           \* history: the aircraft that were answered

threadVars == <<mainPc, arrivalPc, updatePc, aircraftPc, process>>
channelVars == <<Radar_channel, channel, stopThreads, raced, served>>
vars == <<threadVars, channelVars, timerVars>>

Init ==
  /\ TimerInit(1)
  /\ mainPc = "constructing" /\ arrivalPc = "attaching" /\ updatePc = "looping"
  /\ aircraftPc = [a \in Planes |-> "new"]
  /\ process = "running"
  /\ Radar_channel = "NULL" /\ channel = "none" /\ stopThreads = FALSE
  /\ raced = FALSE /\ served = {}

-----------------------------------------------------------------------------
(* The main thread: Radar::Radar, the aircraft, Radar::shutdown.           *)

MainGoto(from, to) == mainPc = from /\ mainPc' = to

EndConstructor ==
  /\ MainGoto("constructing", "flying")
  /\ Radar_channel' = "NULL"
  /\ raced' = (Radar_channel # "NULL")
  /\ UNCHANGED <<channel, stopThreads, served>>

JoinPlanes_WithoutStop ==
  /\ \A a \in Planes : aircraftPc[a] = "gone"
  /\ MainGoto("flying", "detaching")
  /\ UNCHANGED channelVars

JoinPlanes ==
  /\ \A a \in Planes : aircraftPc[a] = "gone"
  /\ MainGoto("flying", "detaching")
  /\ stopThreads' = TRUE
  /\ UNCHANGED <<Radar_channel, channel, raced, served>>

Detach_Never ==
  /\ MainGoto("detaching", "joining")
  /\ UNCHANGED channelVars

Detach ==
  /\ MainGoto("detaching", "joining")
  /\ channel' = IF Radar_channel # "NULL" THEN "freed" ELSE channel
  /\ UNCHANGED <<Radar_channel, stopThreads, raced, served>>

JoinThreads ==
  /\ arrivalPc = "ended" /\ updatePc = "ended"
  /\ MainGoto("joining", "done")
  /\ UNCHANGED channelVars

Main ==
  /\ process = "running"
  /\ EndConstructor \/ JoinPlanes \/ Detach \/ JoinThreads
  /\ UNCHANGED <<arrivalPc, updatePc, aircraftPc, process, timerVars>>

-----------------------------------------------------------------------------
(* The arrival thread.                                                     *)

ArrivalGoto(from, to) ==
  /\ process = "running"
  /\ arrivalPc = from /\ arrivalPc' = to
  /\ UNCHANGED <<mainPc, updatePc, timerVars>>

(* name_attach fails when the name is taken.                               *)
AttachRadar ==
  /\ ArrivalGoto("attaching", "testing")
  /\ \/ channel' = "attached" /\ Radar_channel' = "set"
     \/ channel' = channel /\ Radar_channel' = "NULL"
  /\ UNCHANGED <<aircraftPc, process, stopThreads, raced, served>>

TestAttached ==
  /\ ArrivalGoto("testing", "looping")
  /\ process' = IF Radar_channel = "NULL" THEN "failed" ELSE process
  /\ UNCHANGED <<aircraftPc, channelVars>>

TestStop ==
  /\ ArrivalGoto("looping", IF stopThreads THEN "ended" ELSE "loading")
  /\ UNCHANGED <<aircraftPc, process, channelVars>>

(* The channel may have been freed: what is loaded then is undefined. It   *)
(* is not the id of a channel, and MsgReceive fails, or the load itself    *)
(* ends the process, as that through a NULL pointer does.                  *)
LoadChid ==
  /\ \/ Radar_channel = "set" /\ channel = "attached"
        /\ ArrivalGoto("loading", "receiving") /\ UNCHANGED process
     \/ Radar_channel = "set" /\ channel = "freed"
        /\ ArrivalGoto("loading", "looping") /\ process' \in {process, "crashed"}
     \/ Radar_channel = "NULL"
        /\ ArrivalGoto("loading", "looping") /\ process' = "crashed"
  /\ UNCHANGED <<aircraftPc, channelVars>>

Replied_EnterOnly(pc) == IF pc = "entering" THEN "inside" ELSE pc
Replied(pc) == IF pc = "entering" THEN "inside" ELSE "gone"

Receive_ClosesOnExit(a) ==
  /\ aircraftPc[a] \in {"entering", "exiting"}
  /\ ArrivalGoto("receiving", "looping")
  /\ channel' = IF aircraftPc[a] = "exiting" THEN "freed" ELSE channel
  /\ aircraftPc' = [aircraftPc EXCEPT ![a] = Replied(@)]
  /\ served' = served \cup {a}
  /\ UNCHANGED <<process, Radar_channel, stopThreads, raced>>

(* MsgReceive returns a message, which is replied to at once.              *)
Receive(a) ==
  /\ aircraftPc[a] \in {"entering", "exiting"}
  /\ ArrivalGoto("receiving", "looping")
  /\ aircraftPc' = [aircraftPc EXCEPT ![a] = Replied(@)]
  /\ served' = served \cup {a}
  /\ UNCHANGED <<process, Radar_channel, channel, stopThreads, raced>>

(* A pulse, which is skipped, or a message of the library, for name_open   *)
(* and name_close, which is taken for one of unknown type and dropped.     *)
ReceiveStray ==
  /\ channel = "attached"
  /\ ArrivalGoto("receiving", "looping")
  /\ UNCHANGED <<aircraftPc, process, channelVars>>

(* The channel is destroyed, and MsgReceive returns -1.                    *)
ReceiveFails ==
  /\ channel = "freed"
  /\ ArrivalGoto("receiving", "looping")
  /\ UNCHANGED <<aircraftPc, process, channelVars>>

ArrivalAlone == AttachRadar \/ TestAttached \/ TestStop \/ LoadChid \/ ReceiveFails
Arrival == ArrivalAlone \/ ReceiveStray \/ \E a \in Planes : Receive(a)

-----------------------------------------------------------------------------
(* The polling thread, the aircraft and the clock.                         *)

UpdateGoto(from, to) == updatePc = from /\ updatePc' = to

Update ==
  /\ process = "running"
  /\ \/ UpdateGoto("looping", IF stopThreads THEN "ended" ELSE "waiting")
        /\ UNCHANGED timerVars
     \/ UpdateGoto("waiting", "polling") /\ waitTimer("Radar")
     \/ UpdateGoto("polling", "looping") /\ UNCHANGED timerVars
  /\ UNCHANGED <<mainPc, arrivalPc, aircraftPc, process, channelVars>>

(* startPlanes has created the thread. name_open fails, and the thread     *)
(* ends, when the channel is not attached; it also ends, without an EXIT,  *)
(* when it cannot attach a channel of its own.                             *)
Send(a) ==
  /\ process = "running" /\ mainPc = "flying"
  /\ \/ aircraftPc[a] = "new"
        /\ aircraftPc' = [aircraftPc EXCEPT
                            ![a] = IF channel = "attached" THEN "entering" ELSE "gone"]
     \/ aircraftPc[a] = "inside"
        /\ \E pc \in {"exiting", "gone"} : aircraftPc' = [aircraftPc EXCEPT ![a] = pc]
  /\ UNCHANGED <<mainPc, arrivalPc, updatePc, process, channelVars, timerVars>>

Clock ==
  /\ process = "running" /\ pulses["Radar"] < MaxPulses
  /\ Elapse
  /\ UNCHANGED <<threadVars, channelVars>>

Next == Main \/ Arrival \/ Update \/ Clock \/ \E a \in Planes : Send(a)

(* Every thread is scheduled and the clock goes on. An aircraft that is    *)
(* blocked is served although strays may come before it, because the       *)
(* kernel takes messages of equal priority in order of arrival; nothing    *)
(* obliges the library to send any.                                        *)
Fairness ==
  /\ WF_vars(Main) /\ WF_vars(ArrivalAlone) /\ WF_vars(Update) /\ WF_vars(Clock)
  /\ \A a \in Planes : WF_vars(Send(a)) /\ SF_vars(Receive(a))

Spec == Init /\ [][Next]_vars /\ Fairness

-----------------------------------------------------------------------------
(* Properties.                                                             *)

(* The types; the timer counts whole seconds (Radar.cpp:6).                *)
TypeOK ==
  /\ mainPc \in {"constructing", "flying", "detaching", "joining", "done"}
  /\ arrivalPc \in {"attaching", "testing", "looping", "loading", "receiving", "ended"}
  /\ updatePc \in {"looping", "waiting", "polling", "ended"}
  /\ aircraftPc \in [Planes -> {"new", "entering", "inside", "exiting", "gone"}]
  /\ process \in {"running", "failed", "crashed"}
  /\ Radar_channel \in {"NULL", "set"} /\ channel \in {"none", "attached", "freed"}
  /\ stopThreads \in BOOLEAN /\ raced \in BOOLEAN /\ served \subseteq Planes
  /\ it_value \in [Timers -> {0, 1}] /\ pulses \in [Timers -> 0 .. MaxPulses]

(* "no crash happens" (Radar.cpp:58), except for the two reasons that the  *)
(* code gives: the constructor's NULL has replaced the channel, or the     *)
(* destructor has freed it under the arrival thread. Nor does Radar say    *)
(* "Failed to create channel for Radar" (49) when it has one, but for the  *)
(* first of them.                                                          *)
CrashHasCause ==
  /\ process = "crashed" => raced \/ (stopThreads /\ channel = "freed")
  /\ process = "failed" => raced \/ channel = "none"

(* "If the channel exists, close it properly" (Radar.cpp:24). It is        *)
(* attached by a thread that shutdown may overtake, but not once it has    *)
(* served an aircraft, nor if the constructor has lost it.                 *)
ChannelClosed == mainPc = "done" /\ served # {} /\ ~raced => channel = "freed"

(* "Once the arrival time is reached, send the ENTER_AIRSPACE message"     *)
(* (Aircraft.cpp:80): an aircraft that does not find Radar's channel never *)
(* announces itself. That befalls only those that are due before Radar has *)
(* attached it, or if it cannot: once one aircraft has been answered, none *)
(* is turned away, neither by the constructor's NULL nor by the destructor.*)
OnlyEarlyTurnedAway ==
  [][\A a \in Planes :
       aircraftPc[a] = "new" /\ aircraftPc'[a] = "gone" => served = {}]_vars

(* What makes the three inductive. Before the arrival thread has attached  *)
(* the channel there is nothing to lose; afterwards, unless the            *)
(* constructor has lost it, the pointer says whether there is a channel;   *)
(* and aircraft are served only before the destructor runs.                *)
PointerInv ==
  /\ mainPc = "constructing" => ~raced
  /\ mainPc \in {"constructing", "flying"} => ~stopThreads
  /\ mainPc \in {"detaching", "joining", "done"} =>
       stopThreads /\ \A a \in Planes : aircraftPc[a] = "gone"
  /\ arrivalPc = "attaching" =>
       channel = "none" /\ Radar_channel = "NULL" /\ ~raced /\ served = {}
  /\ raced => Radar_channel = "NULL"
  /\ ~raced => (Radar_channel = "set" <=> channel # "none")
  /\ arrivalPc \notin {"attaching", "testing"} /\ process = "running" =>
       raced \/ Radar_channel = "set"
  /\ arrivalPc = "receiving" \/ served # {} => channel # "none"
  /\ channel = "freed" => stopThreads
  /\ mainPc \in {"joining", "done"} /\ served # {} /\ ~raced => channel = "freed"

(* An aircraft that is blocked on Radar is answered, or the process ends:  *)
(* also when the constructor has overwritten the channel.                  *)
Blocked(a) == aircraftPc[a] \in {"entering", "exiting"}
SenderReleased ==
  \A a \in Planes : Blocked(a) ~> ~Blocked(a) \/ process # "running"

(* "Set stop flag and wait for threads to complete" (Radar.cpp:21): the    *)
(* wait ends, although a thread may be blocked in MsgReceive and the other *)
(* in waitTimer, except if the channel was lost or the timer could not be  *)
(* created.                                                                *)
ShutdownEnds ==
  mainPc = "detaching" ~>
    \/ mainPc = "done" \/ process # "running"
    \/ raced \/ ~created["Radar"]
=============================================================================
