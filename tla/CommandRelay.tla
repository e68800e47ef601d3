----------------------------- MODULE CommandRelay -----------------------------
(***************************************************************************)
(* The process ATC_Computer from its start to its end, as far as the       *)
(* operator's commands are concerned: the console thread, the thread of    *)
(* ComputerSystem::processMessage, the thread of CommunicationsSystem and  *)
(* the main thread that starts and joins them; and the aircraft, reduced   *)
(* to their channels.                                                      *)
(*                                                                         *)
(* Every stage answers a message before it passes it on, and a stage that  *)
(* does not find the channel of the next one drops the message. MsgSend    *)
(* blocks until the answer, or fails when the channel is detached. main    *)
(* starts each thread before the next one, but waits for none of them: all *)
(* start with their first step still to take.                              *)
(***************************************************************************)
EXTENDS Naturals, Sequences, FiniteSets

CONSTANTS
  Planes, NoPlane,   \* aircraft that may be addressed, and an id that is none
  Kinds,             \* the kinds of line that the operator types
  MaxLines,          \* bound: how many lines are typed
  AttachMayFail      \* whether name_attach may return NULL

(* The channels of the two threads; those of the aircraft have the names   *)
(* that their ids give them, which are others.                             *)
COMP_SYS == "COMP_SYS_40290831"
ATC_COMMS == "ATC_COMMS_40290831"

ASSUME RelayAssumption ==
  /\ NoPlane \notin Planes /\ {COMP_SYS, ATC_COMMS} \cap Planes = {}
  /\ Kinds \subseteq {"command", "time_constraint", "bad", "exit"}
  /\ MaxLines \in Nat
  /\ AttachMayFail \in BOOLEAN

VARIABLES
  attached,        \* the channel names that exist
  consolePc, line, typed, exit,
  procPc, procMsg, running, late,
  commsPc, commsMsg,
  monitorPc, mainPc,
  planePc,         \* away, flying, gone
  executed,        \* history: the commands that aircraft have executed
  timeConstraintCollisionFreq   \* the line that set it; 0, its default

consoleVars == <<consolePc, line, typed, exit>>
procVars == <<procPc, procMsg, late, timeConstraintCollisionFreq>>
commsVars == <<commsPc, commsMsg>>
mainVars == <<running, monitorPc, mainPc>>
planeVars == <<planePc, executed>>
vars == <<attached, consoleVars, procVars, commsVars, mainVars, planeVars>>

(* A message is known by the number of its line. A message of the QNX      *)
(* library that is taken for one has number 0 and addresses no aircraft.   *)
Message == [n : 0 .. MaxLines, kind : {"command", "time_constraint", "EXIT"},
            planeID : Planes \cup {NoPlane}]
NoMessage == [n |-> 0, kind |-> "command", planeID |-> NoPlane]

TypeOK ==
  /\ attached \subseteq {COMP_SYS, ATC_COMMS} \cup Planes
  /\ consolePc \in {"testing", "reading", "opening", "blocked", "exited"}
  /\ line \in Message /\ typed \in 0 .. MaxLines /\ exit \in BOOLEAN
  /\ procPc \in {"attach", "testing", "receiving", "handling", "sending", "detaching", "exited"}
  /\ procMsg \in Message /\ running \in BOOLEAN /\ late \in Nat
  /\ commsPc \in {"attach", "receiving", "opening", "blocked", "exited"}
  /\ commsMsg \in Message
  /\ monitorPc \in {"monitoring", "exited"}
  /\ mainPc \in {"joining", "joinConsole", "joinComms", "done"}
  /\ planePc \in [Planes -> {"away", "flying", "gone"}]
  /\ executed \in Seq([n : 1 .. MaxLines, planeID : Planes])
  /\ timeConstraintCollisionFreq \in 0 .. MaxLines

Init ==
  /\ attached = {}
  /\ consolePc = "testing" /\ line = NoMessage /\ typed = 0 /\ exit = FALSE
  /\ procPc = "attach" /\ procMsg = NoMessage /\ running = TRUE /\ late = 0
  /\ commsPc = "attach" /\ commsMsg = NoMessage
  /\ monitorPc = "monitoring" /\ mainPc = "joining"
  /\ planePc = [p \in Planes |-> "away"]
  /\ executed = <<>>
  /\ timeConstraintCollisionFreq = 0

-----------------------------------------------------------------------------
(* The console thread.                                                     *)

ConsoleLoop ==
  /\ consolePc = "testing"
  /\ consolePc' = IF exit THEN "exited" ELSE "reading"
  /\ UNCHANGED <<line, typed, exit, attached, procVars, commsVars, mainVars, planeVars>>

(* A line that does not parse is rejected, "exit" (or the end of the input) *)
(* leaves the loop, and any other line becomes a message.                  *)
ReadLine(kind, p) ==
  /\ consolePc = "reading" /\ typed < MaxLines
  /\ typed' = typed + 1
  /\ \/ kind = "bad" /\ consolePc' = "testing" /\ UNCHANGED <<line, exit>>
     \/ kind = "exit" /\ consolePc' = "exited" /\ exit' = TRUE /\ UNCHANGED line
     \/ /\ kind \in {"command", "time_constraint"} /\ consolePc' = "opening"
        /\ line' = [n |-> typed', kind |-> kind, planeID |-> p]
        /\ UNCHANGED exit
  /\ UNCHANGED <<attached, procVars, commsVars, mainVars, planeVars>>

(* sendToComputerSystem: without the channel the message is dropped.       *)
SendToComputerSystem ==
  /\ consolePc = "opening"
  /\ IF COMP_SYS \in attached
     THEN consolePc' = "blocked" /\ UNCHANGED line
     ELSE consolePc' = "testing" /\ line' = NoMessage
  /\ UNCHANGED <<typed, exit, attached, procVars, commsVars, mainVars, planeVars>>

ConsoleReleased ==
  /\ consolePc' = "testing" /\ line' = NoMessage
  /\ UNCHANGED <<typed, exit>>

-----------------------------------------------------------------------------
(* ComputerSystem::processMessage.                                         *)

ProcAttach ==
  /\ procPc = "attach"
  /\ \/ procPc' = "testing" /\ attached' = attached \cup {COMP_SYS}
     \/ AttachMayFail /\ procPc' = "exited" /\ UNCHANGED attached
  /\ UNCHANGED <<procMsg, late, timeConstraintCollisionFreq, consoleVars, commsVars, mainVars, planeVars>>

ProcLoop_ForEver ==
  /\ procPc = "testing"
  /\ procPc' = "receiving"
  /\ UNCHANGED <<procMsg, late, timeConstraintCollisionFreq, attached, consoleVars, commsVars, mainVars, planeVars>>

ProcLoop ==
  /\ procPc = "testing"
  /\ procPc' = IF running THEN "receiving" ELSE "detaching"
  /\ UNCHANGED <<procMsg, late, timeConstraintCollisionFreq, attached, consoleVars, commsVars, mainVars, planeVars>>

ProcReceive_Unreplied ==
  /\ procPc = "receiving" /\ consolePc = "blocked"
  /\ procPc' = "handling" /\ procMsg' = line
  /\ late' = IF running THEN late ELSE late + 1
  /\ UNCHANGED <<timeConstraintCollisionFreq, attached, consoleVars, commsVars, mainVars, planeVars>>

(* MsgReceive and at once MsgReply: the console goes on.                   *)
ProcReceive ==
  /\ procPc = "receiving" /\ consolePc = "blocked"
  /\ procPc' = "handling" /\ procMsg' = line
  /\ late' = IF running THEN late ELSE late + 1
  /\ ConsoleReleased
  /\ UNCHANGED <<timeConstraintCollisionFreq, attached, commsVars, mainVars, planeVars>>

(* A pulse, or the connection of a name_open, is not told from a message.  *)
ProcReceiveStray ==
  /\ procPc = "receiving"
  /\ procPc' = "handling" /\ procMsg' = NoMessage
  /\ late' = IF running THEN late ELSE late + 1
  /\ UNCHANGED <<timeConstraintCollisionFreq, attached, consoleVars, commsVars, mainVars, planeVars>>

(* handleTimeConstraintChange, whose size check every message passes ...   *)
HandleTimeConstraintChange ==
  /\ procPc = "handling" /\ procMsg.kind = "time_constraint"
  /\ timeConstraintCollisionFreq' = procMsg.n
  /\ procPc' = "testing" /\ procMsg' = NoMessage
  /\ UNCHANGED <<late, attached, consoleVars, commsVars, mainVars, planeVars>>

(* ... or sendMessagesToComms.                                             *)
SendMessagesToComms ==
  /\ procPc = "handling" /\ procMsg.kind # "time_constraint"
  /\ IF ATC_COMMS \in attached
     THEN procPc' = "sending" /\ UNCHANGED procMsg
     ELSE procPc' = "testing" /\ procMsg' = NoMessage
  /\ UNCHANGED <<late, timeConstraintCollisionFreq, attached, consoleVars, commsVars, mainVars, planeVars>>

ProcDetach_KeepsName ==
  /\ procPc = "detaching" /\ procPc' = "exited"
  /\ UNCHANGED <<procMsg, late, timeConstraintCollisionFreq, attached, consoleVars, commsVars, mainVars, planeVars>>

(* name_detach: a console that is blocked on the channel is released.      *)
ProcDetach ==
  /\ procPc = "detaching" /\ procPc' = "exited"
  /\ attached' = attached \ {COMP_SYS}
  /\ IF consolePc = "blocked" THEN ConsoleReleased ELSE UNCHANGED consoleVars
  /\ UNCHANGED <<procMsg, late, timeConstraintCollisionFreq, commsVars, mainVars, planeVars>>

-----------------------------------------------------------------------------
(* CommunicationsSystem::HandleCommunications.                             *)

CommsAttach ==
  /\ commsPc = "attach"
  /\ \/ commsPc' = "receiving" /\ attached' = attached \cup {ATC_COMMS}
     \/ AttachMayFail /\ commsPc' = "exited" /\ UNCHANGED attached
  /\ UNCHANGED <<commsMsg, consoleVars, procVars, mainVars, planeVars>>

(* A message of type EXIT ends the thread and its channel. The console has *)
(* no line that becomes one, which StagesInv below says of every stage.    *)
CommsReceive ==
  /\ commsPc = "receiving" /\ procPc = "sending"
  /\ IF procMsg.kind = "EXIT"
     THEN commsPc' = "exited" /\ attached' = attached \ {ATC_COMMS} /\ UNCHANGED commsMsg
     ELSE commsPc' = "opening" /\ commsMsg' = procMsg /\ UNCHANGED attached
  /\ procPc' = "testing" /\ procMsg' = NoMessage
  /\ UNCHANGED <<late, timeConstraintCollisionFreq, consoleVars, mainVars, planeVars>>

CommsReceiveStray_Exits ==
  /\ commsPc = "receiving"
  /\ commsPc' = "exited" /\ UNCHANGED commsMsg
  /\ UNCHANGED <<attached, consoleVars, procVars, mainVars, planeVars>>

(* A pulse or a connection reaches this channel as well.                   *)
CommsReceiveStray ==
  /\ commsPc = "receiving"
  /\ commsPc' = "opening" /\ commsMsg' = NoMessage
  /\ UNCHANGED <<attached, consoleVars, procVars, mainVars, planeVars>>

(* messageAircraft.                                                        *)
MessageAircraft ==
  /\ commsPc = "opening"
  /\ IF commsMsg.planeID \in attached
     THEN commsPc' = "blocked" /\ UNCHANGED commsMsg
     ELSE commsPc' = "receiving" /\ commsMsg' = NoMessage
  /\ UNCHANGED <<attached, consoleVars, procVars, mainVars, planeVars>>

-----------------------------------------------------------------------------
(* The aircraft.                                                           *)

AircraftAttach(p) ==
  /\ planePc[p] = "away"
  /\ planePc' = [planePc EXCEPT ![p] = "flying"]
  /\ attached' = attached \cup {p}
  /\ UNCHANGED <<executed, consoleVars, procVars, commsVars, mainVars>>

Execute_SentAgain(p) ==
  /\ planePc[p] = "flying" /\ commsPc = "blocked" /\ commsMsg.planeID = p
  /\ executed' = Append(executed, [n |-> commsMsg.n, planeID |-> p])
  /\ commsPc' = "opening"
  /\ UNCHANGED <<commsMsg, planePc, attached, consoleVars, procVars, mainVars>>

Execute(p) ==
  /\ planePc[p] = "flying" /\ commsPc = "blocked" /\ commsMsg.planeID = p
  /\ executed' = Append(executed, [n |-> commsMsg.n, planeID |-> p])
  /\ commsPc' = "receiving" /\ commsMsg' = NoMessage
  /\ UNCHANGED <<planePc, attached, consoleVars, procVars, mainVars>>

AircraftDetach(p) ==
  /\ planePc[p] = "flying"
  /\ planePc' = [planePc EXCEPT ![p] = "gone"]
  /\ attached' = attached \ {p}
  /\ IF commsPc = "blocked" /\ commsMsg.planeID = p
     THEN commsPc' = "receiving" /\ commsMsg' = NoMessage ELSE UNCHANGED commsVars
  /\ UNCHANGED <<executed, consoleVars, procVars, mainVars>>

-----------------------------------------------------------------------------
(* The end. The monitoring thread, which has a module of its own, stops    *)
(* when it finds the airspace empty.                                       *)
MonitorStops ==
  /\ monitorPc = "monitoring" /\ monitorPc' = "exited"
  /\ running' = FALSE
  /\ UNCHANGED <<mainPc, attached, consoleVars, procVars, commsVars, planeVars>>

(* joinThread, and ~OperatorConsole, which sets exit before it joins.      *)
JoinComputerSystem ==
  /\ mainPc = "joining" /\ mainPc' = "joinConsole"
  /\ monitorPc = "exited" /\ procPc = "exited"
  /\ exit' = TRUE
  /\ UNCHANGED <<consolePc, line, typed, running, monitorPc, attached, procVars, commsVars, planeVars>>

JoinConsole ==
  /\ mainPc = "joinConsole" /\ mainPc' = "joinComms"
  /\ consolePc = "exited"
  /\ UNCHANGED <<running, monitorPc, attached, consoleVars, procVars, commsVars, planeVars>>

JoinComms ==
  /\ mainPc = "joinComms" /\ mainPc' = "done"
  /\ commsPc = "exited"
  /\ UNCHANGED <<running, monitorPc, attached, consoleVars, procVars, commsVars, planeVars>>

Console == ConsoleLoop \/ SendToComputerSystem
Proc == \/ ProcAttach \/ ProcLoop \/ ProcReceive \/ HandleTimeConstraintChange
        \/ SendMessagesToComms \/ ProcDetach
Comms == CommsAttach \/ CommsReceive \/ MessageAircraft
Main == JoinComputerSystem \/ JoinConsole \/ JoinComms

Next ==
  \/ Console \/ Proc \/ Comms \/ Main
  \/ \E kind \in Kinds, p \in Planes \cup {NoPlane} : ReadLine(kind, p)
  \/ ProcReceiveStray \/ CommsReceiveStray
  \/ \E p \in Planes : AircraftAttach(p) \/ Execute(p) \/ AircraftDetach(p)
  \/ MonitorStops

(* Every thread is scheduled, and an aircraft that is sent a command       *)
(* answers or leaves (SendersReturn in module Airspace). Nothing obliges   *)
(* the operator to type, an aircraft to come or the airspace to empty. The *)
(* senders on a channel are served although strays may come before them.   *)
Fairness ==
  /\ WF_vars(Console) /\ WF_vars(Proc) /\ WF_vars(Comms) /\ WF_vars(Main)
  /\ SF_vars(ProcReceive) /\ SF_vars(CommsReceive)
  /\ \A p \in Planes : WF_vars(Execute(p))

Spec == Init /\ [][Next]_vars
FairSpec == Spec /\ Fairness

-----------------------------------------------------------------------------
(* Properties.                                                             *)

(* The three stages hold one command each, and together they are a lossy   *)
(* queue of the lines typed: what the aircraft execute is a subsequence of *)
(* it, and each command is executed by the aircraft that it names.         *)
InHand(m) ==
  IF m.n = 0 \/ m.kind # "command" THEN <<>> ELSE <<[n |-> m.n, planeID |-> m.planeID]>>
InFlight == InHand(commsMsg) \o InHand(procMsg) \o InHand(line)

Fifo == INSTANCE LossyFifo WITH
  Addressee <- Planes \cup {NoPlane}, Limit <- 3, queue <- InFlight, output <- executed
ImplementsLossyFifo == Fifo!Spec

(* No line is executed twice, or after one that was typed later.           *)
ExecutedInOrder ==
  \A i, j \in DOMAIN executed : i < j => executed[i].n < executed[j].n

(* What makes these two inductive, and TypeOK and OneLateMessage below: a  *)
(* stage that is not about to pass a message on holds none, a message      *)
(* without a number addresses no aircraft, only commands get as far as the *)
(* aircraft, none is EXIT, and what is nearer to the aircraft was typed    *)
(* earlier.                                                                *)
StagesInv ==
  /\ consolePc \notin {"opening", "blocked"} => line = NoMessage
  /\ procPc \notin {"handling", "sending"} => procMsg = NoMessage
  /\ commsPc \notin {"opening", "blocked"} => commsMsg = NoMessage
  /\ \A m \in {line, procMsg, commsMsg} : m.n = 0 => m.planeID = NoPlane
  /\ line.kind # "EXIT" /\ procMsg.kind # "EXIT"
  /\ procPc = "sending" => procMsg.kind = "command"
  /\ commsMsg.kind = "command"

Before(m1, m2) == m1.n # 0 /\ m2.n # 0 => m1.n < m2.n
OrderInv ==
  /\ Before(commsMsg, procMsg) /\ Before(procMsg, line) /\ Before(commsMsg, line)
  /\ commsMsg.n <= typed /\ procMsg.n <= typed /\ line.n <= typed
  /\ \A i \in DOMAIN executed :
       /\ executed[i].n <= typed
       /\ \A m \in {line, procMsg, commsMsg} : Before(executed[i], m)
  /\ ExecutedInOrder

LateInv == late <= 1 /\ (running \/ procPc = "receiving" => late = 0)

RelayInv == StagesInv /\ OrderInv /\ LateInv

(* A command that is under way is, sooner or later, executed or dropped,   *)
(* also when the process shuts down around it.                             *)
Under(n) == \E i \in DOMAIN InFlight : InFlight[i].n = n
CommandsSettle == \A n \in 1 .. MaxLines : Under(n) ~> ~Under(n)

(* Once monitoring has stopped, processMessage takes at most one more      *)
(* message: the one it was already waiting for.                            *)
OneLateMessage == late <= 1

(* "Monitoring stopped. Exiting main." (ATC_Computer/main.cpp:25): main    *)
(* returns only from a process whose CommunicationsSystem could not attach *)
(* its channel, and which thus has not passed on a single command. In any  *)
(* other the last join waits for a thread that nobody tells to end.        *)
EndsOnlyUnused == mainPc = "done" => executed = <<>> /\ ATC_COMMS \notin attached

(* What makes it inductive, with StagesInv: the thread ends only where it  *)
(* starts.                                                                 *)
CommsInv ==
  /\ commsPc \in {"attach", "exited"} => executed = <<>> /\ ATC_COMMS \notin attached
  /\ mainPc = "done" => commsPc = "exited"
=============================================================================
