------------------------------- MODULE ATCTimer -------------------------------
(***************************************************************************)
(* The timers on which the threads sleep (class ATCTimer, the same file in *)
(* both projects). A timer sends a pulse to a channel of its own at every  *)
(* expiry; waitTimer receives one. Pulses that nobody waits for queue up,  *)
(* so that a wait may end at once.                                         *)
(*                                                                         *)
(* The constructor only prints an error when the timer cannot be created   *)
(* or its channel not be connected: the object then exists and never       *)
(* expires.                                                                *)
(***************************************************************************)
EXTENDS Integers

CONSTANT Timers   \* the objects, named by their owners

VARIABLES
  it_value,      \* the seconds until a timer expires, 0 if it is not armed
  it_interval,   \* what it_value becomes when it does
  pulses,        \* the pulses in its channel
  created        \* whether timer_create and ConnectAttach have succeeded

timerVars == <<it_value, it_interval, pulses, created>>

(* setTimerSpecification(sec, 0), as the constructor calls it.             *)
Specification_OneShot(sec) == [value |-> sec, interval |-> 0]
Specification(sec) == [value |-> sec, interval |-> sec]

TimerInit(sec) ==
  /\ created \in [Timers -> BOOLEAN]
  /\ it_value = [t \in Timers |-> IF created[t] THEN Specification(sec).value ELSE 0]
  /\ it_interval = [t \in Timers |-> Specification(sec).interval]
  /\ pulses = [t \in Timers |-> 0]

(* A second passes.                                                        *)
Elapse ==
  LET expiring == {t \in Timers : it_value[t] = 1}
      left(t) == IF it_value[t] = 0 THEN 0 ELSE it_value[t] - 1
  IN  /\ it_value' = [t \in Timers |-> IF t \in expiring THEN it_interval[t] ELSE left(t)]
      /\ pulses' = [t \in Timers |-> IF t \in expiring THEN pulses[t] + 1 ELSE pulses[t]]
      /\ UNCHANGED <<it_interval, created>>

(* MsgReceive on the timer's channel.                                      *)
waitTimer(t) ==
  /\ pulses[t] > 0
  /\ pulses' = [pulses EXCEPT ![t] = @ - 1]
  /\ UNCHANGED <<it_value, it_interval, created>>
=============================================================================
