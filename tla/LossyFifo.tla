------------------------------- MODULE LossyFifo ------------------------------
(***************************************************************************)
(* What the way of an operator's command from the console to an aircraft   *)
(* amounts to: a queue of bounded length that takes a typed line once, at  *)
(* the moment it is typed, and may lose any command at any moment, but     *)
(* never doubles, reorders, readdresses or invents one.                    *)
(***************************************************************************)
EXTENDS Naturals, Sequences

CONSTANTS Addressee, Limit

VARIABLES typed, queue, output

Init == typed = 0 /\ queue = <<>> /\ output = <<>>

(* A command has the number of its line.                                   *)
Put ==
  /\ Len(queue) < Limit
  /\ typed' = typed + 1
  /\ \E a \in Addressee : queue' = Append(queue, [n |-> typed', planeID |-> a])
  /\ UNCHANGED output

(* A line that is no command for an aircraft.                              *)
Skip == typed' = typed + 1 /\ UNCHANGED <<queue, output>>

Get ==
  /\ queue # <<>>
  /\ output' = Append(output, Head(queue))
  /\ queue' = Tail(queue)
  /\ UNCHANGED typed

Lose ==
  /\ \E i \in DOMAIN queue :
       queue' = SubSeq(queue, 1, i - 1) \o SubSeq(queue, i + 1, Len(queue))
  /\ UNCHANGED <<typed, output>>

Next == Put \/ Skip \/ Get \/ Lose
Spec == Init /\ [][Next]_<<typed, queue, output>>
=============================================================================
