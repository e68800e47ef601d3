---------------------------- MODULE CollisionTest -----------------------------
(***************************************************************************)
(* checkAxes as the monitoring thread runs it, next to the thread that     *)
(* takes the operator's messages. timeConstraintCollisionFreq is atomic,   *)
(* but the test loads it six times, once for each coordinate of the two    *)
(* aircraft, and handleTimeConstraintChange may store a new value before   *)
(* any of them.                                                            *)
(***************************************************************************)
EXTENDS CollisionCheck

CONSTANTS
  Tested,            \* the records that a reading may hold
  TimeConstraints,   \* what the operator may type
  MaxChanges         \* bound: how often the operator changes it

ASSUME TestAssumption ==
  Tested \subseteq PlaneInfo /\ TimeConstraints \subseteq Int /\ MaxChanges \in Nat

VARIABLES
  plane1, plane2,                \* the arguments of the test under way
  timeConstraintCollisionFreq,
  loaded,    \* the values loaded for S1x, S1y, S1z, S2x, S2y and S2z, so far
  verdict,   \* what the test has returned
  changed,   \* history: a value was stored between two loads of this test
  changes    \* counts the changes, for the bound

planes == <<plane1, plane2>>
vars == <<planes, timeConstraintCollisionFreq, loaded, verdict, changed, changes>>

Init ==
  /\ plane1 \in Tested /\ plane2 \in Tested
  /\ timeConstraintCollisionFreq \in TimeConstraints
  /\ loaded = <<>> /\ verdict = "none"
  /\ changed = FALSE /\ changes = 0

LoadConstraint ==
  /\ Len(loaded) < 6
  /\ loaded' = Append(loaded, timeConstraintCollisionFreq)
  /\ UNCHANGED <<planes, timeConstraintCollisionFreq, verdict, changed, changes>>

AxisIndex == [a \in Axes |-> CASE a = "X" -> 1 [] a = "Y" -> 2 [] a = "Z" -> 3]

S1 == [a \in Axes |-> PositionAfter(plane1, loaded[AxisIndex[a]])[a]]

S2_VelocityOfFirst ==
  [a \in Axes |-> plane2.position[a] + plane1.velocity[a] * loaded[AxisIndex[a] + 3]]
S2 == [a \in Axes |-> PositionAfter(plane2, loaded[AxisIndex[a] + 3])[a]]

Warns_FutureOnly == Within(S1, S2)
Warns == Within(S1, S2) \/ Within(plane1.position, plane2.position)

ReturnVerdict ==
  /\ Len(loaded) = 6 /\ verdict = "none"
  /\ verdict' = IF Warns THEN "warned" ELSE "safe"
  /\ UNCHANGED <<planes, timeConstraintCollisionFreq, loaded, changed, changes>>

(* The next round tests the two aircraft again.                            *)
NextTest ==
  /\ verdict # "none" /\ verdict' = "none"
  /\ loaded' = <<>> /\ changed' = FALSE
  /\ UNCHANGED <<planes, timeConstraintCollisionFreq, changes>>

HandleTimeConstraintChange(n) ==
  /\ changes < MaxChanges /\ changes' = changes + 1
  /\ timeConstraintCollisionFreq' = n
  /\ changed' = (changed \/ loaded # <<>>)
  /\ UNCHANGED <<planes, loaded, verdict>>

Next ==
  \/ LoadConstraint \/ ReturnVerdict \/ NextTest
  \/ \E n \in TimeConstraints : HandleTimeConstraintChange(n)

Spec == Init /\ [][Next]_vars

-----------------------------------------------------------------------------
(* Properties.                                                             *)

(* A test during which the operator changes nothing decides what checkAxes *)
(* decides for the constraint in force, however often it changed before.   *)
UndisturbedVerdict ==
  verdict # "none" /\ ~changed =>
    (verdict = "warned" <=> checkAxes(plane1, plane2, timeConstraintCollisionFreq))

(* Where the one aircraft is, seen from the other.                         *)
Offset(t) ==
  [a \in Axes |-> PositionAfter(plane1, t)[a] - PositionAfter(plane2, t)[a]]

Apart(a, t) ==
  Distance(PositionAfter(plane1, t)[a], PositionAfter(plane2, t)[a]) > Constraint[a]

(* What a test that nothing disturbs gets wrong, for any int that the      *)
(* console takes (OperatorConsole.cpp:75-86), is about aircraft that pass  *)
(* each other or clip a corner. If it misses a conflict, they change sides *)
(* on every axis that keeps them apart both now and at the end, and        *)
(* without such an axis it is one axis that keeps them apart now and       *)
(* another one at the end. If it warns in vain, against "false otherwise"  *)
(* (ComputerSystem.cpp:165), the constraint is negative and they have      *)
(* passed already: an axis on which they were near keeps them apart now,   *)
(* and takes them farther apart.                                           *)
OnlyPassingMisjudged ==
  LET T == timeConstraintCollisionFreq
      conflict == Conflict(plane1, plane2, T)
  IN  ~changed =>
        /\ verdict = "safe" /\ conflict =>
             /\ \A a \in Axes : Apart(a, 0) /\ Apart(a, T) => Offset(0)[a] * Offset(T)[a] < 0
             /\ \E a, b \in Axes : Apart(a, 0) /\ Apart(b, T)
        /\ verdict = "warned" /\ ~conflict =>
             T < 0 /\ \E a \in Axes : Apart(a, 0) /\ ~Apart(a, T)

(* "Return true if they will collide" (ComputerSystem.cpp:165), and a      *)
(* collision is "two planes entering the defined airspace constraints      *)
(* within the time constraint" (ComputerSystem.cpp:163).                   *)
ConflictsNoticed ==
  verdict = "safe" /\ ~changed => ~Conflict(plane1, plane2, timeConstraintCollisionFreq)
=============================================================================
