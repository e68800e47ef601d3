--------------------------- MODULE CollisionProofs ----------------------------
(***************************************************************************)
(* What checkAxes decides, for every position, velocity and constraint.    *)
(***************************************************************************)
EXTENDS CollisionTest, TLAPS

(* A distance does not depend on the order of its ends.                    *)
LEMMA DistanceSymmetric ==
  \A x, y \in Int : Distance(x, y) = Distance(y, x) /\ Distance(x, y) \in Nat
  BY DEF Distance

(* A position that is extrapolated by whole seconds is a position again,   *)
(* and by no seconds it is the present one.                                *)
LEMMA PositionAfterType ==
  ASSUME NEW plane \in PlaneInfo, NEW t \in Int
  PROVE  /\ PositionAfter(plane, t) \in Vector
         /\ PositionAfter(plane, 0) = plane.position
<1>1. plane.position \in [Axes -> Int] /\ plane.velocity \in [Axes -> Int]
  BY DEF PlaneInfo, Vector
<1>2. \A a \in Axes : plane.velocity[a] * t \in Int /\ plane.velocity[a] * 0 = 0
  BY <1>1
<1>3. \A a \in Axes : plane.position[a] + plane.velocity[a] * t \in Int
  BY <1>1, <1>2
<1>4. PositionAfter(plane, 0) = [a \in Axes |-> plane.position[a]]
  BY <1>1, <1>2 DEF PositionAfter
<1>5. QED
  BY <1>1, <1>3, <1>4 DEF PositionAfter, Vector

(* Being near each other is symmetric.                                     *)
LEMMA WithinSymmetric ==
  ASSUME NEW v \in Vector, NEW w \in Vector
  PROVE  Within(v, w) = Within(w, v)
<1>1. \A a \in Axes : v[a] \in Int /\ w[a] \in Int
  BY DEF Vector
<1>2. \A a \in Axes : Distance(v[a], w[a]) = Distance(w[a], v[a])
  BY <1>1, DistanceSymmetric
<1>3. QED
  BY <1>2 DEF Within

(* The order in which Radar's unordered set yields two aircraft does not   *)
(* change whether checkAxes warns of them.                                 *)
THEOREM CheckAxesSymmetric ==
  ASSUME NEW p \in PlaneInfo, NEW q \in PlaneInfo, NEW t \in Int
  PROVE  checkAxes(p, q, t) = checkAxes(q, p, t)
<1>1. p.position \in Vector /\ q.position \in Vector
  BY DEF PlaneInfo
<1>2. Within(p.position, q.position) = Within(q.position, p.position)
  BY <1>1, WithinSymmetric
<1>3. Within(PositionAfter(p, t), PositionAfter(q, t))
        = Within(PositionAfter(q, t), PositionAfter(p, t))
  BY PositionAfterType, WithinSymmetric
<1>4. QED
  BY <1>2, <1>3 DEF checkAxes

(* What the loads of a test have in common: as long as nothing is stored   *)
(* in between they all yield the constraint in force.                      *)
TestInv ==
  /\ plane1 \in PlaneInfo /\ plane2 \in PlaneInfo
  /\ timeConstraintCollisionFreq \in TimeConstraints
  /\ loaded \in Seq(TimeConstraints)
  /\ verdict # "none" => loaded # <<>>
  /\ ~changed => \A k \in DOMAIN loaded : loaded[k] = timeConstraintCollisionFreq

VerdictInv == TestInv /\ UndisturbedVerdict

(* With all loads done and alike, S1 and S2 are where the two aircraft     *)
(* will be after the constraint in force.                                  *)
LEMMA LoadsAlike ==
  ASSUME TestInv, ~changed, Len(loaded) = 6
  PROVE  /\ S1 = PositionAfter(plane1, timeConstraintCollisionFreq)
         /\ S2 = PositionAfter(plane2, timeConstraintCollisionFreq)
<1>1. \A k \in 1 .. 6 : loaded[k] = timeConstraintCollisionFreq
  BY DEF TestInv
<1>2. \A a \in Axes : AxisIndex[a] \in 1 .. 3
  BY DEF AxisIndex, Axes
<1>3. \A a \in Axes : /\ loaded[AxisIndex[a]] = timeConstraintCollisionFreq
                       /\ loaded[AxisIndex[a] + 3] = timeConstraintCollisionFreq
  BY <1>1, <1>2
<1>4. QED
  BY <1>3 DEF S1, S2, PositionAfter

(* Every step of a test, and every change of the constraint.               *)
LEMMA VerdictStep == VerdictInv /\ [Next]_vars => VerdictInv'
<1> SUFFICES ASSUME VerdictInv, [Next]_vars PROVE VerdictInv'
  OBVIOUS
<1> USE DEF VerdictInv, planes
<1>1. CASE LoadConstraint
  <2>1. /\ UNCHANGED <<planes, timeConstraintCollisionFreq, verdict, changed>>
        /\ loaded' = Append(loaded, timeConstraintCollisionFreq)
    BY <1>1 DEF LoadConstraint
  <2>2. TestInv'
    BY <2>1 DEF TestInv
  <2>3. QED
    BY <2>1, <2>2 DEF UndisturbedVerdict, checkAxes, PositionAfter
<1>2. CASE ReturnVerdict
  <2>1. /\ UNCHANGED <<planes, timeConstraintCollisionFreq, loaded, changed>>
        /\ Len(loaded) = 6
        /\ verdict' = IF Within(S1, S2) \/ Within(plane1.position, plane2.position)
                      THEN "warned" ELSE "safe"
    BY <1>2 DEF ReturnVerdict, Warns
  <2>2. TestInv'
    <3>1. loaded # <<>>
      BY <2>1
    <3>2. UNCHANGED <<plane1, plane2, timeConstraintCollisionFreq, loaded, changed>>
      BY <2>1
    <3>3. QED
      BY <3>1, <3>2 DEF TestInv
  <2>3. ASSUME ~changed
        PROVE  verdict' = "warned" <=> checkAxes(plane1, plane2, timeConstraintCollisionFreq)
    BY <2>1, <2>3, LoadsAlike DEF checkAxes
  <2>4. UndisturbedVerdict'
    BY <2>1, <2>3 DEF UndisturbedVerdict, checkAxes, PositionAfter
  <2>5. QED
    BY <2>2, <2>4
<1>3. CASE NextTest
  BY <1>3 DEF NextTest, TestInv, UndisturbedVerdict
<1>4. ASSUME NEW n \in TimeConstraints, HandleTimeConstraintChange(n)
      PROVE  VerdictInv'
  <2>1. /\ UNCHANGED <<planes, loaded, verdict>>
        /\ timeConstraintCollisionFreq' = n
        /\ changed' = (changed \/ loaded # <<>>)
    BY <1>4 DEF HandleTimeConstraintChange
  <2>2. TestInv'
    <3>1. ~changed' => ~changed /\ loaded' = <<>>
      BY <2>1
    <3>2. \A k \in DOMAIN <<>> : FALSE
      OBVIOUS
    <3>3. ~changed' => \A k \in DOMAIN loaded' : FALSE
      BY <3>1, <3>2
    <3>4. UNCHANGED <<plane1, plane2, loaded, verdict>> /\ timeConstraintCollisionFreq' = n
      BY <2>1
    <3>5. QED
      BY <3>3, <3>4 DEF TestInv
  <2>3. UndisturbedVerdict'
    BY <2>1 DEF TestInv, UndisturbedVerdict
  <2>4. QED
    BY <2>2, <2>3
<1>5. CASE UNCHANGED vars
  BY <1>5 DEF vars, TestInv, UndisturbedVerdict, checkAxes, PositionAfter
<1>6. QED
  BY <1>1, <1>2, <1>3, <1>4, <1>5 DEF Next

(* The inductive invariant of the test.                                    *)
LEMMA VerdictInvariant == Spec => []VerdictInv
<1>1. Init => VerdictInv
  BY TestAssumption DEF Init, VerdictInv, TestInv, UndisturbedVerdict
<1>2. QED
  BY <1>1, VerdictStep, PTL DEF Spec

(* A test during which the operator changes nothing decides what checkAxes *)
(* decides for the constraint in force, whatever it was before.            *)
THEOREM UndisturbedVerdictCorrect == Spec => []UndisturbedVerdict
<1>1. VerdictInv => UndisturbedVerdict
  BY DEF VerdictInv
<1>2. QED
  BY <1>1, VerdictInvariant, PTL

-----------------------------------------------------------------------------
(* What the test of two instants gets wrong.                               *)

(* A quantity that changes steadily and is on the same side beyond a limit *)
(* at both ends of an interval is beyond it throughout.                    *)
LEMMA SteadyStaysBeyond ==
  ASSUME NEW d \in Int, NEW v \in Int, NEW c \in Int,
         NEW T \in Nat, NEW t \in 0 .. T,
         d > c, d + v * T > c
  PROVE  d + v * t > c
<1>1. t \in Nat /\ T - t \in Nat /\ v * t \in Int /\ v * T \in Int
  OBVIOUS
<1>2. CASE v >= 0
  <2>1. v * t >= 0
    BY <1>1, <1>2
  <2>2. QED
    BY <1>1, <2>1
<1>3. CASE v < 0
  <2>1. v * (T - t) <= 0
    BY <1>1, <1>3
  <2>2. v * (T - t) = v * T - v * t
    BY <1>1
  <2>3. QED
    BY <1>1, <2>1, <2>2
<1>4. QED
  BY <1>2, <1>3

(* Seen from one aircraft, the other moves steadily on every axis.         *)
LEMMA OffsetIsSteady ==
  ASSUME plane1 \in PlaneInfo, plane2 \in PlaneInfo, NEW a \in Axes
  PROVE  \E d, v \in Int : \A t \in Int :
           /\ Offset(t)[a] = d + v * t
           /\ Apart(a, t) <=> d + v * t > Constraint[a] \/ -(d + v * t) > Constraint[a]
<1> DEFINE x1 == plane1.position[a]  v1 == plane1.velocity[a]
           x2 == plane2.position[a]  v2 == plane2.velocity[a]
<1>1. x1 \in Int /\ x2 \in Int /\ v1 \in Int /\ v2 \in Int /\ Constraint[a] \in Nat
  BY ConstraintAssumption DEF PlaneInfo, Vector
<1>2. \A t : /\ PositionAfter(plane1, t)[a] = x1 + v1 * t
             /\ PositionAfter(plane2, t)[a] = x2 + v2 * t
  BY DEF PositionAfter
<1>3. ASSUME NEW t \in Int
      PROVE  /\ Offset(t)[a] = (x1 - x2) + (v1 - v2) * t
             /\ Apart(a, t) <=> \/ (x1 - x2) + (v1 - v2) * t > Constraint[a]
                               \/ -((x1 - x2) + (v1 - v2) * t) > Constraint[a]
  <2> DEFINE p1 == v1 * t  p2 == v2 * t  p == (v1 - v2) * t
  <2>1. p1 \in Int /\ p2 \in Int /\ p \in Int
    BY <1>1
  <2>2. p = p1 - p2
    BY <1>1
  <2>3. Offset(t)[a] = (x1 + p1) - (x2 + p2)
    BY <1>2 DEF Offset
  <2>4. Apart(a, t) <=> Distance(x1 + p1, x2 + p2) > Constraint[a]
    BY <1>2 DEF Apart
  <2> HIDE DEF p1, p2, p
  <2>5. /\ Offset(t)[a] = (x1 - x2) + p
        /\ Apart(a, t) <=> (x1 - x2) + p > Constraint[a] \/ -((x1 - x2) + p) > Constraint[a]
    BY <1>1, <2>1, <2>2, <2>3, <2>4 DEF Distance
  <2>6. QED
    BY <2>5 DEF p
<1>4. (x1 - x2) \in Int /\ (v1 - v2) \in Int
  BY <1>1
<1>5. QED
  BY <1>3, <1>4

(* On an axis that keeps two aircraft apart now and in the end, and not in *)
(* between, they change sides.                                             *)
LEMMA PassingChangesSides ==
  ASSUME plane1 \in PlaneInfo, plane2 \in PlaneInfo, NEW a \in Axes,
         NEW T \in Nat, NEW t \in 0 .. T,
         Apart(a, 0), Apart(a, T), ~Apart(a, t)
  PROVE  Offset(0)[a] * Offset(T)[a] < 0
<1>1. PICK d \in Int, v \in Int : \A s \in Int :
        /\ Offset(s)[a] = d + v * s
        /\ Apart(a, s) <=> d + v * s > Constraint[a] \/ -(d + v * s) > Constraint[a]
  BY OffsetIsSteady
<1> DEFINE c == Constraint[a]  e == d + v * T
<1>2. c \in Nat /\ v * T \in Int /\ v * t \in Int /\ v * 0 = 0
  BY ConstraintAssumption
<1>3. Offset(0)[a] = d /\ Offset(T)[a] = e /\ e \in Int
  BY <1>1, <1>2
<1>4. ~(d > c /\ e > c)
  <2>1. ASSUME d > c, d + v * T > c PROVE FALSE
    <3>1. d + v * t > c
      BY <1>2, <2>1, SteadyStaysBeyond
    <3>2. QED
      BY <1>1, <3>1
  <2>2. QED
    BY <2>1
<1>5. ~(-d > c /\ -e > c)
  <2>1. -d \in Int /\ -v \in Int /\ (-v) * T = -(v * T) /\ (-v) * t = -(v * t)
    BY <1>2
  <2>2. ASSUME -d > c, -e > c PROVE FALSE
    <3>1. (-d) + (-v) * T > c
      BY <1>2, <2>1, <2>2
    <3>2. (-d) + (-v) * t > c
      BY <1>2, <2>1, <2>2, <3>1, SteadyStaysBeyond
    <3>3. -(d + v * t) > c
      BY <1>2, <2>1, <3>2
    <3>4. QED
      BY <1>1, <3>3
  <2>3. QED
    BY <2>2
<1>6. (d > c \/ -d > c) /\ (e > c \/ -e > c)
  BY <1>1, <1>2, <1>3
<1>7. (d > 0 /\ e < 0) \/ (d < 0 /\ e > 0)
  BY <1>2, <1>3, <1>4, <1>5, <1>6
<1> HIDE DEF e
<1>8. d * e < 0
  BY <1>3, <1>7
<1>9. QED
  BY <1>3, <1>8

(* Two aircraft are near each other when no axis keeps them apart.         *)
LEMMA NearIsNotApart ==
  ASSUME plane1 \in PlaneInfo, plane2 \in PlaneInfo, NEW s \in Int
  PROVE  Within(PositionAfter(plane1, s), PositionAfter(plane2, s))
           <=> \A a \in Axes : ~Apart(a, s)
<1>1. \A a \in Axes : /\ PositionAfter(plane1, s)[a] \in Int
                       /\ PositionAfter(plane2, s)[a] \in Int /\ Constraint[a] \in Nat
  BY PositionAfterType, ConstraintAssumption DEF Vector
<1>2. ASSUME NEW a \in Axes
      PROVE  Distance(PositionAfter(plane1, s)[a], PositionAfter(plane2, s)[a]) <= Constraint[a]
               <=> ~Apart(a, s)
  <2>1. Distance(PositionAfter(plane1, s)[a], PositionAfter(plane2, s)[a]) \in Nat
    BY <1>1, DistanceSymmetric
  <2>2. QED
    BY <1>1, <2>1 DEF Apart
<1>3. QED
  BY <1>2 DEF Within

(* What an undisturbed test gets wrong is about aircraft that pass each    *)
(* other, clip a corner or, if the constraint is negative, have passed:    *)
(* for every two aircraft and every time constraint.                       *)
THEOREM OnlyPassingMisjudgedCorrect == Spec => []OnlyPassingMisjudged
<1> DEFINE T == timeConstraintCollisionFreq
           Near(t) == Within(PositionAfter(plane1, t), PositionAfter(plane2, t))
<1>1. ASSUME VerdictInv, ~changed, verdict # "none"
      PROVE  /\ plane1 \in PlaneInfo /\ plane2 \in PlaneInfo /\ T \in Int
             /\ \A s \in Int : Near(s) <=> \A a \in Axes : ~Apart(a, s)
             /\ verdict = "warned" <=> Near(T) \/ Near(0)
  <2>1. plane1 \in PlaneInfo /\ plane2 \in PlaneInfo /\ T \in Int
    BY <1>1, TestAssumption DEF VerdictInv, TestInv
  <2>2. verdict = "warned" <=> checkAxes(plane1, plane2, T)
    BY <1>1 DEF VerdictInv, UndisturbedVerdict
  <2>3. Within(plane1.position, plane2.position) <=> Near(0)
    BY <2>1, PositionAfterType
  <2>4. QED
    BY <2>1, <2>2, <2>3, NearIsNotApart DEF checkAxes
<1>2. ASSUME VerdictInv, verdict = "safe", ~changed, Conflict(plane1, plane2, T)
      PROVE  /\ \A a \in Axes : Apart(a, 0) /\ Apart(a, T) => Offset(0)[a] * Offset(T)[a] < 0
             /\ \E a, b \in Axes : Apart(a, 0) /\ Apart(b, T)
  <2>1. /\ plane1 \in PlaneInfo /\ plane2 \in PlaneInfo /\ T \in Int
        /\ \A s \in Int : Near(s) <=> \A a \in Axes : ~Apart(a, s)
        /\ ~Near(T) /\ ~Near(0)
    BY <1>1, <1>2
  <2>2. PICK t \in {0} \cup 0 .. T : Near(t)
    BY <1>2 DEF Conflict
  <2>3. T \in Nat /\ t \in 0 .. T
    BY <2>1, <2>2
  <2>4. \A a \in Axes : ~Apart(a, t)
    BY <2>1, <2>2, <2>3
  <2>5. ASSUME NEW a \in Axes, Apart(a, 0), Apart(a, T)
        PROVE  Offset(0)[a] * Offset(T)[a] < 0
    BY <2>1, <2>3, <2>4, <2>5, PassingChangesSides
  <2>6. (\E a \in Axes : Apart(a, 0)) /\ (\E b \in Axes : Apart(b, T))
    BY <2>1
  <2>7. QED
    BY <2>5, <2>6
<1>3. ASSUME VerdictInv, verdict = "warned", ~changed, ~Conflict(plane1, plane2, T)
      PROVE  T < 0 /\ \E a \in Axes : Apart(a, 0) /\ ~Apart(a, T)
  <2>1. /\ T \in Int
        /\ \A s \in Int : Near(s) <=> \A a \in Axes : ~Apart(a, s)
        /\ Near(T) \/ Near(0)
    BY <1>1, <1>3
  <2>2. ~Near(0) /\ (T >= 0 => ~Near(T))
    BY <1>3, <2>1 DEF Conflict
  <2>3. QED
    BY <2>1, <2>2
<1>4. VerdictInv => OnlyPassingMisjudged
  BY <1>2, <1>3 DEF OnlyPassingMisjudged
<1>5. QED
  BY <1>4, VerdictInvariant, PTL
=============================================================================
