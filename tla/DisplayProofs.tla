---------------------------- MODULE DisplayProofs -----------------------------
(***************************************************************************)
(* The plan view and the log, for every number of aircraft, every content  *)
(* of the rounds, every capacity and every pair of intervals: without a    *)
(* lock, what no write overlaps is one whole round of Radar, and what is   *)
(* logged is as long as what is shown.                                     *)
(***************************************************************************)
EXTENDS Display, RadarProcessProofs

ViewTypes ==
  /\ printed \in Seq(PlaneInfo) /\ logged \in Seq(PlaneInfo)
  /\ toShow \in Nat /\ toShow <= Capacity
  /\ logTick \in Nat

ViewInv == MemoryInv /\ ViewTypes /\ RefreshInv /\ UndisturbedView /\ LogMatchesView

(* At first the screen and the memory show nothing.                        *)
LEMMA ViewInit == Init => ViewInv
<1> SUFFICES ASSUME Init PROVE ViewInv
  OBVIOUS
<1>1. MemoryInv
  BY ProcessInitInv DEF Init
<1>2. ViewTypes
  BY CapacityAssumption DEF Init, ViewTypes
<1>3. RefreshInv /\ UndisturbedView /\ LogMatchesView
  BY DEF Init, ProcessInit, RefreshInv, UndisturbedView, LogMatchesView
<1>4. QED
  BY <1>1, <1>2, <1>3 DEF ViewInv

(* A step of Radar, whatever it writes.                                    *)
LEMMA RadarKeepsView == ViewInv /\ Radar => ViewInv'
<1> SUFFICES ASSUME ViewInv, Radar PROVE ViewInv'
  OBVIOUS
<1>1. UNCHANGED displayVars /\ disturbed' = TRUE
  BY DEF Radar
<1>2. MemoryInv'
  BY ProcessStep DEF ViewInv, Radar
<1>3. ViewTypes' /\ UndisturbedView' /\ LogMatchesView'
  BY <1>1 DEF displayVars, ViewInv, ViewTypes, UndisturbedView, LogMatchesView
<1>4. RefreshInv'
  BY <1>1 DEF displayVars, ViewInv, RefreshInv
<1>5. QED
  BY <1>2, <1>3, <1>4 DEF ViewInv

(* One more record of the memory is shown: it is the next of the round.    *)
LEMMA OneMoreRecord ==
  ASSUME ViewInv, NEW shown \in Seq(PlaneInfo), Len(shown) < toShow
  PROVE  LET more == Append(shown, plane_data[Len(shown) + 1])
         IN  /\ more \in Seq(PlaneInfo) /\ Len(more) <= toShow
             /\ writerPc = "idle" /\ toShow = Len(lastSnapshot) /\ Prefix(shown)
                  => Prefix(more)
<1> DEFINE n == Len(shown)
           more == Append(shown, plane_data[n + 1])
<1>1. n \in Nat /\ n + 1 \in Slots /\ toShow \in Nat
  BY CapacityAssumption DEF ViewInv, ViewTypes, Slots
<1>2. plane_data[n + 1] \in PlaneInfo
  BY <1>1 DEF ViewInv, MemoryInv, MemoryTypes
<1>3. /\ more \in Seq(PlaneInfo) /\ Len(more) = n + 1 /\ DOMAIN more = 1 .. (n + 1)
      /\ more[n + 1] = plane_data[n + 1]
      /\ \A i \in 1 .. n : i \in DOMAIN shown /\ more[i] = shown[i]
  BY <1>1, <1>2
<1>4. ASSUME writerPc = "idle", toShow = Len(lastSnapshot), Prefix(shown)
      PROVE  Prefix(more)
  <2>1. n + 1 \in DOMAIN lastSnapshot
    BY <1>1, <1>4, SnapshotFits DEF ViewInv, MemoryInv, MemoryTypes
  <2>2. plane_data[n + 1] = lastSnapshot[n + 1]
    BY <1>4, <2>1 DEF ViewInv, MemoryInv, ProcessInv
  <2>3. \A i \in 1 .. (n + 1) : more[i] = lastSnapshot[i]
    BY <1>1, <1>3, <1>4, <2>2 DEF Prefix
  <2>4. QED
    BY <1>1, <1>3, <2>3 DEF Prefix
<1>5. QED
  BY <1>1, <1>3, <1>4

(* A complete prefix of the last round is the last round.                  *)
LEMMA CompletePrefix ==
  ASSUME ViewInv, NEW shown \in Seq(PlaneInfo), Prefix(shown),
         Len(shown) = toShow, toShow = Len(lastSnapshot)
  PROVE  shown = lastSnapshot
<1>1. lastSnapshot \in Seq(PlaneInfo)
  BY SnapshotFits DEF ViewInv, MemoryInv, MemoryTypes
<1>2. QED
  BY <1>1, PrefixIsAll DEF Prefix

(* A step of the Display's thread.                                         *)
LEMMA RefreshKeepsView == ViewInv /\ Refresh => ViewInv'
<1> SUFFICES ASSUME ViewInv, Refresh PROVE ViewInv'
  OBVIOUS
<1>0. UNCHANGED processVars
  BY DEF Refresh
<1>1. MemoryInv' /\ UNCHANGED <<writerPc, is_empty, count, plane_data, lastSnapshot>>
  BY <1>0 DEF processVars, writerVars, shmVars, ViewInv, MemoryInv, MemoryTypes, ProcessInv, Writing
<1>2. Len(printed) \in Nat /\ Len(logged) \in Nat /\ toShow \in Nat /\ logTick \in Nat
  BY DEF ViewInv, ViewTypes
<1> USE DEF Goto
<1>3. CASE Sleep
  <2>1. UNCHANGED <<toShow, printed, logged, logFailed, disturbed>>
    BY <1>3 DEF Sleep
  <2>2. displayPc = "sleeping" /\ displayPc' \in {"sleeping", "opening"}
    BY <1>3 DEF Sleep
  <2>3. logTick' \in Nat /\ logTick' # 0
    BY <1>2, <1>3, DisplayAssumption DEF Sleep
  <2>4. QED
    BY <1>1, <2>1, <2>2, <2>3
       DEF ViewInv, ViewTypes, RefreshInv, UndisturbedView, LogMatchesView
<1>4. CASE OpenMemory
  BY <1>1, <1>4 DEF OpenMemory, ViewInv, ViewTypes, RefreshInv, UndisturbedView, LogMatchesView
<1>5. CASE TestEmpty
  <2>1. /\ UNCHANGED <<tick, logTick, toShow, logged, logFailed>>
        /\ printed' = <<>> /\ displayPc = "testing"
        /\ displayPc' = IF is_empty THEN "sleeping" ELSE "counting"
        /\ ~disturbed' => writerPc = "idle"
    BY <1>5 DEF TestEmpty
  <2>2. writerPc = "idle" /\ is_empty => lastSnapshot = <<>>
    BY DEF ViewInv, MemoryInv, ProcessInv
  <2>3. logTick' # 0
    BY <2>1 DEF ViewInv, RefreshInv
  <2>4. UndisturbedView' /\ LogMatchesView'
    BY <1>1, <2>1, <2>2, <2>3 DEF UndisturbedView, LogMatchesView
  <2>5. RefreshInv'
    BY <1>1, <2>1, <2>3 DEF RefreshInv
  <2>6. QED
    BY <1>1, <2>1, <2>4, <2>5 DEF ViewInv, ViewTypes
<1>6. CASE ReadCount
  <2>1. /\ UNCHANGED <<tick, logTick, printed, logged, logFailed, disturbed>>
        /\ displayPc = "counting" /\ displayPc' = "printing" /\ toShow' = count
    BY <1>6 DEF ReadCount
  <2>2. printed' = <<>> /\ count \in Nat /\ count <= Capacity
    BY <2>1 DEF ViewInv, RefreshInv, MemoryInv, MemoryTypes
  <2>3. ~disturbed => writerPc = "idle" /\ count = Len(lastSnapshot)
    BY <2>1 DEF ViewInv, RefreshInv, MemoryInv, ProcessInv
  <2>4. RefreshInv'
    BY <1>1, <2>1, <2>2, <2>3 DEF ViewInv, RefreshInv, Prefix
  <2>5. QED
    BY <1>1, <2>1, <2>2, <2>4 DEF ViewInv, ViewTypes, UndisturbedView, LogMatchesView
<1>7. CASE PrintRecord
  <2>1. /\ UNCHANGED <<tick, logTick, toShow, logged, logFailed, disturbed>>
        /\ displayPc = "printing" /\ displayPc' = "printing"
        /\ Len(printed) < toShow
        /\ printed' = Append(printed, plane_data[Len(printed) + 1])
    BY <1>7 DEF PrintRecord
  <2>2. printed \in Seq(PlaneInfo)
    BY DEF ViewInv, ViewTypes
  <2>3. /\ printed' \in Seq(PlaneInfo) /\ Len(printed') <= toShow
        /\ writerPc = "idle" /\ toShow = Len(lastSnapshot) /\ Prefix(printed)
             => Prefix(printed')
    BY <2>1, <2>2, OneMoreRecord
  <2>4. RefreshInv'
    BY <1>1, <2>1, <2>3 DEF ViewInv, RefreshInv, Prefix
  <2>5. QED
    BY <1>1, <2>1, <2>3, <2>4 DEF ViewInv, ViewTypes, UndisturbedView, LogMatchesView
<1>8. CASE EndRefresh
  <2>1. /\ UNCHANGED <<tick, logTick, toShow, printed, logged, logFailed, disturbed>>
        /\ displayPc = "printing" /\ displayPc' = "sleeping" /\ Len(printed) = toShow
    BY <1>8 DEF EndRefresh
  <2>2. ~disturbed => printed = lastSnapshot
    BY <2>1, CompletePrefix DEF ViewInv, ViewTypes, RefreshInv
  <2>3. QED
    BY <1>1, <2>1, <2>2 DEF ViewInv, ViewTypes, RefreshInv, UndisturbedView, LogMatchesView
<1>9. CASE OpenLog
  <2>1. /\ UNCHANGED <<tick, toShow, printed, disturbed>> /\ logTick' = 0
        /\ displayPc = "printing" /\ Len(printed) = toShow
        /\ \/ displayPc' = "logging" /\ ~logFailed' /\ logged' = <<>>
           \/ displayPc' = "sleeping" /\ logFailed' /\ logged' = logged
    BY <1>9 DEF OpenLog
  <2>2. ~disturbed => /\ writerPc = "idle" /\ toShow = Len(lastSnapshot)
                      /\ Prefix(printed) /\ printed = lastSnapshot
    BY <2>1, CompletePrefix DEF ViewInv, ViewTypes, RefreshInv
  <2>3. RefreshInv'
    BY <1>1, <1>2, <2>1, <2>2 DEF RefreshInv, Prefix
  <2>4. ViewTypes'
    <3>1. logged' \in Seq(PlaneInfo)
      <4>1. logged' = <<>> \/ logged' = logged
        BY <2>1, Zenon
      <4>2. <<>> \in Seq(PlaneInfo) /\ logged \in Seq(PlaneInfo)
        BY DEF ViewInv, ViewTypes
      <4>3. QED
        BY <4>1, <4>2
    <3>2. toShow' = toShow /\ printed' = printed /\ logTick' \in Nat
      BY <2>1
    <3>3. QED
      BY <3>1, <3>2 DEF ViewInv, ViewTypes
  <2>5. UndisturbedView' /\ LogMatchesView'
    BY <1>1, <2>1, <2>2 DEF UndisturbedView, LogMatchesView
  <2>6. QED
    BY <1>1, <2>3, <2>4, <2>5 DEF ViewInv
<1>10. CASE LogRecord
  <2>1. /\ UNCHANGED <<tick, logTick, toShow, printed, logFailed, disturbed>>
        /\ displayPc = "logging" /\ displayPc' = "logging"
        /\ Len(logged) < toShow
        /\ logged' = Append(logged, plane_data[Len(logged) + 1])
    BY <1>10 DEF LogRecord, ToLog
  <2>2. logged \in Seq(PlaneInfo)
    BY DEF ViewInv, ViewTypes
  <2>3. /\ logged' \in Seq(PlaneInfo) /\ Len(logged') <= toShow
        /\ writerPc = "idle" /\ toShow = Len(lastSnapshot) /\ Prefix(logged)
             => Prefix(logged')
    BY <2>1, <2>2, OneMoreRecord
  <2>4. RefreshInv'
    BY <1>1, <2>1, <2>3 DEF ViewInv, RefreshInv, Prefix
  <2>5. QED
    BY <1>1, <2>1, <2>3, <2>4 DEF ViewInv, ViewTypes, UndisturbedView, LogMatchesView
<1>11. CASE EndLog
  <2>1. /\ UNCHANGED <<tick, logTick, toShow, printed, logged, logFailed, disturbed>>
        /\ displayPc = "logging" /\ displayPc' = "sleeping" /\ Len(logged) >= toShow
    BY <1>11 DEF EndLog, ToLog
  <2>2. Len(logged) = toShow /\ Len(printed) = toShow
    BY <1>2, <2>1 DEF ViewInv, RefreshInv
  <2>3. ~disturbed => printed = lastSnapshot /\ logged = lastSnapshot
    BY <2>1, <2>2, CompletePrefix DEF ViewInv, ViewTypes, RefreshInv
  <2>4. QED
    BY <1>1, <2>1, <2>2, <2>3 DEF ViewInv, ViewTypes, RefreshInv, UndisturbedView, LogMatchesView
<1>12. QED
  BY <1>3, <1>4, <1>5, <1>6, <1>7, <1>8, <1>9, <1>10, <1>11 DEF Refresh

(* The inductive invariant of the plan view.                               *)
LEMMA ViewInvariant == Spec => []ViewInv
<1>1. ViewInv /\ [Next]_vars => ViewInv'
  <2> SUFFICES ASSUME ViewInv, [Next]_vars PROVE ViewInv'
    OBVIOUS
  <2>1. CASE UNCHANGED vars
    BY <2>1 DEF vars, processVars, writerVars, shmVars, displayVars, ViewInv, MemoryInv,
                MemoryTypes, ProcessInv, Writing, ViewTypes, RefreshInv, Prefix,
                UndisturbedView, LogMatchesView
  <2>2. QED
    BY <2>1, RadarKeepsView, RefreshKeepsView DEF Next
<1>2. QED
  BY <1>1, ViewInit, PTL DEF Spec

(* A refresh that no write overlaps shows, and logs, exactly the last      *)
(* round of Radar, also when that round was empty.                         *)
THEOREM UndisturbedViewCorrect == Spec => []UndisturbedView
<1>1. ViewInv => UndisturbedView
  BY DEF ViewInv
<1>2. QED
  BY <1>1, ViewInvariant, PTL

(* A logged snapshot has as many records as the plan view it was taken     *)
(* with, whatever Radar writes in between.                                 *)
THEOREM LogMatchesViewCorrect == Spec => []LogMatchesView
<1>1. ViewInv => LogMatchesView
  BY DEF ViewInv
<1>2. QED
  BY <1>1, ViewInvariant, PTL

-----------------------------------------------------------------------------
(* When a snapshot is logged.                                              *)

(* A refresh comes every DISPLAY_INTERVAL_S seconds, so the seconds since  *)
(* the last snapshot and those since the last refresh differ by whole      *)
(* intervals. Once a picture was shown the object exists for good.         *)
Touching == {"testing", "counting", "printing", "logging"}

LogInv ==
  /\ tick \in 0 .. DISPLAY_INTERVAL_S - 1 /\ logTick \in Nat
  /\ displayPc # "sleeping" => tick = 0
  /\ logTick < LOG_INTERVAL_S => \E n \in Nat : logTick = n * DISPLAY_INTERVAL_S + tick
  /\ displayPc = "logging" => logTick < LOG_INTERVAL_S
  /\ printed # <<>> \/ displayPc \in Touching => writerPc \notin {"absent", "unsized"}
  /\ LogNotOverdue

(* One more interval.                                                      *)
LEMMA OneMoreInterval ==
  ASSUME NEW d \in Nat, NEW n \in Nat
  PROVE  (n + 1) * d = n * d + d /\ n * d \in Nat
  OBVIOUS

(* A multiple of the interval that is less than another is less by a whole *)
(* interval.                                                               *)
LEMMA NextMultiple ==
  ASSUME NEW d \in Nat \ {0}, NEW m \in Nat, NEW n \in Nat, m * d < n * d
  PROVE  (m + 1) * d <= n * d
<1>1. m < n
  <2>1. CASE n <= m
    <3>1. PICK e \in Nat : m = n + e
      BY <2>1
    <3>2. m * d = n * d + e * d /\ e * d >= 0
      BY <3>1
    <3> QED BY <3>2
  <2> QED BY <2>1
<1>2. PICK e \in Nat : n = (m + 1) + e
  <2>1. n - (m + 1) \in Nat
    BY <1>1
  <2> QED BY <2>1
<1>3. n * d = (m + 1) * d + e * d /\ e * d >= 0
  BY <1>2
<1> QED BY <1>3

(* A second passes, and perhaps a refresh is due.                          *)
LEMMA SleepKeepsLog ==
  ASSUME LogInv, Sleep, UNCHANGED writerPc
  PROVE  LogInv'
<1> USE DisplayAssumption DEF LogInv, Sleep, Goto, TickAfter
<1>1. /\ tick' \in 0 .. DISPLAY_INTERVAL_S - 1 /\ logTick' \in Nat /\ printed' = printed
      /\ displayPc' # "sleeping" => displayPc' = "opening" /\ tick' = 0
  OBVIOUS
<1>2. ASSUME logTick' < LOG_INTERVAL_S
      PROVE  \E n \in Nat : logTick' = n * DISPLAY_INTERVAL_S + tick'
  <2>1. logTick' = logTick + 1 /\ logTick < LOG_INTERVAL_S
    BY <1>2
  <2>2. PICK n \in Nat : logTick = n * DISPLAY_INTERVAL_S + tick
    BY <2>1
  <2>3. CASE tick + 1 < DISPLAY_INTERVAL_S
    BY <2>1, <2>2, <2>3
  <2>4. CASE ~(tick + 1 < DISPLAY_INTERVAL_S)
    <3>1. tick' = 0 /\ tick + 1 = DISPLAY_INTERVAL_S
      BY <2>4
    <3>2. /\ (n + 1) * DISPLAY_INTERVAL_S = n * DISPLAY_INTERVAL_S + DISPLAY_INTERVAL_S
          /\ n * DISPLAY_INTERVAL_S \in Nat
      BY OneMoreInterval
    <3> HIDE DisplayAssumption DEF LogInv, Sleep, TickAfter
    <3>3. \A a \in Nat : logTick = a + tick /\ tick \in Nat =>
            logTick' = (a + DISPLAY_INTERVAL_S) + tick'
      BY <2>1, <3>1
    <3>4. logTick' = (n + 1) * DISPLAY_INTERVAL_S + tick'
      BY <2>2, <3>2, <3>3 DEF LogInv
    <3> QED BY <3>4
  <2> QED BY <2>3, <2>4
<1>3. ASSUME displayPc' = "sleeping", printed' # <<>>
      PROVE  logTick' < LOG_INTERVAL_S
  <2>1. logTick < LOG_INTERVAL_S /\ tick + 1 < DISPLAY_INTERVAL_S
    BY <1>3 DEF LogNotOverdue
  <2>2. PICK m \in Nat : logTick = m * DISPLAY_INTERVAL_S + tick
    BY <2>1
  <2>3. PICK n \in 1 .. LOG_INTERVAL_S : LOG_INTERVAL_S = n * DISPLAY_INTERVAL_S
    OBVIOUS
  <2>4. m * DISPLAY_INTERVAL_S < n * DISPLAY_INTERVAL_S
    BY <2>1, <2>2, <2>3
  <2>5. (m + 1) * DISPLAY_INTERVAL_S <= n * DISPLAY_INTERVAL_S
    BY <2>4, NextMultiple
  <2> QED BY <2>1, <2>2, <2>3, <2>5
<1> QED BY <1>1, <1>2, <1>3 DEF LogNotOverdue, Touching

(* The rest of a refresh takes no time.                                    *)
LEMMA RefreshKeepsLog ==
  ASSUME LogInv, Refresh
  PROVE  LogInv'
<1> USE DisplayAssumption DEF Goto
<1>1. writerPc' = writerPc
  BY DEF Refresh, processVars, writerVars
<1>2. CASE Sleep
  BY <1>1, <1>2, SleepKeepsLog
<1>3. CASE OpenMemory \/ TestEmpty \/ ReadCount \/ PrintRecord \/ EndRefresh \/ LogRecord \/ EndLog
  <2>1. UNCHANGED <<tick, logTick>> /\ displayPc # "sleeping"
    BY <1>3 DEF OpenMemory, TestEmpty, ReadCount, PrintRecord, EndRefresh, LogRecord, EndLog
  <2>2. printed' # <<>> \/ displayPc' \in Touching => writerPc \notin {"absent", "unsized"}
    BY <1>3 DEF OpenMemory, TestEmpty, ReadCount, PrintRecord, EndRefresh, LogRecord, EndLog,
       LogInv, Touching
  <2>3. tick = 0 /\ LogNotOverdue' /\ (displayPc' = "logging" => displayPc = "logging")
    BY <1>3, <2>1 DEF OpenMemory, TestEmpty, ReadCount, PrintRecord, EndRefresh, LogRecord, EndLog,
       LogInv, LogNotOverdue, Touching, SnapshotDue
  <2> QED BY <1>1, <2>1, <2>2, <2>3 DEF LogInv
<1>4. CASE OpenLog
  <2>1. /\ logTick' = 0 /\ tick = 0 /\ tick' = 0 /\ displayPc = "printing"
        /\ writerPc \notin {"absent", "unsized"}
    BY <1>4 DEF OpenLog, LogInv, Touching
  <2>2. logTick' = 0 * DISPLAY_INTERVAL_S + tick'
    BY <2>1
  <2> QED BY <1>1, <2>1, <2>2 DEF LogInv, LogNotOverdue
<1> QED BY <1>2, <1>3, <1>4 DEF Refresh

(* As long as there is a picture to show, a snapshot is logged at least    *)
(* every LOG_INTERVAL_S seconds, if the log can be opened.                 *)
THEOREM LogNotOverdueCorrect == Spec => []LogNotOverdue
<1>1. Init => LogInv
  <2> SUFFICES ASSUME Init PROVE LogInv
    OBVIOUS
  <2>1. logTick = 0 * DISPLAY_INTERVAL_S + tick
    BY DisplayAssumption DEF Init
  <2> QED BY <2>1, DisplayAssumption DEF Init, LogInv, LogNotOverdue, Touching
<1>2. LogInv /\ [Next]_vars => LogInv'
  <2> SUFFICES ASSUME LogInv, [Next]_vars PROVE LogInv'
    OBVIOUS
  <2>1. CASE Refresh
    BY <2>1, RefreshKeepsLog
  <2>2. CASE Radar
    <3>1. UNCHANGED displayVars
      BY <2>2 DEF Radar
    <3>2. writerPc' \in {"absent", "unsized"} => writerPc \in {"absent", "unsized"}
      BY <2>2 DEF Radar, ProcessNext, OpenObject, Construct, Clear, Kill, WriterNext, PutTimestamp,
         PutIsEmpty, PutCount, PutRecord, EndWrite, Erase, WriterGoto
    <3> QED BY <3>1, <3>2 DEF LogInv, LogNotOverdue, Touching, displayVars
  <2>3. CASE UNCHANGED vars
    BY <2>3 DEF LogInv, LogNotOverdue, Touching, vars, displayVars, processVars, writerVars
  <2> QED BY <2>1, <2>2, <2>3 DEF Next
<1>3. LogInv => LogNotOverdue
  BY DEF LogInv
<1> QED BY <1>1, <1>2, <1>3, PTL DEF Spec
=============================================================================
