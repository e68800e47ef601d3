------------------------------- MODULE Display --------------------------------
(***************************************************************************)
(* The Display's first thread (displayAirspace), which prints the plan     *)
(* view and logs snapshots, next to the process that writes the shared     *)
(* memory (module RadarProcess). Its second thread is in module Monitor.   *)
(*                                                                         *)
(* It takes no lock either. Unlike the monitor it reads the count once,    *)
(* before the records, and every record of a refresh that is logged twice: *)
(* for the screen and for the log, with Radar writing in between.          *)
(*                                                                         *)
(* displayPc is where the thread is:                                       *)
(*   sleeping    in sleep_for(1 second)                                    *)
(*   opening     about to open and map the memory                          *)
(*   testing     about to load is_empty                                    *)
(*   counting    about to load count                                       *)
(*   printing    in the loop that prints the records                       *)
(*   logging     in the loop that logs them                                *)
(*   terminated  the process was ended by an access beyond the object      *)
(* running is set before the thread starts and cleared only after it has   *)
(* been joined, so the loop does not end.                                  *)
(***************************************************************************)
EXTENDS RadarProcess

CONSTANTS
  DISPLAY_INTERVAL_S, LOG_INTERVAL_S   \* 5 and 30

ASSUME DisplayAssumption ==
  /\ DISPLAY_INTERVAL_S \in Nat \ {0} /\ LOG_INTERVAL_S \in Nat \ {0}
  /\ \E n \in 1 .. LOG_INTERVAL_S : LOG_INTERVAL_S = n * DISPLAY_INTERVAL_S

VARIABLES
  displayPc, tick,
  logTick,      \* stops at LOG_INTERVAL_S, which is all the code compares it with
  toShow,       \* the local count
  printed,      \* the records on the screen
  logged,       \* the records of the last snapshot in the log
  logFailed,    \* whether the log could not be opened when it was last due
  disturbed     \* history: Radar wrote, or was writing, since is_empty was loaded

displayVars == <<displayPc, tick, logTick, toShow, printed, logged, logFailed>>
vars == <<processVars, displayVars, disturbed>>

TypeOK ==
  /\ ShmTypeOK
  /\ displayPc \in {"sleeping", "opening", "testing", "counting", "printing",
                    "logging", "terminated"}
  /\ tick \in 0 .. DISPLAY_INTERVAL_S - 1
  /\ logTick \in 0 .. LOG_INTERVAL_S
  /\ toShow \in 0 .. Capacity
  /\ \A shown \in {printed, logged} : shown \in Seq(PlaneInfo) /\ Len(shown) <= Capacity
  /\ logFailed \in BOOLEAN

Init ==
  /\ ProcessInit
  /\ displayPc = "sleeping" /\ tick = 0 /\ logTick = 0 /\ toShow = 0
  /\ printed = <<>> /\ logged = <<>> /\ logFailed = FALSE
  /\ disturbed = FALSE

Radar ==
  /\ ProcessNext
  /\ disturbed' = TRUE
  /\ UNCHANGED displayVars

-----------------------------------------------------------------------------

Goto(from, to) == displayPc = from /\ displayPc' = to

TickAfter == IF tick + 1 < DISPLAY_INTERVAL_S THEN tick + 1 ELSE 0

Sleep ==
  /\ Goto("sleeping", IF tick + 1 < DISPLAY_INTERVAL_S THEN "sleeping" ELSE "opening")
  /\ tick' = TickAfter
  /\ logTick' = IF logTick < LOG_INTERVAL_S THEN logTick + 1 ELSE logTick
  /\ UNCHANGED <<toShow, printed, logged, logFailed, disturbed>>

(* Without an object the refresh is skipped. If the object has no size yet *)
(* mmap fails, and the refresh is skipped, or the first access does, which *)
(* ends the process.                                                       *)
OpenMemory ==
  /\ \/ writerPc \in {"absent", "unsized"} /\ Goto("opening", "sleeping")
     \/ writerPc = "unsized" /\ Goto("opening", "terminated")
     \/ writerPc \notin {"absent", "unsized"} /\ Goto("opening", "testing")
  /\ UNCHANGED <<tick, logTick, toShow, printed, logged, logFailed, disturbed>>

TestEmpty ==
  /\ Goto("testing", IF is_empty THEN "sleeping" ELSE "counting")
  /\ printed' = <<>>
  /\ disturbed' = (writerPc # "idle")
  /\ UNCHANGED <<tick, logTick, toShow, logged, logFailed>>

ReadCount_Once ==
  /\ Goto("counting", "printing")
  /\ toShow' = IF toShow = 0 THEN count ELSE toShow
  /\ UNCHANGED <<tick, logTick, printed, logged, logFailed, disturbed>>

ReadCount ==
  /\ Goto("counting", "printing")
  /\ toShow' = count
  /\ UNCHANGED <<tick, logTick, printed, logged, logFailed, disturbed>>

PrintRecord ==
  /\ Len(printed) < toShow
  /\ Goto("printing", "printing")
  /\ printed' = Append(printed, plane_data[Len(printed) + 1])
  /\ UNCHANGED <<tick, logTick, toShow, logged, logFailed, disturbed>>

SnapshotDue_After == logTick > LOG_INTERVAL_S
SnapshotDue == logTick >= LOG_INTERVAL_S

EndRefresh ==
  /\ Len(printed) = toShow /\ ~SnapshotDue
  /\ Goto("printing", "sleeping")
  /\ UNCHANGED <<tick, logTick, toShow, printed, logged, logFailed, disturbed>>

(* A snapshot that is due is not tried again when the log does not open.   *)
OpenLog ==
  /\ Len(printed) = toShow /\ SnapshotDue
  /\ logTick' = 0
  /\ \/ Goto("printing", "logging") /\ logFailed' = FALSE /\ logged' = <<>>
     \/ Goto("printing", "sleeping") /\ logFailed' = TRUE /\ UNCHANGED logged
  /\ UNCHANGED <<tick, toShow, printed, disturbed>>

ToLog_CountedAnew == count
ToLog == toShow

LogRecord ==
  /\ Len(logged) < ToLog
  /\ Goto("logging", "logging")
  /\ logged' = Append(logged, plane_data[Len(logged) + 1])
  /\ UNCHANGED <<tick, logTick, toShow, printed, logFailed, disturbed>>

EndLog ==
  /\ Len(logged) >= ToLog
  /\ Goto("logging", "sleeping")
  /\ UNCHANGED <<tick, logTick, toShow, printed, logged, logFailed, disturbed>>

Refresh ==
  /\ \/ Sleep \/ OpenMemory \/ TestEmpty \/ ReadCount
     \/ PrintRecord \/ EndRefresh \/ OpenLog \/ LogRecord \/ EndLog
  /\ UNCHANGED processVars

Next == Radar \/ Refresh

Spec == Init /\ [][Next]_vars
FairSpec == Spec /\ WF_vars(Refresh)

-----------------------------------------------------------------------------
(* Properties.                                                             *)

(* A refresh that no write overlaps shows exactly Radar's last round, also *)
(* when that round was empty, and so does the snapshot logged after it.    *)
UndisturbedView ==
  displayPc = "sleeping" /\ ~disturbed =>
    /\ printed = lastSnapshot
    /\ logTick = 0 /\ ~logFailed => logged = lastSnapshot

(* A snapshot has as many records as the plan view of the same refresh,    *)
(* whatever Radar writes in between: the count is read once for both.      *)
LogMatchesView ==
  displayPc = "sleeping" /\ logTick = 0 /\ ~logFailed => Len(logged) = Len(printed)

(* What makes both inductive, next to ProcessInv. As long as Radar does    *)
(* not write, what is shown is a prefix of its last round, and whatever it *)
(* writes, the plan view that is logged is complete.                       *)
Prefix(shown) ==
  Len(shown) <= toShow /\ \A i \in DOMAIN shown : shown[i] = lastSnapshot[i]

RefreshInv ==
  /\ displayPc \in {"opening", "testing", "counting", "printing"} => logTick # 0
  /\ displayPc = "counting" => printed = <<>>
  /\ displayPc = "printing" => Len(printed) <= toShow
  /\ displayPc = "logging" =>
       ~logFailed /\ Len(printed) = toShow /\ Len(logged) <= toShow
  /\ ~disturbed =>
       /\ displayPc \in {"counting", "printing", "logging"} => writerPc = "idle"
       /\ displayPc \in {"printing", "logging"} =>
            toShow = Len(lastSnapshot) /\ Prefix(printed)
       /\ displayPc = "logging" => Prefix(logged)
       /\ displayPc = "opening" => printed = lastSnapshot

(* "log airspace snapshot every 30 seconds (per spec)"                     *)
(* (DisplaySystem.cpp:11): as long as the last refresh found aircraft to   *)
(* show, fewer than 30 seconds have passed since a snapshot was logged or  *)
(* the log failed to open, although snapshots are taken on refreshes only  *)
(* and a refresh without a picture takes none.                             *)
LogNotOverdue ==
  displayPc = "sleeping" /\ printed # <<>> => logTick < LOG_INTERVAL_S

(* A picture that stands is on the screen again and again, and in the log, *)
(* if it is not empty and the log can be opened.                           *)
StandingPicture == writerPc = "idle" /\ displayPc # "terminated"

StandingPictureShown ==
  <>[]StandingPicture =>
    []<>(/\ displayPc = "sleeping"
         /\ printed = lastSnapshot
         /\ logged = lastSnapshot \/ lastSnapshot = <<>> \/ logFailed)
=============================================================================
