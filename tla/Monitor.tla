------------------------------- MODULE Monitor --------------------------------
(***************************************************************************)
(* ComputerSystem's monitoring thread (initializeSharedMemory,             *)
(* monitorAirspace, checkCollision, sendCollisionToDisplay) and the        *)
(* Display's thread that receives its alerts, next to the process that     *)
(* writes the shared memory (module RadarProcess).                         *)
(*                                                                         *)
(* The reader takes no lock: it loads is_empty, then the timestamp, then   *)
(* for every record first the count, again, and then the record, and Radar *)
(* may write between any two of these steps.                               *)
(*                                                                         *)
(* monitorPc is where the monitoring thread is:                            *)
(*   opening     retrying shm_open                                         *)
(*   waiting     the loop before the first aircraft                        *)
(*   testing     about to load is_empty in the main loop                   *)
(*   timing      about to read the timestamp                               *)
(*   counting    about to compare i with count                             *)
(*   copying     about to copy plane_data[i]                               *)
(*   checking    in checkCollision                                         *)
(*   opened      about to name_open the Display                            *)
(*   blocked     in MsgSend to the Display                                 *)
(*   sleeping    in timer.waitTimer()                                      *)
(*   stopped     has set running to false and ended                        *)
(*   terminated  an exception left the thread: the process is gone         *)
(***************************************************************************)
EXTENDS RadarProcess, CollisionCheck

CONSTANT TimeConstraint   \* timeConstraintCollisionFreq, 180 at first

ASSUME MonitorAssumption ==
  /\ TimeConstraint \in Int
  /\ LastTime \in Nat

VARIABLES
  monitorPc, plane_data_vector, readTime, running, msg_to_send,
  displayUp,      \* whether the channel "display" is attached
  shown,          \* the pairs of the last alert that the Display printed
  disturbed,      \* history: Radar wrote, or was writing, since the reading began
  everWritten     \* history: Radar has written an aircraft

monitorVars == <<monitorPc, plane_data_vector, readTime, running, msg_to_send>>
displayVars == <<displayUp, shown>>
historyVars == <<disturbed, everWritten>>
vars == <<processVars, monitorVars, displayVars, historyVars>>

Reading == {"timing", "counting", "copying"}

TypeOK ==
  /\ ShmTypeOK
  /\ monitorPc \in Reading \cup {"opening", "waiting", "testing", "checking",
       "opened", "blocked", "sleeping", "stopped", "terminated"}
  /\ plane_data_vector \in Seq(PlaneInfo)
  /\ readTime \in 0 .. LastTime
  /\ running \in BOOLEAN /\ displayUp \in BOOLEAN
  /\ \A alert \in {msg_to_send, shown} :
       /\ alert \in Seq((Planes \cup {NoPlane}) \X (Planes \cup {NoPlane}))
       /\ Len(alert) <= PairsPerMessage

Init ==
  /\ ProcessInit
  /\ monitorPc = "opening" /\ plane_data_vector = <<>> /\ readTime = 0
  /\ running = TRUE /\ msg_to_send = <<>>
  /\ displayUp = FALSE /\ shown = <<>>
  /\ disturbed = FALSE /\ everWritten = FALSE

Radar ==
  /\ ProcessNext
  /\ disturbed' = TRUE
  /\ everWritten' = (everWritten \/ pending # <<>>)
  /\ UNCHANGED <<monitorVars, displayVars>>

-----------------------------------------------------------------------------
(* The monitoring thread.                                                  *)

Goto(from, to) == monitorPc = from /\ monitorPc' = to

(* shm_open fails until the object is created. If it has no size yet, mmap *)
(* fails or the first access does, and either ends the process.            *)
OpenMemory ==
  /\ writerPc # "absent"
  /\ Goto("opening", IF writerPc = "unsized" THEN "terminated" ELSE "waiting")
  /\ UNCHANGED <<plane_data_vector, readTime, running, msg_to_send, historyVars>>

AwaitPlanes ==
  /\ ~is_empty
  /\ Goto("waiting", "testing")
  /\ UNCHANGED <<plane_data_vector, readTime, running, msg_to_send, historyVars>>

StopMonitoring ==
  /\ is_empty
  /\ Goto("testing", "stopped")
  /\ running' = FALSE
  /\ UNCHANGED <<plane_data_vector, readTime, msg_to_send, historyVars>>

BeginReading_KeepsVector ==
  /\ ~is_empty
  /\ Goto("testing", "timing")
  /\ disturbed' = (writerPc # "idle")
  /\ UNCHANGED <<plane_data_vector, readTime, running, msg_to_send, everWritten>>

BeginReading ==
  /\ ~is_empty
  /\ Goto("testing", "timing")
  /\ plane_data_vector' = <<>>
  /\ disturbed' = (writerPc # "idle")
  /\ UNCHANGED <<readTime, running, msg_to_send, everWritten>>

ReadTimestamp ==
  /\ Goto("timing", "counting")
  /\ readTime' = timestamp
  /\ UNCHANGED <<plane_data_vector, running, msg_to_send, historyVars>>

ReadCount_Inclusive ==
  /\ Goto("counting",
          IF Len(plane_data_vector) <= count THEN "copying"
          ELSE IF Len(plane_data_vector) > 1 THEN "checking" ELSE "sleeping")
  /\ UNCHANGED <<plane_data_vector, readTime, running, msg_to_send, historyVars>>

(* i < shared_mem->count, evaluated anew for every record. A vector of one *)
(* aircraft is not checked.                                                *)
ReadCount ==
  /\ Goto("counting",
          IF Len(plane_data_vector) < count THEN "copying"
          ELSE IF Len(plane_data_vector) > 1 THEN "checking" ELSE "sleeping")
  /\ UNCHANGED <<plane_data_vector, readTime, running, msg_to_send, historyVars>>

CopyRecord_NotAppended ==
  /\ Goto("copying", "counting")
  /\ UNCHANGED <<plane_data_vector, readTime, running, msg_to_send, historyVars>>

CopyRecord ==
  /\ Goto("copying", "counting")
  /\ plane_data_vector' =
       Append(plane_data_vector, plane_data[Len(plane_data_vector) + 1])
  /\ UNCHANGED <<readTime, running, msg_to_send, historyVars>>

CheckCollision_NeverSends ==
  /\ Goto("checking", "sleeping")
  /\ UNCHANGED <<plane_data_vector, readTime, running, msg_to_send, historyVars>>

CheckCollision ==
  /\ msg_to_send' = CollisionMessage(plane_data_vector, TimeConstraint)
  /\ Goto("checking", IF msg_to_send' # <<>> THEN "opened" ELSE "sleeping")
  /\ UNCHANGED <<plane_data_vector, readTime, running, historyVars>>

(* sendCollisionToDisplay throws when there is no Display.                 *)
OpenDisplay ==
  /\ Goto("opened", IF displayUp THEN "blocked" ELSE "terminated")
  /\ UNCHANGED <<plane_data_vector, readTime, running, msg_to_send, historyVars>>

WaitTimer ==
  /\ Goto("sleeping", "testing")
  /\ UNCHANGED <<plane_data_vector, readTime, running, msg_to_send, historyVars>>

Reader ==
  /\ \/ OpenMemory \/ AwaitPlanes \/ StopMonitoring \/ BeginReading
     \/ ReadTimestamp \/ ReadCount \/ CopyRecord
     \/ CheckCollision \/ OpenDisplay \/ WaitTimer
  /\ UNCHANGED <<processVars, displayVars>>

-----------------------------------------------------------------------------
(* The Display's listenForCollisions, and its end.                         *)

AttachDisplay ==
  /\ ~displayUp /\ displayUp' = TRUE
  /\ UNCHANGED <<shown, processVars, monitorVars, historyVars>>

(* MsgReceive, MsgReply, and the pairs of the message are printed. The     *)
(* alert always fits into the array of 50 pairs.                           *)
ReceiveAlert ==
  /\ displayUp
  /\ Goto("blocked", "sleeping")
  /\ shown' = msg_to_send
  /\ msg_to_send' = <<>>
  /\ UNCHANGED <<plane_data_vector, readTime, running, displayUp, processVars, historyVars>>

(* The Display's process is killed, and its screen with it. MsgSend to it  *)
(* returns -1, which the monitor reports and goes on from.                 *)
KillDisplay ==
  /\ displayUp /\ displayUp' = FALSE /\ shown' = <<>>
  /\ IF monitorPc = "blocked"
     THEN monitorPc' = "sleeping" /\ msg_to_send' = <<>>
          /\ UNCHANGED <<plane_data_vector, readTime, running>>
     ELSE UNCHANGED monitorVars
  /\ UNCHANGED <<processVars, historyVars>>

Next == Radar \/ Reader \/ AttachDisplay \/ ReceiveAlert \/ KillDisplay

Spec == Init /\ [][Next]_vars
FairSpec == Spec /\ WF_vars(Reader) /\ WF_vars(ReceiveAlert)

-----------------------------------------------------------------------------
(* Properties.                                                             *)

HasReadPcs == {"checking", "opened", "blocked", "sleeping"}
HasRead == monitorPc \in HasReadPcs

(* The reader does not leave plane_data, although the count it compares    *)
(* its index with may be another one for each record, and another than     *)
(* that of the records.                                                    *)
ReadsInBounds ==
  /\ count <= Capacity
  /\ Len(plane_data_vector) <= Capacity
  /\ monitorPc = "copying" => Len(plane_data_vector) < Capacity

(* A reading that no write overlaps sees exactly one whole round, although *)
(* it takes the count anew for every record and the timestamp before.      *)
UndisturbedRead == HasRead /\ ~disturbed => plane_data_vector = lastSnapshot

(* What makes it inductive, next to ProcessInv: as long as Radar does not  *)
(* write, the vector is a prefix of the last round.                        *)
ReaderInv ==
  ~disturbed /\ monitorPc \in Reading \cup HasReadPcs =>
    /\ writerPc = "idle"
    /\ Len(plane_data_vector) <= count
    /\ monitorPc = "copying" => Len(plane_data_vector) < count
    /\ HasRead => Len(plane_data_vector) = count
    /\ \A i \in DOMAIN plane_data_vector : plane_data_vector[i] = lastSnapshot[i]

(* How often an alert names two aircraft, in either order.                 *)
TimesNamed(alert, p, q) ==
  Cardinality({k \in DOMAIN alert : alert[k] \in {<<p, q>>, <<q, p>>}})

FitsMessage(planes) ==
  Cardinality(CollisionPairs(planes, TimeConstraint)) <= PairsPerMessage

(* The pairs of aircraft in a picture; the record of an int 0 is none.     *)
AircraftPairs(planes) ==
  {pair \in (DOMAIN planes) \X (DOMAIN planes) :
     pair[1] < pair[2] /\ NoPlane \notin {planes[pair[1]].id, planes[pair[2]].id}}

(* An alert of an undisturbed reading names every two aircraft that are    *)
(* near each other now or at the end of the time constraint, and names     *)
(* them once ("every unique pair", ComputerSystem.cpp:133). One that is    *)
(* cut off at kMaxPairs may leave pairs out, and still names none twice    *)
(* and none that is not near.                                              *)
AlertNamesEachPairOnce ==
  monitorPc \in {"opened", "blocked"} /\ ~disturbed =>
    \A pair \in AircraftPairs(lastSnapshot) :
      LET r == lastSnapshot[pair[1]]
          s == lastSnapshot[pair[2]]
          named == TimesNamed(msg_to_send, r.id, s.id)
      IN  \/ named = IF checkAxes(r, s, TimeConstraint) THEN 1 ELSE 0
          \/ named = 0 /\ ~FitsMessage(lastSnapshot)

(* "No planes in airspace. Stopping monitoring." (ComputerSystem.cpp:97):  *)
(* monitoring, which never starts again, ends only when a round of Radar   *)
(* that is complete or being written found nobody, or when Radar's process *)
(* is gone or has not cleared the memory since. A round that merely        *)
(* shrinks, or is half written, does not end it.                           *)
StopsOnEmptyRound ==
  [][monitorPc = "testing" /\ monitorPc' = "stopped" =>
       \/ lastSnapshot = <<>>
       \/ writerPc \in {"count", "plane_data"} /\ pending = <<>>
       \/ writerPc \in {"clearTimestamp", "done", "killed", "newTimestamp"} \cup Constructing]_vars

(* The loop over the records ends although the count is read anew every    *)
(* time and Radar may write at any time, fast or never.                    *)
ReadingEnds == monitorPc \in Reading ~> monitorPc \notin Reading

(* The safety part of it: every step of a reading brings the end nearer,   *)
(* and no step of Radar puts it off, so a reading takes at most            *)
(* 2 * Capacity + 3 steps.                                                 *)
StepsLeft ==
  LET records == 2 * (Capacity - Len(plane_data_vector))
  IN  CASE monitorPc = "timing" -> records + 3
        [] monitorPc = "counting" -> records + 2
        [] monitorPc = "copying" -> records + 1
        [] OTHER -> 0

ReadingProgresses ==
  [][(monitorPc \in Reading) =>
       UNCHANGED monitorVars \/ (0 <= StepsLeft' /\ StepsLeft' < StepsLeft)]_vars

(* What ends the whole process, for it catches no exception: an object     *)
(* that is created and not yet sized when the thread starts, or a conflict *)
(* with no Display to send it to. A reading that no write overlaps and     *)
(* that holds no conflict of Radar's last round does not need the Display, *)
(* whatever earlier readings held.                                         *)
TerminatedWithCause ==
  [][(monitorPc # "terminated" /\ monitorPc' = "terminated") =>
       \/ monitorPc = "opening" /\ writerPc = "unsized"
       \/ /\ ~displayUp
          /\ ~disturbed => CollisionPairs(lastSnapshot, TimeConstraint) # {}]_vars

(* Radar's picture stays as it is, with room for all pairs in one message; *)
(* the Display runs, and so does the monitor.                              *)
StandingPicture ==
  /\ writerPc = "idle" /\ ~is_empty /\ displayUp
  /\ monitorPc \notin {"stopped", "terminated"}
  /\ FitsMessage(lastSnapshot)

(* Every conflict of a picture that stands is shown, in the end.           *)
StandingConflictShown ==
  <>[]StandingPicture =>
    <>[](\A pair \in AircraftPairs(lastSnapshot) :
           LET r == lastSnapshot[pair[1]]
               s == lastSnapshot[pair[2]]
           IN  checkAxes(r, s, TimeConstraint) => TimesNamed(shown, r.id, s.id) = 1)

(* "check every unique pair of planes" (ComputerSystem.cpp:133): no        *)
(* aircraft is in collision with itself.                                   *)
NoSelfAlert == \A k \in DOMAIN shown : shown[k][1] # shown[k][2]

(* "Waiting for planes in airspace" (ComputerSystem.cpp:92): the thread    *)
(* leaves its waiting loop only when Radar has published an aircraft, or   *)
(* when it finds the object created and not yet cleared, which reads as    *)
(* not empty: its process is still in the constructor, or was killed there.*)
WaitEndsWithPlanes ==
  [][monitorPc = "waiting" /\ monitorPc' = "testing" =>
       everWritten \/ writerPc \in Constructing \cup {"killed"}]_vars
=============================================================================
