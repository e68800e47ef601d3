-------------------------- MODULE AirspaceSnapshots ---------------------------
(***************************************************************************)
(* Module Airspace implements SnapshotWriter: of everything that happens   *)
(* among the aircraft and the Radar threads, the readers of the shared     *)
(* memory see only writes of whole rounds, one after the other.            *)
(***************************************************************************)
EXTENDS Airspace

Clearing == {"clearPlaneData", "clearIsEmpty", "clearTimestamp", "done"}
Writing == {"is_empty", "count", "plane_data"}

Writer == INSTANCE SnapshotWriter WITH
  Snapshots <- PlaneSnapshots, LastTime <- MaxTick,
  writerPc <- IF mainPc \in Clearing THEN mainPc
              ELSE IF pollPc \in Writing THEN pollPc ELSE "idle",
  pending <- IF pollPc \in Writing THEN Source ELSE <<>>,
  uncopied <- toCopy

(* What a round collects: the aircraft whose record is in the buffer is    *)
(* none of those that are still to be asked.                               *)
AskedOnce ==
  LET collected == planesInAirspaceData[inactiveBufferIndex]
  IN  /\ polled \notin unpolled
      /\ \A i \in DOMAIN collected :
           collected[i].id \notin (unpolled \cup {polled}) \ {NoPlane}
      /\ \A i, j \in DOMAIN collected :
           collected[i].id = collected[j].id => i = j \/ collected[i].id = NoPlane

(* The time that is published does not run back.                           *)
TimestampPast == timestamp <= tick_counter

(* Radar, with the aircraft and main, as a writer of snapshots: whole      *)
(* rounds, published in order, no aircraft twice, and at last cleared.     *)
ImplementsWriter == Writer!WriterSpec
=============================================================================
