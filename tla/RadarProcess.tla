----------------------------- MODULE RadarProcess -----------------------------
(***************************************************************************)
(* The life of the process that writes the shared memory, as its readers   *)
(* meet it. The object is created without a size, then sized, which makes  *)
(* it zeros: to a reader, "not empty". Radar's constructor clears it, and  *)
(* from then on Radar writes snapshots (module SnapshotWriter). The        *)
(* process may be killed at any moment. The object is never unlinked, so   *)
(* the next process finds it as it was left, in the middle of a write or   *)
(* not, and it is for the constructor to make it good.                     *)
(***************************************************************************)
EXTENDS SnapshotWriter

ASSUME SnapshotsAssumption == Snapshots \subseteq PlaneSnapshots

VARIABLE lastSnapshot   \* history: what the memory holds between two writes

processVars == <<writerVars, lastSnapshot>>

ProcessInit ==
  /\ plane_data = ZeroPlaneData /\ count = 0 /\ is_empty = FALSE /\ timestamp = 0
  /\ writerPc = "absent" /\ pending = <<>> /\ uncopied = {}
  /\ lastSnapshot = <<>>

(* shm_open(O_CREAT), ftruncate and mmap of the constructor. A process     *)
(* that is killed before ftruncate is one that never gets there.           *)
OpenObject ==
  /\ \/ WriterGoto("absent", "unsized") \/ WriterGoto("unsized", "sized")
     \/ WriterGoto("killed", "sized") \/ WriterGoto("done", "sized")
  /\ UNCHANGED <<pending, uncopied, shmVars>>

Construct_LeavesMemory ==
  /\ WriterGoto("sized", "idle")
  /\ UNCHANGED <<pending, uncopied, shmVars>>

(* clearSharedMemory in Radar's constructor.                               *)
Construct == Clear(<<"sized", "newIsEmpty", "newTimestamp", "idle">>)
Constructing == {"sized", "newIsEmpty"}

Kill ==
  /\ writerPc \notin {"absent", "unsized", "done", "killed"}
  /\ writerPc' = "killed"
  /\ pending' = <<>> /\ uncopied' = {}
  /\ UNCHANGED shmVars

ProcessNext ==
  /\ OpenObject \/ Construct \/ Kill \/ WriterNext
  /\ lastSnapshot' = IF writerPc' = "idle" THEN pending ELSE lastSnapshot

Writing == {"is_empty", "count", "plane_data"}

(* What the fields hold, at each point of the life. Between two writes the *)
(* first count records are those of the last write, and during one those   *)
(* already copied are those of the write.                                  *)
ProcessInv ==
  /\ writerPc = "idle" =>
       /\ is_empty = (lastSnapshot = <<>>) /\ count = Len(lastSnapshot)
       /\ \A i \in DOMAIN lastSnapshot : plane_data[i] = lastSnapshot[i]
  /\ writerPc \in {"newIsEmpty", "newTimestamp"} => count = 0
  /\ writerPc = "newTimestamp" => is_empty
  /\ writerPc \in {"count", "plane_data"} => is_empty = (pending = <<>>)
  /\ IF writerPc \in Writing THEN pending \in Snapshots ELSE pending = <<>>
  /\ writerPc # "plane_data" => uncopied = {}
  /\ writerPc = "plane_data" =>
       /\ count = Len(pending)
       /\ \A i \in (DOMAIN pending) \ uncopied : plane_data[i] = pending[i]
=============================================================================
