---------------------------- MODULE SnapshotWriter ----------------------------
(***************************************************************************)
(* What Radar promises the readers of the shared memory, whatever the      *)
(* aircraft do: the abstract specification that the process of module      *)
(* Airspace implements, and the part of module RadarProcess that runs      *)
(* between its constructor and its end.                                    *)
(*                                                                         *)
(* A write is never one step: timestamp, is_empty, count and then the      *)
(* records, one by one. It starts only when the one before it is complete, *)
(* and publishes no aircraft twice. In the end everything is cleared, once *)
(* and for all, and again record by record and field by field.             *)
(***************************************************************************)
EXTENDS SharedMemory

CONSTANTS
  Snapshots,   \* what a round may yield
  LastTime     \* bound: the tick counter stops there

VARIABLES
  writerPc,    \* idle, the next field to write, or done
  pending,     \* the records of the write under way
  uncopied     \* the slots it has still to write

writerVars == <<writerPc, pending, uncopied, shmVars>>

WriterInit ==
  /\ ShmInit
  /\ writerPc = "idle"
  /\ pending = <<>>
  /\ uncopied = {}

WriterGoto(from, to) == writerPc = from /\ writerPc' = to

PutTimestamp ==
  /\ WriterGoto("idle", "is_empty")
  /\ pending' \in Snapshots
  /\ timestamp' \in timestamp .. LastTime
  /\ UNCHANGED <<uncopied, plane_data, count, is_empty>>

PutIsEmpty_OfOldCount ==
  /\ WriterGoto("is_empty", "count")
  /\ is_empty' = (count = 0)
  /\ UNCHANGED <<pending, uncopied, plane_data, count, timestamp>>

PutIsEmpty ==
  /\ WriterGoto("is_empty", "count")
  /\ is_empty' = (pending = <<>>)
  /\ UNCHANGED <<pending, uncopied, plane_data, count, timestamp>>

PutCount ==
  /\ WriterGoto("count", "plane_data")
  /\ count' = Len(pending)
  /\ uncopied' = DOMAIN pending
  /\ UNCHANGED <<pending, plane_data, is_empty, timestamp>>

PutRecord(i) ==
  /\ WriterGoto("plane_data", "plane_data")
  /\ uncopied' = uncopied \ {i}
  /\ plane_data' = [plane_data EXCEPT ![i] = pending[i]]
  /\ UNCHANGED <<pending, count, is_empty, timestamp>>

EndWrite ==
  /\ WriterGoto("plane_data", "idle")
  /\ uncopied = {}
  /\ pending' = <<>>
  /\ UNCHANGED <<uncopied, shmVars>>

(* clearSharedMemory, from pc[1] to pc[4]: the records (a memset, in no     *)
(* given order; one that is zero already is none to wait for), and when    *)
(* these are done one field after the other.                               *)
Clear(pc) ==
  /\ \/ /\ WriterGoto(pc[1], pc[1])
        /\ \E i \in Slots : /\ plane_data[i] # ZeroInfo
                            /\ plane_data' = [plane_data EXCEPT ![i] = ZeroInfo]
        /\ UNCHANGED <<count, is_empty, timestamp>>
     \/ WriterGoto(pc[1], pc[2]) /\ plane_data = ZeroPlaneData /\ count' = 0
        /\ UNCHANGED <<plane_data, is_empty, timestamp>>
     \/ WriterGoto(pc[2], pc[3]) /\ is_empty' = TRUE
        /\ UNCHANGED <<plane_data, count, timestamp>>
     \/ WriterGoto(pc[3], pc[4]) /\ timestamp' = 0
        /\ UNCHANGED <<plane_data, count, is_empty>>
  /\ UNCHANGED <<pending, uncopied>>

(* ~Radar, once its threads have ended.                                    *)
Erase ==
  \/ WriterGoto("idle", "clearPlaneData") /\ UNCHANGED <<pending, uncopied, shmVars>>
  \/ Clear(<<"clearPlaneData", "clearIsEmpty", "clearTimestamp", "done">>)

WriterNext ==
  \/ PutTimestamp \/ PutIsEmpty \/ PutCount
  \/ \E i \in uncopied : PutRecord(i)
  \/ EndWrite \/ Erase

WriterSpec == WriterInit /\ [][WriterNext]_writerVars
=============================================================================
