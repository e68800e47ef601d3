---------------------------- MODULE SharedMemory ----------------------------
(***************************************************************************)
(* The shared memory object /radar_shared_mem_40290831 (struct             *)
(* SharedMemory). Radar is its only writer. No lock is shared between the  *)
(* processes, so a reader sees the fields change one at a time, in the     *)
(* order of the writer's statements: each write is a step of its own, and  *)
(* so is each record of a memcpy, whose order is open. A record is written *)
(* whole. The field "start" is only ever cleared and never read; it is     *)
(* left out.                                                               *)
(***************************************************************************)
EXTENDS Messages

CONSTANT Capacity   \* the length of plane_data (100 in the code)

(* No code checks the number of planes against the length of plane_data:   *)
(* the input must respect it.                                              *)
ASSUME CapacityAssumption == Capacity \in Nat /\ Cardinality(Planes) <= Capacity

VARIABLES
  plane_data,   \* the array of records
  count,        \* how many of them are valid
  is_empty,     \* the flag the readers test first
  timestamp     \* Radar's tick counter at the last write

shmVars == <<plane_data, count, is_empty, timestamp>>

Slots == 1 .. Capacity
ZeroPlaneData == [i \in Slots |-> ZeroInfo]

(* What a reader that takes the whole structure at once would list.        *)
Listed == {plane_data[i].id : i \in {j \in Slots : j <= count}}

(* A round asks each aircraft at most once. The record of an int 0, which  *)
(* is what an aircraft that mistakes the request answers, may recur.       *)
PlaneSnapshots ==
  {s \in Seq(PlaneInfo) :
     /\ Len(s) <= Capacity
     /\ \A i, j \in DOMAIN s : s[i].id = s[j].id => i = j \/ s[i].id = NoPlane}

ShmTypeOK ==
  /\ plane_data \in [Slots -> PlaneInfo]
  /\ count \in Nat
  /\ is_empty \in BOOLEAN
  /\ timestamp \in Nat

(* A new object is all zeros; clearSharedMemory then sets the flag.        *)
ShmInit ==
  /\ plane_data = ZeroPlaneData
  /\ count = 0
  /\ is_empty = TRUE
  /\ timestamp = 0
=============================================================================
