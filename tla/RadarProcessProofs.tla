-------------------------- MODULE RadarProcessProofs --------------------------
(***************************************************************************)
(* What the shared memory holds at each point of the life of its writer,   *)
(* for every number of aircraft, every content of the rounds and every     *)
(* capacity: ProcessInv, with the types it needs, is preserved by every    *)
(* step of the process, killed and restarted or not. The proofs of the two *)
(* readers (MonitorProofs, DisplayProofs) rest on it.                      *)
(***************************************************************************)
EXTENDS RadarProcess, TLAPS

MemoryTypes ==
  /\ plane_data \in [Slots -> PlaneInfo]
  /\ count \in Nat /\ count <= Capacity
  /\ lastSnapshot \in PlaneSnapshots
  /\ uncopied \subseteq DOMAIN pending

MemoryInv == MemoryTypes /\ ProcessInv

(* A snapshot fits into plane_data.                                        *)
LEMMA SnapshotFits ==
  ASSUME NEW s \in PlaneSnapshots
  PROVE  /\ s \in Seq(PlaneInfo) /\ Len(s) \in Nat /\ Len(s) <= Capacity
         /\ DOMAIN s = 1 .. Len(s) /\ DOMAIN s \subseteq Slots
         /\ \A i \in DOMAIN s : s[i] \in PlaneInfo
<1>1. s \in Seq(PlaneInfo) /\ Len(s) <= Capacity /\ Capacity \in Nat
  BY CapacityAssumption DEF PlaneSnapshots
<1>2. QED
  BY <1>1 DEF Slots

(* Two sequences of records that agree are equal.                          *)
LEMMA PrefixIsAll ==
  ASSUME NEW s \in Seq(PlaneInfo), NEW t \in Seq(PlaneInfo), Len(s) = Len(t),
         \A i \in DOMAIN s : s[i] = t[i]
  PROVE  s = t
  OBVIOUS

(* The record of an int 0 is a record.                                     *)
LEMMA ZeroInfoTyped == ZeroInfo \in PlaneInfo
  BY DEF ZeroInfo, ZeroVector, PlaneInfo, Vector

(* A snapshot of no aircraft, and memory that is all zeros.                *)
LEMMA NothingIsTyped ==
  /\ <<>> \in PlaneSnapshots
  /\ ZeroPlaneData \in [Slots -> PlaneInfo]
  /\ 0 \in Nat /\ 0 <= Capacity
  BY ZeroInfoTyped, CapacityAssumption DEF PlaneSnapshots, ZeroPlaneData

(* At first there is nothing in the memory.                                *)
LEMMA ProcessInitInv == ProcessInit => MemoryInv
<1> SUFFICES ASSUME ProcessInit PROVE MemoryInv
  OBVIOUS
<1>1. MemoryTypes
  BY NothingIsTyped DEF ProcessInit, MemoryTypes
<1>2. ProcessInv
  BY DEF ProcessInit, ProcessInv, Writing
<1>3. QED
  BY <1>1, <1>2 DEF MemoryInv

(* Clearing the memory, in the constructor or in the destructor.           *)
LEMMA ClearKeepsInv ==
  ASSUME MemoryInv, Construct \/ Erase,
         lastSnapshot' = IF writerPc' = "idle" THEN pending ELSE lastSnapshot
  PROVE  MemoryInv'
<1>1. /\ UNCHANGED <<pending, uncopied>>
      /\ \/ UNCHANGED plane_data
         \/ \E i \in Slots : plane_data' = [plane_data EXCEPT ![i] = ZeroInfo]
      /\ count' \in {count, 0}
      /\ UNCHANGED is_empty \/ is_empty' = TRUE
  BY DEF Construct, Erase, Clear, shmVars
<1>2. /\ writerPc \notin Writing /\ writerPc' \notin Writing
      /\ writerPc' = "newIsEmpty" => count' = 0
      /\ writerPc' = "newTimestamp" =>
           writerPc = "newIsEmpty" /\ count' = count /\ is_empty' = TRUE
      /\ writerPc' = "idle" =>
           writerPc = "newTimestamp" /\ UNCHANGED <<count, is_empty>>
  BY DEF Construct, Erase, Clear, WriterGoto, Writing
<1>3. MemoryTypes'
  <2>1. plane_data' \in [Slots -> PlaneInfo]
    BY <1>1, ZeroInfoTyped DEF MemoryInv, MemoryTypes
  <2>2. lastSnapshot' \in PlaneSnapshots
    BY <1>1, <1>2, NothingIsTyped DEF MemoryInv, MemoryTypes, ProcessInv, Writing
  <2>3. QED
    BY <1>1, <2>1, <2>2, NothingIsTyped DEF MemoryInv, MemoryTypes
<1>4. ProcessInv'
  <2>1. pending = <<>> /\ uncopied = {}
    BY <1>2 DEF MemoryInv, ProcessInv, Writing
  <2>2. writerPc = "newTimestamp" => count = 0 /\ is_empty = TRUE
    BY DEF MemoryInv, ProcessInv
  <2>3. writerPc' = "idle" =>
          lastSnapshot' = <<>> /\ count' = 0 /\ is_empty' = (lastSnapshot' = <<>>)
    BY <1>1, <1>2, <2>1, <2>2
  <2>4. writerPc' = "newTimestamp" => count' = 0 /\ is_empty'
    BY <1>2 DEF MemoryInv, ProcessInv
  <2>5. QED
    BY <1>1, <1>2, <2>1, <2>3, <2>4 DEF ProcessInv, Writing
<1>5. QED
  BY <1>3, <1>4 DEF MemoryInv

(* Every step of the process.                                              *)
LEMMA ProcessStep == MemoryInv /\ ProcessNext => MemoryInv'
<1> SUFFICES ASSUME MemoryInv, ProcessNext PROVE MemoryInv'
  OBVIOUS
<1> USE DEF MemoryInv
<1>0. lastSnapshot' = IF writerPc' = "idle" THEN pending ELSE lastSnapshot
  BY DEF ProcessNext
<1>1. CASE OpenObject
  BY <1>0, <1>1 DEF OpenObject, WriterGoto, shmVars, MemoryTypes, ProcessInv, Writing
<1>2. CASE Construct \/ Erase
  BY <1>0, <1>2, ClearKeepsInv
<1>3. CASE Kill
  BY <1>0, <1>3 DEF Kill, shmVars, MemoryTypes, ProcessInv, Writing
<1>4. CASE PutTimestamp
  BY <1>0, <1>4 DEF PutTimestamp, WriterGoto, MemoryTypes, ProcessInv, Writing
<1>5. CASE PutIsEmpty
  BY <1>0, <1>5 DEF PutIsEmpty, WriterGoto, MemoryTypes, ProcessInv, Writing
<1>6. CASE PutCount
  <2>1. pending \in PlaneSnapshots
    BY <1>6, SnapshotsAssumption DEF PutCount, WriterGoto, ProcessInv, Writing
  <2>2. QED
    BY <1>0, <1>6, <2>1, SnapshotFits
       DEF PutCount, WriterGoto, MemoryTypes, ProcessInv, Writing
<1>7. CASE \E i \in uncopied : PutRecord(i)
  <2>1. pending \in PlaneSnapshots
    BY <1>7, SnapshotsAssumption DEF PutRecord, WriterGoto, ProcessInv, Writing
  <2>2. \A i \in DOMAIN pending : i \in Slots /\ pending[i] \in PlaneInfo
    BY <2>1, SnapshotFits
  <2>3. QED
    BY <1>0, <1>7, <2>2 DEF PutRecord, WriterGoto, MemoryTypes, ProcessInv, Writing
<1>8. CASE EndWrite
  BY <1>0, <1>8, SnapshotsAssumption
     DEF EndWrite, WriterGoto, shmVars, MemoryTypes, ProcessInv, Writing
<1>9. QED
  BY <1>1, <1>2, <1>3, <1>4, <1>5, <1>6, <1>7, <1>8 DEF ProcessNext, WriterNext
=============================================================================
