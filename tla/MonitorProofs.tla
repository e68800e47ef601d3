---------------------------- MODULE MonitorProofs -----------------------------
(***************************************************************************)
(* The lock-free reading of the shared memory, for every number of         *)
(* aircraft, every content of the rounds and every capacity.               *)
(*                                                                         *)
(* MonitorInv joins what the memory holds (module RadarProcessProofs) with *)
(* ReadsInBounds and ReaderInv. Every step of Radar sets disturbed, so it  *)
(* has to preserve the first only; a step of the reader leaves the memory  *)
(* alone and has to preserve the others.                                   *)
(***************************************************************************)
EXTENDS Monitor, RadarProcessProofs, FiniteSetTheorems

MonitorInv ==
  /\ MemoryInv
  /\ plane_data_vector \in Seq(PlaneInfo)
  /\ ReadsInBounds
  /\ ReaderInv

(* At first there is nothing in the memory and nothing has been read.      *)
LEMMA MonitorInit == Init => MonitorInv
<1> SUFFICES ASSUME Init PROVE MonitorInv
  OBVIOUS
<1>1. MemoryInv
  BY ProcessInitInv DEF Init
<1>2. ReaderInv
  BY DEF Init, ReaderInv, Reading, HasReadPcs
<1>3. plane_data_vector \in Seq(PlaneInfo) /\ ReadsInBounds
  BY CapacityAssumption DEF Init, ProcessInit, ReadsInBounds
<1>4. QED
  BY <1>1, <1>2, <1>3 DEF MonitorInv

(* A step of Radar, whatever it writes.                                    *)
LEMMA RadarStep == MonitorInv /\ Radar => MonitorInv'
<1> SUFFICES ASSUME MonitorInv, Radar PROVE MonitorInv'
  OBVIOUS
<1>0. UNCHANGED monitorVars /\ disturbed' = TRUE
  BY DEF Radar
<1>1. MemoryInv'
  BY ProcessStep DEF MonitorInv, Radar
<1>2. ReaderInv'
  BY <1>0 DEF ReaderInv
<1>3. plane_data_vector' \in Seq(PlaneInfo) /\ ReadsInBounds'
  BY <1>0, <1>1 DEF monitorVars, MonitorInv, MemoryInv, MemoryTypes, ReadsInBounds
<1>4. QED
  BY <1>1, <1>2, <1>3 DEF MonitorInv

(* A step of the monitoring thread.                                        *)
LEMMA ReaderStep == MonitorInv /\ Reader => MonitorInv'
<1> SUFFICES ASSUME MonitorInv, Reader PROVE MonitorInv'
  OBVIOUS
<1> USE DEF MonitorInv
<1>0. UNCHANGED processVars
  BY DEF Reader
<1>1. MemoryInv' /\ UNCHANGED <<writerPc, count, plane_data, lastSnapshot>>
  BY <1>0 DEF processVars, writerVars, shmVars, MemoryInv, MemoryTypes, ProcessInv, Writing
<1>2. /\ Len(plane_data_vector) \in Nat /\ count \in Nat
      /\ Capacity \in Nat /\ count <= Capacity
  BY CapacityAssumption DEF MemoryInv, MemoryTypes
<1> USE DEF Goto, historyVars, Reading, HasReadPcs, HasRead
<1>3. CASE OpenMemory \/ AwaitPlanes \/ StopMonitoring
  BY <1>1, <1>3
     DEF OpenMemory, AwaitPlanes, StopMonitoring, ReadsInBounds, ReaderInv
<1>4. CASE BeginReading
  <2>1. /\ plane_data_vector' = <<>> /\ monitorPc' = "timing"
        /\ ~disturbed' => writerPc = "idle"
    BY <1>4 DEF BeginReading
  <2>2. plane_data_vector' \in Seq(PlaneInfo) /\ ReadsInBounds'
    BY <1>1, <1>2, <2>1 DEF ReadsInBounds
  <2>3. ReaderInv'
    BY <1>1, <1>2, <2>1 DEF ReaderInv
  <2>4. QED
    BY <1>1, <2>2, <2>3
<1>5. CASE ReadTimestamp
  BY <1>1, <1>5 DEF ReadTimestamp, ReadsInBounds, ReaderInv
<1>6. CASE ReadCount
  BY <1>1, <1>2, <1>6 DEF ReadCount, ReadsInBounds, ReaderInv
<1>7. CASE CopyRecord
  <2> DEFINE n == Len(plane_data_vector)
  <2>1. n + 1 \in Slots /\ n + 1 <= Capacity
    BY <1>2, <1>7 DEF CopyRecord, ReadsInBounds, Slots
  <2>2. plane_data[n + 1] \in PlaneInfo
    BY <2>1 DEF MemoryInv, MemoryTypes
  <2>3. /\ plane_data_vector' = Append(plane_data_vector, plane_data[n + 1])
        /\ plane_data_vector' \in Seq(PlaneInfo)
        /\ Len(plane_data_vector') = n + 1
        /\ DOMAIN plane_data_vector' = 1 .. (n + 1)
    BY <1>7, <2>2 DEF CopyRecord
  <2>4. \A i \in 1 .. n : i \in DOMAIN plane_data_vector /\ plane_data_vector'[i] = plane_data_vector[i]
    BY <1>2, <2>2, <2>3
  <2>5. plane_data_vector'[n + 1] = plane_data[n + 1]
    BY <1>2, <2>2, <2>3
  <2>6. plane_data_vector' \in Seq(PlaneInfo) /\ ReadsInBounds'
    BY <1>1, <1>2, <1>7, <2>1, <2>3 DEF CopyRecord, ReadsInBounds
  <2>7. ReaderInv'
    <3> SUFFICES ASSUME ~disturbed', monitorPc' \in Reading \cup HasReadPcs
                 PROVE  ReaderInv'
      BY DEF ReaderInv
    <3>1. /\ monitorPc = "copying" /\ monitorPc' = "counting"
          /\ ~disturbed /\ writerPc = "idle" /\ n < count
      BY <1>7 DEF CopyRecord, ReaderInv
    <3>2. DOMAIN lastSnapshot = 1 .. count /\ plane_data[n + 1] = lastSnapshot[n + 1]
      BY <1>2, <3>1, SnapshotFits DEF MemoryInv, MemoryTypes, ProcessInv
    <3>3. \A i \in DOMAIN plane_data_vector : plane_data_vector[i] = lastSnapshot[i]
      BY <3>1 DEF ReaderInv
    <3>4. \A i \in 1 .. (n + 1) : plane_data_vector'[i] = lastSnapshot[i]
      BY <1>2, <2>4, <2>5, <3>2, <3>3
    <3>5. QED
      BY <1>1, <1>2, <2>3, <3>1, <3>4 DEF ReaderInv
  <2>8. QED
    BY <1>1, <2>6, <2>7
<1>8. CASE CheckCollision
  BY <1>1, <1>8 DEF CheckCollision, ReadsInBounds, ReaderInv
<1>9. CASE OpenDisplay \/ WaitTimer
  BY <1>1, <1>9 DEF OpenDisplay, WaitTimer, ReadsInBounds, ReaderInv
<1>10. QED
  BY <1>3, <1>4, <1>5, <1>6, <1>7, <1>8, <1>9 DEF Reader

(* Every step, those of the Display and stuttering included.               *)
LEMMA MonitorStep == MonitorInv /\ [Next]_vars => MonitorInv'
<1> SUFFICES ASSUME MonitorInv, [Next]_vars PROVE MonitorInv'
  OBVIOUS
<1>1. CASE AttachDisplay \/ ReceiveAlert \/ KillDisplay \/ UNCHANGED vars
  BY <1>1 DEF AttachDisplay, ReceiveAlert, KillDisplay, Goto, vars, processVars, writerVars, shmVars, monitorVars,
         historyVars, MonitorInv, MemoryInv, MemoryTypes, ProcessInv, Writing,
         ReadsInBounds, ReaderInv, Reading, HasRead, HasReadPcs
<1>2. QED
  BY <1>1, RadarStep, ReaderStep DEF Next

(* The inductive invariant of the lock-free reading.                       *)
LEMMA MonitorInvariant == Spec => []MonitorInv
<1>1. QED
  BY MonitorInit, MonitorStep, PTL DEF Spec

(* The reader of the shared memory never leaves plane_data, however Radar  *)
(* changes the count while it reads.                                       *)
THEOREM ReadsInBoundsCorrect == Spec => []ReadsInBounds
<1>1. MonitorInv => ReadsInBounds
  BY DEF MonitorInv
<1>2. QED
  BY <1>1, MonitorInvariant, PTL

(* A reading that no write overlaps is one whole round of Radar: without a *)
(* lock, with the count taken anew for every record.                       *)
THEOREM UndisturbedReadCorrect == Spec => []UndisturbedRead
<1>1. MonitorInv => UndisturbedRead
  <2> SUFFICES ASSUME MonitorInv, HasRead, ~disturbed
               PROVE  plane_data_vector = lastSnapshot
    BY DEF UndisturbedRead
  <2>1. /\ writerPc = "idle" /\ Len(plane_data_vector) = count
        /\ \A i \in DOMAIN plane_data_vector : plane_data_vector[i] = lastSnapshot[i]
    BY DEF MonitorInv, ReaderInv, HasRead
  <2>2. Len(lastSnapshot) = count
    BY <2>1 DEF MonitorInv, MemoryInv, ProcessInv
  <2>3. plane_data_vector \in Seq(PlaneInfo) /\ lastSnapshot \in Seq(PlaneInfo)
    BY SnapshotFits DEF MonitorInv, MemoryInv, MemoryTypes
  <2>4. QED
    BY <2>1, <2>2, <2>3, PrefixIsAll
<1>2. QED
  BY <1>1, MonitorInvariant, PTL

-----------------------------------------------------------------------------
(* The end of the monitor's wait.                                          *)

(* The memory says "not empty" before Radar's first aircraft only while it *)
(* is new, or was left so by a process that was killed; and it exists by   *)
(* the time the monitor waits.                                             *)
WaitInv ==
  /\ ~is_empty => everWritten \/ writerPc \in {"absent", "unsized", "killed"} \cup Constructing
  /\ monitorPc = "waiting" => writerPc \notin {"absent", "unsized"}

(* A step of Radar's process keeps it, whatever it writes or leaves.       *)
LEMMA RadarKeepsWait == MemoryInv /\ WaitInv /\ Radar => WaitInv'
<1> SUFFICES ASSUME MemoryInv, WaitInv, Radar PROVE WaitInv'
  OBVIOUS
<1> USE DEF WaitInv, WriterGoto, Constructing
<1>1. monitorPc' = monitorPc /\ everWritten' = (everWritten \/ pending # <<>>)
  BY DEF Radar, monitorVars
<1>2. CASE OpenObject \/ Kill
  BY <1>1, <1>2 DEF OpenObject, Kill, shmVars
<1>3. CASE Construct
  BY <1>1, <1>3 DEF Construct, Clear
<1>4. CASE WriterNext
  <2>1. CASE PutTimestamp \/ PutCount \/ EndWrite \/ \E i \in uncopied : PutRecord(i)
    BY <1>1, <2>1 DEF PutTimestamp, PutCount, EndWrite, PutRecord, shmVars
  <2>2. CASE PutIsEmpty
    BY <1>1, <2>2 DEF PutIsEmpty
  <2>3. CASE Erase
    BY <1>1, <2>3 DEF Erase, Clear, shmVars
  <2> QED BY <1>4, <2>1, <2>2, <2>3 DEF WriterNext
<1> QED BY <1>2, <1>3, <1>4 DEF Radar, ProcessNext

(* So does a step of the monitor: it begins to wait on what it has opened. *)
LEMMA ReaderKeepsWait == WaitInv /\ Reader => WaitInv'
<1> SUFFICES ASSUME WaitInv, Reader PROVE WaitInv'
  OBVIOUS
<1>1. UNCHANGED <<is_empty, writerPc>>
  BY DEF Reader, processVars, writerVars, shmVars
<1>2. everWritten' = everWritten
  BY DEF Reader, OpenMemory, AwaitPlanes, StopMonitoring, BeginReading, ReadTimestamp, ReadCount,
     CopyRecord, CheckCollision, OpenDisplay, WaitTimer, historyVars
<1>3. monitorPc' = "waiting" => monitorPc = "opening" /\ writerPc \notin {"absent", "unsized"}
  BY DEF Reader, OpenMemory, AwaitPlanes, StopMonitoring, BeginReading, ReadTimestamp, ReadCount,
     CopyRecord, CheckCollision, OpenDisplay, WaitTimer, Goto
<1> QED BY <1>1, <1>2, <1>3 DEF WaitInv

(* The monitor goes on only when Radar has published an aircraft, but for  *)
(* memory that is being made or was left by a process that was killed.     *)
THEOREM WaitEndsWithPlanesCorrect == Spec => WaitEndsWithPlanes
<1>1. Init => WaitInv
  BY DEF Init, ProcessInit, WaitInv
<1>2. MonitorInv /\ WaitInv /\ [Next]_vars => WaitInv'
  <2> SUFFICES ASSUME MonitorInv, WaitInv, [Next]_vars PROVE WaitInv'
    OBVIOUS
  <2>1. CASE Radar
    BY <2>1, RadarKeepsWait DEF MonitorInv
  <2>2. CASE Reader
    BY <2>2, ReaderKeepsWait
  <2>3. CASE AttachDisplay \/ ReceiveAlert \/ KillDisplay
    BY <2>3 DEF AttachDisplay, ReceiveAlert, KillDisplay, Goto, WaitInv, processVars, writerVars, shmVars,
       monitorVars, historyVars
  <2>4. CASE UNCHANGED vars
    BY <2>4 DEF WaitInv, vars, processVars, writerVars, shmVars, monitorVars, historyVars
  <2> QED BY <2>1, <2>2, <2>3, <2>4 DEF Next
<1>3. WaitInv /\ [Next]_vars =>
        [monitorPc = "waiting" /\ monitorPc' = "testing" =>
           everWritten \/ writerPc \in Constructing \cup {"killed"}]_vars
  <2> SUFFICES ASSUME WaitInv, Next, monitorPc = "waiting", monitorPc' = "testing"
               PROVE  everWritten \/ writerPc \in Constructing \cup {"killed"}
    OBVIOUS
  <2>1. ~is_empty
    BY DEF Next, Radar, Reader, AttachDisplay, ReceiveAlert, KillDisplay, OpenMemory, AwaitPlanes,
       StopMonitoring, BeginReading, ReadTimestamp, ReadCount, CopyRecord, CheckCollision,
       OpenDisplay, WaitTimer, Goto, monitorVars
  <2> QED BY <2>1 DEF WaitInv
<1> QED BY <1>1, <1>2, <1>3, MonitorInvariant, PTL DEF Spec, WaitEndsWithPlanes

-----------------------------------------------------------------------------
(* The pairs in the order in which checkCollision finds them.              *)

IndexPairs == Nat \X Nat

(* The order of the two loops is a strict total order.                     *)
LEMMA PrecedesIsOrder ==
  ASSUME NEW p \in IndexPairs, NEW q \in IndexPairs, NEW r \in IndexPairs
  PROVE  /\ ~Precedes(p, p)
         /\ Precedes(p, q) /\ Precedes(q, r) => Precedes(p, r)
         /\ p = q \/ Precedes(p, q) \/ Precedes(q, p)
BY DEF IndexPairs, Precedes

(* How many pairs are found before one of them.                            *)
LEMMA RankIs ==
  ASSUME NEW S \in SUBSET IndexPairs, IsFiniteSet(S), NEW p \in S
  PROVE  /\ IsFiniteSet(FoundBefore(S, p))
         /\ Cardinality(FoundBefore(S, p)) \in Nat
         /\ Cardinality(FoundBefore(S, p)) < Cardinality(S)
<1>1. FoundBefore(S, p) \in SUBSET S /\ p \notin FoundBefore(S, p)
  BY PrecedesIsOrder DEF FoundBefore
<1>2. /\ IsFiniteSet(FoundBefore(S, p))
      /\ Cardinality(FoundBefore(S, p)) <= Cardinality(S)
      /\ Cardinality(S) # Cardinality(FoundBefore(S, p))
  BY <1>1, FS_Subset
<1>3. Cardinality(FoundBefore(S, p)) \in Nat /\ Cardinality(S) \in Nat
  BY <1>2, FS_CardinalityType
<1> QED BY <1>2, <1>3

(* Of two pairs, fewer are found before the first.                         *)
LEMMA RankGrows ==
  ASSUME NEW S \in SUBSET IndexPairs, IsFiniteSet(S), NEW p \in S, NEW q \in S,
         Precedes(p, q)
  PROVE  Cardinality(FoundBefore(S, p)) < Cardinality(FoundBefore(S, q))
<1>1. /\ FoundBefore(S, p) \in SUBSET FoundBefore(S, q)
      /\ p \in FoundBefore(S, q) /\ p \notin FoundBefore(S, p)
  BY PrecedesIsOrder DEF FoundBefore
<1>2. /\ IsFiniteSet(FoundBefore(S, q))
      /\ Cardinality(FoundBefore(S, p)) \in Nat /\ Cardinality(FoundBefore(S, q)) \in Nat
  BY RankIs
<1>3. /\ Cardinality(FoundBefore(S, p)) <= Cardinality(FoundBefore(S, q))
      /\ Cardinality(FoundBefore(S, q)) # Cardinality(FoundBefore(S, p))
  BY <1>1, <1>2, FS_Subset
<1> QED BY <1>2, <1>3

(* No two pairs have as many before them.                                  *)
LEMMA RankIsUnique ==
  ASSUME NEW S \in SUBSET IndexPairs, IsFiniteSet(S), NEW p \in S, NEW q \in S,
         Cardinality(FoundBefore(S, p)) = Cardinality(FoundBefore(S, q))
  PROVE  p = q
<1>1. Cardinality(FoundBefore(S, p)) \in Nat
  BY RankIs
<1>2. ~Precedes(p, q) /\ ~Precedes(q, p)
  BY <1>1, RankGrows
<1>3. p \in IndexPairs /\ q \in IndexPairs
  OBVIOUS
<1> QED BY <1>2, <1>3, PrecedesIsOrder

(* So there is a k-th pair, for every k up to their number: ranks that     *)
(* differ and are as many as the pairs leave none out.                     *)
LEMMA NthFoundIs ==
  ASSUME NEW S \in SUBSET IndexPairs, IsFiniteSet(S), NEW k \in 1 .. Cardinality(S)
  PROVE  NthFound(S, k) \in S /\ Cardinality(FoundBefore(S, NthFound(S, k))) = k - 1
<1> DEFINE place == [p \in S |-> Cardinality(FoundBefore(S, p)) + 1]
           places == 1 .. Cardinality(S)
<1>1. Cardinality(S) \in Nat
  BY FS_CardinalityType
<1>2. place \in [S -> places]
  BY <1>1, RankIs
<1>3. \A p, q \in S : place[p] = place[q] => p = q
  <2> SUFFICES ASSUME NEW p \in S, NEW q \in S, place[p] = place[q] PROVE p = q
    OBVIOUS
  <2>1. Cardinality(FoundBefore(S, p)) \in Nat /\ Cardinality(FoundBefore(S, q)) \in Nat
    BY RankIs
  <2>2. Cardinality(FoundBefore(S, p)) = Cardinality(FoundBefore(S, q))
    BY <2>1
  <2> QED BY <2>2, RankIsUnique
<1>4. place \in Injection(S, places)
  BY <1>2, <1>3 DEF Injection, IsInjective
<1>5. IsFiniteSet(places) /\ Cardinality(places) = Cardinality(S)
  BY <1>1, FS_Interval
<1>6. place \in Surjection(S, places)
  <2> HIDE DEF place, places
  <2> QED BY <1>4, <1>5, FS_Injection
<1>7. PICK p \in S : place[p] = k
  BY <1>6 DEF Surjection
<1>8. Cardinality(FoundBefore(S, p)) = k - 1
  BY <1>7, RankIs
<1> QED BY <1>8 DEF NthFound

(* The pairs that checkCollision finds are finitely many.                  *)
LEMMA PairsAreFinite ==
  ASSUME NEW planes \in Seq(PlaneInfo)
  PROVE  /\ CollisionPairs(planes, TimeConstraint) \in SUBSET IndexPairs
         /\ IsFiniteSet(CollisionPairs(planes, TimeConstraint))
         /\ Cardinality(CollisionPairs(planes, TimeConstraint)) \in Nat
<1> DEFINE indices == DOMAIN planes
           pairs == CollisionPairs(planes, TimeConstraint)
<1>1. indices = 1 .. Len(planes) /\ Len(planes) \in Nat
  OBVIOUS
<1>2. IsFiniteSet(indices)
  BY <1>1, FS_Interval
<1>3. pairs \in SUBSET (indices \X indices)
  BY DEF CollisionPairs
<1>4. IsFiniteSet(indices \X indices)
  <2> HIDE DEF indices
  <2> QED BY <1>2, FS_Product
<1>5. IsFiniteSet(pairs)
  <2> HIDE DEF indices, pairs
  <2> QED BY <1>3, <1>4, FS_Subset
<1>6. pairs \in SUBSET IndexPairs
  BY <1>1, <1>3 DEF IndexPairs
<1>7. Cardinality(pairs) \in Nat
  <2> HIDE DEF pairs
  <2> QED BY <1>5, FS_CardinalityType
<1> QED BY <1>5, <1>6, <1>7

Ids == Planes \cup {NoPlane}

(* How many pairs the message holds.                                       *)
NumPairs(planes) ==
  LET found == Cardinality(CollisionPairs(planes, TimeConstraint))
  IN  IF found <= PairsPerMessage THEN found ELSE PairsPerMessage

(* The k-th pair of the message is the k-th that is found.                 *)
LEMMA MessageIs ==
  ASSUME NEW planes \in Seq(PlaneInfo)
  PROVE  LET msg == CollisionMessage(planes, TimeConstraint)
             pairs == CollisionPairs(planes, TimeConstraint)
         IN  /\ msg \in Seq(Ids \X Ids)
             /\ DOMAIN msg = 1 .. NumPairs(planes)
             /\ NumPairs(planes) \in Nat /\ NumPairs(planes) <= PairsPerMessage
             /\ Len(msg) = NumPairs(planes)
             /\ \A k \in 1 .. NumPairs(planes) :
                  /\ NthFound(pairs, k) \in pairs
                  /\ Cardinality(FoundBefore(pairs, NthFound(pairs, k))) = k - 1
                  /\ msg[k] = <<planes[NthFound(pairs, k)[1]].id,
                                planes[NthFound(pairs, k)[2]].id>>
<1> DEFINE msg == CollisionMessage(planes, TimeConstraint)
           pairs == CollisionPairs(planes, TimeConstraint)
           n == NumPairs(planes)
<1>1. n \in Nat /\ n <= PairsPerMessage /\ n <= Cardinality(pairs)
  BY PairsAreFinite, ConstraintAssumption DEF NumPairs
<1>2. msg = AlertOf(planes, pairs, n)
  BY DEF CollisionMessage, NumPairs
<1>3. ASSUME NEW k \in 1 .. n
      PROVE  NthFound(pairs, k) \in pairs /\ Cardinality(FoundBefore(pairs, NthFound(pairs, k))) = k - 1
  <2>1. k \in 1 .. Cardinality(pairs)
    BY <1>1, PairsAreFinite
  <2> HIDE DEF pairs
  <2>2. pairs \in SUBSET IndexPairs /\ IsFiniteSet(pairs)
    BY PairsAreFinite DEF pairs
  <2> QED BY <2>1, <2>2, NthFoundIs
<1>4. \A p \in pairs : planes[p[1]].id \in Ids /\ planes[p[2]].id \in Ids
  <2> SUFFICES ASSUME NEW p \in pairs PROVE planes[p[1]].id \in Ids /\ planes[p[2]].id \in Ids
    OBVIOUS
  <2>1. p[1] \in DOMAIN planes /\ p[2] \in DOMAIN planes
    BY DEF CollisionPairs
  <2>2. planes[p[1]] \in PlaneInfo /\ planes[p[2]] \in PlaneInfo
    BY <2>1
  <2> QED BY <2>2 DEF PlaneInfo, Ids
<1> HIDE DEF msg, pairs, n
<1>5. /\ DOMAIN msg = 1 .. n
      /\ \A k \in 1 .. n : msg[k] = <<planes[NthFound(pairs, k)[1]].id, planes[NthFound(pairs, k)[2]].id>>
  BY <1>2 DEF AlertOf
<1>6. msg \in [1 .. n -> Ids \X Ids]
  BY <1>2, <1>3, <1>4 DEF AlertOf
<1>7. msg \in Seq(Ids \X Ids) /\ Len(msg) = n
  BY <1>1, <1>6
<1> QED BY <1>1, <1>3, <1>5, <1>7 DEF msg, pairs, n

(* The message names a pair of aircraft of a round where checkCollision    *)
(* has put that pair, if it has found it, and nowhere else: no two records *)
(* of a round are of the same aircraft.                                    *)
LEMMA NamedOnce ==
  ASSUME NEW planes \in PlaneSnapshots, NEW pair \in AircraftPairs(planes)
  PROVE  LET r == planes[pair[1]]
             s == planes[pair[2]]
             named == TimesNamed(CollisionMessage(planes, TimeConstraint), r.id, s.id)
         IN  \/ named = IF checkAxes(r, s, TimeConstraint) THEN 1 ELSE 0
             \/ named = 0 /\ ~FitsMessage(planes)
<1> DEFINE r == planes[pair[1]]  s == planes[pair[2]]
           msg == CollisionMessage(planes, TimeConstraint)
           pairs == CollisionPairs(planes, TimeConstraint)
           n == NumPairs(planes)
           where == {k \in DOMAIN msg : msg[k] \in {<<r.id, s.id>>, <<s.id, r.id>>}}
           place == Cardinality(FoundBefore(pairs, pair)) + 1
<1>1. planes \in Seq(PlaneInfo)
  BY DEF PlaneSnapshots
<1>2. /\ DOMAIN msg = 1 .. n /\ n \in Nat
      /\ \A k \in 1 .. n :
           /\ NthFound(pairs, k) \in pairs
           /\ Cardinality(FoundBefore(pairs, NthFound(pairs, k))) = k - 1
           /\ msg[k] = <<planes[NthFound(pairs, k)[1]].id, planes[NthFound(pairs, k)[2]].id>>
  BY <1>1, MessageIs
<1>3. pairs \in SUBSET IndexPairs /\ IsFiniteSet(pairs)
  BY <1>1, PairsAreFinite
<1>4. pair \in pairs <=> checkAxes(r, s, TimeConstraint)
  BY DEF CollisionPairs, AircraftPairs
<1>5. \A p \in pairs :
        <<planes[p[1]].id, planes[p[2]].id>> \in {<<r.id, s.id>>, <<s.id, r.id>>} <=> p = pair
  <2> SUFFICES ASSUME NEW p \in pairs
               PROVE  <<planes[p[1]].id, planes[p[2]].id>> \in {<<r.id, s.id>>, <<s.id, r.id>>}
                        <=> p = pair
    OBVIOUS
  <2>1. /\ p \in (DOMAIN planes) \X (DOMAIN planes) /\ p[1] < p[2]
        /\ pair \in (DOMAIN planes) \X (DOMAIN planes) /\ pair[1] < pair[2]
        /\ r.id # NoPlane /\ s.id # NoPlane
    BY DEF CollisionPairs, AircraftPairs
  <2>2. \A i, j \in DOMAIN planes : planes[i].id = planes[j].id => i = j \/ planes[i].id = NoPlane
    BY DEF PlaneSnapshots
  <2>3. DOMAIN planes \subseteq Nat
    BY <1>1
  <2>4. CASE planes[p[1]].id = r.id /\ planes[p[2]].id = s.id
    BY <2>1, <2>2, <2>4
  <2>5. CASE planes[p[1]].id = s.id /\ planes[p[2]].id = r.id
    <3>1. p[1] = pair[2] /\ p[2] = pair[1]
      BY <2>1, <2>2, <2>5
    <3> QED BY <2>1, <2>3, <3>1
  <2> QED BY <2>4, <2>5
<1> HIDE DEF r, s, msg, pairs, n
<1>6. where = {k \in 1 .. n : NthFound(pairs, k) = pair}
  BY <1>2, <1>5
<1>7. where = IF pair \in pairs THEN {place} \cap 1 .. n ELSE {}
  <2>1. CASE pair \notin pairs
    BY <1>2, <1>6, <2>1
  <2>2. CASE pair \in pairs
    <3>1. place \in Nat /\ place - 1 = Cardinality(FoundBefore(pairs, pair))
      BY <1>3, <2>2, RankIs
    <3>2. ASSUME NEW k \in 1 .. n PROVE NthFound(pairs, k) = pair <=> k = place
      <4>1. NthFound(pairs, k) \in pairs /\ Cardinality(FoundBefore(pairs, NthFound(pairs, k))) = k - 1
        BY <1>2
      <4>2. ASSUME NthFound(pairs, k) = pair PROVE k = place
        BY <3>1, <4>1, <4>2
      <4>3. ASSUME k = place PROVE NthFound(pairs, k) = pair
        <5>1. Cardinality(FoundBefore(pairs, NthFound(pairs, k))) = Cardinality(FoundBefore(pairs, pair))
          BY <3>1, <4>1, <4>3
        <5> QED BY <1>3, <2>2, <4>1, <5>1, RankIsUnique
      <4> QED BY <4>2, <4>3
    <3> QED BY <1>6, <2>2, <3>2
  <2> QED BY <2>1, <2>2
<1>8. pair \in pairs /\ FitsMessage(planes) => place \in 1 .. n
  <2> SUFFICES ASSUME pair \in pairs, FitsMessage(planes) PROVE place \in 1 .. n
    OBVIOUS
  <2>1. n = Cardinality(pairs)
    BY DEF FitsMessage, NumPairs, n, pairs
  <2> QED BY <1>2, <1>3, <2>1, RankIs
<1>9. /\ where = {} => Cardinality(where) = 0
      /\ where = {place} => Cardinality(where) = 1
  <2> HIDE DEF where, place
  <2> QED BY FS_EmptySet, FS_Singleton
<1>10. TimesNamed(msg, r.id, s.id) = Cardinality(where)
  BY DEF TimesNamed
<1>11. \/ Cardinality(where) = IF checkAxes(r, s, TimeConstraint) THEN 1 ELSE 0
       \/ Cardinality(where) = 0 /\ ~FitsMessage(planes)
  <2> HIDE DEF where, place
  <2>1. CASE pair \notin pairs
    BY <1>4, <1>7, <1>9, <2>1
  <2>2. CASE pair \in pairs /\ place \in 1 .. n
    BY <1>4, <1>7, <1>9, <2>2
  <2>3. CASE pair \in pairs /\ place \notin 1 .. n
    BY <1>7, <1>8, <1>9, <2>3
  <2> QED BY <2>1, <2>2, <2>3
<1> QED BY <1>10, <1>11 DEF r, s, msg

-----------------------------------------------------------------------------
(* The types and the alert.                                                *)

Alerts == {alert \in Seq(Ids \X Ids) : Len(alert) <= PairsPerMessage}

(* What the monitor is about to send is the message about its reading, and *)
(* it opens the Display only for one that names somebody.                  *)
AlertInv ==
  /\ TypeOK /\ timestamp <= LastTime
  /\ monitorPc = "opened" => msg_to_send # <<>>
  /\ monitorPc \in {"opened", "blocked"} =>
       msg_to_send = CollisionMessage(plane_data_vector, TimeConstraint)

(* The messages are typed, the empty one included.                         *)
LEMMA AlertsAre ==
  /\ <<>> \in Alerts
  /\ \A planes \in Seq(PlaneInfo) : CollisionMessage(planes, TimeConstraint) \in Alerts
<1>1. <<>> \in Alerts
  BY ConstraintAssumption DEF Alerts
<1>2. \A planes \in Seq(PlaneInfo) : CollisionMessage(planes, TimeConstraint) \in Alerts
  BY MessageIs DEF Alerts
<1> QED BY <1>1, <1>2

(* The types, with those of the memory in MonitorInv taken apart.          *)
LEMMA TypesAre ==
  TypeOK <=>
    /\ ShmTypeOK /\ plane_data_vector \in Seq(PlaneInfo)
    /\ monitorPc \in Reading \cup {"opening", "waiting", "testing", "checking",
         "opened", "blocked", "sleeping", "stopped", "terminated"}
    /\ readTime \in 0 .. LastTime /\ running \in BOOLEAN /\ displayUp \in BOOLEAN
    /\ msg_to_send \in Alerts /\ shown \in Alerts
BY DEF TypeOK, Alerts, Ids

(* No alert yet.                                                           *)
LEMMA AlertInit == Init => AlertInv
<1> SUFFICES ASSUME Init PROVE AlertInv
  OBVIOUS
<1>1. /\ plane_data = ZeroPlaneData /\ count = 0 /\ is_empty = FALSE /\ timestamp = 0
      /\ plane_data_vector = <<>> /\ readTime = 0 /\ msg_to_send = <<>> /\ shown = <<>>
  BY DEF Init, ProcessInit
<1>2. ShmTypeOK /\ timestamp <= LastTime
  <2>1. timestamp \in Nat /\ timestamp <= LastTime
    BY <1>1, MonitorAssumption
  <2>2. is_empty \in BOOLEAN
    BY <1>1, Zenon
  <2> QED BY <1>1, <2>1, <2>2, NothingIsTyped DEF ShmTypeOK
<1>3. plane_data_vector \in Seq(PlaneInfo) /\ readTime \in 0 .. LastTime
  BY <1>1, MonitorAssumption
<1>4. TypeOK
  BY <1>1, <1>2, <1>3, TypesAre, AlertsAre DEF Init
<1> QED BY <1>2, <1>4 DEF Init, AlertInv

(* Radar writes no time beyond the last, and leaves the monitor alone.     *)
LEMMA RadarKeepsAlert == MonitorInv' /\ AlertInv /\ Radar => AlertInv'
<1> SUFFICES ASSUME MonitorInv', AlertInv, Radar PROVE AlertInv'
  OBVIOUS
<1>1. timestamp \in Nat /\ is_empty \in BOOLEAN /\ timestamp <= LastTime
  BY DEF AlertInv, TypeOK, ShmTypeOK
<1>2. timestamp' \in Nat /\ timestamp' <= LastTime /\ is_empty' \in BOOLEAN
  <2> USE DEF shmVars
  <2>1. CASE OpenObject \/ Kill
    BY <1>1, <2>1 DEF OpenObject, Kill
  <2>2. CASE Construct \/ Erase
    <3>1. timestamp' \in {timestamp, 0} /\ (UNCHANGED is_empty \/ is_empty' = TRUE)
      BY <2>2 DEF Construct, Erase, Clear
    <3>2. is_empty' \in BOOLEAN
      BY <1>1, <3>1, Zenon
    <3>3. timestamp' \in Nat /\ timestamp' <= LastTime
      BY <1>1, <3>1, MonitorAssumption
    <3> QED BY <3>2, <3>3
  <2>3. CASE PutTimestamp
    BY <1>1, <2>3, MonitorAssumption DEF PutTimestamp
  <2>4. CASE PutIsEmpty
    BY <1>1, <2>4 DEF PutIsEmpty
  <2>5. CASE PutCount \/ EndWrite \/ \E i \in uncopied : PutRecord(i)
    BY <1>1, <2>5 DEF PutCount, EndWrite, PutRecord
  <2> QED BY <2>1, <2>2, <2>3, <2>4, <2>5 DEF Radar, ProcessNext, WriterNext
<1>3. ShmTypeOK'
  BY <1>2 DEF MonitorInv, MemoryInv, MemoryTypes, ShmTypeOK
<1>4. UNCHANGED <<monitorVars, displayVars>>
  BY DEF Radar
<1>5. TypeOK'
  BY <1>3, <1>4 DEF AlertInv, TypeOK, monitorVars, displayVars
<1> QED BY <1>2, <1>4, <1>5 DEF AlertInv, monitorVars

(* The monitor sends what checkCollision has found in its reading.         *)
LEMMA ReaderKeepsAlert == MonitorInv /\ MonitorInv' /\ AlertInv /\ Reader => AlertInv'
<1> SUFFICES ASSUME MonitorInv, MonitorInv', AlertInv, Reader PROVE AlertInv'
  OBVIOUS
<1>1. UNCHANGED <<shmVars, displayVars>>
  BY DEF Reader, processVars, writerVars
<1>2. ShmTypeOK' /\ timestamp' <= LastTime
  BY <1>1 DEF shmVars, AlertInv, TypeOK, ShmTypeOK
<1>3. plane_data_vector' \in Seq(PlaneInfo) /\ plane_data_vector \in Seq(PlaneInfo)
  BY DEF MonitorInv
<1>4. /\ readTime \in 0 .. LastTime /\ running \in BOOLEAN /\ displayUp \in BOOLEAN
      /\ msg_to_send \in Alerts /\ shown \in Alerts /\ timestamp \in 0 .. LastTime
  BY TypesAre, MonitorAssumption DEF AlertInv, ShmTypeOK
<1> USE DEF Goto, Reading
<1>5. /\ monitorPc' \in Reading \cup {"opening", "waiting", "testing", "checking",
            "opened", "blocked", "sleeping", "stopped", "terminated"}
      /\ readTime' \in 0 .. LastTime /\ running' \in BOOLEAN
  BY <1>4 DEF Reader, OpenMemory, AwaitPlanes, StopMonitoring, BeginReading, ReadTimestamp,
     ReadCount, CopyRecord, CheckCollision, OpenDisplay, WaitTimer
<1>6. CASE CheckCollision
  <2>1. msg_to_send' = CollisionMessage(plane_data_vector', TimeConstraint) /\ msg_to_send' \in Alerts
    BY <1>3, <1>6, AlertsAre DEF CheckCollision
  <2>2. TypeOK'
    BY <1>1, <1>2, <1>3, <1>4, <1>5, <2>1 DEF displayVars, TypeOK, Alerts, Ids
  <2>3. monitorPc' = "opened" => msg_to_send' # <<>>
    BY <1>6 DEF CheckCollision
  <2> QED BY <1>2, <2>1, <2>2, <2>3 DEF AlertInv
<1>7. CASE ~CheckCollision
  <2>1. UNCHANGED msg_to_send
    BY <1>7 DEF Reader, OpenMemory, AwaitPlanes, StopMonitoring, BeginReading, ReadTimestamp,
       ReadCount, CopyRecord, OpenDisplay, WaitTimer
  <2>2. TypeOK'
    BY <1>1, <1>2, <1>3, <1>4, <1>5, <2>1 DEF displayVars, TypeOK, Alerts, Ids
  <2>3. /\ monitorPc' \in {"opened", "blocked"} =>
             monitorPc = "opened" /\ UNCHANGED plane_data_vector
        /\ monitorPc' # "opened"
    BY <1>7 DEF Reader, OpenMemory, AwaitPlanes, StopMonitoring, BeginReading, ReadTimestamp,
       ReadCount, CopyRecord, OpenDisplay, WaitTimer
  <2> QED BY <1>2, <2>1, <2>2, <2>3 DEF AlertInv
<1> QED BY <1>6, <1>7

(* Every step, those of the Display included.                              *)
LEMMA AlertStep == MonitorInv /\ AlertInv /\ [Next]_vars => AlertInv'
<1> SUFFICES ASSUME MonitorInv, AlertInv, [Next]_vars PROVE AlertInv'
  OBVIOUS
<1>0. MonitorInv'
  BY MonitorStep
<1> USE DEF vars, processVars, writerVars, shmVars, monitorVars, displayVars
<1>1. CASE AttachDisplay \/ UNCHANGED vars
  BY <1>1 DEF AttachDisplay, AlertInv, TypeOK, ShmTypeOK
<1>2. CASE ReceiveAlert
  <2>1. /\ UNCHANGED <<shmVars, plane_data_vector, readTime, running, displayUp>>
        /\ monitorPc' = "sleeping" /\ msg_to_send' \in Alerts /\ shown' \in Alerts
    BY <1>2, AlertsAre, TypesAre DEF ReceiveAlert, Goto, AlertInv
  <2>2. TypeOK'
    BY <2>1 DEF AlertInv, TypeOK, ShmTypeOK, Alerts, Ids
  <2> QED BY <2>1, <2>2 DEF AlertInv
<1>3. CASE KillDisplay
  <2>1. /\ UNCHANGED <<shmVars, plane_data_vector, readTime, running>>
        /\ displayUp' = FALSE /\ shown' \in Alerts
        /\ \/ UNCHANGED <<monitorPc, msg_to_send>>
           \/ monitorPc' = "sleeping" /\ msg_to_send' \in Alerts
    BY <1>3, AlertsAre DEF KillDisplay
  <2>2. displayUp' \in BOOLEAN
    BY <2>1, Zenon
  <2>3. TypeOK'
    BY <2>1, <2>2 DEF AlertInv, TypeOK, ShmTypeOK, Alerts, Ids
  <2> QED BY <2>1, <2>3 DEF AlertInv
<1> QED BY <1>0, <1>1, <1>2, <1>3, RadarKeepsAlert, ReaderKeepsAlert DEF Next

LEMMA AlertInvariant == Spec => []AlertInv
BY AlertInit, AlertStep, MonitorInvariant, PTL DEF Spec

(* The variables keep their types: in particular, an alert holds ids of    *)
(* aircraft and no more pairs than its message has room for, also one of a *)
(* reading that Radar has torn.                                            *)
THEOREM MonitorTypeCorrect == Spec => []TypeOK
<1>1. AlertInv => TypeOK
  BY DEF AlertInv
<1> QED BY <1>1, AlertInvariant, PTL

(* An alert about a reading that no write overlaps names every pair of     *)
(* near aircraft once and no other; if it is cut off it leaves pairs out,  *)
(* and that is all.                                                        *)
THEOREM AlertNamesEachPairOnceCorrect == Spec => []AlertNamesEachPairOnce
<1>1. MonitorInv /\ UndisturbedRead /\ AlertInv => AlertNamesEachPairOnce
  <2> SUFFICES ASSUME MonitorInv, UndisturbedRead, AlertInv,
                      monitorPc \in {"opened", "blocked"}, ~disturbed,
                      NEW pair \in AircraftPairs(lastSnapshot)
               PROVE  LET r == lastSnapshot[pair[1]]
                          s == lastSnapshot[pair[2]]
                          named == TimesNamed(msg_to_send, r.id, s.id)
                      IN  \/ named = IF checkAxes(r, s, TimeConstraint) THEN 1 ELSE 0
                          \/ named = 0 /\ ~FitsMessage(lastSnapshot)
    BY DEF AlertNamesEachPairOnce
  <2>1. msg_to_send = CollisionMessage(lastSnapshot, TimeConstraint)
    BY DEF AlertInv, UndisturbedRead, HasRead, HasReadPcs
  <2>2. lastSnapshot \in PlaneSnapshots
    BY DEF MonitorInv, MemoryInv, MemoryTypes
  <2> QED BY <2>1, <2>2, NamedOnce
<1> QED BY <1>1, MonitorInvariant, UndisturbedReadCorrect, AlertInvariant, PTL

(* A message names somebody only when checkCollision finds a pair.         *)
LEMMA NobodyNamed ==
  ASSUME NEW planes \in Seq(PlaneInfo), CollisionMessage(planes, TimeConstraint) # <<>>
  PROVE  CollisionPairs(planes, TimeConstraint) # {}
<1> DEFINE n == NumPairs(planes)
<1>1. n \in Nat /\ Len(CollisionMessage(planes, TimeConstraint)) = n
  BY MessageIs
<1>2. CollisionMessage(planes, TimeConstraint) \in Seq(Ids \X Ids)
  BY MessageIs
<1>3. n # 0
  <2> HIDE DEF n
  <2> QED BY <1>1, <1>2
<1>4. NthFound(CollisionPairs(planes, TimeConstraint), 1) \in CollisionPairs(planes, TimeConstraint)
  <2>1. 1 \in 1 .. n
    <3> HIDE DEF n
    <3> QED BY <1>1, <1>3
  <2> QED BY <2>1, MessageIs
<1> QED BY <1>4

(* The process of the monitor ends by itself only at an object that is not *)
(* yet sized, or for want of a Display; and a reading that no write        *)
(* overlaps wants one only when the last round holds a pair that is near.  *)
THEOREM TerminatedWithCauseCorrect == Spec => TerminatedWithCause
<1> DEFINE Ends == monitorPc # "terminated" /\ monitorPc' = "terminated"
           Cause == \/ monitorPc = "opening" /\ writerPc = "unsized"
                    \/ /\ ~displayUp
                       /\ ~disturbed => CollisionPairs(lastSnapshot, TimeConstraint) # {}
<1>1. MonitorInv /\ UndisturbedRead /\ AlertInv /\ [Next]_vars => [Ends => Cause]_vars
  <2> SUFFICES ASSUME MonitorInv, UndisturbedRead, AlertInv, Next, Ends PROVE Cause
    OBVIOUS
  <2>1. OpenMemory \/ OpenDisplay
    BY DEF Next, Radar, Reader, AttachDisplay, ReceiveAlert, KillDisplay, AwaitPlanes,
       StopMonitoring, BeginReading, ReadTimestamp, ReadCount, CopyRecord, CheckCollision,
       WaitTimer, Goto, monitorVars
  <2>2. CASE OpenMemory
    BY <2>2 DEF OpenMemory, Goto
  <2>3. CASE OpenDisplay
    <3>1. monitorPc = "opened" /\ ~displayUp
      BY <2>3 DEF OpenDisplay, Goto
    <3>2. /\ msg_to_send # <<>>
          /\ msg_to_send = CollisionMessage(plane_data_vector, TimeConstraint)
      BY <3>1 DEF AlertInv
    <3>3. CollisionPairs(plane_data_vector, TimeConstraint) # {}
      BY <3>2, NobodyNamed DEF MonitorInv
    <3>4. ~disturbed => plane_data_vector = lastSnapshot
      BY <3>1 DEF UndisturbedRead, HasRead, HasReadPcs
    <3> QED BY <3>1, <3>3, <3>4
  <2> QED BY <2>1, <2>2, <2>3
<1> QED BY <1>1, MonitorInvariant, UndisturbedReadCorrect, AlertInvariant, PTL
       DEF Spec, TerminatedWithCause

-----------------------------------------------------------------------------
(* The end of the monitoring.                                              *)

(* The points of the life of Radar's process, and what the flag says where *)
(* ProcessInv leaves it open: it has not been written since the last round.*)
EmptyInv ==
  /\ writerPc \in {"absent", "unsized", "sized", "newIsEmpty", "newTimestamp",
       "idle", "is_empty", "count", "plane_data", "clearPlaneData", "clearIsEmpty",
       "clearTimestamp", "done", "killed"}
  /\ writerPc \in {"absent", "unsized"} => ~is_empty
  /\ writerPc \in {"is_empty", "clearPlaneData", "clearIsEmpty"} => is_empty = (lastSnapshot = <<>>)

(* A step of Radar's process keeps it.                                     *)
LEMMA RadarKeepsEmpty == MemoryInv /\ EmptyInv /\ Radar => EmptyInv'
<1> SUFFICES ASSUME MemoryInv, EmptyInv, Radar PROVE EmptyInv'
  OBVIOUS
<1> USE DEF EmptyInv, WriterGoto
<1>0. lastSnapshot' = IF writerPc' = "idle" THEN pending ELSE lastSnapshot
  BY DEF Radar, ProcessNext
<1>1. writerPc = "idle" => is_empty = (lastSnapshot = <<>>)
  BY DEF MemoryInv, ProcessInv
<1>2. CASE OpenObject \/ Kill
  BY <1>0, <1>2 DEF OpenObject, Kill, shmVars
<1>3. CASE Construct
  <2>1. writerPc' \in {"sized", "newIsEmpty", "newTimestamp", "idle"}
    BY <1>3 DEF Construct, Clear
  <2> QED BY <2>1
<1>4. CASE Erase
  <2>1. \/ /\ writerPc \in {"idle", "clearPlaneData"} /\ UNCHANGED is_empty
           /\ writerPc' \in {"clearPlaneData", "clearIsEmpty"}
        \/ writerPc' \in {"clearTimestamp", "done"}
    BY <1>4 DEF Erase, Clear, shmVars
  <2> QED BY <1>0, <1>1, <2>1
<1>5. CASE PutTimestamp
  BY <1>0, <1>1, <1>5 DEF PutTimestamp
<1>6. CASE PutIsEmpty \/ PutCount \/ EndWrite \/ \E i \in uncopied : PutRecord(i)
  <2>1. writerPc' \in {"count", "plane_data", "idle"}
    BY <1>6 DEF PutIsEmpty, PutCount, EndWrite, PutRecord
  <2> QED BY <2>1
<1> QED BY <1>2, <1>3, <1>4, <1>5, <1>6 DEF Radar, ProcessNext, WriterNext

(* The monitor stops only when the last round found nobody, the round that *)
(* is being written finds nobody, or Radar's process is gone or new.       *)
THEOREM StopsOnEmptyRoundCorrect == Spec => StopsOnEmptyRound
<1> DEFINE Stops == monitorPc = "testing" /\ monitorPc' = "stopped"
           Nobody == \/ lastSnapshot = <<>>
                     \/ writerPc \in {"count", "plane_data"} /\ pending = <<>>
                     \/ writerPc \in {"clearTimestamp", "done", "killed", "newTimestamp"} \cup Constructing
<1>1. Init => EmptyInv
  BY DEF Init, ProcessInit, EmptyInv
<1>2. MonitorInv /\ EmptyInv /\ [Next]_vars => EmptyInv'
  <2> SUFFICES ASSUME MonitorInv, EmptyInv, [Next]_vars PROVE EmptyInv'
    OBVIOUS
  <2>1. CASE Radar
    BY <2>1, RadarKeepsEmpty DEF MonitorInv
  <2>2. CASE Reader \/ AttachDisplay \/ ReceiveAlert \/ KillDisplay \/ UNCHANGED vars
    BY <2>2 DEF Reader, AttachDisplay, ReceiveAlert, KillDisplay, vars, EmptyInv, processVars, writerVars, shmVars
  <2> QED BY <2>1, <2>2 DEF Next
<1>3. MonitorInv /\ EmptyInv /\ [Next]_vars => [Stops => Nobody]_vars
  <2> SUFFICES ASSUME MonitorInv, EmptyInv, Next, Stops PROVE Nobody
    OBVIOUS
  <2>1. is_empty
    BY DEF Next, Radar, Reader, AttachDisplay, ReceiveAlert, KillDisplay, OpenMemory, AwaitPlanes,
       StopMonitoring, BeginReading, ReadTimestamp, ReadCount, CopyRecord, CheckCollision,
       OpenDisplay, WaitTimer, Goto, monitorVars
  <2>2. CASE writerPc \in {"count", "plane_data"}
    BY <2>1, <2>2 DEF MonitorInv, MemoryInv, ProcessInv
  <2>3. CASE writerPc = "idle"
    BY <2>1, <2>3 DEF MonitorInv, MemoryInv, ProcessInv
  <2>4. CASE writerPc \in {"is_empty", "clearPlaneData", "clearIsEmpty"}
    BY <2>1, <2>4 DEF EmptyInv
  <2>5. writerPc \notin {"absent", "unsized"}
    BY <2>1 DEF EmptyInv
  <2> QED BY <2>2, <2>3, <2>4, <2>5 DEF EmptyInv, Constructing
<1> QED BY <1>1, <1>2, <1>3, MonitorInvariant, PTL DEF Spec, StopsOnEmptyRound

-----------------------------------------------------------------------------
(* The end of a reading.                                                   *)

(* Whatever Radar writes meanwhile, each step of a reading leaves fewer to *)
(* take: it ends after a number of steps that Capacity alone bounds.       *)
THEOREM ReadingProgressesCorrect == Spec => ReadingProgresses
<1> DEFINE Progress == UNCHANGED monitorVars \/ (0 <= StepsLeft' /\ StepsLeft' < StepsLeft)
<1>1. MonitorInv /\ [Next]_vars => [(monitorPc \in Reading) => Progress]_vars
  <2> SUFFICES ASSUME MonitorInv, Next, monitorPc \in Reading PROVE Progress
    OBVIOUS
  <2> DEFINE n == Len(plane_data_vector)
  <2>1. n \in Nat /\ Capacity \in Nat /\ n <= Capacity /\ (monitorPc = "copying" => n < Capacity)
    BY CapacityAssumption DEF MonitorInv, ReadsInBounds
  <2>2. CASE Radar \/ AttachDisplay
    BY <2>2 DEF Radar, AttachDisplay
  <2> USE DEF Goto, Reading, StepsLeft
  <2>3. CASE ReceiveAlert \/ KillDisplay
    BY <2>3 DEF ReceiveAlert, KillDisplay
  <2>4. CASE ReadTimestamp \/ ReadCount
    <3>1. plane_data_vector' = plane_data_vector
      BY <2>4 DEF ReadTimestamp, ReadCount
    <3>2. \/ monitorPc = "timing" /\ monitorPc' = "counting"
          \/ monitorPc = "counting" /\ monitorPc' \in {"copying", "checking", "sleeping"}
      BY <2>4 DEF ReadTimestamp, ReadCount
    <3> QED BY <2>1, <3>1, <3>2
  <2>5. CASE CopyRecord
    <3>1. monitorPc = "copying" /\ monitorPc' = "counting"
      BY <2>5 DEF CopyRecord
    <3>2. Len(plane_data_vector') = n + 1
      BY <2>5 DEF CopyRecord, MonitorInv
    <3> QED BY <2>1, <3>1, <3>2
  <2>6. CASE OpenMemory \/ AwaitPlanes \/ StopMonitoring \/ BeginReading \/ CheckCollision
             \/ OpenDisplay \/ WaitTimer
    BY <2>6 DEF OpenMemory, AwaitPlanes, StopMonitoring, BeginReading, CheckCollision,
       OpenDisplay, WaitTimer
  <2> QED BY <2>2, <2>3, <2>4, <2>5, <2>6 DEF Next, Reader
<1> QED BY <1>1, MonitorInvariant, PTL DEF Spec, ReadingProgresses
=============================================================================
