---------------------------- MODULE PictureProofs -----------------------------
(***************************************************************************)
(* Proofs about what Radar publishes: the double buffer, the flag, the     *)
(* count and the final clearing of the shared memory.                      *)
(***************************************************************************)
EXTENDS AirspaceProofs, AirspaceSnapshots, FiniteSetTheorems

(* A step of any thread but the polling thread and main.                   *)
OutsideStep ==
  /\ UNCHANGED <<pollPc, unpolled, bufferVars, emptyVars, shmVars, mainPc>>
  /\ arrivalPc = "exited" => arrivalPc' = "exited"

(* A step outside the polling thread, the shared memory and main keeps the *)
(* invariant of the picture.                                               *)
LEMMA OutsideKeepsPicture ==
  ASSUME PictureInv, OutsideStep
  PROVE  PictureInv'
<1> USE DEF PictureInv, OutsideStep, bufferVars, emptyVars, shmVars
<1>1. BuffersDrained' /\ RoundFits' /\ PictureFits'
  BY DEF BuffersDrained, RoundFits, PictureFits, Asking
<1>2. DrainingIsEmpty' /\ FlagOfSource'
  BY DEF DrainingIsEmpty, FlagOfSource, Source, SourceIndex
<1>3. PictureConsistent' /\ EmptinessPublished'
  BY DEF PictureConsistent, EmptinessPublished
<1>4. ClearedSoFar'
  BY DEF ClearedSoFar, ThreadsExited
<1> QED BY <1>1, <1>2, <1>3, <1>4

(* The buffers during a round: what the loop adds never exceeds the planes *)
(* it still had to ask.                                                    *)
LEMMA RoundStep ==
  ASSUME TypeOK, BuffersDrained, RoundFits, PictureFits, PollAlone
  PROVE  (BuffersDrained /\ RoundFits /\ PictureFits)'
<1> DEFINE buf == planesInAirspaceData
<1> USE CapacityAssumption DEF BuffersDrained, RoundFits, PictureFits, Asking, PollGoto
<1>1. /\ buf \in [{0, 1} -> Seq(PlaneInfo)]
      /\ activeBufferIndex \in {0, 1} /\ inactiveBufferIndex \in {0, 1}
      /\ \A b \in {0, 1} : Len(buf[b]) \in Nat
      /\ received_info \in PlaneInfo /\ count \in Nat
  BY DEF TypeOK, RadarTypeOK, PollTypeOK, ShmTypeOK
<1>2. \A S \in SUBSET Planes : IsFiniteSet(S) /\ Cardinality(S) \in Nat
                                /\ Cardinality(S) <= Capacity
  BY PlanesAssumption, FS_Subset, FS_CardinalityType
<1>3. unpolled \in SUBSET Planes /\ planesInAirspace \in SUBSET Planes
  BY DEF TypeOK, RadarTypeOK, PollTypeOK, ArrivalTypeOK
<1>4. \A p \in unpolled : /\ Cardinality(unpolled \ {p}) = Cardinality(unpolled) - 1
  BY <1>2, <1>3, FS_RemoveElement
<1>5. CASE PollLoop \/ CheckAirspace \/ PollDone
  BY <1>5 DEF PollLoop, CheckAirspace, PollDone, roundVars, bufferVars, shmVars
<1>6. CASE CopyPlanes
  <2>1. /\ unpolled' = planesInAirspace
        /\ inactiveBufferIndex' = 1 - activeBufferIndex
        /\ buf' = [buf EXCEPT ![1 - activeBufferIndex] = <<>>]
        /\ activeBufferIndex' = activeBufferIndex /\ count' = count
        /\ pollPc = "copy" /\ pollPc' = "next"
    BY <1>6 DEF CopyPlanes, shmVars
  <2>2. \A b \in {0, 1} : buf'[b] = <<>>
    BY <1>1, <2>1
  <2>3. Cardinality(unpolled') \in Nat /\ Cardinality(unpolled') <= Capacity
    BY <1>2, <1>3, <2>1
  <2> QED BY <1>1, <2>1, <2>2, <2>3
<1>7. ASSUME NEW p \in Planes, PollNext(p) \/ PollSkip(p)
      PROVE  (BuffersDrained /\ RoundFits /\ PictureFits)'
  <2>1. /\ p \in unpolled /\ unpolled' = unpolled \ {p}
        /\ UNCHANGED <<buf, inactiveBufferIndex, count>>
        /\ activeBufferIndex' \in {activeBufferIndex, inactiveBufferIndex}
        /\ pollPc = "next" /\ pollPc' \in {"next", "request"}
    BY <1>7 DEF PollNext, PollSkip, bufferVars, shmVars
  <2>2. Cardinality(unpolled') = Cardinality(unpolled) - 1 /\ Cardinality(unpolled) \in Nat
    BY <1>2, <1>3, <1>4, <2>1
  <2> QED BY <1>1, <2>1, <2>2
<1>8. CASE RequestPosition(planeChannels)
  <2>1. Cardinality(unpolled) \in Nat
    BY <1>2, <1>3
  <2> QED BY <1>1, <1>8, <2>1 DEF RequestPosition, bufferVars, shmVars
<1>9. CASE StoreReply
  <2>1. /\ buf' = [buf EXCEPT ![inactiveBufferIndex] = Append(@, received_info)]
        /\ activeBufferIndex' = inactiveBufferIndex
        /\ UNCHANGED <<unpolled, inactiveBufferIndex, count>>
        /\ pollPc = "replied" /\ pollPc' = "next"
    BY <1>9 DEF StoreReply, shmVars
  <2>2. /\ Len(buf'[inactiveBufferIndex]) = Len(buf[inactiveBufferIndex]) + 1
        /\ buf'[1 - inactiveBufferIndex] = <<>>
    BY <1>1, <2>1
  <2>3. Cardinality(unpolled) \in Nat
    BY <1>2, <1>3
  <2> QED BY <1>1, <2>1, <2>2, <2>3
<1>10. CASE WriteTimestamp(tick_counter) \/ WriteIsEmpty
  BY <1>10 DEF WriteTimestamp, WriteIsEmpty, roundVars, bufferVars
<1>11. CASE WriteCount
  <2>1. SourceIndex \in {0, 1}
    BY <1>1 DEF SourceIndex
  <2> QED BY <1>1, <1>11, <2>1 DEF WriteCount, CountToWrite, Source, roundVars, bufferVars
<1>12. CASE \E i \in toCopy : WritePlaneData(i)
  BY <1>12 DEF WritePlaneData, roundVars, bufferVars
<1>13. CASE ClearBuffer
  <2>1. SourceIndex \in {0, 1}
    BY <1>1 DEF SourceIndex
  <2>2. /\ buf' = [buf EXCEPT ![SourceIndex] = <<>>]
        /\ UNCHANGED <<unpolled, activeBufferIndex, inactiveBufferIndex, count>>
        /\ pollPc = "plane_data" /\ pollPc' = "loop"
    BY <1>13 DEF ClearBuffer, roundVars, shmVars
  <2>3. \A b \in {0, 1} : buf'[b] = <<>>
    BY <1>1, <2>1, <2>2 DEF SourceIndex
  <2>4. Cardinality(unpolled) \in Nat /\ Cardinality(unpolled) <= Capacity
    BY <1>2, <1>3
  <2> QED BY <1>1, <2>2, <2>3, <2>4
<1> QED BY <1>5, <1>6, <1>7, <1>8, <1>9, <1>10, <1>11, <1>12, <1>13 DEF PollAlone

(* The flag and the count.                                                 *)
LEMMA FlagStep ==
  ASSUME TypeOK, PictureInv, PollAlone
  PROVE  /\ (DrainingIsEmpty /\ FlagOfSource)'
         /\ (PictureConsistent /\ EmptinessPublished)'
         /\ ClearedSoFar'
<1> DEFINE buf == planesInAirspaceData
<1> USE DEF PollGoto
<1>1. /\ buf \in [{0, 1} -> Seq(PlaneInfo)]
      /\ activeBufferIndex \in {0, 1} /\ inactiveBufferIndex \in {0, 1}
      /\ draining \in BOOLEAN /\ wasAirspaceEmpty \in BOOLEAN /\ is_empty \in BOOLEAN
      /\ count \in Nat
  BY DEF TypeOK, RadarTypeOK, PollTypeOK, ShmTypeOK
<1>2. /\ BuffersDrained /\ DrainingIsEmpty /\ FlagOfSource
      /\ PictureConsistent /\ EmptinessPublished /\ ClearedSoFar
  BY DEF PictureInv
<1>3. SourceIndex \in {0, 1} /\ Source \in Seq(PlaneInfo) /\ (Len(Source) = 0 <=> Source = <<>>)
  BY <1>1 DEF SourceIndex, Source
<1>4. pollPc # "exited" /\ mainPc' = mainPc
  BY DEF PollAlone, PollLoop, CheckAirspace, CopyPlanes, PollNext, PollSkip, PollDone,
         RequestPosition, StoreReply, WriteTimestamp, WriteIsEmpty, WriteCount, WritePlaneData,
         ClearBuffer, mainVars
<1>5. ClearedSoFar' /\ mainPc' # "clearIsEmpty"
  BY <1>2, <1>4 DEF ClearedSoFar, ThreadsExited
<1>6. CASE PollLoop \/ PollDone
  <2>1. /\ UNCHANGED <<buf, activeBufferIndex, draining, wasAirspaceEmpty, is_empty, count>>
        /\ \/ pollPc = "loop" /\ pollPc' \in {"check", "exited"}
           \/ pollPc = "next" /\ pollPc' = "timestamp"
    BY <1>6 DEF PollLoop, PollDone, bufferVars, emptyVars, shmVars
  <2> QED BY <1>2, <1>4, <1>5, <2>1 DEF DrainingIsEmpty, FlagOfSource, PictureConsistent,
                                   EmptinessPublished
<1>7. CASE CheckAirspace
  <2>1. /\ UNCHANGED <<buf, wasAirspaceEmpty, is_empty, count>>
        /\ pollPc = "check"
        /\ \/ pollPc' \in {"copy", "loop"} /\ ~draining'
           \/ pollPc' = "timestamp" /\ draining'
    BY <1>7 DEF CheckAirspace, bufferVars, shmVars
  <2> QED BY <1>2, <1>4, <1>5, <2>1 DEF BuffersDrained, DrainingIsEmpty, FlagOfSource,
                                   PictureConsistent, EmptinessPublished
<1>8. CASE CopyPlanes \/ StoreReply \/ RequestPosition(planeChannels)
            \/ \E p \in Planes : PollNext(p) \/ PollSkip(p)
  <2>1. /\ UNCHANGED <<draining, wasAirspaceEmpty, is_empty, count>>
        /\ pollPc \in {"copy", "replied", "request", "next"}
        /\ pollPc' \in {"next", "blocked", "request"}
    BY <1>8 DEF CopyPlanes, StoreReply, RequestPosition, PollNext, PollSkip, emptyVars, shmVars
  <2> QED BY <1>2, <1>4, <1>5, <2>1 DEF DrainingIsEmpty, FlagOfSource, PictureConsistent,
                                   EmptinessPublished
<1>9. CASE WriteTimestamp(tick_counter)
  <2>1. /\ UNCHANGED <<buf, draining, wasAirspaceEmpty, is_empty, count>>
        /\ pollPc = "timestamp" /\ pollPc' = "is_empty"
    BY <1>9 DEF WriteTimestamp, bufferVars, emptyVars
  <2> QED BY <1>2, <1>4, <1>5, <2>1 DEF DrainingIsEmpty, FlagOfSource, PictureConsistent,
                                   EmptinessPublished
<1>10. CASE WriteIsEmpty
  <2>1. /\ UNCHANGED <<buf, activeBufferIndex, draining, wasAirspaceEmpty, count>>
        /\ pollPc = "is_empty" /\ pollPc' = "count" /\ is_empty' = (Source = <<>>)
    BY <1>10 DEF WriteIsEmpty, bufferVars, emptyVars
  <2>2. Source' = Source
    BY <2>1 DEF Source, SourceIndex
  <2>3. draining => Source = <<>>
    BY <1>2, <1>3 DEF DrainingIsEmpty, Source
  <2> QED BY <1>2, <1>5, <2>1, <2>2, <2>3 DEF DrainingIsEmpty, FlagOfSource, PictureConsistent,
                                   EmptinessPublished
<1>11. CASE WriteCount
  <2>1. /\ UNCHANGED <<buf, draining, wasAirspaceEmpty, is_empty>>
        /\ pollPc = "count" /\ pollPc' = "plane_data" /\ count' = Len(Source)
    BY <1>11 DEF WriteCount, CountToWrite, bufferVars, emptyVars
  <2> QED BY <1>2, <1>3, <1>5, <2>1 DEF DrainingIsEmpty, FlagOfSource, PictureConsistent,
                                   EmptinessPublished
<1>12. CASE \E i \in toCopy : WritePlaneData(i)
  <2>1. /\ UNCHANGED <<buf, draining, wasAirspaceEmpty, is_empty, count>>
        /\ pollPc = "plane_data" /\ pollPc' = "plane_data"
    BY <1>12 DEF WritePlaneData, bufferVars, emptyVars
  <2> QED BY <1>2, <1>4, <1>5, <2>1 DEF DrainingIsEmpty, FlagOfSource, PictureConsistent,
                                   EmptinessPublished
<1>13. CASE ClearBuffer
  <2>1. /\ UNCHANGED <<count, is_empty>>
        /\ pollPc = "plane_data" /\ pollPc' = "loop" /\ draining' = FALSE
        /\ wasAirspaceEmpty' = draining
    BY <1>13 DEF ClearBuffer, shmVars
  <2> QED BY <1>2, <1>4, <1>5, <2>1 DEF DrainingIsEmpty, FlagOfSource, PictureConsistent,
                                   EmptinessPublished
<1> QED BY <1>5, <1>6, <1>7, <1>8, <1>9, <1>10, <1>11, <1>12, <1>13 DEF PollAlone

(* Main's last steps: it begins to clear when both Radar threads are gone. *)
LEMMA ClearingStep ==
  ASSUME TypeOK, PictureInv, Main
  PROVE  PictureInv'
<1> USE DEF MainGoto
<1>1. UNCHANGED pollVars /\ UNCHANGED arrivalPc
  BY DEF Main, JoinPlanes, JoinTimer, DetachRadarChannel, JoinThreads, ClearSharedMemory,
         ClearPlaneData, ClearCount, ClearIsEmpty, ClearTimestamp, StopThreads, DetachRadar,
         radarVars, arrivalVars
<1>2. count' \in {count, 0} /\ (is_empty => is_empty')
  BY DEF Main, JoinPlanes, JoinTimer, DetachRadarChannel, JoinThreads, ClearSharedMemory,
         ClearPlaneData, ClearCount, ClearIsEmpty, ClearTimestamp, StopThreads, DetachRadar,
         radarVars, shmVars
<1>3. BuffersDrained' /\ RoundFits' /\ PictureFits'
  BY <1>1, <1>2, CapacityAssumption DEF PictureInv, BuffersDrained, RoundFits, PictureFits, Asking,
     pollVars, roundVars, bufferVars
<1>4. DrainingIsEmpty' /\ EmptinessPublished'
  BY <1>1, <1>2 DEF PictureInv, DrainingIsEmpty, EmptinessPublished, pollVars, bufferVars, emptyVars
<1>5. ClearedSoFar'
  <2>1. UNCHANGED <<arrivalPc, pollPc>>
    BY <1>1 DEF pollVars
  <2>2. CASE JoinPlanes \/ JoinTimer \/ DetachRadarChannel
    BY <2>2 DEF ClearedSoFar, JoinPlanes, JoinTimer, DetachRadarChannel
  <2>3. CASE JoinThreads
    BY <2>1, <2>3 DEF ClearedSoFar, ThreadsExited, JoinThreads
  <2>4. CASE ClearSharedMemory
    BY <2>1, <2>4 DEF PictureInv, ClearedSoFar, ThreadsExited, ClearSharedMemory,
         ClearPlaneData, ClearCount, ClearIsEmpty, ClearTimestamp
  <2> QED BY <2>2, <2>3, <2>4 DEF Main
<1>6. CASE UNCHANGED <<count, is_empty>> /\ mainPc # "clearIsEmpty"
  <2>1. FlagOfSource'
    BY <1>1, <1>6 DEF PictureInv, FlagOfSource, Source, SourceIndex, pollVars, bufferVars
  <2>2. PictureConsistent'
    BY <1>1, <1>6 DEF PictureInv, PictureConsistent, pollVars
  <2> QED BY <1>3, <1>4, <1>5, <2>1, <2>2 DEF PictureInv
<1>7. CASE mainPc \in {"clearPlaneData", "clearIsEmpty"} /\ mainPc' # mainPc
  <2>1. pollPc' # "count"
    BY <1>1, <1>7 DEF PictureInv, ClearedSoFar, ThreadsExited, pollVars
  <2>2. mainPc' = "clearIsEmpty" \/ (mainPc' = "clearTimestamp" /\ count' = 0 /\ is_empty')
    BY <1>5, <1>7 DEF ClearedSoFar, Main, JoinPlanes, JoinTimer,
         DetachRadarChannel, JoinThreads, ClearSharedMemory
  <2>3. PictureConsistent'
    BY <2>2 DEF PictureConsistent
  <2> QED BY <1>3, <1>4, <1>5, <2>1, <2>3 DEF PictureInv, FlagOfSource
<1> QED
  BY <1>6, <1>7 DEF Main, JoinPlanes, JoinTimer, DetachRadarChannel, JoinThreads,
         ClearSharedMemory, ClearPlaneData, ClearCount, ClearIsEmpty, ClearTimestamp,
         StopThreads, DetachRadar, radarVars, shmVars

(* Every step keeps it.                                                    *)
LEMMA PictureStep ==
  ASSUME TypeOK, PictureInv, [Next]_vars
  PROVE  PictureInv'
<1>1. CASE PollAlone
  <2>1. BuffersDrained /\ RoundFits /\ PictureFits
    BY DEF PictureInv
  <2> QED BY <1>1, <2>1, RoundStep, FlagStep DEF PictureInv
<1>2. CASE Main
  BY <1>2, ClearingStep
<1>3. ASSUME NEW p \in Planes,
             \/ AircraftAlone(p) \/ ObeyCommand(p) \/ AnswerStray(p)
             \/ AnswerEnter(p) \/ AnswerExit(p)
      PROVE  PictureInv'
  <2>1. OutsideStep
    BY <1>3 DEF OutsideStep, AircraftAlone, ObeyCommand, AnswerStray, AnswerEnter, AnswerExit,
         ReceiveAirspaceMessage, ArrivalGoto, radarVars, arrivalVars, pollVars, roundVars, mainVars
  <2> QED BY <2>1, OutsideKeepsPicture
<1>4. CASE ArrivalAlone \/ ArrivalStray \/ Tick \/ (\E c \in Commands : SendCommand(c))
            \/ UNCHANGED vars
  <2>1. OutsideStep
    BY <1>4 DEF OutsideStep, ArrivalAlone, ArrivalStray, AttachRadar, ArrivalLoop, ReceiveStray,
         ReceiveFails, HandleAirspaceMessage, ArrivalGoto, Tick, SendCommand, vars, radarVars,
         arrivalVars, pollVars, roundVars, mainVars
  <2> QED BY <2>1, OutsideKeepsPicture
<1>5. ASSUME NEW p \in Planes, AnswerPoll(p) \/ Depart(p)
      PROVE  PictureInv'
  <2>1. \/ /\ pollPc = "blocked" /\ pollPc' \in {"replied", "next"}
           /\ UNCHANGED <<arrivalPc, unpolled, bufferVars, emptyVars, shmVars, mainPc>>
        \/ UNCHANGED <<arrivalPc, pollPc, unpolled, bufferVars, emptyVars, shmVars, mainPc>>
    BY <1>5 DEF AnswerPoll, Depart, PositionReceived, RequestFailed, PollGoto, radarVars,
         arrivalVars, pollVars, roundVars, mainVars
  <2>2. CASE UNCHANGED <<arrivalPc, pollPc, unpolled, bufferVars, emptyVars, shmVars, mainPc>>
    BY <2>2, OutsideKeepsPicture DEF OutsideStep
  <2>3. CASE /\ pollPc = "blocked" /\ pollPc' \in {"replied", "next"}
             /\ UNCHANGED <<arrivalPc, unpolled, bufferVars, emptyVars, shmVars, mainPc>>
    <3> USE <2>3 DEF PictureInv, bufferVars, emptyVars, shmVars
    <3>1. /\ Cardinality(unpolled) \in Nat /\ Capacity \in Nat
          /\ \A b \in {0, 1} : Len(planesInAirspaceData[b]) \in Nat
          /\ inactiveBufferIndex \in {0, 1}
      BY PlanesAssumption, CapacityAssumption, FS_Subset, FS_CardinalityType
         DEF TypeOK, RadarTypeOK, PollTypeOK
    <3>2. BuffersDrained' /\ RoundFits' /\ PictureFits'
      BY <3>1 DEF BuffersDrained, RoundFits, PictureFits, Asking
    <3>3. DrainingIsEmpty' /\ FlagOfSource'
      BY DEF DrainingIsEmpty, FlagOfSource
    <3>4. PictureConsistent' /\ EmptinessPublished'
      BY DEF PictureConsistent, EmptinessPublished
    <3>5. ClearedSoFar'
      BY DEF ClearedSoFar, ThreadsExited
    <3> QED BY <3>2, <3>3, <3>4, <3>5
  <2> QED BY <2>1, <2>2, <2>3
<1> QED BY <1>1, <1>2, <1>3, <1>4, <1>5 DEF Next, Terminated

(* The inductive invariant of the published picture.                       *)
THEOREM PictureInvCorrect == Spec => []PictureInv
<1>1. Init => PictureInv
  <2> SUFFICES ASSUME Init PROVE PictureInv
    OBVIOUS
  <2>1. Cardinality({}) = 0
    BY FS_EmptySet
  <2>2. BuffersDrained /\ RoundFits /\ PictureFits
    BY <2>1, CapacityAssumption DEF Init, RadarInit, ShmInit, BuffersDrained, RoundFits,
       PictureFits, Asking
  <2>3. DrainingIsEmpty /\ FlagOfSource /\ PictureConsistent /\ EmptinessPublished /\ ClearedSoFar
    BY DEF Init, RadarInit, ShmInit, DrainingIsEmpty, FlagOfSource, PictureConsistent,
       EmptinessPublished, ClearedSoFar
  <2> QED BY <2>2, <2>3 DEF PictureInv
<1>2. TypeOK /\ PictureInv /\ [Next]_vars => PictureInv'
  BY PictureStep
<1> QED BY <1>1, <1>2, TypeCorrect, PTL DEF Spec

(* writeToSharedMemory never copies more records than plane_data holds, as *)
(* long as planes.txt names no more aircraft than that.                    *)
THEOREM PictureFitsCorrect == Spec => []PictureFits
<1>1. PictureInv => PictureFits
  BY DEF PictureInv
<1> QED BY <1>1, PictureInvCorrect, PTL

(* No record of an earlier round survives in a buffer.                     *)
THEOREM BuffersDrainedCorrect == Spec => []BuffersDrained
<1>1. PictureInv => BuffersDrained
  BY DEF PictureInv
<1> QED BY <1>1, PictureInvCorrect, PTL

(* A reader that finds is_empty clear finds a count above zero, except     *)
(* between the two writes.                                                 *)
THEOREM PictureConsistentCorrect == Spec => []PictureConsistent
<1>1. PictureInv => PictureConsistent
  BY DEF PictureInv
<1> QED BY <1>1, PictureInvCorrect, PTL

(* wasAirspaceEmpty never suppresses the write that the readers wait for.  *)
THEOREM EmptinessPublishedCorrect == Spec => []EmptinessPublished
<1>1. PictureInv => EmptinessPublished
  BY DEF PictureInv
<1> QED BY <1>1, PictureInvCorrect, PTL

(* The destructor leaves the shared memory cleared, whatever the polling   *)
(* thread was doing when the shutdown began.                               *)
THEOREM ClearedForGoodCorrect == Spec => []ClearedForGood
<1>1. PictureInv => ClearedForGood
  BY DEF PictureInv, ClearedSoFar, ClearedForGood
<1> QED BY <1>1, PictureInvCorrect, PTL

-----------------------------------------------------------------------------
(* What the picture lists.                                                 *)

(* Where neither the round nor the shared memory changes.                  *)
LEMMA RoundUnchanged ==
  ASSUME RoundInv, UNCHANGED pollVars, UNCHANGED shmVars
  PROVE  RoundInv'
<1> USE DEF RoundInv, pollVars, roundVars, bufferVars, shmVars
<1>1. AnswerOfAsked' /\ BuffersOfRound'
  BY DEF AnswerOfAsked, BuffersOfRound, Asking
<1>2. CopiedSoFar' /\ PictureOfLastRound'
  BY DEF CopiedSoFar, PictureOfLastRound, Source, SourceIndex, Listed
<1> QED BY <1>1, <1>2

(* A step from one point of a round to another, short of the write.        *)
LEMMA RoundGoesOn ==
  ASSUME RoundInv, AnswerOfAsked', BuffersOfRound',
         \/ pollPc' \notin {"loop", "check", "plane_data"}
         \/ /\ pollPc \in {"loop", "check"} /\ pollPc' \in {"loop", "check"}
            /\ UNCHANGED <<planesToPoll, plane_data, count>>
  PROVE  RoundInv'
  BY DEF RoundInv, CopiedSoFar, PictureOfLastRound, Listed

(* The polling thread.                                                     *)
LEMMA RoundPollStep ==
  ASSUME TypeOK, BuffersDrained, PictureFits, RoundInv, PollAlone
  PROVE  RoundInv'
<1> DEFINE buf == planesInAirspaceData
<1> USE DEF PollGoto
<1>1. /\ buf \in [{0, 1} -> Seq(PlaneInfo)]
      /\ activeBufferIndex \in {0, 1} /\ inactiveBufferIndex \in {0, 1}
      /\ received_info \in PlaneInfo
      /\ unpolled \subseteq planesToPoll
      /\ SourceIndex \in {0, 1}
  BY DEF TypeOK, RadarTypeOK, PollTypeOK, SourceIndex
<1>2. /\ AnswerOfAsked /\ BuffersOfRound /\ CopiedSoFar
  BY DEF RoundInv
<1>3. CASE PollLoop \/ CheckAirspace \/ PollDone \/ WriteTimestamp(tick_counter) \/ WriteIsEmpty
  <2>1. /\ UNCHANGED <<planesToPoll, polled, received_info, buf, plane_data, count>>
        /\ \/ pollPc \in {"loop", "check"} /\ pollPc' \in {"loop", "check"}
           \/ pollPc' \in {"copy", "exited", "timestamp", "is_empty", "count"}
        /\ pollPc \in {"loop", "check", "next", "timestamp", "is_empty"}
    BY <1>3 DEF PollLoop, CheckAirspace, PollDone, WriteTimestamp, WriteIsEmpty, roundVars,
         bufferVars, shmVars
  <2>2. AnswerOfAsked' /\ BuffersOfRound'
    BY <1>2, <2>1 DEF AnswerOfAsked, BuffersOfRound, Asking
  <2> QED BY <2>1, <2>2, RoundGoesOn
<1>4. CASE CopyPlanes
  <2>1. /\ UNCHANGED <<polled, received_info>>
        /\ pollPc = "copy" /\ pollPc' = "next"
        /\ buf' = [buf EXCEPT ![1 - activeBufferIndex] = <<>>]
    BY <1>4 DEF CopyPlanes
  <2>2. \A b \in {0, 1} : buf'[b] = <<>>
    BY <1>1, <2>1 DEF BuffersDrained
  <2>3. AnswerOfAsked' /\ BuffersOfRound'
    BY <1>2, <2>1, <2>2 DEF AnswerOfAsked, BuffersOfRound, Asking
  <2> QED BY <2>1, <2>3, RoundGoesOn
<1>5. ASSUME NEW p \in Planes, PollNext(p) \/ PollSkip(p)
      PROVE  RoundInv'
  <2>1. /\ UNCHANGED <<planesToPoll, received_info, buf>>
        /\ pollPc = "next" /\ p \in unpolled
        /\ \/ pollPc' = "request" /\ polled' = p
           \/ pollPc' = "next" /\ polled' = polled
    BY <1>5 DEF PollNext, PollSkip, bufferVars
  <2>2. AnswerOfAsked' /\ BuffersOfRound'
    BY <1>1, <1>2, <2>1 DEF AnswerOfAsked, BuffersOfRound, Asking
  <2> QED BY <2>1, <2>2, RoundGoesOn
<1>6. CASE RequestPosition(planeChannels)
  <2>1. /\ UNCHANGED <<planesToPoll, received_info, buf>>
        /\ pollPc = "request"
        /\ \/ pollPc' = "blocked" /\ polled' = polled
           \/ pollPc' = "next" /\ polled' = NoPlane
    BY <1>6 DEF RequestPosition, bufferVars
  <2>2. AnswerOfAsked' /\ BuffersOfRound'
    BY <1>2, <2>1 DEF AnswerOfAsked, BuffersOfRound, Asking
  <2> QED BY <2>1, <2>2, RoundGoesOn
<1>7. CASE StoreReply
  <2>1. /\ planesToPoll' = planesToPoll
        /\ pollPc = "replied" /\ pollPc' = "next"
        /\ polled' = NoPlane /\ received_info'.id = NoPlane
        /\ buf' = [buf EXCEPT ![inactiveBufferIndex] = Append(@, received_info)]
    BY <1>7 DEF StoreReply, ZeroInfo
  <2>2. received_info.id \in planesToPoll \cup {NoPlane}
    BY <1>2, <2>1 DEF AnswerOfAsked
  <2>3. ASSUME NEW b \in {0, 1}, NEW i \in DOMAIN buf'[b]
        PROVE  buf'[b][i].id \in planesToPoll \cup {NoPlane}
    <3>1. buf'[b] = IF b = inactiveBufferIndex THEN Append(buf[b], received_info) ELSE buf[b]
      BY <1>1, <2>1
    <3>2. i \in DOMAIN buf[b] => buf'[b][i] = buf[b][i]
      BY <1>1, <3>1
    <3>3. i \notin DOMAIN buf[b] => buf'[b][i] = received_info
      BY <1>1, <2>3, <3>1
    <3> QED BY <1>2, <2>2, <3>2, <3>3 DEF BuffersOfRound
  <2>4. AnswerOfAsked' /\ BuffersOfRound'
    BY <2>1, <2>3 DEF AnswerOfAsked, BuffersOfRound, Asking
  <2> QED BY <2>1, <2>4, RoundGoesOn
<1>8. CASE WriteCount
  <2>1. /\ UNCHANGED <<planesToPoll, polled, received_info, buf, activeBufferIndex>>
        /\ pollPc = "count" /\ pollPc' = "plane_data"
        /\ count' = Len(Source) /\ toCopy' = DOMAIN Source
    BY <1>8 DEF WriteCount, CountToWrite, roundVars, bufferVars
  <2>2. Source' = Source
    BY <2>1 DEF Source, SourceIndex
  <2>3. AnswerOfAsked' /\ BuffersOfRound'
    BY <1>2, <2>1 DEF AnswerOfAsked, BuffersOfRound, Asking
  <2> QED BY <2>1, <2>2, <2>3 DEF RoundInv, CopiedSoFar, PictureOfLastRound
<1>9. ASSUME NEW i \in toCopy, WritePlaneData(i)
      PROVE  RoundInv'
  <2>1. /\ UNCHANGED <<planesToPoll, polled, received_info, buf, activeBufferIndex, count>>
        /\ pollPc = "plane_data" /\ pollPc' = "plane_data"
        /\ toCopy' = toCopy \ {i}
        /\ plane_data' = [plane_data EXCEPT ![i] = Source[i]]
    BY <1>9 DEF WritePlaneData, roundVars, bufferVars
  <2>2. Source' = Source
    BY <2>1 DEF Source, SourceIndex
  <2>3. AnswerOfAsked' /\ BuffersOfRound'
    BY <1>2, <2>1 DEF AnswerOfAsked, BuffersOfRound, Asking
  <2>4. ASSUME NEW j \in DOMAIN Source \ toCopy'
        PROVE  plane_data'[j] = Source[j]
    <3>1. /\ toCopy \subseteq DOMAIN Source /\ plane_data \in [Slots -> PlaneInfo]
          /\ DOMAIN Source = 1 .. Len(Source) /\ Len(Source) \in Nat /\ Len(Source) <= Capacity
      BY <1>1, <2>1 DEF PictureFits, Source, TypeOK, RadarTypeOK, PollTypeOK, ShmTypeOK
    <3>2. i \in Slots
      BY <3>1, CapacityAssumption DEF Slots
    <3>3. CASE j = i
      BY <2>1, <3>1, <3>2, <3>3
    <3>4. CASE j # i
      BY <1>2, <2>1, <3>1, <3>4 DEF CopiedSoFar
    <3> QED BY <3>3, <3>4
  <2> QED BY <1>2, <2>1, <2>2, <2>3, <2>4 DEF RoundInv, CopiedSoFar, PictureOfLastRound
<1>10. CASE ClearBuffer
  <2>1. /\ UNCHANGED <<planesToPoll, polled, received_info, plane_data, count>>
        /\ pollPc = "plane_data" /\ pollPc' = "loop" /\ toCopy = {}
        /\ buf' = [buf EXCEPT ![SourceIndex] = <<>>]
    BY <1>10 DEF ClearBuffer, roundVars, shmVars
  <2>2. \A b \in {0, 1} : buf'[b] \in {buf[b], <<>>}
    BY <1>1, <2>1
  <2>3. AnswerOfAsked' /\ BuffersOfRound'
    BY <1>2, <2>1, <2>2 DEF AnswerOfAsked, BuffersOfRound, Asking
  <2>4. \A j \in Slots : j <= count => plane_data[j].id \in planesToPoll \cup {NoPlane}
    BY <1>1, <1>2, <2>1 DEF CopiedSoFar, BuffersOfRound, Source, Slots
  <2>5. PictureOfLastRound'
    BY <2>1, <2>4 DEF PictureOfLastRound, Listed
  <2> QED BY <2>1, <2>3, <2>5 DEF RoundInv, CopiedSoFar
<1> QED BY <1>3, <1>4, <1>5, <1>6, <1>7, <1>8, <1>9, <1>10 DEF PollAlone

(* An aircraft answers, or leaves with the request unanswered.             *)
LEMMA RoundAnswerStep ==
  ASSUME RoundInv, NEW p \in Planes, AnswerPoll(p) \/ Depart(p)
  PROVE  RoundInv'
<1> USE DEF PollGoto
<1>1. CASE AnswerPoll(p)
  <2>1. PICK bit \in HeaderBits : PositionReceived(PositionReply(p, bit))
    BY <1>1 DEF AnswerPoll
  <2>2. /\ UNCHANGED <<planesToPoll, polled, planesInAirspaceData>>
        /\ pollPc = "blocked" /\ pollPc' = "replied" /\ polled = p
        /\ received_info' = PositionReply(p, bit)
    BY <1>1, <2>1 DEF AnswerPoll, PositionReceived, bufferVars
  <2>3. PositionReply(p, bit).id \in {p, NoPlane}
    BY DEF PositionReply, ZeroInfo
  <2>4. AnswerOfAsked' /\ BuffersOfRound'
    BY <2>2, <2>3 DEF RoundInv, AnswerOfAsked, BuffersOfRound, Asking
  <2> QED BY <2>2, <2>4, RoundGoesOn
<1>2. CASE Depart(p) /\ RequestFailed
  <2>1. /\ UNCHANGED <<planesToPoll, received_info, planesInAirspaceData>>
        /\ pollPc = "blocked" /\ pollPc' = "next" /\ polled' = NoPlane
    BY <1>2 DEF RequestFailed, bufferVars
  <2>2. AnswerOfAsked' /\ BuffersOfRound'
    BY <2>1 DEF RoundInv, AnswerOfAsked, BuffersOfRound, Asking
  <2> QED BY <2>1, <2>2, RoundGoesOn
<1>3. CASE UNCHANGED radarVars
  BY <1>3, RoundUnchanged DEF radarVars
<1> QED BY <1>1, <1>2, <1>3 DEF Depart

(* Main writes to the shared memory only when the polling thread is gone.  *)
LEMMA RoundMainStep ==
  ASSUME ClearedSoFar, RoundInv, Main
  PROVE  RoundInv'
<1>1. CASE JoinPlanes \/ JoinTimer \/ DetachRadarChannel \/ JoinThreads
  <2>1. UNCHANGED pollVars /\ UNCHANGED shmVars
    BY <1>1 DEF JoinPlanes, JoinTimer, DetachRadarChannel, JoinThreads, StopThreads, DetachRadar,
         radarVars
  <2> QED BY <2>1, RoundUnchanged
<1>2. CASE ClearSharedMemory
  <2>1. pollPc = "exited" /\ UNCHANGED pollVars
    BY <1>2 DEF ClearedSoFar, ThreadsExited, ClearSharedMemory, MainGoto,
         ClearPlaneData, ClearCount, ClearIsEmpty, ClearTimestamp
  <2> QED BY <2>1 DEF RoundInv, AnswerOfAsked, Asking, BuffersOfRound, CopiedSoFar,
            PictureOfLastRound, pollVars, roundVars, bufferVars
<1> QED BY <1>1, <1>2 DEF Main

(* An answer, the buffers and what is copied belong to the round.          *)
LEMMA RoundInvCorrect == Spec => []RoundInv
<1>1. Init => RoundInv
  <2> SUFFICES ASSUME Init PROVE RoundInv
    OBVIOUS
  <2> USE DEF Init, RadarInit, ShmInit
  <2>1. AnswerOfAsked /\ BuffersOfRound /\ CopiedSoFar
    BY DEF AnswerOfAsked, Asking, BuffersOfRound, CopiedSoFar, ZeroInfo
  <2>2. Listed = {}
    BY CapacityAssumption DEF Listed, Slots
  <2> QED BY <2>1, <2>2 DEF RoundInv, PictureOfLastRound
<1>2. TypeOK /\ PictureInv /\ RoundInv /\ [Next]_vars => RoundInv'
  <2> SUFFICES ASSUME TypeOK, PictureInv, RoundInv, [Next]_vars PROVE RoundInv'
    OBVIOUS
  <2>1. CASE PollAlone
    BY <2>1, RoundPollStep DEF PictureInv
  <2>2. CASE Main
    BY <2>2, RoundMainStep DEF PictureInv
  <2>3. ASSUME NEW p \in Planes, AnswerPoll(p) \/ Depart(p)
        PROVE  RoundInv'
    BY <2>3, RoundAnswerStep
  <2>4. ASSUME NEW p \in Planes,
               \/ AircraftAlone(p) \/ ObeyCommand(p) \/ AnswerStray(p)
               \/ AnswerEnter(p) \/ AnswerExit(p)
        PROVE  RoundInv'
    BY <2>4, RoundUnchanged DEF AircraftAlone, ObeyCommand, AnswerStray, AnswerEnter, AnswerExit,
         ReceiveAirspaceMessage, ArrivalGoto, radarVars
  <2>5. CASE ArrivalAlone \/ ArrivalStray \/ Tick \/ (\E c \in Commands : SendCommand(c))
              \/ UNCHANGED vars
    BY <2>5, RoundUnchanged DEF ArrivalAlone, ArrivalStray, AttachRadar, ArrivalLoop,
         ReceiveStray, ReceiveFails, HandleAirspaceMessage, ArrivalGoto, Tick, SendCommand,
         vars, radarVars
  <2> QED BY <2>1, <2>2, <2>3, <2>4, <2>5 DEF Next, Terminated
<1> QED BY <1>1, <1>2, TypeCorrect, PictureInvCorrect, PTL DEF Spec

(* Radar publishes only aircraft it knew of when it began the round.       *)
THEOREM PictureOfLastRoundCorrect == Spec => []PictureOfLastRound
<1>1. RoundInv => PictureOfLastRound
  BY DEF RoundInv
<1> QED BY <1>1, RoundInvCorrect, PTL

-----------------------------------------------------------------------------
(* Where the aircraft of the picture are.                                  *)

AllPlausible(data) == \A i \in DOMAIN data : Plausible(data[i])

(* Steps of the aircraft threads keep those that may be asked inside.      *)
LEMMA AircraftStaysInside ==
  ASSUME TypeOK, AircraftInside, NEW p \in Planes,
         \/ AircraftAlone(p) \/ AnswerPoll(p) \/ ObeyCommand(p) \/ AnswerStray(p)
         \/ Depart(p) \/ AnswerEnter(p) \/ AnswerExit(p)
  PROVE  AircraftInside'
<1> USE DEF Goto, AircraftInside
<1>1. /\ aircraftPc \in [Planes -> AircraftPcs] /\ position \in [Planes -> Vector]
  BY DEF TypeOK, AircraftTypeOK
<1>2. CASE Move(p, RadarUp)
  <2>1. /\ position'[p] = Moved(p)
        /\ aircraftPc'[p] = "receiving" => InAirspace(Moved(p))
    BY <1>1, <1>2 DEF Move
  <2>2. \A q \in Planes \ {p} : aircraftPc'[q] = aircraftPc[q] /\ position'[q] = position[q]
    BY <1>1, <1>2 DEF Move
  <2>3. ASSUME NEW q \in Planes, aircraftPc'[q] = "receiving"
        PROVE  InAirspace(position'[q])
    <3>1. CASE q = p
      BY <2>1, <2>3, <3>1
    <3>2. CASE q # p
      BY <2>2, <2>3, <3>2
    <3> QED BY <3>1, <3>2
  <2> QED BY <2>3 DEF InAirspace
<1>3. CASE AircraftAlone(p) /\ ~Move(p, RadarUp)
  BY <1>1, <1>3 DEF AircraftAlone, AwaitArrival, OpenRadar, SendEnter, AttachChannel, WaitTimer,
     InAirspace
<1>4. CASE AnswerPoll(p) \/ AnswerStray(p)
  BY <1>1, <1>4 DEF AnswerPoll, AnswerStray, Reply, InAirspace
<1>5. CASE ObeyCommand(p)
  <2>1. aircraftPc' = [aircraftPc EXCEPT ![p] = "waiting"]
    BY <1>5 DEF ObeyCommand, ReplyToCommand
  <2>2. ASSUME NEW q \in Planes \ {p} PROVE position'[q] = position[q]
    BY <1>1, <1>5 DEF ObeyCommand, ReplyToCommand
  <2> QED BY <1>1, <2>1, <2>2 DEF InAirspace
<1>6. CASE Depart(p) \/ AnswerEnter(p) \/ AnswerExit(p)
  BY <1>1, <1>6 DEF Depart, DetachChannel, AnswerEnter, EnterReplied, AnswerExit, ExitReplied,
     InAirspace
<1> QED BY <1>2, <1>3, <1>4, <1>5, <1>6

(* What the aircraft thread does to the records is to answer.              *)
LEMMA AnswerPlausible ==
  ASSUME TypeOK, PositionsInv, NEW p \in Planes,
         \/ AircraftAlone(p) \/ AnswerPoll(p) \/ ObeyCommand(p) \/ AnswerStray(p)
         \/ Depart(p) \/ AnswerEnter(p) \/ AnswerExit(p)
  PROVE  UNCHANGED <<plane_data, planesInAirspaceData>> /\ Plausible(received_info')
<1>1. CASE AnswerPoll(p)
  <2>1. PICK bit \in HeaderBits : PositionReceived(PositionReply(p, bit))
    BY <1>1 DEF AnswerPoll
  <2>2. InAirspace(position[p])
    BY <1>1 DEF PositionsInv, AircraftInside, AnswerPoll, Reply, Goto
  <2>3. Plausible(PositionReply(p, bit))
    BY <2>2 DEF Plausible, PositionReply, ZeroInfo
  <2> QED BY <2>1, <2>3 DEF PositionReceived, bufferVars, shmVars
<1>2. CASE UNCHANGED <<plane_data, planesInAirspaceData, received_info>>
  BY <1>2 DEF PositionsInv
<1>3. CASE Depart(p)
  <2>1. UNCHANGED <<plane_data, planesInAirspaceData, received_info>>
    <3>1. CASE RequestFailed
      BY <3>1 DEF RequestFailed, bufferVars, shmVars
    <3>2. CASE UNCHANGED radarVars
      BY <3>2 DEF radarVars, pollVars, roundVars, bufferVars, shmVars
    <3> QED BY <1>3, <3>1, <3>2 DEF Depart
  <2> QED BY <1>2, <2>1
<1>4. CASE AircraftAlone(p) \/ ObeyCommand(p) \/ AnswerStray(p)
  <2>1. UNCHANGED radarVars
    BY <1>4 DEF AircraftAlone, ObeyCommand, AnswerStray
  <2>2. UNCHANGED <<plane_data, planesInAirspaceData, received_info>>
    BY <2>1 DEF radarVars, pollVars, roundVars, bufferVars, shmVars
  <2> QED BY <1>2, <2>2
<1>5. CASE AnswerEnter(p) \/ AnswerExit(p)
  <2>1. UNCHANGED pollVars /\ UNCHANGED shmVars
    BY <1>5 DEF AnswerEnter, AnswerExit, ReceiveAirspaceMessage, ArrivalGoto
  <2>2. UNCHANGED <<plane_data, planesInAirspaceData, received_info>>
    BY <2>1 DEF pollVars, roundVars, bufferVars, shmVars
  <2> QED BY <1>2, <2>2
<1> QED BY <1>1, <1>3, <1>4, <1>5

(* Radar and main move plausible records about.                            *)
LEMMA RecordsStayPlausible ==
  ASSUME TypeOK, PictureFits, PositionsInv, PollAlone \/ Main
  PROVE  /\ PositionsInAirspace'
         /\ Plausible(received_info')
<1> DEFINE buf == planesInAirspaceData
<1> USE DEF AllPlausible
<1>1. /\ buf \in [{0, 1} -> Seq(PlaneInfo)] /\ plane_data \in [Slots -> PlaneInfo]
      /\ activeBufferIndex \in {0, 1} /\ inactiveBufferIndex \in {0, 1}
      /\ SourceIndex \in {0, 1}
      /\ received_info \in PlaneInfo
  BY DEF TypeOK, RadarTypeOK, PollTypeOK, ShmTypeOK, SourceIndex
<1>2. /\ AllPlausible(plane_data) /\ \A b \in {0, 1} : AllPlausible(buf[b])
      /\ Plausible(received_info) /\ Plausible(ZeroInfo)
  BY <1>1 DEF PositionsInv, PositionsInAirspace, Plausible, ZeroInfo
<1>3. SUFFICES /\ \A i \in Slots : Plausible(plane_data'[i])
               /\ \A b \in {0, 1} : AllPlausible(buf'[b])
               /\ Plausible(received_info')
  BY DEF PositionsInAirspace, Plausible, InAirspace
<1>4. CASE ClearPlaneData
  <2>1. /\ \E i \in Slots : plane_data' = [plane_data EXCEPT ![i] = ZeroInfo]
        /\ UNCHANGED <<buf, received_info>>
    BY <1>4 DEF ClearPlaneData, pollVars, roundVars, bufferVars
  <2> QED BY <1>1, <1>2, <2>1
<1>5. ASSUME NEW i \in toCopy, WritePlaneData(i)
      PROVE  /\ \A j \in Slots : Plausible(plane_data'[j])
             /\ UNCHANGED <<buf, received_info>>
  <2>1. Plausible(Source[i])
    BY <1>1, <1>2, <1>5 DEF Source, WritePlaneData, PollGoto, TypeOK, RadarTypeOK, PollTypeOK
  <2>2. plane_data' = [plane_data EXCEPT ![i] = Source[i]] /\ UNCHANGED <<buf, received_info>>
    BY <1>5 DEF WritePlaneData, roundVars, bufferVars
  <2> QED BY <1>1, <1>2, <2>1, <2>2
<1>6. CASE StoreReply
  <2>1. /\ plane_data' = plane_data /\ received_info' = ZeroInfo
        /\ buf' = [buf EXCEPT ![inactiveBufferIndex] = Append(@, received_info)]
    BY <1>6 DEF StoreReply, shmVars
  <2>2. ASSUME NEW b \in {0, 1}, NEW i \in DOMAIN buf'[b]
        PROVE  Plausible(buf'[b][i])
    <3>1. buf'[b] = IF b = inactiveBufferIndex THEN Append(buf[b], received_info) ELSE buf[b]
      BY <1>1, <2>1
    <3>2. i \in DOMAIN buf[b] => buf'[b][i] = buf[b][i]
      BY <1>1, <3>1
    <3>3. i \notin DOMAIN buf[b] => buf'[b][i] = received_info
      BY <1>1, <2>2, <3>1
    <3> QED BY <1>2, <3>2, <3>3
  <2> QED BY <1>1, <1>2, <2>1, <2>2
<1>7. CASE CopyPlanes \/ ClearBuffer
  <2>1. /\ UNCHANGED <<plane_data, received_info>>
        /\ \A b \in {0, 1} : buf'[b] \in {buf[b], <<>>}
    BY <1>1, <1>7 DEF CopyPlanes, ClearBuffer, roundVars, shmVars
  <2> QED BY <1>1, <1>2, <2>1
<1>8. CASE UNCHANGED <<plane_data, planesInAirspaceData, received_info>>
  BY <1>1, <1>2, <1>8
<1>9. CASE PollAlone
  <2>1. CASE PollLoop \/ CheckAirspace \/ PollDone \/ WriteTimestamp(tick_counter)
             \/ WriteIsEmpty \/ WriteCount \/ RequestPosition(planeChannels)
    <3>1. UNCHANGED <<plane_data, planesInAirspaceData, received_info>>
      BY <2>1 DEF PollLoop, CheckAirspace, PollDone, WriteTimestamp, WriteIsEmpty, WriteCount,
         RequestPosition, roundVars, bufferVars, shmVars
    <3> QED BY <1>8, <3>1
  <2>2. ASSUME NEW p \in Planes, PollNext(p) \/ PollSkip(p)
        PROVE  UNCHANGED <<plane_data, planesInAirspaceData, received_info>>
    BY <2>2 DEF PollNext, PollSkip, bufferVars, shmVars
  <2> QED BY <1>2, <1>5, <1>6, <1>7, <1>8, <1>9, <2>1, <2>2 DEF PollAlone
<1>10. CASE Main
  <2>1. CASE JoinPlanes \/ JoinTimer \/ DetachRadarChannel \/ JoinThreads
    <3>1. UNCHANGED <<plane_data, planesInAirspaceData, received_info>>
      BY <2>1 DEF JoinPlanes, JoinTimer, DetachRadarChannel, JoinThreads, StopThreads,
         DetachRadar, radarVars, pollVars, roundVars, bufferVars, shmVars
    <3> QED BY <1>8, <3>1
  <2>2. CASE ClearCount \/ ClearIsEmpty \/ ClearTimestamp
    <3>1. UNCHANGED <<plane_data, planesInAirspaceData, received_info>>
      BY <2>2 DEF ClearCount, ClearIsEmpty, ClearTimestamp, pollVars, roundVars, bufferVars
    <3> QED BY <1>8, <3>1
  <2> QED BY <1>4, <1>10, <2>1, <2>2 DEF Main, ClearSharedMemory
<1> QED BY <1>9, <1>10

(* The picture never shows an aircraft where it cannot be.                 *)
THEOREM PositionsInAirspaceCorrect == Spec => []PositionsInAirspace
<1>1. Init => PositionsInv
  BY DEF Init, AircraftInit, RadarInit, ShmInit, PositionsInv, PositionsInAirspace, Plausible,
     AircraftInside, ZeroPlaneData, ZeroInfo
<1>2. TypeOK /\ PictureInv /\ PositionsInv /\ [Next]_vars => PositionsInv'
  <2> SUFFICES ASSUME TypeOK, PictureInv, PositionsInv, [Next]_vars PROVE PositionsInv'
    OBVIOUS
  <2>1. PositionsInAirspace /\ Plausible(received_info) /\ AircraftInside
    BY DEF PositionsInv
  <2>2. CASE PollAlone \/ Main
    <3>1. PositionsInAirspace' /\ Plausible(received_info')
      BY <2>2, RecordsStayPlausible DEF PictureInv
    <3>2. /\ position' = position
          /\ \A p \in Planes : aircraftPc'[p] = "receiving" => aircraftPc[p] = "receiving"
      BY <2>2 DEF PollAlone, Main, JoinPlanes, JoinTimer, DetachRadarChannel, JoinThreads,
         ClearSharedMemory, RadarChannelLost, aircraftVars, TypeOK, AircraftTypeOK
    <3> QED BY <2>1, <3>1, <3>2 DEF PositionsInv, AircraftInside, Plausible, InAirspace
  <2>3. ASSUME NEW p \in Planes,
               \/ AircraftAlone(p) \/ AnswerPoll(p) \/ ObeyCommand(p) \/ AnswerStray(p)
               \/ Depart(p) \/ AnswerEnter(p) \/ AnswerExit(p)
        PROVE  PositionsInv'
    <3>1. AircraftInside'
      BY <2>1, <2>3, AircraftStaysInside
    <3>2. UNCHANGED <<plane_data, planesInAirspaceData>> /\ Plausible(received_info')
      BY <2>3, AnswerPlausible
    <3> QED BY <2>1, <3>1, <3>2 DEF PositionsInv, PositionsInAirspace, AircraftInside, Plausible,
              InAirspace
  <2>4. CASE ArrivalAlone \/ ArrivalStray \/ Tick \/ (\E c \in Commands : SendCommand(c))
              \/ UNCHANGED vars
    <3>1. UNCHANGED <<plane_data, planesInAirspaceData, received_info, aircraftPc, position>>
      BY <2>4 DEF ArrivalAlone, ArrivalStray, AttachRadar, ArrivalLoop, ReceiveStray, ReceiveFails,
         HandleAirspaceMessage, ArrivalGoto, Tick, SendCommand, vars, radarVars, pollVars,
         roundVars, bufferVars, shmVars, aircraftVars
    <3> QED BY <3>1 DEF PositionsInv, PositionsInAirspace, AircraftInside, Plausible, InAirspace
  <2> QED BY <2>2, <2>3, <2>4 DEF Next, Terminated
<1>3. PositionsInv => PositionsInAirspace
  BY DEF PositionsInv
<1> QED BY <1>1, <1>2, <1>3, TypeCorrect, PictureInvCorrect, PTL DEF Spec

-----------------------------------------------------------------------------
(* Radar implements the writer of snapshots that its readers see.          *)

roundData == <<unpolled, polled, planesInAirspaceData, inactiveBufferIndex>>

(* The polling thread asks every aircraft once.                            *)
LEMMA AskedOnceStep ==
  ASSUME TypeOK, BuffersDrained, AnswerOfAsked, AskedOnce, PollAlone
  PROVE  AskedOnce'
<1> DEFINE buf == planesInAirspaceData
           collected == buf[inactiveBufferIndex]
<1> USE PlanesAssumption DEF PollGoto
<1>1. /\ buf \in [{0, 1} -> Seq(PlaneInfo)]
      /\ activeBufferIndex \in {0, 1} /\ inactiveBufferIndex \in {0, 1}
      /\ SourceIndex \in {0, 1}
      /\ unpolled \subseteq Planes /\ collected \in Seq(PlaneInfo)
  BY DEF TypeOK, RadarTypeOK, PollTypeOK, SourceIndex
<1>2. CASE UNCHANGED roundData
  BY <1>2 DEF AskedOnce, roundData
<1>3. CASE CopyPlanes \/ ClearBuffer
  <2>1. /\ polled' \notin unpolled' /\ buf'[inactiveBufferIndex'] = <<>>
    <3>1. CASE CopyPlanes
      <4>1. polled = NoPlane /\ planesInAirspace \subseteq Planes
        BY <3>1 DEF CopyPlanes, AnswerOfAsked, Asking, TypeOK, RadarTypeOK, ArrivalTypeOK
      <4> QED BY <1>1, <3>1, <4>1 DEF CopyPlanes
    <3>2. CASE ClearBuffer
      <4>1. pollPc' = "loop" /\ UNCHANGED <<polled, unpolled, inactiveBufferIndex>>
        BY <3>2 DEF ClearBuffer, roundVars
      <4>2. polled \notin unpolled /\ buf' = [buf EXCEPT ![SourceIndex] = <<>>]
        BY <3>2 DEF ClearBuffer, AskedOnce
      <4>3. \A b \in {0, 1} : b # SourceIndex => buf[b] = <<>>
        BY <1>1 DEF BuffersDrained, SourceIndex
      <4> QED BY <1>1, <4>1, <4>2, <4>3
    <3> QED BY <1>3, <3>1, <3>2
  <2> QED BY <2>1 DEF AskedOnce
<1>4. ASSUME NEW p \in Planes, PollNext(p) \/ PollSkip(p)
      PROVE  AskedOnce'
  <2>1. /\ UNCHANGED <<buf, inactiveBufferIndex>> /\ unpolled' = unpolled \ {p}
        /\ p \in unpolled /\ polled' \in {p, polled}
    BY <1>4 DEF PollNext, PollSkip, bufferVars
  <2> QED BY <2>1 DEF AskedOnce
<1>5. CASE RequestPosition(planeChannels)
  <2>1. /\ UNCHANGED <<buf, inactiveBufferIndex, unpolled>> /\ polled' \in {polled, NoPlane}
    BY <1>5 DEF RequestPosition, bufferVars
  <2> QED BY <1>1, <2>1 DEF AskedOnce
<1>6. CASE StoreReply
  <2>1. /\ UNCHANGED <<unpolled, inactiveBufferIndex>> /\ polled' = NoPlane
        /\ buf' = [buf EXCEPT ![inactiveBufferIndex] = Append(@, received_info)]
        /\ pollPc = "replied"
    BY <1>6 DEF StoreReply
  <2>2. collected' = Append(collected, received_info) /\ received_info \in PlaneInfo
    BY <1>1, <2>1 DEF TypeOK, RadarTypeOK, PollTypeOK
  <2>3. received_info.id \in {polled, NoPlane}
    BY <2>1 DEF AnswerOfAsked
  <2> HIDE DEF collected
  <2>4. /\ \A i \in DOMAIN collected' :
             i \in DOMAIN collected \/ i = Len(collected) + 1
        /\ \A i \in DOMAIN collected : collected'[i] = collected[i] /\ i # Len(collected) + 1
        /\ collected'[Len(collected) + 1] = received_info
    BY <1>1, <2>2
  <2>5. /\ \A i \in DOMAIN collected :
             collected[i].id \notin (unpolled \cup {polled}) \ {NoPlane}
        /\ \A i, j \in DOMAIN collected :
             collected[i].id = collected[j].id => i = j \/ collected[i].id = NoPlane
        /\ polled \notin unpolled
    BY DEF AskedOnce, collected
  <2>6. \A i \in DOMAIN collected' :
          collected'[i].id \notin (unpolled \cup {NoPlane}) \ {NoPlane}
    BY <2>3, <2>4, <2>5
  <2>7. \A i, j \in DOMAIN collected' :
          collected'[i].id = collected'[j].id => i = j \/ collected'[i].id = NoPlane
    BY <2>3, <2>4, <2>5
  <2> QED BY <1>1, <2>1, <2>6, <2>7 DEF AskedOnce, collected
<1>7. CASE PollLoop \/ CheckAirspace \/ PollDone \/ WriteTimestamp(tick_counter)
           \/ WriteIsEmpty \/ WriteCount
  <2>1. UNCHANGED roundData
    BY <1>7 DEF PollLoop, CheckAirspace, PollDone, WriteTimestamp, WriteIsEmpty, WriteCount,
         roundVars, bufferVars, roundData
  <2> QED BY <1>2, <2>1
<1>8. ASSUME NEW i \in toCopy, WritePlaneData(i)
      PROVE  UNCHANGED roundData
  BY <1>8 DEF WritePlaneData, roundVars, bufferVars, roundData
<1> QED BY <1>2, <1>3, <1>4, <1>5, <1>6, <1>7, <1>8 DEF PollAlone

(* The other threads at most end a request.                                *)
LEMMA AskedOnceElse ==
  ASSUME TypeOK, AskedOnce, [Next]_vars, ~PollAlone
  PROVE  AskedOnce'
<1> USE DEF roundData
<1>1. CASE UNCHANGED roundData
  BY <1>1 DEF AskedOnce
<1>2. CASE RequestFailed
  <2>1. UNCHANGED <<unpolled, planesInAirspaceData, inactiveBufferIndex>> /\ polled' = NoPlane
    BY <1>2 DEF RequestFailed, bufferVars
  <2>2. NoPlane \notin unpolled
    BY PlanesAssumption DEF TypeOK, RadarTypeOK, PollTypeOK
  <2> QED BY <2>1, <2>2 DEF AskedOnce
<1>3. CASE UNCHANGED pollVars
  BY <1>1, <1>3 DEF pollVars, roundVars, bufferVars
<1>4. ASSUME NEW p \in Planes, AnswerPoll(p)
      PROVE  UNCHANGED roundData
  BY <1>4 DEF AnswerPoll, PositionReceived, PollGoto, bufferVars
<1>5. ASSUME NEW p \in Planes, Depart(p)
      PROVE  RequestFailed \/ UNCHANGED pollVars
  BY <1>5 DEF Depart, radarVars
<1>6. ASSUME NEW p \in Planes,
             \/ AircraftAlone(p) \/ ObeyCommand(p) \/ AnswerStray(p)
             \/ AnswerEnter(p) \/ AnswerExit(p)
      PROVE  UNCHANGED pollVars
  BY <1>6 DEF AircraftAlone, ObeyCommand, AnswerStray, AnswerEnter, AnswerExit,
     ReceiveAirspaceMessage, ArrivalGoto, radarVars
<1>7. CASE ArrivalAlone \/ ArrivalStray
  <2>1. UNCHANGED pollVars
    BY <1>7 DEF ArrivalAlone, ArrivalStray, AttachRadar, ArrivalLoop, ReceiveStray, ReceiveFails,
       HandleAirspaceMessage, ArrivalGoto
  <2> QED BY <1>3, <2>1
<1>8. CASE Tick \/ (\E c \in Commands : SendCommand(c)) \/ UNCHANGED vars
  <2>1. UNCHANGED pollVars
    BY <1>8 DEF Tick, SendCommand, vars, radarVars
  <2> QED BY <1>3, <2>1
<1>9. CASE Main
  <2>1. UNCHANGED pollVars
    BY <1>9 DEF Main, JoinPlanes, JoinTimer, DetachRadarChannel, JoinThreads, ClearSharedMemory,
       StopThreads, DetachRadar, ClearPlaneData, ClearCount, ClearIsEmpty, ClearTimestamp, radarVars
  <2> QED BY <1>3, <2>1
<1> QED BY <1>1, <1>2, <1>3, <1>4, <1>5, <1>6, <1>7, <1>8, <1>9 DEF Next, Terminated

(* The collected records of one aircraft, and the clock.                   *)
LEMMA WriterInvCorrect == Spec => [](AskedOnce /\ TimestampPast)
<1>1. Init => AskedOnce /\ TimestampPast
  BY PlanesAssumption DEF Init, RadarInit, ShmInit, AskedOnce, TimestampPast
<1>2. TypeOK /\ PictureInv /\ RoundInv /\ AskedOnce /\ [Next]_vars => AskedOnce'
  BY AskedOnceStep, AskedOnceElse DEF PictureInv, RoundInv
<1>3. TypeOK /\ TimestampPast /\ [Next]_vars => TimestampPast'
  <2> SUFFICES ASSUME TypeOK, TimestampPast, [Next]_vars PROVE TimestampPast'
    OBVIOUS
  <2>1. timestamp \in Nat /\ tick_counter \in Nat /\ timestamp <= tick_counter
    BY AirspaceAssumption DEF TypeOK, RadarTypeOK, ShmTypeOK, MainTypeOK, TimestampPast
  <2>2. \/ timestamp' \in {timestamp, 0} /\ tick_counter' \in {tick_counter, tick_counter + 1}
        \/ timestamp' = tick_counter /\ tick_counter' = tick_counter
    <3>1. CASE Tick
      BY <3>1 DEF Tick, radarVars, shmVars
    <3>2. CASE Main
      <4>1. CASE ClearSharedMemory
        BY <4>1 DEF ClearSharedMemory, ClearPlaneData, ClearCount, ClearIsEmpty, ClearTimestamp
      <4>2. CASE JoinPlanes \/ JoinTimer \/ DetachRadarChannel \/ JoinThreads
        BY <4>2 DEF JoinPlanes, JoinTimer, DetachRadarChannel, JoinThreads, StopThreads,
           DetachRadar, radarVars, shmVars
      <4> QED BY <3>2, <4>1, <4>2 DEF Main
    <3>3. CASE PollAlone
      BY <3>3 DEF PollAlone, PollLoop, CheckAirspace, CopyPlanes, PollNext, PollSkip, PollDone,
         RequestPosition, StoreReply, WriteTimestamp, WriteIsEmpty, WriteCount, WritePlaneData,
         ClearBuffer, shmVars, mainVars
    <3>4. ASSUME NEW p \in Planes, AnswerPoll(p) \/ Depart(p)
          PROVE  UNCHANGED <<timestamp, tick_counter>>
      BY <3>4 DEF AnswerPoll, Depart, PositionReceived, RequestFailed, radarVars, shmVars, mainVars
    <3>5. ASSUME NEW p \in Planes,
                 \/ AircraftAlone(p) \/ ObeyCommand(p) \/ AnswerStray(p)
                 \/ AnswerEnter(p) \/ AnswerExit(p)
          PROVE  UNCHANGED <<timestamp, tick_counter>>
      BY <3>5 DEF AircraftAlone, ObeyCommand, AnswerStray, AnswerEnter, AnswerExit,
         ReceiveAirspaceMessage, ArrivalGoto, radarVars, shmVars, mainVars
    <3>6. CASE ArrivalAlone \/ ArrivalStray \/ (\E c \in Commands : SendCommand(c))
                \/ UNCHANGED vars
      BY <3>6 DEF ArrivalAlone, ArrivalStray, AttachRadar, ArrivalLoop, ReceiveStray, ReceiveFails,
         HandleAirspaceMessage, ArrivalGoto, SendCommand, vars, radarVars, shmVars, mainVars
    <3> QED BY <3>1, <3>2, <3>3, <3>4, <3>5, <3>6 DEF Next, Terminated
  <2> QED BY <2>1, <2>2 DEF TimestampPast
<1> QED BY <1>1, <1>2, <1>3, TypeCorrect, PictureInvCorrect, RoundInvCorrect, PTL DEF Spec

(* What is written is a snapshot: it fits, and has no aircraft twice.      *)
LEMMA SourceIsSnapshot ==
  ASSUME TypeOK, BuffersDrained, PictureFits, AskedOnce
  PROVE  Source \in PlaneSnapshots
<1>1. /\ SourceIndex \in {0, 1} /\ inactiveBufferIndex \in {0, 1}
      /\ planesInAirspaceData \in [{0, 1} -> Seq(PlaneInfo)]
  BY DEF TypeOK, RadarTypeOK, PollTypeOK, SourceIndex
<1>2. Source \in Seq(PlaneInfo) /\ Len(Source) <= Capacity
  BY <1>1 DEF Source, PictureFits
<1>3. Source = <<>> \/ Source = planesInAirspaceData[inactiveBufferIndex]
  BY <1>1 DEF Source, BuffersDrained
<1>4. \A i, j \in DOMAIN Source : Source[i].id = Source[j].id => i = j \/ Source[i].id = NoPlane
  BY <1>3 DEF AskedOnce
<1> QED BY <1>2, <1>4 DEF PlaneSnapshots

(* The variables of SnapshotWriter, as this module gives them.             *)
MappedWriter ==
  <<IF mainPc \in Clearing THEN mainPc ELSE IF pollPc \in Writing THEN pollPc ELSE "idle",
    IF pollPc \in Writing THEN Source ELSE <<>>, toCopy, shmVars>>

(* A step of the polling thread is one of the writer, or invisible to it.  *)
LEMMA PollStepWrites ==
  ASSUME TypeOK, PictureInv, AskedOnce, TimestampPast, PollAlone
  PROVE  Writer!WriterNext \/ UNCHANGED MappedWriter
<1> USE DEF PollGoto
<1>1. /\ pollPc # "exited" /\ mainPc \notin Clearing /\ mainPc' = mainPc
  <2>1. pollPc # "exited" /\ mainPc' = mainPc
    BY DEF PollAlone, PollLoop, CheckAirspace, CopyPlanes, PollNext, PollSkip, PollDone,
       RequestPosition, StoreReply, WriteTimestamp, WriteIsEmpty, WriteCount, WritePlaneData,
       ClearBuffer, mainVars
  <2> QED BY <2>1 DEF PictureInv, ClearedSoFar, ThreadsExited, Clearing
<1>2. CASE WriteTimestamp(tick_counter)
  <2>1. Source' = Source /\ pollPc = "timestamp" /\ pollPc' = "is_empty" /\ toCopy' = toCopy
        /\ UNCHANGED <<plane_data, count, is_empty>> /\ timestamp' = tick_counter
    BY <1>2 DEF WriteTimestamp, bufferVars, Source, SourceIndex
  <2>2. Source \in PlaneSnapshots
    BY SourceIsSnapshot DEF PictureInv
  <2>3. tick_counter \in timestamp .. MaxTick
    BY AirspaceAssumption DEF TimestampPast, TypeOK, MainTypeOK, RadarTypeOK, ShmTypeOK
  <2>4. Writer!PutTimestamp
    BY <1>1, <2>1, <2>2, <2>3 DEF Writer!PutTimestamp, Writer!WriterGoto, Writer!PlaneSnapshots,
       Writing, Clearing
  <2> QED BY <2>4 DEF Writer!WriterNext
<1>3. CASE WriteIsEmpty
  <2>1. Source' = Source /\ pollPc = "is_empty" /\ pollPc' = "count" /\ toCopy' = toCopy
        /\ UNCHANGED <<plane_data, count, timestamp>> /\ is_empty' = (Source = <<>>)
    BY <1>3 DEF WriteIsEmpty, bufferVars, Source, SourceIndex
  <2>2. Writer!PutIsEmpty
    BY <1>1, <2>1 DEF Writer!PutIsEmpty, Writer!WriterGoto, Writing, Clearing
  <2> QED BY <2>2 DEF Writer!WriterNext
<1>4. CASE WriteCount
  <2>1. Source' = Source /\ pollPc = "count" /\ pollPc' = "plane_data" /\ toCopy' = DOMAIN Source
        /\ UNCHANGED <<plane_data, is_empty, timestamp>> /\ count' = Len(Source)
    BY <1>4 DEF WriteCount, CountToWrite, bufferVars, Source, SourceIndex
  <2>2. Writer!PutCount
    BY <1>1, <2>1 DEF Writer!PutCount, Writer!WriterGoto, Writing, Clearing
  <2> QED BY <2>2 DEF Writer!WriterNext
<1>5. ASSUME NEW i \in toCopy, WritePlaneData(i)
      PROVE  Writer!WriterNext
  <2>1. Source' = Source /\ pollPc = "plane_data" /\ pollPc' = "plane_data"
        /\ toCopy' = toCopy \ {i} /\ plane_data' = [plane_data EXCEPT ![i] = Source[i]]
        /\ UNCHANGED <<count, is_empty, timestamp>>
    BY <1>5 DEF WritePlaneData, bufferVars, Source, SourceIndex
  <2>2. Writer!PutRecord(i)
    BY <1>1, <2>1 DEF Writer!PutRecord, Writer!WriterGoto, Writing, Clearing
  <2> QED BY <1>5, <2>2 DEF Writer!WriterNext
<1>6. CASE ClearBuffer
  <2>1. pollPc = "plane_data" /\ pollPc' = "loop" /\ toCopy = {} /\ toCopy' = toCopy
        /\ UNCHANGED shmVars
    BY <1>6 DEF ClearBuffer
  <2>2. Writer!EndWrite
    BY <1>1, <2>1 DEF Writer!EndWrite, Writer!WriterGoto, Writer!shmVars, shmVars, Writing, Clearing
  <2> QED BY <2>2 DEF Writer!WriterNext
<1>7. CASE PollLoop \/ CheckAirspace \/ CopyPlanes \/ PollDone \/ RequestPosition(planeChannels)
           \/ StoreReply \/ \E p \in Planes : PollNext(p) \/ PollSkip(p)
  <2>1. pollPc \notin Writing /\ pollPc' \notin Writing /\ toCopy' = toCopy /\ UNCHANGED shmVars
    BY <1>7 DEF PollLoop, CheckAirspace, CopyPlanes, PollNext, PollSkip, PollDone,
       RequestPosition, StoreReply, Writing
  <2> QED BY <1>1, <2>1 DEF MappedWriter, shmVars
<1> QED BY <1>2, <1>3, <1>4, <1>5, <1>6, <1>7 DEF PollAlone

(* And so is every other step.                                             *)
LEMMA ElseStepWrites ==
  ASSUME TypeOK, PictureInv, [Next]_vars, ~PollAlone
  PROVE  Writer!WriterNext \/ UNCHANGED MappedWriter
<1>1. CASE ClearSharedMemory
  <2>1. pollPc = "exited" /\ pollPc' = "exited" /\ toCopy' = toCopy
    BY <1>1 DEF PictureInv, ClearedSoFar, ThreadsExited, ClearSharedMemory, MainGoto,
       ClearPlaneData, ClearCount, ClearIsEmpty, ClearTimestamp, pollVars
  <2>2. Writer!Erase
    BY <1>1, <2>1 DEF Writer!Erase, Writer!Clear, Writer!WriterGoto, Writer!ZeroPlaneData,
       Writer!Slots, Writer!ZeroInfo, Writer!ZeroVector, Writer!Axes,
       ZeroPlaneData, Slots, ZeroInfo, ZeroVector, Axes, ClearSharedMemory, MainGoto,
       ClearPlaneData, ClearCount, ClearIsEmpty, ClearTimestamp, Writing, Clearing
  <2> QED BY <2>2 DEF Writer!WriterNext
<1>2. CASE /\ UNCHANGED shmVars /\ toCopy' = toCopy
           /\ mainPc' = mainPc \/ {mainPc, mainPc'} \cap Clearing = {}
           /\ UNCHANGED <<pollPc, bufferVars>> \/ {pollPc, pollPc'} \cap Writing = {}
  BY <1>2 DEF MappedWriter, Source, SourceIndex, bufferVars, Clearing, Writing
<1>3. CASE Main /\ ~ClearSharedMemory
  <2>1. UNCHANGED pollVars /\ UNCHANGED shmVars
    BY <1>3 DEF Main, JoinPlanes, JoinTimer, DetachRadarChannel, JoinThreads, StopThreads,
       DetachRadar, radarVars
  <2>2. CASE JoinThreads
    <3>1. /\ mainPc = "joinThreads" /\ mainPc' = "clearPlaneData"
          /\ pollPc = "exited" /\ UNCHANGED <<pollPc, toCopy>>
      BY <2>1, <2>2 DEF JoinThreads, ThreadsExited, MainGoto, pollVars
    <3>2. Writer!Erase
      BY <2>1, <3>1 DEF Writer!Erase, Writer!WriterGoto, Writer!shmVars, shmVars, Writing, Clearing
    <3> QED BY <3>2 DEF Writer!WriterNext
  <2>3. CASE JoinPlanes \/ JoinTimer \/ DetachRadarChannel
    <3>1. {mainPc, mainPc'} \cap Clearing = {}
      BY <2>3 DEF JoinPlanes, JoinTimer, DetachRadarChannel, MainGoto, Clearing
    <3> QED BY <1>2, <2>1, <3>1 DEF pollVars
  <2> QED BY <1>3, <2>2, <2>3 DEF Main
<1>4. ASSUME NEW p \in Planes, AnswerPoll(p) \/ Depart(p)
      PROVE  Writer!WriterNext \/ UNCHANGED MappedWriter
  <2>1. mainPc' = mainPc
    BY <1>4 DEF AnswerPoll, Depart, mainVars
  <2>2. \/ UNCHANGED radarVars
        \/ /\ {pollPc, pollPc'} \cap Writing = {}
           /\ toCopy' = toCopy /\ UNCHANGED shmVars
    BY <1>4 DEF AnswerPoll, Depart, PositionReceived, RequestFailed, PollGoto, Writing
  <2> QED BY <1>2, <2>1, <2>2 DEF radarVars, pollVars
<1>5. ASSUME NEW p \in Planes,
             \/ AircraftAlone(p) \/ ObeyCommand(p) \/ AnswerStray(p)
             \/ AnswerEnter(p) \/ AnswerExit(p)
      PROVE  Writer!WriterNext \/ UNCHANGED MappedWriter
  <2>1. mainPc' = mainPc /\ UNCHANGED pollVars /\ UNCHANGED shmVars
    BY <1>5 DEF AircraftAlone, ObeyCommand, AnswerStray, AnswerEnter, AnswerExit,
       ReceiveAirspaceMessage, ArrivalGoto, radarVars, mainVars
  <2> QED BY <1>2, <2>1 DEF pollVars
<1>6. CASE ArrivalAlone \/ ArrivalStray \/ Tick \/ (\E c \in Commands : SendCommand(c))
            \/ UNCHANGED vars
  <2>1. mainPc' = mainPc /\ UNCHANGED pollVars /\ UNCHANGED shmVars
    BY <1>6 DEF ArrivalAlone, ArrivalStray, AttachRadar, ArrivalLoop, ReceiveStray, ReceiveFails,
       HandleAirspaceMessage, ArrivalGoto, Tick, SendCommand, vars, radarVars, mainVars
  <2> QED BY <1>2, <2>1 DEF pollVars
<1> QED BY <1>1, <1>3, <1>4, <1>5, <1>6 DEF Next, Main, Terminated

(* Whatever the aircraft do, the readers see only what SnapshotWriter      *)
(* promises: whole rounds, one after the other, no aircraft twice, and in  *)
(* the end cleared memory.                                                 *)
THEOREM ImplementsWriterCorrect == Spec => ImplementsWriter
<1>1. Init => Writer!WriterInit
  BY DEF Init, RadarInit, ShmInit, Writer!WriterInit, Writer!ShmInit, Writer!ZeroPlaneData,
     Writer!Slots, Writer!ZeroInfo, Writer!ZeroVector, Writer!Axes,
     ZeroPlaneData, Slots, ZeroInfo, ZeroVector, Axes, Writing, Clearing
<1>2. TypeOK /\ PictureInv /\ AskedOnce /\ TimestampPast /\ [Next]_vars
        => [Writer!WriterNext]_(Writer!writerVars)
  BY PollStepWrites, ElseStepWrites DEF MappedWriter, Writer!writerVars, Writer!shmVars, shmVars
<1> QED BY <1>1, <1>2, TypeCorrect, PictureInvCorrect, WriterInvCorrect, PTL
     DEF Spec, ImplementsWriter, Writer!WriterSpec
=============================================================================
