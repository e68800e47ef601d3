-------------------------- MODULE CommandRelayProofs --------------------------
(***************************************************************************)
(* The way of an operator's command through the three threads, for any     *)
(* number of aircraft and of typed lines: it implements the lossy queue.   *)
(***************************************************************************)
EXTENDS CommandRelay, SequenceTheorems, TLAPS

Numbers == 1 .. MaxLines
Commands == [n : Numbers, planeID : Planes \cup {NoPlane}]

-----------------------------------------------------------------------------
(* Sequences.                                                              *)

(* What LossyFifo calls losing an element, or no change at all.            *)
LosesOrKeeps(s, t) ==
  t = s \/ \E i \in DOMAIN s : t = SubSeq(s, 1, i - 1) \o SubSeq(s, i + 1, Len(s))

(* Taking out of a concatenation a part that holds at most one element     *)
(* loses it, or changes nothing.                                           *)
LEMMA LosePart ==
  ASSUME NEW S, NEW a \in Seq(S), NEW b \in Seq(S), NEW c \in Seq(S), Len(b) <= 1
  PROVE  LosesOrKeeps((a \o b) \o c, a \o c)
<1> DEFINE s == (a \o b) \o c
<1>1. CASE b = <<>>
  BY <1>1, ConcatEmptySeq DEF LosesOrKeeps
<1>2. CASE b # <<>>
  <2> DEFINE i == Len(a) + 1
  <2>1. /\ Len(a) \in Nat /\ Len(b) = 1 /\ Len(c) \in Nat
    <3>1. Len(a) \in Nat /\ Len(b) \in Nat /\ Len(c) \in Nat
      BY LenProperties
    <3>2. Len(b) # 0
      BY <1>2, EmptySeq
    <3>3. \A n \in Nat : n # 0 /\ n <= 1 => n = 1
      OBVIOUS
    <3> QED BY <3>1, <3>2, <3>3
  <2>2. /\ a \o b \in Seq(S) /\ Len(a \o b) = i /\ s \in Seq(S) /\ Len(s) = i + Len(c)
        /\ \A k \in 1 .. Len(s) : s[k] = IF k <= i THEN (a \o b)[k] ELSE c[k - i]
        /\ \A k \in 1 .. Len(a) : (a \o b)[k] = a[k]
    <3>1. a \o b \in Seq(S) /\ Len(a \o b) = i /\ \A k \in 1 .. Len(a) : (a \o b)[k] = a[k]
      <4>1. /\ a \o b \in Seq(S) /\ Len(a \o b) = Len(a) + Len(b)
            /\ \A k \in 1 .. Len(a) + Len(b) :
                 (a \o b)[k] = IF k <= Len(a) THEN a[k] ELSE b[k - Len(a)]
        BY ConcatProperties
      <4> QED BY <2>1, <4>1
    <3>2. /\ s \in Seq(S) /\ Len(s) = Len(a \o b) + Len(c)
          /\ \A k \in 1 .. Len(a \o b) + Len(c) :
               s[k] = IF k <= Len(a \o b) THEN (a \o b)[k] ELSE c[k - Len(a \o b)]
      <4> HIDE DEF i
      <4> QED BY <3>1, ConcatProperties
    <3> QED BY <2>1, <3>1, <3>2
  <2>3. SubSeq(s, 1, i - 1) = a
    <3>1. \A k \in 1 .. i - 1 : s[k] \in S
      BY <2>1, <2>2, ElementOfSeq
    <3>2. /\ SubSeq(s, 1, i - 1) \in Seq(S) /\ Len(SubSeq(s, 1, i - 1)) = Len(a)
          /\ \A k \in 1 .. Len(a) : SubSeq(s, 1, i - 1)[k] = s[k]
      BY <2>1, <3>1, SubSeqProperties
    <3>3. \A k \in 1 .. Len(a) : s[k] = a[k]
      BY <2>1, <2>2
    <3> QED BY <3>2, <3>3, SeqEqual
  <2>4. SubSeq(s, i + 1, Len(s)) = c
    <3>1. \A k \in i + 1 .. Len(s) : s[k] \in S
      BY <2>1, <2>2, ElementOfSeq
    <3>2. /\ SubSeq(s, i + 1, Len(s)) \in Seq(S) /\ Len(SubSeq(s, i + 1, Len(s))) = Len(c)
          /\ \A k \in 1 .. Len(c) : SubSeq(s, i + 1, Len(s))[k] = s[i + k]
      BY <2>1, <2>2, <3>1, SubSeqProperties
    <3>3. \A k \in 1 .. Len(c) : s[i + k] = c[k]
      BY <2>1, <2>2
    <3> QED BY <3>2, <3>3, SeqEqual
  <2>5. i \in DOMAIN s
    BY <2>1, <2>2, LenProperties
  <2> HIDE DEF s
  <2> QED BY <2>3, <2>4, <2>5 DEF LosesOrKeeps, s
<1> QED BY <1>1, <1>2

(* What a stage holds.                                                     *)
LEMMA InHandIs ==
  ASSUME NEW m \in Message
  PROVE  /\ InHand(m) \in Seq(Commands) /\ Len(InHand(m)) <= 1
         /\ m.n \in Numbers /\ m.kind = "command"
              => InHand(m) = <<[n |-> m.n, planeID |-> m.planeID]>>
<1>1. m.n \in 0 .. MaxLines /\ m.planeID \in Planes \cup {NoPlane}
  BY DEF Message
<1>2. m.n # 0 => m.n \in Numbers
  BY <1>1, RelayAssumption DEF Numbers
<1>3. m.n \in Numbers => m.n # 0 /\ [n |-> m.n, planeID |-> m.planeID] \in Commands
  BY <1>1, RelayAssumption DEF Numbers, Commands
<1>4. \A c \in Commands : <<c>> \in Seq(Commands) /\ Len(<<c>>) = 1
  OBVIOUS
<1>5. <<>> \in Seq(Commands) /\ Len(<<>>) = 0
  BY EmptySeq
<1> QED BY <1>1, <1>2, <1>3, <1>4, <1>5 DEF InHand

(* Nothing, when the stage is idle.                                        *)
LEMMA NothingInHand == NoMessage \in Message /\ InHand(NoMessage) = <<>>
BY RelayAssumption DEF InHand, NoMessage, Message

(* The queue of the three stages, and its length.                          *)
LEMMA InFlightIs ==
  ASSUME commsMsg \in Message, procMsg \in Message, line \in Message
  PROVE  /\ InFlight \in Seq(Commands)
         /\ Len(InFlight) = Len(InHand(commsMsg)) + Len(InHand(procMsg)) + Len(InHand(line))
<1>1. /\ InHand(commsMsg) \in Seq(Commands) /\ InHand(procMsg) \in Seq(Commands)
      /\ InHand(line) \in Seq(Commands)
  BY InHandIs
<1>2. /\ InHand(commsMsg) \o InHand(procMsg) \in Seq(Commands)
      /\ Len(InHand(commsMsg) \o InHand(procMsg)) = Len(InHand(commsMsg)) + Len(InHand(procMsg))
  BY <1>1, ConcatProperties
<1> QED BY <1>1, <1>2, ConcatProperties DEF InFlight

-----------------------------------------------------------------------------
(* The invariant.                                                          *)

(* main has started nothing yet.                                           *)
LEMMA RelayInit == Init => TypeOK /\ RelayInv
<1> SUFFICES ASSUME Init PROVE TypeOK /\ RelayInv
  OBVIOUS
<1>1. executed \in Seq([n : 1 .. MaxLines, planeID : Planes]) /\ DOMAIN executed = {}
  BY EmptySeq DEF Init
<1>2. TypeOK
  <2>1. planePc \in [Planes -> {"away", "flying", "gone"}] /\ attached = {}
    BY DEF Init
  <2>2. typed \in 0 .. MaxLines /\ timeConstraintCollisionFreq \in 0 .. MaxLines
    BY RelayAssumption DEF Init
  <2> QED BY <1>1, <2>1, <2>2, NothingInHand DEF Init, TypeOK
<1>3. StagesInv /\ LateInv
  BY DEF Init, StagesInv, LateInv, NoMessage
<1>4. OrderInv
  BY <1>1 DEF Init, OrderInv, ExecutedInOrder, Before, NoMessage
<1> QED BY <1>2, <1>3, <1>4 DEF RelayInv

(* A command that reaches an aircraft has a number and its address.        *)
LEMMA ExecuteIs ==
  ASSUME TypeOK, RelayInv, NEW p \in Planes, Execute(p)
  PROVE  /\ commsMsg.n \in Numbers /\ commsMsg.planeID = p
         /\ InHand(commsMsg) = <<[n |-> commsMsg.n, planeID |-> p]>>
<1>1. commsMsg \in Message
  BY DEF TypeOK
<1>2. commsMsg.n # 0 /\ commsMsg.kind = "command" /\ commsMsg.planeID = p
  BY RelayAssumption DEF Execute, RelayInv, StagesInv
<1>3. commsMsg.n \in Numbers
  BY <1>1, <1>2, RelayAssumption DEF Message, Numbers
<1> QED BY <1>1, <1>2, <1>3, InHandIs

(* Every step of every thread keeps the types.                             *)
LEMMA TypeStep == TypeOK /\ RelayInv /\ [Next]_vars => TypeOK'
<1> SUFFICES ASSUME TypeOK, RelayInv, [Next]_vars PROVE TypeOK'
  OBVIOUS
<1> USE NothingInHand DEF TypeOK
<1> USE DEF consoleVars, procVars, commsVars, mainVars, planeVars
<1>1. CASE Console \/ Main \/ MonitorStops \/ UNCHANGED vars
  BY <1>1 DEF Console, Main, ConsoleLoop, SendToComputerSystem, JoinComputerSystem,
              JoinConsole, JoinComms, MonitorStops, vars
<1>2. ASSUME NEW kind \in Kinds, NEW p \in Planes \cup {NoPlane}, ReadLine(kind, p)
      PROVE  TypeOK'
  <2>1. typed' \in 1 .. MaxLines
    BY <1>2, RelayAssumption DEF ReadLine
  <2>2. line' \in Message
    BY <1>2, <2>1, RelayAssumption DEF ReadLine, Message
  <2>3. typed' \in 0 .. MaxLines
    BY <2>1
  <2> QED BY <1>2, <2>2, <2>3 DEF ReadLine
<1>3. CASE Proc \/ ProcReceiveStray
  <2>1. procMsg' \in Message /\ line' \in Message /\ commsVars' = commsVars
    BY <1>3 DEF Proc, ProcAttach, ProcLoop, ProcReceive, ProcReceiveStray,
       HandleTimeConstraintChange, SendMessagesToComms, ProcDetach, ConsoleReleased
  <2>2. late' \in Nat /\ timeConstraintCollisionFreq' \in 0 .. MaxLines
    BY <1>3 DEF Proc, ProcAttach, ProcLoop, ProcReceive, ProcReceiveStray,
       HandleTimeConstraintChange, SendMessagesToComms, ProcDetach, ConsoleReleased, Message
  <2> QED BY <1>3, <2>1, <2>2 DEF Proc, ProcAttach, ProcLoop, ProcReceive, ProcReceiveStray,
       HandleTimeConstraintChange, SendMessagesToComms, ProcDetach, ConsoleReleased
<1>4. CASE Comms \/ CommsReceiveStray
  BY <1>4 DEF Comms, CommsAttach, CommsReceive, MessageAircraft, CommsReceiveStray
<1>5. ASSUME NEW p \in Planes, AircraftAttach(p) \/ AircraftDetach(p)
      PROVE  TypeOK'
  BY <1>5 DEF AircraftAttach, AircraftDetach
<1>6. ASSUME NEW p \in Planes, Execute(p)
      PROVE  TypeOK'
  <2> DEFINE c == [n |-> commsMsg.n, planeID |-> p]
  <2>1. c \in [n : 1 .. MaxLines, planeID : Planes] /\ executed' = Append(executed, c)
    BY <1>6, ExecuteIs DEF Execute, Numbers
  <2> HIDE DEF c
  <2>2. executed' \in Seq([n : 1 .. MaxLines, planeID : Planes])
    BY <2>1, AppendProperties
  <2> QED BY <1>6, <2>2 DEF Execute
<1> QED BY <1>1, <1>2, <1>3, <1>4, <1>5, <1>6 DEF Next

(* Every step keeps what the stages hold in order, and the late message    *)
(* single.                                                                 *)
LEMMA StagesStep == TypeOK /\ RelayInv /\ [Next]_vars => StagesInv' /\ LateInv'
<1> SUFFICES ASSUME TypeOK, RelayInv, [Next]_vars PROVE StagesInv' /\ LateInv'
  OBVIOUS
<1> USE DEF TypeOK, RelayInv, StagesInv, LateInv
<1> USE DEF consoleVars, procVars, commsVars, mainVars, planeVars, NoMessage
<1>1. CASE Console \/ Main \/ MonitorStops \/ UNCHANGED vars
  BY <1>1 DEF Console, Main, ConsoleLoop, SendToComputerSystem, JoinComputerSystem,
              JoinConsole, JoinComms, MonitorStops, vars
<1>2. ASSUME NEW kind \in Kinds, NEW p \in Planes \cup {NoPlane}, ReadLine(kind, p)
      PROVE  StagesInv' /\ LateInv'
  <2>1. typed' # 0
    BY <1>2, RelayAssumption DEF ReadLine
  <2> QED BY <1>2, <2>1 DEF ReadLine
<1>3. CASE ProcAttach \/ ProcLoop \/ ProcDetach
  BY <1>3 DEF ProcAttach, ProcLoop, ProcDetach, ConsoleReleased
<1>4. CASE ProcReceive \/ ProcReceiveStray
  BY <1>4 DEF ProcReceive, ProcReceiveStray, ConsoleReleased
<1>5. CASE HandleTimeConstraintChange \/ SendMessagesToComms
  BY <1>5 DEF HandleTimeConstraintChange, SendMessagesToComms, Message
<1>6. CASE Comms \/ CommsReceiveStray
  BY <1>6 DEF Comms, CommsAttach, CommsReceive, MessageAircraft, CommsReceiveStray
<1>7. ASSUME NEW p \in Planes, AircraftAttach(p) \/ AircraftDetach(p) \/ Execute(p)
      PROVE  StagesInv' /\ LateInv'
  BY <1>7 DEF AircraftAttach, AircraftDetach, Execute
<1> QED BY <1>1, <1>2, <1>3, <1>4, <1>5, <1>6, <1>7 DEF Next, Proc

-----------------------------------------------------------------------------
(* The refinement.                                                         *)

QueueStep == Fifo!Next \/ UNCHANGED <<typed, InFlight, executed>>

(* What the three stages hold after a step.                                *)
LEMMA InFlightPrime ==
  InFlight' = (InHand(commsMsg') \o InHand(procMsg')) \o InHand(line')
BY DEF InFlight, InHand

(* A stage that drops its message loses a command or drops something else. *)
LEMMA DropStep ==
  ASSUME TypeOK, UNCHANGED <<typed, executed>>,
         \/ commsMsg' = NoMessage /\ UNCHANGED <<procMsg, line>>
         \/ procMsg' = NoMessage /\ UNCHANGED <<commsMsg, line>>
         \/ line' = NoMessage /\ UNCHANGED <<commsMsg, procMsg>>
  PROVE  QueueStep
<1> DEFINE C == InHand(commsMsg)  P == InHand(procMsg)  L == InHand(line)
<1>1. /\ C \in Seq(Commands) /\ P \in Seq(Commands) /\ L \in Seq(Commands)
      /\ Len(C) <= 1 /\ Len(P) <= 1 /\ Len(L) <= 1 /\ <<>> \in Seq(Commands)
  BY InHandIs, EmptySeq DEF TypeOK
<1>2. InFlight = (C \o P) \o L
  BY DEF InFlight
<1> SUFFICES LosesOrKeeps(InFlight, InFlight')
  BY DEF LosesOrKeeps, QueueStep, Fifo!Next, Fifo!Lose
<1> HIDE DEF C, P, L
<1>3. CASE commsMsg' = NoMessage /\ UNCHANGED <<procMsg, line>>
  <2>1. InFlight' = (<<>> \o P) \o L
    BY <1>3, InFlightPrime, NothingInHand DEF P, L
  <2>2. P \o L \in Seq(Commands) /\ InFlight' = <<>> \o (P \o L)
    BY <1>1, <2>1, ConcatProperties, ConcatEmptySeq
  <2>3. InFlight = (<<>> \o C) \o (P \o L)
    BY <1>1, <1>2, ConcatAssociative, ConcatEmptySeq
  <2>4. LosesOrKeeps((<<>> \o C) \o (P \o L), <<>> \o (P \o L))
    BY <1>1, <2>2, LosePart
  <2> QED BY <2>2, <2>3, <2>4
<1>4. CASE procMsg' = NoMessage /\ UNCHANGED <<commsMsg, line>>
  <2>1. InFlight' = (C \o <<>>) \o L
    BY <1>4, InFlightPrime, NothingInHand DEF C, L
  <2>2. InFlight' = C \o L
    BY <1>1, <2>1, ConcatEmptySeq
  <2>3. LosesOrKeeps((C \o P) \o L, C \o L)
    BY <1>1, LosePart
  <2> QED BY <1>2, <2>2, <2>3
<1>5. CASE line' = NoMessage /\ UNCHANGED <<commsMsg, procMsg>>
  <2>1. InFlight' = (C \o P) \o <<>>
    BY <1>5, InFlightPrime, NothingInHand DEF C, P
  <2>2. C \o P \in Seq(Commands) /\ InFlight = ((C \o P) \o L) \o <<>>
    BY <1>1, <1>2, ConcatProperties, ConcatEmptySeq
  <2>3. LosesOrKeeps(((C \o P) \o L) \o <<>>, (C \o P) \o <<>>)
    BY <1>1, <2>2, LosePart
  <2> QED BY <2>1, <2>2, <2>3
<1> QED BY <1>3, <1>4, <1>5

(* A message that goes from one stage to the next keeps its place.         *)
LEMMA MoveStep ==
  ASSUME TypeOK, UNCHANGED <<typed, executed>>,
         \/ /\ commsMsg = NoMessage /\ commsMsg' = procMsg /\ procMsg' = NoMessage
            /\ UNCHANGED line
         \/ /\ procMsg = NoMessage /\ procMsg' = line /\ line' = NoMessage
            /\ UNCHANGED commsMsg
  PROVE  UNCHANGED <<typed, InFlight, executed>>
<1> DEFINE C == InHand(commsMsg)  P == InHand(procMsg)  L == InHand(line)
<1>1. C \in Seq(Commands) /\ P \in Seq(Commands) /\ L \in Seq(Commands)
  BY InHandIs DEF TypeOK
<1>2. InFlight = (C \o P) \o L
  BY DEF InFlight
<1> HIDE DEF C, P, L
<1>3. CASE /\ commsMsg = NoMessage /\ commsMsg' = procMsg /\ procMsg' = NoMessage
           /\ UNCHANGED line
  <2>1. C = <<>> /\ InFlight' = (P \o <<>>) \o L
    BY <1>3, InFlightPrime, NothingInHand DEF C, P, L
  <2> QED BY <1>1, <1>2, <2>1, ConcatEmptySeq
<1>4. CASE /\ procMsg = NoMessage /\ procMsg' = line /\ line' = NoMessage
           /\ UNCHANGED commsMsg
  <2>1. P = <<>> /\ InFlight' = (C \o L) \o <<>>
    BY <1>4, InFlightPrime, NothingInHand DEF C, P, L
  <2>2. C \o L \in Seq(Commands)
    BY <1>1, ConcatProperties
  <2> QED BY <1>1, <1>2, <2>1, <2>2, ConcatEmptySeq
<1> QED BY <1>3, <1>4

(* The console puts a command behind those under way.                      *)
LEMMA PutStep ==
  ASSUME TypeOK, RelayInv, NEW kind \in Kinds, NEW p \in Planes \cup {NoPlane}, ReadLine(kind, p)
  PROVE  QueueStep
<1> DEFINE C == InHand(commsMsg)  P == InHand(procMsg)  L == InHand(line)
<1>1. /\ line = NoMessage /\ L = <<>> /\ C \in Seq(Commands) /\ P \in Seq(Commands)
      /\ Len(C) <= 1 /\ Len(P) <= 1
  BY NothingInHand, InHandIs DEF ReadLine, TypeOK, RelayInv, StagesInv
<1>2. /\ C \o P \in Seq(Commands) /\ InFlight = C \o P /\ Len(InFlight) = Len(C) + Len(P)
  BY <1>1, ConcatProperties, ConcatEmptySeq DEF InFlight
<1>3. Len(InFlight) < 3
  BY <1>1, <1>2, LenProperties
<1>4. UNCHANGED <<commsMsg, procMsg, executed>>
  BY DEF ReadLine, procVars, commsVars, planeVars
<1>5. line' = line \/ line' = [n |-> typed', kind |-> kind, planeID |-> p]
  BY DEF ReadLine
<1>6. CASE InHand(line') = <<>>
  <2>1. UNCHANGED <<InFlight, executed>> /\ typed' = typed + 1
    BY <1>1, <1>4, <1>6, InFlightPrime DEF InFlight, ReadLine
  <2> QED BY <2>1 DEF QueueStep, Fifo!Next, Fifo!Skip
<1>7. CASE InHand(line') # <<>>
  <2>1. line' = [n |-> typed', kind |-> kind, planeID |-> p]
    BY <1>1, <1>5, <1>7
  <2> DEFINE c == [n |-> typed', planeID |-> p]
  <2>2. typed' \in Numbers /\ typed' = typed + 1
    BY RelayAssumption DEF ReadLine, TypeOK, Numbers
  <2>3. InHand(line') = <<c>> /\ c \in Commands
    BY <1>7, <2>1, <2>2 DEF InHand, Commands
  <2>4. InFlight' = Append(InFlight, c)
    <3> HIDE DEF c
    <3> QED BY <1>2, <1>4, <2>3, InFlightPrime, AppendIsConcat
  <2> QED BY <1>3, <1>4, <2>2, <2>4 DEF QueueStep, Fifo!Next, Fifo!Put
<1> QED BY <1>6, <1>7

(* An aircraft takes the command that has been under way longest.          *)
LEMMA GetStep ==
  ASSUME TypeOK, RelayInv, NEW p \in Planes, Execute(p)
  PROVE  Fifo!Get
<1> DEFINE c == [n |-> commsMsg.n, planeID |-> p]  P == InHand(procMsg)  L == InHand(line)
<1>1. c \in Commands /\ InHand(commsMsg) = <<c>>
  BY ExecuteIs DEF Commands
<1>2. P \in Seq(Commands) /\ L \in Seq(Commands) /\ P \o L \in Seq(Commands)
  BY InHandIs, ConcatProperties DEF TypeOK
<1>4. executed' = Append(executed, c) /\ commsMsg' = NoMessage /\ UNCHANGED <<procMsg, line, typed>>
  BY DEF Execute, procVars, consoleVars
<1> HIDE DEF c, P, L
<1>3. <<c>> \in Seq(Commands) /\ Len(<<c>>) = 1 /\ <<c>>[1] = c
  BY <1>1
<1>5. InFlight = <<c>> \o (P \o L)
  <2>1. InFlight = (<<c>> \o P) \o L
    BY <1>1 DEF InFlight, P, L
  <2> QED BY <1>2, <1>3, <2>1, ConcatAssociative
<1>6. InFlight' = P \o L
  <2>1. InFlight' = (<<>> \o P) \o L
    BY <1>4, InFlightPrime, NothingInHand DEF P, L
  <2> QED BY <1>2, <2>1, ConcatEmptySeq
<1>7. /\ InFlight \in Seq(Commands) /\ Len(InFlight) = 1 + Len(P \o L)
      /\ \A i \in 1 .. Len(InFlight) :
           InFlight[i] = IF i <= 1 THEN c ELSE (P \o L)[i - 1]
  <2>1. /\ InFlight \in Seq(Commands) /\ Len(InFlight) = Len(<<c>>) + Len(P \o L)
        /\ \A i \in 1 .. Len(<<c>>) + Len(P \o L) :
             InFlight[i] = IF i <= Len(<<c>>) THEN <<c>>[i] ELSE (P \o L)[i - Len(<<c>>)]
    BY <1>2, <1>3, <1>5, ConcatProperties
  <2> QED BY <1>3, <2>1
<1>8. Len(P \o L) \in Nat
  BY <1>2, LenProperties
<1>9. InFlight # <<>> /\ InFlight[1] = c
  <2>1. Len(InFlight) # 0
    BY <1>7, <1>8
  <2> QED BY <1>7, <1>8, <2>1, EmptySeq
<1>10. Head(InFlight) = c
  BY <1>7, <1>9
<1>11. Tail(InFlight) = P \o L
  <2>1. /\ Tail(InFlight) \in Seq(Commands) /\ Len(Tail(InFlight)) = Len(InFlight) - 1
        /\ \A i \in 1 .. Len(Tail(InFlight)) : Tail(InFlight)[i] = InFlight[i + 1]
    BY <1>7, <1>9, HeadTailProperties
  <2>2. Len(Tail(InFlight)) = Len(P \o L)
    BY <1>7, <1>8, <2>1
  <2>3. \A i \in 1 .. Len(P \o L) : Tail(InFlight)[i] = (P \o L)[i]
    BY <1>7, <1>8, <2>1, <2>2
  <2> QED BY <1>2, <2>1, <2>2, <2>3, SeqEqual
<1> QED BY <1>4, <1>6, <1>9, <1>10, <1>11 DEF Fifo!Get

(* Every step of the process is one of the queue or leaves it.             *)
LEMMA FifoStep == TypeOK /\ RelayInv /\ [Next]_vars => QueueStep
<1> SUFFICES ASSUME TypeOK, RelayInv, [Next]_vars PROVE QueueStep
  OBVIOUS
<1> USE DEF consoleVars, procVars, commsVars, mainVars, planeVars
<1>1. CASE UNCHANGED <<commsMsg, procMsg, line, typed, executed>>
  BY <1>1 DEF QueueStep, InFlight
<1>2. CASE ConsoleLoop \/ SendToComputerSystem
  BY <1>1, <1>2, DropStep DEF ConsoleLoop, SendToComputerSystem
<1>3. ASSUME NEW kind \in Kinds, NEW p \in Planes \cup {NoPlane}, ReadLine(kind, p)
      PROVE  QueueStep
  BY <1>3, PutStep
<1>4. CASE ProcAttach \/ ProcLoop \/ ProcDetach
  BY <1>1, <1>4, DropStep DEF ProcAttach, ProcLoop, ProcDetach, ConsoleReleased
<1>5. CASE ProcReceive
  <2>1. procMsg = NoMessage
    BY <1>5 DEF ProcReceive, RelayInv, StagesInv
  <2> QED BY <1>5, <2>1, MoveStep DEF ProcReceive, ConsoleReleased, QueueStep
<1>6. CASE ProcReceiveStray \/ CommsReceiveStray
  BY <1>6, DropStep DEF ProcReceiveStray, CommsReceiveStray
<1>7. CASE HandleTimeConstraintChange \/ SendMessagesToComms
  BY <1>1, <1>7, DropStep DEF HandleTimeConstraintChange, SendMessagesToComms
<1>8. CASE CommsAttach \/ MessageAircraft
  BY <1>1, <1>8, DropStep DEF CommsAttach, MessageAircraft
<1>9. CASE CommsReceive
  <2>1. commsMsg = NoMessage
    BY <1>9 DEF CommsReceive, RelayInv, StagesInv
  <2>2. procMsg.kind # "EXIT"
    BY DEF RelayInv, StagesInv
  <2> QED BY <1>9, <2>1, <2>2, MoveStep DEF CommsReceive, QueueStep
<1>10. ASSUME NEW p \in Planes, AircraftAttach(p) \/ AircraftDetach(p)
       PROVE  QueueStep
  BY <1>1, <1>10, DropStep DEF AircraftAttach, AircraftDetach
<1>11. ASSUME NEW p \in Planes, Execute(p)
       PROVE  QueueStep
  BY <1>11, GetStep DEF QueueStep, Fifo!Next
<1>12. CASE Main \/ MonitorStops \/ UNCHANGED vars
  BY <1>1, <1>12 DEF Main, JoinComputerSystem, JoinConsole, JoinComms, MonitorStops, vars
<1> QED BY <1>2, <1>3, <1>4, <1>5, <1>6, <1>7, <1>8, <1>9, <1>10, <1>11, <1>12
        DEF Next, Console, Proc, Comms

-----------------------------------------------------------------------------
(* The invariant and the theorems.                                         *)

(* What is nearer to the aircraft was typed earlier: also after a step.    *)
LEMMA OrderStep == TypeOK /\ RelayInv /\ [Next]_vars => OrderInv'
<1> SUFFICES ASSUME TypeOK, RelayInv, [Next]_vars PROVE OrderInv'
  OBVIOUS
<1>1. /\ commsMsg \in Message /\ procMsg \in Message /\ line \in Message
      /\ typed \in Nat /\ executed \in Seq([n : 1 .. MaxLines, planeID : Planes])
  BY RelayAssumption DEF TypeOK
<1>2. /\ commsMsg.n \in Nat /\ procMsg.n \in Nat /\ line.n \in Nat
      /\ NoMessage.n = 0
      /\ \A i \in DOMAIN executed : executed[i].n \in Nat /\ executed[i].n # 0
  <2>1. \A i \in 1 .. Len(executed) : executed[i] \in [n : 1 .. MaxLines, planeID : Planes]
    BY <1>1, ElementOfSeq
  <2>2. DOMAIN executed = 1 .. Len(executed)
    BY <1>1, LenProperties
  <2>3. \A i \in DOMAIN executed : executed[i].n \in Nat /\ executed[i].n # 0
    BY <2>1, <2>2, RelayAssumption
  <2>4. commsMsg.n \in Nat /\ procMsg.n \in Nat /\ line.n \in Nat
    BY <1>1, RelayAssumption DEF Message
  <2> QED BY <2>3, <2>4 DEF NoMessage
<1>3. ASSUME UNCHANGED <<typed, executed>>,
             \/ UNCHANGED <<commsMsg, procMsg, line>>
             \/ commsMsg' = NoMessage /\ UNCHANGED <<procMsg, line>>
             \/ procMsg' = NoMessage /\ UNCHANGED <<commsMsg, line>>
             \/ line' = NoMessage /\ UNCHANGED <<commsMsg, procMsg>>
             \/ commsMsg' = procMsg /\ procMsg' = NoMessage /\ UNCHANGED line
             \/ procMsg' = line /\ line' = NoMessage /\ UNCHANGED commsMsg
      PROVE  OrderInv'
  <2>1. ExecutedInOrder' /\ \A i \in DOMAIN executed' : executed'[i].n <= typed'
    BY <1>3 DEF RelayInv, OrderInv, ExecutedInOrder
  <2>2. /\ Before(commsMsg', procMsg') /\ Before(procMsg', line') /\ Before(commsMsg', line')
        /\ commsMsg'.n <= typed' /\ procMsg'.n <= typed' /\ line'.n <= typed'
    BY <1>1, <1>2, <1>3 DEF RelayInv, OrderInv, Before
  <2>3. \A i \in DOMAIN executed : \A m \in {line', procMsg', commsMsg'} : Before(executed[i], m)
    BY <1>2, <1>3 DEF RelayInv, OrderInv, Before
  <2> QED BY <1>3, <2>1, <2>2, <2>3 DEF OrderInv, Before
<1>4. ASSUME NEW kind \in Kinds, NEW p \in Planes \cup {NoPlane}, ReadLine(kind, p)
      PROVE  OrderInv'
  <2>1. /\ typed' = typed + 1 /\ UNCHANGED <<commsMsg, procMsg, executed>>
        /\ line'.n = line.n \/ line'.n = typed + 1
    BY <1>4 DEF ReadLine, commsVars, procVars, planeVars
  <2>2. line = NoMessage
    BY <1>4 DEF ReadLine, RelayInv, StagesInv
  <2> QED BY <1>1, <1>2, <2>1, <2>2 DEF RelayInv, OrderInv, Before, ExecutedInOrder
<1>5. ASSUME NEW p \in Planes, Execute(p)
      PROVE  OrderInv'
  <2> DEFINE c == [n |-> commsMsg.n, planeID |-> p]
  <2>1. /\ commsMsg' = NoMessage /\ UNCHANGED <<procMsg, line, typed>>
        /\ executed' = Append(executed, c) /\ c.n = commsMsg.n /\ c.n # 0
        /\ c \in [n : 1 .. MaxLines, planeID : Planes]
    BY <1>5, ExecuteIs, RelayAssumption DEF Execute, procVars, consoleVars, Numbers
  <2> HIDE DEF c
  <2>2. /\ Len(executed) \in Nat /\ DOMAIN executed = 1 .. Len(executed)
        /\ DOMAIN executed' = 1 .. Len(executed) + 1
        /\ \A i \in 1 .. Len(executed) : executed'[i] = executed[i]
        /\ executed'[Len(executed) + 1] = c
    BY <1>1, <2>1, AppendProperties, LenProperties
  <2>3. \A i \in DOMAIN executed :
          executed[i].n < c.n /\ executed[i].n # 0
    <3>1. \A i \in DOMAIN executed : Before(executed[i], commsMsg)
      BY DEF RelayInv, OrderInv
    <3> QED BY <1>2, <2>1, <3>1 DEF Before
  <2>4. \A i \in DOMAIN executed' : i \in DOMAIN executed \/ i = Len(executed) + 1
    BY <2>2
  <2>5. ExecutedInOrder'
    BY <1>2, <2>1, <2>2, <2>3, <2>4 DEF RelayInv, OrderInv, ExecutedInOrder
  <2>6. \A i \in DOMAIN executed' :
          executed'[i].n <= typed /\ Before(executed'[i], procMsg) /\ Before(executed'[i], line)
    BY <1>2, <2>1, <2>2, <2>4 DEF RelayInv, OrderInv, Before
  <2>7. \A i \in DOMAIN executed' : \A m \in {line, procMsg, commsMsg}' : Before(executed'[i], m)
    BY <1>2, <2>1, <2>6 DEF Before
  <2>8. /\ Before(NoMessage, procMsg) /\ Before(procMsg, line) /\ Before(NoMessage, line)
        /\ NoMessage.n <= typed /\ procMsg.n <= typed /\ line.n <= typed
    BY <1>1, <1>2 DEF RelayInv, OrderInv, Before
  <2>9. \A i \in DOMAIN executed' : executed'[i].n <= typed'
    BY <2>1, <2>6
  <2> QED BY <2>1, <2>5, <2>7, <2>8, <2>9 DEF OrderInv, Before
<1> USE DEF consoleVars, procVars, commsVars, mainVars, planeVars
<1>6. CASE Console \/ Main \/ MonitorStops \/ UNCHANGED vars
  BY <1>3, <1>6 DEF Console, Main, ConsoleLoop, SendToComputerSystem, JoinComputerSystem,
                    JoinConsole, JoinComms, MonitorStops, vars
<1>7. CASE Proc \/ ProcReceiveStray
  BY <1>3, <1>7 DEF Proc, ProcAttach, ProcLoop, ProcReceive, ProcReceiveStray,
       HandleTimeConstraintChange, SendMessagesToComms, ProcDetach, ConsoleReleased
<1>8. CASE Comms \/ CommsReceiveStray
  BY <1>3, <1>8 DEF Comms, CommsAttach, CommsReceive, MessageAircraft, CommsReceiveStray
<1>9. ASSUME NEW p \in Planes, AircraftAttach(p) \/ AircraftDetach(p)
      PROVE  OrderInv'
  BY <1>3, <1>9 DEF AircraftAttach, AircraftDetach
<1> QED BY <1>4, <1>5, <1>6, <1>7, <1>8, <1>9 DEF Next

(* The invariant holds in every state of the process.                      *)
THEOREM RelayInvCorrect == Spec => [](TypeOK /\ RelayInv)
<1>1. TypeOK /\ RelayInv /\ [Next]_vars => (TypeOK /\ RelayInv)'
  BY TypeStep, StagesStep, OrderStep DEF RelayInv
<1> QED BY RelayInit, <1>1, PTL DEF Spec

(* No line is executed twice, or after one that was typed later.           *)
THEOREM ExecutedInOrderCorrect == Spec => []ExecutedInOrder
<1>1. RelayInv => ExecutedInOrder
  BY DEF RelayInv, OrderInv
<1> QED BY <1>1, RelayInvCorrect, PTL

(* processMessage takes at most one message after monitoring has stopped.  *)
THEOREM OneLateMessageCorrect == Spec => []OneLateMessage
<1>1. RelayInv => OneLateMessage
  BY DEF RelayInv, LateInv, OneLateMessage
<1> QED BY <1>1, RelayInvCorrect, PTL

(* The three threads implement the lossy queue: whatever the stages drop,  *)
(* and whenever they start and end, no command is doubled, overtaken, sent *)
(* to another aircraft than the one named or invented.                     *)
THEOREM ImplementsLossyFifoCorrect == Spec => ImplementsLossyFifo
<1>1. Init => Fifo!Init
  BY NothingInHand, EmptySeq, ConcatEmptySeq DEF Init, Fifo!Init, InFlight
<1>2. TypeOK /\ RelayInv /\ [Next]_vars => [Fifo!Next]_<<typed, InFlight, executed>>
  BY FifoStep DEF QueueStep
<1> QED BY <1>1, <1>2, RelayInvCorrect, PTL DEF Spec, ImplementsLossyFifo, Fifo!Spec

(* As no stage holds a message EXIT, the thread of CommunicationsSystem    *)
(* ends only where it starts, and main only after it.                      *)
LEMMA CommsStep == RelayInv /\ CommsInv /\ [Next]_vars => CommsInv'
<1> SUFFICES ASSUME RelayInv, CommsInv, [Next]_vars PROVE CommsInv'
  OBVIOUS
<1> USE DEF CommsInv, consoleVars, procVars, commsVars, mainVars, planeVars
<1>1. CASE Console \/ Main \/ MonitorStops \/ UNCHANGED vars
  BY <1>1 DEF Console, Main, ConsoleLoop, SendToComputerSystem, JoinComputerSystem,
              JoinConsole, JoinComms, MonitorStops, vars
<1>2. CASE Proc \/ ProcReceiveStray
  <2>1. ATC_COMMS \in attached' => ATC_COMMS \in attached
    BY <1>2 DEF Proc, ProcAttach, ProcLoop, ProcReceive, ProcReceiveStray, COMP_SYS, ATC_COMMS,
                HandleTimeConstraintChange, SendMessagesToComms, ProcDetach
  <2>2. UNCHANGED <<commsPc, mainPc, executed>>
    BY <1>2 DEF Proc, ProcAttach, ProcLoop, ProcReceive, ProcReceiveStray,
                HandleTimeConstraintChange, SendMessagesToComms, ProcDetach
  <2> QED BY <2>1, <2>2
<1>3. CASE Comms \/ CommsReceiveStray
  <2>1. commsPc # "exited"
    BY <1>3 DEF Comms, CommsAttach, CommsReceive, MessageAircraft, CommsReceiveStray
  <2>2. procMsg.kind # "EXIT"
    BY DEF RelayInv, StagesInv
  <2> QED BY <1>3, <2>1, <2>2 DEF Comms, CommsAttach, CommsReceive, MessageAircraft, CommsReceiveStray
<1>4. CASE \E kind \in Kinds, p \in Planes \cup {NoPlane} : ReadLine(kind, p)
  BY <1>4 DEF ReadLine
<1>5. ASSUME NEW p \in Planes, AircraftAttach(p) \/ AircraftDetach(p) \/ Execute(p)
      PROVE  CommsInv'
  <2>1. p # ATC_COMMS
    BY RelayAssumption
  <2> QED BY <1>5, <2>1 DEF AircraftAttach, AircraftDetach, Execute
<1> QED BY <1>1, <1>2, <1>3, <1>4, <1>5 DEF Next

(* main returns only from a process that has passed on no command.         *)
THEOREM EndsOnlyUnusedCorrect == Spec => []EndsOnlyUnused
<1>1. Init => CommsInv
  BY DEF Init, CommsInv
<1>2. CommsInv => EndsOnlyUnused
  BY DEF CommsInv, EndsOnlyUnused
<1> QED BY <1>1, <1>2, CommsStep, RelayInvCorrect, PTL DEF Spec
=============================================================================
