# Air traffic control over QNX messages: specifications, model checking, proofs

The repository is a small air traffic control system of three QNX processes.
These modules model it from its source, TLC checks them on small instances and
TLAPS proves all of their safety properties for every value of the constants.
Sources are cited as `File.cpp:line`; `Lab4_ATC_ARCH64`, `ATC_Computer` and
`Display` are the three processes.

## The system

| Component | State it keeps | Operations | Talks to |
|---|---|---|---|
| Aircraft (`Aircraft.cpp`), one thread per line of planes.txt | position, speed, its channel name | wait for arrival, ENTER, attach a channel, move once a second, answer one message, EXIT, detach | Radar (MsgSend ENTER/EXIT), answers Radar's polls and the commands of CommunicationsSystem |
| Radar (`Radar.cpp`), two threads | `planesInAirspace`, double buffer, `wasAirspaceEmpty`, `Radar_channel` | constructor; arrival thread: receive, reply, add/remove; polling thread: copy the set, ask every aircraft, publish; destructor | the aircraft; writes the shared memory |
| AirTrafficControl and main | the threads, tick counter | start the aircraft, join them, stop the timer, destroy Radar | all of the above |
| Shared memory (`Msg_structs.h`) | `plane_data[100]`, `count`, `is_empty`, `timestamp` | written by Radar, read by ComputerSystem and Display, with no lock; outlives the processes | |
| OperatorConsole | `exit`, the current line | read a line, send it | ComputerSystem |
| ComputerSystem | `running`, `timeConstraintCollisionFreq` | `processMessage`: receive, reply, forward; `monitorAirspace`: read, test, alert | CommunicationsSystem, Display |
| CommunicationsSystem | its channel | receive, reply, `messageAircraft` | the aircraft |
| Display | its channel, `logTick` | receive an alert and print it; print the picture every 5 seconds and log it every 30 | ComputerSystem; reads the shared memory |
| ATCTimer | a QNX timer and its channel | arm, `waitTimer` | |

What is hard in it:

* MsgSend blocks without a timeout, in both directions between Radar and the
  aircraft. A thread that ends must destroy its channel, or its peer hangs.
* Radar replies to an ENTER or EXIT *before* it handles it, so its set lags
  behind the aircraft; and it works on a copy of the set, so the polls lag
  behind the set.
* Two buffers and a fallback from one to the other decide what is published.
* Three processes share memory without a lock: every field is a separate write
  and a separate read. The object exists before it has a size, is zeros before
  it is cleared, and survives a process that is killed in the middle of a write.
* Every thread starts while the channel it needs may not exist yet, and every
  shutdown joins threads that sit in blocking calls. Radar's constructor and
  destructor share a pointer with a running thread.
* A command crosses three stages, each of which acknowledges it before it has
  passed it on.
* The collision test samples two instants, and loads its time constraint six
  times while the operator may change it.

Each of these is a line of `hazards` in `PROJECT.json`, with the properties
that are about it, or the reason why there is none.

## The modules

Arrows lead from a module to those that extend it; dotted ones are refinements.

```
Messages ─┬─ Aircraft ───────┬─ Airspace ─ AirspaceSnapshots ─ MCAirspace
          ├─ SharedMemory ─┬─ Radar ┘            ┊ implements
          │                └─ SnapshotWriter ◄┄┄┄┘
          │                      └─ RadarProcess ─┬─ Display ─ MCDisplay
          │                                       └─ Monitor ─ MCMonitor
          └─ CollisionCheck ──────────────────────┘
                  └─ CollisionTest ─ MCCollision
ATCTimer ── RadarLifecycle
CommandRelay ┄┄ implements ┄┄► LossyFifo
```

**Messages, SharedMemory.** The records of `Msg_structs.h`. Positions and
velocities are integers, vectors are functions on the three axes. Of a command
only what the aircraft tells apart is kept: its type, its data and whether its
`dataSize` is long enough. `SharedMemory` has one variable per field, because
the readers see the fields change one at a time. A record of a `memcpy` is
written whole, and the order of the records is open; `memset` clears record by
record in the same way.

**Aircraft, Radar.** Each gives what a step does to the component's own state.
The program counters (`aircraftPc`, `arrivalPc`, `pollPc`) name the places
where another thread's step can come in between: blocking calls, unlocked loads
and the single stores to shared memory. Everything under one lock, and
everything local between two such places, is one step.

| Code | Action |
|---|---|
| `Aircraft::updatePosition`, arrival loop, name_open, ENTER | `AwaitArrival`, `OpenRadar`, `SendEnter`, `EnterReplied`, `AttachChannel` |
| … position loop | `Move`, `Reply`, `ReplyToCommand`, `WaitTimer` |
| … departure | `ExitReplied`, `DetachChannel` |
| `ListenAirspaceArrivalAndDeparture` | `AttachRadar`, `ArrivalLoop`, `ReceiveAirspaceMessage`, `ReceiveStray`, `ReceiveFails`, `HandleAirspaceMessage` |
| `ListenUpdatePosition`, `pollAirspace` | `PollLoop`, `CheckAirspace`, `CopyPlanes`, `PollNext`, `PollSkip`, `PollDone` |
| `getAircraftData` | `RequestPosition`, `PositionReceived`, `RequestFailed`, `StoreReply` |
| `writeToSharedMemory` | `WriteTimestamp`, `WriteIsEmpty`, `WriteCount`, `WritePlaneData`, `ClearBuffer` |
| `~Radar` | `StopThreads`, `DetachRadar`, `ThreadsExited`, `Clear…` |

**Airspace** composes them. A synchronous message is a step of two threads: a
pending message *is* a sender that is blocked on it, so there is no queue to
model. `AnswerPoll`, `ObeyCommand`, `AnswerEnter` and `AnswerExit` join
MsgReceive/MsgReply with the sender's return from MsgSend. `Depart` and
`DetachRadarChannel` release whoever is blocked on the channel that goes.
Messages of the QNX library itself (connections, pulses) reach the same
MsgReceive calls and are the "stray" actions. main's joins, the tick thread and
a sender of commands complete the process. The header byte of Radar's request
is uninitialised (`Radar.cpp:158`); the bit of it the aircraft looks at is any
member of `HeaderBits`.

**SnapshotWriter** is the abstract specification of what Radar promises the
readers: whole rounds, one after the other, each published field by field, no
aircraft twice, and at the end everything cleared. **AirspaceSnapshots** states
that `Airspace` implements it (`ImplementsWriter`).

**RadarProcess** puts that writer into the life of the shared memory object:
created without a size, sized (`OpenObject`), cleared by the constructor record
by record and then field by field (`Construct`), written, cleared by the
destructor in the same way (`Erase`). The process may be
killed at any of these points (`Kill`), and the next one finds the memory as it
was left. The object is never unlinked. `lastSnapshot` is a history variable:
what a reader should see between two writes.

**Monitor** is `initializeSharedMemory` and `monitorAirspace` next to that
process, and the Display's thread for alerts. The reader's steps are its loads:
`is_empty`, the timestamp, then for each record the count again and the record.
The Display may be killed at any moment (`KillDisplay`): a MsgSend that is blocked
on it returns -1 and the monitor goes on, but a later alert that finds no Display
ends the monitor's process (`OpenDisplay`).
**Display** is the other reader, `displayAirspace`: it maps the memory anew for
every refresh (`OpenMemory`), loads `is_empty` and, once, the count
(`TestEmpty`, `ReadCount`), reads the records for the screen (`PrintRecord`)
and, if a snapshot is due, a second time for the log (`OpenLog`, `LogRecord`).

**CollisionCheck** has `checkAxes` and `checkCollision` as operators, and
`Conflict`, what they are to decide. **CollisionTest** runs `checkAxes` as the
code does, with six loads of `timeConstraintCollisionFreq` (`LoadConstraint`,
`ReturnVerdict`) and `handleTimeConstraintChange` in between.

**RadarLifecycle** is about the pointer `Radar_channel`: the constructor starts
the arrival thread, which attaches a channel and stores it, and then stores
NULL itself (`EndConstructor`); the destructor detaches and so frees the channel
(`Detach`) while the arrival thread may be about to use it (`LoadChid`). Module
Airspace starts after the constructor with the pointer in order. The polling
thread sleeps on a timer of module **ATCTimer**, which is armed once, queues its
pulses, and may not have been created at all. There is an
aircraft's life of two messages, since these decide when a channel is used, and
what else reaches the channel: pulses, and connections of the library
(`ReceiveStray`). When `name_attach` fails the process exits (`TestAttached`); in
module Airspace the behaviour just stops there, as the comment at its
`AttachRadar` says.

**CommandRelay** is the process ATC_Computer from its first thread to its last
join, as far as commands are concerned: console, `processMessage`,
`CommunicationsSystem`, main, and the aircraft reduced to their channels. A
message is known by the number of the line it was typed in. The branch for a
message of type EXIT (`CommunicationsSystem.cpp:39`) is there, and never taken:
the console has no line that becomes one, which the proofs establish for every
stage (`StagesInv`). **LossyFifo** is what the three stages amount to: a queue
that takes a line at the moment it is typed, and only then, under the number
`typed` gives it, and may lose a command at any moment. A stage that passed a
message on twice, or received one without releasing its sender, would have to put
a line into that queue that nobody has typed.

The proofs are in the modules named `…Proofs` (see "The proofs").

In every module the operators named `X_Something` that stand before `X` are
faulty variants of `X` (a dropped guard, a missing reset). Nothing uses them:
they record, for each property, a fault that it detects.

## The runs

| Run | Question | Instance |
|---|---|---|
| `airspace_safety` | Radar's set, buffers, picture and shutdown at every step, and the refinement of SnapshotWriter | 2 aircraft, arrivals 0 and 1, three cells to cross, failing `name_attach`, both header bits, tick ≤ 1; 1.8 million states |
| `airspace_commands` | commands against polls; liveness of polls, commands and shutdown | 1 aircraft, 2 commands out of three (stop, jump out, climb out) |
| `airspace_listing` | an aircraft that hovers is listed while another comes and goes, and that one disappears | 2 aircraft, a smaller airspace |
| `radar_lifecycle` | constructor, threads, timer and destructor: crashes, the channel, who is turned away, and the end | 3 aircraft, at most 2 queued pulses, with and without a timer |
| `relay_commands` | commands are executed in the order typed, never doubled or invented, none hangs, and main ends only after an unused process | 3 lines, one aircraft and one id that is none, failing `name_attach` |
| `monitor_safety` | what the lock-free reader sees and reports, how far it still has to read, what ends it, and what ends its process | rounds of 0 to 3 aircraft, the three near each other, room for 3, 2 pairs per alert; any number of kills and restarts of Radar's process and of the Display; 2.6 million states |
| `monitor_liveness` | reading ends, standing conflicts are shown | 3 possible rounds of 0 to 2 aircraft |
| `display` | what is shown and logged, and when | 3 possible rounds of 0 to 2 aircraft, kills and restarts, intervals of 2 and 4 seconds; 590 000 states |
| `collision_verdict` | the six loads of `checkAxes` against `checkAxes` and `Conflict` | all pairs of 48 records in two axes, time constraints -1, 0, 1 and 4, one change before any load; 960 000 states |
| `airspace_phantom`, `monitor_self`, `collision_missed` | see "Disagreements" | |

Why the bounds are enough. Two aircraft are the least for one to come or go
while the other is polled, skipped or published; the per-aircraft invariants
mention at most one aircraft and Radar. Three cells make an aircraft take
several rounds, so that it can be polled in one and gone in the next. Two
commands allow one to undo the other or to come after the aircraft was stopped.
Three lines fill the three stages of the relay. In the readers' runs the rounds
differ in number, order and positions, so a torn reading differs from each of
them; three aircraft near each other are three pairs, and two per alert make the
cut at `kMaxPairs` happen.
The readers never use the timestamp for a decision, so their runs keep it at 0
(`LastTime`). Two refreshes per log interval are the least for a refresh that
logs and one that does not. One change of the time constraint falls before each
of the six loads or between two tests. The bounds of the models are
`MaxTick`/`LastTime`, `MaxCommands`, `MaxLines`, `MaxChanges` and `MaxPulses`;
`logTick` stops at the interval, with which alone the code compares it.

`CHECK_DEADLOCK FALSE` stands where the system may really stop: the monitor
ends or a process is terminated, the operator types nothing more, the timer of
a process that has ended does not expire, or the operator has made the changes
he makes. Module Airspace has a terminated state and is checked for deadlock.

## Fairness

Every thread is scheduled: weak fairness of each thread's own steps (`Reader`
and `ReceiveAlert` in Monitor, `Refresh` in Display, main, the two threads, the
aircraft and the clock in RadarLifecycle). Timers fire, and how fast is left open.
The answers to blocked senders (`AnswerPoll`, `ObeyCommand`, `AnswerEnter`,
`AnswerExit`, in CommandRelay `ProcReceive` and `CommsReceive`, in RadarLifecycle
`Receive`) have strong fairness, because a receiver comes back to MsgReceive in
between other messages, and the QNX kernel
queues senders of equal priority in order of arrival: a message that stays
pending is not passed over for ever. There is no fairness for what nobody is
obliged to do: operator input, the arrival and departure of aircraft in
CommandRelay, the end of monitoring, stray messages, Radar's process in the
modules of its readers, the start and the end of the Display. `FlyingIsListed` is checked
with the header bit clear, since nothing in the code bounds how often it is set.
`StandingConflictShown` and `StandingPictureShown` assume that Radar leaves the
picture alone in the end, that the Display stays, and that no reader has been
terminated: a reader that
is always overtaken by a writer never sees a whole round.

## Disagreements with the comments

Each is a run in which TLC finds the statement violated.

* `airspace_phantom`: "Aircraft replies with msg_plane_info bytes"
  (`Radar.cpp:166`). With the header bit set it replies an `int` 0. The property
  looks at the picture between two rounds only, so what the run shows is not the
  count that is written before its records (that is `monitor_self`'s matter): a
  whole round has been published, and it has a record of aircraft 0.
* `monitor_self`: "check every unique pair of planes" (`ComputerSystem.cpp:133`).
  A torn reading has two equal records, or two zero records, at distance 0.
* `collision_missed`: "entering the defined airspace constraints within the time
  constraint" (`ComputerSystem.cpp:163`). Only now and the last instant are
  tested.

The models show a few more, for which there is no separate run:

* "Once the arrival time is reached, send the ENTER_AIRSPACE message"
  (`Aircraft.cpp:80`): an aircraft due at once may look for Radar's channel too
  early, and its thread ends (`OpenRadar`). `OnlyEarlyTurnedAway`: that happens
  only as long as no aircraft has been answered.
* "Monitoring stopped. Exiting main." (`ATC_Computer/main.cpp:25`): the
  destructor of CommunicationsSystem joins a thread that waits for a message
  that no one sends (`CommunicationsSystem.cpp:39`). `EndsOnlyUnused`: main
  returns only if that thread never got its channel, and so passed on nothing.
* "Only write empty buffer once after transition to empty" (`Radar.cpp:97`): a
  round in which every poll fails writes an empty picture, also over an empty one
  (`CheckAirspace` to `WriteIsEmpty` with both buffers empty).
* "OperatorConsole started last so the channel it writes to already exists" and
  "Start CommunicationsSystem first so its channel is ready"
  (`ATC_Computer/main.cpp:19` and `:6`): threads are started in that order but
  none waits for the other's `name_attach`, so the first command may be dropped
  (`SendToComputerSystem`, `SendMessagesToComms`).
* "Keep monitoring indefinitely until `stopMonitoring` is called"
  (`ComputerSystem.cpp:90`): the thread ends at the first empty picture
  (`StopMonitoring`). `StopsOnEmptyRound`: a round with nobody in it is what it
  takes, or the memory of a process that is gone or has yet to clear it.
* "Waiting for planes in airspace" (`ComputerSystem.cpp:92`): a new shared memory
  object is zeros, which reads as not empty until Radar's constructor has cleared
  it, and one left by a killed process may say anything. `WaitEndsWithPlanes`
  names these exceptions.
* "no crash happens" (`Radar.cpp:58`) and "Set stop flag and wait for threads to
  complete" (`Radar.cpp:21`): the constructor's NULL and the `name_detach` in
  `shutdown` make both fail. `CrashHasCause`, `ChannelClosed` and `ShutdownEnds`
  name these causes as the only ones.
* "Return true if they will collide, false otherwise" (`ComputerSystem.cpp:165`):
  the console takes any int as time constraint (`OperatorConsole.cpp:75-86`), and
  with a negative one aircraft that were near each other, and part, are warned of.
  `OnlyPassingMisjudged` says that these are the only ones warned of in vain; the
  run has a negative constraint, and the theorem takes every int.
* A test of `checkAxes` that a change of the time constraint falls into may decide
  neither what the old nor what the new value would (`ComputerSystem.cpp:170-176`;
  hence `changed` in the properties). `UndisturbedVerdict`: the harm ends with that
  test.
* "Error occurred while attaching to display" (`ComputerSystem.cpp:198`) is thrown
  and never caught, and takes the operator's console with it.
  `TerminatedWithCause`: it takes a conflict with no Display, which a reading that
  no write overlaps must itself hold, or an object that had no size yet when the
  thread started.

## The proofs

All modules with theorems are checked by TLAPS from the assumptions named in the
modules: `PlanesAssumption` (finitely many ids, 0 is none), `CapacityAssumption`
(no more aircraft than `plane_data` has room for: the code does not check it),
`DisplayAssumption` (the log interval is a multiple of the refresh interval, as
5 and 30 are), and `AircraftAssumption`, `AirspaceAssumption`,
`SnapshotsAssumption`, `MonitorAssumption`, `ConstraintAssumption`,
`TestAssumption`, `LifecycleAssumption` and `RelayAssumption` (types, and that no
aircraft's channel has the name of ComputerSystem's or CommunicationsSystem's).
For CommandRelay a few lemmas on sequences come first; elsewhere the libraries'
suffice.

*AirspaceProofs.* `TypeCorrect`: each thread's steps keep its own variables in
their types, and a joint step is a pair of these.
`RadarViewCorrect`: `RadarView` alone is not inductive, because the handling of
an old message could undo a later one. `MessageInHand` excludes it: the arrival
thread has at most one answered message, and its sender has not got past the
next one, since that needs the thread's answer.
`ChannelsCorrect`, `NobodyAbandonedCorrect`, `RadarOutlivesAircraftCorrect`:
the invariant `ChannelInv` adds that a name is attached exactly while its thread
is between attach and detach (`ChannelsAttached`), and that main leaves its joins
only when all aircraft threads have ended (`JoinedHaveEnded`); so a send is made
to a serving thread, and a serving thread leaves only through a detach that
releases the sender.

*PictureProofs.* The invariant `PictureInv` adds to the properties about the
published picture: a round has room for the aircraft it has still to ask
(`RoundFits`, which makes `PictureFits` inductive); between two rounds both buffers
are empty, so that the fallback finds nothing old (`BuffersDrained`); flag and count
agree except between their two writes (`PictureConsistent`); both buffers are empty when
Radar writes because the airspace became empty (`DrainingIsEmpty`); `count` is
written from the buffer that `is_empty` was written from (`FlagOfSource`); and
main clears only after both Radar threads have ended (`ClearedSoFar`).
`PictureOfLastRoundCorrect` adds `RoundInv`: an answer is that of the aircraft
asked or the int 0, the buffers hold answers of this round, and what is copied so
far is what the buffer holds. `PositionsInAirspaceCorrect` adds `PositionsInv`: an
aircraft that may be asked is inside, because a command that moves it takes the
place of the answer of that second. `ImplementsWriterCorrect` proves the
refinement of SnapshotWriter step by step. It rests on all of these and on two
more: the records collected are of none of the aircraft still to be asked
(`AskedOnce`, hence no aircraft twice), and the time published is not ahead of
the clock (`TimestampPast`, hence it does not run back).

*RadarProcessProofs.* `MemoryInv`: what each field holds at each point of a
process's life, over any number of kills and restarts. The proofs of the two
readers rest on it.

*MonitorProofs.* `ReadsInBoundsCorrect` and `UndisturbedReadCorrect` follow from
`MonitorInv`: as long as Radar does not write, the vector is a prefix of the last
round (`ReaderInv`). `WaitEndsWithPlanesCorrect`, an action property, follows from
`WaitInv`: without an aircraft yet, "not empty" means new or left memory.
`StopsOnEmptyRoundCorrect` from `EmptyInv`: in the hands of a running process that
has cleared it, the flag says whether the round complete or being written is empty.
`TerminatedWithCauseCorrect` rests on `AlertInv` below: the thread opens the Display
only with an alert that is not empty, and an alert that names somebody is about a
reading that holds a conflict (`NobodyNamed`).
`ReadingProgressesCorrect` is the safety part of `ReadingEnds`: the reader's steps
lower a number that depends on the capacity and the vector alone, and no step of
Radar's touches it.

`MonitorTypeCorrect` and `AlertNamesEachPairOnceCorrect` are about the order of the
pairs in an alert, which is that of the two loops. A pair's place is the number of
near pairs that come before it (`FoundBefore`). The order is a strict total one
(`PrecedesIsOrder`), so the places are all different and below the number of pairs
(`RankGrows`, `RankIsUnique`); an injection of a finite set into an interval of the
same size is onto, so every place up to that number has exactly one pair
(`NthFoundIs`), and the message is well defined and names each pair once, or, if it
is cut off, at most once (`MessageIs`, `NamedOnce`). `AlertInv` carries this to the
thread: the message it sends is that of the vector it has read. Alerts do not show
which record a pair came from, so the property speaks of aircraft, and not of the
record of an int 0, of which a round may hold several.

*DisplayProofs.* `UndisturbedViewCorrect` and `LogMatchesViewCorrect` follow from
`ViewInv`, with `RefreshInv` as its part about what has been printed and logged so
far. `LogNotOverdueCorrect` needs another one, `LogInv`: the seconds since the last
snapshot and those since the last refresh differ by a whole number of refresh
intervals, so the log interval always ends on a refresh.

*CollisionProofs.* `CheckAxesSymmetric` is about the operator,
`UndisturbedVerdictCorrect` and `OnlyPassingMisjudgedCorrect` about the six loads, for
every int as time constraint (`VerdictInv`: without a change, each value loaded is
the one in force). The last one bounds the disagreement of `collision_missed`: the
offset of two aircraft on an axis is linear in time, so one that is too large now
and at the end, and small in between, has changed its sign. It also bounds the vain
warnings of a negative constraint, whose second instant is one of the past.

*RadarLifecycleProofs.* `CrashHasCauseCorrect` and `ChannelClosedCorrect` follow
from `PointerInv`: unless the constructor overwrote it, the pointer says whether
there is a channel. `OnlyEarlyTurnedAwayCorrect` as well: once an aircraft has been
answered there is a channel until the destructor, and aircraft are served only
before that.

*CommandRelayProofs.* `RelayInv` has three parts. `StagesInv`: a stage that is not
about to pass a message on holds none, only commands get as far as the aircraft,
and none is EXIT. `OrderInv`: what is nearer to the aircraft was typed earlier, what
they have executed earliest of all, and nothing is numbered beyond the last line
typed; with it `ExecutedInOrderCorrect`. `LateInv`: once monitoring has stopped,
`processMessage` can be in its MsgReceive only if no message has come since; with
it `OneLateMessageCorrect`. For `ImplementsLossyFifoCorrect` each step is one of the
queue's: typing a command puts it, passing it on leaves the queue of the three
stages as it is, dropping it loses one element, and executing it takes the first.
`EndsOnlyUnusedCorrect` from `CommsInv`, with `StagesInv`: the thread of
CommunicationsSystem ends only where it starts, so main's last join returns only
after one that never received.

The type invariants of Display, RadarLifecycle and CommandRelay, and
`BuffersDrained` and `PictureConsistent`, are parts of the proved invariants; no
run repeats them, since `ImplementsWriter`, `ImplementsLossyFifo` and
`PictureOfLastRound` fail first.

Only model-checked: the liveness properties (`SendersReturn`, `ShutdownCompletes`,
`FlyingIsListed`, `DepartedDisappears`, `CommandsSettle`, `ReadingEnds`,
`StandingConflictShown`, `StandingPictureShown`, `SenderReleased`, `ShutdownEnds`),
since fairness and ENABLED are beyond TLAPS. Every invariant and every action
property of a run has its theorem.

## What is not modelled

* Records that are torn within themselves: a record is written and read whole,
  although both are copies of several words. A reader that sees half of one is
  the same kind of disagreement as `monitor_self`.
* What a `name_attach_t` holds after `name_detach` has freed it: its use is a
  crash or a failed MsgReceive (`LoadChid`), never a receive on a channel of
  someone else. Channels and connections that cannot be created for other reasons
  than a name that is taken, except the timer's.
* The relation of one thread's pace to another's. Each timer fires once a second,
  so an aircraft that answers a poll or command in each second moves once a
  second; if nothing is sent to it, it stays in MsgReceive and does not move at
  all, and pulses that queue up meanwhile let it make several moves at once. In
  the model a wait takes any time, which covers this, but no property speaks of
  how far an aircraft has flown by when.
* Errors of `mmap` and `shm_open` other than a missing or unsized object.
* `planes.txt` and its parsing, which are constants; the parsing of operator
  input beyond the kind of line; log files other than the Display's snapshots;
  printing. `startTimer`, `tick` and `tock` of ATCTimer, which nobody calls.
* Two aircraft with the same id, and more aircraft than `plane_data` has room for.
* The build files and binaries, which have no behaviour of their own.
* Doubles are integers, and the instants of `Conflict` are whole seconds.

## Plan

What the modules above leave for later:

1. `FlightTime`: one aircraft, its timer's queued pulses and Radar's poll period,
   to relate the distance flown to the time passed.
2. The safety part of `ShutdownCompletes`, the order in which the threads end, as a
   theorem. `DepartedDisappears` has none of its own: between the count and the
   records of a later round an aircraft that has gone may show again in a slot that
   is still the old one.
3. Records torn within themselves, in module RadarProcess.
