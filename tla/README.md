# A verification project for ChildServer and PrimaryServer

The repository holds two Netty servers for children's watches (a "device": a
watch with a SIM card, a GPS/LBS position and a few commands).  A device first
talks to *PrimaryServer*, which registers it and tells it the address of
*ChildServer*; from then on it keeps a TCP connection to ChildServer, reports
positions, steps and alarms, and carries out commands that the web side sends.
This directory models the parts of the two servers that have behaviour of their
own in TLA+, model-checks them with TLC and proves the main results with TLAPS.

Paths below are relative to `src/ChildServer/src/com/zhuika/` unless they start
with `PrimaryServer`.

## 1. Inventory

### 1.1 Threads and shared state

| Thread | What runs on it |
| --- | --- |
| one Netty event loop per channel | `DiscardServerHandler.channelRead0`, `userEventTriggered` (150 seconds without a read or a write), `channelInactive`, `exceptionCaught` |
| threads of a cached pool (`ServiceHandlerFactory.executorService`) | `DiscardServerHandler.ServiceHandler.run`: one task per frame of a device (`$$` frames) and one per command of the web side (`@@` frames) |
| one JMS thread | `ActiveMqReceiver.Listener.onMessage`, for the whole broker queue |

Shared between them: `DiscardServerHandler.map` (serial number to channel, a
plain `HashMap`), `NettyServerHandler.msgMapSet` (serial number to a `HashSet`
of unacknowledged packets, a `ConcurrentHashMap` of unsynchronised sets), the
duplicate filter `SendSmsService.mapCheck`, the rows of the data base, and the
connections of `ActiveMqSender` and `ActiveMqReceiver`.  There is no lock and no
transaction anywhere in this code: every read-modify-write is open to the other
threads.  PrimaryServer has the same event loops and the same cached pool, and no
other threads; its tasks share nothing but the data base.

### 1.2 Components

| Component | State | Operations | Hard behaviour | What makes it correct |
| --- | --- | --- | --- | --- |
| Ack table (`server/NettyServerHandler`) | `msgMapSet`, the sets, one frame per call | `AddToMapSet`, `DeleteSetForAck` | every pair of map accesses is interruptible; iterators over unsynchronised sets | a packet leaves only by an ack of its device, one by each ack; a check never loses one; keys of empty sets leave |
| Downlink commands (`DiscardServerHandler`, `ActiveMqSender`, `ActiveMqReceiver`) | broker queue, sender connection, listener position, frames on the wire | submit, send, receive, `SendToClient`, `SendRepeatByAck`, acks | lost acks, late acks of earlier commands, exceptions and redelivery, crash and restart | commands are neither lost nor finished twice nor reordered, the listener always gets through, "ack ok" is about this command |
| Device sessions (`DiscardServerHandler`, `OnLineService`, `SerialNumberService`, `ListenService`) | `map`, the column `online`, connections | frames, `getOnLine`, `getOffline`, `RemoveChannel`, full-row updates, start-up | event loop against pool tasks, stale rows, `ConcurrentModificationException`, a reconnect before the old connection is seen to be gone | no device is wired to the connection of another one; map and column agree |
| Fences and alarms (`service/SendSmsService`, `ef` in the device row) | fence record per fence, `ef`, `mapCheck` | `CheckExist`, `SaveLocationSTable`, `controlSMS`, pushes | a state machine spread over two tables and a static map; stale rows across HTTP calls | an alarm for each crossing, none twice in a row unless its zone could not be stored |
| Locations and history (`service/LocationService`, `ManualLocationService`) | history row with two text columns | `saveLocation`, `getLocation` | read-modify-write of a text column by two tasks, trimming at given minutes | no location lost, order kept |
| Registration (`PrimaryServer/.../DiscardServerHandler`, `JdbcSerialNumberDAOImpl`) | a row in each of four tables | frame 0002: reply, two find-then-add pairs | two frames of one device at once, three inserts and two look-ups with swallowed exceptions | one row per device in each table; who was told to go on gets them all |
| Frame pipeline (`DelimiterBasedFrameDecoder`, `ByteToMessageDec`, head of `channelRead0`; the same in both servers) | the framer's buffer, the bytes `ByteToMessageDec` holds | a segment arrives, the connection ends, the decode loop | binary frames cut at CR LF in any segmentation, limits of four and of 8192 bytes | a frame that is damaged costs little else, and none is taken that is not whole |
| Frame building and hex conversion (`DownMessageService`, `ByteConverter`, `Hex`) | none | build a frame, convert | length fields and checksums with fewer digits | pure functions |
| Pedometer, listening (`PedometerService`, `ListenService`) | weekly rows, `listenstatus` | frames 7101/4130 | read-modify-write, a failed look-up that adds a second row | no day's count lost |
| Position look-up (`MinigpsUtil`, `LbsUtil`, `BDTransUtil`) | none | HTTP calls | null results | pure I/O |
| Web-side services (`ejbproxy`, `RestCall`, `Mq*DaoIml`) | remote | log records | none that comes back | pure I/O |

Interactions: a `@@` frame of the web side goes through `ActiveMqSender`, the
broker, `ActiveMqReceiver`, `SendToClient` and the map to the device; the packet
goes to the ack table; the ack frame comes back through a pool task to the same
table; the verdict goes to the web side's log.  A `$$` frame of a device starts a
pool task and, on the event loop, makes the device online; the task changes the
device row, the position tables and the fence records, and pushes messages.  In
PrimaryServer a frame 0002 that comes out of the pipeline starts a pool task that
registers the device.

The hazards of this code, each at its line and with the property that would catch
it, are the list `hazards` of `PROJECT.json`.

## 2. Modules

| Module | Models | Checked by | Proved in |
| --- | --- | --- | --- |
| `AckTable` | `NettyServerHandler` | `MCAckTable` | `AckTable_proofs` |
| `CommandQueue` | abstract: what the downlink path promises | as `ImplementsQueue` | `CommandDelivery_proofs` |
| `CommandDelivery` | the downlink path, on top of `AckTable` | `MCDelivery*.cfg` | `CommandDelivery_proofs` |
| `DeviceSession` | map, column `online`, connections and their handlers | `MCSession`, `MCSessionLogin.cfg` | `DeviceSession_proofs` |
| `ZoneAlarm` | `SendSmsService.controlSMS`: the column `ef` and the warnings | `MCZoneAlarm` | `ZoneAlarm_proofs` |
| `FenceRecord` | `SendSmsService.SaveLocationSTable`, `CheckExist`, `checkDuplicate` | `MCFenceRecord`, `MCFenceDuplicate.cfg` | `FenceRecord_proofs` |
| `LocationHistory` | `LocationService.saveLocation`: the columns `text` and `location` | `MCHistory` | `LocationHistory_proofs` |
| `Pedometer` | `PedometerService.getPedoMeter`, `JdbcPedoMeterDaoImpl`, in one pool and with one clock with `LocationHistory`, which it extends | `MCHistory` | `LocationHistory_proofs` |
| `FrameStream` | framer, `ByteToMessageDec`, the checks of `channelRead0` | `MCPrimary` | `FrameStream_proofs` |
| `Registration` | the tasks of frames 0002 in PrimaryServer | `MCPrimary` | `PrimaryServer_proofs` |
| `PrimaryServer` | composes `FrameStream` and `Registration`: one connection and the pool | `MCPrimary` | `PrimaryServer_proofs` |

Definitions whose comment starts with "Mutant of" are deliberately wrong variants
of the definition that follows them.  No specification uses them; each one stands
for a plausible bug, and replacing the original by it makes TLC find the property
named in `PROJECT.json` violated, which shows that the property depends on the
code being as it is.

### 2.1 AckTable

`msgMapSet[s]` is the set serial number `s` is mapped to, `msgSet[r]` the contents
of set `r` (a set is named after the packet it was created for, so a set that was
unmapped while a thread still holds a reference to it remains a set of its own),
`call[t]` the stack frame of thread `t`: where it stands, its arguments, its local
`msgSet`, and whether the iterator it walks is still valid.  Each action is one
access to shared memory: `addContains`/`addGet`/`addInsert` are the three calls of
`AddToMapSet` (lines 150-159), `delContains`/`delGet`/`iterate`/`scan`/`size`/
`unmap` those of `DeleteSetForAck` (lines 102-131).  An add or remove on a set
invalidates the other threads' iterators on it; what a step with an invalid
iterator does is left open: it throws (`ConcurrentModificationException`) or goes
on.  `get` may return null; the following dereference throws.

Only the listener adds (one JMS consumer), and only pool threads call with
`isReceived = true`; this is how the callers in `src/` use the class.

### 2.2 CommandDelivery and CommandQueue

Extends `AckTable`: `Listener` is the JMS thread and `Workers` the pool threads
that handle acks.  The variables `submitted`, `sending`, `senderUp`, `queue`,
`redelivered`, `step`, `attempt`, `wire`, `online` stand for the state of the
path; `verdict` is what is recorded of a command (`MqLogType` and the log lines);
`executed`, `answered`, `finished` and `heard` are history variables read by
properties; `heard` is what the device of the command in progress has acknowledged
while the command was in the table: nothing, only this command, or another one too.  A
command is its identity, its device and its code: texts are abstracted.

`Submit` is the `@@` branch of `channelRead0` and `DiscardServerHandler.SendToMq`,
`SendToMq`/`SendFails` are `ActiveMqSender.send` with its connection that is
closed for good by the first failure, `Ignore` is `onMessage` of a message it cannot
read (`JMSException`, which it swallows) or that has not more than 26 characters, and
which leaves the queue with the verdict `"ignored"`, `Receive` to `Acknowledge` are `onMessage`
and `SendRepeatByAck` with the three tries after 5, 4 and 3 seconds, `InMap`,
`NotInMap`, `Write` and `WriteThrows` are `SendToClient`, `Answer` is an ack frame
of the device with the pool task it starts.  External: the broker (redelivery when
`onMessage` throws, at most `MaxRedeliveries`, then its dead letter queue), the
device, crashes.

`HeadLeft`, which only `ListenerGetsOn` reads, ranks the states of the head of the
queue by what can still happen to it at most: redeliveries, then attempts, then the
steps of an attempt, with the accesses of the call it makes among them.

`CommandQueue` is the abstract specification: accepted commands wait in
first-in first-out order and finish once, oldest first.  `ImplementsQueue` is the
refinement, with the broker queue's identities as `waiting`.

### 2.3 DeviceSession

`map` and `online` are the two records of who is connected; `conn`, `loop` and
`task` are the channels, what each event loop is doing, and what each pool task
is doing.  `Frame` starts a task before the event loop looks at the map, as
`channelRead0` does (lines 135-151).  Frames are told apart by what they do to
this state: `login` (9991), `logout` (7200), `row` (4130 and 9955, which read the
device row and write all of it back), `beat` (all others).  `RemoveChannel` is
`LoopFind` (first loop), `LoopUnmap` and `LoopOffline` (second loop);
`getOnLine`/`getOffline` are `TaskContains`, `TaskPut`, `TaskUnmap` and so on.
`valid` becomes FALSE when another thread changes the map under an iteration, and
a handler with an invalid iterator may throw.

`spoken` and `disturbed` are history: a device is disturbed when two handlers were
at work on it at the same time, when its `RemoveChannel` was cut short by an
exception, or when it logged in while in the map.

### 2.4 ZoneAlarm

`ef` is the column of that name ("0" home, "1" school, "2" elsewhere, "3" not
known), `fences` the rows of table `electfence` of the device, `task[t]` what each
pool task is doing: its kind (a location 9955, a login 9991, or a full-row update
4130), the `ef` it read, the fences it read, and what it is going to write and
send.  `ReadRow` is the read at the very start of the handler, `ListFences` the
read of the fences after the position was looked up, `Decide` the branches of
`controlSMS` with `WarningOf` for the code 01 to 04 of the warning, `NotHandled`
the cases without a branch (no fence, three or more, another area number, or an
`ef` that does not go with the one fence), `WriteRow` and `Warn` what follows.
Distances are abstracted to the set of fences the position is inside of.  The web
side may change the fences at any moment.

Each call of the data base may fail, with what its DAO makes of it: `ReadFails`
(null, which ends the task), `ListSome` (the fences read before the exception),
`WriteFails` (`updateSerialNumber` swallows the exception, and `controlSMS` sends the
warning all the same).  The number of failures is not bounded.

`last`, `told`, `missed`, `astray` and `disturbed` are history.  `missed` is about the
last location: it found no branch, or its row was not written; `ef` is then behind
until the next location that has a branch.  `astray` is about the last warning: it was
sent, but its zone was not written, so that `ef` says the opposite of the warning, and
the next warning has the direction of this one again.  That is what the code does after
a swallowed exception, and the properties say that it does so then and only then.
`disturbed` says that tasks overlapped, until a login has the row for itself; the
properties promise nothing in between.

### 2.5 FenceRecord

`row[f]` is the side (inside, outside, or exactly at the radius) in the last row
of `T_LOC_ELECTFENCE` for fence `f`, `hash` is `m_hashLocElt`, `check` is the
device's entry of `mapCheck`.  A task goes through its list of fences in the steps
of the loop: `Query`, `Store` (the `put` into the shared map), `Compare`
(`CheckExist`, from whatever the shared map holds by then), `Duplicate` and `Mark`
(the comparison of `checkDuplicate` and what it stores; on a duplicate it puts back the
entry it has read, which undoes what another task may have stored since), `Insert`,
`Push`.  `StartSome` is a query of the fences that fails after some of them, or before
the first, and whose exception the DAO swallows.
`DbFails` is an exception in one of the data base calls, which ends the loop.
`Restart` empties the static maps.  Positions found by GPS carry the address `""`
(`LocationService.getLocation`), which `checkDuplicate` never takes for a
duplicate and does not store.

`pushed`, `last`, `excused` and `overlapped` are history; each is reset when its
reason is gone, so that the properties speak of every later location again.

### 2.6 LocationHistory

`row` holds the columns `text` and `location` as sequences of entries (position,
time); `clock` is the time.  `ReadRow`, `Stamp` and `WriteRow` are the read, the
`Calendar.getInstance` after it, and the update; `NewText`, `NewLocation` and
`Trimmed` are what `saveLocation` does to the columns in an ordinary minute and at
minute 30 or 59 (`TrimTime`).  An entry is found again by `indexOf`, so that of two
equal entries the first is meant.  `ReadFails` (the row is null, and `li.getText()`
ends the task) and `WriteFails` (`update` swallows the exception: this location is lost)
are not bounded.  `handled` is history: the locations that were written, so that
`LocationKept` and `TextKept` say that a failed write costs no other location.

`Calendar.getInstance` is the local time of the machine.  The model takes it as a clock
that is never set back: neither daylight saving time nor an adjustment of the clock is
modelled, and `ColumnsInOrder` would not hold across one.

### 2.7 Pedometer

`weeks` holds the column `distance` of each row of the device in table `pedometer`
(a row is a function from weekday to an entry), `walk[t]` is what a task is doing
for a frame 7101, `failures` counts data base calls that failed.  `FindWeek` is
`getPedometerInfo`, which takes the first row of a result without an order;
`FindWeekFails` is its swallowed exception, which looks like a device without a
row.  `TakeDate` is `Calendar.getInstance` after the look-up, `NotANumber` the
exception of `Integer.parseInt` that ends the task, `WriteWeek` the insert or the
update, which writes all rows of the serial number.  `RecordsNext` puts these tasks
beside those of `saveLocation`: a pool thread is at work on one or the other.

`reported` and `mixed` are history.  When two reports overlapped, or a look-up failed
on a row that is there, the code does lose entries; `WeekKept` says that nothing
else does.

### 2.8 FrameStream

A message is a stretch of bytes of the connection, told by positions: `arrived` is
how many bytes there are, `framed` how many of them the framer has cut off, `held`
the stretch `ByteToMessageDec` holds, `discarding` the framer's
`discardingTooLongFrame`, `reading` says that its decode loop is running.  `stream`
is what the device sends: where frames end (`ends`), where CR LFs end (`delims`,
also those inside a frame), and where TCP segments may end (`segments`).  `Arrive`
and `Close` are `channelRead` and `channelInactive`; `Cut`, `CutTooLong`,
`StartDiscarding`, `StopDiscarding` and `NothingFound` are the ways a round of the
decode loop ends; `Pass` is `ByteToMessageDec.decode`, `Handle` the check of the
head and the length field in `channelRead0`.  The framer is Netty's (external), at
the parameters both servers give it.

What the analysis shows: a frame with a CR LF in its data or checksum is lost, which
follows from the protocol.  If that CR LF is among its last bytes, four or fewer
remain behind it, `ByteToMessageDec` keeps them, puts them in front of the next frame, and this
one is lost too (`Exposed`).  A frame that is too long costs no other frame, unless
a segment ends between a CR and its LF that are both to be dropped: the framer drops
the CR, does not see the delimiter, and discards the next frame with the rest
(`crDropped`).  A CR LF that is the length field itself (a frame of 3338 bytes) does
no harm: its first four bytes are kept and joined with the rest.

### 2.9 Registration and PrimaryServer

`rows[t]` is the number of rows of the device in table `t`, `task` where each pool
task stands.  A task goes from `Reply` (`returnMessage`, before anything is stored)
to `FindInfo`, `UpdateInfo` or the insert into `info`, `FindSerial`, and the three
inserts of `addSerialNumber`.  `FindFails` and `InsertFails` are the exceptions the
DAOs swallow, with what each of them skips (`Skipped`, `AfterFailure`);
`InsertRefused` is a duplicate key, if the data base has one: the schema is not in
the repository, so that both outcomes are possible.

`told`, `lost`, `overlapped` and `misread` are history.

`PrimaryServer` is both: a step of the decode loop that takes a frame starts a task
in the same step (`Dispatch`), as the event loop calls `executorService.execute` and
goes on to read.  `Dispatch` is the only place where the two meet; all other steps
leave the other half alone.

### 2.10 Abstractions that hold for all modules

 - A call of a `HashMap`, `HashSet` or `ConcurrentHashMap` is one step.  What an
   unsynchronised call may do to the inside of a `HashMap` (a lost `size` update, a
   lost entry during a resize) is not modelled, `ConcurrentModificationException` is.
 - Sleeps and timeouts are untimed: a sleep may end at any moment, an idle event
   may come at any moment.
 - A channel carries frames of one serial number.
 - Data base calls fail in `FenceRecord`, `Registration`, `Pedometer`, `ZoneAlarm` and
   `LocationHistory`, with what the DAO makes of the exception (null, a list cut short,
   nothing written) and what its caller does next.  In `DeviceSession` they succeed, and
   the device row exists: this is an assumption, since `setAllOffLine`,
   `updateSerialNumberOnline` and `updateSerialNumber` swallow their exceptions.  A
   failed one leaves the column as it was, and `OnlineOnlyIfHeard` and
   `InStepUnlessDisturbed` do not hold for that row until the next write of it;
   after a failed `setAllOffLine` the port is opened all the same.
 - In `DeviceSession` the two removals of one entry (`it.remove()` and `map.remove()`,
   lines 383-384, 403-404 and 427-428) are one step.  They differ only when another
   handler puts the same device in between, which makes it disturbed.
 - In `CommandDelivery` the map is a flag per device that may change at any time.
 - `NettyServerHandler.SendRepeat` and `SendFunction` and
   `ActiveMqReceiver.BlockToReceive` have no caller and are left out.

## 3. Runs

| Run | Instance | Shows |
| --- | --- | --- |
| `ack_table` | 2 devices, 2 codes, 2 ack threads, 3 packets | all interleavings of adds, checks and acks: types, empty sets leave, a check drops nothing, an ack settles one packet of its own; also the inductive invariant of the proofs |
| `delivery` | 2 devices, 1 code, 1 ack thread, 2 commands, no redelivery, 1 crash | `InOnePlace`, `SilentDeviceStaysTracked`, `OkNeedsAck` and the refinement of `CommandQueue` |
| `delivery_live` | 1 device, 1 command, 1 redelivery, 1 crash, with fairness | every step of the listener brings the head of the queue nearer its end, nothing takes it back, and a queued command always finishes |
| `session` | 2 devices, 2 connections, 1 pool task | no cross wiring, no stale `online` after a restart, map and column in step unless disturbed; also the inductive invariant |
| `zone_alarm` | 2 tasks, 10 fence lists (none, one, two in both orders, three; all models), any number of failing reads, queries and writes | unless disturbed, `ef` is the last zone but right after a location without a branch or a failed write; the last warning contradicts `ef`, and is repeated by the next one, exactly when its zone was not written; also the inductive invariant |
| `fence_record` | 2 tasks, a list of 2 fences that comes and goes, 2 addresses and GPS, 1 data base failure (the query of the fences included) | pushes agree with the rows, the filter loses no crossing of the first fence, GPS positions are always recorded |
| `history` | 4 frames (locations at 2 positions, up to 3 step counts of 2 values or garbled), 2 tasks, times 0 to 4 of which 2 trim, entries old after 2, a week of 2 days, any number of failing reads and writes of the history, 1 failure for the step counts | both columns stay in the order of time; of what was written, only what the trim drops is lost without overlap; the weekly row keeps the last count of each weekday |
| `primary` | 3 frames of 7 shapes, segments that end before, in or behind any CR LF, 2 pool threads, 1 data base failure, with fairness of the pool | which frames the pipeline takes and what a bad one costs; one row per table, children only with their parents, complete once handled, and registered in the end |
| `delivery_ack_ok`, `delivery_timeout`, `session_login`, `fence_duplicate` | small | findings, section 6 |

Bounds.  Three packets are the fewest for which a left-over packet, a packet being
added and one in a second set coexist; two ack threads are needed for one to unmap
what the other has found.  In `delivery` two commands for one device give the late
ack of an earlier command, two for different devices give independence of devices;
the crash bound lets a crash happen at every place.  `delivery` has no redelivery
(`MaxRedeliveries` is 0), to keep its two commands on two devices within reach;
`delivery_live` has one, after an exception at every place `onMessage` can throw, and the
proofs are for any number.  One code
is enough there because a second code only makes fewer packets match (the
`ack_table` run has two).  In `session`, two connections are what a reconnect
needs (the old one not yet seen to be gone), two devices what an exception caused
by another device needs; one pool task beside two event loops gives three handlers
at work at once.  Closed channels are recycled, so runs are not bounded in the number
of reconnects.  In `zone_alarm` and `fence_record` two tasks give every overlap of two handlers, and
their states recur, so that runs are not bounded in the number of locations, nor
`zone_alarm` in that of failures; its two tasks are symmetric.  In
`fence_record` the first fence is told by the address and the position from GPS is
exactly at the radius of the second one; one data base failure can happen at each
place; the run uses the symmetry of the two tasks.  In `history` the clock
passes a trimming time, one that is not, and another one that trims, and four
locations are enough for a trim to meet an old, a young and a repeated entry.  Its
week of two days starts again at time 2, so that a weekday's entry is replaced and
another one is kept; three reports are a first one, one on another day and one that
replaces.  The bounds on clock, locations, reports, frames together and failures
(`MaxTime`, `MaxLocations`, `MaxReports`, `MaxFrames`, `MaxFailures`) are in the
guards; tasks and step counts are symmetric.  In `primary` three frames are a damaged
or too long one, the one it may cost, and the one after; the shapes have a CR LF
nowhere, in the checksum, in the last bytes of the data, in both, in the length
field, and the two lengths at and over the framer's limit, which has its real value
of 8192; a segment that ends elsewhere is like another one.  Two threads give
two frames handled at once, and a third frame comes when one is done.  For
the safety properties of all modules the proofs remove the bounds; that `MaxPackets`
stops nothing is itself proved (`PacketsSuffice`).

Deadlock is checked in all runs but `history`, which stops when its bounds are
reached, and `primary`, which stops when the connection has ended and its tasks are
done.

Fairness (`CommandDelivery`, `FairSpec`): weak fairness of the listener thread
(`ServerNext`) and of each ack thread's current call (`AckStep`).  A JVM thread
that is not blocked runs, and none of these steps waits for a lock; sleeps end.
Nothing is assumed of devices, connections, the web side or the executor tasks
that hand commands to the broker.  `PrimaryServer`'s `FairSpec` is weak fairness of each
pool thread's current task, for the same reason, and again nothing about the device:
`RegistersInTheEnd` does not depend on its sending anything more.

## 4. Proofs

`AckTable_proofs` proves, for any devices, codes, number of ack threads and number
of packets, `TableTypeOK`, `NoEmptySetStays`, `CheckNeverDropsPending` and
`OnlyOwnAcksSettle`.  None of the last three is inductive.  The strengthening
`IInv` adds: no reference is ahead of the packets created; a thread in
`AddToMapSet` is the listener; a set holds packets of one device, and a thread
only holds a set of the device it works for; a set with no packets in it that is
mapped has a thread at `size` or `unmap` that holds it.  The listener's check can
only reach `unmap` with an empty set because nobody else adds.  The action
property follows from the invariant, one case per action: a call that takes a packet
out of reach is a worker's, at `scan`, where it removes the one packet it has found
from a set of its own device, or at `unmap`, where a packet added since `size` leaves
with the set.

`CommandDelivery_proofs` proves `TypeOK`, `InOnePlace`, `SilentDeviceStaysTracked`,
`OkNeedsAck` and that the downlink path implements `CommandQueue`, for any devices,
codes, ack threads, commands, redeliveries and crashes.  The path calls into the ack
table, so that its invariant `DInv` begins with `IInv` of `AckTable_proofs`, whose step
lemmas are used for every step of a call.  `Places` says that each
submitted command is being sent, queued, finished or was refused, in one of these only, `Listening` that the listener is in a call of the table exactly where
`onMessage` makes one, for the head of the queue, and `Silence` that, while a device has not been heard, the packet of the
command in progress is in the set its serial number is mapped to, or on the way there.
`Silence` needs the invariant of the table: the only threads that could unmap that set
hold an ack of the device or find it empty.  `Heard` keeps the values of `heard` honest: where it is
"own", the device has carried out the command in progress.  The lemmas split a step into those outside
the listener, those within a call, those that end a command, and the crash.  For the
refinement the abstract queue is the identifiers of the broker's queue, whose head stays
until the listener is through with it: an end of a command is `Finish`, a send that the
broker takes is `Accept`, and everything else, a redelivery and a crash included, is a
stutter.

Two more theorems are about how far the listener gets.  `ListenerGetsOn` is the safety part of
`EveryQueuedCommandFinishes`: with it, weak fairness of the listener is all that is
missing, since `HeadLeft` is a natural number that nobody raises before the command is
finished.  Its proof takes the steps of `Ending`, of the listener outside a call and
within `AddToMapSet` and `DeleteSetForAck` in turn, with bounds on `CallLeft` and
`DeliveryLeft` in place of their values wherever these do.  `PacketsSuffice` rests on the invariant
`Spent`: the packets created since the last crash are at most those of the deliveries
of the finished commands and of the one in progress.

`DeviceSession_proofs` proves `TypeOK`, `NoCrossWiring`, `OnlineOnlyIfHeard` and
`InStepUnlessDisturbed` for any number of devices, connections and tasks.  `SInv`
is the strengthening: `Wired` (all references to channels are to channels of the
right device), `Heard` (all handlers that may write `online` work for a device that
was heard), and `Undisturbed` (an undisturbed device has one handler at work at
most, and where it stands, `Stage`, says what map and column hold).  The lemmas
classify steps: moves of one handler that affect its own device only, and inert
steps.

`ZoneAlarm_proofs` proves `TypeOK`, `EfIsLastZone`, `ToldMatchesZone` and
`WarningsAlternate` for every number of tasks, every set of fence lists and any number
of failing calls.  Between two tasks these say little of what a task in progress will do
to them, so `ZInv` adds `Framed` (what a task's frame holds, disturbed or not) and
`Settled`: an undisturbed device has one task at most, and its position (`Stage`) says
what `ef`, the zone it is about to write, the last zone and the last warning have to do
with one another; between two tasks it is `Level`.  `ToldAgrees(z)` is what the last
warning has to do with a zone: they agree, or the warning went astray and they are
opposite.  `Positions` and `NoSilentCrossing` are the lemmas about `controlSMS` itself:
whenever a branch for home or school is taken, that fence is in the list, and when all
fences ask for both directions, a change of zone without a warning cannot contradict the
last one.  A warning is about a crossing (`Crosses`) and, seen from the `ef` it was
decided from, says something new unless the last one went astray (`News`,
`CrossingIsNews`); when its own row is not written, the crossing stays ahead of `ef`,
which is what `Stage` says of a task that is about to warn, and this makes the warning
astray.

`FenceRecord_proofs` proves `TypeOK`, `PushedMatchesRow`, `FilterLosesNoCrossing` and
`GpsIsRecorded` for any fences, lists, addresses, tasks and numbers of failures, a list read in part
included.
`FRInv` adds to them: that without overlap one task is at work at most (`Solo`) and what
it has read, compared and decided so far agrees with the rows (`Seen`), that the last push
of a fence agrees with its row but while the next one is on its way (`PushAgrees`), and
that, while nothing excuses it, the row of the first fence goes with the address stored
last, or a task that found a new address is about to record it (`AddressFollowed`).

`LocationHistory_proofs` proves `TypeOK`, `ColumnsInOrder`, `LocationKept`, `TextKept` and
`TrimForgetsTheOld` for any trimming times, any `Keep`, and any bound on clock and
locations.  `HInv` says that the columns are in the order of time and no entry is
younger than the clock, also in the frames of tasks (`Order`), and that without overlap one
task at most has read the row, which is still as it was (`Solo`).  A task whose read or
write fails leaves row and history alone (`FailsHInv`).  The lemmas are about `Trimmed`:
the first young entry exists by the well-founded order of the naturals, the cut is a
suffix, and it leaves no old entry in front.  `TextKept` is not stated with `SelectSeq`,
whose recursive definition no lemma could be proved about; `HoldsAllBut` names the
places among the locations written that the entries come from, and the lemmas about it (`HoldsAppend`, `HoldsCut`, `HoldsLater`,
`HoldsOther`) say that it survives what a step does to the column, to the locations
written, and to the clock.  It needs `TextStarted`: the column is empty only before the first location, so that
the branch for a column that is null is taken once.  For `Pedometer`, which extends the history,
`RecordsAreHistory` shows that the tasks of both kinds together implement the history
alone, which carries these theorems over; `PedTypeOK` and `WeekKept` follow from `WInv`, which
adds that, as long as nothing was `mixed`, one report at most is being handled, and what it
has found is still what the table holds (`AloneWithWeek`).

`FrameStream_proofs` proves `StreamTypeOK`, `CleanFrameAccepted` and
`DamagedFrameIgnored` for any streams, any segmentation and any limits (`StreamAssumption`: CR LFs
do not overlap, none is in the head of a frame, a frame has the minimal length at
least).  `FInv` says where the bytes can be: what is held lies in front of where the framer
stands (`HeldBehind`); as long as no CR was dropped, the framer stands behind a CR LF
or is discarding a piece that is too long (`AtBorder`), something is held only where
the next frame is exposed (`HeldExposes`), and behind a length field that is a CR LF
the head of that frame is held (`HeadHeld`).

`PrimaryServer_proofs` proves that the composition is both of its parts
(`ServerIsBoth`), which carries the theorems about the pipeline over, and `TypeOK`, `OneRowEach`,
`NoOrphanRows` and `CompleteOnceHandled` for any number of tasks and failures.  `RInv`
adds to them that a task that is to add a child row has added the parent (`Parents`), that each
row that is missing is either lost or still to be added by a task (`Covered`), and that without
overlap one task is at work at most and has found the rows as they are (`Alone`).

Assumptions used: `TableAssumption`, `DeliveryAssumption`, `SessionAssumption`,
`FenceAssumption` (of `ZoneAlarm`: the fence lists are sequences of fences; of
`FenceRecord`: the same and the bound on failures), `HistoryAssumption`,
`PedometerAssumption`, `StreamAssumption` and `RegistrationAssumption` only.

Model-checked only: the two liveness properties and the four findings.  Liveness stays with TLC for good: it needs fairness and ENABLED, which the
prover cannot handle.

## 5. What is not modelled, and why

 - Position look-up and the web-side services are pure I/O.  XML configuration, JDBC
   plumbing and entity classes have no behaviour.
 - Frame building (`DownMessageService`, `ByteConverter`) and `Hex` are functions of one
   call without state, which a unit test reaches best.  By reading: the length field
   is padded for lengths below 256 only (`util/ByteConverter.java:110`), and the reply
   to 0002 has the constant length 0x23 (35) whatever address it carries.
 - `ManualLocationService` writes a position into one row of `rtposition`; of two
   writers the last one wins, and nothing is read back.
 - `SendRepeat`, `SendFunction`, `BlockToReceive`, and the update methods PrimaryServer's
   DAO has but never calls: dead code.
 - The five JavaScript files under
   `src/.metadata/.plugins/org.eclipse.wst.jsdt.core/libraries` are stubs an IDE keeps in
   its workspace for code completion: declarations with empty bodies.  Neither server
   loads them.  The program is the Java code under `src/ChildServer` and
   `src/PrimaryServer`, and the map refers to that only.

## 6. Findings

1. `DeleteSetForAck` returns false, and "ack ok" is logged, for a command the
   device has not carried out (`delivery_ack_ok`): packets are matched by device
   and code only, so that a late ack of an earlier command takes the packet of the
   later one.  The comment at `server/NettyServerHandler.java:97` says otherwise.
2. An ack that is handled before `AddToMapSet` is lost, and the command is logged as
   one "whose ack did not come back three times" (`delivery_timeout`,
   `server/ActiveMqReceiver.java:213`).
3. A 9991 of a device the event loop has just mapped takes it out of the map
   (`session_login`, `server/DiscardServerHandler.java:422`), while the comments at
   lines 263 and 413 say that it means the device comes online.
4. With two fences, the second one leaves out a location whose address the first one
   has just found to be new (`fence_duplicate`, `service/SendSmsService.java:109`);
   the log line at 294 says that the address is a repeated one.

## 7. Plan

What is left is the composition of `ZoneAlarm` with the column `online` of
`DeviceSession`: both modules have a device row that is read and written back as a
whole, each for its own columns, so that one full-row write can set back what a task of
the other module wrote (hazard at `dao/JdbcSerialNumberDAOImpl.java:97`).  Each module
has the stale writes of its own column; the composition would have them across columns.

Modules that have theorems use no RECURSIVE operator; parameters are CONSTANTS
with named assumptions.
