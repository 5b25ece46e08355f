---------------------------- MODULE DeviceSession ----------------------------
(***************************************************************************)
(* DiscardServerHandler and OnLineService: which devices are connected.    *)
(*                                                                         *)
(* The server keeps two records of it: the HashMap map, from a serial      *)
(* number to the channel commands are written to, and the column online of *)
(* the device's row in table serialnumber, which the web side reads.  No   *)
(* lock protects either.  They are changed by                              *)
(*   - the event loop of every channel (loop): it maps a device when a     *)
(*     frame of a device that is not in the map arrives, and unmaps it     *)
(*     when the channel idles or closes;                                   *)
(*   - the executor's tasks (task): each frame is also handled on a pool   *)
(*     thread, which is started before the event loop looks at the map.    *)
(*     Frame 7200 (logout) unmaps the device, frame 9991 (login) maps it   *)
(*     or unmaps it, and frames 9991, 4130 and 9955 write the whole row    *)
(*     back as they read it, the column online included.                   *)
(* The map is a plain HashMap: an iteration during which another thread    *)
(* adds or removes an entry may throw ConcurrentModificationException.     *)
(***************************************************************************)
CONSTANTS
  Sn,          (* serial numbers                                           *)
  Channel,     (* connections; a closed one may stand for a new one later  *)
  NoChannel,   (* no entry in the map                                      *)
  Task,        (* tasks that may be in progress at once                    *)
  Kind         (* frames that start a task with an effect, see FrameKind   *)

FrameKind == {"beat", "login", "logout", "row"}

ASSUME SessionAssumption ==
  /\ Sn # {} /\ Channel # {}
  /\ NoChannel \notin Channel
  /\ Channel \cap Task = {}
  /\ Kind \subseteq FrameKind

VARIABLES
  map,         (* serial number -> channel or NoChannel                    *)
  online,      (* column online: TRUE for "1", FALSE for "0"               *)
  conn,        (* state of each channel and the device at its other end    *)
  loop,        (* what the event loop of each channel is doing             *)
  task         (* what each executor task is doing                         *)

(* History, read by properties only. *)
VARIABLES
  spoken,      (* devices that sent a frame since the server started       *)
  disturbed    (* devices that two handlers were at work on at the same    *)
               (* time, whose RemoveChannel was cut short by an exception, *)
               (* or that logged in while in the map                       *)

vars == <<map, online, conn, loop, task, spoken, disturbed>>

ConnState == {"free", "open", "closing", "closed"}
LoopPc == {"idle", "contains", "put", "online", "find", "unmap", "offline"}
TaskPc == {"idle", "readRow", "writeRow", "contains", "put", "online", "unmap", "offline"}

AnySn == CHOOSE s \in Sn : TRUE
AnyChannel == CHOOSE c \in Channel : TRUE

(* why tells the two callers of RemoveChannel apart: userEventTriggered    *)
(* (the idle event) and channelInactive.  valid is the iterator's.         *)
NoLoop == [pc |-> "idle", why |-> "inactive", valid |-> TRUE]
NoTask == [pc |-> "idle", kind |-> "beat", sn |-> AnySn, ch |-> AnyChannel,
           row |-> FALSE, valid |-> TRUE]

Init ==
  /\ map = [s \in Sn |-> NoChannel]
  /\ online = [s \in Sn |-> FALSE]
  /\ conn = [c \in Channel |-> [st |-> "free", sn |-> AnySn]]
  /\ loop = [c \in Channel |-> NoLoop]
  /\ task = [t \in Task |-> NoTask]
  /\ spoken = {} /\ disturbed = {}

Device(c) == conn[c].sn
Mapped(s) == map[s] # NoChannel

(***************************************************************************)
(* Who is at work on a device: an event loop that is about to change the   *)
(* map or the column, a task from its start to its end.                    *)
(***************************************************************************)
LoopWorks(c) == loop[c].pc \notin {"idle", "contains"}
TaskWorks(t) == task[t].pc # "idle"
Busy(s) == {c \in Channel : LoopWorks(c) /\ Device(c) = s}
           \cup {t \in Task : TaskWorks(t) /\ task[t].sn = s}

Overlap(s) == \E a, b \in Busy(s) : a # b

(* Every action ends with this: the history of the disturbed devices. *)
Note(more) == disturbed' = disturbed \cup more \cup {s \in Sn : Overlap(s)'}

(***************************************************************************)
(* Adding a key or removing one (modCount) spoils every iteration over the *)
(* map but the one of the handler that does it, me.                        *)
(***************************************************************************)
SpoilLoops(loops, me) ==
  [c \in Channel |->
     IF c # me /\ loops[c].pc \in {"find", "unmap", "offline"}
     THEN [loops[c] EXCEPT !.valid = FALSE] ELSE loops[c]]

SpoilTasks(tasks, me) ==
  [t \in Task |->
     IF t # me /\ tasks[t].pc = "unmap" THEN [tasks[t] EXCEPT !.valid = FALSE] ELSE tasks[t]]

LoopAt(c, pc) == loop[c].pc = pc
TaskAt(t, pc) == task[t].pc = pc
LoopGo(c, pc) == loop' = [loop EXCEPT ![c].pc = pc, ![c].valid = TRUE]
TaskGo(t, pc) == task' = [task EXCEPT ![t].pc = pc, ![t].valid = TRUE]

-----------------------------------------------------------------------------
(* Connections (external).                                                 *)

Connect(c, s) ==
  /\ conn[c].st = "free"
  /\ conn' = [conn EXCEPT ![c] = [st |-> "open", sn |-> s]]
  /\ UNCHANGED <<map, online, loop, task, spoken, disturbed>>

Disconnect(c) ==
  /\ conn[c].st = "open"
  /\ conn' = [conn EXCEPT ![c].st = "closing"]
  /\ UNCHANGED <<map, online, loop, task, spoken, disturbed>>

(* Nothing refers to a closed channel any more: its name stands for a new one. *)
Recycle(c) ==
  /\ conn[c].st = "closed" /\ LoopAt(c, "idle")
  /\ \A s \in Sn : map[s] # c
  /\ \A t \in Task : TaskWorks(t) => task[t].ch # c
  /\ conn' = [conn EXCEPT ![c] = [st |-> "free", sn |-> AnySn]]
  /\ UNCHANGED <<map, online, loop, task, spoken, disturbed>>

-----------------------------------------------------------------------------
(* channelRead0, the "$$" branch: the task is started, then the event loop *)
(* looks the device up.                                                    *)

FirstPc(kind) ==
  CASE kind = "login"  -> "readRow"
    [] kind = "logout" -> "contains"
    [] kind = "row"    -> "readRow"
    [] kind = "beat"   -> "idle"

Frame(c, kind, t) ==
  /\ conn[c].st = "open" /\ LoopAt(c, "idle") /\ TaskAt(t, "idle")
  /\ LoopGo(c, "contains")
  /\ task' = IF kind = "beat" THEN task
             ELSE [task EXCEPT ![t] = [NoTask EXCEPT !.pc = FirstPc(kind), !.kind = kind,
                                                     !.sn = Device(c), !.ch = c]]
  /\ spoken' = spoken \cup {Device(c)}
  /\ UNCHANGED <<map, online, conn>>
  /\ Note({})

LoopContains(c) ==
  /\ LoopAt(c, "contains")
  /\ LoopGo(c, IF Mapped(Device(c)) THEN "idle" ELSE "put")
  /\ UNCHANGED <<map, online, conn, task, spoken>>
  /\ Note({})

(* Mutant of LoopPut: the channel comes from a field the handlers share. *)
LoopPutShared(c) ==
  /\ LoopAt(c, "put")
  /\ \E d \in Channel : /\ conn[d].st = "open"
                        /\ map' = [map EXCEPT ![Device(c)] = d]
  /\ loop' = [loop EXCEPT ![c].pc = "online"]
  /\ UNCHANGED <<online, conn, task, spoken>>
  /\ Note({})

LoopPut(c) ==
  /\ LoopAt(c, "put")
  /\ map' = [map EXCEPT ![Device(c)] = c]
  /\ LET here == [loop EXCEPT ![c].pc = "online"]
     IN  IF Mapped(Device(c))
         THEN loop' = here /\ UNCHANGED task
         ELSE loop' = SpoilLoops(here, c) /\ task' = SpoilTasks(task, c)
  /\ UNCHANGED <<online, conn, spoken>>
  /\ Note({})

(* OnLineService.getOnLine. *)
LoopOnline(c) ==
  /\ LoopAt(c, "online")
  /\ online' = [online EXCEPT ![Device(c)] = TRUE]
  /\ LoopGo(c, "idle")
  /\ UNCHANGED <<map, conn, task, spoken>>
  /\ Note({})

-----------------------------------------------------------------------------
(* userEventTriggered and channelInactive: RemoveChannel.                  *)

StartRemove(c, why) ==
  /\ LoopAt(c, "idle")
  /\ loop' = [loop EXCEPT ![c] = [pc |-> "find", why |-> why, valid |-> TRUE]]
  /\ UNCHANGED <<map, online, conn, task, spoken>>
  /\ Note({})

IdleEvent(c) == conn[c].st = "open" /\ StartRemove(c, "idleEvent")
Inactive(c)  == conn[c].st = "closing" /\ StartRemove(c, "inactive")

(* The end of the handler: the idle event closes the channel, an inactive  *)
(* channel is gone.                                                        *)
Removed(c) ==
  /\ conn' = [conn EXCEPT ![c].st = IF loop[c].why = "idleEvent" THEN "closing" ELSE "closed"]
  /\ LoopGo(c, "idle")

(* The first loop looks for a key whose value is this channel; a channel   *)
(* carries one device here, so there is one at most.                       *)
LoopFind(c) ==
  /\ LoopAt(c, "find")
  /\ IF map[Device(c)] = c
     THEN LoopGo(c, "unmap") /\ UNCHANGED conn
     ELSE Removed(c)
  /\ UNCHANGED <<map, online, task, spoken>>
  /\ Note({})

(* Mutant of LoopUnmap: the row of the device is not set offline. *)
LoopUnmapOnly(c) ==
  /\ LoopAt(c, "unmap")
  /\ map' = [map EXCEPT ![Device(c)] = NoChannel]
  /\ Removed(c)
  /\ UNCHANGED <<online, task, spoken>>
  /\ Note({})

(* The second loop removes that key, whatever its value is by now. *)
LoopUnmap(c) ==
  /\ LoopAt(c, "unmap")
  /\ IF Mapped(Device(c))
     THEN /\ map' = [map EXCEPT ![Device(c)] = NoChannel]
          /\ loop' = SpoilLoops([loop EXCEPT ![c].pc = "offline"], c)
          /\ task' = SpoilTasks(task, c)
          /\ UNCHANGED conn
     ELSE Removed(c) /\ UNCHANGED <<map, task>>
  /\ UNCHANGED <<online, spoken>>
  /\ Note({})

(* A ConcurrentModificationException leaves the handler for exceptionCaught, *)
(* which prints it: after an idle event the connection stays open.         *)
CutShort(c) ==
  /\ ~loop[c].valid
  /\ conn' = IF loop[c].why = "inactive" THEN [conn EXCEPT ![c].st = "closed"] ELSE conn
  /\ LoopGo(c, "idle")

(* OnLineService.getOffLine, inside the second loop, which may still throw *)
(* when it asks for the next key.                                          *)
LoopOffline(c) ==
  /\ LoopAt(c, "offline")
  /\ online' = [online EXCEPT ![Device(c)] = FALSE]
  /\ Removed(c) \/ CutShort(c)
  /\ UNCHANGED <<map, task, spoken>>
  /\ Note({})

(* Thrown before the key is removed: the entry stays. *)
LoopThrows(c) ==
  /\ loop[c].pc \in {"find", "unmap"} /\ CutShort(c)
  /\ UNCHANGED <<map, online, task, spoken>>
  /\ Note({Device(c)})

-----------------------------------------------------------------------------
(* serviceHandler on a pool thread.                                        *)

EndTask(t) == task' = [task EXCEPT ![t] = NoTask]

(* findBySerialNumber, in SerialNumberService.getDefaultInfo (9991),       *)
(* ListenService.getListen (4130) and LocationService.getLocation (9955).  *)
TaskReadRow(t) ==
  /\ TaskAt(t, "readRow")
  /\ task' = [task EXCEPT ![t].pc = "writeRow", ![t].row = online[task[t].sn]]
  /\ UNCHANGED <<map, online, conn, loop, spoken>>
  /\ Note({})

(* The content cannot be decoded, or is a 9991 of two fields, of which     *)
(* getDefaultInfo takes the third: run() prints the exception.             *)
TaskFails(t) ==
  /\ TaskAt(t, "readRow")
  /\ EndTask(t)
  /\ UNCHANGED <<map, online, conn, loop, spoken>>
  /\ Note({})

(* updateSerialNumber writes every column, online as it was read. *)
TaskWriteRow(t) ==
  /\ TaskAt(t, "writeRow")
  /\ online' = [online EXCEPT ![task[t].sn] = task[t].row]
  /\ IF task[t].kind = "login" THEN TaskGo(t, "contains") ELSE EndTask(t)
  /\ UNCHANGED <<map, conn, loop, spoken>>
  /\ Note({})

(* Mutant of TaskContains: a login puts its channel whatever the map holds. *)
TaskContainsAgain(t) ==
  /\ TaskAt(t, "contains")
  /\ IF task[t].kind = "login" THEN TaskGo(t, "put")
     ELSE IF Mapped(task[t].sn) THEN TaskGo(t, "unmap") ELSE EndTask(t)
  /\ UNCHANGED <<map, online, conn, loop, spoken>>
  /\ Note({})

(* getOnLine (9991) and getOffline (7200) look the device up. *)
TaskContains(t) ==
  /\ TaskAt(t, "contains")
  /\ IF Mapped(task[t].sn) THEN TaskGo(t, "unmap")
     ELSE IF task[t].kind = "login" THEN TaskGo(t, "put") ELSE EndTask(t)
  /\ UNCHANGED <<map, online, conn, loop, spoken>>
  /\ Note({})

(* Mutant of TaskPut: the serial number is put as the value too. *)
TaskPutSerial(t) ==
  /\ TaskAt(t, "put")
  /\ map' = [map EXCEPT ![task[t].sn] = task[t].sn]
  /\ task' = [task EXCEPT ![t].pc = "online"]
  /\ UNCHANGED <<online, conn, loop, spoken>>
  /\ Note({})

TaskPut(t) ==
  /\ TaskAt(t, "put")
  /\ map' = [map EXCEPT ![task[t].sn] = task[t].ch]
  /\ LET here == [task EXCEPT ![t].pc = "online"]
     IN  IF Mapped(task[t].sn)
         THEN task' = here /\ UNCHANGED loop
         ELSE task' = SpoilTasks(here, t) /\ loop' = SpoilLoops(loop, t)
  /\ UNCHANGED <<online, conn, spoken>>
  /\ Note({})

TaskOnline(t) ==
  /\ TaskAt(t, "online")
  /\ online' = [online EXCEPT ![task[t].sn] = TRUE]
  /\ EndTask(t)
  /\ UNCHANGED <<map, conn, loop, spoken>>
  /\ Note({})

(* Both remove the key they find; only getOffline tells the data base. *)
TaskUnmap(t) ==
  /\ TaskAt(t, "unmap")
  /\ LET s == task[t].sn
         login == task[t].kind = "login"
         next == IF Mapped(s) /\ ~login
                 THEN [task EXCEPT ![t].pc = "offline"] ELSE [task EXCEPT ![t] = NoTask]
     IN  /\ map' = [map EXCEPT ![s] = NoChannel]
         /\ IF Mapped(s)
            THEN task' = SpoilTasks(next, t) /\ loop' = SpoilLoops(loop, t)
            ELSE task' = next /\ UNCHANGED loop
         /\ UNCHANGED <<online, conn, spoken>>
         /\ Note(IF login THEN {s} ELSE {})

TaskOffline(t) ==
  /\ TaskAt(t, "offline")
  /\ online' = [online EXCEPT ![task[t].sn] = FALSE]
  /\ EndTask(t)
  /\ UNCHANGED <<map, conn, loop, spoken>>
  /\ Note({})

(* run() prints the exception and the task is over. *)
TaskThrows(t) ==
  /\ TaskAt(t, "unmap") /\ ~task[t].valid
  /\ EndTask(t)
  /\ UNCHANGED <<map, online, conn, loop, spoken>>
  /\ Note({})

-----------------------------------------------------------------------------
(* Mutant of Restart: main does not call setAllOffLine. *)
RestartKeepsRows ==
  /\ map' = [s \in Sn |-> NoChannel]
  /\ conn' = [c \in Channel |-> [st |-> "free", sn |-> AnySn]]
  /\ loop' = [c \in Channel |-> NoLoop]
  /\ task' = [t \in Task |-> NoTask]
  /\ spoken' = {} /\ disturbed' = {}
  /\ UNCHANGED online

(* The process dies; DiscardServer.main sets every row offline before it   *)
(* opens the port.                                                         *)
Restart ==
  /\ map' = [s \in Sn |-> NoChannel]
  /\ online' = [s \in Sn |-> FALSE]
  /\ conn' = [c \in Channel |-> [st |-> "free", sn |-> AnySn]]
  /\ loop' = [c \in Channel |-> NoLoop]
  /\ task' = [t \in Task |-> NoTask]
  /\ spoken' = {} /\ disturbed' = {}

LoopStep(c) ==
  \/ LoopContains(c) \/ LoopPut(c) \/ LoopOnline(c)
  \/ LoopFind(c) \/ LoopUnmap(c) \/ LoopOffline(c) \/ LoopThrows(c)

TaskStep(t) ==
  \/ TaskReadRow(t) \/ TaskFails(t) \/ TaskWriteRow(t) \/ TaskContains(t) \/ TaskPut(t)
  \/ TaskOnline(t) \/ TaskUnmap(t) \/ TaskOffline(t) \/ TaskThrows(t)

Next ==
  \/ \E c \in Channel, s \in Sn : Connect(c, s)
  \/ \E c \in Channel : Disconnect(c) \/ Recycle(c) \/ IdleEvent(c) \/ Inactive(c) \/ LoopStep(c)
  \/ \E c \in Channel, k \in Kind, t \in Task : Frame(c, k, t)
  \/ \E t \in Task : TaskStep(t)
  \/ Restart

Spec == Init /\ [][Next]_vars

-----------------------------------------------------------------------------

(* The variables keep their types.                                         *)
TypeOK ==
  /\ map \in [Sn -> Channel \cup {NoChannel}]
  /\ online \in [Sn -> BOOLEAN]
  /\ conn \in [Channel -> [st : ConnState, sn : Sn]]
  /\ loop \in [Channel -> [pc : LoopPc, why : {"idleEvent", "inactive"}, valid : BOOLEAN]]
  /\ task \in [Task -> [pc : TaskPc, kind : FrameKind, sn : Sn, ch : Channel,
                        row : BOOLEAN, valid : BOOLEAN]]
  /\ spoken \in SUBSET Sn /\ disturbed \in SUBSET Sn

(* A command for a device is never written to the connection of another    *)
(* one, whatever order logins, logouts, reconnects and closes come in.     *)
NoCrossWiring ==
  \A s \in Sn : Mapped(s) => conn[map[s]].st # "free" /\ Device(map[s]) = s

(* No row says online of a device that has not been heard since the server *)
(* started: no task brings back what the column said before the restart.   *)
OnlineOnlyIfHeard == \A s \in Sn : online[s] => s \in spoken

(* As long as no two handlers worked on a device at once, none of them was *)
(* cut short by the change of another device's entry, and the device never *)
(* logged in while in the map, the column and the map agree between        *)
(* handlers, and the map holds no connection that is gone.                 *)
InStepUnlessDisturbed ==
  \A s \in Sn \ disturbed : Busy(s) = {} =>
    /\ online[s] <=> Mapped(s)
    /\ Mapped(s) => conn[map[s]].st # "closed"

(* DiscardServerHandler.java:263 and 413: frame 9991 means that the device *)
(* comes online.  When its handler is through without an exception, with   *)
(* no other handler at work on the device and its connection open, the     *)
(* device is in the map.                                                   *)
LoginLeavesDeviceMapped ==
  [][\A t \in Task :
       /\ task[t].kind = "login" /\ TaskWorks(t) /\ ~TaskWorks(t)'
       /\ ~TaskAt(t, "readRow") /\ Busy(task[t].sn) = {t} /\ conn[task[t].ch].st = "open"
       /\ ~TaskAt(t, "unmap") \/ task[t].valid
       /\ UNCHANGED conn
       => map'[task[t].sn] # NoChannel]_vars

=============================================================================
