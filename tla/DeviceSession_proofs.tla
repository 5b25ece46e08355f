------------------------ MODULE DeviceSession_proofs ------------------------
(***************************************************************************)
(* What TLAPS proves of DeviceSession, for every number of devices,        *)
(* connections and tasks.                                                  *)
(***************************************************************************)
EXTENDS DeviceSession, TLAPS

(***************************************************************************)
(* The inductive invariant, in three parts on top of the types.            *)
(*                                                                         *)
(* Wired: whatever refers to a channel refers to one that carries the      *)
(* device it is about, and an event loop at work has a live connection.    *)
(***************************************************************************)
Wired ==
  /\ NoCrossWiring
  /\ \A c \in Channel : loop[c].pc # "idle" => conn[c].st \in {"open", "closing"}
  /\ \A t \in Task : TaskWorks(t) => /\ conn[task[t].ch].st # "free"
                                     /\ Device(task[t].ch) = task[t].sn

(* Whoever may write online works for a device that was heard. *)
Heard ==
  /\ OnlineOnlyIfHeard
  /\ \A c \in Channel : loop[c].pc \in {"contains", "put", "online"} => Device(c) \in spoken
  /\ \A t \in Task : TaskWorks(t) => task[t].sn \in spoken

(***************************************************************************)
(* A device that is not disturbed has one handler at work at most, and     *)
(* what map and column say of it follows from where that handler stands.   *)
(***************************************************************************)
InStep(s) == (online[s] <=> Mapped(s)) /\ (Mapped(s) => conn[map[s]].st # "closed")

Pc(a) == IF a \in Channel THEN loop[a].pc ELSE task[a].pc
Ch(a) == IF a \in Channel THEN a ELSE task[a].ch

Stage(a, s) ==
  /\ conn[Ch(a)].st # "closed"
  /\ Pc(a) \in {"find", "unmap", "readRow", "writeRow", "contains"} => InStep(s)
  /\ Pc(a) = "unmap" => Mapped(s)
  /\ Pc(a) = "writeRow" => task[a].row = online[s]
  /\ Pc(a) = "put" => ~Mapped(s) /\ ~online[s]
  /\ Pc(a) = "online" => map[s] = Ch(a) /\ ~online[s]
  /\ Pc(a) = "offline" => ~Mapped(s) /\ online[s]

Staged(s) ==
  /\ Busy(s) = {} => InStep(s)
  /\ \A a \in Busy(s) : Stage(a, s)

Undisturbed == \A s \in Sn \ disturbed : ~Overlap(s) /\ Staged(s)

SInv == TypeOK /\ Wired /\ Heard /\ Undisturbed

-----------------------------------------------------------------------------
(* Types.                                                                  *)

LoopType == [pc : LoopPc, why : {"idleEvent", "inactive"}, valid : BOOLEAN]
TaskType == [pc : TaskPc, kind : FrameKind, sn : Sn, ch : Channel, row : BOOLEAN, valid : BOOLEAN]
ConnType == [st : ConnState, sn : Sn]

LEMMA Idle == NoLoop \in LoopType /\ NoTask \in TaskType /\ AnySn \in Sn
<1>1. AnySn \in Sn /\ AnyChannel \in Channel
  BY SessionAssumption DEF AnySn, AnyChannel
<1>2. QED
  BY <1>1 DEF NoLoop, NoTask, LoopType, TaskType, LoopPc, TaskPc, FrameKind

(* Losing an iterator changes nothing else of a frame. *)
LEMMA SpoiledLoops ==
  ASSUME NEW loops \in [Channel -> LoopType], NEW me
  PROVE  /\ SpoilLoops(loops, me) \in [Channel -> LoopType]
         /\ \A c \in Channel : /\ SpoilLoops(loops, me)[c].pc = loops[c].pc
                              /\ SpoilLoops(loops, me)[c].why = loops[c].why
BY DEF SpoilLoops, LoopType

LEMMA SpoiledTasks ==
  ASSUME NEW tasks \in [Task -> TaskType], NEW me
  PROVE  /\ SpoilTasks(tasks, me) \in [Task -> TaskType]
         /\ \A t \in Task : LET u == SpoilTasks(tasks, me)[t]
                           IN  /\ u.pc = tasks[t].pc /\ u.kind = tasks[t].kind
                               /\ u.sn = tasks[t].sn /\ u.ch = tasks[t].ch
                               /\ u.row = tasks[t].row
BY DEF SpoilTasks, TaskType

(***************************************************************************)
(* What a step of one handler, an event loop or a task, leaves alone: the  *)
(* frames of the others at work, but for their iterators.                  *)
(***************************************************************************)
Others(who) ==
  /\ \A c \in Channel \ {who} : LoopWorks(c) \/ LoopWorks(c)' => loop'[c].pc = loop[c].pc
  /\ \A t \in Task \ {who} :
       /\ task'[t].pc = task[t].pc /\ task'[t].kind = task[t].kind /\ task'[t].sn = task[t].sn
       /\ task'[t].ch = task[t].ch /\ task'[t].row = task[t].row

(***************************************************************************)
(* What it leaves alone of the devices it does not work for.               *)
(***************************************************************************)
Elsewhere(s) ==
  /\ \A r \in Sn \ {s} : map'[r] = map[r] /\ online'[r] = online[r]
  /\ \A c \in Channel : conn'[c].sn = conn[c].sn
  /\ \A c \in Channel : conn'[c].st # conn[c].st => Device(c) = s

(***************************************************************************)
(* One step of handler who, which works for device s if it works.          *)
(***************************************************************************)
Move(who, s) ==
  /\ who \in Channel \cup Task /\ s \in Sn
  /\ TypeOK' /\ Others(who) /\ Elsewhere(s)
  /\ disturbed \subseteq disturbed'
  /\ \A r \in Sn : Overlap(r)' => r \in disturbed'
  /\ who \in Channel => Device(who) = s
  /\ who \in Task => /\ TaskWorks(who) => task[who].sn = s
                     /\ TaskWorks(who)' => task'[who].sn = s

(* Who is at work on a device, apart from the handler that moves. *)
LEMMA BusyOthers ==
  ASSUME SInv, NEW who, NEW s, Move(who, s), NEW r \in Sn
  PROVE  /\ \A a \in Channel \cup Task : a # who => (a \in Busy(r) <=> a \in Busy(r)')
         /\ r # s => who \notin Busy(r) /\ who \notin Busy(r)'
         /\ Busy(r) \subseteq Channel \cup Task /\ Busy(r)' \subseteq Channel \cup Task
BY SessionAssumption DEF Move, Busy, Others, Elsewhere, LoopWorks, TaskWorks, Device

(* The channel a handler works with carries the device it works for. *)
LEMMA ChannelOf ==
  ASSUME SInv, NEW r \in Sn, NEW a \in Busy(r)
  PROVE  Ch(a) \in Channel /\ Device(Ch(a)) = r
BY SessionAssumption DEF SInv, TypeOK, Wired, Busy, Ch, TaskWorks

(* Nothing moves for the other devices. *)
LEMMA MoveElsewhere ==
  ASSUME SInv, NEW who, NEW s, Move(who, s), NEW r \in Sn \ disturbed', r # s
  PROVE  ~Overlap(r)' /\ Staged(r)'
<1>1. ~Overlap(r)' /\ Staged(r)
  BY DEF Move, SInv, Undisturbed
<1>2. /\ map'[r] = map[r] /\ online'[r] = online[r]
      /\ \A c \in Channel : Device(c) = r => conn'[c].st = conn[c].st
      /\ Mapped(r) => map[r] \in Channel /\ Device(map[r]) = r
  BY DEF Move, Elsewhere, SInv, TypeOK, Wired, NoCrossWiring, Mapped
<1>3. InStep(r) <=> InStep(r)'
  BY <1>2 DEF InStep, Mapped
<1>4. \A a \in Busy(r)' : a \in Busy(r) /\ a # who
  BY BusyOthers
<1>5. ASSUME NEW a \in Busy(r)' PROVE Stage(a, r)'
  <2>1. a \in Busy(r) /\ a # who /\ a \in Channel \cup Task
    BY <1>4, BusyOthers
  <2>2. Pc(a)' = Pc(a) /\ Ch(a)' = Ch(a) /\ (a \in Task => task'[a].row = task[a].row)
    <3>1. a \in Channel => LoopWorks(a)
      BY <2>1, SessionAssumption DEF Busy
    <3>2. QED
      BY <2>1, <3>1 DEF Move, Others, Pc, Ch
  <2>3. Stage(a, r) /\ Ch(a) \in Channel /\ Device(Ch(a)) = r
    BY <1>1, <2>1, ChannelOf DEF Staged
  <2>4. Pc(a) = "writeRow" => a \in Task
    BY <2>1 DEF SInv, TypeOK, Pc, LoopPc
  <2>5. QED
    BY <1>2, <1>3, <2>2, <2>3, <2>4 DEF Stage, Mapped
<1>6. Busy(r)' = {} => InStep(r)'
  BY <1>1, <1>3, BusyOthers DEF Staged
<1>7. QED
  BY <1>1, <1>5, <1>6 DEF Staged

(***************************************************************************)
(* For its own device, a handler at work before or after its step is the   *)
(* only one, so its own stage decides.                                     *)
(***************************************************************************)
Before(who, s) == IF who \in Busy(s) THEN Stage(who, s) ELSE InStep(s)
After(who, s)  == IF who \in Busy(s) THEN Stage(who, s) ELSE InStep(s)

LEMMA MoveHere ==
  ASSUME SInv, NEW who, NEW s, Move(who, s), s \notin disturbed',
         who \in Busy(s) \/ who \in Busy(s)',
         Before(who, s) => After(who, s)'
  PROVE  ~Overlap(s)' /\ Staged(s)'
<1>1. ~Overlap(s)' /\ ~Overlap(s) /\ Staged(s)
  BY DEF Move, SInv, Undisturbed
<1>2. \A a \in Channel \cup Task : a # who => a \notin Busy(s) /\ a \notin Busy(s)'
  BY <1>1, BusyOthers DEF Overlap, Move
<1>3. Before(who, s)
  <2>1. CASE who \in Busy(s)
    BY <1>1, <2>1 DEF Staged, Before
  <2>2. CASE who \notin Busy(s)
    <3>1. Busy(s) = {}
      BY <1>2, <2>2, BusyOthers DEF Move
    <3>2. QED
      BY <1>1, <2>2, <3>1 DEF Staged, Before
  <2>3. QED
    BY <2>1, <2>2
<1>4. After(who, s)' /\ \A a \in Busy(s)' : a = who
  BY <1>2, <1>3, BusyOthers DEF Move
<1>5. QED
  BY <1>1, <1>4 DEF After, Staged

LEMMA MoveUndisturbed ==
  ASSUME SInv, NEW who, NEW s, Move(who, s),
         s \notin disturbed' => who \in Busy(s) \/ who \in Busy(s)',
         s \notin disturbed' /\ Before(who, s) => After(who, s)'
  PROVE  Undisturbed'
<1> SUFFICES ASSUME NEW r \in Sn \ disturbed' PROVE ~Overlap(r)' /\ Staged(r)'
  BY DEF Undisturbed
<1>1. CASE r = s
  BY <1>1, MoveHere
<1>2. CASE r # s
  BY <1>2, MoveElsewhere
<1>3. QED
  BY <1>1, <1>2

(***************************************************************************)
(* A step that changes neither map nor column, starts and ends no work and *)
(* closes no channel.                                                      *)
(***************************************************************************)
Inert ==
  /\ map' = map /\ online' = online /\ task' = task
  /\ disturbed \subseteq disturbed'
  /\ \A r \in Sn : Overlap(r)' => r \in disturbed'
  /\ \A c \in Channel :
       /\ LoopWorks(c) \/ LoopWorks(c)' => loop'[c] = loop[c] /\ Device(c)' = Device(c)
       /\ conn[c].st # "closed" => conn'[c].st # "closed"

LEMMA InertUndisturbed == ASSUME SInv, Inert PROVE Undisturbed'
<1> SUFFICES ASSUME NEW r \in Sn \ disturbed' PROVE ~Overlap(r)' /\ Staged(r)'
  BY DEF Undisturbed
<1>1. ~Overlap(r)' /\ Staged(r)
  BY DEF Inert, SInv, Undisturbed
<1>2. Busy(r)' = Busy(r)
  BY DEF Inert, Busy, LoopWorks, TaskWorks, Device
<1>3. InStep(r) => InStep(r)'
  BY DEF SInv, TypeOK, Inert, InStep, Mapped
<1>4. ASSUME NEW a \in Busy(r) PROVE Stage(a, r)'
  <2>1. Stage(a, r) /\ Ch(a) \in Channel
    BY <1>1, ChannelOf DEF Staged
  <2>2. Pc(a)' = Pc(a) /\ Ch(a)' = Ch(a)
    <3>1. a \in Channel \cup Task /\ (a \in Channel => LoopWorks(a))
      BY SessionAssumption DEF Busy
    <3>2. QED
      BY <3>1 DEF Pc, Ch, Inert
  <2>3. QED
    BY <1>3, <2>1, <2>2 DEF Stage, Inert, Mapped
<1>5. QED
  BY <1>1, <1>2, <1>3, <1>4 DEF Staged

LEMMA Noted ==
  ASSUME TypeOK, NEW more \in SUBSET Sn, Note(more)
  PROVE  /\ disturbed' \in SUBSET Sn
         /\ disturbed \subseteq disturbed' /\ more \subseteq disturbed'
         /\ \A r \in Sn : Overlap(r)' => r \in disturbed'
BY DEF TypeOK, Note

-----------------------------------------------------------------------------
(* Connections.                                                            *)

LEMMA InitSInv == Init => SInv
<1> SUFFICES ASSUME Init PROVE SInv
  OBVIOUS
<1>1. TypeOK
  BY Idle DEF Init, TypeOK, LoopType, TaskType, ConnState
<1>2. Wired
  BY SessionAssumption DEF Init, Wired, NoCrossWiring, Mapped, NoLoop, NoTask, TaskWorks
<1>3. Heard
  BY DEF Init, Heard, OnlineOnlyIfHeard, NoLoop, NoTask, TaskWorks
<1>4. Undisturbed
  <2>1. \A s \in Sn : Busy(s) = {} /\ InStep(s)
    BY DEF Init, Busy, LoopWorks, TaskWorks, NoLoop, NoTask, InStep, Mapped
  <2>2. QED
    BY <2>1 DEF Undisturbed, Overlap, Staged
<1>5. QED
  BY <1>1, <1>2, <1>3, <1>4 DEF SInv

LEMMA ConnectInv ==
  ASSUME SInv, NEW c \in Channel, NEW s \in Sn, Connect(c, s)
  PROVE  SInv'
<1> USE DEF Connect
<1>1. TypeOK'
  BY DEF SInv, TypeOK, ConnState
<1>2. conn[c].st = "free" /\ loop[c].pc = "idle" /\ \A r \in Sn : Mapped(r) => map[r] # c
  BY DEF SInv, Wired, NoCrossWiring
<1>3. \A t \in Task : TaskWorks(t) => task[t].ch # c
  BY <1>2 DEF SInv, Wired
<1>4. \A d \in Channel : d # c => conn'[d] = conn[d]
  BY DEF SInv, TypeOK
<1>5. Wired'
  BY <1>2, <1>3, <1>4 DEF SInv, TypeOK, Wired, NoCrossWiring, Mapped, TaskWorks, Device
<1>6. Heard'
  BY <1>2, <1>4 DEF SInv, TypeOK, Heard, OnlineOnlyIfHeard, TaskWorks, Device
<1>7. Inert
  <2>1. \A d \in Channel : LoopWorks(d)' => LoopWorks(d)
    BY DEF LoopWorks
  <2>2. \A d \in Channel : LoopWorks(d) => d # c
    BY <1>2 DEF LoopWorks
  <2>3. conn'[c].st = "open"
    BY DEF SInv, TypeOK
  <2>4. \A r \in Sn : Overlap(r)' => Overlap(r)
    BY <1>4, <2>1, <2>2 DEF Overlap, Busy, TaskWorks, Device
  <2>5. QED
    BY <1>4, <2>1, <2>2, <2>3, <2>4 DEF Inert, Device, SInv, Undisturbed
<1>8. QED
  BY <1>1, <1>5, <1>6, <1>7, InertUndisturbed DEF SInv

LEMMA DisconnectInv == ASSUME SInv, NEW c \in Channel, Disconnect(c) PROVE SInv'
<1> USE DEF Disconnect
<1>1. TypeOK'
  BY DEF SInv, TypeOK, ConnState
<1>2. /\ \A d \in Channel : conn'[d].sn = conn[d].sn
      /\ \A d \in Channel : conn'[d].st = IF d = c THEN "closing" ELSE conn[d].st
  BY DEF SInv, TypeOK
<1>3. Wired'
  BY <1>2 DEF SInv, TypeOK, Wired, NoCrossWiring, Mapped, TaskWorks, Device
<1>4. Heard'
  BY <1>2 DEF SInv, TypeOK, Heard, OnlineOnlyIfHeard, TaskWorks, Device
<1>5. Inert
  <2>1. \A r \in Sn : Overlap(r)' => Overlap(r)
    BY <1>2 DEF Overlap, Busy, LoopWorks, TaskWorks, Device
  <2>2. QED
    BY <1>2, <2>1 DEF Inert, Device, LoopWorks, SInv, Undisturbed
<1>6. QED
  BY <1>1, <1>3, <1>4, <1>5, InertUndisturbed DEF SInv

LEMMA RecycleInv == ASSUME SInv, NEW c \in Channel, Recycle(c) PROVE SInv'
<1> USE DEF Recycle, LoopAt
<1>1. TypeOK'
  BY Idle DEF SInv, TypeOK, ConnState
<1>2. conn'[c].st = "free" /\ \A d \in Channel : d # c => conn'[d] = conn[d]
  BY DEF SInv, TypeOK
<1>3. Wired'
  BY <1>2 DEF SInv, TypeOK, Wired, NoCrossWiring, Mapped, TaskWorks, Device
<1>4. Heard'
  BY <1>2 DEF SInv, TypeOK, Heard, OnlineOnlyIfHeard, TaskWorks, Device
<1>5. Inert
  <2>1. \A d \in Channel : LoopWorks(d)' => LoopWorks(d) /\ d # c
    BY DEF LoopWorks
  <2>2. \A r \in Sn : Overlap(r)' => Overlap(r)
    BY <1>2, <2>1 DEF Overlap, Busy, TaskWorks, Device
  <2>3. QED
    BY <1>2, <2>1, <2>2 DEF Inert, Device, LoopWorks, SInv, Undisturbed
<1>6. QED
  BY <1>1, <1>3, <1>4, <1>5, InertUndisturbed DEF SInv

-----------------------------------------------------------------------------
(* Event loops.                                                            *)

(***************************************************************************)
(* What every step of the event loop of channel c, which carries device s, *)
(* has in common.                                                          *)
(***************************************************************************)
LoopMove(c, s) ==
  /\ c \in Channel /\ s \in Sn /\ Device(c) = s
  /\ spoken' = spoken /\ \E more \in SUBSET Sn : Note(more)
  /\ map' \in [Sn -> Channel \cup {NoChannel}] /\ online' \in [Sn -> BOOLEAN]
  /\ conn' \in [Channel -> ConnType] /\ loop' \in [Channel -> LoopType]
  /\ task' \in [Task -> TaskType]
  /\ \A d \in Channel \ {c} : loop'[d].pc = loop[d].pc /\ conn'[d] = conn[d]
  /\ \A t \in Task :
       /\ task'[t].pc = task[t].pc /\ task'[t].kind = task[t].kind /\ task'[t].sn = task[t].sn
       /\ task'[t].ch = task[t].ch /\ task'[t].row = task[t].row
  /\ \A r \in Sn \ {s} : map'[r] = map[r] /\ online'[r] = online[r]
  /\ map'[s] \in {map[s], c, NoChannel}
  /\ conn'[c].sn = s /\ conn'[c].st # "free"
  /\ loop'[c].pc # "idle" => conn'[c].st \in {"open", "closing"}
  /\ loop'[c].pc \in {"contains", "put", "online"} => loop[c].pc \in {"contains", "put"}
  /\ online'[s] => online[s] \/ loop[c].pc = "online"

LEMMA LoopMoves ==
  ASSUME SInv, NEW c, NEW s, LoopMove(c, s)
  PROVE  TypeOK' /\ Wired' /\ Heard' /\ Move(c, s)
<1> USE DEF LoopMove
<1>1. /\ disturbed' \in SUBSET Sn /\ disturbed \subseteq disturbed'
      /\ \A r \in Sn : Overlap(r)' => r \in disturbed'
  BY Noted DEF SInv
<1>2. TypeOK'
  BY <1>1 DEF SInv, TypeOK, ConnType, LoopType, TaskType
<1>3. \A d \in Channel : conn'[d].sn = conn[d].sn /\ (conn'[d].st = "free" => conn[d].st = "free")
  BY DEF Device
<1>4. Wired'
  <2>1. NoCrossWiring'
    BY <1>3, SessionAssumption DEF SInv, TypeOK, Wired, NoCrossWiring, Mapped, Device
  <2>2. \A d \in Channel : loop'[d].pc # "idle" => conn'[d].st \in {"open", "closing"}
    BY DEF SInv, Wired
  <2>3. \A t \in Task : TaskWorks(t)' => /\ conn'[task'[t].ch].st # "free"
                                         /\ conn'[task'[t].ch].sn = task'[t].sn
    BY <1>3 DEF SInv, TypeOK, Wired, TaskWorks, Device
  <2>4. QED
    BY <2>1, <2>2, <2>3 DEF Wired, Device
<1>5. Heard'
  BY <1>3 DEF SInv, TypeOK, Heard, OnlineOnlyIfHeard, TaskWorks, Device
<1>6. Others(c) /\ Elsewhere(s)
  BY <1>3 DEF Others, Elsewhere, Device
<1>7. QED
  BY <1>1, <1>2, <1>4, <1>5, <1>6, SessionAssumption DEF Move, Device

(* So what is left is the device itself. *)
LEMMA LoopMoveInv ==
  ASSUME SInv, NEW c, NEW s, LoopMove(c, s),
         s \notin disturbed' => LoopWorks(c) \/ LoopWorks(c)',
         s \notin disturbed' /\ Before(c, s) => After(c, s)'
  PROVE  SInv'
<1>1. LoopWorks(c) => c \in Busy(s)
  BY DEF LoopMove, Busy
<1>2. LoopWorks(c)' => c \in Busy(s)'
  BY DEF LoopMove, Busy, Device
<1>3. QED
  BY <1>1, <1>2, LoopMoves, MoveUndisturbed DEF SInv

(* Where an event loop at work stands. *)
LoopStage(c, s) ==
  IF ~LoopWorks(c) THEN InStep(s)
  ELSE /\ conn[c].st # "closed"
       /\ loop[c].pc \in {"find", "unmap"} => InStep(s)
       /\ loop[c].pc = "unmap" => Mapped(s)
       /\ loop[c].pc = "put" => ~Mapped(s) /\ ~online[s]
       /\ loop[c].pc = "online" => map[s] = c /\ ~online[s]
       /\ loop[c].pc = "offline" => ~Mapped(s) /\ online[s]

LEMMA LoopStages ==
  ASSUME NEW c \in Channel, NEW s, Device(c) = s, loop[c].pc \in LoopPc
  PROVE  (Before(c, s) <=> LoopStage(c, s)) /\ (After(c, s) <=> LoopStage(c, s))
<1>1. c \in Busy(s) <=> LoopWorks(c)
  BY SessionAssumption DEF Busy
<1>2. Pc(c) = loop[c].pc /\ Ch(c) = c
  BY DEF Pc, Ch
<1>3. LoopWorks(c) => (Stage(c, s) <=> LoopStage(c, s))
  BY <1>2 DEF Stage, LoopStage, LoopWorks, LoopPc
<1>4. QED
  BY <1>1, <1>3 DEF Before, After, LoopStage

LEMMA LoopStagesAfter ==
  ASSUME NEW c \in Channel, NEW s, Device(c)' = s, loop'[c].pc \in LoopPc, LoopStage(c, s)'
  PROVE  After(c, s)'
<1>1. (c \in Busy(s) <=> LoopWorks(c))'
  BY SessionAssumption DEF Busy
<1>2. Pc(c)' = loop'[c].pc /\ Ch(c)' = c
  BY DEF Pc, Ch
<1>3. LoopWorks(c)' => Stage(c, s)'
  BY <1>2 DEF Stage, LoopStage, LoopWorks, LoopPc
<1>4. QED
  BY <1>1, <1>3 DEF After, LoopStage

LEMMA Typed ==
  ASSUME SInv
  PROVE  /\ map \in [Sn -> Channel \cup {NoChannel}] /\ online \in [Sn -> BOOLEAN]
         /\ conn \in [Channel -> ConnType] /\ loop \in [Channel -> LoopType]
         /\ task \in [Task -> TaskType]
         /\ spoken \in SUBSET Sn
         /\ \A c \in Channel : loop[c].pc \in LoopPc
BY DEF SInv, TypeOK, ConnType, LoopType, TaskType

(* Going on to the next statement, and to the end of RemoveChannel. *)
LEMMA LoopGoes ==
  ASSUME SInv, NEW c \in Channel, NEW pc \in LoopPc, LoopGo(c, pc)
  PROVE  /\ loop' \in [Channel -> LoopType]
         /\ loop'[c].pc = pc /\ loop'[c].why = loop[c].why
         /\ \A d \in Channel \ {c} : loop'[d] = loop[d]
<1>1. loop \in [Channel -> LoopType]
  BY Typed
<1>2. QED
  BY <1>1 DEF LoopGo, LoopType

LEMMA RemovedIs ==
  ASSUME SInv, NEW c \in Channel, Removed(c) \/ CutShort(c), loop[c].pc # "idle"
  PROVE  /\ loop' \in [Channel -> LoopType] /\ conn' \in [Channel -> ConnType]
         /\ loop'[c].pc = "idle" /\ \A d \in Channel \ {c} : loop'[d] = loop[d]
         /\ conn'[c].sn = conn[c].sn /\ conn'[c].st # "free"
         /\ \A d \in Channel \ {c} : conn'[d] = conn[d]
<1>1. LoopGo(c, "idle") /\ "idle" \in LoopPc
  BY DEF Removed, CutShort, LoopPc
<1>2. \/ conn' = conn
      \/ \E st \in {"closing", "closed"} : conn' = [conn EXCEPT ![c].st = st]
  BY DEF Removed, CutShort
<1>3. conn \in [Channel -> ConnType] /\ conn[c].st # "free"
  BY Typed DEF SInv, Wired
<1>4. QED
  BY <1>1, <1>2, <1>3, LoopGoes DEF ConnType, ConnState

(* The shape every lemma about a step of an event loop takes. *)
LEMMA LoopInv ==
  ASSUME SInv, NEW c, NEW s, LoopMove(c, s),
         s \notin disturbed' => LoopWorks(c) \/ LoopWorks(c)',
         s \notin disturbed' /\ LoopStage(c, s) => LoopStage(c, s)'
  PROVE  SInv'
<1>1. c \in Channel /\ Device(c) = s /\ Device(c)' = s
  BY DEF LoopMove, Device
<1>2. loop[c].pc \in LoopPc /\ loop'[c].pc \in LoopPc
  BY Typed DEF LoopMove, LoopType
<1>3. QED
  BY <1>1, <1>2, LoopMoveInv, LoopStages, LoopStagesAfter

LEMMA LoopPutInv ==
  ASSUME SInv, NEW c \in Channel, NEW s \in Sn, Device(c) = s, LoopPut(c)
  PROVE  SInv'
<1>1. /\ loop' \in [Channel -> LoopType] /\ task' \in [Task -> TaskType]
      /\ loop'[c].pc = "online"
      /\ \A d \in Channel \ {c} : loop'[d].pc = loop[d].pc
      /\ \A t \in Task :
           /\ task'[t].pc = task[t].pc /\ task'[t].kind = task[t].kind
           /\ task'[t].sn = task[t].sn /\ task'[t].ch = task[t].ch
           /\ task'[t].row = task[t].row
  <2> DEFINE here == [loop EXCEPT ![c].pc = "online"]
  <2>1. /\ here \in [Channel -> LoopType] /\ here[c].pc = "online"
        /\ \A d \in Channel \ {c} : here[d].pc = loop[d].pc
    <3>1. "online" \in LoopPc /\ loop \in [Channel -> LoopType]
      BY Typed DEF LoopPc
    <3>2. QED
      BY <3>1 DEF LoopType
  <2>2. \/ loop' = here /\ task' = task
        \/ loop' = SpoilLoops(here, c) /\ task' = SpoilTasks(task, c)
    BY DEF LoopPut
  <2> HIDE DEF here
  <2>3. QED
    BY <2>1, <2>2, Typed, SpoiledLoops, SpoiledTasks
<1>2. /\ map' = [map EXCEPT ![s] = c] /\ UNCHANGED <<online, conn, spoken>> /\ Note({})
      /\ loop[c].pc = "put"
  BY DEF LoopPut, LoopAt
<1>3. conn[c].st \in {"open", "closing"}
  BY <1>2 DEF SInv, Wired
<1>4. LoopMove(c, s)
  BY <1>1, <1>2, <1>3, Typed DEF LoopMove, ConnType, Device
<1>5. LoopStage(c, s) => LoopStage(c, s)'
  BY <1>1, <1>2, <1>3, Typed DEF LoopStage, LoopWorks, Mapped
<1>6. LoopWorks(c)
  BY <1>2 DEF LoopWorks
<1>7. QED
  BY <1>4, <1>5, <1>6, LoopInv

LEMMA LoopContainsInv ==
  ASSUME SInv, NEW c \in Channel, NEW s \in Sn, Device(c) = s, LoopContains(c)
  PROVE  SInv'
<1>1. /\ loop[c].pc = "contains" /\ UNCHANGED <<map, online, conn, task, spoken>> /\ Note({})
      /\ LoopGo(c, IF Mapped(s) THEN "idle" ELSE "put")
  BY DEF LoopContains, LoopAt
<1>2. /\ loop' \in [Channel -> LoopType]
      /\ loop'[c].pc = IF Mapped(s) THEN "idle" ELSE "put"
      /\ \A d \in Channel \ {c} : loop'[d] = loop[d]
  <2>1. "idle" \in LoopPc /\ "put" \in LoopPc
    BY DEF LoopPc
  <2>2. QED
    BY <1>1, <2>1, LoopGoes
<1>3. conn[c].st \in {"open", "closing"}
  BY <1>1 DEF SInv, Wired
<1>4. LoopMove(c, s)
  BY <1>1, <1>2, <1>3, Typed DEF LoopMove, Device
<1>5. CASE Mapped(s)
  <2>1. /\ disturbed \subseteq disturbed'
        /\ \A r \in Sn : Overlap(r)' => r \in disturbed'
    BY <1>1, Noted DEF SInv
  <2>2. Inert
    BY <1>1, <1>2, <1>5, <2>1 DEF Inert, LoopWorks, Device
  <2>3. QED
    BY <1>4, <2>2, LoopMoves, InertUndisturbed DEF SInv
<1>6. CASE ~Mapped(s)
  <2>1. LoopStage(c, s) => LoopStage(c, s)'
    BY <1>1, <1>2, <1>3, <1>6, Typed DEF LoopStage, LoopWorks, Mapped, InStep
  <2>2. LoopWorks(c)'
    BY <1>2, <1>6 DEF LoopWorks
  <2>3. QED
    BY <1>4, <2>1, <2>2, LoopInv
<1>7. QED
  BY <1>5, <1>6

LEMMA LoopOnlineInv ==
  ASSUME SInv, NEW c \in Channel, NEW s \in Sn, Device(c) = s, LoopOnline(c)
  PROVE  SInv'
<1>1. /\ loop[c].pc = "online" /\ UNCHANGED <<map, conn, task, spoken>> /\ Note({})
      /\ online' = [online EXCEPT ![s] = TRUE] /\ LoopGo(c, "idle") /\ "idle" \in LoopPc
  BY DEF LoopOnline, LoopAt, LoopPc
<1>2. /\ loop' \in [Channel -> LoopType] /\ loop'[c].pc = "idle"
      /\ \A d \in Channel \ {c} : loop'[d] = loop[d]
  BY <1>1, LoopGoes
<1>3. conn[c].st \in {"open", "closing"}
  BY <1>1 DEF SInv, Wired
<1>4. LoopMove(c, s)
  BY <1>1, <1>2, <1>3, Typed DEF LoopMove, Device
<1>5. LoopStage(c, s) => LoopStage(c, s)'
  BY <1>1, <1>2, <1>3, Typed, SessionAssumption DEF LoopStage, LoopWorks, Mapped, InStep
<1>6. QED
  BY <1>1, <1>4, <1>5, LoopInv DEF LoopWorks

LEMMA StartRemoveInv ==
  ASSUME SInv, NEW c \in Channel, NEW s \in Sn, Device(c) = s, IdleEvent(c) \/ Inactive(c)
  PROVE  SInv'
<1>1. /\ loop[c].pc = "idle" /\ UNCHANGED <<map, online, conn, task, spoken>> /\ Note({})
      /\ \E why \in {"idleEvent", "inactive"} :
           loop' = [loop EXCEPT ![c] = [pc |-> "find", why |-> why, valid |-> TRUE]]
      /\ conn[c].st \in {"open", "closing"}
  BY DEF IdleEvent, Inactive, StartRemove, LoopAt
<1>2. /\ loop' \in [Channel -> LoopType] /\ loop'[c].pc = "find"
      /\ \A d \in Channel \ {c} : loop'[d] = loop[d]
  BY <1>1, Typed DEF LoopType, LoopPc
<1>3. LoopMove(c, s)
  BY <1>1, <1>2, Typed DEF LoopMove, Device
<1>4. LoopStage(c, s) => LoopStage(c, s)'
  BY <1>1, <1>2 DEF LoopStage, LoopWorks, Mapped, InStep
<1>5. QED
  BY <1>2, <1>3, <1>4, LoopInv DEF LoopWorks

LEMMA LoopFindInv ==
  ASSUME SInv, NEW c \in Channel, NEW s \in Sn, Device(c) = s, LoopFind(c)
  PROVE  SInv'
<1>1. loop[c].pc = "find" /\ UNCHANGED <<map, online, task, spoken>> /\ Note({})
  BY DEF LoopFind, LoopAt
<1>2. conn[c].st \in {"open", "closing"} /\ LoopWorks(c)
  BY <1>1 DEF SInv, Wired, LoopWorks
<1>3. CASE map[s] = c
  <2>1. LoopGo(c, "unmap") /\ "unmap" \in LoopPc /\ conn' = conn
    BY <1>3 DEF LoopFind, LoopPc
  <2>2. /\ loop' \in [Channel -> LoopType] /\ loop'[c].pc = "unmap"
        /\ \A d \in Channel \ {c} : loop'[d] = loop[d]
    BY <2>1, LoopGoes
  <2>3. LoopMove(c, s)
    BY <1>1, <1>2, <2>1, <2>2, Typed DEF LoopMove, Device
  <2>4. LoopStage(c, s) => LoopStage(c, s)'
    BY <1>1, <1>2, <1>3, <2>1, <2>2, SessionAssumption
       DEF LoopStage, LoopWorks, Mapped, InStep
  <2>5. QED
    BY <1>2, <2>3, <2>4, LoopInv
<1>4. CASE map[s] # c
  <2>1. Removed(c)
    BY <1>4 DEF LoopFind
  <2>2. LoopMove(c, s)
    BY <1>1, <1>2, <2>1, RemovedIs, Typed DEF LoopMove, Device
  <2>3. InStep(s) => InStep(s)'
    BY <1>1, <1>4, <2>1, RemovedIs, Typed DEF InStep, Mapped
  <2>4. LoopStage(c, s) => LoopStage(c, s)'
    BY <1>1, <1>2, <2>1, <2>3, RemovedIs DEF LoopStage, LoopWorks
  <2>5. QED
    BY <1>2, <2>2, <2>4, LoopInv
<1>5. QED
  BY <1>3, <1>4

LEMMA LoopUnmapInv ==
  ASSUME SInv, NEW c \in Channel, NEW s \in Sn, Device(c) = s, LoopUnmap(c)
  PROVE  SInv'
<1>1. loop[c].pc = "unmap" /\ UNCHANGED <<online, spoken>> /\ Note({})
  BY DEF LoopUnmap, LoopAt
<1>2. conn[c].st \in {"open", "closing"} /\ LoopWorks(c)
  BY <1>1 DEF SInv, Wired, LoopWorks
<1>3. CASE Mapped(s)
  <2> DEFINE here == [loop EXCEPT ![c].pc = "offline"]
  <2>1. /\ map' = [map EXCEPT ![s] = NoChannel] /\ conn' = conn
        /\ loop' = SpoilLoops(here, c) /\ task' = SpoilTasks(task, c)
    BY <1>3 DEF LoopUnmap
  <2>2. /\ here \in [Channel -> LoopType] /\ here[c].pc = "offline"
        /\ \A d \in Channel \ {c} : here[d].pc = loop[d].pc
    <3>1. "offline" \in LoopPc /\ loop \in [Channel -> LoopType]
      BY Typed DEF LoopPc
    <3>2. QED
      BY <3>1 DEF LoopType
  <2> HIDE DEF here
  <2>3. /\ loop' \in [Channel -> LoopType] /\ task' \in [Task -> TaskType]
        /\ loop'[c].pc = "offline"
        /\ \A d \in Channel \ {c} : loop'[d].pc = loop[d].pc
        /\ \A t \in Task :
             /\ task'[t].pc = task[t].pc /\ task'[t].kind = task[t].kind
             /\ task'[t].sn = task[t].sn /\ task'[t].ch = task[t].ch
             /\ task'[t].row = task[t].row
    BY <2>1, <2>2, Typed, SpoiledLoops, SpoiledTasks
  <2>4. LoopMove(c, s)
    BY <1>1, <1>2, <2>1, <2>3, Typed DEF LoopMove, Device
  <2>5. LoopStage(c, s) => LoopStage(c, s)'
    BY <1>1, <1>2, <1>3, <2>1, <2>3, Typed DEF LoopStage, LoopWorks, Mapped, InStep
  <2>6. QED
    BY <1>2, <2>4, <2>5, LoopInv
<1>4. CASE ~Mapped(s)
  <2>1. Removed(c) /\ UNCHANGED <<map, task>>
    BY <1>4 DEF LoopUnmap
  <2>2. LoopMove(c, s)
    BY <1>1, <1>2, <2>1, RemovedIs, Typed DEF LoopMove, Device
  <2>3. ~LoopStage(c, s)
    BY <1>1, <1>2, <1>4 DEF LoopStage
  <2>4. QED
    BY <1>2, <2>2, <2>3, LoopInv
<1>5. QED
  BY <1>3, <1>4

LEMMA LoopOfflineInv ==
  ASSUME SInv, NEW c \in Channel, NEW s \in Sn, Device(c) = s, LoopOffline(c)
  PROVE  SInv'
<1>1. /\ loop[c].pc = "offline" /\ UNCHANGED <<map, task, spoken>> /\ Note({})
      /\ online' = [online EXCEPT ![s] = FALSE] /\ (Removed(c) \/ CutShort(c))
  BY DEF LoopOffline, LoopAt
<1>2. LoopWorks(c)
  BY <1>1 DEF LoopWorks
<1>3. LoopMove(c, s)
  BY <1>1, RemovedIs, Typed DEF LoopMove, Device
<1>4. LoopStage(c, s) => LoopStage(c, s)'
  BY <1>1, <1>2, RemovedIs, Typed DEF LoopStage, LoopWorks, Mapped, InStep
<1>5. QED
  BY <1>2, <1>3, <1>4, LoopInv

(* The device whose handler is cut short counts as disturbed. *)
LEMMA LoopThrowsInv ==
  ASSUME SInv, NEW c \in Channel, NEW s \in Sn, Device(c) = s, LoopThrows(c)
  PROVE  SInv'
<1>1. /\ loop[c].pc \in {"find", "unmap"} /\ UNCHANGED <<map, online, task, spoken>>
      /\ Note({s}) /\ CutShort(c)
  BY DEF LoopThrows
<1>2. s \in disturbed'
  BY <1>1, Noted DEF SInv
<1>3. LoopMove(c, s)
  BY <1>1, RemovedIs, Typed DEF LoopMove, Device
<1>4. QED
  BY <1>2, <1>3, LoopInv

-----------------------------------------------------------------------------
(* Tasks of the executor.                                                  *)

(* What every step of task t, at work for device s, has in common.         *)
TaskMove(t, s) ==
  /\ t \in Task /\ s \in Sn /\ TaskWorks(t) /\ task[t].sn = s
  /\ UNCHANGED <<conn, spoken>> /\ \E more \in SUBSET Sn : Note(more)
  /\ map' \in [Sn -> Channel \cup {NoChannel}] /\ online' \in [Sn -> BOOLEAN]
  /\ loop' \in [Channel -> LoopType] /\ task' \in [Task -> TaskType]
  /\ \A c \in Channel : loop'[c].pc = loop[c].pc
  /\ \A u \in Task \ {t} :
       /\ task'[u].pc = task[u].pc /\ task'[u].kind = task[u].kind /\ task'[u].sn = task[u].sn
       /\ task'[u].ch = task[u].ch /\ task'[u].row = task[u].row
  /\ task'[t].pc # "idle" => task'[t].sn = s /\ task'[t].ch = task[t].ch
  /\ \A r \in Sn \ {s} : map'[r] = map[r] /\ online'[r] = online[r]
  /\ map'[s] \in {map[s], task[t].ch, NoChannel}

LEMMA TaskMoves ==
  ASSUME SInv, NEW t, NEW s, TaskMove(t, s)
  PROVE  TypeOK' /\ Wired' /\ Heard' /\ Move(t, s)
<1> USE DEF TaskMove
<1>1. /\ disturbed' \in SUBSET Sn /\ disturbed \subseteq disturbed'
      /\ \A r \in Sn : Overlap(r)' => r \in disturbed'
  BY Noted DEF SInv
<1>2. TypeOK'
  BY <1>1, Typed DEF SInv, TypeOK, ConnType, LoopType, TaskType
<1>3. task[t].ch \in Channel /\ Device(task[t].ch) = s /\ conn[task[t].ch].st # "free"
  BY DEF SInv, TypeOK, Wired
<1>4. Wired'
  <2>1. NoCrossWiring'
    BY <1>3, SessionAssumption DEF SInv, TypeOK, Wired, NoCrossWiring, Mapped, Device
  <2>2. \A u \in Task : TaskWorks(u)' => /\ conn'[task'[u].ch].st # "free"
                                         /\ conn'[task'[u].ch].sn = task'[u].sn
    BY <1>3 DEF SInv, Wired, TaskWorks, Device
  <2>3. QED
    BY <2>1, <2>2 DEF SInv, Wired, Device
<1>5. Heard'
  BY DEF SInv, TypeOK, Heard, OnlineOnlyIfHeard, TaskWorks, Device
<1>6. Others(t) /\ Elsewhere(s)
  BY DEF Others, Elsewhere, Device
<1>7. QED
  BY <1>1, <1>2, <1>4, <1>5, <1>6, SessionAssumption DEF Move, TaskWorks

(* Where a task at work stands. *)
TaskStage(t, s) ==
  IF ~TaskWorks(t) THEN InStep(s)
  ELSE /\ conn[task[t].ch].st # "closed"
       /\ task[t].pc \in {"readRow", "writeRow", "contains", "unmap"} => InStep(s)
       /\ task[t].pc = "unmap" => Mapped(s)
       /\ task[t].pc = "writeRow" => task[t].row = online[s]
       /\ task[t].pc = "put" => ~Mapped(s) /\ ~online[s]
       /\ task[t].pc = "online" => map[s] = task[t].ch /\ ~online[s]
       /\ task[t].pc = "offline" => ~Mapped(s) /\ online[s]

LEMMA TaskStages ==
  ASSUME NEW t \in Task, NEW s, TaskWorks(t) => task[t].sn = s, task[t].pc \in TaskPc
  PROVE  (Before(t, s) <=> TaskStage(t, s)) /\ (After(t, s) <=> TaskStage(t, s))
<1>1. t \in Busy(s) <=> TaskWorks(t)
  BY SessionAssumption DEF Busy
<1>2. Pc(t) = task[t].pc /\ Ch(t) = task[t].ch
  BY SessionAssumption DEF Pc, Ch
<1>3. TaskWorks(t) => (Stage(t, s) <=> TaskStage(t, s))
  BY <1>2 DEF Stage, TaskStage, TaskWorks, TaskPc
<1>4. QED
  BY <1>1, <1>3 DEF Before, After, TaskStage

LEMMA TaskStagesAfter ==
  ASSUME NEW t \in Task, NEW s, TaskWorks(t)' => task'[t].sn = s, task'[t].pc \in TaskPc,
         TaskStage(t, s)'
  PROVE  After(t, s)'
<1>1. (t \in Busy(s) <=> TaskWorks(t))'
  BY SessionAssumption DEF Busy
<1>2. Pc(t)' = task'[t].pc /\ Ch(t)' = task'[t].ch
  BY SessionAssumption DEF Pc, Ch
<1>3. TaskWorks(t)' => Stage(t, s)'
  BY <1>2 DEF Stage, TaskStage, TaskWorks, TaskPc
<1>4. QED
  BY <1>1, <1>3 DEF After, TaskStage

(* The shape every lemma about a step of a task takes. *)
LEMMA TaskInv ==
  ASSUME SInv, NEW t, NEW s, TaskMove(t, s),
         s \notin disturbed' /\ TaskStage(t, s) => TaskStage(t, s)'
  PROVE  SInv'
<1>1. t \in Task /\ TaskWorks(t) /\ task[t].sn = s /\ (TaskWorks(t)' => task'[t].sn = s)
  BY DEF TaskMove, TaskWorks
<1>2. task[t].pc \in TaskPc /\ task'[t].pc \in TaskPc
  BY <1>1, Typed DEF TaskMove, TaskType
<1>3. t \in Busy(s)
  BY <1>1 DEF Busy
<1>4. s \notin disturbed' /\ Before(t, s) => After(t, s)'
  BY <1>1, <1>2, TaskStages, TaskStagesAfter
<1>5. QED
  BY <1>3, <1>4, TaskMoves, MoveUndisturbed DEF SInv

LEMMA TaskGoes ==
  ASSUME SInv, NEW t \in Task, NEW pc \in TaskPc, TaskGo(t, pc)
  PROVE  /\ task' \in [Task -> TaskType]
         /\ task'[t].pc = pc /\ task'[t].kind = task[t].kind /\ task'[t].sn = task[t].sn
         /\ task'[t].ch = task[t].ch /\ task'[t].row = task[t].row
         /\ \A u \in Task \ {t} : task'[u] = task[u]
<1>1. task \in [Task -> TaskType]
  BY Typed
<1>2. QED
  BY <1>1 DEF TaskGo, TaskType

LEMMA TaskEnds ==
  ASSUME SInv, NEW t \in Task, EndTask(t)
  PROVE  /\ task' \in [Task -> TaskType]
         /\ task'[t].pc = "idle" /\ \A u \in Task \ {t} : task'[u] = task[u]
<1>1. task \in [Task -> TaskType] /\ NoTask \in TaskType /\ NoTask.pc = "idle"
  BY Typed, Idle DEF NoTask
<1>2. QED
  BY <1>1 DEF EndTask

LEMMA TaskReadRowInv ==
  ASSUME SInv, NEW t \in Task, NEW s \in Sn, task[t].sn = s, TaskReadRow(t)
  PROVE  SInv'
<1>1. task[t].pc = "readRow" /\ UNCHANGED <<map, online, conn, loop, spoken>> /\ Note({})
  BY DEF TaskReadRow, TaskAt
<1>2. TaskWorks(t)
  BY <1>1 DEF TaskWorks
<1>3. /\ task' \in [Task -> TaskType]
      /\ task'[t].pc = "writeRow" /\ task'[t].row = online[s]
      /\ task'[t].sn = s /\ task'[t].ch = task[t].ch
      /\ \A u \in Task \ {t} : task'[u] = task[u]
  <2>1. /\ task \in [Task -> TaskType] /\ "writeRow" \in TaskPc /\ online[s] \in BOOLEAN
        /\ task' = [task EXCEPT ![t].pc = "writeRow", ![t].row = online[s]]
    BY Typed DEF TaskReadRow, TaskPc
  <2>2. QED
    BY <2>1 DEF TaskType
<1>4. TaskMove(t, s)
  BY <1>1, <1>2, <1>3, Typed DEF TaskMove
<1>5. TaskStage(t, s) => TaskStage(t, s)'
  BY <1>1, <1>2, <1>3 DEF TaskStage, TaskWorks, Mapped, InStep
<1>6. QED
  BY <1>4, <1>5, TaskInv

LEMMA TaskFailsInv ==
  ASSUME SInv, NEW t \in Task, NEW s \in Sn, task[t].sn = s, TaskFails(t) \/ TaskThrows(t)
  PROVE  SInv'
<1>1. /\ task[t].pc \in {"readRow", "unmap"} /\ UNCHANGED <<map, online, conn, loop, spoken>>
      /\ Note({}) /\ EndTask(t)
  BY DEF TaskFails, TaskThrows, TaskAt
<1>2. TaskWorks(t)
  BY <1>1 DEF TaskWorks
<1>3. TaskMove(t, s)
  BY <1>1, <1>2, TaskEnds, Typed DEF TaskMove
<1>4. TaskStage(t, s) => TaskStage(t, s)'
  BY <1>1, <1>2, TaskEnds DEF TaskStage, TaskWorks, Mapped, InStep
<1>5. QED
  BY <1>3, <1>4, TaskInv

LEMMA TaskWriteRowInv ==
  ASSUME SInv, NEW t \in Task, NEW s \in Sn, task[t].sn = s, TaskWriteRow(t)
  PROVE  SInv'
<1>1. task[t].pc = "writeRow" /\ UNCHANGED <<map, conn, loop, spoken>> /\ Note({})
  BY DEF TaskWriteRow, TaskAt
<1>2. TaskWorks(t)
  BY <1>1 DEF TaskWorks
<1>3. /\ online' = [online EXCEPT ![s] = task[t].row] /\ task[t].row \in BOOLEAN
      /\ "contains" \in TaskPc
      /\ TaskGo(t, "contains") \/ EndTask(t)
  BY Typed DEF TaskWriteRow, TaskType, TaskPc
<1>4. TaskMove(t, s)
  BY <1>1, <1>2, <1>3, TaskGoes, TaskEnds, Typed DEF TaskMove
<1>5. TaskStage(t, s) => TaskStage(t, s)'
  <2>1. task'[t].pc \in {"contains", "idle"} /\ (task'[t].pc = "contains" => task'[t].ch = task[t].ch)
    BY <1>3, TaskGoes, TaskEnds
  <2>2. QED
    BY <1>1, <1>2, <1>3, <2>1, Typed DEF TaskStage, TaskWorks, Mapped, InStep
<1>6. QED
  BY <1>4, <1>5, TaskInv

LEMMA TaskContainsInv ==
  ASSUME SInv, NEW t \in Task, NEW s \in Sn, task[t].sn = s, TaskContains(t)
  PROVE  SInv'
<1>1. /\ task[t].pc = "contains" /\ UNCHANGED <<map, online, conn, loop, spoken>> /\ Note({})
      /\ "put" \in TaskPc /\ "unmap" \in TaskPc
  BY DEF TaskContains, TaskAt, TaskPc
<1>2. TaskWorks(t)
  BY <1>1 DEF TaskWorks
<1>3. \/ Mapped(s) /\ TaskGo(t, "unmap")
      \/ ~Mapped(s) /\ TaskGo(t, "put")
      \/ EndTask(t)
  BY DEF TaskContains
<1>4. TaskMove(t, s)
  BY <1>1, <1>2, <1>3, TaskGoes, TaskEnds, Typed DEF TaskMove
<1>5. TaskStage(t, s) => TaskStage(t, s)'
  <2>1. \/ Mapped(s) /\ task'[t].pc = "unmap" /\ task'[t].ch = task[t].ch
        \/ ~Mapped(s) /\ task'[t].pc = "put" /\ task'[t].ch = task[t].ch
        \/ task'[t].pc = "idle"
    BY <1>1, <1>3, TaskGoes, TaskEnds
  <2>2. QED
    BY <1>1, <1>2, <2>1, Typed DEF TaskStage, TaskWorks, Mapped, InStep
<1>6. QED
  BY <1>4, <1>5, TaskInv

(* One more place in its frame, and the iterators of the others spoilt. *)
LEMMA TaskSpoils ==
  ASSUME SInv, NEW t \in Task, NEW tasks \in [Task -> TaskType],
         \A u \in Task \ {t} : tasks[u] = task[u],
         \/ task' = tasks /\ UNCHANGED loop
         \/ task' = SpoilTasks(tasks, t) /\ loop' = SpoilLoops(loop, t)
  PROVE  /\ loop' \in [Channel -> LoopType] /\ task' \in [Task -> TaskType]
         /\ \A c \in Channel : loop'[c].pc = loop[c].pc
         /\ \A u \in Task \ {t} :
              /\ task'[u].pc = task[u].pc /\ task'[u].kind = task[u].kind
              /\ task'[u].sn = task[u].sn /\ task'[u].ch = task[u].ch
              /\ task'[u].row = task[u].row
         /\ task'[t].pc = tasks[t].pc /\ task'[t].sn = tasks[t].sn
         /\ task'[t].ch = tasks[t].ch
BY Typed, SpoiledLoops, SpoiledTasks

LEMMA TaskPutInv ==
  ASSUME SInv, NEW t \in Task, NEW s \in Sn, task[t].sn = s, TaskPut(t)
  PROVE  SInv'
<1> DEFINE here == [task EXCEPT ![t].pc = "online"]
<1>1. /\ task[t].pc = "put" /\ UNCHANGED <<online, conn, spoken>> /\ Note({})
      /\ map' = [map EXCEPT ![s] = task[t].ch] /\ task[t].ch \in Channel
      /\ \/ task' = here /\ UNCHANGED loop
         \/ task' = SpoilTasks(here, t) /\ loop' = SpoilLoops(loop, t)
  BY Typed DEF TaskPut, TaskAt, TaskType
<1>2. TaskWorks(t)
  BY <1>1 DEF TaskWorks
<1>3. /\ here \in [Task -> TaskType] /\ \A u \in Task \ {t} : here[u] = task[u]
      /\ here[t].pc = "online" /\ here[t].sn = s /\ here[t].ch = task[t].ch
  <2>1. task \in [Task -> TaskType] /\ "online" \in TaskPc
    BY Typed DEF TaskPc
  <2>2. QED
    BY <2>1 DEF TaskType
<1> HIDE DEF here
<1>4. TaskMove(t, s)
  BY <1>1, <1>2, <1>3, TaskSpoils, Typed DEF TaskMove
<1>5. TaskStage(t, s) => TaskStage(t, s)'
  <2>1. task'[t].pc = "online" /\ task'[t].ch = task[t].ch
    BY <1>1, <1>3, TaskSpoils
  <2>2. QED
    BY <1>1, <1>2, <2>1, Typed DEF TaskStage, TaskWorks, Mapped, InStep
<1>6. QED
  BY <1>4, <1>5, TaskInv

LEMMA TaskOnlineInv ==
  ASSUME SInv, NEW t \in Task, NEW s \in Sn, task[t].sn = s, TaskOnline(t) \/ TaskOffline(t)
  PROVE  SInv'
<1>1. /\ UNCHANGED <<map, conn, loop, spoken>> /\ Note({}) /\ EndTask(t)
      /\ \/ task[t].pc = "online" /\ online' = [online EXCEPT ![s] = TRUE]
         \/ task[t].pc = "offline" /\ online' = [online EXCEPT ![s] = FALSE]
  BY DEF TaskOnline, TaskOffline, TaskAt
<1>2. TaskWorks(t)
  BY <1>1 DEF TaskWorks
<1>3. TaskMove(t, s)
  BY <1>1, <1>2, TaskEnds, Typed DEF TaskMove
<1>4. TaskStage(t, s) => TaskStage(t, s)'
  <2>1. task[t].ch \in Channel /\ task[t].ch # NoChannel
    BY Typed, SessionAssumption DEF TaskType
  <2>2. QED
    BY <1>1, <1>2, <2>1, TaskEnds, Typed DEF TaskStage, TaskWorks, Mapped, InStep
<1>5. QED
  BY <1>3, <1>4, TaskInv

(* A login that finds the device in the map disturbs it. *)
LEMMA TaskUnmapInv ==
  ASSUME SInv, NEW t \in Task, NEW s \in Sn, task[t].sn = s, TaskUnmap(t)
  PROVE  SInv'
<1> DEFINE login == task[t].kind = "login"
           next == IF Mapped(s) /\ ~login
                   THEN [task EXCEPT ![t].pc = "offline"] ELSE [task EXCEPT ![t] = NoTask]
<1>1. /\ task[t].pc = "unmap" /\ UNCHANGED <<online, conn, spoken>>
      /\ Note(IF login THEN {s} ELSE {}) /\ map' = [map EXCEPT ![s] = NoChannel]
      /\ \/ task' = next /\ UNCHANGED loop
         \/ task' = SpoilTasks(next, t) /\ loop' = SpoilLoops(loop, t)
  BY DEF TaskUnmap, TaskAt
<1>2. TaskWorks(t)
  BY <1>1 DEF TaskWorks
<1>3. /\ next \in [Task -> TaskType] /\ \A u \in Task \ {t} : next[u] = task[u]
      /\ next[t].pc = IF Mapped(s) /\ ~login THEN "offline" ELSE "idle"
      /\ next[t].pc # "idle" => next[t].sn = s /\ next[t].ch = task[t].ch
  <2>1. /\ task \in [Task -> TaskType] /\ "offline" \in TaskPc /\ NoTask \in TaskType
        /\ NoTask.pc = "idle"
    BY Typed, Idle DEF TaskPc, NoTask
  <2>2. CASE Mapped(s) /\ ~login
    BY <2>1, <2>2 DEF TaskType
  <2>3. CASE ~(Mapped(s) /\ ~login)
    BY <2>1, <2>3
  <2>4. QED
    BY <2>2, <2>3
<1> HIDE DEF next
<1>4. TaskMove(t, s)
  BY <1>1, <1>2, <1>3, TaskSpoils, Typed DEF TaskMove
<1>5. s \notin disturbed' /\ TaskStage(t, s) => TaskStage(t, s)'
  <2> SUFFICES ASSUME s \notin disturbed', TaskStage(t, s) PROVE TaskStage(t, s)'
    OBVIOUS
  <2>1. ~login
    BY <1>1, Noted DEF SInv
  <2>2. Mapped(s) /\ online[s] /\ conn[task[t].ch].st # "closed"
    BY <1>1, <1>2 DEF TaskStage, InStep
  <2>3. task'[t].pc = "offline" /\ task'[t].ch = task[t].ch
    BY <1>1, <1>3, <2>1, <2>2, TaskSpoils
  <2>4. QED
    BY <1>1, <2>2, <2>3, Typed DEF TaskStage, TaskWorks, Mapped
<1>6. QED
  BY <1>4, <1>5, TaskInv

-----------------------------------------------------------------------------
(* The frame that starts a task, and the restart.                          *)

LEMMA FrameInv ==
  ASSUME SInv, NEW c \in Channel, NEW s \in Sn, Device(c) = s,
         NEW kind \in Kind, NEW t \in Task, Frame(c, kind, t)
  PROVE  SInv'
<1>1. /\ conn[c].st = "open" /\ loop[c].pc = "idle" /\ task[t].pc = "idle"
      /\ UNCHANGED <<map, online, conn>> /\ spoken' = spoken \cup {s} /\ Note({})
      /\ LoopGo(c, "contains") /\ "contains" \in LoopPc
  BY DEF Frame, LoopAt, TaskAt, LoopPc
<1>2. /\ loop' \in [Channel -> LoopType] /\ loop'[c].pc = "contains"
      /\ \A d \in Channel \ {c} : loop'[d] = loop[d]
  BY <1>1, LoopGoes
<1>3. /\ task' \in [Task -> TaskType] /\ \A u \in Task \ {t} : task'[u] = task[u]
      /\ kind = "beat" => task' = task
      /\ kind # "beat" => /\ task'[t].pc \in {"readRow", "contains"}
                          /\ task'[t].sn = s /\ task'[t].ch = c
  <2>1. CASE kind = "beat"
    BY <2>1, Typed DEF Frame
  <2>2. CASE kind # "beat"
    <3> DEFINE new == [NoTask EXCEPT !.pc = FirstPc(kind), !.kind = kind, !.sn = s, !.ch = c]
    <3>1. kind \in {"login", "logout", "row"}
      BY <2>2, SessionAssumption DEF FrameKind
    <3>2. FirstPc(kind) \in {"readRow", "contains"}
      BY <3>1 DEF FirstPc
    <3>3. /\ new \in TaskType /\ new.pc \in {"readRow", "contains"}
          /\ new.sn = s /\ new.ch = c
      BY <3>1, <3>2, Idle DEF NoTask, TaskType, TaskPc, FrameKind
    <3>4. task' = [task EXCEPT ![t] = new] /\ task \in [Task -> TaskType]
      BY <2>2, Typed DEF Frame
    <3> HIDE DEF new
    <3>5. QED
      BY <2>2, <3>3, <3>4
  <2>3. QED
    BY <2>1, <2>2
<1>4. /\ disturbed' \in SUBSET Sn /\ disturbed \subseteq disturbed'
      /\ \A r \in Sn : Overlap(r)' => r \in disturbed'
  BY <1>1, Noted DEF SInv
<1>5. TypeOK'
  BY <1>1, <1>2, <1>3, <1>4, Typed DEF SInv, TypeOK, ConnType, LoopType, TaskType
<1>6. Wired'
  <2>1. NoCrossWiring'
    BY <1>1 DEF SInv, Wired, NoCrossWiring, Mapped, Device
  <2>2. \A d \in Channel : loop'[d].pc # "idle" => conn'[d].st \in {"open", "closing"}
    BY <1>1, <1>2 DEF SInv, Wired
  <2>3. \A u \in Task : TaskWorks(u)' => /\ conn'[task'[u].ch].st # "free"
                                         /\ conn'[task'[u].ch].sn = task'[u].sn
    BY <1>1, <1>3 DEF SInv, Wired, TaskWorks, Device
  <2>4. QED
    BY <2>1, <2>2, <2>3 DEF Wired, Device
<1>7. Heard'
  <2>1. OnlineOnlyIfHeard'
    BY <1>1 DEF SInv, Heard, OnlineOnlyIfHeard
  <2>2. \A d \in Channel : loop'[d].pc \in {"contains", "put", "online"} => conn'[d].sn \in spoken'
    BY <1>1, <1>2 DEF SInv, Heard, Device
  <2>3. \A u \in Task : TaskWorks(u)' => task'[u].sn \in spoken'
    BY <1>1, <1>3 DEF SInv, Heard, TaskWorks
  <2>4. QED
    BY <2>1, <2>2, <2>3 DEF Heard, Device
<1>8. \A d \in Channel : LoopWorks(d) \/ LoopWorks(d)' => d # c /\ loop'[d] = loop[d]
  BY <1>1, <1>2 DEF LoopWorks
<1>9. CASE kind = "beat"
  <2>1. Inert
    BY <1>1, <1>3, <1>4, <1>8, <1>9 DEF Inert, Device
  <2>2. QED
    BY <1>5, <1>6, <1>7, <2>1, InertUndisturbed DEF SInv
<1>10. CASE kind # "beat"
  <2>1. ~TaskWorks(t) /\ TaskWorks(t)' /\ task'[t].sn = s
    BY <1>1, <1>3, <1>10 DEF TaskWorks
  <2>2. Others(t) /\ Elsewhere(s)
    BY <1>1, <1>3, <1>8 DEF Others, Elsewhere
  <2>3. Move(t, s)
    BY <1>4, <1>5, <2>1, <2>2, SessionAssumption DEF Move
  <2>4. t \in Busy(s)'
    BY <2>1 DEF Busy
  <2>5. TaskStage(t, s) => TaskStage(t, s)'
    BY <1>1, <1>3, <1>10, <2>1 DEF TaskStage, Mapped, InStep
  <2>6. task[t].pc \in TaskPc /\ task'[t].pc \in TaskPc
    BY <1>3, Typed DEF TaskType
  <2>7. Before(t, s) => After(t, s)'
    BY <2>1, <2>5, <2>6, TaskStages, TaskStagesAfter
  <2>8. QED
    BY <1>5, <1>6, <1>7, <2>3, <2>4, <2>7, MoveUndisturbed DEF SInv
<1>11. QED
  BY <1>9, <1>10

LEMMA RestartInv == ASSUME SInv, Restart PROVE SInv'
<1>1. TypeOK'
  BY Idle DEF Restart, TypeOK, LoopType, TaskType, ConnState
<1>2. Wired'
  BY SessionAssumption DEF Restart, Wired, NoCrossWiring, Mapped, NoLoop, NoTask, TaskWorks
<1>3. Heard'
  BY DEF Restart, Heard, OnlineOnlyIfHeard, NoLoop, NoTask, TaskWorks
<1>4. Undisturbed'
  <2>1. \A s \in Sn : Busy(s)' = {} /\ InStep(s)'
    BY DEF Restart, Busy, LoopWorks, TaskWorks, NoLoop, NoTask, InStep, Mapped
  <2>2. QED
    BY <2>1 DEF Undisturbed, Overlap, Staged
<1>5. QED
  BY <1>1, <1>2, <1>3, <1>4 DEF SInv

-----------------------------------------------------------------------------
(* The invariant and what it implies.                                      *)

LEMMA NextSInv == SInv /\ [Next]_vars => SInv'
<1> SUFFICES ASSUME SInv, [Next]_vars PROVE SInv'
  OBVIOUS
<1>1. ASSUME NEW c \in Channel, NEW s \in Sn, Connect(c, s) PROVE SInv'
  BY <1>1, ConnectInv
<1>2. ASSUME NEW c \in Channel, Disconnect(c) \/ Recycle(c) PROVE SInv'
  BY <1>2, DisconnectInv, RecycleInv
<1>3. ASSUME NEW c \in Channel, IdleEvent(c) \/ Inactive(c) \/ LoopStep(c) PROVE SInv'
  <2>1. PICK s \in Sn : Device(c) = s
    BY DEF SInv, TypeOK, Device
  <2>2. CASE IdleEvent(c) \/ Inactive(c)
    BY <2>1, <2>2, StartRemoveInv
  <2>3. CASE LoopStep(c)
    BY <2>1, <2>3, LoopContainsInv, LoopPutInv, LoopOnlineInv, LoopFindInv, LoopUnmapInv,
       LoopOfflineInv, LoopThrowsInv DEF LoopStep
  <2>4. QED
    BY <1>3, <2>2, <2>3
<1>4. ASSUME NEW c \in Channel, NEW k \in Kind, NEW t \in Task, Frame(c, k, t) PROVE SInv'
  <2>1. PICK s \in Sn : Device(c) = s
    BY DEF SInv, TypeOK, Device
  <2>2. QED
    BY <1>4, <2>1, FrameInv
<1>5. ASSUME NEW t \in Task, TaskStep(t) PROVE SInv'
  <2>1. PICK s \in Sn : task[t].sn = s
    BY Typed DEF TaskType
  <2>2. QED
    BY <1>5, <2>1, TaskReadRowInv, TaskFailsInv, TaskWriteRowInv, TaskContainsInv, TaskPutInv,
       TaskOnlineInv, TaskUnmapInv DEF TaskStep
<1>6. CASE Restart
  BY <1>6, RestartInv
<1>7. CASE UNCHANGED vars
  <2>1. TypeOK' /\ Wired' /\ Heard'
    BY <1>7 DEF vars, SInv, TypeOK, Wired, NoCrossWiring, Heard, OnlineOnlyIfHeard, Mapped,
                TaskWorks, Device
  <2>2. \A r \in Sn : Overlap(r)' => Overlap(r)
    BY <1>7 DEF vars, Overlap, Busy, LoopWorks, TaskWorks, Device
  <2>3. Inert
    BY <1>7, <2>2 DEF vars, Inert, SInv, Undisturbed, LoopWorks, Device
  <2>4. QED
    BY <2>1, <2>3, InertUndisturbed DEF SInv
<1>8. QED
  BY <1>1, <1>2, <1>3, <1>4, <1>5, <1>6, <1>7 DEF Next

(***************************************************************************)
(* SInv holds in every reachable state: the place where each handler       *)
(* stands says what the map and the column hold of its device.             *)
(***************************************************************************)
THEOREM SessionInvariant == Spec => []SInv
<1>1. Init => SInv
  BY InitSInv
<1>2. SInv /\ [Next]_vars => SInv'
  BY NextSInv
<1>3. QED
  BY <1>1, <1>2, PTL DEF Spec

(***************************************************************************)
(* The variables keep their types.                                         *)
(***************************************************************************)
THEOREM SessionTypeCorrect == Spec => []TypeOK
<1>1. SInv => TypeOK
  BY DEF SInv
<1>2. QED
  BY <1>1, SessionInvariant, PTL

(***************************************************************************)
(* Whatever order logins, logouts, reconnects, closes, overlapping         *)
(* handlers and restarts come in, the map never leads to the connection of *)
(* another device.                                                         *)
(***************************************************************************)
THEOREM MapIsNeverCrossed == Spec => []NoCrossWiring
<1>1. SInv => NoCrossWiring
  BY DEF SInv, Wired
<1>2. QED
  BY <1>1, SessionInvariant, PTL

(***************************************************************************)
(* No row says online of a device that was not heard since the start: a    *)
(* task that writes back a stale row cannot resurrect one.                 *)
(***************************************************************************)
THEOREM OnlineWasHeard == Spec => []OnlineOnlyIfHeard
<1>1. SInv => OnlineOnlyIfHeard
  BY DEF SInv, Heard
<1>2. QED
  BY <1>1, SessionInvariant, PTL

(***************************************************************************)
(* Column and map of a device agree between its handlers, unless two of    *)
(* them overlapped, one was cut short, or it logged in while in the map:   *)
(* these three are the only ways the code has to get them out of step.     *)
(***************************************************************************)
THEOREM InStepWithoutOverlap == Spec => []InStepUnlessDisturbed
<1>1. SInv => InStepUnlessDisturbed
  BY DEF SInv, Undisturbed, Staged, InStep, InStepUnlessDisturbed
<1>2. QED
  BY <1>1, SessionInvariant, PTL

=============================================================================
