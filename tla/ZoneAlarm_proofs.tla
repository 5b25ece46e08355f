-------------------------- MODULE ZoneAlarm_proofs --------------------------
(***************************************************************************)
(* What TLAPS proves of ZoneAlarm, for every number of tasks and every set *)
(* of fence lists.                                                         *)
(***************************************************************************)
EXTENDS ZoneAlarm, TLAPS

(* The last warning is about zone z, or, if it went astray, about a        *)
(* crossing the other way.                                                 *)
ToldAgrees(z) ==
  told # "none" => /\ z # Unknown
                   /\ astray <=> (told = "in" <=> z \notin {Home, School})

(* A warning is about a crossing from old to new. *)
Crosses(w, old, new) ==
  w # "none" => /\ Direction(w) \in {"in", "out"}
                /\ old # Unknown /\ new # Unknown
                /\ Direction(w) = "in" <=> old \notin {Home, School}
                /\ Direction(w) = "in" <=> new \in {Home, School}

(* A warning that has not gone out yet says something new, unless the last *)
(* one went astray.                                                        *)
News(w) ==
  w # "none" /\ told # "none" => (told = Direction(w) <=> astray)

(* ef, the last zone and the last warning between two tasks. *)
Level == (~missed => ef = last) /\ ToldAgrees(ef)

(* What the frames of tasks hold, disturbed or not. *)
Framed ==
  \A t \in Task :
    /\ task[t].pc \in {"idle", "read", "list", "decide"} => task[t].warning = "none"
    /\ task[t].pc \in {"list", "decide", "warn"} => task[t].kind = "location"
    /\ task[t].pc = "write" /\ task[t].kind = "login" => task[t].new = Unknown
    /\ task[t].pc = "write" /\ task[t].kind # "location" => task[t].warning = "none"
    /\ task[t].pc = "warn" => task[t].warning # "none"

(* Where the only task of an undisturbed device stands. *)
Stage(t) ==
  /\ task[t].pc \in {"read", "list", "decide"} => Level
  /\ task[t].pc \in {"list", "decide"} => task[t].row = ef
  /\ task[t].pc = "write" /\ task[t].kind # "location" =>
       Level /\ (task[t].kind = "row" => task[t].new = ef)
  /\ task[t].pc = "write" /\ task[t].kind = "location" =>
       /\ task[t].new = last /\ ~missed /\ ToldAgrees(ef)
       /\ task[t].warning = "none" => ToldAgrees(task[t].new)
       /\ Crosses(task[t].warning, ef, task[t].new)
       /\ News(task[t].warning)
  /\ task[t].pc = "warn" =>
       /\ ~missed => ef = last
       /\ ef # Unknown /\ Direction(task[t].warning) \in {"in", "out"}
       /\ missed <=> (Direction(task[t].warning) = "in" <=> ef \notin {Home, School})
       /\ News(task[t].warning)

Settled ==
  ~disturbed =>
    /\ \A t, u \in Working : t = u
    /\ \A t \in Working : Stage(t)
    /\ Working = {} => Level

ZInv == TypeOK /\ Framed /\ Settled

-----------------------------------------------------------------------------
(* What controlSMS decides.                                                *)

(* What a query that fails returns is a list of fences, too. *)
LEMMA SomeFences ==
  ASSUME ZInv, NEW n \in 0 .. Len(fences) - 1
  PROVE  fences \in Seq(Fence) /\ SubSeq(fences, 1, n) \in Seq(Fence)
<1>1. fences \in Seq(Fence)
  BY FenceAssumption DEF ZInv, TypeOK
<1>2. Len(fences) \in Nat /\ n \in Nat /\ n <= Len(fences)
  BY <1>1
<1>3. QED
  BY <1>1, <1>2

(* The position of the home is a fence of the list whenever a device that  *)
(* was at home is handled, or one that is there now; likewise the school.  *)
LEMMA Positions ==
  ASSUME NEW list \in Seq(Fence), NEW old \in Zone, NEW inside \in SUBSET DOMAIN list,
         Handles(list, old)
  PROVE  /\ old = Home => HomeAt(list) \in DOMAIN list
         /\ old = School => SchoolAt(list) \in DOMAIN list
         /\ ZoneOf(list, inside) = Home => HomeAt(list) \in DOMAIN list
         /\ ZoneOf(list, inside) = School => SchoolAt(list) \in DOMAIN list
<1>1. DOMAIN list = 1 .. Len(list) /\ Len(list) \in Nat
  OBVIOUS
<1>2. Home # School /\ Home # Danger /\ School # Danger
  BY DEF Home, School, Danger
<1>3. ZoneOf(list, inside) = Home => HomeAt(list) \in DOMAIN list
  BY <1>2 DEF ZoneOf
<1>4. ZoneOf(list, inside) = School => SchoolAt(list) \in DOMAIN list
  BY <1>2 DEF ZoneOf
<1>5. old = Home => HomeAt(list) \in DOMAIN list
  BY <1>1, <1>2 DEF Handles, HomeAt
<1>6. old = School => SchoolAt(list) \in DOMAIN list
  BY <1>1, <1>2 DEF Handles, HomeAt, SchoolAt
<1>7. QED
  BY <1>3, <1>4, <1>5, <1>6

(* A warning is about a crossing. *)
LEMMA WarningsFit ==
  ASSUME NEW list, NEW old, NEW new
  PROVE  /\ WarningOf(list, old, new) \in Warning
         /\ Crosses(WarningOf(list, old, new), old, new)
BY DEF WarningOf, Crosses, Direction, Warning, Home, School, Danger, Unknown

(* What was told before a crossing is something else, as the zone the      *)
(* device came from shows, unless that warning went astray.                *)
LEMMA CrossingIsNews ==
  ASSUME ZInv, NEW w, NEW old, NEW new, Crosses(w, old, new), ToldAgrees(old)
  PROVE  News(w)
<1> SUFFICES ASSUME w # "none", told # "none" PROVE told = Direction(w) <=> astray
  BY DEF News
<1>1. Direction(w) \in {"in", "out"} /\ told \in {"in", "out"}
  BY DEF Crosses, ZInv, TypeOK
<1>2. Direction(w) = "in" <=> old \notin {Home, School}
  BY DEF Crosses
<1>3. astray <=> (told = "in" <=> old \notin {Home, School})
  BY DEF ToldAgrees
<1>4. told = Direction(w) <=> (told = "in" <=> Direction(w) = "in")
  BY <1>1
<1>5. QED
  BY <1>2, <1>3, <1>4

(* When every fence asks for both directions, no crossing is silent. *)
LEMMA NoSilentCrossing ==
  ASSUME NEW list \in Seq(Fence), NEW old \in Zone, NEW inside \in SUBSET DOMAIN list,
         Handles(list, old), BothWays(list), WarningOf(list, old, ZoneOf(list, inside)) = "none",
         ToldAgrees(old)
  PROVE  ToldAgrees(ZoneOf(list, inside))
<1> DEFINE new == ZoneOf(list, inside)
<1>1. new \in {Home, School, Danger}
  BY DEF ZoneOf
<1>2. /\ old = Home => list[HomeAt(list)].model = "0"
      /\ old = School => list[SchoolAt(list)].model = "0"
      /\ new = Home => list[HomeAt(list)].model = "0"
      /\ new = School => list[SchoolAt(list)].model = "0"
  BY Positions DEF BothWays
<1>3. ~(old = Home /\ new = Danger) /\ ~(old = School /\ new = Danger)
      /\ ~(old = Danger /\ new = Home) /\ ~(old = Danger /\ new = School)
  BY <1>2 DEF WarningOf, Leaves, Enters, Home, School, Danger
<1>4. new # Unknown
  BY <1>1 DEF Home, School, Danger, Unknown
<1>5. old # Unknown => (old \in {Home, School} <=> new \in {Home, School})
  BY <1>1, <1>3 DEF Zone, Home, School, Danger, Unknown
<1>6. QED
  BY <1>4, <1>5 DEF ToldAgrees

-----------------------------------------------------------------------------
LEMMA IdleFrame == NoTask \in [pc : TaskPc, kind : Kind, row : Zone, list : Seq(Fence),
                               new : Zone, warning : Warning]
BY DEF NoTask, TaskPc, Kind, Zone, Warning, Unknown

(* Level is about the row and the history only. *)
LEMMA LevelStays ==
  ASSUME Level, UNCHANGED <<ef, last, told, missed, astray>>
  PROVE  Level'
BY DEF Level, ToldAgrees

LEMMA InitZInv == Init => ZInv
<1> SUFFICES ASSUME Init PROVE ZInv
  OBVIOUS
<1>1. TypeOK
  BY IdleFrame DEF Init, TypeOK, Zone
<1>2. \A t \in Task : task[t] = NoTask
  BY DEF Init
<1>3. Working = {}
  BY <1>2 DEF Working, NoTask
<1>4. QED
  BY <1>1, <1>2, <1>3 DEF Init, ZInv, Framed, Settled, Level, ToldAgrees, NoTask

(* A step that changes one frame only, and leaves it at work or ends it. *)
LEMMA OneFrame ==
  ASSUME ZInv, NEW t \in Task, NEW frame,
         task' = [task EXCEPT ![t] = frame]
  PROVE  /\ task'[t] = frame
         /\ \A u \in Task : u # t => task'[u] = task[u]
         /\ Working' = IF frame.pc = "idle" THEN Working \ {t} ELSE Working \cup {t}
         /\ Working \subseteq Task
BY DEF ZInv, TypeOK, Working

(* The same of a task that is at work and stays at work. *)
LEMMA WorkingFrame ==
  ASSUME ZInv, NEW t \in Working, NEW frame, frame.pc # "idle",
         task' = [task EXCEPT ![t] = frame]
  PROVE  /\ task'[t] = frame
         /\ \A u \in Task : u # t => task'[u] = task[u]
         /\ Working' = Working
<1>1. t \in Task
  BY DEF Working
<1>2. Working \cup {t} = Working
  OBVIOUS
<1>3. QED
  BY <1>1, <1>2, OneFrame

LEMMA StartZInv ==
  ASSUME ZInv, NEW t \in Task, NEW k \in Kind, Start(t, k)
  PROVE  ZInv'
<1> DEFINE frame == [task[t] EXCEPT !.pc = "read", !.kind = k]
<1>1. task' = [task EXCEPT ![t] = frame] /\ frame.pc = "read" /\ frame.warning = task[t].warning
  BY DEF Start, ZInv, TypeOK
<1>2. /\ task'[t] = frame
      /\ \A u \in Task : u # t => task'[u] = task[u]
      /\ Working' = Working \cup {t} /\ Working \subseteq Task
  BY <1>1, OneFrame
<1>3. TypeOK'
  BY DEF Start, ZInv, TypeOK, TaskPc
<1>4. Framed'
  <2>1. task[t].warning = "none"
    BY DEF ZInv, Framed, Start, At
  <2>2. task'[t].pc = "read" /\ task'[t].warning = "none"
    BY <1>1, <1>2, <2>1
  <2>3. \A u \in Task : u = t \/ task'[u] = task[u]
    BY <1>2
  <2>4. QED
    BY <2>2, <2>3 DEF ZInv, Framed
<1>5. Settled'
  <2> SUFFICES ASSUME ~disturbed' PROVE Settled'
    BY DEF Settled
  <2>1. Working = {} /\ Working' = {t} /\ ~disturbed
    BY <1>2 DEF Start
  <2>2. Level'
    BY <2>1, LevelStays DEF ZInv, Settled, Start
  <2>3. Stage(t)'
    BY <1>1, <1>2, <2>2 DEF Stage
  <2>4. QED
    BY <2>1, <2>3 DEF Settled
<1>6. QED
  BY <1>3, <1>4, <1>5 DEF ZInv

LEMMA ReadRowZInv ==
  ASSUME ZInv, NEW t \in Task, ReadRow(t)
  PROVE  ZInv'
<1> DEFINE k == task[t].kind
           frame == [task[t] EXCEPT !.pc = IF k = "location" THEN "list" ELSE "write",
                                    !.row = ef, !.new = IF k = "login" THEN Unknown ELSE ef]
<1>1. /\ task' = [task EXCEPT ![t] = frame]
      /\ frame.pc = IF k = "location" THEN "list" ELSE "write"
      /\ frame.kind = k /\ frame.warning = task[t].warning /\ frame.row = ef
      /\ frame.new = IF k = "login" THEN Unknown ELSE ef
  BY DEF ReadRow, ZInv, TypeOK
<1>2. /\ task'[t] = frame
      /\ \A u \in Task : u # t => task'[u] = task[u]
      /\ Working' = Working /\ t \in Working
  <2>1. t \in Working
    BY DEF ReadRow, At, Working
  <2>2. frame.pc # "idle"
    BY <1>1
  <2>3. QED
    BY <1>1, <2>1, <2>2, WorkingFrame
<1>3. TypeOK'
  <2>1. k \in Kind /\ ef \in Zone /\ Unknown \in Zone
    BY DEF ZInv, TypeOK, Zone
  <2>2. frame \in [pc : TaskPc, kind : Kind, row : Zone, list : Seq(Fence),
                   new : Zone, warning : Warning]
    BY <2>1 DEF ZInv, TypeOK, TaskPc
  <2>3. QED
    BY <1>1, <2>2 DEF ReadRow, ZInv, TypeOK, history
<1>4. task[t].warning = "none"
  BY DEF ReadRow, At, ZInv, Framed
<1>5. Framed'
  BY <1>1, <1>2, <1>4 DEF ZInv, Framed
<1>6. ASSUME ~disturbed PROVE Stage(t)'
  <2>1. Level
    BY <1>2, <1>6 DEF ZInv, Settled, Stage, ReadRow, At
  <2>2. UNCHANGED <<ef, fences, last, told, missed, astray, disturbed>>
    BY DEF ReadRow, history
  <2>3. Level'
    BY <2>1, <2>2, LevelStays
  <2>4. /\ task'[t].pc = IF k = "location" THEN "list" ELSE "write"
        /\ task'[t].kind = k /\ task'[t].row = ef' /\ (k = "row" => task'[t].new = ef')
    BY <1>1, <1>2, <2>2
  <2>5. QED
    BY <2>3, <2>4 DEF Stage
<1>7. Settled'
  <2> SUFFICES ASSUME ~disturbed PROVE Settled'
    BY DEF Settled, ReadRow, history
  <2>1. Working = {t}
    BY <1>2 DEF ZInv, Settled
  <2>2. QED
    BY <1>2, <1>6, <2>1 DEF Settled
<1>8. QED
  BY <1>3, <1>5, <1>7 DEF ZInv

(* A task that ends between two writes; its location may have been missed. *)
LEMMA EndZInv ==
  ASSUME ZInv, NEW t \in Working, End(t),
         UNCHANGED <<ef, fences, last, told, astray, disturbed>>,
         missed' \in {missed, TRUE},
         ~disturbed => Level
  PROVE  ZInv'
<1>1. task' = [task EXCEPT ![t] = NoTask] /\ NoTask.pc = "idle" /\ NoTask.warning = "none"
  BY DEF End, NoTask
<1>2. /\ task'[t] = NoTask
      /\ \A u \in Task : u # t => task'[u] = task[u]
      /\ Working' = Working \ {t}
  <2>1. t \in Task
    BY DEF Working
  <2>2. QED
    BY <1>1, <2>1, OneFrame
<1>3. TypeOK'
  BY <1>1, IdleFrame DEF ZInv, TypeOK
<1>4. Framed'
  BY <1>1, <1>2 DEF ZInv, Framed
<1>5. Settled'
  <2> SUFFICES ASSUME ~disturbed' PROVE Settled'
    BY DEF Settled
  <2>1. Working' = {}
    BY <1>2 DEF ZInv, Settled
  <2>2. Level /\ (~missed' => ~missed)
    BY DEF ZInv, TypeOK
  <2>3. Level'
    BY <2>2 DEF Level, ToldAgrees
  <2>4. QED
    BY <2>1, <2>3 DEF Settled
<1>6. QED
  BY <1>3, <1>4, <1>5 DEF ZInv

LEMMA StopsZInv ==
  ASSUME ZInv, NEW t \in Task, ReadFails(t) \/ NoPosition(t) \/ NotHandled(t)
  PROVE  ZInv'
<1>1. t \in Working /\ task[t].pc \in {"read", "list", "decide"}
  BY DEF ReadFails, NoPosition, NotHandled, At, Working
<1>2. ~disturbed => Level
  BY <1>1 DEF ZInv, Settled, Stage
<1>3. /\ End(t) /\ missed' \in {missed, TRUE}
      /\ UNCHANGED <<ef, fences, last, told, astray, disturbed>>
  BY DEF ReadFails, NoPosition, NotHandled, history
<1>4. QED
  BY <1>1, <1>2, <1>3, EndZInv

(* The fences are read, all of them or the first few. *)
LEMMA ListZInv ==
  ASSUME ZInv, NEW t \in Task, NEW list \in Seq(Fence), At(t, "list"),
         task' = [task EXCEPT ![t].pc = "decide", ![t].list = list],
         UNCHANGED <<ef, fences, history>>
  PROVE  ZInv'
<1> DEFINE frame == [task[t] EXCEPT !.pc = "decide", !.list = list]
<1>1. /\ task' = [task EXCEPT ![t] = frame]
      /\ frame.pc = "decide" /\ frame.kind = task[t].kind /\ frame.warning = task[t].warning
      /\ frame.row = task[t].row
  BY DEF ZInv, TypeOK
<1>2. /\ task'[t] = frame
      /\ \A u \in Task : u # t => task'[u] = task[u]
      /\ Working' = Working /\ t \in Working
  BY <1>1, OneFrame DEF At, Working
<1>3. UNCHANGED <<ef, fences, last, told, missed, astray, disturbed>>
  BY DEF history
<1>4. TypeOK'
  BY <1>3 DEF ZInv, TypeOK, TaskPc
<1>5. Framed'
  BY <1>1, <1>2 DEF ZInv, Framed, At
<1>6. Settled'
  <2> SUFFICES ASSUME ~disturbed PROVE Settled'
    BY <1>3 DEF Settled
  <2>1. Working = {t} /\ Stage(t)
    BY <1>2 DEF ZInv, Settled
  <2>2. Level' /\ task[t].row = ef
    BY <1>3, <2>1, LevelStays DEF Stage, At
  <2>3. Stage(t)'
    BY <1>1, <1>2, <1>3, <2>2 DEF Stage
  <2>4. QED
    BY <1>2, <2>1, <2>3 DEF Settled
<1>7. QED
  BY <1>4, <1>5, <1>6 DEF ZInv

LEMMA DecideZInv ==
  ASSUME ZInv, NEW t \in Task, NEW inside \in SUBSET DOMAIN task[t].list, Decide(t, inside)
  PROVE  ZInv'
<1> DEFINE list == task[t].list
           old == task[t].row
           new == ZoneOf(list, inside)
           frame == [task[t] EXCEPT !.pc = "write", !.new = new,
                                    !.warning = WarningOf(list, old, new)]
<1>1. list \in Seq(Fence) /\ old \in Zone /\ new \in Zone \ {Unknown}
  BY DEF ZInv, TypeOK, ZoneOf, Zone, Home, School, Danger, Unknown
<1>2. t \in Working /\ Handles(list, old)
  BY DEF Decide, At, Working
<1>3. ~disturbed => Working = {t} /\ old = ef /\ ToldAgrees(ef)
  BY <1>2 DEF ZInv, Settled, Stage, Level, Decide, At
<1>4. CASE new = old
  <2>1. End(t) /\ UNCHANGED <<ef, fences, astray, disturbed>> /\ last' = new
        /\ told' \in {told, "none"} /\ missed' = FALSE
    BY <1>4 DEF Decide
  <2>2. task' = [task EXCEPT ![t] = NoTask] /\ NoTask.pc = "idle" /\ NoTask.warning = "none"
    BY <2>1 DEF End, NoTask
  <2>3. /\ task'[t] = NoTask
        /\ \A u \in Task : u # t => task'[u] = task[u]
        /\ Working' = Working \ {t}
    BY <2>2, OneFrame
  <2>4. TypeOK'
    BY <1>1, <2>1, <2>2, IdleFrame DEF ZInv, TypeOK
  <2>5. Framed'
    BY <2>2, <2>3 DEF ZInv, Framed
  <2>6. Settled'
    <3> SUFFICES ASSUME ~disturbed PROVE Settled'
      BY <2>1 DEF Settled
    <3>1. Working' = {}
      BY <1>3, <2>3
    <3>2. Level'
      BY <1>3, <1>4, <2>1 DEF Level, ToldAgrees
    <3>3. QED
      BY <3>1, <3>2 DEF Settled
  <2>7. QED
    BY <2>4, <2>5, <2>6 DEF ZInv
<1>5. CASE new # old
  <2>1. /\ task' = [task EXCEPT ![t] = frame]
        /\ UNCHANGED <<ef, fences, astray, disturbed>> /\ last' = new /\ missed' = FALSE
        /\ told' = IF BothWays(list) THEN told ELSE "none"
    BY <1>5 DEF Decide, ZInv, TypeOK
  <2>2. /\ frame.pc = "write" /\ frame.kind = task[t].kind /\ frame.new = new
        /\ frame.warning = WarningOf(list, old, new)
    BY DEF ZInv, TypeOK
  <2>3. /\ task'[t] = frame
        /\ \A u \in Task : u # t => task'[u] = task[u]
        /\ Working' = Working
    <3>1. frame.pc # "idle"
      BY <2>2
    <3>2. QED
      BY <1>2, <2>1, <3>1, WorkingFrame
  <2>4. WarningOf(list, old, new) \in Warning /\ Crosses(WarningOf(list, old, new), old, new)
    BY WarningsFit
  <2>5. TypeOK'
    BY <1>1, <2>1, <2>4 DEF ZInv, TypeOK, TaskPc
  <2>6. task[t].kind = "location"
    BY DEF ZInv, Framed, Decide, At
  <2>7. Framed'
    BY <2>2, <2>3, <2>6 DEF ZInv, Framed
  <2>8. ASSUME ~disturbed PROVE Stage(t)'
    <3>1. PICK w, z : w = frame.warning /\ z = new
      OBVIOUS
    <3>2. /\ task'[t].pc = "write" /\ task'[t].new = z /\ task'[t].kind = "location"
          /\ task'[t].warning = w
      BY <2>1, <2>2, <2>3, <2>6, <3>1
    <3>3. Crosses(w, ef', z)
      BY <1>3, <2>1, <2>2, <2>4, <2>8, <3>1
    <3>4. w = "none" => ToldAgrees(z)'
      <4>1. ASSUME w = "none", BothWays(list) PROVE ToldAgrees(z)
        BY <1>1, <1>2, <1>3, <2>2, <2>8, <3>1, <4>1, NoSilentCrossing
      <4>2. QED
        BY <2>1, <4>1 DEF ToldAgrees
    <3>5. News(w)'
      <4>1. News(w)
        BY <1>3, <2>1, <2>8, <3>3, CrossingIsNews
      <4>2. QED
        BY <2>1, <4>1 DEF News
    <3>6. ToldAgrees(ef)' /\ last' = z /\ ~missed'
      BY <1>3, <2>1, <2>8, <3>1 DEF ToldAgrees
    <3>7. QED
      BY <3>2, <3>3, <3>4, <3>5, <3>6 DEF Stage, Crosses, News, ToldAgrees
  <2>9. Settled'
    BY <1>2, <1>3, <2>1, <2>3, <2>8 DEF Settled
  <2>10. QED
    BY <2>5, <2>7, <2>9 DEF ZInv
<1>6. QED
  BY <1>4, <1>5

(* After updateSerialNumber, whether it wrote the row or not.              *)
LEMMA WrittenZInv ==
  ASSUME ZInv, NEW t \in Task, At(t, "write"), AfterWrite(t), fences' = fences,
         ef' \in Zone, last' \in Zone, told' \in {told, "none"},
         missed' \in BOOLEAN, astray' \in BOOLEAN, disturbed' \in BOOLEAN,
         ~disturbed' => Working = {t},
         task[t].warning = "none" /\ ~disturbed' => Level',
         NEW w, w = task[t].warning,
         w # "none" /\ ~disturbed' =>
           /\ ~missed' => ef' = last'
           /\ ef' # Unknown /\ Direction(w) \in {"in", "out"}
           /\ missed' <=> (Direction(w) = "in" <=> ef' \notin {Home, School})
           /\ News(w)'
  PROVE  ZInv'
<1>1. t \in Working /\ task[t].pc = "write"
  BY DEF At, Working
<1>2. CASE w = "none"
  <2>1. task' = [task EXCEPT ![t] = NoTask] /\ NoTask.pc = "idle" /\ NoTask.warning = "none"
    BY <1>2 DEF AfterWrite, End, NoTask
  <2>2. /\ task'[t] = NoTask
        /\ \A u \in Task : u # t => task'[u] = task[u]
        /\ Working' = Working \ {t}
    BY <2>1, OneFrame
  <2>3. TypeOK'
    BY <2>1, IdleFrame DEF ZInv, TypeOK
  <2>4. Framed'
    BY <2>1, <2>2 DEF ZInv, Framed
  <2>5. Settled'
    <3> SUFFICES ASSUME ~disturbed' PROVE Settled'
      BY DEF Settled
    <3>1. Working' = {}
      BY <2>2
    <3>2. QED
      BY <1>2, <3>1 DEF Settled
  <2>6. QED
    BY <2>3, <2>4, <2>5 DEF ZInv
<1>3. CASE w # "none"
  <2> DEFINE frame == [task[t] EXCEPT !.pc = "warn"]
  <2>1. /\ task' = [task EXCEPT ![t] = frame]
        /\ frame.pc = "warn" /\ frame.kind = task[t].kind /\ frame.warning = w
    BY <1>3 DEF AfterWrite, ZInv, TypeOK
  <2>2. /\ task'[t] = frame
        /\ \A u \in Task : u # t => task'[u] = task[u]
        /\ Working' = Working
    <3>1. frame.pc # "idle"
      BY <2>1
    <3>2. QED
      BY <1>1, <2>1, <3>1, WorkingFrame
  <2>3. TypeOK'
    BY <2>1 DEF ZInv, TypeOK, TaskPc
  <2>4. Framed'
    <3>1. task[t].kind = "location"
      BY <1>1, <1>3 DEF ZInv, Framed
    <3>2. QED
      BY <1>3, <2>1, <2>2, <3>1 DEF ZInv, Framed
  <2>5. Settled'
    <3> SUFFICES ASSUME ~disturbed' PROVE Settled'
      BY DEF Settled
    <3>1. task'[t].pc = "warn" /\ task'[t].warning = w
      BY <2>1, <2>2
    <3>2. Stage(t)'
      BY <1>3, <3>1 DEF Stage, News
    <3>3. QED
      BY <2>2, <3>2 DEF Settled
  <2>6. QED
    BY <2>3, <2>4, <2>5 DEF ZInv
<1>4. QED
  BY <1>2, <1>3

(* Whatever the task is, a warning is due only for a location.             *)
LEMMA WriteStage ==
  ASSUME ZInv, NEW t \in Task, At(t, "write")
  PROVE  /\ t \in Working /\ task[t].kind \in Kind
         /\ task[t].kind # "location" => task[t].warning = "none"
         /\ task[t].kind = "login" => task[t].new = Unknown
         /\ ~disturbed => Working = {t} /\ Stage(t)
BY DEF ZInv, TypeOK, Framed, Settled, At, Working

LEMMA WriteRowZInv ==
  ASSUME ZInv, NEW t \in Task, WriteRow(t)
  PROVE  ZInv'
<1>1. PICK w : w = task[t].warning
  OBVIOUS
<1>2. /\ At(t, "write") /\ AfterWrite(t) /\ fences' = fences /\ ef' = task[t].new
      /\ ef' \in Zone /\ last' \in Zone /\ told' \in {told, "none"}
      /\ missed' \in BOOLEAN /\ astray' \in BOOLEAN /\ disturbed' \in BOOLEAN
  BY DEF WriteRow, ZInv, TypeOK, Zone
<1>3. ~disturbed' => Working = {t}
  BY <1>2, WriteStage DEF WriteRow, Alone
<1>4. CASE task[t].kind = "login"
  <2>1. w = "none" /\ ef' = Unknown /\ last' = Unknown /\ told' = "none"
    BY <1>1, <1>2, <1>4, WriteStage DEF WriteRow
  <2>2. Level'
    BY <2>1 DEF Level, ToldAgrees
  <2>3. QED
    BY <1>1, <1>2, <1>3, <2>1, <2>2, WrittenZInv
<1>5. CASE task[t].kind # "login"
  <2>1. UNCHANGED <<last, told, missed, astray, disturbed>>
    BY <1>5 DEF WriteRow, ZInv, TypeOK
  <2>2. ASSUME ~disturbed, task[t].kind = "row"
        PROVE  w = "none" /\ Level'
    <3>1. Level /\ ef' = ef
      BY <1>2, <2>2, WriteStage DEF Stage, At
    <3>2. QED
      BY <1>1, <1>2, <2>1, <2>2, <3>1, LevelStays, WriteStage
  <2>3. ASSUME ~disturbed, task[t].kind = "location"
        PROVE  /\ w = "none" => Level'
               /\ w # "none" =>
                    /\ ~missed' => ef' = last'
                    /\ ef' # Unknown /\ Direction(w) \in {"in", "out"}
                    /\ missed' <=> (Direction(w) = "in" <=> ef' \notin {Home, School})
                    /\ News(w)'
    <3>1. /\ ef' = last /\ ~missed
          /\ w = "none" => ToldAgrees(task[t].new)
          /\ Crosses(w, ef, task[t].new) /\ News(w)
      BY <1>1, <1>2, <2>3, WriteStage DEF Stage, At
    <3>2. News(w)' /\ (w = "none" => Level')
      BY <1>2, <2>1, <3>1 DEF News, Level, ToldAgrees
    <3>3. QED
      BY <1>2, <2>1, <3>1, <3>2 DEF Crosses
  <2>4. task[t].kind \in {"row", "location"}
    BY <1>2, <1>5, WriteStage DEF Kind
  <2>5. w = "none" /\ ~disturbed' => Level'
    BY <2>1, <2>2, <2>3, <2>4
  <2>6. w # "none" /\ ~disturbed' =>
          /\ ~missed' => ef' = last'
          /\ ef' # Unknown /\ Direction(w) \in {"in", "out"}
          /\ missed' <=> (Direction(w) = "in" <=> ef' \notin {Home, School})
          /\ News(w)'
    BY <2>1, <2>2, <2>3, <2>4
  <2>7. QED
    BY <1>1, <1>2, <1>3, <2>5, <2>6, WrittenZInv
<1>6. QED
  BY <1>4, <1>5

LEMMA WriteFailsZInv ==
  ASSUME ZInv, NEW t \in Task, WriteFails(t)
  PROVE  ZInv'
<1>1. PICK w : w = task[t].warning
  OBVIOUS
<1>2. /\ At(t, "write") /\ AfterWrite(t)
      /\ UNCHANGED <<ef, fences, last, told, astray, disturbed>>
      /\ missed' = (missed \/ task[t].kind = "location")
  BY DEF WriteFails
<1>3. /\ ef' \in Zone /\ last' \in Zone
      /\ missed' \in BOOLEAN /\ astray' \in BOOLEAN /\ disturbed' \in BOOLEAN
  BY <1>2 DEF ZInv, TypeOK
<1>4. ~disturbed' => Working = {t} /\ Stage(t)
  BY <1>2, WriteStage
<1>5. ASSUME ~disturbed, w = "none" PROVE Level'
  <2>1. ToldAgrees(ef)
    BY <1>2, <1>4, <1>5 DEF Stage, Level, At
  <2>2. task[t].kind # "location" => (~missed => ef = last)
    BY <1>2, <1>4, <1>5 DEF Stage, Level, At
  <2>3. QED
    BY <1>2, <2>1, <2>2 DEF Level, ToldAgrees
<1>6. ASSUME ~disturbed, w # "none"
      PROVE  /\ ~missed' => ef' = last'
             /\ ef' # Unknown /\ Direction(w) \in {"in", "out"}
             /\ missed' <=> (Direction(w) = "in" <=> ef' \notin {Home, School})
             /\ News(w)'
  <2>1. task[t].kind = "location"
    BY <1>1, <1>2, <1>6, WriteStage
  <2>2. Crosses(w, ef, task[t].new) /\ News(w)
    BY <1>1, <1>2, <1>4, <1>6, <2>1 DEF Stage, At
  <2>3. News(w)' /\ missed'
    BY <1>2, <2>1, <2>2 DEF News
  <2>4. QED
    BY <1>2, <1>6, <2>2, <2>3 DEF Crosses
<1>7. QED
  BY <1>1, <1>2, <1>3, <1>4, <1>5, <1>6, WrittenZInv

LEMMA WarnZInv ==
  ASSUME ZInv, NEW t \in Task, Warn(t)
  PROVE  ZInv'
<1>1. PICK w : w = task[t].warning
  OBVIOUS
<1>2. /\ t \in Working /\ task[t].pc = "warn"
      /\ UNCHANGED <<ef, fences, last, missed, disturbed>> /\ astray' = missed
      /\ told' \in {"none", Direction(w)}
  BY <1>1 DEF Warn, At, Working
<1>3. task' = [task EXCEPT ![t] = NoTask] /\ NoTask.pc = "idle" /\ NoTask.warning = "none"
  BY DEF Warn, End, NoTask
<1>4. /\ task'[t] = NoTask
      /\ \A u \in Task : u # t => task'[u] = task[u]
      /\ Working' = Working \ {t}
  BY <1>3, OneFrame
<1>5. TypeOK'
  BY <1>2, <1>3, IdleFrame DEF ZInv, TypeOK, Direction
<1>6. Framed'
  BY <1>3, <1>4 DEF ZInv, Framed
<1>7. Settled'
  <2> SUFFICES ASSUME ~disturbed PROVE Settled'
    BY <1>2 DEF Settled
  <2>1. Working' = {} /\ Stage(t)
    BY <1>2, <1>4 DEF ZInv, Settled
  <2>2. /\ ~missed => ef = last
        /\ ef # Unknown /\ Direction(w) \in {"in", "out"}
        /\ missed <=> (Direction(w) = "in" <=> ef \notin {Home, School})
    BY <1>1, <1>2, <2>1 DEF Stage
  <2>3. ToldAgrees(ef)'
    BY <1>2, <2>2 DEF ToldAgrees
  <2>4. Level'
    BY <1>2, <2>2, <2>3 DEF Level
  <2>5. QED
    BY <2>1, <2>4 DEF Settled
<1>8. QED
  BY <1>5, <1>6, <1>7 DEF ZInv

LEMMA UnchangedZInv ==
  ASSUME ZInv, fences' \in FenceLists, UNCHANGED <<ef, task, history>>
  PROVE  ZInv'
<1>1. Working' = Working
  BY DEF Working
<1>2. TypeOK' /\ Framed'
  BY DEF ZInv, TypeOK, Framed, history
<1>3. Settled'
  BY <1>1 DEF ZInv, Settled, Stage, Level, ToldAgrees, Crosses, News, history
<1>4. QED
  BY <1>2, <1>3 DEF ZInv

LEMMA NextZInv == ZInv /\ [Next]_vars => ZInv'
<1> SUFFICES ASSUME ZInv, [Next]_vars PROVE ZInv'
  OBVIOUS
<1>1. ASSUME NEW t \in Task, NEW k \in Kind, Start(t, k) PROVE ZInv'
  BY <1>1, StartZInv
<1>2. ASSUME NEW t \in Task, ReadRow(t) PROVE ZInv'
  BY <1>2, ReadRowZInv
<1>3. ASSUME NEW t \in Task, ReadFails(t) \/ NoPosition(t) \/ NotHandled(t) PROVE ZInv'
  BY <1>3, StopsZInv
<1>4. ASSUME NEW t \in Task, ListFences(t) PROVE ZInv'
  <2>1. fences \in Seq(Fence)
    BY FenceAssumption DEF ZInv, TypeOK
  <2>2. QED
    BY <1>4, <2>1, ListZInv DEF ListFences
<1>5. ASSUME NEW t \in Task, NEW n \in 0 .. Len(fences) - 1, ListSome(t, n) PROVE ZInv'
  BY <1>5, SomeFences, ListZInv DEF ListSome
<1>6. ASSUME NEW t \in Task, WriteRow(t) PROVE ZInv'
  BY <1>6, WriteRowZInv
<1>7. ASSUME NEW t \in Task, WriteFails(t) PROVE ZInv'
  BY <1>7, WriteFailsZInv
<1>8. ASSUME NEW t \in Task, Warn(t) PROVE ZInv'
  BY <1>8, WarnZInv
<1>9. ASSUME NEW t \in Task, NEW inside \in SUBSET DOMAIN task[t].list, Decide(t, inside)
      PROVE  ZInv'
  BY <1>9, DecideZInv
<1>10. ASSUME NEW list \in FenceLists, Configure(list) PROVE ZInv'
  BY <1>10, UnchangedZInv DEF Configure
<1>11. CASE UNCHANGED vars
  BY <1>11, UnchangedZInv DEF vars, history, ZInv, TypeOK
<1>12. QED
  BY <1>1, <1>2, <1>3, <1>4, <1>5, <1>6, <1>7, <1>8, <1>9, <1>10, <1>11 DEF Next

(* The inductive invariant of the alarms: where the only task of an        *)
(* undisturbed device stands says what ef, the last zone and the last      *)
(* warning have to do with one another.                                    *)
THEOREM AlarmInvariant == Spec => []ZInv
<1>1. Init => ZInv
  BY InitZInv
<1>2. ZInv /\ [Next]_vars => ZInv'
  BY NextZInv
<1>3. QED
  BY <1>1, <1>2, PTL DEF Spec

(* The variables keep their types.                                         *)
THEOREM AlarmTypeCorrect == Spec => []TypeOK
BY AlarmInvariant, PTL DEF ZInv

(* controlSMS: between two tasks ef is the zone of the last location,      *)
(* unless that very location had no branch or its row was not written.     *)
THEOREM EfTracksTheZone == Spec => []EfIsLastZone
<1>1. ZInv => EfIsLastZone
  BY DEF ZInv, Settled, Level, EfIsLastZone
<1>2. QED
  BY <1>1, AlarmInvariant, PTL

(* controlSMS and returnMessage: ef says what the last warning said, or,   *)
(* exactly when the row was not written for it, the opposite.              *)
THEOREM WarningsTellTheZone == Spec => []ToldMatchesZone
<1>1. ZInv => ToldMatchesZone
  BY DEF ZInv, Settled, Level, ToldAgrees, ToldMatchesZone
<1>2. QED
  BY <1>1, AlarmInvariant, PTL

(* returnMessage: a warning repeats the direction of the last one exactly  *)
(* when the row was not written for that one.                              *)
THEOREM OnlyAstrayRepeats == Spec => WarningsAlternate
<1>1. ZInv /\ [Next]_vars
      => [\A t \in Task : At(t, "warn") /\ ~At(t, "warn")' /\ ~disturbed /\ told # "none"
            => (told = Direction(task[t].warning) <=> astray)]_vars
  <2> SUFFICES ASSUME ZInv, NEW t \in Task, At(t, "warn"), ~disturbed, told # "none"
               PROVE  told = Direction(task[t].warning) <=> astray
    OBVIOUS
  <2>1. t \in Working
    BY DEF At, Working
  <2>2. News(task[t].warning) /\ task[t].warning # "none"
    BY <2>1 DEF ZInv, Settled, Stage, Framed, At
  <2>3. QED
    BY <2>2 DEF News
<1>2. QED
  BY <1>1, AlarmInvariant, PTL DEF Spec, WarningsAlternate

=============================================================================
