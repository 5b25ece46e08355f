-------------------------- MODULE FenceRecord_proofs --------------------------
(***************************************************************************)
(* Proofs for module FenceRecord: the types, and the three promises about  *)
(* what is recorded and pushed, for every list of fences, every set of     *)
(* places and any number of tasks.                                         *)
(***************************************************************************)
EXTENDS FenceRecord, TLAPS

(* What a task may be doing: without fences it is in the part that stores  *)
(* and pushes, with fences it is at one of them, and it asks mapCheck for  *)
(* the address of a cell only.                                             *)
TaskOK(k) ==
  /\ k \in [pc : TaskPc, place : Place, list : Seq(Fence), i : Nat \ {0},
            prior : Side \cup {"none"}, status : Status, duplicate : BOOLEAN, fresh : BOOLEAN]
  /\ \/ k.pc = "idle"
     \/ k.list = <<>> /\ k.pc \in {"duplicate", "mark", "insert"} /\ k.status = 0
     \/ k.i \in 1 .. Len(k.list)
  /\ k.pc = "mark" => k.place.address # Gps

Types ==
  /\ fences \in FenceLists
  /\ row \in [Fence -> Side \cup {"none"}] /\ hash \in [Fence -> Side \cup {"none"}]
  /\ check \in Address \cup {NoAddress}
  /\ DOMAIN task = Task /\ \A t \in Task : TaskOK(task[t])
  /\ failures \in 0 .. MaxFailures
  /\ pushed \in [Fence -> {"none", "in", "out"}]

(* A task has the maps and the table to itself unless tasks overlapped. *)
Solo == ~overlapped => \A t, u \in Working : t = u

FenceAt(k) == k.list[k.i]
SideAt(k) == k.place.side[FenceAt(k)]

(* What such a task k holds of the fence it is at agrees with the row ...  *)
FenceSeen(k) ==
  k.list # <<>> =>
    /\ k.pc = "store" => k.prior = row[FenceAt(k)]
    /\ k.pc = "check" /\ row[FenceAt(k)] # "none" => hash[FenceAt(k)] = row[FenceAt(k)]
    /\ k.pc \in {"duplicate", "mark", "insert"} /\ row[FenceAt(k)] # "none" =>
         k.status = CheckExist(row[FenceAt(k)], SideAt(k))
    /\ k.pc \in {"duplicate", "mark", "insert"} =>
         (k.status = 1 => SideAt(k) = "in") /\ (k.status = 3 => SideAt(k) = "out")
    /\ k.pc = "push" =>
         /\ row[FenceAt(k)] = SideAt(k)
         /\ \/ k.status = 1 /\ SideAt(k) = "in"
            \/ k.status = 3 /\ SideAt(k) = "out"

(* ... mapCheck holds the address it has asked for, ...                    *)
AddressAsked(k) ==
  k.place.address # Gps /\ k.pc \in {"insert", "push"} => check = k.place.address

(* ... and a location from GPS is recorded of the fences it is through with*)
GpsSoFar(k) ==
  k.place.address = Gps =>
    \A j \in DOMAIN k.list :
      j < k.i \/ (j = k.i /\ k.pc = "push") => row[k.list[j]] = k.place.side[k.list[j]]

Seen ==
  ~overlapped => \A t \in Working :
    FenceSeen(task[t]) /\ AddressAsked(task[t]) /\ GpsSoFar(task[t])

(* The last push of a fence agrees with its row but while the next one is  *)
(* on its way.                                                             *)
PushAgrees ==
  ~overlapped => \A f \in Fence : pushed[f] # "none" =>
    \/ row[f] = pushed[f]
    \/ \E t \in Working : task[t].list # <<>> /\ At(t, "push") /\ FenceOf(t) = f

(* While nothing excuses it: the first fence's row goes with the address   *)
(* last asked for, or a new address has been found and is to be recorded.  *)
RowOfAddress ==
  Determined(fences[1]) =>
    \A p \in Place : p.address = check => row[fences[1]] = p.side[fences[1]]

Renewing(k) == k.pc = "insert" /\ k.i = 1

Follows(k) ==
  /\ k.list = fences /\ k.place.address # Gps
  /\ k.pc = "mark" => (k.duplicate <=> check = k.place.address)
  /\ k.i > 1 => check = k.place.address

AddressFollowed ==
  ~excused =>
    /\ ~overlapped /\ fences # <<>> /\ check \in Address
    /\ \A t \in Working : Follows(task[t])
    /\ (\A t \in Working : ~Renewing(task[t])) => RowOfAddress

FRInv ==
  /\ Types /\ Solo /\ Seen /\ PushAgrees /\ AddressFollowed
  /\ FilterLosesNoCrossing /\ GpsIsRecorded

-----------------------------------------------------------------------------
(* Types. *)

LEMMA NoTaskOK ==
  /\ TaskOK(NoTask) /\ NoTask.pc = "idle" /\ NoTask.list = <<>>
  /\ NoTask.i = 1 /\ NoTask.status = 0
<1>1. NoTask.place \in Place
  <2>1. Place # {}
    BY FenceAssumption DEF FenceAssumption
  <2>2. (CHOOSE p \in Place : TRUE) \in Place
    BY <2>1, Zenon
  <2> QED
    BY <2>2 DEF NoTask
<1> QED
  BY <1>1 DEF NoTask, TaskOK, TaskPc, Status

(* A task at work, and the fence it is at. *)
LEMMA AtFence ==
  ASSUME Types, NEW t \in Task
  PROVE  /\ TaskOK(task[t])
         /\ task[t].place \in Place /\ AddressOf(t) \in Address \cup {Gps}
         /\ fences \in Seq(Fence) /\ task[t].list \in Seq(Fence)
         /\ task[t].i \in DOMAIN task[t].list => FenceOf(t) \in Fence /\ SideOf(t) \in Side
         /\ task[t].pc \notin {"idle", "duplicate", "mark", "insert"} =>
              task[t].list # <<>> /\ task[t].i \in DOMAIN task[t].list
         /\ task[t].pc # "idle" /\ task[t].list # <<>> => task[t].i \in DOMAIN task[t].list
<1>1. TaskOK(task[t]) /\ task[t].place \in Place /\ task[t].list \in Seq(Fence)
  BY DEF Types, TaskOK
<1>2. AddressOf(t) \in Address \cup {Gps} /\ task[t].place.side \in [Fence -> Side]
  BY <1>1, FenceAssumption DEF FenceAssumption, AddressOf
<1>3. fences \in Seq(Fence) /\ task[t].list \in Seq(Fence)
  <2>1. FenceLists \subseteq Seq(Fence) /\ fences \in FenceLists
    BY FenceAssumption DEF FenceAssumption, Types
  <2> QED
    BY <1>1, <2>1
<1>4. task[t].i \in DOMAIN task[t].list => FenceOf(t) \in Fence /\ SideOf(t) \in Side
  BY <1>2, <1>3 DEF FenceOf, SideOf
<1>5. DOMAIN task[t].list = 1 .. Len(task[t].list)
  BY <1>3
<1> QED
  BY <1>1, <1>2, <1>3, <1>4, <1>5 DEF TaskOK

(* Only t's record changes, to k. *)
Becomes(t, k) == task' = [task EXCEPT ![t] = k]

LEMMA BecomesTypes ==
  ASSUME Types, NEW t \in Task, NEW k, Becomes(t, k), TaskOK(k)
  PROVE  DOMAIN task' = Task /\ \A u \in Task : TaskOK(task'[u])
  BY DEF Types, Becomes

(* Continue: the next fence, or the end. *)
Next1(t) == [NoTask EXCEPT !.pc = "query", !.place = task[t].place, !.list = task[t].list,
                           !.i = task[t].i + 1, !.fresh = task[t].fresh]

LEMMA ContinueFacts ==
  ASSUME Types, NEW t \in Task, task[t].pc # "idle", Continue(t)
  PROVE  \/ /\ task[t].i \in 1 .. Len(task[t].list) /\ task[t].i + 1 \in 1 .. Len(task[t].list)
            /\ Becomes(t, Next1(t)) /\ TaskOK(Next1(t)) /\ UNCHANGED last
         \/ /\ Becomes(t, NoTask) /\ TaskOK(NoTask)
            /\ task[t].list # <<>> => task[t].i = Len(task[t].list)
            /\ last' = IF task[t].list = <<>> \/ Working # {t} THEN NothingHandled
                       ELSE [place |-> task[t].place, list |-> task[t].list]
<1>1. /\ TaskOK(task[t]) /\ task[t].list \in Seq(Fence) /\ task[t].i \in Nat \ {0}
      /\ task[t].list # <<>> => task[t].i \in 1 .. Len(task[t].list)
  BY AtFence DEF TaskOK
<1>2. CASE task[t].i < Len(task[t].list)
  <2>1. task[t].i \in 1 .. Len(task[t].list) /\ task[t].i + 1 \in 1 .. Len(task[t].list)
    BY <1>1, <1>2
  <2>2. Becomes(t, Next1(t)) /\ UNCHANGED last
    BY <1>2 DEF Continue, Becomes, Next1
  <2>3. TaskOK(Next1(t))
    <3>1. task[t].i + 1 \in Nat \ {0}
      BY <2>1
    <3>2. /\ NoTask \in [pc : TaskPc, place : Place, list : Seq(Fence), i : Nat \ {0},
                         prior : Side \cup {"none"}, status : Status, duplicate : BOOLEAN,
                         fresh : BOOLEAN]
          /\ task[t].place \in Place /\ task[t].list \in Seq(Fence)
          /\ task[t].fresh \in BOOLEAN
      BY <1>1, NoTaskOK DEF TaskOK
    <3>3. Next1(t) \in [pc : TaskPc, place : Place, list : Seq(Fence), i : Nat \ {0},
                        prior : Side \cup {"none"}, status : Status, duplicate : BOOLEAN,
                        fresh : BOOLEAN]
      BY <3>1, <3>2 DEF Next1, TaskPc
    <3>4. Next1(t).i \in 1 .. Len(Next1(t).list) /\ Next1(t).pc = "query"
      BY <2>1, <3>2 DEF Next1
    <3> QED
      BY <3>3, <3>4 DEF TaskOK
  <2> QED
    BY <2>1, <2>2, <2>3
<1>3. CASE ~(task[t].i < Len(task[t].list))
  <2>1. task[t].list # <<>> => task[t].i = Len(task[t].list)
    BY <1>1, <1>3
  <2> QED
    BY <1>3, <2>1, NoTaskOK DEF Continue, Becomes
<1> QED
  BY <1>2, <1>3

LEMMA TypesInit == Init => Types
<1> SUFFICES ASSUME Init PROVE Types
  OBVIOUS
<1>1. fences \in FenceLists /\ failures \in 0 .. MaxFailures
  BY FenceAssumption DEF Init, FenceAssumption
<1>2. DOMAIN task = Task /\ \A t \in Task : TaskOK(task[t])
  BY NoTaskOK DEF Init
<1> QED
  BY <1>1, <1>2 DEF Init, Types

LEMMA TypesStep ==
  ASSUME Types, [Next]_vars
  PROVE  Types'
<1>1. CASE UNCHANGED vars
  BY <1>1 DEF vars, Types
<1>2. ASSUME NEW t \in Task, NEW p \in Place, NEW list \in Seq(Fence), Begin(t, p, list),
             failures' \in 0 .. MaxFailures
      PROVE  Types'
  <2> DEFINE k == [NoTask EXCEPT !.pc = IF list = <<>> THEN "duplicate" ELSE "query",
                                 !.place = p, !.list = list]
  <2>1. Becomes(t, k)
    BY <1>2 DEF Begin, Becomes
  <2>2. TaskOK(k)
    <3>1. list # <<>> => 1 \in 1 .. Len(list)
      OBVIOUS
    <3> QED
      BY <3>1, NoTaskOK DEF TaskOK, TaskPc
  <2>3. pushed' \in [Fence -> {"none", "in", "out"}]
    BY <1>2 DEF Begin, Types
  <2>4. UNCHANGED <<fences, row, hash, check>>
    BY <1>2 DEF Begin
  <2> QED
    BY <1>2, <2>1, <2>2, <2>3, <2>4, BecomesTypes DEF Types
<1>13. ASSUME NEW t \in Task, NEW p \in Place, Start(t, p) PROVE Types'
  BY <1>2, <1>13, AtFence DEF Start, Types
<1>14. ASSUME NEW t \in Task, NEW p \in Place, NEW n \in 0 .. Len(fences) - 1, StartSome(t, p, n)
       PROVE  Types'
  <2>1. SubSeq(fences, 1, n) \in Seq(Fence)
    BY AtFence
  <2>2. failures' \in 0 .. MaxFailures
    BY <1>14, FenceAssumption DEF StartSome, Types, FenceAssumption
  <2> QED
    BY <1>2, <1>14, <2>1, <2>2 DEF StartSome
<1>3. ASSUME NEW t \in Task, Query(t) PROVE Types'
  <2> DEFINE k == [task[t] EXCEPT !.pc = "store", !.prior = row[FenceOf(t)]]
  <2>1. /\ Becomes(t, k) /\ UNCHANGED <<fences, row, hash, check, failures, pushed>>
        /\ task[t].pc = "query"
    BY <1>3 DEF Query, Becomes, At
  <2>2. TaskOK(k)
    BY <2>1, AtFence DEF Types, TaskOK, TaskPc
  <2> QED
    BY <2>1, <2>2, BecomesTypes DEF Types
<1>4. ASSUME NEW t \in Task, Store(t) PROVE Types'
  <2> DEFINE k == [task[t] EXCEPT !.pc = "check", !.prior = "none"]
  <2>1. /\ Becomes(t, k) /\ UNCHANGED <<fences, row, check, failures, pushed>>
        /\ task[t].pc = "store"
    BY <1>4 DEF Store, Becomes, At
  <2>2. TaskOK(k)
    BY <2>1, AtFence DEF Types, TaskOK, TaskPc
  <2>3. hash' \in [Fence -> Side \cup {"none"}]
    BY <1>4, <2>1, AtFence DEF Store, Types, TaskOK
  <2> QED
    BY <2>1, <2>2, <2>3, BecomesTypes DEF Types
<1>5. ASSUME NEW t \in Task, Compare(t) PROVE Types'
  <2> DEFINE k == [task[t] EXCEPT !.pc = "duplicate",
                                  !.status = CheckExist(hash[FenceOf(t)], SideOf(t))]
  <2>1. /\ Becomes(t, k) /\ UNCHANGED <<fences, row, hash, check, failures, pushed>>
        /\ task[t].pc = "check"
    BY <1>5 DEF Compare, Becomes, At
  <2>2. CheckExist(hash[FenceOf(t)], SideOf(t)) \in Status
    BY DEF CheckExist, Status
  <2>3. TaskOK(k)
    BY <2>1, <2>2, AtFence DEF Types, TaskOK, TaskPc
  <2> QED
    BY <2>1, <2>3, BecomesTypes DEF Types
<1>6. ASSUME NEW t \in Task, Duplicate(t) PROVE Types'
  <2>1. /\ UNCHANGED <<fences, row, hash, check, failures, pushed>>
        /\ task[t].pc = "duplicate"
    BY <1>6 DEF Duplicate, At
  <2>2. \/ Becomes(t, [task[t] EXCEPT !.pc = "insert"])
        \/ AddressOf(t) # Gps
           /\ Becomes(t, [task[t] EXCEPT !.pc = "mark", !.duplicate = check = AddressOf(t)])
    BY <1>6 DEF Duplicate, Becomes
  <2>3. TaskOK([task[t] EXCEPT !.pc = "insert"])
        /\ (AddressOf(t) # Gps
            => TaskOK([task[t] EXCEPT !.pc = "mark", !.duplicate = check = AddressOf(t)]))
    BY <2>1, AtFence DEF TaskOK, TaskPc, AddressOf
  <2> QED
    BY <2>1, <2>2, <2>3, BecomesTypes DEF Types
<1>7. ASSUME NEW t \in Task, Mark(t) PROVE Types'
  <2>1. /\ UNCHANGED <<fences, row, hash, failures, pushed>> /\ check' \in {check, AddressOf(t)}
        /\ task[t].pc = "mark"
    BY <1>7 DEF Mark, At
  <2>2. Continue(t) \/ Becomes(t, [task[t] EXCEPT !.pc = "insert", !.fresh = TRUE])
    BY <1>7 DEF Mark, Becomes
  <2>3. TaskOK([task[t] EXCEPT !.pc = "insert", !.fresh = TRUE])
    BY <2>1, AtFence DEF TaskOK, TaskPc
  <2>4. AddressOf(t) \in Address
    BY <2>1, AtFence DEF TaskOK, AddressOf
  <2> QED
    BY <2>1, <2>2, <2>3, <2>4, BecomesTypes, ContinueFacts DEF Types
<1>8. ASSUME NEW t \in Task, Insert(t) PROVE Types'
  <2>1. UNCHANGED <<fences, hash, check, failures>> /\ task[t].pc = "insert"
    BY <1>8 DEF Insert, At
  <2>2. Continue(t) \/ (task[t].list # <<>> /\ Becomes(t, [task[t] EXCEPT !.pc = "push"]))
    BY <1>8 DEF Insert, Becomes
  <2>3. task[t].list # <<>> => TaskOK([task[t] EXCEPT !.pc = "push"])
    BY <2>1, AtFence DEF TaskOK, TaskPc
  <2>4. row' \in [Fence -> Side \cup {"none"}] /\ pushed' \in [Fence -> {"none", "in", "out"}]
    BY <1>8, <2>1, AtFence DEF Insert, Types
  <2> QED
    BY <2>1, <2>2, <2>3, <2>4, BecomesTypes, ContinueFacts DEF Types
<1>9. ASSUME NEW t \in Task, Push(t) PROVE Types'
  <2>1. UNCHANGED <<fences, row, hash, check, failures>> /\ task[t].pc = "push" /\ Continue(t)
    BY <1>9 DEF Push, At
  <2>2. pushed' \in [Fence -> {"none", "in", "out"}]
    BY <1>9, <2>1, AtFence DEF Push, Types
  <2> QED
    BY <2>1, <2>2, BecomesTypes, ContinueFacts DEF Types
<1>10. ASSUME NEW t \in Task, DbFails(t) PROVE Types'
  <2>1. Becomes(t, NoTask) /\ UNCHANGED <<fences, row, hash, check, pushed>>
    BY <1>10 DEF DbFails, Becomes
  <2>2. failures' \in 0 .. MaxFailures
    BY <1>10, FenceAssumption DEF DbFails, Types, FenceAssumption
  <2> QED
    BY <2>1, <2>2, NoTaskOK, BecomesTypes DEF Types
<1>11. ASSUME NEW list \in FenceLists, Configure(list) PROVE Types'
  BY <1>11 DEF Configure, Types
<1>12. CASE Restart
  <2>1. DOMAIN task' = Task /\ \A t \in Task : TaskOK(task'[t])
    BY <1>12, NoTaskOK DEF Restart
  <2> QED
    BY <1>12, <2>1 DEF Restart, Types
<1> QED
  BY <1>1, <1>3, <1>4, <1>5, <1>6, <1>7, <1>8, <1>9, <1>10, <1>11, <1>12, <1>13, <1>14 DEF Next

-----------------------------------------------------------------------------
(* One task at a time. *)

Rest == Solo /\ Seen /\ PushAgrees /\ AddressFollowed /\ FilterLosesNoCrossing /\ GpsIsRecorded

LEMMA FRInvIs == FRInv <=> Types /\ Rest
  BY DEF FRInv, Rest

LEMMA RestInit == Init => Rest
<1> SUFFICES ASSUME Init PROVE Rest
  OBVIOUS
<1>1. Working = {}
  BY NoTaskOK DEF Init, Working
<1>2. Solo /\ Seen /\ PushAgrees /\ AddressFollowed
  BY <1>1 DEF Solo, Seen, PushAgrees, AddressFollowed, Init
<1>3. FilterLosesNoCrossing /\ GpsIsRecorded
  BY DEF Init, NothingHandled, FilterLosesNoCrossing, GpsIsRecorded
<1> QED
  BY <1>2, <1>3 DEF Rest

(* When tasks overlap there is nothing to show. *)
LEMMA Overlapping ==
  ASSUME overlapped', excused'
  PROVE  Rest'
  BY DEF Rest, Solo, Seen, PushAgrees, AddressFollowed, FilterLosesNoCrossing, GpsIsRecorded

(* A step of the only task. *)
LEMMA OneTask ==
  ASSUME Types, Solo, ~overlapped, NEW t \in Task, task[t].pc # "idle", NEW k, Becomes(t, k)
  PROVE  /\ Working = {t} /\ task'[t] = k
         /\ k.pc # "idle" => Working' = {t}
         /\ k.pc = "idle" => Working' = {}
<1>1. t \in Working /\ \A u \in Working : u = t
  BY DEF Solo, Working
<1>2. task'[t] = k /\ \A u \in Task : u # t => task'[u] = task[u]
  BY DEF Becomes, Types
<1>3. Working' = {u \in Task : task'[u].pc # "idle"}
  BY DEF Working
<1>4. \A u \in Task : u # t => task'[u].pc = "idle"
  BY <1>1, <1>2 DEF Working
<1> QED
  BY <1>1, <1>2, <1>3, <1>4

(* While it is at work, nothing is claimed of the last location, and the   *)
(* rest is about this task.                                                *)
LEMMA GoesOn ==
  ASSUME Types, Rest, ~overlapped, UNCHANGED <<overlapped, fences>>,
         NEW t \in Task, task[t].pc # "idle", NEW k, Becomes(t, k), k.pc # "idle",
         FenceSeen(k)', AddressAsked(k)', GpsSoFar(k)',
         \A f \in Fence : pushed'[f] # "none" =>
           row'[f] = pushed'[f] \/ (k.list # <<>> /\ k.pc = "push" /\ FenceAt(k) = f),
         ~excused' => /\ fences # <<>> /\ check' \in Address /\ Follows(k)'
                      /\ ~Renewing(k) => RowOfAddress'
  PROVE  Rest'
<1>1. Working' = {t} /\ task'[t] = k
  BY OneTask DEF Rest
<1>2. Solo'
  BY <1>1 DEF Solo
<1>3. Seen'
  BY <1>1 DEF Seen, FenceSeen, FenceAt, SideAt, AddressAsked, GpsSoFar
<1>4. PushAgrees'
  BY <1>1 DEF PushAgrees, At, FenceOf, FenceAt
<1>5. AddressFollowed'
  BY <1>1 DEF AddressFollowed, Follows, Renewing
<1>6. FilterLosesNoCrossing' /\ GpsIsRecorded'
  BY <1>1 DEF FilterLosesNoCrossing, GpsIsRecorded
<1> QED
  BY <1>2, <1>3, <1>4, <1>5, <1>6 DEF Rest

(* When it ends. *)
LEMMA Ends ==
  ASSUME Types, Rest, ~overlapped, UNCHANGED <<overlapped, fences>>,
         NEW t \in Task, task[t].pc # "idle", NEW k, Becomes(t, k), k.pc = "idle",
         \A f \in Fence : pushed'[f] # "none" => row'[f] = pushed'[f],
         ~excused' => fences # <<>> /\ check' \in Address /\ RowOfAddress',
         FilterLosesNoCrossing', GpsIsRecorded'
  PROVE  Rest'
<1>1. Working' = {}
  BY OneTask DEF Rest
<1>2. Solo' /\ Seen'
  BY <1>1 DEF Solo, Seen
<1>3. PushAgrees'
  BY <1>1 DEF PushAgrees
<1>4. AddressFollowed'
  BY <1>1 DEF AddressFollowed
<1> QED
  BY <1>2, <1>3, <1>4 DEF Rest

(* What such a task may rely on. *)
LEMMA Alone ==
  ASSUME Types, Rest, ~overlapped, NEW t \in Task, task[t].pc # "idle"
  PROVE  /\ FenceSeen(task[t]) /\ AddressAsked(task[t]) /\ GpsSoFar(task[t])
         /\ \A f \in Fence : pushed[f] # "none" =>
              row[f] = pushed[f]
              \/ (task[t].list # <<>> /\ task[t].pc = "push" /\ FenceAt(task[t]) = f)
         /\ ~excused => /\ fences # <<>> /\ check \in Address /\ Follows(task[t])
                        /\ ~Renewing(task[t]) => RowOfAddress
<1>1. t \in Working /\ \A u \in Working : u = t
  BY DEF Rest, Solo, Working
<1>2. FenceSeen(task[t]) /\ AddressAsked(task[t]) /\ GpsSoFar(task[t])
  BY <1>1 DEF Rest, Seen
<1>3. \A f \in Fence : pushed[f] # "none" =>
        row[f] = pushed[f]
        \/ (task[t].list # <<>> /\ task[t].pc = "push" /\ FenceAt(task[t]) = f)
  BY <1>1 DEF Rest, PushAgrees, At, FenceOf, FenceAt
<1>4. ~excused => /\ fences # <<>> /\ check \in Address /\ Follows(task[t])
                  /\ ~Renewing(task[t]) => RowOfAddress
  BY <1>1 DEF Rest, AddressFollowed
<1> QED
  BY <1>2, <1>3, <1>4

(* It goes on to the next fence, or ends. *)
LEMMA ContinueRest ==
  ASSUME Types, Rest, ~overlapped, UNCHANGED <<overlapped, fences>>,
         NEW t \in Task, task[t].pc # "idle", Continue(t),
         \A f \in Fence : pushed'[f] # "none" => row'[f] = pushed'[f],
         AddressOf(t) = Gps =>
           \A j \in DOMAIN task[t].list :
             j <= task[t].i => row'[task[t].list[j]] = task[t].place.side[task[t].list[j]],
         ~excused' => /\ fences # <<>> /\ task[t].list = fences /\ AddressOf(t) # Gps
                      /\ check' = AddressOf(t) /\ check' \in Address /\ RowOfAddress'
  PROVE  Rest'
<1>0. /\ task[t].list \in Seq(Fence) /\ task[t].place \in Place
      /\ task[t].i \in Nat \ {0} /\ DOMAIN task[t].list = 1 .. Len(task[t].list)
  BY AtFence DEF TaskOK
<1>1. CASE /\ task[t].i \in 1 .. Len(task[t].list) /\ Becomes(t, Next1(t))
  <2>0. PICK k : k = Next1(t)
    OBVIOUS
  <2>1. /\ k.pc = "query" /\ k.i = task[t].i + 1 /\ k.list = task[t].list
        /\ k.place = task[t].place
    BY <2>0 DEF Next1, NoTask
  <2>2. FenceSeen(k)' /\ AddressAsked(k)' /\ (~excused' => Follows(k)')
    BY <2>1 DEF FenceSeen, AddressAsked, Follows, AddressOf
  <2>3. GpsSoFar(k)'
    <3> SUFFICES ASSUME k.place.address = Gps, NEW j \in DOMAIN k.list, j < k.i
                 PROVE  row'[k.list[j]] = k.place.side[k.list[j]]
      BY <2>1 DEF GpsSoFar
    <3>1. j <= task[t].i
      BY <1>0, <2>1
    <3> QED
      BY <2>1, <3>1 DEF AddressOf
  <2>4. Becomes(t, k) /\ ~Renewing(k)
    BY <1>1, <2>0, <2>1 DEF Renewing
  <2> QED
    BY <2>1, <2>2, <2>3, <2>4, GoesOn
<1>2. CASE /\ Becomes(t, NoTask)
           /\ task[t].list # <<>> => task[t].i = Len(task[t].list)
           /\ last' = IF task[t].list = <<>> \/ Working # {t} THEN NothingHandled
                      ELSE [place |-> task[t].place, list |-> task[t].list]
  <2>1. NoTask.pc = "idle"
    BY NoTaskOK
  <2>2. CASE task[t].list = <<>> \/ Working # {t}
    <3>1. last'.list = <<>>
      BY <1>2, <2>2 DEF NothingHandled
    <3>2. FilterLosesNoCrossing' /\ GpsIsRecorded'
      BY <3>1 DEF FilterLosesNoCrossing, GpsIsRecorded
    <3> QED
      BY <1>2, <2>1, <3>2, Ends
  <2>3. CASE ~(task[t].list = <<>> \/ Working # {t})
    <3>1. last'.list = task[t].list /\ last'.place = task[t].place
      BY <1>2, <2>3
    <3>2. GpsIsRecorded'
      <4> SUFFICES ASSUME AddressOf(t) = Gps, NEW j \in DOMAIN task[t].list
                   PROVE  row'[task[t].list[j]] = task[t].place.side[task[t].list[j]]
        BY <3>1 DEF GpsIsRecorded, AddressOf
      <4>1. j <= task[t].i
        BY <1>0, <1>2, <2>3
      <4> QED
        BY <4>1
    <3>3. FilterLosesNoCrossing'
      <4> SUFFICES ASSUME ~excused', Determined(fences[1])
                   PROVE  row'[fences[1]] = task[t].place.side[fences[1]]
        BY <3>1 DEF FilterLosesNoCrossing, Determined
      <4> QED
        BY <1>0 DEF RowOfAddress, AddressOf, Determined
    <3> QED
      BY <1>2, <2>1, <3>2, <3>3, Ends
  <2> QED
    BY <2>2, <2>3
<1> QED
  BY <1>1, <1>2, ContinueFacts

-----------------------------------------------------------------------------
(* The steps of a task. *)

LEMMA BeginRest ==
  ASSUME Types, Rest, NEW t \in Task, NEW p \in Place, NEW list \in Seq(Fence), Begin(t, p, list)
  PROVE  Rest'
<1>1. CASE Working # {}
  <2>1. overlapped' /\ excused'
    BY <1>1 DEF Begin
  <2> QED
    BY <2>1, Overlapping
<1>2. CASE Working = {}
  <2>0. PICK k : k = [NoTask EXCEPT !.pc = IF list = <<>> THEN "duplicate" ELSE "query",
                                    !.place = p, !.list = list]
    OBVIOUS
  <2>1. /\ k.pc = (IF list = <<>> THEN "duplicate" ELSE "query")
        /\ k.place = p /\ k.list = list /\ k.i = 1
    BY <2>0 DEF NoTask
  <2>2. Becomes(t, k) /\ ~overlapped' /\ UNCHANGED <<fences, row, hash, check>>
    BY <1>2, <2>0 DEF Begin, Becomes
  <2>3. Working' = {t} /\ task'[t] = k
    <3>1. Working' = {u \in Task : task'[u].pc # "idle"}
      BY DEF Working
    <3>2. \A u \in Task : task[u].pc = "idle"
      BY <1>2 DEF Working
    <3> QED
      BY <2>1, <2>2, <3>1, <3>2 DEF Becomes, Types
  <2>5. FenceSeen(k)' /\ AddressAsked(k)'
    BY <2>1, <2>2 DEF FenceSeen, AddressAsked
  <2>6. GpsSoFar(k)'
    BY <2>1, <2>2 DEF GpsSoFar
  <2>7. Solo' /\ Seen'
    BY <2>3, <2>5, <2>6 DEF Solo, Seen, FenceSeen, FenceAt, SideAt, AddressAsked, GpsSoFar
  <2>8. PushAgrees'
    BY <1>2, <2>2 DEF Begin, PushAgrees, Rest
  <2>9. AddressFollowed'
    <3> SUFFICES ASSUME ~excused'
                 PROVE  /\ fences # <<>> /\ check \in Address
                        /\ Follows(k) /\ RowOfAddress
      BY <2>2, <2>3 DEF AddressFollowed, Follows, RowOfAddress, Determined
    <3>1. ~excused /\ p.address # Gps /\ list = fences
      BY DEF Begin
    <3>2. fences # <<>> /\ check \in Address /\ RowOfAddress
      BY <1>2, <3>1 DEF Rest, AddressFollowed
    <3>3. Follows(k)
      BY <2>1, <3>1, <3>2 DEF Follows
    <3> QED
      BY <3>2, <3>3
  <2>10. FilterLosesNoCrossing' /\ GpsIsRecorded'
    BY <2>3 DEF FilterLosesNoCrossing, GpsIsRecorded
  <2> QED
    BY <2>7, <2>8, <2>9, <2>10 DEF Rest
<1> QED
  BY <1>1, <1>2

LEMMA StartedRest ==
  ASSUME Types, Rest, NEW t \in Task, NEW p \in Place,
         Start(t, p) \/ \E n \in 0 .. Len(fences) - 1 : StartSome(t, p, n)
  PROVE  Rest'
<1>1. CASE Start(t, p)
  BY <1>1, AtFence, BeginRest DEF Start
<1>2. ASSUME NEW n \in 0 .. Len(fences) - 1, StartSome(t, p, n) PROVE Rest'
  <2>1. SubSeq(fences, 1, n) \in Seq(Fence)
    BY AtFence
  <2>2. Begin(t, p, SubSeq(fences, 1, n))
    BY <1>2 DEF StartSome
  <2> QED
    BY <2>1, <2>2, BeginRest
<1> QED
  BY <1>1, <1>2

(* Overlapped tasks stay so, and excuse everything. *)
LEMMA StaysOverlapped ==
  ASSUME Types, Rest, overlapped, UNCHANGED overlapped, excused => excused'
  PROVE  Rest'
  BY Overlapping DEF Rest, AddressFollowed

LEMMA QueryRest ==
  ASSUME Types, Rest, NEW t \in Task, Query(t) \/ Store(t) \/ Compare(t)
  PROVE  Rest'
<1>0. /\ task[t].pc \in {"query", "store", "check"}
      /\ UNCHANGED <<fences, row, check, pushed, excused, overlapped>>
  BY DEF Query, Store, Compare, At
<1>1. CASE overlapped
  BY <1>0, <1>1, StaysOverlapped
<1>2. CASE ~overlapped
  <2> DEFINE f == FenceOf(t)
  <2>0. /\ FenceSeen(task[t]) /\ GpsSoFar(task[t])
        /\ \A g \in Fence : pushed[g] # "none" => row[g] = pushed[g]
        /\ ~excused => /\ fences # <<>> /\ check \in Address /\ Follows(task[t]) /\ RowOfAddress
    BY <1>0, <1>2, Alone DEF Renewing
  <2>1. /\ DOMAIN task = Task /\ task[t].list # <<>> /\ f \in Fence /\ SideOf(t) \in Side
        /\ f = FenceAt(task[t]) /\ SideOf(t) = SideAt(task[t])
        /\ row \in [Fence -> Side \cup {"none"}] /\ hash \in [Fence -> Side \cup {"none"}]
        /\ TaskOK(task[t])
    BY <1>0, AtFence DEF Types, FenceAt, SideAt, FenceOf, SideOf
  <2>2. PICK k : \/ /\ Query(t) /\ k = [task[t] EXCEPT !.pc = "store", !.prior = row[f]]
                 \/ /\ Store(t) /\ k = [task[t] EXCEPT !.pc = "check", !.prior = "none"]
                 \/ /\ Compare(t) /\ k = [task[t] EXCEPT !.pc = "duplicate",
                                                         !.status = CheckExist(hash[f], SideOf(t))]
    OBVIOUS
  <2>3. Becomes(t, k)
    BY <2>2 DEF Query, Store, Compare, Becomes
  <2>4. /\ k.place = task[t].place /\ k.list = task[t].list /\ k.i = task[t].i
        /\ k.pc \in {"store", "check", "duplicate"}
    BY <1>0, <2>1, <2>2 DEF TaskOK
  <2>5. FenceSeen(k)'
    <3>1. FenceAt(k) = f /\ SideAt(k) = SideOf(t)
      BY <2>1, <2>4 DEF FenceAt, SideAt
    <3>2. CASE Query(t) /\ k.pc = "store" /\ k.prior = row[f]
      BY <1>0, <3>1, <3>2 DEF FenceSeen, FenceAt, SideAt
    <3>3. CASE Store(t) /\ k.pc = "check"
      <4>1. row[f] # "none" => hash'[f] = row[f]
        BY <2>0, <2>1, <3>3 DEF FenceSeen, Store, At
      <4> QED
        BY <1>0, <3>1, <3>3, <4>1 DEF FenceSeen, FenceAt, SideAt
    <3>4. CASE Compare(t) /\ k.pc = "duplicate" /\ k.status = CheckExist(hash[f], SideOf(t))
      <4>1. row[f] # "none" => hash[f] = row[f]
        BY <2>0, <2>1, <3>4 DEF FenceSeen, Compare, At
      <4>2. /\ k.status = 1 => SideOf(t) = "in"
            /\ k.status = 3 => SideOf(t) = "out"
        BY <3>4 DEF CheckExist
      <4> QED
        BY <1>0, <3>1, <3>4, <4>1, <4>2 DEF FenceSeen, FenceAt, SideAt
    <3>5. \/ Query(t) /\ k.pc = "store" /\ k.prior = row[f]
          \/ Store(t) /\ k.pc = "check"
          \/ Compare(t) /\ k.pc = "duplicate" /\ k.status = CheckExist(hash[f], SideOf(t))
      BY <1>0, <2>1, <2>2 DEF TaskOK
    <3> QED
      BY <3>2, <3>3, <3>4, <3>5
  <2>6. AddressAsked(k)' /\ GpsSoFar(k)'
    BY <1>0, <2>0, <2>4 DEF AddressAsked, GpsSoFar
  <2>7. ~excused' => /\ fences # <<>> /\ check' \in Address /\ Follows(k)'
                     /\ ~Renewing(k) => RowOfAddress'
    BY <1>0, <2>0, <2>4 DEF Follows, RowOfAddress, Determined
  <2> QED
    BY <1>0, <1>2, <2>0, <2>3, <2>4, <2>5, <2>6, <2>7, GoesOn
<1> QED
  BY <1>1, <1>2

LEMMA DuplicateRest ==
  ASSUME Types, Rest, NEW t \in Task, Duplicate(t)
  PROVE  Rest'
<1>0. /\ task[t].pc = "duplicate"
      /\ UNCHANGED <<fences, row, hash, check, pushed, excused, overlapped>>
  BY DEF Duplicate, At
<1>1. CASE overlapped
  BY <1>0, <1>1, StaysOverlapped
<1>2. CASE ~overlapped
  <2>0. /\ FenceSeen(task[t]) /\ GpsSoFar(task[t])
        /\ \A g \in Fence : pushed[g] # "none" => row[g] = pushed[g]
        /\ ~excused => /\ fences # <<>> /\ check \in Address /\ Follows(task[t]) /\ RowOfAddress
    BY <1>0, <1>2, Alone DEF Renewing
  <2>2. PICK k : \/ AddressOf(t) = Gps /\ k = [task[t] EXCEPT !.pc = "insert"]
                 \/ /\ AddressOf(t) # Gps
                    /\ k = [task[t] EXCEPT !.pc = "mark", !.duplicate = check = AddressOf(t)]
    OBVIOUS
  <2>3. Becomes(t, k)
    BY <2>2 DEF Duplicate, Becomes
  <2>4. /\ k.place = task[t].place /\ k.list = task[t].list /\ k.i = task[t].i
        /\ k.status = task[t].status
        /\ k.pc = (IF AddressOf(t) = Gps THEN "insert" ELSE "mark")
    BY <2>2, AtFence DEF TaskOK
  <2>5. FenceSeen(k)'
    BY <1>0, <2>0, <2>4 DEF FenceSeen, FenceAt, SideAt
  <2>6. AddressAsked(k)' /\ GpsSoFar(k)'
    BY <1>0, <2>0, <2>4 DEF AddressAsked, GpsSoFar, AddressOf
  <2>7. ~excused' => /\ fences # <<>> /\ check' \in Address /\ Follows(k)'
                     /\ ~Renewing(k) => RowOfAddress'
    <3>1. k.pc = "mark" => (k.duplicate <=> check = k.place.address)
      <4>1. AddressOf(t) # Gps => k.duplicate = (check = AddressOf(t))
        BY <2>2, AtFence DEF TaskOK
      <4> QED
        BY <2>4, <4>1, Zenon DEF AddressOf
    <3> QED
      BY <1>0, <2>0, <2>4, <3>1 DEF Follows, RowOfAddress, Determined
  <2> QED
    BY <1>0, <1>2, <2>0, <2>3, <2>4, <2>5, <2>6, <2>7, GoesOn
<1> QED
  BY <1>1, <1>2

LEMMA MarkRest ==
  ASSUME Types, Rest, NEW t \in Task, Mark(t)
  PROVE  Rest'
<1>0. /\ task[t].pc = "mark" /\ check' \in {check, AddressOf(t)}
      /\ ~task[t].duplicate => check' = AddressOf(t)
      /\ UNCHANGED <<fences, row, hash, pushed, excused, overlapped>>
  BY DEF Mark, At
<1>1. CASE overlapped
  BY <1>0, <1>1, StaysOverlapped
<1>2. CASE ~overlapped
  <2>0. /\ FenceSeen(task[t]) /\ GpsSoFar(task[t])
        /\ \A g \in Fence : pushed[g] # "none" => row[g] = pushed[g]
        /\ ~excused => /\ fences # <<>> /\ check \in Address /\ Follows(task[t]) /\ RowOfAddress
    BY <1>0, <1>2, Alone DEF Renewing
  <2>1. AddressOf(t) # Gps /\ AddressOf(t) \in Address /\ TaskOK(task[t])
    BY <1>0, AtFence DEF TaskOK, AddressOf
  <2>2. ASSUME check = AddressOf(t), ~excused PROVE RowOfAddress'
    BY <1>0, <2>0, <2>2 DEF RowOfAddress, Determined
  <2>3. CASE task[t].duplicate /\ Continue(t)
    <3>1. ~excused' => /\ fences # <<>> /\ task[t].list = fences /\ AddressOf(t) # Gps
                       /\ check' = AddressOf(t) /\ check' \in Address /\ RowOfAddress'
      BY <1>0, <2>0, <2>1, <2>2, <2>3 DEF Follows, AddressOf
    <3> QED
      BY <1>0, <1>2, <2>0, <2>1, <2>3, <3>1, ContinueRest
  <2>4. CASE ~task[t].duplicate
    <3>0. PICK k : k = [task[t] EXCEPT !.pc = "insert", !.fresh = TRUE]
      OBVIOUS
    <3>1. Becomes(t, k)
      BY <2>4, <3>0 DEF Mark, Becomes
    <3>2. /\ k.place = task[t].place /\ k.list = task[t].list /\ k.i = task[t].i
          /\ k.status = task[t].status /\ k.pc = "insert"
      BY <2>1, <3>0 DEF TaskOK
    <3>3. FenceSeen(k)'
      BY <1>0, <2>0, <3>2 DEF FenceSeen, FenceAt, SideAt
    <3>4. AddressAsked(k)' /\ GpsSoFar(k)'
      BY <1>0, <2>1, <2>4, <3>2 DEF AddressAsked, GpsSoFar, AddressOf
    <3>5. ~excused' => /\ fences # <<>> /\ check' \in Address /\ Follows(k)'
                       /\ ~Renewing(k) => RowOfAddress'
      <4> SUFFICES ASSUME ~excused
                   PROVE  /\ fences # <<>> /\ check' \in Address /\ Follows(k)'
                          /\ ~Renewing(k) => RowOfAddress'
        BY <1>0
      <4>1. Follows(k)'
        BY <1>0, <2>0, <2>4, <3>2 DEF Follows, AddressOf
      <4>2. ~Renewing(k) => task[t].i > 1
        BY <2>1, <3>2 DEF Renewing, TaskOK
      <4>3. ~Renewing(k) => RowOfAddress'
        BY <2>0, <2>2, <4>2 DEF Follows, AddressOf
      <4> QED
        BY <1>0, <2>0, <2>1, <2>4, <4>1, <4>3
    <3> QED
      BY <1>0, <1>2, <2>0, <3>1, <3>2, <3>3, <3>4, <3>5, GoesOn
  <2> QED
    BY <2>3, <2>4 DEF Mark
<1> QED
  BY <1>1, <1>2

(* addLocEltfence: the row goes with the place. *)
LEMMA InsertRest ==
  ASSUME Types, Rest, NEW t \in Task, Insert(t)
  PROVE  Rest'
<1>0. /\ task[t].pc = "insert"
      /\ UNCHANGED <<fences, hash, check, overlapped>>
      /\ excused => excused' \/ Renews(t)
  BY DEF Insert, At
<1>1. CASE overlapped
  BY <1>0, <1>1, StaysOverlapped DEF Renews
<1>2. CASE ~overlapped
  <2> DEFINE f == FenceOf(t)
  <2>0. /\ FenceSeen(task[t]) /\ AddressAsked(task[t]) /\ GpsSoFar(task[t])
        /\ \A g \in Fence : pushed[g] # "none" => row[g] = pushed[g]
        /\ ~excused => /\ fences # <<>> /\ check \in Address /\ Follows(task[t])
                       /\ ~Renewing(task[t]) => RowOfAddress
    BY <1>0, <1>2, Alone
  <2>1. TaskOK(task[t]) /\ AddressOf(t) \in Address \cup {Gps} /\ task[t].place \in Place
    BY AtFence
  <2>2. CASE task[t].list = <<>>
    <3>1. Continue(t) /\ UNCHANGED <<row, pushed, excused>>
      BY <2>2 DEF Insert
    <3>2. excused
      BY <2>0, <2>2 DEF Follows
    <3>3. ASSUME NEW j \in DOMAIN task[t].list PROVE FALSE
      BY <2>2, <3>3
    <3> QED
      BY <1>0, <1>2, <2>0, <3>1, <3>2, <3>3, ContinueRest
  <2>3. CASE task[t].list # <<>>
    <3>0. /\ f \in Fence /\ SideOf(t) \in Side /\ f = FenceAt(task[t]) /\ SideOf(t) = SideAt(task[t])
          /\ row \in [Fence -> Side \cup {"none"}] /\ pushed \in [Fence -> {"none", "in", "out"}]
          /\ task[t].list \in Seq(Fence) /\ task[t].i \in DOMAIN task[t].list
          /\ task[t].i \in Nat \ {0} /\ DOMAIN task[t].list = 1 .. Len(task[t].list)
      BY <1>0, <2>3, AtFence DEF Types, FenceAt, SideAt, FenceOf, SideOf, TaskOK
    <3>1. /\ row' = [row EXCEPT ![f] = SideOf(t)]
          /\ pushed' = IF SideOf(t) = "on" THEN [pushed EXCEPT ![f] = "none"] ELSE pushed
          /\ excused' <=> (excused /\ ~Renews(t))
      BY <2>3 DEF Insert
    <3>2. row'[f] = SideOf(t) /\ \A g \in Fence : g # f => row'[g] = row[g]
      BY <3>0, <3>1
    <3>3. \A g \in Fence : g # f /\ pushed'[g] # "none" => row'[g] = pushed'[g]
      BY <2>0, <3>0, <3>1, <3>2
    <3>4. AddressOf(t) = Gps =>
            \A j \in DOMAIN task[t].list :
              j <= task[t].i => row'[task[t].list[j]] = task[t].place.side[task[t].list[j]]
      <4> SUFFICES ASSUME AddressOf(t) = Gps, NEW j \in DOMAIN task[t].list, j <= task[t].i
                   PROVE  row'[task[t].list[j]] = task[t].place.side[task[t].list[j]]
        OBVIOUS
      <4>1. task[t].list[j] \in Fence /\ SideOf(t) = task[t].place.side[f]
            /\ task[t].list[task[t].i] = f
        BY <3>0 DEF SideOf, FenceOf
      <4>2. CASE task[t].list[j] = f
        BY <3>2, <4>1, <4>2
      <4>3. CASE task[t].list[j] # f
        <5>1. j < task[t].i
          BY <3>0, <4>1, <4>3
        <5> QED
          BY <2>0, <3>2, <4>1, <4>3, <5>1 DEF GpsSoFar, AddressOf
      <4> QED
        BY <4>2, <4>3
    <3>5. ~excused' => /\ fences # <<>> /\ task[t].list = fences /\ AddressOf(t) # Gps
                       /\ check' = AddressOf(t) /\ check' \in Address /\ RowOfAddress'
      <4> SUFFICES ASSUME ~excused'
                   PROVE  /\ fences # <<>> /\ task[t].list = fences /\ AddressOf(t) # Gps
                          /\ check' = AddressOf(t) /\ check' \in Address /\ RowOfAddress'
        OBVIOUS
      <4>1. task[t].list = fences /\ AddressOf(t) # Gps
        BY <2>0, <3>1 DEF Renews, Follows, AddressOf
      <4>2. check = AddressOf(t)
        BY <1>0, <2>0, <4>1 DEF AddressAsked, AddressOf
      <4>3. SideOf(t) = task[t].place.side[f] /\ fences[task[t].i] = f /\ fences[1] \in Fence
        BY <2>3, <3>0, <4>1 DEF SideOf, FenceOf
      <4>4. RowOfAddress'
        <5> SUFFICES ASSUME Determined(fences[1]), NEW p \in Place, p.address = check
                     PROVE  row'[fences[1]] = p.side[fences[1]]
          BY <1>0 DEF RowOfAddress, Determined
        <5>1. p.side[fences[1]] = task[t].place.side[fences[1]]
          BY <2>1, <4>1, <4>2 DEF Determined, AddressOf
        <5>2. CASE fences[1] = f
          BY <3>2, <4>3, <5>1, <5>2
        <5>3. CASE fences[1] # f
          <6>1. task[t].i # 1
            BY <4>3, <5>3
          <6>2. ~excused /\ ~Renewing(task[t])
            BY <3>1, <6>1 DEF Renews, Renewing
          <6>3. row[fences[1]] = p.side[fences[1]]
            BY <2>0, <6>2 DEF RowOfAddress
          <6> QED
            BY <3>2, <4>3, <5>3, <6>3
        <5> QED
          BY <5>2, <5>3
      <4> QED
        BY <1>0, <2>1, <2>3, <4>1, <4>2, <4>4
    <3>6. CASE task[t].status \in {1, 3}
      <4>0. PICK k : k = [task[t] EXCEPT !.pc = "push"]
        OBVIOUS
      <4>1. Becomes(t, k)
        BY <2>3, <3>6, <4>0 DEF Insert, Becomes
      <4>2. /\ k.place = task[t].place /\ k.list = task[t].list /\ k.i = task[t].i
            /\ k.status = task[t].status /\ k.pc = "push" /\ FenceAt(k) = f /\ SideAt(k) = SideOf(t)
        BY <2>1, <3>0, <4>0 DEF TaskOK, FenceAt, SideAt
      <4>3. /\ task[t].status = 1 => SideOf(t) = "in"
            /\ task[t].status = 3 => SideOf(t) = "out"
        BY <1>0, <2>0, <2>3, <3>0 DEF FenceSeen
      <4>4. FenceSeen(k)'
        BY <3>2, <3>6, <4>2, <4>3 DEF FenceSeen, FenceAt, SideAt
      <4>5. AddressAsked(k)'
        BY <1>0, <2>0, <4>2 DEF AddressAsked
      <4>6. GpsSoFar(k)'
        BY <3>0, <3>4, <4>2 DEF GpsSoFar, AddressOf
      <4>7. ~excused' => /\ fences # <<>> /\ check' \in Address /\ Follows(k)'
                         /\ ~Renewing(k) => RowOfAddress'
        BY <1>0, <3>5, <4>2 DEF Follows, AddressOf
      <4>8. \A g \in Fence : pushed'[g] # "none" =>
              row'[g] = pushed'[g] \/ (k.list # <<>> /\ k.pc = "push" /\ FenceAt(k) = g)
        BY <2>3, <3>3, <4>2
      <4> QED
        BY <1>0, <1>2, <4>1, <4>2, <4>4, <4>5, <4>6, <4>7, <4>8, GoesOn
    <3>7. CASE task[t].status \notin {1, 3}
      <4>1. Continue(t)
        BY <2>3, <3>7 DEF Insert
      <4>2. pushed'[f] # "none" => row'[f] = pushed'[f]
        <5> SUFFICES ASSUME pushed'[f] # "none" PROVE row'[f] = pushed'[f]
          OBVIOUS
        <5>1. SideOf(t) # "on" /\ pushed'[f] = pushed[f] /\ pushed[f] \in {"in", "out"}
          BY <3>0, <3>1
        <5>2. row[f] = pushed[f] /\ row[f] # "none"
          BY <2>0, <3>0, <5>1
        <5>3. task[t].status = CheckExist(row[f], SideOf(t))
          BY <1>0, <2>0, <2>3, <3>0, <5>2 DEF FenceSeen
        <5> QED
          BY <3>0, <3>2, <3>7, <5>1, <5>2, <5>3 DEF CheckExist, Side
      <4> QED
        BY <1>0, <1>2, <3>3, <3>4, <3>5, <4>1, <4>2, ContinueRest
    <3> QED
      BY <3>6, <3>7
  <2> QED
    BY <2>2, <2>3
<1> QED
  BY <1>1, <1>2

LEMMA PushRest ==
  ASSUME Types, Rest, NEW t \in Task, Push(t)
  PROVE  Rest'
<1>0. /\ task[t].pc = "push" /\ Continue(t)
      /\ UNCHANGED <<fences, row, hash, check, excused, overlapped>>
  BY DEF Push, At
<1>1. CASE overlapped
  BY <1>0, <1>1, StaysOverlapped
<1>2. CASE ~overlapped
  <2> DEFINE f == FenceOf(t)
  <2>0. /\ FenceSeen(task[t]) /\ AddressAsked(task[t]) /\ GpsSoFar(task[t])
        /\ \A g \in Fence : pushed[g] # "none" =>
             row[g] = pushed[g]
             \/ (task[t].list # <<>> /\ task[t].pc = "push" /\ FenceAt(task[t]) = g)
        /\ ~excused => /\ fences # <<>> /\ check \in Address /\ Follows(task[t])
                       /\ ~Renewing(task[t]) => RowOfAddress
    BY <1>0, <1>2, Alone
  <2>1. /\ f \in Fence /\ f = FenceAt(task[t]) /\ task[t].list # <<>>
        /\ pushed \in [Fence -> {"none", "in", "out"}]
        /\ task[t].i \in Nat \ {0} /\ DOMAIN task[t].list = 1 .. Len(task[t].list)
    BY <1>0, AtFence DEF Types, FenceAt, FenceOf, TaskOK
  <2>2. pushed' = [pushed EXCEPT ![f] = IF task[t].status = 1 THEN "in" ELSE "out"]
    BY DEF Push
  <2>3. \A g \in Fence : pushed'[g] # "none" => row'[g] = pushed'[g]
    <3>1. row[f] = (IF task[t].status = 1 THEN "in" ELSE "out")
      BY <1>0, <2>0, <2>1 DEF FenceSeen
    <3> QED
      BY <1>0, <2>0, <2>1, <2>2, <3>1
  <2>4. AddressOf(t) = Gps =>
          \A j \in DOMAIN task[t].list :
            j <= task[t].i => row'[task[t].list[j]] = task[t].place.side[task[t].list[j]]
    <3> SUFFICES ASSUME AddressOf(t) = Gps, NEW j \in DOMAIN task[t].list, j <= task[t].i
                 PROVE  row[task[t].list[j]] = task[t].place.side[task[t].list[j]]
      BY <1>0
    <3>1. j < task[t].i \/ j = task[t].i
      BY <2>1
    <3> QED
      BY <1>0, <2>0, <3>1 DEF GpsSoFar, AddressOf
  <2>5. ~excused' => /\ fences # <<>> /\ task[t].list = fences /\ AddressOf(t) # Gps
                     /\ check' = AddressOf(t) /\ check' \in Address /\ RowOfAddress'
    BY <1>0, <2>0 DEF Follows, AddressAsked, AddressOf, Renewing, RowOfAddress, Determined
  <2> QED
    BY <1>0, <1>2, <2>3, <2>4, <2>5, ContinueRest
<1> QED
  BY <1>1, <1>2

LEMMA FailsRest ==
  ASSUME Types, Rest, NEW t \in Task, DbFails(t)
  PROVE  Rest'
<1>0. /\ task[t].pc \in {"query", "insert", "duplicate"} /\ excused' = TRUE
      /\ Becomes(t, NoTask) /\ last' = NothingHandled
      /\ UNCHANGED <<fences, row, hash, check, pushed, overlapped>>
  BY DEF DbFails, At, Becomes
<1>1. CASE overlapped
  BY <1>0, <1>1, StaysOverlapped
<1>2. CASE ~overlapped
  <2>1. \A f \in Fence : pushed[f] # "none" => row[f] = pushed[f]
    BY <1>0, <1>2, Alone
  <2>2. last'.list = <<>>
    BY <1>0 DEF NothingHandled
  <2>3. FilterLosesNoCrossing' /\ GpsIsRecorded'
    BY <2>2 DEF FilterLosesNoCrossing, GpsIsRecorded
  <2> QED
    BY <1>0, <1>2, <2>1, <2>3, NoTaskOK, Ends
<1> QED
  BY <1>1, <1>2

LEMMA ConfigureRest ==
  ASSUME Types, Rest, NEW list \in FenceLists, Configure(list)
  PROVE  Rest'
<1>0. excused' = TRUE /\ UNCHANGED <<row, hash, check, task, pushed, last, overlapped>>
  BY DEF Configure
<1>1. Working' = Working
  BY <1>0 DEF Working
<1>2. Solo' /\ PushAgrees'
  BY <1>0, <1>1 DEF Rest, Solo, PushAgrees, At, FenceOf
<1>3. Seen'
  BY <1>0, <1>1 DEF Rest, Seen, FenceSeen, AddressAsked, GpsSoFar, FenceAt, SideAt
<1>4. AddressFollowed' /\ FilterLosesNoCrossing' /\ GpsIsRecorded'
  BY <1>0, <1>1 DEF Rest, AddressFollowed, FilterLosesNoCrossing, GpsIsRecorded
<1> QED
  BY <1>2, <1>3, <1>4 DEF Rest

LEMMA RestartRest ==
  ASSUME Types, Restart
  PROVE  Rest'
<1>0. Working' = {} /\ last'.list = <<>>
  BY NoTaskOK DEF Restart, Working, NothingHandled
<1>1. Solo' /\ Seen' /\ PushAgrees' /\ AddressFollowed'
  BY <1>0 DEF Restart, Solo, Seen, PushAgrees, AddressFollowed
<1>2. FilterLosesNoCrossing' /\ GpsIsRecorded'
  BY <1>0 DEF FilterLosesNoCrossing, GpsIsRecorded
<1> QED
  BY <1>1, <1>2 DEF Rest

LEMMA Stutters ==
  ASSUME Types, Rest, UNCHANGED vars
  PROVE  Rest'
<1>1. Solo' /\ PushAgrees'
  BY DEF vars, Working, Rest, Solo, PushAgrees, At, FenceOf
<1>2. Seen'
  BY DEF vars, Working, Rest, Seen, FenceSeen, AddressAsked, GpsSoFar, FenceAt, SideAt
<1>3. AddressFollowed'
  BY DEF vars, Working, Rest, AddressFollowed, Follows, Renewing, RowOfAddress, Determined
<1>4. FilterLosesNoCrossing' /\ GpsIsRecorded'
  BY DEF vars, Working, Rest, FilterLosesNoCrossing, GpsIsRecorded, Determined
<1> QED
  BY <1>1, <1>2, <1>3, <1>4 DEF Rest

-----------------------------------------------------------------------------

LEMMA FRInvStep == FRInv /\ [Next]_vars => FRInv'
<1> SUFFICES ASSUME Types, Rest, [Next]_vars PROVE Types' /\ Rest'
  BY DEF FRInv, Rest
<1>1. Types'
  BY TypesStep
<1>2. Rest'
  BY StartedRest, QueryRest, DuplicateRest, MarkRest, InsertRest, PushRest, FailsRest,
     ConfigureRest, RestartRest, Stutters DEF Next
<1> QED
  BY <1>1, <1>2

LEMMA FRInvImplies ==
  FRInv => TypeOK /\ PushedMatchesRow /\ FilterLosesNoCrossing /\ GpsIsRecorded
<1> SUFFICES ASSUME FRInv PROVE TypeOK /\ PushedMatchesRow
  BY DEF FRInv
<1>1. TypeOK
  <2>1. Types
    BY DEF FRInv
  <2>2. ASSUME NEW t \in Task
        PROVE  /\ task[t].pc \in TaskPc /\ task[t].place \in Place
               /\ task[t].prior \in Side \cup {"none"} /\ task[t].status \in Status
               /\ task[t].list \in Seq(Fence)
               /\ task[t].pc \notin {"idle", "duplicate", "mark", "insert"} =>
                    task[t].i \in DOMAIN task[t].list
    BY <2>1, AtFence DEF TaskOK
  <2> QED
    BY <2>1, <2>2 DEF Types, TypeOK
<1>2. PushedMatchesRow
  BY DEF FRInv, PushAgrees, PushedMatchesRow
<1> QED
  BY <1>1, <1>2

(* Whatever places a device reports, however its tasks, the web side and   *)
(* the restarts interleave, the invariant holds.                           *)
THEOREM RecordCorrect == Spec => []FRInv
<1>1. Init => FRInv
  BY TypesInit, RestInit, FRInvIs
<1>2. FRInv /\ [Next]_vars => FRInv'
  BY FRInvStep
<1> QED
  BY <1>1, <1>2, PTL DEF Spec

(* The variables of FenceRecord keep their types. *)
THEOREM RecordTypeCorrect == Spec => []TypeOK
  BY RecordCorrect, FRInvImplies, PTL

(* What was pushed last of a fence agrees with its row. *)
THEOREM PushesMatch == Spec => []PushedMatchesRow
  BY RecordCorrect, FRInvImplies, PTL

(* Leaving out repeated addresses loses no crossing of the first fence. *)
THEOREM FilterSafe == Spec => []FilterLosesNoCrossing
  BY RecordCorrect, FRInvImplies, PTL

(* A location from GPS is recorded for every fence. *)
THEOREM GpsRecorded == Spec => []GpsIsRecorded
  BY RecordCorrect, FRInvImplies, PTL

=============================================================================
