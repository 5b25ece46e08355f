----------------------------- MODULE FenceRecord -----------------------------
(***************************************************************************)
(* SendSmsService.SaveLocationSTable: the record of a device's position    *)
(* relative to its fences, and the pushes to the parents' phones.          *)
(*                                                                         *)
(* A task that handles a location goes through the fences configured for   *)
(* the device.  For each it reads the last row recorded of this fence and  *)
(* puts it into the static map m_hashLocElt, compares the side the device  *)
(* was on then with the side it is on now (CheckExist), asks the static    *)
(* map mapCheck whether the address is the one it was last asked for       *)
(* (checkDuplicate), and, if not, adds a row and pushes the crossing.      *)
(* Nothing locks the two maps or the table.  A position found by GPS has   *)
(* the address "", which is never a duplicate; one found by cell look-up   *)
(* has an address.  This module is about one device.                       *)
(***************************************************************************)
EXTENDS Naturals, Sequences

CONSTANTS
  Fence,         (* ids of the fences there may be                         *)
  FenceLists,    (* lists of fences that may be configured                 *)
  Address,       (* addresses the look-up finds                            *)
  Place,         (* positions the device reports: address and sides        *)
  Task,          (* tasks that may be in progress at once                  *)
  MaxFailures    (* bound: data base calls that fail                       *)

(* Distance less than, equal to, greater than the radius of the fence. *)
Side == {"in", "on", "out"}
NoAddress == "none"
Gps == ""

ASSUME FenceAssumption ==
  /\ Fence # {} /\ Place # {}
  /\ FenceLists # {} /\ FenceLists \subseteq Seq(Fence)
  /\ Gps \notin Address /\ NoAddress \notin Address
  /\ Place \subseteq [address : Address \cup {Gps}, side : [Fence -> Side]]
  /\ MaxFailures \in Nat

VARIABLES
  fences,        (* the fences configured, in the order they are read      *)
  row,           (* side in the last row of each fence, "none" without one *)
  hash,          (* m_hashLocElt: the same, as some task last read it      *)
  check,         (* mapCheck: the address last asked for                   *)
  task,          (* what each task is doing                                *)
  failures

(* History, read by properties only. *)
VARIABLES
  pushed,        (* what was last pushed of each fence since its row was   *)
                 (* last exactly at the radius or tasks overlapped         *)
  last,          (* between two tasks, the place handled last and the list *)
                 (* it was handled for; an empty list if that task failed  *)
  excused,       (* since the first fence's row last went with a new       *)
                 (* address, a location came from GPS, a call failed, the  *)
                 (* fences changed, or tasks overlapped                    *)
  overlapped     (* since the last task that started alone, another began  *)

vars == <<fences, row, hash, check, task, failures,
          pushed, last, excused, overlapped>>

TaskPc == {"idle", "query", "store", "check", "duplicate", "mark", "insert", "push"}
Status == 0 .. 5

(* i is the index of the loop, prior the side read, status datastatus;     *)
(* fresh is history: an earlier fence found the address to be a new one.   *)
NoTask == [pc |-> "idle", place |-> CHOOSE p \in Place : TRUE, list |-> <<>>, i |-> 1,
           prior |-> "none", status |-> 0, duplicate |-> FALSE, fresh |-> FALSE]

NothingHandled == [place |-> NoTask.place, list |-> <<>>]

Init ==
  /\ fences \in FenceLists
  /\ row = [f \in Fence |-> "none"]
  /\ hash = [f \in Fence |-> "none"]
  /\ check = NoAddress
  /\ task = [t \in Task |-> NoTask]
  /\ failures = 0
  /\ pushed = [f \in Fence |-> "none"]
  /\ last = NothingHandled
  /\ excused = TRUE /\ overlapped = FALSE

At(t, pc) == task[t].pc = pc
Working == {t \in Task : task[t].pc # "idle"}
FenceOf(t) == task[t].list[task[t].i]
SideOf(t) == task[t].place.side[FenceOf(t)]
AddressOf(t) == task[t].place.address

-----------------------------------------------------------------------------
(* CheckExist: 1 came in, 3 went out, 4 stayed outside, 5 stayed inside;   *)
(* 0 if there is no row or one of the two is exactly at the radius.        *)
CheckExist(before, now) ==
  CASE before = "out" /\ now = "in" -> 1
    [] before = "in" /\ now = "out" -> 3
    [] before = "out" /\ now = "out" -> 4
    [] before = "in" /\ now = "in" -> 5
    [] OTHER -> 0

(* A task is handed the list. *)
Begin(t, place, list) ==
  /\ At(t, "idle")
  /\ task' = [task EXCEPT ![t] = [NoTask EXCEPT !.pc = IF list = <<>> THEN "duplicate" ELSE "query",
                                               !.place = place, !.list = list]]
  /\ overlapped' = (Working # {})
  /\ pushed' = IF Working = {} /\ overlapped THEN [f \in Fence |-> "none"] ELSE pushed
  /\ excused' = (excused \/ Working # {} \/ place.address = Gps \/ list # fences)
  /\ last' = NothingHandled
  /\ UNCHANGED <<fences, row, hash, check>>

(* findBySerialNumber of controlSMS. *)
Start(t, place) == Begin(t, place, fences) /\ UNCHANGED failures

(* It fails: the fences read before it did are returned. *)
StartSome(t, place, n) ==
  /\ failures < MaxFailures
  /\ failures' = failures + 1
  /\ Begin(t, place, SubSeq(fences, 1, n))

(* listLocElectfence: the row recorded last of this fence. *)
Query(t) ==
  /\ At(t, "query")
  /\ task' = [task EXCEPT ![t].pc = "store", ![t].prior = row[FenceOf(t)]]
  /\ UNCHANGED <<fences, row, hash, check, failures, pushed, last, excused, overlapped>>

(* Mutant of Store: what the map once holds is never refreshed. *)
StoreOnce(t) ==
  /\ At(t, "store")
  /\ hash' = IF hash[FenceOf(t)] = "none" THEN [hash EXCEPT ![FenceOf(t)] = task[t].prior] ELSE hash
  /\ task' = [task EXCEPT ![t].pc = "check", ![t].prior = "none"]
  /\ UNCHANGED <<fences, row, check, failures, pushed, last, excused, overlapped>>

(* m_hashLocElt.put, if there is a row. *)
Store(t) ==
  /\ At(t, "store")
  /\ hash' = IF task[t].prior = "none" THEN hash ELSE [hash EXCEPT ![FenceOf(t)] = task[t].prior]
  /\ task' = [task EXCEPT ![t].pc = "check", ![t].prior = "none"]
  /\ UNCHANGED <<fences, row, check, failures, pushed, last, excused, overlapped>>

(* CheckExist, with whatever the map now holds. *)
Compare(t) ==
  /\ At(t, "check")
  /\ task' = [task EXCEPT ![t].pc = "duplicate",
                          ![t].status = CheckExist(hash[FenceOf(t)], SideOf(t))]
  /\ UNCHANGED <<fences, row, hash, check, failures, pushed, last, excused, overlapped>>

(* Mutant of Duplicate: "" is an address like any other. *)
DuplicateOfAny(t) ==
  /\ At(t, "duplicate")
  /\ task' = [task EXCEPT ![t].pc = "mark", ![t].duplicate = check = AddressOf(t)]
  /\ UNCHANGED <<fences, row, hash, check, failures, pushed, last, excused, overlapped>>

(* checkDuplicate, up to the comparison. *)
Duplicate(t) ==
  /\ At(t, "duplicate")
  /\ task' = IF AddressOf(t) = Gps
             THEN [task EXCEPT ![t].pc = "insert"]
             ELSE [task EXCEPT ![t].pc = "mark", ![t].duplicate = check = AddressOf(t)]
  /\ UNCHANGED <<fences, row, hash, check, failures, pushed, last, excused, overlapped>>

(* Mutant of Continue: the loop goes one too far. *)
ContinueOneMore(t) ==
  IF task[t].i <= Len(task[t].list)
  THEN /\ task' = [task EXCEPT ![t] = [NoTask EXCEPT !.pc = "query", !.place = task[t].place,
                                                    !.list = task[t].list, !.i = task[t].i + 1,
                                                    !.fresh = task[t].fresh]]
       /\ UNCHANGED last
  ELSE /\ task' = [task EXCEPT ![t] = NoTask]
       /\ last' = IF task[t].list = <<>> \/ Working # {t} THEN NothingHandled
                  ELSE [place |-> task[t].place, list |-> task[t].list]

(* The next fence of the loop, or the end of the task. *)
Continue(t) ==
  IF task[t].i < Len(task[t].list)
  THEN /\ task' = [task EXCEPT ![t] = [NoTask EXCEPT !.pc = "query", !.place = task[t].place,
                                                    !.list = task[t].list, !.i = task[t].i + 1,
                                                    !.fresh = task[t].fresh]]
       /\ UNCHANGED last
  ELSE /\ task' = [task EXCEPT ![t] = NoTask]
       /\ last' = IF task[t].list = <<>> \/ Working # {t} THEN NothingHandled
                  ELSE [place |-> task[t].place, list |-> task[t].list]

(* Mutant of Mark: only the first address is kept. *)
MarkOnce(t) ==
  /\ At(t, "mark")
  /\ check' = IF check = NoAddress THEN AddressOf(t) ELSE check
  /\ IF task[t].duplicate
     THEN Continue(t)
     ELSE task' = [task EXCEPT ![t].pc = "insert", ![t].fresh = TRUE] /\ UNCHANGED last
  /\ UNCHANGED <<fences, row, hash, failures, pushed, excused, overlapped>>

(* checkDuplicate, from the comparison on; a repeated address is only      *)
(* logged.  It is not set again, but its entry is put into the map again,  *)
(* where another task may have put one since.                              *)
Mark(t) ==
  /\ At(t, "mark")
  /\ check' \in IF task[t].duplicate THEN {check, AddressOf(t)} ELSE {AddressOf(t)}
  /\ IF task[t].duplicate
     THEN Continue(t)
     ELSE task' = [task EXCEPT ![t].pc = "insert", ![t].fresh = TRUE] /\ UNCHANGED last
  /\ UNCHANGED <<fences, row, hash, failures, pushed, excused, overlapped>>

(* From here on the first fence's row goes with its address (for excused). *)
Renews(t) ==
  task[t].i = 1 /\ task[t].list = fences /\ AddressOf(t) # Gps /\ ~overlapped

(* addLocEltfence.  Without fences the row is of no fence. *)
Insert(t) ==
  /\ At(t, "insert")
  /\ IF task[t].list = <<>>
     THEN Continue(t) /\ UNCHANGED <<row, pushed, excused>>
     ELSE /\ row' = [row EXCEPT ![FenceOf(t)] = SideOf(t)]
          /\ pushed' = IF SideOf(t) = "on" THEN [pushed EXCEPT ![FenceOf(t)] = "none"] ELSE pushed
          /\ excused' = (excused /\ ~Renews(t))
          /\ IF task[t].status \in {1, 3}
             THEN task' = [task EXCEPT ![t].pc = "push"] /\ UNCHANGED last
             ELSE Continue(t)
  /\ UNCHANGED <<fences, hash, check, failures, overlapped>>

(* sendPushAndSms. *)
Push(t) ==
  /\ At(t, "push")
  /\ pushed' = [pushed EXCEPT ![FenceOf(t)] = IF task[t].status = 1 THEN "in" ELSE "out"]
  /\ Continue(t)
  /\ UNCHANGED <<fences, row, hash, check, failures, excused, overlapped>>

(* A query, the insert into t_loc_electfence_single (which is read by      *)
(* nobody) or addLocEltfence throws: the catch block ends the loop.        *)
DbFails(t) ==
  /\ failures < MaxFailures
  /\ At(t, "query") \/ At(t, "insert") \/ (At(t, "duplicate") /\ task[t].i = 1)
  /\ failures' = failures + 1
  /\ task' = [task EXCEPT ![t] = NoTask]
  /\ last' = NothingHandled
  /\ excused' = TRUE
  /\ UNCHANGED <<fences, row, hash, check, pushed, overlapped>>

(* The web side changes the fences (external). *)
Configure(list) ==
  /\ list # fences
  /\ fences' = list
  /\ excused' = TRUE
  /\ UNCHANGED <<row, hash, check, task, failures, pushed, last, overlapped>>

(* The server is restarted: the static maps are empty. *)
Restart ==
  /\ hash' = [f \in Fence |-> "none"]
  /\ check' = NoAddress
  /\ task' = [t \in Task |-> NoTask]
  /\ last' = NothingHandled
  /\ pushed' = [f \in Fence |-> "none"]
  /\ excused' = TRUE /\ overlapped' = FALSE
  /\ UNCHANGED <<fences, row, failures>>

Next ==
  \/ \E t \in Task, p \in Place : Start(t, p)
  \/ \E t \in Task, p \in Place : \E n \in 0 .. Len(fences) - 1 : StartSome(t, p, n)
  \/ \E t \in Task : \/ Query(t) \/ Store(t) \/ Compare(t) \/ Duplicate(t) \/ Mark(t)
                     \/ Insert(t) \/ Push(t) \/ DbFails(t)
  \/ \E list \in FenceLists : Configure(list)
  \/ Restart

Spec == Init /\ [][Next]_vars

-----------------------------------------------------------------------------

(* The variables keep their types.                                         *)
TypeOK ==
  /\ fences \in FenceLists
  /\ row \in [Fence -> Side \cup {"none"}] /\ hash \in [Fence -> Side \cup {"none"}]
  /\ check \in Address \cup {NoAddress}
  /\ \A t \in Task :
       /\ task[t].pc \in TaskPc /\ task[t].place \in Place
       /\ task[t].prior \in Side \cup {"none"} /\ task[t].status \in Status
       /\ task[t].list \in Seq(Fence)
       /\ task[t].pc \notin {"idle", "duplicate", "mark", "insert"} => task[t].i \in DOMAIN task[t].list
  /\ failures \in 0 .. MaxFailures
  /\ pushed \in [Fence -> {"none", "in", "out"}]

(* What the parents were told last agrees with what is recorded: after a   *)
(* push of coming in the row says in until going out is pushed, and the    *)
(* other way round.  Overlapping tasks and a stop exactly at the radius    *)
(* are excepted until the next push.                                       *)
PushedMatchesRow ==
  Working = {} /\ ~overlapped =>
    \A f \in Fence : pushed[f] # "none" => row[f] = pushed[f]

(* The places with one address are on one side of the fence. *)
Determined(f) ==
  \A p, q \in Place : p.address = q.address /\ p.address # Gps => p.side[f] = q.side[f]

(* Leaving out repeated addresses loses no crossing: the row of the first  *)
(* fence says where the device is, if its address tells.  For the other    *)
(* fences, and after a location from GPS, a failure or an overlap, this    *)
(* need not be so.                                                         *)
FilterLosesNoCrossing ==
  Working = {} /\ ~excused /\ last.list # <<>> =>
    LET f == last.list[1] IN Determined(f) => row[f] = last.place.side[f]

(* A location from GPS is recorded for every fence.                        *)
GpsIsRecorded ==
  Working = {} /\ ~overlapped /\ last.place.address = Gps =>
    \A i \in DOMAIN last.list : row[last.list[i]] = last.place.side[last.list[i]]

(* The log line of SaveLocationSTable: an address that is left out as a    *)
(* repeated one is not one that was just found to be new.                  *)
LeftOutIsRepeated ==
  [][\A t \in Task : At(t, "mark") /\ task[t].duplicate /\ ~At(t, "mark")' => ~task[t].fresh]_vars

=============================================================================
