---------------------------- MODULE Registration ----------------------------
(***************************************************************************)
(* PrimaryServer: the tasks that handle the frames 0002 of one device.     *)
(*                                                                         *)
(* A task first tells the device where ChildServer is, then looks the      *)
(* device up in table info and updates or adds its row, then looks it up   *)
(* in table serialnumber and, when it is not there, adds a row to each of  *)
(* the tables serialnumber, locationinfo and rtposition, in this order.    *)
(* There is no transaction.  Every exception of the data base is swallowed *)
(* where it happens: a look-up then returns null like one that found       *)
(* nothing, and an insert that fails ends addSerialNumber.                 *)
(***************************************************************************)
EXTENDS Naturals, FiniteSets

CONSTANTS
  Task,           (* tasks that may be in progress at once                 *)
  MaxFailures     (* bound: data base calls that fail                      *)

ASSUME RegistrationAssumption == MaxFailures \in Nat

Table == {"info", "serialnumber", "locationinfo", "rtposition"}

VARIABLES
  rows,           (* rows of the device in each table                      *)
  task,           (* what each task is about to do                         *)
  failures        (* data base calls that have failed                      *)

(* History, read by properties only. *)
VARIABLES
  told,           (* the device has been told where ChildServer is         *)
  lost,           (* tables a failed insert left without their row         *)
  overlapped,     (* two tasks were in progress at once                    *)
  misread         (* a look-up has failed                                  *)

regVars == <<rows, task, failures, told, lost, overlapped, misread>>

Inserts == {"addInfo", "addSerial", "addLocation", "addRt"}
Pc == {"idle", "reply", "findInfo", "updateInfo", "findSerial"} \cup Inserts

TableOf(pc) ==
  CASE pc = "addInfo" -> "info"
    [] pc = "addSerial" -> "serialnumber"
    [] pc = "addLocation" -> "locationinfo"
    [] pc = "addRt" -> "rtposition"

(* Mutant of Following: it goes on to rtposition only. *)
FollowingSkips(pc) ==
  CASE pc = "addInfo" -> "findSerial"
    [] pc = "addSerial" -> "addRt"
    [] OTHER -> "idle"

Following(pc) ==
  CASE pc = "addInfo" -> "findSerial"
    [] pc = "addSerial" -> "addLocation"
    [] pc = "addLocation" -> "addRt"
    [] pc = "addRt" -> "idle"

(* What an exception at pc skips: addInfo and addRtPosition catch their    *)
(* own, the rest of addSerialNumber is skipped as a whole.                 *)
Skipped(pc) ==
  CASE pc = "addSerial" -> {"serialnumber", "locationinfo", "rtposition"}
    [] pc = "addLocation" -> {"locationinfo", "rtposition"}
    [] OTHER -> {TableOf(pc)}

AfterFailure(pc) == IF pc = "addInfo" THEN "findSerial" ELSE "idle"

RegInit ==
  /\ rows = [t \in Table |-> 0]
  /\ task = [t \in Task |-> "idle"]
  /\ failures = 0
  /\ told = FALSE /\ lost = {} /\ overlapped = FALSE /\ misread = FALSE

At(t, pc) == task[t] = pc
GoTo(t, pc) == task' = [task EXCEPT ![t] = pc]
Idle == \A t \in Task : At(t, "idle")

-----------------------------------------------------------------------------
(* executorService.execute: a frame 0002 starts a task. *)
StartTask(t) ==
  /\ At(t, "idle")
  /\ GoTo(t, "reply")
  /\ overlapped' = (overlapped \/ ~Idle)
  /\ UNCHANGED <<rows, failures, told, lost, misread>>

(* returnMessage, before anything is stored. *)
Reply(t) ==
  /\ At(t, "reply")
  /\ GoTo(t, "findInfo")
  /\ told' = TRUE
  /\ UNCHANGED <<rows, failures, lost, overlapped, misread>>

FindInfo(t) ==
  /\ At(t, "findInfo")
  /\ GoTo(t, IF rows["info"] > 0 THEN "updateInfo" ELSE "addInfo")
  /\ UNCHANGED <<rows, failures, told, lost, overlapped, misread>>

(* The address of ChildServer is the same constant every time, so that the *)
(* update changes nothing, and neither does one that fails.                *)
UpdateInfo(t) ==
  /\ At(t, "updateInfo")
  /\ GoTo(t, "findSerial")
  /\ UNCHANGED <<rows, failures, told, lost, overlapped, misread>>

(* Mutant of FindSerial: it is told apart by table info. *)
FindSerialInInfo(t) ==
  /\ At(t, "findSerial")
  /\ GoTo(t, IF rows["info"] > 0 THEN "idle" ELSE "addSerial")
  /\ UNCHANGED <<rows, failures, told, lost, overlapped, misread>>

(* Mutant of FindSerial: every frame adds the device. *)
FindSerialNever(t) ==
  /\ At(t, "findSerial")
  /\ GoTo(t, "addSerial")
  /\ UNCHANGED <<rows, failures, told, lost, overlapped, misread>>

(* Mutant of FindSerial: it waits for the web side to add the device. *)
FindSerialWaits(t) ==
  /\ At(t, "findSerial")
  /\ GoTo(t, IF rows["serialnumber"] > 0 THEN "idle" ELSE "findSerial")
  /\ UNCHANGED <<rows, failures, told, lost, overlapped, misread>>

(* Found: "SerialNumber has registered", and the task ends. *)
FindSerial(t) ==
  /\ At(t, "findSerial")
  /\ GoTo(t, IF rows["serialnumber"] > 0 THEN "idle" ELSE "addSerial")
  /\ UNCHANGED <<rows, failures, told, lost, overlapped, misread>>

(* Connection, statement or query failed: the caller gets null. *)
FindFails(t) ==
  /\ task[t] \in {"findInfo", "findSerial"}
  /\ failures < MaxFailures
  /\ failures' = failures + 1 /\ misread' = TRUE
  /\ GoTo(t, IF At(t, "findInfo") THEN "addInfo" ELSE "addSerial")
  /\ UNCHANGED <<rows, told, lost, overlapped>>

Insert(t) ==
  /\ task[t] \in Inserts
  /\ rows' = [rows EXCEPT ![TableOf(task[t])] = @ + 1]
  /\ GoTo(t, Following(task[t]))
  /\ UNCHANGED <<failures, told, lost, overlapped, misread>>

(* The data base refuses a second row, if it has a unique key. *)
InsertRefused(t) ==
  /\ task[t] \in Inserts
  /\ rows[TableOf(task[t])] > 0
  /\ GoTo(t, AfterFailure(task[t]))
  /\ UNCHANGED <<rows, failures, told, lost, overlapped, misread>>

InsertFails(t) ==
  /\ task[t] \in Inserts
  /\ failures < MaxFailures
  /\ failures' = failures + 1
  /\ lost' = lost \cup Skipped(task[t])
  /\ GoTo(t, AfterFailure(task[t]))
  /\ UNCHANGED <<rows, told, overlapped, misread>>

TaskStep(t) ==
  \/ Reply(t) \/ FindInfo(t) \/ UpdateInfo(t) \/ FindSerial(t) \/ FindFails(t)
  \/ Insert(t) \/ InsertRefused(t) \/ InsertFails(t)

RegNext == \E t \in Task : StartTask(t) \/ TaskStep(t)

RegSpec == RegInit /\ [][RegNext]_regVars

-----------------------------------------------------------------------------

(* The variables keep their types. *)
RegTypeOK ==
  /\ rows \in [Table -> Nat]
  /\ task \in [Task -> Pc]
  /\ failures \in 0 .. MaxFailures
  /\ told \in BOOLEAN /\ lost \subseteq Table
  /\ overlapped \in BOOLEAN /\ misread \in BOOLEAN

(* A device has one row per table, however often it sends 0002, unless two *)
(* of its frames were handled at once or a look-up failed.                 *)
OneRowEach ==
  ~overlapped /\ ~misread => \A t \in Table : rows[t] <= 1

(* The children have no rows without the parent: no row in locationinfo    *)
(* before one in serialnumber, none in rtposition before locationinfo.     *)
NoOrphanRows ==
  /\ rows["locationinfo"] > 0 => rows["serialnumber"] > 0
  /\ rows["rtposition"] > 0 => rows["locationinfo"] > 0

(* Once its tasks are over, a device that has been told to go on to        *)
(* ChildServer has its row in every table, but for those an insert that    *)
(* failed left out; other tasks of it that ran at the same time, refused   *)
(* inserts and failed look-ups never cost it a row.                        *)
CompleteOnceHandled ==
  told /\ Idle => \A t \in Table : rows[t] > 0 \/ t \in lost

(* A device that has been told gets its rows, in time, whatever its frames *)
(* and failures do to each other: its tasks come to their end.             *)
RegistersInTheEnd ==
  told ~> \A t \in Table : rows[t] > 0 \/ t \in lost

=============================================================================
