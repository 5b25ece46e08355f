------------------------------ MODULE ZoneAlarm ------------------------------
(***************************************************************************)
(* SendSmsService.controlSMS: the column ef of the device row and the      *)
(* warnings that are sent to the device when it enters or leaves a fence.  *)
(*                                                                         *)
(* ef remembers the zone the last location was in.  A task that handles a  *)
(* location (frame 9955) reads the device row at its very start            *)
(* (LocationService.getLocation), looks the position up over HTTP, reads   *)
(* the configured fences, and decides from the ef it read whether the      *)
(* device crossed a fence; then it writes the whole row with the new ef    *)
(* and sends the warning.  Two other kinds of task write the whole row     *)
(* too: a login (9991) resets ef to "3", and 4130 writes back the ef it    *)
(* read.  Every call of the data base may fail: the DAOs swallow the       *)
(* exception, and the task goes on with what it has; after a row that was  *)
(* not written the warning is sent all the same.  This module is about one *)
(* device.                                                                 *)
(***************************************************************************)
EXTENDS Naturals, Sequences

CONSTANTS
  Task,        (* tasks of the device that may be in progress at once      *)
  FenceLists   (* what the web side may have configured for the device     *)

Home == "0"  School == "1"  Danger == "2"  Unknown == "3"
Zone == {Home, School, Danger, Unknown}

(* Values of model: warn of both crossings, of leaving, of entering.       *)
Model == {"0", "1", "2"}
Fence == [area : Nat, model : Model]

ASSUME FenceAssumption == FenceLists # {} /\ FenceLists \subseteq Seq(Fence)

VARIABLES
  ef,          (* the column                                               *)
  fences,      (* rows of table electfence, in the order they are read     *)
  task         (* what each task is doing                                  *)

(* History, read by properties only. *)
VARIABLES
  last,        (* zone of the last location handled since the last login   *)
  told,        (* direction of the last warning since then, if all fences  *)
               (* handled since then ask for both directions               *)
  missed,      (* the last location had no branch, or its row could not be *)
               (* written                                                  *)
  astray,      (* the warning told was sent without its zone being written *)
  disturbed    (* since a login that had the row to itself, two tasks      *)
               (* overlapped                                               *)

history == <<last, told, missed, astray, disturbed>>
vars == <<ef, fences, task, last, told, missed, astray, disturbed>>

Kind == {"location", "login", "row"}
Warning == {"none", "01", "02", "03", "04"}
TaskPc == {"idle", "read", "list", "decide", "write", "warn"}

(* row is the ef that was read, new the one to be written. *)
NoTask == [pc |-> "idle", kind |-> "row", row |-> Unknown, list |-> <<>>,
           new |-> Unknown, warning |-> "none"]

Init ==
  /\ ef = Unknown
  /\ fences \in FenceLists
  /\ task = [t \in Task |-> NoTask]
  /\ last = Unknown /\ told = "none"
  /\ missed = FALSE /\ astray = FALSE /\ disturbed = FALSE

At(t, pc) == task[t].pc = pc
Working == {t \in Task : task[t].pc # "idle"}
Alone(t) == Working \subseteq {t}

-----------------------------------------------------------------------------
(* What controlSMS decides, for a list of fences and the set of those (by  *)
(* position in the list) the location is inside of.                        *)

(* With two fences the home is the first of area 1, or else the second. *)
HomeAt(list) ==
  IF Len(list) = 1 THEN IF list[1].area = 1 THEN 1 ELSE 0
  ELSE IF list[1].area = 1 THEN 1 ELSE 2
SchoolAt(list) ==
  IF Len(list) = 1 THEN IF list[1].area = 2 THEN 1 ELSE 0
  ELSE 3 - HomeAt(list)

(* Is there a branch for this list and this ef at all? *)
Handles(list, old) ==
  \/ Len(list) = 2
  \/ Len(list) = 1 /\ list[1].area = 1 /\ old # School
  \/ Len(list) = 1 /\ list[1].area = 2 /\ old # Home

(* Home is looked at first. *)
ZoneOf(list, inside) ==
  IF HomeAt(list) \in inside THEN Home
  ELSE IF SchoolAt(list) \in inside THEN School ELSE Danger

Leaves(model) == model \in {"0", "1"}
Enters(model) == model \in {"0", "2"}

(* Mutant of WarningOf: leaving the school is not warned of. *)
WarningOfNoSchool(list, old, new) ==
  CASE old = Home /\ new = Danger /\ Leaves(list[HomeAt(list)].model)     -> "01"
    [] old = Danger /\ new = Home /\ Enters(list[HomeAt(list)].model)     -> "04"
    [] old = Danger /\ new = School /\ Enters(list[SchoolAt(list)].model) -> "02"
    [] OTHER                                                             -> "none"

WarningOf(list, old, new) ==
  CASE old = Home /\ new = Danger /\ Leaves(list[HomeAt(list)].model)     -> "01"
    [] old = School /\ new = Danger /\ Leaves(list[SchoolAt(list)].model) -> "03"
    [] old = Danger /\ new = Home /\ Enters(list[HomeAt(list)].model)     -> "04"
    [] old = Danger /\ new = School /\ Enters(list[SchoolAt(list)].model) -> "02"
    [] OTHER                                                             -> "none"

Direction(warning) ==
  CASE warning \in {"01", "03"} -> "out"
    [] warning \in {"02", "04"} -> "in"
    [] OTHER -> "none"

BothWays(list) == \A k \in DOMAIN list : list[k].model = "0"

-----------------------------------------------------------------------------
End(t) == task' = [task EXCEPT ![t] = NoTask]

(* A frame of the device; disturbed if another one is still at work. *)
Start(t, kind) ==
  /\ At(t, "idle")
  /\ task' = [task EXCEPT ![t].pc = "read", ![t].kind = kind]
  /\ disturbed' = (disturbed \/ Working # {})
  /\ UNCHANGED <<ef, fences, last, told, missed, astray>>

(* Mutant of ReadRow: a login leaves ef unset. *)
ReadRowUnset(t) ==
  /\ At(t, "read")
  /\ task' = [task EXCEPT ![t].pc = IF task[t].kind = "location" THEN "list" ELSE "write",
                          ![t].row = ef,
                          ![t].new = IF task[t].kind = "login" THEN "null" ELSE ef]
  /\ UNCHANGED <<ef, fences, history>>

(* Mutant of ReadRow: a login writes back what it read. *)
ReadRowNoReset(t) ==
  /\ At(t, "read")
  /\ task' = [task EXCEPT ![t].pc = IF task[t].kind = "location" THEN "list" ELSE "write",
                          ![t].row = ef, ![t].new = ef]
  /\ UNCHANGED <<ef, fences, history>>

(* findBySerialNumber.  getDefaultInfo (9991) goes on to write "3", 4130   *)
(* to write what it read.                                                  *)
ReadRow(t) ==
  /\ At(t, "read")
  /\ task' = [task EXCEPT ![t].pc = IF task[t].kind = "location" THEN "list" ELSE "write",
                          ![t].row = ef,
                          ![t].new = IF task[t].kind = "login" THEN Unknown ELSE ef]
  /\ UNCHANGED <<ef, fences, history>>

(* findBySerialNumber fails and returns null, which ends the task, in      *)
(* controlSMS at the latest, before anything is written or sent.           *)
ReadFails(t) ==
  /\ At(t, "read")
  /\ End(t)
  /\ UNCHANGED <<ef, fences, history>>

(* The position is not found, or an exception ends the task. *)
NoPosition(t) ==
  /\ At(t, "list")
  /\ End(t)
  /\ UNCHANGED <<ef, fences, history>>

ListFences(t) ==
  /\ At(t, "list")
  /\ task' = [task EXCEPT ![t].pc = "decide", ![t].list = fences]
  /\ UNCHANGED <<ef, fences, history>>

(* The query fails: the fences read before it did are returned. *)
ListSome(t, n) ==
  /\ At(t, "list")
  /\ task' = [task EXCEPT ![t].pc = "decide", ![t].list = SubSeq(fences, 1, n)]
  /\ UNCHANGED <<ef, fences, history>>

(* No branch of controlSMS applies: nothing is written or sent. *)
NotHandled(t) ==
  /\ At(t, "decide")
  /\ ~Handles(task[t].list, task[t].row)
  /\ End(t)
  /\ missed' = TRUE
  /\ UNCHANGED <<ef, fences, last, told, astray, disturbed>>

(* Mutant of Decide: "3" is left as it is. *)
DecideKeepsUnknown(t, inside) ==
  LET list == task[t].list
      old == task[t].row
      new == ZoneOf(list, inside)
  IN  /\ At(t, "decide")
      /\ Handles(list, old)
      /\ IF old = Unknown \/ new = old
         THEN End(t)
         ELSE task' = [task EXCEPT ![t].pc = "write", ![t].new = new,
                                   ![t].warning = WarningOf(list, old, new)]
      /\ last' = new /\ missed' = FALSE
      /\ told' = IF BothWays(list) THEN told ELSE "none"
      /\ UNCHANGED <<ef, fences, astray, disturbed>>

Decide(t, inside) ==
  LET list == task[t].list
      old == task[t].row
      new == ZoneOf(list, inside)
  IN  /\ At(t, "decide")
      /\ Handles(list, old)
      /\ IF new = old
         THEN End(t)
         ELSE task' = [task EXCEPT ![t].pc = "write", ![t].new = new,
                                   ![t].warning = WarningOf(list, old, new)]
      /\ last' = new /\ missed' = FALSE
      /\ told' = IF BothWays(list) THEN told ELSE "none"
      /\ UNCHANGED <<ef, fences, astray, disturbed>>

AfterWrite(t) ==
  IF task[t].warning = "none" THEN End(t) ELSE task' = [task EXCEPT ![t].pc = "warn"]

(* Mutant of WriteRow: the row is not written when a warning is due. *)
WriteRowUnlessWarned(t) ==
  LET login == task[t].kind = "login"
  IN  /\ At(t, "write")
      /\ ef' = IF task[t].warning = "none" THEN task[t].new ELSE ef
      /\ AfterWrite(t)
      /\ last' = IF login THEN Unknown ELSE last
      /\ told' = IF login THEN "none" ELSE told
      /\ missed' = (missed /\ ~login) /\ astray' = (astray /\ ~login)
      /\ disturbed' = (disturbed /\ ~(login /\ Alone(t)))
      /\ UNCHANGED fences

(* updateSerialNumber.  A login starts over. *)
WriteRow(t) ==
  LET login == task[t].kind = "login"
  IN  /\ At(t, "write")
      /\ ef' = task[t].new
      /\ AfterWrite(t)
      /\ last' = IF login THEN Unknown ELSE last
      /\ told' = IF login THEN "none" ELSE told
      /\ missed' = (missed /\ ~login) /\ astray' = (astray /\ ~login)
      /\ disturbed' = (disturbed /\ ~(login /\ Alone(t)))
      /\ UNCHANGED fences

(* updateSerialNumber swallows an exception, and its caller goes on.       *)
WriteFails(t) ==
  /\ At(t, "write")
  /\ AfterWrite(t)
  /\ missed' = (missed \/ task[t].kind = "location")
  /\ UNCHANGED <<ef, fences, last, told, astray, disturbed>>

(* returnMessage. *)
Warn(t) ==
  /\ At(t, "warn")
  /\ End(t)
  /\ told' = IF BothWays(task[t].list) THEN Direction(task[t].warning) ELSE "none"
  /\ astray' = missed
  /\ UNCHANGED <<ef, fences, last, missed, disturbed>>

(* The web side changes the fences (external). *)
Configure(list) ==
  /\ fences' = list
  /\ UNCHANGED <<ef, task, history>>

Next ==
  \/ \E t \in Task, k \in Kind : Start(t, k)
  \/ \E t \in Task : \/ ReadRow(t) \/ ReadFails(t) \/ NoPosition(t) \/ ListFences(t)
                     \/ NotHandled(t) \/ WriteRow(t) \/ WriteFails(t) \/ Warn(t)
  \/ \E t \in Task : \E n \in 0 .. Len(fences) - 1 : ListSome(t, n)
  \/ \E t \in Task : \E inside \in SUBSET DOMAIN task[t].list : Decide(t, inside)
  \/ \E list \in FenceLists : Configure(list)

Spec == Init /\ [][Next]_vars

-----------------------------------------------------------------------------

(* The variables keep their types.                                         *)
TypeOK ==
  /\ ef \in Zone
  /\ fences \in FenceLists
  /\ task \in [Task -> [pc : TaskPc, kind : Kind, row : Zone, list : Seq(Fence),
                        new : Zone, warning : Warning]]
  /\ last \in Zone /\ told \in {"none", "in", "out"}
  /\ missed \in BOOLEAN /\ astray \in BOOLEAN /\ disturbed \in BOOLEAN

(* Between two tasks ef says which zone the last location was in, however  *)
(* the fences are changed in between, unless tasks overlapped.  A location *)
(* without a branch and a row that could not be written are made good by   *)
(* the next location: ef is behind only after that location itself.        *)
EfIsLastZone == ~disturbed /\ Working = {} /\ ~missed => ef = last

(* The last warning and ef: after a warning of leaving ef says outside,    *)
(* after one of entering inside, and exactly when the zone warned of could *)
(* not be written ef says the opposite, until the next warning, however    *)
(* many locations are handled and written in between.                      *)
ToldMatchesZone ==
  ~disturbed /\ Working = {} /\ told # "none" =>
    /\ ef # Unknown
    /\ astray <=> (told = "in" <=> ef \notin {Home, School})

(* The guardian is warned twice in a row of leaving, or twice in a row of  *)
(* entering, only if the zone of the first warning could not be written,   *)
(* and then always: the next warning repeats the direction of the last.    *)
(* Otherwise there lies one of the other direction in between, a new       *)
(* login, or a fence that does not ask for both.                           *)
WarningsAlternate ==
  [][\A t \in Task : At(t, "warn") /\ ~At(t, "warn")' /\ ~disturbed /\ told # "none"
       => (told = Direction(task[t].warning) <=> astray)]_vars

=============================================================================
