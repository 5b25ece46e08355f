------------------------------ MODULE Pedometer ------------------------------
(***************************************************************************)
(* PedometerService.getPedoMeter (frame 7101) beside the location history: *)
(* the records of a device that pool tasks read, change and write back.    *)
(*                                                                         *)
(* Table pedometer keeps one entry per weekday in the text column distance *)
(* of the device's row.  A task looks the row up, takes the date, and      *)
(* either adds a row with today's entry alone or writes all entries back   *)
(* with today's replaced.  An exception of the data base is swallowed: a   *)
(* look-up then returns null like one that found nothing.  The update      *)
(* writes every row of the serial number, of which there may be several.   *)
(*                                                                         *)
(* The pool and the clock are those of module LocationHistory; a tick is   *)
(* a day here, and Keep (806400 s) is nine days and a third.               *)
(***************************************************************************)
EXTENDS LocationHistory

CONSTANTS
  Steps,          (* step counts a device reports                          *)
  Week,           (* days of a week (7)                                    *)
  MaxReports,     (* bound: reports of steps                               *)
  MaxFrames,      (* bound: locations and reports together                 *)
  MaxFailures     (* bound: data base calls that fail                      *)

ASSUME PedometerAssumption ==
  /\ Week \in Nat \ {0}
  /\ MaxReports \in Nat /\ MaxFrames \in Nat /\ MaxFailures \in Nat

VARIABLES
  weeks,          (* the column distance of the device's rows              *)
  walk,           (* what each task is doing for a report                  *)
  reports,        (* number of reports received                            *)
  failures        (* data base calls that have failed                      *)

(* History, read by properties only. *)
VARIABLES
  reported,       (* per weekday, the last entry written                   *)
  mixed           (* two reports overlapped, or a look-up failed to find   *)

pedVars == <<weeks, walk, reports, failures, reported, mixed>>
recordVars == <<vars, pedVars>>

Slot == 0 .. Week - 1
Missing == [steps |-> "null", day |-> 0]
Report == [steps : Steps, day : 0 .. MaxTime]
WeekRow == [Slot -> Report \cup {Missing}]
EmptyWeek == [d \in Slot |-> Missing]
NoWalk == [pc |-> "idle", steps |-> "garbled", day |-> 0, found |-> <<>>]

PedInit ==
  /\ weeks = <<>>
  /\ walk = [t \in Task |-> NoWalk]
  /\ reports = 0 /\ failures = 0
  /\ reported = EmptyWeek /\ mixed = FALSE

Walking(t) == walk[t].pc # "idle"
WalkAt(t, pc) == walk[t].pc = pc

(* DAY_OF_WEEK - 1. *)
SlotOf(day) == day % Week

(* Mutant of NewWeek: the entries of the row are not taken over. *)
NewWeekAlone(found, e) == [EmptyWeek EXCEPT ![SlotOf(e.day)] = e]

NewWeek(found, e) ==
  [(IF found = <<>> THEN EmptyWeek ELSE found[1]) EXCEPT ![SlotOf(e.day)] = e]

-----------------------------------------------------------------------------
(* A frame 7101; its content may not be a number. *)
ReportSteps(t, n) ==
  /\ ~Walking(t) /\ At(t, "idle")
  /\ reports < MaxReports
  /\ reports' = reports + 1
  /\ walk' = [walk EXCEPT ![t].pc = "find", ![t].steps = n]
  /\ mixed' = (mixed \/ \E u \in Task : Walking(u))
  /\ UNCHANGED <<weeks, failures, reported>>

(* The first row of the result, in whatever order the data base has them.  *)
FindWeek(t) ==
  /\ WalkAt(t, "find")
  /\ \/ /\ weeks = <<>>
        /\ walk' = [walk EXCEPT ![t].pc = "date", ![t].found = <<>>]
     \/ \E i \in DOMAIN weeks :
          walk' = [walk EXCEPT ![t].pc = "date", ![t].found = <<weeks[i]>>]
  /\ UNCHANGED <<weeks, reports, failures, reported, mixed>>

FindWeekFails(t) ==
  /\ WalkAt(t, "find")
  /\ failures < MaxFailures
  /\ failures' = failures + 1
  /\ mixed' = (mixed \/ weeks # <<>>)
  /\ walk' = [walk EXCEPT ![t].pc = "date", ![t].found = <<>>]
  /\ UNCHANGED <<weeks, reports, reported>>

(* Mutant of TakeDate: the date of a time zone ahead. *)
TakeDateAhead(t) ==
  /\ WalkAt(t, "date")
  /\ walk' = [walk EXCEPT ![t].pc = "write", ![t].day = clock + 1]
  /\ UNCHANGED <<weeks, reports, failures, reported, mixed>>

(* Calendar.getInstance, after the look-up. *)
TakeDate(t) ==
  /\ WalkAt(t, "date")
  /\ walk' = [walk EXCEPT ![t].pc = "write", ![t].day = clock]
  /\ UNCHANGED <<weeks, reports, failures, reported, mixed>>

(* Integer.parseInt throws: the task ends before it writes. *)
NotANumber(t) ==
  /\ WalkAt(t, "write") /\ walk[t].steps \notin Steps
  /\ walk' = [walk EXCEPT ![t] = NoWalk]
  /\ UNCHANGED <<weeks, reports, failures, reported, mixed>>

WriteWeek(t) ==
  /\ WalkAt(t, "write") /\ walk[t].steps \in Steps
  /\ LET e == [steps |-> walk[t].steps, day |-> walk[t].day]
         new == NewWeek(walk[t].found, e)
     IN  /\ IF walk[t].found = <<>>
            THEN weeks' = Append(weeks, new)
            ELSE weeks' = [i \in DOMAIN weeks |-> new]
         /\ reported' = [reported EXCEPT ![SlotOf(e.day)] = e]
  /\ walk' = [walk EXCEPT ![t] = NoWalk]
  /\ UNCHANGED <<reports, failures, mixed>>

WriteWeekFails(t) ==
  /\ WalkAt(t, "write") /\ walk[t].steps \in Steps
  /\ failures < MaxFailures
  /\ failures' = failures + 1
  /\ walk' = [walk EXCEPT ![t] = NoWalk]
  /\ UNCHANGED <<weeks, reports, reported, mixed>>

PedStep(t) ==
  \/ FindWeek(t) \/ FindWeekFails(t) \/ TakeDate(t)
  \/ NotANumber(t) \/ WriteWeek(t) \/ WriteWeekFails(t)

-----------------------------------------------------------------------------
(* The tasks of both kinds, in one pool. *)

MoreFrames == Len(handled) + Cardinality(Arrived) + reports < MaxFrames

RecordsInit == Init /\ PedInit

HistoryStep ==
  /\ \/ Tick
     \/ \E t \in Task, p \in Place : MoreFrames /\ ~Walking(t) /\ Arrive(t, p)
     \/ \E t \in Task : ReadRow(t) \/ ReadFails(t) \/ Stamp(t) \/ WriteRow(t) \/ WriteFails(t)
  /\ UNCHANGED pedVars

StepReport ==
  /\ \/ \E t \in Task, n \in Steps \cup {"garbled"} : MoreFrames /\ ReportSteps(t, n)
     \/ \E t \in Task : PedStep(t)
  /\ UNCHANGED vars

RecordsNext == HistoryStep \/ StepReport

RecordsSpec == RecordsInit /\ [][RecordsNext]_recordVars

-----------------------------------------------------------------------------

(* The variables of the pedometer keep their types.                        *)
PedTypeOK ==
  /\ weeks \in Seq(WeekRow)
  /\ walk \in [Task -> [pc : {"idle", "find", "date", "write"},
                        steps : Steps \cup {"garbled"}, day : 0 .. clock,
                        found : {<<>>} \cup {<<w>> : w \in WeekRow}]]
  /\ reports \in 0 .. MaxReports /\ failures \in 0 .. MaxFailures
  /\ reported \in WeekRow /\ mixed \in BOOLEAN

(* Unless reports overlapped or a look-up failed on a row that is there,   *)
(* a device has one row, and it holds what was last written on each        *)
(* weekday: a new day, a report that is lost or garbled, and a first       *)
(* report cost no other day its entry.                                     *)
WeekKept ==
  ~mixed => /\ Len(weeks) <= 1
            /\ \A i \in DOMAIN weeks : weeks[i] = reported
            /\ weeks = <<>> => reported = EmptyWeek

=============================================================================
