--------------------------- MODULE LocationHistory ---------------------------
(***************************************************************************)
(* LocationService.saveLocation: the two histories of a device.            *)
(*                                                                         *)
(* The row of a device in table locationinfo keeps its past positions in   *)
(* two text columns, text (Baidu coordinates) and location (Gaode          *)
(* coordinates), entries separated by "/".  A task that handles a location *)
(* reads the row, takes the time, appends an entry to both columns and     *)
(* writes the row back.  When the minute is 30 or 59 it also cuts off the  *)
(* entries that are too old, and in that case does not append to text.     *)
(* Several tasks of one device may do so at once: nothing locks the row.   *)
(* A read that fails ends the task; a write that fails is swallowed.  The  *)
(* clock is the local time of the machine, taken to be never set back.     *)
(***************************************************************************)
EXTENDS Naturals, Sequences, FiniteSets

CONSTANTS
  Place,          (* positions a device reports                            *)
  Task,           (* tasks that may be in progress at once                 *)
  Keep,           (* age at which an entry is old (806400000 ms)           *)
  TrimTime,       (* times whose minute is 30 or 59                        *)
  MaxTime,        (* bound: the clock                                      *)
  MaxLocations    (* bound: locations handled                              *)

ASSUME HistoryAssumption ==
  /\ Place # {}
  /\ Keep \in Nat \ {0} /\ MaxTime \in Nat /\ MaxLocations \in Nat
  /\ TrimTime \subseteq 0 .. MaxTime

VARIABLES
  clock,          (* the time, to the second in the code                   *)
  row,            (* the columns text and location; <<>> stands for null   *)
  task            (* what each task is doing                               *)

(* History, read by properties only. *)
VARIABLES
  handled,        (* entries of the locations written so far, in order     *)
  overlapped      (* two tasks were between their read and their write     *)

vars == <<clock, row, task, handled, overlapped>>

Entry == [pos : Place, at : 0 .. MaxTime]
Column == {"text", "location"}
NoRow == [c \in Column |-> <<>>]
NoTask == [pc |-> "idle", pos |-> CHOOSE p \in Place : TRUE, at |-> 0, row |-> NoRow]

Init ==
  /\ clock = 0
  /\ row = NoRow
  /\ task = [t \in Task |-> NoTask]
  /\ handled = <<>> /\ overlapped = FALSE

At(t, pc) == task[t].pc = pc
HasRead(t) == task[t].pc \in {"stamp", "write"}
Arrived == {t \in Task : task[t].pc # "idle"}
EntryOf(t) == [pos |-> task[t].pos, at |-> task[t].at]

Young(e, now) == now < e.at + Keep
YoungAt(s, now) == {k \in DOMAIN s : Young(s[k], now)}

First(S) == CHOOSE k \in S : \A j \in S : k <= j

(* Mutant of Trimmed: only the oldest entry is cut off. *)
TrimmedFirstOnly(s, now) ==
  IF YoungAt(s, now) = {} \/ Young(s[1], now) THEN s ELSE Tail(s)

(* The loop over the entries: it stops at the first one that is young and, *)
(* unless that is the very first, cuts off everything up to the first      *)
(* occurrence (indexOf) of the entry before it.  When no entry is young,   *)
(* nothing is cut off.                                                     *)
Trimmed(s, now) ==
  LET young == YoungAt(s, now)
      k == First(young)
  IN  IF young = {} \/ k = 1 THEN s
      ELSE SubSeq(s, First({j \in DOMAIN s : s[j] = s[k - 1]}) + 1, Len(s))

(* Mutant of NewText: the two columns are treated alike. *)
NewTextAppends(s, e) ==
  IF s # <<>> /\ e.at \in TrimTime THEN Trimmed(Append(s, e), e.at) ELSE Append(s, e)

NewText(s, e) ==
  IF s = <<>> THEN <<e>>
  ELSE IF e.at \in TrimTime THEN Trimmed(s, e.at) ELSE Append(s, e)

(* Mutant of NewLocation: it is treated like text. *)
NewLocationTrimsOnly(s, e) ==
  IF s # <<>> /\ e.at \in TrimTime THEN Trimmed(s, e.at) ELSE Append(s, e)

NewLocation(s, e) ==
  IF s = <<>> THEN <<e>>
  ELSE IF e.at \in TrimTime THEN Trimmed(Append(s, e), e.at) ELSE Append(s, e)

-----------------------------------------------------------------------------
Tick ==
  /\ clock < MaxTime
  /\ clock' = clock + 1
  /\ UNCHANGED <<row, task, handled, overlapped>>

(* A frame 9955 whose position is known reaches saveLocation. *)
Arrive(t, p) ==
  /\ At(t, "idle")
  /\ Len(handled) + Cardinality(Arrived) < MaxLocations
  /\ task' = [task EXCEPT ![t].pc = "read", ![t].pos = p]
  /\ UNCHANGED <<clock, row, handled, overlapped>>

ReadRow(t) ==
  /\ At(t, "read")
  /\ task' = [task EXCEPT ![t].pc = "stamp", ![t].row = row]
  /\ overlapped' = (overlapped \/ \E u \in Task : HasRead(u))
  /\ UNCHANGED <<clock, row, handled>>

(* findBySeriaNumber returns null: li.getText() ends the task.             *)
ReadFails(t) ==
  /\ At(t, "read")
  /\ task' = [task EXCEPT ![t] = NoTask]
  /\ UNCHANGED <<clock, row, handled, overlapped>>

(* Mutant of Stamp: the time is taken before the row is read. *)
StampFirst(t) ==
  /\ At(t, "read") \/ At(t, "stamp")
  /\ IF At(t, "read")
     THEN task' = [task EXCEPT ![t].at = clock]
     ELSE task' = [task EXCEPT ![t].pc = "write"]
  /\ UNCHANGED <<clock, row, handled, overlapped>>

(* Mutant of Stamp: the time is rounded up. *)
StampRoundsUp(t) ==
  /\ At(t, "stamp")
  /\ task' = [task EXCEPT ![t].pc = "write", ![t].at = clock + 1]
  /\ UNCHANGED <<clock, row, handled, overlapped>>

(* Calendar.getInstance, after the read. *)
Stamp(t) ==
  /\ At(t, "stamp")
  /\ task' = [task EXCEPT ![t].pc = "write", ![t].at = clock]
  /\ UNCHANGED <<clock, row, handled, overlapped>>

WriteRow(t) ==
  /\ At(t, "write")
  /\ row' = [text |-> NewText(task[t].row.text, EntryOf(t)),
             location |-> NewLocation(task[t].row.location, EntryOf(t))]
  /\ handled' = Append(handled, EntryOf(t))
  /\ task' = [task EXCEPT ![t] = NoTask]
  /\ UNCHANGED <<clock, overlapped>>

(* update swallows an exception: the location is lost.                     *)
WriteFails(t) ==
  /\ At(t, "write")
  /\ task' = [task EXCEPT ![t] = NoTask]
  /\ UNCHANGED <<clock, row, handled, overlapped>>

Next ==
  \/ Tick
  \/ \E t \in Task, p \in Place : Arrive(t, p)
  \/ \E t \in Task : ReadRow(t) \/ ReadFails(t) \/ Stamp(t) \/ WriteRow(t) \/ WriteFails(t)

Spec == Init /\ [][Next]_vars

-----------------------------------------------------------------------------

(* The variables keep their types, and the clock is not behind an entry.   *)
TypeOK ==
  /\ clock \in 0 .. MaxTime
  /\ row \in [Column -> Seq(Entry)]
  /\ task \in [Task -> [pc : {"idle", "read", "stamp", "write"}, pos : Place,
                        at : 0 .. clock, row : [Column -> Seq(Entry)]]]
  /\ handled \in Seq(Entry) /\ overlapped \in BOOLEAN

InOrder(s) == \A j, k \in DOMAIN s : j <= k => s[j].at <= s[k].at

(* Both columns are in the order of time, whatever tasks overlap: what the *)
(* loop of the trim relies on when it stops at the first young entry.      *)
ColumnsInOrder == \A c \in Column : InOrder(row[c])

IsSuffixOf(s, all) ==
  /\ Len(s) <= Len(all)
  /\ s = SubSeq(all, Len(all) - Len(s) + 1, Len(all))

ForgottenAreOld(s, all) ==
  \A k \in 1 .. Len(all) - Len(s) : ~Young(all[k], clock)

(* As long as no two tasks overlapped, location holds the last of all      *)
(* locations written, without a gap, and those it lacks are old: a write   *)
(* that fails loses its own location and no other.                         *)
LocationKept ==
  ~overlapped => IsSuffixOf(row.location, handled) /\ ForgottenAreOld(row.location, handled)

(* The locations written that text is given: not those that come at minute *)
(* 30 or 59, but for the first of all, which finds the column null.        *)
Texted == {k \in DOMAIN handled : k = 1 \/ handled[k].at \notin TrimTime}

(* s holds those of the locations all that are at the places in S, in      *)
(* their order, but for the first few, and these are old.                  *)
HoldsAllBut(s, all, S, now) ==
  \E place \in [DOMAIN s -> S] :
    /\ \A j, k \in DOMAIN s : j < k => place[j] < place[k]
    /\ \A k \in DOMAIN s : s[k] = all[place[k]]
    /\ \A n \in S : \/ \E k \in DOMAIN s : place[k] = n
                    \/ ~Young(all[n], now) /\ \A k \in DOMAIN s : n < place[k]

(* As long as no two tasks overlapped, text holds the last of the          *)
(* locations it is given, without a gap, and those it lacks are old.       *)
TextKept == ~overlapped => HoldsAllBut(row.text, handled, Texted, clock)

(* After a trim that was written a column holds no old entries, but for    *)
(* some of the last second before the cut, when the device reported twice  *)
(* in that second (indexOf finds the first of two equal entries), or when  *)
(* text has no young entry at all.                                         *)
TrimForgetsTheOld ==
  [][\A t \in Task, c \in Column :
       LET now == task[t].at
           old == {k \in DOMAIN row'[c] : ~Young(row'[c][k], now)}
       IN  /\ At(t, "write") /\ ~At(t, "write")' /\ handled' # handled /\ now \in TrimTime
           /\ YoungAt(row'[c], now) # {}
           => \A j, k \in old : row'[c][j].at = row'[c][k].at]_vars

=============================================================================
