------------------------- MODULE PrimaryServer_proofs -------------------------
(***************************************************************************)
(* Proofs for modules Registration and PrimaryServer: the types, one row   *)
(* per table, no row without its parent, and complete registrations, for   *)
(* every number of tasks and failures.                                     *)
(***************************************************************************)
EXTENDS PrimaryServer, FrameStream_proofs, TLAPS

(* A task about to add to locationinfo or rtposition has added the parent. *)
Parents ==
  \A t \in Task :
    /\ task[t] = "addLocation" => rows["serialnumber"] > 0
    /\ task[t] = "addRt" => rows["locationinfo"] > 0

Done(tbl) == rows[tbl] > 0 \/ tbl \in lost
SomeAt(pcs) == \E t \in Task : task[t] \in pcs

(* Whoever takes a table's row for granted leaves it to another task that  *)
(* is on its way to that table.                                            *)
Covered ==
  /\ told => Done("info") \/ SomeAt({"findInfo", "addInfo"})
  /\ told => \/ Done("serialnumber")
             \/ SomeAt({"findInfo", "addInfo", "updateInfo", "findSerial", "addSerial"})
  /\ rows["serialnumber"] > 0 => Done("locationinfo") \/ SomeAt({"addLocation"})
  /\ rows["locationinfo"] > 0 => Done("rtposition") \/ SomeAt({"addRt"})
  /\ "serialnumber" \in lost => "locationinfo" \in lost
  /\ "locationinfo" \in lost => "rtposition" \in lost

(* Without overlap there is one task, and without a failed look-up it is   *)
(* on its way to a table only while the table has no row.                  *)
Alone ==
  /\ ~overlapped => \A t, u \in Task : t # u => task[t] = "idle" \/ task[u] = "idle"
  /\ ~overlapped /\ ~misread =>
       /\ \A tbl \in Table : rows[tbl] <= 1
       /\ \A t \in Task : task[t] \in Inserts => rows[TableOf(task[t])] = 0

RInv == RegTypeOK /\ NoOrphanRows /\ Parents /\ Covered /\ Alone

LEMMA RInvInit == RegInit => RInv
<1> SUFFICES ASSUME RegInit PROVE RInv
  OBVIOUS
<1> USE DEF RegInit, Table
<1>1. RegTypeOK
  <2>1. rows \in [Table -> Nat] /\ task \in [Task -> Pc] /\ lost \subseteq Table
    BY DEF Pc
  <2>2. failures \in 0 .. MaxFailures
    BY RegistrationAssumption DEF RegistrationAssumption
  <2> QED
    BY <2>1, <2>2 DEF RegTypeOK
<1>2. NoOrphanRows /\ Parents
  BY DEF NoOrphanRows, Parents
<1>3. Covered
  BY DEF Covered, Done
<1>4. Alone
  BY DEF Alone, Inserts
<1> QED
  BY <1>1, <1>2, <1>3, <1>4 DEF RInv

-----------------------------------------------------------------------------
(* Types. *)

LEMMA RegTypeStep ==
  ASSUME RegTypeOK, [RegNext]_regVars
  PROVE  RegTypeOK'
<1> USE RegistrationAssumption DEF RegistrationAssumption, RegTypeOK, Pc, Inserts, Table, GoTo, At
<1>1. CASE UNCHANGED regVars
  BY <1>1 DEF regVars
<1>2. ASSUME NEW t \in Task, StartTask(t) PROVE RegTypeOK'
  BY <1>2 DEF StartTask
<1>3. ASSUME NEW t \in Task, Reply(t) \/ FindInfo(t) \/ UpdateInfo(t) \/ FindSerial(t)
      PROVE  RegTypeOK'
  BY <1>3 DEF Reply, FindInfo, UpdateInfo, FindSerial
<1>4. ASSUME NEW t \in Task, FindFails(t) PROVE RegTypeOK'
  BY <1>4 DEF FindFails
<1>5. ASSUME NEW t \in Task, Insert(t) PROVE RegTypeOK'
  BY <1>5 DEF Insert, TableOf, Following
<1>6. ASSUME NEW t \in Task, InsertRefused(t) \/ InsertFails(t) PROVE RegTypeOK'
  BY <1>6 DEF InsertRefused, InsertFails, AfterFailure, Skipped, TableOf
<1> QED
  BY <1>1, <1>2, <1>3, <1>4, <1>5, <1>6 DEF RegNext, TaskStep

-----------------------------------------------------------------------------
(* The four inserts, with what each of them leaves behind. *)

LEMMA InsertCases ==
  ASSUME RegTypeOK, NEW t \in Task, Insert(t)
  PROVE  \/ /\ task[t] = "addInfo" /\ task' = [task EXCEPT ![t] = "findSerial"]
            /\ rows' = [rows EXCEPT !["info"] = @ + 1]
         \/ /\ task[t] = "addSerial" /\ task' = [task EXCEPT ![t] = "addLocation"]
            /\ rows' = [rows EXCEPT !["serialnumber"] = @ + 1]
         \/ /\ task[t] = "addLocation" /\ task' = [task EXCEPT ![t] = "addRt"]
            /\ rows' = [rows EXCEPT !["locationinfo"] = @ + 1]
         \/ /\ task[t] = "addRt" /\ task' = [task EXCEPT ![t] = "idle"]
            /\ rows' = [rows EXCEPT !["rtposition"] = @ + 1]
  BY DEF Insert, TableOf, Following, Inserts, GoTo

LEMMA RefusedCases ==
  ASSUME NEW t \in Task, InsertRefused(t)
  PROVE  \/ /\ task[t] = "addInfo" /\ task' = [task EXCEPT ![t] = "findSerial"]
            /\ rows["info"] > 0
         \/ /\ task[t] = "addSerial" /\ task' = [task EXCEPT ![t] = "idle"]
            /\ rows["serialnumber"] > 0
         \/ /\ task[t] = "addLocation" /\ task' = [task EXCEPT ![t] = "idle"]
            /\ rows["locationinfo"] > 0
         \/ /\ task[t] = "addRt" /\ task' = [task EXCEPT ![t] = "idle"]
            /\ rows["rtposition"] > 0
  BY DEF InsertRefused, TableOf, AfterFailure, Inserts, GoTo

LEMMA FailureCases ==
  ASSUME NEW t \in Task, InsertFails(t)
  PROVE  \/ /\ task[t] = "addInfo" /\ task' = [task EXCEPT ![t] = "findSerial"]
            /\ lost' = lost \cup {"info"}
         \/ /\ task[t] = "addSerial" /\ task' = [task EXCEPT ![t] = "idle"]
            /\ lost' = lost \cup {"serialnumber", "locationinfo", "rtposition"}
         \/ /\ task[t] = "addLocation" /\ task' = [task EXCEPT ![t] = "idle"]
            /\ lost' = lost \cup {"locationinfo", "rtposition"}
         \/ /\ task[t] = "addRt" /\ task' = [task EXCEPT ![t] = "idle"]
            /\ lost' = lost \cup {"rtposition"}
  BY DEF InsertFails, TableOf, Skipped, AfterFailure, Inserts, GoTo

-----------------------------------------------------------------------------
(* The parents, and the tables that are still to be filled. *)

LEMMA ParentsStep ==
  ASSUME RegTypeOK, NoOrphanRows, Parents, [RegNext]_regVars
  PROVE  NoOrphanRows' /\ Parents'
<1> USE DEF NoOrphanRows, Parents
<1>0. rows \in [{"info", "serialnumber", "locationinfo", "rtposition"} -> Nat]
      /\ task \in [Task -> Pc]
  BY DEF RegTypeOK, Table
<1>1. CASE UNCHANGED regVars
  BY <1>1 DEF regVars
<1>2. ASSUME NEW t \in Task,
             StartTask(t) \/ Reply(t) \/ FindInfo(t) \/ UpdateInfo(t) \/ FindSerial(t) \/ FindFails(t)
      PROVE  NoOrphanRows' /\ Parents'
  BY <1>0, <1>2
  DEF StartTask, Reply, FindInfo, UpdateInfo, FindSerial, FindFails, GoTo, At
<1>3. ASSUME NEW t \in Task, Insert(t) PROVE NoOrphanRows' /\ Parents'
  BY <1>0, <1>3, InsertCases
<1>4. ASSUME NEW t \in Task, InsertRefused(t) PROVE NoOrphanRows' /\ Parents'
  BY <1>0, <1>4, RefusedCases DEF InsertRefused
<1>5. ASSUME NEW t \in Task, InsertFails(t) PROVE NoOrphanRows' /\ Parents'
  BY <1>0, <1>5, FailureCases DEF InsertFails
<1> QED
  BY <1>1, <1>2, <1>3, <1>4, <1>5 DEF RegNext, TaskStep

LEMMA CoveredStep ==
  ASSUME RegTypeOK, Parents, Covered, [RegNext]_regVars
  PROVE  Covered'
<1> USE DEF Covered, Done, SomeAt
<1>0. rows \in [{"info", "serialnumber", "locationinfo", "rtposition"} -> Nat]
      /\ task \in [Task -> Pc]
  BY DEF RegTypeOK, Table
<1>1. CASE UNCHANGED regVars
  BY <1>1 DEF regVars
<1>2. ASSUME NEW t \in Task, StartTask(t) PROVE Covered'
  BY <1>0, <1>2 DEF StartTask, GoTo, At
<1>3. ASSUME NEW t \in Task, Reply(t) PROVE Covered'
  BY <1>0, <1>3 DEF Reply, GoTo, At
<1>4. ASSUME NEW t \in Task, FindInfo(t) PROVE Covered'
  BY <1>0, <1>4 DEF FindInfo, GoTo, At
<1>5. ASSUME NEW t \in Task, UpdateInfo(t) PROVE Covered'
  BY <1>0, <1>5 DEF UpdateInfo, GoTo, At
<1>6. ASSUME NEW t \in Task, FindSerial(t) PROVE Covered'
  BY <1>0, <1>6 DEF FindSerial, GoTo, At
<1>7. ASSUME NEW t \in Task, FindFails(t) PROVE Covered'
  BY <1>0, <1>7 DEF FindFails, GoTo, At
<1>8. ASSUME NEW t \in Task, Insert(t) PROVE Covered'
  <2>1. UNCHANGED <<told, lost>>
    BY <1>8 DEF Insert
  <2> QED
    BY <1>0, <1>8, <2>1, InsertCases
<1>9. ASSUME NEW t \in Task, InsertRefused(t) PROVE Covered'
  <2>1. UNCHANGED <<rows, told, lost>>
    BY <1>9 DEF InsertRefused
  <2> QED
    BY <1>0, <1>9, <2>1, RefusedCases
<1>10. ASSUME NEW t \in Task, InsertFails(t) PROVE Covered'
  <2>1. UNCHANGED <<rows, told>>
    BY <1>10 DEF InsertFails
  <2> QED
    BY <1>0, <1>10, <2>1, FailureCases
<1> QED
  BY <1>1, <1>2, <1>3, <1>4, <1>5, <1>6, <1>7, <1>8, <1>9, <1>10 DEF RegNext, TaskStep

-----------------------------------------------------------------------------
(* One task, one row. *)

LEMMA AloneStep ==
  ASSUME RegTypeOK, NoOrphanRows, Parents, Alone, [RegNext]_regVars
  PROVE  Alone'
<1> USE DEF Alone, TableOf, Inserts, Table
<1>0. rows \in [{"info", "serialnumber", "locationinfo", "rtposition"} -> Nat]
      /\ task \in [Task -> Pc]
  BY DEF RegTypeOK
<1>1. CASE UNCHANGED regVars
  BY <1>1 DEF regVars
<1>2. ASSUME NEW t \in Task, StartTask(t) PROVE Alone'
  BY <1>0, <1>2 DEF StartTask, Idle, GoTo, At
<1>3. ASSUME NEW t \in Task, Reply(t) PROVE Alone'
  BY <1>0, <1>3 DEF Reply, GoTo, At
<1>4. ASSUME NEW t \in Task, FindInfo(t) PROVE Alone'
  BY <1>0, <1>4 DEF FindInfo, GoTo, At
<1>5. ASSUME NEW t \in Task, UpdateInfo(t) PROVE Alone'
  BY <1>0, <1>5 DEF UpdateInfo, GoTo, At
<1>6. ASSUME NEW t \in Task, FindSerial(t) PROVE Alone'
  BY <1>0, <1>6 DEF FindSerial, GoTo, At
<1>7. ASSUME NEW t \in Task, FindFails(t) PROVE Alone'
  BY <1>0, <1>7 DEF FindFails, GoTo, At
<1>8. ASSUME NEW t \in Task, Insert(t) PROVE Alone'
  <2>1. UNCHANGED <<overlapped, misread>>
    BY <1>8 DEF Insert
  <2> QED
    BY <1>0, <1>8, <2>1, InsertCases DEF NoOrphanRows
<1>9. ASSUME NEW t \in Task, InsertRefused(t) PROVE Alone'
  <2>1. UNCHANGED <<rows, overlapped, misread>>
    BY <1>9 DEF InsertRefused
  <2> QED
    BY <1>0, <1>9, <2>1, RefusedCases
<1>10. ASSUME NEW t \in Task, InsertFails(t) PROVE Alone'
  <2>1. UNCHANGED <<rows, overlapped, misread>>
    BY <1>10 DEF InsertFails
  <2> QED
    BY <1>0, <1>10, <2>1, FailureCases
<1> QED
  BY <1>1, <1>2, <1>3, <1>4, <1>5, <1>6, <1>7, <1>8, <1>9, <1>10 DEF RegNext, TaskStep

LEMMA RInvStep == RInv /\ [RegNext]_regVars => RInv'
  BY RegTypeStep, ParentsStep, CoveredStep, AloneStep DEF RInv

LEMMA RInvImplies ==
  RInv => RegTypeOK /\ OneRowEach /\ NoOrphanRows /\ CompleteOnceHandled
<1> SUFFICES ASSUME RInv PROVE OneRowEach /\ CompleteOnceHandled
  BY DEF RInv
<1>1. OneRowEach
  BY DEF RInv, Alone, OneRowEach
<1>2. ASSUME told, Idle
      PROVE  \A tbl \in Table : Done(tbl)
  <2>1. ~SomeAt({"findInfo", "addInfo"})
        /\ ~SomeAt({"findInfo", "addInfo", "updateInfo", "findSerial", "addSerial"})
        /\ ~SomeAt({"addLocation"}) /\ ~SomeAt({"addRt"})
    BY <1>2 DEF Idle, At, SomeAt
  <2>2. Done("info") /\ Done("serialnumber")
    BY <1>2, <2>1 DEF RInv, Covered
  <2>3. Done("locationinfo")
    BY <2>1, <2>2 DEF RInv, Covered, Done
  <2>4. Done("rtposition")
    BY <2>1, <2>3 DEF RInv, Covered, Done
  <2> QED
    BY <2>2, <2>3, <2>4 DEF Table
<1> QED
  BY <1>1, <1>2 DEF CompleteOnceHandled, Done

(* However tasks of one device interleave and whichever data base calls    *)
(* fail, the invariant of the tasks holds.                                 *)
THEOREM TasksCorrect == RegSpec => []RInv
<1>1. RegInit => RInv
  BY RInvInit
<1>2. RInv /\ [RegNext]_regVars => RInv'
  BY RInvStep
<1> QED
  BY <1>1, <1>2, PTL DEF RegSpec

-----------------------------------------------------------------------------
(* The server on a connection. *)

(* PrimaryServer's event loop and pool are the pipeline and the tasks: what*)
(* the two modules say of these holds of the server.                       *)
THEOREM ServerIsBoth == Spec => StreamSpec /\ RegSpec
<1>1. Init => StreamInit /\ RegInit
  BY DEF Init
<1>2. [Next]_vars => [StreamNext]_streamVars /\ [RegNext]_regVars
  BY DEF Next, vars, Connection, EventLoop, Pool, Dispatch, StreamNext, RegNext
<1> QED
  BY <1>1, <1>2, PTL DEF Spec, StreamSpec, RegSpec

(* The types of the server. *)
THEOREM ServerTypeCorrect == Spec => []TypeOK
<1>1. StreamTypeOK /\ RegTypeOK => TypeOK
  BY DEF TypeOK
<1> QED
  BY <1>1, ServerIsBoth, PipelineTypeCorrect, TasksCorrect, RInvImplies, PTL

(* PrimaryServer registers nobody by a damaged frame. *)
THEOREM ServerIgnoresDamaged == Spec => []DamagedFrameIgnored
  BY ServerIsBoth, PipelineIgnoresDamaged, PTL

(* PrimaryServer's handler gets the clean frames. *)
THEOREM ServerAcceptsClean == Spec => []CleanFrameAccepted
  BY ServerIsBoth, PipelineAcceptsClean, PTL

(* A device has one row in each table unless its frames were handled at    *)
(* once or a look-up failed.                                               *)
THEOREM ServerOneRowEach == Spec => []OneRowEach
  BY ServerIsBoth, TasksCorrect, RInvImplies, PTL

(* No table has a row whose parent table has none.                         *)
THEOREM ServerNoOrphanRows == Spec => []NoOrphanRows
  BY ServerIsBoth, TasksCorrect, RInvImplies, PTL

(* A device that was told where to go has all its rows once its tasks are  *)
(* over, but for those that a failed insert left out.                      *)
THEOREM ServerCompletes == Spec => []CompleteOnceHandled
  BY ServerIsBoth, TasksCorrect, RInvImplies, PTL

=============================================================================
