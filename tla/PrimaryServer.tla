---------------------------- MODULE PrimaryServer ----------------------------
(***************************************************************************)
(* One connection of a device to PrimaryServer: the bytes of its frames    *)
(* 0002 come through the pipeline (FrameStream), and each frame the handler*)
(* takes is handed to a thread of the pool (Registration), while the event *)
(* loop goes on to read.                                                   *)
(***************************************************************************)
EXTENDS FrameStream, Registration

vars == <<streamVars, regVars>>

Init == StreamInit /\ RegInit

(* Mutant of Dispatch: the frame is given to two threads. *)
DispatchTwice ==
  IF accepted' = accepted THEN UNCHANGED regVars
  ELSE /\ \E t, u \in Task :
            /\ t # u /\ At(t, "idle") /\ At(u, "idle")
            /\ task' = [task EXCEPT ![t] = "reply", ![u] = "reply"]
       /\ UNCHANGED <<rows, failures, told, lost, overlapped, misread>>

(* executorService.execute for a frame the handler has taken.  (The pool   *)
(* starts threads without a limit; Task bounds those at work at once.)     *)
Dispatch ==
  IF accepted' = accepted THEN UNCHANGED regVars
  ELSE \E t \in Task : StartTask(t)

EventLoop == Decode /\ Dispatch

Connection == (Arrive \/ Close) /\ UNCHANGED regVars

Pool(t) == TaskStep(t) /\ UNCHANGED streamVars

Next == Connection \/ EventLoop \/ \E t \in Task : Pool(t)

Spec == Init /\ [][Next]_vars

(* The pool's threads run; nothing is assumed of the device. *)
Fairness == \A t \in Task : WF_vars(Pool(t))

FairSpec == Spec /\ Fairness

-----------------------------------------------------------------------------

(* The variables keep their types. *)
TypeOK == StreamTypeOK /\ RegTypeOK

=============================================================================
