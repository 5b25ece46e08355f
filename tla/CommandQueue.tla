---------------------------- MODULE CommandQueue ----------------------------
(***************************************************************************)
(* What the downlink path promises, without its threads: a command that    *)
(* was accepted waits in a first-in first-out queue until the server is    *)
(* through with it, and the server is through with the oldest one first.   *)
(* No command is dropped from the queue, handled twice to the end, or      *)
(* overtaken.                                                              *)
(***************************************************************************)
EXTENDS Naturals, Sequences

CONSTANT Id        (* identities of the commands *)

VARIABLES
  waiting,         (* accepted, oldest first                               *)
  finished         (* the server is through with them                      *)

queueVars == <<waiting, finished>>

WaitingSet == {waiting[i] : i \in 1 .. Len(waiting)}

QueueInit == waiting = <<>> /\ finished = {}

Accept(c) ==
  /\ c \notin WaitingSet \cup finished
  /\ waiting' = Append(waiting, c)
  /\ UNCHANGED finished

Finish ==
  /\ waiting # <<>>
  /\ finished' = finished \cup {Head(waiting)}
  /\ waiting' = Tail(waiting)

QueueNext == Finish \/ \E c \in Id : Accept(c)

QueueSpec == QueueInit /\ [][QueueNext]_queueVars

=============================================================================
