--------------------------- MODULE CommandDelivery ---------------------------
(***************************************************************************)
(* The way of a command from the web side to a device.                     *)
(*                                                                         *)
(*   submit    DiscardServerHandler.channelRead0, the "@@" branch: for a   *)
(*             device in the map an executor task sends the command to the *)
(*             broker with ActiveMqSender; for any other it is only logged.*)
(*   queue     the persistent broker queue Wearme.DEFAULTMQ (external).    *)
(*   listener  ActiveMqReceiver.Listener: one thread that takes the head   *)
(*             of the queue, writes it to the device's channel             *)
(*             (SendToClient), adds it to the AckTable, and then asks      *)
(*             three times, after 5, 4 and 3 seconds, whether the ack came *)
(*             back; it writes the command again after the first two.  The *)
(*             broker forgets the message when onMessage returns           *)
(*             (AUTO_ACKNOWLEDGE) and delivers it again when it throws.    *)
(*   device    answers a command with an ack frame of the same code; the   *)
(*             ack is handled by a thread of the cached pool.              *)
(*                                                                         *)
(* DiscardServerHandler.map is reduced to whether it contains the serial   *)
(* number; module DeviceSession has the map itself.                        *)
(***************************************************************************)
EXTENDS AckTable, Sequences

CONSTANTS
  MaxCommands,      (* bound: commands submitted                           *)
  MaxRedeliveries,  (* redeliveries before the broker gives a message up   *)
  MaxCrashes        (* bound: crashes of the server                        *)

ASSUME DeliveryAssumption ==
  /\ MaxCommands \in Nat /\ MaxRedeliveries \in Nat /\ MaxCrashes \in Nat
  /\ MaxPackets >= MaxCommands * (MaxRedeliveries + 1)  \* StartAdd's bound never bites

VARIABLES
  online,       (* map.containsKey, per serial number                      *)
  submitted,    (* number of commands submitted                            *)
  sending,      (* commands an executor task is about to send to the broker*)
  senderUp,     (* ActiveMqSender's connection has not been closed         *)
  queue,        (* the broker queue                                        *)
  redelivered,  (* redeliveries of the head of the queue                   *)
  step,         (* where the listener stands                               *)
  attempt,      (* 1 for the first write, 2 and 3 for the repeats          *)
  wire,         (* frames written to the device and not yet read by it     *)
  verdict,      (* what was logged last of every command                   *)
  crashes

(* History, read by properties only. *)
VARIABLES
  executed,     (* commands the device has carried out                     *)
  answered,     (* commands whose ack frame reached the server             *)
  finished,     (* commands that left the queue                            *)
  heard         (* the ack calls for the listener's device that have been  *)
                (* in progress since AddToMapSet was entered: none, only   *)
                (* such as began with the command's own ack, or another    *)

deliveryVars == <<online, submitted, sending, senderUp, queue, redelivered, step,
                  attempt, wire, verdict, crashes,
                  executed, answered, finished, heard>>
vars == <<tableVars, deliveryVars>>

CommandId == 1 .. MaxCommands
Command   == [id : CommandId, sn : Sn, cmd : Cmd]
Step      == {"idle", "contains", "write", "tracking", "sleep", "checking", "return"}
Verdict   == {"none", "offlinesubmit", "unsent", "ignored", "ok", "timeout", "dead"}
Hearing   == {"nothing", "own", "other"}
Tries     == 3

Current == Head(queue)

Init ==
  /\ TableInit
  /\ online = [s \in Sn |-> FALSE]
  /\ submitted = 0 /\ sending = {} /\ senderUp = TRUE
  /\ queue = <<>> /\ redelivered = 0
  /\ step = "idle" /\ attempt = 1
  /\ wire = [s \in Sn |-> <<>>]
  /\ verdict = [i \in CommandId |-> "none"]
  /\ crashes = 0
  /\ executed = {} /\ answered = {} /\ finished = {} /\ heard = "nothing"

linkVars     == <<online, wire>>
submitVars   == <<submitted, sending, senderUp>>
listenerVars == <<queue, redelivered, step, attempt, verdict, finished>>
deviceVars   == <<executed, answered>>

-----------------------------------------------------------------------------
(* The web side and the sender.                                            *)

Submit(s, c) ==
  /\ submitted < MaxCommands
  /\ submitted' = submitted + 1
  /\ IF online[s]
     THEN /\ sending' = sending \cup {[id |-> submitted + 1, sn |-> s, cmd |-> c]}
          /\ UNCHANGED verdict
     ELSE /\ verdict' = [verdict EXCEPT ![submitted + 1] = "offlinesubmit"]
          /\ UNCHANGED sending
  /\ UNCHANGED <<tableVars, senderUp, linkVars, queue, redelivered, step, attempt,
                 finished, deviceVars, heard, crashes>>

(* Mutant of SendToMq: the task sends and is run again. *)
SendToMqTwice(c) ==
  /\ c \in sending
  /\ senderUp
  /\ Len(queue) < MaxCommands
  /\ queue' = Append(queue, c)
  /\ UNCHANGED <<tableVars, sending, submitted, senderUp, linkVars, redelivered, step,
                 attempt, verdict, finished, deviceVars, heard, crashes>>

SendToMq(c) ==
  /\ c \in sending
  /\ senderUp
  /\ sending' = sending \ {c}
  /\ queue' = Append(queue, c)
  /\ UNCHANGED <<tableVars, submitted, senderUp, linkVars, redelivered, step, attempt,
                 verdict, finished, deviceVars, heard, crashes>>

(* producer.send throws: the connection is closed and never opened again,  *)
(* so this and every later send only reaches the error log.                *)
SendFails(c) ==
  /\ c \in sending
  /\ sending' = sending \ {c}
  /\ senderUp' = FALSE
  /\ verdict' = [verdict EXCEPT ![c.id] = "unsent"]
  /\ UNCHANGED <<tableVars, submitted, linkVars, queue, redelivered, step, attempt,
                 finished, deviceVars, heard, crashes>>

-----------------------------------------------------------------------------
(* The listener.                                                           *)

Receive ==
  /\ step = "idle" /\ queue # <<>>
  /\ step' = "contains" /\ attempt' = 1
  /\ UNCHANGED <<tableVars, submitVars, linkVars, queue, redelivered, verdict,
                 finished, deviceVars, heard, crashes>>

(* onMessage of a message that cannot be read (JMSException) or has not    *)
(* more than 26 characters: it is returned from with nothing done.         *)
Ignore ==
  /\ step = "idle" /\ queue # <<>>
  /\ step' = "return" /\ attempt' = 1
  /\ verdict' = [verdict EXCEPT ![Current.id] = "ignored"]
  /\ UNCHANGED <<tableVars, submitVars, linkVars, queue, redelivered, finished, deviceVars,
                 heard, crashes>>

AckCallFor(s) == \E w \in Workers : call[w].pc \in DeletePc /\ Serial(w) = s

HeardBefore == IF AckCallFor(Current.sn) THEN "other" ELSE "nothing"

(* Mutant of AfterWrite: the packet is not added to the table. *)
AfterWriteUntracked ==
  /\ step' = "sleep"
  /\ heard' = IF attempt = 1 THEN HeardBefore ELSE heard
  /\ UNCHANGED tableVars

(* SendToClient after its write: the first time the packet is added. *)
AfterWrite ==
  IF attempt = 1
  THEN /\ StartAdd(Listener, Current.sn, Current.cmd)
       /\ step' = "tracking"
       /\ heard' = HeardBefore
  ELSE /\ step' = "sleep"
       /\ UNCHANGED <<tableVars, heard>>

(* map.containsKey is false: nothing is written (MqLogType.offlinequeue is *)
(* logged the first time).                                                 *)
NotInMap ==
  /\ step = "contains" /\ ~online[Current.sn]
  /\ AfterWrite
  /\ UNCHANGED <<submitVars, linkVars, queue, redelivered, attempt, verdict,
                 finished, deviceVars, crashes>>

InMap ==
  /\ step = "contains" /\ online[Current.sn]
  /\ step' = "write"
  /\ UNCHANGED <<tableVars, submitVars, linkVars, queue, redelivered, attempt, verdict,
                 finished, deviceVars, heard, crashes>>

(* map.get(..).writeAndFlush: the channel may be one that is gone already. *)
Write ==
  /\ step = "write" /\ online[Current.sn]
  /\ \/ wire' = [wire EXCEPT ![Current.sn] = Append(@, Current)]
     \/ UNCHANGED wire
  /\ AfterWrite
  /\ UNCHANGED <<submitVars, online, queue, redelivered, attempt, verdict,
                 finished, deviceVars, crashes>>

(* A RuntimeException leaves onMessage: the broker delivers the message    *)
(* again, or puts it on its dead letter queue.                             *)
Threw ==
  /\ step' = "idle"
  /\ IF redelivered < MaxRedeliveries
     THEN /\ redelivered' = redelivered + 1
          /\ UNCHANGED <<queue, verdict, finished>>
     ELSE /\ redelivered' = 0
          /\ queue' = Tail(queue)
          /\ verdict' = [verdict EXCEPT ![Current.id] = "dead"]
          /\ finished' = finished \cup {Current.id}
  /\ UNCHANGED <<submitVars, linkVars, attempt, deviceVars, heard, crashes>>

(* The device left the map between containsKey and get: get returns null.  *)
WriteThrows ==
  /\ step = "write" /\ ~online[Current.sn]
  /\ Threw
  /\ UNCHANGED tableVars

Tracked ==
  /\ step = "tracking" /\ At(Listener, "void") /\ Take(Listener)
  /\ step' = "sleep"
  /\ UNCHANGED <<submitVars, linkVars, queue, redelivered, attempt, verdict,
                 finished, deviceVars, heard, crashes>>

(* Thread.sleep is over: DeleteSetForAck(.., false). *)
Check ==
  /\ step = "sleep"
  /\ StartDelete(Listener, Current.sn, Current.cmd)
  /\ step' = "checking"
  /\ UNCHANGED <<submitVars, linkVars, queue, redelivered, attempt, verdict,
                 finished, deviceVars, heard, crashes>>

CallThrows ==
  /\ step \in {"tracking", "checking"} /\ At(Listener, "threw") /\ Take(Listener)
  /\ Threw

(* Mutant of NoAckYet: one repeat too many. *)
NoAckYetOneMore ==
  /\ step = "checking" /\ At(Listener, "true") /\ Take(Listener)
  /\ IF attempt <= Tries
     THEN /\ attempt' = attempt + 1 /\ step' = "contains"
          /\ UNCHANGED verdict
     ELSE /\ step' = "return"
          /\ verdict' = [verdict EXCEPT ![Current.id] = "timeout"]
          /\ UNCHANGED attempt
  /\ UNCHANGED <<submitVars, linkVars, queue, redelivered, finished, deviceVars, heard,
                 crashes>>

(* Mutant of NoAckYet: it repeats until there is an ack. *)
NoAckYetForever ==
  /\ step = "checking" /\ At(Listener, "true") /\ Take(Listener)
  /\ step' = "contains"
  /\ UNCHANGED <<submitVars, linkVars, queue, redelivered, attempt, verdict, finished,
                 deviceVars, heard, crashes>>

NoAckYet ==
  /\ step = "checking" /\ At(Listener, "true") /\ Take(Listener)
  /\ IF attempt < Tries
     THEN /\ attempt' = attempt + 1 /\ step' = "contains"
          /\ UNCHANGED verdict
     ELSE /\ step' = "return"
          /\ verdict' = [verdict EXCEPT ![Current.id] = "timeout"]
          /\ UNCHANGED attempt
  /\ UNCHANGED <<submitVars, linkVars, queue, redelivered, finished, deviceVars, heard,
                 crashes>>

(* Mutant of AckOk: the result of DeleteSetForAck is read the wrong way round. *)
AckOkInverted ==
  /\ step = "checking" /\ At(Listener, "true") /\ Take(Listener)
  /\ step' = "return"
  /\ verdict' = [verdict EXCEPT ![Current.id] = "ok"]
  /\ UNCHANGED <<submitVars, linkVars, queue, redelivered, attempt, finished, deviceVars,
                 heard, crashes>>

AckOk ==
  /\ step = "checking" /\ At(Listener, "false") /\ Take(Listener)
  /\ step' = "return"
  /\ verdict' = [verdict EXCEPT ![Current.id] = "ok"]
  /\ UNCHANGED <<submitVars, linkVars, queue, redelivered, attempt, finished, deviceVars,
                 heard, crashes>>

(* Mutant of Acknowledge: the broker is not told and keeps the message. *)
AcknowledgeNothing ==
  /\ step = "return"
  /\ step' = "idle" /\ redelivered' = 0
  /\ finished' = finished \cup {Current.id}
  /\ UNCHANGED <<tableVars, submitVars, linkVars, queue, attempt, verdict, deviceVars, heard,
                 crashes>>

(* onMessage returns after its half second: the broker forgets the head.   *)
Acknowledge ==
  /\ step = "return"
  /\ step' = "idle" /\ queue' = Tail(queue) /\ redelivered' = 0
  /\ finished' = finished \cup {Current.id}
  /\ UNCHANGED <<tableVars, submitVars, linkVars, attempt, verdict, deviceVars, heard,
                 crashes>>

-----------------------------------------------------------------------------
(* The device and its connection (external), and the ack threads.          *)

Execute(s) ==
  /\ wire[s] # <<>>
  /\ wire' = [wire EXCEPT ![s] = Tail(@)]
  /\ executed' = executed \cup {Head(wire[s]).id}
  /\ UNCHANGED <<submitVars, online, listenerVars, crashes>>

(* The ack frame arrives and its task starts on a free thread. *)
Answer(s, w) ==
  /\ Execute(s)
  /\ StartDelete(w, s, Head(wire[s]).cmd)
  /\ answered' = answered \cup {Head(wire[s]).id}
  /\ heard' = IF queue = <<>> \/ Current.sn # s THEN heard
              ELSE IF Head(wire[s]).id = Current.id /\ heard # "other" THEN "own" ELSE "other"

(* The frame is carried out and the connection ends before the ack is read. *)
AnswerLost(s) ==
  /\ Execute(s)
  /\ UNCHANGED <<tableVars, answered, heard>>

AckStep(w) ==
  /\ DeleteStep(w) \/ Take(w)
  /\ UNCHANGED deliveryVars

ListenerStep ==
  /\ AddStep(Listener) \/ DeleteStep(Listener)
  /\ UNCHANGED deliveryVars

ComesOnline(s) ==
  /\ ~online[s]
  /\ online' = [online EXCEPT ![s] = TRUE]
  /\ UNCHANGED <<tableVars, submitVars, wire, listenerVars, deviceVars, heard,
                 crashes>>

(* The device leaves the map: with its connection, or (7200, and 9991 of a *)
(* device that was in the map) with the connection still there.            *)
GoesOffline(s) ==
  /\ online[s]
  /\ online' = [online EXCEPT ![s] = FALSE]
  /\ wire' \in {wire, [wire EXCEPT ![s] = <<>>]}
  /\ UNCHANGED <<tableVars, submitVars, listenerVars, deviceVars, heard, crashes>>

(* The server process dies and starts again; the broker has kept the queue.*)
Crash ==
  /\ crashes < MaxCrashes
  /\ crashes' = crashes + 1
  /\ msgMapSet' = [s \in Sn |-> NoSet] /\ msgSet' = [r \in PacketId |-> {}]
  /\ created' = 0 /\ call' = [t \in Threads |-> NoCall]
  /\ online' = [s \in Sn |-> FALSE] /\ wire' = [s \in Sn |-> <<>>]
  /\ sending' = {} /\ senderUp' = TRUE
  /\ verdict' = [i \in CommandId |-> IF \E c \in sending : c.id = i THEN "unsent" ELSE verdict[i]]
  /\ step' = "idle" /\ attempt' = 1 /\ redelivered' = 0 /\ heard' = "nothing"
  /\ UNCHANGED <<submitted, queue, finished, deviceVars>>

-----------------------------------------------------------------------------
ServerNext ==
  \/ Receive \/ Ignore \/ NotInMap \/ InMap \/ Write \/ WriteThrows \/ Tracked \/ Check
  \/ CallThrows \/ NoAckYet \/ AckOk \/ Acknowledge \/ ListenerStep

Next ==
  \/ \E s \in Sn, c \in Cmd : Submit(s, c)
  \/ \E c \in sending : SendToMq(c) \/ SendFails(c)
  \/ ServerNext
  \/ \E s \in Sn, w \in Workers : Answer(s, w)
  \/ \E s \in Sn : AnswerLost(s) \/ ComesOnline(s) \/ GoesOffline(s)
  \/ \E w \in Workers : AckStep(w)
  \/ Crash

Spec == Init /\ [][Next]_vars

(* The listener thread and the pool's threads run; nothing is assumed of   *)
(* devices, connections or the web side.                                   *)
Fairness ==
  /\ WF_vars(ServerNext)
  /\ \A w \in Workers : WF_vars(AckStep(w))

FairSpec == Spec /\ Fairness

-----------------------------------------------------------------------------

(* The variables keep their types.                                         *)
DeliveryTypeOK ==
  /\ online \in [Sn -> BOOLEAN]
  /\ submitted \in 0 .. MaxCommands
  /\ sending \in SUBSET Command
  /\ senderUp \in BOOLEAN
  /\ queue \in Seq(Command)
  /\ redelivered \in 0 .. MaxRedeliveries
  /\ step \in Step
  /\ attempt \in 1 .. Tries
  /\ wire \in [Sn -> Seq(Command)]
  /\ verdict \in [CommandId -> Verdict]
  /\ crashes \in 0 .. MaxCrashes
  /\ executed \in SUBSET CommandId /\ answered \in SUBSET CommandId
  /\ finished \in SUBSET CommandId /\ heard \in Hearing

TypeOK == TableTypeOK /\ DeliveryTypeOK

QueuedAt(i) == {k \in 1 .. Len(queue) : queue[k].id = i}

(* Every command submitted is in exactly one place: in an executor task,   *)
(* once in the broker queue, through the listener with a verdict, or in    *)
(* the log as never sent.  Retries, redeliveries and restarts neither lose *)
(* a command nor put it in two places.                                     *)
InOnePlace ==
  \A i \in 1 .. submitted :
    \/ /\ \E c \in sending : c.id = i
       /\ QueuedAt(i) = {} /\ i \notin finished /\ verdict[i] = "none"
    \/ /\ \E k \in QueuedAt(i) : QueuedAt(i) = {k}
       /\ i \notin finished /\ \A c \in sending : c.id # i
    \/ /\ i \in finished /\ verdict[i] \in {"ignored", "ok", "timeout", "dead"}
       /\ QueuedAt(i) = {} /\ \A c \in sending : c.id # i
    \/ /\ verdict[i] \in {"offlinesubmit", "unsent"}
       /\ QueuedAt(i) = {} /\ i \notin finished /\ \A c \in sending : c.id # i

AwaitsAck ==
  \/ step \in {"sleep", "checking"}
  \/ step \in {"contains", "write"} /\ attempt > 1

(* While a device has not sent a single ack since its command was added,   *)
(* the command's packet stays where the listener's check finds it: no late *)
(* ack of another device, no left-over packet and no resend takes it out.  *)
SilentDeviceStaysTracked ==
  AwaitsAck /\ heard = "nothing" =>
    \E p \in Pending(Current.sn) : p.id = created /\ p.cmd = Current.cmd

(* "ack ok" is logged only if an ack call of this very device was in       *)
(* progress at some time after the command was added to the table; and if  *)
(* the device has not carried the command out, an ack of another of its    *)
(* commands was.                                                           *)
OkNeedsAck ==
  [][\A i \in CommandId : verdict[i] # "ok" /\ verdict'[i] = "ok" =>
       heard = "other" \/ (heard = "own" /\ i \in executed)]_vars

(* The queue of the whole path, without its threads. *)
Waiting == [k \in 1 .. Len(queue) |-> queue[k].id]
Abstract == INSTANCE CommandQueue WITH Id <- CommandId, waiting <- Waiting

(* Whatever the listener, the acks, redeliveries and crashes do, commands  *)
(* leave the queue once, in the order in which the broker accepted them.   *)
ImplementsQueue == Abstract!QueueSpec

(* The listener gets through with every command the broker has accepted,   *)
(* silent device, lost acks and exceptions notwithstanding.                *)
EveryQueuedCommandFinishes ==
  \A i \in CommandId : QueuedAt(i) # {} ~> i \in finished

(***************************************************************************)
(* What is left of onMessage for the head of the queue: redeliveries, then *)
(* attempts, then the steps of an attempt, a call's accesses among them.   *)
(***************************************************************************)
CallLeft(pc) ==
  CASE pc = "delContains"              -> 6
    [] pc = "delGet"                   -> 5
    [] pc = "iterate"                  -> 4
    [] pc \in {"scan", "addContains"}  -> 3
    [] pc \in {"size", "addGet"}       -> 2
    [] pc \in {"unmap", "addInsert"}   -> 1
    [] OTHER                           -> 0

AttemptLeft ==
  CASE step = "contains" -> 14
    [] step = "write"    -> 13
    [] step = "tracking" -> 9 + CallLeft(call[Listener].pc)
    [] step = "sleep"    -> 8
    [] step = "checking" -> 1 + CallLeft(call[Listener].pc)

DeliveryLeft ==
  CASE step = "idle"   -> 49
    [] step = "return" -> 0
    [] OTHER           -> (Tries - attempt) * 15 + AttemptLeft

HeadLeft == (MaxRedeliveries - redelivered) * 50 + DeliveryLeft

(* Until the head of the queue leaves it or the server dies, every step of *)
(* the listener brings it nearer to its end, and nothing that acks,        *)
(* devices or the web side do takes it back: repeats, redeliveries and     *)
(* exceptions cannot keep it busy with one command.                        *)
ListenerGetsOn ==
  [][queue # <<>> /\ queue' # Tail(queue) /\ crashes' = crashes =>
       /\ HeadLeft' <= HeadLeft
       /\ step' # step \/ call'[Listener].pc # call[Listener].pc => HeadLeft' < HeadLeft]_vars

(* NettyServerHandler.java:97: DeleteSetForAck returns false when the      *)
(* command "no longer exists, has already been executed successfully".     *)
AckOkMeansExecuted ==
  \A i \in CommandId : verdict[i] = "ok" => i \in executed

(* ActiveMqReceiver.java:213 logs a timeout with the reason "the ack did   *)
(* not come back three times": then no ack of it was handled before.       *)
TimeoutMeansUnanswered ==
  [][\A i \in CommandId :
       /\ verdict[i] # "timeout" /\ verdict'[i] = "timeout"
       /\ \A w \in Workers : At(w, "idle")
       => i \notin answered]_vars

=============================================================================
