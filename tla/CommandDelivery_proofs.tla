----------------------- MODULE CommandDelivery_proofs -----------------------
(***************************************************************************)
(* What TLAPS proves of the downlink path, for every number of devices,    *)
(* commands, ack threads, redeliveries and crashes: its invariants, and    *)
(* that it implements CommandQueue.                                        *)
(***************************************************************************)
EXTENDS CommandDelivery, AckTable_proofs, SequenceTheorems, FiniteSetTheorems

(* Where a command can be. *)
Queued(i) == \E k \in 1 .. Len(queue) : queue[k].id = i
Sent(i) == \E c \in sending : c.id = i

Placed(i) ==
  \/ Sent(i) /\ ~Queued(i) /\ i \notin finished /\ verdict[i] = "none"
  \/ Queued(i) /\ ~Sent(i) /\ i \notin finished
  \/ i \in finished /\ ~Queued(i) /\ ~Sent(i) /\ verdict[i] \in {"ignored", "ok", "timeout", "dead"}
  \/ verdict[i] \in {"offlinesubmit", "unsent"} /\ ~Queued(i) /\ ~Sent(i) /\ i \notin finished

(* One place for each command, and none for one that is still to come. *)
Places ==
  /\ \A j, k \in 1 .. Len(queue) : queue[j].id = queue[k].id => j = k
  /\ \A c, d \in sending : c.id = d.id => c = d
  /\ \A i \in CommandId :
       IF i <= submitted THEN Placed(i)
       ELSE ~Queued(i) /\ ~Sent(i) /\ i \notin finished /\ verdict[i] = "none"

(* The listener is in a call exactly where onMessage makes one, and works  *)
(* for the head of the queue.                                              *)
Listening ==
  /\ step # "idle" => queue # <<>>
  /\ step \notin {"tracking", "checking"} => call[Listener].pc = "idle"
  /\ step = "tracking" => call[Listener].pc \in AddPc \cup {"void", "threw"}
  /\ step = "checking" => call[Listener].pc \in DeletePc \cup {"true", "false", "threw"}
  /\ call[Listener].pc \in AddPc \cup DeletePc =>
       call[Listener].arg.clientNum = Current.sn /\ call[Listener].arg.cmd = Current.cmd
  /\ step = "return" => verdict[Current.id] \in {"ignored", "ok", "timeout"}

(* The packet of the listener's command waits in the table. *)
Waits ==
  \E p \in Pending(Current.sn) :
    p.id = created /\ p.cmd = Current.cmd /\ p.clientNum = Current.sn

(* As long as the device has not been heard since AddToMapSet was entered, *)
(* no thread handles an ack of it; the set the listener is about to add to *)
(* is the one that is mapped, and its check is bound to find the packet.   *)
Silence ==
  (step = "tracking" \/ AwaitsAck) /\ heard = "nothing" =>
    /\ ~AckCallFor(Current.sn)
    /\ AwaitsAck => Waits
    /\ At(Listener, "void") => Waits
    /\ At(Listener, "addInsert") => Ref(Listener) \in {NoSet, msgMapSet[Current.sn]}
    /\ step = "checking" => call[Listener].pc \notin {"size", "unmap", "false"}

(* Where only its own ack was heard, the command was carried out.          *)
Heard == (step = "tracking" \/ AwaitsAck) /\ heard = "own" => Current.id \in executed

DInv == IInv /\ DeliveryTypeOK /\ Places /\ Listening /\ Silence /\ Heard

-----------------------------------------------------------------------------
(* The queue. *)

LEMMA QueueHead ==
  ASSUME DeliveryTypeOK, queue # <<>>
  PROVE  /\ Current \in Command /\ Current = queue[1] /\ Queued(Current.id)
         /\ Current.id \in CommandId /\ Current.sn \in Sn /\ Current.cmd \in Cmd
<1>1. queue \in Seq(Command) /\ Len(queue) \in Nat /\ 1 \in 1 .. Len(queue)
  BY DEF DeliveryTypeOK
<1>2. Current = queue[1] /\ Current \in Command
  BY <1>1 DEF Current
<1> QED
  BY <1>1, <1>2 DEF Queued, Command

LEMMA AppendedQueue ==
  ASSUME DeliveryTypeOK, Places, NEW c \in Command, ~Queued(c.id), queue' = Append(queue, c)
  PROVE  /\ queue' \in Seq(Command) /\ queue' # <<>>
         /\ \A i : Queued(i)' <=> Queued(i) \/ i = c.id
         /\ \A j, k \in 1 .. Len(queue') : queue'[j].id = queue'[k].id => j = k
         /\ queue # <<>> => Current' = Current
<1>1. /\ queue \in Seq(Command) /\ Len(queue) \in Nat /\ Len(queue') = Len(queue) + 1
      /\ \A k \in 1 .. Len(queue) : queue'[k] = queue[k]
      /\ queue'[Len(queue) + 1] = c
      /\ queue' \in Seq(Command)
  BY DEF DeliveryTypeOK
<1>2. \A k \in 1 .. Len(queue') : k \in 1 .. Len(queue) \/ k = Len(queue) + 1
  BY <1>1
<1>3. \A i : Queued(i)' <=> Queued(i) \/ i = c.id
  <2>1. \A i : Queued(i)' => Queued(i) \/ i = c.id
    BY <1>1, <1>2 DEF Queued
  <2>2. \A i : Queued(i) => Queued(i)'
    BY <1>1 DEF Queued
  <2>3. Queued(c.id)'
    BY <1>1 DEF Queued
  <2> QED
    BY <2>1, <2>2, <2>3
<1>4. \A k \in 1 .. Len(queue) : queue[k].id # c.id
  BY DEF Queued
<1>5. \A j, k \in 1 .. Len(queue') : queue'[j].id = queue'[k].id => j = k
  BY <1>1, <1>2, <1>4 DEF Places
<1>6. queue # <<>> => Current' = Current
  BY <1>1 DEF Current
<1> QED
  BY <1>1, <1>3, <1>5, <1>6

LEMMA ShortenedQueue ==
  ASSUME DeliveryTypeOK, Places, queue # <<>>, queue' = Tail(queue)
  PROVE  /\ queue' \in Seq(Command)
         /\ \A i : Queued(i)' <=> Queued(i) /\ i # Current.id
         /\ \A j, k \in 1 .. Len(queue') : queue'[j].id = queue'[k].id => j = k
<1>1. /\ queue \in Seq(Command) /\ Len(queue) \in Nat /\ Len(queue) >= 1
      /\ Len(queue') = Len(queue) - 1 /\ queue' \in Seq(Command)
      /\ \A k \in 1 .. Len(queue') : queue'[k] = queue[k + 1]
      /\ Current = queue[1]
  BY DEF DeliveryTypeOK, Current
<1>2. \A k \in 1 .. Len(queue') : k + 1 \in 1 .. Len(queue) /\ k + 1 # 1
  BY <1>1
<1>3. \A j, k \in 1 .. Len(queue') : queue'[j].id = queue'[k].id => j = k
  <2> SUFFICES ASSUME NEW j \in 1 .. Len(queue'), NEW k \in 1 .. Len(queue'),
                      queue'[j].id = queue'[k].id
               PROVE  j = k
    OBVIOUS
  <2>1. j + 1 = k + 1
    BY <1>1, <1>2 DEF Places
  <2> QED
    BY <2>1
<1>4. \A i : Queued(i)' => Queued(i) /\ i # Current.id
  <2> SUFFICES ASSUME NEW i, Queued(i)' PROVE Queued(i) /\ i # Current.id
    OBVIOUS
  <2>1. PICK k \in 1 .. Len(queue') : queue'[k].id = i
    BY DEF Queued
  <2>2. k + 1 \in 1 .. Len(queue) /\ queue[k + 1].id = i /\ k + 1 # 1 /\ 1 \in 1 .. Len(queue)
    BY <2>1, <1>1, <1>2
  <2> QED
    BY <2>2, <1>1 DEF Queued, Places
<1>5. \A i : Queued(i) /\ i # Current.id => Queued(i)'
  <2> SUFFICES ASSUME NEW i, Queued(i), i # Current.id PROVE Queued(i)'
    OBVIOUS
  <2>1. PICK k \in 1 .. Len(queue) : queue[k].id = i
    BY DEF Queued
  <2>2. k - 1 \in 1 .. Len(queue') /\ queue'[k - 1] = queue[(k - 1) + 1] /\ (k - 1) + 1 = k
    BY <2>1, <1>1
  <2> QED
    BY <2>1, <2>2 DEF Queued
<1> QED
  BY <1>1, <1>3, <1>4, <1>5

-----------------------------------------------------------------------------
(* Types and places. *)

LEMMA PlacesKept ==
  Places /\ UNCHANGED <<submitted, sending, queue, finished, verdict>> => Places'
BY DEF Places, Placed, Queued, Sent

(* The verdict on a command that is still in the queue says nothing yet.   *)
LEMMA VerdictOnHead ==
  ASSUME DeliveryTypeOK, Places, queue # <<>>, NEW v \in Verdict,
         verdict' = [verdict EXCEPT ![Current.id] = v],
         UNCHANGED <<submitted, sending, queue, finished>>
  PROVE  Places' /\ verdict' \in [CommandId -> Verdict] /\ verdict'[Current.id] = v
<1>1. PICK h \in CommandId : h = Current.id /\ Queued(h)
  BY QueueHead
<1>2. verdict' \in [CommandId -> Verdict] /\ verdict'[h] = v
  BY <1>1 DEF DeliveryTypeOK
<1>3. \A i \in CommandId : i # h => verdict'[i] = verdict[i]
  BY <1>1 DEF DeliveryTypeOK
<1>4. Places'
  <2>1. \A i : (Queued(i)' <=> Queued(i)) /\ (Sent(i)' <=> Sent(i))
    BY DEF Queued, Sent
  <2>2. \A i \in CommandId : i # h => (Placed(i)' <=> Placed(i))
    BY <1>3, <2>1 DEF Placed
  <2>3. Placed(h) /\ h <= submitted
    BY <1>1 DEF Places
  <2>4. Placed(h)'
    BY <1>1, <2>1, <2>3 DEF Placed
  <2> QED
    BY <1>3, <2>1, <2>2, <2>3, <2>4 DEF Places
<1> QED
  BY <1>1, <1>2, <1>4

(* The head leaves the queue with a verdict. *)
LEMMA HeadFinishes ==
  ASSUME DeliveryTypeOK, Places, queue # <<>>,
         queue' = Tail(queue), finished' = finished \cup {Current.id},
         verdict'[Current.id] \in {"ignored", "ok", "timeout", "dead"},
         \A i \in CommandId : i # Current.id => verdict'[i] = verdict[i],
         UNCHANGED <<submitted, sending>>
  PROVE  Places' /\ queue' \in Seq(Command) /\ finished' \in SUBSET CommandId
<1>1. PICK h \in CommandId : h = Current.id /\ Queued(h)
  BY QueueHead
<1>2. /\ queue' \in Seq(Command)
      /\ \A i : Queued(i)' <=> Queued(i) /\ i # h
      /\ \A j, k \in 1 .. Len(queue') : queue'[j].id = queue'[k].id => j = k
  BY <1>1, ShortenedQueue
<1>3. \A i : Sent(i)' <=> Sent(i)
  BY DEF Sent
<1>4. \A i \in CommandId : i # h => (Placed(i)' <=> Placed(i))
  BY <1>1, <1>2, <1>3 DEF Placed
<1>5. Placed(h) /\ h <= submitted
  BY <1>1 DEF Places
<1>6. Placed(h)'
  BY <1>1, <1>2, <1>3, <1>5 DEF Placed
<1>7. \A i \in CommandId : i # h => (i \in finished' <=> i \in finished)
  BY <1>1
<1>8. Places'
  BY <1>1, <1>2, <1>3, <1>4, <1>5, <1>6, <1>7 DEF Places
<1> QED
  BY <1>1, <1>2, <1>8 DEF DeliveryTypeOK

LEMMA SubmitPlaces ==
  ASSUME DeliveryTypeOK, Places, NEW s \in Sn, NEW c \in Cmd, Submit(s, c)
  PROVE  DeliveryTypeOK' /\ Places'
<1>1. PICK n \in CommandId : n = submitted + 1 /\ submitted \in Nat /\ n \in 0 .. MaxCommands
  BY DeliveryAssumption DEF DeliveryTypeOK, Submit, CommandId
<1>2. ~Queued(n) /\ ~Sent(n) /\ n \notin finished /\ verdict[n] = "none"
  BY <1>1 DEF Places
<1>3. submitted' = n /\ UNCHANGED <<queue, finished>> /\ \A i : Queued(i)' <=> Queued(i)
  BY <1>1 DEF Submit, Queued
<1>4. \A i \in CommandId : i <= submitted' <=> i <= submitted \/ i = n
  BY <1>1, <1>3 DEF CommandId
<1>5. CASE online[s]
  <2>1. PICK command \in Command :
          command.id = n /\ sending' = sending \cup {command} /\ verdict' = verdict
    BY <1>1, <1>5 DEF Submit, Command
  <2>2. \A i : Sent(i)' <=> Sent(i) \/ i = n
    BY <2>1 DEF Sent
  <2>3. DeliveryTypeOK'
    BY <1>1, <1>3, <2>1 DEF Submit, DeliveryTypeOK, linkVars, deviceVars
  <2>4. Placed(n)'
    BY <1>2, <1>3, <2>1, <2>2 DEF Placed
  <2>5. \A i \in CommandId : i # n => (Placed(i)' <=> Placed(i))
    BY <1>3, <2>1, <2>2 DEF Placed
  <2>6. \A b, d \in sending' : b.id = d.id => b = d
    BY <1>2, <2>1 DEF Places, Sent
  <2> QED
    BY <1>2, <1>3, <1>4, <2>1, <2>2, <2>3, <2>4, <2>5, <2>6 DEF Places
<1>6. CASE ~online[s]
  <2>1. sending' = sending /\ verdict' = [verdict EXCEPT ![n] = "offlinesubmit"]
    BY <1>1, <1>6 DEF Submit
  <2>2. \A i : Sent(i)' <=> Sent(i)
    BY <2>1 DEF Sent
  <2>3. /\ verdict' \in [CommandId -> Verdict] /\ verdict'[n] = "offlinesubmit"
        /\ \A i \in CommandId : i # n => verdict'[i] = verdict[i]
    BY <2>1 DEF DeliveryTypeOK, Verdict
  <2>4. DeliveryTypeOK'
    BY <1>1, <1>3, <2>1, <2>3 DEF Submit, DeliveryTypeOK, linkVars, deviceVars
  <2>5. Placed(n)'
    BY <1>2, <1>3, <2>2, <2>3 DEF Placed
  <2>6. \A i \in CommandId : i # n => (Placed(i)' <=> Placed(i))
    BY <1>3, <2>3, <2>2 DEF Placed
  <2> QED
    BY <1>2, <1>3, <1>4, <2>1, <2>2, <2>3, <2>4, <2>5, <2>6 DEF Places
<1> QED
  BY <1>5, <1>6

LEMMA SendPlaces ==
  ASSUME DeliveryTypeOK, Places, NEW c \in sending, SendToMq(c)
  PROVE  DeliveryTypeOK' /\ Places'
<1>1. PICK n \in CommandId : n = c.id /\ c \in Command
  BY DEF DeliveryTypeOK, Command
<1>2. Sent(n) /\ Placed(n) /\ n <= submitted
  BY <1>1 DEF Places, Sent
<1>3. ~Queued(n) /\ n \notin finished
  BY <1>2 DEF Placed
<1>4. sending' = sending \ {c} /\ UNCHANGED <<submitted, finished, verdict>>
  BY DEF SendToMq
<1>5. /\ queue' \in Seq(Command)
      /\ \A i : Queued(i)' <=> Queued(i) \/ i = n
      /\ \A j, k \in 1 .. Len(queue') : queue'[j].id = queue'[k].id => j = k
  BY <1>1, <1>3, AppendedQueue DEF SendToMq
<1>6. \A i : Sent(i)' <=> Sent(i) /\ i # n
  BY <1>1, <1>4 DEF Sent, Places
<1>7. DeliveryTypeOK'
  BY <1>4, <1>5 DEF SendToMq, DeliveryTypeOK, linkVars, deviceVars
<1>8. Placed(n)'
  BY <1>3, <1>4, <1>5, <1>6 DEF Placed
<1>9. \A i \in CommandId : i # n => (Placed(i)' <=> Placed(i))
  BY <1>4, <1>5, <1>6 DEF Placed
<1> QED
  BY <1>2, <1>4, <1>5, <1>6, <1>7, <1>8, <1>9 DEF Places

LEMMA SendFailsPlaces ==
  ASSUME DeliveryTypeOK, Places, NEW c \in sending, SendFails(c)
  PROVE  DeliveryTypeOK' /\ Places'
<1>1. PICK n \in CommandId : n = c.id /\ c \in Command
  BY DEF DeliveryTypeOK, Command
<1>2. Sent(n) /\ Placed(n) /\ n <= submitted
  BY <1>1 DEF Places, Sent
<1>3. ~Queued(n) /\ n \notin finished
  BY <1>2 DEF Placed
<1>4. sending' = sending \ {c} /\ UNCHANGED <<submitted, finished, queue>>
  BY DEF SendFails
<1>5. \A i : Queued(i)' <=> Queued(i)
  BY <1>4 DEF Queued
<1>6. \A i : Sent(i)' <=> Sent(i) /\ i # n
  BY <1>1, <1>4 DEF Sent, Places
<1>7. /\ verdict' \in [CommandId -> Verdict] /\ verdict'[n] = "unsent"
      /\ \A i \in CommandId : i # n => verdict'[i] = verdict[i]
  BY <1>1 DEF SendFails, DeliveryTypeOK, Verdict
<1>8. DeliveryTypeOK'
  BY <1>4, <1>7 DEF SendFails, DeliveryTypeOK, linkVars, deviceVars
<1>9. Placed(n)'
  BY <1>3, <1>4, <1>5, <1>6, <1>7 DEF Placed
<1>10. \A i \in CommandId : i # n => (Placed(i)' <=> Placed(i))
  BY <1>4, <1>5, <1>6, <1>7 DEF Placed
<1> QED
  BY <1>2, <1>4, <1>5, <1>6, <1>7, <1>8, <1>9, <1>10 DEF Places

(* What was about to be sent is lost with the process. *)
LEMMA CrashPlaces ==
  ASSUME DeliveryTypeOK, Places, Crash
  PROVE  DeliveryTypeOK' /\ Places'
<1>1. sending' = {} /\ UNCHANGED <<submitted, finished, queue>>
  BY DEF Crash
<1>2. \A i : (Queued(i)' <=> Queued(i)) /\ ~Sent(i)'
  BY <1>1 DEF Queued, Sent
<1>3. verdict' = [i \in CommandId |-> IF Sent(i) THEN "unsent" ELSE verdict[i]]
  BY DEF Crash, Sent
<1>4. verdict' \in [CommandId -> Verdict]
  BY <1>3 DEF DeliveryTypeOK, Verdict
<1>5. DeliveryTypeOK'
  <2>1. crashes' \in 0 .. MaxCrashes /\ redelivered' \in 0 .. MaxRedeliveries
    BY DeliveryAssumption DEF Crash, DeliveryTypeOK
  <2>2. wire' \in [Sn -> Seq(Command)] /\ online' \in [Sn -> BOOLEAN]
    <3>1. <<>> \in Seq(Command)
      OBVIOUS
    <3> QED
      BY <3>1 DEF Crash
  <2> QED
    <3>1. UNCHANGED <<submitted, queue, finished, executed, answered>>
      BY DEF Crash, deviceVars
    <3>2. attempt' = 1 /\ step' = "idle" /\ heard' = "nothing" /\ senderUp' = TRUE
      BY Zenon DEF Crash
    <3>3. attempt' \in 1 .. Tries /\ step' \in Step
      BY <3>2 DEF Step, Tries
    <3>4. heard' \in Hearing /\ senderUp' \in BOOLEAN
      BY <3>2, Zenon DEF Hearing
    <3> QED
      BY <1>1, <1>4, <2>1, <2>2, <3>1, <3>3, <3>4 DEF DeliveryTypeOK
<1>6. \A i \in CommandId : Placed(i) => Placed(i)'
  BY <1>1, <1>2, <1>3 DEF Placed
<1> QED
  BY <1>1, <1>2, <1>3, <1>5, <1>6 DEF Places

(* onMessage has thrown. *)
LEMMA ThrewPlaces ==
  ASSUME DeliveryTypeOK, Places, queue # <<>>, Threw
  PROVE  DeliveryTypeOK' /\ Places'
<1>1. CASE redelivered < MaxRedeliveries
  <2>1. UNCHANGED <<submitted, sending, queue, finished, verdict>>
    BY <1>1 DEF Threw, submitVars
  <2>2. redelivered' \in 0 .. MaxRedeliveries
    BY <1>1, DeliveryAssumption DEF Threw, DeliveryTypeOK
  <2> QED
    BY <2>1, <2>2, PlacesKept DEF Threw, DeliveryTypeOK, Step, submitVars, linkVars, deviceVars
<1>2. CASE ~(redelivered < MaxRedeliveries)
  <2>1. /\ queue' = Tail(queue) /\ finished' = finished \cup {Current.id}
        /\ verdict' = [verdict EXCEPT ![Current.id] = "dead"]
        /\ redelivered' = 0 /\ UNCHANGED <<submitted, sending>>
    BY <1>2 DEF Threw, submitVars
  <2>2. Current.id \in CommandId
    BY QueueHead
  <2>3. /\ verdict' \in [CommandId -> Verdict] /\ verdict'[Current.id] = "dead"
        /\ \A i \in CommandId : i # Current.id => verdict'[i] = verdict[i]
    BY <2>1, <2>2 DEF DeliveryTypeOK, Verdict
  <2>4. Places' /\ queue' \in Seq(Command) /\ finished' \in SUBSET CommandId
    BY <2>1, <2>3, HeadFinishes
  <2> QED
    BY <2>1, <2>3, <2>4, DeliveryAssumption
    DEF Threw, DeliveryTypeOK, Step, submitVars, linkVars, deviceVars
<1> QED
  BY <1>1, <1>2

LEMMA AcknowledgePlaces ==
  ASSUME DeliveryTypeOK, Places, Listening, Acknowledge
  PROVE  DeliveryTypeOK' /\ Places'
<1>1. queue # <<>> /\ verdict[Current.id] \in {"ignored", "ok", "timeout"}
  BY DEF Acknowledge, Listening
<1>2. Places' /\ queue' \in Seq(Command) /\ finished' \in SUBSET CommandId
  BY <1>1, HeadFinishes DEF Acknowledge, submitVars
<1> QED
  BY <1>2, DeliveryAssumption DEF Acknowledge, DeliveryTypeOK, Step, submitVars, linkVars, deviceVars

LEMMA VerdictPlaces ==
  ASSUME DeliveryTypeOK, Places, Listening, NoAckYet \/ AckOk \/ Ignore
  PROVE  /\ DeliveryTypeOK' /\ Places'
         /\ step' = "return" => verdict'[Current.id] \in {"ignored", "ok", "timeout"}
<1>1. queue # <<>> /\ UNCHANGED <<submitted, sending, queue, finished>>
  BY DEF NoAckYet, AckOk, Ignore, Listening, submitVars
<1>2. ASSUME NEW v \in {"ignored", "ok", "timeout"}, verdict' = [verdict EXCEPT ![Current.id] = v]
      PROVE  Places' /\ verdict' \in [CommandId -> Verdict] /\ verdict'[Current.id] = v
  BY <1>1, <1>2, VerdictOnHead DEF Verdict
<1>3. CASE AckOk
  BY <1>2, <1>3 DEF AckOk, DeliveryTypeOK, Step, submitVars, linkVars, deviceVars
<1>4. CASE NoAckYet /\ attempt < Tries
  <2>1. verdict' = verdict /\ attempt' \in 1 .. Tries /\ step' = "contains"
    BY <1>4 DEF NoAckYet, DeliveryTypeOK, Tries
  <2> QED
    BY <1>1, <1>4, <2>1, PlacesKept
    DEF NoAckYet, DeliveryTypeOK, Step, submitVars, linkVars, deviceVars
<1>5. CASE NoAckYet /\ ~(attempt < Tries)
  <2>1. /\ verdict' = [verdict EXCEPT ![Current.id] = "timeout"]
        /\ attempt' = attempt /\ step' = "return"
    BY <1>5 DEF NoAckYet
  <2> QED
    BY <1>2, <1>5, <2>1 DEF NoAckYet, DeliveryTypeOK, Step, submitVars, linkVars, deviceVars
<1>6. CASE Ignore
  BY <1>2, <1>6 DEF Ignore, DeliveryTypeOK, Step, Tries, submitVars, linkVars, deviceVars
<1> QED
  BY <1>3, <1>4, <1>5, <1>6

(* What a device and its connection do. *)
LEMMA DevicePlaces ==
  ASSUME DeliveryTypeOK, Places, NEW s \in Sn,
         \/ AnswerLost(s) \/ ComesOnline(s) \/ GoesOffline(s)
         \/ \E w \in Workers : Answer(s, w)
  PROVE  DeliveryTypeOK' /\ Places'
<1>1. ASSUME Execute(s)
      PROVE  /\ wire' \in [Sn -> Seq(Command)] /\ executed' \in SUBSET CommandId
             /\ Head(wire[s]).id \in CommandId
             /\ UNCHANGED <<submitted, sending, senderUp, online, queue, redelivered, step,
                            attempt, verdict, finished, crashes>>
  <2>1. wire[s] \in Seq(Command) /\ wire[s] # <<>>
    BY <1>1 DEF Execute, DeliveryTypeOK
  <2>2. Head(wire[s]) \in Command /\ Tail(wire[s]) \in Seq(Command)
    BY <2>1
  <2> QED
    BY <1>1, <2>2 DEF Execute, DeliveryTypeOK, Command, submitVars, listenerVars
<1>2. CASE AnswerLost(s)
  BY <1>1, <1>2, PlacesKept DEF AnswerLost, DeliveryTypeOK
<1>3. CASE \E w \in Workers : Answer(s, w)
  <2>1. heard' \in Hearing /\ answered' \in SUBSET CommandId /\ Execute(s)
    BY <1>1, <1>3 DEF Answer, DeliveryTypeOK, Hearing
  <2> QED
    BY <1>1, <2>1, PlacesKept DEF DeliveryTypeOK
<1>4. CASE ComesOnline(s)
  BY <1>4, PlacesKept DEF ComesOnline, DeliveryTypeOK, submitVars, listenerVars, deviceVars
<1>5. CASE GoesOffline(s)
  <2>1. <<>> \in Seq(Command)
    OBVIOUS
  <2>2. wire' \in [Sn -> Seq(Command)] /\ online' \in [Sn -> BOOLEAN]
    BY <1>5, <2>1 DEF GoesOffline, DeliveryTypeOK
  <2> QED
    BY <1>5, <2>2, PlacesKept
    DEF GoesOffline, DeliveryTypeOK, submitVars, listenerVars, deviceVars
<1> QED
  BY <1>2, <1>3, <1>4, <1>5

(* The listener's steps that leave the queue and the verdicts alone. *)
Quiet == Receive \/ NotInMap \/ InMap \/ Write \/ Tracked \/ Check \/ ListenerStep

LEMMA QuietPlaces ==
  ASSUME DeliveryTypeOK, Places, Listening, Quiet
  PROVE  /\ DeliveryTypeOK' /\ Places'
         /\ UNCHANGED <<submitted, sending, queue, redelivered, verdict, finished>>
<1>1. ASSUME AfterWrite
      PROVE  step' \in {"tracking", "sleep"} /\ heard' \in Hearing
  BY <1>1 DEF AfterWrite, DeliveryTypeOK, HeardBefore, Hearing
<1>2. CASE Write
  <2>1. queue # <<>>
    BY <1>2 DEF Write, Listening
  <2>2. Current \in Command /\ Current.sn \in Sn
    BY <2>1, QueueHead
  <2>3. wire[Current.sn] \in Seq(Command)
    BY <2>2 DEF DeliveryTypeOK
  <2>4. Append(wire[Current.sn], Current) \in Seq(Command)
    BY <2>2, <2>3
  <2>5. wire' \in [Sn -> Seq(Command)]
    BY <1>2, <2>4 DEF Write, DeliveryTypeOK
  <2> QED
    BY <1>1, <1>2, <2>5, PlacesKept DEF Write, DeliveryTypeOK, Step, submitVars, deviceVars
<1>3. CASE NotInMap
  BY <1>1, <1>3, PlacesKept DEF NotInMap, DeliveryTypeOK, Step, submitVars, linkVars, deviceVars
<1>4. CASE Receive
  BY <1>4, PlacesKept DEF Receive, DeliveryTypeOK, Step, Tries, submitVars, linkVars, deviceVars
<1>5. CASE InMap \/ Tracked \/ Check
  BY <1>5, PlacesKept
  DEF InMap, Tracked, Check, DeliveryTypeOK, Step, submitVars, linkVars, deviceVars
<1>6. CASE ListenerStep
  BY <1>6, PlacesKept DEF ListenerStep, deliveryVars, DeliveryTypeOK
<1> QED
  BY <1>2, <1>3, <1>4, <1>5, <1>6 DEF Quiet

-----------------------------------------------------------------------------
(* Where the listener stands. *)

LEMMA ListenerIsThread == Listener \in Threads /\ Listener \notin Workers
BY TableAssumption DEF Threads

(* The frames of all threads but t are as they were, iterators aside. *)
OthersKept(t) ==
  \A u \in Threads \ {t} :
    call'[u].pc = call[u].pc /\ call'[u].arg = call[u].arg /\ call'[u].set = call[u].set

LEMMA Returning ==
  ASSUME IInv, NEW t \in Threads, NEW how, Return(t, how)
  PROVE  OthersKept(t) /\ call'[t].pc = how
BY DEF IInv, TableTypeOK, OthersKept, Return, NoCall

LEMMA Going ==
  ASSUME IInv, NEW t \in Threads, NEW pc, Goto(t, pc)
  PROVE  /\ OthersKept(t) /\ call'[t].pc = pc
         /\ call'[t].arg = call[t].arg /\ call'[t].set = call[t].set
BY DEF IInv, TableTypeOK, OthersKept, Goto, Call

(* AddToMapSet. *)
LEMMA AddSteps ==
  ASSUME IInv, NEW t \in Threads, AddStep(t)
  PROVE  /\ OthersKept(t) /\ UNCHANGED created
         /\ call[t].pc \in AddPc /\ call'[t].pc \in AddPc \cup {"void", "threw"}
         /\ call'[t].pc \in AddPc => call'[t].arg = call[t].arg
<1>1. CASE AddFirst(t) \/ AddNull(t)
  BY <1>1, Returning DEF AddFirst, AddNull, At, AddPc
<1>2. CASE AddFound(t)
  BY <1>2, Going DEF AddFound, At, AddPc
<1>3. CASE AddGet(t)
  BY <1>3 DEF AddGet, At, AddPc, IInv, TableTypeOK, OthersKept, Call
<1>4. CASE AddInsert(t)
  <2>1. \A u \in Threads : /\ Invalidate(Ref(t), call)[u].pc = call[u].pc
                           /\ Invalidate(Ref(t), call)[u].set = call[u].set
                           /\ Invalidate(Ref(t), call)[u].arg = call[u].arg
    BY Invalidated
  <2>2. Invalidate(Ref(t), call) = [u \in Threads |-> Invalidate(Ref(t), call)[u]]
    BY DEF Invalidate
  <2> QED
    BY <1>4, <2>1, <2>2 DEF AddInsert, At, AddPc, OthersKept, NoCall
<1> QED
  BY <1>1, <1>2, <1>3, <1>4 DEF AddStep

(* DeleteSetForAck. *)
LEMMA DeleteSteps ==
  ASSUME IInv, NEW t \in Threads, DeleteStep(t)
  PROVE  /\ OthersKept(t) /\ UNCHANGED created
         /\ call[t].pc \in DeletePc /\ call'[t].pc \in DeletePc \cup {"true", "false", "threw"}
         /\ call'[t].pc \in DeletePc => call'[t].arg = call[t].arg
<1>1. ASSUME NEW how \in {"true", "false", "threw"}, Return(t, how)
      PROVE  /\ OthersKept(t) /\ call'[t].pc \in {"true", "false", "threw"}
             /\ call'[t].pc \notin DeletePc
  BY <1>1, Returning DEF DeletePc
<1>2. ASSUME NEW pc \in DeletePc, Goto(t, pc)
      PROVE  /\ OthersKept(t) /\ call'[t].pc \in DeletePc
             /\ call'[t].arg = call[t].arg
  BY <1>2, Going
<1>3. CASE DelContains(t) \/ ScanThrows(t) \/ ScanMisses(t) \/ ScanFinds(t) \/ DelSize(t) \/ DelUnmap(t)
  <2>1. UNCHANGED created /\ call[t].pc \in DeletePc
    BY <1>3 DEF DelContains, ScanThrows, ScanMisses, ScanFinds, DelSize, DelUnmap, At, DeletePc
  <2>2. \/ \E how \in {"true", "false", "threw"} : Return(t, how)
        \/ \E pc \in DeletePc : Goto(t, pc)
    BY <1>3 DEF DelContains, ScanThrows, ScanMisses, ScanFinds, DelSize, DelUnmap, DeletePc
  <2> QED
    BY <1>1, <1>2, <2>1, <2>2
<1>4. CASE DelGet(t)
  <2>1. CASE msgMapSet[Serial(t)] = NoSet
    BY <1>1, <1>4, <2>1 DEF DelGet, At, DeletePc
  <2>2. CASE msgMapSet[Serial(t)] # NoSet
    BY <1>4, <2>2 DEF DelGet, At, DeletePc, IInv, TableTypeOK, OthersKept, Call
  <2> QED
    BY <2>1, <2>2
<1>5. CASE DelIterate(t)
  <2>1. CASE msgSet[Ref(t)] = {}
    BY <1>2, <1>5, <2>1 DEF DelIterate, At, DeletePc
  <2>2. CASE msgSet[Ref(t)] # {}
    BY <1>5, <2>2 DEF DelIterate, At, DeletePc, IInv, TableTypeOK, OthersKept, Call
  <2> QED
    BY <2>1, <2>2
<1>6. CASE ScanRemoves(t)
  <2>1. \A u \in Threads : /\ Invalidate(Ref(t), call)[u] \in Call
                           /\ Invalidate(Ref(t), call)[u].pc = call[u].pc
                           /\ Invalidate(Ref(t), call)[u].set = call[u].set
                           /\ Invalidate(Ref(t), call)[u].arg = call[u].arg
    BY Invalidated
  <2>2. Invalidate(Ref(t), call) \in [Threads -> Call]
    BY <2>1 DEF Invalidate
  <2> QED
    BY <1>6, <2>1, <2>2 DEF ScanRemoves, At, DeletePc, OthersKept, Call
<1> QED
  BY <1>3, <1>4, <1>5, <1>6 DEF DeleteStep

LEMMA TakeSteps ==
  ASSUME IInv, NEW t \in Threads, Take(t)
  PROVE  /\ OthersKept(t) /\ UNCHANGED <<msgMapSet, msgSet, created>>
         /\ call[t].pc \in Returned /\ call'[t].pc = "idle"
BY DEF IInv, TableTypeOK, OthersKept, Take, NoCall

LEMMA StartDeletes ==
  ASSUME IInv, NEW t \in Threads, NEW s, NEW c, StartDelete(t, s, c)
  PROVE  /\ OthersKept(t) /\ UNCHANGED <<msgMapSet, msgSet, created>>
         /\ call[t].pc = "idle" /\ call'[t].pc = "delContains"
         /\ call'[t].arg.clientNum = s /\ call'[t].arg.cmd = c
BY DEF IInv, TableTypeOK, OthersKept, StartDelete, At, Call

LEMMA StartAdds ==
  ASSUME IInv, NEW t \in Threads, NEW s, NEW c, StartAdd(t, s, c)
  PROVE  /\ OthersKept(t) /\ UNCHANGED <<msgMapSet, msgSet>>
         /\ call[t].pc = "idle" /\ call'[t].pc = "addContains"
         /\ call'[t].arg.clientNum = s /\ call'[t].arg.cmd = c
BY DEF IInv, TableTypeOK, OthersKept, StartAdd, At, Call

(* What is not the listener's doing, nor a crash. *)
Outside ==
  \/ \E s \in Sn, c \in Cmd : Submit(s, c)
  \/ \E c \in sending : SendToMq(c) \/ SendFails(c)
  \/ \E s \in Sn, w \in Workers : Answer(s, w)
  \/ \E s \in Sn : AnswerLost(s) \/ ComesOnline(s) \/ GoesOffline(s)
  \/ \E w \in Workers : AckStep(w)

(* It leaves the listener where it is, and its command alone. *)
LEMMA OutsideKeeps ==
  ASSUME IInv, DeliveryTypeOK, Places, Outside
  PROVE  /\ UNCHANGED <<step, attempt, created>>
         /\ call'[Listener].pc = call[Listener].pc
         /\ call'[Listener].arg = call[Listener].arg
         /\ call'[Listener].set = call[Listener].set
         /\ queue # <<>> => /\ queue' # <<>> /\ Current' = Current
                            /\ verdict'[Current.id] = verdict[Current.id]
<1>0. PICK h : h = Current.id
  OBVIOUS
<1>1. queue # <<>> => /\ h \in CommandId /\ h <= submitted /\ ~Sent(h) /\ Queued(h)
  BY <1>0, QueueHead DEF Places, Placed
<1>2. CASE \E s \in Sn, c \in Cmd : Submit(s, c)
  <2>1. UNCHANGED <<step, attempt, created, call, queue>>
    BY <1>2 DEF Submit, tableVars
  <2>2. PICK n : n = submitted + 1 /\ (verdict' = verdict \/ verdict' = [verdict EXCEPT ![n] = "offlinesubmit"])
    BY <1>2 DEF Submit
  <2>3. submitted \in Nat /\ (queue # <<>> => h \in Nat /\ h <= submitted)
    BY <1>1 DEF DeliveryTypeOK, CommandId
  <2>4. queue # <<>> => n # h
    BY <2>2, <2>3
  <2>5. queue # <<>> => verdict'[h] = verdict[h]
    BY <1>1, <2>2, <2>4 DEF DeliveryTypeOK
  <2> QED
    BY <1>0, <2>1, <2>5 DEF Current
<1>3. ASSUME NEW c \in sending, SendToMq(c)
      PROVE  /\ UNCHANGED <<step, attempt, created, call, verdict>>
             /\ queue # <<>> => queue' # <<>> /\ Current' = Current
  <2>1. UNCHANGED <<step, attempt, created, call, verdict>> /\ queue' = Append(queue, c)
    BY <1>3 DEF SendToMq, tableVars
  <2>2. c \in Command /\ c.id \in CommandId
    BY DEF DeliveryTypeOK, Command
  <2>3. ~Queued(c.id)
    BY <2>2 DEF Places, Placed, Sent
  <2> QED
    BY <2>1, <2>2, <2>3, AppendedQueue
<1>4. ASSUME NEW c \in sending, SendFails(c)
      PROVE  /\ UNCHANGED <<step, attempt, created, call, queue>>
             /\ queue # <<>> => verdict'[h] = verdict[h]
  <2>1. /\ UNCHANGED <<step, attempt, created, call, queue>>
        /\ verdict' = [verdict EXCEPT ![c.id] = "unsent"]
    BY <1>4 DEF SendFails, tableVars
  <2>2. queue # <<>> => c.id # h
    BY <1>1 DEF Sent
  <2> QED
    BY <1>1, <2>1, <2>2 DEF DeliveryTypeOK
<1>5. CASE \E s \in Sn, w \in Workers : Answer(s, w)
  <2>1. PICK s \in Sn, w \in Workers : Answer(s, w)
    BY <1>5
  <2>2. OthersKept(w) /\ created' = created
    BY <2>1, StartDeletes DEF Answer, Threads
  <2>3. UNCHANGED <<step, attempt, queue, verdict>>
    BY <2>1 DEF Answer, Execute, listenerVars
  <2> QED
    BY <2>2, <2>3, ListenerIsThread DEF OthersKept, Current
<1>6. CASE \E s \in Sn : AnswerLost(s) \/ ComesOnline(s) \/ GoesOffline(s)
  BY <1>6 DEF AnswerLost, ComesOnline, GoesOffline, Execute, listenerVars, tableVars, Current
<1>7. CASE \E w \in Workers : AckStep(w)
  <2>1. PICK w \in Workers : AckStep(w)
    BY <1>7
  <2>2. OthersKept(w) /\ created' = created
    BY <2>1, DeleteSteps, TakeSteps DEF AckStep, Threads
  <2>3. UNCHANGED <<step, attempt, queue, verdict>>
    BY <2>1 DEF AckStep, deliveryVars
  <2> QED
    BY <2>2, <2>3, ListenerIsThread DEF OthersKept, Current
<1> QED
  BY <1>0, <1>2, <1>3, <1>4, <1>5, <1>6, <1>7 DEF Outside, Current

LEMMA OutsideListening ==
  ASSUME IInv, DeliveryTypeOK, Places, Listening, Outside
  PROVE  Listening'
<1>1. CASE queue = <<>>
  BY <1>1, OutsideKeeps DEF Listening, AddPc, DeletePc
<1>2. CASE queue # <<>>
  BY <1>2, OutsideKeeps DEF Listening
<1> QED
  BY <1>1, <1>2

LEMMA QuietListening ==
  ASSUME IInv, DeliveryTypeOK, Places, Listening, Quiet
  PROVE  Listening'
<1> USE ListenerIsThread
<1>1. queue' = queue /\ Current' = Current /\ verdict' = verdict
  BY QuietPlaces DEF Current
<1>2. ASSUME AfterWrite, step \in {"contains", "write"} PROVE Listening'
  <2>1. queue # <<>> /\ call[Listener].pc = "idle"
    BY <1>2 DEF Listening
  <2>2. CASE attempt = 1
    <3>1. StartAdd(Listener, Current.sn, Current.cmd) /\ step' = "tracking"
      BY <1>2, <2>2 DEF AfterWrite
    <3> QED
      BY <1>1, <2>1, <3>1, StartAdds DEF Listening, AddPc
  <2>3. CASE attempt # 1
    <3>1. call' = call /\ step' = "sleep"
      BY <1>2, <2>3 DEF AfterWrite, tableVars
    <3> QED
      BY <1>1, <2>1, <3>1 DEF Listening, AddPc, DeletePc
  <2> QED
    BY <2>2, <2>3
<1>3. CASE NotInMap \/ Write
  BY <1>2, <1>3 DEF NotInMap, Write
<1>4. CASE Receive \/ InMap
  BY <1>1, <1>4 DEF Receive, InMap, Listening, tableVars, AddPc, DeletePc
<1>5. CASE Tracked
  BY <1>1, <1>5, TakeSteps DEF Tracked, Listening, AddPc, DeletePc
<1>6. CASE Check
  BY <1>1, <1>6, StartDeletes DEF Check, Listening, AddPc, DeletePc
<1>7. CASE ListenerStep
  <2>1. step' = step
    BY <1>7 DEF ListenerStep, deliveryVars
  <2>2. CASE AddStep(Listener)
    BY <1>1, <2>1, <2>2, AddSteps DEF Listening, AddPc, DeletePc
  <2>3. CASE DeleteStep(Listener)
    BY <1>1, <2>1, <2>3, DeleteSteps DEF Listening, AddPc, DeletePc
  <2> QED
    BY <1>7, <2>2, <2>3 DEF ListenerStep
<1> QED
  BY <1>3, <1>4, <1>5, <1>6, <1>7 DEF Quiet

(* Where the listener has its result, or none. *)
Ending == CallThrows \/ WriteThrows \/ NoAckYet \/ AckOk \/ Ignore \/ Acknowledge

LEMMA EndingListening ==
  ASSUME IInv, DeliveryTypeOK, Places, Listening, Ending
  PROVE  Listening' /\ UNCHANGED <<msgMapSet, msgSet, created>>
<1> USE ListenerIsThread
<1>1. CASE NoAckYet \/ AckOk
  <2>1. /\ call'[Listener].pc = "idle" /\ UNCHANGED <<msgMapSet, msgSet, created>>
        /\ step' \in {"contains", "return"} /\ UNCHANGED queue /\ queue # <<>>
    BY <1>1, TakeSteps DEF NoAckYet, AckOk, Listening
  <2>2. step' = "return" => verdict'[Current.id] \in {"ignored", "ok", "timeout"}
    BY <1>1, VerdictPlaces
  <2> QED
    BY <2>1, <2>2 DEF Listening, Current, AddPc, DeletePc
<1>2. CASE CallThrows
  <2>1. call'[Listener].pc = "idle" /\ UNCHANGED <<msgMapSet, msgSet, created>> /\ step' = "idle"
    BY <1>2, TakeSteps DEF CallThrows, Threw
  <2> QED
    BY <2>1 DEF Listening, AddPc, DeletePc
<1>3. CASE WriteThrows \/ Acknowledge
  <2>1. /\ call[Listener].pc = "idle" /\ UNCHANGED <<call, msgMapSet, msgSet, created>>
        /\ step' = "idle"
    BY <1>3 DEF WriteThrows, Acknowledge, Threw, tableVars, Listening
  <2> QED
    BY <2>1 DEF Listening, AddPc, DeletePc
<1>4. CASE Ignore
  <2>1. /\ call[Listener].pc = "idle" /\ UNCHANGED <<call, msgMapSet, msgSet, created>>
        /\ step' = "return" /\ UNCHANGED queue /\ queue # <<>>
    BY <1>4 DEF Ignore, tableVars, Listening
  <2>2. verdict'[Current.id] \in {"ignored", "ok", "timeout"}
    BY <1>4, <2>1, VerdictPlaces
  <2> QED
    BY <2>1, <2>2 DEF Listening, Current, AddPc, DeletePc
<1> QED
  BY <1>1, <1>2, <1>3, <1>4 DEF Ending

LEMMA CrashListening == Crash => Listening'
BY ListenerIsThread DEF Crash, Listening, NoCall, AddPc, DeletePc

-----------------------------------------------------------------------------
(* The silent device. *)

(* Every step but a crash is one of the table's. *)
LEMMA StepOfTable ==
  ASSUME DeliveryTypeOK, Listening, Outside \/ Quiet \/ Ending
  PROVE  [TableNext]_tableVars
<1> USE ListenerIsThread
<1>1. CASE Outside
  <2>1. ASSUME NEW s \in Sn, NEW w \in Workers, Answer(s, w) PROVE TableNext
    <3>1. wire[s] \in Seq(Command) /\ wire[s] # <<>>
      BY <2>1 DEF Answer, Execute, DeliveryTypeOK
    <3>2. Head(wire[s]) \in Command
      BY <3>1
    <3>3. Head(wire[s]).cmd \in Cmd
      BY <3>2 DEF Command
    <3> QED
      BY <2>1, <3>3 DEF Answer, TableNext, Threads
  <2>2. ASSUME NEW w \in Workers, AckStep(w) PROVE TableNext
    BY <2>2 DEF AckStep, TableNext, Threads
  <2> QED
    BY <1>1, <2>1, <2>2
    DEF Outside, Submit, SendToMq, SendFails, AnswerLost, ComesOnline, GoesOffline
<1>2. CASE Quiet
  <2>1. step # "idle" => Current.sn \in Sn /\ Current.cmd \in Cmd
    BY QueueHead DEF Listening
  <2>2. ASSUME AfterWrite, step \in {"contains", "write"} PROVE [TableNext]_tableVars
    BY <2>1, <2>2 DEF AfterWrite, TableNext
  <2>3. CASE Check
    BY <2>1, <2>3 DEF Check, TableNext
  <2>4. CASE Tracked \/ ListenerStep
    BY <2>4 DEF Tracked, ListenerStep, TableNext
  <2> QED
    BY <1>2, <2>2, <2>3, <2>4 DEF Quiet, NotInMap, Write, Receive, InMap
<1>3. CASE Ending
  BY <1>3 DEF Ending, CallThrows, WriteThrows, NoAckYet, AckOk, Ignore, Acknowledge, TableNext
<1> QED
  BY <1>1, <1>2, <1>3

(* Without an ack call for a device, none of its packets leaves its set.   *)
LEMMA SilentPending ==
  ASSUME IInv, [TableNext]_tableVars, NEW s \in Sn, ~AckCallFor(s)
  PROVE  Pending(s) \subseteq Pending(s)'
BY NextSettles DEF Settled, AckCallFor, DeletePc, At

(* ... so that the packet goes on waiting, until another one is added.     *)
LEMMA WaitsOn ==
  ASSUME IInv, DeliveryTypeOK, [TableNext]_tableVars, queue # <<>>, ~AckCallFor(Current.sn),
         Current' = Current, created' = created, Waits
  PROVE  Waits'
<1>1. PICK s \in Sn : s = Current.sn
  BY QueueHead
<1>2. Pending(s) \subseteq Pending(s)'
  BY <1>1, SilentPending
<1>3. PICK p \in Pending(s) : p.id = created /\ p.cmd = Current.cmd /\ p.clientNum = Current.sn
  BY <1>1 DEF Waits
<1>4. p \in Pending(s)' /\ s = Current'.sn
  BY <1>1, <1>2, <1>3
<1>5. Pending(s)' = Pending(Current.sn)'
  BY <1>4 DEF Pending
<1> QED
  BY <1>3, <1>4, <1>5 DEF Waits

(* No ack call for s begins with a step of w's that is none. *)
LEMMA StillNoCall ==
  ASSUME NEW s \in Sn, ~AckCallFor(s), NEW w \in Threads, OthersKept(w),
         call'[w].pc \in DeletePc /\ w # Listener =>
           \/ call'[w].arg.clientNum # s
           \/ call[w].pc \in DeletePc /\ call'[w].arg = call[w].arg
  PROVE  ~AckCallFor(s)'
<1> SUFFICES ASSUME NEW u \in Workers, call'[u].pc \in DeletePc, call'[u].arg.clientNum = s
             PROVE  FALSE
  BY DEF AckCallFor, Serial
<1>1. CASE u = w
  BY <1>1, ListenerIsThread DEF AckCallFor, Serial
<1>2. CASE u # w
  BY <1>2 DEF OthersKept, AckCallFor, Serial, Threads
<1> QED
  BY <1>1, <1>2

LEMMA OutsideSilence ==
  ASSUME IInv, DeliveryTypeOK, Places, Listening, Silence, Outside
  PROVE  Silence'
<1> SUFFICES ASSUME (step = "tracking" \/ AwaitsAck)', heard' = "nothing" PROVE Silence'
  BY DEF Silence
<1> USE ListenerIsThread
<1>1. step = "tracking" \/ AwaitsAck
  BY OutsideKeeps DEF AwaitsAck
<1>2. queue # <<>>
  BY <1>1 DEF AwaitsAck, Listening
<1>3. Current' = Current /\ created' = created
  BY <1>2, OutsideKeeps
<1>4. PICK s \in Sn : s = Current.sn
  BY <1>2, QueueHead
<1>5. heard = "nothing"
  BY DEF Outside, Submit, SendToMq, SendFails, Answer, AnswerLost, ComesOnline, GoesOffline,
         AckStep, deliveryVars
<1>6. ~AckCallFor(s)
  BY <1>1, <1>4, <1>5 DEF Silence
<1>7. ~AckCallFor(s)' /\ msgMapSet'[s] = msgMapSet[s]
  <2>1. ASSUME NEW r \in Sn, NEW w \in Workers, Answer(r, w)
        PROVE  ~AckCallFor(s)' /\ msgMapSet'[s] = msgMapSet[s]
    <3>1. r # s
      BY <1>2, <1>4, <2>1 DEF Answer
    <3>2. /\ OthersKept(w) /\ UNCHANGED msgMapSet /\ w \in Threads
          /\ call'[w].arg.clientNum = r
      BY <2>1, StartDeletes DEF Answer, Threads
    <3> QED
      BY <1>6, <3>1, <3>2, StillNoCall
  <2>2. ASSUME NEW w \in Workers, AckStep(w)
        PROVE  ~AckCallFor(s)' /\ msgMapSet'[s] = msgMapSet[s]
    <3>0. w \in Threads
      BY DEF Threads
    <3>1. CASE DeleteStep(w)
      <4>1. /\ OthersKept(w) /\ call[w].pc \in DeletePc
            /\ call'[w].pc \in DeletePc => call'[w].arg = call[w].arg
        BY <3>0, <3>1, DeleteSteps
      <4>2. Serial(w) # s
        BY <1>6, <4>1 DEF AckCallFor
      <4>3. msgMapSet'[s] = msgMapSet[s]
        BY <3>1, <4>2 DEF DeleteStep, DelContains, DelGet, DelIterate, ScanThrows, ScanMisses,
           ScanFinds, ScanRemoves, DelSize, DelUnmap, IInv, TableTypeOK
      <4> QED
        BY <1>6, <3>0, <4>1, <4>3, StillNoCall
    <3>2. CASE Take(w)
      BY <1>6, <3>0, <3>2, TakeSteps, StillNoCall DEF DeletePc
    <3> QED
      BY <2>2, <3>1, <3>2 DEF AckStep
  <2>3. CASE UNCHANGED tableVars
    BY <1>6, <2>3 DEF tableVars, AckCallFor, Serial
  <2> QED
    BY <2>1, <2>2, <2>3
    DEF Outside, Submit, SendToMq, SendFails, AnswerLost, ComesOnline, GoesOffline
<1>8. Waits => Waits'
  BY <1>2, <1>3, <1>4, <1>6, WaitsOn, StepOfTable
<1>9. AwaitsAck' => AwaitsAck
  BY OutsideKeeps DEF AwaitsAck
<1>10. AckCallFor(Current.sn)' <=> AckCallFor(s)'
  BY <1>3, <1>4 DEF AckCallFor
<1> QED
  BY <1>1, <1>3, <1>4, <1>5, <1>7, <1>8, <1>9, <1>10, OutsideKeeps DEF Silence, At, Ref

(* The listener adds the packet to the set that is mapped. *)
LEMMA AddSilence ==
  ASSUME IInv, DeliveryTypeOK, Places, Listening, Silence, heard = "nothing",
         step = "tracking", AddStep(Listener), Current' = Current
  PROVE  /\ At(Listener, "void")' => Waits'
         /\ At(Listener, "addInsert")' => Ref(Listener)' \in {NoSet, msgMapSet[Current.sn]'}
<1> USE ListenerIsThread
<1> DEFINE arg == call[Listener].arg
<1>1. queue # <<>>
  BY DEF Listening
<1>2. PICK s \in Sn : s = Current.sn
  BY <1>1, QueueHead
<1>3. /\ arg.clientNum = s /\ arg.cmd = Current.cmd /\ call[Listener].pc \in AddPc
      /\ created' = created
  BY <1>2, AddSteps DEF Listening
<1>4. arg.id = created /\ created # 0 /\ created \in PacketId
  BY <1>3, TableAssumption DEF IInv, FreshName, TableTypeOK, PacketId
<1>5. (\E p \in Pending(s)' : p = arg) => Waits'
  BY <1>2, <1>3, <1>4 DEF Waits, Pending
<1>6. CASE AddFirst(Listener)
  <2>1. msgMapSet'[s] = created /\ msgSet'[created] = {arg} /\ call'[Listener].pc = "void"
    BY <1>3, <1>4, <1>6, Returning DEF AddFirst, Serial, IInv, TableTypeOK
  <2> QED
    BY <1>4, <1>5, <2>1 DEF Pending, NoSet, At
<1>7. CASE AddFound(Listener) \/ AddNull(Listener)
  BY <1>7, Going, Returning DEF AddFound, AddNull, At
<1>8. CASE AddGet(Listener)
  BY <1>2, <1>3, <1>8 DEF AddGet, At, Ref, Serial, IInv, TableTypeOK, Call
<1>9. CASE AddInsert(Listener)
  <2>1. Ref(Listener) = msgMapSet[s] /\ msgMapSet[s] # NoSet
    BY <1>2, <1>9 DEF Silence, AddInsert
  <2>2. msgMapSet[s] \in PacketId
    BY <2>1 DEF IInv, TableTypeOK, SetRef, NoSet, PacketId
  <2>3. msgMapSet' = msgMapSet /\ arg \in msgSet'[msgMapSet[s]]
    BY <1>9, <2>1, <2>2 DEF AddInsert, IInv, TableTypeOK
  <2>4. call'[Listener].pc = "void"
    <3>1. call' = [Invalidate(Ref(Listener), call) EXCEPT ![Listener] = [NoCall EXCEPT !.pc = "void"]]
      BY <1>9 DEF AddInsert
    <3> QED
      BY <3>1 DEF Invalidate, NoCall
  <2> QED
    BY <1>5, <2>1, <2>3, <2>4 DEF Pending, At
<1> QED
  BY <1>6, <1>7, <1>8, <1>9 DEF AddStep

(* Its check finds the packet that waits. *)
LEMMA CheckSilence ==
  ASSUME IInv, DeliveryTypeOK, Places, Listening, Silence, heard = "nothing",
         step = "checking", DeleteStep(Listener)
  PROVE  call'[Listener].pc \notin {"size", "unmap", "false"}
<1> USE ListenerIsThread
<1>1. queue # <<>> /\ AwaitsAck
  BY DEF Listening, AwaitsAck
<1>2. PICK s \in Sn : s = Current.sn
  BY <1>1, QueueHead
<1>3. /\ Serial(Listener) = s /\ call[Listener].arg.cmd = Current.cmd
      /\ call[Listener].pc \in DeletePc
  BY <1>2, DeleteSteps DEF Listening, Serial
<1>4. PICK p \in Pending(s) : p.clientNum = s /\ p.cmd = Current.cmd
  BY <1>1, <1>2 DEF Silence, Waits
<1>5. msgMapSet[s] # NoSet /\ p \in msgSet[msgMapSet[s]]
  BY <1>4 DEF Pending
<1>6. call[Listener].pc \in {"iterate", "scan"} => Ref(Listener) = msgMapSet[s]
  BY <1>3, <1>5 DEF IInv, CheckHolds
<1>7. call[Listener].pc \notin {"size", "unmap"}
  BY <1>1 DEF Silence
<1>8. CASE DelContains(Listener)
  BY <1>3, <1>5, <1>8, Going DEF DelContains
<1>9. CASE DelGet(Listener)
  BY <1>3, <1>5, <1>9 DEF DelGet, IInv, TableTypeOK, Call
<1>10. CASE DelIterate(Listener)
  <2>1. msgSet[Ref(Listener)] # {}
    BY <1>5, <1>6, <1>10 DEF DelIterate, At
  <2> QED
    BY <1>10, <2>1 DEF DelIterate, IInv, TableTypeOK, Call
<1>11. CASE ScanMisses(Listener)
  BY <1>3, <1>4, <1>5, <1>6, <1>11 DEF ScanMisses, Matching, At
<1>12. CASE ScanThrows(Listener) \/ ScanFinds(Listener)
  BY <1>12, Returning DEF ScanThrows, ScanFinds
<1>13. CASE ScanRemoves(Listener) \/ DelSize(Listener) \/ DelUnmap(Listener)
  BY <1>7, <1>13 DEF ScanRemoves, DelSize, DelUnmap, At
<1> QED
  BY <1>8, <1>9, <1>10, <1>11, <1>12, <1>13 DEF DeleteStep

LEMMA QuietSilence ==
  ASSUME IInv, DeliveryTypeOK, Places, Listening, Silence, Quiet
  PROVE  Silence'
<1> SUFFICES ASSUME (step = "tracking" \/ AwaitsAck)', heard' = "nothing" PROVE Silence'
  BY DEF Silence
<1> USE ListenerIsThread
<1>1. Current' = Current
  BY QuietPlaces DEF Current
<1>2. step # "idle" => queue # <<>>
  BY DEF Listening
<1>3. UNCHANGED <<msgMapSet, msgSet, created>> /\ Waits => Waits'
  BY <1>1 DEF Waits, Pending
<1>4. OthersKept(Listener) /\ step # "idle" /\ ~AckCallFor(Current.sn) => ~AckCallFor(Current.sn)'
  BY <1>1, <1>2, QueueHead, StillNoCall DEF AckCallFor, Serial
<1>5. ASSUME AfterWrite, step \in {"contains", "write"}, attempt' = attempt PROVE Silence'
  <2>1. CASE attempt = 1
    <3>1. /\ StartAdd(Listener, Current.sn, Current.cmd) /\ step' = "tracking"
          /\ ~AckCallFor(Current.sn)
      BY <1>5, <2>1 DEF AfterWrite, HeardBefore
    <3>2. OthersKept(Listener) /\ call'[Listener].pc = "addContains"
      BY <3>1, StartAdds
    <3>3. ~AckCallFor(Current.sn)'
      BY <1>4, <1>5, <3>1, <3>2
    <3> QED
      BY <3>1, <3>2, <3>3 DEF Silence, AwaitsAck, At
  <2>2. CASE attempt # 1
    <3>1. /\ UNCHANGED <<msgMapSet, msgSet, created, call, heard>> /\ step' = "sleep"
      BY <1>5, <2>2 DEF AfterWrite, tableVars
    <3>2. AwaitsAck
      BY <1>5, <2>2 DEF AwaitsAck, DeliveryTypeOK, Tries
    <3>3. Waits' /\ ~AckCallFor(Current.sn)
      BY <1>3, <3>1, <3>2 DEF Silence
    <3>4. ~AckCallFor(Current.sn)'
      BY <1>1, <3>1, <3>3 DEF AckCallFor, Serial
    <3>5. call[Listener].pc = "idle"
      BY <1>5 DEF Listening
    <3> QED
      BY <3>1, <3>3, <3>4, <3>5 DEF Silence, At
  <2> QED
    BY <2>1, <2>2
<1>6. CASE NotInMap \/ Write
  BY <1>5, <1>6 DEF NotInMap, Write
<1>7. CASE Receive
  BY <1>7 DEF Receive, AwaitsAck
<1>8. CASE InMap
  <2>1. /\ UNCHANGED <<msgMapSet, msgSet, created, call, heard, attempt>>
        /\ step = "contains" /\ step' = "write"
    BY <1>8 DEF InMap, tableVars
  <2>2. AwaitsAck
    BY <2>1 DEF AwaitsAck
  <2>3. Waits' /\ ~AckCallFor(Current.sn) /\ call[Listener].pc = "idle"
    BY <1>3, <2>1, <2>2 DEF Silence, Listening
  <2>4. ~AckCallFor(Current.sn)'
    BY <1>1, <2>1, <2>3 DEF AckCallFor, Serial
  <2> QED
    BY <2>1, <2>3, <2>4 DEF Silence, At
<1>9. CASE Tracked \/ Check
  <2>1. /\ UNCHANGED <<msgMapSet, msgSet, created, heard>> /\ OthersKept(Listener)
        /\ step # "idle" /\ call'[Listener].pc \in {"idle", "delContains"}
    BY <1>9, TakeSteps, StartDeletes DEF Tracked, Check
  <2>2. Waits /\ ~AckCallFor(Current.sn)
    BY <1>9, <2>1 DEF Tracked, Check, Silence, AwaitsAck
  <2> QED
    BY <1>3, <1>4, <2>1, <2>2 DEF Silence, At
<1>10. CASE ListenerStep
  <2>1. UNCHANGED <<step, attempt, heard>>
    BY <1>10 DEF ListenerStep, deliveryVars
  <2>2. step = "tracking" \/ AwaitsAck
    BY <2>1 DEF AwaitsAck
  <2>3. ~AckCallFor(Current.sn) /\ step # "idle"
    BY <2>1, <2>2 DEF Silence, AwaitsAck
  <2>4. CASE AddStep(Listener)
    <3>1. /\ OthersKept(Listener) /\ call[Listener].pc \in AddPc
      BY <2>4, AddSteps
    <3>2. step = "tracking"
      BY <3>1 DEF Listening, AddPc, DeletePc
    <3>3. /\ At(Listener, "void")' => Waits'
          /\ At(Listener, "addInsert")' => Ref(Listener)' \in {NoSet, msgMapSet[Current.sn]'}
      BY <1>1, <2>1, <2>4, <3>2, AddSilence
    <3> QED
      BY <1>4, <2>1, <2>3, <3>1, <3>2, <3>3 DEF Silence, AwaitsAck
  <2>5. CASE DeleteStep(Listener)
    <3>1. /\ OthersKept(Listener) /\ call[Listener].pc \in DeletePc /\ created' = created
          /\ call'[Listener].pc \in DeletePc \cup {"true", "false", "threw"}
      BY <2>5, DeleteSteps
    <3>2. step = "checking"
      BY <3>1 DEF Listening, AddPc, DeletePc
    <3>3. call'[Listener].pc \notin {"size", "unmap", "false"}
      BY <2>1, <2>5, <3>2, CheckSilence
    <3>4. Waits
      BY <2>1, <3>2 DEF Silence, AwaitsAck
    <3>5. Waits'
      BY <1>1, <1>2, <2>3, <3>1, <3>4, WaitsOn, StepOfTable
    <3> QED
      BY <1>4, <2>1, <2>3, <3>1, <3>2, <3>3, <3>5 DEF Silence, At, DeletePc
  <2> QED
    BY <1>10, <2>4, <2>5 DEF ListenerStep
<1> QED
  BY <1>6, <1>7, <1>8, <1>9, <1>10 DEF Quiet

LEMMA EndingSilence ==
  ASSUME IInv, DeliveryTypeOK, Places, Listening, Silence, Ending
  PROVE  Silence'
<1> SUFFICES ASSUME (step = "tracking" \/ AwaitsAck)', heard' = "nothing" PROVE Silence'
  BY DEF Silence
<1> USE ListenerIsThread
<1>1. NoAckYet /\ step' = "contains"
  BY DEF Ending, CallThrows, WriteThrows, Threw, NoAckYet, AckOk, Ignore, Acknowledge, AwaitsAck
<1>2. /\ UNCHANGED <<msgMapSet, msgSet, created, queue, heard>>
      /\ OthersKept(Listener) /\ call'[Listener].pc = "idle" /\ step = "checking"
  BY <1>1, TakeSteps DEF NoAckYet
<1>3. Waits /\ ~AckCallFor(Current.sn) /\ queue # <<>>
  BY <1>2 DEF Silence, AwaitsAck, Listening
<1>4. Waits' /\ Current' = Current
  BY <1>2, <1>3 DEF Waits, Pending, Current
<1>5. ~AckCallFor(Current.sn)'
  BY <1>2, <1>3, <1>4, QueueHead, StillNoCall DEF AckCallFor, Serial
<1> QED
  BY <1>1, <1>2, <1>4, <1>5 DEF Silence, At

LEMMA CrashSilence == Crash => Silence'
BY DEF Crash, Silence, AwaitsAck

-----------------------------------------------------------------------------
(* What was heard. *)

LEMMA OutsideHeard ==
  ASSUME IInv, DeliveryTypeOK, Places, Listening, Heard, Outside
  PROVE  Heard'
<1> SUFFICES ASSUME (step = "tracking" \/ AwaitsAck)', heard' = "own"
             PROVE  (Current.id \in executed)'
  BY DEF Heard
<1>1. step = "tracking" \/ AwaitsAck
  BY OutsideKeeps DEF AwaitsAck
<1>2. queue # <<>> /\ Current' = Current
  BY <1>1, OutsideKeeps DEF AwaitsAck, Listening
<1>3. executed \subseteq executed'
  BY DEF Outside, Submit, SendToMq, SendFails, Answer, AnswerLost, Execute, ComesOnline,
         GoesOffline, AckStep, deliveryVars, deviceVars
<1>4. CASE heard = "own"
  BY <1>1, <1>2, <1>3, <1>4 DEF Heard
<1>5. CASE heard # "own"
  <2>1. PICK s \in Sn, w \in Workers : Answer(s, w)
    BY <1>5 DEF Outside, Submit, SendToMq, SendFails, AnswerLost, Execute, ComesOnline,
                GoesOffline, AckStep, deliveryVars
  <2>2. Head(wire[s]).id = Current.id /\ Execute(s)
    BY <1>5, <2>1 DEF Answer
  <2> QED
    BY <1>2, <2>2 DEF Execute
<1> QED
  BY <1>4, <1>5

LEMMA QuietHeard ==
  ASSUME IInv, DeliveryTypeOK, Places, Listening, Heard, Quiet
  PROVE  Heard'
<1> SUFFICES ASSUME (step = "tracking" \/ AwaitsAck)', heard' = "own"
             PROVE  (Current.id \in executed)'
  BY DEF Heard
<1>1. Current' = Current
  BY QuietPlaces DEF Current
<1>2. executed' = executed
  BY DEF Quiet, Receive, NotInMap, InMap, Write, Tracked, Check, ListenerStep, deliveryVars,
         deviceVars
<1>3. ASSUME AfterWrite, step \in {"contains", "write"}, attempt' = attempt
      PROVE  AwaitsAck /\ heard = "own"
  <2>1. attempt # 1
    BY <1>3 DEF AfterWrite, HeardBefore
  <2> QED
    BY <1>3, <2>1 DEF AfterWrite, AwaitsAck, DeliveryTypeOK, Tries
<1>4. CASE NotInMap \/ Write
  BY <1>1, <1>2, <1>3, <1>4 DEF NotInMap, Write, Heard
<1>5. CASE Receive
  BY <1>5 DEF Receive, AwaitsAck
<1>6. CASE InMap \/ Tracked \/ Check \/ ListenerStep
  <2>1. heard' = heard /\ (step = "tracking" \/ AwaitsAck)
    BY <1>6 DEF InMap, Tracked, Check, ListenerStep, deliveryVars, AwaitsAck
  <2> QED
    BY <1>1, <1>2, <2>1 DEF Heard
<1> QED
  BY <1>4, <1>5, <1>6 DEF Quiet

LEMMA EndingHeard ==
  ASSUME IInv, DeliveryTypeOK, Places, Listening, Heard, Ending
  PROVE  Heard'
<1> SUFFICES ASSUME (step = "tracking" \/ AwaitsAck)', heard' = "own"
             PROVE  (Current.id \in executed)'
  BY DEF Heard
<1>1. NoAckYet
  BY DEF Ending, CallThrows, WriteThrows, Threw, NoAckYet, AckOk, Ignore, Acknowledge, AwaitsAck
<1>2. UNCHANGED <<queue, heard, executed>> /\ step = "checking"
  BY <1>1 DEF NoAckYet, deviceVars
<1> QED
  BY <1>2 DEF Heard, AwaitsAck, Current

LEMMA CrashHeard == Crash => Heard'
BY DEF Crash, Heard, AwaitsAck

-----------------------------------------------------------------------------
(* The invariant. *)

LEMMA InitDInv == Init => DInv
<1> SUFFICES ASSUME Init PROVE DInv
  OBVIOUS
<1>1. IInv
  BY InitIInv DEF Init
<1>2. DeliveryTypeOK
  <2>1. submitted \in 0 .. MaxCommands /\ redelivered \in 0 .. MaxRedeliveries /\ crashes \in 0 .. MaxCrashes
    BY DeliveryAssumption DEF Init
  <2>2. <<>> \in Seq(Command)
    OBVIOUS
  <2>3. queue \in Seq(Command) /\ wire \in [Sn -> Seq(Command)] /\ online \in [Sn -> BOOLEAN]
    BY <2>2 DEF Init
  <2>4. step \in Step /\ attempt \in 1 .. Tries /\ verdict \in [CommandId -> Verdict]
    BY DEF Init, Step, Tries, Verdict
  <2>5. senderUp \in BOOLEAN /\ heard \in Hearing
    BY Zenon DEF Init, Hearing
  <2>6. /\ sending \in SUBSET Command /\ executed \in SUBSET CommandId
        /\ answered \in SUBSET CommandId /\ finished \in SUBSET CommandId
    BY DEF Init
  <2> QED
    BY <2>1, <2>3, <2>4, <2>5, <2>6 DEF DeliveryTypeOK
<1>3. Places
  BY DEF Init, Places, Queued, Sent, CommandId
<1>4. Listening
  BY ListenerIsThread DEF Init, TableInit, Listening, NoCall, AddPc, DeletePc
<1>5. Silence
  BY DEF Init, Silence, AwaitsAck
<1>6. Heard
  BY DEF Init, Heard, AwaitsAck
<1> QED
  BY <1>1, <1>2, <1>3, <1>4, <1>5, <1>6 DEF DInv

(* The threads and the rest of the world, and the crash. *)
LEMMA NextSplit == Next => Outside \/ Quiet \/ Ending \/ Crash
BY DEF Next, ServerNext, Outside, Quiet, Ending

LEMMA CrashTable == Crash => TableInit'
BY DEF Crash, TableInit

LEMMA StutterDInv == DInv /\ UNCHANGED vars => DInv'
<1> SUFFICES ASSUME DInv, UNCHANGED vars PROVE DInv'
  OBVIOUS
<1>1. IInv'
  BY StutterIInv DEF DInv, vars
<1>2. UNCHANGED <<tableVars, deliveryVars>>
  BY DEF vars
<1>3. DeliveryTypeOK'
  BY <1>2 DEF DInv, deliveryVars, DeliveryTypeOK
<1>4. Places'
  BY <1>2, PlacesKept DEF DInv, deliveryVars
<1>5. Listening'
  BY <1>2 DEF DInv, deliveryVars, tableVars, Listening, Current
<1>6. Silence'
  BY <1>2 DEF DInv, deliveryVars, tableVars, Silence, AwaitsAck, AckCallFor, Waits, Pending,
              Current, At, Ref, Serial
<1>7. Heard'
  BY <1>2 DEF DInv, deliveryVars, Heard, AwaitsAck, Current
<1> QED
  BY <1>1, <1>3, <1>4, <1>5, <1>6, <1>7 DEF DInv

LEMMA NextDInv == DInv /\ [Next]_vars => DInv'
<1> SUFFICES ASSUME DInv, Next PROVE DInv'
  BY StutterDInv
<1> USE DEF DInv
<1>1. CASE Outside
  <2>1. IInv'
    BY <1>1, StepOfTable, NextIInv
  <2>2. DeliveryTypeOK' /\ Places'
    <3>1. CASE \E s \in Sn, c \in Cmd : Submit(s, c)
      BY <3>1, SubmitPlaces
    <3>2. CASE \E c \in sending : SendToMq(c) \/ SendFails(c)
      BY <3>2, SendPlaces, SendFailsPlaces
    <3>3. CASE \E s \in Sn : \/ AnswerLost(s) \/ ComesOnline(s) \/ GoesOffline(s)
                             \/ \E w \in Workers : Answer(s, w)
      BY <3>3, DevicePlaces
    <3>4. CASE \E w \in Workers : AckStep(w)
      BY <3>4, PlacesKept DEF AckStep, deliveryVars, DeliveryTypeOK
    <3> QED
      BY <1>1, <3>1, <3>2, <3>3, <3>4 DEF Outside
  <2> QED
    BY <1>1, <2>1, <2>2, OutsideListening, OutsideSilence, OutsideHeard
<1>2. CASE Quiet
  BY <1>2, StepOfTable, NextIInv, QuietPlaces, QuietListening, QuietSilence, QuietHeard
<1>3. CASE Ending
  <2>1. IInv'
    BY <1>3, StepOfTable, NextIInv
  <2>2. DeliveryTypeOK' /\ Places'
    <3>1. CASE NoAckYet \/ AckOk \/ Ignore
      BY <3>1, VerdictPlaces
    <3>2. CASE Acknowledge
      BY <3>2, AcknowledgePlaces
    <3>3. CASE CallThrows \/ WriteThrows
      BY <3>3, ThrewPlaces DEF CallThrows, WriteThrows, Listening
    <3> QED
      BY <1>3, <3>1, <3>2, <3>3 DEF Ending
  <2> QED
    BY <1>3, <2>1, <2>2, EndingListening, EndingSilence, EndingHeard
<1>4. CASE Crash
  <2>1. TableInit' => IInv'
    BY InitIInv, PTL
  <2> QED
    BY <1>4, <2>1, CrashTable, CrashPlaces, CrashListening, CrashSilence, CrashHeard
<1> QED
  BY <1>1, <1>2, <1>3, <1>4, NextSplit

(* The invariant holds whatever the threads, devices and crashes do. *)
THEOREM DeliveryCorrect == Spec => []DInv
  BY InitDInv, NextDInv, PTL DEF Spec

(* The variables of the downlink path keep their types.                    *)
THEOREM DeliveryTypeCorrect == Spec => []TypeOK
<1>1. DInv => TypeOK
  BY DEF DInv, IInv, TypeOK
<1> QED
  BY <1>1, DeliveryCorrect, PTL

(* No command submitted with "@@" is lost or in two places.                *)
THEOREM CommandsInOnePlace == Spec => []InOnePlace
<1>1. DInv => InOnePlace
  <2> SUFFICES ASSUME DInv, NEW i \in 1 .. submitted
               PROVE  \/ /\ \E c \in sending : c.id = i
                         /\ QueuedAt(i) = {} /\ i \notin finished /\ verdict[i] = "none"
                      \/ /\ \E k \in QueuedAt(i) : QueuedAt(i) = {k}
                         /\ i \notin finished /\ \A c \in sending : c.id # i
                      \/ /\ i \in finished /\ verdict[i] \in {"ignored", "ok", "timeout", "dead"}
                         /\ QueuedAt(i) = {} /\ \A c \in sending : c.id # i
                      \/ /\ verdict[i] \in {"offlinesubmit", "unsent"}
                         /\ QueuedAt(i) = {} /\ i \notin finished /\ \A c \in sending : c.id # i
    BY DEF InOnePlace
  <2>0. submitted \in 0 .. MaxCommands /\ MaxCommands \in Nat
    BY DeliveryAssumption DEF DInv, DeliveryTypeOK
  <2>1. i \in CommandId /\ i <= submitted
    BY <2>0 DEF CommandId
  <2>2. Placed(i)
    BY <2>1 DEF DInv, Places
  <2>3. ~Queued(i) => QueuedAt(i) = {}
    BY DEF Queued, QueuedAt
  <2>4. Queued(i) => \E k \in QueuedAt(i) : QueuedAt(i) = {k}
    <3> SUFFICES ASSUME Queued(i) PROVE \E k \in QueuedAt(i) : QueuedAt(i) = {k}
      OBVIOUS
    <3>1. PICK k \in 1 .. Len(queue) : queue[k].id = i
      BY DEF Queued
    <3>2. QueuedAt(i) = {k}
      BY <3>1 DEF QueuedAt, DInv, Places
    <3> QED
      BY <3>2
  <2> QED
    BY <2>2, <2>3, <2>4 DEF Placed, Sent
<1> QED
  BY <1>1, DeliveryCorrect, PTL

(* The packet of a device that has not been heard since AddToMapSet was    *)
(* entered is where DeleteSetForAck(.., false) looks for it.               *)
THEOREM SilentStaysTracked == Spec => []SilentDeviceStaysTracked
<1>1. DInv => SilentDeviceStaysTracked
  BY DEF DInv, Silence, Waits, SilentDeviceStaysTracked
<1> QED
  BY <1>1, DeliveryCorrect, PTL

(* "ack ok" needs an ack call for the same device since the command was    *)
(* added to the table, and of another of its commands if this one was not  *)
(* carried out.                                                            *)
THEOREM OkOnlyWhenHeard == Spec => OkNeedsAck
<1>1. DInv /\ [Next]_vars =>
        [\A i \in CommandId : verdict[i] # "ok" /\ verdict'[i] = "ok" =>
           heard = "other" \/ (heard = "own" /\ i \in executed)]_vars
  <2> SUFFICES ASSUME DInv, Next, NEW i \in CommandId, verdict[i] # "ok", verdict'[i] = "ok"
               PROVE  heard = "other" \/ (heard = "own" /\ i \in executed)
    OBVIOUS
  <2>1. AckOk
    <3>1. verdict \in [CommandId -> Verdict]
      BY DEF DInv, DeliveryTypeOK
    <3>2. ASSUME NEW k, NEW v, v # "ok", verdict' = [verdict EXCEPT ![k] = v]
          PROVE  FALSE
      BY <3>1, <3>2
    <3>3. ~(\E s \in Sn, c \in Cmd : Submit(s, c))
      BY <3>2 DEF Submit
    <3>4. ~(\E c \in sending : SendToMq(c) \/ SendFails(c))
      BY <3>2 DEF SendToMq, SendFails
    <3>5. ~Threw /\ ~NoAckYet /\ ~Ignore
      BY <3>2 DEF Threw, NoAckYet, Ignore
    <3>6. ~Crash
      BY <3>1 DEF Crash
    <3>7. verdict' # verdict
      OBVIOUS
    <3>8. ~Quiet /\ ~Acknowledge
      BY <3>7 DEF Quiet, Receive, NotInMap, InMap, Write, Tracked, Check, ListenerStep, Acknowledge,
                  deliveryVars
    <3>9. ~Outside
      BY <3>3, <3>4, <3>7 DEF Outside, Answer, AnswerLost, Execute, ComesOnline, GoesOffline,
                  AckStep, listenerVars, deliveryVars
    <3> QED
      BY <3>5, <3>6, <3>8, <3>9, NextSplit DEF Ending, CallThrows, WriteThrows
  <2>2. step = "checking" /\ At(Listener, "false") /\ AwaitsAck
    BY <2>1 DEF AckOk, AwaitsAck
  <2>3. heard # "nothing"
    BY <2>2 DEF DInv, Silence, At
  <2>4. i = Current.id
    BY <2>1 DEF AckOk, DInv, DeliveryTypeOK
  <2>5. heard = "own" => i \in executed
    BY <2>2, <2>4 DEF DInv, Heard
  <2> QED
    BY <2>3, <2>5 DEF DInv, DeliveryTypeOK, Hearing
<1> QED
  BY <1>1, DeliveryCorrect, PTL DEF Spec, OkNeedsAck

-----------------------------------------------------------------------------
(* The refinement. *)

Ids(q) == [k \in 1 .. Len(q) |-> q[k].id]

LEMMA IdsOfQueue ==
  ASSUME NEW q \in Seq(Command)
  PROVE  /\ Ids(q) \in Seq(CommandId) /\ Len(Ids(q)) = Len(q)
         /\ \A k \in 1 .. Len(q) : Ids(q)[k] = q[k].id
<1>1. \A k \in 1 .. Len(q) : q[k].id \in CommandId
  <2>1. \A k \in 1 .. Len(q) : q[k] \in Command
    BY ElementOfSeq
  <2> QED
    BY <2>1 DEF Command
<1>2. Len(q) \in Nat /\ Ids(q) \in [1 .. Len(q) -> CommandId]
  BY <1>1 DEF Ids
<1>3. Ids(q) \in Seq(CommandId)
  BY <1>2, SeqDef
<1> QED
  BY <1>2, <1>3 DEF Ids

LEMMA IdsAppend ==
  ASSUME NEW q \in Seq(Command), NEW c \in Command
  PROVE  Ids(Append(q, c)) = Append(Ids(q), c.id)
<1>0. PICK n \in Nat : n = Len(q)
  OBVIOUS
<1>1. c.id \in CommandId /\ Append(q, c) \in Seq(Command) /\ Len(Append(q, c)) = n + 1
  BY <1>0 DEF Command
<1>2. /\ Ids(q) \in Seq(CommandId) /\ Len(Ids(q)) = n
      /\ \A k \in 1 .. n : Ids(q)[k] = q[k].id
  BY <1>0, IdsOfQueue
<1>3. /\ Ids(Append(q, c)) \in Seq(CommandId) /\ Len(Ids(Append(q, c))) = n + 1
      /\ \A k \in 1 .. n + 1 : Ids(Append(q, c))[k] = Append(q, c)[k].id
  BY <1>1, IdsOfQueue
<1>4. /\ Append(Ids(q), c.id) \in Seq(CommandId) /\ Len(Append(Ids(q), c.id)) = n + 1
      /\ \A k \in 1 .. n + 1 : Append(Ids(q), c.id)[k] = Append(q, c)[k].id
  BY <1>1, <1>2
<1> QED
  BY <1>3, <1>4, SeqEqual

LEMMA IdsTail ==
  ASSUME NEW q \in Seq(Command), q # <<>>
  PROVE  /\ Ids(q) # <<>> /\ Head(Ids(q)) = Head(q).id
         /\ Ids(Tail(q)) = Tail(Ids(q))
<1>1. Tail(q) \in Seq(Command) /\ Len(q) \in Nat /\ Len(q) >= 1 /\ Len(Tail(q)) = Len(q) - 1
  OBVIOUS
<1>2. /\ Ids(q) \in Seq(CommandId) /\ Len(Ids(q)) = Len(q)
      /\ \A k \in 1 .. Len(q) : Ids(q)[k] = q[k].id
  BY IdsOfQueue
<1>3. Ids(q) # <<>> /\ Head(Ids(q)) = Head(q).id
  BY <1>1, <1>2
<1>4. /\ Ids(Tail(q)) \in Seq(CommandId) /\ Len(Ids(Tail(q))) = Len(q) - 1
      /\ \A k \in 1 .. Len(q) - 1 : Ids(Tail(q))[k] = Tail(q)[k].id
  BY <1>1, IdsOfQueue
<1>5. /\ Tail(Ids(q)) \in Seq(CommandId) /\ Len(Tail(Ids(q))) = Len(q) - 1
      /\ \A k \in 1 .. Len(q) - 1 : Tail(Ids(q))[k] = Tail(q)[k].id
  BY <1>1, <1>2, <1>3
<1> QED
  BY <1>3, <1>4, <1>5, SeqEqual

(* What a step does to the queue. *)
LEMMA QueueSteps ==
  ASSUME DInv, Next
  PROVE  \/ UNCHANGED <<queue, finished>>
         \/ \E c \in sending : SendToMq(c)
         \/ /\ queue # <<>> /\ queue' = Tail(queue)
            /\ finished' = finished \cup {Current.id}
<1>1. CASE Outside
  BY <1>1 DEF Outside, Submit, SendFails, Answer, AnswerLost, Execute, ComesOnline, GoesOffline,
              AckStep, listenerVars, deliveryVars
<1>2. CASE Quiet
  BY <1>2, QuietPlaces DEF DInv
<1>3. CASE Ending
  <2>1. queue # <<>>
    BY <1>3 DEF Ending, CallThrows, WriteThrows, NoAckYet, AckOk, Ignore, Acknowledge, DInv, Listening
  <2> QED
    BY <1>3, <2>1 DEF Ending, CallThrows, WriteThrows, Threw, NoAckYet, AckOk, Ignore, Acknowledge
<1>4. CASE Crash
  BY <1>4 DEF Crash
<1> QED
  BY <1>1, <1>2, <1>3, <1>4, NextSplit

(* The whole path, its threads, retries, redeliveries and crashes included,*)
(* is a first-in first-out queue of commands.                              *)
THEOREM DeliveryIsQueue == Spec => ImplementsQueue
<1>1. Init => Abstract!QueueInit
  <2> SUFFICES ASSUME Init PROVE Abstract!QueueInit
    OBVIOUS
  <2>1. <<>> \in Seq(Command) /\ queue = <<>> /\ finished = {}
    BY DEF Init
  <2>2. Ids(<<>>) \in Seq(CommandId) /\ Len(Ids(<<>>)) = 0
    BY <2>1, IdsOfQueue
  <2>3. Ids(<<>>) = <<>>
    BY <2>2, EmptySeq
  <2>4. Waiting = <<>>
    BY <2>1, <2>3 DEF Waiting, Ids
  <2> QED
    BY <2>1, <2>4 DEF Abstract!QueueInit
<1>2. DInv /\ [Next]_vars => [Abstract!QueueNext]_(Abstract!queueVars)
  <2> SUFFICES ASSUME DInv, [Next]_vars PROVE [Abstract!QueueNext]_(Abstract!queueVars)
    OBVIOUS
  <2>1. Waiting = Ids(queue) /\ Waiting' = Ids(queue') /\ queue \in Seq(Command)
    BY DEF Waiting, Ids, DInv, DeliveryTypeOK
  <2>2. CASE UNCHANGED <<queue, finished>>
    BY <2>1, <2>2 DEF Abstract!queueVars
  <2>3. ASSUME NEW c \in sending, SendToMq(c) PROVE Abstract!QueueNext
    <3>1. /\ c \in Command /\ c.id \in CommandId /\ queue' = Append(queue, c)
          /\ finished' = finished
      BY <2>3 DEF DInv, DeliveryTypeOK, Command, SendToMq
    <3>2. ~Queued(c.id) /\ c.id \notin finished
      BY <3>1 DEF DInv, Places, Placed, Sent
    <3>3. Waiting' = Append(Waiting, c.id)
      BY <2>1, <3>1, IdsAppend
    <3>4. c.id \notin Abstract!WaitingSet
      BY <2>1, <3>2, IdsOfQueue DEF Abstract!WaitingSet, Queued
    <3>5. Abstract!Accept(c.id)
      BY <3>1, <3>2, <3>3, <3>4 DEF Abstract!Accept
    <3> QED
      BY <3>1, <3>5 DEF Abstract!QueueNext
  <2>4. ASSUME queue # <<>>, queue' = Tail(queue), finished' = finished \cup {Current.id}
        PROVE  Abstract!QueueNext
    <3>1. /\ Waiting # <<>> /\ Head(Waiting) = Current.id /\ Waiting' = Tail(Waiting)
      BY <2>1, <2>4, IdsTail DEF Current
    <3> QED
      BY <2>4, <3>1 DEF Abstract!QueueNext, Abstract!Finish
  <2>5. CASE UNCHANGED vars
    BY <2>2, <2>5 DEF vars, deliveryVars
  <2> QED
    BY <2>2, <2>3, <2>4, <2>5, QueueSteps
<1> QED
  BY <1>1, <1>2, DeliveryCorrect, PTL DEF Spec, ImplementsQueue, Abstract!QueueSpec

-----------------------------------------------------------------------------
(* The listener gets on.                                                   *)

LEMMA CallLeftBounds == \A pc : CallLeft(pc) \in 0 .. 6
BY DEF CallLeft

LEMMA DeliveryLeftBounds ==
  DeliveryTypeOK =>
    /\ DeliveryLeft \in 0 .. 49
    /\ step \notin {"idle", "return"} => DeliveryLeft >= 1
<1> SUFFICES ASSUME DeliveryTypeOK
             PROVE  /\ DeliveryLeft \in 0 .. 49
                    /\ step \notin {"idle", "return"} => DeliveryLeft >= 1
  OBVIOUS
<1>1. CallLeft(call[Listener].pc) \in 0 .. 6
  BY CallLeftBounds
<1>2. step \notin {"idle", "return"} => AttemptLeft \in 1 .. 15
  <2>1. step \in Step
    BY DEF DeliveryTypeOK
  <2>2. step = "contains" => AttemptLeft = 14
    BY DEF AttemptLeft
  <2>3. step = "write" => AttemptLeft = 13
    BY DEF AttemptLeft
  <2>4. step = "tracking" => AttemptLeft = 9 + CallLeft(call[Listener].pc)
    BY DEF AttemptLeft
  <2>5. step = "sleep" => AttemptLeft = 8
    BY DEF AttemptLeft
  <2>6. step = "checking" => AttemptLeft = 1 + CallLeft(call[Listener].pc)
    BY DEF AttemptLeft
  <2> QED
    BY <1>1, <2>1, <2>2, <2>3, <2>4, <2>5, <2>6 DEF Step
<1>3. (Tries - attempt) * 15 \in {0, 15, 30}
  <2>1. attempt \in {1, 2, 3}
    BY DEF DeliveryTypeOK, Tries
  <2> QED
    BY <2>1 DEF Tries
<1>4. CASE step \notin {"idle", "return"}
  <2>1. DeliveryLeft = (Tries - attempt) * 15 + AttemptLeft
    BY <1>4 DEF DeliveryLeft
  <2> QED
    BY <1>2, <1>3, <1>4, <2>1
<1>5. CASE step \in {"idle", "return"}
  BY <1>5 DEF DeliveryLeft
<1> QED
  BY <1>4, <1>5

(* A call goes forward. *)
LEMMA AddGoesOn ==
  ASSUME IInv, NEW t \in Threads, AddStep(t)
  PROVE  CallLeft(call'[t].pc) < CallLeft(call[t].pc)
<1>1. CASE AddFirst(t) \/ AddNull(t)
  BY <1>1, Returning DEF AddFirst, AddNull, At, CallLeft
<1>2. CASE AddFound(t)
  BY <1>2, Going DEF AddFound, At, CallLeft
<1>3. CASE AddGet(t)
  <2>1. call[t].pc = "addGet" /\ call'[t].pc = "addInsert"
    BY <1>3 DEF AddGet, At, IInv, TableTypeOK, Call
  <2> QED
    BY <2>1 DEF CallLeft
<1>4. CASE AddInsert(t)
  <2>1. call[t].pc = "addInsert" /\ call'[t].pc \in AddPc \cup {"void", "threw"}
    BY <1>4, AddSteps DEF AddInsert, At
  <2>2. call' = [Invalidate(Ref(t), call) EXCEPT ![t] = [NoCall EXCEPT !.pc = "void"]]
    BY <1>4 DEF AddInsert
  <2>3. call'[t].pc = "void"
    BY <2>2 DEF Invalidate, NoCall
  <2> QED
    BY <2>1, <2>3 DEF CallLeft
<1> QED
  BY <1>1, <1>2, <1>3, <1>4 DEF AddStep

LEMMA DeleteGoesOn ==
  ASSUME IInv, NEW t \in Threads, DeleteStep(t)
  PROVE  CallLeft(call'[t].pc) < CallLeft(call[t].pc)
<1>1. ASSUME NEW how \in {"true", "false", "threw"}, Return(t, how)
      PROVE  CallLeft(call'[t].pc) = 0
  BY <1>1, Returning DEF CallLeft
<1>2. call[t].pc \in DeletePc /\ CallLeft(call[t].pc) > 0
  <2>1. call[t].pc \in DeletePc
    BY DeleteSteps
  <2> QED
    BY <2>1 DEF CallLeft, DeletePc
<1>3. CASE \E how \in {"true", "false", "threw"} : Return(t, how)
  BY <1>1, <1>2, <1>3
<1>4. CASE ~\E how \in {"true", "false", "threw"} : Return(t, how)
  <2>1. CASE DelContains(t)
    BY <1>4, <2>1, Going DEF DelContains, At, CallLeft
  <2>2. CASE DelGet(t)
    <3>1. call[t].pc = "delGet" /\ call'[t].pc = "iterate"
      BY <1>4, <2>2 DEF DelGet, At, IInv, TableTypeOK, Call
    <3> QED
      BY <3>1 DEF CallLeft
  <2>3. CASE DelIterate(t)
    <3>1. call[t].pc = "iterate" /\ call'[t].pc \in {"size", "scan"}
      BY <2>3, Going DEF DelIterate, At, IInv, TableTypeOK, Call
    <3> QED
      BY <3>1 DEF CallLeft
  <2>4. CASE ScanMisses(t) \/ ScanThrows(t) \/ ScanFinds(t)
    BY <1>4, <2>4, Going DEF ScanMisses, ScanThrows, ScanFinds, At, CallLeft
  <2>5. CASE ScanRemoves(t)
    <3>1. Invalidate(Ref(t), call) \in [Threads -> Call]
      BY Invalidated DEF Invalidate
    <3>2. call[t].pc = "scan" /\ call'[t].pc = "size"
      BY <2>5, <3>1 DEF ScanRemoves, At, Call
    <3> QED
      BY <3>2 DEF CallLeft
  <2>6. CASE DelSize(t)
    BY <1>4, <2>6, Going DEF DelSize, At, CallLeft
  <2>7. CASE DelUnmap(t)
    BY <1>4, <2>7 DEF DelUnmap
  <2> QED
    BY <2>1, <2>2, <2>3, <2>4, <2>5, <2>6, <2>7 DEF DeleteStep
<1> QED
  BY <1>3, <1>4

(* The listener's own steps that do not end an attempt. *)
LEMMA QuietGoesOn ==
  ASSUME DInv, Quiet
  PROVE  HeadLeft' < HeadLeft
<1> USE ListenerIsThread DEF DInv
<1>1. redelivered' = redelivered /\ redelivered \in Nat /\ MaxRedeliveries \in Nat
  BY QuietPlaces, DeliveryAssumption DEF DeliveryTypeOK
<1>2. DeliveryLeft \in Int /\ DeliveryLeft' \in Int
  <2>1. DeliveryTypeOK' => (DeliveryLeft \in 0 .. 49)'
    BY DeliveryLeftBounds, PTL
  <2>2. DeliveryTypeOK'
    BY QuietPlaces
  <2>3. DeliveryLeft' \in 0 .. 49
    BY <2>1, <2>2
  <2> QED
    BY <2>3, DeliveryLeftBounds
<1>3. attempt \in 1 .. 3 /\ Tries = 3
  BY DEF DeliveryTypeOK, Tries
<1>4. CallLeft(call[Listener].pc) \in 0 .. 6
  BY CallLeftBounds
<1>5. ASSUME attempt' = attempt, step \notin {"idle", "return"}, step' \notin {"idle", "return"},
             AttemptLeft \in Int, AttemptLeft' \in Int, AttemptLeft' < AttemptLeft
      PROVE  DeliveryLeft' < DeliveryLeft
  BY <1>3, <1>5 DEF DeliveryLeft
<1>6. DeliveryLeft' < DeliveryLeft
  <2>1. CASE Receive
    BY <1>3, <2>1 DEF Receive, DeliveryLeft, AttemptLeft
  <2>2. ASSUME AfterWrite, step \in {"contains", "write"}, attempt' = attempt
        PROVE  DeliveryLeft' < DeliveryLeft
    <3>1. CASE attempt = 1
      <4>1. step' = "tracking" /\ call'[Listener].pc = "addContains"
        BY <2>2, <3>1, StartAdds DEF AfterWrite
      <4>2. AttemptLeft' = 12 /\ AttemptLeft \in {13, 14}
        BY <2>2, <4>1 DEF AttemptLeft, CallLeft
      <4> QED
        BY <1>5, <2>2, <4>1, <4>2
    <3>2. CASE attempt # 1
      <4>1. step' = "sleep"
        BY <2>2, <3>2 DEF AfterWrite
      <4>2. AttemptLeft' = 8 /\ AttemptLeft \in {13, 14}
        BY <2>2, <4>1 DEF AttemptLeft
      <4> QED
        BY <1>5, <2>2, <4>1, <4>2
    <3> QED
      BY <3>1, <3>2
  <2>3. CASE NotInMap \/ Write
    BY <2>2, <2>3 DEF NotInMap, Write
  <2>4. CASE InMap
    BY <1>5, <2>4 DEF InMap, AttemptLeft
  <2>5. CASE Tracked
    <3>1. step = "tracking" /\ step' = "sleep" /\ attempt' = attempt
      BY <2>5 DEF Tracked
    <3> QED
      BY <1>4, <1>5, <3>1 DEF AttemptLeft
  <2>6. CASE Check
    <3>1. /\ step = "sleep" /\ step' = "checking" /\ attempt' = attempt
          /\ call'[Listener].pc = "delContains"
      BY <2>6, StartDeletes DEF Check
    <3>2. AttemptLeft = 8 /\ AttemptLeft' = 7
      BY <3>1 DEF AttemptLeft, CallLeft
    <3> QED
      BY <1>5, <3>1, <3>2
  <2>7. CASE ListenerStep
    <3>1. UNCHANGED <<step, attempt>> /\ CallLeft(call'[Listener].pc) < CallLeft(call[Listener].pc)
      BY <2>7, AddGoesOn, DeleteGoesOn DEF ListenerStep, deliveryVars
    <3>2. call[Listener].pc \in AddPc \cup DeletePc
      BY <2>7, AddSteps, DeleteSteps DEF ListenerStep
    <3>3. step \in {"tracking", "checking"}
      BY <3>2 DEF Listening, AddPc, DeletePc
    <3>4. CallLeft(call'[Listener].pc) \in 0 .. 6
      BY CallLeftBounds
    <3> QED
      BY <1>4, <1>5, <3>1, <3>3, <3>4 DEF AttemptLeft
  <2> QED
    BY <2>1, <2>3, <2>4, <2>5, <2>6, <2>7 DEF Quiet
<1>7. PICK r \in Int : r = (MaxRedeliveries - redelivered) * 50
  BY <1>1
<1>8. HeadLeft = r + DeliveryLeft /\ HeadLeft' = r + DeliveryLeft'
  BY <1>1, <1>7 DEF HeadLeft
<1>9. ASSUME NEW d \in Int, NEW e \in Int, d < e PROVE r + d < r + e
  BY <1>9
<1> QED
  BY <1>2, <1>6, <1>8, <1>9

(* Its results: the next attempt, the next delivery, or the end. *)
LEMMA EndingGoesOn ==
  ASSUME DInv, Ending, queue' # Tail(queue)
  PROVE  HeadLeft' < HeadLeft
<1>1. redelivered \in 0 .. MaxRedeliveries /\ MaxRedeliveries \in Nat
  BY DeliveryAssumption DEF DInv, DeliveryTypeOK
<1>2. attempt \in {1, 2, 3} /\ DeliveryLeft \in 0 .. 49
  <2>1. DeliveryLeft \in 0 .. 49
    BY DeliveryLeftBounds DEF DInv
  <2> QED
    BY <2>1 DEF DInv, DeliveryTypeOK, Tries
<1>3. ASSUME redelivered' = redelivered, DeliveryLeft' \in Int, DeliveryLeft' < DeliveryLeft
      PROVE  HeadLeft' < HeadLeft
  <2>1. PICK r \in Int : r = (MaxRedeliveries - redelivered) * 50
    BY <1>1
  <2>2. HeadLeft = r + DeliveryLeft /\ HeadLeft' = r + DeliveryLeft'
    BY <1>3, <2>1 DEF HeadLeft
  <2>3. PICK d \in Int, e \in Int : d = DeliveryLeft' /\ e = DeliveryLeft
    BY <1>2, <1>3
  <2>4. d < e => r + d < r + e
    OBVIOUS
  <2> QED
    BY <1>3, <2>2, <2>3, <2>4
<1>4. CASE NoAckYet \/ AckOk
  <2>1. /\ step = "checking" /\ CallLeft(call[Listener].pc) = 0
        /\ redelivered' = redelivered
    BY <1>4 DEF NoAckYet, AckOk, At, CallLeft
  <2>2. DeliveryLeft = (3 - attempt) * 15 + 1
    BY <2>1 DEF DeliveryLeft, AttemptLeft, Tries
  <2>3. CASE step' = "return"
    <3>1. DeliveryLeft' = 0
      BY <2>3 DEF DeliveryLeft
    <3> QED
      BY <1>2, <1>3, <2>1, <2>2, <3>1
  <2>4. CASE step' # "return"
    <3>1. step' = "contains" /\ attempt' = attempt + 1
      BY <1>4, <2>4 DEF NoAckYet, AckOk
    <3>2. DeliveryLeft' = (3 - attempt') * 15 + 14
      BY <3>1 DEF DeliveryLeft, AttemptLeft, Tries
    <3> QED
      BY <1>2, <1>3, <2>1, <2>2, <3>1, <3>2
  <2> QED
    BY <2>3, <2>4
<1>5. CASE CallThrows \/ WriteThrows
  <2>1. /\ Threw /\ step \in {"tracking", "checking", "write"}
    BY <1>5 DEF CallThrows, WriteThrows
  <2>2. redelivered' = redelivered + 1 /\ step' = "idle"
    BY <2>1 DEF Threw
  <2>3. DeliveryLeft' = 49 /\ DeliveryLeft >= 1
    BY <2>1, <2>2, DeliveryLeftBounds DEF DInv, DeliveryLeft
  <2>4. PICK r \in Int : r = MaxRedeliveries - redelivered
    BY <1>1
  <2>5. HeadLeft = r * 50 + DeliveryLeft /\ HeadLeft' = (r - 1) * 50 + 49
    BY <1>1, <2>2, <2>3, <2>4 DEF HeadLeft
  <2>6. ASSUME NEW d \in Int, d >= 1 PROVE (r - 1) * 50 + 49 < r * 50 + d
    BY <2>6
  <2> QED
    BY <1>2, <2>3, <2>5, <2>6
<1>6. CASE Acknowledge
  BY <1>6 DEF Acknowledge
<1>7. CASE Ignore
  <2>1. DeliveryLeft = 49 /\ DeliveryLeft' = 0 /\ redelivered' = redelivered
    BY <1>7 DEF Ignore, DeliveryLeft
  <2> QED
    BY <1>3, <2>1
<1> QED
  BY <1>4, <1>5, <1>6, <1>7 DEF Ending

(* What others do neither helps nor delays it. *)
LEMMA OutsideGoesOn ==
  ASSUME DInv, Outside
  PROVE  HeadLeft' = HeadLeft /\ step' = step /\ call'[Listener].pc = call[Listener].pc
<1>1. UNCHANGED <<step, attempt>> /\ call'[Listener].pc = call[Listener].pc
  BY OutsideKeeps DEF DInv
<1>2. redelivered' = redelivered
  BY DEF Outside, Submit, SendToMq, SendFails, Answer, AnswerLost, Execute, ComesOnline,
         GoesOffline, AckStep, listenerVars, deliveryVars
<1> QED
  BY <1>1, <1>2 DEF HeadLeft, DeliveryLeft, AttemptLeft

LEMMA HeadLeftType == DInv => HeadLeft \in Int
<1> SUFFICES ASSUME DInv PROVE HeadLeft \in Int
  OBVIOUS
<1>1. DeliveryLeft \in Int
  BY DeliveryLeftBounds DEF DInv
<1>2. redelivered \in Int /\ MaxRedeliveries \in Int
  BY DeliveryAssumption DEF DInv, DeliveryTypeOK
<1> QED
  BY <1>1, <1>2 DEF HeadLeft

(* onMessage comes to its end: what is left of it for the head of the      *)
(* queue is never more than 50 steps for each delivery, and shrinks with   *)
(* every step of the listener, whatever the other threads do.              *)
THEOREM OnMessageGetsOn == Spec => ListenerGetsOn
<1>1. DInv /\ [Next]_vars =>
        [queue # <<>> /\ queue' # Tail(queue) /\ crashes' = crashes =>
           /\ HeadLeft' <= HeadLeft
           /\ step' # step \/ call'[Listener].pc # call[Listener].pc => HeadLeft' < HeadLeft]_vars
  <2> SUFFICES ASSUME DInv, Next, queue' # Tail(queue), crashes' = crashes
               PROVE  /\ HeadLeft' <= HeadLeft
                      /\ \/ step' # step
                         \/ call'[Listener].pc # call[Listener].pc
                         => HeadLeft' < HeadLeft
    OBVIOUS
  <2>1. HeadLeft \in Int /\ HeadLeft' \in Int
    <3>1. DInv' => (HeadLeft \in Int)'
      BY HeadLeftType, PTL
    <3> QED
      BY <3>1, HeadLeftType, NextDInv
  <2>2. CASE Outside
    BY <2>1, <2>2, OutsideGoesOn
  <2>3. CASE Quiet \/ Ending
    BY <2>1, <2>3, QuietGoesOn, EndingGoesOn
  <2>4. CASE Crash
    BY <2>4 DEF Crash, DInv, DeliveryTypeOK
  <2> QED
    BY <2>2, <2>3, <2>4, NextSplit
<1> QED
  BY <1>1, DeliveryCorrect, PTL DEF Spec, ListenerGetsOn

-----------------------------------------------------------------------------
(* The bound on packets.                                                   *)

(* Of the deliveries that began, at most the last is still without its     *)
(* packet: each of the others was redelivered or has finished its command. *)
Added == step = "tracking" \/ AwaitsAck \/ step = "return"

Spent ==
  created <= Cardinality(finished) * (MaxRedeliveries + 1) + redelivered
               + (IF Added THEN 1 ELSE 0)

LEMMA FinishedSize ==
  ASSUME DeliveryTypeOK
  PROVE  /\ IsFiniteSet(finished) /\ Cardinality(finished) \in Nat
         /\ \A i \in CommandId \ finished :
              /\ Cardinality(finished \cup {i}) = Cardinality(finished) + 1
              /\ Cardinality(finished) < MaxCommands
<1>1. IsFiniteSet(CommandId) /\ Cardinality(CommandId) = MaxCommands
  BY FS_Interval, DeliveryAssumption DEF CommandId
<1>2. finished \in SUBSET CommandId
  BY DEF DeliveryTypeOK
<1>3. IsFiniteSet(finished) /\ Cardinality(finished) \in Nat
  BY <1>1, <1>2, FS_Subset, FS_CardinalityType
<1>4. ASSUME NEW i \in CommandId \ finished
      PROVE  /\ Cardinality(finished \cup {i}) = Cardinality(finished) + 1
             /\ Cardinality(finished) < MaxCommands
  <2>1. Cardinality(finished \cup {i}) = Cardinality(finished) + 1
    BY <1>3, FS_AddElement
  <2>2. finished \cup {i} \in SUBSET CommandId
    BY <1>2
  <2>3. Cardinality(finished \cup {i}) <= MaxCommands
    BY <1>1, <2>2, FS_Subset
  <2> QED
    BY <1>3, <2>1, <2>3, DeliveryAssumption
<1> QED
  BY <1>3, <1>4

(* The products behave. *)
LEMMA Products ==
  ASSUME NEW k \in Nat, NEW m \in Nat
  PROVE  /\ k * (m + 1) \in Nat /\ (k + 1) * (m + 1) = k * (m + 1) + m + 1
         /\ \A n \in Nat : k < n => k * (m + 1) + m + 1 <= n * (m + 1)
<1>1. k * (m + 1) \in Nat /\ (k + 1) * (m + 1) = k * (m + 1) + m + 1
  OBVIOUS
<1>2. ASSUME NEW n \in Nat, k < n PROVE k * (m + 1) + m + 1 <= n * (m + 1)
  <2>1. PICK d \in Nat : n = (k + 1) + d
    <3>1. n - (k + 1) \in Nat /\ n = (k + 1) + (n - (k + 1))
      BY <1>2
    <3> QED
      BY <3>1
  <2>2. n * (m + 1) = (k + 1) * (m + 1) + d * (m + 1) /\ d * (m + 1) \in Nat
    BY <2>1
  <2> QED
    BY <1>1, <2>2
<1> QED
  BY <1>1, <1>2

(* The head of the queue finishes: there is room for all its deliveries.   *)
LEMMA FinishSpent ==
  ASSUME DInv, Spent, queue # <<>>, created' = created, redelivered' = 0,
         finished' = finished \cup {Current.id}
  PROVE  Spent'
<1>1. Current.id \in CommandId \ finished
  BY QueueHead DEF DInv, Places, Placed
<1>2. /\ created \in Nat /\ redelivered \in 0 .. MaxRedeliveries /\ MaxRedeliveries \in Nat
      /\ MaxPackets \in Nat
  BY TableAssumption, DeliveryAssumption DEF DInv, IInv, TableTypeOK, DeliveryTypeOK
<1>3. PICK k \in Nat : k = Cardinality(finished) /\ Cardinality(finished') = k + 1
  BY <1>1, FinishedSize DEF DInv
<1>4. PICK n \in Nat : n = k * (MaxRedeliveries + 1)
                       /\ (k + 1) * (MaxRedeliveries + 1) = n + MaxRedeliveries + 1
  BY <1>2, Products
<1>5. created <= n + redelivered + (IF Added THEN 1 ELSE 0)
  BY <1>3, <1>4 DEF Spent
<1>6. created' <= n + MaxRedeliveries + 1
  BY <1>2, <1>5
<1>7. PICK m \in Nat : m = n + MaxRedeliveries + 1 /\ m = Cardinality(finished') * (MaxRedeliveries + 1)
  BY <1>2, <1>3, <1>4
<1>8. created' <= m + redelivered' + (IF Added' THEN 1 ELSE 0)
  BY <1>2, <1>6, <1>7
<1> QED
  BY <1>7, <1>8 DEF Spent

LEMMA NextSpent == DInv /\ Spent /\ [Next]_vars => Spent'
<1> SUFFICES ASSUME DInv, Spent, [Next]_vars PROVE Spent'
  OBVIOUS
<1> USE ListenerIsThread
<1>1. /\ created \in Nat /\ redelivered \in 0 .. MaxRedeliveries /\ MaxRedeliveries \in Nat
  BY DeliveryAssumption DEF DInv, IInv, TableTypeOK, DeliveryTypeOK
<1>2. PICK n \in Nat : n = Cardinality(finished) * (MaxRedeliveries + 1)
  BY <1>1, FinishedSize, Products DEF DInv
<1>3. created <= n + redelivered + (IF Added THEN 1 ELSE 0)
  BY <1>2 DEF Spent
<1>4. ASSUME UNCHANGED <<created, finished, redelivered>>, Added => Added'
      PROVE  Spent'
  BY <1>1, <1>2, <1>3, <1>4 DEF Spent
<1>5. CASE UNCHANGED vars
  BY <1>4, <1>5 DEF vars, tableVars, deliveryVars, Added, AwaitsAck
<1>6. CASE Outside
  <2>1. UNCHANGED <<step, attempt, created>>
    BY <1>6, OutsideKeeps DEF DInv
  <2>2. UNCHANGED <<finished, redelivered>>
    BY <1>6 DEF Outside, Submit, SendToMq, SendFails, Answer, AnswerLost, Execute, ComesOnline,
                GoesOffline, AckStep, listenerVars, deliveryVars
  <2> QED
    BY <1>4, <2>1, <2>2 DEF Added, AwaitsAck
<1>7. CASE Quiet
  <2>1. UNCHANGED <<finished, redelivered>>
    BY <1>7, QuietPlaces DEF DInv
  <2>2. ASSUME AfterWrite, step \in {"contains", "write"}, attempt' = attempt PROVE Spent'
    <3>1. CASE attempt = 1
      <4>1. created' = created + 1 /\ step' = "tracking"
        BY <2>2, <3>1 DEF AfterWrite, StartAdd
      <4>2. ~Added /\ Added'
        BY <2>2, <3>1, <4>1 DEF Added, AwaitsAck
      <4> QED
        BY <1>1, <1>2, <1>3, <2>1, <4>1, <4>2 DEF Spent
    <3>2. CASE attempt # 1
      <4>1. created' = created /\ step' = "sleep"
        BY <2>2, <3>2 DEF AfterWrite, tableVars
      <4> QED
        BY <1>4, <2>1, <4>1 DEF Added, AwaitsAck
    <3> QED
      BY <3>1, <3>2
  <2>3. CASE NotInMap \/ Write
    BY <2>2, <2>3 DEF NotInMap, Write
  <2>4. CASE Receive \/ InMap
    BY <1>4, <2>1, <2>4 DEF Receive, InMap, tableVars, Added, AwaitsAck
  <2>5. CASE Tracked \/ Check
    BY <1>4, <2>1, <2>5, TakeSteps, StartDeletes DEF DInv, Tracked, Check, Added, AwaitsAck
  <2>6. CASE ListenerStep
    <3>1. UNCHANGED <<step, attempt, created>>
      BY <2>6, AddSteps, DeleteSteps DEF DInv, ListenerStep, deliveryVars
    <3> QED
      BY <1>4, <2>1, <3>1 DEF Added, AwaitsAck
  <2> QED
    BY <1>7, <2>3, <2>4, <2>5, <2>6 DEF Quiet
<1>8. CASE Ending
  <2>0. created' = created /\ queue # <<>>
    BY <1>8, EndingListening DEF Ending, CallThrows, WriteThrows, NoAckYet, AckOk, Ignore, Acknowledge,
                                 DInv, Listening
  <2>1. CASE NoAckYet \/ AckOk
    <3>1. UNCHANGED <<finished, redelivered>>
      BY <2>1 DEF NoAckYet, AckOk
    <3>2. step' = "return" \/ (step' = "contains" /\ attempt' = attempt + 1)
      BY <2>1 DEF NoAckYet, AckOk
    <3>3. attempt \in Nat \ {0}
      BY DEF DInv, DeliveryTypeOK, Tries
    <3> QED
      BY <1>4, <2>0, <3>1, <3>2, <3>3 DEF Added, AwaitsAck
  <2>2. CASE (CallThrows \/ WriteThrows) /\ redelivered < MaxRedeliveries
    <3>1. finished' = finished /\ redelivered' = redelivered + 1
      BY <2>2 DEF CallThrows, WriteThrows, Threw
    <3> QED
      BY <1>1, <1>2, <1>3, <2>0, <3>1 DEF Spent
  <2>3. CASE (CallThrows \/ WriteThrows) /\ ~(redelivered < MaxRedeliveries)
    <3>1. /\ finished' = finished \cup {Current.id} /\ redelivered' = 0 /\ step' = "idle"
      BY <2>3 DEF CallThrows, WriteThrows, Threw
    <3> QED
      BY <2>0, <3>1, FinishSpent
  <2>4. CASE Acknowledge
    BY <2>0, <2>4, FinishSpent DEF Acknowledge
  <2>5. CASE Ignore
    BY <1>4, <2>0, <2>5 DEF Ignore, Added, AwaitsAck
  <2> QED
    BY <1>8, <2>1, <2>2, <2>3, <2>4, <2>5 DEF Ending
<1>9. CASE Crash
  <2>1. created' = 0 /\ redelivered' = 0 /\ finished' = finished
    BY <1>9 DEF Crash
  <2> QED
    BY <1>1, <1>2, <2>1 DEF Spent
<1> QED
  BY <1>5, <1>6, <1>7, <1>8, <1>9, NextSplit

(* The table never runs out of packets before the commands run out of      *)
(* deliveries: the bound MaxPackets of AddToMapSet's model stops nothing.  *)
THEOREM PacketsSuffice ==
  Spec => [](step \in {"contains", "write"} /\ attempt = 1 => created < MaxPackets)
<1>1. Init => Spent
  <2> SUFFICES ASSUME Init PROVE Spent
    OBVIOUS
  <2>1. DeliveryTypeOK
    BY InitDInv DEF DInv
  <2>2. MaxRedeliveries \in Nat /\ Cardinality(finished) * (MaxRedeliveries + 1) \in Nat
    BY <2>1, FinishedSize, Products, DeliveryAssumption
  <2> QED
    BY <2>2 DEF Init, TableInit, Spent
<1>2. DInv /\ Spent => (step \in {"contains", "write"} /\ attempt = 1 => created < MaxPackets)
  <2> SUFFICES ASSUME DInv, Spent, step \in {"contains", "write"}, attempt = 1
               PROVE  created < MaxPackets
    OBVIOUS
  <2>1. Current.id \in CommandId \ finished
    BY QueueHead DEF DInv, Listening, Places, Placed
  <2>2. PICK k \in Nat : k = Cardinality(finished) /\ k < MaxCommands
    BY <2>1, FinishedSize DEF DInv
  <2>3. /\ created \in Nat /\ redelivered \in 0 .. MaxRedeliveries /\ MaxRedeliveries \in Nat
        /\ MaxPackets \in Nat /\ MaxCommands \in Nat
        /\ MaxCommands * (MaxRedeliveries + 1) <= MaxPackets
    BY TableAssumption, DeliveryAssumption DEF DInv, IInv, TableTypeOK, DeliveryTypeOK
  <2>4. k * (MaxRedeliveries + 1) + MaxRedeliveries + 1 <= MaxCommands * (MaxRedeliveries + 1)
    BY <2>2, <2>3, Products
  <2>5. PICK n \in Nat, m \in Nat : /\ n = k * (MaxRedeliveries + 1)
                                   /\ m = MaxCommands * (MaxRedeliveries + 1)
    BY <2>2, <2>3, Products
  <2>6. ~Added
    BY DEF Added, AwaitsAck
  <2>7. created <= n + redelivered
    BY <2>2, <2>3, <2>5, <2>6 DEF Spent
  <2> QED
    BY <2>3, <2>4, <2>5, <2>7
<1>3. DInv /\ Spent /\ [Next]_vars => Spent'
  BY NextSpent
<1> QED
  BY <1>1, <1>2, <1>3, DeliveryCorrect, PTL DEF Spec

=============================================================================
