------------------------------ MODULE AckTable ------------------------------
(***************************************************************************)
(* NettyServerHandler: the table of commands that were written to a device *)
(* and whose acknowledgement has not come back.                            *)
(*                                                                         *)
(* msgMapSet maps a serial number to a HashSet of packets.  The map is a   *)
(* ConcurrentHashMap, so each of its calls is atomic, but the methods of   *)
(* NettyServerHandler make several of them in a row and the HashSets are   *)
(* not synchronised at all.  Two kinds of thread enter the table:          *)
(*   - the JMS listener (one thread) adds a packet with AddToMapSet and    *)
(*     asks with DeleteSetForAck(.., false) whether it is still there;     *)
(*   - the executor's threads (Workers) take a packet out with             *)
(*     DeleteSetForAck(.., true), one call per ack frame.                  *)
(* Every action below is one access to shared memory.                      *)
(***************************************************************************)
EXTENDS Naturals

CONSTANTS
  Sn,          (* serial numbers                                           *)
  Cmd,         (* command codes that a device acknowledges                 *)
  Listener,    (* the thread of ActiveMqReceiver.Listener                  *)
  Workers,     (* threads of the cached pool that handle acks              *)
  MaxPackets   (* bound: packets created in one life of the server         *)

ASSUME TableAssumption ==
  /\ Sn # {} /\ Cmd # {}
  /\ Listener \notin Workers
  /\ MaxPackets \in Nat

VARIABLES
  msgMapSet,   (* serial number -> the set it is mapped to, or NoSet       *)
  msgSet,      (* the contents of every HashSet ever created               *)
  created,     (* number of packets created so far                         *)
  call         (* the call each thread has in progress                     *)

tableVars == <<msgMapSet, msgSet, created, call>>

Threads  == Workers \cup {Listener}
PacketId == 1 .. MaxPackets

(***************************************************************************)
(* A HashSet is named after the packet it was created for, as Msgpacket    *)
(* has no equals: two packets with the same fields are different elements. *)
(***************************************************************************)
NoSet  == 0
SetRef == 0 .. MaxPackets
Packet == [id : PacketId, clientNum : Sn, cmd : Cmd]

(***************************************************************************)
(* A thread's call: where it stands, its arguments (id is the packet of an *)
(* AddToMapSet, 0 for DeleteSetForAck), the set the local variable msgSet  *)
(* holds, and whether the iterator it walks is still valid.  The last four *)
(* values of pc are the ways a call ends.                                  *)
(***************************************************************************)
AddPc    == {"addContains", "addGet", "addInsert"}
DeletePc == {"delContains", "delGet", "iterate", "scan", "size", "unmap"}
Returned == {"void", "true", "false", "threw"}
Arg      == [id : SetRef, clientNum : Sn, cmd : Cmd]
Call     == [pc : {"idle"} \cup AddPc \cup DeletePc \cup Returned,
             arg : Arg, set : SetRef, valid : BOOLEAN]

NoArg  == [id |-> 0, clientNum |-> CHOOSE s \in Sn : TRUE, cmd |-> CHOOSE c \in Cmd : TRUE]
NoCall == [pc |-> "idle", arg |-> NoArg, set |-> NoSet, valid |-> FALSE]

TableInit ==
  /\ msgMapSet = [s \in Sn |-> NoSet]
  /\ msgSet = [r \in PacketId |-> {}]
  /\ created = 0
  /\ call = [t \in Threads |-> NoCall]

At(t, pc)  == call[t].pc = pc
Serial(t)  == call[t].arg.clientNum
Ref(t)     == call[t].set
Goto(t, pc) == call' = [call EXCEPT ![t].pc = pc]
Return(t, how) == call' = [call EXCEPT ![t] = [NoCall EXCEPT !.pc = how]]

(***************************************************************************)
(* An add or remove on set r invalidates the iterators other threads have  *)
(* on it (HashMap's modCount).                                             *)
(***************************************************************************)
Invalidate(r, calls) ==
  [u \in Threads |-> IF calls[u].pc = "scan" /\ calls[u].set = r
                     THEN [calls[u] EXCEPT !.valid = FALSE]
                     ELSE calls[u]]

(***************************************************************************)
(* AddToMapSet.                                                            *)
(***************************************************************************)
StartAdd(t, s, c) ==
  /\ At(t, "idle")
  /\ created < MaxPackets
  /\ created' = created + 1
  /\ call' = [call EXCEPT ![t].pc = "addContains",
                          ![t].arg = [id |-> created + 1, clientNum |-> s, cmd |-> c]]
  /\ UNCHANGED <<msgMapSet, msgSet>>

(* Mutant of AddFirst: the set is put under the command instead of the     *)
(* serial number.                                                          *)
AddFirstWrongKey(t) ==
  /\ At(t, "addContains")
  /\ msgMapSet[Serial(t)] = NoSet
  /\ msgSet' = [msgSet EXCEPT ![call[t].arg.id] = {call[t].arg}]
  /\ msgMapSet' = [k \in Sn \cup {call[t].arg.cmd} |->
                     IF k \in Sn THEN msgMapSet[k] ELSE call[t].arg.id]
  /\ Return(t, "void")
  /\ UNCHANGED created

(* containsKey says no: a new HashSet with the packet is put.  Only the    *)
(* listener ever puts, so the two accesses are one step here.              *)
AddFirst(t) ==
  /\ At(t, "addContains")
  /\ msgMapSet[Serial(t)] = NoSet
  /\ msgSet' = [msgSet EXCEPT ![call[t].arg.id] = {call[t].arg}]
  /\ msgMapSet' = [msgMapSet EXCEPT ![Serial(t)] = call[t].arg.id]
  /\ Return(t, "void")
  /\ UNCHANGED created

AddFound(t) ==
  /\ At(t, "addContains")
  /\ msgMapSet[Serial(t)] # NoSet
  /\ Goto(t, "addGet")
  /\ UNCHANGED <<msgMapSet, msgSet, created>>

AddGet(t) ==
  /\ At(t, "addGet")
  /\ call' = [call EXCEPT ![t].pc = "addInsert", ![t].set = msgMapSet[Serial(t)]]
  /\ UNCHANGED <<msgMapSet, msgSet, created>>

(* get returned null: msgSet.add throws. *)
AddNull(t) ==
  /\ At(t, "addInsert")
  /\ Ref(t) = NoSet
  /\ Return(t, "threw")
  /\ UNCHANGED <<msgMapSet, msgSet, created>>

AddInsert(t) ==
  /\ At(t, "addInsert")
  /\ Ref(t) # NoSet
  /\ msgSet' = [msgSet EXCEPT ![Ref(t)] = @ \cup {call[t].arg}]
  /\ call' = [Invalidate(Ref(t), call) EXCEPT ![t] = [NoCall EXCEPT !.pc = "void"]]
  /\ UNCHANGED <<msgMapSet, created>>

(***************************************************************************)
(* DeleteSetForAck.  isReceived is true exactly in the calls of Workers.   *)
(***************************************************************************)
StartDelete(t, s, c) ==
  /\ At(t, "idle")
  /\ call' = [call EXCEPT ![t].pc = "delContains",
                          ![t].arg = [id |-> 0, clientNum |-> s, cmd |-> c]]
  /\ UNCHANGED <<msgMapSet, msgSet, created>>

DelContains(t) ==
  /\ At(t, "delContains")
  /\ IF msgMapSet[Serial(t)] = NoSet THEN Return(t, "false") ELSE Goto(t, "delGet")
  /\ UNCHANGED <<msgMapSet, msgSet, created>>

(* A null set skips the loop and throws at msgSet.size(). *)
DelGet(t) ==
  /\ At(t, "delGet")
  /\ IF msgMapSet[Serial(t)] = NoSet
     THEN Return(t, "threw")
     ELSE call' = [call EXCEPT ![t].pc = "iterate", ![t].set = msgMapSet[Serial(t)]]
  /\ UNCHANGED <<msgMapSet, msgSet, created>>

DelIterate(t) ==
  /\ At(t, "iterate")
  /\ IF msgSet[Ref(t)] = {}
     THEN Goto(t, "size")
     ELSE call' = [call EXCEPT ![t].pc = "scan", ![t].valid = TRUE]
  /\ UNCHANGED <<msgMapSet, msgSet, created>>

(* Mutant of Matching: the command of the packet is not compared.          *)
MatchingAnyCommand(t) == {p \in msgSet[Ref(t)] : p.clientNum = Serial(t)}

Matching(t) ==
  {p \in msgSet[Ref(t)] : p.clientNum = Serial(t) /\ p.cmd = call[t].arg.cmd}

(* next() notices that the set changed under the iterator. *)
ScanThrows(t) ==
  /\ At(t, "scan")
  /\ ~call[t].valid
  /\ Return(t, "threw")
  /\ UNCHANGED <<msgMapSet, msgSet, created>>

ScanMisses(t) ==
  /\ At(t, "scan")
  /\ Matching(t) = {}
  /\ Goto(t, "size")
  /\ UNCHANGED <<msgMapSet, msgSet, created>>

(* isReceived = false: the packet is still waiting. *)
ScanFinds(t) ==
  /\ At(t, "scan")
  /\ t = Listener
  /\ Matching(t) # {}
  /\ Return(t, "true")
  /\ UNCHANGED <<msgMapSet, msgSet, created>>

(* isReceived = true: the first matching packet of the HashSet's order,    *)
(* which is the order of identity hash codes, is removed.                  *)
ScanRemoves(t) ==
  /\ At(t, "scan")
  /\ t \in Workers
  /\ \E p \in Matching(t) : msgSet' = [msgSet EXCEPT ![Ref(t)] = @ \ {p}]
  /\ call' = [Invalidate(Ref(t), call) EXCEPT ![t].pc = "size"]
  /\ UNCHANGED <<msgMapSet, created>>

(* Mutant of DelSize: the key is never removed. *)
DelSizeKeepsKey(t) ==
  /\ At(t, "size")
  /\ Return(t, "false")
  /\ UNCHANGED <<msgMapSet, msgSet, created>>

(* Mutant of DelSize: the key is removed whatever the size. *)
DelSizeUntested(t) ==
  /\ At(t, "size")
  /\ Goto(t, "unmap")
  /\ UNCHANGED <<msgMapSet, msgSet, created>>

DelSize(t) ==
  /\ At(t, "size")
  /\ IF msgSet[Ref(t)] = {} THEN Goto(t, "unmap") ELSE Return(t, "false")
  /\ UNCHANGED <<msgMapSet, msgSet, created>>

DelUnmap(t) ==
  /\ At(t, "unmap")
  /\ msgMapSet' = [msgMapSet EXCEPT ![Serial(t)] = NoSet]
  /\ Return(t, "false")
  /\ UNCHANGED <<msgSet, created>>

(* The caller takes the result. *)
Take(t) ==
  /\ call[t].pc \in Returned
  /\ call' = [call EXCEPT ![t] = NoCall]
  /\ UNCHANGED <<msgMapSet, msgSet, created>>

AddStep(t) ==
  AddFirst(t) \/ AddFound(t) \/ AddGet(t) \/ AddNull(t) \/ AddInsert(t)

DeleteStep(t) ==
  \/ DelContains(t) \/ DelGet(t) \/ DelIterate(t)
  \/ ScanThrows(t) \/ ScanMisses(t) \/ ScanFinds(t) \/ ScanRemoves(t)
  \/ DelSize(t) \/ DelUnmap(t)

(***************************************************************************)
(* The table on its own, with every call the two kinds of thread may make. *)
(***************************************************************************)
TableNext ==
  \/ \E s \in Sn, c \in Cmd : StartAdd(Listener, s, c)
  \/ \E t \in Threads, s \in Sn, c \in Cmd : StartDelete(t, s, c)
  \/ \E t \in Threads : AddStep(t) \/ DeleteStep(t) \/ Take(t)

TableSpec == TableInit /\ [][TableNext]_tableVars

-----------------------------------------------------------------------------

(* The variables keep their types: the frame of every thread is a call     *)
(* record, every set holds packets.                                        *)
TableTypeOK ==
  /\ msgMapSet \in [Sn -> SetRef]
  /\ msgSet \in [PacketId -> SUBSET Packet]
  /\ created \in 0 .. MaxPackets
  /\ call \in [Threads -> Call]

(* The packets DeleteSetForAck can reach for a serial number. *)
Pending(s) == IF msgMapSet[s] = NoSet THEN {} ELSE msgSet[msgMapSet[s]]

(* The key of a device whose last packet was acknowledged does not stay    *)
(* in the map: an empty mapped set is always about to be unmapped by the   *)
(* ack that emptied it (or by a call that found it empty).                 *)
NoEmptySetStays ==
  \A s \in Sn : msgMapSet[s] # NoSet /\ Pending(s) = {} =>
    \E t \in Threads : Ref(t) = msgMapSet[s] /\ call[t].pc \in {"size", "unmap"}

(* What the listener's own call may do at line 128: it never takes a       *)
(* packet that waits for its ack out of reach, whatever acks run between   *)
(* its size test and its remove.                                           *)
CheckNeverDropsPending ==
  At(Listener, "unmap") => Pending(Serial(Listener)) = {}

(* A packet becomes unreachable only by an ack of the same device: never   *)
(* by the listener's add or check, and never by an ack of another device.  *)
(* An ack that finds packets takes out exactly one, of the command it      *)
(* acknowledges; only the unmapping of line 128 may take more.             *)
OnlyOwnAcksSettle ==
  [][\A s \in Sn : ~(Pending(s) \subseteq Pending(s)') =>
       \E w \in Workers :
         /\ Serial(w) = s /\ call'[w] # call[w]
         /\ \/ At(w, "unmap")
            \/ /\ At(w, "scan")
               /\ \E p \in Pending(s) : /\ p.clientNum = s /\ p.cmd = call[w].arg.cmd
                                       /\ Pending(s)' = Pending(s) \ {p}]_tableVars

=============================================================================
