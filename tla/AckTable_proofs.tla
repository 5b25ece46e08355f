--------------------------- MODULE AckTable_proofs ---------------------------
(***************************************************************************)
(* What TLAPS proves of AckTable, for every number of devices, commands,   *)
(* ack threads and packets.                                                *)
(***************************************************************************)
EXTENDS AckTable, TLAPS

(***************************************************************************)
(* The inductive invariant.  References never run ahead of created, and    *)
(* the name of the packet the listener is about to add is in nobody's use. *)
(***************************************************************************)
Bound == {"addInsert", "iterate", "scan", "size", "unmap"}

Refs ==
  /\ \A s \in Sn : msgMapSet[s] <= created
  /\ \A t \in Threads : call[t].set <= created
  /\ \A t \in Threads : call[t].set # NoSet => call[t].pc \in Bound
  /\ \A t \in Threads : call[t].pc \in Bound \ {"addInsert"} => call[t].set # NoSet

(* Only the listener adds. *)
OneAdder == \A w \in Workers : call[w].pc \notin AddPc

FreshName ==
  call[Listener].pc \in AddPc =>
    /\ call[Listener].arg.id = created /\ created # 0
    /\ \A s \in Sn : msgMapSet[s] # created
    /\ \A t \in Threads : call[t].set # created

(* A set is mapped under one key at most, and a thread that holds a mapped *)
(* set works for the device it is mapped under.                            *)
OneKey ==
  \A r, s \in Sn : msgMapSet[r] = msgMapSet[s] /\ msgMapSet[r] # NoSet => r = s

OwnSet ==
  \A t \in Threads, s \in Sn :
    msgMapSet[s] = call[t].set /\ msgMapSet[s] # NoSet => call[t].arg.clientNum = s

(* No one but the listener puts: the set its check holds is the mapped one *)
(* as long as there is one.                                                *)
CheckHolds ==
  /\ call[Listener].pc \in {"iterate", "scan", "size", "unmap"} =>
       msgMapSet[Serial(Listener)] \in {NoSet, Ref(Listener)}
  /\ call[Listener].pc = "unmap" => msgSet[Ref(Listener)] = {}

IInv ==
  TableTypeOK /\ Refs /\ OneAdder /\ FreshName /\ OneKey /\ OwnSet /\ CheckHolds
    /\ NoEmptySetStays

(***************************************************************************)
(* Most steps change nothing but the frame of their own thread t, to k.    *)
(* This is what such a step must respect.                                  *)
(***************************************************************************)
Private(t, k) ==
  /\ k \in Call
  /\ call' = [call EXCEPT ![t] = k]
  /\ UNCHANGED <<msgMapSet, msgSet, created>>
  /\ k.pc \in AddPc => t = Listener /\ call[t].pc \in AddPc /\ k.arg = call[t].arg
  /\ k.set # NoSet => k.pc \in Bound /\ k.arg.clientNum = Serial(t)
  /\ k.pc \in Bound \ {"addInsert"} => k.set # NoSet
  /\ \/ k.set = msgMapSet[Serial(t)]
     \/ k.set = NoSet
     \/ k.set = Ref(t) /\ (k.pc \in Bound \ {"addInsert"} => call[t].pc \in Bound \ {"addInsert"})
  /\ k.pc = "unmap" => msgSet[k.set] = {}
  /\ call[t].pc \in {"size", "unmap"} /\ msgSet[Ref(t)] = {} =>
       k.pc \in {"size", "unmap"} /\ k.set = Ref(t)

-----------------------------------------------------------------------------

LEMMA NoArgType == NoArg \in Arg /\ NoCall \in Call
<1>1. NoArg \in Arg
  BY TableAssumption DEF NoArg, Arg, SetRef
<1>2. QED
  BY <1>1, TableAssumption DEF NoCall, Call, NoSet, SetRef

(* The initial state satisfies the invariant. *)
LEMMA InitIInv == TableInit => IInv
<1> SUFFICES ASSUME TableInit PROVE IInv
  OBVIOUS
<1> USE NoArgType, TableAssumption
<1>1. TableTypeOK
  BY DEF TableInit, TableTypeOK, NoSet, SetRef, PacketId, Packet
<1>2. Refs /\ OneAdder /\ FreshName
  BY DEF TableInit, Refs, OneAdder, FreshName, NoCall, NoSet, AddPc, Bound, Threads
<1>3. OneKey /\ OwnSet /\ CheckHolds /\ NoEmptySetStays
  BY DEF TableInit, OneKey, OwnSet, CheckHolds, NoEmptySetStays, NoCall, NoSet, Threads
<1>4. QED
  BY <1>1, <1>2, <1>3 DEF IInv

(* A private step keeps the invariant. *)
LEMMA PrivateIInv ==
  ASSUME IInv, NEW t \in Threads, NEW k, Private(t, k)
  PROVE  IInv'
<1>0. /\ call'[t] = k /\ \A u \in Threads \ {t} : call'[u] = call[u]
      /\ Serial(t) \in Sn /\ k.set \in SetRef /\ k.arg.clientNum \in Sn
      /\ msgMapSet[Serial(t)] \in SetRef /\ Ref(t) \in SetRef
  BY DEF IInv, TableTypeOK, Private, Serial, Ref, Call, Arg
<1>1. TableTypeOK'
  BY DEF IInv, TableTypeOK, Private
<1>2. Refs' /\ OneAdder'
  BY <1>0, TableAssumption
  DEF IInv, TableTypeOK, Private, Refs, OneAdder, Serial, Ref, Bound, AddPc, NoSet, Threads, SetRef
<1>3. FreshName'
  BY <1>0, TableAssumption DEF IInv, TableTypeOK, Private, FreshName, Serial, Ref, NoSet, Threads
<1>4. OneKey' /\ OwnSet'
  BY <1>0 DEF IInv, Private, OneKey, OwnSet, Serial, Ref, NoSet
<1>5. CheckHolds'
  BY <1>0 DEF IInv, Private, CheckHolds, OwnSet, Serial, Ref, Bound, NoSet, Threads
<1>6. NoEmptySetStays'
  BY <1>0 DEF IInv, Private, NoEmptySetStays, Pending, Ref
<1>7. QED
  BY <1>1, <1>2, <1>3, <1>4, <1>5, <1>6 DEF IInv

(* Calls begin with the frame as it was and end with NoCall's; the frame's *)
(* fields are what the next lemmas need of it.                             *)
LEMMA Frame ==
  ASSUME IInv, NEW t \in Threads
  PROVE  /\ call[t] \in Call /\ Serial(t) \in Sn /\ Ref(t) \in SetRef
         /\ msgMapSet[Serial(t)] \in SetRef
         /\ Ref(t) # NoSet => call[t].pc \in Bound
         /\ call[t].pc \in Bound \ {"addInsert"} => Ref(t) # NoSet
         /\ Ref(t) # NoSet /\ msgMapSet[Serial(t)] # NoSet => Ref(t) \in PacketId
BY TableAssumption DEF IInv, TableTypeOK, Refs, Serial, Ref, Call, Arg, SetRef, NoSet, PacketId

(* A call that returns leaves nothing behind in the frame. *)
LEMMA ReturnIInv ==
  ASSUME IInv, NEW t \in Threads, NEW how \in Returned \cup {"idle"},
         call' = [call EXCEPT ![t] = [NoCall EXCEPT !.pc = how]],
         UNCHANGED <<msgMapSet, msgSet, created>>,
         ~(call[t].pc \in {"size", "unmap"} /\ msgSet[Ref(t)] = {})
  PROVE  IInv'
<1> DEFINE k == [NoCall EXCEPT !.pc = how]
<1>1. k.pc = how /\ k.set = NoSet /\ k \in Call
  BY NoArgType DEF NoCall, Call, Returned
<1>2. Private(t, k)
  BY <1>1 DEF Private, Returned, AddPc, Bound
<1>3. QED
  BY <1>2, PrivateIInv

(* A call that goes on without touching the set it holds. *)
LEMMA GotoIInv ==
  ASSUME IInv, NEW t \in Threads, NEW pc \in AddPc \cup DeletePc, Goto(t, pc),
         UNCHANGED <<msgMapSet, msgSet, created>>,
         pc \in AddPc => call[t].pc \in AddPc,
         Ref(t) # NoSet => pc \in Bound,
         pc \in Bound => call[t].pc \in Bound \ {"addInsert"},
         pc = "unmap" => msgSet[Ref(t)] = {},
         call[t].pc \in {"size", "unmap"} /\ msgSet[Ref(t)] = {} => pc \in {"size", "unmap"}
  PROVE  IInv'
<1> DEFINE k == [call[t] EXCEPT !.pc = pc]
<1>1. call[t] \in Call /\ (call[t].pc \in Bound \ {"addInsert"} => Ref(t) # NoSet)
  BY Frame
<1>2. k.pc = pc /\ k.set = Ref(t) /\ k.arg = call[t].arg /\ k \in Call
  BY <1>1 DEF Call, Ref
<1>3. call[t].pc \in AddPc => t = Listener
  BY DEF IInv, OneAdder, Threads
<1>4. Private(t, k)
  BY <1>1, <1>2, <1>3 DEF Private, Goto, Serial
<1>5. QED
  BY <1>4, PrivateIInv

-----------------------------------------------------------------------------
(* The steps of AddToMapSet.                                               *)

LEMMA StartAddIInv ==
  ASSUME IInv, NEW s \in Sn, NEW c \in Cmd, StartAdd(Listener, s, c)
  PROVE  IInv'
<1> DEFINE k == [call[Listener] EXCEPT !.pc = "addContains",
                                       !.arg = [id |-> created + 1, clientNum |-> s, cmd |-> c]]
<1>1. /\ Listener \in Threads /\ call[Listener] \in Call /\ call[Listener].pc = "idle"
      /\ created \in Nat /\ created + 1 \in 1 .. MaxPackets
  BY TableAssumption DEF IInv, TableTypeOK, StartAdd, At, Threads
<1>2. Ref(Listener) = NoSet
  BY <1>1, Frame DEF Bound
<1>3. /\ k.pc = "addContains" /\ k.set = NoSet /\ k \in Call
      /\ k.arg = [id |-> created + 1, clientNum |-> s, cmd |-> c]
  <2>1. [id |-> created + 1, clientNum |-> s, cmd |-> c] \in Arg
    BY <1>1, TableAssumption DEF Arg, SetRef
  <2>2. QED
    BY <1>1, <1>2, <2>1 DEF Call, Ref, AddPc
<1>4. /\ call'[Listener] = k /\ \A u \in Threads \ {Listener} : call'[u] = call[u]
      /\ created' = created + 1 /\ UNCHANGED <<msgMapSet, msgSet>>
  BY <1>1 DEF IInv, TableTypeOK, StartAdd
<1>5. TableTypeOK'
  BY <1>1, <1>3, <1>4 DEF IInv, TableTypeOK, StartAdd
<1> HIDE DEF k
<1>6. \A u \in Threads : call'[u].set = call[u].set /\ call[u].set \in SetRef
  BY <1>2, <1>3, <1>4 DEF IInv, TableTypeOK, Call, Ref
<1>7. Refs' /\ OneAdder' /\ FreshName'
  <2>1. Refs'
    BY <1>1, <1>3, <1>4, <1>6 DEF IInv, TableTypeOK, Refs, SetRef, Bound, NoSet
  <2>2. OneAdder'
    BY <1>3, <1>4, TableAssumption DEF IInv, OneAdder, Threads
  <2>3. FreshName'
    BY <1>1, <1>3, <1>4, <1>6, TableAssumption DEF IInv, TableTypeOK, Refs, FreshName, SetRef
  <2>4. QED
    BY <2>1, <2>2, <2>3
<1>8. OneKey' /\ OwnSet' /\ CheckHolds'
  BY <1>3, <1>4, <1>6 DEF IInv, OneKey, OwnSet, CheckHolds, NoSet
<1>9. NoEmptySetStays'
  BY <1>1, <1>4 DEF IInv, NoEmptySetStays, Pending, Ref
<1>10. QED
  BY <1>5, <1>7, <1>8, <1>9 DEF IInv

LEMMA AddFirstIInv ==
  ASSUME IInv, NEW t \in Threads, AddFirst(t)
  PROVE  IInv'
<1> DEFINE k == [NoCall EXCEPT !.pc = "void"]
           p == call[t].arg
<1>1. t = Listener /\ call[t].pc = "addContains"
  BY DEF IInv, OneAdder, AddFirst, At, Threads, AddPc
<1>2. k.pc = "void" /\ k.set = NoSet /\ k \in Call
  BY NoArgType DEF NoCall, Call, Returned
<1>3. /\ p.id = created /\ created # 0 /\ created \in PacketId /\ p \in Packet
      /\ Serial(t) = p.clientNum /\ Serial(t) \in Sn
      /\ \A s \in Sn : msgMapSet[s] # created
      /\ \A u \in Threads : call[u].set # created
  BY <1>1, Frame, TableAssumption
  DEF IInv, TableTypeOK, FreshName, Call, Arg, Packet, PacketId, Serial, AddPc
<1>4. /\ call'[t] = k /\ \A u \in Threads \ {t} : call'[u] = call[u]
      /\ msgMapSet'[Serial(t)] = created
      /\ \A s \in Sn \ {Serial(t)} : msgMapSet'[s] = msgMapSet[s]
      /\ msgSet'[created] = {p}
      /\ \A r \in PacketId \ {created} : msgSet'[r] = msgSet[r]
      /\ created' = created
  BY <1>3 DEF IInv, TableTypeOK, AddFirst, Return
<1>5. TableTypeOK'
  BY <1>2, <1>3 DEF IInv, TableTypeOK, AddFirst, Return, SetRef, PacketId
<1> HIDE DEF k
<1>6. Refs' /\ OneAdder' /\ FreshName'
  <2>1. Refs'
    BY <1>2, <1>3, <1>4, TableAssumption DEF IInv, TableTypeOK, Refs, NoSet, Bound, PacketId
  <2>2. OneAdder' /\ FreshName'
    BY <1>1, <1>2, <1>4, TableAssumption DEF IInv, OneAdder, FreshName, AddPc, Threads
  <2>3. QED
    BY <2>1, <2>2
<1>7. OneKey' /\ OwnSet' /\ CheckHolds'
  BY <1>1, <1>2, <1>3, <1>4 DEF IInv, OneKey, OwnSet, CheckHolds, NoSet, Threads
<1>8. NoEmptySetStays'
  <2> SUFFICES ASSUME NEW s \in Sn, msgMapSet'[s] # NoSet, Pending(s)' = {}
               PROVE  \E u \in Threads : Ref(u)' = msgMapSet'[s] /\ call'[u].pc \in {"size", "unmap"}
    BY DEF NoEmptySetStays
  <2>1. s # Serial(t)
    BY <1>3, <1>4 DEF Pending
  <2>2. msgMapSet'[s] = msgMapSet[s] /\ msgMapSet[s] \in PacketId \ {created}
    BY <2>1, <1>3, <1>4 DEF IInv, TableTypeOK, SetRef, NoSet, PacketId
  <2>3. Pending(s) = {}
    BY <2>2, <1>4 DEF Pending
  <2>4. QED
    BY <2>2, <2>3, <1>1, <1>4 DEF IInv, NoEmptySetStays, Ref
<1>9. QED
  BY <1>5, <1>6, <1>7, <1>8 DEF IInv

LEMMA AddGetIInv ==
  ASSUME IInv, NEW t \in Threads, AddGet(t)
  PROVE  IInv'
<1> DEFINE k == [call[t] EXCEPT !.pc = "addInsert", !.set = msgMapSet[Serial(t)]]
<1>1. call[t] \in Call /\ call[t].pc = "addGet" /\ t = Listener
      /\ msgMapSet[Serial(t)] \in SetRef
  BY Frame DEF IInv, OneAdder, AddGet, At, Threads, AddPc
<1>2. /\ k.pc = "addInsert" /\ k.set = msgMapSet[Serial(t)] /\ k.arg = call[t].arg
      /\ k \in Call
  BY <1>1 DEF Call, AddPc
<1>3. Private(t, k)
  BY <1>1, <1>2 DEF Private, AddGet, Serial, AddPc, Bound
<1>4. QED
  BY <1>3, PrivateIInv

(* Other threads lose their iterators and nothing else. *)
LEMMA Invalidated ==
  ASSUME IInv, NEW r, NEW u \in Threads
  PROVE  /\ Invalidate(r, call)[u] \in Call
         /\ Invalidate(r, call)[u].pc = call[u].pc
         /\ Invalidate(r, call)[u].set = call[u].set
         /\ Invalidate(r, call)[u].arg = call[u].arg
BY DEF IInv, TableTypeOK, Invalidate, Call

LEMMA AddInsertIInv ==
  ASSUME IInv, NEW t \in Threads, AddInsert(t)
  PROVE  IInv'
<1> DEFINE k == [NoCall EXCEPT !.pc = "void"]
           p == call[t].arg
           r == Ref(t)
<1>1. t = Listener /\ call[t].pc = "addInsert"
  BY DEF IInv, OneAdder, AddInsert, At, Threads, AddPc
<1>2. k.pc = "void" /\ k.set = NoSet /\ k \in Call
  BY NoArgType DEF NoCall, Call, Returned
<1>3. r \in PacketId /\ p \in Packet
  BY <1>1, Frame, TableAssumption
  DEF IInv, TableTypeOK, FreshName, AddInsert, Call, Arg, Packet, PacketId, AddPc, SetRef, NoSet
<1>4. /\ call' \in [Threads -> Call] /\ call'[t] = k
      /\ \A u \in Threads \ {t} : /\ call'[u].pc = call[u].pc /\ call'[u].set = call[u].set
                                  /\ call'[u].arg = call[u].arg
      /\ \A q \in PacketId : msgSet[q] \subseteq msgSet'[q]
      /\ UNCHANGED <<msgMapSet, created>>
  BY <1>2, <1>3, Invalidated DEF IInv, TableTypeOK, AddInsert, Invalidate
<1>5. TableTypeOK'
  BY <1>3, <1>4 DEF IInv, TableTypeOK, AddInsert
<1> HIDE DEF k
<1>6. Refs' /\ OneAdder' /\ FreshName'
  <2>1. Refs'
    BY <1>2, <1>4 DEF IInv, TableTypeOK, Refs, NoSet, Bound
  <2>2. OneAdder' /\ FreshName'
    BY <1>1, <1>2, <1>4, TableAssumption DEF IInv, OneAdder, FreshName, AddPc, Threads
  <2>3. QED
    BY <2>1, <2>2
<1>7. OneKey' /\ OwnSet' /\ CheckHolds'
  BY <1>1, <1>2, <1>4 DEF IInv, OneKey, OwnSet, CheckHolds, NoSet
<1>8. \A s \in Sn : msgMapSet[s] # NoSet => Pending(s) \subseteq Pending(s)'
  BY <1>4 DEF IInv, TableTypeOK, Pending, SetRef, NoSet, PacketId
<1>9. NoEmptySetStays'
  BY <1>1, <1>4, <1>8 DEF IInv, NoEmptySetStays, Ref
<1>10. QED
  BY <1>5, <1>6, <1>7, <1>9 DEF IInv

(* AddToMapSet as a whole. *)
LEMMA AddIInv ==
  ASSUME IInv, NEW t \in Threads, AddStep(t)
  PROVE  IInv'
<1>1. CASE AddFirst(t)
  BY <1>1, AddFirstIInv
<1>2. CASE AddFound(t)
  <2>1. call[t].pc = "addContains" /\ Ref(t) = NoSet
    BY <1>2, Frame DEF AddFound, At, Bound
  <2>2. Goto(t, "addGet") /\ UNCHANGED <<msgMapSet, msgSet, created>>
    BY <1>2 DEF AddFound
  <2>3. QED
    BY <2>1, <2>2, GotoIInv DEF AddPc, Bound
<1>3. CASE AddGet(t)
  BY <1>3, AddGetIInv
<1>4. CASE AddNull(t)
  BY <1>4, ReturnIInv DEF AddNull, At, Return, Returned
<1>5. CASE AddInsert(t)
  BY <1>5, AddInsertIInv
<1>6. QED
  BY <1>1, <1>2, <1>3, <1>4, <1>5 DEF AddStep

-----------------------------------------------------------------------------
(* The steps of DeleteSetForAck.                                           *)

LEMMA StartDeleteIInv ==
  ASSUME IInv, NEW t \in Threads, NEW s \in Sn, NEW c \in Cmd, StartDelete(t, s, c)
  PROVE  IInv'
<1> DEFINE k == [call[t] EXCEPT !.pc = "delContains",
                                !.arg = [id |-> 0, clientNum |-> s, cmd |-> c]]
<1>1. call[t] \in Call /\ call[t].pc = "idle" /\ call[t].set = NoSet
  BY Frame DEF StartDelete, At, Bound, Ref
<1>2. [id |-> 0, clientNum |-> s, cmd |-> c] \in Arg
  BY TableAssumption DEF Arg, SetRef
<1>3. k.pc = "delContains" /\ k.set = NoSet /\ k \in Call
  BY <1>1, <1>2 DEF Call, DeletePc
<1>4. Private(t, k)
  BY <1>1, <1>3 DEF Private, StartDelete, AddPc, Bound
<1>5. QED
  BY <1>4, PrivateIInv

LEMMA DelGetIInv ==
  ASSUME IInv, NEW t \in Threads, DelGet(t)
  PROVE  IInv'
<1>1. CASE msgMapSet[Serial(t)] = NoSet
  BY <1>1, ReturnIInv DEF DelGet, At, Return, Returned
<1>2. CASE msgMapSet[Serial(t)] # NoSet
  <2> DEFINE k == [call[t] EXCEPT !.pc = "iterate", !.set = msgMapSet[Serial(t)]]
  <2>1. call[t] \in Call /\ call[t].pc = "delGet" /\ msgMapSet[Serial(t)] \in SetRef
    BY Frame DEF DelGet, At
  <2>2. /\ k.pc = "iterate" /\ k.set = msgMapSet[Serial(t)] /\ k.arg = call[t].arg
        /\ k \in Call
    BY <2>1 DEF Call, DeletePc
  <2>3. Private(t, k)
    BY <1>2, <2>1, <2>2 DEF Private, DelGet, Serial, AddPc, Bound
  <2>4. QED
    BY <2>3, PrivateIInv
<1>3. QED
  BY <1>1, <1>2

LEMMA DelIterateIInv ==
  ASSUME IInv, NEW t \in Threads, DelIterate(t)
  PROVE  IInv'
<1>1. call[t] \in Call /\ call[t].pc = "iterate" /\ Ref(t) # NoSet
  BY Frame DEF DelIterate, At, Bound
<1>2. CASE msgSet[Ref(t)] = {}
  BY <1>1, <1>2, GotoIInv DEF DelIterate, DeletePc, AddPc, Bound
<1>3. CASE msgSet[Ref(t)] # {}
  <2> DEFINE k == [call[t] EXCEPT !.pc = "scan", !.valid = TRUE]
  <2>1. k.pc = "scan" /\ k.set = Ref(t) /\ k.arg = call[t].arg /\ k \in Call
    BY <1>1 DEF Call, DeletePc, Ref
  <2>2. Private(t, k)
    BY <1>1, <1>3, <2>1 DEF Private, DelIterate, Serial, AddPc, Bound
  <2>3. QED
    BY <2>2, PrivateIInv
<1>4. QED
  BY <1>2, <1>3

(* An ack may empty the set that is mapped: its own thread is on its way   *)
(* to unmap it.                                                            *)
LEMMA ScanRemovesIInv ==
  ASSUME IInv, NEW t \in Threads, ScanRemoves(t)
  PROVE  IInv'
<1> DEFINE r == Ref(t)
<1>1. /\ t \in Workers /\ t # Listener /\ call[t].pc = "scan"
      /\ call[t] \in Call /\ r # NoSet /\ r \in SetRef
  BY Frame, TableAssumption DEF ScanRemoves, At, Bound
<1>2. PICK p \in Matching(t) : msgSet' = [msgSet EXCEPT ![r] = @ \ {p}]
  BY DEF ScanRemoves
<1>3. \A u \in Threads : /\ Invalidate(r, call)[u] \in Call
                         /\ Invalidate(r, call)[u].pc = call[u].pc
                         /\ Invalidate(r, call)[u].set = call[u].set
                         /\ Invalidate(r, call)[u].arg = call[u].arg
  BY Invalidated
<1>4. /\ call' \in [Threads -> Call] /\ call'[t].pc = "size"
      /\ \A u \in Threads : call'[u].set = call[u].set /\ call'[u].arg = call[u].arg
      /\ \A u \in Threads \ {t} : call'[u].pc = call[u].pc
      /\ UNCHANGED <<msgMapSet, created>>
  <2>1. /\ Invalidate(r, call) \in [Threads -> Call]
        /\ call' = [Invalidate(r, call) EXCEPT ![t].pc = "size"]
    BY <1>3 DEF ScanRemoves, Invalidate
  <2>2. QED
    BY <1>3, <2>1 DEF ScanRemoves, Call, DeletePc
<1>5. msgSet \in [PacketId -> SUBSET Packet] /\ r \in PacketId
  BY <1>1, TableAssumption DEF IInv, TableTypeOK, SetRef, NoSet, PacketId
<1>6. /\ msgSet' \in [PacketId -> SUBSET Packet]
      /\ \A q \in PacketId : msgSet'[q] \subseteq msgSet[q]
      /\ \A q \in PacketId \ {r} : msgSet'[q] = msgSet[q]
  BY <1>2, <1>5
<1>7. TableTypeOK'
  BY <1>4, <1>6 DEF IInv, TableTypeOK
<1>8. Refs' /\ OneAdder'
  BY <1>1, <1>4 DEF IInv, Refs, OneAdder, AddPc, NoSet, Bound, Threads
<1>9. FreshName' /\ OneKey' /\ OwnSet'
  BY <1>1, <1>4, TableAssumption DEF IInv, FreshName, OneKey, OwnSet, Threads
<1>10. CheckHolds'
  <2>1. call[Listener].pc = "unmap" => Ref(Listener) \in PacketId
    BY Frame, TableAssumption DEF Bound, Threads, SetRef, NoSet, PacketId
  <2>2. QED
    BY <1>1, <1>4, <1>6, <2>1, TableAssumption DEF IInv, CheckHolds, Serial, Ref, Threads
<1>11. NoEmptySetStays'
  <2> SUFFICES ASSUME NEW s \in Sn, msgMapSet[s] # NoSet, Pending(s)' = {}
               PROVE  \E u \in Threads : call'[u].set = msgMapSet[s] /\ call'[u].pc \in {"size", "unmap"}
    BY <1>4 DEF NoEmptySetStays, Ref
  <2>1. CASE msgMapSet[s] = r
    BY <2>1, <1>4 DEF Ref
  <2>2. CASE msgMapSet[s] # r
    <3>1. msgMapSet[s] \in PacketId
      BY DEF IInv, TableTypeOK, SetRef, NoSet, PacketId
    <3>2. Pending(s) = {}
      BY <3>1, <2>2, <1>4, <1>6 DEF Pending
    <3>3. QED
      BY <3>2, <1>1, <1>4 DEF IInv, NoEmptySetStays, Ref
  <2>3. QED
    BY <2>1, <2>2
<1>12. QED
  BY <1>7, <1>8, <1>9, <1>10, <1>11 DEF IInv

LEMMA DelUnmapIInv ==
  ASSUME IInv, NEW t \in Threads, DelUnmap(t)
  PROVE  IInv'
<1> DEFINE k == [NoCall EXCEPT !.pc = "false"]
<1>1. call[t].pc = "unmap" /\ Serial(t) \in Sn
  BY Frame DEF DelUnmap, At
<1>2. k.pc = "false" /\ k.set = NoSet /\ k \in Call
  BY NoArgType DEF NoCall, Call, Returned
<1>3. /\ call'[t] = k /\ \A u \in Threads \ {t} : call'[u] = call[u]
      /\ msgMapSet'[Serial(t)] = NoSet
      /\ \A s \in Sn \ {Serial(t)} : msgMapSet'[s] = msgMapSet[s]
      /\ UNCHANGED <<msgSet, created>>
  BY <1>1 DEF IInv, TableTypeOK, DelUnmap, Return
<1>4. TableTypeOK'
  BY <1>1, <1>2, TableAssumption DEF IInv, TableTypeOK, DelUnmap, Return, SetRef, NoSet
<1> HIDE DEF k
<1>5. Refs' /\ OneAdder'
  BY <1>2, <1>3, TableAssumption DEF IInv, TableTypeOK, Refs, OneAdder, Bound, AddPc, NoSet, Threads
<1>6. FreshName'
  BY <1>2, <1>3, TableAssumption DEF IInv, FreshName, AddPc, NoSet, Threads
<1>7. OneKey' /\ OwnSet'
  BY <1>2, <1>3 DEF IInv, OneKey, OwnSet, NoSet
<1>8. CheckHolds'
  <2>1. Listener \in Threads /\ Serial(Listener) \in Sn
    BY Frame DEF Threads
  <2>2. QED
    BY <1>2, <1>3, <2>1 DEF IInv, CheckHolds, Serial, Ref, NoSet
<1>9. NoEmptySetStays'
  <2> SUFFICES ASSUME NEW s \in Sn, msgMapSet'[s] # NoSet, Pending(s)' = {}
               PROVE  \E u \in Threads : call'[u].set = msgMapSet'[s] /\ call'[u].pc \in {"size", "unmap"}
    BY DEF NoEmptySetStays, Ref
  <2>1. s # Serial(t) /\ msgMapSet'[s] = msgMapSet[s] /\ Pending(s) = {}
    BY <1>3 DEF Pending
  <2>2. PICK u \in Threads : call[u].set = msgMapSet[s] /\ call[u].pc \in {"size", "unmap"}
    BY <2>1 DEF IInv, NoEmptySetStays, Ref
  <2>3. u # t
    BY <2>1, <2>2 DEF IInv, OwnSet, Serial
  <2>4. QED
    BY <2>1, <2>2, <2>3, <1>3
<1>10. QED
  BY <1>4, <1>5, <1>6, <1>7, <1>8, <1>9 DEF IInv

(* DeleteSetForAck as a whole. *)
LEMMA DeleteIInv ==
  ASSUME IInv, NEW t \in Threads, DeleteStep(t)
  PROVE  IInv'
<1>1. CASE DelContains(t)
  <2>1. call[t].pc = "delContains" /\ Ref(t) = NoSet
    BY <1>1, Frame DEF DelContains, At, Bound
  <2>2. CASE msgMapSet[Serial(t)] = NoSet
    BY <1>1, <2>1, <2>2, ReturnIInv DEF DelContains, Return, Returned
  <2>3. CASE msgMapSet[Serial(t)] # NoSet
    BY <1>1, <2>1, <2>3, GotoIInv DEF DelContains, DeletePc, AddPc, Bound
  <2>4. QED
    BY <2>2, <2>3
<1>2. CASE DelGet(t)
  BY <1>2, DelGetIInv
<1>3. CASE DelIterate(t)
  BY <1>3, DelIterateIInv
<1>4. CASE ScanThrows(t)
  BY <1>4, ReturnIInv DEF ScanThrows, At, Return, Returned
<1>5. CASE ScanMisses(t)
  BY <1>5, GotoIInv DEF ScanMisses, At, DeletePc, AddPc, Bound
<1>6. CASE ScanFinds(t)
  BY <1>6, ReturnIInv DEF ScanFinds, At, Return, Returned
<1>7. CASE ScanRemoves(t)
  BY <1>7, ScanRemovesIInv
<1>8. CASE DelSize(t)
  <2>1. CASE msgSet[Ref(t)] = {}
    BY <1>8, <2>1, GotoIInv DEF DelSize, At, DeletePc, AddPc, Bound
  <2>2. CASE msgSet[Ref(t)] # {}
    BY <1>8, <2>2, ReturnIInv DEF DelSize, At, Return, Returned
  <2>3. QED
    BY <2>1, <2>2
<1>9. CASE DelUnmap(t)
  BY <1>9, DelUnmapIInv
<1>10. QED
  BY <1>1, <1>2, <1>3, <1>4, <1>5, <1>6, <1>7, <1>8, <1>9 DEF DeleteStep

LEMMA TakeIInv ==
  ASSUME IInv, NEW t \in Threads, Take(t)
  PROVE  IInv'
<1>1. call' = [call EXCEPT ![t] = [NoCall EXCEPT !.pc = "idle"]]
  BY DEF Take, NoCall
<1>2. QED
  BY <1>1, ReturnIInv DEF Take, Returned

LEMMA StutterIInv == IInv /\ UNCHANGED tableVars => IInv'
BY DEF IInv, tableVars, TableTypeOK, Refs, OneAdder, FreshName, OneKey, OwnSet, CheckHolds,
       NoEmptySetStays, Pending, Serial, Ref

(* The invariant is inductive. *)
LEMMA NextIInv == IInv /\ [TableNext]_tableVars => IInv'
<1> SUFFICES ASSUME IInv, TableNext PROVE IInv'
  BY StutterIInv
<1>1. CASE \E s \in Sn, c \in Cmd : StartAdd(Listener, s, c)
  BY <1>1, StartAddIInv
<1>2. CASE \E t \in Threads, s \in Sn, c \in Cmd : StartDelete(t, s, c)
  BY <1>2, StartDeleteIInv
<1>3. CASE \E t \in Threads : AddStep(t) \/ DeleteStep(t) \/ Take(t)
  BY <1>3, AddIInv, DeleteIInv, TakeIInv
<1>4. QED
  BY <1>1, <1>2, <1>3 DEF TableNext

(* Every reachable state of the table satisfies the invariant. *)
THEOREM TableInvariant == TableSpec => []IInv
BY InitIInv, NextIInv, PTL DEF TableSpec

-----------------------------------------------------------------------------
(* What follows from it.                                                   *)

(* The variables of NettyServerHandler's table keep their types, whatever  *)
(* the number of threads that enter it at once.                            *)
THEOREM TableTypeCorrect == TableSpec => []TableTypeOK
<1>1. IInv => TableTypeOK
  BY DEF IInv
<1>2. QED
  BY <1>1, TableInvariant, PTL

(* The entry of a device whose last packet was acknowledged is always      *)
(* about to be removed (NettyServerHandler.DeleteSetForAck, line 127).     *)
THEOREM EmptySetsLeave == TableSpec => []NoEmptySetStays
<1>1. IInv => NoEmptySetStays
  BY DEF IInv
<1>2. QED
  BY <1>1, TableInvariant, PTL

(* The listener's own check never takes a packet that waits for its ack    *)
(* out of reach (DeleteSetForAck(.., false), line 128).                    *)
LEMMA CheckIsSafeHere == IInv => CheckNeverDropsPending
<1> SUFFICES ASSUME IInv, At(Listener, "unmap") PROVE Pending(Serial(Listener)) = {}
  BY DEF CheckNeverDropsPending
<1>1. /\ msgSet[Ref(Listener)] = {}
      /\ msgMapSet[Serial(Listener)] \in {NoSet, Ref(Listener)}
  BY DEF IInv, CheckHolds, At
<1>2. QED
  BY <1>1 DEF Pending

THEOREM CheckIsSafe == TableSpec => []CheckNeverDropsPending
BY CheckIsSafeHere, TableInvariant, PTL

(* The steps that may take a packet out of reach. *)
Settled(s) ==
  \E w \in Workers :
    /\ Serial(w) = s /\ call'[w] # call[w]
    /\ \/ At(w, "unmap")
       \/ /\ At(w, "scan")
          /\ \E p \in Pending(s) : /\ p.clientNum = s /\ p.cmd = call[w].arg.cmd
                                  /\ Pending(s)' = Pending(s) \ {p}

LEMMA QuietSettles ==
  ASSUME UNCHANGED <<msgMapSet, msgSet>>, NEW s \in Sn
  PROVE  Pending(s) \subseteq Pending(s)'
BY DEF Pending

LEMMA AddSettles ==
  ASSUME IInv, NEW t \in Threads, AddStep(t), NEW s \in Sn
  PROVE  Pending(s) \subseteq Pending(s)'
<1>1. CASE AddFirst(t)
  <2>1. /\ call[t].arg.id = created
        /\ msgMapSet[s] # created
    BY <1>1 DEF IInv, OneAdder, FreshName, AddFirst, At, Threads, AddPc
  <2>2. CASE msgMapSet[s] = NoSet
    BY <2>2 DEF Pending
  <2>3. CASE msgMapSet[s] # NoSet
    <3>1. msgMapSet[s] \in PacketId
      BY <2>3 DEF IInv, TableTypeOK, SetRef, NoSet, PacketId
    <3>2. msgMapSet'[s] = msgMapSet[s] /\ msgSet'[msgMapSet[s]] = msgSet[msgMapSet[s]]
      BY <1>1, <2>1, <2>3, <3>1 DEF IInv, TableTypeOK, AddFirst
    <3>3. QED
      BY <3>2 DEF Pending
  <2>4. QED
    BY <2>2, <2>3
<1>2. CASE AddInsert(t)
  <2>1. msgMapSet' = msgMapSet /\ \A q \in PacketId : msgSet[q] \subseteq msgSet'[q]
    BY <1>2 DEF IInv, TableTypeOK, AddInsert
  <2>2. msgMapSet[s] # NoSet => msgMapSet[s] \in PacketId
    BY DEF IInv, TableTypeOK, SetRef, NoSet, PacketId
  <2>3. QED
    BY <2>1, <2>2 DEF Pending
<1>3. CASE AddFound(t) \/ AddGet(t) \/ AddNull(t)
  BY <1>3, QuietSettles DEF AddFound, AddGet, AddNull
<1>4. QED
  BY <1>1, <1>2, <1>3 DEF AddStep

LEMMA ScanSettles ==
  ASSUME IInv, NEW t \in Threads, ScanRemoves(t), NEW s \in Sn
  PROVE  Pending(s) \subseteq Pending(s)' \/ Settled(s)
<1>1. /\ t \in Workers /\ call[t].pc = "scan" /\ Ref(t) # NoSet
      /\ call'[t] # call[t] /\ msgMapSet' = msgMapSet
  <2>1. Invalidate(Ref(t), call) \in [Threads -> Call]
    BY Invalidated DEF Invalidate
  <2>2. call'[t].pc = "size"
    BY <2>1 DEF ScanRemoves, Call
  <2>3. QED
    BY <2>2, Frame DEF ScanRemoves, At, Bound
<1>2. CASE msgMapSet[s] = Ref(t)
  <2>1. Serial(t) = s
    BY <1>1, <1>2 DEF IInv, OwnSet, Serial, Ref
  <2>2. Ref(t) \in PacketId /\ Pending(s) = msgSet[Ref(t)]
    BY <1>1, <1>2 DEF IInv, TableTypeOK, SetRef, NoSet, PacketId, Pending
  <2>3. PICK p \in Matching(t) : msgSet' = [msgSet EXCEPT ![Ref(t)] = @ \ {p}]
    BY DEF ScanRemoves
  <2>4. Pending(s)' = Pending(s) \ {p}
    BY <1>1, <1>2, <2>2, <2>3 DEF IInv, TableTypeOK, Pending
  <2>5. p \in Pending(s) /\ p.clientNum = s /\ p.cmd = call[t].arg.cmd
    BY <2>1, <2>2, <2>3 DEF Matching
  <2>6. QED
    BY <1>1, <2>1, <2>4, <2>5 DEF Settled, At
<1>3. CASE msgMapSet[s] # Ref(t)
  <2>1. msgMapSet[s] # NoSet => msgMapSet[s] \in PacketId
    BY DEF IInv, TableTypeOK, SetRef, NoSet, PacketId
  <2>2. msgMapSet[s] # NoSet => msgSet'[msgMapSet[s]] = msgSet[msgMapSet[s]]
    BY <1>3, <2>1 DEF IInv, TableTypeOK, ScanRemoves
  <2>3. QED
    BY <1>1, <2>2 DEF Pending
<1>4. QED
  BY <1>2, <1>3

LEMMA UnmapSettles ==
  ASSUME IInv, NEW t \in Threads, DelUnmap(t), NEW s \in Sn
  PROVE  Pending(s) \subseteq Pending(s)' \/ Settled(s)
<1>1. CASE s # Serial(t)
  <2>1. msgMapSet'[s] = msgMapSet[s] /\ msgSet' = msgSet
    BY <1>1 DEF IInv, TableTypeOK, DelUnmap
  <2>2. QED
    BY <2>1 DEF Pending
<1>2. CASE s = Serial(t) /\ t = Listener
  <2>1. Pending(s) = {}
    BY <1>2, CheckIsSafeHere DEF CheckNeverDropsPending, DelUnmap
  <2>2. QED
    BY <2>1
<1>3. CASE s = Serial(t) /\ t \in Workers
  <2>1. call[t].pc = "unmap" /\ call'[t].pc = "false"
    BY NoArgType DEF IInv, TableTypeOK, DelUnmap, At, Return, NoCall
  <2>2. QED
    BY <1>3, <2>1 DEF Settled, At
<1>4. QED
  BY <1>1, <1>2, <1>3 DEF Threads

LEMMA NextSettles ==
  ASSUME IInv, [TableNext]_tableVars, NEW s \in Sn
  PROVE  Pending(s) \subseteq Pending(s)' \/ Settled(s)
<1>1. CASE UNCHANGED tableVars
  BY <1>1, QuietSettles DEF tableVars
<1>2. CASE \E r \in Sn, c \in Cmd : StartAdd(Listener, r, c)
  BY <1>2, QuietSettles DEF StartAdd
<1>3. CASE \E t \in Threads, r \in Sn, c \in Cmd : StartDelete(t, r, c)
  BY <1>3, QuietSettles DEF StartDelete
<1>4. ASSUME NEW t \in Threads, AddStep(t) \/ DeleteStep(t) \/ Take(t)
      PROVE  Pending(s) \subseteq Pending(s)' \/ Settled(s)
  <2>1. CASE AddStep(t)
    BY <2>1, AddSettles
  <2>2. CASE ScanRemoves(t)
    BY <2>2, ScanSettles
  <2>3. CASE DelUnmap(t)
    BY <2>3, UnmapSettles
  <2>4. CASE \/ DelContains(t) \/ DelGet(t) \/ DelIterate(t) \/ ScanThrows(t)
             \/ ScanMisses(t) \/ ScanFinds(t) \/ DelSize(t) \/ Take(t)
    <3>1. UNCHANGED <<msgMapSet, msgSet>>
      BY <2>4 DEF DelContains, DelGet, DelIterate, ScanThrows, ScanMisses, ScanFinds, DelSize, Take
    <3>2. QED
      BY <3>1, QuietSettles
  <2>5. QED
    BY <1>4, <2>1, <2>2, <2>3, <2>4 DEF DeleteStep
<1>5. QED
  BY <1>1, <1>2, <1>3, <1>4 DEF TableNext

(* Only an ack of the same device takes a packet out of reach, one packet  *)
(* of the acknowledged command or, at line 128, the whole set, whatever    *)
(* the other threads in NettyServerHandler are doing.                      *)
THEOREM AcksSettleTheirOwn == TableSpec => OnlyOwnAcksSettle
<1>1. IInv /\ [TableNext]_tableVars
      => [\A s \in Sn : ~(Pending(s) \subseteq Pending(s)') => Settled(s)]_tableVars
  BY NextSettles
<1>2. TableSpec => [][\A s \in Sn : ~(Pending(s) \subseteq Pending(s)') => Settled(s)]_tableVars
  BY <1>1, TableInvariant, PTL DEF TableSpec
<1>3. QED
  BY <1>2 DEF OnlyOwnAcksSettle, Settled

=============================================================================
