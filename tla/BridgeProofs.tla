---------------------------- MODULE BridgeProofs ----------------------------
(***************************************************************************)
(* Proofs about Bridge, for every map, list of polling blocks, set of      *)
(* requests, pool and heap.                                                *)
(***************************************************************************)
EXTENDS Bridge, TLAPS

(* The master holds a message exactly while it is to be written, and never *)
(* two.                                                                    *)
MessageHeld == /\ mpc = "write" => message # <<>>
               /\ mpc # "write" => message = <<>>

(* The inductive invariant.  The counters of the pool and of the heap stay *)
(* in their ranges only because the messages in flight account for what is *)
(* missing from them, and a message is in hand only in "write".            *)
IInv == /\ TypeOK
        /\ MessageHeld
        /\ MutexInv
        /\ PoolInv
        /\ BuffersAllocated
        /\ RefusedWritesHarmless

-----------------------------------------------------------------------------
(* The operators of the model. *)

LEMMA TablesOf ==
    /\ \A fc \in ReadFunctions : TableOf(fc) \in Tables
  BY DEF ReadFunctions, TableOf, Tables, FC_READ_COILS, FC_READ_DISCRETE_INPUTS,
         FC_READ_HOLDING_REGISTERS, FC_READ_INPUT_REGISTERS

LEMMA OverwriteType ==
    ASSUME NEW n \in Nat, NEW table \in [0..(n - 1) -> Value],
           NEW a, NEW m, NEW v \in Value
    PROVE  Overwrite(table, a, m, v) \in [0..(n - 1) -> Value]
  BY DEF Overwrite

LEMMA ReadDataType ==
    ASSUME NEW n \in Nat, NEW table \in [0..(n - 1) -> Value],
           NEW a \in Nat, NEW m \in Nat, a + m <= n
    PROVE  ReadData(table, a, m) \in Seq(Value)
  <1>1. \A k \in 1..m : a + k - 1 \in 0..(n - 1)
    OBVIOUS
  <1>2. \A k \in 1..m : table[a + k - 1] \in Value
    BY <1>1
  <1> QED
    BY <1>2 DEF ReadData

IsMap(tables) == /\ DOMAIN tables = Tables
                 /\ \A t \in Tables : tables[t] \in [0..(TableSize[t] - 1) -> Value]

LEMMA ServedType ==
    ASSUME NEW tables, IsMap(tables), NEW q \in RequestType
    PROVE  IsMap(Served(q, tables))
  <1>1. \A t \in Tables : TableSize[t] \in Nat
    BY TablesAssumption
  <1>2. ASSUME NEW t \in Tables, NEW a, NEW m
        PROVE  IsMap([tables EXCEPT ![t] = Overwrite(@, a, m, q.value)])
    <2>1. Overwrite(tables[t], a, m, q.value) \in [0..(TableSize[t] - 1) -> Value]
      BY <1>1, <1>2, OverwriteType DEF IsMap, RequestType
    <2> QED
      BY <2>1, <1>2 DEF IsMap
  <1>3. "bits" \in Tables /\ "registers" \in Tables
    BY DEF Tables
  <1> QED
    BY <1>2, <1>3 DEF Served

LEMMA AnswerType ==
    ASSUME NEW tables, IsMap(tables), NEW q \in RequestType
    PROVE  Answer(q, tables) \in ReplyType
  <1>1. \A t \in Tables : TableSize[t] \in Nat
    BY TablesAssumption
  <1>2. ASSUME NEW t \in Tables, InTable(t, q.address, q.quantity)
        PROVE  ReadData(tables[t], q.address, q.quantity) \in Seq(Value)
    BY <1>1, <1>2, ReadDataType DEF IsMap, InTable, RequestType
  <1>3. Accepted(q) /\ q.fc \in ReadFunctions =>
           InTable(TableOf(q.fc), q.address, q.quantity)
    BY DEF Accepted, AcceptedRead, AcceptedWrite, AcceptedWriteRead, ReadFunctions,
           FC_READ_COILS, FC_READ_DISCRETE_INPUTS, FC_READ_HOLDING_REGISTERS,
           FC_READ_INPUT_REGISTERS, FC_WRITE_SINGLE_COIL, FC_WRITE_SINGLE_REGISTER,
           FC_WRITE_MULTIPLE_COILS, FC_WRITE_MULTIPLE_REGISTERS,
           FC_WRITE_AND_READ_REGISTERS, FC_REPORT_SLAVE_ID
  <1>4. Accepted(q) /\ q.fc = FC_WRITE_AND_READ_REGISTERS =>
           InTable("registers", q.address, q.quantity)
    BY DEF Accepted, AcceptedRead, AcceptedWrite, AcceptedWriteRead, ReadFunctions,
           FC_READ_COILS, FC_READ_DISCRETE_INPUTS, FC_READ_HOLDING_REGISTERS,
           FC_READ_INPUT_REGISTERS, FC_WRITE_SINGLE_COIL, FC_WRITE_SINGLE_REGISTER,
           FC_WRITE_MULTIPLE_COILS, FC_WRITE_MULTIPLE_REGISTERS,
           FC_WRITE_AND_READ_REGISTERS, FC_REPORT_SLAVE_ID
  <1>5. "registers" \in Tables /\ <<>> \in Seq(Value)
    BY DEF Tables
  <1> QED
    BY <1>2, <1>3, <1>4, <1>5, TablesOf DEF Answer, NoAnswer, ReplyType

LEMMA WrittenType ==
    ASSUME NEW tables \in DeviceType, NEW m \in MessageType
    PROVE  Written(m, tables) \in DeviceType
  <1>1. Overwrite(tables["registers"], DeviceAddress(m.address, Blocks), m.quantity, m.value)
           \in [0..(DeviceSize - 1) -> Value]
    BY TablesAssumption, OverwriteType DEF DeviceType, MessageType, Tables
  <1> QED
    BY <1>1 DEF Written, DeviceType

LEMMA MessageOfType ==
    ASSUME NEW q \in RequestType, Forwardable(q)
    PROVE  /\ MessageOf(q) \in MessageType
           /\ InTable("registers", MessageOf(q).address, MessageOf(q).quantity)
  BY WidthAssumption DEF MessageOf, MessageType, RequestType, Forwardable, InTable,
     FC_WRITE_SINGLE_REGISTER, FC_WRITE_MULTIPLE_REGISTERS

(* A message taken from the pool, and one put back. *)
LEMMA PoolOperators ==
    ASSUME NEW p \in PoolType
    PROVE  /\ CanAlloc(p) => /\ AfterAlloc(p) \in PoolType
                             /\ AfterAlloc(p).max - AfterAlloc(p).size = p.max - p.size + 1
           /\ p.size < p.max => AfterFree(p) \in PoolType
           /\ AfterFree(p).size = p.size + 1 /\ AfterFree(p).max = p.max
  BY PoolAssumption DEF PoolType, CanAlloc, AfterAlloc, AfterFree, Grown

LEMMA OneHeld ==
    ASSUME NEW S, NEW s \in Seq(S), s # <<>>, Len(s) <= 1
    PROVE  Len(s) = 1 /\ Head(s) \in S /\ s = <<Head(s)>>
  <1>1. Len(s) \in Nat /\ Len(s) # 0 /\ Head(s) \in S
    OBVIOUS
  <1>2. Len(s) = 1
    <2> DEFINE n == Len(s)
    <2>1. n \in Nat /\ n # 0 /\ n <= 1
      BY <1>1
    <2> HIDE DEF n
    <2>2. n = 1
      BY <2>1
    <2> QED
      BY <2>2 DEF n
  <1> QED
    BY <1>1, <1>2

LEMMA ConcatLength ==
    ASSUME NEW S, NEW s \in Seq(S), NEW r \in Seq(S)
    PROVE  Len(s \o r) = Len(s) + Len(r) /\ Len(s) \in Nat /\ Len(r) \in Nat
  OBVIOUS

-----------------------------------------------------------------------------
(* The inductive invariant. *)

LEMMA InitInvariant == Init => IInv
  <1> SUFFICES ASSUME Init PROVE IInv
    OBVIOUS
  <1> USE DEF Init
  <1>1. TypeOK
    <2>1. \A t \in Tables : mapping[t] \in [0..(TableSize[t] - 1) -> Value]
      BY TablesAssumption
    <2>2. query \in RequestType /\ reply \in ReplyType
      BY TablesAssumption, WidthAssumption DEF NoRequest, RequestType, NoAnswer, ReplyType
    <2>3. pool \in PoolType
      BY PoolAssumption DEF CreatedPool, PoolType
    <2>4. block \in 1..Len(Blocks)
      BY TablesAssumption
    <2>5. device \in DeviceType /\ heap \in 0..HeapSize
      BY TablesAssumption, HeapAssumption
    <2>6. /\ waiting \in Seq({"slave", "master"}) /\ buf \in Seq(Value)
          /\ message \in Seq(MessageType) /\ Len(message) <= 1 /\ queue \in Seq(MessageType)
      OBVIOUS
    <2>7. /\ DOMAIN mapping = Tables /\ copied \in [i : Nat, j : Nat]
          /\ owner \in {"slave", "master", NoTask} /\ opened \in BOOLEAN
      OBVIOUS
    <2>8. spc = "accept" /\ mpc = "start"
      OBVIOUS
    <2> HIDE DEF Init
    <2> QED
      BY <2>1, <2>2, <2>3, <2>4, <2>5, <2>6, <2>7, <2>8 DEF TypeOK
  <1>2. MessageHeld
    BY DEF MessageHeld
  <1>3. MutexInv
    BY DEF MutexInv, SlaveInside, MasterInside, NoTask
  <1>4. InFlight = <<>>
    BY DEF InFlight
  <1>5. PoolInv /\ BuffersAllocated /\ RefusedWritesHarmless
    BY <1>4, PoolAssumption, HeapAssumption
    DEF PoolInv, BuffersAllocated, RefusedWritesHarmless, CreatedPool
  <1> QED
    BY <1>1, <1>2, <1>3, <1>5 DEF IInv

(* What a step that leaves the messages alone has to show. *)
Accounts == <<message, queue, pool, heap>>

LEMMA AccountsKept ==
    ASSUME IInv, UNCHANGED Accounts
    PROVE  /\ PoolInv' /\ BuffersAllocated' /\ RefusedWritesHarmless'
  BY DEF IInv, Accounts, PoolInv, BuffersAllocated, RefusedWritesHarmless, InFlight

(* The sequences of waiting tasks that occur. *)
LEMMA OneWaiting ==
    ASSUME NEW x
    PROVE  /\ Append(<<>>, x) = <<x>> /\ <<x>> # <<>>
           /\ Head(<<x>>) = x /\ Tail(<<x>>) = <<>>
  OBVIOUS

(* Locking by a task that is outside, unlocking by the owner. *)
LEMMA LockInv ==
    ASSUME MutexInv, owner \in {"slave", "master", NoTask},
           SlaveLock \/ MasterLock \/ SlaveUnlock \/ MasterUnlock
    PROVE  MutexInv'
  <1> USE OneWaiting DEF MutexInv, SlaveInside, MasterInside, NoTask
  <1>1. CASE SlaveLock
    BY <1>1 DEF SlaveLock, Lock, masterVars
  <1>2. CASE MasterLock
    BY <1>2 DEF MasterLock, Lock, slaveVars
  <1>3. CASE SlaveUnlock
    <2>1. owner = "slave"
      BY <1>3 DEF SlaveUnlock
    <2> QED
      BY <1>3, <2>1 DEF SlaveUnlock, Unlock, masterVars
  <1>4. CASE MasterUnlock
    <2>1. CASE spc = "reply"
      BY <1>4, <2>1 DEF MasterUnlock, Unlock, slaveVars
    <2>2. CASE spc # "reply"
      BY <1>4, <2>2 DEF MasterUnlock, Unlock, slaveVars
    <2> QED
      BY <2>1, <2>2
  <1> QED
    BY <1>1, <1>2, <1>3, <1>4

LEMMA SequenceType ==
    ASSUME NEW S, NEW s \in Seq(S), NEW x \in S
    PROVE  /\ Append(s, x) \in Seq(S) /\ <<x>> \in Seq(S)
           /\ s # <<>> => /\ Tail(s) \in Seq(S) /\ Head(s) \in S /\ Len(s) \in Nat \ {0}
           /\ Len(<<x>>) = 1
  OBVIOUS

(* The owner and the waiting tasks after either call of the mutex. *)
LEMMA MutexType ==
    ASSUME owner \in {"slave", "master", NoTask}, waiting \in Seq({"slave", "master"}),
           Lock("slave") \/ Lock("master") \/ Unlock
    PROVE  owner' \in {"slave", "master", NoTask} /\ waiting' \in Seq({"slave", "master"})
  <1>1. CASE Lock("slave")
    BY <1>1, SequenceType DEF Lock
  <1>2. CASE Lock("master")
    BY <1>2, SequenceType DEF Lock
  <1>3. CASE Unlock
    BY <1>3 DEF Unlock
  <1> QED
    BY <1>1, <1>2, <1>3

LEMMA NextType ==
    ASSUME IInv, Next
    PROVE  TypeOK'
  <1> USE DEF IInv, TypeOK
  <1>1. CASE SlaveAccept
    BY <1>1 DEF SlaveAccept, masterVars
  <1>2. CASE SlaveReceive
    BY <1>2, TablesAssumption DEF SlaveReceive, masterVars
  <1>3. CASE SlaveIssue
    <2>1. CASE ~Forwardable(query)
      BY <1>3, <2>1 DEF SlaveIssue, masterVars
    <2>2. CASE Forwardable(query) /\ heap = 0
      BY <1>3, <2>2 DEF SlaveIssue, masterVars
    <2>3. CASE Forwardable(query) /\ heap # 0
      <3>1. heap' \in 0..HeapSize
        BY <1>3, <2>3, HeapAssumption DEF SlaveIssue
      <3>2. MessageIssue(MessageOf(query))
        BY <1>3, <2>3 DEF SlaveIssue
      <3>3. MessageOf(query) \in MessageType
        BY <2>3, MessageOfType
      <3>4. Append(queue, MessageOf(query)) \in Seq(MessageType)
        BY <3>3
      <3>5. CanAlloc(pool) => AfterAlloc(pool) \in PoolType
        BY PoolOperators
      <3>6. queue' \in Seq(MessageType) /\ pool' \in PoolType
        BY <3>2, <3>4, <3>5 DEF MessageIssue
      <3> QED
        BY <1>3, <2>3, <3>1, <3>6 DEF SlaveIssue, masterVars
    <2> QED
      BY <2>1, <2>2, <2>3
  <1>4. CASE SlaveLock
    BY <1>4, MutexType DEF SlaveLock, masterVars
  <1>5. CASE SlaveReply
    <2>1. IsMap(mapping)
      BY DEF IsMap
    <2>2. IsMap(mapping')
      BY <1>5, <2>1, ServedType DEF SlaveReply
    <2>3. reply' \in ReplyType
      BY <1>5, <2>2, AnswerType DEF SlaveReply
    <2>4. query' \in RequestType
      BY <1>5, TablesAssumption, WidthAssumption DEF SlaveReply, NoRequest, RequestType
    <2> QED
      BY <1>5, <2>2, <2>3, <2>4 DEF SlaveReply, masterVars, IsMap
  <1>6. CASE SlaveSend
    <2>1. reply' \in ReplyType
      BY <1>6 DEF SlaveSend, NoAnswer, ReplyType
    <2> QED
      BY <1>6, <2>1 DEF SlaveSend, masterVars
  <1>7. CASE SlaveUnlock
    BY <1>7, MutexType DEF SlaveUnlock, masterVars
  <1>8. CASE MasterStart
    BY <1>8 DEF MasterStart, slaveVars
  <1>9. CASE MasterGivesUp
    BY <1>9 DEF MasterGivesUp, slaveVars
  <1>10. CASE MasterRead
    <2>1. Current \in PollBlockType
      BY TablesAssumption DEF Current
    <2>2. /\ TableOf(Current.fc) \in Tables
          /\ Current.address % U16 \in Nat /\ Current.quantity \in Nat
      BY <2>1, TablesOf, WidthAssumption DEF PollBlockType
    <2>3. buf' \in Seq(Value)
      BY <1>10, <2>2, ReadDataType, TablesAssumption DEF MasterRead, Readable, DeviceType
    <2> QED
      BY <1>10, <2>3 DEF MasterRead, slaveVars
  <1>11. CASE MasterReadFails
    BY <1>11 DEF MasterReadFails, slaveVars
  <1>12. CASE MasterLock
    <2>1. copied' \in [i : Nat, j : Nat]
      <3>1. Current \in PollBlockType
        BY TablesAssumption DEF Current
      <3> QED
        BY <1>12, <3>1, WidthAssumption DEF MasterLock, Counter, PollBlockType
    <2> QED
      BY <1>12, <2>1, MutexType DEF MasterLock, slaveVars
  <1>13. CASE MasterCopy
    <2>1. copied' \in [i : Nat, j : Nat]
      <3>1. \A n \in Nat : Counter(Current.fc, n) \in Nat
        BY WidthAssumption DEF Counter
      <3> QED
        BY <1>13, <3>1 DEF MasterCopy
    <2>2. TableOf(Current.fc) \in Tables
      <3>1. Current \in PollBlockType
        BY TablesAssumption DEF Current
      <3> QED
        BY <3>1, TablesOf DEF PollBlockType
    <2>3. PICK v \in Value :
             mapping' = [mapping EXCEPT ![TableOf(Current.fc)] = Overwrite(@, copied.i, 1, v)]
      <3>1. copied.j < Len(buf) => buf[copied.j + 1] \in Value
        OBVIOUS
      <3> QED
        BY <1>13, <3>1 DEF MasterCopy
    <2>4. Overwrite(mapping[TableOf(Current.fc)], copied.i, 1, v)
             \in [0..(TableSize[TableOf(Current.fc)] - 1) -> Value]
      BY <2>2, TablesAssumption, OverwriteType
    <2>5. IsMap(mapping')
      BY <2>2, <2>3, <2>4 DEF IsMap
    <2> QED
      BY <1>13, <2>1, <2>5 DEF MasterCopy, slaveVars, IsMap
  <1>14. CASE MasterUnlock
    <2>1. copied' \in [i : Nat, j : Nat] /\ buf' \in Seq(Value)
      BY <1>14 DEF MasterUnlock
    <2> QED
      BY <1>14, <2>1, MutexType DEF MasterUnlock, slaveVars
  <1>15. CASE MasterPoll
    <2>1. CASE queue = <<>>
      BY <1>15, <2>1 DEF MasterPoll, slaveVars
    <2>2. CASE queue # <<>>
      <3>1. /\ queue' \in Seq(MessageType) /\ message' \in Seq(MessageType)
            /\ Len(message') = 1
        <4>1. Head(queue) \in MessageType /\ Tail(queue) \in Seq(MessageType)
          BY <2>2
        <4>2. <<Head(queue)>> \in Seq(MessageType) /\ Len(<<Head(queue)>>) = 1
          BY <4>1
        <4>3. message' = <<Head(queue)>> /\ queue' = Tail(queue)
          BY <1>15, <2>2 DEF MasterPoll
        <4> QED
          BY <4>1, <4>2, <4>3
      <3> QED
        BY <1>15, <2>2, <3>1 DEF MasterPoll, slaveVars
    <2> QED
      BY <2>1, <2>2
  <1>16. CASE MasterWrite
    <2>1. Len(message) = 1 /\ Head(message) \in MessageType
      <3>1. message # <<>>
        BY <1>16 DEF MasterWrite, MessageHeld
      <3> QED
        BY <3>1, OneHeld
    <2>2. Len(InFlight) = 1 + Len(queue) /\ Len(queue) \in Nat
      BY <2>1, ConcatLength DEF InFlight
    <2>3. pool.size < pool.max /\ heap < HeapSize
      BY <2>2, HeapAssumption DEF PoolInv, BuffersAllocated, PoolType
    <2>4. pool' \in PoolType /\ heap' \in 0..HeapSize
      BY <1>16, <2>3, PoolOperators, HeapAssumption DEF MasterWrite
    <2>5. device' \in DeviceType
      BY <1>16, <2>1, WrittenType DEF MasterWrite
    <2>6. message' \in Seq(MessageType) /\ Len(message') <= 1
      BY <1>16 DEF MasterWrite
    <2> QED
      BY <1>16, <2>4, <2>5, <2>6 DEF MasterWrite, slaveVars
  <1>17. CASE MasterDelay
    <2>1. block' \in 1..Len(Blocks)
      BY <1>17, TablesAssumption DEF MasterDelay
    <2> QED
      BY <1>17, <2>1 DEF MasterDelay, slaveVars
  <1>18. CASE DeviceChange
    BY <1>18, TablesAssumption DEF DeviceChange, slaveVars, masterVars
  <1> QED
    BY <1>1, <1>2, <1>3, <1>4, <1>5, <1>6, <1>7, <1>8, <1>9, <1>10, <1>11, <1>12,
       <1>13, <1>14, <1>15, <1>16, <1>17, <1>18 DEF Next, SlaveStep, MasterStep

(* Only the four steps that lock or unlock touch the mutex; the others     *)
(* keep each task on its side of it.                                       *)
LEMMA NextMutex ==
    ASSUME IInv, Next
    PROVE  MutexInv'
  <1>1. CASE SlaveLock \/ MasterLock \/ SlaveUnlock \/ MasterUnlock
    BY <1>1, LockInv DEF IInv, TypeOK
  <1>2. CASE SlaveAccept \/ SlaveReceive \/ SlaveIssue
    BY <1>2 DEF SlaveAccept, SlaveReceive, SlaveIssue, IInv, MutexInv, SlaveInside,
       MasterInside, masterVars
  <1>3. CASE SlaveReply \/ SlaveSend
    BY <1>3 DEF SlaveReply, SlaveSend, IInv, MutexInv, SlaveInside, MasterInside,
       masterVars, NoTask
  <1>4. CASE MasterStart \/ MasterGivesUp \/ MasterRead \/ MasterReadFails
    BY <1>4 DEF MasterStart, MasterGivesUp, MasterRead, MasterReadFails, IInv, MutexInv,
       SlaveInside, MasterInside, slaveVars
  <1>5. CASE MasterCopy \/ MasterPoll \/ MasterWrite \/ MasterDelay
    BY <1>5 DEF MasterCopy, MasterPoll, MasterWrite, MasterDelay, IInv, MutexInv,
       SlaveInside, MasterInside, slaveVars
  <1>6. CASE DeviceChange
    BY <1>6 DEF DeviceChange, IInv, MutexInv, SlaveInside, MasterInside, slaveVars, masterVars
  <1> QED
    BY <1>1, <1>2, <1>3, <1>4, <1>5, <1>6 DEF Next, SlaveStep, MasterStep

LEMMA NextMessageHeld ==
    ASSUME IInv, Next
    PROVE  MessageHeld'
  <1> USE DEF IInv, MessageHeld
  <1>1. CASE SlaveAccept \/ SlaveReceive \/ SlaveStep \/ DeviceChange
    BY <1>1 DEF SlaveAccept, SlaveReceive, SlaveStep, SlaveIssue, SlaveLock, SlaveReply,
       SlaveSend, SlaveUnlock, DeviceChange, masterVars
  <1>2. CASE MasterStart \/ MasterGivesUp \/ MasterRead \/ MasterReadFails \/ MasterLock
    BY <1>2 DEF MasterStart, MasterGivesUp, MasterRead, MasterReadFails, MasterLock
  <1>3. CASE MasterCopy \/ MasterUnlock \/ MasterDelay
    BY <1>3 DEF MasterCopy, MasterUnlock, MasterDelay
  <1>4. CASE MasterPoll
    BY <1>4 DEF MasterPoll
  <1>5. CASE MasterWrite
    BY <1>5 DEF MasterWrite
  <1> QED
    BY <1>1, <1>2, <1>3, <1>4, <1>5 DEF Next, MasterStep

(* What RefusedWritesHarmless asks of one message in flight. *)
Harmless(m) ==
    Writable(m) =>
        /\ InTable("registers", m.address, m.quantity)
        /\ m.fc = FC_WRITE_MULTIPLE_REGISTERS => m.quantity \in 1..MaxWriteRegisters

LEMMA ForwardedHarmless ==
    ASSUME NEW q \in RequestType, Forwardable(q)
    PROVE  Harmless(MessageOf(q))
  <1>1. /\ MessageOf(q) \in MessageType
        /\ InTable("registers", MessageOf(q).address, MessageOf(q).quantity)
    BY MessageOfType
  <1> QED
    BY <1>1, TablesAssumption DEF Harmless, Writable, MessageType,
       FC_WRITE_SINGLE_REGISTER, FC_WRITE_MULTIPLE_REGISTERS

(* The messages in flight change in three ways: one is added at the end,   *)
(* the first moves from the queue to the master's hand, or the one in hand *)
(* goes.                                                                   *)
LEMMA InFlightForwarded ==
    ASSUME IInv, NEW m \in MessageType, queue' = Append(queue, m), UNCHANGED message
    PROVE  InFlight' = Append(InFlight, m)
  BY DEF IInv, TypeOK, InFlight

LEMMA InFlightPolled ==
    ASSUME IInv, MasterPoll
    PROVE  InFlight' = InFlight
  <1>1. CASE queue = <<>>
    BY <1>1 DEF MasterPoll, InFlight
  <1>2. CASE queue # <<>>
    <2>1. message = <<>> /\ queue \in Seq(MessageType)
      BY DEF MasterPoll, IInv, MessageHeld, TypeOK
    <2>2. message' = <<Head(queue)>> /\ queue' = Tail(queue)
      BY <1>2 DEF MasterPoll
    <2>3. <<>> \o queue = queue /\ <<Head(queue)>> \o Tail(queue) = queue
      BY <1>2, <2>1
    <2> QED
      BY <2>1, <2>2, <2>3 DEF InFlight
  <1> QED
    BY <1>1, <1>2

LEMMA InFlightWritten ==
    ASSUME IInv, MasterWrite
    PROVE  /\ InFlight # <<>> /\ InFlight' = Tail(InFlight)
  <1>1. message # <<>> /\ message \in Seq(MessageType) /\ Len(message) <= 1
    BY DEF MasterWrite, IInv, MessageHeld, TypeOK
  <1>2. queue \in Seq(MessageType)
    BY DEF IInv, TypeOK
  <1>3. PICK m \in MessageType : message = <<m>>
    <2>1. Head(message) \in MessageType /\ message = <<Head(message)>>
      BY <1>1, OneHeld
    <2> QED
      BY <2>1
  <1>4. <<m>> \o queue # <<>> /\ Tail(<<m>> \o queue) = queue /\ <<>> \o queue = queue
    BY <1>2, <1>3
  <1>5. message' = <<>> /\ queue' = queue
    BY DEF MasterWrite
  <1> QED
    BY <1>3, <1>4, <1>5 DEF InFlight

LEMMA NextAccounts ==
    ASSUME IInv, Next
    PROVE  PoolInv' /\ BuffersAllocated' /\ RefusedWritesHarmless'
  <1>1. /\ pool \in PoolType /\ heap \in 0..HeapSize /\ query \in RequestType
        /\ InFlight \in Seq(MessageType) /\ Len(InFlight) \in Nat
    <2>1. message \in Seq(MessageType) /\ queue \in Seq(MessageType)
      BY DEF IInv, TypeOK
    <2>2. InFlight \in Seq(MessageType)
      BY <2>1 DEF InFlight
    <2> QED
      BY <2>2 DEF IInv, TypeOK
  <1>2. /\ pool.size + Len(InFlight) = pool.max
        /\ heap + Len(InFlight) <= HeapSize
        /\ \A k \in 1..Len(InFlight) : Harmless(InFlight[k])
    BY DEF IInv, PoolInv, BuffersAllocated, RefusedWritesHarmless, Harmless
  <1>3. SUFFICES /\ pool'.size + Len(InFlight') = pool'.max
                 /\ heap' + Len(InFlight') <= HeapSize
                 /\ \A k \in 1..Len(InFlight') : Harmless(InFlight'[k])
    BY DEF PoolInv, BuffersAllocated, RefusedWritesHarmless, Harmless
  <1>4. CASE UNCHANGED Accounts
    BY <1>2, <1>4 DEF Accounts, InFlight
  <1>5. CASE SlaveIssue /\ Forwardable(query) /\ heap # 0
    <2>1. UNCHANGED message /\ heap' = heap - 1 /\ MessageIssue(MessageOf(query))
      BY <1>5 DEF SlaveIssue, masterVars
    <2>2. CASE UNCHANGED <<queue, pool>>
      BY <1>1, <1>2, <2>1, <2>2, HeapAssumption DEF InFlight
    <2>3. CASE CanAlloc(pool) /\ queue' = Append(queue, MessageOf(query)) /\ pool' = AfterAlloc(pool)
      <3>1. MessageOf(query) \in MessageType /\ Harmless(MessageOf(query))
        BY <1>1, <1>5, MessageOfType, ForwardedHarmless
      <3>2. InFlight' = Append(InFlight, MessageOf(query))
        BY <2>1, <2>3, <3>1, InFlightForwarded
      <3>3. /\ Len(InFlight') = Len(InFlight) + 1
            /\ \A k \in 1..Len(InFlight) : InFlight'[k] = InFlight[k]
            /\ InFlight'[Len(InFlight) + 1] = MessageOf(query)
        BY <1>1, <3>1, <3>2
      <3>4. /\ pool'.max - pool'.size = pool.max - pool.size + 1
            /\ pool'.max \in Nat /\ pool'.size \in Nat
        BY <1>1, <2>3, PoolOperators, PoolAssumption DEF PoolType
      <3>5. pool.max \in Nat /\ pool.size \in Nat
        BY <1>1, PoolAssumption DEF PoolType
      <3>6. \A k \in 1..Len(InFlight') : Harmless(InFlight'[k])
        <4> TAKE k \in 1..Len(InFlight')
        <4>1. k \in 1..Len(InFlight) \/ k = Len(InFlight) + 1
          BY <1>1, <3>3
        <4> QED
          BY <4>1, <1>2, <3>1, <3>3
      <3>7. heap' + Len(InFlight') <= HeapSize
        BY <1>1, <1>2, <2>1, <3>3, HeapAssumption
      <3> QED
        BY <1>1, <1>2, <3>3, <3>4, <3>5, <3>6, <3>7
    <2> QED
      BY <2>1, <2>2, <2>3 DEF MessageIssue
  <1>6. CASE MasterPoll
    <2>1. InFlight' = InFlight /\ UNCHANGED <<pool, heap>>
      BY <1>6, InFlightPolled DEF MasterPoll
    <2> QED
      BY <1>2, <2>1
  <1>7. CASE MasterWrite
    <2>1. InFlight # <<>> /\ InFlight' = Tail(InFlight)
      BY <1>7, InFlightWritten
    <2>2. /\ Len(InFlight') = Len(InFlight) - 1
          /\ \A k \in 1..Len(InFlight') : InFlight'[k] = InFlight[k + 1]
      BY <1>1, <2>1
    <2>3. pool'.size = pool.size + 1 /\ pool'.max = pool.max /\ heap' = heap + 1
      BY <1>1, <1>7, PoolOperators DEF MasterWrite
    <2>4. pool.max \in Nat /\ pool.size \in Nat
      BY <1>1, PoolAssumption DEF PoolType
    <2>5. \A k \in 1..Len(InFlight') : k + 1 \in 1..Len(InFlight)
      BY <1>1, <2>2
    <2>6. Len(InFlight) \in Nat /\ heap \in Nat /\ HeapSize \in Nat
      BY <1>1, HeapAssumption
    <2>7. pool'.size + Len(InFlight') = pool'.max /\ heap' + Len(InFlight') <= HeapSize
      <3>1. Len(InFlight') = Len(InFlight) - 1
        BY <2>2
      <3>2. pool.size + Len(InFlight) = pool.max /\ heap + Len(InFlight) <= HeapSize
        BY <1>2
      <3> QED
        BY <2>3, <2>4, <2>6, <3>1, <3>2
    <2>8. \A k \in 1..Len(InFlight') : Harmless(InFlight'[k])
      BY <1>2, <2>2, <2>5
    <2> QED
      BY <2>7, <2>8
  <1>8. CASE SlaveIssue /\ ~(Forwardable(query) /\ heap # 0)
    BY <1>4, <1>8 DEF SlaveIssue, Accounts, masterVars
  <1>9. CASE SlaveAccept \/ SlaveReceive \/ SlaveLock \/ SlaveReply \/ SlaveSend \/ SlaveUnlock
    BY <1>4, <1>9 DEF SlaveAccept, SlaveReceive, SlaveLock, SlaveReply, SlaveSend, SlaveUnlock,
       Accounts, masterVars
  <1>10. CASE MasterStart \/ MasterGivesUp \/ MasterRead \/ MasterReadFails \/ MasterLock
    BY <1>4, <1>10 DEF MasterStart, MasterGivesUp, MasterRead, MasterReadFails, MasterLock, Accounts
  <1>11. CASE MasterCopy \/ MasterUnlock \/ MasterDelay \/ DeviceChange
    BY <1>4, <1>11 DEF MasterCopy, MasterUnlock, MasterDelay, DeviceChange, Accounts, masterVars
  <1> QED
    BY <1>5, <1>6, <1>7, <1>8, <1>9, <1>10, <1>11 DEF Next, SlaveStep, MasterStep

LEMMA StutterInvariant == IInv /\ UNCHANGED vars => IInv'
  BY DEF IInv, vars, slaveVars, masterVars, TypeOK, MessageHeld, MutexInv, SlaveInside,
     MasterInside, PoolInv, BuffersAllocated, RefusedWritesHarmless, InFlight

LEMMA Invariant == Spec => []IInv
  <1>1. IInv /\ [Next]_vars => IInv'
    BY NextType, NextMessageHeld, NextMutex, NextAccounts, StutterInvariant DEF IInv
  <1> QED
    BY <1>1, InitInvariant, PTL DEF Spec
-----------------------------------------------------------------------------
(* Every variable keeps its type: no table of the map or of the device is  *)
(* written outside its entries, the pool stays within its limits and the   *)
(* heap gives no buffer back twice.                                        *)
THEOREM TypeCorrect == Spec => []TypeOK
  BY Invariant, PTL DEF IInv

(* mb_mapping_mutex excludes: the slave task within modbus_reply and the   *)
(* master task within its copy loop are never both past their lock, and a  *)
(* task left waiting is in the mutex's queue, from where the owner's       *)
(* unlock hands it the mutex (modbus_slave.c:237-239,                      *)
(* modbus_master.c:308-312).                                               *)
THEOREM MutualExclusion == Spec => []MutexInv
  BY Invariant, PTL DEF IInv

(* No message of MODBUS_msg_pool leaks or is freed twice, whatever is      *)
(* dropped between the two tasks.                                          *)
THEOREM PoolConserved == Spec => []PoolInv
  BY Invariant, PTL DEF IInv

(* The buffer of a message in flight is still allocated when the master    *)
(* frees it.                                                               *)
THEOREM BuffersOwned == Spec => []BuffersAllocated
  BY Invariant, PTL DEF IInv

(* A write modbus_reply refuses does not reach the device.                 *)
THEOREM RefusalsHarmless == Spec => []RefusedWritesHarmless
  BY Invariant, PTL DEF IInv
=============================================================================
