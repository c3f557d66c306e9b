------------------------ MODULE BridgeServiceProofs ------------------------
(***************************************************************************)
(* Bridge implements BridgeService, for every map, pool, heap and set of   *)
(* requests, and for every list of polling blocks that the uint8_t         *)
(* counters of the copy loop can count through.                            *)
(***************************************************************************)
EXTENDS BridgeProofs

(* The copy loop of a register block counts in a uint8_t up to             *)
(* map + quantity (modbus_master.c:263, 309, 319): below that bound it     *)
(* ends.  Nothing in the code asks it of polling_blocks.txt; the run       *)
(* bridge_wide shows what happens at the bound.                            *)
NarrowBlocks ==
    \A b \in 1..Len(Blocks) :
        /\ Readable(Blocks[b])
        /\ Blocks[b].fc \in {FC_READ_HOLDING_REGISTERS, FC_READ_INPUT_REGISTERS}
        => Blocks[b].map + Blocks[b].quantity < U8

(* The request and the answer the slave task holds. *)
RequestInv ==
    /\ spc \in {"issue", "lock", "reply"} => query \in Requests
    /\ reply # NoAnswer <=> spc = "send"

(* The copy loop: from the read to the end of the copy the master holds    *)
(* what it read of one readable block; i and j go together from the start  *)
(* of the block, and what is behind them is copied.                        *)
CopyInv ==
    /\ mpc \in {"lock", "copy"} => Readable(Current) /\ Len(buf) = Current.quantity
    /\ mpc = "copy" =>
          /\ copied.j <= Current.quantity
          /\ copied.i = Current.map + copied.j
          /\ owner # "master" => copied.j = 0
          /\ owner = "master" =>
                \A k \in 1..copied.j :
                    mapping[TableOf(Current.fc)][Current.map + k - 1] = buf[k]

(* The map is a function on Tables, which its four types do not say. *)
MapInv == mapping = [t \in Tables |-> mapping[t]]

ServiceInv == IInv /\ RequestInv /\ CopyInv /\ MapInv
-----------------------------------------------------------------------------
LEMMA BlockType ==
    ASSUME NEW b \in 1..Len(Blocks)
    PROVE  /\ Blocks[b] \in PollBlockType
           /\ Blocks[b].fc \in ReadFunctions /\ TableOf(Blocks[b].fc) \in Tables
           /\ Blocks[b].address \in Nat /\ Blocks[b].address % U16 \in Nat
           /\ Blocks[b].quantity \in Nat /\ Blocks[b].map \in Nat
           /\ Blocks[b].map + Blocks[b].quantity <= TableSize[TableOf(Blocks[b].fc)]
           /\ TableSize[TableOf(Blocks[b].fc)] \in Nat
  <1>1. Blocks[b] \in PollBlockType
    BY TablesAssumption
  <1>2. /\ Blocks[b].fc \in ReadFunctions /\ Blocks[b].address \in Nat
        /\ Blocks[b].quantity \in Nat /\ Blocks[b].map \in Nat
    BY <1>1 DEF PollBlockType
  <1>3. Blocks[b].address % U16 \in Nat
    BY <1>2, WidthAssumption
  <1> QED
    BY <1>1, <1>2, <1>3, TablesOf, TablesAssumption

(* The counters of a readable block do not wrap. *)
LEMMA CountersCount ==
    ASSUME NarrowBlocks, NEW b \in 1..Len(Blocks), Readable(Blocks[b]),
           NEW n \in 0..(Blocks[b].map + Blocks[b].quantity)
    PROVE  Counter(Blocks[b].fc, n) = n
  <1>1. Blocks[b].quantity \in Nat /\ Blocks[b].map \in Nat /\ n \in Nat
    BY BlockType
  <1>2. CASE Blocks[b].fc \in {FC_READ_HOLDING_REGISTERS, FC_READ_INPUT_REGISTERS}
    <2>1. n < U8
      BY <1>1, <1>2, WidthAssumption DEF NarrowBlocks
    <2> QED
      BY <1>1, <2>1, WidthAssumption DEF Counter
  <1>3. CASE Blocks[b].fc \notin {FC_READ_HOLDING_REGISTERS, FC_READ_INPUT_REGISTERS}
    BY <1>3 DEF Counter
  <1> QED
    BY <1>2, <1>3

LEMMA InitService == Init => RequestInv /\ CopyInv /\ MapInv
  BY DEF Init, RequestInv, CopyInv, MapInv

LEMMA NextRequest ==
    ASSUME IInv, RequestInv, Next
    PROVE  RequestInv'
  <1> USE DEF RequestInv
  <1>1. CASE SlaveAccept \/ SlaveReceive \/ SlaveIssue \/ SlaveLock \/ SlaveUnlock
    BY <1>1 DEF SlaveAccept, SlaveReceive, SlaveIssue, SlaveLock, SlaveUnlock
  <1>2. CASE SlaveReply
    BY <1>2 DEF SlaveReply
  <1>3. CASE SlaveSend
    BY <1>3 DEF SlaveSend
  <1>4. CASE UNCHANGED slaveVars
    BY <1>4 DEF slaveVars
  <1>5. CASE MasterStart \/ MasterGivesUp \/ MasterStep \/ DeviceChange
    BY <1>4, <1>5 DEF MasterStart, MasterGivesUp, MasterStep, MasterRead, MasterReadFails,
       MasterLock, MasterCopy, MasterUnlock, MasterPoll, MasterWrite, MasterDelay, DeviceChange
  <1> QED
    BY <1>1, <1>2, <1>3, <1>5 DEF Next, SlaveStep

(* While the master is in its copy loop, or about to, it is at a block of  *)
(* the list.                                                               *)
LEMMA CurrentBlock ==
    ASSUME IInv
    PROVE  /\ block \in 1..Len(Blocks)
           /\ Current \in PollBlockType /\ TableOf(Current.fc) \in Tables
           /\ Current.quantity \in Nat /\ Current.map \in Nat
           /\ copied.i \in Nat /\ copied.j \in Nat
           /\ copied = [i |-> copied.i, j |-> copied.j]
  <1>1. block \in 1..Len(Blocks) /\ copied \in [i : Nat, j : Nat]
    BY DEF IInv, TypeOK
  <1> QED
    BY <1>1, BlockType DEF Current

LEMMA ReadDataLength ==
    ASSUME NEW table, NEW a, NEW n \in Nat
    PROVE  Len(ReadData(table, a, n)) = n
  BY DEF ReadData

(* One round of the copy loop: the entry at map + j becomes what was read, *)
(* the others stay.                                                        *)
LEMMA CopyRound ==
    ASSUME NarrowBlocks, ServiceInv, MasterCopy
    PROVE  /\ copied.j < Current.quantity
           /\ copied' = [i |-> copied.i + 1, j |-> copied.j + 1]
           /\ mapping' = [mapping EXCEPT ![TableOf(Current.fc)] =
                             Overwrite(@, Current.map + copied.j, 1, buf[copied.j + 1])]
           /\ UNCHANGED <<mpc, block, buf, owner>>
  <1>1. /\ Readable(Current) /\ Len(buf) = Current.quantity
        /\ copied.j <= Current.quantity /\ copied.i = Current.map + copied.j
        /\ copied.i < Current.map + Current.quantity
    BY DEF MasterCopy, Copying, ServiceInv, CopyInv
  <1>2. /\ copied.i \in Nat /\ copied.j \in Nat /\ Current.map \in Nat /\ Current.quantity \in Nat
        /\ block \in 1..Len(Blocks)
    BY CurrentBlock DEF ServiceInv
  <1>3. copied.j < Current.quantity
    BY <1>1, <1>2
  <1>4. Counter(Current.fc, copied.i + 1) = copied.i + 1 /\ Counter(Current.fc, copied.j + 1) = copied.j + 1
    <2>1. /\ copied.i + 1 \in 0..(Current.map + Current.quantity)
          /\ copied.j + 1 \in 0..(Current.map + Current.quantity)
      BY <1>1, <1>2, <1>3
    <2> QED
      BY <1>1, <1>2, <2>1, CountersCount DEF Current
  <1>5. PICK v \in {buf[copied.j + 1]} :
           mapping' = [mapping EXCEPT ![TableOf(Current.fc)] = Overwrite(@, copied.i, 1, v)]
    BY <1>1, <1>3 DEF MasterCopy
  <1> QED
    BY <1>1, <1>3, <1>4, <1>5 DEF MasterCopy

LEMMA NextCopy ==
    ASSUME NarrowBlocks, ServiceInv, Next
    PROVE  CopyInv'
  <1> USE DEF CopyInv
  <1>1. IInv /\ CopyInv /\ MutexInv
    BY DEF ServiceInv, IInv
  <1>2. CASE MasterStart \/ MasterGivesUp \/ MasterReadFails \/ MasterUnlock
    BY <1>2 DEF MasterStart, MasterGivesUp, MasterReadFails, MasterUnlock
  <1>3. CASE MasterPoll \/ MasterWrite \/ MasterDelay
    BY <1>3 DEF MasterPoll, MasterWrite, MasterDelay
  <1>4. CASE MasterRead
    <2>1. mpc' = "lock" /\ block' = block /\ Readable(Current)
          /\ buf' = ReadData(device[TableOf(Current.fc)], Current.address % U16, Current.quantity)
      BY <1>4 DEF MasterRead
    <2>2. Len(buf') = Current.quantity
      BY <1>1, <2>1, CurrentBlock, ReadDataLength
    <2> QED
      BY <2>1, <2>2 DEF Current
  <1>5. CASE MasterLock
    <2>1. /\ Readable(Current) /\ Len(buf) = Current.quantity
          /\ mpc' = "copy" /\ UNCHANGED <<block, buf>>
          /\ copied' = [i |-> Counter(Current.fc, Current.map), j |-> 0]
      BY <1>1, <1>5 DEF MasterLock
    <2>2. /\ Current.quantity \in Nat /\ Current.map \in Nat /\ block \in 1..Len(Blocks)
      BY <1>1, CurrentBlock
    <2>3. Counter(Current.fc, Current.map) = Current.map
      <3>1. Current.map \in 0..(Current.map + Current.quantity)
        BY <2>2
      <3> QED
        BY <2>1, <2>2, <3>1, CountersCount DEF Current
    <2> QED
      BY <2>1, <2>2, <2>3 DEF Current
  <1>6. CASE MasterCopy
    <2>1. /\ copied.j < Current.quantity
          /\ copied' = [i |-> copied.i + 1, j |-> copied.j + 1]
          /\ mapping' = [mapping EXCEPT ![TableOf(Current.fc)] =
                            Overwrite(@, Current.map + copied.j, 1, buf[copied.j + 1])]
          /\ UNCHANGED <<mpc, block, buf, owner>>
      BY <1>6, CopyRound
    <2>2. /\ Readable(Current) /\ Len(buf) = Current.quantity
          /\ copied.i = Current.map + copied.j /\ owner = "master"
          /\ \A k \in 1..copied.j : mapping[TableOf(Current.fc)][Current.map + k - 1] = buf[k]
      BY <1>1, <1>6 DEF MasterCopy
    <2>3. /\ copied.i \in Nat /\ copied.j \in Nat /\ Current.map \in Nat /\ Current.quantity \in Nat
          /\ TableOf(Current.fc) \in Tables /\ block \in 1..Len(Blocks)
      BY <1>1, CurrentBlock
    <2>4. /\ TableOf(Current.fc) \in DOMAIN mapping
          /\ DOMAIN mapping[TableOf(Current.fc)] = 0..(TableSize[TableOf(Current.fc)] - 1)
          /\ Current.map + Current.quantity <= TableSize[TableOf(Current.fc)]
          /\ TableSize[TableOf(Current.fc)] \in Nat
      BY <1>1, <2>3, BlockType DEF IInv, TypeOK, Current
    <2> DEFINE t == TableOf(Current.fc)
    <2>5. ASSUME NEW k \in 1..(copied.j + 1)
          PROVE  mapping'[t][Current.map + k - 1] = buf[k]
      <3>1. /\ Current.map + k - 1 \in DOMAIN mapping[t]
            /\ k \in Nat /\ k >= 1
        <4>1. /\ copied.j + 1 <= Current.quantity
              /\ k \in Nat /\ k >= 1 /\ k <= copied.j + 1
          BY <2>1, <2>3
        <4>2. Current.map + k - 1 \in 0..(TableSize[t] - 1)
          BY <2>3, <2>4, <4>1
        <4> QED
          BY <2>4, <4>1, <4>2
      <3>2. mapping'[t] = Overwrite(mapping[t], Current.map + copied.j, 1, buf[copied.j + 1])
        BY <2>1, <2>4
      <3>3. mapping'[t][Current.map + k - 1] =
               IF Current.map + copied.j <= Current.map + k - 1 /\ Current.map + k - 1 < Current.map + copied.j + 1
               THEN buf[copied.j + 1] ELSE mapping[t][Current.map + k - 1]
        BY <3>1, <3>2 DEF Overwrite
      <3>4. CASE k = copied.j + 1
        BY <2>3, <3>3, <3>4
      <3>5. CASE k # copied.j + 1
        <4>1. k \in 1..copied.j /\ ~(Current.map + copied.j <= Current.map + k - 1)
          BY <2>3, <3>5
        <4> QED
          BY <2>2, <3>3, <4>1
      <3> QED
        BY <3>4, <3>5
    <2>6. /\ copied'.j = copied.j + 1 /\ copied'.i = copied.i + 1
          /\ Current' = Current
      BY <2>1 DEF Current
    <2>7. copied'.j <= Current.quantity /\ copied'.i = Current.map + copied'.j
      BY <2>1, <2>2, <2>3, <2>6
    <2> QED
      BY <2>1, <2>2, <2>5, <2>6, <2>7
  <1>7. CASE SlaveLock
    <2>1. UNCHANGED <<mpc, block, buf, copied, mapping>> /\ Lock("slave")
      BY <1>7 DEF SlaveLock, masterVars
    <2>2. mpc = "copy" => owner' = owner
      BY <1>1, <2>1 DEF Lock, MutexInv, MasterInside, NoTask
    <2> QED
      BY <1>1, <2>1, <2>2 DEF Current
  <1>8. CASE SlaveUnlock
    <2>1. UNCHANGED <<mpc, block, buf, copied, mapping>> /\ owner = "slave"
      BY <1>1, <1>8 DEF SlaveUnlock, masterVars, IInv, TypeOK, MutexInv, SlaveInside, NoTask
    <2>2. mpc = "copy" => copied.j = 0
      BY <1>1, <2>1
    <2>3. mpc = "copy" => \A k \in 1..copied.j : FALSE
      BY <2>2
    <2> QED
      BY <1>1, <2>1, <2>2, <2>3 DEF Current
  <1>9. CASE SlaveReply
    <2>1. UNCHANGED <<mpc, block, buf, copied, owner>> /\ owner = "slave"
      BY <1>9 DEF SlaveReply, masterVars
    <2> QED
      BY <1>1, <2>1 DEF Current
  <1>10. CASE UNCHANGED <<mpc, block, buf, copied, owner, mapping>>
    BY <1>1, <1>10 DEF Current
  <1>11. CASE SlaveAccept \/ SlaveReceive \/ SlaveIssue \/ SlaveSend \/ DeviceChange
    BY <1>10, <1>11 DEF SlaveAccept, SlaveReceive, SlaveIssue, SlaveSend, DeviceChange, masterVars
  <1> QED
    BY <1>2, <1>3, <1>4, <1>5, <1>6, <1>7, <1>8, <1>9, <1>11 DEF Next, SlaveStep, MasterStep

LEMMA NextMap ==
    ASSUME IInv, MapInv, Next
    PROVE  MapInv'
  <1> USE DEF MapInv
  <1>1. CASE SlaveReply
    <2>1. mapping' = mapping \/ mapping' = Served(query, mapping)
      BY <1>1 DEF SlaveReply
    <2> QED
      BY <2>1 DEF Served
  <1>2. CASE MasterCopy
    BY <1>2 DEF MasterCopy
  <1>3. CASE UNCHANGED mapping
    BY <1>3
  <1>4. CASE SlaveAccept \/ SlaveReceive \/ SlaveIssue \/ SlaveLock \/ SlaveSend \/ SlaveUnlock
    BY <1>3, <1>4 DEF SlaveAccept, SlaveReceive, SlaveIssue, SlaveLock, SlaveSend, SlaveUnlock
  <1>5. CASE MasterStart \/ MasterGivesUp \/ MasterRead \/ MasterReadFails \/ MasterLock
    BY <1>3, <1>5 DEF MasterStart, MasterGivesUp, MasterRead, MasterReadFails, MasterLock
  <1>6. CASE MasterUnlock \/ MasterPoll \/ MasterWrite \/ MasterDelay \/ DeviceChange
    BY <1>3, <1>6 DEF MasterUnlock, MasterPoll, MasterWrite, MasterDelay, DeviceChange
  <1> QED
    BY <1>1, <1>2, <1>4, <1>5, <1>6 DEF Next, SlaveStep, MasterStep

LEMMA ServiceInvariant ==
    ASSUME NarrowBlocks
    PROVE  Spec => []ServiceInv
  <1>1. Init => ServiceInv
    BY InitInvariant, InitService DEF ServiceInv
  <1>2. ServiceInv /\ [Next]_vars => ServiceInv'
    <2>1. ASSUME ServiceInv, Next PROVE ServiceInv'
      BY <2>1, NextType, NextMessageHeld, NextMutex, NextAccounts, NextRequest, NextCopy, NextMap
         DEF ServiceInv, IInv
    <2>2. ASSUME ServiceInv, UNCHANGED vars PROVE ServiceInv'
      BY <2>2, StutterInvariant
         DEF ServiceInv, RequestInv, CopyInv, MapInv, Current, vars, slaveVars, masterVars
    <2> QED
      BY <2>1, <2>2
  <1> QED
    BY <1>1, <1>2, PTL DEF Spec
-----------------------------------------------------------------------------
(* What BridgeService says of requests, messages and blocks in its own     *)
(* name is what Bridge says.                                               *)
LEMMA SameRequests ==
    ASSUME NEW q
    PROVE  /\ Service!Accepted(q) <=> Accepted(q)
           /\ Service!Forwardable(q) <=> Forwardable(q)
           /\ Service!MessageOf(q) = MessageOf(q)
  BY DEF Accepted, AcceptedRead, AcceptedWrite, AcceptedWriteRead, ReadLimit, InTable, TableOf,
     Forwardable, MessageOf, ReadFunctions, FC_READ_COILS, FC_READ_DISCRETE_INPUTS,
     FC_READ_HOLDING_REGISTERS, FC_READ_INPUT_REGISTERS, FC_WRITE_SINGLE_COIL,
     FC_WRITE_SINGLE_REGISTER, FC_WRITE_MULTIPLE_COILS, FC_WRITE_MULTIPLE_REGISTERS,
     FC_WRITE_AND_READ_REGISTERS, FC_REPORT_SLAVE_ID,
     Service!Accepted, Service!AcceptedRead, Service!AcceptedWrite, Service!AcceptedWriteRead,
     Service!ReadLimit, Service!InTable, Service!TableOf, Service!Forwardable, Service!MessageOf,
     Service!ReadFunctions, Service!FC_READ_COILS, Service!FC_READ_DISCRETE_INPUTS,
     Service!FC_READ_HOLDING_REGISTERS, Service!FC_READ_INPUT_REGISTERS,
     Service!FC_WRITE_SINGLE_COIL, Service!FC_WRITE_SINGLE_REGISTER,
     Service!FC_WRITE_MULTIPLE_COILS, Service!FC_WRITE_MULTIPLE_REGISTERS,
     Service!FC_WRITE_AND_READ_REGISTERS, Service!FC_REPORT_SLAVE_ID

LEMMA SameTables ==
    ASSUME NEW q, NEW tables, Service!Accepted(q) <=> Accepted(q)
    PROVE  /\ Service!Served(q, tables) = Served(q, tables)
           /\ Service!Answer(q, tables) = Answer(q, tables)
           /\ Service!NoAnswer = NoAnswer
  BY DEF Served, Answer, NoAnswer, Overwrite, ReadData, TableOf, ReadFunctions,
     FC_READ_COILS, FC_READ_DISCRETE_INPUTS,
     FC_READ_HOLDING_REGISTERS, FC_READ_INPUT_REGISTERS, FC_WRITE_SINGLE_COIL,
     FC_WRITE_SINGLE_REGISTER, FC_WRITE_MULTIPLE_COILS, FC_WRITE_MULTIPLE_REGISTERS,
     FC_WRITE_AND_READ_REGISTERS, FC_READ_EXCEPTION_STATUS,
     Service!Served, Service!Answer, Service!NoAnswer, Service!Overwrite, Service!ReadData,
     Service!TableOf, Service!ReadFunctions, Service!FC_READ_COILS,
     Service!FC_READ_DISCRETE_INPUTS, Service!FC_READ_HOLDING_REGISTERS,
     Service!FC_READ_INPUT_REGISTERS, Service!FC_WRITE_SINGLE_COIL,
     Service!FC_WRITE_SINGLE_REGISTER, Service!FC_WRITE_MULTIPLE_COILS,
     Service!FC_WRITE_MULTIPLE_REGISTERS, Service!FC_WRITE_AND_READ_REGISTERS,
     Service!FC_READ_EXCEPTION_STATUS

LEMMA SameBlocks ==
    ASSUME NEW b, NEW data, NEW tables
    PROVE  /\ Service!Readable(b) <=> Readable(b)
           /\ Service!TableOf(b.fc) = TableOf(b.fc)
           /\ Service!Refreshed(b, data, tables) = Refreshed(b, data, tables)
  BY DEF Readable, ReadLimit, TableOf, Refreshed, FC_READ_COILS, FC_READ_DISCRETE_INPUTS,
     FC_READ_HOLDING_REGISTERS, FC_READ_INPUT_REGISTERS,
     Service!Readable, Service!ReadLimit, Service!TableOf, Service!Refreshed,
     Service!FC_READ_COILS, Service!FC_READ_DISCRETE_INPUTS,
     Service!FC_READ_HOLDING_REGISTERS, Service!FC_READ_INPUT_REGISTERS

LEMMA SameReads ==
    ASSUME NEW table, NEW a, NEW n
    PROVE  Service!ReadData(table, a, n) = ReadData(table, a, n)
  BY DEF ReadData, Service!ReadData

LEMMA SameAddresses ==
    ASSUME NEW a
    PROVE  Service!DeviceAddress(a, Blocks) = DeviceAddress(a, Blocks)
  BY DEF DeviceAddress, AddressOffset, FirstCovering, Covers, Int16,
     Service!DeviceAddress, Service!AddressOffset, Service!FirstCovering, Service!Covers,
     Service!Int16

LEMMA SameWrites ==
    ASSUME NEW m, NEW tables
    PROVE  /\ Service!Writable(m) <=> Writable(m)
           /\ Service!Written(m, tables) = Written(m, tables)
  <1> DEFINE a == DeviceAddress(m.address, Blocks)
  <1>1. Service!DeviceAddress(m.address, Blocks) = a
    BY SameAddresses
  <1> HIDE DEF a
  <1>2. Service!Writable(m) <=> Writable(m)
    <2>1. DeviceAddress(m.address, Blocks) = a
      BY DEF a
    <2> QED
      BY <1>1, <2>1 DEF Writable, FC_WRITE_SINGLE_REGISTER,
         Service!Writable, Service!FC_WRITE_SINGLE_REGISTER
  <1>3. Service!Written(m, tables) = Written(m, tables)
    <2>1. DeviceAddress(m.address, Blocks) = a
      BY DEF a
    <2> QED
      BY <1>1, <2>1 DEF Written, Overwrite, Service!Written, Service!Overwrite
  <1> QED
    BY <1>2, <1>3
-----------------------------------------------------------------------------
(* The image and the sample change only with the map, the mutex and the    *)
(* master.                                                                 *)
LEMMA MasterAside ==
    ASSUME UNCHANGED <<mapping, owner, mpc, block, buf>>
    PROVE  Image' = Image /\ Sample' = Sample
  BY DEF Image, Sample, Refreshing, Sampled, Current

(* At the end of the copy the map is what the block makes of it. *)
LEMMA CopyDone ==
    ASSUME ServiceInv, mpc = "copy", owner = "master", ~Copying
    PROVE  Refreshed(Current, buf, mapping) = mapping
  <1> DEFINE t == TableOf(Current.fc)
  <1>1. /\ copied.j <= Current.quantity /\ copied.i = Current.map + copied.j
        /\ ~(copied.i < Current.map + Current.quantity)
        /\ \A k \in 1..copied.j : mapping[t][Current.map + k - 1] = buf[k]
    BY DEF ServiceInv, CopyInv, Copying
  <1>2. /\ copied.i \in Nat /\ copied.j \in Nat /\ Current.map \in Nat /\ Current.quantity \in Nat
        /\ t \in Tables
    BY CurrentBlock DEF ServiceInv
  <1>3. copied.j = Current.quantity
    BY <1>1, <1>2
  <1>4. /\ mapping = [x \in Tables |-> mapping[x]]
        /\ mapping[t] \in [0..(TableSize[t] - 1) -> Value]
        /\ TableSize[t] \in Nat
    BY <1>2, TablesAssumption DEF ServiceInv, MapInv, IInv, TypeOK
  <1>5. ASSUME NEW k \in DOMAIN mapping[t], Current.map <= k, k < Current.map + Current.quantity
        PROVE  buf[k - Current.map + 1] = mapping[t][k]
    <2>1. k \in Nat
      BY <1>4
    <2>2. k - Current.map + 1 \in 1..copied.j /\ Current.map + (k - Current.map + 1) - 1 = k
      BY <1>2, <1>3, <1>5, <2>1
    <2> QED
      BY <1>1, <2>2
  <1> DEFINE whole == [k \in DOMAIN mapping[t] |->
                          IF Current.map <= k /\ k < Current.map + Current.quantity
                          THEN buf[k - Current.map + 1] ELSE mapping[t][k]]
  <1>6. whole = mapping[t]
    <2>1. \A k \in DOMAIN mapping[t] : whole[k] = mapping[t][k]
      BY <1>5
    <2>2. mapping[t] = [k \in DOMAIN mapping[t] |-> mapping[t][k]]
      BY <1>4
    <2> QED
      BY <2>1, <2>2
  <1>7. Refreshed(Current, buf, mapping) = [mapping EXCEPT ![t] = whole]
    BY DEF Refreshed
  <1> HIDE DEF t, whole
  <1> QED
    BY <1>2, <1>4, <1>6, <1>7

(* The slave task's part. *)
LEMMA IssueTakes ==
    ASSUME ServiceInv, SlaveIssue
    PROVE  Service!Take \/ UNCHANGED Service!vars
  <1>1. Image' = Image /\ Sample' = Sample /\ UNCHANGED <<device, reply, message>>
    BY MasterAside DEF SlaveIssue, masterVars
  <1>2. CASE UNCHANGED queue
    BY <1>1, <1>2 DEF Service!vars, InFlight
  <1>3. CASE Forwardable(query) /\ queue' = Append(queue, MessageOf(query))
    <2>1. query \in Requests
      BY DEF ServiceInv, RequestInv, SlaveIssue
    <2>2. MessageOf(query) \in MessageType
      BY <1>3, MessageOfType DEF ServiceInv, IInv, TypeOK
    <2>3. InFlight' = Append(InFlight, MessageOf(query))
      BY <1>1, <1>3, <2>2, InFlightForwarded DEF ServiceInv
    <2> QED
      BY <1>1, <1>3, <2>1, <2>3, SameRequests DEF Service!Take
  <1> QED
    BY <1>2, <1>3 DEF SlaveIssue, MessageIssue

LEMMA ReplyServes ==
    ASSUME ServiceInv, SlaveReply
    PROVE  Service!Serve
  <1>1. /\ Image = mapping /\ Image' = mapping' /\ Sample' = Sample
        /\ UNCHANGED <<device, message, queue>>
    BY DEF SlaveReply, masterVars, Image, Sample, Refreshing, Sampled
  <1>2. query \in Requests /\ reply = NoAnswer
    BY DEF ServiceInv, RequestInv, SlaveReply
  <1>3. /\ mapping' = IF Accepted(query) THEN Served(query, mapping) ELSE mapping
        /\ reply' = Answer(query, mapping')
    BY DEF SlaveReply
  <1>4. Service!Accepted(query) <=> Accepted(query)
    BY SameRequests
  <1>5. /\ Service!Served(query, Image) = Served(query, mapping)
        /\ Service!NoAnswer = NoAnswer
    BY <1>1, <1>4, SameTables
  <1>6. Service!Answer(query, mapping') = Answer(query, mapping')
    BY <1>4, SameTables
  <1> QED
    BY <1>1, <1>2, <1>3, <1>4, <1>5, <1>6 DEF Service!Serve, InFlight

LEMMA SendFinishes ==
    ASSUME ServiceInv, SlaveSend
    PROVE  Service!Finish
  <1>1. Image' = Image /\ Sample' = Sample /\ UNCHANGED <<device, message, queue>>
    BY MasterAside DEF SlaveSend, masterVars
  <1>2. reply # NoAnswer /\ reply' = NoAnswer
    BY DEF ServiceInv, RequestInv, SlaveSend
  <1> QED
    BY <1>1, <1>2 DEF Service!Finish, Service!NoAnswer, NoAnswer, InFlight

(* The master gets the mutex: from here on the client sees the whole block.*)
LEMMA OwnerRefreshes ==
    ASSUME ServiceInv, Sampled, mpc' = "copy", owner' = "master",
           UNCHANGED <<mapping, device, block, buf, reply, message, queue>>
    PROVE  Service!Refresh
  <1>1. /\ Sample = [block |-> block, data |-> buf] /\ Sample' = [block |-> 0, data |-> <<>>]
        /\ Image = mapping /\ Image' = Refreshed(Current, buf, mapping)
    BY DEF Sample, Sampled, Image, Refreshing, Current
  <1>2. block # 0
    BY DEF ServiceInv, IInv, TypeOK
  <1>3. /\ Blocks[Sample.block] = Current /\ Sample.data = buf
        /\ Sample # [block |-> 0, data |-> <<>>]
    BY <1>1, <1>2 DEF Current
  <1>4. Service!Refreshed(Blocks[Sample.block], Sample.data, Image) = Refreshed(Current, buf, mapping)
    BY <1>1, <1>3, SameBlocks
  <1> QED
    BY <1>1, <1>3, <1>4 DEF Service!Refresh, Service!NoSample, InFlight

LEMMA MutexStutters ==
    ASSUME ServiceInv, SlaveLock \/ SlaveUnlock
    PROVE  Service!Refresh \/ UNCHANGED Service!vars
  <1>1. UNCHANGED <<mapping, device, reply, mpc, block, buf, message, queue>>
    BY DEF SlaveLock, SlaveUnlock, masterVars
  <1>2. CASE owner' = owner \/ mpc # "copy"
    <2>1. Image' = Image /\ Sample' = Sample
      BY <1>1, <1>2 DEF Image, Sample, Refreshing, Sampled, Current
    <2> QED
      BY <1>1, <2>1 DEF Service!vars, InFlight
  <1>3. CASE owner' # owner /\ mpc = "copy"
    <2>1. /\ MutexInv /\ owner \in {"slave", "master", NoTask}
      BY DEF ServiceInv, IInv, TypeOK
    <2>2. SlaveUnlock
      BY <1>3, <2>1 DEF SlaveLock, Lock, MutexInv, MasterInside, NoTask
    <2>3. owner = "slave" /\ waiting = <<"master">>
      BY <1>3, <2>1, <2>2 DEF SlaveUnlock, MutexInv, MasterInside, SlaveInside, NoTask
    <2>4. owner' = "master"
      BY <2>2, <2>3, OneWaiting DEF SlaveUnlock, Unlock
    <2> QED
      BY <1>1, <1>3, <2>3, <2>4, OwnerRefreshes DEF Sampled
  <1> QED
    BY <1>2, <1>3

(* The master task's part. *)
LEMMA ReadPolls ==
    ASSUME ServiceInv, MasterRead
    PROVE  Service!Poll
  <1>1. /\ mpc = "read" /\ mpc' = "lock" /\ Readable(Current)
        /\ buf' = ReadData(device[TableOf(Current.fc)], Current.address % U16, Current.quantity)
        /\ UNCHANGED <<mapping, owner, device, block, reply, message, queue>>
    BY DEF MasterRead, slaveVars
  <1>2. /\ Image' = Image /\ Sample = [block |-> 0, data |-> <<>>]
        /\ Sample' = [block |-> block, data |-> buf']
    BY <1>1 DEF Image, Sample, Refreshing, Sampled
  <1>3. block \in 1..Len(Blocks) /\ Blocks[block] = Current
    BY DEF ServiceInv, IInv, TypeOK, Current
  <1>4. /\ Service!Readable(Current)
        /\ buf' = Service!ReadData(device[Service!TableOf(Current.fc)], Current.address % U16, Current.quantity)
    BY <1>1, SameBlocks, SameReads
  <1> QED
    BY <1>1, <1>2, <1>3, <1>4 DEF Service!Poll, Service!NoSample, InFlight

LEMMA LockRefreshes ==
    ASSUME ServiceInv, MasterLock
    PROVE  Service!Refresh \/ UNCHANGED Service!vars
  <1>1. /\ mpc = "lock" /\ mpc' = "copy"
        /\ UNCHANGED <<mapping, device, block, buf, reply, message, queue>>
    BY DEF MasterLock, slaveVars
  <1>2. CASE owner' = "master"
    BY <1>1, <1>2, OwnerRefreshes DEF Sampled
  <1>3. CASE owner' # "master"
    <2>1. Image' = Image /\ Sample' = Sample
      BY <1>1, <1>3 DEF Image, Sample, Refreshing, Sampled
    <2> QED
      BY <1>1, <2>1 DEF Service!vars, InFlight
  <1> QED
    BY <1>2, <1>3

(* A round of the copy writes what the client already sees. *)
LEMMA CopyStutters ==
    ASSUME NarrowBlocks, ServiceInv, MasterCopy
    PROVE  UNCHANGED Service!vars
  <1> DEFINE t == TableOf(Current.fc)
             a == Current.map + copied.j
  <1>1. /\ mpc = "copy" /\ owner = "master" /\ copied.j < Current.quantity
        /\ mapping' = [mapping EXCEPT ![t] = Overwrite(@, a, 1, buf[copied.j + 1])]
        /\ UNCHANGED <<mpc, block, buf, owner>>
    BY CopyRound DEF MasterCopy
  <1>2. UNCHANGED <<device, reply, message, queue>>
    BY DEF MasterCopy, slaveVars
  <1>3. /\ copied.j \in Nat /\ Current.map \in Nat /\ Current.quantity \in Nat
        /\ t \in Tables
    BY CurrentBlock DEF ServiceInv
  <1>4. /\ mapping = [x \in Tables |-> mapping[x]]
        /\ DOMAIN mapping[t] = 0..(TableSize[t] - 1) /\ TableSize[t] \in Nat
    BY <1>3, TablesAssumption DEF ServiceInv, MapInv, IInv, TypeOK
  <1>5. mapping'[t] = Overwrite(mapping[t], a, 1, buf[copied.j + 1])
    BY <1>1, <1>3, <1>4
  <1>6. /\ DOMAIN mapping'[t] = DOMAIN mapping[t]
        /\ \A k \in DOMAIN mapping[t] :
              mapping'[t][k] = IF a <= k /\ k < a + 1 THEN buf[copied.j + 1] ELSE mapping[t][k]
    BY <1>5 DEF Overwrite
  <1>7. ASSUME NEW k \in DOMAIN mapping[t]
        PROVE  (IF Current.map <= k /\ k < Current.map + Current.quantity
                THEN buf[k - Current.map + 1] ELSE mapping'[t][k])
               = (IF Current.map <= k /\ k < Current.map + Current.quantity
                  THEN buf[k - Current.map + 1] ELSE mapping[t][k])
    <2>1. k \in Int
      BY <1>4
    <2>2. CASE a <= k /\ k < a + 1
      BY <1>1, <1>3, <2>1, <2>2
    <2>3. CASE ~(a <= k /\ k < a + 1)
      BY <1>6, <2>3
    <2> QED
      BY <2>2, <2>3
  <1>8. Refreshed(Current, buf, mapping') = Refreshed(Current, buf, mapping)
    <2> DEFINE f(m) == [k \in DOMAIN m[t] |-> IF Current.map <= k /\ k < Current.map + Current.quantity
                                              THEN buf[k - Current.map + 1] ELSE m[t][k]]
    <2>1. f(mapping') = f(mapping)
      BY <1>6, <1>7
    <2>2. /\ Refreshed(Current, buf, mapping) = [mapping EXCEPT ![t] = f(mapping)]
          /\ Refreshed(Current, buf, mapping') = [mapping' EXCEPT ![t] = f(mapping')]
      BY DEF Refreshed
    <2>3. [mapping' EXCEPT ![t] = f(mapping)] = [mapping EXCEPT ![t] = f(mapping)]
      <3> HIDE DEF f, a
      <3> QED
        BY <1>1, <1>4
    <2> QED
      BY <2>1, <2>2, <2>3
  <1>9. Image' = Image /\ Sample' = Sample
    BY <1>1, <1>8 DEF Image, Sample, Refreshing, Sampled, Current
  <1> QED
    BY <1>2, <1>9 DEF Service!vars, InFlight

LEMMA UnlockStutters ==
    ASSUME ServiceInv, MasterUnlock
    PROVE  UNCHANGED Service!vars
  <1>1. /\ mpc = "copy" /\ owner = "master" /\ ~Copying /\ mpc' = "poll"
        /\ UNCHANGED <<mapping, device, reply, message, queue>>
    BY DEF MasterUnlock, slaveVars
  <1>2. Refreshed(Current, buf, mapping) = mapping
    BY <1>1, CopyDone
  <1>3. Image' = Image /\ Sample' = Sample
    BY <1>1, <1>2 DEF Image, Sample, Refreshing, Sampled
  <1> QED
    BY <1>1, <1>3 DEF Service!vars, InFlight

LEMMA WritePerforms ==
    ASSUME ServiceInv, MasterWrite
    PROVE  Service!Perform
  <1>1. /\ mpc = "write" /\ mpc' = "delay"
        /\ UNCHANGED <<mapping, owner, block, buf, reply>>
        /\ \/ Writable(Head(message)) /\ device' = Written(Head(message), device)
           \/ UNCHANGED device
    BY DEF MasterWrite, slaveVars
  <1>2. Image' = Image /\ Sample' = Sample
    BY <1>1 DEF Image, Sample, Refreshing, Sampled
  <1>3. InFlight # <<>> /\ InFlight' = Tail(InFlight)
    BY InFlightWritten DEF ServiceInv
  <1>4. Head(InFlight) = Head(message)
    <2>1. message # <<>> /\ message \in Seq(MessageType) /\ Len(message) <= 1 /\ queue \in Seq(MessageType)
      BY <1>1 DEF ServiceInv, IInv, MessageHeld, TypeOK
    <2>2. message = <<Head(message)>> /\ Head(message) \in MessageType
      BY <2>1, OneHeld
    <2>3. PICK m \in MessageType : message = <<m>>
      BY <2>2
    <2>4. Head(<<m>> \o queue) = m /\ Head(<<m>>) = m
      BY <2>1
    <2> QED
      BY <2>3, <2>4 DEF InFlight
  <1> QED
    BY <1>1, <1>2, <1>3, <1>4, SameWrites DEF Service!Perform

LEMMA QueueStutters ==
    ASSUME ServiceInv, MasterPoll \/ MasterDelay \/ MasterStart \/ MasterGivesUp \/ MasterReadFails
    PROVE  UNCHANGED Service!vars
  <1>1. /\ UNCHANGED <<mapping, device, owner, buf, reply>>
        /\ mpc \notin {"lock", "copy"} /\ mpc' \notin {"lock", "copy"}
    BY DEF MasterPoll, MasterDelay, MasterStart, MasterGivesUp, MasterReadFails, slaveVars
  <1>2. Image' = Image /\ Sample' = Sample
    BY <1>1 DEF Image, Sample, Refreshing, Sampled
  <1>3. InFlight' = InFlight
    BY InFlightPolled DEF ServiceInv, MasterDelay, MasterStart, MasterGivesUp, MasterReadFails, InFlight
  <1> QED
    BY <1>1, <1>2, <1>3 DEF Service!vars

LEMMA DeviceChanges ==
    ASSUME DeviceChange
    PROVE  Service!DeviceChange
  <1>1. Image' = Image /\ Sample' = Sample
    BY MasterAside DEF DeviceChange, masterVars
  <1> QED
    BY <1>1 DEF DeviceChange, Service!DeviceChange, slaveVars, masterVars, InFlight

(* Every step is a step of the service or invisible in it. *)
LEMMA NextImplements ==
    ASSUME NarrowBlocks, ServiceInv, Next
    PROVE  Service!Next \/ UNCHANGED Service!vars
  <1>1. CASE SlaveIssue \/ SlaveReply \/ SlaveSend \/ SlaveLock \/ SlaveUnlock
    BY <1>1, IssueTakes, ReplyServes, SendFinishes, MutexStutters DEF Service!Next
  <1>2. CASE MasterRead \/ MasterLock \/ MasterCopy \/ MasterUnlock \/ MasterWrite
    BY <1>2, ReadPolls, LockRefreshes, CopyStutters, UnlockStutters, WritePerforms DEF Service!Next
  <1>3. CASE MasterPoll \/ MasterDelay \/ MasterStart \/ MasterGivesUp \/ MasterReadFails
    BY <1>3, QueueStutters
  <1>4. CASE DeviceChange
    BY <1>4, DeviceChanges DEF Service!Next
  <1>5. CASE SlaveAccept \/ SlaveReceive
    <2>1. UNCHANGED <<device, reply, message, queue>> /\ Image' = Image /\ Sample' = Sample
      BY <1>5, MasterAside DEF SlaveAccept, SlaveReceive, masterVars
    <2> QED
      BY <2>1 DEF Service!vars, InFlight
  <1> QED
    BY <1>1, <1>2, <1>3, <1>4, <1>5 DEF Next, SlaveStep, MasterStep

LEMMA InitImplements == Init => Service!Init
  <1> SUFFICES ASSUME Init PROVE Service!Init
    OBVIOUS
  <1>1. Image = mapping /\ Sample = [block |-> 0, data |-> <<>>] /\ InFlight = <<>>
    BY DEF Init, Image, Sample, Refreshing, Sampled, InFlight
  <1> QED
    BY <1>1 DEF Init, Service!Init, Service!NoSample, Service!NoAnswer, NoAnswer, Tables, Service!Tables
-----------------------------------------------------------------------------
(* The bridge is linearizable for its client: although the map is copied   *)
(* entry by entry and the writes pass a pool, a queue and the master's     *)
(* hand, every request is served in one step on an image of the device, a  *)
(* poll refreshes a whole block from one instant of the device, and the    *)
(* writes taken reach the device one by one in the order they were         *)
(* received, each at most once (modbus_slave.c:165-245,                    *)
(* modbus_master.c:283-362).                                               *)
THEOREM Linearizable ==
    ASSUME NarrowBlocks
    PROVE  Spec => ImplementsService
  <1>1. ServiceInv /\ [Next]_vars => [Service!Next]_(Service!vars)
    <2>1. ASSUME ServiceInv, UNCHANGED vars PROVE UNCHANGED Service!vars
      BY <2>1, MasterAside DEF vars, slaveVars, masterVars, Service!vars, InFlight
    <2> QED
      BY <2>1, NextImplements
  <1>2. Spec => []ServiceInv
    BY ServiceInvariant
  <1> QED
    BY <1>1, <1>2, InitImplements, PTL DEF Spec, ImplementsService, Service!Spec
=============================================================================
