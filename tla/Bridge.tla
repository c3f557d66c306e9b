------------------------------- MODULE Bridge -------------------------------
(***************************************************************************)
(* The two tasks of the bridge and what they share.  The slave task        *)
(* (modbus_slave.c) serves one Modbus TCP client from the map mb_mapping;  *)
(* the master task (modbus_master.c) polls the device into the map block   *)
(* by block and performs the register writes the slave task queued for it. *)
(* They share the map under mb_mapping_mutex, the message pool and the     *)
(* master's message queue.                                                 *)
(*                                                                         *)
(* A step is what a task does between two points where the other may run.  *)
(***************************************************************************)
EXTENDS ModbusTables, MessagePool

CONSTANT HeapSize   (* register buffers the heap has room for               *)

ASSUME HeapAssumption == HeapSize \in Nat

NoTask == "none"

VARIABLES mapping,  (* mb_mapping: the four tables                          *)
          device,   (* the tables of the device                             *)
          owner,    (* OWNER_TD of mb_mapping_mutex                         *)
          waiting,  (* its WAITING_TASKS                                    *)
          spc,      (* where the slave task is                              *)
          query,    (* the request modbus_reply is still to look at         *)
          reply,    (* the answer it built, until it is sent or lost        *)
          mpc,      (* where the master task is                             *)
          block,    (* index of the current polling block                   *)
          buf,      (* what the last successful read put in its table       *)
          copied,   (* i and j of the copy loop                             *)
          message,  (* the message the master took from its queue, if any   *)
          queue,    (* the master's message queue, once opened              *)
          opened,
          pool,     (* MODBUS_msg_pool                                      *)
          heap      (* register buffers that can still be allocated         *)

slaveVars  == <<spc, query, reply>>
masterVars == <<mpc, block, buf, copied, message, opened>>
vars == <<mapping, device, owner, waiting, slaveVars, masterVars, queue, pool, heap>>

TypeOK ==
    /\ DOMAIN mapping = Tables
    /\ \A t \in Tables : mapping[t] \in [0..(TableSize[t] - 1) -> Value]
    /\ device \in DeviceType
    /\ owner \in {"slave", "master", NoTask}
    /\ waiting \in Seq({"slave", "master"})
    /\ spc \in {"accept", "receive", "issue", "lock", "reply", "send",
               "unlock", "drop", "blocked"}
    /\ query \in RequestType
    /\ reply \in ReplyType
    /\ mpc \in {"start", "read", "lock", "copy", "poll", "write", "delay", "blocked"}
    /\ block \in 1..Len(Blocks)
    /\ buf \in Seq(Value)
    /\ copied \in [i : Nat, j : Nat]
    /\ message \in Seq(MessageType) /\ Len(message) <= 1
    /\ queue \in Seq(MessageType)
    /\ opened \in BOOLEAN
    /\ pool \in PoolType
    /\ heap \in 0..HeapSize
-----------------------------------------------------------------------------
(* MQX mutex of the queueing kind: unlocking hands the mutex to the first  *)
(* task waiting, so a task that waits becomes the owner without a step.    *)
Lock(task) ==
    IF owner = NoTask
    THEN owner' = task /\ UNCHANGED waiting
    ELSE waiting' = Append(waiting, task) /\ UNCHANGED owner

(* Mutant: the mutex is released without waking a waiting task. *)
UnlockWithoutHandOff == owner' = NoTask /\ UNCHANGED waiting

Unlock ==
    IF waiting = <<>>
    THEN owner' = NoTask /\ UNCHANGED waiting
    ELSE owner' = Head(waiting) /\ waiting' = Tail(waiting)

Init ==
    /\ mapping = [t \in Tables |-> [k \in 0..(TableSize[t] - 1) |-> Zero]]
    /\ device \in DeviceInit
    /\ owner = NoTask /\ waiting = <<>>
    /\ spc = "accept" /\ query = NoRequest /\ reply = NoAnswer
    /\ mpc = "start" /\ block = 1 /\ buf = <<>> /\ copied = [i |-> 0, j |-> 0]
    /\ message = <<>> /\ queue = <<>> /\ opened = FALSE
    /\ pool = CreatedPool /\ heap = HeapSize
-----------------------------------------------------------------------------
(* modbus_slave_task *)

SlaveAccept ==
    /\ spc = "accept"
    /\ spc' = "receive"
    /\ UNCHANGED <<mapping, device, owner, waiting, query, reply, masterVars, queue, pool, heap>>

(* modbus_receive: a request, or -1 when the client is gone. *)
SlaveReceive ==
    /\ spc = "receive"
    /\ \/ \E q \in Requests : query' = q /\ spc' = "issue"
       \/ spc' = "accept" /\ UNCHANGED query
    /\ UNCHANGED <<mapping, device, owner, waiting, reply, masterVars, queue, pool, heap>>

(* Mutant: a message for a queue that is not open is lost to the pool. *)
MessageIssueLeaks(m) ==
    IF Available(pool) > 0 /\ CanAlloc(pool)
    THEN pool' = AfterAlloc(pool) /\ queue' = IF opened THEN Append(queue, m) ELSE queue
    ELSE UNCHANGED <<queue, pool>>

(* MODBUS_message_issue: nothing is sent when no message is free, and a    *)
(* message for a queue that is not open goes back to the pool.             *)
MessageIssue(m) ==
    IF Available(pool) > 0 /\ CanAlloc(pool) /\ opened
    THEN queue' = Append(queue, m) /\ pool' = AfterAlloc(pool)
    ELSE UNCHANGED <<queue, pool>>

(* Mutant: the slave frees the values once it has issued the message. *)
SlaveIssueFrees ==
    /\ spc = "issue"
    /\ IF ~Forwardable(query)
       THEN spc' = "lock" /\ UNCHANGED <<queue, pool, heap>>
       ELSE IF heap = 0
       THEN spc' = "blocked" /\ UNCHANGED <<queue, pool, heap>>
       ELSE /\ UNCHANGED heap
            /\ MessageIssue(MessageOf(query))
            /\ spc' = "lock"
    /\ UNCHANGED <<mapping, device, owner, waiting, query, reply, masterVars>>

SlaveIssue ==
    /\ spc = "issue"
    /\ IF ~Forwardable(query)
       THEN spc' = "lock" /\ UNCHANGED <<queue, pool, heap>>
       ELSE IF heap = 0
       THEN spc' = "blocked" /\ UNCHANGED <<queue, pool, heap>>
       ELSE /\ heap' = heap - 1
            /\ MessageIssue(MessageOf(query))
            /\ spc' = "lock"
    /\ UNCHANGED <<mapping, device, owner, waiting, query, reply, masterVars>>

SlaveLock ==
    /\ spc = "lock"
    /\ Lock("slave")
    /\ spc' = "reply"
    /\ UNCHANGED <<mapping, device, query, reply, masterVars, queue, pool, heap>>

(* Mutant: modbus_reply does not wait for the mutex. *)
SlaveReplyUnguarded ==
    /\ spc = "reply"
    /\ mapping' = IF Accepted(query) THEN Served(query, mapping) ELSE mapping
    /\ reply' = Answer(query, mapping')
    /\ query' = NoRequest
    /\ spc' = IF reply' = NoAnswer THEN "drop" ELSE "send"
    /\ UNCHANGED <<device, owner, waiting, masterVars, queue, pool, heap>>

(* modbus_reply up to send_msg, once the mutex is held; without an answer  *)
(* it returns -1.                                                          *)
SlaveReply ==
    /\ spc = "reply" /\ owner = "slave"
    /\ mapping' = IF Accepted(query) THEN Served(query, mapping) ELSE mapping
    /\ reply' = Answer(query, mapping')
    /\ query' = NoRequest
    /\ spc' = IF reply' = NoAnswer THEN "drop" ELSE "send"
    /\ UNCHANGED <<device, owner, waiting, masterVars, queue, pool, heap>>

(* send_msg still runs under the mutex; the connection may be gone. *)
SlaveSend ==
    /\ spc = "send"
    /\ spc' \in {"unlock", "drop"}
    /\ reply' = NoAnswer
    /\ UNCHANGED <<mapping, device, owner, waiting, query, masterVars, queue, pool, heap>>

(* Mutant: a -1 leaves the loop before the mutex is unlocked. *)
SlaveUnlockForgotten ==
    /\ spc \in {"unlock", "drop"}
    /\ IF spc = "drop" THEN UNCHANGED <<owner, waiting>> ELSE Unlock
    /\ spc' = IF spc = "drop" THEN "accept" ELSE "receive"
    /\ UNCHANGED <<mapping, device, query, reply, masterVars, queue, pool, heap>>

(* Back to the next request, or to the next client after a -1. *)
SlaveUnlock ==
    /\ spc \in {"unlock", "drop"}
    /\ Unlock
    /\ spc' = IF spc = "drop" THEN "accept" ELSE "receive"
    /\ UNCHANGED <<mapping, device, query, reply, masterVars, queue, pool, heap>>

SlaveStep == SlaveIssue \/ SlaveLock \/ SlaveReply \/ SlaveSend \/ SlaveUnlock
-----------------------------------------------------------------------------
(* modbus_master_task *)

(* Connected, the polling blocks loaded, the queue opened. *)
MasterStart ==
    /\ mpc = "start"
    /\ mpc' = "read" /\ opened' = TRUE
    /\ UNCHANGED <<mapping, device, owner, waiting, slaveVars,
                   block, buf, copied, message, queue, pool, heap>>

(* One of the configuration, connection, file and memory failures on which *)
(* the task blocks for good; a TCP connection is instead tried again.      *)
MasterGivesUp ==
    /\ mpc = "start"
    /\ mpc' = "blocked"
    /\ UNCHANGED <<mapping, device, owner, waiting, slaveVars,
                   block, buf, copied, message, opened, queue, pool, heap>>

Current == Blocks[block]

MasterRead ==
    /\ mpc = "read"
    /\ Readable(Current)
    /\ buf' = ReadData(device[TableOf(Current.fc)], Current.address % U16, Current.quantity)
    /\ mpc' = "lock"
    /\ UNCHANGED <<mapping, device, owner, waiting, slaveVars,
                   block, copied, message, opened, queue, pool, heap>>

(* Mutant: a failed read skips the poll of the queue. *)
MasterReadFailsSkips ==
    /\ mpc = "read"
    /\ mpc' = "delay"
    /\ UNCHANGED <<mapping, device, owner, waiting, slaveVars,
                   block, buf, copied, message, opened, queue, pool, heap>>

(* No answer, a bad one or an exception: rc differs from the quantity. *)
MasterReadFails ==
    /\ mpc = "read"
    /\ mpc' = "poll"
    /\ UNCHANGED <<mapping, device, owner, waiting, slaveVars,
                   block, buf, copied, message, opened, queue, pool, heap>>

(* The counters of the register loops are uint8_t; memcpy copies bits. *)
Counter(fc, n) ==
    IF fc \in {FC_READ_HOLDING_REGISTERS, FC_READ_INPUT_REGISTERS} THEN n % U8 ELSE n

MasterLock ==
    /\ mpc = "lock"
    /\ Lock("master")
    /\ copied' = [i |-> Counter(Current.fc, Current.map), j |-> 0]
    /\ mpc' = "copy"
    /\ UNCHANGED <<mapping, device, slaveVars, block, buf, message, opened, queue, pool, heap>>

Copying == copied.i < Current.map + Current.quantity

(* One round of the copy loop; past the end of the block's table the value *)
(* read is any.                                                            *)
MasterCopy ==
    /\ mpc = "copy" /\ owner = "master"
    /\ Copying
    /\ \E v \in IF copied.j < Len(buf) THEN {buf[copied.j + 1]} ELSE Value :
          mapping' = [mapping EXCEPT ![TableOf(Current.fc)] = Overwrite(@, copied.i, 1, v)]
    /\ copied' = [i |-> Counter(Current.fc, copied.i + 1), j |-> Counter(Current.fc, copied.j + 1)]
    /\ UNCHANGED <<device, owner, waiting, slaveVars,
                   mpc, block, buf, message, opened, queue, pool, heap>>

(* What the copy no longer needs is forgotten here. *)
MasterUnlock ==
    /\ mpc = "copy" /\ owner = "master"
    /\ ~Copying
    /\ Unlock
    /\ copied' = [i |-> 0, j |-> 0]
    /\ buf' = <<>>
    /\ mpc' = "poll"
    /\ UNCHANGED <<mapping, device, slaveVars, block, message, opened, queue, pool, heap>>

(* _msgq_poll *)
MasterPoll ==
    /\ mpc = "poll"
    /\ IF queue = <<>>
       THEN mpc' = "delay" /\ UNCHANGED <<message, queue>>
       ELSE mpc' = "write" /\ message' = <<Head(queue)>> /\ queue' = Tail(queue)
    /\ UNCHANGED <<mapping, device, owner, waiting, slaveVars,
                   block, buf, copied, opened, pool, heap>>

(* The write is performed, or not: the result is not looked at, and the    *)
(* message and its values are freed.                                       *)
MasterWrite ==
    /\ mpc = "write"
    /\ \/ Writable(Head(message)) /\ device' = Written(Head(message), device)
       \/ UNCHANGED device
    /\ message' = <<>>
    /\ pool' = AfterFree(pool) /\ heap' = heap + 1
    /\ mpc' = "delay"
    /\ UNCHANGED <<mapping, owner, waiting, slaveVars, block, buf, copied, opened, queue>>

(* Mutants: the list is not circular; the same block is polled for ever. *)
MasterDelayPastTail ==
    /\ mpc = "delay"
    /\ block' = block + 1
    /\ mpc' = "read"
    /\ UNCHANGED <<mapping, device, owner, waiting, slaveVars,
                   buf, copied, message, opened, queue, pool, heap>>

MasterDelaySameBlock ==
    /\ mpc = "delay"
    /\ mpc' = "read"
    /\ UNCHANGED <<mapping, device, owner, waiting, slaveVars,
                   block, buf, copied, message, opened, queue, pool, heap>>

MasterDelay ==
    /\ mpc = "delay"
    /\ block' = (block % Len(Blocks)) + 1
    /\ mpc' = "read"
    /\ UNCHANGED <<mapping, device, owner, waiting, slaveVars,
                   buf, copied, message, opened, queue, pool, heap>>

MasterStep ==
    \/ MasterRead \/ MasterReadFails \/ MasterLock \/ MasterCopy \/ MasterUnlock
    \/ MasterPoll \/ MasterWrite \/ MasterDelay
-----------------------------------------------------------------------------
(* The device changes on its own. *)
DeviceChange ==
    /\ \E d \in DeviceStates : device' = d
    /\ UNCHANGED <<mapping, owner, waiting, slaveVars, masterVars, queue, pool, heap>>

Next == SlaveAccept \/ SlaveReceive \/ SlaveStep \/ MasterStart \/ MasterGivesUp \/ MasterStep \/ DeviceChange

Spec == Init /\ [][Next]_vars

(* Each task goes on whenever it can: the tasks share one priority and     *)
(* leave the processor at every blocking call, and the mutex is handed to  *)
(* the task that waits.  The client owes nothing (SlaveAccept and          *)
(* SlaveReceive have no fairness) except that it takes its answer or the   *)
(* connection breaks (SlaveSend).                                          *)
FairSpec == Spec /\ WF_vars(SlaveStep) /\ WF_vars(MasterStep) /\ WF_vars(MasterStart)
-----------------------------------------------------------------------------
(* The messages between modbus_message_issue and the end of their write. *)
InFlight == message \o queue

(* mb_mapping_mutex: at most one task is past _mutex_lock and not past     *)
(* _mutex_unlock; the mutex is free only when neither is inside, and a     *)
(* task that waits has not started its work on the map                     *)
(* (modbus_slave.c:237-239, modbus_master.c:308-312).                      *)
SlaveInside  == spc \in {"reply", "send", "unlock", "drop"}
MasterInside == mpc = "copy"

MutexInv ==
    /\ owner = NoTask  => ~SlaveInside /\ ~MasterInside /\ waiting = <<>>
    /\ owner = "slave" => SlaveInside /\ waiting = IF MasterInside THEN <<"master">> ELSE <<>>
    /\ owner = "master" =>
          /\ MasterInside
          /\ waiting = IF SlaveInside THEN <<"slave">> ELSE <<>>
          /\ SlaveInside => spc = "reply"

(* No message leaks from the pool and none is freed twice: those that      *)
(* exist are free, queued, or held by the master (modbus_slave.c:258-285,  *)
(* modbus_master.c:330-357, msg.c).                                        *)
PoolInv == pool.size + Len(InFlight) = pool.max

(* The register buffers of the messages in flight are allocated, so the    *)
(* master never frees one twice (modbus_master.c:353-355).                 *)
BuffersAllocated == heap + Len(InFlight) <= HeapSize

(* A write that modbus_reply refuses to the client never changes the       *)
(* device, although modbus_slave_task forwards a write before modbus_reply *)
(* looks at it and compares less: the three checks of the slave, of        *)
(* modbus_reply and of the master have to fit together.                    *)
RefusedWritesHarmless ==
    \A k \in 1..Len(InFlight) :
        Writable(InFlight[k]) =>
            /\ InTable("registers", InFlight[k].address, InFlight[k].quantity)
            /\ InFlight[k].fc = FC_WRITE_MULTIPLE_REGISTERS =>
                  InFlight[k].quantity \in 1..MaxWriteRegisters

(* The comment "Free the memory allocated by MODBUS Slave"                 *)
(* (modbus_master.c:352): every buffer the slave allocated is freed, or    *)
(* belongs to a message on its way to the master.                          *)
BuffersFreed == heap + Len(InFlight) = HeapSize

(* Every request is answered, with the slave task ready for the next, or   *)
(* its connection is dropped, or the task has stopped for want of memory.  *)
RequestAnswered ==
    spc = "issue" ~> (spc \in {"receive", "accept", "blocked"})

(* The comment "1 ms period" on the delay that ends a round of the polling *)
(* loop (modbus_master.c:361): the loop comes round again and again.       *)
PollingRecurs == []<>(opened => mpc = "delay")

(* Once the client writes no more and the device changes no more, but still*)
(* answers the read of each block now and then, the map comes to hold what *)
(* the device holds in every block, and stays so, whatever late polls and  *)
(* queued writes were under way (blocks must not overlap in the map).      *)
Disturbance == DeviceChange \/ (SlaveReceive /\ spc' = "issue")

Mirrored ==
    \A b \in 1..Len(Blocks) :
        Readable(Blocks[b]) =>
            LET t == TableOf(Blocks[b].fc)
            IN  ReadData(mapping[t], Blocks[b].map, Blocks[b].quantity)
                  = ReadData(device[t], Blocks[b].address % U16, Blocks[b].quantity)

Answered == \A b \in 1..Len(Blocks) : SF_vars(block = b /\ MasterRead)

Converges == <>opened /\ Answered /\ <>[][~Disturbance]_vars => <>[]Mirrored
-----------------------------------------------------------------------------
(* The bridge implements BridgeService: its image is the map with the      *)
(* block being copied already complete, its sample a block read and not    *)
(* yet under the mutex.                                                    *)
Refreshing == mpc = "copy" /\ owner = "master"
Sampled    == mpc = "lock" \/ (mpc = "copy" /\ owner # "master")

Image  == IF Refreshing THEN Refreshed(Current, buf, mapping) ELSE mapping
Sample == IF Sampled THEN [block |-> block, data |-> buf] ELSE [block |-> 0, data |-> <<>>]

Service == INSTANCE BridgeService WITH
    image <- Image, sample <- Sample, pending <- InFlight, answer <- reply

(* The tasks, their mutex and their queue give the client what             *)
(* BridgeService promises (modbus_slave.c:165-245, modbus_master.c:283-362)*)
ImplementsService == Service!Spec
ImplementsFairService == Service!FairSpec
=============================================================================
