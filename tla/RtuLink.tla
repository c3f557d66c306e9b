------------------------------ MODULE RtuLink ------------------------------
(***************************************************************************)
(* One call of the master task after another over the Modbus RTU backend   *)
(* (modbus.c, modbus-rtu.c), byte by byte: the device's answer comes in    *)
(* through the ring buffer of the serial driver (nio_serial.c), and        *)
(* receive_msg takes it out in up to three steps, each of which waits until*)
(* all of its bytes are there.                                             *)
(*                                                                         *)
(* A byte is known by the answer it is part of and its place there.  What  *)
(* it says is fixed for a function code and a byte count in their places;  *)
(* a byte that is read in another place may say anything.  The checksum    *)
(* detects every message that is not one whole answer.                     *)
(***************************************************************************)
EXTENDS ModbusFrame, Sequences

CONSTANTS Block,     (* what the master asks for, in any order              *)
          Fc, Nb,    (* function code and quantity of each                  *)
          Value,     (* the contents of a block                             *)
          ByteValue, (* what a byte may say when it is read out of place    *)
          BuffSize,  (* NIO_SERIAL_BUFF_SIZE: 64                            *)
          MaxAdu,    (* max_adu_length: 256                                 *)
          Window,    (* bound: answers the device may be behind             *)
          Losses     (* bound: bytes the line may lose                      *)

Header   == 1
Checksum == 2
NoBlock   == "no block"
NoSample  == "no sample"
NoResult  == "no result"
Failed    == "failed"
Exception == "exception"

(* An echo fits into a message, and so does the longest answer a client    *)
(* function may ask for (MODBUS_MAX_READ_BITS, MODBUS_MAX_READ_REGISTERS). *)
ASSUME RtuAssumption ==
    /\ \A b \in Block : Fc[b] \in Functions \ {FC_REPORT_SLAVE_ID} /\ Nb[b] \in Nat
    /\ BuffSize \in Nat \ {0} /\ MaxAdu \in Nat /\ Window \in Nat /\ Losses \in Nat
    /\ ByteValue \subseteq 0..255
    /\ {NoSample, NoResult, Failed, Exception} \cap Value = {}
    /\ NoBlock \notin Block
    /\ Header + 5 + Checksum <= MaxAdu
    /\ \A b \in Block : Header + ResponseBuilt(Fc[b], Nb[b], 0) + Checksum <= MaxAdu

VARIABLES device,   (* what each block of the device holds                  *)
          pending,  (* requests the device has still to answer              *)
          line,     (* its answers, not yet all received                    *)
          received, (* bytes of the first of them that are                  *)
          lost,     (* bytes the line has lost                              *)
          rx,       (* the ring buffer                                      *)
          pc,       (* where the master task is: a step of receive_msg ...  *)
          need,     (* length_to_read                                       *)
          got,      (* msg, what receive_msg has taken                      *)
          fc,       (* the function code in it                              *)
          request,  (* the block of the call under way                      *)
          result    (* what the last call returned                          *)

lineVars == <<pending, line, received, lost, rx>>
callVars == <<pc, need, got, fc, request, result>>
vars     == <<device, lineVars, callVars>>

AnswerType == [block : Block, value : Value \cup {Exception}]

Count(a) == IF a.value = Exception THEN 0 ELSE ResponseCount(Fc[a.block], Nb[a.block], 0)

FrameLength(a) ==
    Header + (IF a.value = Exception THEN 2 ELSE ResponseBuilt(Fc[a.block], Nb[a.block], 0)) + Checksum

ByteType == [of : AnswerType, at : 1..MaxAdu]

TypeOK ==
    /\ device \in [Block -> Value]
    /\ pending \in Seq(Block)
    /\ line \in Seq(AnswerType)
    /\ received \in Nat
    /\ IF line = <<>> THEN received = 0 ELSE received < FrameLength(Head(line))
    /\ lost \in 0..Losses
    /\ rx \in Seq(ByteType) /\ Len(rx) < BuffSize
    /\ pc \in {"idle", "function", "meta", "data", "recover"}
    /\ got \in Seq(ByteType)
    /\ pc \in {"function", "meta", "data"} => need \in 1..(MaxAdu - Len(got))
    /\ pc = "function" => got = <<>> /\ need = Header + 1
    /\ pc = "meta" => Len(got) = Header + 1 /\ need \in {1, 4}
    /\ pc = "data" => Len(got) > Header + 1
    /\ fc \in 0..255
    /\ IF pc = "idle" THEN request = NoBlock ELSE request \in Block /\ result = NoResult
    /\ result \in Value \cup {NoResult, Failed}
-----------------------------------------------------------------------------
Init ==
    /\ device \in [Block -> Value]
    /\ pending = <<>> /\ line = <<>> /\ received = 0 /\ lost = 0 /\ rx = <<>>
    /\ pc = "idle" /\ need = 0 /\ got = <<>> /\ fc = 0
    /\ request = NoBlock /\ result = NoResult

(* What the bytes of a message may say. *)
FunctionIn(byte) ==
    IF byte.at = Header + 1
    THEN { Fc[byte.of.block] + IF byte.of.value = Exception THEN 128 ELSE 0 }
    ELSE ByteValue

CountIn(byte) ==
    IF byte.at = Header + 2 /\ byte.of.value # Exception
         /\ Fc[byte.of.block] \in ReadBits \cup ReadRegisters
    THEN { Count(byte.of) }
    ELSE ByteValue

(* compute_data_length_after_meta *)
DataLength(f, count) == ConfirmationData(f, count) + Checksum

(* _modbus_rtu_check_integrity: one whole answer, nothing else. *)
Intact(msg) ==
    /\ Len(msg) = FrameLength(msg[1].of)
    /\ \A k \in DOMAIN msg : msg[k] = [of |-> msg[1].of, at |-> k]

(* Mutants: an answer of the right length, or of the right function, will do. *)
ConfirmedLength(a, b) ==
    /\ a.value # Exception
    /\ ResponseBuilt(Fc[a.block], Nb[a.block], 0) = ResponseLength(Fc[b], Nb[b])

ConfirmedFunction(a, b) == Fc[a.block] = Fc[b]

(* check_confirmation: length, function and number of values. *)
Confirmed(a, b) ==
    /\ a.value # Exception
    /\ ResponseBuilt(Fc[a.block], Nb[a.block], 0) = ResponseLength(Fc[b], Nb[b])
    /\ Fc[a.block] = Fc[b]
    /\ Fc[b] \in WriteMany => Nb[a.block] = Nb[b]

(* A call sends its request; the driver takes all of it. *)
Call(b) ==
    /\ pc = "idle"
    /\ Len(pending) + Len(line) < Window
    /\ pending' = Append(pending, b)
    /\ pc' = "function" /\ need' = Header + 1 /\ got' = <<>>
    /\ request' = b /\ result' = NoResult
    /\ UNCHANGED <<device, line, received, lost, rx, fc>>

Return(r) ==
    /\ result' = r
    /\ pc' = "idle" /\ request' = NoBlock
    /\ need' = 0 /\ got' = <<>> /\ fc' = 0

(* select finds enough bytes, recv takes them. *)
Take ==
    /\ Len(rx) >= need
    /\ rx' = SubSeq(rx, need + 1, Len(rx))
    /\ UNCHANGED <<device, pending, line, received, lost>>

Taken == got \o SubSeq(rx, 1, need)

TakeFunction ==
    /\ pc = "function"
    /\ Take
    /\ got' = Taken
    /\ fc' \in FunctionIn(Taken[Header + 1])
    /\ need' = ConfirmationMeta(fc')
    /\ pc' = "meta"
    /\ UNCHANGED <<request, result>>

(* An answer that would be too long is given up where it is. *)
TakeMeta ==
    /\ pc = "meta"
    /\ Take
    /\ \E count \in CountIn(Taken[Header + 2]) :
        IF Len(Taken) + DataLength(fc, count) > MaxAdu
        THEN Return(Failed)
        ELSE /\ need' = DataLength(fc, count)
             /\ got' = Taken
             /\ pc' = "data"
             /\ UNCHANGED <<fc, request, result>>

(* A bad checksum flushes without a sleep, a wrong answer with one; an     *)
(* exception that answers the function is only reported.                   *)
TakeData ==
    /\ pc = "data"
    /\ Take
    /\ IF ~Intact(Taken) THEN Return(Failed)
       ELSE LET a == Taken[1].of IN
            IF Confirmed(a, request) THEN Return(a.value)
            ELSE IF a.value = Exception /\ Fc[a.block] = Fc[request] THEN Return(Failed)
            ELSE pc' = "recover" /\ need' = 0 /\ got' = <<>> /\ fc' = 0 /\ UNCHANGED <<request, result>>

(* _modbus_rtu_select counts its milliseconds down to nothing. *)
Timeout ==
    /\ pc \in {"function", "meta", "data"}
    /\ Len(rx) < need
    /\ pc' = "recover" /\ need' = 0 /\ got' = <<>> /\ fc' = 0
    /\ UNCHANGED <<device, lineVars, request, result>>

(* _sleep_and_flush: _modbus_rtu_flush waits for the output to leave and   *)
(* keeps what came in.                                                     *)
Recover ==
    /\ pc = "recover"
    /\ Return(Failed)
    /\ UNCHANGED <<device, lineVars>>

MasterStep == (\E b \in Block : Call(b)) \/ TakeFunction \/ TakeMeta \/ TakeData \/ Timeout \/ Recover
-----------------------------------------------------------------------------
(* The device, the line and the receive interrupt. *)

Reply(v) ==
    /\ pending # <<>>
    /\ line' = Append(line, [block |-> Head(pending), value |-> v])
    /\ pending' = Tail(pending)
    /\ UNCHANGED <<device, received, lost, rx, callVars>>

DeviceAnswers == pending # <<>> /\ Reply(device[Head(pending)])
DeviceRefuses == Reply(Exception)

(* A request the device did not understand, or is not there to hear. *)
DeviceIgnores ==
    /\ pending # <<>>
    /\ pending' = Tail(pending)
    /\ UNCHANGED <<device, line, received, lost, rx, callVars>>

DeviceChange ==
    /\ \E b \in Block, v \in Value : device' = [device EXCEPT ![b] = v]
    /\ UNCHANGED <<lineVars, callVars>>

ByteLeaves ==
    /\ line # <<>>
    /\ IF received + 1 = FrameLength(Head(line))
       THEN line' = Tail(line) /\ received' = 0
       ELSE received' = received + 1 /\ UNCHANGED line
    /\ UNCHANGED <<device, pending, callVars>>

(* Mutants: the ring is full one byte earlier, or later. *)
RoomForLess == Len(rx) + 2 < BuffSize
RoomForMore == Len(rx) < BuffSize

(* nio_serial_rxcallback: one place of the ring stays free, and a byte that*)
(* finds no room is overwritten by the next.                               *)
Room == Len(rx) + 1 < BuffSize

ByteArrives ==
    /\ ByteLeaves
    /\ rx' = IF Room THEN Append(rx, [of |-> Head(line), at |-> received + 1]) ELSE rx
    /\ UNCHANGED lost

(* Noise, or an overrun of the hardware. *)
ByteLost ==
    /\ Room /\ lost < Losses
    /\ ByteLeaves
    /\ lost' = lost + 1
    /\ UNCHANGED rx

Next ==
    \/ MasterStep \/ DeviceAnswers \/ DeviceRefuses \/ DeviceIgnores \/ DeviceChange
    \/ ByteArrives \/ ByteLost

Spec == Init /\ [][Next]_vars

(* An answer within the timeout of a call and the sleep that may follow, no*)
(* noise, and a master that takes the bytes it waits for before so many    *)
(* more come that the ring is full (it looks every millisecond).           *)
Late    == (Timeout \/ Recover) /\ (pending # <<>> \/ line # <<>>)
Overrun == ByteArrives /\ ~Room /\ pc \in {"function", "meta", "data"} /\ Len(rx) >= need
Quiet   == ~Late /\ ~ByteLost /\ ~Overrun

(* Besides, a device that answers every request with data. *)
Answered == Quiet /\ ~DeviceRefuses /\ ~DeviceIgnores

(* The master task runs on, bytes on the line end, and the device does     *)
(* something with a request.                                               *)
Fairness ==
    /\ WF_vars(MasterStep) /\ WF_vars(ByteArrives \/ ByteLost)
    /\ WF_vars(DeviceAnswers \/ DeviceRefuses \/ DeviceIgnores)

FairSpec == Spec /\ Fairness

QuietSpec == Init /\ [][Next /\ Quiet]_vars /\ Fairness
-----------------------------------------------------------------------------
Succeeded == result \notin {NoResult, Failed}

(* A read gives the data of the block it asked for: an answer that is cut, *)
(* late or out of place is refused (modbus-rtu.c:292-315, modbus.c:496-611)*)
(* at least where no other block has answers of the same kind.             *)
AnswersOwnBlock ==
    [][TakeData /\ Succeeded' => Taken[1].of.block = request]_vars

(* On a quiet line receive_msg stops exactly where the answer ends, be it  *)
(* data, the echo of a write or an exception: else the rest would be taken *)
(* for the next answer (modbus.c:248-315,435-459).                         *)
MessageEnds ==
    pc = "data" => Len(got) + need = FrameLength(got[1].of)

(* On a quiet line a read that succeeds gives what its block held between  *)
(* the call and its return.                                                *)
Answers == { line[i] : i \in DOMAIN line } \cup { rx[i].of : i \in DOMAIN rx }
               \cup { got[i].of : i \in DOMAIN got }

Samples == { a.value : a \in { x \in Answers : x.value # Exception } }

Sampled == IF pc # "idle" /\ Samples # {} THEN CHOOSE v \in Samples : TRUE ELSE NoSample

Abstract == INSTANCE Transaction WITH call <- request, sample <- Sampled

ImplementsTransaction == Abstract!Spec

(* "%d bytes flushed" (modbus.c:125): what was received too late is gone   *)
(* after a flush, so reads succeed again and again once the line is quiet  *)
(* and the device answers with data.  On a line that was always quiet this *)
(* asks that every step of receive_msg finds room for its bytes in the     *)
(* ring, and that a refusal or a missing answer does no lasting harm.      *)
ReadsSucceedAgain ==
    <>[][Answered]_vars => []<>Succeeded
=============================================================================
