--------------------------- MODULE RtuLinkProofs ---------------------------
(***************************************************************************)
(* What the serial link promises for all blocks, values, losses and sizes  *)
(* of the ring buffer: the answer a call takes is for its block, and on a  *)
(* quiet line the link implements Transaction (RtuLink).                   *)
(***************************************************************************)
EXTENDS RtuLink, ModbusFrameProofs

Receiving == pc \in {"function", "meta", "data"}

-----------------------------------------------------------------------------
(* What the functions a block may have make of a length. *)

LEMMA FunctionOf ==
    ASSUME NEW b \in Block
    PROVE  /\ Fc[b] \in {1, 2, 3, 4, 5, 6, 15, 16, 23}
           /\ Fc[b] \in Functions
           /\ Nb[b] \in Nat
           /\ Bytes(Nb[b]) \in Nat
  <1>1. Fc[b] \in Functions \ {FC_REPORT_SLAVE_ID} /\ Nb[b] \in Nat
    BY RtuAssumption
  <1> QED
    BY <1>1, FunctionList, BytesNat DEF FC_REPORT_SLAVE_ID

LEMMA ResponseLengths ==
    ASSUME NEW b \in Block
    PROVE  /\ ResponseCount(Fc[b], Nb[b], 0) \in Nat
           /\ ResponseBuilt(Fc[b], Nb[b], 0) \in Nat
           /\ ResponseBuilt(Fc[b], Nb[b], 0) >= 2
           /\ Header + ResponseBuilt(Fc[b], Nb[b], 0) + Checksum <= MaxAdu
  <1>1. ResponseCount(Fc[b], Nb[b], 0) \in Nat
    BY FunctionOf DEF ResponseCount
  <1> QED
    BY <1>1, RtuAssumption DEF ResponseBuilt

LEMMA LengthOfAnswer ==
    ASSUME NEW a \in AnswerType
    PROVE  /\ a.block \in Block
           /\ FrameLength(a) \in 5..MaxAdu
           /\ Count(a) \in Nat
  <1>1. a.block \in Block /\ MaxAdu \in Nat /\ Header + 5 + Checksum <= MaxAdu
    BY RtuAssumption DEF AnswerType
  <1> QED
    BY <1>1, ResponseLengths DEF FrameLength, Count, Header, Checksum

LEMMA MetaLength ==
    ASSUME NEW f
    PROVE  ConfirmationMeta(f) \in {1, 4}
  BY DEF ConfirmationMeta

LEMMA DataLengthNat ==
    ASSUME NEW f, NEW count \in Nat
    PROVE  DataLength(f, count) \in Nat /\ DataLength(f, count) >= 2
  BY DEF DataLength, ConfirmationData, Checksum

LEMMA WhatBytesSay ==
    ASSUME NEW byte \in ByteType
    PROVE  FunctionIn(byte) \subseteq 0..255 /\ CountIn(byte) \subseteq Nat
  <1>1. byte.of \in AnswerType /\ byte.of.block \in Block
    BY DEF ByteType, AnswerType
  <1>2. ByteValue \subseteq 0..255 /\ ByteValue \subseteq Nat
    BY RtuAssumption
  <1>3. Fc[byte.of.block] + (IF byte.of.value = Exception THEN 128 ELSE 0) \in 0..255
    BY <1>1, FunctionOf
  <1> QED
    BY <1>1, <1>2, <1>3, LengthOfAnswer DEF FunctionIn, CountIn

-----------------------------------------------------------------------------
(* What Take moves from the ring buffer to the message. *)

Left == SubSeq(rx, need + 1, Len(rx))

LEMMA TakenAndLeft ==
    ASSUME TypeOK, Receiving, Len(rx) >= need
    PROVE  /\ Len(got) \in Nat /\ Len(rx) \in Nat /\ need \in Nat \ {0}
           /\ Taken \in Seq(ByteType) /\ Len(Taken) = Len(got) + need
           /\ Left \in Seq(ByteType) /\ Len(Left) = Len(rx) - need
           /\ \A i \in 1..Len(got) : Taken[i] = got[i]
           /\ \A i \in 1..need : Taken[i + Len(got)] = rx[i]
           /\ \A i \in 1..(Len(rx) - need) : Left[i] = rx[i + need]
  <1> DEFINE piece == SubSeq(rx, 1, need)
  <1>1. /\ got \in Seq(ByteType) /\ rx \in Seq(ByteType) /\ need \in 1..(MaxAdu - Len(got))
        /\ MaxAdu \in Nat
    BY RtuAssumption DEF TypeOK, Receiving
  <1>2. Len(got) \in Nat /\ Len(rx) \in Nat /\ need \in Nat \ {0} /\ need \in 0..Len(rx)
    BY <1>1
  <1>3. /\ piece \in Seq(ByteType) /\ Left \in Seq(ByteType)
        /\ Len(piece) = need /\ Len(Left) = Len(rx) - need
        /\ \A i \in 1..need : piece[i] = rx[i]
        /\ \A i \in 1..(Len(rx) - need) : Left[i] = rx[i + need]
    BY <1>1, <1>2, Cut DEF Left
  <1>4. Taken = got \o piece
    BY DEF Taken
  <1> HIDE DEF piece
  <1>5. Taken \in Seq(ByteType) /\ Len(Taken) = Len(got) + Len(piece)
    BY <1>1, <1>3, <1>4, ConcatOf
  <1>6. /\ \A i \in 1..Len(got) : Taken[i] = got[i]
        /\ \A i \in 1..Len(piece) : Taken[i + Len(got)] = piece[i]
    BY <1>1, <1>3, <1>4, ConcatElements
  <1> QED
    BY <1>2, <1>3, <1>5, <1>6

LEMMA TakeLeaves ==
    ASSUME Take
    PROVE  rx' = Left /\ Len(rx) >= need
  BY DEF Take, Left

LEMMA LeftRoom ==
    ASSUME TypeOK, Receiving, Take
    PROVE  rx' \in Seq(ByteType) /\ Len(rx') < BuffSize
  <1>1. rx' = Left /\ Left \in Seq(ByteType) /\ Len(Left) = Len(rx) - need /\ need \in Nat /\ Len(rx) \in Nat
    BY TakeLeaves, TakenAndLeft
  <1>2. Len(rx) < BuffSize /\ BuffSize \in Nat
    BY RtuAssumption DEF TypeOK
  <1> QED
    BY <1>1, <1>2
-----------------------------------------------------------------------------
(* The type invariant, action by action. *)

LEMMA CallTyped ==
    ASSUME TypeOK, NEW b \in Block, Call(b)
    PROVE  TypeOK'
  <1>1. pending' \in Seq(Block)
    BY DEF TypeOK, Call
  <1>2. b # NoBlock /\ MaxAdu \in Nat /\ 8 <= MaxAdu
    BY RtuAssumption DEF Header, Checksum
  <1>3. got' = <<>> /\ got' \in Seq(ByteType) /\ Len(got') = 0
    BY DEF Call
  <1>4. need' \in 1..(MaxAdu - Len(got'))
    BY <1>2, <1>3 DEF Call, Header
  <1> QED
    BY <1>1, <1>2, <1>3, <1>4 DEF TypeOK, Call

(* A call that returns leaves nothing behind but its result. *)
LEMMA ReturnTyped ==
    ASSUME TypeOK, NEW r \in Value \cup {Failed}, Return(r),
           rx' \in Seq(ByteType), Len(rx') < BuffSize, UNCHANGED <<device, pending, line, received, lost>>
    PROVE  TypeOK'
  <1>1. got' \in Seq(ByteType)
    BY DEF Return
  <1> QED
    BY <1>1 DEF TypeOK, Return

(* So does one that goes to sleep. *)
LEMMA RecoverTyped ==
    ASSUME TypeOK, Receiving, rx' \in Seq(ByteType), Len(rx') < BuffSize,
           UNCHANGED <<device, pending, line, received, lost, request, result>>,
           pc' = "recover", got' = <<>>, fc' = 0
    PROVE  TypeOK'
  <1>1. got' \in Seq(ByteType)
    OBVIOUS
  <1> QED
    BY <1>1 DEF TypeOK, Receiving

LEMMA TakeFunctionTyped ==
    ASSUME TypeOK, TakeFunction
    PROVE  TypeOK'
  <1>1. Receiving /\ Take /\ pc = "function" /\ got = <<>> /\ need = 2
    BY DEF TypeOK, TakeFunction, Receiving, Header
  <1>2. rx' \in Seq(ByteType) /\ Len(rx') < BuffSize
    BY <1>1, LeftRoom
  <1>3. Taken \in Seq(ByteType) /\ Len(Taken) = 2
    BY <1>1, TakeLeaves, TakenAndLeft
  <1>4. got' \in Seq(ByteType) /\ Len(got') = 2
    BY <1>3 DEF TakeFunction
  <1>5. Taken[Header + 1] \in ByteType
    BY <1>3, ElementOf DEF Header
  <1>6. fc' \in 0..255 /\ need' \in {1, 4}
    BY <1>5, WhatBytesSay, MetaLength DEF TakeFunction
  <1>7. need' \in 1..(MaxAdu - Len(got'))
    <2>1. MaxAdu \in Nat /\ 8 <= MaxAdu
      BY RtuAssumption DEF Header, Checksum
    <2> QED
      BY <2>1, <1>4, <1>6
  <1> QED
    BY <1>1, <1>2, <1>4, <1>6, <1>7 DEF TypeOK, TakeFunction, Take, Header

LEMMA TakeMetaTyped ==
    ASSUME TypeOK, TakeMeta
    PROVE  TypeOK'
  <1>1. Receiving /\ Take /\ pc = "meta" /\ Len(got) = 2 /\ need \in {1, 4}
    BY DEF TypeOK, TakeMeta, Receiving, Header
  <1>2. rx' \in Seq(ByteType) /\ Len(rx') < BuffSize
    BY <1>1, LeftRoom
  <1>3. Taken \in Seq(ByteType) /\ Len(Taken) \in Nat /\ Len(Taken) >= 3
    BY <1>1, TakeLeaves, TakenAndLeft
  <1>4. Taken[Header + 2] \in ByteType
    BY <1>3, ElementOf DEF Header
  <1>5. PICK count \in CountIn(Taken[Header + 2]) :
            IF Len(Taken) + DataLength(fc, count) > MaxAdu
            THEN Return(Failed)
            ELSE /\ need' = DataLength(fc, count)
                 /\ got' = Taken
                 /\ pc' = "data"
                 /\ UNCHANGED <<fc, request, result>>
    BY DEF TakeMeta
  <1>6. count \in Nat /\ DataLength(fc, count) \in Nat /\ DataLength(fc, count) >= 2
    BY <1>4, WhatBytesSay, DataLengthNat
  <1>7. UNCHANGED <<device, pending, line, received, lost>>
    BY <1>1 DEF Take
  <1>8. CASE Len(Taken) + DataLength(fc, count) > MaxAdu
    BY <1>2, <1>5, <1>7, <1>8, ReturnTyped
  <1>9. CASE ~(Len(Taken) + DataLength(fc, count) > MaxAdu)
    <2>1. need' \in 1..(MaxAdu - Len(got')) /\ Len(got') > 2 /\ got' \in Seq(ByteType)
      BY <1>3, <1>5, <1>6, <1>9, RtuAssumption
    <2> QED
      BY <1>1, <1>2, <1>5, <1>7, <1>9, <2>1 DEF TypeOK, Header
  <1> QED
    BY <1>8, <1>9

LEMMA TakeDataTyped ==
    ASSUME TypeOK, TakeData
    PROVE  TypeOK'
  <1>1. Receiving /\ Take /\ pc = "data" /\ need \in Nat \ {0}
    <2>1. Receiving /\ Take /\ pc = "data"
      BY DEF TakeData, Receiving
    <2> QED
      BY <2>1, TakeLeaves, TakenAndLeft
  <1>2. rx' \in Seq(ByteType) /\ Len(rx') < BuffSize
    BY <1>1, LeftRoom
  <1>3. UNCHANGED <<device, pending, line, received, lost>>
    BY <1>1 DEF Take
  <1>4. Taken[1].of \in AnswerType
    <2>1. Taken \in Seq(ByteType) /\ Len(Taken) = Len(got) + need /\ Len(got) \in Nat
      BY <1>1, TakeLeaves, TakenAndLeft
    <2>2. Taken[1] \in ByteType
      BY <1>1, <2>1, ElementOf
    <2> QED
      BY <2>2 DEF ByteType
  <1>5. CASE Return(Failed)
    BY <1>2, <1>3, <1>5, ReturnTyped
  <1>6. CASE Confirmed(Taken[1].of, request) /\ Return(Taken[1].of.value)
    BY <1>2, <1>3, <1>4, <1>6, ReturnTyped DEF Confirmed, AnswerType
  <1>7. CASE pc' = "recover" /\ need' = 0 /\ got' = <<>> /\ fc' = 0 /\ UNCHANGED <<request, result>>
    BY <1>1, <1>2, <1>3, <1>7, RecoverTyped
  <1> QED
    BY <1>5, <1>6, <1>7 DEF TakeData

LEMMA ReplyTyped ==
    ASSUME TypeOK, NEW v \in Value \cup {Exception}, Reply(v)
    PROVE  TypeOK'
  <1> DEFINE a == [block |-> Head(pending), value |-> v]
  <1>1. Head(pending) \in Block /\ pending' \in Seq(Block)
    BY DEF TypeOK, Reply
  <1>2. a \in AnswerType /\ FrameLength(a) \in Nat /\ FrameLength(a) > 0
    BY <1>1, LengthOfAnswer DEF AnswerType
  <1>3. line' = Append(line, a)
    BY DEF Reply
  <1> HIDE DEF a
  <1>4. /\ line' \in Seq(AnswerType) /\ line' # <<>>
        /\ line = <<>> => Head(line') = a
        /\ line # <<>> => Head(line') = Head(line)
    BY <1>2, <1>3 DEF TypeOK
  <1>5. received \in Nat /\ received < FrameLength(Head(line'))
    BY <1>2, <1>4 DEF TypeOK
  <1>6. /\ UNCHANGED <<device, received, lost, rx>>
        /\ UNCHANGED <<pc, need, got, fc, request, result>>
    BY DEF Reply, callVars
  <1> QED
    BY <1>1, <1>4, <1>5, <1>6 DEF TypeOK

LEMMA ByteLeavesTyped ==
    ASSUME TypeOK, ByteLeaves
    PROVE  /\ line' \in Seq(AnswerType)
           /\ received' \in Nat
           /\ IF line' = <<>> THEN received' = 0 ELSE received' < FrameLength(Head(line'))
           /\ UNCHANGED <<device, pending>> /\ UNCHANGED <<pc, need, got, fc, request, result>>
  <1>1. line # <<>> /\ line \in Seq(AnswerType) /\ received \in Nat /\ received < FrameLength(Head(line))
    BY DEF TypeOK, ByteLeaves
  <1>2. Head(line) \in AnswerType /\ FrameLength(Head(line)) \in Nat
    BY <1>1, LengthOfAnswer
  <1>3. UNCHANGED <<device, pending>> /\ UNCHANGED <<pc, need, got, fc, request, result>>
    BY DEF ByteLeaves, callVars
  <1>4. CASE line' = Tail(line) /\ received' = 0
    <2>1. line' \in Seq(AnswerType)
      BY <1>1, <1>4
    <2>2. line' # <<>> => FrameLength(Head(line')) \in Nat /\ FrameLength(Head(line')) > 0
      BY <2>1, LengthOfAnswer
    <2> QED
      BY <1>3, <1>4, <2>1, <2>2
  <1>5. CASE received + 1 # FrameLength(Head(line)) /\ received' = received + 1 /\ UNCHANGED line
    BY <1>1, <1>2, <1>3, <1>5
  <1> QED
    BY <1>4, <1>5 DEF ByteLeaves

LEMMA ByteArrivesTyped ==
    ASSUME TypeOK, ByteArrives
    PROVE  TypeOK'
  <1> DEFINE byte == [of |-> Head(line), at |-> received + 1]
  <1>1. /\ line # <<>> /\ line \in Seq(AnswerType) /\ received \in Nat /\ received < FrameLength(Head(line))
        /\ rx \in Seq(ByteType) /\ Len(rx) < BuffSize /\ BuffSize \in Nat
    BY RtuAssumption DEF TypeOK, ByteArrives, ByteLeaves
  <1>2. Head(line) \in AnswerType /\ FrameLength(Head(line)) \in 5..MaxAdu /\ MaxAdu \in Nat
    BY <1>1, LengthOfAnswer, RtuAssumption
  <1>3. byte \in ByteType
    BY <1>1, <1>2 DEF ByteType
  <1>4. rx' = IF Room THEN Append(rx, byte) ELSE rx
    BY DEF ByteArrives
  <1> HIDE DEF byte
  <1>5. rx' \in Seq(ByteType) /\ Len(rx') < BuffSize
    BY <1>1, <1>3, <1>4 DEF Room
  <1>6. /\ line' \in Seq(AnswerType) /\ received' \in Nat
        /\ IF line' = <<>> THEN received' = 0 ELSE received' < FrameLength(Head(line'))
        /\ UNCHANGED <<device, pending>> /\ UNCHANGED <<pc, need, got, fc, request, result>>
    BY ByteLeavesTyped DEF ByteArrives
  <1> QED
    BY <1>5, <1>6 DEF TypeOK, ByteArrives

LEMMA ByteLostTyped ==
    ASSUME TypeOK, ByteLost
    PROVE  TypeOK'
  <1>1. /\ line' \in Seq(AnswerType) /\ received' \in Nat
        /\ IF line' = <<>> THEN received' = 0 ELSE received' < FrameLength(Head(line'))
        /\ UNCHANGED <<device, pending>> /\ UNCHANGED <<pc, need, got, fc, request, result>>
    BY ByteLeavesTyped DEF ByteLost
  <1>2. lost' \in 0..Losses
    BY RtuAssumption DEF TypeOK, ByteLost
  <1> QED
    BY <1>1, <1>2 DEF TypeOK, ByteLost

LEMMA StepTyped ==
    ASSUME TypeOK, [Next]_vars
    PROVE  TypeOK'
  <1>1. CASE \E b \in Block : Call(b)
    BY <1>1, CallTyped
  <1>2. CASE TakeFunction
    BY <1>2, TakeFunctionTyped
  <1>3. CASE TakeMeta
    BY <1>3, TakeMetaTyped
  <1>4. CASE TakeData
    BY <1>4, TakeDataTyped
  <1>5. CASE Timeout
    <2>1. /\ Receiving /\ rx' \in Seq(ByteType) /\ Len(rx') < BuffSize
          /\ UNCHANGED <<device, pending, line, received, lost, request, result>>
          /\ pc' = "recover" /\ got' = <<>> /\ fc' = 0
      BY <1>5 DEF TypeOK, Timeout, Receiving, lineVars
    <2> QED
      BY <2>1, RecoverTyped
  <1>6. CASE Recover
    <2>1. /\ rx' \in Seq(ByteType) /\ Len(rx') < BuffSize
          /\ UNCHANGED <<device, pending, line, received, lost>> /\ Return(Failed)
      BY <1>6 DEF TypeOK, Recover, lineVars
    <2> QED
      BY <2>1, ReturnTyped
  <1>7. CASE DeviceAnswers
    <2>1. pending # <<>> /\ Reply(device[Head(pending)]) /\ device[Head(pending)] \in Value
      BY <1>7 DEF DeviceAnswers, TypeOK
    <2> QED
      BY <2>1, ReplyTyped
  <1>8. CASE DeviceRefuses
    BY <1>8, ReplyTyped DEF DeviceRefuses
  <1>9. CASE DeviceIgnores
    <2>1. /\ pending' \in Seq(Block)
          /\ UNCHANGED <<device, line, received, lost, rx, pc, need, got, fc, request, result>>
      BY <1>9 DEF DeviceIgnores, TypeOK, callVars
    <2> QED
      BY <2>1 DEF TypeOK
  <1>10. CASE DeviceChange
    <2>1. /\ device' \in [Block -> Value]
          /\ UNCHANGED <<pending, line, received, lost, rx, pc, need, got, fc, request, result>>
      BY <1>10 DEF DeviceChange, TypeOK, callVars, lineVars
    <2> QED
      BY <2>1 DEF TypeOK
  <1>11. CASE ByteArrives
    BY <1>11, ByteArrivesTyped
  <1>12. CASE ByteLost
    BY <1>12, ByteLostTyped
  <1>13. CASE UNCHANGED vars
    BY <1>13 DEF TypeOK, vars, lineVars, callVars
  <1> QED
    BY <1>1, <1>2, <1>3, <1>4, <1>5, <1>6, <1>7, <1>8, <1>9, <1>10, <1>11, <1>12, <1>13
       DEF Next, MasterStep

LEMMA InitTyped == Init => TypeOK
  <1> SUFFICES ASSUME Init PROVE TypeOK
    OBVIOUS
  <1>1. pending \in Seq(Block) /\ line \in Seq(AnswerType) /\ rx \in Seq(ByteType) /\ got \in Seq(ByteType)
    BY DEF Init
  <1>2. BuffSize \in Nat \ {0} /\ Losses \in Nat /\ Len(rx) = 0
    BY RtuAssumption DEF Init
  <1> QED
    BY <1>1, <1>2 DEF Init, TypeOK

(* All variables keep their types: the ring buffer holds less than its     *)
(* size, receive_msg never waits for more than an ADU, and no answer is    *)
(* longer than one (nio_serial_rxcallback, receive_msg).                   *)
THEOREM TypeCorrect == Spec => []TypeOK
<1> QED
  BY InitTyped, StepTyped, PTL DEF Spec

-----------------------------------------------------------------------------
(* What check_confirmation compares of an answer that is not an exception. *)
Alike(a, b) ==
    /\ Fc[a] = Fc[b]
    /\ ResponseBuilt(Fc[a], Nb[a], 0) = ResponseLength(Fc[b], Nb[b])
    /\ Fc[b] \in WriteMany => Nb[a] = Nb[b]

LEMMA OwnAnswer ==
    ASSUME TypeOK, \A a, b \in Block : Alike(a, b) => a = b,
           TakeData, Succeeded'
    PROVE  Taken[1].of.block = request
  <1> DEFINE a == Taken[1].of
  <1>1. Receiving /\ Take /\ pc = "data" /\ request \in Block /\ result = NoResult
    BY DEF TypeOK, TakeData, Receiving
  <1>2. Taken \in Seq(ByteType) /\ Len(Taken) \in Nat \ {0}
    BY <1>1, TakeLeaves, TakenAndLeft
  <1>3. a.block \in Block
    <2>1. Taken[1] \in ByteType
      BY <1>2, ElementOf
    <2> QED
      BY <2>1 DEF ByteType, AnswerType
  <1>4. result' # NoResult /\ result' # Failed
    BY DEF Succeeded
  <1>5. Confirmed(a, request)
    BY <1>1, <1>4 DEF TakeData, Return
  <1>6. Alike(a.block, request)
    BY <1>5 DEF Confirmed, Alike
  <1> QED
    BY <1>1, <1>3, <1>6

(* Where no two blocks have answers of the same kind, a call that succeeds *)
(* has taken an answer for its own block, whatever was lost, late or       *)
(* overrun (check_confirmation, _modbus_rtu_check_integrity).              *)
THEOREM OwnBlockAnswered ==
    ASSUME \A a, b \in Block : Alike(a, b) => a = b
    PROVE  Spec => AnswersOwnBlock
<1>1. TypeOK /\ [Next]_vars => [TakeData /\ Succeeded' => Taken[1].of.block = request]_vars
  BY OwnAnswer
<1> QED
  BY <1>1, TypeCorrect, PTL DEF Spec, AnswersOwnBlock

-----------------------------------------------------------------------------
(* The quiet line.  Between two calls nothing is under way; during a call  *)
(* there is nothing but the request, or the bytes of one answer, in order  *)
(* and complete up to those that are still on the line, and every step of  *)
(* receive_msg asks for bytes of this answer and finds room for them.      *)

Nothing == line = <<>> /\ received = 0 /\ rx = <<>> /\ got = <<>>

(* The function code in an answer. *)
Code(a) == Fc[a.block] + IF a.value = Exception THEN 128 ELSE 0

(* The bytes of a from the n+1-st on. *)
Stretch(f, a, n) == \A i \in 1..Len(f) : f[i] = [of |-> a, at |-> i + n]

Arriving(a) ==
    /\ pending = <<>>
    /\ a.block = request
    /\ Stretch(got, a, 0)
    /\ Stretch(rx, a, Len(got))
    /\ IF line = <<>> THEN Len(got) + Len(rx) = FrameLength(a)
       ELSE line = <<a>> /\ received = Len(got) + Len(rx)
    /\ Len(got) + need <= FrameLength(a)
    /\ pc = "meta" => fc = Code(a) /\ need = ConfirmationMeta(fc)
    /\ pc = "data" => Len(got) + need = FrameLength(a)

Asked == Nothing /\ pc = "function" /\ (pending = <<>> \/ pending = <<request>>)

QuietInv ==
    /\ TypeOK
    /\ ~Receiving => pending = <<>> /\ Nothing
    /\ Receiving => need < BuffSize
    /\ Receiving => Asked \/ \E a \in AnswerType : Arriving(a)

(* The ring holds what the longest step of receive_msg reads: 61 bytes of  *)
(* data and the checksum with a NIO_SERIAL_BUFF_SIZE of 64.                *)
StepsFit ==
    /\ 4 < BuffSize
    /\ \A a \in AnswerType : DataLength(Code(a), Count(a)) < BuffSize

-----------------------------------------------------------------------------
LEMMA CodeOf ==
    ASSUME NEW a \in AnswerType
    PROVE  /\ Code(a) \in 1..151
           /\ a.value = Exception => Code(a) > 128 /\ Code(a) = Fc[a.block] + 128
           /\ a.value # Exception => Code(a) = Fc[a.block]
  BY LengthOfAnswer, FunctionOf DEF Code

(* Function code, meta and data are the whole answer, whatever stands      *)
(* where an answer with data has its byte count.                           *)
LEMMA AnswerEnds ==
    ASSUME NEW a \in AnswerType
    PROVE  /\ FrameLength(a) = 2 + ConfirmationMeta(Code(a)) + DataLength(Code(a), Count(a))
           /\ \A count \in CountIn([of |-> a, at |-> 3]) :
                  DataLength(Code(a), count) = DataLength(Code(a), Count(a))
  <1> DEFINE f == Fc[a.block]
  <1>1. /\ a.block \in Block /\ f \in {1, 2, 3, 4, 5, 6, 15, 16, 23} /\ f \in Functions
        /\ Nb[a.block] \in Nat
    BY LengthOfAnswer, FunctionOf
  <1>2. CASE a.value = Exception
    <2>1. Code(a) \in {129, 130, 131, 132, 133, 134, 143, 144, 151}
      BY <1>1, <1>2 DEF Code
    <2>2. ConfirmationMeta(Code(a)) = 1
      BY <2>1 DEF ConfirmationMeta, WriteOne, WriteMany, FC_WRITE_SINGLE_COIL, FC_WRITE_SINGLE_REGISTER,
                  FC_WRITE_MULTIPLE_COILS, FC_WRITE_MULTIPLE_REGISTERS
    <2>3. ASSUME NEW count PROVE DataLength(Code(a), count) = 2
      BY <2>1 DEF DataLength, ConfirmationData, Checksum, FC_READ_INPUT_REGISTERS, FC_REPORT_SLAVE_ID,
                  FC_WRITE_AND_READ_REGISTERS
    <2>4. FrameLength(a) = 5
      BY <1>2 DEF FrameLength, Header, Checksum
    <2> QED
      BY <2>2, <2>3, <2>4
  <1>3. CASE a.value # Exception
    <2> DEFINE n == ResponseCount(f, Nb[a.block], 0)
    <2>1. 1 + ConfirmationMeta(f) + ConfirmationData(f, n) = ResponseBuilt(f, Nb[a.block], 0)
      BY <1>1, EveryResponseEnds DEF ResponseEnds
    <2>2. Code(a) = f /\ Count(a) = n
      BY <1>1, <1>3, CodeOf DEF Count
    <2>3. ConfirmationMeta(f) \in {1, 4} /\ ConfirmationData(f, n) \in Nat
      BY <1>1, MetaLength, ResponseLengths DEF ConfirmationData
    <2>4. FrameLength(a) = 1 + ResponseBuilt(f, Nb[a.block], 0) + 2
      BY <1>3 DEF FrameLength, Header, Checksum
    <2>5. FrameLength(a) = 2 + ConfirmationMeta(f) + DataLength(f, n)
      <3> HIDE DEF f, n
      <3> QED
        BY <2>1, <2>3, <2>4 DEF DataLength, Checksum
    <2>6. ASSUME NEW count \in CountIn([of |-> a, at |-> 3])
          PROVE  DataLength(f, count) = DataLength(f, n)
      <3>1. CASE f \in {1, 2, 3, 4, 23}
        <4>1. f \in ReadBits \cup ReadRegisters
          BY <3>1 DEF ReadBits, ReadRegisters, FC_READ_COILS, FC_READ_DISCRETE_INPUTS,
                      FC_READ_HOLDING_REGISTERS, FC_READ_INPUT_REGISTERS, FC_WRITE_AND_READ_REGISTERS
        <4>2. count = Count(a)
          BY <1>3, <2>6, <4>1 DEF CountIn, Header
        <4> QED
          BY <2>2, <4>2
      <3>2. CASE f \in {5, 6, 15, 16}
        BY <3>2 DEF DataLength, ConfirmationData, FC_READ_INPUT_REGISTERS, FC_REPORT_SLAVE_ID,
                    FC_WRITE_AND_READ_REGISTERS
      <3> QED
        BY <1>1, <3>1, <3>2
    <2> QED
      BY <2>2, <2>5, <2>6
  <1> QED
    BY <1>2, <1>3

(* check_confirmation accepts the answer to the request it belongs to. *)
LEMMA OwnConfirmed ==
    ASSUME NEW a \in AnswerType, a.value # Exception
    PROVE  Confirmed(a, a.block)
  <1>1. /\ a.block \in Block /\ Fc[a.block] \in {1, 2, 3, 4, 5, 6, 15, 16, 23} /\ Fc[a.block] \in Functions
        /\ Nb[a.block] \in Nat /\ Bytes(Nb[a.block]) \in Nat
    BY LengthOfAnswer, FunctionOf
  <1>2. ResponseLength(Fc[a.block], Nb[a.block]) \in {Undefined, ResponseBuilt(Fc[a.block], Nb[a.block], 0)}
    BY <1>1, EveryResponseEnds DEF ResponseEnds
  <1>3. ResponseLength(Fc[a.block], Nb[a.block]) # Undefined
    BY <1>1 DEF ResponseLength, Undefined, ReadBits, ReadRegisters, FC_READ_COILS, FC_READ_DISCRETE_INPUTS,
                FC_READ_HOLDING_REGISTERS, FC_READ_INPUT_REGISTERS, FC_WRITE_AND_READ_REGISTERS,
                FC_READ_EXCEPTION_STATUS, FC_REPORT_SLAVE_ID
  <1> QED
    BY <1>2, <1>3 DEF Confirmed

(* What Take leaves of an answer that arrives. *)
LEMMA TakingArrives ==
    ASSUME TypeOK, Receiving, NEW a \in AnswerType, Arriving(a), Take
    PROVE  /\ Taken \in Seq(ByteType) /\ Len(Taken) = Len(got) + need
           /\ Len(got) \in Nat /\ need \in Nat \ {0}
           /\ Stretch(Taken, a, 0)
           /\ Stretch(rx', a, Len(Taken))
           /\ Len(rx') = Len(rx) - need /\ Len(rx) \in Nat
           /\ UNCHANGED <<device, pending, line, received, lost>>
  <1>1. Len(rx) >= need /\ rx' = Left /\ UNCHANGED <<device, pending, line, received, lost>>
    BY TakeLeaves DEF Take
  <1>2. /\ Len(got) \in Nat /\ Len(rx) \in Nat /\ need \in Nat \ {0}
        /\ Taken \in Seq(ByteType) /\ Len(Taken) = Len(got) + need
        /\ Left \in Seq(ByteType) /\ Len(Left) = Len(rx) - need
        /\ \A i \in 1..Len(got) : Taken[i] = got[i]
        /\ \A i \in 1..need : Taken[i + Len(got)] = rx[i]
        /\ \A i \in 1..(Len(rx) - need) : Left[i] = rx[i + need]
    BY <1>1, TakenAndLeft
  <1>3. /\ \A i \in 1..Len(got) : got[i] = [of |-> a, at |-> i + 0]
        /\ \A i \in 1..Len(rx) : rx[i] = [of |-> a, at |-> i + Len(got)]
    BY DEF Arriving, Stretch
  <1>4. ASSUME NEW i \in 1..Len(Taken) PROVE Taken[i] = [of |-> a, at |-> i + 0]
    <2>1. CASE i <= Len(got)
      <3>1. i \in 1..Len(got)
        BY <1>2, <2>1
      <3> QED
        BY <1>2, <1>3, <3>1
    <2>2. CASE i > Len(got)
      <3> DEFINE j == i - Len(got)
      <3>1. j \in 1..need /\ j \in 1..Len(rx) /\ i = j + Len(got)
        BY <1>1, <1>2, <2>2
      <3>2. Taken[j + Len(got)] = rx[j] /\ rx[j] = [of |-> a, at |-> j + Len(got)]
        BY <1>2, <1>3, <3>1
      <3> QED
        BY <1>2, <3>1, <3>2
    <2> QED
      BY <1>2, <2>1, <2>2
  <1>5. ASSUME NEW i \in 1..Len(Left) PROVE Left[i] = [of |-> a, at |-> i + Len(Taken)]
    <2>1. i + need \in 1..Len(rx) /\ Left[i] = rx[i + need] /\ i + need + Len(got) = i + Len(Taken)
      BY <1>1, <1>2
    <2> QED
      BY <1>3, <2>1
  <1>6. Stretch(Taken, a, 0) /\ Stretch(rx', a, Len(Taken))
    BY <1>1, <1>4, <1>5 DEF Stretch
  <1> QED
    BY <1>1, <1>2, <1>6
-----------------------------------------------------------------------------
(* The quiet line, action by action: the answer that arrives goes on to    *)
(* arrive.                                                                 *)

LEMMA FunctionTaken ==
    ASSUME QuietInv, StepsFit, NEW a \in AnswerType, Arriving(a), TakeFunction
    PROVE  Arriving(a)' /\ need' < BuffSize
  <1>1. TypeOK /\ Receiving /\ Take /\ pc = "function" /\ need = 2 /\ got = <<>>
    BY DEF QuietInv, TypeOK, TakeFunction, Receiving, Header
  <1>2. /\ Taken \in Seq(ByteType) /\ Len(Taken) = 2
        /\ Stretch(Taken, a, 0) /\ Stretch(rx', a, Len(Taken))
        /\ Len(rx') = Len(rx) - 2 /\ Len(rx) \in Nat
        /\ UNCHANGED <<device, pending, line, received, lost>>
    BY <1>1, TakingArrives
  <1>3. got' = Taken /\ fc' \in FunctionIn(Taken[2]) /\ need' = ConfirmationMeta(fc') /\ pc' = "meta"
        /\ request' = request
    BY DEF TakeFunction, Header
  <1>4. Taken[2] = [of |-> a, at |-> 2]
    BY <1>2 DEF Stretch
  <1>5. fc' = Code(a)
    BY <1>3, <1>4 DEF FunctionIn, Code, Header
  <1>6. need' \in {1, 4} /\ 2 + need' <= FrameLength(a)
    <2>1. need' = ConfirmationMeta(Code(a)) /\ need' \in {1, 4}
      BY <1>3, <1>5, MetaLength
    <2>2. Count(a) \in Nat /\ DataLength(Code(a), Count(a)) \in Nat
      BY LengthOfAnswer, DataLengthNat
    <2>3. FrameLength(a) = 2 + ConfirmationMeta(Code(a)) + DataLength(Code(a), Count(a))
      BY AnswerEnds
    <2> QED
      BY <2>1, <2>2, <2>3
  <1>7. need' < BuffSize
    BY <1>6, RtuAssumption DEF StepsFit
  <1>8. IF line' = <<>> THEN Len(got') + Len(rx') = FrameLength(a)
        ELSE line' = <<a>> /\ received' = Len(got') + Len(rx')
    <2>1. Len(got) = 0
      BY <1>1
    <2>2. Len(got') = 2 /\ Len(rx') = Len(rx) - 2 /\ Len(rx) \in Nat
      BY <1>2, <1>3
    <2>3. Len(got') + Len(rx') = Len(got) + Len(rx)
      BY <2>1, <2>2
    <2> QED
      BY <1>2, <2>3 DEF Arriving
  <1> QED
    BY <1>2, <1>3, <1>5, <1>6, <1>7, <1>8 DEF Arriving

LEMMA MetaTaken ==
    ASSUME QuietInv, StepsFit, NEW a \in AnswerType, Arriving(a), TakeMeta
    PROVE  Arriving(a)' /\ need' < BuffSize /\ pc' = "data" /\ UNCHANGED result
  <1>1. TypeOK /\ Receiving /\ Take /\ pc = "meta" /\ Len(got) = 2
    BY DEF QuietInv, TypeOK, TakeMeta, Receiving, Header
  <1>2. /\ Taken \in Seq(ByteType) /\ Len(Taken) = 2 + need /\ need \in Nat \ {0}
        /\ Stretch(Taken, a, 0) /\ Stretch(rx', a, Len(Taken))
        /\ Len(rx') = Len(rx) - need /\ Len(rx) \in Nat
        /\ UNCHANGED <<device, pending, line, received, lost>>
    BY <1>1, TakingArrives
  <1>3. fc = Code(a) /\ need = ConfirmationMeta(fc)
    BY <1>1 DEF Arriving
  <1>4. PICK count \in CountIn(Taken[3]) :
            IF Len(Taken) + DataLength(fc, count) > MaxAdu
            THEN Return(Failed)
            ELSE /\ need' = DataLength(fc, count)
                 /\ got' = Taken
                 /\ pc' = "data"
                 /\ UNCHANGED <<fc, request, result>>
    BY DEF TakeMeta, Header
  <1>5. Taken[3] = [of |-> a, at |-> 3]
    BY <1>2 DEF Stretch
  <1>6. DataLength(fc, count) = DataLength(Code(a), Count(a))
    BY <1>3, <1>4, <1>5, AnswerEnds
  <1>7. DataLength(fc, count) \in Nat
    BY <1>6, LengthOfAnswer, DataLengthNat
  <1>8. Len(Taken) + DataLength(fc, count) = FrameLength(a)
    BY <1>2, <1>3, <1>6, <1>7, AnswerEnds
  <1>9. /\ need' = DataLength(fc, count) /\ got' = Taken /\ pc' = "data"
        /\ UNCHANGED <<fc, request, result>>
    BY <1>4, <1>8, LengthOfAnswer, RtuAssumption
  <1>10. need' < BuffSize
    BY <1>6, <1>9 DEF StepsFit
  <1>11. IF line' = <<>> THEN Len(got') + Len(rx') = FrameLength(a)
         ELSE line' = <<a>> /\ received' = Len(got') + Len(rx')
    BY <1>1, <1>2, <1>9 DEF Arriving
  <1>12. Len(got') + need' = FrameLength(a)
    BY <1>8, <1>9
  <1>13. Len(got') + need' <= FrameLength(a)
    BY <1>12, LengthOfAnswer
  <1> QED
    BY <1>2, <1>9, <1>10, <1>11, <1>12, <1>13 DEF Arriving

(* The call takes the whole answer and returns what it says. *)
LEMMA DataTaken ==
    ASSUME QuietInv, NEW a \in AnswerType, Arriving(a), TakeData
    PROVE  /\ IF a.value = Exception THEN Return(Failed) ELSE Return(a.value)
           /\ pending' = <<>> /\ Nothing'
           /\ UNCHANGED device
  <1>1. TypeOK /\ Receiving /\ Take /\ pc = "data" /\ request \in Block
    BY DEF QuietInv, TypeOK, TakeData, Receiving
  <1>2. /\ Taken \in Seq(ByteType) /\ Len(Taken) = Len(got) + need
        /\ Len(got) \in Nat /\ need \in Nat \ {0}
        /\ Stretch(Taken, a, 0)
        /\ Len(rx') = Len(rx) - need /\ Len(rx) \in Nat
        /\ UNCHANGED <<device, pending, line, received, lost>>
    BY <1>1, TakingArrives
  <1>3. Len(Taken) = FrameLength(a)
    BY <1>1, <1>2 DEF Arriving
  <1>4. DOMAIN Taken = 1..Len(Taken) /\ Taken[1] = [of |-> a, at |-> 1]
    BY <1>2, <1>3, LengthOfAnswer DEF Stretch
  <1>5. Taken[1].of = a
    BY <1>4
  <1>6. Intact(Taken)
    <2>1. ASSUME NEW k \in DOMAIN Taken PROVE Taken[k] = [of |-> a, at |-> k]
      BY <1>2, <1>4 DEF Stretch
    <2> QED
      BY <1>3, <1>5, <2>1 DEF Intact
  <1>7. a.block = request
    BY DEF Arriving
  <1>8. IF Confirmed(a, request) THEN Return(a.value)
        ELSE IF a.value = Exception /\ Fc[a.block] = Fc[request] THEN Return(Failed)
        ELSE pc' = "recover" /\ need' = 0 /\ got' = <<>> /\ fc' = 0 /\ UNCHANGED <<request, result>>
    BY <1>5, <1>6 DEF TakeData
  <1>9. Confirmed(a, request) <=> a.value # Exception
    BY <1>7, OwnConfirmed DEF Confirmed
  <1>10. IF a.value = Exception THEN Return(Failed) ELSE Return(a.value)
    BY <1>7, <1>8, <1>9
  <1>11. got' = <<>>
    BY <1>10 DEF Return
  <1>12. line = <<>> /\ Len(rx) = need
    <2>1. Len(rx) >= need /\ Len(got) + need = FrameLength(a)
      BY <1>1 DEF Take, Arriving
    <2>2. line # <<>> => received < FrameLength(a)
      BY <1>1 DEF TypeOK, Arriving
    <2>3. line # <<>> => received = Len(got) + Len(rx)
      BY DEF Arriving
    <2>4. FrameLength(a) \in Nat
      BY LengthOfAnswer
    <2>5. line = <<>>
      BY <1>2, <2>1, <2>2, <2>3, <2>4
    <2>6. Len(got) + Len(rx) = FrameLength(a)
      BY <2>5 DEF Arriving
    <2> QED
      BY <1>2, <2>1, <2>4, <2>5, <2>6
  <1>13. rx' = <<>>
    <2>1. rx' \in Seq(ByteType) /\ Len(rx') = 0
      BY <1>1, <1>2, <1>12, LeftRoom
    <2> QED
      BY <2>1
  <1>14. received = 0
    BY <1>1, <1>12 DEF TypeOK
  <1> QED
    BY <1>2, <1>10, <1>11, <1>12, <1>13, <1>14 DEF Nothing, Arriving

(* While the call waits, the byte that comes finds room. *)
LEMMA RoomWhileReceiving ==
    ASSUME QuietInv, Receiving, ByteArrives, ~Overrun
    PROVE  Room
  <1>1. Len(rx) \in Nat /\ need \in Nat /\ BuffSize \in Nat /\ need < BuffSize
    BY RtuAssumption DEF QuietInv, TypeOK, Receiving
  <1>2. Room \/ Len(rx) < need
    BY <1>1 DEF Overrun, Receiving
  <1> QED
    BY <1>1, <1>2 DEF Room

LEMMA ByteReceived ==
    ASSUME QuietInv, Receiving, NEW a \in AnswerType, Arriving(a), ByteArrives, ~Overrun
    PROVE  Arriving(a)' /\ UNCHANGED callVars /\ UNCHANGED device
  <1>1. /\ Room /\ line # <<>> /\ TypeOK
        /\ UNCHANGED <<device, pending>> /\ UNCHANGED callVars
    BY RoomWhileReceiving DEF QuietInv, ByteArrives, ByteLeaves
  <1>2. line = <<a>> /\ received = Len(got) + Len(rx)
    BY <1>1 DEF Arriving
  <1>3. Head(line) = a /\ Tail(line) = <<>>
    BY <1>2
  <1> DEFINE byte == [of |-> a, at |-> received + 1]
  <1>4. rx' = Append(rx, byte)
    BY <1>1, <1>3 DEF ByteArrives
  <1>5. rx \in Seq(ByteType) /\ got \in Seq(ByteType) /\ Len(rx) \in Nat /\ Len(got) \in Nat
    BY <1>1 DEF TypeOK
  <1> HIDE DEF byte
  <1>6. /\ Len(rx') = Len(rx) + 1
        /\ \A i \in 1..Len(rx) : rx'[i] = rx[i]
        /\ rx'[Len(rx) + 1] = byte
    BY <1>4, <1>5
  <1>7. Stretch(rx', a, Len(got))
    <2> SUFFICES ASSUME NEW i \in 1..Len(rx') PROVE rx'[i] = [of |-> a, at |-> i + Len(got)]
      BY DEF Stretch
    <2>1. CASE i \in 1..Len(rx)
      BY <1>6, <2>1 DEF Arriving, Stretch
    <2>2. CASE i \notin 1..Len(rx)
      <3>1. i = Len(rx) + 1
        BY <1>5, <1>6, <2>2
      <3>2. received + 1 = i + Len(got)
        BY <1>2, <1>5, <3>1
      <3> QED
        BY <1>6, <3>1, <3>2 DEF byte
    <2> QED
      BY <2>1, <2>2
  <1>8. /\ UNCHANGED <<pending, request, got, need, fc, pc>>
        /\ pending = <<>>
    BY <1>1 DEF callVars, Arriving
  <1>9. IF line' = <<>> THEN Len(got') + Len(rx') = FrameLength(a)
        ELSE line' = <<a>> /\ received' = Len(got') + Len(rx')
    <2>1. IF received + 1 = FrameLength(a) THEN line' = <<>>
          ELSE received' = received + 1 /\ line' = <<a>>
      BY <1>2, <1>3 DEF ByteArrives, ByteLeaves
    <2>2. received + 1 = Len(got') + Len(rx')
      BY <1>2, <1>5, <1>6, <1>8
    <2> QED
      BY <2>1, <2>2
  <1> QED
    BY <1>1, <1>7, <1>8, <1>9 DEF Arriving

(* The answer begins to arrive when the device gives it. *)
LEMMA ReplyArrives ==
    ASSUME QuietInv, NEW v \in Value \cup {Exception}, Reply(v),
           NEW a, a = [block |-> request, value |-> v]
    PROVE  Asked /\ pending = <<request>> /\ a \in AnswerType /\ Arriving(a)'
  <1>1. pending # <<>> /\ UNCHANGED <<device, received, lost, rx, callVars>>
    BY DEF Reply
  <1>2. Receiving
    BY <1>1 DEF QuietInv
  <1>3. Asked /\ pending = <<request>>
    BY <1>1, <1>2 DEF QuietInv, Arriving, Asked
  <1>4. /\ line = <<>> /\ received = 0 /\ rx = <<>> /\ got = <<>> /\ pc = "function" /\ need = 2
        /\ request \in Block
    BY <1>3 DEF Asked, Nothing, QuietInv, TypeOK, Header
  <1>5. a \in AnswerType
    BY <1>4 DEF AnswerType
  <1>6. Head(pending) = request /\ Tail(pending) = <<>>
    BY <1>3
  <1>7. pending' = <<>> /\ line' = <<a>>
    BY <1>4, <1>6 DEF Reply
  <1>8. rx' = <<>> /\ got' = <<>> /\ received' = 0 /\ pc' = "function" /\ need' = 2 /\ request' = request
    BY <1>1, <1>4 DEF callVars
  <1>9. Len(rx') = 0 /\ Len(got') = 0
    BY <1>8
  <1>10. Stretch(got', a, 0) /\ Stretch(rx', a, Len(got'))
    BY <1>9 DEF Stretch
  <1>11. a.block = request /\ FrameLength(a) \in 5..MaxAdu
    BY <1>5, LengthOfAnswer
  <1>12. Len(got') + need' <= FrameLength(a)
    BY <1>8, <1>9, <1>11, RtuAssumption
  <1>13. line' # <<>> /\ received' = Len(got') + Len(rx')
    BY <1>7, <1>8, <1>9
  <1> QED
    BY <1>3, <1>5, <1>7, <1>8, <1>10, <1>11, <1>12, <1>13 DEF Arriving

(* A call that still waits for its answer takes nothing, and one whose     *)
(* answer arrives does not time out.                                       *)
LEMMA NothingTaken ==
    ASSUME QuietInv, Asked
    PROVE  ~Take /\ ~ByteLeaves
  <1>1. line = <<>> /\ rx = <<>> /\ need = 2
    BY DEF QuietInv, TypeOK, Asked, Nothing, Header
  <1>2. Len(rx) = 0
    BY <1>1
  <1> QED
    BY <1>1, <1>2 DEF Take, ByteLeaves

LEMMA NoTimeout ==
    ASSUME QuietInv, NEW a \in AnswerType, Arriving(a), Timeout
    PROVE  Late
  <1>1. Receiving /\ Len(rx) < need
    BY DEF Timeout, Receiving
  <1>2. Len(rx) \in Nat /\ Len(got) \in Nat /\ need \in Nat /\ FrameLength(a) \in Nat
    <2>1. Len(rx) \in Nat /\ Len(got) \in Nat /\ need \in 1..(MaxAdu - Len(got))
      BY <1>1 DEF QuietInv, TypeOK, Receiving
    <2> QED
      BY <2>1, LengthOfAnswer
  <1>3. Len(got) + need <= FrameLength(a)
    BY DEF Arriving
  <1>4. line # <<>>
    BY <1>1, <1>2, <1>3 DEF Arriving
  <1> QED
    BY <1>4 DEF Late

LEMMA QuietAfterCall ==
    ASSUME QuietInv, StepsFit, TypeOK', NEW b \in Block, Call(b)
    PROVE  QuietInv'
  <1>1. pc = "idle" /\ pending = <<>> /\ Nothing
    BY DEF Call, QuietInv, Receiving
  <1>2. /\ pending' = <<b>> /\ pc' = "function" /\ need' = 2 /\ got' = <<>> /\ request' = b
        /\ UNCHANGED <<line, received, rx>>
    BY <1>1 DEF Call, Header
  <1>3. Asked'
    BY <1>1, <1>2 DEF Asked, Nothing
  <1>4. need' < BuffSize
    BY <1>2, RtuAssumption DEF StepsFit
  <1> QED
    BY <1>2, <1>3, <1>4 DEF QuietInv, Receiving

LEMMA QuietAfterTake ==
    ASSUME QuietInv, StepsFit, TypeOK', TakeFunction \/ TakeMeta \/ TakeData
    PROVE  QuietInv'
  <1>1. Take /\ Receiving
    BY DEF TakeFunction, TakeMeta, TakeData, Receiving
  <1>2. PICK a \in AnswerType : Arriving(a)
    BY <1>1, NothingTaken DEF QuietInv
  <1>3. CASE TakeFunction
    BY <1>2, <1>3, FunctionTaken DEF QuietInv, Receiving, TakeFunction
  <1>4. CASE TakeMeta
    BY <1>2, <1>4, MetaTaken DEF QuietInv, Receiving
  <1>5. CASE TakeData
    <2>1. pc' = "idle" /\ pending' = <<>> /\ Nothing'
      BY <1>2, <1>5, DataTaken DEF Return
    <2> QED
      BY <2>1 DEF QuietInv, Receiving
  <1> QED
    BY <1>3, <1>4, <1>5

(* Only a call whose request was ignored ends without an answer. *)
LEMMA QuietAfterTimeout ==
    ASSUME QuietInv, TypeOK', Timeout \/ Recover, ~Late
    PROVE  QuietInv' /\ pc' \in {"recover", "idle"} /\ UNCHANGED device
  <1>1. pending = <<>> /\ Nothing
    <2>1. CASE Timeout
      <3>1. Receiving /\ \A a \in AnswerType : ~Arriving(a)
        BY <2>1, NoTimeout DEF Timeout, Receiving
      <3>2. Asked /\ pending = <<>>
        BY <2>1, <3>1 DEF QuietInv, Late
      <3> QED
        BY <3>2 DEF Asked
    <2>2. CASE Recover
      BY <2>2 DEF QuietInv, Recover, Receiving
    <2> QED
      BY <2>1, <2>2
  <1>2. /\ UNCHANGED <<device, pending, line, received, rx>> /\ got' = <<>>
        /\ pc' \in {"recover", "idle"}
    BY DEF Timeout, Recover, Return, lineVars
  <1>3. pending' = <<>> /\ Nothing' /\ ~Receiving'
    BY <1>1, <1>2 DEF Nothing, Receiving
  <1> QED
    BY <1>2, <1>3 DEF QuietInv

LEMMA QuietAfterReply ==
    ASSUME QuietInv, TypeOK', NEW v \in Value \cup {Exception}, Reply(v)
    PROVE  QuietInv'
  <1>0. PICK a : a = [block |-> request, value |-> v]
    OBVIOUS
  <1>1. Asked /\ a \in AnswerType /\ Arriving(a)'
    BY <1>0, ReplyArrives
  <1>2. UNCHANGED <<pc, need>>
    BY DEF Reply, callVars
  <1>3. Receiving /\ Receiving'
    BY <1>1, <1>2 DEF Asked, Receiving
  <1>4. \E x \in AnswerType : Arriving(x)'
    BY <1>1
  <1> QED
    BY <1>2, <1>3, <1>4 DEF QuietInv

LEMMA QuietAfterIgnored ==
    ASSUME QuietInv, TypeOK', DeviceIgnores
    PROVE  QuietInv' /\ Asked /\ Asked'
  <1>1. pending # <<>> /\ UNCHANGED <<line, received, lost, rx, pc, need, got, fc, request, result>>
    BY DEF DeviceIgnores, callVars
  <1>2. Asked /\ pending = <<request>>
    BY <1>1 DEF QuietInv, Arriving, Asked
  <1>3. pending' = <<>>
    BY <1>2 DEF DeviceIgnores
  <1>4. Asked'
    BY <1>1, <1>2, <1>3 DEF Asked, Nothing
  <1>5. Receiving /\ Receiving'
    BY <1>1, <1>2 DEF Asked, Receiving
  <1> QED
    BY <1>1, <1>2, <1>4, <1>5 DEF QuietInv

LEMMA QuietAfterByte ==
    ASSUME QuietInv, TypeOK', ByteArrives, ~Overrun
    PROVE  QuietInv' /\ Receiving
  <1>1. Receiving
    BY DEF ByteArrives, ByteLeaves, QuietInv, Nothing
  <1>2. PICK a \in AnswerType : Arriving(a)
    BY <1>1, NothingTaken DEF QuietInv, ByteArrives
  <1>3. Arriving(a)' /\ UNCHANGED callVars
    BY <1>1, <1>2, ByteReceived
  <1> QED
    BY <1>1, <1>3 DEF QuietInv, Receiving, callVars

(* Whatever is not touched by a step stays as it is. *)
LEMMA QuietUnchanged ==
    ASSUME QuietInv, TypeOK', UNCHANGED <<lineVars, callVars>>
    PROVE  QuietInv'
  <1>1. UNCHANGED <<pending, line, received, rx, pc, need, got, fc, request>>
    BY DEF lineVars, callVars
  <1>2. \A a \in AnswerType : Arriving(a) => Arriving(a)'
    BY <1>1 DEF Arriving, Stretch
  <1> QED
    BY <1>1, <1>2 DEF QuietInv, Nothing, Asked, Receiving

LEMMA QuietStep ==
    ASSUME QuietInv, StepsFit, [Next /\ Quiet]_vars
    PROVE  QuietInv'
  <1>1. TypeOK'
    BY StepTyped DEF QuietInv
  <1>2. CASE \E b \in Block : Call(b)
    BY <1>1, <1>2, QuietAfterCall
  <1>3. CASE TakeFunction \/ TakeMeta \/ TakeData
    BY <1>1, <1>3, QuietAfterTake
  <1>4. CASE (Timeout \/ Recover) /\ Quiet
    BY <1>1, <1>4, QuietAfterTimeout DEF Quiet
  <1>5. CASE DeviceAnswers
    <2>1. pending # <<>> /\ pending \in Seq(Block) /\ device \in [Block -> Value]
      BY <1>5 DEF DeviceAnswers, QuietInv, TypeOK
    <2>2. device[Head(pending)] \in Value
      BY <2>1
    <2> QED
      BY <1>1, <1>5, <2>2, QuietAfterReply DEF DeviceAnswers
  <1>6. CASE DeviceRefuses
    BY <1>1, <1>6, QuietAfterReply DEF DeviceRefuses
  <1>7. CASE DeviceIgnores
    BY <1>1, <1>7, QuietAfterIgnored
  <1>8. CASE DeviceChange
    BY <1>1, <1>8, QuietUnchanged DEF DeviceChange
  <1>9. CASE ByteArrives /\ Quiet
    BY <1>1, <1>9, QuietAfterByte DEF Quiet
  <1>10. CASE ByteLost /\ Quiet
    BY <1>10 DEF Quiet
  <1>11. CASE UNCHANGED vars
    BY <1>1, <1>11, QuietUnchanged DEF vars
  <1> QED
    BY <1>2, <1>3, <1>4, <1>5, <1>6, <1>7, <1>8, <1>9, <1>10, <1>11 DEF Next, MasterStep

LEMMA QuietInitially == Init => QuietInv
  <1> SUFFICES ASSUME Init PROVE QuietInv
    OBVIOUS
  <1>1. TypeOK
    BY InitTyped
  <1> QED
    BY <1>1 DEF Init, QuietInv, Receiving, Nothing

LEMMA AlwaysQuiet == ASSUME StepsFit PROVE QuietSpec => []QuietInv
<1>1. QuietInv /\ [Next /\ Quiet]_vars => QuietInv'
  BY QuietStep
<1> QED
  BY <1>1, QuietInitially, PTL DEF QuietSpec

LEMMA EndsWhereItEnds == QuietInv => MessageEnds
  <1> SUFFICES ASSUME QuietInv, pc = "data" PROVE Len(got) + need = FrameLength(got[1].of)
    BY DEF MessageEnds
  <1>1. PICK a \in AnswerType : Arriving(a)
    BY DEF QuietInv, Receiving, Asked
  <1>2. got \in Seq(ByteType) /\ Len(got) > 2
    BY DEF QuietInv, TypeOK, Header
  <1>3. 1 \in 1..Len(got)
    BY <1>2
  <1>4. got[1].of = a
    <2>1. \A i \in 1..Len(got) : got[i] = [of |-> a, at |-> i + 0]
      BY <1>1 DEF Arriving, Stretch
    <2>2. got[1] = [of |-> a, at |-> 1 + 0]
      BY <1>3, <2>1
    <2> QED
      BY <2>2
  <1> QED
    BY <1>1, <1>4 DEF Arriving

(* On a quiet line receive_msg stops exactly where the answer ends, for    *)
(* every function, quantity and refusal, if the ring buffer holds what its *)
(* longest step reads (compute_meta_length_after_function,                 *)
(* compute_data_length_after_meta, receive_msg).                           *)
THEOREM AnswersEnd == ASSUME StepsFit PROVE QuietSpec => []MessageEnds
<1> QED
  BY AlwaysQuiet, EndsWhereItEnds, PTL

-----------------------------------------------------------------------------
(* The refinement of Transaction: the device samples its block when it     *)
(* answers with data, and this answer, however its bytes are spread over   *)
(* line, ring buffer and message, is the only one there is.                *)

(* What the answer that arrives is worth. *)
Worth(a) == IF a.value = Exception THEN NoSample ELSE a.value

LEMMA WorthOf ==
    ASSUME NEW a \in AnswerType
    PROVE  a.value # Exception => a.value \in Value /\ a.value # NoSample /\ Worth(a) = a.value
  BY RtuAssumption DEF AnswerType, Worth

LEMMA SequenceDomain == ASSUME NEW S, NEW f \in Seq(S) PROVE DOMAIN f = 1..Len(f)
  OBVIOUS

LEMMA OnlyAnswer ==
    ASSUME TypeOK, NEW a \in AnswerType, Arriving(a)
    PROVE  Answers = {a}
  <1>1. /\ \A i \in 1..Len(got) : got[i] = [of |-> a, at |-> i + 0]
        /\ \A i \in 1..Len(rx) : rx[i] = [of |-> a, at |-> i + Len(got)]
    BY DEF Arriving, Stretch
  <1>2. /\ DOMAIN got = 1..Len(got) /\ DOMAIN rx = 1..Len(rx)
        /\ Len(got) \in Nat /\ Len(rx) \in Nat
    BY SequenceDomain DEF TypeOK
  <1>3. { got[i].of : i \in DOMAIN got } \subseteq {a} /\ { rx[i].of : i \in DOMAIN rx } \subseteq {a}
    BY <1>1, <1>2
  <1>4. Len(got) > 0 => a \in { got[i].of : i \in DOMAIN got }
    <2> SUFFICES ASSUME Len(got) > 0 PROVE a \in { got[i].of : i \in DOMAIN got }
      OBVIOUS
    <2>1. 1 \in DOMAIN got /\ got[1] = [of |-> a, at |-> 1 + 0]
      BY <1>1, <1>2
    <2>2. got[1].of = a
      BY <2>1
    <2> QED
      BY <2>1, <2>2
  <1>5. Len(rx) > 0 => a \in { rx[i].of : i \in DOMAIN rx }
    <2> SUFFICES ASSUME Len(rx) > 0 PROVE a \in { rx[i].of : i \in DOMAIN rx }
      OBVIOUS
    <2>1. 1 \in DOMAIN rx /\ rx[1] = [of |-> a, at |-> 1 + Len(got)]
      BY <1>1, <1>2
    <2>2. rx[1].of = a
      BY <2>1
    <2> QED
      BY <2>1, <2>2
  <1>6. CASE line = <<>>
    <2>1. Len(got) + Len(rx) > 0
      BY <1>6, LengthOfAnswer DEF Arriving
    <2>2. { line[i] : i \in DOMAIN line } = {}
      BY <1>6
    <2>3. Len(got) > 0 \/ Len(rx) > 0
      BY <1>2, <2>1
    <2>4. a \in { got[i].of : i \in DOMAIN got } \cup { rx[i].of : i \in DOMAIN rx }
      BY <1>4, <1>5, <2>3
    <2> QED
      BY <1>3, <2>2, <2>4, Zenon DEF Answers
  <1>7. CASE line # <<>>
    <2>1. line = <<a>>
      BY <1>7 DEF Arriving
    <2>2. { line[i] : i \in DOMAIN line } = {a}
      <3>1. Len(line) = 1 /\ line[1] = a
        BY <2>1
      <3>2. DOMAIN line = {1}
        BY <3>1, SequenceDomain DEF TypeOK
      <3> QED
        BY <3>1, <3>2
    <2> QED
      BY <1>3, <2>2 DEF Answers
  <1> QED
    BY <1>6, <1>7

LEMMA NoAnswer ==
    ASSUME Nothing
    PROVE  Answers = {}
  BY DEF Nothing, Answers

LEMMA SampleOf ==
    ASSUME NEW a \in AnswerType, Answers = {a}, pc # "idle"
    PROVE  Sampled = Worth(a)
  <1>1. CASE a.value = Exception
    <2>1. Samples = {}
      BY <1>1 DEF Samples
    <2> QED
      BY <1>1, <2>1 DEF Sampled, Worth
  <1>2. CASE a.value # Exception
    <2>1. Samples = {a.value}
      BY <1>2 DEF Samples
    <2> QED
      BY <1>2, <2>1 DEF Sampled, Worth
  <1> QED
    BY <1>1, <1>2

LEMMA NoSampleOf ==
    ASSUME Answers = {} \/ pc = "idle"
    PROVE  Sampled = NoSample
  BY DEF Sampled, Samples

(* Both, in a state and in the next one. *)
LEMMA SampledNow ==
    /\ \A a \in AnswerType : TypeOK /\ Arriving(a) /\ pc # "idle" => Sampled = Worth(a)
    /\ Nothing \/ pc = "idle" => Sampled = NoSample
  BY OnlyAnswer, NoAnswer, SampleOf, NoSampleOf

LEMMA SampledNext ==
    /\ \A a \in AnswerType : TypeOK' /\ Arriving(a)' /\ pc' # "idle" => Sampled' = Worth(a)
    /\ Nothing' \/ pc' = "idle" => Sampled' = NoSample
<1> DEFINE F == /\ \A a \in AnswerType : TypeOK /\ Arriving(a) /\ pc # "idle" => Sampled = Worth(a)
                /\ Nothing \/ pc = "idle" => Sampled = NoSample
<1>1. F
  BY SampledNow
<1>2. F'
  BY <1>1, PTL
<1> QED
  BY <1>2

LEMMA CallAbstractly ==
    ASSUME QuietInv, QuietInv', NEW b \in Block, Call(b)
    PROVE  Abstract!Call
  <1>1. pc = "idle" /\ Nothing /\ UNCHANGED <<line, rx, received>> /\ got' = <<>>
    BY DEF Call, QuietInv, Receiving
  <1>2. Nothing'
    BY <1>1 DEF Nothing
  <1>3. Sampled = NoSample /\ Sampled' = NoSample
    BY <1>1, <1>2, SampledNow, SampledNext
  <1>4. request = NoBlock
    BY <1>1 DEF QuietInv, TypeOK
  <1> QED
    BY <1>3, <1>4 DEF Call, Abstract!Call, NoBlock, NoResult, Abstract!NoBlock, Abstract!NoResult

(* The answer goes on, and so does its sample. *)
LEMMA ArrivingAbstractly ==
    ASSUME QuietInv, QuietInv', Receiving, Receiving', NEW a \in AnswerType, Arriving(a), Arriving(a)',
           UNCHANGED <<device, result>>
    PROVE  UNCHANGED Abstract!vars
  <1>1. TypeOK /\ TypeOK' /\ pc # "idle" /\ pc' # "idle"
    BY DEF QuietInv, Receiving
  <1>2. Sampled = Worth(a) /\ Sampled' = Worth(a)
    BY <1>1, SampledNow, SampledNext
  <1>3. request' = request
    BY DEF Arriving
  <1> QED
    BY <1>2, <1>3 DEF Abstract!vars

LEMMA TakeAbstractly ==
    ASSUME QuietInv, QuietInv', StepsFit, TakeFunction \/ TakeMeta \/ TakeData
    PROVE  Abstract!Return \/ Abstract!Fail \/ UNCHANGED Abstract!vars
  <1>1. Take /\ Receiving
    BY DEF TakeFunction, TakeMeta, TakeData, Receiving
  <1>2. PICK a \in AnswerType : Arriving(a)
    BY <1>1, NothingTaken DEF QuietInv
  <1>3. CASE TakeFunction
    <2>1. Arriving(a)'
      BY <1>2, <1>3, FunctionTaken
    <2>2. Receiving' /\ UNCHANGED <<device, result>>
      BY <1>3 DEF TakeFunction, Take, Receiving
    <2> QED
      BY <1>1, <1>2, <2>1, <2>2, ArrivingAbstractly
  <1>4. CASE TakeMeta
    <2>1. Arriving(a)' /\ pc' = "data" /\ UNCHANGED result
      BY <1>2, <1>4, MetaTaken
    <2>2. Receiving' /\ UNCHANGED <<device, result>>
      BY <1>1, <2>1 DEF Take, Receiving
    <2> QED
      BY <1>1, <1>2, <2>1, <2>2, ArrivingAbstractly
  <1>5. CASE TakeData
    <2>1. /\ IF a.value = Exception THEN Return(Failed) ELSE Return(a.value)
          /\ UNCHANGED device
      BY <1>2, <1>5, DataTaken
    <2>2. pc' = "idle" /\ request' = NoBlock
      BY <2>1 DEF Return
    <2>3. TypeOK /\ pc # "idle" /\ request # NoBlock
      BY <1>1, RtuAssumption DEF QuietInv, TypeOK, Receiving
    <2>4. Sampled = Worth(a) /\ Sampled' = NoSample
      BY <1>2, <2>2, <2>3, SampledNow, SampledNext
    <2>5. CASE a.value = Exception
      <3>1. result' = Failed
        BY <2>1, <2>5 DEF Return
      <3> QED
        BY <2>1, <2>2, <2>3, <2>4, <3>1 DEF Abstract!Fail, NoBlock, NoSample, Failed,
           Abstract!NoBlock, Abstract!NoSample, Abstract!Failed
    <2>6. CASE a.value # Exception
      <3>1. result' = a.value /\ Sampled = a.value /\ a.value # NoSample
        BY <2>1, <2>4, <2>6, WorthOf DEF Return
      <3> QED
        BY <2>1, <2>2, <2>3, <2>4, <3>1 DEF Abstract!Return, NoBlock, NoSample,
           Abstract!NoBlock, Abstract!NoSample
    <2> QED
      BY <2>5, <2>6
  <1> QED
    BY <1>3, <1>4, <1>5

LEMMA TimeoutAbstractly ==
    ASSUME QuietInv, TypeOK', Timeout \/ Recover, ~Late
    PROVE  Abstract!Fail \/ UNCHANGED Abstract!vars
  <1>1. QuietInv' /\ pc' \in {"recover", "idle"} /\ UNCHANGED device
    BY QuietAfterTimeout
  <1>2. Nothing'
    BY <1>1 DEF QuietInv, Receiving
  <1>3. Sampled' = NoSample
    BY <1>2, SampledNext
  <1>4. CASE Timeout
    <2>1. Receiving /\ \A a \in AnswerType : ~Arriving(a)
      BY <1>4, NoTimeout DEF Timeout, Receiving
    <2>2. Nothing
      BY <2>1 DEF QuietInv, Asked
    <2>3. Sampled = NoSample
      BY <2>2, SampledNow
    <2> QED
      BY <1>1, <1>3, <1>4, <2>3 DEF Timeout, Abstract!vars
  <1>5. CASE Recover
    <2>1. request # NoBlock
      BY <1>5, RtuAssumption DEF QuietInv, TypeOK, Recover
    <2>2. result' = Failed /\ request' = NoBlock
      BY <1>5 DEF Recover, Return
    <2> QED
      BY <1>1, <1>3, <2>1, <2>2 DEF Abstract!Fail, NoBlock, NoSample, Failed,
         Abstract!NoBlock, Abstract!NoSample, Abstract!Failed
  <1> QED
    BY <1>4, <1>5

(* Data are a sample; a refusal is none. *)
LEMMA ReplyAbstractly ==
    ASSUME QuietInv, TypeOK', NEW v \in Value \cup {Exception}, Reply(v)
    PROVE  /\ v = Exception => UNCHANGED Abstract!vars
           /\ v = device[Head(pending)] /\ v # Exception => Abstract!Sample
  <1>0. PICK a : a = [block |-> request, value |-> v]
    OBVIOUS
  <1>1. Asked /\ pending = <<request>> /\ a \in AnswerType /\ Arriving(a)'
    BY <1>0, ReplyArrives
  <1>2. UNCHANGED <<device, pc, request, result>> /\ pc # "idle" /\ Nothing
    BY <1>1 DEF Reply, callVars, Asked
  <1>3. Sampled = NoSample /\ Sampled' = Worth(a)
    BY <1>1, <1>2, SampledNow, SampledNext
  <1>4. ASSUME v = Exception PROVE UNCHANGED Abstract!vars
    <2>1. Worth(a) = NoSample
      BY <1>0, <1>4 DEF Worth
    <2> QED
      BY <1>2, <1>3, <2>1 DEF Abstract!vars
  <1>5. ASSUME v = device[Head(pending)], v # Exception PROVE Abstract!Sample
    <2>1. Worth(a) = v
      BY <1>0, <1>5 DEF Worth
    <2>2. Head(pending) = request
      BY <1>1
    <2>3. request # NoBlock
      BY <1>2, RtuAssumption DEF QuietInv, TypeOK
    <2> QED
      BY <1>2, <1>3, <1>5, <2>1, <2>2, <2>3 DEF Abstract!Sample, NoBlock, Abstract!NoBlock
  <1> QED
    BY <1>4, <1>5

LEMMA ByteAbstractly ==
    ASSUME QuietInv, QuietInv', ByteArrives, ~Overrun
    PROVE  UNCHANGED Abstract!vars
  <1>1. Receiving
    BY DEF ByteArrives, ByteLeaves, QuietInv, Nothing
  <1>2. PICK a \in AnswerType : Arriving(a)
    BY <1>1, NothingTaken DEF QuietInv, ByteArrives
  <1>3. Arriving(a)' /\ UNCHANGED callVars /\ UNCHANGED device
    BY <1>1, <1>2, ByteReceived
  <1>4. Receiving' /\ UNCHANGED <<device, result>>
    BY <1>1, <1>3 DEF callVars, Receiving
  <1> QED
    BY <1>1, <1>2, <1>3, <1>4, ArrivingAbstractly

(* Nothing that Sampled looks at has changed. *)
LEMMA SampledStays ==
    ASSUME UNCHANGED <<line, rx, got, pc>>
    PROVE  Sampled' = Sampled
  <1>1. Answers' = Answers
    BY DEF Answers
  <1>2. Samples' = Samples
    BY <1>1 DEF Samples
  <1> QED
    BY <1>2 DEF Sampled

LEMMA StepsAbstractly ==
    ASSUME QuietInv, StepsFit, [Next /\ Quiet]_vars
    PROVE  [Abstract!Next]_(Abstract!vars)
  <1> USE DEF Abstract!Next
  <1>1. QuietInv' /\ TypeOK'
    BY QuietStep DEF QuietInv
  <1>2. CASE \E b \in Block : Call(b)
    BY <1>1, <1>2, CallAbstractly
  <1>3. CASE TakeFunction \/ TakeMeta \/ TakeData
    BY <1>1, <1>3, TakeAbstractly
  <1>4. CASE (Timeout \/ Recover) /\ Quiet
    BY <1>1, <1>4, TimeoutAbstractly DEF Quiet
  <1>5. CASE DeviceAnswers
    <2>1. pending # <<>> /\ pending \in Seq(Block) /\ device \in [Block -> Value]
      BY <1>5 DEF DeviceAnswers, QuietInv, TypeOK
    <2>2. device[Head(pending)] \in Value /\ device[Head(pending)] # Exception
      BY <2>1, RtuAssumption
    <2> QED
      BY <1>1, <1>5, <2>2, ReplyAbstractly DEF DeviceAnswers
  <1>6. CASE DeviceRefuses
    BY <1>1, <1>6, ReplyAbstractly DEF DeviceRefuses
  <1>7. CASE DeviceIgnores
    <2>1. Asked /\ Asked' /\ UNCHANGED <<device, request, result>>
      BY <1>1, <1>7, QuietAfterIgnored DEF DeviceIgnores, callVars
    <2>2. Sampled = NoSample /\ Sampled' = NoSample
      BY <2>1, SampledNow, SampledNext DEF Asked
    <2> QED
      BY <2>1, <2>2 DEF Abstract!vars
  <1>8. CASE DeviceChange
    <2>1. UNCHANGED <<line, rx, got, pc, request, result>>
      BY <1>8 DEF DeviceChange, lineVars, callVars
    <2>2. Sampled' = Sampled
      BY <2>1, SampledStays
    <2> QED
      BY <1>8, <2>1, <2>2 DEF DeviceChange, Abstract!DeviceChange
  <1>9. CASE ByteArrives /\ Quiet
    BY <1>1, <1>9, ByteAbstractly DEF Quiet
  <1>10. CASE ByteLost /\ Quiet
    BY <1>10 DEF Quiet
  <1>11. CASE UNCHANGED vars
    <2>1. UNCHANGED <<device, line, rx, got, pc, request, result>>
      BY <1>11 DEF vars, lineVars, callVars
    <2> QED
      BY <2>1, SampledStays DEF Abstract!vars
  <1> QED
    BY <1>2, <1>3, <1>4, <1>5, <1>6, <1>7, <1>8, <1>9, <1>10, <1>11 DEF Next, MasterStep

(* A read over a quiet serial line that succeeds gives what its block held *)
(* between the call and its return, however the device and the arrival of  *)
(* the bytes are timed, if the ring buffer holds what the longest step of  *)
(* receive_msg reads (modbus.c, modbus-rtu.c, nio_serial.c).               *)
THEOREM QuietReadsAreCurrent == ASSUME StepsFit PROVE QuietSpec => ImplementsTransaction
<1>1. Init => Abstract!Init
  <2> SUFFICES ASSUME Init PROVE Abstract!Init
    OBVIOUS
  <2>1. Sampled = NoSample
    BY DEF Init, Sampled
  <2> QED
    BY <2>1 DEF Init, Abstract!Init, NoBlock, NoSample, NoResult,
                Abstract!NoBlock, Abstract!NoSample, Abstract!NoResult
<1>2. QuietInv /\ [Next /\ Quiet]_vars => [Abstract!Next]_(Abstract!vars)
  BY StepsAbstractly
<1> QED
  BY <1>1, <1>2, AlwaysQuiet, PTL DEF QuietSpec, ImplementsTransaction, Abstract!Spec

-----------------------------------------------------------------------------
(* That the steps fit is no more than what the code needs: on any line, an *)
(* answer of which one step would not fit into the ring is never taken.    *)

(* What was read says how far the message was read. *)
StepInv ==
    /\ pc \in {"meta", "data"} => fc \in FunctionIn(got[2])
    /\ pc = "meta" => need = ConfirmationMeta(fc)
    /\ pc = "data" => Len(got) = 2 + ConfirmationMeta(fc)

LEMMA StepInvKept ==
    ASSUME TypeOK, StepInv, [Next]_vars
    PROVE  StepInv'
<1>1. CASE TakeFunction
  <2>1. Receiving /\ Take /\ pc = "function" /\ got = <<>> /\ need = 2
    BY <1>1 DEF TypeOK, TakeFunction, Receiving, Header
  <2>2. /\ got' = Taken /\ fc' \in FunctionIn(Taken[2]) /\ need' = ConfirmationMeta(fc') /\ pc' = "meta"
    BY <1>1 DEF TakeFunction, Header
  <2>3. FunctionIn(got'[2]) = FunctionIn(Taken[2])
    BY <2>2
  <2> QED
    BY <2>2, <2>3 DEF StepInv, FunctionIn
<1>2. CASE TakeMeta
  <2>1. Receiving /\ Take /\ pc = "meta" /\ Len(got) = 2
    BY <1>2 DEF TypeOK, TakeMeta, Receiving, Header
  <2>2. Len(Taken) = Len(got) + need /\ Taken[2] = got[2] /\ need = ConfirmationMeta(fc)
    BY <2>1, TakeLeaves, TakenAndLeft DEF StepInv
  <2>3. \/ pc' = "idle"
        \/ got' = Taken /\ pc' = "data" /\ fc' = fc
    BY <1>2 DEF TakeMeta, Return
  <2>4. fc \in FunctionIn(got[2])
    BY <2>1 DEF StepInv
  <2>5. CASE pc' = "idle"
    BY <2>5 DEF StepInv
  <2>6. CASE got' = Taken /\ pc' = "data" /\ fc' = fc
    <3>1. got'[2] = got[2] /\ Len(got') = 2 + ConfirmationMeta(fc')
      BY <2>1, <2>2, <2>6
    <3> QED
      BY <2>4, <2>6, <3>1 DEF StepInv, FunctionIn
  <2> QED
    BY <2>3, <2>5, <2>6
<1>3. CASE TakeData \/ Timeout \/ Recover \/ \E b \in Block : Call(b)
  <2>1. pc' \in {"idle", "recover", "function"}
    BY <1>3 DEF TakeData, Timeout, Recover, Call, Return
  <2> QED
    BY <2>1 DEF StepInv
<1>4. CASE UNCHANGED callVars
  BY <1>4 DEF StepInv, callVars, FunctionIn
<1> QED
  BY <1>1, <1>2, <1>3, <1>4
     DEF Next, MasterStep, DeviceAnswers, DeviceRefuses, Reply, DeviceIgnores, DeviceChange, ByteArrives,
         ByteLost, ByteLeaves, vars

LEMMA StepFitted ==
    ASSUME TypeOK, StepInv, TakeData, Succeeded',
           NEW a, a = Taken[1].of
    PROVE  DataLength(Code(a), Count(a)) < BuffSize
<1>1. Receiving /\ Take /\ pc = "data" /\ result = NoResult
  BY DEF TypeOK, TakeData, Receiving
<1>2. /\ Taken \in Seq(ByteType) /\ Len(Taken) = Len(got) + need /\ need \in Nat \ {0}
      /\ Len(got) \in Nat /\ Len(rx) \in Nat
      /\ \A i \in 1..Len(got) : Taken[i] = got[i]
  BY <1>1, TakeLeaves, TakenAndLeft
<1>3. a \in AnswerType
  <2>1. Taken[1] \in ByteType
    BY <1>2, ElementOf
  <2> QED
    BY <2>1 DEF ByteType
<1>4. result' # NoResult /\ result' # Failed
  BY DEF Succeeded
<1>5. Intact(Taken)
  BY <1>1, <1>4 DEF TakeData, Return
<1>6. Len(Taken) = FrameLength(a) /\ \A k \in 1..Len(Taken) : Taken[k] = [of |-> a, at |-> k]
  BY <1>2, <1>5, SequenceDomain DEF Intact
<1>7. Len(got) > 2 /\ Len(got) = 2 + ConfirmationMeta(fc) /\ fc \in FunctionIn(got[2])
  BY <1>1 DEF TypeOK, StepInv, Header
<1>8. got[2] = [of |-> a, at |-> 2]
  <2>1. 2 \in 1..Len(got) /\ 2 \in 1..Len(Taken)
    BY <1>2, <1>7
  <2> QED
    BY <1>2, <1>6, <2>1
<1>9. fc = Code(a)
  BY <1>7, <1>8 DEF FunctionIn, Code, Header
<1>10. FrameLength(a) = 2 + ConfirmationMeta(Code(a)) + DataLength(Code(a), Count(a))
  BY <1>3, AnswerEnds
<1>11. DataLength(Code(a), Count(a)) \in Nat
  BY <1>3, LengthOfAnswer, DataLengthNat
<1>12. need = DataLength(Code(a), Count(a))
  <2> DEFINE d == DataLength(Code(a), Count(a))
             m == ConfirmationMeta(Code(a))
  <2>1. Len(got) + need = 2 + m + d /\ Len(got) = 2 + m /\ d \in Nat /\ need \in Nat /\ Len(got) \in Nat
    BY <1>2, <1>6, <1>7, <1>9, <1>10, <1>11
  <2>2. m \in Nat
    BY MetaLength
  <2> HIDE DEF d, m
  <2>3. need = d
    BY <2>1, <2>2
  <2> QED
    BY <2>3 DEF d
<1>13. need <= Len(rx) /\ Len(rx) < BuffSize /\ BuffSize \in Nat
  BY <1>1, TakeLeaves, RtuAssumption DEF TypeOK
<1> QED
  BY <1>2, <1>12, <1>13

(* A call never succeeds with an answer whose data and checksum the ring   *)
(* buffer of the serial driver cannot hold (receive_msg,                   *)
(* _modbus_rtu_select, nio_serial_rxcallback).                             *)
THEOREM OnlyFittingTaken ==
    Spec => [][TakeData /\ Succeeded'
                 => DataLength(Code(Taken[1].of), Count(Taken[1].of)) < BuffSize]_vars
<1>1. Init => StepInv
  BY DEF Init, StepInv
<1>2. TypeOK /\ StepInv /\ [Next]_vars => StepInv'
  BY StepInvKept
<1>3. TypeOK /\ StepInv /\ [Next]_vars
        => [TakeData /\ Succeeded'
              => DataLength(Code(Taken[1].of), Count(Taken[1].of)) < BuffSize]_vars
  BY StepFitted
<1> QED
  BY <1>1, <1>2, <1>3, TypeCorrect, PTL DEF Spec
=============================================================================
