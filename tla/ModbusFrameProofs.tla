------------------------- MODULE ModbusFrameProofs -------------------------
(***************************************************************************)
(* What holds of the lengths in ModbusFrame for all quantities, and of a   *)
(* message that is taken off a stream piece by piece.                      *)
(***************************************************************************)
EXTENDS ModbusFrame, SequenceTheorems, TLAPS

LEMMA BytesNat == ASSUME NEW nb \in Nat PROVE Bytes(nb) \in Nat
BY DEF Bytes

LEMMA FunctionList ==
    ASSUME NEW f \in Functions
    PROVE  f \in {1, 2, 3, 4, 5, 6, 15, 16, 17, 23}
BY DEF Functions, ReadBits, ReadRegisters, WriteOne, WriteMany,
       FC_READ_COILS, FC_READ_DISCRETE_INPUTS, FC_READ_HOLDING_REGISTERS, FC_READ_INPUT_REGISTERS,
       FC_WRITE_SINGLE_COIL, FC_WRITE_SINGLE_REGISTER, FC_WRITE_MULTIPLE_COILS,
       FC_WRITE_MULTIPLE_REGISTERS, FC_REPORT_SLAVE_ID, FC_WRITE_AND_READ_REGISTERS

(* A server finds the end of every request a client builds. *)
THEOREM EveryRequestEnds ==
    ASSUME NEW f \in Functions, NEW nb \in Nat, NEW nbw \in Nat
    PROVE  RequestEnds(f, nb, nbw)
<1> USE DEF Functions, ReadBits, ReadRegisters, WriteOne, WriteMany,
           FC_READ_COILS, FC_READ_DISCRETE_INPUTS, FC_READ_HOLDING_REGISTERS, FC_READ_INPUT_REGISTERS,
           FC_WRITE_SINGLE_COIL, FC_WRITE_SINGLE_REGISTER, FC_READ_EXCEPTION_STATUS,
           FC_WRITE_MULTIPLE_COILS, FC_WRITE_MULTIPLE_REGISTERS, FC_REPORT_SLAVE_ID,
           FC_WRITE_AND_READ_REGISTERS
<1>1. Bytes(nb) \in Nat
  BY BytesNat
<1>2. f \in {1, 2, 3, 4, 5, 6, 15, 16, 17, 23}
  BY FunctionList
<1> QED
  BY <1>1, <1>2 DEF RequestEnds, IndicationMeta, IndicationData, RequestCount, RequestBuilt

(* A client finds the end of every answer modbus_reply builds, and it is   *)
(* where compute_response_length_from_request expects it.                  *)
THEOREM EveryResponseEnds ==
    ASSUME NEW f \in Functions, NEW nb \in Nat, NEW id \in Nat
    PROVE  ResponseEnds(f, nb, id)
<1> USE DEF Functions, ReadBits, ReadRegisters, WriteOne, WriteMany,
           FC_READ_COILS, FC_READ_DISCRETE_INPUTS, FC_READ_HOLDING_REGISTERS, FC_READ_INPUT_REGISTERS,
           FC_WRITE_SINGLE_COIL, FC_WRITE_SINGLE_REGISTER, FC_READ_EXCEPTION_STATUS,
           FC_WRITE_MULTIPLE_COILS, FC_WRITE_MULTIPLE_REGISTERS, FC_REPORT_SLAVE_ID,
           FC_WRITE_AND_READ_REGISTERS
<1>1. Bytes(nb) \in Nat
  BY BytesNat
<1>2. f \in {1, 2, 3, 4, 5, 6, 15, 16, 17, 23}
  BY FunctionList
<1> QED
  BY <1>1, <1>2
     DEF ResponseEnds, ConfirmationMeta, ConfirmationData, ResponseCount, ResponseBuilt,
         ResponseLength, Undefined

(* All messages end where the other side expects it, whatever they carry. *)
THEOREM AllFramesAgree == FramesAgree(Nat)
<1> USE DEF Functions, ReadBits, ReadRegisters, WriteOne, WriteMany,
           FC_READ_COILS, FC_READ_DISCRETE_INPUTS, FC_READ_HOLDING_REGISTERS, FC_READ_INPUT_REGISTERS,
           FC_WRITE_SINGLE_COIL, FC_WRITE_SINGLE_REGISTER, FC_READ_EXCEPTION_STATUS,
           FC_WRITE_MULTIPLE_COILS, FC_WRITE_MULTIPLE_REGISTERS, FC_REPORT_SLAVE_ID,
           FC_WRITE_AND_READ_REGISTERS
<1>1. ASSUME NEW f \in Functions PROVE ExceptionEnds(f)
  <2>1. f \in {1, 2, 3, 4, 5, 6, 15, 16, 17, 23}
    BY FunctionList
  <2> QED
    BY <2>1 DEF ExceptionEnds, ConfirmationMeta, ConfirmationData
<1> QED
  BY <1>1, EveryRequestEnds, EveryResponseEnds DEF FramesAgree
-----------------------------------------------------------------------------
(* Messages, and pieces of them. *)

LEMMA ConcatOf ==
    ASSUME NEW S, NEW f \in Seq(S), NEW g \in Seq(S)
    PROVE  /\ f \o g \in Seq(S) /\ Len(f \o g) = Len(f) + Len(g)
           /\ Len(f) \in Nat /\ Len(g) \in Nat
  OBVIOUS

LEMMA ConcatElements ==
    ASSUME NEW S, NEW f \in Seq(S), NEW g \in Seq(S)
    PROVE  /\ \A i \in 1..Len(f) : (f \o g)[i] = f[i]
           /\ \A i \in 1..Len(g) : (f \o g)[i + Len(f)] = g[i]
  OBVIOUS

LEMMA EmptyConcat ==
    ASSUME NEW S, NEW f \in Seq(S)
    PROVE  <<>> \o f = f /\ f \o <<>> = f /\ <<>> \in Seq(S)
  OBVIOUS

LEMMA ConcatAssociates ==
    ASSUME NEW S, NEW f \in Seq(S), NEW g \in Seq(S), NEW h \in Seq(S)
    PROVE  (f \o g) \o h = f \o (g \o h)
  OBVIOUS

LEMMA Cut ==
    ASSUME NEW S, NEW f \in Seq(S), NEW n \in 0..Len(f)
    PROVE  /\ SubSeq(f, 1, n) \in Seq(S) /\ SubSeq(f, n + 1, Len(f)) \in Seq(S)
           /\ Len(SubSeq(f, 1, n)) = n /\ Len(SubSeq(f, n + 1, Len(f))) = Len(f) - n
           /\ \A i \in 1..n : SubSeq(f, 1, n)[i] = f[i]
           /\ \A i \in 1..(Len(f) - n) : SubSeq(f, n + 1, Len(f))[i] = f[i + n]
           /\ SubSeq(f, 1, n) \o SubSeq(f, n + 1, Len(f)) = f
  <1>1. /\ n \in Int /\ 1 \in Int /\ n + 1 \in Int /\ Len(f) \in Int /\ n <= Len(f) /\ 0 <= n
        /\ \A i \in 1..n : f[i] \in S
        /\ \A i \in (n + 1)..Len(f) : f[i] \in S
    BY ElementOfSeq
  <1>2. /\ SubSeq(f, 1, n) \in Seq(S) /\ Len(SubSeq(f, 1, n)) = IF 1 <= n THEN n - 1 + 1 ELSE 0
        /\ \A i \in 1..(n - 1 + 1) : SubSeq(f, 1, n)[i] = f[1 + i - 1]
    BY <1>1, SubSeqProperties
  <1>3. /\ SubSeq(f, n + 1, Len(f)) \in Seq(S)
        /\ Len(SubSeq(f, n + 1, Len(f))) = IF n + 1 <= Len(f) THEN Len(f) - (n + 1) + 1 ELSE 0
        /\ \A i \in 1..(Len(f) - (n + 1) + 1) : SubSeq(f, n + 1, Len(f))[i] = f[n + 1 + i - 1]
    BY <1>1, SubSeqProperties
  <1>4. SubSeq(f, 1, n) \o SubSeq(f, n + 1, Len(f)) = SubSeq(f, 1, Len(f))
    <2>1. 1 \in 1..(Len(f) + 1) /\ n \in (1 - 1)..Len(f) /\ Len(f) \in n..Len(f)
      BY <1>1
    <2> QED
      BY <2>1, ConcatAdjacentSubSeq
  <1>5. SubSeq(f, 1, Len(f)) = f
    BY SubSeqFull
  <1>6. Len(SubSeq(f, 1, n)) = n /\ \A i \in 1..n : SubSeq(f, 1, n)[i] = f[i]
    BY <1>1, <1>2
  <1>7. /\ Len(SubSeq(f, n + 1, Len(f))) = Len(f) - n
        /\ \A i \in 1..(Len(f) - n) : SubSeq(f, n + 1, Len(f))[i] = f[i + n]
    <2>1. Len(f) - (n + 1) + 1 = Len(f) - n
      BY <1>1
    <2>2. ASSUME NEW i \in 1..(Len(f) - n)
          PROVE  SubSeq(f, n + 1, Len(f))[i] = f[i + n]
      <3>1. n + 1 + i - 1 = i + n
        BY <1>1
      <3>2. SubSeq(f, n + 1, Len(f))[i] = f[n + 1 + i - 1]
        BY <1>3, <2>1
      <3> QED
        BY <3>1, <3>2
    <2>3. (IF n + 1 <= Len(f) THEN Len(f) - (n + 1) + 1 ELSE 0) = Len(f) - n
      <3> DEFINE l == Len(f)
      <3>1. n \in Int /\ l \in Int /\ n <= l
        BY <1>1
      <3> HIDE DEF l
      <3>2. (IF n + 1 <= l THEN l - (n + 1) + 1 ELSE 0) = l - n
        BY <3>1
      <3> QED
        BY <3>2 DEF l
    <2> QED
      BY <1>3, <2>2, <2>3
  <1> QED
    BY <1>2, <1>3, <1>4, <1>5, <1>6, <1>7

LEMMA ElementOf ==
    ASSUME NEW S, NEW f \in Seq(S), NEW i \in 1..Len(f)
    PROVE  f[i] \in S
  OBVIOUS
=============================================================================
