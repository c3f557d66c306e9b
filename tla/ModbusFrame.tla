---------------------------- MODULE ModbusFrame ----------------------------
(***************************************************************************)
(* The lengths by which receive_msg finds the end of a message, and those  *)
(* the two sides of the library build (modbus.c).  Lengths are of the part *)
(* from the function code on, without checksum; nb and nbw are what a      *)
(* request asks to read or write, and what FC23 writes; the limits of the  *)
(* client functions keep a byte count below 256.                           *)
(***************************************************************************)
EXTENDS Integers

FC_READ_COILS               == 1
FC_READ_DISCRETE_INPUTS     == 2
FC_READ_HOLDING_REGISTERS   == 3
FC_READ_INPUT_REGISTERS     == 4
FC_WRITE_SINGLE_COIL        == 5
FC_WRITE_SINGLE_REGISTER    == 6
FC_READ_EXCEPTION_STATUS    == 7
FC_WRITE_MULTIPLE_COILS     == 15
FC_WRITE_MULTIPLE_REGISTERS == 16
FC_REPORT_SLAVE_ID          == 17
FC_WRITE_AND_READ_REGISTERS == 23

ReadBits       == {FC_READ_COILS, FC_READ_DISCRETE_INPUTS}
ReadRegisters  == {FC_READ_HOLDING_REGISTERS, FC_READ_INPUT_REGISTERS, FC_WRITE_AND_READ_REGISTERS}
WriteOne       == {FC_WRITE_SINGLE_COIL, FC_WRITE_SINGLE_REGISTER}
WriteMany      == {FC_WRITE_MULTIPLE_COILS, FC_WRITE_MULTIPLE_REGISTERS}
Functions      == ReadBits \cup ReadRegisters \cup WriteOne \cup WriteMany \cup {FC_REPORT_SLAVE_ID}

Bytes(nb) == nb \div 8 + IF nb % 8 = 0 THEN 0 ELSE 1

(* What receive_msg reads after the function code, of a request and of an  *)
(* answer, and after that, given the byte count it has read.               *)
IndicationMeta(f) ==
    CASE f <= FC_WRITE_SINGLE_REGISTER    -> 4
      [] f \in WriteMany                  -> 5
      [] f = FC_WRITE_AND_READ_REGISTERS  -> 9
      [] OTHER                            -> 0

(* Mutant: the answer to FC15 or FC16 is taken to begin with a byte count. *)
ConfirmationMetaOne(f) == IF f \in WriteOne THEN 4 ELSE 1

ConfirmationMeta(f) == IF f \in WriteOne \cup WriteMany THEN 4 ELSE 1

IndicationData(f, count) ==
    IF f \in WriteMany \cup {FC_WRITE_AND_READ_REGISTERS} THEN count ELSE 0

ConfirmationData(f, count) ==
    IF f <= FC_READ_INPUT_REGISTERS \/ f \in {FC_REPORT_SLAVE_ID, FC_WRITE_AND_READ_REGISTERS}
    THEN count ELSE 0

(* compute_response_length_from_request; MSG_LENGTH_UNDEFINED for FC17. *)
Undefined == -1

ResponseLength(f, nb) ==
    CASE f \in ReadBits                -> 2 + Bytes(nb)
      [] f \in ReadRegisters           -> 2 + 2 * nb
      [] f = FC_READ_EXCEPTION_STATUS  -> 3
      [] f = FC_REPORT_SLAVE_ID        -> Undefined
      [] OTHER                         -> 5
-----------------------------------------------------------------------------
(* What the client functions send: function, address and quantity, then    *)
(* for the writes of several entries a byte count and that many bytes.     *)
RequestCount(f, nb, nbw) ==
    CASE f = FC_WRITE_MULTIPLE_COILS      -> Bytes(nb)
      [] f = FC_WRITE_MULTIPLE_REGISTERS  -> 2 * nb
      [] f = FC_WRITE_AND_READ_REGISTERS  -> 2 * nbw
      [] OTHER                            -> 0

RequestBuilt(f, nb, nbw) ==
    CASE f = FC_REPORT_SLAVE_ID           -> 1
      [] f \in WriteMany                  -> 6 + RequestCount(f, nb, nbw)
      [] f = FC_WRITE_AND_READ_REGISTERS  -> 10 + RequestCount(f, nb, nbw)
      [] OTHER                            -> 5

(* What modbus_reply sends; id is the length of the slave's description.   *)
ResponseCount(f, nb, id) ==
    CASE f \in ReadBits            -> Bytes(nb)
      [] f \in ReadRegisters       -> 2 * nb
      [] f = FC_REPORT_SLAVE_ID    -> id
      [] OTHER                     -> 0

ResponseBuilt(f, nb, id) ==
    IF f \in WriteOne \cup WriteMany THEN 5 ELSE 2 + ResponseCount(f, nb, id)
-----------------------------------------------------------------------------
(* Both sides agree on where every message ends, and the client on the     *)
(* length it expects, for every function that is implemented: otherwise    *)
(* the rest of a message would be taken for the beginning of the next one  *)
(* (modbus.c:130-162,248-315 against the functions that build messages).   *)
RequestEnds(f, nb, nbw) ==
    1 + IndicationMeta(f) + IndicationData(f, RequestCount(f, nb, nbw)) = RequestBuilt(f, nb, nbw)

ResponseEnds(f, nb, id) ==
    /\ 1 + ConfirmationMeta(f) + ConfirmationData(f, ResponseCount(f, nb, id)) = ResponseBuilt(f, nb, id)
    /\ ResponseLength(f, nb) \in {Undefined, ResponseBuilt(f, nb, id)}

(* An exception: the function code plus 0x80 and one byte. *)
ExceptionEnds(f) ==
    1 + ConfirmationMeta(f + 128) + ConfirmationData(f + 128, 0) = 2

FramesAgree(Quantity) ==
    \A f \in Functions, nb, nbw, id \in Quantity :
        RequestEnds(f, nb, nbw) /\ ResponseEnds(f, nb, id) /\ ExceptionEnds(f)
=============================================================================
