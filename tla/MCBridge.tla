------------------------------ MODULE MCBridge ------------------------------
(***************************************************************************)
(* Small instances of Bridge.                                              *)
(***************************************************************************)
EXTENDS Bridge

MCTableSize == [bits |-> 1, input_bits |-> 0, registers |-> 3, input_registers |-> 0]

Block(fc, a, n, m) == [fc |-> fc, address |-> a, quantity |-> n, map |-> m]

(* A block of two registers, not at the same address in the map, and one of*)
(* coils; map address 2 is polled by no block but still covered by one.    *)
MCBlocks == << Block(FC_READ_HOLDING_REGISTERS, 1, 2, 0), Block(FC_READ_COILS, 0, 1, 0) >>

Request(f, a, n, v) == [fc |-> f, address |-> a, quantity |-> n, value |-> v,
                        waddress |-> 0, wquantity |-> 0]

ReadRequests  == { Request(FC_READ_HOLDING_REGISTERS, 0, 2, 0),
                   Request(FC_READ_HOLDING_REGISTERS, 2, 2, 0) }
WriteRequests == { Request(FC_WRITE_SINGLE_REGISTER, 1, 0, 1),
                   Request(FC_WRITE_SINGLE_REGISTER, 3, 0, 1),
                   Request(FC_WRITE_MULTIPLE_REGISTERS, 0, 2, 1),
                   Request(FC_WRITE_MULTIPLE_REGISTERS, 0, 3, 1),
                   Request(FC_WRITE_MULTIPLE_REGISTERS, 1, 0, 1),
                   Request(FC_WRITE_MULTIPLE_REGISTERS, 2, 2, 1) }
OtherRequests == { Request(FC_WRITE_SINGLE_COIL, 0, 0, 1),
                   Request(FC_WRITE_MULTIPLE_COILS, 0, 1, 0),
                   Request(FC_REPORT_SLAVE_ID, 0, 0, 0),
                   Request(FC_READ_EXCEPTION_STATUS, 0, 0, 0),
                   [Request(FC_WRITE_AND_READ_REGISTERS, 0, 1, 1) EXCEPT !.waddress = 1, !.wquantity = 1] }
MCRequests == ReadRequests \cup WriteRequests \cup OtherRequests

LiveRequests == { Request(FC_READ_HOLDING_REGISTERS, 0, 2, 0),
                  Request(FC_WRITE_SINGLE_REGISTER, 1, 0, 1),
                  Request(FC_WRITE_MULTIPLE_REGISTERS, 0, 2, 1),
                  Request(FC_WRITE_SINGLE_COIL, 0, 0, 1) }

(* A register block that ends at the last address a uint8_t cannot pass.   *)
WideTableSize == [MCTableSize EXCEPT !["registers"] = U8]
WideBlocks == << Block(FC_READ_HOLDING_REGISTERS, 0, 1, U8 - 1) >>

(* Every table of the device all zero, or all one. *)
Uniform(v) == [t \in Tables |-> [k \in 0..(DeviceSize - 1) |-> v]]
MCDeviceInit == { Uniform(0) }
MCDeviceStates == { Uniform(0) }
=============================================================================
