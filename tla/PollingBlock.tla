---------------------------- MODULE PollingBlock ----------------------------
(***************************************************************************)
(* The arithmetic of the master's polling blocks (modbus_master.c): from a *)
(* register number of polling_blocks.txt to a function code and a table    *)
(* address, and from an address of the bridge's own map back to an address *)
(* of the device.  Integers keep the width the C code gives them.          *)
(***************************************************************************)
EXTENDS Integers, Sequences

CONSTANTS U8,   (* values of a uint8_t: 256 in the code                     *)
          U16,  (* values of a uint16_t: 65536 in the code                  *)
          U32   (* values of a uint32_t: 2^32 in the code; the runs take a  *)
                (* smaller power of two, still above every register number  *)

ASSUME WidthAssumption ==
    /\ U8 \in Nat /\ U16 \in Nat /\ U32 \in Nat
    /\ 5 < U8 /\ U8 <= U16 /\ U16 < U32
    /\ U16 % 2 = 0 /\ U32 % U16 = 0

(* Function codes (device_modbus.h). *)
FC_READ_COILS               == 1
FC_READ_DISCRETE_INPUTS     == 2
FC_READ_HOLDING_REGISTERS   == 3
FC_READ_INPUT_REGISTERS     == 4
FC_WRITE_SINGLE_COIL        == 5
FC_WRITE_SINGLE_REGISTER    == 6
FC_WRITE_MULTIPLE_COILS     == 15
FC_WRITE_MULTIPLE_REGISTERS == 16

ReadFunctions == {FC_READ_COILS, FC_READ_DISCRETE_INPUTS,
                  FC_READ_HOLDING_REGISTERS, FC_READ_INPUT_REGISTERS}

(* What an int8_t -1 becomes in POLLING_BLOCK.fc, a uint8_t. *)
IllegalFc == U8 - 1

Divisor(addressLength) ==
    CASE addressLength = 6 -> 100000
      [] addressLength = 5 -> 10000
      [] OTHER             -> 1000

(* The leading digit of a register number, truncated to a uint8_t. *)
Digit(number, addressLength) == (number \div Divisor(addressLength)) % U8

LegalNumber(number, addressLength) == Digit(number, addressLength) \in {0, 1, 3, 4}

(* The uint8_t that new_polling_block stores from get_fc_address. *)
FcOf(number, addressLength) ==
    CASE Digit(number, addressLength) = 0 -> FC_READ_COILS
      [] Digit(number, addressLength) = 1 -> FC_READ_DISCRETE_INPUTS
      [] Digit(number, addressLength) = 3 -> FC_READ_INPUT_REGISTERS
      [] Digit(number, addressLength) = 4 -> FC_READ_HOLDING_REGISTERS
      [] OTHER                            -> IllegalFc

(* Mutant: the address is not reduced to a uint32_t. *)
AddressOfSigned(number, addressLength) ==
    number - Digit(number, addressLength) * Divisor(addressLength) - 1

(* The uint32_t address of a legal number: number 0 of a table wraps. *)
AddressOf(number, addressLength) ==
    (number - Digit(number, addressLength) * Divisor(addressLength) - 1) % U32

(* A value converted to int16_t. *)
Int16(x) == (((x % U16) + (U16 \div 2)) % U16) - (U16 \div 2)

(* Both ends count: map <= address <= map + quantity, in uint32_t. *)
Covers(block, address) ==
    /\ block.map <= address
    /\ address <= (block.map + block.quantity) % U32

(* address_offset walks the list from its head to the first block covering *)
(* the address, whatever the block's function code.                        *)
FirstCovering(address, list) ==
    {i \in 1..Len(list) : /\ Covers(list[i], address)
                          /\ \A k \in 1..(i - 1) : ~Covers(list[k], address)}

AddressOffset(address, list) ==
    IF FirstCovering(address, list) = {}
    THEN 0
    ELSE LET i == CHOOSE k \in FirstCovering(address, list) : TRUE
         IN  Int16(list[i].address - list[i].map)

(* The address put on the wire for a write to an address of the map: the   *)
(* sum is an int, of which build_request_basis sends the low 16 bits.      *)
DeviceAddress(address, list) == (address + AddressOffset(address, list)) % U16
=============================================================================
