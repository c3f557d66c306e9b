---------------------------- MODULE ModbusTables ----------------------------
(***************************************************************************)
(* The data of the bridge without its tasks: the four tables of a          *)
(* modbus_mapping_t and of the device, what a request does to the tables   *)
(* and how it is answered (modbus_reply), which requests are forwarded and *)
(* what the device is asked for.                                           *)
(***************************************************************************)
EXTENDS PollingBlock

CONSTANTS Value,        (* contents of a register or a bit                  *)
          Zero,         (* what modbus_mapping_new clears the tables to     *)
          TableSize,    (* nb_bits, nb_input_bits, nb_registers, nb_input.. *)
          DeviceSize,   (* entries of each table of the device              *)
          DeviceInit,   (* contents the device may start with               *)
          DeviceStates, (* contents it may take on by itself                *)
          Blocks,       (* the polling blocks, from the head of the list    *)
          Requests,     (* requests the client may send                     *)
          CoilData,     (* values FC05 accepts: 0xFF00 and 0                *)
          MaxReadBits, MaxReadRegisters,   (* 2000, 125                     *)
          MaxWriteBits, MaxWriteRegisters, (* 1968, 123                     *)
          MaxRwWriteRegisters              (* 121                           *)

FC_READ_EXCEPTION_STATUS    == 7
FC_REPORT_SLAVE_ID          == 17
FC_WRITE_AND_READ_REGISTERS == 23

Tables == {"bits", "input_bits", "registers", "input_registers"}

TableOf(fc) ==
    CASE fc = FC_READ_COILS             -> "bits"
      [] fc = FC_READ_DISCRETE_INPUTS   -> "input_bits"
      [] fc = FC_READ_HOLDING_REGISTERS -> "registers"
      [] fc = FC_READ_INPUT_REGISTERS   -> "input_registers"

(* quantity counts the entries read, or written by FC15 and FC16; FC23     *)
(* writes wquantity entries at waddress.  A write sets every entry it      *)
(* names to value.                                                         *)
RequestType == [fc : 0..127, address : 0..(U16 - 1), quantity : 0..(U16 - 1),
                value : Value, waddress : 0..(U16 - 1), wquantity : 0..(U16 - 1)]
NoRequest == [fc |-> 0, address |-> 0, quantity |-> 0,
              value |-> Zero, waddress |-> 0, wquantity |-> 0]
ReplyType == [status : {"none", "ok", "exception"}, data : Seq(Value)]
NoAnswer  == [status |-> "none", data |-> <<>>]
MessageType == [fc : {FC_WRITE_SINGLE_REGISTER, FC_WRITE_MULTIPLE_REGISTERS},
                address : 0..(U16 - 1), quantity : 0..(U16 - 1), value : Value]
PollBlockType == [fc : ReadFunctions, address : Nat, quantity : Nat, map : Nat]
DeviceType == [Tables -> [0..(DeviceSize - 1) -> Value]]

ASSUME TablesAssumption ==
    /\ Zero \in Value /\ CoilData \subseteq Value
    /\ TableSize \in [Tables -> Nat]
    /\ DeviceSize \in Nat
    /\ DeviceInit \subseteq DeviceType /\ DeviceStates \subseteq DeviceType
    /\ Blocks \in Seq(PollBlockType) /\ Blocks # <<>>
    /\ \A b \in 1..Len(Blocks) :
          Blocks[b].map + Blocks[b].quantity <= TableSize[TableOf(Blocks[b].fc)]
    /\ Requests \subseteq RequestType
    /\ MaxReadBits \in Nat /\ MaxReadRegisters \in Nat
    /\ MaxWriteBits \in Nat /\ MaxWriteRegisters \in Nat
    /\ MaxRwWriteRegisters \in Nat

-----------------------------------------------------------------------------
(* The entries a..a+n-1 of a table set to v. *)
Overwrite(table, a, n, v) ==
    [k \in DOMAIN table |-> IF a <= k /\ k < a + n THEN v ELSE table[k]]

InTable(t, a, n) == a + n <= TableSize[t]

ReadLimit(fc) ==
    IF fc \in {FC_READ_COILS, FC_READ_DISCRETE_INPUTS} THEN MaxReadBits ELSE MaxReadRegisters

(* The requests modbus_reply answers normally; it answers every other one  *)
(* with an exception, but for FC07, on which it gives up.                  *)
AcceptedRead(q) ==
    /\ q.fc \in ReadFunctions
    /\ q.quantity \in 1..ReadLimit(q.fc)
    /\ InTable(TableOf(q.fc), q.address, q.quantity)

AcceptedWrite(q) ==
    \/ /\ q.fc = FC_WRITE_SINGLE_COIL
       /\ InTable("bits", q.address, 1)
       /\ q.value \in CoilData
    \/ /\ q.fc = FC_WRITE_SINGLE_REGISTER
       /\ InTable("registers", q.address, 1)
    \/ /\ q.fc = FC_WRITE_MULTIPLE_COILS
       /\ q.quantity \in 1..MaxWriteBits
       /\ InTable("bits", q.address, q.quantity)
    \/ /\ q.fc = FC_WRITE_MULTIPLE_REGISTERS
       /\ q.quantity \in 1..MaxWriteRegisters
       /\ InTable("registers", q.address, q.quantity)

AcceptedWriteRead(q) ==
    /\ q.fc = FC_WRITE_AND_READ_REGISTERS
    /\ q.quantity \in 1..MaxReadRegisters
    /\ q.wquantity \in 1..MaxRwWriteRegisters
    /\ InTable("registers", q.address, q.quantity)
    /\ InTable("registers", q.waddress, q.wquantity)

Accepted(q) ==
    AcceptedRead(q) \/ AcceptedWrite(q) \/ AcceptedWriteRead(q) \/ q.fc = FC_REPORT_SLAVE_ID

(* The map after an accepted request.  FC23 writes before it reads. *)
Served(q, tables) ==
    CASE q.fc = FC_WRITE_SINGLE_COIL ->
           [tables EXCEPT !["bits"] = Overwrite(@, q.address, 1, q.value)]
      [] q.fc = FC_WRITE_MULTIPLE_COILS ->
           [tables EXCEPT !["bits"] = Overwrite(@, q.address, q.quantity, q.value)]
      [] q.fc = FC_WRITE_SINGLE_REGISTER ->
           [tables EXCEPT !["registers"] = Overwrite(@, q.address, 1, q.value)]
      [] q.fc = FC_WRITE_MULTIPLE_REGISTERS ->
           [tables EXCEPT !["registers"] = Overwrite(@, q.address, q.quantity, q.value)]
      [] q.fc = FC_WRITE_AND_READ_REGISTERS ->
           [tables EXCEPT !["registers"] = Overwrite(@, q.waddress, q.wquantity, q.value)]
      [] OTHER -> tables

ReadData(table, a, n) == [k \in 1..n |-> table[a + k - 1]]

(* The answer modbus_reply builds from the map it leaves. *)
Answer(q, tables) ==
    IF q.fc = FC_READ_EXCEPTION_STATUS THEN NoAnswer
    ELSE IF ~Accepted(q) THEN [status |-> "exception", data |-> <<>>]
    ELSE [status |-> "ok",
          data |-> IF q.fc \in ReadFunctions
                   THEN ReadData(tables[TableOf(q.fc)], q.address, q.quantity)
                   ELSE IF q.fc = FC_WRITE_AND_READ_REGISTERS
                   THEN ReadData(tables["registers"], q.address, q.quantity)
                   ELSE <<>>]
-----------------------------------------------------------------------------
(* Mutant: only the first register of a write has to be in the map. *)
ForwardableStart(q) ==
    /\ q.fc \in {FC_WRITE_SINGLE_REGISTER, FC_WRITE_MULTIPLE_REGISTERS}
    /\ InTable("registers", q.address, 1)

(* The register writes that are forwarded: FC06 and FC16 within the map.   *)
(* The test is not the one modbus_reply makes: the quantity of an FC16 is  *)
(* not compared with its limits.                                           *)
Forwardable(q) ==
    \/ q.fc = FC_WRITE_SINGLE_REGISTER /\ InTable("registers", q.address, 1)
    \/ q.fc = FC_WRITE_MULTIPLE_REGISTERS /\ InTable("registers", q.address, q.quantity)

(* FC06 forwards one register whatever the request's quantity field holds. *)
MessageOf(q) ==
    [fc |-> q.fc, address |-> q.address, value |-> q.value,
     quantity |-> IF q.fc = FC_WRITE_SINGLE_REGISTER THEN 1 ELSE q.quantity]

(* The device has the entries, and libmodbus agrees to ask for them. *)
Readable(b) ==
    /\ b.quantity \in 1..ReadLimit(b.fc)
    /\ (b.address % U16) + b.quantity <= DeviceSize

(* The device takes a write of registers it has; libmodbus does not send   *)
(* one above its limit.                                                    *)
Writable(m) ==
    /\ m.quantity >= 1
    /\ m.fc = FC_WRITE_SINGLE_REGISTER \/ m.quantity <= MaxWriteRegisters
    /\ DeviceAddress(m.address, Blocks) + m.quantity <= DeviceSize

Written(m, tables) ==
    [tables EXCEPT !["registers"] =
        Overwrite(@, DeviceAddress(m.address, Blocks), m.quantity, m.value)]

(* The tables with the entries of a polling block set to what was read. *)
Refreshed(b, data, tables) ==
    [tables EXCEPT ![TableOf(b.fc)] =
        [k \in DOMAIN @ |-> IF b.map <= k /\ k < b.map + b.quantity
                            THEN data[k - b.map + 1] ELSE @[k]]]
=============================================================================
