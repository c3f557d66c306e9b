----------------------------- MODULE BlockList ------------------------------
(***************************************************************************)
(* How the master task builds its circular list of polling blocks from the *)
(* lines of polling_blocks.txt (modbus_master.c, modbus_master_task): one  *)
(* step per line, new_polling_block and add_block_to_list, until the end   *)
(* of the file or a line that stops the task.                              *)
(***************************************************************************)
EXTENDS PollingBlock

CONSTANTS Files,          (* the files to load: sequences of lines          *)
          AddressLengths, (* modbus_conf.address_length                     *)
          Garbage         (* what an uninitialised uint32_t may hold        *)

LineType == [number : Nat, quantity : 0..(U16 - 1), mapping : Nat]

ASSUME FilesAssumption ==
    /\ \A f \in Files : f \in Seq(LineType)
    /\ AddressLengths \subseteq 1..(U8 - 1)
    /\ Garbage \subseteq 0..(U32 - 1) /\ Garbage # {}

VARIABLES file,    (* the lines of the file                                 *)
          line,    (* the number of lines read                              *)
          len,     (* address_length                                        *)
          list,    (* the blocks, from the head of the circular list        *)
          pc       (* "read", "ready" (polling starts) or "blocked"         *)

vars == <<file, line, len, list, pc>>

BlockType == [fc : 0..(U8 - 1), address : 0..(U32 - 1),
              quantity : 0..(U16 - 1), map : 0..(U32 - 1)]

TypeOK ==
    /\ file \in Seq(LineType)
    /\ line \in 0..Len(file)
    /\ len \in AddressLengths
    /\ list \in Seq(BlockType)
    /\ pc \in {"read", "ready", "blocked"}

Init ==
    /\ file \in Files
    /\ line = 0
    /\ len \in AddressLengths
    /\ list = <<>>
    /\ pc = "read"

(* Mutant: the function codes of the two numbers are not compared. *)
NewBlocksUncompared(entry) ==
    [fc : {FcOf(entry.number, len)}, address : Garbage,
     quantity : {entry.quantity}, map : Garbage]

(* The block new_polling_block makes of a line.  get_fc_address leaves the *)
(* address unset when it refuses the number, and the test against -1 never *)
(* holds of a uint8_t, so an illegal pair of numbers still makes a block.  *)
NewBlocks(entry) ==
    LET fc(number)   == FcOf(number, len)
        addr(number) == IF LegalNumber(number, len)
                        THEN {AddressOf(number, len)}
                        ELSE Garbage
    IN  IF fc(entry.number) # fc(entry.mapping)
        THEN {}
        ELSE [fc : {fc(entry.number)}, address : addr(entry.number),
              quantity : {entry.quantity}, map : addr(entry.mapping)]

(* Mutant: the new block goes to the end of the list. *)
AddBlockAtTail(block, blocks) == Append(blocks, block)

(* Insert the new block at the beginning of the list. *)
AddBlock(block, blocks) == <<block>> \o blocks

ReadLine ==
    /\ pc = "read"
    /\ line < Len(file)
    /\ \E block \in NewBlocks(file[line + 1]) : list' = AddBlock(block, list)
    /\ line' = line + 1
    /\ UNCHANGED <<file, len, pc>>

(* new_polling_block gave NULL, or memory for the block or its table ran   *)
(* out: the context is freed and the task blocks.                          *)
RefuseLine ==
    /\ pc = "read"
    /\ line < Len(file)
    /\ pc' = "blocked"
    /\ UNCHANGED <<file, line, len, list>>

EndOfFile ==
    /\ pc = "read"
    /\ line = Len(file)
    /\ pc' = IF list = <<>> THEN "blocked" ELSE "ready"
    /\ UNCHANGED <<file, line, len, list>>

Next == ReadLine \/ RefuseLine \/ EndOfFile

Spec == Init /\ [][Next]_vars

-----------------------------------------------------------------------------
(* The lines name legal map addresses in ascending order, no two ranges    *)
(* overlapping.                                                            *)
(* A descending file or overlapping ranges are left out: there the         *)
(* inclusive end of address_offset, or a block of another table, takes     *)
(* addresses that belong to a block later in the list.                     *)
AscendingFile ==
    /\ \A i \in 1..Len(file) : LegalNumber(file[i].mapping, len)
    /\ \A i, k \in 1..Len(file) :
          i < k => AddressOf(file[i].mapping, len) + file[i].quantity
                     <= AddressOf(file[k].mapping, len)

(* A write to a polled address of the map goes to the device register that *)
(* is polled into that address (address_offset against the copy loop of    *)
(* the master), for a file whose blocks ascend and do not overlap.  The    *)
(* inclusive end of the range, the first match and the reversed list must  *)
(* fit together for it to hold where two blocks adjoin.                    *)
RoutedWherePolled ==
    pc = "ready" /\ AscendingFile =>
        \A i \in 1..Len(list) :
            \A k \in 0..(list[i].quantity - 1) :
                list[i].map + k < U16 =>
                    DeviceAddress(list[i].map + k, list) = (list[i].address + k) % U16

(* get_fc_address calls such a number "illegal" and "invalid register      *)
(* number" (modbus_master.c:40,55).  new_polling_block compares the -1 in  *)
(* vain, but it compares the two function codes besides: one illegal number*)
(* in a line still makes no block, only two of them do, and every block is *)
(* that of its line.                                                       *)
IllegalOnlyInPairs ==
    /\ Len(list) = line
    /\ \A i \in 1..Len(list) :
          LET entry == file[line - i + 1] IN
              IF list[i].fc \in ReadFunctions
              THEN list[i].fc = FcOf(entry.number, len) /\ LegalNumber(entry.mapping, len)
              ELSE ~LegalNumber(entry.number, len) /\ ~LegalNumber(entry.mapping, len)
=============================================================================
