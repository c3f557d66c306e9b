---------------------------- MODULE Transaction ----------------------------
(***************************************************************************)
(* What the master task may rely on when it asks the device for a block    *)
(* (modbus_read_*, modbus.c): a call either fails or gives the values that *)
(* this block had at one instant between the call and its return.  There   *)
(* is no link here: a sample is taken, may be lost, and is returned.       *)
(***************************************************************************)
CONSTANTS Block,   (* what the master can ask for                           *)
          Value    (* the contents of a block                               *)

NoBlock   == "no block"
NoSample  == "no sample"
NoResult  == "no result"
Failed    == "failed"

VARIABLES device,  (* what each block of the device holds                   *)
          call,    (* the block of the call under way, if any               *)
          sample,  (* the values the device gave for it, if any             *)
          result   (* what the last call returned                           *)

vars == <<device, call, sample, result>>

Init ==
    /\ device \in [Block -> Value]
    /\ call = NoBlock /\ sample = NoSample /\ result = NoResult

DeviceChange ==
    /\ \E b \in Block, v \in Value : device' = [device EXCEPT ![b] = v]
    /\ UNCHANGED <<call, sample, result>>

Call ==
    /\ call = NoBlock
    /\ call' \in Block
    /\ result' = NoResult
    /\ UNCHANGED <<device, sample>>

Sample ==
    /\ call # NoBlock
    /\ sample' = device[call]
    /\ UNCHANGED <<device, call, result>>

Lose ==
    /\ sample' = NoSample
    /\ UNCHANGED <<device, call, result>>

Return ==
    /\ call # NoBlock
    /\ sample # NoSample
    /\ result' = sample
    /\ call' = NoBlock /\ sample' = NoSample
    /\ UNCHANGED device

Fail ==
    /\ call # NoBlock
    /\ result' = Failed
    /\ call' = NoBlock /\ sample' = NoSample
    /\ UNCHANGED device

Next == DeviceChange \/ Call \/ Sample \/ Lose \/ Return \/ Fail

Spec == Init /\ [][Next]_vars
=============================================================================
