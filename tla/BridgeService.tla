---------------------------- MODULE BridgeService ---------------------------
(***************************************************************************)
(* What the bridge promises its client, without tasks, mutex, pool or      *)
(* copy loop: an image of the device that requests read and write in one   *)
(* step each, that a poll refreshes a whole block at a time from one       *)
(* instant of the device, and a line of register writes that reach the     *)
(* device one by one in the order they were taken, each at most once.      *)
(***************************************************************************)
EXTENDS ModbusTables

VARIABLES image,    (* the tables the client sees                           *)
          device,
          sample,   (* a block just read: its index and its contents        *)
          pending,  (* writes taken and not yet tried                       *)
          answer    (* the answer the client is to get                      *)

vars == <<image, device, sample, pending, answer>>

NoSample == [block |-> 0, data |-> <<>>]

Init ==
    /\ image = [t \in Tables |-> [k \in 0..(TableSize[t] - 1) |-> Zero]]
    /\ device \in DeviceInit
    /\ sample = NoSample
    /\ pending = <<>>
    /\ answer = NoAnswer

(* A write is taken only if it lies within the map. *)
Take ==
    /\ \E q \in Requests : Forwardable(q) /\ pending' = Append(pending, MessageOf(q))
    /\ UNCHANGED <<image, device, sample, answer>>

Serve ==
    /\ answer = NoAnswer
    /\ \E q \in Requests :
          /\ image' = IF Accepted(q) THEN Served(q, image) ELSE image
          /\ answer' = Answer(q, image')
    /\ UNCHANGED <<device, sample, pending>>

(* The client has its answer, or the connection broke before. *)
Finish ==
    /\ answer # NoAnswer
    /\ answer' = NoAnswer
    /\ UNCHANGED <<image, device, sample, pending>>

Poll ==
    /\ sample = NoSample
    /\ \E b \in 1..Len(Blocks) :
          /\ Readable(Blocks[b])
          /\ sample' = [block |-> b,
                        data |-> ReadData(device[TableOf(Blocks[b].fc)],
                                          Blocks[b].address % U16, Blocks[b].quantity)]
    /\ UNCHANGED <<image, device, pending, answer>>

Refresh ==
    /\ sample # NoSample
    /\ image' = Refreshed(Blocks[sample.block], sample.data, image)
    /\ sample' = NoSample
    /\ UNCHANGED <<device, pending, answer>>

Perform ==
    /\ pending # <<>>
    /\ \/ Writable(Head(pending)) /\ device' = Written(Head(pending), device)
       \/ UNCHANGED device
    /\ pending' = Tail(pending)
    /\ UNCHANGED <<image, sample, answer>>

DeviceChange ==
    /\ \E d \in DeviceStates : device' = d
    /\ UNCHANGED <<image, sample, pending, answer>>

Next == Take \/ Serve \/ Finish \/ Poll \/ Refresh \/ Perform \/ DeviceChange

Spec == Init /\ [][Next]_vars

(* A write taken is eventually tried, a poll that was answered is          *)
(* eventually seen by the client, and a request served is finished.        *)
FairSpec == Spec /\ WF_vars(Perform) /\ WF_vars(Refresh) /\ WF_vars(Finish)
=============================================================================
