--------------------------- MODULE MCSlaveServer ---------------------------
(* Small instances of SlaveServer. *)
EXTENDS SlaveServer, TLC

CONSTANTS c1, c2

(* Requests, by their function codes: both carry data after a byte count;  *)
(* the second is also queued for the master.                               *)
CoilsRequest == {FC_WRITE_MULTIPLE_COILS}
KnownRequest == {FC_WRITE_MULTIPLE_REGISTERS}

MCFc == [r \in 0..127 |-> r]
MCNb == [r \in 0..127 |-> 1]
=============================================================================
