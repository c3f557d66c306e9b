----------------------------- MODULE MCTcpLink -----------------------------
(* Small instances of TcpLink. *)
EXTENDS TcpLink

CONSTANTS b1, b2

(* Two blocks whose answers look the same but for their transaction id. *)
MCShape == [b \in {b1, b2} |-> 3]
=============================================================================
