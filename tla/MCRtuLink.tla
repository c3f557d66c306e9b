----------------------------- MODULE MCRtuLink -----------------------------
(* Small instances of RtuLink. *)
EXTENDS RtuLink, TLC

CONSTANTS b1, b2, b3

(* Two blocks whose answers are told apart by their function code, or by   *)
(* nothing.                                                                *)
MCFc    == (b1 :> FC_READ_COILS) @@ (b2 :> FC_READ_DISCRETE_INPUTS)
AlikeFc == [b \in {b1, b2} |-> FC_READ_COILS]
OneBit  == [b \in {b1, b2} |-> 1]

(* A block that is written besides: its answer is an echo. *)
MixedFc == AlikeFc @@ (b3 :> FC_WRITE_MULTIPLE_REGISTERS)
MixedNb == OneBit @@ (b3 :> 2)
=============================================================================
