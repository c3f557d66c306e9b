---------------------------- MODULE MCBlockList -----------------------------
(***************************************************************************)
(* Small instances of BlockList: every file of at most three lines taken   *)
(* from a few register numbers at the edges of the tables.                 *)
(***************************************************************************)
EXTENDS BlockList, SequencesExt

MCLengths == {4, 5}
MCGarbage == {0, 7}

Line(n, q, m) == [number |-> n, quantity |-> q, mapping |-> m]

(* Adjoining, overlapping and empty ranges, registers 0 and 1 of a table,  *)
(* the highest address of a uint16_t, another table, and numbers that are  *)
(* illegal for one or both of the lengths: one of a line, or both.         *)
MCLines == { Line(40010, 2, 40001), Line(40040, 2, 40003), Line(40061, 1, 40005),
             Line(40040, 3, 40002), Line(40001, 1, 40000), Line(40000, 2, 40007),
             Line(30010, 2, 30001), Line(4065, 2, 4003), Line(105536, 1, 105535),
             Line(40001, 0, 40005), Line(40070, 1, 20006) }
MCFiles == SeqOf(MCLines, 3)
=============================================================================
