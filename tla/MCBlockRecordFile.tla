------------------------- MODULE MCBlockRecordFile --------------------------
(***************************************************************************)
(* Three blocks of two small items or one large one, which uses up the     *)
(* margin; three items that differ in size, two of the same size so that   *)
(* one can be rewritten as another.                                        *)
(***************************************************************************)
EXTENDS BlockRecordFile

CONSTANTS small, other, large

MCItem == {small, other, large}
MCSizeOf(it) == IF it = large THEN 8 ELSE 2
=============================================================================
