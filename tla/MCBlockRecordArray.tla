------------------------- MODULE MCBlockRecordArray -------------------------
(***************************************************************************)
(* A block scaled down with its proportions kept: the margin is one byte   *)
(* more than an index, an item is at least a word.                         *)
(***************************************************************************)
EXTENDS BlockRecordArray

CONSTANTS a, b

MCByte  == {a, b}
MCItems == {<<a>>, <<a, b>>, <<b, a, b>>, <<b, b, a>>}
=============================================================================
