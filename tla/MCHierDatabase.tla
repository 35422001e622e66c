--------------------------- MODULE MCHierDatabase ---------------------------
(***************************************************************************)
(* Three names, two levels of directories, few enough items that freed     *)
(* addresses are used again at once.                                       *)
(***************************************************************************)
EXTENDS HierDatabase

MCName == {1, 2, 3}
=============================================================================
