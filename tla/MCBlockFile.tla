---------------------------- MODULE MCBlockFile -----------------------------
(***************************************************************************)
(* A small instance of BlockFile: more blocks than pages, so that pages    *)
(* are replaced, and a timer that wraps every few requests.                *)
(***************************************************************************)
EXTENDS BlockFile

MCPageCounts == {2, 3}
=============================================================================
