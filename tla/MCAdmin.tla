------------------------------ MODULE MCAdmin ------------------------------
(***************************************************************************)
(* A file of each key and the configuration, which names its key, and two  *)
(* commands after another on lists that mix the keys.                      *)
(***************************************************************************)
EXTENDS Admin

CONSTANTS p, q, t, u

MCFiles == {"config", "policy", "database"}
MCPass  == {p, q}
MCText  == {t, u}
MCLists == {<<"policy", "database">>, <<"database", "config", "database">>}
=============================================================================
