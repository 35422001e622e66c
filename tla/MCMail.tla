------------------------------- MODULE MCMail -------------------------------
(***************************************************************************)
(* Two addresses that rules name, one of them twice and one also of        *)
(* GLOBALEMAIL, and one only GLOBALEMAIL names.                            *)
(***************************************************************************)
EXTENDS Mail

CONSTANTS a, b, g

MCAddress     == {a, b, g}
MCRuleLists   == {<< >>, <<a, b, a>>}
MCGlobalLists == {<< >>, <<g, a, g>>}
MCMethods     == {"SMTP", "SENDMAIL"}
=============================================================================
