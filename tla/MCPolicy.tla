------------------------------ MODULE MCPolicy ------------------------------
(***************************************************************************)
(* Texts of up to MaxStatements statements: rules on a directory, one in   *)
(* it and one in that, blocks and directives in every grammatical order.   *)
(***************************************************************************)
EXTENDS Policy

MCVar  == {"v", "p"}
MCName == {<<1>>, <<1, 1>>, <<1, 2>>, <<1, 1, 1>>, <<1, 1, 2>>}
MCRule == {[name |-> <<1>>,       attrs |-> << >>],
           [name |-> <<1>>,       attrs |-> [recurse |-> 1, emailto |-> {"a"}]],
           [name |-> <<1, 1>>,    attrs |-> [severity |-> "v"]],
           [name |-> <<1, 1>>,    attrs |-> [recurse |-> 0]]}
MCStop == {<<1, 1, 1>>, <<1, 1>>}
MCScope == {[severity |-> "v"], [severity |-> "high", emailto |-> {"b"}]}
MCAssignment == {[var |-> "v", value |-> "low"], [var |-> "v", value |-> "high"],
                 [var |-> "p", value |-> "low"]}
MCPredefined == [p |-> "high"]
=============================================================================
