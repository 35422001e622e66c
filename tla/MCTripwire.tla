----------------------------- MODULE MCTripwire -----------------------------
(***************************************************************************)
(* A directory <<1>> with <<1, 1>> and <<1, 2>>, two properties.  Between  *)
(* the two policies every object's properties differ, <<1, 2>> is in one   *)
(* of them only, and <<1, 1>> goes from one rule to another.               *)
(***************************************************************************)
EXTENDS Tripwire

CONSTANTS a, b, p, q

MCFCOName  == {<<1>>, <<1, 1>>, <<1, 2>>}
MCProperty == {p, q}
MCValue    == {a, b}
Rule(spec, mask) == [spec |-> spec, mask |-> mask]
MCPolicy ==
  { <<Rule(StopPoints(<<1>>, {<<1, 2>>}, Infinite), {p, q})>>,
    <<Rule(StopPoints(<<1>>, {<<1, 1>>}, Infinite), {q}), Rule(NoChildren(<<1, 1>>), {p})>> }
MCInitialFs == {[n \in names |-> [r \in MCProperty |-> a]] :
                  names \in {MCFCOName, MCFCOName \ {<<1, 1>>}, MCFCOName \ {<<1, 2>>}}}
=============================================================================
