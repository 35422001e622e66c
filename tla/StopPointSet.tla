---------------------------- MODULE StopPointSet ----------------------------
(***************************************************************************)
(* cFCOName's order and the two spec helpers of src/fco/fcospechelper.cpp: *)
(* which objects a rule of the policy is about.  A name is the sequence of *)
(* its parts, so that "below" is "has as a proper prefix".                 *)
(***************************************************************************)
EXTENDS Integers, Sequences, SequencesExt

Infinite == -1    \* RECURSE_INFINITE

\* cFCOName::GetRelationship
Below(n, m)     == IsStrictPrefix(m, n)
AtOrBelow(n, m) == IsPrefix(m, n)

StopPoints(start, stops, depth) ==
  [kind |-> "stop points", start |-> start, stops |-> stops, depth |-> depth]

\* cFCOSpecNoChildren: the start point and nothing below it.
NoChildren(start) ==
  [kind |-> "no children", start |-> start, stops |-> {}, depth |-> Infinite]

\* The stop points after Add(n), which removes the ones below it.  The loop
\* returns at the first stop point at or above it; no stop point was erased
\* before, as none can be both above and below.
WithStop(s, n) ==
  IF \E p \in s.stops : AtOrBelow(n, p)
  THEN s
  ELSE [s EXCEPT !.stops = {p \in @ : ~Below(p, n)} \cup {n}]

ContainsFCO(s, n) ==
  IF s.kind = "no children"
  THEN n = s.start
  ELSE /\ AtOrBelow(n, s.start)
       /\ \A p \in s.stops : ~AtOrBelow(n, p)

WithinDepth(s, n) ==
  s.depth # Infinite => Len(n) - Len(s.start) <= s.depth

\* Mutant: the walk does not stop at stop points.
StopAtDepth(s, n) == ~WithinDepth(s, n)

\* Asked of every object a walk comes to, from the start point down.
ShouldStopDescent(s, n) ==
  IF s.kind = "no children"
  THEN n # s.start
  ELSE ~WithinDepth(s, n) \/ n \in s.stops

\* The objects a walk from the start point comes to: it goes into a
\* directory unless ShouldStopDescent is true of it.
Walked(s, n) ==
  /\ AtOrBelow(n, s.start)
  /\ \A k \in Len(s.start) .. Len(n) : ~ShouldStopDescent(s, SubSeq(n, 1, k))
=============================================================================
