------------------------------ MODULE HierTree ------------------------------
(***************************************************************************)
(* What cHierDatabase and its iterator promise (src/db/hierdatabase.h): a  *)
(* tree of named entries, each with or without data and with or without a  *)
(* child array, changed only in the directory the iterator shows.          *)
(***************************************************************************)
EXTENDS Naturals, Sequences

CONSTANTS
  Name,     \* the names of entries
  Payload,  \* what an entry's data can be
  NoData    \* an entry without data

VARIABLES
  tree,  \* the entries, by path
  cwd    \* the directory the iterator is in

vars == <<tree, cwd>>

Children(t, p) == {q \in DOMAIN t : Len(q) = Len(p) + 1 /\ SubSeq(q, 1, Len(p)) = p}

\* An entry that exists already stays as it is.
Created(t, p) ==
  IF p \in DOMAIN t THEN t
  ELSE [q \in DOMAIN t \cup {p} |->
          IF q = p THEN [data |-> NoData, dir |-> FALSE] ELSE t[q]]

DataSet(t, p)  == {[t EXCEPT ![p].data = d] : d \in Payload \cup {NoData}}
ArrayMade(t, p) == {u \in {[t EXCEPT ![p].dir = TRUE]} : ~t[p].dir}
ArrayGone(t, p) ==
  {u \in {[t EXCEPT ![p].dir = FALSE]} : t[p].dir /\ Children(t, p) = {}}
EntryGone(t, p) ==
  {u \in {[q \in DOMAIN t \ {p} |-> t[q]]} : ~t[p].dir}

\* One entry of the iterator's directory at a time.
Change(t) ==
  \/ \E n \in Name : tree' = Created(t, Append(cwd, n))
  \/ \E p \in Children(t, cwd) :
       tree' \in DataSet(t, p) \cup ArrayMade(t, p) \cup ArrayGone(t, p) \cup EntryGone(t, p)

\* Into an entry, out of the directory, or back to the root.
Move(t) ==
  /\ tree' = t
  /\ \/ cwd' \in Children(t, cwd) /\ t[cwd'].dir
     \/ cwd # << >> /\ cwd' = SubSeq(cwd, 1, Len(cwd) - 1)
     \/ cwd' = << >>

Init == tree = << >> /\ cwd = << >>

Next == LET t == tree IN Move(t) \/ (Change(t) /\ UNCHANGED cwd)

Spec == Init /\ [][Next]_vars

=============================================================================
