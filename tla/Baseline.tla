------------------------------ MODULE Baseline ------------------------------
(***************************************************************************)
(* What the modes of the program compute from a database, a policy and the *)
(* file system: the verdicts of a check, the database a report makes of    *)
(* another, the one a new policy does.  An object (cFCO) is a function     *)
(* from its valid properties to their values; a file system is a function  *)
(* from names to objects.  A database is one too, its `tree', and beside   *)
(* the objects it has entries without data, its `ways', that lead to       *)
(* others; `dirs' are the entries that have a child array.  What changes   *)
(* under a check while it runs is left out (IntegrityCheck has that).      *)
(***************************************************************************)
EXTENDS StopPointSet, FiniteSetsExt, Functions

-----------------------------------------------------------------------------
(* The database as cDbDataSourceIter changes it                            *)

Entries(db)  == DOMAIN db.tree \cup db.ways
Parents(n)   == {SubSeq(n, 1, k) : k \in 1 .. Len(n) - 1}

\* The entry, and those on the way to it, with child arrays.
CreatePath(db, n) ==
  [tree |-> db.tree,
   ways |-> db.ways \cup ((Parents(n) \cup {n}) \ DOMAIN db.tree),
   dirs |-> db.dirs \cup Parents(n)]

SetFCOData(db, n, object) ==
  [tree |-> [m \in DOMAIN db.tree \cup {n} |-> IF m = n THEN object ELSE db.tree[m]],
   ways |-> db.ways \ {n},
   dirs |-> db.dirs]

\* Mutant: an entry that is emptied stays when the one below it goes.
RemoveFCOOnly(db, n) ==
  LET gone == {n} \ db.dirs
  IN [tree |-> Restrict(db.tree, DOMAIN db.tree \ {n}),
      ways |-> (db.ways \cup {n}) \ gone,
      dirs |-> {m \in db.dirs : \E k \in Entries(db) \ gone : Below(k, m)}]

\* cTripwireUtil::RemoveFCOFromDb: the object's entry goes unless it has a
\* child array; then, upwards, the array an entry is left with, and the entry
\* if it has no data, until one has another child or data.
RemoveFCOFromDb(db, n) ==
  LET at(k)       == SubSeq(n, 1, k)
      onlyWay(k)  == \A m \in Entries(db) : Below(m, at(k)) => AtOrBelow(m, at(k + 1))
      gone[k \in 1 .. Len(n)] ==
        IF k = Len(n) THEN n \notin db.dirs
        ELSE gone[k + 1] /\ onlyWay(k) /\ at(k) \in db.ways
  IN [tree |-> Restrict(db.tree, DOMAIN db.tree \ {n}),
      ways |-> (db.ways \cup {n}) \ {at(k) : k \in {j \in DOMAIN gone : gone[j]}},
      dirs |-> db.dirs \ {at(k) : k \in {j \in 1 .. Len(n) - 1 :
                                           gone[j + 1] /\ onlyWay(j)}}]

-----------------------------------------------------------------------------
(* Policies and generation                                                 *)

\* A policy: each rule has a spec and the properties it is about.
InSpecList(policy, n) == \E i \in DOMAIN policy : ContainsFCO(policy[i].spec, n)

TrimProps(policy, ignored) ==
  [i \in DOMAIN policy |-> [policy[i] EXCEPT !.mask = @ \ ignored]]

\* CalcProps: the properties the rule asks for, and no others.
CalcProps(object, mask) == Restrict(object, mask)

\* The objects there are to look at, each under the one rule that comes to it.
RuleOf(policy, n) == {i \in DOMAIN policy : Walked(policy[i].spec, n)}

GeneratedTree(policy, files) ==
  [n \in {m \in DOMAIN files : RuleOf(policy, m) # {}} |->
     LET i == CHOOSE j \in RuleOf(policy, n) : TRUE IN CalcProps(files[n], policy[i].mask)]

\* A path is created to each start point there is; child arrays that got no
\* entry are removed again.
Generated(policy, files) ==
  LET tree   == GeneratedTree(policy, files)
      starts == {policy[i].spec.start : i \in DOMAIN policy} \cap DOMAIN tree
      ways   == (UNION {Parents(n) : n \in starts}) \ DOMAIN tree
  IN [tree |-> tree,
      ways |-> ways,
      dirs |-> UNION {Parents(n) : n \in DOMAIN tree \cup ways}]

-----------------------------------------------------------------------------
(* cIntegrityCheck                                                         *)

Absent == << >>
Added(n, new)        == [kind |-> "added", name |-> n, old |-> Absent, new |-> new]
Removed(n, old)      == [kind |-> "removed", name |-> n, old |-> old, new |-> Absent]
Changed(n, old, new) == [kind |-> "changed", name |-> n, old |-> old, new |-> new]

\* cFCOCompare: unequal when a value differs or is not there on one side.
Differ(old, new, props) ==
  \E p \in props :
    ~(p \in DOMAIN old /\ p \in DOMAIN new /\ old[p] = new[p])

Compared(old, new, mask, validOnly) ==
  mask \cap IF validOnly THEN DOMAIN old \cap DOMAIN new
                         ELSE DOMAIN old \cup DOMAIN new

VerdictsAmong(asked, rule, tree, files, validOnly) ==
  LET new == [n \in asked \cap DOMAIN files |-> CalcProps(files[n], rule.mask)]
  IN {Added(n, new[n]) : n \in DOMAIN new \ DOMAIN tree}
     \cup {Removed(n, tree[n]) : n \in asked \ DOMAIN files}
     \cup {Changed(n, tree[n], new[n]) :
             n \in {m \in DOMAIN new \cap DOMAIN tree :
                      Differ(tree[m], new[m],
                             Compared(tree[m], new[m], rule.mask, validOnly))}}

\* Mutant: the rule is not asked about the objects there are.
VerdictsOfAny(rule, tree, files, validOnly) ==
  VerdictsAmong(DOMAIN tree \cup DOMAIN files, rule, tree, files, validOnly)

VerdictsOf(rule, tree, files, validOnly) ==
  VerdictsAmong({n \in DOMAIN tree \cup DOMAIN files : Walked(rule.spec, n)},
                rule, tree, files, validOnly)

Verdicts(policy, tree, files, validOnly) ==
  UNION {VerdictsOf(policy[i], tree, files, validOnly) : i \in DOMAIN policy}

-----------------------------------------------------------------------------
(* cUpdateDb::Execute.  A report has one verdict of an object, and rules   *)
(* are gone through in order, each adding, removing and changing: that one *)
(* rule's removals come before the next one's additions makes no           *)
(* difference, as an addition creates its path anew.                       *)

\* Mutant: a changed object's old values are not looked at.
ConflictUnseen(tree, v) == (v.kind = "added") = (v.name \in DOMAIN tree)

\* What the report says does not fit the database.  Of a removed object only
\* its presence is looked at.
Conflict(tree, v) ==
  CASE v.kind = "added"   -> v.name \in DOMAIN tree
    [] v.kind = "removed" -> v.name \notin DOMAIN tree
    [] v.kind = "changed" -> \/ v.name \notin DOMAIN tree
                             \/ Differ(v.old, tree[v.name], DOMAIN v.old)

Fitting(tree, report)     == {v \in report : ~Conflict(tree, v)}
HasConflicts(tree, report) == \E v \in report : Conflict(tree, v)

\* The first object's properties, and those only the second has.
Over(first, second) ==
  [p \in DOMAIN first \cup DOMAIN second |->
     IF p \in DOMAIN first THEN first[p] ELSE second[p]]

\* Mutant: the properties the check left out are lost.
StoredNewOnly(v, tree, replace) == v.new

\* What is stored for a verdict: the new object, and unless properties are
\* replaced the ones of the old object that the new one does not have.
Stored(v, tree, replace) ==
  IF v.kind = "changed" /\ ~replace THEN Over(v.new, tree[v.name]) ELSE v.new

Updated(db, report, replace) ==
  LET done(kind)   == {v \in Fitting(db.tree, report) : v.kind = kind}
      store(v, d)  == SetFCOData(d, v.name, Stored(v, db.tree, replace))
      add(v, d)    == store(v, CreatePath(d, v.name))
      remove(v, d) == RemoveFCOFromDb(d, v.name)
  IN FoldSet(store, FoldSet(remove, FoldSet(add, db, done("added")),
                            done("removed")), done("changed"))

-----------------------------------------------------------------------------
(* cPolicyUpdate::Execute                                                  *)

\* The check with FLAG_INVALIDATE_EXTRA_DB_PROPS and FLAG_SET_NEW_PROPS
\* writes every object it compares back to the database: without the
\* properties the rule is not about, with the new ones it had not.
Rewritten(old, new, mask) == Over(Restrict(old, DOMAIN old \cap mask), new)

CheckedTree(policy, tree, files) ==
  [n \in DOMAIN tree |->
     IF n \in DOMAIN files /\ RuleOf(policy, n) # {}
     THEN LET i == CHOOSE j \in RuleOf(policy, n) : TRUE
          IN Rewritten(tree[n], CalcProps(files[n], policy[i].mask), policy[i].mask)
     ELSE tree[n]]

\* Mutant: the report keeps the object as it was read from the database.
PolicyReportCopied(policy, tree, files) == Verdicts(policy, tree, files, TRUE)

\* The old object in the report is the one that was rewritten after it was
\* put there (AddChangedFCO keeps the pointer).
PolicyReport(policy, tree, files) ==
  LET checked == CheckedTree(policy, tree, files)
  IN {IF v.kind = "changed" THEN [v EXCEPT !.old = checked[v.name]] ELSE v :
        v \in Verdicts(policy, tree, files, TRUE)}

\* Mutant: additions are always forgiven.
OffendsUnlessAdded(old, new, v) == v.kind # "added"

\* What the user is told of, and what stops the update in high security
\* mode: not additions that only the new policy is about.
Offends(old, new, v) ==
  CASE v.kind = "added"   -> InSpecList(old, v.name)
    [] v.kind = "removed" -> InSpecList(new, v.name)
    [] v.kind = "changed" -> TRUE

\* util_PruneExtraObjects, children first: an entry without data goes with its
\* array when nothing below it is left, an object keeps an array it is left with.
Pruned(policy, db) ==
  LET kept == {n \in DOMAIN db.tree : InSpecList(policy, n)}
      ways == {n \in Entries(db) \ kept : \E m \in kept : Below(m, n)}
  IN [tree |-> Restrict(db.tree, kept),
      ways |-> ways,
      dirs |-> db.dirs \cap (kept \cup ways)]

PolicyUpdated(policy, db, files) ==
  Pruned(policy, Updated([db EXCEPT !.tree = CheckedTree(policy, @, files)],
                         PolicyReport(policy, db.tree, files), TRUE))
=============================================================================
