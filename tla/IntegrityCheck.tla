--------------------------- MODULE IntegrityCheck ---------------------------
(***************************************************************************)
(* cIntegrityCheck (src/tripwire/integritycheck.cpp): for each rule of the *)
(* policy, the database's tree and the file system's are walked side by    *)
(* side and what differs goes into the report.  The file system does not   *)
(* hold still: ReadDir gives the names of a directory when the walk goes   *)
(* into it, and an object is looked at (Stat) when the walk comes to it.   *)
(*                                                                         *)
(* A step of the walk is the reading of a directory or of one object with  *)
(* the verdict on it; the stat of an object and the hash of its contents   *)
(* are taken at the same moment.  Values stand for the properties the rule *)
(* compares; "mount" is a directory of another file system, for which      *)
(* CreateFCO gives no object (fsdatasourceiter.cpp:203) unless it is a     *)
(* start point.                                                            *)
(***************************************************************************)
EXTENDS FiniteSets, FiniteSetsExt, StopPointSet

CONSTANTS
  Content,    \* what a file can be
  NoData,     \* a database entry without data: only the way to others
  Rules,      \* the specs, in the order of the spec list
  InitialFs,  \* the file systems a check may begin with
  InitialDb,  \* the databases
  ObjectLists,\* the objects that may be named on the command line
  MaxChanges  \* bound: the objects that change during the check

Dir   == "dir"
Mount == "mount"

\* With a name, a tree has the ones above it.
IsTree(t) ==
  \A n \in DOMAIN t : \A k \in 1 .. Len(n) - 1 : SubSeq(n, 1, k) \in DOMAIN t

ASSUME FileSystems ==
  \A t \in InitialFs :
    /\ IsTree(t)
    /\ t \in [DOMAIN t -> Content \cup {Dir, Mount}]
    /\ \A n \in DOMAIN t : \A k \in 1 .. Len(n) - 1 : t[SubSeq(n, 1, k)] = Dir
    /\ \A i \in DOMAIN Rules :
         Rules[i].start \in DOMAIN t => t[Rules[i].start] # Mount
ASSUME Databases ==
  \A t \in InitialDb :
    IsTree(t) /\ \A n \in DOMAIN t : t[n] \in Content \cup {Dir, NoData}

FCOName == UNION {DOMAIN t : t \in InitialFs \cup InitialDb}

\* No name is empty: "/" is one empty part (fconame.cpp:248).
ASSUME NamesArePaths == \A n \in FCOName : n \in Seq(Nat) \ {<< >>}
ASSUME KindsDiffer   == Content \cap {Dir, Mount} = {}

\* The stop points of a rule are below its start point (SetStartPoint and
\* AddStopPoint, fcospechelper.cpp:104), and an object is a part of one rule
\* at most, as the parser makes each start point a stop point of the rules
\* above it.
ASSUME RulesAreRules ==
  /\ Rules \in Seq(ToSet(Rules))
  /\ \A i \in DOMAIN Rules :
       /\ Rules[i].start \in Seq(Nat) \ {<< >>}
       /\ Rules[i].depth \in Nat \cup {Infinite}
       /\ \A p \in Rules[i].stops : p \in Seq(Nat) /\ Below(p, Rules[i].start)
ASSUME RulesAreDisjoint ==
  \A n \in FCOName : \A i, j \in DOMAIN Rules :
    ContainsFCO(Rules[i], n) /\ ContainsFCO(Rules[j], n) => i = j

ASSUME ListsAreLists == ObjectLists \subseteq Seq(FCOName)

VARIABLES
  objects,  \* the objects that were named, none for a check of the rules
  left,     \* those that are still to be checked
  fs,       \* the file system, by name
  db,       \* the database, by name
  rule,     \* mpCurSpec: the rule being checked, by its place in Rules
  dirs,     \* the directories being walked, innermost last
  enter,    \* the directory the walk is about to go into
  report,   \* the added, removed and changed objects
  mode,     \* "between" rules, "walking", "objects", "done" or "undefined"
  touched,  \* the names changed since the check began
  passed    \* history: the names the walk moved over without a look, by rule

walk == <<objects, left, rule, dirs, enter, report, mode, passed>>
vars == <<fs, db, walk, touched>>

Nowhere == [name |-> << >>, os |-> FALSE, db |-> FALSE]

Init ==
  /\ fs \in InitialFs /\ db \in InitialDb
  /\ objects \in {<< >>} \cup ObjectLists
  /\ left = objects
  /\ rule = 1 /\ dirs = << >> /\ enter = Nowhere
  /\ report = {}
  /\ mode = IF objects = << >> THEN "between" ELSE "objects"
  /\ touched = {} /\ passed = {}

-----------------------------------------------------------------------------
(* What the walk sees                                                      *)

\* GetChildrenNames: nothing when the directory cannot be read.
Names(tree, d) == {n[Len(d) + 1] : n \in {m \in DOMAIN tree : Below(m, d)}}
Listing(d)     == IF d \in DOMAIN fs /\ fs[d] = Dir THEN Names(fs, d) ELSE {}

\* CreateFCO: no object when it cannot be stat'ed or is another file system's.
Readable(n)    == n \in DOMAIN fs /\ fs[n] # Mount
HasFCOData(n)  == n \in DOMAIN db /\ db[n] # NoData

\* Mutant: the report is already at the section of the next rule.
VerdictTooLate(kind, n) == [rule |-> rule + 1, kind |-> kind, name |-> n]

Verdict(kind, n) == [rule |-> rule, kind |-> kind, name |-> n]
Reported(kind, n, cond) ==
  report' = IF cond THEN report \cup {Verdict(kind, n)} ELSE report

\* ProcessDir, called with the iterators that can descend.
Descend(n, os, indb) ==
  enter' = IF os \/ indb THEN [name |-> n, os |-> os, db |-> indb] ELSE Nowhere

OsDescends(n) == Readable(n) /\ fs[n] = Dir
DbDescends(n) == Names(db, n) # {}

ProcessAddedFCO(n) ==
  /\ Reported("added", n, Readable(n))
  /\ Descend(n, OsDescends(n), FALSE)

ProcessRemovedFCO(n) ==
  /\ Reported("removed", n, HasFCOData(n))
  /\ Descend(n, FALSE, DbDescends(n))

\* Mutant: an entry without data is compared with what is there.
ProcessChangedOnly(n) ==
  /\ Reported("changed", n, Readable(n) /\ fs[n] # db[n])
  /\ Descend(n, OsDescends(n), DbDescends(n))

\* Both have the name; an entry without data is an addition.
ProcessChangedFCO(n) ==
  /\ IF HasFCOData(n)
     THEN Reported("changed", n, fs[n] # db[n])
     ELSE Reported("added", n, Readable(n))
  /\ Descend(n, OsDescends(n), DbDescends(n))

-----------------------------------------------------------------------------
(* The walk                                                                *)

Walking  == mode = "walking" /\ enter = Nowhere
top      == Last(dirs)
Next1    == Min(top.os \cup top.db)
Here     == Append(top.name, Next1)
Scanning == /\ Walking /\ dirs # << >> /\ ~top.past
            /\ top.os \cup top.db # {}
WithTop(f)  == Append(Front(dirs), f)
Advanced    == [top EXCEPT !.os = @ \ {Next1}, !.db = @ \ {Next1}]

Asked    == ~ShouldStopDescent(Rules[rule], Here)
InOs     == Next1 \in top.os
InDb     == Next1 \in top.db

\* Execute, for each rule: both iterators seek to the start point, which is
\* looked at then, and the verdict on it is given.
CheckStartPoint ==
  LET n == Rules[rule].start IN
    /\ mode = "between" /\ rule \in DOMAIN Rules
    /\ mode' = "walking"
    /\ CASE ~Readable(n) /\ n \notin DOMAIN db -> UNCHANGED <<report, enter>>
         [] ~Readable(n) /\ n \in DOMAIN db    -> ProcessRemovedFCO(n)
         [] Readable(n) /\ n \notin DOMAIN db  -> ProcessAddedFCO(n)
         [] Readable(n) /\ n \in DOMAIN db     -> ProcessChangedFCO(n)
    /\ UNCHANGED <<objects, left, fs, db, rule, dirs, touched, passed>>

\* ProcessDir begins: the names are read.
EnterDir ==
  /\ mode = "walking" /\ enter # Nowhere
  /\ dirs' = Append(dirs,
       [name |-> enter.name,
        os   |-> IF enter.os THEN Listing(enter.name) ELSE {},
        db   |-> IF enter.db THEN Names(db, enter.name) ELSE {},
        past |-> FALSE])
  /\ enter' = Nowhere
  /\ UNCHANGED <<objects, left, fs, db, rule, report, mode, touched, passed>>

\* The walk of the directory goes on as f, and over the names in over.
ScanStep(f, over) ==
  /\ dirs' = WithTop(f)
  /\ passed' = passed \cup {[rule |-> rule, name |-> Append(top.name, c)] : c \in over}
  /\ UNCHANGED <<objects, left, fs, db, rule, mode, touched>>

\* Mutant: the loop goes on at the name where the walk was stopped.
SkipForever ==
  /\ Scanning /\ ~Asked
  /\ ScanStep(top, {})
  /\ UNCHANGED <<report, enter>>

\* Not a part of the rule.
Skip ==
  /\ Scanning /\ ~Asked
  /\ ScanStep(Advanced, {})
  /\ UNCHANGED <<report, enter>>

ScanAdded   == Scanning /\ Asked /\ InOs /\ ~InDb
               /\ ProcessAddedFCO(Here) /\ ScanStep(Advanced, {})
ScanRemoved == Scanning /\ Asked /\ InDb /\ ~InOs
               /\ ProcessRemovedFCO(Here) /\ ScanStep(Advanced, {})
ScanBoth    == /\ Scanning /\ Asked /\ InOs /\ InDb
               /\ Readable(Here) \/ ~HasFCOData(Here)
               /\ ProcessChangedFCO(Here) /\ ScanStep(Advanced, {})

\* The object was listed and is not there to compare: ProcessChangedFCO
\* moves the caller's iterator on (line 175) and the caller moves it again
\* (line 405), over a name nobody looks at, or past the end.
ScanVanished ==
  LET rest == top.os \ {Next1}
      over == IF rest = {} THEN {} ELSE {Min(rest)}
  IN /\ Scanning /\ Asked /\ InOs /\ InDb
     /\ ~Readable(Here) /\ HasFCOData(Here)
     /\ ProcessRemovedFCO(Here)
     /\ ScanStep([Advanced EXCEPT !.os = rest \ over, !.past = (rest = {})], over)

\* An iterator beyond the end of its vector is not Done, and is read: what
\* the program does from here on is not defined.
ReadPastEnd ==
  /\ Walking /\ dirs # << >> /\ top.past
  /\ mode' = "undefined"
  /\ UNCHANGED <<objects, left, fs, db, rule, dirs, enter, report, touched, passed>>

LeaveDir ==
  /\ Walking /\ dirs # << >> /\ ~top.past
  /\ top.os \cup top.db = {}
  /\ dirs' = Front(dirs)
  /\ UNCHANGED <<objects, left, fs, db, rule, enter, report, mode, touched, passed>>

NextRule ==
  /\ Walking /\ dirs = << >>
  /\ rule' = rule + 1
  /\ mode' = IF rule < Len(Rules) THEN "between" ELSE "done"
  /\ UNCHANGED <<objects, left, fs, db, dirs, enter, report, touched, passed>>

-----------------------------------------------------------------------------
(* ExecuteOnObjectList                                                     *)

\* The first rule that contains the object, whatever its recurse depth.
RuleFor(n) ==
  LET containing == {i \in DOMAIN Rules : ContainsFCO(Rules[i], n)}
  IN {i \in containing : \A j \in containing : i <= j}

\* An object the database does not have, or that is not there, is an error
\* and no violation.  Nothing below it is looked at.
CheckObject ==
  LET n == Head(left) IN
    /\ mode = "objects"
    /\ left # << >>
    /\ report' = report \cup
         {[rule |-> i, kind |-> "changed", name |-> n] :
            i \in {j \in RuleFor(n) :
                    HasFCOData(n) /\ n \in DOMAIN fs /\ fs[n] # db[n]}}
    /\ left' = Tail(left)
    /\ mode' = IF Tail(left) = << >> THEN "done" ELSE "objects"
    /\ UNCHANGED <<objects, fs, db, rule, dirs, enter, touched, passed>>

-----------------------------------------------------------------------------
(* Everybody else, who changes the file system under the walk              *)

Change(t, n) ==
  /\ mode # "done" /\ Cardinality(touched) < MaxChanges
  /\ fs' = t
  /\ touched' = touched \cup {n}
  /\ UNCHANGED <<db, walk>>

Write(n, c) ==
  /\ n \in DOMAIN fs /\ fs[n] \in Content \ {c}
  /\ Change([fs EXCEPT ![n] = c], n)

Create(n, c) ==
  /\ n \notin DOMAIN fs
  /\ Len(n) > 1 => SubSeq(n, 1, Len(n) - 1) \in DOMAIN fs
                   /\ fs[SubSeq(n, 1, Len(n) - 1)] = Dir
  /\ Change([m \in DOMAIN fs \cup {n} |-> IF m = n THEN c ELSE fs[m]], n)

Unlink(n) ==
  /\ n \in DOMAIN fs
  /\ Change([m \in {k \in DOMAIN fs : ~AtOrBelow(k, n)} |-> fs[m]], n)

Step == \/ CheckStartPoint \/ CheckObject \/ EnterDir \/ Skip \/ ScanAdded
        \/ ScanRemoved \/ ScanBoth \/ ScanVanished \/ ReadPastEnd \/ LeaveDir \/ NextRule

Next == \/ Step
        \/ \E n \in FCOName, c \in Content : Write(n, c)
        \/ \E n \in FCOName, c \in Content \cup {Dir} : Create(n, c)
        \/ \E n \in FCOName : Unlink(n)

\* The check runs as long as it can; nobody has to change anything.
Spec == Init /\ [][Next]_vars /\ WF_vars(Step)

-----------------------------------------------------------------------------
NameSet == {n[Len(n)] : n \in FCOName \ {<< >>}}

\* The walk is where the rules, the report and the two trees let it be.
TypeOK ==
  /\ fs \in [DOMAIN fs -> Content \cup {Dir, Mount}]
  /\ rule \in 1 .. Len(Rules) + 1
  /\ left = SubSeq(objects, Len(objects) - Len(left) + 1, Len(objects))
  /\ mode \in {"between", "walking", "objects", "done", "undefined"}
  /\ enter \in [name : FCOName \cup {<< >>}, os : BOOLEAN, db : BOOLEAN]
  /\ \A i \in DOMAIN dirs :
       dirs[i] \in [name : FCOName, os : SUBSET NameSet, db : SUBSET NameSet,
                    past : BOOLEAN]
  /\ report \subseteq [rule : DOMAIN Rules, kind : {"added", "removed", "changed"},
                       name : FCOName]
  /\ passed \subseteq [rule : DOMAIN Rules, name : FCOName]

Difference(n) ==
  CASE Readable(n) /\ HasFCOData(n) /\ fs[n] # db[n] -> {"changed"}
    [] Readable(n) /\ ~HasFCOData(n)                 -> {"added"}
    [] ~Readable(n) /\ HasFCOData(n)                 -> {"removed"}
    [] OTHER                                         -> {}

\* What the report should say of an object: the difference there is, under
\* each rule whose walk comes to it; or, of an object that was named, that it
\* is not what it was, under the rule it belongs to.
Expected(n) ==
  {[rule |-> i, kind |-> k, name |-> n] :
     i \in {j \in DOMAIN Rules : Walked(Rules[j], n)}, k \in Difference(n)}

ExpectedOfNamed(n) ==
  {[rule |-> i, kind |-> "changed", name |-> n] :
     i \in {j \in DOMAIN Rules : /\ n \in ToSet(objects)
                               /\ ContainsFCO(Rules[j], n)
                               /\ n \in DOMAIN fs \cap DOMAIN db
                               /\ db[n] \notin {NoData, fs[n]}}}

\* Nobody changed the object or what it is in.
Undisturbed(n) == \A m \in touched : ~AtOrBelow(n, m)

\* The walk of the object's rule moved over it, or over a directory it is in,
\* after an object that had vanished (ScanVanished).
Skipped(n) ==
  \E p \in passed : AtOrBelow(n, p.name) /\ Walked(Rules[p.rule], n)

\* When the check is done it has judged every object nobody changed, and
\* judged it right, whatever happened elsewhere in the file system meanwhile;
\* except the one name the walk moves over when the name before it, which is
\* in the database, was listed and could not be read (line 175), and what is
\* below that name.  Of objects that were named, just those are judged.
StableObjectsJudgedRight ==
  mode = "done" =>
    \A n \in FCOName :
      Undisturbed(n) =>
        IF objects # << >>
        THEN {v \in report : v.name = n} = ExpectedOfNamed(n)
        ELSE Skipped(n) \/ {v \in report : v.name = n} = Expected(n)

\* No object is in the report under two rules or with two verdicts, whatever
\* changed during the check.  (One that is named twice is compared twice; it
\* may be there twice with the same.)
OneVerdictEach ==
  \A v, w \in report : v.name = w.name => v = w

\* An object the database has cannot be read, though its name may have been
\* listed: it was removed during the check, or is another file system's.
Vanishes ==
  \E n \in FCOName :
    HasFCOData(n) /\ ~Readable(n) /\ (n \in DOMAIN fs \/ ~Undisturbed(n))

\* While no object vanishes, the check comes to its end: each step of the
\* walk moves one of the two iterators on.  An object that vanishes and was
\* the last of its directory takes the iterator past the end of the listing
\* (ReadPastEnd), and nothing is promised of the check any more.
Ends == []~Vanishes => <>(mode = "done")

\* integritycheck.cpp:383-384, "if rel == LT, then the old has something the
\* new doesn't (ie -- a removal!)": what is reported removed and was not
\* changed is not there.
RemovalsAreReal ==
  \A v \in report :
    v.kind = "removed" /\ Undisturbed(v.name) => ~Readable(v.name)
=============================================================================
