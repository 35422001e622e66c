------------------------------ MODULE RuleProofs ------------------------------
(***************************************************************************)
(* What a policy means and what the check makes of it.                     *)
(*                                                                         *)
(* The first part is about the check: what it reports is right, for any    *)
(* rules, trees and changes to the file system.  Its inductive invariant   *)
(* says where each object is that the walk has not judged yet, and that it *)
(* is judged right once.                                                   *)
(*                                                                         *)
(* The second part is about the parser: the specifications it makes are    *)
(* those of the text, for any text.  Its inductive invariant says which    *)
(* statements a text without faults has been read to, and that the         *)
(* parser's stacks, tables and lists are functions of them.                *)
(***************************************************************************)
EXTENDS IntegrityCheck, Policy, DataLemmas

-----------------------------------------------------------------------------
(* The inductive invariant                                                 *)

Frame == [name : FCOName, os : SUBSET NameSet, db : SUBSET NameSet, past : BOOLEAN]

\* The part of n by which the walk goes from d to n; the names still to come
\* in a directory; and that n is one of them, or below one.
Child(d, n) == n[Len(d) + 1]
Open(f)     == f.os \cup f.db
Ahead(f, n) == Below(n, f.name) /\ Child(f.name, n) \in Open(f)

\* The walk is below the directory, and past the name it went in by.
Inside(f, n) == Below(n, f.name) /\ ~Ahead(f, n)

\* The objects the property is about, and those the rule comes to in a directory.
Steady(n)      == Undisturbed(n) /\ ~Skipped(n)
SteadyBelow(d) ==
  {n \in DOMAIN fs : Below(n, d) /\ Steady(n) /\ Walked(Rules[rule], n)}

TreesAreSound ==
  /\ db \in InitialDb
  /\ fs \in [DOMAIN fs -> Content \cup {Dir, Mount}]
  /\ DOMAIN fs \subseteq FCOName
  /\ \A n \in DOMAIN fs : \A m \in FCOName :
       Below(n, m) => m \in DOMAIN fs /\ fs[m] = Dir
  /\ touched \subseteq FCOName

ModeIsRight ==
  /\ dirs \in Seq(Frame)
  /\ enter \in [name : FCOName \cup {<< >>}, os : BOOLEAN, db : BOOLEAN]
  /\ rule \in 1 .. Len(Rules) + 1
  /\ mode \in {"between", "walking", "objects", "done", "undefined"}
  /\ mode \in {"between", "walking", "undefined"} => objects = << >>
  /\ mode \in {"walking", "undefined"} => rule \in DOMAIN Rules
  /\ mode \in {"between", "done", "objects"} => dirs = << >> /\ enter = Nowhere
  /\ mode = "done" => IF objects = << >> THEN rule = Len(Rules) + 1 ELSE left = << >>

\* What the walk has passed in a directory is less than what is to come, in
\* the database and, for the objects that stay as they are, on the disk.
FrameIsRight(f) ==
  /\ Walked(Rules[rule], f.name)
  /\ f.db \subseteq Names(db, f.name)
  /\ \A c \in Open(f) : c \in Nat /\ Append(f.name, c) \in FCOName
  /\ \A c \in f.os : LET n == Append(f.name, c) IN n \in DOMAIN fs \/ ~Undisturbed(n)
  /\ \A c \in Names(db, f.name) \ f.db, x \in Open(f) : c < x
  /\ \A n \in SteadyBelow(f.name), x \in Open(f) :
       Child(f.name, n) \in f.os \/ Child(f.name, n) < x

DirsAreRight ==
  \A k \in DOMAIN dirs :
    /\ FrameIsRight(dirs[k])
    /\ \A j \in 1 .. k - 1 : Inside(dirs[j], dirs[k].name)

\* The directory the walk is about to go into is new to it, and where it will
\* not look is nothing to see.
EnterIsRight ==
  enter # Nowhere =>
    /\ enter.name \in FCOName
    /\ Walked(Rules[rule], enter.name)
    /\ enter.db \/ Names(db, enter.name) = {}
    /\ enter.os \/ SteadyBelow(enter.name) = {}
    /\ \A k \in DOMAIN dirs : Inside(dirs[k], enter.name)

\* A verdict is on an object of its rule that the walk is past.
VerdictIsRight(v) ==
  /\ Walked(Rules[v.rule], v.name)
  /\ v.rule <= rule
  /\ v.rule = rule =>
       /\ mode \in {"walking", "undefined"}
       /\ \A k \in DOMAIN dirs : ~Ahead(dirs[k], v.name)
       /\ enter # Nowhere => ~Below(v.name, enter.name)
  /\ Steady(v.name) => v.kind \in Difference(v.name)

Judged(i, n) ==
  \A k \in Difference(n) : [rule |-> i, kind |-> k, name |-> n] \in report

Pending(n) == \/ \E k \in DOMAIN dirs : Ahead(dirs[k], n)
              \/ enter # Nowhere /\ Below(n, enter.name)

\* Each object of a rule is judged or still to come.
RulesAreChecked ==
  objects = << >> =>
    /\ \A v \in report : VerdictIsRight(v)
    /\ \A n \in FCOName, i \in DOMAIN Rules :
         Steady(n) /\ Walked(Rules[i], n)
           => /\ i < rule => Judged(i, n)
              /\ i = rule /\ mode = "walking" => Judged(i, n) \/ Pending(n)

Differs(n) == n \in DOMAIN fs \cap DOMAIN db /\ db[n] \notin {NoData, fs[n]}

\* What was named and is not left any more.
Compared(n) == \E k \in 1 .. Len(objects) - Len(left) : objects[k] = n

\* Of the objects that were named, the ones that were compared are judged.
ObjectsAreChecked ==
  objects # << >> =>
    /\ objects \in ObjectLists
    /\ left \in Seq(FCOName) /\ Len(left) <= Len(objects)
    /\ left = SubSeq(objects, Len(objects) - Len(left) + 1, Len(objects))
    /\ \A v \in report : /\ Compared(v.name)
                         /\ v.kind = "changed"
                         /\ ContainsFCO(Rules[v.rule], v.name)
    /\ \A n \in FCOName, i \in DOMAIN Rules :
         Compared(n) /\ ContainsFCO(Rules[i], n) /\ Undisturbed(n)
           => ([rule |-> i, kind |-> "changed", name |-> n] \in report <=> Differs(n))

PassedType == [rule : DOMAIN Rules, name : FCOName]

ReportType == [rule : DOMAIN Rules, kind : {"added", "removed", "changed"}, name : FCOName]

IInv ==
  /\ TreesAreSound
  /\ passed \subseteq PassedType
  /\ ModeIsRight
  /\ DirsAreRight
  /\ EnterIsRight
  /\ report \subseteq ReportType
  /\ RulesAreChecked
  /\ ObjectsAreChecked
  /\ objects = << >> => left = << >>
  /\ OneVerdictEach

-----------------------------------------------------------------------------
(* Names                                                                   *)

\* m is the first part of n, as far as it goes.
Agree(n, m) == \A i \in 1 .. Len(m) : n[i] = m[i]

\* One name is above another when it is the first part of it.
LEMMA FirstPart ==
  ASSUME NEW n \in Seq(Nat), NEW m \in Seq(Nat)
  PROVE  /\ AtOrBelow(n, m) <=> Len(m) <= Len(n) /\ Agree(n, m)
         /\ Below(n, m) <=> Len(m) < Len(n) /\ Agree(n, m)
<1>1. Len(n) \in Nat /\ Len(m) \in Nat
  BY LenProperties
<1>2. \A i \in 1 .. Len(m) : m[i] \in Nat
  BY <1>1, ElementOfSeq
<1>3. /\ SubSeq(m, 1, Len(m)) \in Seq(Nat)
      /\ Len(SubSeq(m, 1, Len(m))) = Len(m)
      /\ \A i \in 1 .. Len(m) : SubSeq(m, 1, Len(m))[i] = m[i]
  BY <1>1, <1>2, SubSeqProperties
<1>4. ASSUME Len(m) <= Len(n)
      PROVE  /\ SubSeq(n, 1, Len(m)) \in Seq(Nat)
             /\ Len(SubSeq(n, 1, Len(m))) = Len(m)
             /\ \A i \in 1 .. Len(m) : SubSeq(n, 1, Len(m))[i] = n[i]
  <2>1. \A i \in 1 .. Len(m) : n[i] \in Nat
    BY <1>1, <1>4, ElementOfSeq
  <2> QED
    BY <1>1, <2>1, SubSeqProperties
<1>5. ASSUME Len(m) <= Len(n)
      PROVE  SubSeq(m, 1, Len(m)) = SubSeq(n, 1, Len(m))
               <=> \A i \in 1 .. Len(m) : n[i] = m[i]
  <2>1. ASSUME \A i \in 1 .. Len(m) : n[i] = m[i]
        PROVE  SubSeq(m, 1, Len(m)) = SubSeq(n, 1, Len(m))
    BY <1>3, <1>4, <1>5, <2>1, SeqEqual
  <2> QED
    BY <1>3, <1>4, <1>5, <2>1
<1>6. AtOrBelow(n, m) <=> Len(m) <= Len(n) /\ Agree(n, m)
  BY <1>5 DEF AtOrBelow, IsPrefix, Agree
<1>7. ASSUME Len(m) = Len(n), Agree(n, m)
      PROVE  n = m
  BY <1>7, SeqEqual DEF Agree
<1>8. Below(n, m) <=> AtOrBelow(n, m) /\ m # n
  BY DEF Below, AtOrBelow, IsStrictPrefix
<1> QED
  BY <1>1, <1>6, <1>7, <1>8

\* Above is an order, and the names above one name are above one another.
LEMMA PrefixOrder ==
  ASSUME NEW n \in Seq(Nat), NEW m \in Seq(Nat), NEW k \in Seq(Nat)
  PROVE  /\ AtOrBelow(n, n) /\ ~Below(n, n)
         /\ Below(n, m) => AtOrBelow(n, m)
         /\ AtOrBelow(n, m) => Below(n, m) \/ n = m
         /\ AtOrBelow(n, m) /\ AtOrBelow(m, k) => AtOrBelow(n, k)
         /\ AtOrBelow(n, m) /\ Below(m, k) => Below(n, k)
         /\ Below(n, m) /\ AtOrBelow(m, k) => Below(n, k)
         /\ AtOrBelow(n, m) /\ AtOrBelow(n, k) => AtOrBelow(m, k) \/ Below(k, m)
<1>1. Len(n) \in Nat /\ Len(m) \in Nat /\ Len(k) \in Nat
  BY LenProperties
<1>2. /\ AtOrBelow(n, m) <=> Len(m) <= Len(n) /\ Agree(n, m)
      /\ Below(n, m) <=> Len(m) < Len(n) /\ Agree(n, m)
  BY FirstPart
<1>3. /\ AtOrBelow(m, k) <=> Len(k) <= Len(m) /\ Agree(m, k)
      /\ Below(m, k) <=> Len(k) < Len(m) /\ Agree(m, k)
  BY FirstPart
<1>4. /\ AtOrBelow(n, k) <=> Len(k) <= Len(n) /\ Agree(n, k)
      /\ Below(n, k) <=> Len(k) < Len(n) /\ Agree(n, k)
  BY FirstPart
<1>5. /\ AtOrBelow(n, n) <=> Len(n) <= Len(n) /\ Agree(n, n)
      /\ Below(n, n) <=> Len(n) < Len(n) /\ Agree(n, n)
  BY FirstPart
<1>6. Below(k, m) <=> Len(m) < Len(k) /\ Agree(k, m)
  BY FirstPart
<1>7. Len(m) = Len(n) /\ Agree(n, m) => n = m
  BY SeqEqual DEF Agree
<1>8. /\ Len(k) <= Len(m) /\ Agree(n, m) /\ Agree(m, k) => Agree(n, k)
      /\ Len(k) <= Len(m) /\ Agree(n, m) /\ Agree(n, k) => Agree(m, k)
      /\ Len(m) < Len(k) /\ Agree(n, m) /\ Agree(n, k) => Agree(k, m)
      /\ Agree(n, n)
  <2>1. Len(k) <= Len(m) => 1 .. Len(k) \subseteq 1 .. Len(m)
    BY <1>1
  <2>2. Len(m) < Len(k) => 1 .. Len(m) \subseteq 1 .. Len(k)
    BY <1>1
  <2> QED
    BY <2>1, <2>2 DEF Agree
<1> QED
  BY <1>1, <1>2, <1>3, <1>4, <1>5, <1>6, <1>7, <1>8

\* The names in a directory: what is below it is at or below one of them.
LEMMA Children ==
  ASSUME NEW d \in Seq(Nat), NEW n \in Seq(Nat)
  PROVE  /\ Below(n, d) => /\ Child(d, n) \in Nat
                           /\ AtOrBelow(n, Append(d, Child(d, n)))
         /\ \A c \in Nat : /\ Append(d, c) \in Seq(Nat) \ {<< >>}
                           /\ Len(Append(d, c)) = Len(d) + 1
                           /\ Below(Append(d, c), d)
                           /\ Child(d, Append(d, c)) = c
                           /\ AtOrBelow(n, Append(d, c)) <=> Below(n, d) /\ Child(d, n) = c
<1>1. Len(n) \in Nat /\ Len(d) \in Nat
  BY LenProperties
<1>2. Below(n, d) <=> Len(d) < Len(n) /\ Agree(n, d)
  BY FirstPart
<1>3. ASSUME NEW c \in Nat
      PROVE  /\ Append(d, c) \in Seq(Nat) \ {<< >>}
             /\ Len(Append(d, c)) = Len(d) + 1
             /\ Below(Append(d, c), d)
             /\ Child(d, Append(d, c)) = c
             /\ AtOrBelow(n, Append(d, c)) <=> Below(n, d) /\ Child(d, n) = c
  <2> PICK e : e = Append(d, c)
    OBVIOUS
  <2>1. /\ e \in Seq(Nat) /\ e # << >>
        /\ Len(e) = Len(d) + 1
        /\ Agree(e, d)
        /\ e[Len(d) + 1] = c
    <3>1. e \in Seq(Nat) /\ e # << >> /\ Len(e) = Len(d) + 1
      BY AppendProperties
    <3>2. \A i \in 1 .. Len(d) : e[i] = d[i]
      BY AppendProperties
    <3>3. e[Len(d) + 1] = c
      BY AppendProperties
    <3> QED
      BY <3>1, <3>2, <3>3 DEF Agree
  <2>2. Below(e, d) <=> Len(d) < Len(e) /\ Agree(e, d)
    BY <2>1, FirstPart
  <2>3. AtOrBelow(n, e) <=> Len(e) <= Len(n) /\ Agree(n, e)
    BY <2>1, FirstPart
  <2>4. 1 .. Len(e) = 1 .. Len(d) \cup {Len(d) + 1}
    BY <1>1, <2>1
  <2>5. AtOrBelow(n, e) <=> Below(n, d) /\ n[Len(d) + 1] = c
    <3>1. Agree(n, e) <=> Agree(n, d) /\ n[Len(d) + 1] = c
      BY <1>1, <2>1, <2>4 DEF Agree
    <3> QED
      BY <1>1, <1>2, <2>1, <2>3, <3>1
  <2> QED
    BY <1>1, <2>1, <2>2, <2>5 DEF Child
<1>4. Below(n, d) => Child(d, n) \in Nat
  <2>1. Below(n, d) => Len(d) + 1 \in 1 .. Len(n)
    BY <1>1, <1>2
  <2> QED
    BY <2>1, ElementOfSeq DEF Child
<1> QED
  BY <1>3, <1>4

\* The way to what is at or below d goes from e where the way to d does.
LEMMA SameChild ==
  ASSUME NEW n \in Seq(Nat), NEW d \in Seq(Nat), NEW e \in Seq(Nat),
         AtOrBelow(n, d), Below(d, e)
  PROVE  Below(n, e) /\ Child(e, n) = Child(e, d)
<1>1. Len(n) \in Nat /\ Len(d) \in Nat /\ Len(e) \in Nat
  BY LenProperties
<1>2. Len(d) <= Len(n) /\ Agree(n, d)
  BY FirstPart
<1>3. Len(e) < Len(d)
  BY FirstPart
<1>4. Len(e) + 1 \in 1 .. Len(d)
  BY <1>1, <1>3
<1> QED
  BY <1>2, <1>4, PrefixOrder DEF Child, Agree

\* The first parts of a name are the names above it.
LEMMA FirstParts ==
  ASSUME NEW n \in Seq(Nat)
  PROVE  /\ \A k \in 1 .. Len(n) : /\ SubSeq(n, 1, k) \in Seq(Nat) \ {<< >>}
                                   /\ Len(SubSeq(n, 1, k)) = k
                                   /\ AtOrBelow(n, SubSeq(n, 1, k))
         /\ \A m \in Seq(Nat) : AtOrBelow(n, m) => SubSeq(n, 1, Len(m)) = m
<1>1. Len(n) \in Nat
  BY LenProperties
<1>2. ASSUME NEW k \in 0 .. Len(n)
      PROVE  /\ SubSeq(n, 1, k) \in Seq(Nat)
             /\ Len(SubSeq(n, 1, k)) = k
             /\ \A i \in 1 .. k : SubSeq(n, 1, k)[i] = n[i]
  <2>1. \A i \in 1 .. k : n[i] \in Nat
    BY <1>1, ElementOfSeq
  <2>2. /\ SubSeq(n, 1, k) \in Seq(Nat)
        /\ Len(SubSeq(n, 1, k)) = IF 1 <= k THEN k - 1 + 1 ELSE 0
        /\ \A i \in 1 .. k - 1 + 1 : SubSeq(n, 1, k)[i] = n[1 + i - 1]
    BY <1>1, <2>1, SubSeqProperties
  <2>3. \A i \in 1 .. k : i \in 1 .. k - 1 + 1 /\ 1 + i - 1 = i
    BY <1>1
  <2>4. (IF 1 <= k THEN k - 1 + 1 ELSE 0) = k
    BY <1>1
  <2> QED
    BY <2>2, <2>3, <2>4
<1>3. ASSUME NEW k \in 1 .. Len(n)
      PROVE  /\ SubSeq(n, 1, k) \in Seq(Nat) \ {<< >>}
             /\ Len(SubSeq(n, 1, k)) = k
             /\ AtOrBelow(n, SubSeq(n, 1, k))
  <2>0. PICK m : m = SubSeq(n, 1, k)
    OBVIOUS
  <2>1. m \in Seq(Nat) /\ Len(m) = k /\ \A i \in 1 .. k : m[i] = n[i]
    BY <1>1, <1>2, <2>0
  <2>2. m # << >>
    BY <2>1, EmptySeq
  <2>3. AtOrBelow(n, m)
    <3>1. Agree(n, m)
      BY <2>1 DEF Agree
    <3> QED
      BY <1>1, <2>1, <3>1, FirstPart
  <2> QED
    BY <2>0, <2>1, <2>2, <2>3
<1>4. ASSUME NEW m \in Seq(Nat), AtOrBelow(n, m)
      PROVE  SubSeq(n, 1, Len(m)) = m
  <2>1. Len(m) \in Nat /\ Len(m) <= Len(n) /\ \A i \in 1 .. Len(m) : n[i] = m[i]
    BY <1>4, LenProperties, FirstPart DEF Agree
  <2>2. Len(m) \in 0 .. Len(n)
    BY <1>1, <2>1
  <2>3. PICK k : k = SubSeq(n, 1, Len(m))
    OBVIOUS
  <2>4. k \in Seq(Nat) /\ Len(k) = Len(m) /\ \A i \in 1 .. Len(m) : k[i] = n[i]
    BY <1>2, <2>2, <2>3
  <2>5. \A i \in 1 .. Len(m) : k[i] = m[i]
    BY <2>1, <2>4
  <2>6. k = m
    BY <2>4, <2>5, SeqEqual
  <2> QED
    BY <2>3, <2>6
<1> QED
  BY <1>3, <1>4

\* The least of some numbers.
LEMMA Least ==
  ASSUME NEW S \in SUBSET Nat, S # {}
  PROVE  Min(S) \in S /\ \A x \in S : Min(S) <= x
  BY LeastNumber DEF Min

\* A name above n has the same first parts.
LEMMA SameParts ==
  ASSUME NEW n \in Seq(Nat), NEW m \in Seq(Nat), AtOrBelow(n, m), NEW k \in 1 .. Len(m)
  PROVE  SubSeq(n, 1, k) = SubSeq(m, 1, k)
<1>1. /\ SubSeq(m, 1, k) \in Seq(Nat)
      /\ Len(SubSeq(m, 1, k)) = k
      /\ AtOrBelow(m, SubSeq(m, 1, k))
  BY FirstParts
<1>2. AtOrBelow(n, SubSeq(m, 1, k))
  BY <1>1, PrefixOrder
<1> QED
  BY <1>1, <1>2, FirstParts

-----------------------------------------------------------------------------
(* Trees and rules                                                         *)

\* With a name, a tree has the ones above it.
LEMMA TreeParts ==
  ASSUME NEW t, IsTree(t), NEW n \in DOMAIN t, n \in Seq(Nat),
         NEW m \in Seq(Nat) \ {<< >>}, Below(n, m)
  PROVE  m \in DOMAIN t /\ \E k \in 1 .. Len(n) - 1 : m = SubSeq(n, 1, k)
<1>1. Len(n) \in Nat /\ Len(m) \in Nat \ {0}
  BY LenProperties, EmptySeq
<1>2. Len(m) < Len(n)
  BY FirstPart
<1>3. SubSeq(n, 1, Len(m)) = m
  BY FirstParts, PrefixOrder
<1>4. Len(m) \in 1 .. Len(n) - 1
  BY <1>1, <1>2
<1> QED
  BY <1>3, <1>4 DEF IsTree

\* So do the names of all the trees together, and there are no others.
LEMMA AllNames ==
  /\ FCOName \subseteq Seq(Nat) \ {<< >>}
  /\ \A n \in FCOName : \A m \in Seq(Nat) : AtOrBelow(n, m) /\ m # << >> => m \in FCOName
  /\ \A t \in InitialDb :
       /\ DOMAIN t \subseteq FCOName
       /\ \A n \in DOMAIN t : \A m \in FCOName : AtOrBelow(n, m) => m \in DOMAIN t
  /\ \A t \in InitialFs :
       /\ DOMAIN t \subseteq FCOName
       /\ \A n \in DOMAIN t : \A m \in FCOName :
            Below(n, m) => m \in DOMAIN t /\ t[m] = Dir
<1>1. FCOName \subseteq Seq(Nat) \ {<< >>}
  BY NamesArePaths
<1>2. \A t \in InitialDb \cup InitialFs : IsTree(t) /\ DOMAIN t \subseteq FCOName
  BY FileSystems, Databases DEF FCOName
<1>3. ASSUME NEW t \in InitialDb \cup InitialFs, NEW n \in DOMAIN t,
             NEW m \in Seq(Nat) \ {<< >>}, AtOrBelow(n, m)
      PROVE  m \in DOMAIN t
  <2>1. n \in Seq(Nat) /\ IsTree(t)
    BY <1>1, <1>2
  <2>2. n = m \/ Below(n, m)
    BY <1>3, <2>1, PrefixOrder
  <2> QED
    BY <2>1, <2>2, TreeParts
<1>4. ASSUME NEW n \in FCOName, NEW m \in Seq(Nat), AtOrBelow(n, m), m # << >>
      PROVE  m \in FCOName
  <2>1. PICK t \in InitialDb \cup InitialFs : n \in DOMAIN t
    BY DEF FCOName
  <2> QED
    BY <1>2, <1>3, <1>4, <2>1
<1>5. ASSUME NEW t \in InitialFs, NEW n \in DOMAIN t, NEW m \in FCOName, Below(n, m)
      PROVE  m \in DOMAIN t /\ t[m] = Dir
  <2>1. n \in Seq(Nat) /\ m \in Seq(Nat) \ {<< >>} /\ IsTree(t)
    BY <1>1, <1>2
  <2>2. m \in DOMAIN t /\ \E k \in 1 .. Len(n) - 1 : m = SubSeq(n, 1, k)
    BY <1>5, <2>1, TreeParts
  <2> QED
    BY <2>2, FileSystems
<1> QED
  BY <1>1, <1>2, <1>3, <1>4, <1>5

\* What a walk comes to: its start point, in a directory what it is not to
\* stop at, and nothing that the rule does not contain.
LEMMA Walks ==
  ASSUME NEW i \in DOMAIN Rules
  PROVE  /\ Rules[i].start \in Seq(Nat) \ {<< >>}
         /\ Walked(Rules[i], Rules[i].start)
         /\ \A n \in Seq(Nat) : Walked(Rules[i], n) => /\ AtOrBelow(n, Rules[i].start)
                                                       /\ ContainsFCO(Rules[i], n)
         /\ \A d \in Seq(Nat), c \in Nat :
              Walked(Rules[i], d)
                => (Walked(Rules[i], Append(d, c))
                      <=> ~ShouldStopDescent(Rules[i], Append(d, c)))
         /\ \A n, m \in Seq(Nat) :
              Walked(Rules[i], n) /\ AtOrBelow(n, m) /\ AtOrBelow(m, Rules[i].start)
                => Walked(Rules[i], m)
<1> DEFINE s == Rules[i]
<1>1. /\ s.start \in Seq(Nat) \ {<< >>}
      /\ s.depth \in Nat \cup {Infinite}
      /\ \A p \in s.stops : p \in Seq(Nat) /\ Below(p, s.start)
  BY RulesAreRules
<1>2. Len(s.start) \in Nat \ {0}
  BY <1>1, LenProperties, EmptySeq
<1> HIDE DEF s
<1>3. \A n \in Seq(Nat) : Len(n) \in Nat
  BY LenProperties
<1>4. \A n \in Seq(Nat) : SubSeq(n, 1, Len(n)) = n /\ AtOrBelow(n, n) /\ ~Below(n, n)
  BY FirstParts, PrefixOrder
<1>5. Walked(s, s.start)
  <2>1. s.start \notin s.stops
    BY <1>1, <1>4
  <2>2. WithinDepth(s, s.start)
    BY <1>1, <1>2 DEF WithinDepth, Infinite
  <2>3. ~ShouldStopDescent(s, s.start)
    BY <2>1, <2>2 DEF ShouldStopDescent
  <2>4. \A k \in Len(s.start) .. Len(s.start) : k = Len(s.start)
    BY <1>2
  <2> QED
    BY <1>1, <1>4, <2>3, <2>4 DEF Walked
<1>6. ASSUME NEW n \in Seq(Nat), Walked(s, n)
      PROVE  AtOrBelow(n, s.start) /\ ContainsFCO(s, n)
  <2>1. AtOrBelow(n, s.start)
    BY <1>6 DEF Walked
  <2>2. Len(s.start) <= Len(n)
    BY <1>1, <2>1, FirstPart
  <2>3. ~ShouldStopDescent(s, n)
    <3>1. Len(n) \in Len(s.start) .. Len(n)
      BY <1>2, <1>3, <2>2
    <3>2. ~ShouldStopDescent(s, SubSeq(n, 1, Len(n)))
      BY <1>6, <3>1 DEF Walked
    <3> QED
      BY <1>4, <3>2
  <2>4. ASSUME NEW p \in s.stops, AtOrBelow(n, p), s.kind # "no children"
        PROVE  FALSE
    <3>1. p \in Seq(Nat) /\ Len(s.start) < Len(p) /\ Len(p) <= Len(n)
      BY <1>1, <2>4, FirstPart
    <3>2. SubSeq(n, 1, Len(p)) = p
      BY <2>4, <3>1, FirstParts
    <3>3. Len(p) \in Len(s.start) .. Len(n)
      BY <1>2, <1>3, <3>1
    <3>4. ~ShouldStopDescent(s, p)
      BY <1>6, <3>2, <3>3 DEF Walked
    <3> QED
      BY <2>4, <3>4 DEF ShouldStopDescent
  <2> QED
    BY <2>1, <2>3, <2>4 DEF ContainsFCO, ShouldStopDescent
<1>7. ASSUME NEW n \in Seq(Nat), NEW m \in Seq(Nat),
             Walked(s, n), AtOrBelow(n, m), AtOrBelow(m, s.start)
      PROVE  Walked(s, m)
  <2>1. Len(m) <= Len(n)
    BY <1>7, FirstPart
  <2>2. ASSUME NEW k \in Len(s.start) .. Len(m)
        PROVE  ~ShouldStopDescent(s, SubSeq(m, 1, k))
    <3>1. k \in 1 .. Len(m) /\ k \in Len(s.start) .. Len(n)
      BY <1>2, <1>3, <2>1
    <3>2. SubSeq(n, 1, k) = SubSeq(m, 1, k)
      BY <1>7, <3>1, SameParts
    <3>3. ~ShouldStopDescent(s, SubSeq(n, 1, k))
      BY <1>7, <3>1 DEF Walked
    <3> QED
      BY <3>2, <3>3
  <2> QED
    BY <1>7, <2>2 DEF Walked
<1>8. ASSUME NEW d \in Seq(Nat), NEW c \in Nat, Walked(s, d)
      PROVE  Walked(s, Append(d, c)) <=> ~ShouldStopDescent(s, Append(d, c))
  <2>0. PICK e : e = Append(d, c)
    OBVIOUS
  <2>1. e \in Seq(Nat) /\ Len(e) = Len(d) + 1 /\ Below(e, d)
    BY <2>0, Children
  <2>2. AtOrBelow(e, d) /\ AtOrBelow(e, s.start)
    BY <1>1, <1>8, <2>1, PrefixOrder DEF Walked
  <2>3. Len(s.start) <= Len(e)
    BY <1>1, <2>1, <2>2, FirstPart
  <2>4. Len(e) \in Len(s.start) .. Len(e)
    BY <1>2, <1>3, <2>1, <2>3
  <2>5. Walked(s, e) => ~ShouldStopDescent(s, e)
    BY <1>4, <2>1, <2>4 DEF Walked
  <2>6. ASSUME ~ShouldStopDescent(s, e), NEW k \in Len(s.start) .. Len(e)
        PROVE  ~ShouldStopDescent(s, SubSeq(e, 1, k))
    <3>1. CASE k = Len(e)
      BY <1>4, <2>1, <2>6, <3>1
    <3>2. CASE k # Len(e)
      <4>1. k \in 1 .. Len(d) /\ k \in Len(s.start) .. Len(d)
        BY <1>2, <1>3, <2>1, <3>2
      <4>2. SubSeq(e, 1, k) = SubSeq(d, 1, k)
        BY <2>1, <2>2, <4>1, SameParts
      <4>3. ~ShouldStopDescent(s, SubSeq(d, 1, k))
        BY <1>8, <4>1 DEF Walked
      <4> QED
        BY <4>2, <4>3
    <3> QED
      BY <3>1, <3>2
  <2>7. ~ShouldStopDescent(s, e) => Walked(s, e)
    BY <2>2, <2>6 DEF Walked
  <2> QED
    BY <2>0, <2>5, <2>7
<1> QED
  BY <1>1, <1>5, <1>6, <1>7, <1>8 DEF s

\* No walk but one comes to an object.
LEMMA OneWalkEach ==
  ASSUME NEW i \in DOMAIN Rules, NEW j \in DOMAIN Rules, NEW n \in FCOName,
         Walked(Rules[i], n), Walked(Rules[j], n)
  PROVE  i = j
<1>1. n \in Seq(Nat)
  BY AllNames
<1>2. ContainsFCO(Rules[i], n) /\ ContainsFCO(Rules[j], n)
  BY <1>1, Walks
<1> QED
  BY <1>2, RulesAreDisjoint

-----------------------------------------------------------------------------
(* What the walk sees                                                      *)

\* The names in a directory of a tree.
LEMMA NamesIn ==
  /\ \A d : \A c \in Names(db, d) : \E n \in DOMAIN db : Below(n, d) /\ Child(d, n) = c
  /\ \A d : \A n \in DOMAIN db : Below(n, d) => Child(d, n) \in Names(db, d)
  /\ \A d : \A c \in Names(fs, d) : \E n \in DOMAIN fs : Below(n, d) /\ Child(d, n) = c
  /\ \A d : \A n \in DOMAIN fs : Below(n, d) => Child(d, n) \in Names(fs, d)
BY DEF Names, Child

\* What the two trees say of a name and of the names above and below it.
LEMMA TreesSay ==
  ASSUME TreesAreSound
  PROVE  /\ DOMAIN fs \subseteq FCOName /\ DOMAIN db \subseteq FCOName
         /\ touched \subseteq FCOName
         /\ \A n \in DOMAIN db : \A m \in FCOName : AtOrBelow(n, m) => m \in DOMAIN db
         /\ \A n \in DOMAIN fs : \A m \in FCOName :
              Below(n, m) => m \in DOMAIN fs /\ Readable(m) /\ fs[m] = Dir
         /\ \A m \in FCOName : ~OsDescends(m) => SteadyBelow(m) = {}
         /\ \A m \in FCOName : ~DbDescends(m) => Names(db, m) = {}
<1>1. /\ DOMAIN fs \subseteq FCOName /\ DOMAIN db \subseteq FCOName
      /\ touched \subseteq FCOName
      /\ \A n \in DOMAIN db : \A m \in FCOName : AtOrBelow(n, m) => m \in DOMAIN db
  BY AllNames DEF TreesAreSound
<1>2. \A n \in DOMAIN fs : \A m \in FCOName :
        Below(n, m) => m \in DOMAIN fs /\ Readable(m) /\ fs[m] = Dir
  BY DEF TreesAreSound, Readable, Dir, Mount
<1>3. \A m \in FCOName : ~OsDescends(m) => SteadyBelow(m) = {}
  BY <1>2 DEF OsDescends, SteadyBelow
<1> QED
  BY <1>1, <1>2, <1>3 DEF DbDescends

\* The difference there is, case by case.
LEMMA Differences ==
  ASSUME NEW n
  PROVE  /\ Readable(n) /\ HasFCOData(n) /\ fs[n] # db[n] => Difference(n) = {"changed"}
         /\ Readable(n) /\ HasFCOData(n) /\ fs[n] = db[n] => Difference(n) = {}
         /\ Readable(n) /\ ~HasFCOData(n) => Difference(n) = {"added"}
         /\ ~Readable(n) /\ HasFCOData(n) => Difference(n) = {"removed"}
         /\ ~Readable(n) /\ ~HasFCOData(n) => Difference(n) = {}
BY DEF Difference

Kinds == {"added", "removed", "changed"}

\* The walk looks at an object: it gives the verdict there is to give, and goes
\* into it in the trees that have something below it.
Looked(n, S, os, indb) ==
  /\ report' = report \cup {Verdict(k, n) : k \in S}
  /\ Descend(n, os, indb)
  /\ \A k, l \in S : k = l
  /\ Steady(n) => S = Difference(n)
  /\ indb \/ Names(db, n) = {}
  /\ os \/ SteadyBelow(n) = {}

IsLookedAt(n) == \E S \in SUBSET Kinds, os, indb \in BOOLEAN : Looked(n, S, os, indb)

\* The verdict of one kind, or none.
LEMMA OneKind ==
  ASSUME NEW n, NEW k \in Kinds, NEW cond \in BOOLEAN, NEW os \in BOOLEAN, NEW indb \in BOOLEAN,
         Reported(k, n, cond), Descend(n, os, indb),
         Steady(n) => Difference(n) = IF cond THEN {k} ELSE {},
         indb \/ Names(db, n) = {}, os \/ SteadyBelow(n) = {}
  PROVE  IsLookedAt(n)
<1> DEFINE S == IF cond THEN {k} ELSE {}
<1>1. report' = report \cup {Verdict(l, n) : l \in S}
  <2>1. {Verdict(l, n) : l \in S} = IF cond THEN {Verdict(k, n)} ELSE {}
    OBVIOUS
  <2> QED
    BY <2>1 DEF Reported
<1>2. S \in SUBSET Kinds /\ \A l, m \in S : l = m
  OBVIOUS
<1>3. Steady(n) => S = Difference(n)
  OBVIOUS
<1> HIDE DEF S
<1>4. Looked(n, S, os, indb)
  BY <1>1, <1>2, <1>3 DEF Looked
<1> QED
  BY <1>2, <1>4 DEF IsLookedAt

\* An object that only the file system has.
LEMMA AddedIsLookedAt ==
  ASSUME TreesAreSound, NEW n \in FCOName, ProcessAddedFCO(n),
         ~HasFCOData(n), Names(db, n) = {}
  PROVE  IsLookedAt(n)
<1>1. /\ Reported("added", n, Readable(n))
      /\ Descend(n, OsDescends(n), FALSE)
  BY DEF ProcessAddedFCO
<1>2. Readable(n) \in BOOLEAN /\ OsDescends(n) \in BOOLEAN
  BY DEF Readable, OsDescends
<1>3. Difference(n) = IF Readable(n) THEN {"added"} ELSE {}
  BY Differences
<1>4. OsDescends(n) \/ SteadyBelow(n) = {}
  BY TreesSay
<1>5. "added" \in Kinds
  BY DEF Kinds
<1> QED
  BY <1>1, <1>2, <1>3, <1>4, <1>5, OneKind

\* An object that only the database has; or that has gone.
LEMMA RemovedIsLookedAt ==
  ASSUME TreesAreSound, NEW n \in FCOName, ProcessRemovedFCO(n),
         Steady(n) => ~Readable(n), SteadyBelow(n) = {}
  PROVE  IsLookedAt(n)
<1>1. /\ Reported("removed", n, HasFCOData(n))
      /\ Descend(n, FALSE, DbDescends(n))
  BY DEF ProcessRemovedFCO
<1>2. HasFCOData(n) \in BOOLEAN /\ DbDescends(n) \in BOOLEAN
  BY DEF HasFCOData, DbDescends
<1>3. Steady(n) => Difference(n) = IF HasFCOData(n) THEN {"removed"} ELSE {}
  BY Differences
<1>4. DbDescends(n) \/ Names(db, n) = {}
  BY TreesSay
<1>5. "removed" \in Kinds
  BY DEF Kinds
<1> QED
  BY <1>1, <1>2, <1>3, <1>4, <1>5, OneKind

\* An object that both have, if not both as something to compare.
LEMMA ChangedIsLookedAt ==
  ASSUME TreesAreSound, NEW n \in FCOName, ProcessChangedFCO(n),
         Readable(n) \/ ~HasFCOData(n)
  PROVE  IsLookedAt(n)
<1>1. /\ IF HasFCOData(n)
         THEN Reported("changed", n, fs[n] # db[n])
         ELSE Reported("added", n, Readable(n))
      /\ Descend(n, OsDescends(n), DbDescends(n))
  BY DEF ProcessChangedFCO
<1>2. /\ Readable(n) \in BOOLEAN /\ (fs[n] # db[n]) \in BOOLEAN
      /\ OsDescends(n) \in BOOLEAN /\ DbDescends(n) \in BOOLEAN
  BY DEF Readable, OsDescends, DbDescends
<1>3. /\ OsDescends(n) \/ SteadyBelow(n) = {}
      /\ DbDescends(n) \/ Names(db, n) = {}
  BY TreesSay
<1>4. "added" \in Kinds /\ "changed" \in Kinds
  BY DEF Kinds
<1>5. CASE HasFCOData(n)
  <2>1. Difference(n) = IF fs[n] # db[n] THEN {"changed"} ELSE {}
    BY <1>5, Differences
  <2> QED
    BY <1>1, <1>2, <1>3, <1>4, <1>5, <2>1, OneKind
<1>6. CASE ~HasFCOData(n)
  <2>1. Difference(n) = IF Readable(n) THEN {"added"} ELSE {}
    BY <1>6, Differences
  <2> QED
    BY <1>1, <1>2, <1>3, <1>4, <1>6, <2>1, OneKind
<1> QED
  BY <1>5, <1>6

\* What a look at n does to the report, and to where the walk goes.
NewVerdicts(n) ==
  /\ report' \subseteq ReportType
  /\ OneVerdictEach'
  /\ report \subseteq report'
  /\ \A v \in report' \ report :
       v.rule = rule /\ v.name = n /\ (Steady(n) => v.kind \in Difference(n))
  /\ Steady(n) => \A k \in Difference(n) : [rule |-> rule, kind |-> k, name |-> n] \in report'

EnterType == [name : FCOName \cup {<< >>}, os : BOOLEAN, db : BOOLEAN]

Goes(n) ==
  /\ enter' \in EnterType
  /\ enter' # Nowhere => enter'.name = n
  /\ enter'.db \/ Names(db, n) = {}
  /\ enter'.os \/ SteadyBelow(n) = {}

LEMMA LookedMeans ==
  ASSUME NEW n \in FCOName, IsLookedAt(n), rule \in DOMAIN Rules, report \subseteq ReportType,
         OneVerdictEach, \A v \in report : v.name # n
  PROVE  NewVerdicts(n) /\ Goes(n)
<1>1. PICK S \in SUBSET Kinds, os \in BOOLEAN, indb \in BOOLEAN : Looked(n, S, os, indb)
  BY DEF IsLookedAt
<1>2. \A k \in S : Verdict(k, n) \in ReportType
  BY DEF Verdict, ReportType, Kinds
<1>3. \A v \in report' \ report : \E k \in S : v = Verdict(k, n)
  BY <1>1 DEF Looked
<1>4. \A k \in S : Verdict(k, n) \in report'
  BY <1>1 DEF Looked
<1>5. report \subseteq report'
  BY <1>1 DEF Looked
<1>6. \A k \in S : /\ Verdict(k, n).rule = rule
                   /\ Verdict(k, n).name = n
                   /\ Verdict(k, n).kind = k
                   /\ Verdict(k, n) = [rule |-> rule, kind |-> k, name |-> n]
  BY DEF Verdict
<1>7. /\ \A k, l \in S : k = l
      /\ Steady(n) => S = Difference(n)
  BY <1>1 DEF Looked
<1>8. OneVerdictEach'
  <2>1. ASSUME NEW v \in report', NEW w \in report', v.name = w.name
        PROVE  v = w
    <3>1. CASE v \in report /\ w \in report
      BY <2>1, <3>1 DEF OneVerdictEach
    <3>2. CASE v \in report /\ w \notin report
      BY <1>3, <1>6, <2>1, <3>2
    <3>3. CASE v \notin report /\ w \in report
      BY <1>3, <1>6, <2>1, <3>3
    <3>4. CASE v \notin report /\ w \notin report
      BY <1>3, <1>7, <3>4
    <3> QED
      BY <3>1, <3>2, <3>3, <3>4
  <2> QED
    BY <2>1 DEF OneVerdictEach
<1>9. report' \subseteq ReportType
  BY <1>2, <1>3
<1>10. NewVerdicts(n)
  BY <1>3, <1>4, <1>5, <1>6, <1>7, <1>8, <1>9 DEF NewVerdicts
<1>11. Goes(n)
  <2>1. enter' = IF os \/ indb THEN [name |-> n, os |-> os, db |-> indb] ELSE Nowhere
    BY <1>1 DEF Looked, Descend
  <2>2. enter' \in EnterType /\ enter'.os = os /\ enter'.db = indb
    BY <2>1 DEF Nowhere, EnterType
  <2>3. enter' # Nowhere => enter'.name = n
    BY <2>1
  <2> QED
    BY <1>1, <2>2, <2>3 DEF Looked, Goes
<1> QED
  BY <1>10, <1>11

\* The same where there is nothing to look at.
LEMMA NothingMeans ==
  ASSUME NEW n, UNCHANGED <<report, enter>>, enter = Nowhere, enter \in EnterType,
         report \subseteq ReportType, OneVerdictEach,
         Difference(n) = {}, Names(db, n) = {}, SteadyBelow(n) = {}
  PROVE  NewVerdicts(n) /\ Goes(n)
<1>1. OneVerdictEach'
  BY DEF OneVerdictEach
<1> QED
  BY <1>1 DEF NewVerdicts, Goes

\* While nobody changes the file system, what the walk sees stays as it is,
\* but for what it moves over.
LEMMA Still ==
  ASSUME UNCHANGED <<fs, db, touched>>, passed \subseteq passed'
  PROVE  /\ TreesAreSound' = TreesAreSound
         /\ \A n : Undisturbed(n)' = Undisturbed(n)
         /\ \A n : Steady(n)' => Steady(n)
         /\ \A n : Difference(n)' = Difference(n)
         /\ \A n : Differs(n)' = Differs(n)
         /\ rule' = rule => \A d : SteadyBelow(d)' \subseteq SteadyBelow(d)
         /\ \A d : Names(db, d)' = Names(db, d)
<1>1. \A n : Undisturbed(n)' = Undisturbed(n)
  BY DEF Undisturbed
<1>2. \A n : HasFCOData(n)' = HasFCOData(n) /\ Readable(n)' = Readable(n)
  BY DEF HasFCOData, Readable
<1>3. \A n : Skipped(n) => Skipped(n)'
  BY DEF Skipped
<1>4. \A n : Steady(n)' => Steady(n)
  BY <1>1, <1>3 DEF Steady
<1>5. \A n : Difference(n)' = Difference(n)
  BY <1>2 DEF Difference
<1>6. rule' = rule => \A d : SteadyBelow(d)' \subseteq SteadyBelow(d)
  BY <1>4 DEF SteadyBelow
<1>7. TreesAreSound' = TreesAreSound
  BY DEF TreesAreSound
<1>8. \A d : Names(db, d)' = Names(db, d)
  BY DEF Names
<1>9. \A n : Differs(n)' = Differs(n)
  BY DEF Differs
<1> QED
  BY <1>1, <1>4, <1>5, <1>6, <1>7, <1>8, <1>9

LEMMA FrameStill ==
  ASSUME UNCHANGED <<fs, db, touched, rule>>, passed \subseteq passed'
  PROVE  \A f : FrameIsRight(f) => FrameIsRight(f)'
<1>1. /\ \A n : Undisturbed(n)' = Undisturbed(n)
      /\ \A d : SteadyBelow(d)' \subseteq SteadyBelow(d)
      /\ \A d : Names(db, d)' = Names(db, d)
  BY Still
<1> QED
  BY <1>1 DEF FrameIsRight

-----------------------------------------------------------------------------
(* The walk of one directory                                               *)

\* The name that is next in the innermost directory.
HereIsRight ==
  /\ Len(dirs) \in Nat \ {0}
  /\ DOMAIN dirs = 1 .. Len(dirs)
  /\ top = dirs[Len(dirs)] /\ top \in Frame /\ FrameIsRight(top)
  /\ Next1 \in Nat /\ Next1 \in Open(top) /\ \A x \in Open(top) : x \in Nat /\ Next1 <= x
  /\ Here \in FCOName /\ Below(Here, top.name) /\ Child(top.name, Here) = Next1
  /\ \A n \in FCOName : AtOrBelow(n, Here) <=> Below(n, top.name) /\ Child(top.name, n) = Next1
  /\ \A j \in 1 .. Len(dirs) - 1 : Inside(dirs[j], top.name) /\ Inside(dirs[j], Here)

LEMMA TheTop ==
  ASSUME ModeIsRight, DirsAreRight, dirs # << >>
  PROVE  /\ Len(dirs) \in Nat \ {0}
         /\ DOMAIN dirs = 1 .. Len(dirs)
         /\ \A k \in DOMAIN dirs : dirs[k] \in Frame
         /\ top = dirs[Len(dirs)] /\ top \in Frame /\ FrameIsRight(top)
         /\ \A j \in 1 .. Len(dirs) - 1 : Inside(dirs[j], top.name)
         /\ \A n : Ahead(top, n) => \E k \in DOMAIN dirs : Ahead(dirs[k], n)
<1>1. dirs \in Seq(Frame)
  BY DEF ModeIsRight
<1>2. Len(dirs) \in Nat \ {0} /\ DOMAIN dirs = 1 .. Len(dirs)
  BY <1>1, EmptySeq, LenProperties
<1>3. \A k \in DOMAIN dirs : dirs[k] \in Frame
  BY <1>1, <1>2, ElementOfSeq
<1>4. top = dirs[Len(dirs)] /\ Len(dirs) \in DOMAIN dirs
  BY <1>2 DEF top, Last
<1> QED
  BY <1>2, <1>3, <1>4 DEF DirsAreRight

\* What is below the name of a directory the walk is past is past too.
LEMMA StillInside ==
  ASSUME NEW f, f.name \in Seq(Nat), NEW d \in Seq(Nat), NEW n \in Seq(Nat),
         Inside(f, d), AtOrBelow(n, d)
  PROVE  Inside(f, n)
<1>1. Below(n, f.name) /\ Child(f.name, n) = Child(f.name, d)
  BY SameChild DEF Inside
<1> QED
  BY <1>1 DEF Inside, Ahead

LEMMA TheNext ==
  ASSUME IInv, Scanning
  PROVE  HereIsRight
<1>1. dirs # << >> /\ Open(top) # {} /\ ModeIsRight /\ DirsAreRight
  BY DEF IInv, Scanning, Open
<1>2. /\ Len(dirs) \in Nat \ {0}
      /\ DOMAIN dirs = 1 .. Len(dirs)
      /\ \A k \in DOMAIN dirs : dirs[k] \in Frame
      /\ top = dirs[Len(dirs)] /\ top \in Frame /\ FrameIsRight(top)
      /\ \A j \in 1 .. Len(dirs) - 1 : Inside(dirs[j], top.name)
  BY <1>1, TheTop
<1>3. \A x \in Open(top) : x \in Nat /\ Append(top.name, x) \in FCOName
  BY <1>2 DEF FrameIsRight
<1>4. Next1 = Min(Open(top))
  BY DEF Next1, Open
<1>5. Next1 \in Open(top) /\ Next1 \in Nat /\ \A x \in Open(top) : Next1 <= x
  BY <1>1, <1>3, <1>4, Least
<1>6. top.name \in Seq(Nat) /\ \A k \in DOMAIN dirs : dirs[k].name \in Seq(Nat)
  BY <1>2, AllNames DEF Frame
<1>7. Here = Append(top.name, Next1)
  BY DEF Here
<1>8. /\ Here \in FCOName /\ Here \in Seq(Nat)
      /\ Below(Here, top.name)
      /\ Child(top.name, Here) = Next1
      /\ \A n \in FCOName : AtOrBelow(n, Here) <=> Below(n, top.name) /\ Child(top.name, n) = Next1
  BY <1>3, <1>5, <1>6, <1>7, Children, AllNames
<1>9. \A j \in 1 .. Len(dirs) - 1 : Inside(dirs[j], Here)
  <2>1. AtOrBelow(Here, top.name)
    BY <1>6, <1>8, PrefixOrder
  <2> QED
    BY SMTT(30), <1>2, <1>6, <1>8, <2>1, StillInside
<1> QED
  BY <1>2, <1>3, <1>5, <1>8, <1>9 DEF HereIsRight

\* A step that goes on in the directory leaves nothing out but what is at or
\* below the name that was next.
Moved ==
  /\ dirs' \in Seq(Frame)
  /\ DirsAreRight'
  /\ \A k \in DOMAIN dirs' : /\ Inside(dirs'[k], Here)
                             /\ \A n : Ahead(dirs'[k], n) => \E j \in DOMAIN dirs : Ahead(dirs[j], n)
  /\ \A n \in FCOName : \A j \in DOMAIN dirs :
       Steady(n)' /\ Walked(Rules[rule], n) /\ Ahead(dirs[j], n)
         => AtOrBelow(n, Here) \/ \E k \in DOMAIN dirs' : Ahead(dirs'[k], n)

\* The directory as the step leaves it.
NewTop(f) ==
  /\ f \in Frame
  /\ f.name = top.name
  /\ f.os \subseteq top.os \ {Next1}
  /\ f.db = top.db \ {Next1}
  /\ \A n \in FCOName :
       Steady(n)' /\ Walked(Rules[rule], n)
         /\ Below(n, top.name) /\ Child(top.name, n) \in top.os
         => Child(top.name, n) = Next1 \/ Child(top.name, n) \in f.os

LEMMA TopMoves ==
  ASSUME IInv, HereIsRight, NEW f, NewTop(f),
         UNCHANGED <<fs, db, touched, rule>>, passed \subseteq passed'
  PROVE  /\ FrameIsRight(f)'
         /\ Inside(f, Here)
         /\ \A n : Ahead(f, n) => Ahead(top, n)
         /\ \A n \in FCOName : Steady(n)' /\ Walked(Rules[rule], n) /\ Ahead(top, n)
                                 => AtOrBelow(n, Here) \/ Ahead(f, n)
<1>1. /\ FrameIsRight(top)
      /\ Next1 \in Nat
      /\ \A x \in Open(top) : x \in Nat /\ Next1 <= x
      /\ Below(Here, top.name) /\ Child(top.name, Here) = Next1
      /\ \A n \in FCOName : AtOrBelow(n, Here) <=> Below(n, top.name) /\ Child(top.name, n) = Next1
  BY DEF HereIsRight
<1>2. /\ f.name = top.name
      /\ f.os \subseteq top.os \ {Next1}
      /\ f.db = top.db \ {Next1}
  BY DEF NewTop
<1>3. Open(f) \subseteq Open(top) \ {Next1}
  BY <1>2 DEF Open
<1>4. \A x \in Open(f) : Next1 < x
  BY <1>1, <1>3
<1>5. \A n \in FCOName :
        Steady(n)' /\ Walked(Rules[rule], n)
          /\ Below(n, top.name) /\ Child(top.name, n) \in top.os
          => Child(top.name, n) = Next1 \/ Child(top.name, n) \in f.os
  BY DEF NewTop
<1>6. /\ \A n : Undisturbed(n)' = Undisturbed(n)
      /\ \A d : SteadyBelow(d)' \subseteq SteadyBelow(d)
      /\ \A d : Names(db, d)' = Names(db, d)
  BY Still
<1>7. FrameIsRight(f)'
  <2>1. Walked(Rules[rule], f.name) /\ f.db \subseteq Names(db, f.name)
    BY <1>1, <1>2 DEF FrameIsRight
  <2>2. \A c \in Open(f) : c \in Nat /\ Append(f.name, c) \in FCOName
    BY <1>1, <1>2, <1>3 DEF FrameIsRight
  <2>3. \A c \in f.os : LET n == Append(f.name, c) IN n \in DOMAIN fs \/ ~Undisturbed(n)
    BY <1>1, <1>2 DEF FrameIsRight
  <2>4. ASSUME NEW c \in Names(db, f.name) \ f.db, NEW x \in Open(f)
        PROVE  c < x
    <3>1. CASE c \in top.db
      BY <1>2, <1>4, <3>1
    <3>2. CASE c \notin top.db
      BY <1>1, <1>2, <1>3, <3>2 DEF FrameIsRight
    <3> QED
      BY <3>1, <3>2
  <2>5. ASSUME NEW n \in SteadyBelow(f.name)', NEW x \in Open(f)
        PROVE  Child(f.name, n) \in f.os \/ Child(f.name, n) < x
    <3>1. n \in SteadyBelow(top.name) /\ x \in Open(top)
      BY <1>2, <1>3, <1>6
    <3>2. Child(top.name, n) \in top.os \/ Child(top.name, n) < x
      BY <1>1, <3>1 DEF FrameIsRight
    <3>3. /\ n \in FCOName /\ Below(n, top.name)
          /\ Steady(n)' /\ Walked(Rules[rule], n)
      BY <2>5, <3>1, TreesSay DEF SteadyBelow, IInv
    <3> QED
      BY <1>2, <1>4, <1>5, <3>2, <3>3
  <2> QED
    BY <1>6, <2>1, <2>2, <2>3, <2>4, <2>5 DEF FrameIsRight
<1>8. \A n : Ahead(f, n) => Ahead(top, n)
  BY <1>2, <1>3 DEF Ahead
<1>9. Inside(f, Here)
  BY <1>1, <1>2, <1>3 DEF Inside, Ahead
<1>10. ASSUME NEW n \in FCOName, Steady(n)', Walked(Rules[rule], n), Ahead(top, n)
       PROVE  AtOrBelow(n, Here) \/ Ahead(f, n)
  <2>1. Below(n, top.name) /\ Child(top.name, n) \in top.os \cup top.db
    BY <1>10 DEF Ahead, Open
  <2>2. Child(top.name, n) = Next1 \/ Child(top.name, n) \in f.os \cup f.db
    BY <1>2, <1>5, <1>10, <2>1
  <2> QED
    BY <1>1, <1>2, <2>1, <2>2 DEF Ahead, Open
<1> QED
  BY <1>7, <1>8, <1>9, <1>10

LEMMA DirsMove ==
  ASSUME IInv, HereIsRight, NEW f, NewTop(f), dirs' = WithTop(f),
         UNCHANGED <<fs, db, touched, rule>>, passed \subseteq passed'
  PROVE  Moved
<1>1. /\ Len(dirs) \in Nat \ {0}
      /\ DOMAIN dirs = 1 .. Len(dirs)
      /\ top = dirs[Len(dirs)]
      /\ \A j \in 1 .. Len(dirs) - 1 : Inside(dirs[j], top.name) /\ Inside(dirs[j], Here)
  BY DEF HereIsRight
<1>2. dirs \in Seq(Frame) /\ f \in Frame /\ f.name = top.name
  BY DEF IInv, ModeIsRight, NewTop
<1>3. /\ Front(dirs) \in Seq(Frame)
      /\ Len(Front(dirs)) = Len(dirs) - 1
      /\ \A j \in 1 .. Len(dirs) - 1 : Front(dirs)[j] = dirs[j]
  <2>1. \A j \in 1 .. Len(dirs) - 1 : dirs[j] \in Frame
    BY <1>1, <1>2, ElementOfSeq
  <2>2. /\ SubSeq(dirs, 1, Len(dirs) - 1) \in Seq(Frame)
        /\ Len(SubSeq(dirs, 1, Len(dirs) - 1))
             = IF 1 <= Len(dirs) - 1 THEN Len(dirs) - 1 - 1 + 1 ELSE 0
        /\ \A j \in 1 .. Len(dirs) - 1 - 1 + 1 : SubSeq(dirs, 1, Len(dirs) - 1)[j] = dirs[1 + j - 1]
    BY <1>1, <2>1, SubSeqProperties
  <2>3. Len(dirs) - 1 - 1 + 1 = Len(dirs) - 1 /\ \A j \in 1 .. Len(dirs) - 1 : 1 + j - 1 = j
    BY <1>1
  <2>4. (IF 1 <= Len(dirs) - 1 THEN Len(dirs) - 1 - 1 + 1 ELSE 0) = Len(dirs) - 1
    BY <1>1
  <2> QED
    BY <2>2, <2>3, <2>4 DEF Front
<1>4. /\ dirs' \in Seq(Frame)
      /\ Len(dirs') = Len(dirs)
      /\ \A j \in 1 .. Len(dirs) - 1 : dirs'[j] = dirs[j]
      /\ dirs'[Len(dirs)] = f
  <2>1. PICK g : g = Front(dirs)
    OBVIOUS
  <2>2. /\ Append(g, f) \in Seq(Frame)
        /\ Len(Append(g, f)) = Len(g) + 1
        /\ \A i \in 1 .. Len(g) : Append(g, f)[i] = g[i]
        /\ Append(g, f)[Len(g) + 1] = f
    BY <1>2, <1>3, <2>1, AppendProperties
  <2>3. dirs' = Append(g, f)
    BY <2>1 DEF WithTop
  <2>4. Len(g) = Len(dirs) - 1
    BY <1>3, <2>1
  <2>5. Len(g) + 1 = Len(dirs)
    BY <1>1, <2>4
  <2> QED
    BY <1>3, <2>1, <2>2, <2>3, <2>4, <2>5
<1>5. DOMAIN dirs' = 1 .. Len(dirs)
  BY <1>4, LenProperties
<1>6. /\ FrameIsRight(f)'
      /\ Inside(f, Here)
      /\ \A n : Ahead(f, n) => Ahead(top, n)
      /\ \A n \in FCOName : Steady(n)' /\ Walked(Rules[rule], n) /\ Ahead(top, n)
                              => AtOrBelow(n, Here) \/ Ahead(f, n)
  BY TopMoves
<1>7. \A k \in DOMAIN dirs' : k \in 1 .. Len(dirs) - 1 \/ k = Len(dirs)
  BY <1>1, <1>5
<1>8. DirsAreRight'
  <2>1. ASSUME NEW k \in DOMAIN dirs'
        PROVE  /\ FrameIsRight(dirs[k])'
               /\ \A j \in 1 .. k - 1 : Inside(dirs[j], dirs[k].name)'
    <3>1. \A j \in 1 .. k - 1 : dirs'[j] = dirs[j]
      BY <1>1, <1>4, <1>5
    <3>2. \A g : FrameIsRight(g) => FrameIsRight(g)'
      BY FrameStill
    <3>3. CASE k \in 1 .. Len(dirs) - 1
      <4>1. FrameIsRight(dirs[k]) /\ \A j \in 1 .. k - 1 : Inside(dirs[j], dirs[k].name)
        BY <1>1, <3>3 DEF IInv, DirsAreRight
      <4> QED
        BY <1>4, <3>1, <3>2, <3>3, <4>1
    <3>4. CASE k = Len(dirs)
      <4>1. \A j \in 1 .. k - 1 : Inside(dirs[j], f.name)
        BY <1>1, <1>2, <3>4
      <4> QED
        BY <1>4, <1>6, <3>1, <3>2, <3>4, <4>1
    <3> QED
      BY <1>7, <3>3, <3>4
  <2> QED
    BY <2>1 DEF DirsAreRight
<1>9. ASSUME NEW k \in DOMAIN dirs'
      PROVE  /\ Inside(dirs'[k], Here)
             /\ \A n : Ahead(dirs'[k], n) => \E j \in DOMAIN dirs : Ahead(dirs[j], n)
  <2>1. CASE k \in 1 .. Len(dirs) - 1
    BY <1>1, <1>4, <2>1
  <2>2. CASE k = Len(dirs)
    BY <1>1, <1>4, <1>6, <2>2
  <2> QED
    BY <1>7, <2>1, <2>2
<1>10. ASSUME NEW n \in FCOName, NEW j \in DOMAIN dirs,
              Steady(n)', Walked(Rules[rule], n), Ahead(dirs[j], n)
       PROVE  AtOrBelow(n, Here) \/ \E k \in DOMAIN dirs' : Ahead(dirs'[k], n)
  <2>1. CASE j = Len(dirs)
    BY <1>1, <1>4, <1>5, <1>6, <1>10, <2>1
  <2>2. CASE j \in 1 .. Len(dirs) - 1
    BY <1>1, <1>4, <1>5, <1>10, <2>2
  <2> QED
    BY <1>1, <2>1, <2>2
<1> QED
  BY <1>4, <1>8, <1>9, <1>10 DEF Moved

-----------------------------------------------------------------------------
(* Every step of the walk keeps the invariant                              *)

\* An object that the walk comes to is not in the report yet.
LEMMA NotReportedYet ==
  ASSUME IInv, objects = << >>, rule \in DOMAIN Rules,
         NEW n \in FCOName, Walked(Rules[rule], n), \A v \in report : v.rule = rule => v.name # n
  PROVE  \A v \in report : v.name # n
<1>1. ASSUME NEW v \in report, v.name = n
      PROVE  FALSE
  <2>1. v.rule \in DOMAIN Rules
    BY DEF IInv, ReportType
  <2>2. Walked(Rules[v.rule], v.name)
    BY DEF IInv, RulesAreChecked, VerdictIsRight
  <2>3. v.rule = rule
    BY <1>1, <2>1, <2>2, OneWalkEach
  <2> QED
    BY <1>1, <2>3
<1> QED
  BY <1>1

\* The start point is looked at, or is nowhere.
LEMMA StartIsLookedAt ==
  ASSUME IInv, CheckStartPoint
  PROVE  NewVerdicts(Rules[rule].start) /\ Goes(Rules[rule].start)
<1> DEFINE n == Rules[rule].start
<1>1. /\ mode = "between" /\ rule \in DOMAIN Rules
      /\ CASE ~Readable(n) /\ n \notin DOMAIN db -> UNCHANGED <<report, enter>>
           [] ~Readable(n) /\ n \in DOMAIN db    -> ProcessRemovedFCO(n)
           [] Readable(n) /\ n \notin DOMAIN db  -> ProcessAddedFCO(n)
           [] Readable(n) /\ n \in DOMAIN db     -> ProcessChangedFCO(n)
  BY DEF CheckStartPoint
<1>2. n \in Seq(Nat) \ {<< >>} /\ Walked(Rules[rule], n)
  BY <1>1, Walks
<1>3. /\ TreesAreSound /\ report \subseteq ReportType /\ OneVerdictEach
      /\ enter = Nowhere /\ enter \in EnterType /\ objects = << >>
  BY <1>1 DEF IInv, ModeIsRight, EnterType
<1> HIDE DEF n
<1>4. /\ ~Readable(n) => SteadyBelow(n) = {}
      /\ n \notin DOMAIN db => Names(db, n) = {}
  <2>1. ASSUME NEW m, m \in DOMAIN fs \/ m \in DOMAIN db, Below(m, n)
        PROVE  n \in FCOName /\ AtOrBelow(m, n)
    <3>1. m \in FCOName /\ m \in Seq(Nat)
      BY <1>3, <2>1, TreesSay, AllNames
    <3>2. AtOrBelow(m, n)
      BY <1>2, <2>1, <3>1, PrefixOrder
    <3> QED
      BY <1>2, <3>1, <3>2, AllNames
  <2>2. \A m \in DOMAIN fs : Below(m, n) => Readable(n)
    BY <1>3, <2>1, TreesSay
  <2>3. \A m \in DOMAIN db : Below(m, n) => n \in DOMAIN db
    BY <1>3, <2>1, TreesSay
  <2> QED
    BY <2>2, <2>3, NamesIn DEF SteadyBelow
<1>5. /\ n \notin DOMAIN db => ~HasFCOData(n)
      /\ Readable(n) \/ n \in DOMAIN db => n \in FCOName
  BY <1>3, TreesSay DEF HasFCOData, Readable
<1>6. CASE ~Readable(n) /\ n \notin DOMAIN db
  <2>1. UNCHANGED <<report, enter>>
    BY <1>1, <1>6
  <2>2. Difference(n) = {}
    BY <1>5, <1>6, Differences
  <2> QED
    BY <1>3, <1>4, <1>6, <2>1, <2>2, NothingMeans DEF n
<1>7. ASSUME IsLookedAt(n), n \in FCOName
      PROVE  NewVerdicts(n) /\ Goes(n)
  <2>1. \A v \in report : v.rule # rule
    BY <1>1, <1>3 DEF IInv, RulesAreChecked, VerdictIsRight
  <2>2. \A v \in report : v.name # n
    BY <1>1, <1>2, <1>3, <1>7, <2>1, NotReportedYet
  <2> QED
    BY <1>1, <1>3, <1>7, <2>2, LookedMeans
<1>8. CASE ~Readable(n) /\ n \in DOMAIN db
  <2>1. ProcessRemovedFCO(n)
    BY <1>1, <1>8
  <2> QED
    BY <1>3, <1>4, <1>5, <1>7, <1>8, <2>1, RemovedIsLookedAt DEF n
<1>9. CASE Readable(n) /\ n \notin DOMAIN db
  <2>1. ProcessAddedFCO(n)
    BY <1>1, <1>9
  <2> QED
    BY <1>3, <1>4, <1>5, <1>7, <1>9, <2>1, AddedIsLookedAt DEF n
<1>10. CASE Readable(n) /\ n \in DOMAIN db
  <2>1. ProcessChangedFCO(n)
    BY <1>1, <1>10
  <2> QED
    BY <1>3, <1>5, <1>7, <1>10, <2>1, ChangedIsLookedAt DEF n
<1> QED
  BY <1>6, <1>8, <1>9, <1>10 DEF n

\* What is below n is judged, when there is nothing to see, or is to come.
LEMMA BelowIsToCome ==
  ASSUME IInv, NEW n, Goes(n), NEW m \in FCOName, Below(m, n), Steady(m),
         Walked(Rules[rule], m)
  PROVE  Difference(m) = {} \/ (enter' # Nowhere /\ enter'.name = n)
<1>1. CASE enter' # Nowhere
  BY <1>1 DEF Goes
<1>2. CASE enter' = Nowhere
  <2>1. Names(db, n) = {} /\ SteadyBelow(n) = {}
    BY <1>2 DEF Goes, Nowhere
  <2>2. m \notin DOMAIN db /\ m \notin DOMAIN fs
    BY <2>1, NamesIn DEF SteadyBelow
  <2> QED
    BY <2>2, Differences DEF Readable, HasFCOData
<1> QED
  BY <1>1, <1>2

LEMMA StartKeeps ==
  ASSUME IInv, CheckStartPoint
  PROVE  IInv'
<1>1. PICK n : n = Rules[rule].start
  OBVIOUS
<1>2. /\ mode = "between" /\ rule \in DOMAIN Rules /\ mode' = "walking"
      /\ UNCHANGED <<objects, left, fs, db, rule, dirs, touched, passed>>
  BY DEF CheckStartPoint
<1>3. /\ TreesAreSound /\ ModeIsRight /\ RulesAreChecked
      /\ objects = << >> /\ dirs = << >> /\ enter = Nowhere
      /\ objects = << >> => left = << >>
  BY <1>2 DEF IInv, ModeIsRight
<1>4. NewVerdicts(n) /\ Goes(n)
  BY <1>1, StartIsLookedAt
<1>5. n \in Seq(Nat) \ {<< >>} /\ Walked(Rules[rule], n)
  BY <1>1, <1>2, Walks
<1>6. /\ TreesAreSound' = TreesAreSound
      /\ \A m : Steady(m)' => Steady(m)
      /\ \A m : Difference(m)' = Difference(m)
      /\ \A d : SteadyBelow(d)' \subseteq SteadyBelow(d)
      /\ \A d : Names(db, d)' = Names(db, d)
  BY <1>2, Still
<1>7. ModeIsRight'
  BY <1>2, <1>3, <1>4 DEF ModeIsRight, Goes, EnterType
<1>8. DirsAreRight'
  BY <1>2, <1>3 DEF DirsAreRight
<1>9. EnterIsRight'
  <2>1. ASSUME enter' # Nowhere
        PROVE  enter'.name = n /\ n \in FCOName
    BY <1>4, <1>5, <2>1 DEF Goes, EnterType
  <2>2. /\ enter'.db \/ Names(db, n)' = {}
        /\ enter'.os \/ SteadyBelow(n)' = {}
    BY <1>4, <1>6 DEF Goes
  <2>3. DOMAIN dirs' = {}
    BY <1>2, <1>3
  <2> QED
    BY <1>2, <1>5, <2>1, <2>2, <2>3 DEF EnterIsRight
<1>10. RulesAreChecked'
  <2>1. ASSUME NEW v \in report'
        PROVE  VerdictIsRight(v)'
    <3>1. CASE v \in report
      <4>1. VerdictIsRight(v) /\ v.rule # rule
        BY <1>2, <1>3, <3>1 DEF RulesAreChecked, VerdictIsRight
      <4> QED
        BY <1>2, <1>6, <4>1 DEF VerdictIsRight
    <3>2. CASE v \notin report
      <4>1. /\ v.rule = rule /\ v.name = n
            /\ Steady(n) => v.kind \in Difference(n)
        BY <1>4, <3>2 DEF NewVerdicts
      <4>2. enter' # Nowhere => ~Below(n, enter'.name)
        BY <1>4, <1>5, PrefixOrder DEF Goes
      <4>3. DOMAIN dirs' = {}
        BY <1>2, <1>3
      <4>4. rule <= rule
        BY <1>3 DEF ModeIsRight
      <4> QED
        BY <1>2, <1>5, <1>6, <4>1, <4>2, <4>3, <4>4 DEF VerdictIsRight
    <3> QED
      BY <3>1, <3>2
  <2>2. ASSUME NEW m \in FCOName, NEW i \in DOMAIN Rules, Steady(m), Walked(Rules[i], m)
        PROVE  /\ i < rule => Judged(i, m)'
               /\ i = rule => Judged(i, m)' \/ Pending(m)'
    <3>1. i < rule => Judged(i, m)
      BY <1>3, <2>2 DEF RulesAreChecked
    <3>2. Judged(i, m) => Judged(i, m)'
      BY <1>4, <1>6 DEF Judged, NewVerdicts
    <3>3. ASSUME i = rule
          PROVE  Judged(i, m)' \/ Pending(m)'
      <4>1. AtOrBelow(m, n) /\ m \in Seq(Nat)
        BY <1>1, <1>2, <2>2, <3>3, Walks, AllNames
      <4>2. CASE m = n
        BY <1>4, <1>6, <2>2, <3>3, <4>2 DEF Judged, NewVerdicts
      <4>3. CASE Below(m, n)
        <5>1. Difference(m) = {} \/ (enter' # Nowhere /\ enter'.name = n)
          BY <1>4, <2>2, <3>3, <4>3, BelowIsToCome
        <5> QED
          BY <1>6, <4>3, <5>1 DEF Judged, Pending
      <4> QED
        BY <1>5, <4>1, <4>2, <4>3, PrefixOrder
    <3> QED
      BY <3>1, <3>2, <3>3
  <2> QED
    BY <1>2, <1>6, <2>1, <2>2 DEF RulesAreChecked
<1> QED
  BY <1>2, <1>3, <1>4, <1>6, <1>7, <1>8, <1>9, <1>10
     DEF IInv, ObjectsAreChecked, NewVerdicts, ReportType

\* Where the scan is.
LEMMA ScanFacts ==
  ASSUME IInv, Scanning, HereIsRight
  PROVE  /\ TreesAreSound /\ ModeIsRight /\ RulesAreChecked
         /\ objects = << >> /\ left = << >> /\ mode = "walking" /\ enter = Nowhere
         /\ rule \in DOMAIN Rules
         /\ Here \in Seq(Nat) \ {<< >>}
         /\ Ahead(top, Here)
         /\ \A n \in FCOName : AtOrBelow(n, Here) => \E k \in DOMAIN dirs : Ahead(dirs[k], n)
         /\ \A n \in FCOName : Walked(Rules[rule], n) /\ AtOrBelow(n, Here)
                                 => Walked(Rules[rule], Here)
         /\ Walked(Rules[rule], Here) <=> Asked
<1>1. /\ TreesAreSound /\ ModeIsRight /\ RulesAreChecked
      /\ objects = << >> /\ left = << >> /\ mode = "walking" /\ enter = Nowhere
      /\ rule \in DOMAIN Rules
  BY DEF IInv, Scanning, Walking, ModeIsRight
<1>2. /\ Here \in FCOName /\ Below(Here, top.name) /\ Child(top.name, Here) = Next1
      /\ Next1 \in Open(top) /\ Next1 \in Nat
      /\ top = dirs[Len(dirs)] /\ top \in Frame /\ FrameIsRight(top) /\ Len(dirs) \in DOMAIN dirs
      /\ \A n \in FCOName : AtOrBelow(n, Here) <=> Below(n, top.name) /\ Child(top.name, n) = Next1
  BY DEF HereIsRight
<1>3. Here \in Seq(Nat) \ {<< >>} /\ top.name \in Seq(Nat)
  BY <1>2, AllNames DEF Frame
<1>4. \A n \in FCOName : AtOrBelow(n, Here) => Ahead(top, n)
  BY <1>2 DEF Ahead
<1>5. Ahead(top, Here)
  BY <1>2 DEF Ahead
<1>6. Walked(Rules[rule], top.name)
  BY <1>2 DEF FrameIsRight
<1>7. Walked(Rules[rule], Here) <=> Asked
  BY <1>1, <1>2, <1>3, <1>6, Walks DEF Asked, Here
<1>8. AtOrBelow(Here, Rules[rule].start)
  <2>1. AtOrBelow(top.name, Rules[rule].start) /\ Rules[rule].start \in Seq(Nat)
    BY <1>1, <1>3, <1>6, Walks
  <2> QED
    BY <1>2, <1>3, <2>1, PrefixOrder
<1>9. \A n \in FCOName : Walked(Rules[rule], n) /\ AtOrBelow(n, Here)
                           => Walked(Rules[rule], Here)
  BY <1>1, <1>3, <1>8, Walks, AllNames
<1> QED
  BY <1>1, <1>2, <1>3, <1>4, <1>5, <1>7, <1>9

\* The walk goes on in a directory: it has looked at what was next, or passed
\* it as not a part of the rule.
LEMMA ScanKeeps ==
  ASSUME IInv, Scanning, HereIsRight, Moved,
         UNCHANGED <<objects, left, fs, db, rule, mode, touched>>,
         passed \subseteq passed', passed' \subseteq PassedType,
         Walked(Rules[rule], Here) => NewVerdicts(Here) /\ Goes(Here),
         ~Walked(Rules[rule], Here) => UNCHANGED <<report, enter>>
  PROVE  IInv'
<1>1. /\ TreesAreSound /\ ModeIsRight /\ RulesAreChecked
      /\ objects = << >> /\ left = << >> /\ mode = "walking" /\ enter = Nowhere
      /\ rule \in DOMAIN Rules
      /\ Here \in Seq(Nat) \ {<< >>} /\ Here \in FCOName
      /\ \A n \in FCOName : AtOrBelow(n, Here) => \E k \in DOMAIN dirs : Ahead(dirs[k], n)
      /\ \A n \in FCOName : Walked(Rules[rule], n) /\ AtOrBelow(n, Here)
                              => Walked(Rules[rule], Here)
  BY ScanFacts DEF HereIsRight
<1>2. /\ TreesAreSound' = TreesAreSound
      /\ \A m : Steady(m)' => Steady(m)
      /\ \A m : Difference(m)' = Difference(m)
      /\ \A d : SteadyBelow(d)' \subseteq SteadyBelow(d)
      /\ \A d : Names(db, d)' = Names(db, d)
  BY Still
<1>3. ModeIsRight'
  <2>1. enter' \in EnterType
    BY <1>1 DEF Goes, ModeIsRight, EnterType
  <2> QED
    BY <1>1, <2>1 DEF ModeIsRight, Moved, EnterType
<1>4. DirsAreRight'
  BY DEF Moved
<1>5. EnterIsRight'
  <2> PICK h : h = Here
    OBVIOUS
  <2>1. ASSUME enter' # Nowhere
        PROVE  Walked(Rules[rule], Here) /\ Goes(Here) /\ enter'.name = Here
    BY <1>1, <2>1 DEF Goes
  <2>2. ASSUME enter' # Nowhere
        PROVE  /\ enter'.db \/ Names(db, h)' = {}
               /\ enter'.os \/ SteadyBelow(h)' = {}
    BY <1>2, <2>1, <2>2 DEF Goes
  <2>3. \A k \in DOMAIN dirs' : Inside(dirs'[k], Here)
    BY DEF Moved
  <2> QED
    BY <1>1, <2>1, <2>2, <2>3 DEF EnterIsRight
<1>6. report \subseteq report' /\ report' \subseteq ReportType /\ OneVerdictEach'
  <2>1. report \subseteq ReportType /\ OneVerdictEach
    BY DEF IInv
  <2> QED
    BY <2>1 DEF NewVerdicts, OneVerdictEach
<1>7. RulesAreChecked'
  <2>1. ASSUME NEW v \in report'
        PROVE  VerdictIsRight(v)'
    <3>1. CASE v \in report
      <4>1. VerdictIsRight(v) /\ v.name \in FCOName
        BY <1>1, <3>1 DEF RulesAreChecked, IInv, ReportType
      <4>2. ASSUME v.rule = rule
            PROVE  /\ \A k \in DOMAIN dirs' : ~Ahead(dirs'[k], v.name)
                   /\ ~AtOrBelow(v.name, Here)
        <5>1. \A k \in DOMAIN dirs : ~Ahead(dirs[k], v.name)
          BY <4>1, <4>2 DEF VerdictIsRight
        <5> QED
          BY <1>1, <4>1, <5>1 DEF Moved
      <4>3. enter' # Nowhere => enter'.name = Here
        BY <1>1 DEF Goes
      <4>4. Below(v.name, Here) => AtOrBelow(v.name, Here)
        BY <1>1, <4>1, AllNames, PrefixOrder
      <4> QED
        BY <1>2, <4>1, <4>2, <4>3, <4>4 DEF VerdictIsRight
    <3>2. CASE v \notin report
      <4>1. Walked(Rules[rule], Here) /\ NewVerdicts(Here) /\ Goes(Here)
        BY <3>2
      <4>2. /\ v.rule = rule /\ v.name = Here
            /\ Steady(Here) => v.kind \in Difference(Here)
        BY <3>2, <4>1 DEF NewVerdicts
      <4>3. enter' # Nowhere => ~Below(Here, enter'.name)
        BY <1>1, <4>1, PrefixOrder DEF Goes
      <4>4. \A k \in DOMAIN dirs' : ~Ahead(dirs'[k], Here)
        BY DEF Moved, Inside
      <4>5. rule <= rule
        BY <1>1 DEF ModeIsRight
      <4> QED
        BY <1>1, <1>2, <4>1, <4>2, <4>3, <4>4, <4>5 DEF VerdictIsRight
    <3> QED
      BY <3>1, <3>2
  <2>2. ASSUME NEW m \in FCOName, NEW i \in DOMAIN Rules, Steady(m)', Steady(m),
               Walked(Rules[i], m)
        PROVE  /\ i < rule => Judged(i, m)'
               /\ i = rule => Judged(i, m)' \/ Pending(m)'
    <3>1. Judged(i, m) => Judged(i, m)'
      BY <1>2, <1>6 DEF Judged
    <3>2. /\ i < rule => Judged(i, m)
          /\ i = rule => Judged(i, m) \/ Pending(m)
      BY <1>1, <2>2 DEF RulesAreChecked
    <3>3. ASSUME i = rule, Pending(m)
          PROVE  Judged(i, m)' \/ Pending(m)'
      <4>1. PICK k \in DOMAIN dirs : Ahead(dirs[k], m)
        BY <1>1, <3>3 DEF Pending
      <4>2. AtOrBelow(m, Here) \/ \E j \in DOMAIN dirs' : Ahead(dirs'[j], m)
        BY <2>2, <3>3, <4>1 DEF Moved
      <4>3. CASE \E j \in DOMAIN dirs' : Ahead(dirs'[j], m)
        BY <4>3 DEF Pending
      <4>4. CASE AtOrBelow(m, Here)
        <5>1. NewVerdicts(Here) /\ Goes(Here)
          BY <1>1, <2>2, <3>3, <4>4
        <5>2. CASE m = Here
          BY <1>2, <2>2, <3>3, <5>1, <5>2 DEF Judged, NewVerdicts
        <5>3. CASE Below(m, Here)
          <6>1. Difference(m) = {} \/ (enter' # Nowhere /\ enter'.name = Here)
            BY <2>2, <3>3, <5>1, <5>3, BelowIsToCome
          <6> QED
            BY <1>2, <5>3, <6>1 DEF Judged, Pending
        <5> QED
          BY <1>1, <4>4, <5>2, <5>3, AllNames, PrefixOrder
      <4> QED
        BY <4>2, <4>3, <4>4
    <3> QED
      BY <3>1, <3>2, <3>3
  <2> QED
    BY <1>2, <2>1, <2>2 DEF RulesAreChecked
<1> QED
  BY <1>1, <1>2, <1>3, <1>4, <1>5, <1>6, <1>7 DEF IInv, ObjectsAreChecked

LEMMA GoOnKeeps ==
  ASSUME IInv, Scanning, HereIsRight, NEW f, NewTop(f), NEW S \in SUBSET Open(top),
         ScanStep(f, S), Asked => IsLookedAt(Here), ~Asked => UNCHANGED <<report, enter>>
  PROVE  IInv'
<1>1. /\ dirs' = WithTop(f)
      /\ UNCHANGED <<objects, left, fs, db, rule, mode, touched>>
      /\ passed' = passed \cup {[rule |-> rule, name |-> Append(top.name, c)] : c \in S}
  BY DEF ScanStep
<1>2. Moved
  BY <1>1, DirsMove DEF NewTop
<1>3. /\ objects = << >> /\ rule \in DOMAIN Rules /\ RulesAreChecked /\ Ahead(top, Here)
      /\ Walked(Rules[rule], Here) <=> Asked
      /\ Here \in FCOName /\ top = dirs[Len(dirs)] /\ Len(dirs) \in DOMAIN dirs
  BY ScanFacts DEF HereIsRight
<1>4. ASSUME Asked
      PROVE  NewVerdicts(Here) /\ Goes(Here)
  <2>1. \A v \in report : v.rule = rule => v.name # Here
    BY <1>3 DEF RulesAreChecked, VerdictIsRight
  <2>2. \A v \in report : v.name # Here
    BY <1>3, <1>4, <2>1, NotReportedYet
  <2> QED
    BY <1>3, <1>4, <2>2, LookedMeans DEF IInv
<1>5. passed \subseteq passed' /\ passed' \subseteq PassedType
  <2>1. \A c \in S : Append(top.name, c) \in FCOName
    BY DEF HereIsRight, FrameIsRight
  <2>2. \A c \in S : [rule |-> rule, name |-> Append(top.name, c)] \in PassedType
    BY <1>3, <2>1 DEF PassedType
  <2>3. passed \subseteq PassedType
    BY DEF IInv
  <2> QED
    BY <1>1, <2>2, <2>3
<1> QED
  BY <1>1, <1>2, <1>3, <1>4, <1>5, ScanKeeps

\* Moving on in both trees leaves out nothing but the name that was next.
LEMMA AdvancedIsNewTop ==
  ASSUME HereIsRight
  PROVE  NewTop(Advanced)
<1>1. top \in Frame
  BY DEF HereIsRight
<1>2. /\ Advanced \in Frame
      /\ Advanced.name = top.name
      /\ Advanced.os = top.os \ {Next1}
      /\ Advanced.db = top.db \ {Next1}
  BY <1>1 DEF Advanced, Frame
<1> QED
  BY <1>2 DEF NewTop

LEMMA SkipKeeps ==
  ASSUME IInv, Skip
  PROVE  IInv'
<1>1. Scanning /\ ~Asked /\ ScanStep(Advanced, {}) /\ UNCHANGED <<report, enter>>
  BY DEF Skip
<1>2. HereIsRight /\ NewTop(Advanced)
  BY <1>1, TheNext, AdvancedIsNewTop
<1> QED
  BY <1>1, <1>2, GoOnKeeps

LEMMA ScanAddedKeeps ==
  ASSUME IInv, ScanAdded
  PROVE  IInv'
<1>1. /\ Scanning /\ Asked /\ Next1 \notin top.db
      /\ ProcessAddedFCO(Here) /\ ScanStep(Advanced, {})
  BY DEF ScanAdded, InDb
<1>2. HereIsRight /\ NewTop(Advanced)
  BY <1>1, TheNext, AdvancedIsNewTop
<1>3. TreesAreSound /\ Here \in FCOName
  BY <1>2 DEF IInv, HereIsRight
<1>4. ASSUME NEW m \in DOMAIN db, AtOrBelow(m, Here)
      PROVE  FALSE
  <2>1. m \in FCOName
    BY <1>3, TreesSay
  <2>2. Below(m, top.name) /\ Child(top.name, m) = Next1
    BY <1>2, <1>4, <2>1 DEF HereIsRight
  <2>3. Next1 \in Names(db, top.name)
    BY <2>2, NamesIn
  <2>4. Next1 < Next1
    BY <1>1, <1>2, <2>3 DEF HereIsRight, FrameIsRight
  <2> QED
    BY <1>2, <2>4 DEF HereIsRight
<1>5. ~HasFCOData(Here) /\ Names(db, Here) = {}
  <2>1. Here \in Seq(Nat) /\ \A m \in DOMAIN db : m \in Seq(Nat)
    BY <1>3, AllNames, TreesSay
  <2>2. Here \notin DOMAIN db /\ \A m \in DOMAIN db : ~Below(m, Here)
    BY <1>4, <2>1, PrefixOrder
  <2> QED
    BY <2>2, NamesIn DEF HasFCOData
<1>6. IsLookedAt(Here)
  BY <1>1, <1>3, <1>5, AddedIsLookedAt
<1> QED
  BY <1>1, <1>2, <1>6, GoOnKeeps

LEMMA ScanRemovedKeeps ==
  ASSUME IInv, ScanRemoved
  PROVE  IInv'
<1>1. /\ Scanning /\ Asked /\ Next1 \notin top.os
      /\ ProcessRemovedFCO(Here) /\ ScanStep(Advanced, {})
  BY DEF ScanRemoved, InOs
<1>2. HereIsRight /\ NewTop(Advanced)
  BY <1>1, TheNext, AdvancedIsNewTop
<1>3. TreesAreSound /\ Here \in FCOName
  BY <1>2 DEF IInv, HereIsRight
<1>4. ASSUME NEW m \in DOMAIN fs, AtOrBelow(m, Here), Steady(m), Walked(Rules[rule], m)
      PROVE  FALSE
  <2>1. m \in FCOName
    BY <1>3, TreesSay
  <2>2. Below(m, top.name) /\ Child(top.name, m) = Next1
    BY <1>2, <1>4, <2>1 DEF HereIsRight
  <2>3. m \in SteadyBelow(top.name)
    BY <1>4, <2>2 DEF SteadyBelow
  <2>4. Next1 < Next1
    BY <1>1, <1>2, <2>2, <2>3 DEF HereIsRight, FrameIsRight
  <2> QED
    BY <1>2, <2>4 DEF HereIsRight
<1>5. (Steady(Here) => ~Readable(Here)) /\ SteadyBelow(Here) = {}
  <2>1. Here \in Seq(Nat) /\ \A m \in DOMAIN fs : m \in Seq(Nat)
    BY <1>3, AllNames, TreesSay
  <2>2. AtOrBelow(Here, Here) /\ \A m \in DOMAIN fs : Below(m, Here) => AtOrBelow(m, Here)
    BY <2>1, PrefixOrder
  <2> QED
    BY <1>1, <1>2, <1>4, <2>2, ScanFacts DEF Readable, SteadyBelow
<1>6. IsLookedAt(Here)
  BY <1>1, <1>3, <1>5, RemovedIsLookedAt
<1> QED
  BY <1>1, <1>2, <1>6, GoOnKeeps

LEMMA ScanBothKeeps ==
  ASSUME IInv, ScanBoth
  PROVE  IInv'
<1>1. /\ Scanning /\ Asked
      /\ Readable(Here) \/ ~HasFCOData(Here)
      /\ ProcessChangedFCO(Here) /\ ScanStep(Advanced, {})
  BY DEF ScanBoth
<1>2. HereIsRight /\ NewTop(Advanced)
  BY <1>1, TheNext, AdvancedIsNewTop
<1>3. TreesAreSound /\ Here \in FCOName
  BY <1>2 DEF IInv, HereIsRight
<1>4. IsLookedAt(Here)
  BY <1>1, <1>3, ChangedIsLookedAt
<1> QED
  BY <1>1, <1>2, <1>4, GoOnKeeps

LEMMA ScanVanishedKeeps ==
  ASSUME IInv, ScanVanished
  PROVE  IInv'
<1> DEFINE rest == top.os \ {Next1}
           S == IF rest = {} THEN {} ELSE {Min(rest)}
           f == [Advanced EXCEPT !.os = rest \ S, !.past = (rest = {})]
<1>1. /\ Scanning /\ Asked /\ Next1 \in top.os
      /\ ~Readable(Here) /\ HasFCOData(Here)
      /\ ProcessRemovedFCO(Here) /\ ScanStep(f, S)
  BY DEF ScanVanished, InOs
<1>2. HereIsRight
  BY <1>1, TheNext
<1>3. /\ TreesAreSound /\ Here \in FCOName /\ top \in Frame
      /\ top.name \in Seq(Nat)
  BY <1>2, AllNames DEF IInv, HereIsRight, Frame
<1>4. S \subseteq rest /\ S \subseteq Open(top)
  <2>1. rest \subseteq Nat
    BY <1>2 DEF HereIsRight, Open
  <2>2. rest # {} => Min(rest) \in rest
    BY <2>1, Least
  <2> QED
    BY <2>2 DEF Open
<1>5. /\ f \in Frame
      /\ f.name = top.name
      /\ f.os = rest \ S
      /\ f.db = top.db \ {Next1}
  <2>1. PICK o \in SUBSET NameSet : o = rest \ S
    BY <1>3 DEF Frame
  <2>2. PICK p \in BOOLEAN : p = (rest = {})
    OBVIOUS
  <2>3. PICK a : a = Advanced
    OBVIOUS
  <2>4. /\ a \in Frame
        /\ a.name = top.name
        /\ a.db = top.db \ {Next1}
    BY <1>3, <2>3 DEF Frame, Advanced
  <2>5. f = [a EXCEPT !.os = o, !.past = p]
    BY <2>1, <2>2, <2>3
  <2> HIDE DEF f
  <2> QED
    BY <2>1, <2>4, <2>5 DEF Frame
<1> HIDE DEF f
<1>6. ASSUME NEW n \in FCOName, Steady(n)', Walked(Rules[rule], n), Below(n, top.name),
             Child(top.name, n) \in S
      PROVE  FALSE
  <2>1. [rule |-> rule, name |-> Append(top.name, Child(top.name, n))] \in passed'
    BY <1>1, <1>6 DEF ScanStep
  <2>2. AtOrBelow(n, Append(top.name, Child(top.name, n)))
    BY <1>3, <1>6, AllNames, Children
  <2>3. Skipped(n)'
    BY <1>6, <2>1, <2>2 DEF Skipped
  <2> QED
    BY <1>6, <2>3 DEF Steady
<1>7. NewTop(f)
  BY <1>3, <1>5, <1>6 DEF NewTop
<1>8. SteadyBelow(Here) = {}
  BY <1>1, <1>3, TreesSay DEF SteadyBelow
<1>9. IsLookedAt(Here)
  BY <1>1, <1>3, <1>8, RemovedIsLookedAt
<1> HIDE DEF S
<1> QED
  BY <1>1, <1>2, <1>4, <1>7, <1>9, GoOnKeeps

\* The names in a directory are names of objects, and on the disk they are there.
LEMMA NamesAreNames ==
  ASSUME TreesAreSound, NEW d \in FCOName
  PROVE  /\ \A c \in Names(fs, d) \cup Names(db, d) :
              c \in Nat /\ c \in NameSet /\ Append(d, c) \in FCOName
         /\ \A c \in Names(fs, d) : Append(d, c) \in DOMAIN fs
<1>1. d \in Seq(Nat)
  BY AllNames
<1>2. ASSUME NEW n \in FCOName, Below(n, d), NEW c, Child(d, n) = c
      PROVE  /\ c \in Nat /\ c \in NameSet /\ Append(d, c) \in FCOName
             /\ n = Append(d, c) \/ Below(n, Append(d, c))
  <2>1. n \in Seq(Nat)
    BY AllNames
  <2>2. c \in Nat /\ AtOrBelow(n, Append(d, c))
    BY <1>1, <1>2, <2>1, Children
  <2>3. PICK m : m = Append(d, c)
    OBVIOUS
  <2>4. m \in Seq(Nat) \ {<< >>} /\ Len(m) = Len(d) + 1 /\ m[Len(d) + 1] = c
    BY <1>1, <2>2, <2>3, Children DEF Child
  <2>5. m \in FCOName
    BY <2>2, <2>3, <2>4, AllNames
  <2>6. m[Len(m)] = c
    BY <2>4
  <2>7. c \in NameSet
    BY <2>4, <2>5, <2>6 DEF NameSet
  <2>8. n = m \/ Below(n, m)
    BY <2>1, <2>2, <2>3, <2>4, PrefixOrder
  <2> QED
    BY <2>2, <2>3, <2>5, <2>7, <2>8
<1>3. ASSUME NEW c \in Names(fs, d)
      PROVE  c \in Nat /\ c \in NameSet /\ Append(d, c) \in FCOName /\ Append(d, c) \in DOMAIN fs
  <2>1. PICK n \in DOMAIN fs : Below(n, d) /\ Child(d, n) = c
    BY <1>3, NamesIn
  <2>2. n \in FCOName
    BY <2>1, TreesSay
  <2>3. PICK m : m = Append(d, c)
    OBVIOUS
  <2>4. /\ c \in Nat /\ c \in NameSet /\ m \in FCOName
        /\ n = m \/ Below(n, m)
    BY <1>2, <2>1, <2>2, <2>3
  <2>5. m \in DOMAIN fs
    BY <2>1, <2>4, TreesSay
  <2> QED
    BY <2>3, <2>4, <2>5
<1>4. ASSUME NEW c \in Names(db, d)
      PROVE  c \in Nat /\ c \in NameSet /\ Append(d, c) \in FCOName
  <2>1. PICK n \in DOMAIN db : Below(n, d) /\ Child(d, n) = c
    BY <1>4, NamesIn
  <2>2. n \in FCOName
    BY <2>1, TreesSay
  <2> QED
    BY <1>2, <2>1, <2>2
<1> QED
  BY <1>3, <1>4

\* What the walk sees of the directory it goes into.
NewDir == [name |-> enter.name,
           os   |-> IF enter.os THEN Listing(enter.name) ELSE {},
           db   |-> IF enter.db THEN Names(db, enter.name) ELSE {},
           past |-> FALSE]

LEMMA NewDirIsRight ==
  ASSUME IInv, enter # Nowhere
  PROVE  /\ NewDir \in Frame
         /\ FrameIsRight(NewDir)
         /\ \A n \in FCOName :
              Below(n, enter.name) /\ Steady(n) /\ Walked(Rules[rule], n)
                => Difference(n) = {} \/ Ahead(NewDir, n)
<1>1. /\ TreesAreSound
      /\ enter.name \in FCOName
      /\ Walked(Rules[rule], enter.name)
      /\ enter.db \/ Names(db, enter.name) = {}
      /\ enter.os \/ SteadyBelow(enter.name) = {}
  BY DEF IInv, EnterIsRight
<1>2. PICK d : d = enter.name
  OBVIOUS
<1>3. PICK f : f = NewDir
  OBVIOUS
<1>4. /\ f.name = d
      /\ f.os \subseteq Names(fs, d)
      /\ f.db = Names(db, d)
      /\ f.past = FALSE
  BY <1>1, <1>2, <1>3 DEF NewDir, Listing
<1>5. /\ d \in FCOName /\ d \in Seq(Nat)
      /\ \A c \in Names(fs, d) \cup Names(db, d) :
           c \in Nat /\ c \in NameSet /\ Append(d, c) \in FCOName
      /\ \A c \in Names(fs, d) : Append(d, c) \in DOMAIN fs
  BY <1>1, <1>2, NamesAreNames, AllNames
<1>6. f \in Frame
  <2>1. f = [name |-> f.name, os |-> f.os, db |-> f.db, past |-> f.past]
    BY <1>3 DEF NewDir
  <2> QED
    BY <1>4, <1>5, <2>1 DEF Frame
<1>7. \A n \in SteadyBelow(d) : Child(d, n) \in f.os
  <2>1. ASSUME NEW n \in SteadyBelow(d)
        PROVE  Child(d, n) \in f.os
    <3>1. n \in DOMAIN fs /\ Below(n, d)
      BY DEF SteadyBelow
    <3>2. d \in DOMAIN fs /\ fs[d] = Dir
      BY <1>1, <1>5, <3>1, TreesSay
    <3>3. enter.os
      BY <1>1, <1>2, <2>1
    <3>4. f.os = Names(fs, d)
      BY <1>2, <1>3, <3>2, <3>3 DEF NewDir, Listing
    <3> QED
      BY <3>1, <3>4, NamesIn
  <2> QED
    BY <2>1
<1>8. FrameIsRight(f)
  BY <1>1, <1>2, <1>4, <1>5, <1>7 DEF FrameIsRight, Open
<1>9. ASSUME NEW n \in FCOName, Below(n, d), Steady(n), Walked(Rules[rule], n)
      PROVE  Difference(n) = {} \/ Ahead(f, n)
  <2>1. CASE n \in DOMAIN fs
    BY <1>4, <1>7, <1>9, <2>1 DEF SteadyBelow, Ahead, Open
  <2>2. CASE n \in DOMAIN db
    BY <1>4, <1>9, <2>2, NamesIn DEF Ahead, Open
  <2>3. CASE n \notin DOMAIN fs /\ n \notin DOMAIN db
    BY <2>3, Differences DEF Readable, HasFCOData
  <2> QED
    BY <2>1, <2>2, <2>3
<1> QED
  BY <1>2, <1>3, <1>6, <1>8, <1>9

LEMMA EnterKeeps ==
  ASSUME IInv, EnterDir
  PROVE  IInv'
<1>1. PICK f : f = NewDir
  OBVIOUS
<1>2. /\ mode = "walking" /\ enter # Nowhere
      /\ dirs' = Append(dirs, f) /\ enter' = Nowhere
      /\ UNCHANGED <<objects, left, fs, db, rule, report, mode, touched, passed>>
  BY <1>1 DEF EnterDir, NewDir
<1>3. /\ ModeIsRight /\ RulesAreChecked /\ dirs \in Seq(Frame) /\ f \in Frame
      /\ objects = << >> /\ left = << >>
  BY <1>1, <1>2, NewDirIsRight DEF IInv, ModeIsRight
<1>4. PICK K : K = Len(dirs)
  OBVIOUS
<1>5. /\ K \in Nat /\ DOMAIN dirs = 1 .. K
      /\ dirs' \in Seq(Frame) /\ DOMAIN dirs' = 1 .. K + 1
      /\ \A k \in 1 .. K : dirs'[k] = dirs[k]
      /\ dirs'[K + 1] = f
  <2>1. /\ Append(dirs, f) \in Seq(Frame)
        /\ Len(Append(dirs, f)) = Len(dirs) + 1
        /\ \A i \in 1 .. Len(dirs) : Append(dirs, f)[i] = dirs[i]
        /\ Append(dirs, f)[Len(dirs) + 1] = f
    BY <1>3, AppendProperties
  <2>2. dirs' \in Seq(Frame) /\ Len(dirs') = Len(dirs) + 1
    BY <1>2, <2>1
  <2>3. DOMAIN dirs' = 1 .. Len(dirs') /\ DOMAIN dirs = 1 .. Len(dirs) /\ Len(dirs) \in Nat
    BY <1>3, <2>2, LenProperties
  <2> QED
    BY <1>2, <1>4, <2>1, <2>2, <2>3
<1>6. 1 .. K + 1 = 1 .. K \cup {K + 1}
  BY <1>5
<1>7. /\ f.name = enter.name
      /\ FrameIsRight(f)
      /\ \A n \in FCOName :
           Below(n, enter.name) /\ Steady(n) /\ Walked(Rules[rule], n)
             => Difference(n) = {} \/ Ahead(f, n)
  BY <1>1, <1>2, NewDirIsRight DEF NewDir
<1>8. /\ TreesAreSound' = TreesAreSound
      /\ \A m : Steady(m)' => Steady(m)
      /\ \A m : Difference(m)' = Difference(m)
      /\ \A g : FrameIsRight(g) => FrameIsRight(g)'
  BY <1>2, Still, FrameStill
<1>9. ModeIsRight'
  BY <1>2, <1>3, <1>5 DEF ModeIsRight, Nowhere
<1>10. DirsAreRight'
  <2>1. ASSUME NEW k \in DOMAIN dirs'
        PROVE  /\ FrameIsRight(dirs[k])'
               /\ \A j \in 1 .. k - 1 : Inside(dirs[j], dirs[k].name)'
    <3>1. \A j \in 1 .. k - 1 : dirs'[j] = dirs[j] /\ j \in DOMAIN dirs
      BY <1>5
    <3>2. CASE k \in 1 .. K
      <4>1. FrameIsRight(dirs[k]) /\ \A j \in 1 .. k - 1 : Inside(dirs[j], dirs[k].name)
        BY <1>5, <3>2 DEF IInv, DirsAreRight
      <4> QED
        BY <1>5, <1>8, <3>1, <3>2, <4>1
    <3>3. CASE k = K + 1
      <4>1. \A j \in 1 .. k - 1 : Inside(dirs[j], f.name)
        BY <1>2, <1>7, <3>1 DEF IInv, EnterIsRight
      <4> QED
        BY <1>5, <1>7, <1>8, <3>1, <3>3, <4>1
    <3> QED
      BY <1>5, <1>6, <3>2, <3>3
  <2> QED
    BY <2>1 DEF DirsAreRight
<1>11. EnterIsRight'
  BY <1>2 DEF EnterIsRight
<1>12. RulesAreChecked'
  <2>1. ASSUME NEW v \in report'
        PROVE  VerdictIsRight(v)'
    <3>1. VerdictIsRight(v)
      BY <1>2, <1>3 DEF RulesAreChecked
    <3>2. ASSUME v.rule = rule, NEW k \in DOMAIN dirs'
          PROVE  ~Ahead(dirs'[k], v.name)
      <4>1. CASE k \in 1 .. K
        BY <1>5, <3>1, <3>2, <4>1 DEF VerdictIsRight
      <4>2. CASE k = K + 1
        BY <1>2, <1>5, <1>7, <3>1, <3>2, <4>2 DEF VerdictIsRight, Ahead
      <4> QED
        BY <1>5, <1>6, <4>1, <4>2
    <3> QED
      BY <1>2, <1>8, <3>1, <3>2 DEF VerdictIsRight
  <2>2. ASSUME NEW m \in FCOName, NEW i \in DOMAIN Rules, Steady(m), Walked(Rules[i], m)
        PROVE  /\ i < rule => Judged(i, m)'
               /\ i = rule => Judged(i, m)' \/ Pending(m)'
    <3>1. Judged(i, m) => Judged(i, m)'
      BY <1>2, <1>8 DEF Judged
    <3>2. /\ i < rule => Judged(i, m)
          /\ i = rule => Judged(i, m) \/ Pending(m)
      BY <1>2, <1>3, <2>2 DEF RulesAreChecked
    <3>3. ASSUME i = rule, Pending(m)
          PROVE  Judged(i, m)' \/ Pending(m)'
      <4>1. CASE \E k \in DOMAIN dirs : Ahead(dirs[k], m)
        BY <1>5, <1>6, <4>1 DEF Pending
      <4>2. CASE Below(m, enter.name)
        <5>1. Difference(m) = {} \/ Ahead(f, m)
          BY <1>7, <2>2, <3>3, <4>2
        <5>2. Ahead(f, m) => Ahead(dirs'[K + 1], m) /\ K + 1 \in DOMAIN dirs'
          BY <1>5, <1>6
        <5> QED
          BY <1>8, <5>1, <5>2 DEF Judged, Pending
      <4> QED
        BY <3>3, <4>1, <4>2 DEF Pending
    <3> QED
      BY <3>1, <3>2, <3>3
  <2> QED
    BY <1>2, <1>8, <2>1, <2>2 DEF RulesAreChecked
<1> QED
  BY <1>2, <1>3, <1>8, <1>9, <1>10, <1>11, <1>12
     DEF IInv, ObjectsAreChecked, OneVerdictEach

\* The directory the walk leaves has nothing left to come to.
LEMMA LeaveKeeps ==
  ASSUME IInv, LeaveDir
  PROVE  IInv'
<1>1. /\ mode = "walking" /\ enter = Nowhere /\ dirs # << >>
      /\ Open(top) = {}
      /\ dirs' = Front(dirs)
      /\ UNCHANGED <<objects, left, fs, db, rule, enter, report, mode, touched, passed>>
  BY DEF LeaveDir, Walking, Open
<1>2. /\ ModeIsRight /\ RulesAreChecked /\ DirsAreRight /\ dirs \in Seq(Frame)
      /\ objects = << >> /\ left = << >>
  BY <1>1 DEF IInv, ModeIsRight
<1>3. PICK K : K = Len(dirs)
  OBVIOUS
<1>4. /\ K \in Nat \ {0} /\ DOMAIN dirs = 1 .. K
      /\ top = dirs[K]
      /\ \A k \in DOMAIN dirs : dirs[k] \in Frame
  BY <1>1, <1>2, <1>3, TheTop
<1>5. /\ dirs' \in Seq(Frame) /\ DOMAIN dirs' = 1 .. K - 1
      /\ \A k \in 1 .. K - 1 : dirs'[k] = dirs[k]
  <2>1. \A k \in 1 .. K - 1 : dirs[k] \in Frame
    BY <1>4
  <2>2. /\ SubSeq(dirs, 1, K - 1) \in Seq(Frame)
        /\ Len(SubSeq(dirs, 1, K - 1)) = IF 1 <= K - 1 THEN K - 1 - 1 + 1 ELSE 0
        /\ \A k \in 1 .. K - 1 - 1 + 1 : SubSeq(dirs, 1, K - 1)[k] = dirs[1 + k - 1]
    BY <1>4, <2>1, SubSeqProperties
  <2>3. K - 1 - 1 + 1 = K - 1 /\ \A k \in 1 .. K - 1 : 1 + k - 1 = k
    BY <1>4
  <2>4. (IF 1 <= K - 1 THEN K - 1 - 1 + 1 ELSE 0) = K - 1
    BY <1>4
  <2>5. dirs' = SubSeq(dirs, 1, K - 1)
    BY <1>1, <1>3 DEF Front
  <2>6. dirs' \in Seq(Frame) /\ Len(dirs') = K - 1
    BY <2>2, <2>4, <2>5
  <2>7. DOMAIN dirs' = 1 .. K - 1
    BY <2>6, LenProperties
  <2> QED
    BY <2>2, <2>3, <2>5, <2>6, <2>7
<1>6. 1 .. K = 1 .. K - 1 \cup {K}
  BY <1>4
<1>7. /\ TreesAreSound' = TreesAreSound
      /\ \A m : Steady(m)' => Steady(m)
      /\ \A m : Difference(m)' = Difference(m)
      /\ \A g : FrameIsRight(g) => FrameIsRight(g)'
  BY <1>1, Still, FrameStill
<1>8. ModeIsRight'
  BY <1>1, <1>2, <1>5 DEF ModeIsRight
<1>9. DirsAreRight'
  <2>1. ASSUME NEW k \in DOMAIN dirs'
        PROVE  /\ FrameIsRight(dirs[k])'
               /\ \A j \in 1 .. k - 1 : Inside(dirs[j], dirs[k].name)'
    <3>1. k \in DOMAIN dirs /\ dirs'[k] = dirs[k] /\ \A j \in 1 .. k - 1 : dirs'[j] = dirs[j]
      BY <1>4, <1>5
    <3>2. FrameIsRight(dirs[k]) /\ \A j \in 1 .. k - 1 : Inside(dirs[j], dirs[k].name)
      BY <1>2, <3>1 DEF DirsAreRight
    <3> QED
      BY <1>7, <3>1, <3>2
  <2> QED
    BY <2>1 DEF DirsAreRight
<1>10. EnterIsRight'
  BY <1>1 DEF EnterIsRight
<1>11. RulesAreChecked'
  <2>1. ASSUME NEW v \in report'
        PROVE  VerdictIsRight(v)'
    <3>1. VerdictIsRight(v)
      BY <1>1, <1>2 DEF RulesAreChecked
    <3>2. \A k \in DOMAIN dirs' : k \in DOMAIN dirs /\ dirs'[k] = dirs[k]
      BY <1>4, <1>5, <1>6
    <3> QED
      BY <1>1, <1>7, <3>1, <3>2 DEF VerdictIsRight
  <2>2. ASSUME NEW m \in FCOName, NEW i \in DOMAIN Rules, Steady(m), Walked(Rules[i], m)
        PROVE  /\ i < rule => Judged(i, m)'
               /\ i = rule => Judged(i, m)' \/ Pending(m)'
    <3>1. Judged(i, m) => Judged(i, m)'
      BY <1>1, <1>7 DEF Judged
    <3>2. /\ i < rule => Judged(i, m)
          /\ i = rule => Judged(i, m) \/ Pending(m)
      BY <1>1, <1>2, <2>2 DEF RulesAreChecked
    <3>3. ASSUME Pending(m)
          PROVE  Pending(m)'
      <4>1. PICK k \in DOMAIN dirs : Ahead(dirs[k], m)
        BY <1>1, <3>3 DEF Pending
      <4>2. k # K
        BY <1>1, <1>4, <4>1 DEF Ahead
      <4>3. k \in DOMAIN dirs' /\ dirs'[k] = dirs[k]
        BY <1>4, <1>5, <1>6, <4>2
      <4> QED
        BY <4>1, <4>3 DEF Pending
    <3> QED
      BY <3>1, <3>2, <3>3
  <2> QED
    BY <1>1, <1>7, <2>1, <2>2 DEF RulesAreChecked
<1> QED
  BY <1>1, <1>2, <1>7, <1>8, <1>9, <1>10, <1>11
     DEF IInv, ObjectsAreChecked, OneVerdictEach

\* Beyond the end, nothing is promised but that the report so far is right.
LEMMA PastEndKeeps ==
  ASSUME IInv, ReadPastEnd
  PROVE  IInv'
<1>1. /\ mode = "walking" /\ mode' = "undefined"
      /\ UNCHANGED <<objects, left, fs, db, rule, dirs, enter, report, touched, passed>>
  BY DEF ReadPastEnd, Walking
<1>2. /\ ModeIsRight /\ RulesAreChecked /\ DirsAreRight /\ EnterIsRight
      /\ objects = << >> /\ left = << >>
  BY <1>1 DEF IInv, ModeIsRight
<1>3. /\ TreesAreSound' = TreesAreSound
      /\ \A m : Steady(m)' => Steady(m)
      /\ \A m : Difference(m)' = Difference(m)
      /\ \A d : SteadyBelow(d)' \subseteq SteadyBelow(d)
      /\ \A d : Names(db, d)' = Names(db, d)
      /\ \A g : FrameIsRight(g) => FrameIsRight(g)'
  BY <1>1, Still, FrameStill
<1>4. ModeIsRight'
  BY <1>1, <1>2 DEF ModeIsRight
<1>5. DirsAreRight'
  BY <1>1, <1>2, <1>3 DEF DirsAreRight
<1>6. EnterIsRight'
  <2> PICK d : d = enter.name
    OBVIOUS
  <2>1. /\ Names(db, d)' = Names(db, d)
        /\ SteadyBelow(d)' \subseteq SteadyBelow(d)
    BY <1>3
  <2>2. enter' # Nowhere => enter'.db \/ Names(db, d)' = {}
    BY <1>1, <1>2, <2>1 DEF EnterIsRight
  <2>3. enter' # Nowhere => enter'.os \/ SteadyBelow(d)' = {}
    BY <1>1, <1>2, <2>1 DEF EnterIsRight
  <2>4. d = enter'.name
    BY <1>1
  <2> QED
    BY <1>1, <1>2, <2>2, <2>3, <2>4 DEF EnterIsRight
<1>7. RulesAreChecked'
  <2>1. ASSUME NEW v \in report'
        PROVE  VerdictIsRight(v)'
    <3>1. VerdictIsRight(v)
      BY <1>1, <1>2 DEF RulesAreChecked
    <3> QED
      BY <1>1, <1>3, <3>1 DEF VerdictIsRight
  <2>2. \A i, m : Judged(i, m) => Judged(i, m)'
    BY <1>1, <1>3 DEF Judged
  <2>3. ASSUME NEW m \in FCOName, NEW i \in DOMAIN Rules, Steady(m), Walked(Rules[i], m), i < rule
        PROVE  Judged(i, m)'
    BY <1>2, <2>2, <2>3 DEF RulesAreChecked
  <2> QED
    BY <1>1, <1>3, <2>1, <2>3 DEF RulesAreChecked
<1> QED
  BY <1>1, <1>2, <1>3, <1>4, <1>5, <1>6, <1>7
     DEF IInv, ObjectsAreChecked, OneVerdictEach

\* When the walk of a rule is over, nothing of it is to come.
LEMMA NextRuleKeeps ==
  ASSUME IInv, NextRule
  PROVE  IInv'
<1>1. /\ mode = "walking" /\ enter = Nowhere /\ dirs = << >>
      /\ rule' = rule + 1
      /\ mode' = IF rule < Len(Rules) THEN "between" ELSE "done"
      /\ UNCHANGED <<objects, left, fs, db, dirs, enter, report, touched, passed>>
  BY DEF NextRule, Walking
<1>2. /\ ModeIsRight /\ RulesAreChecked
      /\ objects = << >> /\ left = << >> /\ rule \in DOMAIN Rules
  BY <1>1 DEF IInv, ModeIsRight
<1>3. Len(Rules) \in Nat /\ DOMAIN Rules = 1 .. Len(Rules)
  BY RulesAreRules, LenProperties
<1>4. /\ TreesAreSound' = TreesAreSound
      /\ \A m : Steady(m)' => Steady(m)
      /\ \A m : Difference(m)' = Difference(m)
  BY <1>1, Still
<1>5. ModeIsRight'
  BY <1>1, <1>2, <1>3 DEF ModeIsRight
<1>6. DOMAIN dirs = {} /\ DOMAIN dirs' = {}
  BY <1>1
<1>7. DirsAreRight' /\ EnterIsRight'
  BY <1>1, <1>6 DEF DirsAreRight, EnterIsRight
<1>8. RulesAreChecked'
  <2>1. ASSUME NEW v \in report'
        PROVE  VerdictIsRight(v)'
    <3>1. VerdictIsRight(v) /\ v.rule \in DOMAIN Rules
      BY <1>1, <1>2 DEF RulesAreChecked, IInv, ReportType
    <3>2. v.rule <= rule' /\ v.rule # rule'
      BY <1>1, <1>2, <1>3, <3>1 DEF VerdictIsRight
    <3> QED
      BY <1>4, <3>1, <3>2 DEF VerdictIsRight
  <2>2. \A i, m : Judged(i, m) => Judged(i, m)'
    BY <1>1, <1>4 DEF Judged
  <2>3. ASSUME NEW m \in FCOName, NEW i \in DOMAIN Rules, Steady(m), Walked(Rules[i], m), i < rule'
        PROVE  Judged(i, m)'
    <3>1. i < rule \/ i = rule
      BY <1>1, <1>2, <1>3, <2>3
    <3>2. ~Pending(m)
      BY <1>1, <1>6 DEF Pending
    <3> QED
      BY <1>1, <1>2, <2>2, <2>3, <3>1, <3>2 DEF RulesAreChecked
  <2>4. mode' # "walking"
    BY <1>1
  <2> QED
    BY <1>4, <2>1, <2>3, <2>4 DEF RulesAreChecked
<1> QED
  BY <1>1, <1>2, <1>4, <1>5, <1>7, <1>8
     DEF IInv, ObjectsAreChecked, OneVerdictEach

-----------------------------------------------------------------------------
(* So do the check of a named object, and every change to the file system  *)

\* The rule an object is checked under is the one that contains it.
LEMMA TheRuleFor ==
  ASSUME NEW n \in FCOName
  PROVE  RuleFor(n) = {i \in DOMAIN Rules : ContainsFCO(Rules[i], n)}
<1>1. \A i \in DOMAIN Rules : i \in Nat
  BY RulesAreRules, LenProperties
<1>2. \A i, j \in DOMAIN Rules :
        ContainsFCO(Rules[i], n) /\ ContainsFCO(Rules[j], n) => i <= j
  BY <1>1, RulesAreDisjoint
<1> QED
  BY <1>2 DEF RuleFor

NamedVerdict(i, n) == [rule |-> i, kind |-> "changed", name |-> n]

LEMMA ObjectIsChecked ==
  ASSUME IInv, CheckObject, NEW n, n = Head(left)
  PROVE  /\ n \in FCOName
         /\ report \subseteq report'
         /\ \A v \in report' \ report : \E i \in DOMAIN Rules :
              ContainsFCO(Rules[i], n) /\ Differs(n) /\ v = NamedVerdict(i, n)
         /\ \A i \in DOMAIN Rules :
              ContainsFCO(Rules[i], n) /\ Differs(n) => NamedVerdict(i, n) \in report'
<1>1. n \in FCOName
  BY ListStep DEF IInv, ObjectsAreChecked, CheckObject
<1>2. report' = report \cup
        {[rule |-> i, kind |-> "changed", name |-> n] :
           i \in {j \in RuleFor(n) : HasFCOData(n) /\ n \in DOMAIN fs /\ fs[n] # db[n]}}
  BY DEF CheckObject
<1>3. (HasFCOData(n) /\ n \in DOMAIN fs /\ fs[n] # db[n]) <=> Differs(n)
  BY DEF HasFCOData, Differs
<1>4. RuleFor(n) = {i \in DOMAIN Rules : ContainsFCO(Rules[i], n)}
  BY <1>1, TheRuleFor
<1>5. report' = report \cup
        {NamedVerdict(i, n) : i \in {j \in RuleFor(n) : Differs(n)}}
  BY <1>2, <1>3 DEF NamedVerdict
<1> QED
  BY <1>1, <1>4, <1>5

LEMMA ObjectKeeps ==
  ASSUME IInv, CheckObject
  PROVE  IInv'
<1>1. PICK n : n = Head(left)
  OBVIOUS
<1>2. /\ mode = "objects" /\ left # << >> /\ left' = Tail(left)
      /\ mode' = IF left' = << >> THEN "done" ELSE "objects"
      /\ UNCHANGED <<objects, fs, db, rule, dirs, enter, touched, passed>>
  BY DEF CheckObject
<1>3. /\ ModeIsRight /\ objects # << >>
      /\ dirs = << >> /\ enter = Nowhere
  BY <1>2 DEF IInv, ModeIsRight
<1>4. /\ objects \in ObjectLists
      /\ left \in Seq(FCOName) /\ Len(left) <= Len(objects)
      /\ left = SubSeq(objects, Len(objects) - Len(left) + 1, Len(objects))
      /\ \A v \in report : /\ Compared(v.name)
                           /\ v.kind = "changed"
                           /\ ContainsFCO(Rules[v.rule], v.name)
      /\ \A m \in FCOName, i \in DOMAIN Rules :
           Compared(m) /\ ContainsFCO(Rules[i], m) /\ Undisturbed(m)
             => (NamedVerdict(i, m) \in report <=> Differs(m))
  BY <1>3 DEF IInv, ObjectsAreChecked, NamedVerdict
<1>5. /\ n \in FCOName
      /\ report \subseteq report'
      /\ \A v \in report' \ report : \E i \in DOMAIN Rules :
           ContainsFCO(Rules[i], n) /\ Differs(n) /\ v = NamedVerdict(i, n)
      /\ \A i \in DOMAIN Rules :
           ContainsFCO(Rules[i], n) /\ Differs(n) => NamedVerdict(i, n) \in report'
  BY <1>1, ObjectIsChecked
<1>6. left' \in Seq(FCOName)
  BY <1>1, <1>2, <1>4, ListStep
<1>7. /\ TreesAreSound' = TreesAreSound
      /\ \A m : Undisturbed(m)' = Undisturbed(m)
      /\ \A m : Differs(m)' = Differs(m)
  BY <1>2, Still
<1>8. /\ Len(left') <= Len(objects)
      /\ left' = SubSeq(objects, Len(objects) - Len(left') + 1, Len(objects))
      /\ \A m : Compared(m)' <=> Compared(m) \/ m = n
  <2>1. /\ objects \in Seq(FCOName) /\ Len(objects) \in Nat /\ Len(left) \in Nat \ {0}
        /\ Len(left') = Len(left) - 1
    BY <1>2, <1>4, ListsAreLists, LenProperties, EmptySeq, HeadTailProperties
  <2>2. PICK a : a = Len(objects) - Len(left) + 1
    OBVIOUS
  <2>3. a \in 1 .. Len(objects) /\ Len(objects) \in a .. Len(objects)
    BY <1>4, <2>1, <2>2
  <2>4. /\ Tail(SubSeq(objects, a, Len(objects))) = SubSeq(objects, a + 1, Len(objects))
        /\ Head(SubSeq(objects, a, Len(objects))) = objects[a]
    BY <2>1, <2>3, HeadTailOfSubSeq
  <2>5. a + 1 = Len(objects) - Len(left') + 1
    BY <2>1, <2>2
  <2>6. Len(left') <= Len(objects)
    BY <1>4, <2>1
  <2>7. n = objects[a]
    BY <1>1, <1>4, <2>2, <2>4
  <2>8. /\ Len(objects) - Len(left) = a - 1
        /\ Len(objects) - Len(left') = a
    BY <2>1, <2>2
  <2>9. \A k : k \in 1 .. a <=> k \in 1 .. a - 1 \/ k = a
    BY <2>1, <2>3
  <2>10. \A m : Compared(m)' <=> Compared(m) \/ m = n
    <3>1. \A m : Compared(m) <=> \E k \in 1 .. a - 1 : objects[k] = m
      BY <2>8 DEF Compared
    <3>2. \A m : Compared(m)' <=> \E k \in 1 .. a : objects[k] = m
      BY <1>2, <2>8 DEF Compared
    <3> QED
      BY <2>7, <2>9, <3>1, <3>2
  <2> QED
    BY <1>2, <1>4, <2>2, <2>4, <2>5, <2>6, <2>10
<1>9. ModeIsRight'
  BY <1>2, <1>3 DEF ModeIsRight
<1>10. DirsAreRight' /\ EnterIsRight'
  BY <1>2, <1>3 DEF DirsAreRight, EnterIsRight
<1>11. report' \subseteq ReportType
  <2>1. report \subseteq ReportType
    BY DEF IInv
  <2>2. \A i \in DOMAIN Rules : NamedVerdict(i, n) \in ReportType
    BY <1>5 DEF NamedVerdict, ReportType
  <2> QED
    BY <1>5, <2>1, <2>2
<1>12. \A i, m : NamedVerdict(i, m).name = m /\ NamedVerdict(i, m).kind = "changed"
                 /\ NamedVerdict(i, m).rule = i
  BY DEF NamedVerdict
<1>13. \A v \in report' \ report : /\ v.name = n /\ v.kind = "changed" /\ Differs(n)
                                   /\ ContainsFCO(Rules[v.rule], n)
  BY <1>5, <1>12
<1>14. ASSUME NEW v \in report', v.name = n
       PROVE  /\ v = NamedVerdict(v.rule, n) /\ v.rule \in DOMAIN Rules
              /\ ContainsFCO(Rules[v.rule], n)
  <2>1. v \in ReportType /\ v.kind = "changed" /\ ContainsFCO(Rules[v.rule], n)
    BY <1>4, <1>11, <1>13, <1>14
  <2> QED
    BY <1>14, <2>1 DEF ReportType, NamedVerdict
<1>15. OneVerdictEach'
  <2>1. ASSUME NEW v \in report', NEW w \in report', v.name = w.name
        PROVE  v = w
    <3>1. CASE v \in report /\ w \in report
      BY <2>1, <3>1 DEF IInv, OneVerdictEach
    <3>2. CASE v \notin report \/ w \notin report
      <4>1. v.name = n /\ w.name = n
        BY <1>13, <2>1, <3>2
      <4>2. v.rule = w.rule
        BY <1>5, <1>14, <4>1, RulesAreDisjoint
      <4> QED
        BY <1>14, <4>1, <4>2
    <3> QED
      BY <3>1, <3>2
  <2> QED
    BY <2>1 DEF OneVerdictEach
<1>16. ObjectsAreChecked'
  <2>1. ASSUME NEW v \in report'
        PROVE  /\ Compared(v.name)'
               /\ v.kind = "changed"
               /\ ContainsFCO(Rules[v.rule], v.name)
    BY <1>4, <1>8, <1>13
  <2>2. ASSUME NEW m \in FCOName, NEW i \in DOMAIN Rules, Compared(m)',
               ContainsFCO(Rules[i], m), Undisturbed(m)
        PROVE  NamedVerdict(i, m) \in report' <=> Differs(m)
    <3>1. CASE Compared(m)
      <4>1. NamedVerdict(i, m) \in report <=> Differs(m)
        BY <1>4, <2>2, <3>1
      <4>2. NamedVerdict(i, m) \in report' \ report => m = n /\ Differs(n)
        BY <1>12, <1>13
      <4> QED
        BY <1>5, <4>1, <4>2
    <3>2. CASE ~Compared(m)
      <4>1. m = n /\ NamedVerdict(i, m) \notin report
        BY <1>4, <1>8, <1>12, <2>2, <3>2
      <4> QED
        BY <1>5, <1>13, <2>2, <4>1
    <3> QED
      BY <3>1, <3>2
  <2>3. \A m \in FCOName, i \in DOMAIN Rules :
          Compared(m)' /\ ContainsFCO(Rules[i], m) /\ Undisturbed(m)'
            => ([rule |-> i, kind |-> "changed", name |-> m] \in report' <=> Differs(m)')
    BY <1>7, <2>2 DEF NamedVerdict
  <2> QED
    BY <1>2, <1>3, <1>4, <1>6, <1>8, <2>1, <2>3 DEF ObjectsAreChecked
<1> QED
  BY <1>2, <1>3, <1>7, <1>9, <1>10, <1>11, <1>15, <1>16
     DEF IInv, RulesAreChecked

\* A change at one name leaves alone what is not at or below it.
ChangedAt(n) ==
  /\ touched' = touched \cup {n}
  /\ UNCHANGED <<db, walk>>
  /\ \A m \in FCOName : ~AtOrBelow(m, n) => /\ m \in DOMAIN fs' <=> m \in DOMAIN fs
                                            /\ m \in DOMAIN fs => fs'[m] = fs[m]

LEMMA ChangesSay ==
  ASSUME TreesAreSound, NEW n \in FCOName, ChangedAt(n)
  PROVE  /\ \A m \in FCOName : Undisturbed(m)' =>
              /\ Undisturbed(m)
              /\ m \in DOMAIN fs' <=> m \in DOMAIN fs
              /\ Differs(m)' <=> Differs(m)
              /\ Difference(m)' = Difference(m)
         /\ \A m \in FCOName : Steady(m)' => Steady(m)
<1>1. /\ touched' = touched \cup {n} /\ UNCHANGED <<db, walk>>
      /\ \A m \in FCOName : ~AtOrBelow(m, n) => /\ m \in DOMAIN fs' <=> m \in DOMAIN fs
                                                /\ m \in DOMAIN fs => fs'[m] = fs[m]
  BY DEF ChangedAt
<1>2. ASSUME NEW m \in FCOName, Undisturbed(m)'
      PROVE  /\ Undisturbed(m) /\ ~AtOrBelow(m, n)
             /\ m \in DOMAIN fs' <=> m \in DOMAIN fs
             /\ m \in DOMAIN fs => fs'[m] = fs[m]
  <2>1. Undisturbed(m) /\ ~AtOrBelow(m, n)
    BY <1>1, <1>2 DEF Undisturbed
  <2> QED
    BY <1>1, <2>1
<1>3. ASSUME NEW m \in FCOName, Undisturbed(m)'
      PROVE  /\ Differs(m)' <=> Differs(m)
             /\ Difference(m)' = Difference(m)
  <2>1. /\ Readable(m)' <=> Readable(m)
        /\ HasFCOData(m)' <=> HasFCOData(m)
    BY <1>1, <1>2, <1>3 DEF Readable, HasFCOData
  <2>2. m \in DOMAIN fs => fs'[m] = fs[m]
    BY <1>2, <1>3
  <2>3. Readable(m) => m \in DOMAIN fs
    BY DEF Readable
  <2>4. /\ Readable(m)' /\ HasFCOData(m)' /\ fs'[m] # db'[m] => Difference(m)' = {"changed"}
        /\ Readable(m)' /\ HasFCOData(m)' /\ fs'[m] = db'[m] => Difference(m)' = {}
        /\ Readable(m)' /\ ~HasFCOData(m)' => Difference(m)' = {"added"}
        /\ ~Readable(m)' /\ HasFCOData(m)' => Difference(m)' = {"removed"}
        /\ ~Readable(m)' /\ ~HasFCOData(m)' => Difference(m)' = {}
    BY DEF Difference
  <2>5. Difference(m)' = Difference(m)
    BY <1>1, <2>1, <2>2, <2>3, <2>4, Differences
  <2>6. Differs(m)' <=> Differs(m)
    BY <1>1, <1>2, <1>3 DEF Differs
  <2> QED
    BY <2>5, <2>6
<1>4. \A m : Skipped(m)' <=> Skipped(m)
  BY <1>1 DEF Skipped, walk
<1> QED
  BY <1>2, <1>3, <1>4 DEF Steady

LEMMA ChangeKeeps ==
  ASSUME IInv, NEW n \in FCOName, ChangedAt(n), TreesAreSound'
  PROVE  IInv'
<1>1. /\ UNCHANGED <<objects, left, rule, dirs, enter, report, mode, passed>>
      /\ db' = db
  BY DEF ChangedAt, walk
<1>2. /\ TreesAreSound /\ ModeIsRight /\ DirsAreRight /\ EnterIsRight
      /\ RulesAreChecked /\ ObjectsAreChecked
      /\ report \subseteq ReportType /\ OneVerdictEach
      /\ objects = << >> => left = << >>
  BY DEF IInv
<1>3. /\ \A m \in FCOName : Undisturbed(m)' =>
           /\ Undisturbed(m)
           /\ m \in DOMAIN fs' <=> m \in DOMAIN fs
           /\ Differs(m)' <=> Differs(m)
           /\ Difference(m)' = Difference(m)
      /\ \A m \in FCOName : Steady(m)' => Steady(m)
  BY <1>2, ChangesSay
<1>4. \A m : Steady(m)' => Undisturbed(m)'
  BY DEF Steady
<1>5. \A d : SteadyBelow(d)' \subseteq SteadyBelow(d)
  <2>1. DOMAIN fs' \subseteq FCOName
    BY DEF TreesAreSound
  <2> QED
    BY <1>1, <1>3, <1>4, <2>1 DEF SteadyBelow
<1>6. \A d : Names(db, d)' = Names(db, d)
  BY <1>1 DEF Names
<1>7. ModeIsRight'
  BY <1>1, <1>2 DEF ModeIsRight
<1>8. ASSUME NEW f, FrameIsRight(f)
      PROVE  FrameIsRight(f)'
  <2>1. /\ Walked(Rules[rule], f.name)
        /\ f.db \subseteq Names(db, f.name)
        /\ \A c \in Open(f) : c \in Nat /\ Append(f.name, c) \in FCOName
        /\ \A c \in f.os : Append(f.name, c) \in DOMAIN fs \/ ~Undisturbed(Append(f.name, c))
        /\ \A c \in Names(db, f.name) \ f.db, x \in Open(f) : c < x
        /\ \A m \in SteadyBelow(f.name), x \in Open(f) :
             Child(f.name, m) \in f.os \/ Child(f.name, m) < x
    BY <1>8 DEF FrameIsRight
  <2>2. ASSUME NEW c \in f.os
        PROVE  Append(f.name, c) \in DOMAIN fs' \/ ~Undisturbed(Append(f.name, c))'
    <3>1. PICK m : m = Append(f.name, c)
      OBVIOUS
    <3>2. m \in FCOName /\ (m \in DOMAIN fs \/ ~Undisturbed(m))
      BY <2>1, <3>1 DEF Open
    <3>3. m \in DOMAIN fs' \/ ~Undisturbed(m)'
      BY <1>3, <3>2
    <3> QED
      BY <3>1, <3>3
  <2>3. \A m \in SteadyBelow(f.name)', x \in Open(f) :
          Child(f.name, m) \in f.os \/ Child(f.name, m) < x
    BY <1>5, <2>1
  <2> QED
    BY <1>1, <1>6, <2>1, <2>2, <2>3 DEF FrameIsRight
<1>9. DirsAreRight'
  BY <1>1, <1>2, <1>8 DEF DirsAreRight
<1>10. EnterIsRight'
  <2> PICK d : d = enter.name
    OBVIOUS
  <2>1. enter' # Nowhere => enter'.db \/ Names(db, d)' = {}
    BY <1>1, <1>2, <1>6 DEF EnterIsRight
  <2>2. enter' # Nowhere => enter'.os \/ SteadyBelow(d)' = {}
    BY <1>1, <1>2, <1>5 DEF EnterIsRight
  <2>3. d = enter'.name
    BY <1>1
  <2> QED
    BY <1>1, <1>2, <2>1, <2>2, <2>3 DEF EnterIsRight
<1>11. RulesAreChecked'
  <2>1. ASSUME objects = << >>, NEW v \in report'
        PROVE  VerdictIsRight(v)'
    <3>1. VerdictIsRight(v) /\ v.name \in FCOName
      BY <1>1, <1>2, <2>1 DEF RulesAreChecked, ReportType
    <3>2. Steady(v.name)' => v.kind \in Difference(v.name)'
      BY <1>3, <1>4, <3>1 DEF VerdictIsRight
    <3> QED
      BY <1>1, <3>1, <3>2 DEF VerdictIsRight
  <2>2. ASSUME objects = << >>, NEW m \in FCOName, NEW i \in DOMAIN Rules,
               Steady(m)', Walked(Rules[i], m)
        PROVE  /\ i < rule => Judged(i, m)'
               /\ i = rule /\ mode = "walking" => Judged(i, m)' \/ Pending(m)'
    <3>1. Judged(i, m)' <=> Judged(i, m)
      <4>1. Difference(m)' = Difference(m)
        BY <1>3, <1>4, <2>2
      <4> QED
        BY <1>1, <4>1 DEF Judged
    <3>2. Pending(m)' <=> Pending(m)
      BY <1>1 DEF Pending
    <3>3. Steady(m)
      BY <1>3, <2>2
    <3> QED
      BY <1>2, <2>2, <3>1, <3>2, <3>3 DEF RulesAreChecked
  <2> QED
    BY <1>1, <2>1, <2>2 DEF RulesAreChecked
<1>12. ObjectsAreChecked'
  <2>1. \A m : Compared(m)' <=> Compared(m)
    BY <1>1, <1>2 DEF Compared
  <2>2. ASSUME objects # << >>, NEW m \in FCOName, NEW i \in DOMAIN Rules, Compared(m),
               ContainsFCO(Rules[i], m), Undisturbed(m)'
        PROVE  [rule |-> i, kind |-> "changed", name |-> m] \in report <=> Differs(m)'
    BY <1>2, <1>3, <2>2 DEF ObjectsAreChecked
  <2> QED
    BY <1>1, <1>2, <2>1, <2>2 DEF ObjectsAreChecked
<1>13. OneVerdictEach'
  BY <1>1, <1>2 DEF OneVerdictEach
<1> QED
  BY <1>1, <1>2, <1>7, <1>9, <1>10, <1>11, <1>12, <1>13 DEF IInv

LEMMA WriteKeeps ==
  ASSUME IInv, NEW n \in FCOName, NEW c \in Content, Write(n, c)
  PROVE  IInv'
<1>1. /\ n \in DOMAIN fs /\ fs[n] \in Content /\ fs' = [fs EXCEPT ![n] = c]
      /\ touched' = touched \cup {n} /\ UNCHANGED <<db, walk>>
  BY DEF Write, Change
<1>2. TreesAreSound
  BY DEF IInv
<1>3. /\ fs' \in [DOMAIN fs' -> Content \cup {Dir, Mount}]
      /\ DOMAIN fs' = DOMAIN fs
      /\ \A m \in DOMAIN fs : m # n => fs'[m] = fs[m]
  BY <1>1, <1>2 DEF TreesAreSound
<1>4. fs[n] # Dir
  BY <1>1, KindsDiffer
<1>5. TreesAreSound'
  BY <1>1, <1>2, <1>3, <1>4 DEF TreesAreSound
<1>6. ChangedAt(n)
  <2>1. AtOrBelow(n, n)
    BY AllNames, PrefixOrder
  <2> QED
    BY <1>1, <1>3, <2>1 DEF ChangedAt
<1> QED
  BY <1>5, <1>6, ChangeKeeps

LEMMA CreateKeeps ==
  ASSUME IInv, NEW n \in FCOName, NEW c \in Content \cup {Dir}, Create(n, c)
  PROVE  IInv'
<1>1. /\ n \notin DOMAIN fs
      /\ Len(n) > 1 => /\ SubSeq(n, 1, Len(n) - 1) \in DOMAIN fs
                       /\ fs[SubSeq(n, 1, Len(n) - 1)] = Dir
      /\ fs' = [m \in DOMAIN fs \cup {n} |-> IF m = n THEN c ELSE fs[m]]
      /\ touched' = touched \cup {n} /\ UNCHANGED <<db, walk>>
  BY DEF Create, Change
<1>2. TreesAreSound
  BY DEF IInv
<1>3. /\ fs' \in [DOMAIN fs' -> Content \cup {Dir, Mount}]
      /\ DOMAIN fs' = DOMAIN fs \cup {n}
      /\ \A m \in DOMAIN fs : fs'[m] = fs[m]
  BY <1>1, <1>2 DEF TreesAreSound
<1>4. ASSUME NEW m \in FCOName, Below(n, m)
      PROVE  m \in DOMAIN fs /\ fs[m] = Dir
  <2>1. n \in Seq(Nat) /\ m \in Seq(Nat) \ {<< >>}
    BY AllNames
  <2>2. Len(n) \in Nat /\ Len(m) \in Nat \ {0} /\ Len(m) < Len(n)
    BY <1>4, <2>1, LenProperties, EmptySeq, FirstPart
  <2>3. PICK p : p = SubSeq(n, 1, Len(n) - 1)
    OBVIOUS
  <2>4. p \in DOMAIN fs /\ fs[p] = Dir
    BY <1>1, <2>2, <2>3
  <2>5. Len(n) - 1 \in 1 .. Len(n) /\ Len(m) <= Len(n) - 1
    BY <2>2
  <2>6. p \in Seq(Nat) /\ Len(p) = Len(n) - 1 /\ AtOrBelow(n, p)
    BY <2>1, <2>3, <2>5, FirstParts
  <2>7. ~Below(m, p)
    BY <2>1, <2>2, <2>5, <2>6, FirstPart
  <2>8. AtOrBelow(p, m)
    BY <1>4, <2>1, <2>6, <2>7, PrefixOrder
  <2>9. m = p \/ Below(p, m)
    BY <2>1, <2>6, <2>8, PrefixOrder
  <2> QED
    BY <1>2, <2>4, <2>9 DEF TreesAreSound
<1>5. TreesAreSound'
  <2>1. ASSUME NEW m \in DOMAIN fs', NEW k \in FCOName, Below(m, k)
        PROVE  k \in DOMAIN fs' /\ fs'[k] = Dir
    <3>1. k \in DOMAIN fs /\ fs[k] = Dir
      BY <1>2, <1>3, <1>4, <2>1 DEF TreesAreSound
    <3> QED
      BY <1>3, <3>1
  <2> QED
    BY <1>1, <1>2, <1>3, <2>1 DEF TreesAreSound
<1>6. ChangedAt(n)
  <2>1. AtOrBelow(n, n)
    BY AllNames, PrefixOrder
  <2> QED
    BY <1>1, <1>3, <2>1 DEF ChangedAt
<1> QED
  BY <1>5, <1>6, ChangeKeeps

LEMMA UnlinkKeeps ==
  ASSUME IInv, NEW n \in FCOName, Unlink(n)
  PROVE  IInv'
<1>1. /\ fs' = [m \in {k \in DOMAIN fs : ~AtOrBelow(k, n)} |-> fs[m]]
      /\ touched' = touched \cup {n} /\ UNCHANGED <<db, walk>>
  BY DEF Unlink, Change
<1>2. TreesAreSound
  BY DEF IInv
<1>3. /\ fs' \in [DOMAIN fs' -> Content \cup {Dir, Mount}]
      /\ DOMAIN fs' = {k \in DOMAIN fs : ~AtOrBelow(k, n)}
      /\ \A m \in DOMAIN fs' : fs'[m] = fs[m]
  BY <1>1, <1>2 DEF TreesAreSound
<1>4. TreesAreSound'
  <2>1. ASSUME NEW m \in DOMAIN fs', NEW k \in FCOName, Below(m, k)
        PROVE  k \in DOMAIN fs' /\ fs'[k] = Dir
    <3>1. m \in DOMAIN fs /\ ~AtOrBelow(m, n) /\ m \in FCOName
      BY <1>2, <1>3 DEF TreesAreSound
    <3>2. k \in DOMAIN fs /\ fs[k] = Dir
      BY <1>2, <2>1, <3>1 DEF TreesAreSound
    <3>3. ~AtOrBelow(k, n)
      BY <2>1, <3>1, AllNames, PrefixOrder
    <3> QED
      BY <1>3, <3>2, <3>3
  <2> QED
    BY <1>1, <1>2, <1>3, <2>1 DEF TreesAreSound
<1>5. ChangedAt(n)
  BY <1>1, <1>3 DEF ChangedAt
<1> QED
  BY <1>4, <1>5, ChangeKeeps

-----------------------------------------------------------------------------
(* The theorems                                                            *)

LEMMA RuleNumbers == Len(Rules) \in Nat /\ DOMAIN Rules = 1 .. Len(Rules)
  BY RulesAreRules, LenProperties

\* A list of names begins at its first one.
LEMMA WholeList ==
  ASSUME NEW S, NEW s \in Seq(S)
  PROVE  s = SubSeq(s, Len(s) - Len(s) + 1, Len(s))
<1>1. Len(s) \in Nat /\ Len(s) - Len(s) + 1 = 1
  BY LenProperties
<1>2. \A i \in 1 .. Len(s) : s[i] \in S
  BY ElementOfSeq
<1>3. PICK p : p = SubSeq(s, 1, Len(s))
  OBVIOUS
<1>4. /\ p \in Seq(S)
      /\ Len(p) = Len(s)
      /\ \A i \in 1 .. Len(s) : p[i] = s[i]
  BY <1>1, <1>2, <1>3, SubSeqProperties
<1>5. p = s
  BY <1>4, SeqEqual
<1> QED
  BY <1>1, <1>3, <1>5

LEMMA InitIsRight == Init => IInv
<1> SUFFICES ASSUME Init
             PROVE  IInv
  OBVIOUS
<1>1. /\ fs \in InitialFs /\ db \in InitialDb /\ left = objects
      /\ objects \in {<< >>} \cup ObjectLists
      /\ rule = 1 /\ dirs = << >> /\ enter = Nowhere /\ report = {} /\ touched = {}
      /\ passed = {}
      /\ mode = IF objects = << >> THEN "between" ELSE "objects"
  BY DEF Init
<1>2. TreesAreSound
  BY <1>1, AllNames, FileSystems DEF TreesAreSound
<1>3. ModeIsRight
  BY <1>1, RuleNumbers DEF ModeIsRight, Nowhere
<1>4. RulesAreChecked
  BY <1>1, RuleNumbers DEF RulesAreChecked
<1>5. ObjectsAreChecked
  <2> SUFFICES ASSUME objects # << >>
               PROVE  /\ objects \in Seq(FCOName)
                      /\ \A n : ~Compared(n)
                      /\ Len(objects) <= Len(objects)
                      /\ objects = SubSeq(objects, Len(objects) - Len(objects) + 1, Len(objects))
    BY <1>1 DEF ObjectsAreChecked
  <2>1. objects \in Seq(FCOName)
    BY <1>1, ListsAreLists
  <2>2. Len(objects) \in Nat
    BY <2>1, LenProperties
  <2>3. \A n : ~Compared(n)
    BY <1>1, <2>2 DEF Compared
  <2> QED
    BY <2>1, <2>2, <2>3, WholeList
<1>6. DirsAreRight /\ EnterIsRight /\ OneVerdictEach
  BY <1>1 DEF DirsAreRight, EnterIsRight, OneVerdictEach
<1> QED
  BY <1>1, <1>2, <1>3, <1>4, <1>5, <1>6 DEF IInv

LEMMA IdleKeeps ==
  ASSUME IInv, UNCHANGED vars
  PROVE  IInv'
<1>1. UNCHANGED <<fs, db, touched, passed, objects, left, rule, dirs, enter, report, mode>>
  BY DEF vars, walk
<1>2. /\ TreesAreSound' = TreesAreSound
      /\ \A n : Undisturbed(n)' = Undisturbed(n)
      /\ \A n : Steady(n)' => Steady(n)
      /\ \A n : Difference(n)' = Difference(n)
      /\ \A n : Differs(n)' = Differs(n)
      /\ \A d : SteadyBelow(d)' \subseteq SteadyBelow(d)
      /\ \A d : Names(db, d)' = Names(db, d)
  BY <1>1, Still
<1>3. \A f : FrameIsRight(f) => FrameIsRight(f)'
  BY <1>1, FrameStill
<1>4. DirsAreRight' /\ ModeIsRight'
  BY <1>1, <1>3 DEF IInv, DirsAreRight, ModeIsRight
<1>5. EnterIsRight'
  <2> PICK d : d = enter.name
    OBVIOUS
  <2>1. enter' # Nowhere => enter'.db \/ Names(db, d)' = {}
    BY <1>1, <1>2 DEF IInv, EnterIsRight
  <2>2. enter' # Nowhere => enter'.os \/ SteadyBelow(d)' = {}
    BY <1>1, <1>2 DEF IInv, EnterIsRight
  <2>3. d = enter'.name
    BY <1>1
  <2> QED
    BY <1>1, <2>1, <2>2, <2>3 DEF IInv, EnterIsRight
<1>6. RulesAreChecked'
  <2>1. \A v : VerdictIsRight(v) => VerdictIsRight(v)'
    BY <1>1, <1>2 DEF VerdictIsRight
  <2>2. \A i, n : Judged(i, n)' = Judged(i, n) /\ Pending(n)' = Pending(n)
    BY <1>1, <1>2 DEF Judged, Pending
  <2> QED
    BY <1>1, <1>2, <2>1, <2>2 DEF IInv, RulesAreChecked
<1>7. ObjectsAreChecked'
  BY <1>1, <1>2 DEF IInv, ObjectsAreChecked, Compared
<1> QED
  BY <1>1, <1>2, <1>4, <1>5, <1>6, <1>7 DEF IInv, OneVerdictEach

\* Wherever the walk is and whatever has changed on the disk meanwhile, each
\* undisturbed object of the policy is judged right, or is still to come
\* (cIntegrityCheck::Execute and ExecuteOnObjectList).
THEOREM InductiveInvariant == Spec => []IInv
<1>1. ASSUME IInv, [Next]_vars
      PROVE  IInv'
  <2>1. CASE Step
    BY <1>1, <2>1, StartKeeps, ObjectKeeps, EnterKeeps, SkipKeeps, ScanAddedKeeps,
       ScanRemovedKeeps, ScanBothKeeps, ScanVanishedKeeps, PastEndKeeps, LeaveKeeps,
       NextRuleKeeps
       DEF Step
  <2>2. CASE \E n \in FCOName, c \in Content : Write(n, c)
    BY <1>1, <2>2, WriteKeeps
  <2>3. CASE \E n \in FCOName, c \in Content \cup {Dir} : Create(n, c)
    BY <1>1, <2>3, CreateKeeps
  <2>4. CASE \E n \in FCOName : Unlink(n)
    BY <1>1, <2>4, UnlinkKeeps
  <2>5. CASE UNCHANGED vars
    BY <1>1, <2>5, IdleKeeps
  <2> QED
    BY <1>1, <2>1, <2>2, <2>3, <2>4, <2>5 DEF Next
<1> QED
  BY <1>1, InitIsRight, PTL DEF Spec

\* The walk, the report and the two trees keep their types, for any rules,
\* names and lists of objects.
THEOREM TypeCorrect == Spec => []TypeOK
<1>1. ASSUME IInv
      PROVE  TypeOK
  <2>1. /\ TreesAreSound /\ ModeIsRight /\ ObjectsAreChecked
        /\ report \subseteq ReportType /\ passed \subseteq PassedType
    BY <1>1 DEF IInv
  <2>2. left = SubSeq(objects, Len(objects) - Len(left) + 1, Len(objects))
    <3>1. CASE objects = << >>
      <4>1. left = << >>
        BY <1>1, <3>1 DEF IInv
      <4>2. << >> \in Seq(FCOName)
        BY EmptySeq
      <4> QED
        BY <3>1, <4>1, <4>2, WholeList
    <3>2. CASE objects # << >>
      BY <2>1, <3>2 DEF ObjectsAreChecked
    <3> QED
      BY <3>1, <3>2
  <2>3. \A i \in DOMAIN dirs : dirs[i] \in Frame
    BY <2>1, LenProperties, ElementOfSeq DEF ModeIsRight
  <2> QED
    BY <2>1, <2>2, <2>3
    DEF TypeOK, TreesAreSound, ModeIsRight, ReportType, PassedType, Frame
<1> QED
  BY <1>1, InductiveInvariant, PTL

\* When the check is done, each object that nobody changed is in the report as
\* it differs from the database, and in no other way; unless its rule moved
\* over it, or over a directory it is in, because the name just before had
\* vanished.
THEOREM StableJudgedRight == Spec => []StableObjectsJudgedRight
<1>1. ASSUME IInv
      PROVE  StableObjectsJudgedRight
  <2> SUFFICES ASSUME mode = "done", NEW n \in FCOName, Undisturbed(n)
               PROVE  IF objects # << >>
                      THEN {v \in report : v.name = n} = ExpectedOfNamed(n)
                      ELSE Skipped(n) \/ {v \in report : v.name = n} = Expected(n)
    BY DEF StableObjectsJudgedRight
  <2>1. /\ ModeIsRight /\ RulesAreChecked /\ ObjectsAreChecked
        /\ report \subseteq ReportType
    BY <1>1 DEF IInv
  <2>2. CASE objects # << >>
    <3>1. left = << >>
      BY <2>1, <2>2 DEF ModeIsRight
    <3>2. \A m : Compared(m) <=> m \in ToSet(objects)
      <4>1. objects \in Seq(FCOName)
        BY <2>1, <2>2, ListsAreLists DEF ObjectsAreChecked
      <4>2. Len(objects) \in Nat /\ DOMAIN objects = 1 .. Len(objects)
        BY <4>1, LenProperties
      <4>3. Len(objects) - Len(left) = Len(objects)
        BY <3>1, <4>2, EmptySeq
      <4> QED
        BY <4>2, <4>3 DEF Compared, ToSet
    <3>3. \A v \in report : /\ v \in ReportType
                            /\ v.name \in ToSet(objects)
                            /\ v.kind = "changed"
                            /\ ContainsFCO(Rules[v.rule], v.name)
      BY <2>1, <2>2, <3>2 DEF ObjectsAreChecked
    <3>4. \A m \in FCOName, i \in DOMAIN Rules :
            m \in ToSet(objects) /\ ContainsFCO(Rules[i], m) /\ Undisturbed(m)
              => ([rule |-> i, kind |-> "changed", name |-> m] \in report <=> Differs(m))
      BY <2>1, <2>2, <3>2 DEF ObjectsAreChecked
    <3>5. ASSUME NEW v \in report, v.name = n
          PROVE  v \in ExpectedOfNamed(n)
      <4>1. v = [rule |-> v.rule, kind |-> "changed", name |-> n] /\ v.rule \in DOMAIN Rules
        BY <3>3, <3>5 DEF ReportType
      <4>2. Differs(n)
        BY <3>3, <3>4, <3>5, <4>1
      <4> QED
        BY <3>3, <3>5, <4>1, <4>2 DEF ExpectedOfNamed, Differs
    <3>6. ASSUME NEW i \in DOMAIN Rules, n \in ToSet(objects), ContainsFCO(Rules[i], n),
                 Differs(n)
          PROVE  [rule |-> i, kind |-> "changed", name |-> n] \in report
      BY <3>4, <3>6
    <3>7. ExpectedOfNamed(n) \subseteq {v \in report : v.name = n}
      BY <3>6 DEF ExpectedOfNamed, Differs
    <3> QED
      BY <2>2, <3>5, <3>7
  <2>3. CASE objects = << >> /\ ~Skipped(n)
    <3>1. rule = Len(Rules) + 1 /\ Steady(n)
      BY <2>1, <2>3 DEF ModeIsRight, Steady
    <3>2. \A i \in DOMAIN Rules : i < rule
      BY <3>1, RuleNumbers
    <3>3. \A v \in report : v \in ReportType /\ VerdictIsRight(v)
      BY <2>1, <2>3 DEF RulesAreChecked
    <3>4. \A i \in DOMAIN Rules : Walked(Rules[i], n) => Judged(i, n)
      BY <2>1, <2>3, <3>1, <3>2 DEF RulesAreChecked
    <3>5. ASSUME NEW v \in report, v.name = n
          PROVE  v \in Expected(n)
      <4>1. v = [rule |-> v.rule, kind |-> v.kind, name |-> n] /\ v.rule \in DOMAIN Rules
        BY <3>3, <3>5 DEF ReportType
      <4>2. Walked(Rules[v.rule], n) /\ v.kind \in Difference(n)
        BY <3>1, <3>3, <3>5 DEF VerdictIsRight
      <4> QED
        BY <4>1, <4>2 DEF Expected
    <3>6. Expected(n) \subseteq {v \in report : v.name = n}
      BY <3>4 DEF Expected, Judged
    <3> QED
      BY <2>3, <3>5, <3>6
  <2> QED
    BY <2>2, <2>3
<1> QED
  BY <1>1, InductiveInvariant, PTL

\* Whatever changes while the walk is under way, no object is reported under
\* two rules or with two verdicts.
THEOREM OneVerdict == Spec => []OneVerdictEach
<1>1. IInv => OneVerdictEach
  BY DEF IInv
<1> QED
  BY <1>1, InductiveInvariant, PTL

-----------------------------------------------------------------------------
(* A text and the same text with one statement more                        *)

\* t2 is the text t of n statements with the statement s behind it.
Grown(t, s, t2, n) ==
  /\ n \in Nat /\ DOMAIN t = 1 .. n /\ DOMAIN t2 = 1 .. n + 1
  /\ \A k \in 1 .. n : t2[k] = t[k]
  /\ t2[n + 1] = s

\* What Append makes of a text.
LEMMA AppendGrows ==
  ASSUME NEW S, NEW t \in Seq(S), NEW s \in S
  PROVE  Grown(t, s, Append(t, s), Len(t))
  BY AppendProperties, LenProperties DEF Grown

\* The statements of one kind before a place are finitely many.
LEMMA CountIs ==
  ASSUME NEW k \in Nat, NEW C
  PROVE  Cardinality({j \in 1 .. k : j \in C}) \in Nat
<1>1. IsFiniteSet(1 .. k)
  BY FS_Interval
<1>2. IsFiniteSet({j \in 1 .. k : j \in C})
  BY <1>1, FS_Subset
<1> QED
  BY <1>2, FS_CardinalityType

\* One place more counts if it is of the kind.
LEMMA CountNext ==
  ASSUME NEW k \in Nat, NEW C
  PROVE  Cardinality({j \in 1 .. k + 1 : j \in C})
           = Cardinality({j \in 1 .. k : j \in C}) + IF k + 1 \in C THEN 1 ELSE 0
<1> DEFINE B == {j \in 1 .. k : j \in C}
<1>1. IsFiniteSet(1 .. k)
  BY FS_Interval
<1>2. IsFiniteSet(B)
  BY <1>1, FS_Subset
<1>3. {j \in 1 .. k + 1 : j \in C} = IF k + 1 \in C THEN B \cup {k + 1} ELSE B
  OBVIOUS
<1>4. k + 1 \notin B
  OBVIOUS
<1>5. Cardinality(B \cup {k + 1}) = Cardinality(B) + 1 /\ Cardinality(B) \in Nat
  BY <1>2, <1>4, FS_AddElement, FS_CardinalityType
<1> QED
  BY <1>3, <1>5

\* Before the first statement no block is open.
LEMMA LevelZero ==
  ASSUME NEW t
  PROVE  Level(t, 0) = 0
<1>1. 1 .. 0 = {}
  OBVIOUS
<1>2. {j \in 1 .. 0 : Opens(t, j)} = {} /\ {j \in 1 .. 0 : t[j].op = "close"} = {}
  BY <1>1
<1> QED
  BY <1>2, FS_EmptySet DEF Level

\* A block more is open after a statement that opens one, a block less after
\* one that closes one.
LEMMA LevelNext ==
  ASSUME NEW t, NEW k \in Nat
  PROVE  /\ Level(t, k) \in Int
         /\ Level(t, k + 1) = Level(t, k) + (IF Opens(t, k + 1) THEN 1 ELSE 0)
                                          - (IF t[k + 1].op = "close" THEN 1 ELSE 0)
<1> DEFINE O == {j \in 1 .. k + 1 : Opens(t, j)}
           C == {j \in 1 .. k + 1 : t[j].op = "close"}
<1>1. /\ Cardinality({j \in 1 .. k : j \in O}) \in Nat
      /\ Cardinality({j \in 1 .. k : j \in C}) \in Nat
  BY CountIs
<1>2. Cardinality({j \in 1 .. k + 1 : j \in O})
        = Cardinality({j \in 1 .. k : j \in O}) + IF k + 1 \in O THEN 1 ELSE 0
  <2> HIDE DEF O
  <2> QED
    BY CountNext
<1>3. Cardinality({j \in 1 .. k + 1 : j \in C})
        = Cardinality({j \in 1 .. k : j \in C}) + IF k + 1 \in C THEN 1 ELSE 0
  <2> HIDE DEF C
  <2> QED
    BY CountNext
<1>4. /\ {j \in 1 .. k : j \in O} = {j \in 1 .. k : Opens(t, j)}
      /\ {j \in 1 .. k : j \in C} = {j \in 1 .. k : t[j].op = "close"}
      /\ {j \in 1 .. k + 1 : j \in O} = {j \in 1 .. k + 1 : Opens(t, j)}
      /\ {j \in 1 .. k + 1 : j \in C} = {j \in 1 .. k + 1 : t[j].op = "close"}
      /\ k + 1 \in O <=> Opens(t, k + 1)
      /\ k + 1 \in C <=> t[k + 1].op = "close"
  OBVIOUS
<1>5. PICK a, b, c, d : /\ a = Cardinality({j \in 1 .. k : Opens(t, j)})
                        /\ b = Cardinality({j \in 1 .. k : t[j].op = "close"})
                        /\ c = Cardinality({j \in 1 .. k + 1 : Opens(t, j)})
                        /\ d = Cardinality({j \in 1 .. k + 1 : t[j].op = "close"})
  OBVIOUS
<1>6. Level(t, k) = a - b /\ Level(t, k + 1) = c - d
  BY <1>5 DEF Level
<1>7. /\ a \in Nat /\ b \in Nat
      /\ c = a + IF Opens(t, k + 1) THEN 1 ELSE 0
      /\ d = b + IF t[k + 1].op = "close" THEN 1 ELSE 0
  BY <1>1, <1>2, <1>3, <1>4, <1>5
<1> QED
  BY <1>6, <1>7

\* A level is a number.
LEMMA LevelIs ==
  ASSUME NEW t, NEW k \in Nat
  PROVE  Level(t, k) \in Int
  BY LevelNext

\* What a text says of a place does not change when it goes on.
LEMMA SameLevel ==
  ASSUME NEW t, NEW s, NEW t2, NEW n, Grown(t, s, t2, n), NEW k \in 0 .. n
  PROVE  Level(t2, k) = Level(t, k)
<1>1. \A j \in 1 .. k : t2[j] = t[j]
  BY DEF Grown
<1>2. /\ {j \in 1 .. k : Opens(t2, j)} = {j \in 1 .. k : Opens(t, j)}
      /\ {j \in 1 .. k : t2[j].op = "close"} = {j \in 1 .. k : t[j].op = "close"}
  BY <1>1 DEF Opens
<1> QED
  BY <1>2 DEF Level

\* The level after the statement that was added.
LEMMA LastLevel ==
  ASSUME NEW t, NEW s, NEW t2, NEW n, Grown(t, s, t2, n)
  PROVE  /\ Level(t, n) \in Int
         /\ Level(t2, n + 1) = Level(t, n) + (IF s.op \in {"scope", "ifhost"} THEN 1 ELSE 0)
                                           - (IF s.op = "close" THEN 1 ELSE 0)
<1>1. n \in Nat /\ t2[n + 1] = s
  BY DEF Grown
<1>2. Level(t2, n) = Level(t, n)
  BY <1>1, SameLevel
<1> QED
  BY <1>1, <1>2, LevelNext DEF Opens

\* What encloses a place, and whether that is behind an @@else.
LEMMA SameEnclosing ==
  ASSUME NEW t, NEW s, NEW t2, NEW n, Grown(t, s, t2, n),
         NEW k \in 1 .. n + 1, NEW j \in 1 .. k - 1
  PROVE  /\ Encloses(t2, j, k) <=> Encloses(t, j, k)
         /\ BehindElse(t2, j, k) <=> BehindElse(t, j, k)
         /\ t2[j] = t[j]
<1>0. n \in Nat
  BY DEF Grown
<1>1. \A m \in 1 .. k - 1 : t2[m] = t[m] /\ m \in 0 .. n
  BY <1>0 DEF Grown
<1>2. \A m \in 1 .. k - 1 : Level(t2, m) = Level(t, m)
  BY <1>1, SameLevel
<1>3. \A m \in j + 1 .. k - 1 : m \in 1 .. k - 1
  BY <1>0
<1> QED
  BY <1>1, <1>2, <1>3 DEF Encloses, BehindElse, Opens

\* Whether a place is for this machine.
LEMMA SameLive ==
  ASSUME NEW t, NEW s, NEW t2, NEW n, Grown(t, s, t2, n), NEW k \in 1 .. n + 1
  PROVE  /\ HostReads(t2, k) <=> HostReads(t, k)
         /\ SectionIsRead(t2, k) <=> SectionIsRead(t, k)
         /\ IsLive(t2, k) <=> IsLive(t, k)
<1>1. HostReads(t2, k) <=> HostReads(t, k)
  <2>1. \A j \in 1 .. k - 1 : /\ Encloses(t2, j, k) <=> Encloses(t, j, k)
                              /\ BehindElse(t2, j, k) <=> BehindElse(t, j, k)
                              /\ t2[j] = t[j]
    BY SameEnclosing
  <2>2. \A j \in 1 .. k - 1 :
          (Encloses(t2, j, k) /\ t2[j].op = "ifhost" => t2[j].match # BehindElse(t2, j, k))
            <=> (Encloses(t, j, k) /\ t[j].op = "ifhost" => t[j].match # BehindElse(t, j, k))
    <3> TAKE j \in 1 .. k - 1
    <3>1. BehindElse(t2, j, k) = BehindElse(t, j, k)
      BY <2>1 DEF BehindElse
    <3> QED
      BY <2>1, <3>1
  <2> QED
    BY <2>2 DEF HostReads
<1>2. SectionIsRead(t2, k) <=> SectionIsRead(t, k)
  <2>1. \A j \in 1 .. k - 1 : t2[j] = t[j]
    BY DEF Grown
  <2>2. PICK b : b = {j \in 1 .. k - 1 : t[j].op = "section"}
    OBVIOUS
  <2>3. b = {j \in 1 .. k - 1 : t2[j].op = "section"}
    BY <2>1, <2>2
  <2>4. CASE b = {}
    BY <2>2, <2>3, <2>4 DEF SectionIsRead
  <2>5. CASE b # {}
    <3>1. PICK m : m = CHOOSE j \in b : \A i \in b : i <= j
      OBVIOUS
    <3>2. b \in SUBSET Nat /\ k - 1 \in Nat /\ \A x \in b : x <= k - 1
      BY <2>2 DEF Grown
    <3>3. \E j \in b : \A i \in b : i <= j
      BY <2>5, <3>2, GreatestNumber
    <3>4. m \in b
      BY <3>1, <3>3
    <3>5. t2[m] = t[m]
      BY <2>1, <2>2, <3>4
    <3>6. SectionIsRead(t, k) <=> t[m].section = "FS"
      BY <2>2, <2>5, <3>1 DEF SectionIsRead
    <3>7. SectionIsRead(t2, k) <=> t2[m].section = "FS"
      BY <2>3, <2>5, <3>1 DEF SectionIsRead
    <3> QED
      BY <3>5, <3>6, <3>7
  <2> QED
    BY <2>4, <2>5
<1> QED
  BY <1>1, <1>2 DEF IsLive

\* The statements that are read: those before, and the new one if it is.
LEMMA LiveGrows ==
  ASSUME NEW t, NEW s, NEW t2, NEW n, Grown(t, s, t2, n), NEW ops
  PROVE  /\ Live(t, ops) \subseteq 1 .. n
         /\ \A k \in 1 .. n : k \in Live(t2, ops) <=> k \in Live(t, ops)
         /\ Live(t2, ops) = IF s.op \in ops /\ IsLive(t, n + 1)
                            THEN Live(t, ops) \cup {n + 1} ELSE Live(t, ops)
<1>0. n \in Nat /\ DOMAIN t = 1 .. n /\ DOMAIN t2 = 1 .. n + 1
  BY DEF Grown
<1>1. \A k \in 1 .. n : t2[k] = t[k]
  BY DEF Grown
<1>2. \A k \in 1 .. n + 1 : IsLive(t2, k) <=> IsLive(t, k)
  BY SameLive
<1>3. \A k \in 1 .. n : k \in Live(t2, ops) <=> k \in Live(t, ops)
  BY <1>0, <1>1, <1>2 DEF Live
<1>4. n + 1 \in Live(t2, ops) <=> s.op \in ops /\ IsLive(t, n + 1)
  BY <1>0, <1>2 DEF Live, Grown
<1>5. Live(t, ops) \subseteq 1 .. n /\ Live(t2, ops) \subseteq 1 .. n + 1
  BY <1>0 DEF Live
<1>6. \A k \in 1 .. n + 1 : k \in 1 .. n \/ k = n + 1
  BY <1>0
<1>7. n + 1 \notin Live(t, ops)
  BY <1>0, <1>5
<1>8. \A k : k \in Live(t2, ops) <=> k \in Live(t, ops) \/ (k = n + 1 /\ n + 1 \in Live(t2, ops))
  BY <1>3, <1>5, <1>6
<1>9. Live(t2, ops) = IF n + 1 \in Live(t2, ops)
                      THEN Live(t, ops) \cup {n + 1} ELSE Live(t, ops)
  BY <1>8
<1> QED
  BY <1>3, <1>4, <1>5, <1>9

\* The latest of some places.
LEMMA LatestIs ==
  ASSUME NEW S \in SUBSET Nat, S # {}, NEW n \in Nat, \A k \in S : k <= n
  PROVE  Latest(S) \in S /\ \A j \in S : j <= Latest(S)
<1>1. \E k \in S : \A j \in S : j <= k
  BY GreatestNumber
<1> QED
  BY <1>1 DEF Latest

\* The latest of some places is one of them.
LEMMA LatestAre ==
  ASSUME NEW S \in SUBSET Nat, NEW k \in S, \A j \in S : j <= k
  PROVE  Latest(S) = k
<1>1. Latest(S) \in S /\ \A j \in S : j <= Latest(S)
  BY LatestIs
<1>2. Latest(S) <= k /\ k <= Latest(S) /\ Latest(S) \in Nat /\ k \in Nat
  BY <1>1
<1> QED
  BY <1>1, <1>2

\* The sections begun among the first n statements.
SectionsBefore(t, n) == {j \in 1 .. n : t[j].op = "section"}

\* The section a place is in is the one begun last.
LEMMA SectionIs ==
  ASSUME NEW t, NEW n \in Nat
  PROVE  SectionIsRead(t, n + 1)
           <=> (SectionsBefore(t, n) # {} => t[Latest(SectionsBefore(t, n))].section = "FS")
<1>1. n + 1 - 1 = n
  OBVIOUS
<1>2. {j \in 1 .. n + 1 - 1 : t[j].op = "section"} = SectionsBefore(t, n)
  BY <1>1 DEF SectionsBefore
<1>3. PICK b : b = SectionsBefore(t, n)
  OBVIOUS
<1>4. PICK m : m = CHOOSE j \in b : \A i \in b : i <= j
  OBVIOUS
<1>5. b = {j \in 1 .. n + 1 - 1 : t[j].op = "section"}
  BY <1>2, <1>3
<1>6. SectionIsRead(t, n + 1) <=> (b # {} => t[m].section = "FS")
  BY <1>4, <1>5 DEF SectionIsRead
<1>7. m = Latest(b)
  BY <1>4 DEF Latest
<1> QED
  BY <1>3, <1>6, <1>7

\* A statement that begins a section decides for those behind it.
LEMMA SectionGrows ==
  ASSUME NEW t, NEW s, NEW t2, NEW n, Grown(t, s, t2, n)
  PROVE  SectionIsRead(t2, n + 2)
           <=> IF s.op = "section" THEN s.section = "FS" ELSE SectionIsRead(t, n + 1)
<1>0. n \in Nat /\ t2[n + 1] = s
  BY DEF Grown
<1>1. PICK b : b = SectionsBefore(t2, n)
  OBVIOUS
<1>2. PICK c : c = SectionsBefore(t2, n + 1)
  OBVIOUS
<1>3. c = IF s.op = "section" THEN b \cup {n + 1} ELSE b
  BY <1>0, <1>1, <1>2 DEF SectionsBefore
<1>4. SectionIsRead(t2, n + 1) <=> SectionIsRead(t, n + 1)
  BY <1>0, SameLive
<1>5. /\ SectionIsRead(t2, n + 1) <=> (b # {} => t2[Latest(b)].section = "FS")
      /\ SectionIsRead(t2, n + 1 + 1) <=> (c # {} => t2[Latest(c)].section = "FS")
  BY <1>0, <1>1, <1>2, SectionIs
<1>6. n + 1 + 1 = n + 2
  BY <1>0
<1>7. CASE s.op # "section"
  BY <1>3, <1>4, <1>5, <1>6, <1>7
<1>8. CASE s.op = "section"
  <2>1. c \in SUBSET Nat /\ n + 1 \in c /\ \A j \in c : j <= n + 1
    BY <1>0, <1>2, <1>3, <1>8 DEF SectionsBefore
  <2>2. Latest(c) = n + 1
    BY <2>1, LatestAre
  <2> QED
    BY <1>0, <1>5, <1>6, <1>8, <2>1, <2>2
<1> QED
  BY <1>7, <1>8

\* The places that give a variable its value before k.
Given(t, k, v, op) == {j \in Live(t, {op}) : j < k /\ t[j].var = v}

\* The value of a variable at a place.
LEMMA SameValue ==
  ASSUME NEW t, NEW s, NEW t2, NEW n, Grown(t, s, t2, n), NEW k \in 1 .. n + 1, NEW v
  PROVE  /\ IsGiven(t2, k, v) <=> IsGiven(t, k, v)
         /\ IsGiven(t, k, v) => ValueAt(t2, k, v) = ValueAt(t, k, v)
<1>0. n \in Nat
  BY DEF Grown
<1>1. \A op : Given(t2, k, v, op) = Given(t, k, v, op) /\ Given(t, k, v, op) \subseteq 1 .. n
  <2> TAKE op
  <2>1. /\ Live(t, {op}) \subseteq 1 .. n
        /\ \A j \in 1 .. n : j \in Live(t2, {op}) <=> j \in Live(t, {op})
        /\ Live(t2, {op}) \subseteq 1 .. n + 1
    <3>1. Live(t2, {op}) \subseteq 1 .. n + 1
      BY DEF Live, Grown
    <3> QED
      BY <3>1, LiveGrows
  <2>2. \A j \in 1 .. n : t2[j] = t[j]
    BY DEF Grown
  <2>3. \A j \in 1 .. n + 1 : j < k => j \in 1 .. n
    BY <1>0
  <2> QED
    BY <2>1, <2>2, <2>3 DEF Given
<1>2. \A op : \A j : j \in Given(t, k, v, op) => t2[j] = t[j]
  BY <1>1 DEF Grown
<1>3. \A op : Given(t, k, v, op) # {} =>
                t2[Latest(Given(t, k, v, op))].value = t[Latest(Given(t, k, v, op))].value
  <2> SUFFICES ASSUME NEW op, Given(t, k, v, op) # {}
               PROVE  t2[Latest(Given(t, k, v, op))].value = t[Latest(Given(t, k, v, op))].value
    OBVIOUS
  <2>1. Given(t, k, v, op) \in SUBSET Nat /\ \A j \in Given(t, k, v, op) : j <= n
    BY <1>0, <1>1
  <2>2. Latest(Given(t, k, v, op)) \in Given(t, k, v, op)
    BY <1>0, <2>1, LatestIs
  <2> QED
    BY <1>2, <2>2
<1>4. \A u : IsGiven(u, k, v) <=> \/ v \in DOMAIN Predefined
                                  \/ Given(u, k, v, "assign") # {}
                                  \/ Given(u, k, v, "assign global") # {}
  <2> TAKE u
  <2>1. \A j : j \in Live(u, {"assign", "assign global"})
                 <=> j \in Live(u, {"assign"}) \/ j \in Live(u, {"assign global"})
    BY DEF Live
  <2> QED
    BY <2>1 DEF IsGiven, Given
<1>5. IsGiven(t2, k, v) <=> IsGiven(t, k, v)
  BY <1>1, <1>4
<1>6. ASSUME IsGiven(t, k, v)
      PROVE  ValueAt(t2, k, v) = ValueAt(t, k, v)
  <2>1. \A u : ValueAt(u, k, v) =
                 CASE v \in DOMAIN Predefined -> Predefined[v]
                   [] v \notin DOMAIN Predefined /\ Given(u, k, v, "assign") # {} ->
                        u[Latest(Given(u, k, v, "assign"))].value
                   [] OTHER -> u[Latest(Given(u, k, v, "assign global"))].value
    BY DEF ValueAt, Given
  <2>2. CASE v \in DOMAIN Predefined
    BY <2>1, <2>2
  <2>3. CASE v \notin DOMAIN Predefined /\ Given(t, k, v, "assign") # {}
    BY <1>1, <1>3, <2>1, <2>3
  <2>4. CASE v \notin DOMAIN Predefined /\ Given(t, k, v, "assign") = {}
    <3>1. Given(t, k, v, "assign global") # {}
      BY <1>4, <1>6, <2>4
    <3> QED
      BY <1>1, <1>3, <2>1, <2>4, <3>1
  <2> QED
    BY <2>2, <2>3, <2>4
<1> QED
  BY <1>5, <1>6

\* Rules and blocks with attributes.
HasAttrs(t, k) == t[k].op \in {"rule", "scope"}

\* Every variable that is used is in text that is read, and has a value.
VariablesGiven(t) ==
  \A k \in DOMAIN t : HasAttrs(t, k) /\ UsesVariable(t[k].attrs) =>
    IsLive(t, k) /\ IsGiven(t, k, t[k].attrs.severity)

\* The latest giver of an attribute is a giver.
LEMMA GiversAre ==
  ASSUME NEW t, NEW k \in Nat, NEW a, Givers(t, k, a) # {}
  PROVE  /\ Latest(Givers(t, k, a)) \in Givers(t, k, a)
         /\ \A j \in Givers(t, k, a) : j \in 1 .. k /\ j <= Latest(Givers(t, k, a))
<1>1. /\ Givers(t, k, a) \in SUBSET Nat
      /\ \A j \in Givers(t, k, a) : j \in 1 .. k /\ j <= k
  BY DEF Givers
<1> QED
  BY <1>1, LatestIs

\* The attributes of a rule or block.
LEMMA SameAttrs ==
  ASSUME NEW t, NEW s, NEW t2, NEW n, Grown(t, s, t2, n), VariablesGiven(t),
         NEW k \in 1 .. n, HasAttrs(t, k)
  PROVE  AttrsAt(t2, k) = AttrsAt(t, k)
<1>0. n \in Nat /\ DOMAIN t = 1 .. n /\ \A j \in 1 .. n : t2[j] = t[j]
  BY DEF Grown
<1>1. \A a : Givers(t2, k, a) = Givers(t, k, a)
  <2>1. \A j \in 1 .. k - 1 : Encloses(t2, j, k) <=> Encloses(t, j, k)
    BY <1>0, SameEnclosing
  <2>2. \A j \in 1 .. k : t2[j] = t[j] /\ (j \in 1 .. k - 1 \/ j = k)
    BY <1>0
  <2> QED
    BY <2>1, <2>2 DEF Givers
<1>2. ASSUME NEW a, Givers(t, k, a) # {}
      PROVE  AttrAt(t2, k, a) = AttrAt(t, k, a)
  <2>1. PICK inner : inner = Latest(Givers(t, k, a))
    OBVIOUS
  <2>2. /\ inner \in Givers(t, k, a) /\ inner \in 1 .. k
        /\ \A j \in Givers(t, k, a) : j \in 1 .. k
    BY <1>2, <2>1, GiversAre
  <2>3. inner \in 1 .. n /\ t2[inner] = t[inner] /\ HasAttrs(t, inner)
    BY <1>0, <2>2 DEF Givers, HasAttrs
  <2>4. ASSUME UsesVariable(t[inner].attrs)
        PROVE  ValueAt(t2, inner, t[inner].attrs.severity)
                 = ValueAt(t, inner, t[inner].attrs.severity)
    <3>1. IsGiven(t, inner, t[inner].attrs.severity)
      BY <1>0, <2>3, <2>4 DEF VariablesGiven
    <3>2. inner \in 1 .. n + 1
      BY <1>0, <2>3
    <3> QED
      BY <3>1, <3>2, SameValue
  <2>5. \A j \in Givers(t, k, a) : t2[j] = t[j]
    BY <1>0, <2>2
  <2>6. UNION {t2[j].attrs.emailto : j \in Givers(t, k, a)}
          = UNION {t[j].attrs.emailto : j \in Givers(t, k, a)}
    BY <2>5
  <2>7. \A u : Givers(u, k, a) = Givers(t, k, a) => AttrAt(u, k, a) =
          CASE a = "emailto" -> UNION {u[j].attrs.emailto : j \in Givers(t, k, a)}
            [] a = "severity" /\ UsesVariable(u[inner].attrs) ->
                 ValueAt(u, inner, u[inner].attrs.severity)
            [] OTHER -> u[inner].attrs[a]
    BY <2>1 DEF AttrAt
  <2>8. /\ AttrAt(t2, k, a) =
             CASE a = "emailto" -> UNION {t2[j].attrs.emailto : j \in Givers(t, k, a)}
               [] a = "severity" /\ UsesVariable(t2[inner].attrs) ->
                    ValueAt(t2, inner, t2[inner].attrs.severity)
               [] OTHER -> t2[inner].attrs[a]
        /\ AttrAt(t, k, a) =
             CASE a = "emailto" -> UNION {t[j].attrs.emailto : j \in Givers(t, k, a)}
               [] a = "severity" /\ UsesVariable(t[inner].attrs) ->
                    ValueAt(t, inner, t[inner].attrs.severity)
               [] OTHER -> t[inner].attrs[a]
    BY <1>1, <2>7
  <2> QED
    BY <2>3, <2>4, <2>6, <2>8
<1>3. PICK d : d = {b \in {"severity", "emailto", "recurse"} : Givers(t, k, b) # {}}
  OBVIOUS
<1>4. AttrsAt(t, k) = [a \in d |-> AttrAt(t, k, a)]
  BY <1>3 DEF AttrsAt
<1>5. AttrsAt(t2, k) = [a \in d |-> AttrAt(t2, k, a)]
  BY <1>1, <1>3 DEF AttrsAt
<1>6. \A a \in d : AttrAt(t2, k, a) = AttrAt(t, k, a)
  BY <1>2, <1>3
<1> QED
  BY <1>4, <1>5, <1>6

\* A fault at k, SkippedVariable among them.
FaultAt(t, k) ==
  \/ IsFault(t, k)
  \/ /\ HasAttrs(t, k) /\ ~IsLive(t, k)
     /\ UsesVariable(t[k].attrs)

\* Whether a place is at fault.
LEMMA SameFault ==
  ASSUME NEW t, NEW s, NEW t2, NEW n, Grown(t, s, t2, n), NEW k \in 1 .. n, t[k].op # "end"
  PROVE  FaultAt(t2, k) <=> FaultAt(t, k)
<1>0. /\ n \in Nat /\ k \in 1 .. n + 1 /\ k \in 0 .. n /\ t2[k] = t[k]
      /\ \A j \in 1 .. n : t2[j] = t[j]
  BY DEF Grown
<1>1. \A ops : /\ Live(t, ops) \subseteq 1 .. n /\ Live(t2, ops) \subseteq 1 .. n + 1
               /\ \A j \in 1 .. n : j \in Live(t2, ops) <=> j \in Live(t, ops)
  <2>1. \A ops : Live(t2, ops) \subseteq 1 .. n + 1
    BY DEF Live, Grown
  <2> QED
    BY <2>1, LiveGrows
<1>2. \A j \in 1 .. n + 1 : j < k => j \in 1 .. n
  BY <1>0
<1>3. IsLive(t2, k) <=> IsLive(t, k)
  BY <1>0, SameLive
<1>4. SecondPoint(t2, k) <=> SecondPoint(t, k)
  BY <1>0, <1>1, <1>2 DEF SecondPoint
<1>5. UndefinedVariable(t2, k) <=> UndefinedVariable(t, k)
  <2>1. IsGiven(t2, k, t[k].attrs.severity) <=> IsGiven(t, k, t[k].attrs.severity)
    BY <1>0, SameValue
  <2> QED
    BY <1>0, <1>1, <2>1 DEF UndefinedVariable
<1>6. SectionInside(t2, k) <=> SectionInside(t, k)
  BY <1>0, SameLevel DEF SectionInside
<1>7. SecondSection(t2, k) <=> SecondSection(t, k)
  <2>1. \A j \in 1 .. k - 1 : /\ t2[j] = t[j]
                              /\ j \in Live(t2, {"rule", "stop", "assign"})
                                   <=> j \in Live(t, {"rule", "stop", "assign"})
                              /\ j \in Live(t2, {"scope"}) <=> j \in Live(t, {"scope"})
    BY <1>0, <1>1
  <2> QED
    BY <1>0, <2>1 DEF SecondSection
<1>8. ~EndsAmiss(t2, k) /\ ~EndsAmiss(t, k)
  BY <1>0 DEF EndsAmiss
<1>9. IsFault(t2, k) <=> IsFault(t, k)
  BY <1>0, <1>1, <1>4, <1>5, <1>6, <1>7, <1>8 DEF IsFault
<1> QED
  BY <1>0, <1>3, <1>9 DEF FaultAt, HasAttrs

-----------------------------------------------------------------------------
(* The blocks that are open                                                *)

\* o are the kinds of the blocks that are open behind the n statements of t,
\* L of them, and pos the places where they begin.
Blocks(t, n, o, L, pos) ==
  /\ n \in Nat /\ L \in Nat
  /\ Level(t, n) = L
  /\ \A i \in 1 .. L :
       /\ pos[i] \in 1 .. n
       /\ Level(t, pos[i]) = i
       /\ Encloses(t, pos[i], n + 1)
       /\ o[i] \in {"scope", "ifhost", "else"}
       /\ o[i] = "scope" <=> t[pos[i]].op = "scope"
       /\ o[i] # "scope" => (o[i] = "else" <=> BehindElse(t, pos[i], n + 1))
  /\ \A i, j \in 1 .. L : i < j => pos[i] < pos[j]
  /\ \A j \in 1 .. n : Encloses(t, j, n + 1) => \E i \in 1 .. L : j = pos[i]

\* What a statement does to the open blocks.
Moves(s, o, L, o2, L2) ==
  \/ /\ s.op \in {"scope", "ifhost"} /\ L2 = L + 1
     /\ o2[L2] = s.op /\ \A i \in 1 .. L : o2[i] = o[i]
  \/ /\ s.op = "close" /\ L > 0 /\ L2 = L - 1
     /\ \A i \in 1 .. L2 : o2[i] = o[i]
  \/ /\ s.op = "else" /\ L > 0 /\ L2 = L
     /\ o[L] = "ifhost" /\ o2[L] = "else" /\ \A i \in 1 .. L - 1 : o2[i] = o[i]
  \/ /\ s.op \notin {"scope", "ifhost", "close", "else"} /\ L2 = L
     /\ \A i \in 1 .. L : o2[i] = o[i]

\* Where the blocks begin that are open after a step.
Places(pos, L, n, L2) == [i \in 1 .. L2 |-> IF i <= L THEN pos[i] ELSE n + 1]

\* What encloses the place behind the new statement.
LEMMA EnclosesGrows ==
  ASSUME NEW t, NEW s, NEW t2, NEW n, Grown(t, s, t2, n)
  PROVE  /\ \A j \in 1 .. n :
              /\ Encloses(t2, j, n + 2) <=> Encloses(t, j, n + 1) /\ Level(t2, n + 1) >= Level(t, j)
              /\ BehindElse(t2, j, n + 2)
                   <=> BehindElse(t, j, n + 1) \/ (s.op = "else" /\ Level(t2, n + 1) = Level(t, j))
         /\ Encloses(t2, n + 1, n + 2) <=> s.op \in {"scope", "ifhost"}
         /\ ~BehindElse(t2, n + 1, n + 2)
<1>0. n \in Nat /\ t2[n + 1] = s /\ n + 1 \in 1 .. n + 1
  BY DEF Grown
<1>1. ASSUME NEW j \in 1 .. n
      PROVE  /\ Encloses(t2, j, n + 2) <=> Encloses(t, j, n + 1) /\ Level(t2, n + 1) >= Level(t, j)
             /\ BehindElse(t2, j, n + 2)
                  <=> BehindElse(t, j, n + 1) \/ (s.op = "else" /\ Level(t2, n + 1) = Level(t, j))
  <2>1. j \in 1 .. n + 1 - 1 /\ j < n + 1 /\ j < n + 2
    BY <1>0
  <2>2. /\ Encloses(t2, j, n + 1) <=> Encloses(t, j, n + 1)
        /\ BehindElse(t2, j, n + 1) <=> BehindElse(t, j, n + 1)
    BY <1>0, <2>1, SameEnclosing
  <2>3. Level(t2, j) = Level(t, j)
    BY <1>0, SameLevel
  <2>4. \A m : m \in j + 1 .. n + 2 - 1 <=> m \in j + 1 .. n + 1 - 1 \/ m = n + 1
    BY <1>0
  <2>5. PICK a, b : a = (j + 1 .. n + 2 - 1) /\ b = (j + 1 .. n + 1 - 1)
    OBVIOUS
  <2>6. Encloses(t2, j, n + 2) <=> Encloses(t2, j, n + 1) /\ Level(t2, n + 1) >= Level(t2, j)
    <3>1. /\ Encloses(t2, j, n + 2) <=> Opens(t2, j) /\ \A m \in a : Level(t2, m) >= Level(t2, j)
          /\ Encloses(t2, j, n + 1) <=> Opens(t2, j) /\ \A m \in b : Level(t2, m) >= Level(t2, j)
      BY <1>0, <2>1, <2>5 DEF Encloses
    <3> QED
      BY <2>4, <2>5, <3>1
  <2>7. BehindElse(t2, j, n + 2)
          <=> BehindElse(t2, j, n + 1) \/ (t2[n + 1].op = "else" /\ Level(t2, n + 1) = Level(t2, j))
    <3>1. /\ BehindElse(t2, j, n + 2) <=> \E m \in a : t2[m].op = "else" /\ Level(t2, m) = Level(t2, j)
          /\ BehindElse(t2, j, n + 1) <=> \E m \in b : t2[m].op = "else" /\ Level(t2, m) = Level(t2, j)
      BY <1>0, <2>5 DEF BehindElse
    <3> QED
      BY <2>4, <2>5, <3>1
  <2> QED
    BY <1>0, <2>2, <2>3, <2>6, <2>7
<1>2. n + 1 + 1 .. n + 2 - 1 = {} /\ n + 1 < n + 2
  BY <1>0
<1>3. PICK e : e = (n + 1 + 1 .. n + 2 - 1)
  OBVIOUS
<1>4. /\ Encloses(t2, n + 1, n + 2) <=> Opens(t2, n + 1) /\ \A m \in e : Level(t2, m) >= Level(t2, n + 1)
      /\ BehindElse(t2, n + 1, n + 2) <=> \E m \in e : t2[m].op = "else" /\ Level(t2, m) = Level(t2, n + 1)
  BY <1>0, <1>2, <1>3 DEF Encloses, BehindElse
<1>5. Opens(t2, n + 1) <=> s.op \in {"scope", "ifhost"}
  BY <1>0 DEF Opens
<1> QED
  BY <1>1, <1>2, <1>3, <1>4, <1>5

\* The blocks that are open behind the new statement.
LEMMA BlocksGrow ==
  ASSUME NEW t, NEW s, NEW t2, NEW n, Grown(t, s, t2, n),
         NEW o, NEW L, NEW pos, Blocks(t, n, o, L, pos),
         NEW o2, NEW L2, Moves(s, o, L, o2, L2), NEW pos2, pos2 = Places(pos, L, n, L2)
  PROVE  Blocks(t2, n + 1, o2, L2, pos2)
<1>1. /\ n \in Nat /\ L \in Nat /\ Level(t, n) = L
      /\ t2[n + 1] = s /\ \A k \in 1 .. n : t2[k] = t[k]
  BY DEF Grown, Blocks
<1>2. L2 \in Nat /\ Level(t2, n + 1) = L2
  BY <1>1, LastLevel DEF Moves
<1>3. /\ \A i \in 1 .. L2 : i <= L => pos2[i] = pos[i]
      /\ \A i \in 1 .. L2 : ~(i <= L) => i = L + 1 /\ L2 = L + 1 /\ pos2[i] = n + 1 /\ o2[i] = s.op
                                          /\ s.op \in {"scope", "ifhost"}
      /\ \A i \in 1 .. L2 : pos2[i] = pos[i] \/ pos2[i] = n + 1
  BY <1>1, <1>2 DEF Places, Moves
<1>4. n + 1 + 1 = n + 2
  BY <1>1
<1>5. ASSUME NEW i \in 1 .. L2
      PROVE  /\ pos2[i] \in 1 .. n + 1
             /\ Level(t2, pos2[i]) = i
             /\ Encloses(t2, pos2[i], n + 2)
             /\ o2[i] \in {"scope", "ifhost", "else"}
             /\ o2[i] = "scope" <=> t2[pos2[i]].op = "scope"
             /\ o2[i] # "scope" => (o2[i] = "else" <=> BehindElse(t2, pos2[i], n + 2))
  <2>1. CASE i <= L
    <3>1. i \in 1 .. L
      BY <1>1, <1>2, <2>1
    <3>2. PICK p : p = pos[i]
      OBVIOUS
    <3>3. /\ p \in 1 .. n /\ Level(t, p) = i /\ Encloses(t, p, n + 1)
          /\ o[i] \in {"scope", "ifhost", "else"}
          /\ o[i] = "scope" <=> t[p].op = "scope"
          /\ o[i] # "scope" => (o[i] = "else" <=> BehindElse(t, p, n + 1))
      BY <3>1, <3>2 DEF Blocks
    <3>4. pos2[i] = p /\ t2[p] = t[p] /\ p \in 1 .. n + 1 /\ p \in 0 .. n
      BY <1>1, <1>3, <2>1, <3>2, <3>3
    <3>5. Level(t2, p) = i
      BY <3>3, <3>4, SameLevel
    <3>6. /\ Encloses(t2, p, n + 2) <=> Encloses(t, p, n + 1) /\ L2 >= i
          /\ BehindElse(t2, p, n + 2) <=> BehindElse(t, p, n + 1) \/ (s.op = "else" /\ L2 = i)
      BY <1>2, <3>3, EnclosesGrows
    <3>7. \/ s.op # "else" /\ o2[i] = o[i]
          \/ s.op = "else" /\ L2 = L /\ o[L] = "ifhost" /\ o2[L] = "else" /\ (i < L => o2[i] = o[i])
      BY <1>1, <1>2, <3>1 DEF Moves
    <3>8. i \in Nat /\ L2 >= i
      BY <1>2
    <3> QED
      BY <1>1, <1>2, <2>1, <3>3, <3>4, <3>5, <3>6, <3>7, <3>8
  <2>2. CASE ~(i <= L)
    <3>1. i = L + 1 /\ L2 = L + 1 /\ pos2[i] = n + 1 /\ o2[i] = s.op /\ s.op \in {"scope", "ifhost"}
      BY <1>3, <2>2
    <3>2. Encloses(t2, n + 1, n + 2) /\ ~BehindElse(t2, n + 1, n + 2)
      BY <3>1, EnclosesGrows
    <3> QED
      BY <1>1, <1>2, <3>1, <3>2
  <2> QED
    BY <2>1, <2>2
<1>6. ASSUME NEW i \in 1 .. L2, NEW j \in 1 .. L2, i < j
      PROVE  pos2[i] < pos2[j]
  <2>1. i \in 1 .. L /\ pos2[i] = pos[i] /\ pos[i] \in 1 .. n
    <3>1. i <= L
      BY <1>1, <1>2, <1>3, <1>6
    <3> QED
      BY <1>1, <1>2, <1>3, <3>1 DEF Blocks
  <2>2. CASE j <= L
    <3>1. j \in 1 .. L /\ pos2[j] = pos[j]
      BY <1>1, <1>2, <1>3, <2>2
    <3> QED
      BY <1>6, <2>1, <3>1 DEF Blocks
  <2>3. CASE ~(j <= L)
    BY <1>1, <1>3, <2>1, <2>3
  <2> QED
    BY <2>2, <2>3
<1>7. ASSUME NEW j \in 1 .. n + 1, Encloses(t2, j, n + 2)
      PROVE  \E i \in 1 .. L2 : j = pos2[i]
  <2>1. CASE j = n + 1
    <3>1. s.op \in {"scope", "ifhost"}
      BY <1>7, <2>1, EnclosesGrows
    <3>2. L2 = L + 1
      BY <3>1 DEF Moves
    <3>3. pos2[L2] = n + 1 /\ L2 \in 1 .. L2
      BY <1>1, <1>3, <3>2
    <3> QED
      BY <2>1, <3>3
  <2>2. CASE j # n + 1
    <3>1. j \in 1 .. n
      BY <1>1, <2>2
    <3>2. Encloses(t, j, n + 1) /\ L2 >= Level(t, j)
      BY <1>2, <1>7, <3>1, EnclosesGrows
    <3>3. PICK i \in 1 .. L : j = pos[i]
      BY <3>1, <3>2 DEF Blocks
    <3>4. Level(t, j) = i
      BY <3>3 DEF Blocks
    <3>5. i \in 1 .. L2 /\ i <= L
      BY <1>1, <1>2, <3>2, <3>4
    <3> QED
      BY <1>3, <3>3, <3>5
  <2> QED
    BY <2>1, <2>2
<1> QED
  BY <1>1, <1>2, <1>4, <1>5, <1>6, <1>7 DEF Blocks

\* How many of the first i blocks are an @@ifhost's or a list of attributes'.
HostsOf(o, i)  == Cardinality({j \in 1 .. i : o[j] # "scope"})
ScopesOf(o, i) == Cardinality({j \in 1 .. i : o[j] = "scope"})

\* Each block is one or the other.
LEMMA KindsAre ==
  ASSUME NEW o, NEW i \in Nat
  PROVE  /\ HostsOf(o, i) \in Nat /\ ScopesOf(o, i) \in Nat
         /\ HostsOf(o, 0) = 0 /\ ScopesOf(o, 0) = 0
         /\ HostsOf(o, i + 1) = HostsOf(o, i) + IF o[i + 1] # "scope" THEN 1 ELSE 0
         /\ ScopesOf(o, i + 1) = ScopesOf(o, i) + IF o[i + 1] = "scope" THEN 1 ELSE 0
<1>1. PICK h : h = {j \in 1 .. i + 1 : o[j] # "scope"}
  OBVIOUS
<1>2. PICK c : c = {j \in 1 .. i + 1 : o[j] = "scope"}
  OBVIOUS
<1>3. /\ {j \in 1 .. i : o[j] # "scope"} = {j \in 1 .. i : j \in h}
      /\ {j \in 1 .. i + 1 : o[j] # "scope"} = {j \in 1 .. i + 1 : j \in h}
      /\ {j \in 1 .. i : o[j] = "scope"} = {j \in 1 .. i : j \in c}
      /\ {j \in 1 .. i + 1 : o[j] = "scope"} = {j \in 1 .. i + 1 : j \in c}
      /\ i + 1 \in h <=> o[i + 1] # "scope"
      /\ i + 1 \in c <=> o[i + 1] = "scope"
  BY <1>1, <1>2
<1>4. {j \in 1 .. 0 : o[j] # "scope"} = {} /\ {j \in 1 .. 0 : o[j] = "scope"} = {}
  OBVIOUS
<1>5. HostsOf(o, 0) = 0 /\ ScopesOf(o, 0) = 0
  BY <1>4, FS_EmptySet DEF HostsOf, ScopesOf
<1>6. HostsOf(o, i) \in Nat /\ ScopesOf(o, i) \in Nat
  BY <1>3, CountIs DEF HostsOf, ScopesOf
<1>7. /\ HostsOf(o, i + 1) = HostsOf(o, i) + IF i + 1 \in h THEN 1 ELSE 0
      /\ ScopesOf(o, i + 1) = ScopesOf(o, i) + IF i + 1 \in c THEN 1 ELSE 0
  BY <1>3, CountNext DEF HostsOf, ScopesOf
<1> QED
  BY <1>3, <1>5, <1>6, <1>7

\* More blocks have no fewer of a kind.
LEMMA KindsGrow ==
  ASSUME NEW o, NEW i \in Nat, NEW k \in Nat, i <= k
  PROVE  HostsOf(o, i) <= HostsOf(o, k) /\ ScopesOf(o, i) <= ScopesOf(o, k)
<1>1. IsFiniteSet(1 .. k)
  BY FS_Interval
<1>2. 1 .. i \subseteq 1 .. k
  OBVIOUS
<1>3. /\ IsFiniteSet({j \in 1 .. k : o[j] # "scope"})
      /\ IsFiniteSet({j \in 1 .. k : o[j] = "scope"})
  BY <1>1, FS_Subset
<1>4. /\ {j \in 1 .. i : o[j] # "scope"} \in SUBSET {j \in 1 .. k : o[j] # "scope"}
      /\ {j \in 1 .. i : o[j] = "scope"} \in SUBSET {j \in 1 .. k : o[j] = "scope"}
  BY <1>2
<1> QED
  BY <1>3, <1>4, FS_Subset DEF HostsOf, ScopesOf

\* Only the kinds count.
LEMMA SameKinds ==
  ASSUME NEW o, NEW o2, NEW i \in Nat, \A j \in 1 .. i : o2[j] = "scope" <=> o[j] = "scope"
  PROVE  HostsOf(o2, i) = HostsOf(o, i) /\ ScopesOf(o2, i) = ScopesOf(o, i)
<1>1. /\ {j \in 1 .. i : o2[j] # "scope"} = {j \in 1 .. i : o[j] # "scope"}
      /\ {j \in 1 .. i : o2[j] = "scope"} = {j \in 1 .. i : o[j] = "scope"}
  OBVIOUS
<1> QED
  BY <1>1 DEF HostsOf, ScopesOf

\* The first i of the blocks are for this host.
BlocksRead(t, o, pos, i) ==
  \A h \in 1 .. i : o[h] # "scope" => t[pos[h]].match # (o[h] = "else")

\* cPreprocessor::mStateStack says so of each block, unless the section is
\* skipped; cParserHelper::mScopedAttrs has what the blocks with attributes give.
Stacks(read, t, o, L, pos, acc, scs) ==
  /\ acc \in Seq(BOOLEAN) /\ Len(acc) = 1 + HostsOf(o, L)
  /\ Len(scs) = ScopesOf(o, L) /\ \E S : scs \in Seq(S)
  /\ acc[1]
  /\ read => \A i \in 0 .. L : acc[1 + HostsOf(o, i)] <=> BlocksRead(t, o, pos, i)
  /\ \A i \in 1 .. L : o[i] = "scope" => scs[ScopesOf(o, i)] = AttrsAt(t, pos[i])

\* The state on top says whether the next statement is for this host.
LEMMA TopIsRead ==
  ASSUME NEW t, NEW n, NEW o, NEW L, NEW pos, NEW acc, NEW scs,
         NEW read, Blocks(t, n, o, L, pos), Stacks(read, t, o, L, pos, acc, scs)
  PROVE  /\ read => (Last(acc) <=> HostReads(t, n + 1))
         /\ Last(acc) \in BOOLEAN /\ acc # << >> /\ acc[1]
<1>1. n \in Nat /\ L \in Nat /\ n + 1 - 1 = n
  BY DEF Blocks
<1>2. HostsOf(o, L) \in Nat /\ HostsOf(o, 0) = 0
  BY <1>1, KindsAre
<1>3. Last(acc) = acc[1 + HostsOf(o, L)] /\ acc # << >> /\ Last(acc) \in BOOLEAN
  <2>1. Len(acc) = 1 + HostsOf(o, L) /\ acc \in Seq(BOOLEAN)
    BY DEF Stacks
  <2>2. Len(acc) \in 1 .. Len(acc)
    BY <1>2, <2>1
  <2>3. acc[Len(acc)] \in BOOLEAN
    BY <2>1, <2>2, ElementOfSeq
  <2>4. acc # << >>
    BY <1>2, <2>1, EmptySeq
  <2> QED
    BY <2>1, <2>3, <2>4 DEF Last
<1>4. read => (Last(acc) <=> BlocksRead(t, o, pos, L))
  BY <1>1, <1>3 DEF Stacks
<1>5. acc[1]
  BY DEF Stacks
<1>6. ASSUME NEW h \in 1 .. L
      PROVE  /\ pos[h] \in 1 .. n /\ Encloses(t, pos[h], n + 1)
             /\ o[h] # "scope" <=> t[pos[h]].op = "ifhost"
             /\ o[h] # "scope" => (o[h] = "else") = BehindElse(t, pos[h], n + 1)
  <2>1. /\ pos[h] \in 1 .. n /\ Encloses(t, pos[h], n + 1)
        /\ o[h] = "scope" <=> t[pos[h]].op = "scope"
        /\ o[h] # "scope" => (o[h] = "else" <=> BehindElse(t, pos[h], n + 1))
    BY DEF Blocks
  <2>2. t[pos[h]].op \in {"scope", "ifhost"}
    BY <2>1 DEF Encloses, Opens
  <2>3. BehindElse(t, pos[h], n + 1) \in BOOLEAN
    BY DEF BehindElse
  <2> QED
    BY <2>1, <2>2, <2>3
<1>7. BlocksRead(t, o, pos, L) => HostReads(t, n + 1)
  <2> SUFFICES ASSUME BlocksRead(t, o, pos, L), NEW j \in 1 .. n,
                      Encloses(t, j, n + 1), t[j].op = "ifhost"
               PROVE  t[j].match # BehindElse(t, j, n + 1)
    BY <1>1 DEF HostReads
  <2>1. PICK h \in 1 .. L : j = pos[h]
    BY <1>1 DEF Blocks
  <2> QED
    BY <1>6, <2>1 DEF BlocksRead
<1>8. HostReads(t, n + 1) => BlocksRead(t, o, pos, L)
  <2> SUFFICES ASSUME HostReads(t, n + 1), NEW h \in 1 .. L, o[h] # "scope"
               PROVE  t[pos[h]].match # (o[h] = "else")
    BY DEF BlocksRead
  <2>1. t[pos[h]].match # BehindElse(t, pos[h], n + 1)
    BY <1>1, <1>6 DEF HostReads
  <2> QED
    BY <1>6, <2>1
<1> QED
  BY <1>3, <1>4, <1>5, <1>7, <1>8

\* A step of the parser from one text and its blocks to the next.
BlockStep(t, s, t2, n, o, L, pos, o2, L2, pos2) ==
  /\ Grown(t, s, t2, n) /\ VariablesGiven(t)
  /\ Blocks(t, n, o, L, pos) /\ Moves(s, o, L, o2, L2)
  /\ pos2 = Places(pos, L, n, L2)

\* What does not change of blocks that stay open.
LEMMA StayOpen ==
  ASSUME NEW t, NEW s, NEW t2, NEW n, NEW o, NEW L, NEW pos, NEW o2, NEW L2, NEW pos2,
         BlockStep(t, s, t2, n, o, L, pos, o2, L2, pos2),
         NEW k \in 0 .. L, k <= L2, \A i \in 1 .. k : o2[i] = o[i]
  PROVE  \A i \in 0 .. k :
           /\ HostsOf(o2, i) = HostsOf(o, i) /\ ScopesOf(o2, i) = ScopesOf(o, i)
           /\ BlocksRead(t2, o2, pos2, i) <=> BlocksRead(t, o, pos, i)
           /\ i > 0 /\ o[i] = "scope" => AttrsAt(t2, pos2[i]) = AttrsAt(t, pos[i])
<1>0. n \in Nat /\ L \in Nat /\ L2 \in Nat
  BY DEF BlockStep, Blocks, Moves
<1>1. \A i \in 1 .. k : pos2[i] = pos[i] /\ pos[i] \in 1 .. n /\ t2[pos[i]] = t[pos[i]]
  <2>1. \A i \in 1 .. k : i \in 1 .. L /\ i \in 1 .. L2 /\ i <= L
    BY <1>0
  <2> QED
    BY <2>1 DEF BlockStep, Places, Grown, Blocks
<1> SUFFICES ASSUME NEW i \in 0 .. k
             PROVE  /\ HostsOf(o2, i) = HostsOf(o, i) /\ ScopesOf(o2, i) = ScopesOf(o, i)
                    /\ BlocksRead(t2, o2, pos2, i) <=> BlocksRead(t, o, pos, i)
                    /\ i > 0 /\ o[i] = "scope" => AttrsAt(t2, pos2[i]) = AttrsAt(t, pos[i])
  OBVIOUS
<1>2. i \in Nat /\ \A h \in 1 .. i : h \in 1 .. k
  BY <1>0
<1>3. HostsOf(o2, i) = HostsOf(o, i) /\ ScopesOf(o2, i) = ScopesOf(o, i)
  BY <1>2, SameKinds
<1>4. BlocksRead(t2, o2, pos2, i) <=> BlocksRead(t, o, pos, i)
  BY <1>1, <1>2 DEF BlocksRead
<1>5. ASSUME i > 0, o[i] = "scope"
      PROVE  AttrsAt(t2, pos2[i]) = AttrsAt(t, pos[i])
  <2>1. i \in 1 .. k /\ i \in 1 .. L
    BY <1>0, <1>5
  <2>2. t[pos[i]].op = "scope"
    BY <1>5, <2>1 DEF BlockStep, Blocks
  <2>3. PICK p \in 1 .. n : p = pos[i] /\ HasAttrs(t, p)
    BY <1>1, <2>1, <2>2 DEF HasAttrs
  <2>4. AttrsAt(t2, p) = AttrsAt(t, p)
    BY <2>3, SameAttrs DEF BlockStep
  <2> QED
    BY <1>1, <2>1, <2>3, <2>4
<1> QED
  BY <1>3, <1>4, <1>5

\* A statement that opens and closes nothing.
LEMMA StacksStay ==
  ASSUME NEW t, NEW s, NEW t2, NEW n, NEW o, NEW L, NEW pos, NEW o2, NEW L2, NEW pos2,
         BlockStep(t, s, t2, n, o, L, pos, o2, L2, pos2),
         NEW acc, NEW scs, NEW read, Stacks(read, t, o, L, pos, acc, scs),
         s.op \notin {"scope", "ifhost", "close", "else"},
         NEW read2, L = 0 \/ (read2 => read)
  PROVE  Stacks(read2, t2, o2, L2, pos2, acc, scs)
<1>1. L \in Nat /\ L2 = L /\ \A i \in 1 .. L : o2[i] = o[i]
  BY DEF BlockStep, Blocks, Moves
<1>2. \A i \in 0 .. L :
        /\ HostsOf(o2, i) = HostsOf(o, i) /\ ScopesOf(o2, i) = ScopesOf(o, i)
        /\ BlocksRead(t2, o2, pos2, i) <=> BlocksRead(t, o, pos, i)
        /\ i > 0 /\ o[i] = "scope" => AttrsAt(t2, pos2[i]) = AttrsAt(t, pos[i])
  BY <1>1, StayOpen
<1>3. acc[1] /\ HostsOf(o, 0) = 0 /\ BlocksRead(t2, o2, pos2, 0)
  BY KindsAre DEF Stacks, BlocksRead
<1>4. read2 => \A i \in 0 .. L : acc[1 + HostsOf(o2, i)] <=> BlocksRead(t2, o2, pos2, i)
  <2>1. CASE L = 0
    <3>1. \A i \in 0 .. L : i = 0
      BY <2>1
    <3> QED
      BY <1>2, <1>3, <3>1
  <2>2. CASE read2 => read
    BY <1>2, <2>2 DEF Stacks
  <2> QED
    BY <2>1, <2>2
<1>5. \A i \in 1 .. L : o2[i] = "scope" => scs[ScopesOf(o2, i)] = AttrsAt(t2, pos2[i])
  <2> TAKE i \in 1 .. L
  <2>1. i \in 0 .. L /\ i > 0
    BY <1>1
  <2> QED
    BY <1>1, <1>2, <2>1 DEF Stacks
<1>6. L \in 0 .. L
  BY <1>1
<1> QED
  BY <1>1, <1>2, <1>3, <1>4, <1>5, <1>6 DEF Stacks

\* @@ifhost pushes a state.
LEMMA HostPushed ==
  ASSUME NEW t, NEW s, NEW t2, NEW n, NEW o, NEW L, NEW pos, NEW o2, NEW L2, NEW pos2,
         BlockStep(t, s, t2, n, o, L, pos, o2, L2, pos2),
         NEW acc, NEW scs, NEW read, Stacks(read, t, o, L, pos, acc, scs),
         s.op = "ifhost", s.match \in BOOLEAN, NEW x \in BOOLEAN,
         NEW read2, read2 => read /\ (x <=> Last(acc) /\ s.match)
  PROVE  Stacks(read2, t2, o2, L2, pos2, Append(acc, x), scs)
<1>1. /\ L \in Nat /\ n \in Nat /\ L2 = L + 1 /\ \A i \in 1 .. L : o2[i] = o[i]
      /\ o2[L2] = "ifhost" /\ pos2[L2] = n + 1 /\ t2[n + 1] = s
  BY DEF BlockStep, Blocks, Moves, Places, Grown
<1>2. \A i \in 0 .. L :
        /\ HostsOf(o2, i) = HostsOf(o, i) /\ ScopesOf(o2, i) = ScopesOf(o, i)
        /\ BlocksRead(t2, o2, pos2, i) <=> BlocksRead(t, o, pos, i)
        /\ i > 0 /\ o[i] = "scope" => AttrsAt(t2, pos2[i]) = AttrsAt(t, pos[i])
  BY <1>1, StayOpen
<1>3. PICK H : H = HostsOf(o, L)
  OBVIOUS
<1>4. /\ H \in Nat /\ HostsOf(o2, L) = H /\ ScopesOf(o2, L2) = ScopesOf(o, L)
      /\ HostsOf(o2, L2) = H + 1
      /\ \A i \in 0 .. L : HostsOf(o, i) \in Nat /\ HostsOf(o, i) <= H
  <2>1. L \in 0 .. L
    BY <1>1
  <2>2. HostsOf(o2, L) = H /\ ScopesOf(o2, L) = ScopesOf(o, L) /\ H \in Nat
        /\ ScopesOf(o2, L) \in Nat
    BY <1>1, <1>2, <1>3, <2>1, KindsAre
  <2>3. /\ HostsOf(o2, L2) = HostsOf(o2, L) + IF o2[L2] # "scope" THEN 1 ELSE 0
        /\ ScopesOf(o2, L2) = ScopesOf(o2, L) + IF o2[L2] = "scope" THEN 1 ELSE 0
    BY <1>1, KindsAre
  <2>4. \A i \in 0 .. L : HostsOf(o, i) \in Nat /\ HostsOf(o, i) <= H
    <3> TAKE i \in 0 .. L
    <3>1. i \in Nat /\ i <= L
      BY <1>1
    <3> QED
      BY <1>1, <1>3, <3>1, KindsAre, KindsGrow
  <2> QED
    BY <1>1, <2>2, <2>3, <2>4
<1>5. PICK acc2 : acc2 = Append(acc, x)
  OBVIOUS
<1>6. /\ acc2 \in Seq(BOOLEAN) /\ Len(acc2) = 2 + H /\ acc2[2 + H] = x
      /\ \A i \in 1 .. H + 1 : acc2[i] = acc[i]
      /\ Last(acc) = acc[1 + H]
  <2>1. acc \in Seq(BOOLEAN) /\ Len(acc) = 1 + H
    BY <1>3 DEF Stacks
  <2> QED
    BY <1>4, <1>5, <2>1, AppendProperties DEF Last
<1>7. acc2[1]
  BY <1>4, <1>6 DEF Stacks
<1>8. read2 => \A i \in 0 .. L2 : acc2[1 + HostsOf(o2, i)] <=> BlocksRead(t2, o2, pos2, i)
  <2> SUFFICES ASSUME read2, NEW i \in 0 .. L2
               PROVE  acc2[1 + HostsOf(o2, i)] <=> BlocksRead(t2, o2, pos2, i)
    OBVIOUS
  <2>1. CASE i \in 0 .. L
    <3>1. acc[1 + HostsOf(o, i)] <=> BlocksRead(t, o, pos, i)
      BY <2>1 DEF Stacks
    <3>2. 1 + HostsOf(o, i) \in 1 .. H + 1
      BY <1>4, <2>1
    <3> QED
      BY <1>2, <1>6, <2>1, <3>1, <3>2
  <2>2. CASE i \notin 0 .. L
    <3>1. i = L2
      BY <1>1, <2>2
    <3>2. L \in 0 .. L /\ \A h \in 1 .. L2 : h \in 1 .. L \/ h = L2
      BY <1>1
    <3>3. acc[1 + H] <=> BlocksRead(t2, o2, pos2, L)
      BY <1>2, <1>3, <3>2 DEF Stacks
    <3>4. BlocksRead(t2, o2, pos2, L2) <=> BlocksRead(t2, o2, pos2, L) /\ s.match
      <4>1. s.match # (o2[L2] = "else") <=> s.match
        BY <1>1
      <4>2. L2 \in 1 .. L2 /\ \A h \in 1 .. L : h \in 1 .. L2
        BY <1>1
      <4> QED
        BY <1>1, <3>2, <4>1, <4>2 DEF BlocksRead
    <3>5. acc2[1 + HostsOf(o2, L2)] = x
      BY <1>4, <1>6
    <3> QED
      BY <1>6, <3>1, <3>3, <3>4, <3>5
  <2> QED
    BY <2>1, <2>2
<1>9. \A i \in 1 .. L2 : o2[i] = "scope" => scs[ScopesOf(o2, i)] = AttrsAt(t2, pos2[i])
  <2> TAKE i \in 1 .. L2
  <2> HAVE o2[i] = "scope"
  <2>1. i \in 0 .. L /\ i > 0 /\ i \in 1 .. L
    BY <1>1
  <2> QED
    BY <1>1, <1>2, <2>1 DEF Stacks
<1>10. 1 + HostsOf(o2, L2) = 2 + H
  BY <1>4
<1> QED
  BY <1>4, <1>5, <1>6, <1>7, <1>8, <1>9, <1>10 DEF Stacks

\* A block with attributes pushes what it gives.
LEMMA ScopePushed ==
  ASSUME NEW t, NEW s, NEW t2, NEW n, NEW o, NEW L, NEW pos, NEW o2, NEW L2, NEW pos2,
         BlockStep(t, s, t2, n, o, L, pos, o2, L2, pos2),
         NEW acc, NEW scs, NEW read, Stacks(read, t, o, L, pos, acc, scs),
         s.op = "scope", NEW x, x = AttrsAt(t2, n + 1),
         NEW read2, read2 => read
  PROVE  Stacks(read2, t2, o2, L2, pos2, acc, Append(scs, x))
<1>1. /\ L \in Nat /\ n \in Nat /\ L2 = L + 1 /\ \A i \in 1 .. L : o2[i] = o[i]
      /\ o2[L2] = "scope" /\ pos2[L2] = n + 1
  BY DEF BlockStep, Blocks, Moves, Places, Grown
<1>2. \A i \in 0 .. L :
        /\ HostsOf(o2, i) = HostsOf(o, i) /\ ScopesOf(o2, i) = ScopesOf(o, i)
        /\ BlocksRead(t2, o2, pos2, i) <=> BlocksRead(t, o, pos, i)
        /\ i > 0 /\ o[i] = "scope" => AttrsAt(t2, pos2[i]) = AttrsAt(t, pos[i])
  BY <1>1, StayOpen
<1>3. PICK C : C = ScopesOf(o, L)
  OBVIOUS
<1>4. /\ C \in Nat /\ ScopesOf(o2, L2) = C + 1 /\ HostsOf(o2, L2) = HostsOf(o, L)
      /\ \A i \in 1 .. L : o[i] = "scope" => ScopesOf(o, i) \in 1 .. C
  <2>1. L \in 0 .. L
    BY <1>1
  <2>2. HostsOf(o2, L) = HostsOf(o, L) /\ ScopesOf(o2, L) = C /\ C \in Nat
        /\ HostsOf(o2, L) \in Nat
    BY <1>1, <1>2, <1>3, <2>1, KindsAre
  <2>3. /\ HostsOf(o2, L2) = HostsOf(o2, L) + IF o2[L2] # "scope" THEN 1 ELSE 0
        /\ ScopesOf(o2, L2) = ScopesOf(o2, L) + IF o2[L2] = "scope" THEN 1 ELSE 0
    BY <1>1, KindsAre
  <2>4. ASSUME NEW i \in 1 .. L, o[i] = "scope"
        PROVE  ScopesOf(o, i) \in 1 .. C
    <3>1. i - 1 \in Nat /\ i - 1 + 1 = i /\ i \in Nat /\ i <= L
      BY <1>1
    <3>2. ScopesOf(o, i - 1) \in Nat /\ ScopesOf(o, i) = ScopesOf(o, i - 1) + 1
      BY <2>4, <3>1, KindsAre
    <3>3. ScopesOf(o, i) <= C
      BY <1>1, <1>3, <3>1, KindsGrow
    <3> QED
      BY <2>2, <3>2, <3>3
  <2> QED
    BY <1>1, <2>2, <2>3, <2>4
<1>5. PICK scs2 : scs2 = Append(scs, x)
  OBVIOUS
<1>6. /\ \E S : scs2 \in Seq(S)
      /\ Len(scs2) = C + 1 /\ scs2[C + 1] = x
      /\ \A i \in 1 .. C : scs2[i] = scs[i]
  <2>1. PICK S : scs \in Seq(S)
    BY DEF Stacks
  <2>2. PICK S2 : S2 = S \cup {x}
    OBVIOUS
  <2>3. scs \in Seq(S2) /\ x \in S2
    <3>1. S \subseteq S2 /\ x \in S2
      BY <2>2
    <3> QED
      BY <2>1, <3>1
  <2>4. Len(scs) = C
    BY <1>3 DEF Stacks
  <2>5. /\ scs2 \in Seq(S2) /\ Len(scs2) = Len(scs) + 1 /\ scs2[Len(scs) + 1] = x
        /\ \A i \in 1 .. Len(scs) : scs2[i] = scs[i]
    BY <1>5, <2>3, AppendProperties
  <2> QED
    BY <2>4, <2>5
<1>7. \A i \in 0 .. L2 : i \in 0 .. L \/ i = L2
  BY <1>1
<1>8. read2 => \A i \in 0 .. L2 : acc[1 + HostsOf(o2, i)] <=> BlocksRead(t2, o2, pos2, i)
  <2> SUFFICES ASSUME read2, NEW i \in 0 .. L2
               PROVE  acc[1 + HostsOf(o2, i)] <=> BlocksRead(t2, o2, pos2, i)
    OBVIOUS
  <2>1. CASE i \in 0 .. L
    BY <1>2, <2>1 DEF Stacks
  <2>2. CASE i = L2
    <3>1. BlocksRead(t2, o2, pos2, L2) <=> BlocksRead(t2, o2, pos2, L)
      <4>1. \A h : h \in 1 .. L2 <=> h \in 1 .. L \/ h = L2
        BY <1>1
      <4> QED
        BY <1>1, <4>1 DEF BlocksRead
    <3>2. L \in 0 .. L
      BY <1>1
    <3>3. acc[1 + HostsOf(o, L)] <=> BlocksRead(t, o, pos, L)
      BY <3>2 DEF Stacks
    <3> QED
      BY <1>2, <1>4, <2>2, <3>1, <3>2, <3>3
  <2> QED
    BY <1>7, <2>1, <2>2
<1>9. \A i \in 1 .. L2 : o2[i] = "scope" => scs2[ScopesOf(o2, i)] = AttrsAt(t2, pos2[i])
  <2> TAKE i \in 1 .. L2
  <2> HAVE o2[i] = "scope"
  <2>1. CASE i \in 1 .. L
    <3>1. i \in 0 .. L /\ i > 0 /\ o[i] = "scope"
      BY <1>1, <2>1
    <3>2. scs[ScopesOf(o, i)] = AttrsAt(t, pos[i])
      BY <2>1, <3>1 DEF Stacks
    <3> QED
      BY <1>2, <1>4, <1>6, <2>1, <3>1, <3>2
  <2>2. CASE i = L2
    BY <1>1, <1>4, <1>6, <2>2
  <2> QED
    BY <1>1, <2>1, <2>2
<1>10. acc \in Seq(BOOLEAN) /\ acc[1] /\ Len(acc) = 1 + HostsOf(o2, L2)
  BY <1>4 DEF Stacks
<1> QED
  BY <1>4, <1>5, <1>6, <1>8, <1>9, <1>10 DEF Stacks

\* @@endif pops the state.
LEMMA HostPopped ==
  ASSUME NEW t, NEW s, NEW t2, NEW n, NEW o, NEW L, NEW pos, NEW o2, NEW L2, NEW pos2,
         BlockStep(t, s, t2, n, o, L, pos, o2, L2, pos2),
         NEW acc, NEW scs, NEW read, Stacks(read, t, o, L, pos, acc, scs),
         s.op = "close", o[L] # "scope",
         NEW read2, read2 => read
  PROVE  Stacks(read2, t2, o2, L2, pos2, Front(acc), scs)
<1>1. /\ L \in Nat \ {0} /\ L2 = L - 1 /\ L2 \in 0 .. L /\ \A i \in 1 .. L2 : o2[i] = o[i]
  BY DEF BlockStep, Blocks, Moves
<1>2. \A i \in 0 .. L2 :
        /\ HostsOf(o2, i) = HostsOf(o, i) /\ ScopesOf(o2, i) = ScopesOf(o, i)
        /\ BlocksRead(t2, o2, pos2, i) <=> BlocksRead(t, o, pos, i)
        /\ i > 0 /\ o[i] = "scope" => AttrsAt(t2, pos2[i]) = AttrsAt(t, pos[i])
  BY <1>1, StayOpen
<1>3. PICK H : H = HostsOf(o, L2)
  OBVIOUS
<1>4. /\ H \in Nat /\ HostsOf(o2, L2) = H /\ HostsOf(o, L) = H + 1
      /\ ScopesOf(o, L) = ScopesOf(o2, L2)
      /\ \A i \in 0 .. L2 : HostsOf(o, i) \in Nat /\ HostsOf(o, i) <= H
  <2>1. L2 \in 0 .. L2 /\ L2 \in Nat /\ L2 + 1 = L
    BY <1>1
  <2>2. HostsOf(o2, L2) = H /\ ScopesOf(o2, L2) = ScopesOf(o, L2) /\ H \in Nat
        /\ ScopesOf(o, L2) \in Nat
    BY <1>2, <1>3, <2>1, KindsAre
  <2>3. /\ HostsOf(o, L) = HostsOf(o, L2) + IF o[L] # "scope" THEN 1 ELSE 0
        /\ ScopesOf(o, L) = ScopesOf(o, L2) + IF o[L] = "scope" THEN 1 ELSE 0
    BY <2>1, KindsAre
  <2>4. \A i \in 0 .. L2 : HostsOf(o, i) \in Nat /\ HostsOf(o, i) <= H
    <3> TAKE i \in 0 .. L2
    <3>1. i \in Nat /\ i <= L2
      BY <2>1
    <3> QED
      BY <1>3, <2>1, <3>1, KindsAre, KindsGrow
  <2>5. HostsOf(o, L) = H + 1 /\ ScopesOf(o, L) = ScopesOf(o2, L2)
    BY <1>3, <2>2, <2>3
  <2> QED
    BY <2>2, <2>4, <2>5
<1>5. PICK acc2 : acc2 = Front(acc)
  OBVIOUS
<1>6. /\ acc2 \in Seq(BOOLEAN) /\ Len(acc2) = 1 + H
      /\ \A i \in 1 .. 1 + H : acc2[i] = acc[i]
  <2>1. acc \in Seq(BOOLEAN) /\ Len(acc) = 2 + H
    BY <1>4 DEF Stacks
  <2>2. acc # << >>
    BY <1>4, <2>1, EmptySeq
  <2>3. /\ acc2 \in Seq(BOOLEAN) /\ Len(acc2) = Len(acc) - 1
        /\ \A i \in 1 .. Len(acc) - 1 : acc2[i] = acc[i]
    BY <1>5, <2>1, <2>2, FrontParts
  <2>4. Len(acc) - 1 = 1 + H
    BY <1>4, <2>1
  <2> QED
    BY <2>3, <2>4
<1>7. acc2[1]
  <2>1. acc[1] /\ 1 \in 1 .. 1 + H
    BY <1>4 DEF Stacks
  <2> QED
    BY <1>6, <2>1
<1>8. read2 => \A i \in 0 .. L2 : acc2[1 + HostsOf(o2, i)] <=> BlocksRead(t2, o2, pos2, i)
  <2> SUFFICES ASSUME read2, NEW i \in 0 .. L2
               PROVE  acc2[1 + HostsOf(o2, i)] <=> BlocksRead(t2, o2, pos2, i)
    OBVIOUS
  <2>1. i \in 0 .. L
    BY <1>1
  <2>2. acc[1 + HostsOf(o, i)] <=> BlocksRead(t, o, pos, i)
    BY <2>1 DEF Stacks
  <2>3. 1 + HostsOf(o, i) \in 1 .. 1 + H
    BY <1>4
  <2> QED
    BY <1>2, <1>6, <2>2, <2>3
<1>9. \A i \in 1 .. L2 : o2[i] = "scope" => scs[ScopesOf(o2, i)] = AttrsAt(t2, pos2[i])
  <2> TAKE i \in 1 .. L2
  <2> HAVE o2[i] = "scope"
  <2>1. i \in 0 .. L2 /\ i > 0 /\ i \in 1 .. L /\ o[i] = "scope"
    BY <1>1
  <2>2. scs[ScopesOf(o, i)] = AttrsAt(t, pos[i])
    BY <2>1 DEF Stacks
  <2> QED
    BY <1>2, <2>1, <2>2
<1>10. Len(scs) = ScopesOf(o2, L2) /\ \E S : scs \in Seq(S)
  BY <1>4 DEF Stacks
<1> QED
  BY <1>4, <1>5, <1>6, <1>7, <1>8, <1>9, <1>10 DEF Stacks

\* A } pops the attributes.
LEMMA ScopePopped ==
  ASSUME NEW t, NEW s, NEW t2, NEW n, NEW o, NEW L, NEW pos, NEW o2, NEW L2, NEW pos2,
         BlockStep(t, s, t2, n, o, L, pos, o2, L2, pos2),
         NEW acc, NEW scs, NEW read, Stacks(read, t, o, L, pos, acc, scs),
         s.op = "close", o[L] = "scope",
         NEW read2, read2 => read
  PROVE  Stacks(read2, t2, o2, L2, pos2, acc, Front(scs))
<1>1. /\ L \in Nat \ {0} /\ L2 = L - 1 /\ L2 \in 0 .. L /\ \A i \in 1 .. L2 : o2[i] = o[i]
  BY DEF BlockStep, Blocks, Moves
<1>2. \A i \in 0 .. L2 :
        /\ HostsOf(o2, i) = HostsOf(o, i) /\ ScopesOf(o2, i) = ScopesOf(o, i)
        /\ BlocksRead(t2, o2, pos2, i) <=> BlocksRead(t, o, pos, i)
        /\ i > 0 /\ o[i] = "scope" => AttrsAt(t2, pos2[i]) = AttrsAt(t, pos[i])
  BY <1>1, StayOpen
<1>3. PICK C : C = ScopesOf(o, L2)
  OBVIOUS
<1>4. /\ C \in Nat /\ ScopesOf(o2, L2) = C /\ ScopesOf(o, L) = C + 1
      /\ HostsOf(o, L) = HostsOf(o2, L2)
      /\ \A i \in 1 .. L2 : o[i] = "scope" => ScopesOf(o, i) \in 1 .. C
  <2>1. L2 \in 0 .. L2 /\ L2 \in Nat /\ L2 + 1 = L
    BY <1>1
  <2>2. HostsOf(o2, L2) = HostsOf(o, L2) /\ ScopesOf(o2, L2) = C /\ C \in Nat
        /\ HostsOf(o, L2) \in Nat
    BY <1>2, <1>3, <2>1, KindsAre
  <2>3. /\ HostsOf(o, L) = HostsOf(o, L2) + IF o[L] # "scope" THEN 1 ELSE 0
        /\ ScopesOf(o, L) = ScopesOf(o, L2) + IF o[L] = "scope" THEN 1 ELSE 0
    BY <2>1, KindsAre
  <2>4. ASSUME NEW i \in 1 .. L2, o[i] = "scope"
        PROVE  ScopesOf(o, i) \in 1 .. C
    <3>1. i - 1 \in Nat /\ i - 1 + 1 = i /\ i \in Nat /\ i <= L2
      BY <2>1
    <3>2. ScopesOf(o, i - 1) \in Nat /\ ScopesOf(o, i) = ScopesOf(o, i - 1) + 1
      BY <2>4, <3>1, KindsAre
    <3>3. ScopesOf(o, i) <= C
      BY <1>3, <2>1, <3>1, KindsGrow
    <3> QED
      BY <2>2, <3>2, <3>3
  <2>5. ScopesOf(o, L) = C + 1 /\ HostsOf(o, L) = HostsOf(o2, L2)
    BY <1>3, <2>2, <2>3
  <2> QED
    BY <2>2, <2>4, <2>5
<1>5. PICK scs2 : scs2 = Front(scs)
  OBVIOUS
<1>6. /\ \E S : scs2 \in Seq(S)
      /\ Len(scs2) = C
      /\ \A i \in 1 .. C : scs2[i] = scs[i]
  <2>1. PICK S : scs \in Seq(S)
    BY DEF Stacks
  <2>2. Len(scs) = C + 1
    BY <1>4 DEF Stacks
  <2>3. scs # << >>
    BY <1>4, <2>2, EmptySeq
  <2>4. /\ scs2 \in Seq(S) /\ Len(scs2) = Len(scs) - 1
        /\ \A i \in 1 .. Len(scs) - 1 : scs2[i] = scs[i]
    BY <1>5, <2>1, <2>3, FrontParts
  <2>5. Len(scs) - 1 = C
    BY <1>4, <2>2
  <2> QED
    BY <2>4, <2>5
<1>7. read2 => \A i \in 0 .. L2 : acc[1 + HostsOf(o2, i)] <=> BlocksRead(t2, o2, pos2, i)
  <2> SUFFICES ASSUME read2, NEW i \in 0 .. L2
               PROVE  acc[1 + HostsOf(o2, i)] <=> BlocksRead(t2, o2, pos2, i)
    OBVIOUS
  <2>1. i \in 0 .. L
    BY <1>1
  <2> QED
    BY <1>2, <2>1 DEF Stacks
<1>8. \A i \in 1 .. L2 : o2[i] = "scope" => scs2[ScopesOf(o2, i)] = AttrsAt(t2, pos2[i])
  <2> TAKE i \in 1 .. L2
  <2> HAVE o2[i] = "scope"
  <2>1. i \in 0 .. L2 /\ i > 0 /\ i \in 1 .. L /\ o[i] = "scope"
    BY <1>1
  <2>2. scs[ScopesOf(o, i)] = AttrsAt(t, pos[i])
    BY <2>1 DEF Stacks
  <2> QED
    BY <1>2, <1>4, <1>6, <2>1, <2>2
<1>9. acc \in Seq(BOOLEAN) /\ acc[1] /\ Len(acc) = 1 + HostsOf(o2, L2)
  BY <1>4 DEF Stacks
<1> QED
  BY <1>4, <1>5, <1>6, <1>7, <1>8, <1>9 DEF Stacks

\* @@else turns the state on top if the one underneath accepts.
LEMMA HostTurned ==
  ASSUME NEW t, NEW s, NEW t2, NEW n, NEW o, NEW L, NEW pos, NEW o2, NEW L2, NEW pos2,
         BlockStep(t, s, t2, n, o, L, pos, o2, L2, pos2),
         NEW acc, NEW scs, NEW read, Stacks(read, t, o, L, pos, acc, scs),
         s.op = "else", t[pos[L]].match \in BOOLEAN,
         NEW read2, read2 => read
  PROVE  Stacks(read2, t2, o2, L2, pos2, Toggled(acc), scs)
<1>1. /\ L \in Nat \ {0} /\ L2 = L /\ o[L] = "ifhost" /\ o2[L] = "else"
      /\ \A i \in 1 .. L - 1 : o2[i] = o[i]
  BY DEF BlockStep, Blocks, Moves
<1>2. \A i \in 0 .. L - 1 :
        /\ HostsOf(o2, i) = HostsOf(o, i) /\ ScopesOf(o2, i) = ScopesOf(o, i)
        /\ BlocksRead(t2, o2, pos2, i) <=> BlocksRead(t, o, pos, i)
        /\ i > 0 /\ o[i] = "scope" => AttrsAt(t2, pos2[i]) = AttrsAt(t, pos[i])
  <2>1. L - 1 \in 0 .. L /\ L - 1 <= L2
    BY <1>1
  <2> QED
    BY <1>1, <2>1, StayOpen
<1>3. PICK H, M : H = HostsOf(o, M) /\ M = L - 1
  OBVIOUS
<1>4. /\ H \in Nat /\ HostsOf(o, L) = H + 1 /\ HostsOf(o2, L) = H + 1
      /\ ScopesOf(o, L) = ScopesOf(o2, L2)
      /\ \A i \in 0 .. M : HostsOf(o, i) \in Nat /\ HostsOf(o, i) <= H
  <2>1. M \in 0 .. M /\ M \in Nat /\ M + 1 = L
    BY <1>1, <1>3
  <2>2. HostsOf(o2, M) = H /\ ScopesOf(o2, M) = ScopesOf(o, M) /\ H \in Nat
        /\ ScopesOf(o, M) \in Nat
    BY <1>2, <1>3, <2>1, KindsAre
  <2>3. /\ HostsOf(o, L) = HostsOf(o, M) + IF o[L] # "scope" THEN 1 ELSE 0
        /\ ScopesOf(o, L) = ScopesOf(o, M) + IF o[L] = "scope" THEN 1 ELSE 0
        /\ HostsOf(o2, L) = HostsOf(o2, M) + IF o2[L] # "scope" THEN 1 ELSE 0
        /\ ScopesOf(o2, L) = ScopesOf(o2, M) + IF o2[L] = "scope" THEN 1 ELSE 0
    BY <2>1, KindsAre
  <2>4. \A i \in 0 .. M : HostsOf(o, i) \in Nat /\ HostsOf(o, i) <= H
    <3> TAKE i \in 0 .. M
    <3>1. i \in Nat /\ i <= M
      BY <2>1
    <3> QED
      BY <1>3, <2>1, <3>1, KindsAre, KindsGrow
  <2> QED
    BY <1>1, <1>3, <2>2, <2>3, <2>4
<1>5. PICK acc2 : acc2 = Toggled(acc)
  OBVIOUS
<1>6. /\ acc \in Seq(BOOLEAN) /\ Len(acc) = 2 + H
      /\ acc[1 + H] \in BOOLEAN /\ acc[2 + H] \in BOOLEAN
  <2>1. acc \in Seq(BOOLEAN) /\ Len(acc) = 2 + H
    BY <1>4 DEF Stacks
  <2>2. 1 + H \in 1 .. Len(acc) /\ 2 + H \in 1 .. Len(acc)
    BY <1>4, <2>1
  <2> QED
    BY <2>1, <2>2, ElementOfSeq
<1>7. /\ acc2 \in Seq(BOOLEAN) /\ Len(acc2) = 2 + H
      /\ \A i \in 1 .. 1 + H : acc2[i] = acc[i]
      /\ acc2[2 + H] = IF acc[1 + H] THEN ~acc[2 + H] ELSE acc[2 + H]
  <2>1. Len(acc) - 1 = 1 + H
    BY <1>4, <1>6
  <2>2. acc2 = IF acc[1 + H] THEN [acc EXCEPT ![2 + H] = ~acc[2 + H]] ELSE acc
    BY <1>5, <1>6, <2>1 DEF Toggled
  <2>3. PICK b : b = [acc EXCEPT ![2 + H] = ~acc[2 + H]]
    OBVIOUS
  <2>4. /\ b \in Seq(BOOLEAN) /\ Len(b) = 2 + H /\ b[2 + H] = ~acc[2 + H]
        /\ \A i \in 1 .. 1 + H : b[i] = acc[i]
    <3>0. (~acc[2 + H]) \in BOOLEAN
      OBVIOUS
    <3>1. 2 + H \in 1 .. Len(acc) /\ \A i \in 1 .. 1 + H : i # 2 + H /\ i \in 1 .. Len(acc)
      BY <1>4, <1>6
    <3>2. DOMAIN acc = 1 .. Len(acc)
      BY <1>6, LenProperties
    <3>3. b \in Seq(BOOLEAN) /\ Len(b) = Len(acc)
      BY <1>6, <2>3, <3>0, <3>1, ExceptSeq
    <3> QED
      BY <1>6, <2>3, <3>1, <3>2, <3>3
  <2> QED
    BY <1>6, <2>2, <2>3, <2>4
<1>8. acc2[1]
  <2>1. acc[1] /\ 1 \in 1 .. 1 + H
    BY <1>4 DEF Stacks
  <2> QED
    BY <1>7, <2>1
<1>9. read2 => \A i \in 0 .. L2 : acc2[1 + HostsOf(o2, i)] <=> BlocksRead(t2, o2, pos2, i)
  <2> SUFFICES ASSUME read2, NEW i \in 0 .. L2
               PROVE  acc2[1 + HostsOf(o2, i)] <=> BlocksRead(t2, o2, pos2, i)
    OBVIOUS
  <2>0. \A j \in 0 .. L : acc[1 + HostsOf(o, j)] <=> BlocksRead(t, o, pos, j)
    BY DEF Stacks
  <2>1. CASE i \in 0 .. M
    <3>1. i \in 0 .. L /\ i \in 0 .. L - 1
      BY <1>1, <1>3, <2>1
    <3>2. acc[1 + HostsOf(o, i)] <=> BlocksRead(t, o, pos, i)
      BY <2>0, <3>1
    <3>3. 1 + HostsOf(o, i) \in 1 .. 1 + H
      BY <1>4, <2>1
    <3> QED
      BY <1>2, <1>7, <3>1, <3>2, <3>3
  <2>2. CASE i \notin 0 .. M
    <3>1. i = L /\ L \in 0 .. L /\ M \in 0 .. L /\ M \in 0 .. L - 1 /\ L \in 1 .. L
      BY <1>1, <1>3, <2>2
    <3>2. /\ acc[1 + H] <=> BlocksRead(t, o, pos, M)
          /\ acc[2 + H] <=> BlocksRead(t, o, pos, L)
      <4>1. 1 + HostsOf(o, L) = 2 + H
        BY <1>4
      <4> QED
        BY <1>3, <2>0, <3>1, <4>1
    <3>3. BlocksRead(t2, o2, pos2, M) <=> BlocksRead(t, o, pos, M)
      BY <1>2, <3>1
    <3>4. \A h : h \in 1 .. L <=> h \in 1 .. M \/ h = L
      BY <1>1, <1>3
    <3>5. /\ BlocksRead(t, o, pos, L) <=> BlocksRead(t, o, pos, M) /\ t[pos[L]].match # (o[L] = "else")
          /\ BlocksRead(t2, o2, pos2, L)
               <=> BlocksRead(t2, o2, pos2, M) /\ t2[pos2[L]].match # (o2[L] = "else")
      BY <1>1, <3>4 DEF BlocksRead
    <3>6. t2[pos2[L]] = t[pos[L]]
      <4>1. pos[L] \in 1 .. n
        BY <3>1 DEF BlockStep, Blocks
      <4>2. pos2[L] = pos[L]
        BY <1>1, <3>1 DEF BlockStep, Places
      <4> QED
        BY <4>1, <4>2 DEF BlockStep, Grown
    <3>7. /\ t[pos[L]].match # (o[L] = "else") <=> t[pos[L]].match
          /\ t2[pos2[L]].match # (o2[L] = "else") <=> ~t[pos[L]].match
      BY <1>1, <3>6
    <3>8. 1 + HostsOf(o2, L) = 2 + H
      BY <1>4
    <3> QED
      BY <1>6, <1>7, <3>1, <3>2, <3>3, <3>5, <3>7, <3>8
  <2> QED
    BY <2>1, <2>2
<1>10. \A i \in 1 .. L2 : o2[i] = "scope" => scs[ScopesOf(o2, i)] = AttrsAt(t2, pos2[i])
  <2> TAKE i \in 1 .. L2
  <2> HAVE o2[i] = "scope"
  <2>1. i \in 0 .. L - 1 /\ i > 0 /\ i \in 1 .. L /\ o[i] = "scope"
    BY <1>1
  <2>2. scs[ScopesOf(o, i)] = AttrsAt(t, pos[i])
    BY <2>1 DEF Stacks
  <2> QED
    BY <1>2, <2>1, <2>2
<1>11. Len(scs) = ScopesOf(o2, L2) /\ (\E S : scs \in Seq(S)) /\ Len(acc2) = 1 + HostsOf(o2, L2)
  BY <1>1, <1>4, <1>7 DEF Stacks
<1> QED
  BY <1>5, <1>7, <1>8, <1>9, <1>10, <1>11 DEF Stacks

-----------------------------------------------------------------------------
(* The tables of variables                                                 *)

\* tab has the variables that statements op among the n of t have set, with
\* the values they were set to last.
TableIs(t, n, op, tab) ==
  \A v : /\ v \in DOMAIN tab <=> Given(t, n + 1, v, op) # {}
         /\ v \in DOMAIN tab => tab[v] = t[Latest(Given(t, n + 1, v, op))].value

\* The statements that give a variable, with one statement more.
LEMMA GivenGrows ==
  ASSUME NEW t, NEW s, NEW t2, NEW n, Grown(t, s, t2, n), NEW op, NEW v
  PROVE  /\ Given(t, n + 1, v, op) \subseteq 1 .. n
         /\ Given(t2, n + 2, v, op) = IF s.op = op /\ IsLive(t, n + 1) /\ s.var = v
                                      THEN Given(t, n + 1, v, op) \cup {n + 1}
                                      ELSE Given(t, n + 1, v, op)
         /\ \A j \in Given(t, n + 1, v, op) : t2[j] = t[j]
<1>0. /\ n \in Nat /\ t2[n + 1] = s /\ \A j \in 1 .. n : t2[j] = t[j]
      /\ n + 1 < n + 2 /\ \A j \in 1 .. n : j < n + 1 /\ j < n + 2
  BY DEF Grown
<1>1. /\ Live(t, {op}) \subseteq 1 .. n
      /\ Live(t2, {op}) = IF s.op = op /\ IsLive(t, n + 1)
                          THEN Live(t, {op}) \cup {n + 1} ELSE Live(t, {op})
  <2>1. /\ Live(t, {op}) \subseteq 1 .. n
        /\ Live(t2, {op}) = IF s.op \in {op} /\ IsLive(t, n + 1)
                            THEN Live(t, {op}) \cup {n + 1} ELSE Live(t, {op})
    BY LiveGrows
  <2> QED
    BY <2>1
<1>2. PICK L : L = Live(t, {op})
  OBVIOUS
<1>3. Given(t, n + 1, v, op) = {j \in L : t[j].var = v}
  BY <1>0, <1>1, <1>2 DEF Given
<1>4. {j \in L : j < n + 2 /\ t2[j].var = v} = {j \in L : t[j].var = v}
  BY <1>0, <1>1, <1>2
<1>5. CASE s.op = op /\ IsLive(t, n + 1)
  <2>1. Given(t2, n + 2, v, op) = {j \in L \cup {n + 1} : j < n + 2 /\ t2[j].var = v}
    BY <1>1, <1>2, <1>5 DEF Given
  <2>2. Given(t2, n + 2, v, op) = {j \in L : j < n + 2 /\ t2[j].var = v}
                                    \cup IF s.var = v THEN {n + 1} ELSE {}
    BY <1>0, <2>1
  <2> QED
    BY <1>0, <1>1, <1>2, <1>3, <1>4, <1>5, <2>2
<1>6. CASE ~(s.op = op /\ IsLive(t, n + 1))
  <2>1. Given(t2, n + 2, v, op) = {j \in L : j < n + 2 /\ t2[j].var = v}
    BY <1>1, <1>2, <1>6 DEF Given
  <2> QED
    BY <1>0, <1>1, <1>2, <1>3, <1>4, <1>6, <2>1
<1> QED
  BY <1>5, <1>6

\* A statement that sets no variable of the table leaves it as it is.
LEMMA TableStays ==
  ASSUME NEW t, NEW s, NEW t2, NEW n, Grown(t, s, t2, n), NEW op, NEW tab,
         TableIs(t, n, op, tab), ~(s.op = op /\ IsLive(t, n + 1))
  PROVE  TableIs(t2, n + 1, op, tab)
<1>0. n \in Nat /\ n + 1 + 1 = n + 2
  BY DEF Grown
<1> SUFFICES ASSUME NEW v
             PROVE  /\ v \in DOMAIN tab <=> Given(t2, n + 2, v, op) # {}
                    /\ v \in DOMAIN tab => tab[v] = t2[Latest(Given(t2, n + 2, v, op))].value
  BY <1>0 DEF TableIs
<1>1. PICK g : g = Given(t, n + 1, v, op)
  OBVIOUS
<1>2. g \subseteq 1 .. n /\ Given(t2, n + 2, v, op) = g /\ \A j \in g : t2[j] = t[j]
  <2>1. ~(s.op = op /\ IsLive(t, n + 1) /\ s.var = v)
    OBVIOUS
  <2>2. /\ g \subseteq 1 .. n
        /\ Given(t2, n + 2, v, op) = IF s.op = op /\ IsLive(t, n + 1) /\ s.var = v
                                     THEN g \cup {n + 1} ELSE g
        /\ \A j \in g : t2[j] = t[j]
    BY <1>1, GivenGrows
  <2> QED
    BY <2>1, <2>2
<1>3. /\ v \in DOMAIN tab <=> g # {}
      /\ v \in DOMAIN tab => tab[v] = t[Latest(g)].value
  BY <1>1 DEF TableIs
<1>4. g # {} => Latest(g) \in g
  <2>1. g \in SUBSET Nat /\ \A j \in g : j <= n
    BY <1>0, <1>2
  <2> QED
    BY <1>0, <2>1, LatestIs
<1> QED
  BY <1>2, <1>3, <1>4

\* An assignment gives its variable a new value.
LEMMA TableSet ==
  ASSUME NEW t, NEW s, NEW t2, NEW n, Grown(t, s, t2, n), NEW op, NEW tab,
         TableIs(t, n, op, tab), s.op = op, IsLive(t, n + 1),
         NEW a, a.var = s.var, a.value = s.value
  PROVE  TableIs(t2, n + 1, op, WithValue(tab, a))
<1>0. n \in Nat /\ n + 1 + 1 = n + 2 /\ t2[n + 1] = s /\ \A j \in 1 .. n : j <= n + 1
  BY DEF Grown
<1>1. PICK tab2 : tab2 = WithValue(tab, a)
  OBVIOUS
<1>2. /\ DOMAIN tab2 = {s.var} \cup DOMAIN tab
      /\ tab2[s.var] = s.value
      /\ \A v \in DOMAIN tab : v # s.var => tab2[v] = tab[v]
  BY <1>1 DEF WithValue
<1> SUFFICES ASSUME NEW v
             PROVE  /\ v \in DOMAIN tab2 <=> Given(t2, n + 2, v, op) # {}
                    /\ v \in DOMAIN tab2 => tab2[v] = t2[Latest(Given(t2, n + 2, v, op))].value
  BY <1>0, <1>1 DEF TableIs
<1>3. PICK g : g = Given(t, n + 1, v, op)
  OBVIOUS
<1>4. /\ g \subseteq 1 .. n
      /\ Given(t2, n + 2, v, op) = IF s.var = v THEN g \cup {n + 1} ELSE g
      /\ \A j \in g : t2[j] = t[j]
  <2>1. /\ g \subseteq 1 .. n
        /\ Given(t2, n + 2, v, op) = IF s.op = op /\ IsLive(t, n + 1) /\ s.var = v
                                     THEN g \cup {n + 1} ELSE g
        /\ \A j \in g : t2[j] = t[j]
    <3>1. /\ Given(t, n + 1, v, op) \subseteq 1 .. n
          /\ Given(t2, n + 2, v, op) = IF s.op = op /\ IsLive(t, n + 1) /\ s.var = v
                                       THEN Given(t, n + 1, v, op) \cup {n + 1}
                                       ELSE Given(t, n + 1, v, op)
          /\ \A j \in Given(t, n + 1, v, op) : t2[j] = t[j]
      BY ONLY Grown(t, s, t2, n), GivenGrows
    <3> QED
      BY ONLY <1>3, <3>1
  <2> QED
    BY <2>1
<1>5. /\ v \in DOMAIN tab <=> g # {}
      /\ v \in DOMAIN tab => tab[v] = t[Latest(g)].value
  BY <1>3 DEF TableIs
<1>6. g # {} => Latest(g) \in g
  <2>1. g \in SUBSET Nat /\ \A j \in g : j <= n
    BY <1>0, <1>4
  <2> QED
    BY <1>0, <2>1, LatestIs
<1>7. CASE s.var = v
  <2>1. PICK h : h = g \cup {n + 1}
    OBVIOUS
  <2>2. h \in SUBSET Nat /\ n + 1 \in h /\ \A j \in h : j <= n + 1
    <3>1. g \in SUBSET Nat /\ \A j \in g : j <= n + 1
      BY <1>0, <1>4
    <3>2. n + 1 \in Nat /\ n + 1 <= n + 1
      BY <1>0
    <3> QED
      BY <2>1, <3>1, <3>2
  <2>3. Latest(h) = n + 1
    BY <2>2, LatestAre
  <2> QED
    BY <1>0, <1>2, <1>4, <1>7, <2>1, <2>2, <2>3
<1>8. CASE s.var # v
  BY <1>2, <1>4, <1>5, <1>6, <1>8
<1> QED
  BY <1>7, <1>8

\* What the tables say of a variable is what the text says.
LEMMA TablesSay ==
  ASSUME NEW t, NEW n \in Nat,
         TableIs(t, n, "assign", locals), TableIs(t, n, "assign global", globals), NEW v
  PROVE  /\ Known(v) <=> IsGiven(t, n + 1, v)
         /\ IsGiven(t, n + 1, v) => Lookup(v) = ValueAt(t, n + 1, v)
<1>1. PICK a, g : a = Given(t, n + 1, v, "assign") /\ g = Given(t, n + 1, v, "assign global")
  OBVIOUS
<1>2. IsGiven(t, n + 1, v) <=> v \in DOMAIN Predefined \/ a # {} \/ g # {}
  <2>1. \A j : j \in Live(t, {"assign", "assign global"})
                 <=> j \in Live(t, {"assign"}) \/ j \in Live(t, {"assign global"})
    BY DEF Live
  <2> QED
    BY <1>1, <2>1 DEF IsGiven, Given
<1>3. ValueAt(t, n + 1, v) =
        CASE v \in DOMAIN Predefined -> Predefined[v]
          [] v \notin DOMAIN Predefined /\ a # {} -> t[Latest(a)].value
          [] OTHER -> t[Latest(g)].value
  BY <1>1 DEF ValueAt, Given
<1>4. /\ v \in DOMAIN locals <=> a # {}
      /\ v \in DOMAIN locals => locals[v] = t[Latest(a)].value
      /\ v \in DOMAIN globals <=> g # {}
      /\ v \in DOMAIN globals => globals[v] = t[Latest(g)].value
  BY <1>1 DEF TableIs
<1> QED
  BY <1>2, <1>3, <1>4 DEF Known, Lookup

-----------------------------------------------------------------------------
(* The attributes of the blocks around a statement                         *)

\* The blocks around the place behind n statements that give attribute a.
Outer(t, n, a) ==
  {j \in 1 .. n : Encloses(t, j, n + 1) /\ t[j].op = "scope" /\ a \in DOMAIN t[j].attrs}

\* What encloses a block encloses what is in the block.
LEMMA EnclosesThrough ==
  ASSUME NEW t, NEW j \in Nat, NEW p \in Nat, NEW k \in Nat, Encloses(t, j, p), Encloses(t, p, k)
  PROVE  Encloses(t, j, k)
<1>1. j < p /\ p < k /\ Opens(t, j) /\ Opens(t, p)
  BY DEF Encloses
<1>2. \A m \in Nat : Level(t, m) \in Int
  BY LevelIs
<1>3. PICK x, y : x = Level(t, j) /\ y = Level(t, p)
  OBVIOUS
<1>4. PICK q \in Nat : p = q + 1 /\ (q = j \/ q \in j + 1 .. p - 1)
  <2>1. p - 1 \in Nat /\ p = p - 1 + 1 /\ (p - 1 = j \/ p - 1 \in j + 1 .. p - 1)
    BY <1>1
  <2> QED
    BY <2>1
<1>5. t[q + 1].op # "close" /\ Opens(t, q + 1)
  BY <1>1, <1>4 DEF Opens
<1>6. Level(t, p) = Level(t, q) + 1
  BY <1>2, <1>4, <1>5, LevelNext
<1>7. Level(t, q) >= x
  <2>1. \A m \in j + 1 .. p - 1 : Level(t, m) >= x
    BY <1>3 DEF Encloses
  <2>2. x \in Int
    BY <1>2, <1>3
  <2> QED
    BY <1>3, <1>4, <2>1, <2>2
<1>8. y >= x /\ y \in Int /\ x \in Int
  BY <1>2, <1>3, <1>4, <1>6, <1>7
<1>9. ASSUME NEW m \in j + 1 .. k - 1
      PROVE  Level(t, m) >= x
  <2>1. m \in j + 1 .. p - 1 \/ m = p \/ m \in p + 1 .. k - 1
    BY <1>1
  <2>2. CASE m \in j + 1 .. p - 1
    BY <1>3, <2>2 DEF Encloses
  <2>3. CASE m = p
    BY <1>3, <1>8, <2>3
  <2>4. CASE m \in p + 1 .. k - 1
    <3>1. Level(t, m) >= y
      BY <1>3, <2>4 DEF Encloses
    <3>2. Level(t, m) \in Int
      BY <1>2
    <3> QED
      BY <1>8, <3>1, <3>2
  <2> QED
    BY <2>1, <2>2, <2>3, <2>4
<1>10. j < k
  BY <1>1
<1> QED
  BY <1>1, <1>3, <1>9, <1>10 DEF Encloses

\* The innermost block with attributes stands for all of them.
LEMMA InnermostGives ==
  ASSUME NEW t, NEW n, NEW o, NEW L, NEW pos, Blocks(t, n, o, L, pos),
         NEW i \in 1 .. L, o[i] = "scope", \A h \in 1 .. L : o[h] = "scope" => h <= i, NEW a
  PROVE  Outer(t, n, a) = Givers(t, pos[i], a)
<1>0. n \in Nat /\ L \in Nat
  BY DEF Blocks
<1>1. PICK p : p = pos[i]
  OBVIOUS
<1>2. p \in 1 .. n /\ Encloses(t, p, n + 1) /\ t[p].op = "scope"
  BY <1>1 DEF Blocks
<1>3. ASSUME NEW j \in Outer(t, n, a)
      PROVE  j \in Givers(t, p, a)
  <2>1. j \in 1 .. n /\ Encloses(t, j, n + 1) /\ t[j].op = "scope" /\ a \in DOMAIN t[j].attrs
    BY DEF Outer
  <2>2. PICK h \in 1 .. L : j = pos[h]
    BY <2>1 DEF Blocks
  <2>3. o[h] = "scope"
    BY <2>1, <2>2 DEF Blocks
  <2>4. h <= i
    BY <2>3
  <2>5. CASE h = i
    <3>1. j = p /\ j \in 1 .. p
      BY <1>1, <1>2, <2>2, <2>5
    <3> QED
      BY <2>1, <3>1 DEF Givers
  <2>6. CASE h # i
    <3>1. h < i
      BY <1>0, <2>4, <2>6
    <3>2. j < p
      BY <1>1, <2>2, <3>1 DEF Blocks
    <3>3. j \in 1 .. p /\ \A m \in j + 1 .. p - 1 : m \in j + 1 .. n + 1 - 1
      BY <1>0, <1>2, <2>1, <3>2
    <3>4. Encloses(t, j, p)
      <4>1. PICK x, y : x = (j + 1 .. p - 1) /\ y = (j + 1 .. n + 1 - 1)
        OBVIOUS
      <4>2. Opens(t, j) /\ \A m \in y : Level(t, m) >= Level(t, j)
        BY <1>0, <2>1, <4>1 DEF Encloses
      <4>3. \A m \in x : m \in y
        BY <3>3, <4>1
      <4> QED
        BY <3>2, <4>1, <4>2, <4>3 DEF Encloses
    <3> QED
      BY <2>1, <3>3, <3>4 DEF Givers
  <2> QED
    BY <2>5, <2>6
<1>4. ASSUME NEW j \in Givers(t, p, a)
      PROVE  j \in Outer(t, n, a)
  <2>1. /\ j \in 1 .. p /\ a \in DOMAIN t[j].attrs
        /\ j = p \/ (Encloses(t, j, p) /\ t[j].op = "scope")
    BY DEF Givers
  <2>2. j \in 1 .. n /\ j \in Nat /\ p \in Nat /\ n + 1 \in Nat
    BY <1>0, <1>2, <2>1
  <2>3. Encloses(t, j, n + 1) /\ t[j].op = "scope"
    BY <1>2, <2>1, <2>2, EnclosesThrough
  <2> QED
    BY <2>1, <2>2, <2>3 DEF Outer
<1> QED
  BY <1>1, <1>3, <1>4

\* cParserHelper::GetGlobalAttrList gives what the blocks around give.
LEMMA TopGives ==
  ASSUME NEW t, NEW n, NEW o, NEW L, NEW pos, Blocks(t, n, o, L, pos),
         NEW read, NEW acc, NEW scs, Stacks(read, t, o, L, pos, acc, scs)
  PROVE  \/ scs = << >> /\ \A a : Outer(t, n, a) = {}
         \/ scs # << >> /\ \E p \in 1 .. n : /\ t[p].op = "scope"
                                            /\ Last(scs) = AttrsAt(t, p)
                                            /\ \A a : Outer(t, n, a) = Givers(t, p, a)
<1>0. n \in Nat /\ L \in Nat
  BY DEF Blocks
<1>1. PICK S : S = {i \in 1 .. L : o[i] = "scope"}
  OBVIOUS
<1>2. PICK T : scs \in Seq(T)
  BY DEF Stacks
<1>3. IsFiniteSet(S)
  BY <1>0, <1>1, FS_Interval, FS_Subset
<1>4. Len(scs) = Cardinality(S) /\ ScopesOf(o, L) = Cardinality(S)
  BY <1>1 DEF Stacks, ScopesOf
<1>5. CASE S = {}
  <2>1. scs = << >>
    BY <1>2, <1>4, <1>5, FS_EmptySet, EmptySeq
  <2>2. ASSUME NEW a
        PROVE  Outer(t, n, a) = {}
    <3> SUFFICES ASSUME NEW j \in Outer(t, n, a)
                 PROVE  FALSE
      OBVIOUS
    <3>1. j \in 1 .. n /\ Encloses(t, j, n + 1) /\ t[j].op = "scope"
      BY DEF Outer
    <3>2. PICK h \in 1 .. L : j = pos[h]
      BY <3>1 DEF Blocks
    <3>3. o[h] = "scope"
      BY <3>1, <3>2 DEF Blocks
    <3> QED
      BY <1>1, <1>5, <3>3
  <2> QED
    BY <2>1, <2>2
<1>6. CASE S # {}
  <2>1. S \in SUBSET Nat /\ \A x \in S : x <= L
    BY <1>0, <1>1
  <2>2. PICK i \in S : \A h \in S : h <= i
    BY <1>0, <1>6, <2>1, GreatestNumber
  <2>3. i \in 1 .. L /\ o[i] = "scope" /\ \A h \in 1 .. L : o[h] = "scope" => h <= i
    BY <1>1, <2>2
  <2>4. ScopesOf(o, i) = Cardinality(S)
    <3>1. {j \in 1 .. i : o[j] = "scope"} = S
      BY <1>0, <1>1, <2>3
    <3> QED
      BY <3>1 DEF ScopesOf
  <2>5. scs[Len(scs)] = AttrsAt(t, pos[i])
    BY <1>4, <2>3, <2>4 DEF Stacks
  <2>6. scs # << >>
    <3>1. Cardinality(S) # 0
      BY <1>3, <1>6, FS_EmptySet
    <3> QED
      BY <1>2, <1>4, <3>1, EmptySeq
  <2>7. pos[i] \in 1 .. n /\ t[pos[i]].op = "scope"
    BY <2>3 DEF Blocks
  <2>8. \A a : Outer(t, n, a) = Givers(t, pos[i], a)
    BY <2>3, InnermostGives
  <2> QED
    BY <2>5, <2>6, <2>7, <2>8 DEF Last
<1> QED
  BY <1>5, <1>6

\* The statements that give an attribute to a new statement: itself and what
\* gives it to the innermost block with attributes.
LEMMA NewGivers ==
  ASSUME NEW t, NEW s, NEW t2, NEW n, Grown(t, s, t2, n), NEW a
  PROVE  /\ Givers(t2, n + 1, a) = (IF a \in DOMAIN s.attrs THEN {n + 1} ELSE {}) \cup Outer(t, n, a)
         /\ Outer(t, n, a) \subseteq 1 .. n
         /\ \A j \in Outer(t, n, a) : t2[j] = t[j]
<1>0. n \in Nat /\ t2[n + 1] = s /\ \A j \in 1 .. n : t2[j] = t[j] /\ j # n + 1
  BY DEF Grown
<1>1. \A j : j \in 1 .. n + 1 <=> j \in 1 .. n \/ j = n + 1
  BY <1>0
<1>2. \A j \in 1 .. n : Encloses(t2, j, n + 1) <=> Encloses(t, j, n + 1)
  <2> TAKE j \in 1 .. n
  <2>1. PICK k : k = n + 1
    OBVIOUS
  <2>2. k \in 1 .. n + 1 /\ j \in 1 .. k - 1
    BY <1>0, <2>1
  <2>3. Encloses(t2, j, k) <=> Encloses(t, j, k)
    BY <2>2, SameEnclosing
  <2> QED
    BY <2>1, <2>3
<1>3. ~Encloses(t2, n + 1, n + 1)
  BY <1>0 DEF Encloses
<1>4. \A j : j \in Givers(t2, n + 1, a)
               <=> \/ j = n + 1 /\ a \in DOMAIN s.attrs
                   \/ j \in 1 .. n /\ Encloses(t, j, n + 1) /\ t[j].op = "scope" /\ a \in DOMAIN t[j].attrs
  BY <1>0, <1>1, <1>2, <1>3 DEF Givers
<1> QED
  BY <1>0, <1>4 DEF Outer

\* The attributes that count.
Named == {"severity", "emailto", "recurse"}
\* All addresses of some statements.
Addresses(t, S) == UNION {t[j].attrs.emailto : j \in S}

\* An attribute that the statement itself does not give is the one of the
\* block around it.
LEMMA InheritedAttr ==
  ASSUME NEW t, NEW s, NEW t2, NEW n, Grown(t, s, t2, n), VariablesGiven(t),
         NEW p \in 1 .. n, t[p].op = "scope", NEW a,
         Givers(t, p, a) # {}, Givers(t2, n + 1, a) = Givers(t, p, a)
  PROVE  AttrAt(t2, n + 1, a) = AttrAt(t, p, a)
<1>0. n \in Nat /\ DOMAIN t = 1 .. n /\ \A j \in 1 .. n : t2[j] = t[j]
  BY DEF Grown
<1>1. PICK G, i : G = Givers(t, p, a) /\ i = Latest(G)
  OBVIOUS
<1>2. i \in G /\ G \subseteq 1 .. p /\ \A j \in G : t[j].op \in {"rule", "scope"}
  <2>1. p \in Nat
    BY <1>0
  <2>2. Latest(Givers(t, p, a)) \in Givers(t, p, a)
    BY <2>1, GiversAre
  <2> QED
    BY <1>1, <2>2 DEF Givers
<1>3. \A j \in G : j \in 1 .. n /\ t2[j] = t[j]
  BY <1>0, <1>2
<1>4. UNION {t2[j].attrs.emailto : j \in G} = UNION {t[j].attrs.emailto : j \in G}
  BY <1>3
<1>5. ASSUME UsesVariable(t[i].attrs)
      PROVE  ValueAt(t2, i, t[i].attrs.severity) = ValueAt(t, i, t[i].attrs.severity)
  <2>1. i \in 1 .. n /\ HasAttrs(t, i)
    BY <1>2, <1>3 DEF HasAttrs
  <2>2. IsGiven(t, i, t[i].attrs.severity)
    BY <1>0, <1>5, <2>1 DEF VariablesGiven
  <2>3. i \in 1 .. n + 1
    BY <1>0, <2>1
  <2> QED
    BY <2>2, <2>3, SameValue
<1>6. AttrAt(t2, n + 1, a) =
        CASE a = "emailto" -> UNION {t2[j].attrs.emailto : j \in G}
          [] a = "severity" /\ UsesVariable(t2[i].attrs) -> ValueAt(t2, i, t2[i].attrs.severity)
          [] OTHER -> t2[i].attrs[a]
  BY <1>1 DEF AttrAt
<1>7. AttrAt(t, p, a) =
        CASE a = "emailto" -> UNION {t[j].attrs.emailto : j \in G}
          [] a = "severity" /\ UsesVariable(t[i].attrs) -> ValueAt(t, i, t[i].attrs.severity)
          [] OTHER -> t[i].attrs[a]
  BY <1>1 DEF AttrAt
<1>8. t2[i] = t[i]
  BY <1>2, <1>3
<1> QED
  BY <1>4, <1>5, <1>6, <1>7, <1>8

\* An attribute that the statement gives goes before those around it, but
\* for the addresses.
LEMMA OwnAttr ==
  ASSUME NEW t, NEW s, NEW t2, NEW n, Grown(t, s, t2, n),
         NEW a \in DOMAIN s.attrs,
         UsesVariable(s.attrs) => IsGiven(t, n + 1, s.attrs.severity)
  PROVE  /\ a = "emailto" =>
              AttrAt(t2, n + 1, a) = s.attrs.emailto \cup Addresses(t, Outer(t, n, a))
         /\ a = "severity" /\ UsesVariable(s.attrs) =>
              AttrAt(t2, n + 1, a) = ValueAt(t, n + 1, s.attrs.severity)
         /\ a # "emailto" /\ ~(a = "severity" /\ UsesVariable(s.attrs)) =>
              AttrAt(t2, n + 1, a) = s.attrs[a]
<1>0. n \in Nat /\ t2[n + 1] = s
  BY DEF Grown
<1>1. PICK G, O : G = Givers(t2, n + 1, a) /\ O = Outer(t, n, a)
  OBVIOUS
<1>2. G = {n + 1} \cup O /\ O \subseteq 1 .. n /\ \A j \in O : t2[j] = t[j]
  <2>1. /\ Givers(t2, n + 1, a) = (IF a \in DOMAIN s.attrs THEN {n + 1} ELSE {}) \cup Outer(t, n, a)
        /\ Outer(t, n, a) \subseteq 1 .. n
        /\ \A j \in Outer(t, n, a) : t2[j] = t[j]
    BY NewGivers
  <2> QED
    BY <1>1, <2>1
<1>3. Latest(G) = n + 1
  <2>1. \A j \in O : j \in Nat /\ j <= n + 1
    BY <1>0, <1>2
  <2>2. n + 1 \in Nat /\ n + 1 <= n + 1
    BY <1>0
  <2>3. G \in SUBSET Nat /\ n + 1 \in G /\ \A j \in G : j <= n + 1
    BY <1>2, <2>1, <2>2
  <2> QED
    BY <2>3, LatestAre
<1>4. AttrAt(t2, n + 1, a) =
        CASE a = "emailto" -> UNION {t2[j].attrs.emailto : j \in G}
          [] a = "severity" /\ UsesVariable(s.attrs) -> ValueAt(t2, n + 1, s.attrs.severity)
          [] OTHER -> s.attrs[a]
  BY <1>0, <1>1, <1>3 DEF AttrAt
<1>5. UNION {t2[j].attrs.emailto : j \in G} = s.attrs.emailto \cup Addresses(t, O)
  <2>1. \A j : j \in G <=> j = n + 1 \/ j \in O
    BY <1>2
  <2> QED
    BY <1>0, <1>2, <2>1 DEF Addresses
<1>6. UsesVariable(s.attrs) =>
        ValueAt(t2, n + 1, s.attrs.severity) = ValueAt(t, n + 1, s.attrs.severity)
  <2>1. n + 1 \in 1 .. n + 1
    BY <1>0
  <2> QED
    BY <2>1, SameValue
<1> QED
  BY <1>1, <1>4, <1>5, <1>6

\* g has what the blocks around the new statement give; D it gives itself.
Inherits(t, t2, n, D, g) ==
  /\ DOMAIN g \subseteq Named
  /\ \A a \in Named :
       /\ a \in DOMAIN g <=> Outer(t, n, a) # {}
       /\ a \in DOMAIN g /\ a \notin D => g[a] = AttrAt(t2, n + 1, a)
       /\ a \in DOMAIN g /\ a = "emailto" =>
            g[a] = Addresses(t, Outer(t, n, a))

\* cParseNamedAttrList::MergeNoOverwrite of the statement's attributes and
\* those around it makes what the text says.
LEMMA MergedAre ==
  ASSUME NEW t, NEW s, NEW t2, NEW n, Grown(t, s, t2, n), VariablesGiven(t),
         NEW o, NEW L, NEW pos, Blocks(t, n, o, L, pos),
         NEW read, NEW acc, NEW scs, Stacks(read, t, o, L, pos, acc, scs),
         DOMAIN s.attrs \subseteq Named,
         UsesVariable(s.attrs) => IsGiven(t, n + 1, s.attrs.severity),
         NEW e, DOMAIN e = DOMAIN s.attrs,
         \A a \in DOMAIN e : e[a] = IF a = "severity" /\ UsesVariable(s.attrs)
                                    THEN ValueAt(t, n + 1, s.attrs.severity) ELSE s.attrs[a],
         NEW g, g = IF scs = << >> THEN << >> ELSE Last(scs)
  PROVE  MergeNoOverwrite(e, g) = AttrsAt(t2, n + 1)
<1>1. PICK D : D = DOMAIN s.attrs
  OBVIOUS
<1>2. Inherits(t, t2, n, D, g)
  <2>1. CASE scs = << >> /\ \A a : Outer(t, n, a) = {}
    BY <2>1 DEF Inherits
  <2>2. ASSUME scs # << >>, NEW p \in 1 .. n, t[p].op = "scope", Last(scs) = AttrsAt(t, p),
               \A a : Outer(t, n, a) = Givers(t, p, a)
        PROVE  Inherits(t, t2, n, D, g)
    <3>1. g = AttrsAt(t, p)
      BY <2>2
    <3>2. DOMAIN g = {a \in Named : Givers(t, p, a) # {}} /\ \A a \in DOMAIN g : g[a] = AttrAt(t, p, a)
      BY <3>1 DEF AttrsAt, Named
    <3>3. \A a \in Named : a \in DOMAIN g <=> Outer(t, n, a) # {}
      BY <2>2, <3>2
    <3>4. ASSUME NEW a \in DOMAIN g, a \notin D
          PROVE  g[a] = AttrAt(t2, n + 1, a)
      <4>1. Givers(t2, n + 1, a) = (IF a \in DOMAIN s.attrs THEN {n + 1} ELSE {}) \cup Outer(t, n, a)
        BY NewGivers
      <4>2. Givers(t2, n + 1, a) = Givers(t, p, a) /\ Givers(t, p, a) # {}
        BY <1>1, <2>2, <3>2, <3>4, <4>1
      <4>3. AttrAt(t2, n + 1, a) = AttrAt(t, p, a)
        BY <2>2, <4>2, InheritedAttr
      <4> QED
        BY <3>2, <4>3
    <3>5. "emailto" \in DOMAIN g =>
            g["emailto"] = Addresses(t, Outer(t, n, "emailto"))
      BY <2>2, <3>2 DEF AttrAt, Addresses
    <3> QED
      BY <3>2, <3>3, <3>4, <3>5 DEF Inherits
  <2> QED
    BY <2>1, <2>2, TopGives
<1>3. PICK m : m = MergeNoOverwrite(e, g)
  OBVIOUS
<1>4. /\ DOMAIN m = D \cup DOMAIN g
      /\ m = [a \in D \cup DOMAIN g |-> m[a]]
      /\ \A a \in D \cup DOMAIN g :
           m[a] = IF a = "emailto" /\ a \in D \cap DOMAIN g
                  THEN e[a] \cup g[a] ELSE IF a \in D THEN e[a] ELSE g[a]
  BY <1>1, <1>3 DEF MergeNoOverwrite
<1>5. \A a \in Named : Givers(t2, n + 1, a) # {} <=> a \in D \cup DOMAIN g
  <2> TAKE a \in Named
  <2>1. Givers(t2, n + 1, a) = (IF a \in DOMAIN s.attrs THEN {n + 1} ELSE {}) \cup Outer(t, n, a)
    BY NewGivers
  <2> QED
    BY <1>1, <1>2, <2>1 DEF Inherits
<1>6. {a \in Named : Givers(t2, n + 1, a) # {}} = D \cup DOMAIN g
  BY <1>1, <1>2, <1>5 DEF Inherits
<1>7. ASSUME NEW a \in D \cup DOMAIN g
      PROVE  m[a] = AttrAt(t2, n + 1, a)
  <2>1. CASE a \notin D
    BY <1>2, <1>4, <1>7, <2>1 DEF Inherits
  <2>2. CASE a \in D
    <3>1. /\ a = "emailto" =>
               AttrAt(t2, n + 1, a) = s.attrs.emailto \cup Addresses(t, Outer(t, n, a))
          /\ a = "severity" /\ UsesVariable(s.attrs) =>
               AttrAt(t2, n + 1, a) = ValueAt(t, n + 1, s.attrs.severity)
          /\ a # "emailto" /\ ~(a = "severity" /\ UsesVariable(s.attrs)) =>
               AttrAt(t2, n + 1, a) = s.attrs[a]
      <4>1. a \in DOMAIN s.attrs
        BY <1>1, <2>2
      <4> QED
        BY ONLY <4>1, Grown(t, s, t2, n),
                UsesVariable(s.attrs) => IsGiven(t, n + 1, s.attrs.severity), OwnAttr
    <3>2. e[a] = IF a = "severity" /\ UsesVariable(s.attrs)
                 THEN ValueAt(t, n + 1, s.attrs.severity) ELSE s.attrs[a]
      BY <1>1, <2>2
    <3>3. a \in Named
      BY <1>1, <2>2
    <3>4. CASE a # "emailto"
      BY <1>4, <2>2, <3>1, <3>2, <3>4
    <3>5. CASE a = "emailto"
      <4>1. e[a] = s.attrs.emailto
        BY <3>2, <3>5
      <4>2. AttrAt(t2, n + 1, a) = s.attrs.emailto \cup Addresses(t, Outer(t, n, a))
        BY <3>1, <3>5
      <4>3. CASE a \in DOMAIN g
        <5>1. g[a] = Addresses(t, Outer(t, n, a))
          BY <1>2, <3>3, <3>5, <4>3 DEF Inherits
        <5>2. m[a] = e[a] \cup g[a]
          BY <1>4, <2>2, <3>5, <4>3
        <5> QED
          BY <4>1, <4>2, <5>1, <5>2
      <4>4. CASE a \notin DOMAIN g
        <5>1. Addresses(t, Outer(t, n, a)) = {}
          BY <1>2, <3>3, <3>5, <4>4 DEF Inherits, Addresses
        <5>2. m[a] = e[a]
          BY <1>4, <2>2, <4>4
        <5> QED
          BY <4>1, <4>2, <5>1, <5>2
      <4> QED
        BY <4>3, <4>4
    <3> QED
      BY <3>4, <3>5
  <2> QED
    BY <2>1, <2>2
<1>8. AttrsAt(t2, n + 1) = [a \in D \cup DOMAIN g |-> AttrAt(t2, n + 1, a)]
  BY <1>6 DEF AttrsAt, Named
<1> QED
  BY <1>3, <1>4, <1>7, <1>8

-----------------------------------------------------------------------------
(* Faults                                                                  *)

\* Among the n statements one has begun the section FS.
Begun(t, n) ==
  \E j \in 1 .. n : \/ t[j].op = "section" /\ t[j].section = "FS"
                    \/ j \in Live(t, {"rule", "stop", "assign"})
                    \/ j \in Live(t, {"scope"}) /\ UsesVariable(t[j].attrs)

\* The statement s is at fault behind the n statements of t.
Fails(t, n, s) ==
  \/ s.op = "assign" /\ IsLive(t, n + 1) /\ s.var \in DOMAIN Predefined
  \/ /\ s.op \in {"rule", "stop"} /\ IsLive(t, n + 1)
     /\ \E j \in Live(t, {"rule", "stop"}) : t[j].name = s.name
  \/ /\ s.op \in {"rule", "scope"} /\ UsesVariable(s.attrs)
     /\ IsLive(t, n + 1) => ~IsGiven(t, n + 1, s.attrs.severity)
  \/ s.op = "section" /\ Level(t, n) > 0
  \/ s.op = "section" /\ s.section = "FS" /\ Begun(t, n)
  \/ s.op = "end" /\ (Level(t, n) > 0 \/ Live(t, {"rule"}) = {})
  \/ s.op = "error" /\ IsLive(t, n + 1)

\* The new statement is at fault for a reason that lies before it.
LEMMA NewFault ==
  ASSUME NEW t, NEW s, NEW t2, NEW n, Grown(t, s, t2, n)
  PROVE  FaultAt(t2, n + 1) <=> Fails(t, n, s)
<1>0. /\ n \in Nat /\ n + 1 \in 1 .. n + 1 /\ t2[n + 1] = s /\ \A j \in 1 .. n : t2[j] = t[j] /\ j < n + 1
      /\ n + 1 - 1 = n
      /\ \A j \in 1 .. n + 1 : j < n + 1 <=> j \in 1 .. n
  BY DEF Grown
<1>1. \A ops : /\ Live(t, ops) \subseteq 1 .. n /\ Live(t2, ops) \subseteq 1 .. n + 1
               /\ \A j \in 1 .. n : j \in Live(t2, ops) <=> j \in Live(t, ops)
               /\ n + 1 \in Live(t2, ops) <=> s.op \in ops /\ IsLive(t, n + 1)
  <2> TAKE ops
  <2>1. Live(t2, ops) \subseteq 1 .. n + 1
    BY DEF Live, Grown
  <2>2. IsLive(t2, n + 1) <=> IsLive(t, n + 1)
    BY <1>0, SameLive
  <2>3. n + 1 \in Live(t2, ops) <=> s.op \in ops /\ IsLive(t, n + 1)
    BY <1>0, <2>2 DEF Live, Grown
  <2>4. Live(t, ops) \subseteq 1 .. n /\ \A j \in 1 .. n : j \in Live(t2, ops) <=> j \in Live(t, ops)
    BY LiveGrows
  <2> QED
    BY <2>1, <2>3, <2>4
<1>2. IsLive(t2, n + 1) <=> IsLive(t, n + 1)
  BY <1>0, SameLive
<1>3. SecondPoint(t2, n + 1)
        <=> /\ s.op \in {"rule", "stop"} /\ IsLive(t, n + 1)
            /\ \E j \in Live(t, {"rule", "stop"}) : t[j].name = s.name
  <2>1. (\E j \in Live(t2, {"rule", "stop"}) : j < n + 1 /\ t2[j].name = s.name)
          <=> \E j \in Live(t, {"rule", "stop"}) : t[j].name = s.name
    BY <1>0, <1>1
  <2> QED
    BY <1>0, <1>1, <2>1 DEF SecondPoint
<1>4. UndefinedVariable(t2, n + 1)
        <=> /\ s.op \in {"rule", "scope"} /\ IsLive(t, n + 1) /\ UsesVariable(s.attrs)
            /\ ~IsGiven(t, n + 1, s.attrs.severity)
  <2>1. IsGiven(t2, n + 1, s.attrs.severity) <=> IsGiven(t, n + 1, s.attrs.severity)
    BY <1>0, SameValue
  <2> QED
    BY <1>0, <1>1, <2>1 DEF UndefinedVariable
<1>5. SectionInside(t2, n + 1) <=> s.op = "section" /\ Level(t, n) > 0
  <2>1. s.op = "section" => Level(t2, n + 1) = Level(t, n)
    BY LastLevel
  <2> QED
    BY <1>0, <2>1 DEF SectionInside
<1>6. SecondSection(t2, n + 1) <=> s.op = "section" /\ s.section = "FS" /\ Begun(t, n)
  <2>1. \A j \in 1 .. n : /\ t2[j] = t[j]
                          /\ j \in Live(t2, {"rule", "stop", "assign"})
                               <=> j \in Live(t, {"rule", "stop", "assign"})
                          /\ j \in Live(t2, {"scope"}) <=> j \in Live(t, {"scope"})
    BY <1>0, <1>1
  <2> QED
    BY <1>0, <2>1 DEF SecondSection, Begun
<1>7. EndsAmiss(t2, n + 1) <=> s.op = "end" /\ (Level(t, n) > 0 \/ Live(t, {"rule"}) = {})
  <2>1. s.op = "end" => Level(t2, n + 1) = Level(t, n)
    BY LastLevel
  <2>2. s.op = "end" => Live(t2, {"rule"}) = Live(t, {"rule"})
    BY LiveGrows
  <2> QED
    BY <1>0, <2>1, <2>2 DEF EndsAmiss
<1>8. IsFault(t2, n + 1) <=>
        \/ s.op = "assign" /\ IsLive(t, n + 1) /\ s.var \in DOMAIN Predefined
        \/ SecondPoint(t2, n + 1) \/ UndefinedVariable(t2, n + 1) \/ SectionInside(t2, n + 1)
        \/ SecondSection(t2, n + 1) \/ EndsAmiss(t2, n + 1)
        \/ s.op = "error" /\ IsLive(t, n + 1)
  BY <1>0, <1>1 DEF IsFault
<1> QED
  BY <1>0, <1>2, <1>3, <1>4, <1>5, <1>6, <1>7, <1>8 DEF FaultAt, HasAttrs, Fails

\* Whether the section FS has begun, with one statement more.
LEMMA BegunGrows ==
  ASSUME NEW t, NEW s, NEW t2, NEW n, Grown(t, s, t2, n)
  PROVE  Begun(t2, n + 1) <=> \/ Begun(t, n)
                              \/ s.op = "section" /\ s.section = "FS"
                              \/ s.op \in {"rule", "stop", "assign"} /\ IsLive(t, n + 1)
                              \/ s.op = "scope" /\ IsLive(t, n + 1) /\ UsesVariable(s.attrs)
<1>0. /\ n \in Nat /\ n + 1 \in 1 .. n + 1 /\ t2[n + 1] = s /\ \A j \in 1 .. n : t2[j] = t[j]
      /\ \A j : j \in 1 .. n + 1 <=> j \in 1 .. n \/ j = n + 1
  BY DEF Grown
<1>1. \A ops : /\ \A j \in 1 .. n : j \in Live(t2, ops) <=> j \in Live(t, ops)
               /\ n + 1 \in Live(t2, ops) <=> s.op \in ops /\ IsLive(t, n + 1)
  <2> TAKE ops
  <2>2. IsLive(t2, n + 1) <=> IsLive(t, n + 1)
    BY <1>0, SameLive
  <2>3. n + 1 \in Live(t2, ops) <=> s.op \in ops /\ IsLive(t, n + 1)
    BY <1>0, <2>2 DEF Live, Grown
  <2>4. \A j \in 1 .. n : j \in Live(t2, ops) <=> j \in Live(t, ops)
    BY LiveGrows
  <2> QED
    BY <2>3, <2>4
<1>2. /\ n + 1 \in Live(t2, {"rule", "stop", "assign"})
           <=> s.op \in {"rule", "stop", "assign"} /\ IsLive(t, n + 1)
      /\ n + 1 \in Live(t2, {"scope"}) <=> s.op = "scope" /\ IsLive(t, n + 1)
      /\ \A j \in 1 .. n : /\ j \in Live(t2, {"rule", "stop", "assign"})
                                <=> j \in Live(t, {"rule", "stop", "assign"})
                           /\ j \in Live(t2, {"scope"}) <=> j \in Live(t, {"scope"})
  BY <1>1
<1> QED
  BY <1>0, <1>2 DEF Begun

-----------------------------------------------------------------------------
(* Rules and stop points                                                   *)

\* The stop points are the names of the rules and stop points of the text.
PointsAre(t, sts) ==
  /\ sts \in Seq(Seq(Nat))
  /\ Range(sts) = {t[k].name : k \in Live(t, {"rule", "stop"})}

\* A statement that is no point leaves the stop points as they are.
LEMMA PointsStay ==
  ASSUME NEW t, NEW s, NEW t2, NEW n, Grown(t, s, t2, n), NEW sts, PointsAre(t, sts),
         ~(s.op \in {"rule", "stop"} /\ IsLive(t, n + 1))
  PROVE  PointsAre(t2, sts)
<1>1. Live(t2, {"rule", "stop"}) = Live(t, {"rule", "stop"}) /\ Live(t, {"rule", "stop"}) \subseteq 1 .. n
  BY LiveGrows
<1>2. \A k \in Live(t, {"rule", "stop"}) : t2[k] = t[k]
  BY <1>1 DEF Grown
<1> QED
  BY <1>1, <1>2 DEF PointsAre

\* A rule or stop point adds its name to them.
LEMMA PointAdded ==
  ASSUME NEW t, NEW s, NEW t2, NEW n, Grown(t, s, t2, n), NEW sts, PointsAre(t, sts),
         s.op \in {"rule", "stop"}, IsLive(t, n + 1), s.name \in Seq(Nat)
  PROVE  PointsAre(t2, Append(sts, s.name))
<1>1. PICK P : P = Live(t, {"rule", "stop"})
  OBVIOUS
<1>2. Live(t2, {"rule", "stop"}) = P \cup {n + 1} /\ P \subseteq 1 .. n
  BY <1>1, LiveGrows
<1>3. t2[n + 1] = s /\ \A k \in P : t2[k] = t[k]
  BY <1>2 DEF Grown
<1>4. PICK sts2 : sts2 = Append(sts, s.name)
  OBVIOUS
<1>5. /\ sts \in Seq(Seq(Nat)) /\ sts2 \in Seq(Seq(Nat))
      /\ Len(sts2) = Len(sts) + 1 /\ sts2[Len(sts) + 1] = s.name
      /\ \A i \in 1 .. Len(sts) : sts2[i] = sts[i]
  BY <1>4, AppendProperties DEF PointsAre
<1>6. DOMAIN sts = 1 .. Len(sts) /\ DOMAIN sts2 = 1 .. Len(sts) + 1 /\ Len(sts) \in Nat
  BY <1>5, LenProperties
<1>7. Range(sts2) = Range(sts) \cup {s.name}
  <2>1. \A i : i \in DOMAIN sts2 <=> i \in DOMAIN sts \/ i = Len(sts) + 1
    BY <1>6
  <2> QED
    BY <1>5, <1>6, <2>1 DEF Range
<1>8. {t2[k].name : k \in P \cup {n + 1}} = {t[k].name : k \in P} \cup {s.name}
  BY <1>3
<1> QED
  BY <1>1, <1>2, <1>4, <1>5, <1>7, <1>8 DEF PointsAre

\* The rules are those of the text, in its order.
RulesAre(t, rls) ==
  /\ \E S : rls \in Seq(S)
  /\ IsFiniteSet(Live(t, {"rule"})) /\ Len(rls) = Cardinality(Live(t, {"rule"}))
  /\ \A k \in Live(t, {"rule"}) :
       rls[PlaceOf(t, k)] = [name |-> t[k].name, attrs |-> AttrsAt(t, k)]
  /\ \A i \in 1 .. Len(rls) : \E k \in Live(t, {"rule"}) : PlaceOf(t, k) = i
  /\ \A i \in 1 .. Len(rls) : /\ rls[i].name \in Seq(Nat)
                              /\ "recurse" \in DOMAIN rls[i].attrs => rls[i].attrs.recurse \in Int

\* The places of the rules number them.
LEMMA PlacesAre ==
  ASSUME NEW t, NEW n \in Nat, Live(t, {"rule"}) \subseteq 1 .. n, NEW k \in Live(t, {"rule"})
  PROVE  /\ IsFiniteSet(Live(t, {"rule"}))
         /\ PlaceOf(t, k) \in 1 .. Cardinality(Live(t, {"rule"}))
<1>1. PICK R, T : R = Live(t, {"rule"}) /\ T = {j \in R : j <= k}
  OBVIOUS
<1>2. IsFiniteSet(R)
  BY <1>1, FS_Interval, FS_Subset
<1>3. T \in SUBSET R /\ k \in T
  BY <1>1
<1>4. Cardinality(R) \in Nat /\ IsFiniteSet(T) /\ Cardinality(T) \in Nat /\ Cardinality(T) <= Cardinality(R)
  BY <1>2, <1>3, FS_Subset, FS_CardinalityType
<1>5. Cardinality(T) # 0
  BY <1>3, <1>4, FS_EmptySet
<1> QED
  BY <1>1, <1>2, <1>4, <1>5 DEF PlaceOf

\* A rule keeps its place and its attributes when the text goes on.
LEMMA PlacesStay ==
  ASSUME NEW t, NEW s, NEW t2, NEW n, Grown(t, s, t2, n), NEW k \in Live(t, {"rule"})
  PROVE  /\ k \in 1 .. n /\ t2[k] = t[k]
         /\ PlaceOf(t2, k) = PlaceOf(t, k)
         /\ VariablesGiven(t) => AttrsAt(t2, k) = AttrsAt(t, k)
<1>0. n \in Nat /\ \A j \in 1 .. n : t2[j] = t[j]
  BY DEF Grown
<1>1. /\ Live(t, {"rule"}) \subseteq 1 .. n
      /\ Live(t2, {"rule"}) \subseteq Live(t, {"rule"}) \cup {n + 1}
      /\ Live(t, {"rule"}) \subseteq Live(t2, {"rule"})
  BY LiveGrows
<1>2. k \in 1 .. n /\ t[k].op = "rule"
  BY <1>1 DEF Live
<1>3. ~(n + 1 <= k)
  BY <1>0, <1>2
<1>4. {j \in Live(t2, {"rule"}) : j <= k} = {j \in Live(t, {"rule"}) : j <= k}
  BY <1>1, <1>3
<1>5. VariablesGiven(t) => AttrsAt(t2, k) = AttrsAt(t, k)
  BY <1>2, SameAttrs DEF HasAttrs
<1> QED
  BY <1>0, <1>2, <1>4, <1>5 DEF PlaceOf

\* A statement that is no rule leaves the rules as they are.
LEMMA RulesStay ==
  ASSUME NEW t, NEW s, NEW t2, NEW n, Grown(t, s, t2, n), VariablesGiven(t),
         NEW rls, RulesAre(t, rls), ~(s.op = "rule" /\ IsLive(t, n + 1))
  PROVE  RulesAre(t2, rls)
<1>1. Live(t2, {"rule"}) = Live(t, {"rule"})
  BY LiveGrows
<1>2. \A k \in Live(t, {"rule"}) : /\ t2[k] = t[k] /\ PlaceOf(t2, k) = PlaceOf(t, k)
                                   /\ AttrsAt(t2, k) = AttrsAt(t, k)
  BY PlacesStay
<1> QED
  BY <1>1, <1>2 DEF RulesAre

\* A rule is added behind the others.
LEMMA RuleAdded ==
  ASSUME NEW t, NEW s, NEW t2, NEW n, Grown(t, s, t2, n), VariablesGiven(t),
         NEW rls, RulesAre(t, rls), s.op = "rule", IsLive(t, n + 1), s.name \in Seq(Nat),
         NEW r, r = [name |-> s.name, attrs |-> AttrsAt(t2, n + 1)],
         "recurse" \in DOMAIN r.attrs => r.attrs.recurse \in Int
  PROVE  RulesAre(t2, Append(rls, r))
<1>0. n \in Nat /\ t2[n + 1] = s
  BY DEF Grown
<1>1. PICK R : R = Live(t, {"rule"})
  OBVIOUS
<1>2. Live(t2, {"rule"}) = R \cup {n + 1} /\ R \subseteq 1 .. n /\ n + 1 \notin R
  BY <1>0, <1>1, LiveGrows
<1>3. PICK c : c = Cardinality(R)
  OBVIOUS
<1>4. IsFiniteSet(R) /\ c \in Nat /\ Len(rls) = c
  BY <1>1, <1>3, FS_CardinalityType DEF RulesAre
<1>5. IsFiniteSet(R \cup {n + 1}) /\ Cardinality(R \cup {n + 1}) = c + 1
  BY <1>2, <1>3, <1>4, FS_AddElement
<1>6. PlaceOf(t2, n + 1) = c + 1
  <2>1. {j \in R \cup {n + 1} : j <= n + 1} = R \cup {n + 1}
    <3>1. \A j \in R : j <= n + 1
      BY <1>0, <1>2
    <3>2. n + 1 <= n + 1
      BY <1>0
    <3> QED
      BY <3>1, <3>2
  <2> QED
    BY <1>2, <1>5, <2>1 DEF PlaceOf
<1>7. \A k \in R : /\ t2[k] = t[k] /\ PlaceOf(t2, k) = PlaceOf(t, k)
                   /\ AttrsAt(t2, k) = AttrsAt(t, k) /\ PlaceOf(t, k) \in 1 .. c
  <2>1. \A k \in R : PlaceOf(t, k) \in 1 .. c
    BY <1>0, <1>1, <1>2, <1>3, PlacesAre
  <2> QED
    BY <1>1, <2>1, PlacesStay
<1>8. PICK rls2 : rls2 = Append(rls, r)
  OBVIOUS
<1>9. /\ \E S : rls2 \in Seq(S)
      /\ Len(rls2) = c + 1 /\ rls2[c + 1] = r
      /\ \A i \in 1 .. c : rls2[i] = rls[i]
  <2>1. PICK S : rls \in Seq(S)
    BY DEF RulesAre
  <2>2. PICK S2 : S2 = S \cup {r}
    OBVIOUS
  <2>3. rls \in Seq(S2) /\ r \in S2
    <3>1. S \subseteq S2 /\ r \in S2
      BY <2>2
    <3> QED
      BY <2>1, <3>1
  <2>4. /\ rls2 \in Seq(S2) /\ Len(rls2) = Len(rls) + 1 /\ rls2[Len(rls) + 1] = r
        /\ \A i \in 1 .. Len(rls) : rls2[i] = rls[i]
    BY <1>8, <2>3, AppendProperties
  <2> QED
    BY <1>4, <2>4
<1>10. \A k \in R \cup {n + 1} : rls2[PlaceOf(t2, k)] = [name |-> t2[k].name, attrs |-> AttrsAt(t2, k)]
  <2>1. \A k \in R : rls[PlaceOf(t, k)] = [name |-> t[k].name, attrs |-> AttrsAt(t, k)]
    BY <1>1 DEF RulesAre
  <2> QED
    BY <1>0, <1>6, <1>7, <1>9, <2>1
<1>11. \A i \in 1 .. c + 1 : /\ rls2[i].name \in Seq(Nat)
                             /\ "recurse" \in DOMAIN rls2[i].attrs => rls2[i].attrs.recurse \in Int
  <2> TAKE i \in 1 .. c + 1
  <2>1. CASE i \in 1 .. c
    BY <1>4, <1>9, <2>1 DEF RulesAre
  <2>2. CASE i = c + 1
    BY <1>9, <2>2
  <2> QED
    BY <1>4, <2>1, <2>2
<1>12. \A i \in 1 .. c + 1 : \E k \in R \cup {n + 1} : PlaceOf(t2, k) = i
  <2> TAKE i \in 1 .. c + 1
  <2>1. CASE i \in 1 .. c
    <3>1. \E k \in R : PlaceOf(t, k) = i
      BY <1>1, <1>4, <2>1 DEF RulesAre
    <3> QED
      BY <1>7, <3>1
  <2>2. CASE i = c + 1
    BY <1>6, <2>2
  <2> QED
    BY <1>4, <2>1, <2>2
<1> QED
  BY <1>2, <1>5, <1>8, <1>9, <1>10, <1>11, <1>12 DEF RulesAre

-----------------------------------------------------------------------------
(* The inductive invariant                                                 *)

\* What the statements of a policy may be.
Reads(s) ==
  /\ s.op \in {"rule", "scope"} => Attributes(s.attrs)
  /\ s.op \in {"rule", "stop"} => s.name \in Seq(Nat)
  /\ s.op = "ifhost" => s.match \in BOOLEAN

\* A text of n statements without a fault.
IsText(t, n) ==
  /\ \E S : t \in Seq(S)
  /\ n = Len(t)
  /\ \A k \in 1 .. n : Reads(t[k]) /\ t[k].op # "end" /\ ~FaultAt(t, k)

\* The stacks are those of the blocks that are open in the text.
BlocksAre(t, n) ==
  /\ open \in Seq({"scope", "ifhost", "else"})
  /\ \E pos : /\ Blocks(t, n, open, Len(open), pos)
              /\ Stacks(~ignoring, t, open, Len(open), pos, accept, scopes)

\* The section that is read, and whether the genre has been asked for.
SectionIsRight(t, n) ==
  /\ ignoring \in BOOLEAN /\ lexer \in {"initial", "globals"}
  /\ ~ignoring <=> SectionIsRead(t, n + 1)
  /\ defined \in BOOLEAN
  /\ defined <=> Begun(t, n)

\* The two tables of variables.
TablesAre(t, n) ==
  /\ TableIs(t, n, "assign", locals) /\ TableIs(t, n, "assign global", globals)
  /\ DOMAIN locals \cup DOMAIN globals \subseteq Var

\* The rules and the stop points.
PointsAreRight(t) == PointsAre(t, stops) /\ RulesAre(t, rules)

\* What the parser has read of a text of n statements.
Parsed(t, n) ==
  /\ IsText(t, n)
  /\ BlocksAre(t, n)
  /\ SectionIsRight(t, n)
  /\ TablesAre(t, n)
  /\ PointsAreRight(t)

\* One more statement, with which it ended.
EndsWith(t, n, s) == Grown(t, s, text, n) /\ Len(text) = n + 1

\* What Finish makes of the rules.
SpecsOf(rls) == [i \in DOMAIN rls |-> [helper |-> HelperFor(rls[i]), attrs |-> rls[i].attrs]]

\* Where the parser is with that text: it reads on, or the statement at fault
\* or the end has come after it.
Outcome(t, n) ==
  \/ status = "reading" /\ text = t
  \/ status = "refused" /\ \E s : EndsWith(t, n, s) /\ Fails(t, n, s)
  \/ /\ status = "done"
     /\ EndsWith(t, n, [op |-> "end"]) /\ ~Fails(t, n, [op |-> "end"])
     /\ specs = SpecsOf(rules)

\* The inductive invariant.
ParserIInv == \E t, n : Parsed(t, n) /\ Outcome(t, n)

-----------------------------------------------------------------------------
(* What holds of a text that is being read                                 *)

\* A text and its places; its variables are given where they are used.
LEMMA TextsAre ==
  ASSUME NEW t, NEW n, IsText(t, n)
  PROVE  n \in Nat /\ DOMAIN t = 1 .. n /\ VariablesGiven(t)
<1>1. n \in Nat /\ DOMAIN t = 1 .. n
  BY LenProperties DEF IsText
<1>2. ASSUME NEW k \in 1 .. n, HasAttrs(t, k), UsesVariable(t[k].attrs)
      PROVE  IsLive(t, k) /\ IsGiven(t, k, t[k].attrs.severity)
  <2>1. ~FaultAt(t, k)
    BY DEF IsText
  <2>2. IsLive(t, k) /\ ~UndefinedVariable(t, k)
    BY <1>2, <2>1 DEF FaultAt, IsFault
  <2>3. k \in Live(t, {"rule", "scope"})
    BY <1>1, <1>2, <2>2 DEF Live, HasAttrs
  <2> QED
    BY <1>2, <2>2, <2>3 DEF UndefinedVariable
<1> QED
  BY <1>1, <1>2 DEF VariablesGiven

\* A text and a statement without a fault make a text.
LEMMA TextGrows ==
  ASSUME NEW t, NEW n, IsText(t, n), NEW s, NEW t2, t2 = Append(t, s)
  PROVE  /\ Grown(t, s, t2, n) /\ Len(t2) = n + 1
         /\ Reads(s) /\ s.op # "end" /\ ~Fails(t, n, s) => IsText(t2, n + 1)
<1>1. PICK S : t \in Seq(S)
  BY DEF IsText
<1>2. PICK S2 : S2 = S \cup {s}
  OBVIOUS
<1>3. t \in Seq(S2) /\ s \in S2
  <2>1. S \subseteq S2 /\ s \in S2
    BY <1>2
  <2> QED
    BY <1>1, <2>1
<1>4. n = Len(t) /\ n \in Nat
  BY TextsAre DEF IsText
<1>5. Grown(t, s, t2, n)
  BY <1>3, <1>4, AppendGrows
<1>6. Len(t2) = n + 1 /\ t2 \in Seq(S2)
  BY <1>3, <1>4, AppendProperties
<1>7. ASSUME Reads(s), s.op # "end", ~Fails(t, n, s), NEW k \in 1 .. n + 1
      PROVE  Reads(t2[k]) /\ t2[k].op # "end" /\ ~FaultAt(t2, k)
  <2>1. CASE k \in 1 .. n
    <3>1. t2[k] = t[k]
      BY <1>5, <2>1 DEF Grown
    <3>2. Reads(t[k]) /\ t[k].op # "end" /\ ~FaultAt(t, k)
      BY <2>1 DEF IsText
    <3> QED
      BY <1>5, <2>1, <3>1, <3>2, SameFault
  <2>2. CASE k = n + 1
    BY <1>5, <1>7, <2>2, NewFault DEF Grown
  <2> QED
    BY <1>4, <2>1, <2>2
<1> QED
  BY <1>5, <1>6, <1>7 DEF IsText

\* cPreprocessor::GetState says whether the next statement is for this machine.
LEMMA AcceptingIsLive ==
  ASSUME NEW t, NEW n, Parsed(t, n)
  PROVE  Accepting <=> IsLive(t, n + 1)
<1>1. PICK pos : /\ Blocks(t, n, open, Len(open), pos)
                 /\ Stacks(~ignoring, t, open, Len(open), pos, accept, scopes)
  BY DEF Parsed, BlocksAre
<1>2. /\ ~ignoring => (Last(accept) <=> HostReads(t, n + 1))
      /\ Last(accept) \in BOOLEAN
  BY <1>1, TopIsRead
<1>3. ~ignoring <=> SectionIsRead(t, n + 1)
  BY DEF Parsed, SectionIsRight
<1> QED
  BY <1>2, <1>3 DEF Accepting, IsLive

\* A list of attributes is bad when its statement is at fault for a variable.
LEMMA BadIsFault ==
  ASSUME NEW t, NEW n, Parsed(t, n), NEW attrs
  PROVE  IsBad(attrs) <=> /\ UsesVariable(attrs)
                          /\ IsLive(t, n + 1) => ~IsGiven(t, n + 1, attrs.severity)
<1>1. Accepting <=> IsLive(t, n + 1)
  BY AcceptingIsLive
<1>2. n \in Nat
  BY TextsAre DEF Parsed
<1>3. Known(attrs.severity) <=> IsGiven(t, n + 1, attrs.severity)
  BY <1>2, TablesSay DEF Parsed, TablesAre
<1> QED
  BY <1>1, <1>3 DEF IsBad

\* What a rule or block with a list of attributes gets.
LEMMA AttrsAreMerged ==
  ASSUME NEW t, NEW n, Parsed(t, n), NEW s, NEW t2, Grown(t, s, t2, n),
         Attributes(s.attrs), ~IsBad(s.attrs)
  PROVE  MergeNoOverwrite(Evaluated(s.attrs), GlobalAttrs) = AttrsAt(t2, n + 1)
<1>1. PICK pos : /\ Blocks(t, n, open, Len(open), pos)
                 /\ Stacks(~ignoring, t, open, Len(open), pos, accept, scopes)
  BY DEF Parsed, BlocksAre
<1>2. n \in Nat /\ VariablesGiven(t)
  BY TextsAre DEF Parsed
<1>3. UsesVariable(s.attrs) => Accepting /\ IsGiven(t, n + 1, s.attrs.severity)
  BY BadIsFault, AcceptingIsLive
<1>4. UsesVariable(s.attrs) => Lookup(s.attrs.severity) = ValueAt(t, n + 1, s.attrs.severity)
  BY <1>2, <1>3, TablesSay DEF Parsed, TablesAre
<1>5. PICK e : e = Evaluated(s.attrs)
  OBVIOUS
<1>6. /\ DOMAIN e = DOMAIN s.attrs
      /\ \A a \in DOMAIN e : e[a] = IF a = "severity" /\ UsesVariable(s.attrs)
                                    THEN ValueAt(t, n + 1, s.attrs.severity) ELSE s.attrs[a]
  BY <1>3, <1>4, <1>5 DEF Evaluated
<1>7. DOMAIN s.attrs \subseteq Named
  BY DEF Attributes, Named
<1>8. MergeNoOverwrite(e, GlobalAttrs) = AttrsAt(t2, n + 1)
  BY <1>1, <1>2, <1>3, <1>6, <1>7, MergedAre DEF GlobalAttrs
<1> QED
  BY <1>5, <1>8

\* The depth of a rule is a number.
LEMMA DepthIsNumber ==
  ASSUME NEW t, NEW k \in Nat, \A j \in 1 .. k : t[j].op \in {"rule", "scope"} => Attributes(t[j].attrs),
         t[k].op \in {"rule", "scope"}, "recurse" \in DOMAIN AttrsAt(t, k)
  PROVE  AttrsAt(t, k).recurse \in Int
<1>1. Givers(t, k, "recurse") # {} /\ AttrsAt(t, k).recurse = AttrAt(t, k, "recurse")
  BY DEF AttrsAt
<1>2. PICK i : i = Latest(Givers(t, k, "recurse"))
  OBVIOUS
<1>3. i \in Givers(t, k, "recurse")
  BY <1>1, <1>2, GiversAre
<1>4. i \in 1 .. k /\ t[i].op \in {"rule", "scope"} /\ "recurse" \in DOMAIN t[i].attrs
  BY <1>3 DEF Givers
<1>5. t[i].attrs.recurse \in Int
  BY <1>4 DEF Attributes
<1> QED
  BY <1>1, <1>2, <1>5 DEF AttrAt

\* Whether a block is open shows in the parser's stacks.
LEMMA OpenShows ==
  ASSUME NEW t, NEW n, Parsed(t, n)
  PROVE  /\ Level(t, n) = Len(open) /\ Len(open) \in Nat
         /\ Len(open) > 0 <=> Len(accept) > 1 \/ scopes # << >>
         /\ Len(accept) \in Nat \ {0}
         /\ open # << >> <=> Len(open) > 0
<1>1. PICK pos : /\ Blocks(t, n, open, Len(open), pos)
                 /\ Stacks(~ignoring, t, open, Len(open), pos, accept, scopes)
  BY DEF Parsed, BlocksAre
<1>2. PICK L : L = Len(open)
  OBVIOUS
<1>3. L \in Nat /\ Level(t, n) = L
  BY <1>1, <1>2 DEF Blocks
<1>4. PICK H, C : H = HostsOf(open, L) /\ C = ScopesOf(open, L)
  OBVIOUS
<1>5. H \in Nat /\ C \in Nat /\ (L = 0 => H = 0 /\ C = 0)
  BY <1>3, <1>4, KindsAre
<1>6. L # 0 => H > 0 \/ C > 0
  <2> HAVE L # 0
  <2>1. PICK M \in Nat : L = M + 1
    <3>1. L - 1 \in Nat /\ L = L - 1 + 1
      BY <1>3
    <3> QED
      BY <3>1
  <2>2. /\ HostsOf(open, M) \in Nat /\ ScopesOf(open, M) \in Nat
        /\ HostsOf(open, M + 1) = HostsOf(open, M) + IF open[M + 1] # "scope" THEN 1 ELSE 0
        /\ ScopesOf(open, M + 1) = ScopesOf(open, M) + IF open[M + 1] = "scope" THEN 1 ELSE 0
    BY KindsAre
  <2> QED
    BY <1>4, <2>1, <2>2
<1>7. Len(accept) = 1 + H /\ Len(scopes) = C /\ (scopes = << >> <=> C = 0)
  <2>1. Len(accept) = 1 + H /\ Len(scopes) = C
    BY <1>1, <1>2, <1>4 DEF Stacks
  <2>2. PICK S : scopes \in Seq(S)
    BY <1>1 DEF Stacks
  <2> QED
    BY <2>1, <2>2, EmptySeq
<1>8. open # << >> <=> L > 0
  <2>1. open \in Seq({"scope", "ifhost", "else"})
    BY DEF Parsed, BlocksAre
  <2> QED
    BY <1>2, <1>3, <2>1, EmptySeq
<1> QED
  BY <1>2, <1>3, <1>5, <1>6, <1>7, <1>8

-----------------------------------------------------------------------------
(* What a statement does to each part                                      *)

\* The parser goes on from the text t to t2 with the statement s.
GoesOn(t, n, s, t2) ==
  /\ Parsed(t, n) /\ Grown(t, s, t2, n) /\ IsText(t2, n + 1)

\* The stacks, when the statement opens and closes nothing.
LEMMA BlocksStay ==
  ASSUME NEW t, NEW n, NEW s, NEW t2, GoesOn(t, n, s, t2),
         s.op \notin {"scope", "ifhost", "close", "else"},
         UNCHANGED blocks, ignoring' = ignoring \/ Len(open) = 0
  PROVE  BlocksAre(t2, n + 1)'
<1>1. PICK pos : /\ Blocks(t, n, open, Len(open), pos)
                 /\ Stacks(~ignoring, t, open, Len(open), pos, accept, scopes)
  BY DEF GoesOn, Parsed, BlocksAre
<1>2. PICK L, pos2 : L = Len(open) /\ pos2 = Places(pos, L, n, L)
  OBVIOUS
<1>3. Moves(s, open, L, open, L)
  BY DEF Moves
<1>4. VariablesGiven(t) /\ Grown(t, s, t2, n)
  BY TextsAre DEF GoesOn, Parsed
<1>5. BlockStep(t, s, t2, n, open, L, pos, open, L, pos2)
  BY <1>1, <1>2, <1>3, <1>4 DEF BlockStep
<1>6. Blocks(t2, n + 1, open, L, pos2)
  BY <1>1, <1>2, <1>3, <1>4, BlocksGrow
<1>7. PICK r, r2 : r = ~ignoring /\ r2 = ~ignoring'
  OBVIOUS
<1>8. L = 0 \/ (r2 => r)
  BY <1>2, <1>7
<1>9. Stacks(r, t, open, L, pos, accept, scopes)
  BY <1>1, <1>2, <1>7
<1>10. Stacks(r2, t2, open, L, pos2, accept, scopes)
  BY <1>5, <1>8, <1>9, StacksStay
<1>11. open' = open /\ accept' = accept /\ scopes' = scopes
  BY DEF blocks
<1>12. open \in Seq({"scope", "ifhost", "else"})
  BY DEF GoesOn, Parsed, BlocksAre
<1> QED
  BY <1>2, <1>6, <1>7, <1>10, <1>11, <1>12 DEF BlocksAre

\* The tables, when the statement sets nothing.
LEMMA TablesStay ==
  ASSUME NEW t, NEW n, NEW s, NEW t2, GoesOn(t, n, s, t2),
         ~(s.op \in {"assign", "assign global"} /\ IsLive(t, n + 1)),
         UNCHANGED <<locals, globals>>
  PROVE  TablesAre(t2, n + 1)'
<1>1. TableIs(t, n, "assign", locals) /\ TableIs(t, n, "assign global", globals) /\ Grown(t, s, t2, n)
  BY DEF GoesOn, Parsed, TablesAre
<1>2. TableIs(t2, n + 1, "assign", locals)
  BY <1>1, TableStays
<1>3. TableIs(t2, n + 1, "assign global", globals)
  BY <1>1, TableStays
<1> QED
  BY <1>2, <1>3 DEF TablesAre, GoesOn, Parsed

\* The rules and stop points, when the statement is neither.
LEMMA PointsKept ==
  ASSUME NEW t, NEW n, NEW s, NEW t2, GoesOn(t, n, s, t2),
         ~(s.op \in {"rule", "stop"} /\ IsLive(t, n + 1)),
         UNCHANGED <<rules, stops>>
  PROVE  PointsAreRight(t2)'
<1>1. PointsAre(t, stops) /\ RulesAre(t, rules) /\ Grown(t, s, t2, n) /\ VariablesGiven(t)
  BY TextsAre DEF GoesOn, Parsed, PointsAreRight
<1>2. PointsAre(t2, stops)
  BY <1>1, PointsStay
<1>3. RulesAre(t2, rules)
  BY <1>1, RulesStay
<1> QED
  BY <1>2, <1>3 DEF PointsAreRight

\* The section, when the statement begins none.
LEMMA SectionStays ==
  ASSUME NEW t, NEW n, NEW s, NEW t2, GoesOn(t, n, s, t2), s.op # "section",
         UNCHANGED ignoring, lexer' \in {"initial", "globals"}, defined' \in BOOLEAN,
         defined' <=> \/ defined
                      \/ s.op \in {"rule", "stop", "assign"} /\ IsLive(t, n + 1)
                      \/ s.op = "scope" /\ IsLive(t, n + 1) /\ UsesVariable(s.attrs)
  PROVE  SectionIsRight(t2, n + 1)'
<1>1. /\ ignoring \in BOOLEAN /\ (~ignoring <=> SectionIsRead(t, n + 1))
      /\ (defined <=> Begun(t, n)) /\ Grown(t, s, t2, n)
  BY DEF GoesOn, Parsed, SectionIsRight
<1>2. n \in Nat /\ n + 1 + 1 = n + 2
  BY <1>1 DEF Grown
<1>3. SectionIsRead(t2, n + 2) <=> SectionIsRead(t, n + 1)
  BY <1>1, SectionGrows
<1>4. Begun(t2, n + 1) <=> defined'
  BY <1>1, BegunGrows
<1> QED
  BY <1>1, <1>2, <1>3, <1>4 DEF SectionIsRight

\* The parts together.
LEMMA PartsMake ==
  ASSUME NEW t, NEW n, NEW s, NEW t2, GoesOn(t, n, s, t2),
         BlocksAre(t2, n + 1)', SectionIsRight(t2, n + 1)', TablesAre(t2, n + 1)',
         PointsAreRight(t2)', status' = "reading", text' = t2
  PROVE  ParserIInv'
<1>1. IsText(t2, n + 1)
  BY DEF GoesOn
<1>2. Parsed(t2, n + 1)'
  BY <1>1 DEF Parsed
<1>3. Outcome(t2, n + 1)'
  BY DEF Outcome
<1> QED
  BY <1>2, <1>3 DEF ParserIInv

\* A statement without a fault.
LEMMA FaultlessGoesOn ==
  ASSUME NEW t, NEW n, Parsed(t, n), text = t, NEW s, text' = Append(text, s),
         Reads(s), s.op # "end", ~Fails(t, n, s)
  PROVE  GoesOn(t, n, s, text')
<1>1. IsText(t, n)
  BY DEF Parsed
<1>2. PICK t2 : t2 = text'
  OBVIOUS
<1>3. t2 = Append(t, s)
  BY <1>2
<1>4. Grown(t, s, t2, n) /\ IsText(t2, n + 1)
  BY <1>1, <1>3, TextGrows
<1> QED
  BY <1>2, <1>4 DEF GoesOn

\* A statement at fault.
LEMMA FaultEnds ==
  ASSUME NEW t, NEW n, Parsed(t, n), text = t, NEW s, text' = Append(text, s), Fails(t, n, s), Refuse
  PROVE  ParserIInv'
<1>1. IsText(t, n)
  BY DEF Parsed
<1>2. PICK t2 : t2 = text'
  OBVIOUS
<1>3. t2 = Append(t, s)
  BY <1>2
<1>4. Grown(t, s, t2, n) /\ Len(t2) = n + 1
  BY <1>1, <1>3, TextGrows
<1>5. Parsed(t, n)'
  BY DEF Parsed, BlocksAre, SectionIsRight, TablesAre, PointsAreRight, Refuse, blocks, lists
<1>6. Outcome(t, n)'
  BY <1>2, <1>4 DEF Outcome, EndsWith, Refuse
<1> QED
  BY <1>5, <1>6 DEF ParserIInv

\* A statement that is skipped.
LEMMA SkippedGoesOn ==
  ASSUME NEW t, NEW n, NEW s, GoesOn(t, n, s, text'),
         s.op \in {"rule", "stop", "assign", "assign global", "global section", "error"},
         ~IsLive(t, n + 1) \/ s.op \in {"global section", "error"},
         status' = "reading", lexer' \in {"initial", "globals"},
         UNCHANGED <<blocks, ignoring, defined, lists>>
  PROVE  ParserIInv'
<1>1. PICK t2 : t2 = text'
  OBVIOUS
<1>2. GoesOn(t, n, s, t2)
  BY <1>1
<1>3. /\ locals' = locals /\ globals' = globals /\ rules' = rules /\ stops' = stops
      /\ defined' = defined /\ ignoring' = ignoring /\ UNCHANGED blocks
  BY DEF lists
<1>4. defined \in BOOLEAN
  BY DEF GoesOn, Parsed, SectionIsRight
<1>5. BlocksAre(t2, n + 1)'
  BY <1>2, <1>3, BlocksStay
<1>6. SectionIsRight(t2, n + 1)'
  <2>1. s.op # "section" /\ s.op # "scope"
        /\ ~(s.op \in {"rule", "stop", "assign"} /\ IsLive(t, n + 1))
    OBVIOUS
  <2>2. defined' \in BOOLEAN /\ ignoring' = ignoring
    BY <1>3, <1>4
  <2>3. defined' <=> \/ defined
                     \/ s.op \in {"rule", "stop", "assign"} /\ IsLive(t, n + 1)
                     \/ s.op = "scope" /\ IsLive(t, n + 1) /\ UsesVariable(s.attrs)
    <3>1. defined' = defined
      BY <1>3
    <3> QED
      BY ONLY <2>1, <3>1, <1>4
  <2> QED
    BY <1>2, <2>1, <2>2, <2>3, SectionStays
<1>7. TablesAre(t2, n + 1)'
  BY <1>2, <1>3, TablesStay
<1>8. PointsAreRight(t2)'
  BY <1>2, <1>3, PointsKept
<1> QED
  BY <1>1, <1>2, <1>5, <1>6, <1>7, <1>8, PartsMake

-----------------------------------------------------------------------------
(* The statements                                                          *)

\* A rule is a stop point too.
LEMMA RulesArePoints ==
  ASSUME NEW t, NEW n, Parsed(t, n)
  PROVE  /\ Range(stops) = {t[k].name : k \in Live(t, {"rule", "stop"})}
         /\ \A i \in DOMAIN rules : rules[i].name \in Range(stops)
<1>1. Range(stops) = {t[k].name : k \in Live(t, {"rule", "stop"})}
  BY DEF Parsed, PointsAreRight, PointsAre
<1>2. RulesAre(t, rules)
  BY DEF Parsed, PointsAreRight
<1>3. PICK S : rules \in Seq(S)
  BY <1>2 DEF RulesAre
<1>4. DOMAIN rules = 1 .. Len(rules)
  BY <1>3, LenProperties
<1>5. ASSUME NEW i \in DOMAIN rules
      PROVE  rules[i].name \in Range(stops)
  <2>1. PICK k \in Live(t, {"rule"}) : PlaceOf(t, k) = i
    BY <1>2, <1>4 DEF RulesAre
  <2>2. rules[i].name = t[k].name
    <3>1. rules[PlaceOf(t, k)] = [name |-> t[k].name, attrs |-> AttrsAt(t, k)]
      BY <1>2 DEF RulesAre
    <3> QED
      BY <2>1, <3>1
  <2>3. k \in Live(t, {"rule", "stop"})
    BY DEF Live
  <2> QED
    BY <1>1, <2>2, <2>3
<1> QED
  BY <1>1, <1>5

\* Reading a rule.
LEMMA RuleIsRead ==
  ASSUME NEW t, NEW n, Parsed(t, n), Outcome(t, n), NEW r \in Rule, ReadRule(r)
  PROVE  ParserIInv'
<1>1. PICK s : s = [op |-> "rule", name |-> r.name, attrs |-> r.attrs]
  OBVIOUS
<1>2. s.op = "rule" /\ s.name = r.name /\ s.attrs = r.attrs
  BY <1>1
<1>3. status = "reading" /\ text' = Append(text, s) /\ text = t
  BY <1>1 DEF ReadRule, ReadInitial, Read, Outcome
<1>4. r.name \in Seq(Nat) /\ Attributes(r.attrs)
  BY RulesAreWritten
<1>5. Reads(s) /\ s.op # "end"
  BY <1>2, <1>4 DEF Reads
<1>6. Accepting <=> IsLive(t, n + 1)
  BY AcceptingIsLive
<1>7. IsBad(r.attrs) <=> /\ UsesVariable(r.attrs)
                         /\ IsLive(t, n + 1) => ~IsGiven(t, n + 1, r.attrs.severity)
  BY BadIsFault
<1>8. PointAlreadyDefined(r.name) <=> \E j \in Live(t, {"rule", "stop"}) : t[j].name = r.name
  <2>1. Range(stops) = {t[k].name : k \in Live(t, {"rule", "stop"})}
    BY DEF Parsed, PointsAreRight, PointsAre
  <2>2. \A i \in DOMAIN rules : rules[i].name \in Range(stops)
    BY <2>1, RulesArePoints
  <2> QED
    BY <2>1, <2>2 DEF PointAlreadyDefined
<1>9. Fails(t, n, s) <=> IsBad(r.attrs) \/ (Accepting /\ PointAlreadyDefined(r.name))
  BY <1>2, <1>6, <1>7, <1>8 DEF Fails
<1>10. CASE Fails(t, n, s)
  <2>1. Refuse
    BY <1>9, <1>10 DEF ReadRule
  <2> QED
    BY <1>3, <1>10, <2>1, FaultEnds
<1>11. CASE ~Fails(t, n, s)
  <2>1. ~IsBad(r.attrs) /\ (Accepting => ~PointAlreadyDefined(r.name))
    BY <1>9, <1>11
  <2>2. GoesOn(t, n, s, text')
    BY <1>3, <1>5, <1>11, FaultlessGoesOn
  <2>3. CASE ~Accepting
    <3>1. status' = "reading" /\ lexer' \in {"initial", "globals"}
          /\ UNCHANGED <<blocks, ignoring, defined, lists>>
      BY <1>3, <2>1, <2>3 DEF ReadRule, Parsed, SectionIsRight
    <3> QED
      BY <1>2, <1>6, <2>2, <2>3, <3>1, SkippedGoesOn
  <2>4. CASE Accepting
    <3>1. PICK q : q = [name |-> r.name, attrs |-> MergeNoOverwrite(Evaluated(r.attrs), GlobalAttrs)]
      OBVIOUS
    <3>2. /\ stops' = Append(stops, r.name) /\ rules' = Append(rules, q)
          /\ defined' = TRUE /\ status' = "reading" /\ lexer' \in {"initial", "globals"}
          /\ UNCHANGED <<blocks, ignoring, locals, globals>>
      <4>1. /\ AddRule([name |-> r.name, attrs |-> MergeNoOverwrite(Evaluated(r.attrs), GlobalAttrs)])
            /\ defined' = TRUE
            /\ UNCHANGED <<status, lexer, blocks, ignoring, locals, globals, specs>>
        BY <1>3, <2>1, <2>4 DEF ReadRule
      <4> QED
        BY <1>3, <3>1, <4>1 DEF AddRule, Parsed, SectionIsRight
    <3>3. PICK t2 : t2 = text'
      OBVIOUS
    <3>4. GoesOn(t, n, s, t2) /\ Grown(t, s, t2, n) /\ VariablesGiven(t) /\ n \in Nat
      BY <2>2, <3>3, TextsAre DEF GoesOn, Parsed
    <3>5. MergeNoOverwrite(Evaluated(r.attrs), GlobalAttrs) = AttrsAt(t2, n + 1)
      BY <1>2, <1>4, <2>1, <3>4, AttrsAreMerged
    <3>6. q = [name |-> s.name, attrs |-> AttrsAt(t2, n + 1)]
      BY <1>2, <3>1, <3>5
    <3>7. "recurse" \in DOMAIN q.attrs => q.attrs.recurse \in Int
      <4>1. q.attrs = AttrsAt(t2, n + 1)
        BY <3>6
      <4>2. \A j \in 1 .. n + 1 : t2[j].op \in {"rule", "scope"} => Attributes(t2[j].attrs)
        BY <3>4 DEF GoesOn, IsText, Reads
      <4>3. t2[n + 1].op = "rule"
        BY <1>2, <3>4 DEF Grown
      <4>4. n + 1 \in Nat
        BY <3>4
      <4> QED
        BY <4>1, <4>2, <4>3, <4>4, DepthIsNumber
    <3>8. PointsAre(t, stops) /\ RulesAre(t, rules)
      BY DEF Parsed, PointsAreRight
    <3>9. PointsAre(t2, Append(stops, s.name))
      BY <1>2, <1>4, <1>6, <2>4, <3>4, <3>8, PointAdded
    <3>10. RulesAre(t2, Append(rules, q))
      BY <1>2, <1>4, <1>6, <2>4, <3>4, <3>6, <3>7, <3>8, RuleAdded
    <3>11. PointsAreRight(t2)'
      BY <1>2, <3>2, <3>9, <3>10 DEF PointsAreRight
    <3>12. BlocksAre(t2, n + 1)'
      BY <1>2, <3>2, <3>4, BlocksStay
    <3>13. SectionIsRight(t2, n + 1)'
      <4>1. s.op # "section" /\ defined' \in BOOLEAN /\ ignoring' = ignoring
        BY <1>2, <3>2
      <4>2. defined' <=> \/ defined
                         \/ s.op \in {"rule", "stop", "assign"} /\ IsLive(t, n + 1)
                         \/ s.op = "scope" /\ IsLive(t, n + 1) /\ UsesVariable(s.attrs)
        BY <1>2, <1>6, <2>4, <3>2
      <4> QED
        BY <3>2, <3>4, <4>1, <4>2, SectionStays
    <3>14. TablesAre(t2, n + 1)'
      <4>1. UNCHANGED <<locals, globals>>
        BY <3>2
      <4> QED
        BY <1>2, <3>4, <4>1, TablesStay
    <3> QED
      BY <3>2, <3>3, <3>4, <3>11, <3>12, <3>13, <3>14, PartsMake
  <2> QED
    BY <2>3, <2>4
<1> QED
  BY <1>10, <1>11

\* Reading a stop point.
LEMMA StopIsRead ==
  ASSUME NEW t, NEW n, Parsed(t, n), Outcome(t, n), NEW p \in Stop, ReadStop(p)
  PROVE  ParserIInv'
<1>1. PICK s : s = [op |-> "stop", name |-> p]
  OBVIOUS
<1>2. s.op = "stop" /\ s.name = p
  BY <1>1
<1>3. status = "reading" /\ text' = Append(text, s) /\ text = t
  BY <1>1 DEF ReadStop, ReadInitial, Read, Outcome
<1>4. p \in Seq(Nat)
  BY StopsAreNames
<1>5. Reads(s) /\ s.op # "end"
  BY <1>2, <1>4 DEF Reads
<1>6. Accepting <=> IsLive(t, n + 1)
  BY AcceptingIsLive
<1>8. PointAlreadyDefined(p) <=> \E j \in Live(t, {"rule", "stop"}) : t[j].name = p
  <2>1. /\ Range(stops) = {t[k].name : k \in Live(t, {"rule", "stop"})}
        /\ \A i \in DOMAIN rules : rules[i].name \in Range(stops)
    BY RulesArePoints
  <2> QED
    BY <2>1 DEF PointAlreadyDefined
<1>9. Fails(t, n, s) <=> Accepting /\ PointAlreadyDefined(p)
  BY <1>2, <1>6, <1>8 DEF Fails
<1>10. CASE Fails(t, n, s)
  <2>1. Refuse
    BY <1>9, <1>10 DEF ReadStop
  <2> QED
    BY <1>3, <1>10, <2>1, FaultEnds
<1>11. CASE ~Fails(t, n, s)
  <2>1. Accepting => ~PointAlreadyDefined(p)
    BY <1>9, <1>11
  <2>2. GoesOn(t, n, s, text')
    BY <1>3, <1>5, <1>11, FaultlessGoesOn
  <2>3. CASE ~Accepting
    <3>1. status' = "reading" /\ lexer' \in {"initial", "globals"}
          /\ UNCHANGED <<blocks, ignoring, defined, lists>>
      BY <1>3, <2>1, <2>3 DEF ReadStop, Parsed, SectionIsRight
    <3> QED
      BY <1>2, <1>6, <2>2, <2>3, <3>1, SkippedGoesOn
  <2>4. CASE Accepting
    <3>2. /\ stops' = Append(stops, p) /\ rules' = rules
          /\ defined' = TRUE /\ status' = "reading" /\ lexer' \in {"initial", "globals"}
          /\ UNCHANGED <<blocks, ignoring, locals, globals>>
      BY <1>3, <2>1, <2>4 DEF ReadStop, Parsed, SectionIsRight
    <3>3. PICK t2 : t2 = text'
      OBVIOUS
    <3>4. GoesOn(t, n, s, t2) /\ Grown(t, s, t2, n) /\ VariablesGiven(t) /\ n \in Nat
      BY <2>2, <3>3, TextsAre DEF GoesOn, Parsed
    <3>8. PointsAre(t, stops) /\ RulesAre(t, rules)
      BY DEF Parsed, PointsAreRight
    <3>9. PointsAre(t2, Append(stops, s.name))
      BY <1>2, <1>4, <1>6, <2>4, <3>4, <3>8, PointAdded
    <3>10. RulesAre(t2, rules)
      BY <1>2, <3>4, <3>8, RulesStay
    <3>11. PointsAreRight(t2)'
      BY <1>2, <3>2, <3>9, <3>10 DEF PointsAreRight
    <3>12. BlocksAre(t2, n + 1)'
      BY <1>2, <3>2, <3>4, BlocksStay
    <3>13. SectionIsRight(t2, n + 1)'
      <4>1. s.op # "section" /\ defined' \in BOOLEAN /\ ignoring' = ignoring
        BY <1>2, <3>2
      <4>2. defined' <=> \/ defined
                         \/ s.op \in {"rule", "stop", "assign"} /\ IsLive(t, n + 1)
                         \/ s.op = "scope" /\ IsLive(t, n + 1) /\ UsesVariable(s.attrs)
        BY <1>2, <1>6, <2>4, <3>2
      <4> QED
        BY <3>2, <3>4, <4>1, <4>2, SectionStays
    <3>14. TablesAre(t2, n + 1)'
      <4>1. UNCHANGED <<locals, globals>>
        BY <3>2
      <4> QED
        BY <1>2, <3>4, <4>1, TablesStay
    <3> QED
      BY <3>2, <3>3, <3>4, <3>11, <3>12, <3>13, <3>14, PartsMake
  <2> QED
    BY <2>3, <2>4
<1> QED
  BY <1>10, <1>11

\* Reading an assignment in a section.
LEMMA AssignIsRead ==
  ASSUME NEW t, NEW n, Parsed(t, n), Outcome(t, n), NEW a \in Assignment, Assign(a)
  PROVE  ParserIInv'
<1>1. PICK s : s = [op |-> "assign", var |-> a.var, value |-> a.value]
  OBVIOUS
<1>2. s.op = "assign" /\ s.var = a.var /\ s.value = a.value
  BY <1>1
<1>3. status = "reading" /\ text' = Append(text, s) /\ text = t
  BY <1>1 DEF Assign, ReadInitial, Read, Outcome
<1>5. Reads(s) /\ s.op # "end"
  BY <1>2 DEF Reads
<1>6. Accepting <=> IsLive(t, n + 1)
  BY AcceptingIsLive
<1>9. Fails(t, n, s) <=> Accepting /\ a.var \in DOMAIN Predefined
  BY <1>2, <1>6 DEF Fails
<1>10. CASE Fails(t, n, s)
  <2>1. Refuse
    BY <1>9, <1>10 DEF Assign
  <2> QED
    BY <1>3, <1>10, <2>1, FaultEnds
<1>11. CASE ~Fails(t, n, s)
  <2>1. Accepting => a.var \notin DOMAIN Predefined
    BY <1>9, <1>11
  <2>2. GoesOn(t, n, s, text')
    BY <1>3, <1>5, <1>11, FaultlessGoesOn
  <2>3. CASE ~Accepting
    <3>1. status' = "reading" /\ lexer' \in {"initial", "globals"}
          /\ UNCHANGED <<blocks, ignoring, defined, lists>>
      BY <1>3, <2>1, <2>3 DEF Assign, Parsed, SectionIsRight
    <3> QED
      BY <1>2, <1>6, <2>2, <2>3, <3>1, SkippedGoesOn
  <2>4. CASE Accepting
    <3>2. /\ locals' = WithValue(locals, a) /\ globals' = globals
          /\ defined' = TRUE /\ status' = "reading" /\ lexer' \in {"initial", "globals"}
          /\ UNCHANGED <<blocks, ignoring, rules, stops>>
      BY <1>3, <2>1, <2>4 DEF Assign, Parsed, SectionIsRight
    <3>3. PICK t2 : t2 = text'
      OBVIOUS
    <3>4. GoesOn(t, n, s, t2) /\ Grown(t, s, t2, n) /\ n \in Nat
      BY <2>2, <3>3, TextsAre DEF GoesOn, Parsed
    <3>11. PointsAreRight(t2)'
      <4>1. UNCHANGED <<rules, stops>>
        BY <3>2
      <4> QED
        BY <1>2, <3>4, <4>1, PointsKept
    <3>12. BlocksAre(t2, n + 1)'
      BY <1>2, <3>2, <3>4, BlocksStay
    <3>13. SectionIsRight(t2, n + 1)'
      <4>1. s.op # "section" /\ defined' \in BOOLEAN /\ ignoring' = ignoring
        BY <1>2, <3>2
      <4>2. defined' <=> \/ defined
                         \/ s.op \in {"rule", "stop", "assign"} /\ IsLive(t, n + 1)
                         \/ s.op = "scope" /\ IsLive(t, n + 1) /\ UsesVariable(s.attrs)
        BY <1>2, <1>6, <2>4, <3>2
      <4> QED
        BY <3>2, <3>4, <4>1, <4>2, SectionStays
    <3>14. TablesAre(t2, n + 1)'
      <4>1. TableIs(t, n, "assign", locals) /\ TableIs(t, n, "assign global", globals)
            /\ DOMAIN locals \cup DOMAIN globals \subseteq Var
        BY DEF Parsed, TablesAre
      <4>2. TableIs(t2, n + 1, "assign", WithValue(locals, a))
        BY <1>2, <1>6, <2>4, <3>4, <4>1, TableSet
      <4>3. TableIs(t2, n + 1, "assign global", globals)
        BY <1>2, <3>4, <4>1, TableStays
      <4>4. DOMAIN WithValue(locals, a) \subseteq Var
        BY <4>1, VariablesAreSet DEF WithValue
      <4> QED
        BY <3>2, <4>1, <4>2, <4>3, <4>4 DEF TablesAre
    <3> QED
      BY <3>2, <3>3, <3>4, <3>11, <3>12, <3>13, <3>14, PartsMake
  <2> QED
    BY <2>3, <2>4
<1> QED
  BY <1>10, <1>11

\* Reading an assignment in the global section.
LEMMA AssignGlobalIsRead ==
  ASSUME NEW t, NEW n, Parsed(t, n), Outcome(t, n), NEW a \in Assignment, AssignGlobal(a)
  PROVE  ParserIInv'
<1>1. PICK s : s = [op |-> "assign global", var |-> a.var, value |-> a.value]
  OBVIOUS
<1>2. s.op = "assign global" /\ s.var = a.var /\ s.value = a.value
  BY <1>1
<1>3. status = "reading" /\ text' = Append(text, s) /\ text = t
  BY <1>1 DEF AssignGlobal, Read, Outcome
<1>5. Reads(s) /\ s.op # "end" /\ ~Fails(t, n, s)
  BY <1>2 DEF Reads, Fails
<1>6. Accepting <=> IsLive(t, n + 1)
  BY AcceptingIsLive
<1>7. GoesOn(t, n, s, text')
  BY <1>3, <1>5, FaultlessGoesOn
<1>8. /\ status' = "reading" /\ lexer' \in {"initial", "globals"} /\ defined' = defined
      /\ UNCHANGED <<blocks, ignoring, locals, rules, stops>>
      /\ globals' = IF Accepting THEN WithValue(globals, a) ELSE globals
  BY <1>3 DEF AssignGlobal, Parsed, SectionIsRight
<1>9. CASE ~Accepting
  <2>1. UNCHANGED <<blocks, ignoring, defined, lists>>
    BY <1>8, <1>9 DEF lists
  <2> QED
    BY <1>2, <1>6, <1>7, <1>8, <1>9, <2>1, SkippedGoesOn
<1>10. CASE Accepting
  <2>3. PICK t2 : t2 = text'
    OBVIOUS
  <2>4. GoesOn(t, n, s, t2) /\ Grown(t, s, t2, n) /\ n \in Nat
    BY <1>7, <2>3, TextsAre DEF GoesOn, Parsed
  <2>11. PointsAreRight(t2)'
    <3>1. UNCHANGED <<rules, stops>>
      BY <1>8
    <3> QED
      BY <1>2, <2>4, <3>1, PointsKept
  <2>12. BlocksAre(t2, n + 1)'
    BY <1>2, <1>8, <2>4, BlocksStay
  <2>13. SectionIsRight(t2, n + 1)'
    <3>1. s.op # "section" /\ s.op # "scope" /\ s.op \notin {"rule", "stop", "assign"}
          /\ ignoring' = ignoring /\ defined \in BOOLEAN
      BY <1>2, <1>8 DEF Parsed, SectionIsRight
    <3>2. defined' = defined
      BY <1>8
    <3>3. defined' \in BOOLEAN
      BY <3>1, <3>2
    <3>4. defined' <=> \/ defined
                       \/ s.op \in {"rule", "stop", "assign"} /\ IsLive(t, n + 1)
                       \/ s.op = "scope" /\ IsLive(t, n + 1) /\ UsesVariable(s.attrs)
      BY ONLY <3>1, <3>2
    <3> QED
      BY <1>8, <2>4, <3>1, <3>3, <3>4, SectionStays
  <2>14. TablesAre(t2, n + 1)'
    <3>1. TableIs(t, n, "assign", locals) /\ TableIs(t, n, "assign global", globals)
          /\ DOMAIN locals \cup DOMAIN globals \subseteq Var
      BY DEF Parsed, TablesAre
    <3>2. TableIs(t2, n + 1, "assign global", WithValue(globals, a))
      BY <1>2, <1>6, <1>10, <2>4, <3>1, TableSet
    <3>3. TableIs(t2, n + 1, "assign", locals)
      BY <1>2, <2>4, <3>1, TableStays
    <3>4. DOMAIN WithValue(globals, a) \subseteq Var
      BY <3>1, VariablesAreSet DEF WithValue
    <3> QED
      BY <1>8, <1>10, <3>1, <3>2, <3>3, <3>4 DEF TablesAre
  <2> QED
    BY <1>8, <2>3, <2>4, <2>11, <2>12, <2>13, <2>14, PartsMake
<1> QED
  BY <1>9, <1>10

\* Reading @@section GLOBAL.
LEMMA GlobalSectionIsRead ==
  ASSUME NEW t, NEW n, Parsed(t, n), Outcome(t, n), GlobalSection
  PROVE  ParserIInv'
<1>1. PICK s : s = [op |-> "global section"]
  OBVIOUS
<1>2. s.op = "global section"
  BY <1>1
<1>3. status = "reading" /\ text' = Append(text, s) /\ text = t
  BY <1>1 DEF GlobalSection, ReadInitial, Read, Outcome
<1>4. Reads(s) /\ s.op # "end" /\ ~Fails(t, n, s)
  BY <1>2 DEF Reads, Fails
<1>5. GoesOn(t, n, s, text')
  BY <1>3, <1>4, FaultlessGoesOn
<1>6. /\ status' = "reading" /\ lexer' \in {"initial", "globals"}
      /\ UNCHANGED <<blocks, ignoring, defined, lists>>
  BY <1>3 DEF GlobalSection
<1> QED
  BY <1>2, <1>5, <1>6, SkippedGoesOn

\* Reading @@error.
LEMMA ErrorIsRead ==
  ASSUME NEW t, NEW n, Parsed(t, n), Outcome(t, n), ErrorDirective
  PROVE  ParserIInv'
<1>1. PICK s : s = [op |-> "error"]
  OBVIOUS
<1>2. s.op = "error"
  BY <1>1
<1>3. status = "reading" /\ text' = Append(text, s) /\ text = t
  BY <1>1 DEF ErrorDirective, ReadInitial, Read, Outcome
<1>4. Reads(s) /\ s.op # "end"
  BY <1>2 DEF Reads
<1>5. Fails(t, n, s) <=> Accepting
  BY <1>2, AcceptingIsLive DEF Fails
<1>6. CASE Accepting
  <2>1. Refuse
    BY <1>6 DEF ErrorDirective
  <2> QED
    BY <1>3, <1>5, <1>6, <2>1, FaultEnds
<1>7. CASE ~Accepting
  <2>1. GoesOn(t, n, s, text')
    BY <1>3, <1>4, <1>5, <1>7, FaultlessGoesOn
  <2>2. /\ status' = "reading" /\ lexer' \in {"initial", "globals"}
        /\ UNCHANGED <<blocks, ignoring, defined, lists>>
    BY <1>3, <1>7 DEF ErrorDirective, Parsed, SectionIsRight
  <2> QED
    BY <1>2, <2>1, <2>2, SkippedGoesOn
<1> QED
  BY <1>6, <1>7

\* Reading another @@section.
LEMMA SectionIsBegun ==
  ASSUME NEW t, NEW n, Parsed(t, n), Outcome(t, n), NEW name \in {"FS", "NTFS", "GLOBAL"},
         Section(name)
  PROVE  ParserIInv'
<1>1. PICK s : s = [op |-> "section", section |-> name]
  OBVIOUS
<1>2. s.op = "section" /\ s.section = name
  BY <1>1
<1>3. status = "reading" /\ text' = Append(text, s) /\ text = t
  BY <1>1 DEF Section, Read, Outcome
<1>4. Reads(s) /\ s.op # "end"
  BY <1>2 DEF Reads
<1>5. /\ Level(t, n) = Len(open) /\ Len(open) \in Nat
      /\ Len(open) > 0 <=> Len(accept) > 1 \/ scopes # << >>
      /\ Len(accept) \in Nat \ {0}
  BY OpenShows
<1>6. defined \in BOOLEAN /\ (defined <=> Begun(t, n))
  BY DEF Parsed, SectionIsRight
<1>7. Fails(t, n, s) <=> Len(accept) > 1 \/ scopes # << >> \/ (name = "FS" /\ defined)
  BY <1>2, <1>5, <1>6 DEF Fails
<1>8. CASE Fails(t, n, s)
  <2>1. ~(Len(accept) = 1 /\ scopes = << >> /\ (name = "FS" => ~defined))
    <3>1. Len(accept) > 1 \/ scopes # << >> \/ (name = "FS" /\ defined)
      BY <1>7, <1>8
    <3>2. Len(accept) > 1 => Len(accept) # 1
      <4>1. PICK l : l = Len(accept)
        OBVIOUS
      <4>2. l \in Nat
        BY <1>5, <4>1
      <4>3. l > 1 => l # 1
        BY ONLY <4>2
      <4> QED
        BY <4>1, <4>3
    <3> QED
      BY <3>1, <3>2
  <2>2. Refuse
    BY <2>1 DEF Section
  <2> QED
    BY <1>3, <1>8, <2>2, FaultEnds
<1>9. CASE ~Fails(t, n, s)
  <2>1. ~(Len(accept) > 1 \/ scopes # << >> \/ (name = "FS" /\ defined))
    BY <1>7, <1>9
  <2>2. /\ lexer' = "initial" /\ ignoring' = (name # "FS") /\ defined' = (defined \/ name = "FS")
        /\ UNCHANGED <<status, blocks, lists>>
    BY <2>1 DEF Section
  <2>3. PICK t2 : t2 = text'
    OBVIOUS
  <2>4. GoesOn(t, n, s, t2) /\ Grown(t, s, t2, n) /\ n \in Nat /\ n + 1 + 1 = n + 2
    BY <1>3, <1>4, <1>9, <2>3, FaultlessGoesOn, TextsAre DEF GoesOn, Parsed
  <2>5. Len(open) = 0
    BY <1>5, <2>1
  <2>6. BlocksAre(t2, n + 1)'
    BY <1>2, <2>2, <2>4, <2>5, BlocksStay
  <2>7. SectionIsRight(t2, n + 1)'
    <3>1. SectionIsRead(t2, n + 2) <=> name = "FS"
      BY <1>2, <2>4, SectionGrows
    <3>2. Begun(t2, n + 1) <=> Begun(t, n) \/ name = "FS"
      BY <1>2, <2>4, BegunGrows
    <3> QED
      BY <1>6, <2>2, <2>4, <3>1, <3>2 DEF SectionIsRight
  <2>8. TablesAre(t2, n + 1)'
    <3>1. UNCHANGED <<locals, globals>>
      BY <2>2 DEF lists
    <3> QED
      BY <1>2, <2>4, <3>1, TablesStay
  <2>9. PointsAreRight(t2)'
    <3>1. UNCHANGED <<rules, stops>>
      BY <2>2 DEF lists
    <3> QED
      BY <1>2, <2>4, <3>1, PointsKept
  <2>10. status' = "reading"
    BY <1>3, <2>2
  <2> QED
    BY <2>3, <2>4, <2>6, <2>7, <2>8, <2>9, <2>10, PartsMake
<1> QED
  BY <1>8, <1>9

-----------------------------------------------------------------------------
(* Blocks                                                                  *)

\* What a statement that opens, turns or closes a block leaves to show.
LEMMA BlocksMove ==
  ASSUME NEW t, NEW n, NEW s, NEW t2, GoesOn(t, n, s, t2),
         NEW o, NEW L, NEW pos, NEW o2, NEW L2, NEW pos2, NEW acc2, NEW scs2, NEW read,
         BlockStep(t, s, t2, n, o, L, pos, o2, L2, pos2), Stacks(read, t2, o2, L2, pos2, acc2, scs2),
         open' = o2, o2 \in Seq({"scope", "ifhost", "else"}), Len(o2) = L2,
         accept' = acc2, scopes' = scs2, ignoring' = ignoring, read = ~ignoring
  PROVE  BlocksAre(t2, n + 1)'
<1>1. Blocks(t2, n + 1, o2, L2, pos2)
  BY BlocksGrow DEF BlockStep
<1>2. /\ Blocks(t2, n + 1, open', Len(open'), pos2)
      /\ Stacks(~ignoring', t2, open', Len(open'), pos2, accept', scopes')
      /\ open' \in Seq({"scope", "ifhost", "else"})
  BY <1>1
<1> QED
  BY <1>2 DEF BlocksAre

\* A statement of blocks leaves everything but the stacks.
LEMMA BlockIsRead ==
  ASSUME NEW t, NEW n, NEW s, NEW t2, GoesOn(t, n, s, t2), text' = t2,
         s.op \in {"scope", "ifhost", "close", "else"},
         BlocksAre(t2, n + 1)', status' = "reading", UNCHANGED <<lexer, ignoring, lists>>,
         defined' \in BOOLEAN,
         defined' <=> defined \/ (s.op = "scope" /\ IsLive(t, n + 1) /\ UsesVariable(s.attrs))
  PROVE  ParserIInv'
<1>3. /\ UNCHANGED <<locals, globals>> /\ UNCHANGED <<rules, stops>>
  BY DEF lists
<1>4. SectionIsRight(t2, n + 1)'
  <2>1. s.op # "section" /\ s.op \notin {"rule", "stop", "assign"}
    OBVIOUS
  <2>2. lexer' \in {"initial", "globals"} /\ ignoring' = ignoring
    BY DEF GoesOn, Parsed, SectionIsRight
  <2>3. defined' <=> \/ defined
                     \/ s.op \in {"rule", "stop", "assign"} /\ IsLive(t, n + 1)
                     \/ s.op = "scope" /\ IsLive(t, n + 1) /\ UsesVariable(s.attrs)
    BY <2>1
  <2> QED
    BY <2>1, <2>2, <2>3, SectionStays
<1>5. TablesAre(t2, n + 1)'
  <2>1. s.op \notin {"assign", "assign global"}
    OBVIOUS
  <2> QED
    BY <1>3, <2>1, TablesStay
<1>6. PointsAreRight(t2)'
  <2>1. s.op \notin {"rule", "stop"}
    OBVIOUS
  <2> QED
    BY <1>3, <2>1, PointsKept
<1> QED
  BY <1>4, <1>5, <1>6, PartsMake

\* Statements of blocks other than lists of attributes are never at fault.
LEMMA BlockGoesOn ==
  ASSUME NEW t, NEW n, Parsed(t, n), Outcome(t, n), NEW s, Read(s),
         s.op \in {"ifhost", "close", "else"}, Reads(s)
  PROVE  /\ GoesOn(t, n, s, text') /\ status = "reading"
         /\ Grown(t, s, text', n) /\ VariablesGiven(t) /\ n \in Nat
<1>1. status = "reading" /\ text' = Append(text, s) /\ text = t
  BY DEF Read, Outcome
<1>2. s.op # "end" /\ ~Fails(t, n, s)
  BY DEF Fails
<1>3. GoesOn(t, n, s, text')
  BY <1>1, <1>2, FaultlessGoesOn
<1> QED
  BY <1>1, <1>3, TextsAre DEF GoesOn, Parsed

\* The blocks that are open, as a list.
LEMMA OpenIsList ==
  ASSUME NEW t, NEW n, BlocksAre(t, n)
  PROVE  /\ open \in Seq({"scope", "ifhost", "else"}) /\ Len(open) \in Nat
         /\ open # << >> <=> Len(open) > 0
         /\ \E pos : /\ Blocks(t, n, open, Len(open), pos)
                     /\ Stacks(~ignoring, t, open, Len(open), pos, accept, scopes)
<1>1. open \in Seq({"scope", "ifhost", "else"})
  BY DEF BlocksAre
<1>2. Len(open) \in Nat
  BY <1>1, LenProperties
<1>3. open # << >> <=> Len(open) > 0
  BY <1>1, <1>2, EmptySeq
<1> QED
  BY <1>1, <1>2, <1>3 DEF BlocksAre

\* A block that is opened.
Opened(s, o2) ==
  /\ open \in Seq({"scope", "ifhost", "else"})
  /\ s.op \in {"scope", "ifhost"} /\ o2 = Append(open, s.op)

\* What that does to the list of blocks.
LEMMA OpenGrows ==
  ASSUME NEW s, NEW o2, Opened(s, o2)
  PROVE  /\ o2 \in Seq({"scope", "ifhost", "else"}) /\ Len(o2) = Len(open) + 1
         /\ Moves(s, open, Len(open), o2, Len(o2))
<1>1. s.op \in {"scope", "ifhost", "else"} /\ s.op \in {"scope", "ifhost"}
  BY DEF Opened
<1>2. /\ o2 \in Seq({"scope", "ifhost", "else"}) /\ Len(o2) = Len(open) + 1
      /\ o2[Len(open) + 1] = s.op /\ \A i \in 1 .. Len(open) : o2[i] = open[i]
  BY <1>1, AppendProperties DEF Opened
<1> QED
  BY <1>1, <1>2 DEF Moves

\* A block that is closed.
LEMMA OpenShrinks ==
  ASSUME open \in Seq({"scope", "ifhost", "else"}), open # << >>, NEW s, s.op = "close",
         NEW o2, o2 = Front(open)
  PROVE  /\ o2 \in Seq({"scope", "ifhost", "else"}) /\ Len(o2) = Len(open) - 1
         /\ Moves(s, open, Len(open), o2, Len(o2))
         /\ Last(open) = open[Len(open)]
<1>1. /\ o2 \in Seq({"scope", "ifhost", "else"}) /\ Len(o2) = Len(open) - 1
      /\ Len(open) \in Nat \ {0}
      /\ \A i \in 1 .. Len(open) - 1 : o2[i] = open[i]
  BY FrontParts
<1>2. Len(open) > 0
  BY <1>1
<1>3. \A i \in 1 .. Len(o2) : o2[i] = open[i]
  BY <1>1
<1> QED
  BY <1>1, <1>2, <1>3 DEF Moves, Last

\* Reading @@ifhost.
LEMMA IfhostIsRead ==
  ASSUME NEW t, NEW n, Parsed(t, n), Outcome(t, n), NEW match \in BOOLEAN, Ifhost(match)
  PROVE  ParserIInv'
<1>1. PICK s : s = [op |-> "ifhost", match |-> match]
  OBVIOUS
<1>2. s.op = "ifhost" /\ s.match = match
  BY <1>1
<1>3. Reads(s)
  BY <1>2 DEF Reads
<1>4. /\ Read(s) /\ open' = Append(open, s.op) /\ accept' = Append(accept, StateOf(match))
      /\ UNCHANGED <<status, lexer, scopes, ignoring, defined, lists>>
  BY <1>1, <1>2 DEF Ifhost, ReadInitial
<1>5. /\ GoesOn(t, n, s, text') /\ status = "reading"
      /\ Grown(t, s, text', n) /\ VariablesGiven(t)
  BY <1>2, <1>3, <1>4, BlockGoesOn
<1>6. PICK t2, o2, L, L2 : t2 = text' /\ o2 = open' /\ L = Len(open) /\ L2 = Len(o2)
  OBVIOUS
<1>7. PICK pos : /\ open \in Seq({"scope", "ifhost", "else"})
                 /\ Blocks(t, n, open, L, pos)
                 /\ Stacks(~ignoring, t, open, L, pos, accept, scopes)
  BY <1>6, OpenIsList DEF Parsed
<1>8. /\ o2 \in Seq({"scope", "ifhost", "else"}) /\ Moves(s, open, L, o2, L2)
  <2>1. Opened(s, o2)
    BY <1>2, <1>4, <1>6, <1>7 DEF Opened
  <2> QED
    BY <1>6, <2>1, OpenGrows
<1>9. PICK pos2 : pos2 = Places(pos, L, n, L2)
  OBVIOUS
<1>10. BlockStep(t, s, t2, n, open, L, pos, o2, L2, pos2)
  BY <1>5, <1>6, <1>7, <1>8, <1>9 DEF BlockStep
<1>11. PICK x, r : x = StateOf(match) /\ r = ~ignoring
  OBVIOUS
<1>12. Last(accept) \in BOOLEAN /\ ignoring \in BOOLEAN
  BY <1>7, TopIsRead DEF Parsed, SectionIsRight
<1>13. x \in BOOLEAN /\ (r => r /\ (x <=> Last(accept) /\ s.match))
  BY <1>2, <1>11, <1>12 DEF StateOf, Accepting
<1>14. Stacks(r, t, open, L, pos, accept, scopes)
  BY <1>7, <1>11
<1>15. Stacks(r, t2, o2, L2, pos2, Append(accept, x), scopes)
  BY <1>2, <1>10, <1>13, <1>14, HostPushed
<1>16. BlocksAre(t2, n + 1)'
  <2>1. /\ GoesOn(t, n, s, t2) /\ open' = o2 /\ Len(o2) = L2 /\ accept' = Append(accept, x)
        /\ scopes' = scopes /\ ignoring' = ignoring /\ r = ~ignoring
    BY <1>4, <1>5, <1>6, <1>11
  <2> QED
    BY <1>8, <1>10, <1>15, <2>1, BlocksMove
<1>17. defined \in BOOLEAN
  BY DEF Parsed, SectionIsRight
<1>18. defined' <=> defined \/ (s.op = "scope" /\ IsLive(t, n + 1) /\ UsesVariable(s.attrs))
  <2>1. defined' = defined /\ s.op # "scope"
    BY <1>2, <1>4
  <2> QED
    BY ONLY <1>17, <2>1
<1>19. /\ GoesOn(t, n, s, t2) /\ text' = t2 /\ s.op \in {"scope", "ifhost", "close", "else"}
       /\ status' = "reading" /\ UNCHANGED <<lexer, ignoring, lists>> /\ defined' \in BOOLEAN
  BY <1>2, <1>4, <1>5, <1>6, <1>17
<1> QED
  BY <1>16, <1>18, <1>19, BlockIsRead

\* Reading @@endif.
LEMMA EndifIsRead ==
  ASSUME NEW t, NEW n, Parsed(t, n), Outcome(t, n), Endif
  PROVE  ParserIInv'
<1>1. PICK s : s = [op |-> "close"]
  OBVIOUS
<1>2. s.op = "close"
  BY <1>1
<1>3. Reads(s)
  BY <1>2 DEF Reads
<1>4. /\ Read(s) /\ open # << >> /\ Last(open) # "scope"
      /\ open' = Front(open) /\ accept' = Front(accept)
      /\ UNCHANGED <<status, lexer, scopes, ignoring, defined, lists>>
  BY <1>1, <1>2 DEF Endif, ReadInitial
<1>5. /\ GoesOn(t, n, s, text') /\ status = "reading"
      /\ Grown(t, s, text', n) /\ VariablesGiven(t)
  BY <1>2, <1>3, <1>4, BlockGoesOn
<1>6. PICK t2, o2, L, L2 : t2 = text' /\ o2 = open' /\ L = Len(open) /\ L2 = Len(o2)
  OBVIOUS
<1>7. PICK pos : /\ open \in Seq({"scope", "ifhost", "else"})
                 /\ Blocks(t, n, open, L, pos)
                 /\ Stacks(~ignoring, t, open, L, pos, accept, scopes)
  BY <1>6, OpenIsList DEF Parsed
<1>8. /\ o2 \in Seq({"scope", "ifhost", "else"}) /\ Moves(s, open, L, o2, L2) /\ open[L] # "scope"
  BY <1>2, <1>4, <1>6, <1>7, OpenShrinks
<1>9. PICK pos2 : pos2 = Places(pos, L, n, L2)
  OBVIOUS
<1>10. BlockStep(t, s, t2, n, open, L, pos, o2, L2, pos2)
  BY <1>5, <1>6, <1>7, <1>8, <1>9 DEF BlockStep
<1>11. PICK r : r = ~ignoring
  OBVIOUS
<1>14. Stacks(r, t, open, L, pos, accept, scopes)
  BY <1>7, <1>11
<1>15. Stacks(r, t2, o2, L2, pos2, Front(accept), scopes)
  BY <1>2, <1>8, <1>10, <1>14, HostPopped
<1>16. BlocksAre(t2, n + 1)'
  <2>1. /\ GoesOn(t, n, s, t2) /\ open' = o2 /\ Len(o2) = L2 /\ accept' = Front(accept)
        /\ scopes' = scopes /\ ignoring' = ignoring /\ r = ~ignoring
    BY <1>4, <1>5, <1>6, <1>11
  <2> QED
    BY <1>8, <1>10, <1>15, <2>1, BlocksMove
<1>17. defined \in BOOLEAN
  BY DEF Parsed, SectionIsRight
<1>18. defined' <=> defined \/ (s.op = "scope" /\ IsLive(t, n + 1) /\ UsesVariable(s.attrs))
  <2>1. defined' = defined /\ s.op # "scope"
    BY <1>2, <1>4
  <2> QED
    BY ONLY <1>17, <2>1
<1>19. /\ GoesOn(t, n, s, t2) /\ text' = t2 /\ s.op \in {"scope", "ifhost", "close", "else"}
       /\ status' = "reading" /\ UNCHANGED <<lexer, ignoring, lists>> /\ defined' \in BOOLEAN
  BY <1>2, <1>4, <1>5, <1>6, <1>17
<1> QED
  BY <1>16, <1>18, <1>19, BlockIsRead

\* Reading the brace that closes a block with attributes.
LEMMA CloseIsRead ==
  ASSUME NEW t, NEW n, Parsed(t, n), Outcome(t, n), CloseScope
  PROVE  ParserIInv'
<1>1. PICK s : s = [op |-> "close"]
  OBVIOUS
<1>2. s.op = "close"
  BY <1>1
<1>3. Reads(s)
  BY <1>2 DEF Reads
<1>4. /\ Read(s) /\ open # << >> /\ Last(open) = "scope"
      /\ open' = Front(open) /\ scopes' = Front(scopes)
      /\ UNCHANGED <<status, lexer, accept, ignoring, defined, lists>>
  BY <1>1, <1>2 DEF CloseScope, ReadInitial
<1>5. /\ GoesOn(t, n, s, text') /\ status = "reading"
      /\ Grown(t, s, text', n) /\ VariablesGiven(t)
  BY <1>2, <1>3, <1>4, BlockGoesOn
<1>6. PICK t2, o2, L, L2 : t2 = text' /\ o2 = open' /\ L = Len(open) /\ L2 = Len(o2)
  OBVIOUS
<1>7. PICK pos : /\ open \in Seq({"scope", "ifhost", "else"})
                 /\ Blocks(t, n, open, L, pos)
                 /\ Stacks(~ignoring, t, open, L, pos, accept, scopes)
  BY <1>6, OpenIsList DEF Parsed
<1>8. /\ o2 \in Seq({"scope", "ifhost", "else"}) /\ Moves(s, open, L, o2, L2) /\ open[L] = "scope"
  BY <1>2, <1>4, <1>6, <1>7, OpenShrinks
<1>9. PICK pos2 : pos2 = Places(pos, L, n, L2)
  OBVIOUS
<1>10. BlockStep(t, s, t2, n, open, L, pos, o2, L2, pos2)
  BY <1>5, <1>6, <1>7, <1>8, <1>9 DEF BlockStep
<1>11. PICK r : r = ~ignoring
  OBVIOUS
<1>14. Stacks(r, t, open, L, pos, accept, scopes)
  BY <1>7, <1>11
<1>15. Stacks(r, t2, o2, L2, pos2, accept, Front(scopes))
  BY <1>2, <1>8, <1>10, <1>14, ScopePopped
<1>16. BlocksAre(t2, n + 1)'
  <2>1. /\ GoesOn(t, n, s, t2) /\ open' = o2 /\ Len(o2) = L2 /\ accept' = accept
        /\ scopes' = Front(scopes) /\ ignoring' = ignoring /\ r = ~ignoring
    BY <1>4, <1>5, <1>6, <1>11
  <2> QED
    BY <1>8, <1>10, <1>15, <2>1, BlocksMove
<1>17. defined \in BOOLEAN
  BY DEF Parsed, SectionIsRight
<1>18. defined' <=> defined \/ (s.op = "scope" /\ IsLive(t, n + 1) /\ UsesVariable(s.attrs))
  <2>1. defined' = defined /\ s.op # "scope"
    BY <1>2, <1>4
  <2> QED
    BY ONLY <1>17, <2>1
<1>19. /\ GoesOn(t, n, s, t2) /\ text' = t2 /\ s.op \in {"scope", "ifhost", "close", "else"}
       /\ status' = "reading" /\ UNCHANGED <<lexer, ignoring, lists>> /\ defined' \in BOOLEAN
  BY <1>2, <1>4, <1>5, <1>6, <1>17
<1> QED
  BY <1>16, <1>18, <1>19, BlockIsRead

\* Reading @@else.
LEMMA ElseIsRead ==
  ASSUME NEW t, NEW n, Parsed(t, n), Outcome(t, n), Else
  PROVE  ParserIInv'
<1>1. PICK s : s = [op |-> "else"]
  OBVIOUS
<1>2. s.op = "else"
  BY <1>1
<1>3. Reads(s)
  BY <1>2 DEF Reads
<1>4. /\ Read(s) /\ open # << >> /\ Last(open) = "ifhost"
      /\ open' = Append(Front(open), "else") /\ accept' = Toggled(accept)
      /\ UNCHANGED <<status, lexer, scopes, ignoring, defined, lists>>
  BY <1>1, <1>2 DEF Else, ReadInitial
<1>5. /\ GoesOn(t, n, s, text') /\ status = "reading"
      /\ Grown(t, s, text', n) /\ VariablesGiven(t)
  BY <1>2, <1>3, <1>4, BlockGoesOn
<1>6. PICK t2, o2, L, L2 : t2 = text' /\ o2 = open' /\ L = Len(open) /\ L2 = Len(o2)
  OBVIOUS
<1>7. PICK pos : /\ open \in Seq({"scope", "ifhost", "else"})
                 /\ Blocks(t, n, open, L, pos)
                 /\ Stacks(~ignoring, t, open, L, pos, accept, scopes)
  BY <1>6, OpenIsList DEF Parsed
<1>8. /\ o2 \in Seq({"scope", "ifhost", "else"}) /\ Moves(s, open, L, o2, L2)
      /\ open[L] = "ifhost" /\ L \in Nat \ {0}
  <2>1. PICK f : f = Front(open)
    OBVIOUS
  <2>2. /\ f \in Seq({"scope", "ifhost", "else"}) /\ Len(f) = L - 1 /\ L \in Nat \ {0}
        /\ \A i \in 1 .. L - 1 : f[i] = open[i]
    BY <1>4, <1>6, <1>7, <2>1, FrontParts
  <2>3. o2 = Append(f, "else")
    BY <1>4, <1>6, <2>1
  <2>4. /\ o2 \in Seq({"scope", "ifhost", "else"}) /\ Len(o2) = Len(f) + 1
        /\ o2[Len(f) + 1] = "else" /\ \A i \in 1 .. Len(f) : o2[i] = f[i]
    BY <2>2, <2>3, AppendProperties
  <2>5. L2 = L /\ o2[L] = "else" /\ \A i \in 1 .. L - 1 : o2[i] = open[i]
    BY <1>6, <2>2, <2>4
  <2>6. open[L] = "ifhost" /\ L > 0
    BY <1>4, <1>6, <2>2 DEF Last
  <2> QED
    BY <1>2, <2>2, <2>4, <2>5, <2>6 DEF Moves
<1>9. PICK pos2 : pos2 = Places(pos, L, n, L2)
  OBVIOUS
<1>10. BlockStep(t, s, t2, n, open, L, pos, o2, L2, pos2)
  BY <1>5, <1>6, <1>7, <1>8, <1>9 DEF BlockStep
<1>11. PICK r : r = ~ignoring
  OBVIOUS
<1>12. t[pos[L]].match \in BOOLEAN
  <2>1. L \in 1 .. L
    BY <1>8
  <2>2. /\ pos[L] \in 1 .. n /\ Encloses(t, pos[L], n + 1)
        /\ open[L] = "scope" <=> t[pos[L]].op = "scope"
    BY <1>7, <2>1 DEF Blocks
  <2>3. t[pos[L]].op = "ifhost"
    BY <1>8, <2>2 DEF Encloses, Opens
  <2>4. Reads(t[pos[L]])
    BY <2>2 DEF Parsed, IsText
  <2> QED
    BY <2>3, <2>4 DEF Reads
<1>14. Stacks(r, t, open, L, pos, accept, scopes)
  BY <1>7, <1>11
<1>15. Stacks(r, t2, o2, L2, pos2, Toggled(accept), scopes)
  BY <1>2, <1>10, <1>12, <1>14, HostTurned
<1>16. BlocksAre(t2, n + 1)'
  <2>1. /\ GoesOn(t, n, s, t2) /\ open' = o2 /\ Len(o2) = L2 /\ accept' = Toggled(accept)
        /\ scopes' = scopes /\ ignoring' = ignoring /\ r = ~ignoring
    BY <1>4, <1>5, <1>6, <1>11
  <2> QED
    BY <1>8, <1>10, <1>15, <2>1, BlocksMove
<1>17. defined \in BOOLEAN
  BY DEF Parsed, SectionIsRight
<1>18. defined' <=> defined \/ (s.op = "scope" /\ IsLive(t, n + 1) /\ UsesVariable(s.attrs))
  <2>1. defined' = defined /\ s.op # "scope"
    BY <1>2, <1>4
  <2> QED
    BY ONLY <1>17, <2>1
<1>19. /\ GoesOn(t, n, s, t2) /\ text' = t2 /\ s.op \in {"scope", "ifhost", "close", "else"}
       /\ status' = "reading" /\ UNCHANGED <<lexer, ignoring, lists>> /\ defined' \in BOOLEAN
  BY <1>2, <1>4, <1>5, <1>6, <1>17
<1> QED
  BY <1>16, <1>18, <1>19, BlockIsRead

\* Reading the attributes in front of a block.
LEMMA ScopeIsRead ==
  ASSUME NEW t, NEW n, Parsed(t, n), Outcome(t, n), NEW attrs \in Scope, OpenScope(attrs)
  PROVE  ParserIInv'
<1>1. PICK s : s = [op |-> "scope", attrs |-> attrs]
  OBVIOUS
<1>2. s.op = "scope" /\ s.attrs = attrs
  BY <1>1
<1>3. Attributes(s.attrs)
  BY <1>2, ScopesAreLists
<1>4. Reads(s) /\ s.op # "end"
  BY <1>2, <1>3 DEF Reads
<1>5. status = "reading" /\ text' = Append(text, s) /\ text = t
  BY <1>1 DEF OpenScope, ReadInitial, Read, Outcome
<1>6. Fails(t, n, s) <=> IsBad(attrs)
  <2>1. IsBad(attrs) <=> /\ UsesVariable(attrs)
                         /\ IsLive(t, n + 1) => ~IsGiven(t, n + 1, attrs.severity)
    BY BadIsFault
  <2> QED
    BY <1>2, <2>1 DEF Fails
<1>7. CASE Fails(t, n, s)
  <2>1. Refuse
    BY <1>6, <1>7 DEF OpenScope
  <2> QED
    BY <1>5, <1>7, <2>1, FaultEnds
<1>8. CASE ~Fails(t, n, s)
  <2>1. ~IsBad(attrs)
    BY <1>6, <1>8
  <2>2. /\ open' = Append(open, s.op)
        /\ scopes' = Append(scopes, MergeNoOverwrite(Evaluated(s.attrs), GlobalAttrs))
        /\ defined' = (defined \/ Uses(attrs))
        /\ UNCHANGED <<status, lexer, accept, ignoring, lists>>
    BY <1>2, <2>1 DEF OpenScope
  <2>3. PICK t2, o2, L, L2 : t2 = text' /\ o2 = open' /\ L = Len(open) /\ L2 = Len(o2)
    OBVIOUS
  <2>4. /\ GoesOn(t, n, s, t2) /\ Grown(t, s, t2, n) /\ VariablesGiven(t)
    BY <1>4, <1>5, <1>8, <2>3, FaultlessGoesOn, TextsAre DEF GoesOn, Parsed
  <2>5. PICK pos : /\ open \in Seq({"scope", "ifhost", "else"})
                   /\ Blocks(t, n, open, L, pos)
                   /\ Stacks(~ignoring, t, open, L, pos, accept, scopes)
    BY <2>3, OpenIsList DEF Parsed
  <2>6. /\ o2 \in Seq({"scope", "ifhost", "else"}) /\ Moves(s, open, L, o2, L2)
    <3>1. Opened(s, o2)
      BY <1>2, <2>2, <2>3, <2>5 DEF Opened
    <3> QED
      BY <2>3, <3>1, OpenGrows
  <2>7. PICK pos2, r : pos2 = Places(pos, L, n, L2) /\ r = ~ignoring
    OBVIOUS
  <2>8. BlockStep(t, s, t2, n, open, L, pos, o2, L2, pos2)
    BY <2>4, <2>5, <2>6, <2>7 DEF BlockStep
  <2>9. PICK x : x = AttrsAt(t2, n + 1)
    OBVIOUS
  <2>10. scopes' = Append(scopes, x)
    <3>1. MergeNoOverwrite(Evaluated(s.attrs), GlobalAttrs) = AttrsAt(t2, n + 1)
      BY <1>2, <1>3, <2>1, <2>4, AttrsAreMerged
    <3> QED
      BY <2>2, <2>9, <3>1
  <2>11. Stacks(r, t2, o2, L2, pos2, accept, Append(scopes, x))
    <3>1. Stacks(r, t, open, L, pos, accept, scopes)
      BY <2>5, <2>7
    <3> QED
      BY <1>2, <2>8, <2>9, <3>1, ScopePushed
  <2>12. BlocksAre(t2, n + 1)'
    <3>1. /\ open' = o2 /\ Len(o2) = L2 /\ accept' = accept /\ ignoring' = ignoring /\ r = ~ignoring
      BY <2>2, <2>3, <2>7
    <3> QED
      BY <2>4, <2>6, <2>8, <2>10, <2>11, <3>1, BlocksMove
  <2>13. defined \in BOOLEAN /\ UsesVariable(attrs) \in BOOLEAN
    BY DEF Parsed, SectionIsRight, UsesVariable
  <2>14. /\ defined' \in BOOLEAN
         /\ defined' <=> defined \/ (s.op = "scope" /\ IsLive(t, n + 1) /\ UsesVariable(s.attrs))
    <3>1. Accepting <=> IsLive(t, n + 1)
      BY AcceptingIsLive
    <3>2. Uses(attrs) <=> IsLive(t, n + 1) /\ UsesVariable(attrs)
      BY <3>1 DEF Uses
    <3>3. defined' = (defined \/ Uses(attrs))
      BY <2>2
    <3>4. s.op = "scope" /\ s.attrs = attrs
      BY <1>2
    <3> QED
      BY ONLY <2>13, <3>2, <3>3, <3>4
  <2>15. /\ text' = t2 /\ s.op \in {"scope", "ifhost", "close", "else"}
         /\ status' = "reading" /\ UNCHANGED <<lexer, ignoring, lists>>
    BY <1>2, <1>5, <2>2, <2>3
  <2> QED
    BY <2>4, <2>12, <2>14, <2>15, BlockIsRead
<1> QED
  BY <1>7, <1>8

\* Whether there are rules shows in the list of them.
LEMMA RulesShow ==
  ASSUME NEW t, NEW rls, RulesAre(t, rls)
  PROVE  /\ rls = << >> <=> Live(t, {"rule"}) = {}
         /\ Len(rls) = Cardinality(Live(t, {"rule"})) /\ DOMAIN rls = 1 .. Len(rls)
         /\ Len(rls) \in Nat
<1>1. PICK S : rls \in Seq(S)
  BY DEF RulesAre
<1>2. PICK R : R = Live(t, {"rule"})
  OBVIOUS
<1>3. IsFiniteSet(R) /\ Len(rls) = Cardinality(R)
  BY <1>2 DEF RulesAre
<1>4. Cardinality(R) = 0 <=> R = {}
  BY <1>3, FS_EmptySet
<1>5. rls = << >> <=> Len(rls) = 0
  BY <1>1, EmptySeq
<1>6. DOMAIN rls = 1 .. Len(rls) /\ Len(rls) \in Nat
  BY <1>1, LenProperties
<1> QED
  BY <1>2, <1>3, <1>4, <1>5, <1>6

\* Reading the end of the policy.
LEMMA EndIsRead ==
  ASSUME NEW t, NEW n, Parsed(t, n), Outcome(t, n), Finish
  PROVE  ParserIInv'
<1>1. PICK s : s = [op |-> "end"]
  OBVIOUS
<1>2. s.op = "end"
  BY <1>1
<1>3. status = "reading" /\ text' = Append(text, s) /\ text = t
  BY <1>1 DEF Finish, Outcome
<1>4. Fails(t, n, s) <=> open # << >> \/ rules = << >>
  <2>1. Level(t, n) > 0 <=> open # << >>
    BY OpenShows
  <2>2. rules = << >> <=> Live(t, {"rule"}) = {}
    BY RulesShow DEF Parsed, PointsAreRight
  <2> QED
    BY <1>2, <2>1, <2>2 DEF Fails
<1>5. CASE Fails(t, n, s)
  <2>1. Refuse
    BY <1>4, <1>5 DEF Finish
  <2> QED
    BY <1>3, <1>5, <2>1, FaultEnds
<1>6. CASE ~Fails(t, n, s)
  <2>1. /\ status' = "done" /\ specs' = SpecsOf(rules)
        /\ UNCHANGED <<lexer, blocks, ignoring, defined, lists>>
    BY <1>4, <1>6 DEF Finish, SpecsOf
  <2>2. PICK t2 : t2 = text'
    OBVIOUS
  <2>3. Grown(t, s, t2, n) /\ Len(t2) = n + 1
    BY <1>3, <2>2, TextGrows DEF Parsed
  <2>4. Parsed(t, n)'
    BY <2>1 DEF Parsed, BlocksAre, SectionIsRight, TablesAre, PointsAreRight, blocks, lists
  <2>5. EndsWith(t, n, s)'
    BY <2>2, <2>3 DEF EndsWith
  <2>6. SpecsOf(rules)' = SpecsOf(rules)
    BY <2>1 DEF SpecsOf, HelperFor, DepthOf, lists
  <2>7. Outcome(t, n)'
    BY <1>1, <1>6, <2>1, <2>5, <2>6 DEF Outcome
  <2> QED
    BY <2>4, <2>7 DEF ParserIInv
<1> QED
  BY <1>5, <1>6

\* The empty text.
LEMMA NothingIsLive ==
  ASSUME NEW t, t = << >>
  PROVE  /\ t \in Seq({}) /\ Len(t) = 0 /\ DOMAIN t = 1 .. 0
         /\ \A ops : Live(t, ops) = {}
         /\ SectionIsRead(t, 1) /\ Level(t, 0) = 0 /\ ~Begun(t, 0)
<1>1. t \in Seq({}) /\ Len(t) = 0 /\ DOMAIN t = 1 .. 0
  OBVIOUS
<1>2. \A j : j \notin 1 .. 0
  OBVIOUS
<1>3. \A ops : Live(t, ops) = {}
  BY <1>1, <1>2 DEF Live
<1>4. SectionIsRead(t, 1)
  <2>1. {j \in 1 .. 1 - 1 : t[j].op = "section"} = {}
    BY <1>2
  <2> QED
    BY <2>1 DEF SectionIsRead
<1>5. Level(t, 0) = 0
  <2>1. {j \in 1 .. 0 : Opens(t, j)} = {} /\ {j \in 1 .. 0 : t[j].op = "close"} = {}
    BY <1>2
  <2>2. Cardinality({}) = 0
    BY FS_EmptySet
  <2> QED
    BY <2>1, <2>2 DEF Level
<1>6. ~Begun(t, 0)
  BY <1>2 DEF Begun
<1> QED
  BY <1>1, <1>3, <1>4, <1>5, <1>6

\* Before anything is read.
LEMMA InitIsParsed == ParserInit => ParserIInv
<1> SUFFICES ASSUME ParserInit
             PROVE  ParserIInv
  OBVIOUS
<1>1. PICK t : t = << >>
  OBVIOUS
<1>2. /\ t \in Seq({}) /\ Len(t) = 0
      /\ \A ops : Live(t, ops) = {}
      /\ SectionIsRead(t, 1) /\ Level(t, 0) = 0 /\ ~Begun(t, 0)
  BY <1>1, NothingIsLive
<1>3. \A j : j \notin 1 .. 0
  OBVIOUS
<1>4. IsText(t, 0)
  BY <1>2, <1>3 DEF IsText
<1>5. BlocksAre(t, 0)
  <2>1. PICK o, pos, acc, scs, read : /\ o = << >> /\ pos = << >> /\ acc = <<TRUE>> /\ scs = << >>
                                      /\ read = ~ignoring
    OBVIOUS
  <2>2. Blocks(t, 0, o, 0, pos)
    BY <1>2, <1>3 DEF Blocks
  <2>3. HostsOf(o, 0) = 0 /\ ScopesOf(o, 0) = 0
    BY KindsAre
  <2>4. BlocksRead(t, o, pos, 0)
    BY <1>3 DEF BlocksRead
  <2>5. acc \in Seq(BOOLEAN) /\ Len(acc) = 1 /\ acc[1] = TRUE /\ Len(scs) = 0 /\ scs \in Seq({})
    BY <2>1
  <2>6. \A i \in 0 .. 0 : i = 0
    OBVIOUS
  <2>7. \A i \in 0 .. 0 : acc[1 + HostsOf(o, i)] <=> BlocksRead(t, o, pos, i)
    BY <2>3, <2>4, <2>5, <2>6
  <2>8. Stacks(read, t, o, 0, pos, acc, scs)
    BY <1>3, <2>3, <2>5, <2>7 DEF Stacks
  <2>9. open = o /\ accept = acc /\ scopes = scs /\ Len(o) = 0 /\ o \in Seq({"scope", "ifhost", "else"})
    BY <2>1 DEF ParserInit
  <2> QED
    BY <2>1, <2>2, <2>8, <2>9 DEF BlocksAre
<1>6. SectionIsRight(t, 0)
  <2>1. /\ ignoring = FALSE /\ lexer = "initial" /\ defined = FALSE
    BY DEF ParserInit
  <2>2. 0 + 1 = 1
    OBVIOUS
  <2> QED
    BY <1>2, <2>1, <2>2 DEF SectionIsRight
<1>7. TablesAre(t, 0)
  <2>1. PICK e : e = << >>
    OBVIOUS
  <2>2. DOMAIN e = {}
    BY <2>1
  <2>3. \A op, v : Given(t, 0 + 1, v, op) = {}
    BY <1>2 DEF Given
  <2>4. \A op : TableIs(t, 0, op, e)
    BY <2>2, <2>3 DEF TableIs
  <2> QED
    BY <2>1, <2>2, <2>4 DEF TablesAre, ParserInit
<1>8. PointsAreRight(t)
  <2>1. PICK e : e = << >>
    OBVIOUS
  <2>2. e \in Seq({}) /\ e \in Seq(Seq(Nat)) /\ Len(e) = 0 /\ DOMAIN e = {}
    BY <2>1
  <2>3. Range(e) = {}
    BY <2>2 DEF Range
  <2>4. PointsAre(t, e)
    BY <1>2, <2>2, <2>3 DEF PointsAre
  <2>5. IsFiniteSet({}) /\ Cardinality({}) = 0
    BY FS_EmptySet
  <2>6. RulesAre(t, e)
    BY <1>2, <1>3, <2>2, <2>5 DEF RulesAre
  <2> QED
    BY <2>1, <2>4, <2>6 DEF PointsAreRight, ParserInit
<1>9. Parsed(t, 0)
  BY <1>4, <1>5, <1>6, <1>7, <1>8 DEF Parsed
<1>10. Outcome(t, 0)
  BY <1>1 DEF Outcome, ParserInit
<1> QED
  BY <1>9, <1>10 DEF ParserIInv

\* And when nothing is read.
LEMMA StutterKeeps == ParserIInv /\ UNCHANGED parserVars => ParserIInv'
<1> SUFFICES ASSUME ParserIInv, UNCHANGED parserVars
             PROVE  ParserIInv'
  OBVIOUS
<1>1. PICK t, n : Parsed(t, n) /\ Outcome(t, n)
  BY DEF ParserIInv
<1>2. Parsed(t, n)'
  BY <1>1 DEF Parsed, BlocksAre, SectionIsRight, TablesAre, PointsAreRight, blocks, lists, parserVars
<1>3. SpecsOf(rules)' = SpecsOf(rules)
  BY DEF SpecsOf, HelperFor, DepthOf, lists, parserVars
<1>4. Outcome(t, n)'
  BY <1>1, <1>3 DEF Outcome, EndsWith, parserVars
<1> QED
  BY <1>2, <1>4 DEF ParserIInv

\* What the parser holds is what the text says that it has read, and it stops
\* at the first fault (parser/policy.y, twparser/parserhelper.cpp).
THEOREM ParserInductive == ParserSpec => []ParserIInv
<1>1. ParserInit => ParserIInv
  BY InitIsParsed
<1>2. ParserIInv /\ [ParserNext]_parserVars => ParserIInv'
  <2> SUFFICES ASSUME ParserIInv, [ParserNext]_parserVars
               PROVE  ParserIInv'
    OBVIOUS
  <2>1. PICK t, n : Parsed(t, n) /\ Outcome(t, n)
    BY DEF ParserIInv
  <2>2. CASE \E r \in Rule : ReadRule(r)
    BY <2>1, <2>2, RuleIsRead
  <2>3. CASE \E p \in Stop : ReadStop(p)
    BY <2>1, <2>3, StopIsRead
  <2>4. CASE \E a \in Assignment : Assign(a)
    BY <2>1, <2>4, AssignIsRead
  <2>5. CASE \E a \in Assignment : AssignGlobal(a)
    BY <2>1, <2>5, AssignGlobalIsRead
  <2>6. CASE \E attrs \in Scope : OpenScope(attrs)
    BY <2>1, <2>6, ScopeIsRead
  <2>7. CASE CloseScope
    BY <2>1, <2>7, CloseIsRead
  <2>8. CASE \E match \in BOOLEAN : Ifhost(match)
    BY <2>1, <2>8, IfhostIsRead
  <2>9. CASE Else
    BY <2>1, <2>9, ElseIsRead
  <2>10. CASE Endif
    BY <2>1, <2>10, EndifIsRead
  <2>11. CASE GlobalSection
    BY <2>1, <2>11, GlobalSectionIsRead
  <2>12. CASE \E s \in {"FS", "NTFS", "GLOBAL"} : Section(s)
    BY <2>1, <2>12, SectionIsBegun
  <2>13. CASE ErrorDirective
    BY <2>1, <2>13, ErrorIsRead
  <2>14. CASE Finish
    BY <2>1, <2>14, EndIsRead
  <2>15. CASE UNCHANGED parserVars
    BY <2>15, StutterKeeps
  <2> QED
    BY <2>2, <2>3, <2>4, <2>5, <2>6, <2>7, <2>8, <2>9, <2>10, <2>11, <2>12, <2>13, <2>14, <2>15
       DEF ParserNext
<1> QED
  BY <1>1, <1>2, PTL DEF ParserSpec

-----------------------------------------------------------------------------
(* What the inductive invariant says                                       *)

\* The parser's stacks are as deep as the blocks that are open: an unbalanced
\* push or pop of cPreprocessor or cParserHelper would show here.
THEOREM ParserTyped == ParserSpec => []ParserTypeOK
<1>1. ParserIInv => ParserTypeOK
  <2> SUFFICES ASSUME ParserIInv
               PROVE  ParserTypeOK
    OBVIOUS
  <2>1. PICK t, n : Parsed(t, n) /\ Outcome(t, n)
    BY DEF ParserIInv
  <2>2. status \in {"reading", "refused", "done"}
    BY <2>1 DEF Outcome
  <2>3. /\ lexer \in {"initial", "globals"} /\ ignoring \in BOOLEAN /\ defined \in BOOLEAN
        /\ defined <=> Begun(t, n)
    BY <2>1 DEF Parsed, SectionIsRight
  <2>4. PICK pos : /\ open \in Seq({"scope", "ifhost", "else"}) /\ Len(open) \in Nat
                   /\ Blocks(t, n, open, Len(open), pos)
                   /\ Stacks(~ignoring, t, open, Len(open), pos, accept, scopes)
    BY <2>1, OpenIsList DEF Parsed
  <2>5. accept \in Seq(BOOLEAN) /\ accept # << >> /\ accept[1]
    BY <2>4, TopIsRead DEF Stacks
  <2>6. /\ Len(accept) - 1 = Cardinality({i \in DOMAIN open : open[i] # "scope"})
        /\ Len(scopes) = Cardinality({i \in DOMAIN open : open[i] = "scope"})
    <3>1. DOMAIN open = 1 .. Len(open)
      BY <2>4, LenProperties
    <3>2. PICK h, c : /\ h = Cardinality({i \in DOMAIN open : open[i] # "scope"})
                      /\ c = Cardinality({i \in DOMAIN open : open[i] = "scope"})
      OBVIOUS
    <3>3. HostsOf(open, Len(open)) = h /\ ScopesOf(open, Len(open)) = c
      BY <3>1, <3>2 DEF HostsOf, ScopesOf
    <3>4. h \in Nat
      BY <2>4, <3>3, KindsAre
    <3>5. Len(accept) = 1 + h /\ Len(scopes) = c
      BY <2>4, <3>3 DEF Stacks
    <3> QED
      BY <3>2, <3>4, <3>5
  <2>7. rules # << >> => defined
    <3> HAVE rules # << >>
    <3>1. PICK k : k \in Live(t, {"rule"})
      BY <2>1, RulesShow DEF Parsed, PointsAreRight
    <3>2. DOMAIN t = 1 .. n
      BY <2>1, TextsAre DEF Parsed
    <3>3. k \in 1 .. n /\ k \in Live(t, {"rule", "stop", "assign"})
      BY <3>1, <3>2 DEF Live
    <3> QED
      BY <2>3, <3>3 DEF Begun
  <2>8. DOMAIN locals \cup DOMAIN globals \subseteq Var
    BY <2>1 DEF Parsed, TablesAre
  <2> QED
    BY <2>2, <2>3, <2>4, <2>5, <2>6, <2>7, <2>8 DEF ParserTypeOK
<1> QED
  BY <1>1, ParserInductive, PTL

\* The parser refuses a policy at its first fault and for no other reason.
THEOREM RefusesFaultsOnly == ParserSpec => []RefusedForAFault
<1>1. ParserIInv => RefusedForAFault
  <2> SUFFICES ASSUME ParserIInv
               PROVE  RefusedForAFault
    OBVIOUS
  <2>1. PICK t, n : Parsed(t, n) /\ Outcome(t, n)
    BY DEF ParserIInv
  <2>2. \A k : FaultAt(text, k) <=> IsFault(text, k) \/ SkippedVariable(k)
    BY DEF FaultAt, SkippedVariable, HasAttrs
  <2>3. /\ n \in Nat /\ DOMAIN t = 1 .. n /\ n = Len(t)
        /\ \A k \in 1 .. n : t[k].op # "end" /\ ~FaultAt(t, k)
    BY <2>1, TextsAre DEF Parsed, IsText
  <2>4. ASSUME NEW s, EndsWith(t, n, s)
        PROVE  /\ Len(text) = n + 1 /\ DOMAIN text = 1 .. n + 1
               /\ \A k \in 1 .. n : ~FaultAt(text, k)
               /\ FaultAt(text, n + 1) <=> Fails(t, n, s)
    <3>1. PICK t2 : t2 = text /\ Grown(t, s, t2, n)
      BY <2>4 DEF EndsWith
    <3>2. FaultAt(t2, n + 1) <=> Fails(t, n, s)
      BY <3>1, NewFault
    <3>3. \A k \in 1 .. n : ~FaultAt(t2, k)
      BY <2>3, <3>1, SameFault
    <3>4. DOMAIN t2 = 1 .. n + 1
      BY <3>1 DEF Grown
    <3> QED
      BY <2>4, <3>1, <3>2, <3>3, <3>4 DEF EndsWith
  <2>5. /\ \A k \in DOMAIN text : FaultAt(text, k) => k = Len(text) /\ status = "refused"
        /\ status = "refused" => FaultAt(text, Len(text))
    <3>1. CASE status = "reading" /\ text = t
      BY <2>3, <3>1
    <3>2. CASE status = "refused" /\ \E s : EndsWith(t, n, s) /\ Fails(t, n, s)
      <4>1. PICK s : EndsWith(t, n, s) /\ Fails(t, n, s)
        BY <3>2
      <4>2. /\ Len(text) = n + 1 /\ DOMAIN text = 1 .. n + 1
            /\ \A k \in 1 .. n : ~FaultAt(text, k)
            /\ FaultAt(text, n + 1)
        BY <2>4, <4>1
      <4>3. \A k \in 1 .. n + 1 : k \in 1 .. n \/ k = n + 1
        BY <2>3
      <4> QED
        BY <3>2, <4>2, <4>3
    <3>3. CASE /\ status = "done" /\ EndsWith(t, n, [op |-> "end"])
               /\ ~Fails(t, n, [op |-> "end"])
      <4>1. PICK s : EndsWith(t, n, s) /\ ~Fails(t, n, s)
        BY <3>3
      <4>2. /\ Len(text) = n + 1 /\ DOMAIN text = 1 .. n + 1
            /\ \A k \in 1 .. n : ~FaultAt(text, k)
            /\ ~FaultAt(text, n + 1)
        BY <2>4, <4>1
      <4>3. \A k \in 1 .. n + 1 : k \in 1 .. n \/ k = n + 1
        BY <2>3
      <4> QED
        BY <3>3, <4>2, <4>3
    <3> QED
      BY <2>1, <3>1, <3>2, <3>3 DEF Outcome
  <2> QED
    BY <2>2, <2>5 DEF RefusedForAFault
<1> QED
  BY <1>1, ParserInductive, PTL

\* The specifications are those of the rules, and the rules the text's.
SpecsAre ==
  status = "done" =>
    /\ RulesAre(text, rules) /\ PointsAre(text, stops)
    /\ Live(text, {"rule", "stop"}) \subseteq DOMAIN text
    /\ \A k \in DOMAIN text : ~SecondPoint(text, k)
    /\ \A k \in DOMAIN text : k \in Nat
    /\ specs = SpecsOf(rules)

\* Which the inductive invariant says of them.
LEMMA SpecsMade == ParserIInv => SpecsAre
<1> SUFFICES ASSUME ParserIInv, status = "done"
             PROVE  SpecsAre
  BY DEF SpecsAre
<1>1. PICK t, n : Parsed(t, n) /\ Outcome(t, n)
  BY DEF ParserIInv
<1>2. PICK s : s = [op |-> "end"]
  OBVIOUS
<1>3. s.op = "end" /\ EndsWith(t, n, s) /\ ~Fails(t, n, s) /\ specs = SpecsOf(rules)
  BY <1>1, <1>2 DEF Outcome
<1>4. PICK t2 : t2 = text /\ Grown(t, s, t2, n)
  BY <1>3 DEF EndsWith
<1>5. VariablesGiven(t) /\ n \in Nat /\ RulesAre(t, rules) /\ PointsAre(t, stops)
  BY <1>1, TextsAre DEF Parsed, PointsAreRight
<1>6. RulesAre(t2, rules)
  BY <1>3, <1>4, <1>5, RulesStay
<1>7. PointsAre(t2, stops)
  BY <1>3, <1>4, <1>5, PointsStay
<1>8. DOMAIN t2 = 1 .. n + 1
  BY <1>4 DEF Grown
<1>9. \A k \in 1 .. n + 1 : ~SecondPoint(t2, k)
  <2> TAKE k \in 1 .. n + 1
  <2>1. CASE k \in 1 .. n
    <3>1. t[k].op # "end" /\ ~FaultAt(t, k)
      BY <1>1, <2>1 DEF Parsed, IsText
    <3>2. ~FaultAt(t2, k)
      BY <1>4, <2>1, <3>1, SameFault
    <3> QED
      BY <3>2 DEF FaultAt, IsFault
  <2>2. CASE k = n + 1
    <3>1. ~FaultAt(t2, n + 1)
      BY <1>3, <1>4, NewFault
    <3> QED
      BY <2>2, <3>1 DEF FaultAt, IsFault
  <2> QED
    BY <1>5, <2>1, <2>2
<1>10. Live(t2, {"rule", "stop"}) \subseteq DOMAIN t2
  BY DEF Live
<1>11. \A k \in DOMAIN t2 : k \in Nat
  BY <1>5, <1>8
<1> QED
  BY <1>3, <1>4, <1>6, <1>7, <1>8, <1>9, <1>10, <1>11 DEF SpecsAre

\* The start and the kind of a helper.
LEMMA HelpersAre ==
  ASSUME NEW r
  PROVE  /\ HelperFor(r).start = r.name
         /\ DepthOf(r) = 0 => HelperFor(r) = NoChildren(r.name)
         /\ DepthOf(r) # 0 => /\ HelperFor(r).kind = "stop points"
                              /\ HelperFor(r).depth = DepthOf(r)
BY DEF HelperFor, NoChildren, StopPoints

\* The specification of the rule at k.
LEMMA SpecOfRule ==
  ASSUME SpecsAre, status = "done", NEW k \in Live(text, {"rule"})
  PROVE  \E r : /\ r.name = text[k].name /\ r.attrs = AttrsAt(text, k)
                /\ r.name \in Seq(Nat)
                /\ "recurse" \in DOMAIN r.attrs => r.attrs.recurse \in Int
                /\ PlaceOf(text, k) \in DOMAIN specs
                /\ specs[PlaceOf(text, k)] = [helper |-> HelperFor(r), attrs |-> r.attrs]
<1>1. RulesAre(text, rules) /\ specs = SpecsOf(rules)
  BY DEF SpecsAre
<1>2. DOMAIN rules = 1 .. Len(rules) /\ Len(rules) = Cardinality(Live(text, {"rule"}))
      /\ Len(rules) \in Nat
  BY <1>1, RulesShow
<1>3. PlaceOf(text, k) \in 1 .. Len(rules)
  <2>1. IsFiniteSet(Live(text, {"rule"})) /\ Live(text, {"rule"}) \subseteq DOMAIN text
    BY <1>1 DEF RulesAre, Live
  <2>2. PICK R, T : R = Live(text, {"rule"}) /\ T = {j \in R : j <= k}
    OBVIOUS
  <2>3. T \in SUBSET R /\ k \in T
    <3>1. k \in Nat
      BY <2>1 DEF SpecsAre
    <3> QED
      BY <2>2, <3>1
  <2>4. Cardinality(R) \in Nat /\ IsFiniteSet(T) /\ Cardinality(T) \in Nat /\ Cardinality(T) <= Cardinality(R)
    BY <2>1, <2>2, <2>3, FS_Subset, FS_CardinalityType
  <2>5. Cardinality(T) # 0
    BY <2>3, <2>4, FS_EmptySet
  <2> QED
    BY <1>2, <2>2, <2>4, <2>5 DEF PlaceOf
<1>4. PICK i : i = PlaceOf(text, k)
  OBVIOUS
<1>5. rules[i] = [name |-> text[k].name, attrs |-> AttrsAt(text, k)]
  BY <1>1, <1>4 DEF RulesAre
<1>6. /\ rules[i].name \in Seq(Nat)
      /\ "recurse" \in DOMAIN rules[i].attrs => rules[i].attrs.recurse \in Int
  BY <1>1, <1>3, <1>4 DEF RulesAre
<1>7. i \in DOMAIN specs /\ specs[i] = [helper |-> HelperFor(rules[i]), attrs |-> rules[i].attrs]
  BY <1>1, <1>2, <1>3, <1>4 DEF SpecsOf
<1>8. PICK r : r = rules[i]
  OBVIOUS
<1>9. /\ r.name = text[k].name /\ r.attrs = AttrsAt(text, k)
      /\ r.name \in Seq(Nat)
      /\ "recurse" \in DOMAIN r.attrs => r.attrs.recurse \in Int
      /\ i \in DOMAIN specs
      /\ specs[i] = [helper |-> HelperFor(r), attrs |-> r.attrs]
  BY <1>5, <1>6, <1>7, <1>8
<1> QED
  BY <1>4, <1>9

\* The rule specifications are those of the rules that are for this machine,
\* in their order and with their attributes (cParserUtil::CreateFCOSpecs).
THEOREM SpecsAreTheTexts == ParserSpec => []SpecsFollowText
<1>1. SpecsAre => SpecsFollowText
  <2> SUFFICES ASSUME SpecsAre, status = "done"
               PROVE  /\ Len(specs) = Cardinality(Live(text, {"rule"}))
                      /\ \A k \in Live(text, {"rule"}) :
                           LET spec == specs[PlaceOf(text, k)]
                           IN spec.helper.start = text[k].name /\ spec.attrs = AttrsAt(text, k)
    BY DEF SpecsFollowText
  <2>1. Len(specs) = Cardinality(Live(text, {"rule"}))
    <3>1. /\ DOMAIN rules = 1 .. Len(rules) /\ Len(rules) = Cardinality(Live(text, {"rule"}))
          /\ Len(rules) \in Nat
      BY RulesShow DEF SpecsAre
    <3>2. PICK c : c = Len(rules)
      OBVIOUS
    <3>3. specs = [i \in 1 .. c |-> [helper |-> HelperFor(rules[i]), attrs |-> rules[i].attrs]]
      BY <3>1, <3>2 DEF SpecsAre, SpecsOf
    <3>4. PICK S : S = {[helper |-> HelperFor(rules[i]), attrs |-> rules[i].attrs] : i \in 1 .. c}
      OBVIOUS
    <3>5. specs \in [1 .. c -> S] /\ c \in Nat
      BY <3>1, <3>2, <3>3, <3>4
    <3>6. Len(specs) = c
      BY ONLY <3>5
    <3> QED
      BY <3>1, <3>2, <3>6
  <2>2. ASSUME NEW k \in Live(text, {"rule"})
        PROVE  /\ specs[PlaceOf(text, k)].helper.start = text[k].name
               /\ specs[PlaceOf(text, k)].attrs = AttrsAt(text, k)
    <3>1. PICK r : /\ r.name = text[k].name /\ r.attrs = AttrsAt(text, k)
                   /\ specs[PlaceOf(text, k)] = [helper |-> HelperFor(r), attrs |-> r.attrs]
      BY SpecOfRule
    <3>2. HelperFor(r).start = r.name
      BY HelpersAre
    <3> QED
      BY <3>1, <3>2
  <2> QED
    BY <2>1, <2>2
<1> QED
  BY <1>1, SpecsMade, ParserInductive, PTL

-----------------------------------------------------------------------------
(* Stop points                                                             *)

\* The names of some that are below no other of them.
Topmost(B) == {n \in B : \A m \in B : ~Below(n, m)}

\* Above each name there is a topmost one.
LEMMA TopmostAbove ==
  ASSUME NEW B \in SUBSET Seq(Nat), NEW m \in B
  PROVE  \E a \in Topmost(B) : AtOrBelow(m, a)
<1>1. PICK S : S = {x \in B : AtOrBelow(m, x)}
  OBVIOUS
<1>2. PICK l : l = {Len(x) : x \in S}
  OBVIOUS
<1>3. m \in S
  BY <1>1, PrefixOrder
<1>4. l \in SUBSET Nat /\ l # {}
  <2>1. \A x \in S : x \in Seq(Nat) /\ Len(x) \in Nat
    BY <1>1, LenProperties
  <2> QED
    BY <1>2, <1>3, <2>1
<1>5. PICK c \in l : \A y \in l : c <= y
  BY <1>4, LeastNumber
<1>6. PICK a \in S : Len(a) = c
  BY <1>2
<1>7. ASSUME NEW y \in B, Below(a, y)
      PROVE  FALSE
  <2>1. a \in Seq(Nat) /\ y \in Seq(Nat) /\ m \in Seq(Nat) /\ AtOrBelow(m, a)
    BY <1>1
  <2>2. AtOrBelow(m, y)
    BY <1>7, <2>1, PrefixOrder
  <2>3. Len(y) < Len(a) /\ Len(y) \in Nat /\ Len(a) \in Nat
    BY <1>7, <2>1, FirstPart, LenProperties
  <2>4. Len(y) \in l
    BY <1>1, <1>2, <2>2
  <2> QED
    BY <1>5, <1>6, <2>3, <2>4
<1>8. a \in Topmost(B)
  BY <1>1, <1>7 DEF Topmost
<1> QED
  BY <1>1, <1>8

\* Adding a stop point to the topmost ones.
LEMMA TopmostNext ==
  ASSUME NEW B \in SUBSET Seq(Nat), NEW n \in Seq(Nat), NEW A, A = Topmost(B)
  PROVE  Topmost(B \cup {n})
           = IF \E p \in A : AtOrBelow(n, p) THEN A ELSE {p \in A : ~Below(p, n)} \cup {n}
<1>1. /\ A \subseteq B
      /\ \A x \in B : x \in A <=> \A m \in B : ~Below(x, m)
      /\ \A x : x \in Topmost(B \cup {n}) <=> x \in B \cup {n} /\ ~Below(x, n) /\ \A m \in B : ~Below(x, m)
  BY DEF Topmost
<1>2. ~Below(n, n)
  BY PrefixOrder
<1>3. CASE \E p \in A : AtOrBelow(n, p)
  <2>1. PICK p \in A : AtOrBelow(n, p)
    BY <1>3
  <2>2. p \in B /\ p \in Seq(Nat) /\ (Below(n, p) \/ n = p)
    BY <1>1, <2>1, PrefixOrder
  <2>3. ASSUME NEW x \in A
        PROVE  ~Below(x, n)
    <3>1. x \in Seq(Nat) /\ ~Below(x, p)
      BY <1>1, <2>2
    <3>2. Below(x, n) => Below(x, p)
      BY <2>1, <2>2, <3>1, PrefixOrder
    <3> QED
      BY <3>1, <3>2
  <2>4. ASSUME NEW x \in Topmost(B \cup {n})
        PROVE  x \in A
    <3>1. CASE x \in B
      BY <1>1, <3>1
    <3>2. CASE x = n
      <4>1. n = p
        BY <1>1, <2>2, <3>2
      <4> QED
        BY <2>1, <3>2, <4>1
    <3> QED
      BY <1>1, <3>1, <3>2
  <2>5. \A x : x \in Topmost(B \cup {n}) <=> x \in A
    BY <1>1, <2>3, <2>4
  <2> QED
    BY <1>3, <2>5
<1>4. CASE ~\E p \in A : AtOrBelow(n, p)
  <2>1. ASSUME NEW m \in B
        PROVE  ~Below(n, m)
    <3>1. PICK a \in A : AtOrBelow(m, a)
      BY TopmostAbove
    <3>2. Below(n, m) => AtOrBelow(n, a)
      BY <1>1, <3>1, PrefixOrder
    <3> QED
      BY <1>4, <3>1, <3>2
  <2>2. n \in Topmost(B \cup {n})
    BY <1>1, <1>2, <2>1
  <2>3. ASSUME NEW x, x # n
        PROVE  x \in Topmost(B \cup {n}) <=> x \in A /\ ~Below(x, n)
    <3>1. x \in B \cup {n} <=> x \in B
      BY <2>3
    <3>2. x \in A <=> x \in B /\ \A m \in B : ~Below(x, m)
      BY <1>1
    <3>3. x \in Topmost(B \cup {n}) <=> x \in B \cup {n} /\ ~Below(x, n) /\ \A m \in B : ~Below(x, m)
      BY <1>1
    <3> QED
      BY <3>1, <3>2, <3>3
  <2>4. PICK T, U : T = Topmost(B \cup {n}) /\ U = {p \in A : ~Below(p, n)} \cup {n}
    OBVIOUS
  <2>5. \A x : x \in T <=> x \in U
    <3> TAKE x
    <3>1. CASE x = n
      BY <2>2, <2>4, <3>1
    <3>2. CASE x # n
      <4>1. x \in U <=> x \in A /\ ~Below(x, n)
        BY <2>4, <3>2
      <4> QED
        BY <2>3, <2>4, <3>2, <4>1
    <3> QED
      BY <3>1, <3>2
  <2>6. T = U
    BY <2>5
  <2> QED
    BY <1>4, <2>4, <2>6
<1> QED
  BY <1>3, <1>4

\* What HelperFor computes, one stop point after another.
AddedIs(f, r) ==
  f = [k \in 0 .. Len(stops) |->
         IF k = 0 THEN StopPoints(<< >>, {}, Infinite)
         ELSE IF Below(stops[k], r.name) THEN WithStop(f[k - 1], stops[k])
         ELSE f[k - 1]]

\* The function there is, is the one the definition names.
LEMMA HelperUses ==
  ASSUME NEW r, \E f : AddedIs(f, r)
  PROVE  \E f : /\ AddedIs(f, r)
                /\ HelperFor(r) = IF DepthOf(r) = 0 THEN NoChildren(r.name)
                                  ELSE StopPoints(r.name, f[Len(stops)].stops, DepthOf(r))
<1> DEFINE g == CHOOSE f : AddedIs(f, r)
<1>1. AddedIs(g, r)
  OBVIOUS
<1>2. HelperFor(r) = IF DepthOf(r) = 0 THEN NoChildren(r.name)
                     ELSE StopPoints(r.name, g[Len(stops)].stops, DepthOf(r))
  BY DEF HelperFor, AddedIs
<1> QED
  BY <1>1, <1>2

\* The stop points that are below a name, and those of the first k that are.
PointsBelow(d)   == {n \in Range(stops) : Below(n, d)}
BelowFirst(d, k) == {stops[i] : i \in {j \in 1 .. k : Below(stops[j], d)}}

\* One stop point more.
LEMMA AddedNext ==
  ASSUME stops \in Seq(Seq(Nat)), NEW d, NEW k \in 1 .. Len(stops),
         NEW s, s = StopPoints(<< >>, Topmost(BelowFirst(d, k - 1)), Infinite)
  PROVE  StopPoints(<< >>, Topmost(BelowFirst(d, k)), Infinite)
           = IF Below(stops[k], d) THEN WithStop(s, stops[k]) ELSE s
<1>0. Len(stops) \in Nat /\ \A j \in 1 .. Len(stops) : stops[j] \in Seq(Nat)
  BY LenProperties, ElementOfSeq
<1>1. PICK B, n : B = BelowFirst(d, k - 1) /\ n = stops[k]
  OBVIOUS
<1>2. n \in Seq(Nat) /\ B \in SUBSET Seq(Nat)
  BY <1>0, <1>1 DEF BelowFirst
<1>3. \A j : j \in 1 .. k <=> j \in 1 .. k - 1 \/ j = k
  BY <1>0
<1>4. CASE Below(n, d)
  <2>1. BelowFirst(d, k) = B \cup {n}
    <3>1. \A x : x \in BelowFirst(d, k) <=> \E j \in 1 .. k : Below(stops[j], d) /\ x = stops[j]
      BY DEF BelowFirst
    <3>2. \A x : x \in B <=> \E j \in 1 .. k - 1 : Below(stops[j], d) /\ x = stops[j]
      BY <1>1 DEF BelowFirst
    <3> QED
      BY <1>1, <1>3, <1>4, <3>1, <3>2
  <2>2. PICK A : A = Topmost(B)
    OBVIOUS
  <2>3. s.stops = A /\ s = [kind |-> "stop points", start |-> << >>, stops |-> A, depth |-> Infinite]
    BY <1>1, <2>2 DEF StopPoints
  <2>4. Topmost(B \cup {n}) = IF \E p \in A : AtOrBelow(n, p) THEN A ELSE {p \in A : ~Below(p, n)} \cup {n}
    BY <1>2, <2>2, TopmostNext
  <2>5. WithStop(s, n) = StopPoints(<< >>, Topmost(B \cup {n}), Infinite)
    BY <2>3, <2>4 DEF WithStop, StopPoints
  <2> QED
    BY <1>1, <1>4, <2>1, <2>5
<1>5. CASE ~Below(n, d)
  <2>1. BelowFirst(d, k) = B
    <3>1. \A x : x \in BelowFirst(d, k) <=> \E j \in 1 .. k : Below(stops[j], d) /\ x = stops[j]
      BY DEF BelowFirst
    <3>2. \A x : x \in B <=> \E j \in 1 .. k - 1 : Below(stops[j], d) /\ x = stops[j]
      BY <1>1 DEF BelowFirst
    <3> QED
      BY <1>1, <1>3, <1>5, <3>1, <3>2
  <2> QED
    BY <1>1, <1>5, <2>1
<1> QED
  BY <1>4, <1>5

\* The stop points of a helper are the topmost ones below its start, in
\* whatever order they were added.
LEMMA StopsAdded ==
  ASSUME stops \in Seq(Seq(Nat)), NEW r
  PROVE  /\ HelperFor(r).start = r.name
         /\ DepthOf(r) = 0 => HelperFor(r) = NoChildren(r.name)
         /\ DepthOf(r) # 0 =>
              HelperFor(r) = StopPoints(r.name, Topmost(PointsBelow(r.name)), DepthOf(r))
<1>1. PICK d, N : d = r.name /\ N = Len(stops)
  OBVIOUS
<1>2. N \in Nat /\ DOMAIN stops = 1 .. N
  BY <1>1, LenProperties
<1>3. Topmost(BelowFirst(d, 0)) = {}
  BY DEF Topmost, BelowFirst
<1>4. \E f : AddedIs(f, r)
  <2>1. PICK f : f = [k \in 0 .. N |-> StopPoints(<< >>, Topmost(BelowFirst(d, k)), Infinite)]
    OBVIOUS
  <2>2. ASSUME NEW k \in 0 .. N
        PROVE  f[k] = IF k = 0 THEN StopPoints(<< >>, {}, Infinite)
                      ELSE IF Below(stops[k], d) THEN WithStop(f[k - 1], stops[k]) ELSE f[k - 1]
    <3>1. CASE k = 0
      BY <1>3, <2>1, <3>1
    <3>2. CASE k # 0
      <4>1. k \in 1 .. Len(stops) /\ k - 1 \in 0 .. N
        BY <1>1, <1>2, <3>2
      <4>2. f[k - 1] = StopPoints(<< >>, Topmost(BelowFirst(d, k - 1)), Infinite)
        BY <2>1, <4>1
      <4>3. f[k] = StopPoints(<< >>, Topmost(BelowFirst(d, k)), Infinite)
        BY <2>1
      <4> QED
        BY <3>2, <4>1, <4>2, <4>3, AddedNext
    <3> QED
      BY <3>1, <3>2
  <2>3. f = [k \in 0 .. N |-> IF k = 0 THEN StopPoints(<< >>, {}, Infinite)
                              ELSE IF Below(stops[k], d) THEN WithStop(f[k - 1], stops[k]) ELSE f[k - 1]]
    BY <2>1, <2>2
  <2>4. AddedIs(f, r)
    BY <1>1, <2>3 DEF AddedIs
  <2> QED
    BY <2>4
<1>5. PICK f : /\ AddedIs(f, r)
               /\ HelperFor(r) = IF DepthOf(r) = 0 THEN NoChildren(r.name)
                                 ELSE StopPoints(r.name, f[Len(stops)].stops, DepthOf(r))
  BY <1>4, HelperUses
<1>6. \A k \in 0 .. N : f[k] = IF k = 0 THEN StopPoints(<< >>, {}, Infinite)
                               ELSE IF Below(stops[k], d) THEN WithStop(f[k - 1], stops[k]) ELSE f[k - 1]
  BY <1>1, <1>5 DEF AddedIs
<1>7. PICK S : S = {k \in Nat : k <= N => f[k] = StopPoints(<< >>, Topmost(BelowFirst(d, k)), Infinite)}
  OBVIOUS
<1>8. 0 \in S
  <2>1. f[0] = StopPoints(<< >>, {}, Infinite)
    BY <1>2, <1>6
  <2> QED
    BY <1>3, <1>7, <2>1
<1>9. ASSUME NEW k \in Nat, k \in S
      PROVE  k + 1 \in S
  <2> SUFFICES ASSUME k + 1 <= N
               PROVE  f[k + 1] = StopPoints(<< >>, Topmost(BelowFirst(d, k + 1)), Infinite)
    BY <1>7
  <2>1. k + 1 \in 1 .. Len(stops) /\ k + 1 \in 0 .. N /\ k + 1 # 0 /\ k + 1 - 1 = k /\ k <= N
    BY <1>1, <1>2
  <2>2. f[k] = StopPoints(<< >>, Topmost(BelowFirst(d, k)), Infinite)
    BY <1>7, <1>9, <2>1
  <2>3. f[k + 1] = IF Below(stops[k + 1], d) THEN WithStop(f[k], stops[k + 1]) ELSE f[k]
    BY <1>6, <2>1
  <2> QED
    BY <2>1, <2>2, <2>3, AddedNext
<1>10. N \in S
  BY <1>2, <1>8, <1>9, NatSetInduction
<1>11. f[N] = StopPoints(<< >>, Topmost(BelowFirst(d, N)), Infinite)
  BY <1>2, <1>7, <1>10
<1>12. PICK U : U = PointsBelow(d)
  OBVIOUS
<1>13. BelowFirst(d, N) = U
  <2>1. PICK T : T = BelowFirst(d, N)
    OBVIOUS
  <2>2. \A x : x \in T <=> \E j \in 1 .. N : Below(stops[j], d) /\ x = stops[j]
    BY <2>1 DEF BelowFirst
  <2>3. \A x : x \in U <=> Below(x, d) /\ \E j \in 1 .. N : x = stops[j]
    BY <1>2, <1>12 DEF PointsBelow, Range
  <2>4. \A x : x \in T <=> x \in U
    BY <2>2, <2>3
  <2>5. T = U
    BY <2>4
  <2> QED
    BY <2>1, <2>5
<1>14. f[N].stops = Topmost(U)
  <2>1. PICK T, v : T = Topmost(U) /\ v = f[N]
    OBVIOUS
  <2>2. v = StopPoints(<< >>, T, Infinite)
    BY <1>11, <1>13, <2>1
  <2>3. v = [kind |-> "stop points", start |-> << >>, stops |-> T, depth |-> Infinite]
    BY <2>2 DEF StopPoints
  <2>4. v.stops = T
    BY ONLY <2>3
  <2> QED
    BY <2>1, <2>4
<1>15. DepthOf(r) # 0 => HelperFor(r) = StopPoints(d, Topmost(U), DepthOf(r))
  BY <1>1, <1>5, <1>14
<1> QED
  BY <1>1, <1>12, <1>15, HelpersAre

-----------------------------------------------------------------------------
(* Which rule an object belongs to                                         *)

\* A helper with the topmost of some points below its start as stop points.
IsTopmost(h, B) ==
  /\ h.start \in Seq(Nat) /\ B \in SUBSET Seq(Nat)
  /\ h.stops = Topmost({p \in B : Below(p, h.start)})
  /\ h.kind = "stop points"

\* No stop point is over an object when no point below the start is.
LEMMA NoStopOver ==
  ASSUME NEW h, NEW B, IsTopmost(h, B), NEW n \in Seq(Nat)
  PROVE  /\ h.stops \subseteq B /\ \A p \in h.stops : Below(p, h.start)
         /\ (\A p \in h.stops : ~AtOrBelow(n, p))
              <=> (\A p \in B : Below(p, h.start) => ~AtOrBelow(n, p))
<1>1. PICK C : C = {p \in B : Below(p, h.start)}
  OBVIOUS
<1>2. h.stops = Topmost(C) /\ C \in SUBSET Seq(Nat) /\ C \subseteq B
  BY <1>1 DEF IsTopmost
<1>3. h.stops \subseteq C
  BY <1>2 DEF Topmost
<1>4. ASSUME NEW p \in C, AtOrBelow(n, p), \A q \in h.stops : ~AtOrBelow(n, q)
      PROVE  FALSE
  <2>1. PICK a \in Topmost(C) : AtOrBelow(p, a)
    BY <1>2, TopmostAbove
  <2>2. a \in Seq(Nat) /\ p \in Seq(Nat) /\ a \in h.stops
    BY <1>2, <1>3, <2>1
  <2>3. AtOrBelow(n, a)
    BY <1>4, <2>1, <2>2, PrefixOrder
  <2> QED
    BY <1>4, <2>2, <2>3
<1>5. (\A p \in h.stops : ~AtOrBelow(n, p)) => (\A p \in C : ~AtOrBelow(n, p))
  BY <1>4
<1>6. (\A p \in C : ~AtOrBelow(n, p)) => (\A p \in h.stops : ~AtOrBelow(n, p))
  BY <1>3
<1> QED
  BY <1>1, <1>2, <1>3, <1>5, <1>6

\* So a specification contains the objects below its start that have no point
\* between, or at, themselves and the start.
LEMMA ContainsIs ==
  ASSUME NEW h, NEW B, IsTopmost(h, B), NEW n \in Seq(Nat)
  PROVE  ContainsFCO(h, n) <=> /\ AtOrBelow(n, h.start)
                               /\ \A p \in B : Below(p, h.start) => ~AtOrBelow(n, p)
<1>1. ContainsFCO(h, n) <=> AtOrBelow(n, h.start) /\ \A p \in h.stops : ~AtOrBelow(n, p)
  BY DEF ContainsFCO, IsTopmost
<1> QED
  BY <1>1, NoStopOver

\* The walk comes to what the specification contains, down to its depth.
LEMMA WalkedIs ==
  ASSUME NEW h, NEW B, IsTopmost(h, B), h.depth \in Int, NEW n \in Seq(Nat)
  PROVE  Walked(h, n) <=> ContainsFCO(h, n) /\ WithinDepth(h, n)
<1>1. PICK s : s = h.start
  OBVIOUS
<1>2. s \in Seq(Nat) /\ Len(s) \in Nat /\ Len(n) \in Nat
  BY <1>1, LenProperties DEF IsTopmost
<1>3. h.stops \subseteq Seq(Nat) /\ \A p \in h.stops : Below(p, s)
  BY <1>1, NoStopOver DEF IsTopmost
<1>4. ContainsFCO(h, n) <=> AtOrBelow(n, s) /\ \A p \in h.stops : ~AtOrBelow(n, p)
  BY <1>1 DEF ContainsFCO, IsTopmost
<1>5. Walked(h, n) <=> /\ AtOrBelow(n, s)
                       /\ \A k \in Len(s) .. Len(n) : /\ WithinDepth(h, SubSeq(n, 1, k))
                                                      /\ SubSeq(n, 1, k) \notin h.stops
  BY <1>1 DEF Walked, ShouldStopDescent, IsTopmost
<1>6. WithinDepth(h, n) <=> (h.depth # Infinite => Len(n) - Len(s) <= h.depth)
  BY <1>1 DEF WithinDepth
<1>7. ASSUME AtOrBelow(n, s)
      PROVE  /\ Len(s) <= Len(n)
             /\ \A k \in Len(s) .. Len(n) :
                  /\ SubSeq(n, 1, k) \in Seq(Nat) /\ Len(SubSeq(n, 1, k)) = k
                  /\ AtOrBelow(n, SubSeq(n, 1, k))
             /\ SubSeq(n, 1, Len(n)) = n
  <2>1. Len(s) <= Len(n)
    BY <1>2, <1>7, FirstPart
  <2>2. SubSeq(n, 1, Len(s)) = s /\ SubSeq(n, 1, Len(n)) = n
    BY <1>2, <1>7, FirstParts, PrefixOrder
  <2>3. ASSUME NEW k \in Len(s) .. Len(n)
        PROVE  /\ SubSeq(n, 1, k) \in Seq(Nat) /\ Len(SubSeq(n, 1, k)) = k
               /\ AtOrBelow(n, SubSeq(n, 1, k))
    <3>1. CASE k = Len(s)
      BY <1>2, <1>7, <2>2, <3>1
    <3>2. CASE k # Len(s)
      <4>1. k \in 1 .. Len(n)
        BY <1>2, <3>2
      <4>2. /\ SubSeq(n, 1, k) \in Seq(Nat) \ {<< >>}
            /\ Len(SubSeq(n, 1, k)) = k
            /\ AtOrBelow(n, SubSeq(n, 1, k))
        BY <4>1, FirstParts
      <4> QED
        BY <4>2
    <3> QED
      BY <3>1, <3>2
  <2> QED
    BY <2>1, <2>2, <2>3
<1>8. ASSUME Walked(h, n)
      PROVE  ContainsFCO(h, n) /\ WithinDepth(h, n)
  <2>1. AtOrBelow(n, s)
    BY <1>5, <1>8
  <2>2. Len(n) \in Len(s) .. Len(n)
    BY <1>2, <1>7, <2>1
  <2>3. WithinDepth(h, n)
    BY <1>5, <1>7, <1>8, <2>1, <2>2
  <2>4. ASSUME NEW p \in h.stops, AtOrBelow(n, p)
        PROVE  FALSE
    <3>1. p \in Seq(Nat) /\ Below(p, s)
      BY <1>3
    <3>2. Len(s) < Len(p) /\ Len(p) <= Len(n) /\ Len(p) \in Nat
      BY <1>2, <2>4, <3>1, FirstPart, LenProperties
    <3>3. Len(p) \in Len(s) .. Len(n)
      BY <1>2, <3>2
    <3>4. SubSeq(n, 1, Len(p)) = p
      BY <2>4, <3>1, FirstParts
    <3> QED
      BY <1>5, <1>8, <3>3, <3>4
  <2> QED
    BY <1>4, <2>1, <2>3, <2>4
<1>9. ASSUME ContainsFCO(h, n), WithinDepth(h, n)
      PROVE  Walked(h, n)
  <2>1. AtOrBelow(n, s) /\ \A p \in h.stops : ~AtOrBelow(n, p)
    BY <1>4, <1>9
  <2>2. ASSUME NEW k \in Len(s) .. Len(n)
        PROVE  WithinDepth(h, SubSeq(n, 1, k)) /\ SubSeq(n, 1, k) \notin h.stops
    <3>1. PICK m : m = SubSeq(n, 1, k)
      OBVIOUS
    <3>2. Len(m) = k /\ AtOrBelow(n, m) /\ k \in Nat /\ k <= Len(n)
      BY <1>2, <1>7, <2>1, <3>1
    <3>3. WithinDepth(h, m) <=> (h.depth # Infinite => Len(m) - Len(s) <= h.depth)
      BY <1>1 DEF WithinDepth
    <3>4. WithinDepth(h, m)
      BY <1>2, <1>6, <1>9, <3>2, <3>3
    <3> QED
      BY <2>1, <3>1, <3>2, <3>4
  <2> QED
    BY <1>5, <2>1, <2>2
<1> QED
  BY <1>8, <1>9

\* Of a rule without children.
LEMMA NoChildrenWalked ==
  ASSUME NEW s \in Seq(Nat), NEW h, h = NoChildren(s), NEW n \in Seq(Nat)
  PROVE  /\ ContainsFCO(h, n) <=> n = s
         /\ Walked(h, n) <=> n = s
         /\ WithinDepth(h, n)
<1>1. h.kind = "no children" /\ h.start = s /\ h.depth = Infinite
  BY DEF NoChildren
<1>2. (ContainsFCO(h, n) <=> n = s) /\ WithinDepth(h, n)
  BY <1>1 DEF ContainsFCO, WithinDepth
<1>3. Walked(h, n) <=> AtOrBelow(n, s) /\ \A k \in Len(s) .. Len(n) : SubSeq(n, 1, k) = s
  BY <1>1 DEF Walked, ShouldStopDescent
<1>4. Len(s) \in Nat /\ Len(n) \in Nat
  BY LenProperties
<1>5. SubSeq(n, 1, Len(n)) = n /\ AtOrBelow(n, n)
  BY PrefixOrder, FirstParts
<1>6. ASSUME Walked(h, n)
      PROVE  n = s
  <2>1. AtOrBelow(n, s)
    BY <1>3, <1>6
  <2>2. Len(s) <= Len(n)
    BY <2>1, FirstPart
  <2>3. Len(n) \in Len(s) .. Len(n)
    BY <1>4, <2>2
  <2> QED
    BY <1>3, <1>5, <1>6, <2>3
<1>7. ASSUME n = s
      PROVE  Walked(h, n)
  <2>1. \A k \in Len(s) .. Len(n) : k = Len(n)
    BY <1>4, <1>7
  <2> QED
    BY <1>3, <1>5, <1>7, <2>1
<1> QED
  BY <1>2, <1>6, <1>7

-----------------------------------------------------------------------------
(* The nearest point                                                       *)

\* The points of a text: no two of one name.
PointsDiffer(t) ==
  /\ \A k \in Live(t, {"rule", "stop"}) : k \in Nat /\ t[k].name \in Seq(Nat)
  /\ \A j, k \in Live(t, {"rule", "stop"}) : t[j].name = t[k].name => j = k

\* One of the points over an object is the nearest, and only one.
LEMMA NearestIs ==
  ASSUME NEW t, PointsDiffer(t), NEW n \in Seq(Nat), NEW k \in Live(t, {"rule", "stop"})
  PROVE  BelongsTo(t, n, k)
           <=> /\ AtOrBelow(n, t[k].name)
               /\ \A j \in Live(t, {"rule", "stop"}) : Below(t[j].name, t[k].name) => ~AtOrBelow(n, t[j].name)
<1>1. PICK P : P = PointsOver(t, n)
  OBVIOUS
<1>2. \A j : j \in P <=> j \in Live(t, {"rule", "stop"}) /\ AtOrBelow(n, t[j].name)
  BY <1>1 DEF PointsOver
<1>3. Len(n) \in Nat /\ \A j \in P : /\ t[j].name \in Seq(Nat) /\ Len(t[j].name) \in Nat
                                     /\ Len(t[j].name) <= Len(n)
  BY <1>2, FirstPart, LenProperties DEF PointsDiffer
<1>4. ASSUME P # {}
      PROVE  \E m \in P : \A j \in P : Len(t[j].name) <= Len(t[m].name)
  <2>1. PICK l : l = {Len(t[j].name) : j \in P}
    OBVIOUS
  <2>2. l \in SUBSET Nat /\ l # {} /\ \A x \in l : x <= Len(n)
    BY <1>3, <1>4, <2>1
  <2>3. PICK x \in l : \A y \in l : y <= x
    BY <1>3, <2>2, GreatestNumber
  <2>4. PICK m \in P : x = Len(t[m].name)
    BY <2>1
  <2> QED
    BY <2>1, <2>3, <2>4
<1>5. PICK m : m = Nearest(t, n)
  OBVIOUS
<1>6. P # {} => m \in P /\ \A j \in P : Len(t[j].name) <= Len(t[m].name)
  BY <1>1, <1>4, <1>5 DEF Nearest
<1>7. BelongsTo(t, n, k) <=> P # {} /\ m = k
  BY <1>1, <1>5 DEF BelongsTo
<1>8. ASSUME P # {}, m = k
      PROVE  /\ AtOrBelow(n, t[k].name)
             /\ \A j \in Live(t, {"rule", "stop"}) : Below(t[j].name, t[k].name) => ~AtOrBelow(n, t[j].name)
  <2>1. k \in P /\ \A j \in P : Len(t[j].name) <= Len(t[k].name)
    BY <1>6, <1>8
  <2>2. ASSUME NEW j \in Live(t, {"rule", "stop"}), Below(t[j].name, t[k].name), AtOrBelow(n, t[j].name)
        PROVE  FALSE
    <3>1. j \in P
      BY <1>2, <2>2
    <3>2. Len(t[k].name) < Len(t[j].name)
      BY <1>3, <2>1, <2>2, <3>1, FirstPart
    <3> QED
      BY <1>3, <2>1, <3>1, <3>2
  <2> QED
    BY <1>2, <2>1, <2>2
<1>9. ASSUME AtOrBelow(n, t[k].name),
             \A j \in Live(t, {"rule", "stop"}) : Below(t[j].name, t[k].name) => ~AtOrBelow(n, t[j].name)
      PROVE  P # {} /\ m = k
  <2>1. k \in P
    BY <1>2, <1>9
  <2>2. m \in P /\ Len(t[k].name) <= Len(t[m].name)
    BY <1>6, <2>1
  <2>3. /\ m \in Live(t, {"rule", "stop"}) /\ AtOrBelow(n, t[m].name)
        /\ t[m].name \in Seq(Nat) /\ t[k].name \in Seq(Nat)
    BY <1>2, <1>3, <2>1, <2>2
  <2>4. ~Below(t[m].name, t[k].name)
    BY <1>9, <2>3
  <2>5. AtOrBelow(t[m].name, t[k].name)
    <3>1. AtOrBelow(t[m].name, t[k].name) \/ Below(t[k].name, t[m].name)
      BY <1>9, <2>3, PrefixOrder
    <3>2. Below(t[k].name, t[m].name) => Len(t[m].name) < Len(t[k].name)
      BY <2>3, FirstPart
    <3>3. ~Below(t[k].name, t[m].name)
      BY <1>3, <2>1, <2>2, <3>2
    <3> QED
      BY <3>1, <3>3
  <2>6. t[m].name = t[k].name
    BY <2>3, <2>4, <2>5, PrefixOrder
  <2> QED
    BY <2>1, <2>3, <2>6 DEF PointsDiffer
<1> QED
  BY <1>7, <1>8, <1>9

\* The start point belongs to its rule.
LEMMA OwnStart ==
  ASSUME NEW t, PointsDiffer(t), NEW k \in Live(t, {"rule", "stop"})
  PROVE  BelongsTo(t, t[k].name, k)
<1>1. PICK n : n = t[k].name
  OBVIOUS
<1>2. n \in Seq(Nat) /\ AtOrBelow(n, n)
  BY <1>1, PrefixOrder DEF PointsDiffer
<1>3. ASSUME NEW j \in Live(t, {"rule", "stop"}), Below(t[j].name, n), AtOrBelow(n, t[j].name)
      PROVE  FALSE
  <2>1. t[j].name \in Seq(Nat)
    BY DEF PointsDiffer
  <2>2. Below(n, n)
    BY <1>2, <1>3, <2>1, PrefixOrder
  <2> QED
    BY <1>2, <2>2, PrefixOrder
<1>4. BelongsTo(t, n, k)
  BY <1>1, <1>2, <1>3, NearestIs
<1> QED
  BY <1>1, <1>4

\* The depth of a rule is a number.
LEMMA DepthIsInt ==
  ASSUME NEW r, "recurse" \in DOMAIN r.attrs => r.attrs.recurse \in Int
  PROVE  DepthOf(r) \in Int
BY DEF DepthOf, Infinite

\* No two points of a policy that was read have one name.
LEMMA PointsAreOne ==
  ASSUME SpecsAre, status = "done"
  PROVE  /\ PointsDiffer(text)
         /\ Range(stops) = {text[k].name : k \in Live(text, {"rule", "stop"})}
         /\ stops \in Seq(Seq(Nat)) /\ Range(stops) \in SUBSET Seq(Nat)
<1>1. /\ stops \in Seq(Seq(Nat))
      /\ Range(stops) = {text[k].name : k \in Live(text, {"rule", "stop"})}
  BY DEF SpecsAre, PointsAre
<1>2. Range(stops) \in SUBSET Seq(Nat)
  <2>1. DOMAIN stops = 1 .. Len(stops)
    BY <1>1, LenProperties
  <2>2. \A i \in 1 .. Len(stops) : stops[i] \in Seq(Nat)
    BY <1>1, ElementOfSeq
  <2> QED
    BY <2>1, <2>2 DEF Range
<1>3. \A k \in Live(text, {"rule", "stop"}) : k \in Nat /\ text[k].name \in Seq(Nat)
  <2> TAKE k \in Live(text, {"rule", "stop"})
  <2>1. text[k].name \in Range(stops)
    BY <1>1
  <2> QED
    BY <1>2, <2>1 DEF SpecsAre
<1>4. ASSUME NEW j \in Live(text, {"rule", "stop"}), NEW k \in Live(text, {"rule", "stop"}),
             text[j].name = text[k].name
      PROVE  j = k
  <2>1. ~SecondPoint(text, j) /\ ~SecondPoint(text, k)
    BY DEF SpecsAre
  <2>2. ~(j < k) /\ ~(k < j)
    BY <1>4, <2>1 DEF SecondPoint
  <2> QED
    BY <1>3, <2>2
<1> QED
  BY <1>1, <1>2, <1>3, <1>4 DEF PointsDiffer

\* What a helper has, of either kind.
LEMMA HelperParts ==
  ASSUME SpecsAre, status = "done", NEW r, NEW h, h = HelperFor(r)
  PROVE  /\ h.start = r.name
         /\ DepthOf(r) = 0 => h = NoChildren(r.name) /\ h.kind = "no children"
         /\ DepthOf(r) # 0 => /\ h.kind = "stop points" /\ h.depth = DepthOf(r)
                              /\ h.stops = Topmost(PointsBelow(r.name))
<1>1. /\ h.start = r.name
      /\ DepthOf(r) = 0 => h = NoChildren(r.name)
      /\ DepthOf(r) # 0 => h = StopPoints(r.name, Topmost(PointsBelow(r.name)), DepthOf(r))
  BY PointsAreOne, StopsAdded
<1>2. ASSUME h = NoChildren(r.name)
      PROVE  h.kind = "no children"
  BY ONLY <1>2 DEF NoChildren
<1>3. PICK T, d : T = Topmost(PointsBelow(r.name)) /\ d = DepthOf(r)
  OBVIOUS
<1>4. ASSUME h = StopPoints(r.name, T, d)
      PROVE  h.kind = "stop points" /\ h.depth = d /\ h.stops = T
  BY ONLY <1>4 DEF StopPoints
<1> QED
  BY <1>1, <1>2, <1>3, <1>4

\* All helpers that were made have the topmost stop points.
LEMMA StopsTop ==
  ASSUME SpecsAre, status = "done"
  PROVE  StopsAreTopmost
<1>1. specs = SpecsOf(rules)
  BY DEF SpecsAre
<1>2. ASSUME NEW i \in DOMAIN specs, NEW s, s = specs[i].helper, s.kind = "stop points"
      PROVE  s.stops = Topmost(PointsBelow(s.start))
  <2>1. PICK r : s = HelperFor(r)
    <3>1. s = HelperFor(rules[i])
      BY <1>1, <1>2 DEF SpecsOf
    <3> QED
      BY <3>1
  <2>2. DepthOf(r) # 0 /\ s.start = r.name
    BY <1>2, <2>1, HelperParts
  <2> QED
    BY <2>1, <2>2, HelperParts
<1>3. ASSUME NEW i \in DOMAIN specs, specs[i].helper.kind = "stop points"
      PROVE  LET s     == specs[i].helper
                 below == {n \in Range(stops) : Below(n, s.start)}
             IN s.stops = {n \in below : \A m \in below : ~Below(n, m)}
  <2>1. PICK s : s = specs[i].helper
    OBVIOUS
  <2>2. s.stops = Topmost(PointsBelow(s.start))
    BY <1>2, <1>3, <2>1
  <2> QED
    BY <2>1, <2>2 DEF Topmost, PointsBelow
<1> QED
  BY <1>3 DEF StopsAreTopmost

\* What the helper of the rule at k contains, and a walk with it comes to.
LEMMA HelperDecides ==
  ASSUME SpecsAre, status = "done", NEW k \in Live(text, {"rule"}), NEW n \in Seq(Nat),
         NEW h, h = specs[PlaceOf(text, k)].helper
  PROVE  LET mine == BelongsTo(text, n, k) /\ (h.kind = "no children" => n = h.start)
         IN /\ ContainsFCO(h, n) <=> mine
            /\ Walked(h, n) <=> mine /\ WithinDepth(h, n)
<1>1. PICK r : /\ r.name = text[k].name /\ r.name \in Seq(Nat)
               /\ "recurse" \in DOMAIN r.attrs => r.attrs.recurse \in Int
               /\ specs[PlaceOf(text, k)] = [helper |-> HelperFor(r), attrs |-> r.attrs]
  BY SpecOfRule
<1>2. h = HelperFor(r) /\ DepthOf(r) \in Int
  BY <1>1, DepthIsInt
<1>3. PICK B : B = Range(stops)
  OBVIOUS
<1>4. /\ PointsDiffer(text) /\ stops \in Seq(Seq(Nat)) /\ B \in SUBSET Seq(Nat)
      /\ B = {text[j].name : j \in Live(text, {"rule", "stop"})}
  BY <1>3, PointsAreOne
<1>5. k \in Live(text, {"rule", "stop"})
  BY DEF Live
<1>6. /\ h.start = r.name
      /\ DepthOf(r) = 0 => h = NoChildren(r.name) /\ h.kind = "no children"
      /\ DepthOf(r) # 0 => /\ h.kind = "stop points" /\ h.depth = DepthOf(r)
                           /\ h.stops = Topmost(PointsBelow(r.name))
  BY <1>2, HelperParts
<1>7. PICK s : s = r.name
  OBVIOUS
<1>8. CASE DepthOf(r) = 0
  <2>1. s \in Seq(Nat) /\ h = NoChildren(s) /\ h.kind = "no children" /\ h.start = s
    BY <1>1, <1>6, <1>7, <1>8
  <2>2. /\ ContainsFCO(h, n) <=> n = s
        /\ Walked(h, n) <=> n = s
        /\ WithinDepth(h, n)
    BY <2>1, NoChildrenWalked
  <2>3. n = s => BelongsTo(text, n, k)
    BY <1>1, <1>4, <1>5, <1>7, OwnStart
  <2> QED
    BY <2>1, <2>2, <2>3
<1>9. CASE DepthOf(r) # 0
  <2>1. /\ h.kind = "stop points" /\ h.start = s /\ s \in Seq(Nat)
        /\ h.stops = Topmost(PointsBelow(s)) /\ h.depth \in Int
    BY <1>1, <1>2, <1>6, <1>7, <1>9
  <2>2. IsTopmost(h, B)
    <3>1. PointsBelow(s) = {p \in B : Below(p, h.start)}
      BY <1>3, <2>1 DEF PointsBelow
    <3> QED
      BY <1>4, <2>1, <3>1 DEF IsTopmost
  <2>3. ContainsFCO(h, n) <=> /\ AtOrBelow(n, h.start)
                              /\ \A p \in B : Below(p, h.start) => ~AtOrBelow(n, p)
    BY <2>2, ContainsIs
  <2>4. BelongsTo(text, n, k)
          <=> /\ AtOrBelow(n, s)
              /\ \A j \in Live(text, {"rule", "stop"}) : Below(text[j].name, s) => ~AtOrBelow(n, text[j].name)
    BY <1>1, <1>4, <1>5, <1>7, NearestIs
  <2>5. ContainsFCO(h, n) <=> BelongsTo(text, n, k)
    BY <1>4, <2>1, <2>3, <2>4
  <2>6. Walked(h, n) <=> ContainsFCO(h, n) /\ WithinDepth(h, n)
    BY <2>1, <2>2, WalkedIs
  <2> QED
    BY <2>1, <2>5, <2>6
<1> QED
  BY <1>8, <1>9

\* An object is in the specification of the nearest rule above it, unless a
\* stop point is nearer, and in no other; and the walk comes to just these,
\* down to the depth (cFCOSpecStopPoint, cParserUtil::CreateFCOSpecs).
THEOREM NearestPointDecidesAlways == ParserSpec => []NearestPointDecides
<1>1. SpecsAre => NearestPointDecides
  <2> SUFFICES ASSUME SpecsAre, status = "done"
               PROVE  /\ StopsAreTopmost
                      /\ \A k \in Live(text, {"rule"}), n \in Name :
                           LET s      == specs[PlaceOf(text, k)].helper
                               within == s.kind = "no children" => n = s.start
                               mine   == BelongsTo(text, n, k) /\ within
                           IN /\ ContainsFCO(s, n) <=> mine
                              /\ Walked(s, n) <=> mine /\ WithinDepth(s, n)
    BY DEF NearestPointDecides
  <2>1. StopsAreTopmost
    BY StopsTop
  <2>2. ASSUME NEW k \in Live(text, {"rule"}), NEW n \in Name, NEW h, h = specs[PlaceOf(text, k)].helper
        PROVE  LET mine == BelongsTo(text, n, k) /\ (h.kind = "no children" => n = h.start)
               IN /\ ContainsFCO(h, n) <=> mine
                  /\ Walked(h, n) <=> mine /\ WithinDepth(h, n)
    <3>1. n \in Seq(Nat)
      BY StopsAreNames
    <3> QED
      BY <2>2, <3>1, HelperDecides
  <2> QED
    BY <2>1, <2>2
<1> QED
  BY <1>1, SpecsMade, ParserInductive, PTL

-----------------------------------------------------------------------------
(* What the check assumes of the rules                                     *)

\* No object is in two of the specifications, and stop points are below the
\* start point of theirs.
SpecsAreRules ==
  status = "done" =>
    /\ \A i \in DOMAIN specs :
         /\ specs[i].helper.start \in Seq(Nat)
         /\ \A p \in specs[i].helper.stops :
              p \in Seq(Nat) /\ Below(p, specs[i].helper.start)
    /\ \A n \in Seq(Nat) : \A i, j \in DOMAIN specs :
         ContainsFCO(specs[i].helper, n) /\ ContainsFCO(specs[j].helper, n) => i = j

\* Each specification is that of a rule of the text.
LEMMA SpecsHaveRules ==
  ASSUME SpecsAre, status = "done", NEW i \in DOMAIN specs
  PROVE  \E k \in Live(text, {"rule"}) : PlaceOf(text, k) = i
<1>1. RulesAre(text, rules) /\ specs = SpecsOf(rules)
  BY DEF SpecsAre
<1>2. DOMAIN specs = 1 .. Len(rules)
  BY <1>1, RulesShow DEF SpecsOf
<1> QED
  BY <1>1, <1>2 DEF RulesAre

\* The rules that the check is given have no object in common and their stop
\* points in place, as RulesAreDisjoint and RulesAreRules ask of the check's
\* constants: cParserUtil::CreateFCOSpecs makes them so.
THEOREM RulesAreMadeDisjoint == ParserSpec => []SpecsAreRules
<1>1. SpecsAre => SpecsAreRules
  <2> SUFFICES ASSUME SpecsAre, status = "done"
               PROVE  SpecsAreRules
    BY DEF SpecsAreRules
  <2>1. ASSUME NEW i \in DOMAIN specs
        PROVE  /\ specs[i].helper.start \in Seq(Nat)
               /\ \A p \in specs[i].helper.stops :
                    p \in Seq(Nat) /\ Below(p, specs[i].helper.start)
    <3>1. PICK k \in Live(text, {"rule"}) : PlaceOf(text, k) = i
      BY SpecsHaveRules
    <3>2. PICK r : /\ r.name \in Seq(Nat)
                   /\ specs[i] = [helper |-> HelperFor(r), attrs |-> r.attrs]
      BY <3>1, SpecOfRule
    <3>3. PICK h : h = specs[i].helper /\ h = HelperFor(r)
      BY <3>2
    <3>4. /\ h.start = r.name
          /\ DepthOf(r) = 0 => h = NoChildren(r.name)
          /\ DepthOf(r) # 0 => h.stops = Topmost(PointsBelow(r.name))
      BY <3>3, HelperParts
    <3>5. ASSUME h = NoChildren(r.name)
          PROVE  h.stops = {}
      BY ONLY <3>5 DEF NoChildren
    <3>6. Range(stops) \in SUBSET Seq(Nat)
      BY PointsAreOne
    <3>7. \A p \in h.stops : p \in Seq(Nat) /\ Below(p, r.name)
      BY <3>4, <3>5, <3>6 DEF Topmost, PointsBelow
    <3> QED
      BY <3>2, <3>3, <3>4, <3>7
  <2>2. ASSUME NEW n \in Seq(Nat), NEW i \in DOMAIN specs, NEW j \in DOMAIN specs,
               ContainsFCO(specs[i].helper, n), ContainsFCO(specs[j].helper, n)
        PROVE  i = j
    <3>1. PICK k \in Live(text, {"rule"}) : PlaceOf(text, k) = i
      BY SpecsHaveRules
    <3>2. PICK l \in Live(text, {"rule"}) : PlaceOf(text, l) = j
      BY SpecsHaveRules
    <3>3. BelongsTo(text, n, k)
      BY <2>2, <3>1, HelperDecides
    <3>4. BelongsTo(text, n, l)
      BY <2>2, <3>2, HelperDecides
    <3>5. k = l
      BY <3>3, <3>4 DEF BelongsTo
    <3> QED
      BY <3>1, <3>2, <3>5
  <2> QED
    BY <2>1, <2>2 DEF SpecsAreRules
<1> QED
  BY <1>1, SpecsMade, ParserInductive, PTL

=============================================================================
