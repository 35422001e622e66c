--------------------------- MODULE TripwireProofs ---------------------------
(***************************************************************************)
(* What the modes leave behind is right for any names, properties,         *)
(* policies and file systems: first what Baseline computes, then the       *)
(* inductive invariant of Tripwire and the properties that follow.         *)
(***************************************************************************)
EXTENDS Tripwire, DataLemmas

-----------------------------------------------------------------------------
(* Objects, trees and databases                                            *)

\* What is stored of a tree at a name: one object, or none.
At(tree, n) == IF n \in DOMAIN tree THEN {tree[n]} ELSE {}

DatabaseType ==
  {db \in [tree : Tree, ways : SUBSET FCOName, dirs : SUBSET FCOName] :
     db.ways \cap DOMAIN db.tree = {} /\ db.dirs \subseteq Entries(db)}

VerdictType ==
  [kind : {"added", "removed", "changed"}, name : FCOName,
   old : StoredObject, new : StoredObject]

OneEach(report) == \A v, w \in report : v.name = w.name => v = w

\* A stored object is a function on some properties.
LEMMA StoredObjects ==
  /\ \A o \in StoredObject :
       /\ DOMAIN o \subseteq Property
       /\ o = [p \in DOMAIN o |-> o[p]]
       /\ \A p \in DOMAIN o : o[p] \in Value
  /\ \A P \in SUBSET Property : [P -> Value] \subseteq StoredObject
  /\ Object \subseteq StoredObject
  /\ Absent \in StoredObject
<1>1. \A P \in SUBSET Property : [P -> Value] \subseteq StoredObject
  BY DEF StoredObject
<1>2. Absent \in [{} -> Value]
  BY DEF Absent
<1> QED
  BY <1>1, <1>2 DEF StoredObject, Object

\* A tree is a function from some names to stored objects, a file system one
\* to objects.
LEMMA Trees ==
  /\ \A t \in Tree :
       /\ DOMAIN t \subseteq FCOName
       /\ t = [n \in DOMAIN t |-> t[n]]
       /\ \A n \in DOMAIN t : t[n] \in StoredObject
  /\ \A S \in SUBSET FCOName : [S -> StoredObject] \subseteq Tree
  /\ \A f \in FileSystem :
       /\ DOMAIN f \subseteq FCOName
       /\ f = [n \in DOMAIN f |-> f[n]]
       /\ \A n \in DOMAIN f : f[n] \in Object /\ Parents(n) \subseteq DOMAIN f
  /\ \A S \in SUBSET FCOName : \A f \in [S -> Object] :
       (\A n \in S : Parents(n) \subseteq S) => f \in FileSystem
BY DEF Tree, FileSystem

\* One object laid over another, and an object cut down to a mask.
LEMMA StoredParts ==
  /\ \A o, k \in StoredObject : Over(o, k) \in StoredObject
  /\ \A o \in StoredObject, P \in SUBSET Property :
       P \subseteq DOMAIN o => Restrict(o, P) \in StoredObject
  /\ \A o \in Object, P \in SUBSET Property :
       CalcProps(o, P) \in StoredObject /\ DOMAIN CalcProps(o, P) = P
<1>1. ASSUME NEW o \in StoredObject, NEW k \in StoredObject
      PROVE  Over(o, k) \in StoredObject
  <2>1. Over(o, k) \in [DOMAIN o \cup DOMAIN k -> Value]
    BY StoredObjects DEF Over
  <2>2. DOMAIN o \cup DOMAIN k \in SUBSET Property
    BY StoredObjects
  <2> QED
    BY <2>1, <2>2, StoredObjects
<1>2. ASSUME NEW o \in StoredObject, NEW P \in SUBSET Property, P \subseteq DOMAIN o
      PROVE  Restrict(o, P) \in StoredObject
  <2>1. Restrict(o, P) \in [P -> Value]
    BY <1>2, StoredObjects DEF Restrict
  <2> QED
    BY <2>1, StoredObjects
<1>3. ASSUME NEW o \in Object, NEW P \in SUBSET Property
      PROVE  CalcProps(o, P) \in StoredObject /\ DOMAIN CalcProps(o, P) = P
  <2>1. CalcProps(o, P) \in [P -> Value]
    BY DEF CalcProps, Restrict, Object
  <2> QED
    BY <2>1, StoredObjects
<1> QED
  BY <1>1, <1>2, <1>3

\* The entry of an object gets it, on a path that was made before or not; no
\* other object is disturbed.
LEMMA SetFCODataEffect ==
  ASSUME NEW db \in DatabaseType, NEW n \in FCOName, NEW o \in StoredObject
  PROVE  /\ SetFCOData(db, n, o) \in DatabaseType
         /\ At(SetFCOData(db, n, o).tree, n) = {o}
         /\ \A m \in FCOName \ {n} : At(SetFCOData(db, n, o).tree, m) = At(db.tree, m)
<1> DEFINE t == [m \in DOMAIN db.tree \cup {n} |-> IF m = n THEN o ELSE db.tree[m]]
           w == db.ways \ {n}
<1>1. /\ db \in [tree : Tree, ways : SUBSET FCOName, dirs : SUBSET FCOName]
      /\ db.tree \in Tree /\ db.ways \in SUBSET FCOName /\ db.dirs \in SUBSET FCOName
      /\ db.ways \cap DOMAIN db.tree = {} /\ db.dirs \subseteq DOMAIN db.tree \cup db.ways
  BY DEF DatabaseType, Entries
<1>2. SetFCOData(db, n, o) = [tree |-> t, ways |-> w, dirs |-> db.dirs]
  BY DEF SetFCOData
<1>3. t \in [DOMAIN db.tree \cup {n} -> StoredObject]
  BY <1>1, Trees
<1>4. t \in Tree
  <2>1. DOMAIN db.tree \cup {n} \in SUBSET FCOName
    BY <1>1, Trees
  <2> HIDE DEF t
  <2> QED
    BY <1>3, <2>1, Trees
<1>5. [tree |-> t, ways |-> w, dirs |-> db.dirs] \in DatabaseType
  BY <1>1, <1>4 DEF DatabaseType, Entries
<1> QED
  BY SMTT(30), <1>2, <1>5 DEF At

LEMMA CreatePathEffect ==
  ASSUME NEW db \in DatabaseType, NEW n \in FCOName
  PROVE  CreatePath(db, n) \in DatabaseType /\ CreatePath(db, n).tree = db.tree
<1>1. /\ db \in [tree : Tree, ways : SUBSET FCOName, dirs : SUBSET FCOName]
      /\ db.tree \in Tree /\ db.ways \in SUBSET FCOName /\ db.dirs \in SUBSET FCOName
      /\ db.ways \cap DOMAIN db.tree = {} /\ db.dirs \subseteq DOMAIN db.tree \cup db.ways
  BY DEF DatabaseType, Entries
<1>2. CreatePath(db, n) =
        [tree |-> db.tree,
         ways |-> db.ways \cup ((Parents(n) \cup {n}) \ DOMAIN db.tree),
         dirs |-> db.dirs \cup Parents(n)]
  BY DEF CreatePath
<1>3. Parents(n) \subseteq FCOName
  BY NamesArePaths
<1> QED
  BY <1>1, <1>2, <1>3 DEF DatabaseType, Entries

LEMMA AddedEffect ==
  ASSUME NEW db \in DatabaseType, NEW n \in FCOName, NEW o \in StoredObject
  PROVE  /\ SetFCOData(CreatePath(db, n), n, o) \in DatabaseType
         /\ At(SetFCOData(CreatePath(db, n), n, o).tree, n) = {o}
         /\ \A m \in FCOName \ {n} :
              At(SetFCOData(CreatePath(db, n), n, o).tree, m) = At(db.tree, m)
<1>1. PICK c : c = CreatePath(db, n)
  OBVIOUS
<1>2. c \in DatabaseType
  BY <1>1, CreatePathEffect
<1>3. c.tree = db.tree
  BY <1>1, CreatePathEffect
<1>4. /\ SetFCOData(c, n, o) \in DatabaseType
      /\ At(SetFCOData(c, n, o).tree, n) = {o}
      /\ \A m \in FCOName \ {n} : At(SetFCOData(c, n, o).tree, m) = At(c.tree, m)
  BY <1>2, SetFCODataEffect
<1> QED
  BY <1>1, <1>3, <1>4

\* An object goes; its entry, and those above it, go as far as they are not
\* needed, and with them their child arrays.
LEMMA RemoveFCOEffect ==
  ASSUME NEW db \in DatabaseType, NEW n \in FCOName
  PROVE  /\ RemoveFCOFromDb(db, n) \in DatabaseType
         /\ At(RemoveFCOFromDb(db, n).tree, n) = {}
         /\ \A m \in FCOName \ {n} : At(RemoveFCOFromDb(db, n).tree, m) = At(db.tree, m)
<1> DEFINE at(k)      == SubSeq(n, 1, k)
           onlyWay(k) == \A m \in Entries(db) : Below(m, at(k)) => AtOrBelow(m, at(k + 1))
           gone[k \in 1 .. Len(n)] ==
             IF k = Len(n) THEN n \notin db.dirs
             ELSE gone[k + 1] /\ onlyWay(k) /\ at(k) \in db.ways
           t == Restrict(db.tree, DOMAIN db.tree \ {n})
           w == (db.ways \cup {n}) \ {at(k) : k \in {j \in DOMAIN gone : gone[j]}}
           d == db.dirs \ {at(k) : k \in {j \in 1 .. Len(n) - 1 : gone[j + 1] /\ onlyWay(j)}}
<1>1. RemoveFCOFromDb(db, n) = [tree |-> t, ways |-> w, dirs |-> d]
  BY DEF RemoveFCOFromDb
<1>2. /\ db.tree \in Tree /\ db.ways \in SUBSET FCOName /\ db.dirs \in SUBSET FCOName
      /\ db.ways \cap DOMAIN db.tree = {} /\ db.dirs \subseteq DOMAIN db.tree \cup db.ways
  BY DEF DatabaseType, Entries
<1>3. Len(n) \in Nat /\ at(Len(n)) = n
  <2>1. n \in Seq(ToSet(n))
    BY NamesArePaths
  <2> QED
    BY <2>1, LenProperties, SubSeqProperties, SeqEqual
<1>4. t \in Tree /\ DOMAIN t = DOMAIN db.tree \ {n} /\ \A m \in DOMAIN t : t[m] = db.tree[m]
  <2>1. t \in [DOMAIN db.tree \ {n} -> StoredObject]
    BY <1>2, Trees DEF Restrict
  <2>2. DOMAIN db.tree \ {n} \in SUBSET FCOName
    BY <1>2, Trees
  <2>3. t \in Tree
    <3> HIDE DEF t
    <3> QED
      BY <2>1, <2>2, Trees
  <2> QED
    BY <2>3 DEF Restrict
<1> DEFINE step == [j \in 1 .. Len(n) |-> [b \in BOOLEAN |->
                      b /\ onlyWay(Len(n) - j) /\ at(Len(n) - j) \in db.ways]]
<1> HIDE DEF onlyWay, at
<1>5. PICK f \in [0 .. Len(n) -> BOOLEAN] :
        f[0] = (n \notin db.dirs) /\ \A j \in 1 .. Len(n) : f[j] = step[j][f[j - 1]]
  <2>1. step \in [1 .. Len(n) -> [BOOLEAN -> BOOLEAN]] /\ (n \notin db.dirs) \in BOOLEAN
    OBVIOUS
  <2>2. PICK T, N, first : T = BOOLEAN /\ N = Len(n) /\ first = (n \notin db.dirs)
    OBVIOUS
  <2> HIDE DEF step
  <2>3. N \in Nat /\ first \in T /\ step \in [1 .. N -> [T -> T]]
    BY <1>3, <2>1, <2>2
  <2>4. \E f \in [0 .. N -> T] :
          f[0] = first /\ \A j \in 1 .. N : f[j] = step[j][f[j - 1]]
    BY <2>3, IteratedFunction, Z3
  <2> QED
    BY <2>2, <2>4
<1> DEFINE g == [k \in 1 .. Len(n) |-> f[Len(n) - k]]
<1>6. g = [k \in 1 .. Len(n) |-> IF k = Len(n) THEN n \notin db.dirs
                                 ELSE g[k + 1] /\ onlyWay(k) /\ at(k) \in db.ways]
  <2> SUFFICES ASSUME NEW k \in 1 .. Len(n)
               PROVE  g[k] = IF k = Len(n) THEN n \notin db.dirs
                             ELSE g[k + 1] /\ onlyWay(k) /\ at(k) \in db.ways
    OBVIOUS
  <2>1. CASE k = Len(n)
    BY <1>3, <1>5, <2>1
  <2>2. CASE k # Len(n)
    <3>1. Len(n) - k \in 1 .. Len(n) /\ (Len(n) - k) - 1 = Len(n) - (k + 1)
          /\ Len(n) - (Len(n) - k) = k /\ k + 1 \in 1 .. Len(n)
          /\ Len(n) - (k + 1) \in 0 .. Len(n)
      BY <1>3, <2>2
    <3>2. f[Len(n) - k] = step[Len(n) - k][f[Len(n) - (k + 1)]]
      BY <1>5, <3>1
    <3>3. f[Len(n) - (k + 1)] \in BOOLEAN
      BY <3>1
    <3>4. g[k] = f[Len(n) - k] /\ g[k + 1] = f[Len(n) - (k + 1)]
      BY <3>1
    <3>5. step[Len(n) - k][f[Len(n) - (k + 1)]]
            = (f[Len(n) - (k + 1)] /\ onlyWay(k) /\ at(k) \in db.ways)
      BY <3>1, <3>3
    <3> QED
      BY <2>2, <3>2, <3>4, <3>5
  <2> QED
    BY <2>1, <2>2
<1>7. /\ DOMAIN gone = 1 .. Len(n)
      /\ \A k \in 1 .. Len(n) :
           gone[k] = IF k = Len(n) THEN n \notin db.dirs
                     ELSE gone[k + 1] /\ onlyWay(k) /\ at(k) \in db.ways
  <2> HIDE DEF g
  <2>1. gone = [k \in 1 .. Len(n) |-> IF k = Len(n) THEN n \notin db.dirs
                                      ELSE gone[k + 1] /\ onlyWay(k) /\ at(k) \in db.ways]
    BY <1>6
  <2> HIDE DEF gone
  <2> QED
    BY <2>1
<1> HIDE DEF gone
<1>8. d \subseteq DOMAIN t \cup w
  <2> SUFFICES ASSUME NEW m \in d, m \notin DOMAIN t, m \notin w
               PROVE  FALSE
    OBVIOUS
  <2>1. m \in db.dirs /\ m \in db.ways \cup {n}
    BY <1>2, <1>4
  <2>2. PICK k \in 1 .. Len(n) : gone[k] /\ m = at(k)
    BY <1>7, <2>1
  <2>3. CASE k = Len(n)
    BY <1>3, <1>7, <2>1, <2>2, <2>3
  <2>4. CASE k # Len(n)
    <3>1. k \in 1 .. Len(n) - 1
      BY <1>3, <2>4
    <3>2. gone[k + 1] /\ onlyWay(k)
      BY <1>7, <2>2, <2>4
    <3> QED
      BY <2>2, <3>1, <3>2
  <2> QED
    BY <2>3, <2>4
<1>9. /\ w \cap DOMAIN t = {}
      /\ w \in SUBSET FCOName
      /\ d \in SUBSET FCOName
  BY <1>2, <1>4
<1>10. [tree |-> t, ways |-> w, dirs |-> d] \in DatabaseType
  <2> HIDE DEF t, w, d
  <2> QED
    BY <1>4, <1>8, <1>9 DEF DatabaseType, Entries
<1>11. RemoveFCOFromDb(db, n).tree = t
  BY <1>1
<1> HIDE DEF t, w, d
<1>12. RemoveFCOFromDb(db, n) \in DatabaseType
  BY <1>1, <1>10
<1> QED
  BY <1>4, <1>11, <1>12 DEF At

-----------------------------------------------------------------------------
(* Names                                                                   *)

\* The names above a name, and what it is to be above.
LEMMA NamePrefixes ==
  ASSUME NEW n \in FCOName
  PROVE  /\ Len(n) \in Nat
         /\ \A m \in FCOName : AtOrBelow(n, m) <=>
              Len(m) <= Len(n) /\ m = SubSeq(n, 1, Len(m))
         /\ \A m \in FCOName : m \in Parents(n) <=>
              Len(m) \in 1 .. Len(n) - 1 /\ m = SubSeq(n, 1, Len(m))
         /\ \A m \in FCOName : \A k \in 0 .. Len(m) :
              AtOrBelow(n, m) => SubSeq(n, 1, k) = SubSeq(m, 1, k)
<1>1. \A m \in FCOName : m \in Seq(ToSet(m)) /\ Len(m) \in Nat /\ SubSeq(m, 1, Len(m)) = m
  <2>1. \A m \in FCOName : m \in Seq(ToSet(m))
    BY NamesArePaths
  <2> QED
    BY <2>1, LenProperties, SubSeqProperties, SeqEqual
<1>2. \A k \in 0 .. Len(n) : Len(SubSeq(n, 1, k)) = k
  BY <1>1, SubSeqProperties
<1>3. \A m \in FCOName : AtOrBelow(n, m) <=> Len(m) <= Len(n) /\ m = SubSeq(n, 1, Len(m))
  BY <1>1 DEF AtOrBelow, IsPrefix
<1>4. ASSUME NEW m \in FCOName
      PROVE  m \in Parents(n) <=> Len(m) \in 1 .. Len(n) - 1 /\ m = SubSeq(n, 1, Len(m))
  BY <1>1, <1>2 DEF Parents
<1>5. ASSUME NEW m \in FCOName, NEW k \in 0 .. Len(m), AtOrBelow(n, m)
      PROVE  SubSeq(n, 1, k) = SubSeq(m, 1, k)
  <2>1. Len(m) <= Len(n) /\ m = SubSeq(n, 1, Len(m))
    BY <1>3, <1>5
  <2>2. \A i \in 1 .. Len(m) : m[i] = n[i]
    BY <1>1, <2>1, SubSeqProperties
  <2>3. /\ SubSeq(n, 1, k) \in Seq(ToSet(n)) /\ Len(SubSeq(n, 1, k)) = k
        /\ \A i \in 1 .. k : SubSeq(n, 1, k)[i] = n[i]
    BY <1>1, <2>1, SubSeqProperties
  <2>4. /\ SubSeq(m, 1, k) \in Seq(ToSet(m)) /\ Len(SubSeq(m, 1, k)) = k
        /\ \A i \in 1 .. k : SubSeq(m, 1, k)[i] = m[i]
    BY <1>1, SubSeqProperties
  <2>5. SubSeq(n, 1, k) = [i \in 1 .. k |-> n[i]]
    BY <2>3, LenProperties
  <2>6. SubSeq(m, 1, k) = [i \in 1 .. k |-> m[i]]
    BY <2>4, LenProperties
  <2> QED
    BY <1>1, <2>2, <2>5, <2>6
<1> QED
  BY <1>1, <1>3, <1>4, <1>5

\* Being above is a partial order.
LEMMA NamesAreOrdered ==
  ASSUME NEW n \in FCOName, NEW m \in FCOName, AtOrBelow(n, m)
  PROVE  /\ n # m => Below(n, m)
         /\ \A k \in FCOName : AtOrBelow(m, k) => AtOrBelow(n, k)
         /\ Parents(m) \subseteq Parents(n)
         /\ Len(m) # 0 /\ n # m => m \in Parents(n)
<1>1. n # m => Below(n, m)
  BY DEF Below, AtOrBelow, IsStrictPrefix
<1>2. /\ Len(n) \in Nat /\ Len(m) \in Nat /\ Len(m) <= Len(n) /\ m = SubSeq(n, 1, Len(m))
      /\ \A k \in 0 .. Len(m) : SubSeq(n, 1, k) = SubSeq(m, 1, k)
  BY NamePrefixes
<1>3. ASSUME NEW k \in FCOName, AtOrBelow(m, k)
      PROVE  AtOrBelow(n, k)
  <2>1. Len(k) \in Nat /\ Len(k) <= Len(m) /\ k = SubSeq(m, 1, Len(k))
    BY <1>3, NamePrefixes
  <2>2. Len(k) <= Len(n) /\ k = SubSeq(n, 1, Len(k))
    BY <1>2, <2>1
  <2> QED
    BY <2>2, NamePrefixes
<1>4. Parents(m) \subseteq Parents(n)
  BY <1>2 DEF Parents
<1>5. Len(m) # 0 /\ n # m => m \in Parents(n)
  <2>1. SubSeq(n, 1, Len(n)) = n
    BY NamePrefixes DEF AtOrBelow, IsPrefix
  <2> QED
    BY <1>2, <2>1, NamePrefixes
<1> QED
  BY <1>1, <1>3, <1>4, <1>5

\* Names are a forest: those above a name lie on one way.
LEMMA NamesLieOnWays ==
  /\ \A n, m \in FCOName : AtOrBelow(n, m) /\ AtOrBelow(m, n) => n = m
  /\ \A n \in FCOName : AtOrBelow(n, n) /\ Len(n) \in Nat \ {0}
  /\ \A n, m \in FCOName : Below(n, m) <=> AtOrBelow(n, m) /\ n # m
  /\ \A n, m, k \in FCOName : AtOrBelow(n, m) /\ AtOrBelow(m, k) => AtOrBelow(n, k)
  /\ \A n, m, k \in FCOName :
       AtOrBelow(n, m) /\ AtOrBelow(n, k) => AtOrBelow(m, k) \/ AtOrBelow(k, m)
  /\ \A n, m \in FCOName : AtOrBelow(n, m) => Len(m) <= Len(n)
  /\ \A n, m \in FCOName : Below(n, m) => Len(m) < Len(n)
  /\ \A n, m \in FCOName : m \in Parents(n) <=> Below(n, m)
<1>1. \A n, m \in FCOName : AtOrBelow(n, m) <=> Len(m) <= Len(n) /\ m = SubSeq(n, 1, Len(m))
  BY NamePrefixes
<1>2. \A n \in FCOName : n \in Seq(ToSet(n)) /\ Len(n) \in Nat /\ SubSeq(n, 1, Len(n)) = n
  <2>1. \A m \in FCOName : m \in Seq(ToSet(m))
    BY NamesArePaths
  <2> QED
    BY <2>1, LenProperties, SubSeqProperties, SeqEqual
<1>3. \A n \in FCOName : Len(n) # 0
  <2> SUFFICES ASSUME NEW n \in FCOName, Len(n) = 0
               PROVE  FALSE
    OBVIOUS
  <2>1. n = << >>
    BY <1>2, EmptySeq
  <2> QED
    BY <2>1, NoNameIsEmpty
<1>4. \A n, m \in FCOName : Below(n, m) <=> AtOrBelow(n, m) /\ n # m
  BY DEF Below, AtOrBelow, IsStrictPrefix
<1>5. \A n, m, k \in FCOName : AtOrBelow(n, m) /\ AtOrBelow(m, k) => AtOrBelow(n, k)
  BY NamesAreOrdered
<1>6. ASSUME NEW n \in FCOName, NEW m \in FCOName, NEW k \in FCOName,
             AtOrBelow(n, m), AtOrBelow(n, k), Len(m) <= Len(k)
      PROVE  AtOrBelow(k, m)
  <2>1. \A i \in 0 .. Len(k) : SubSeq(n, 1, i) = SubSeq(k, 1, i)
    BY <1>6, NamePrefixes
  <2>2. Len(m) \in 0 .. Len(k)
    BY <1>2, <1>6
  <2> QED
    BY <1>1, <1>6, <2>1, <2>2
<1>7. \A n, m, k \in FCOName :
        AtOrBelow(n, m) /\ AtOrBelow(n, k) => AtOrBelow(m, k) \/ AtOrBelow(k, m)
  BY <1>2, <1>6
<1>8. ASSUME NEW n \in FCOName, NEW m \in FCOName, AtOrBelow(n, m), n # m
      PROVE  Len(m) < Len(n)
  BY <1>1, <1>2, <1>8
<1>9. ASSUME NEW n \in FCOName, NEW m \in FCOName
      PROVE  m \in Parents(n) <=> Below(n, m)
  <2>1. m \in Parents(n) <=> Len(m) \in 1 .. Len(n) - 1 /\ m = SubSeq(n, 1, Len(m))
    BY NamePrefixes
  <2>2. Len(m) \in Nat /\ Len(n) \in Nat /\ Len(m) # 0
    BY <1>2, <1>3
  <2>3. ASSUME m \in Parents(n)
        PROVE  AtOrBelow(n, m) /\ n # m
    BY <1>1, <2>1, <2>2, <2>3
  <2>4. ASSUME AtOrBelow(n, m), n # m
        PROVE  m \in Parents(n)
    BY <1>1, <1>8, <2>1, <2>2, <2>4
  <2> QED
    BY <1>4, <2>3, <2>4
<1> QED
  BY <1>1, <1>2, <1>3, <1>4, <1>5, <1>7, <1>8, <1>9

-----------------------------------------------------------------------------
(* Child arrays and dead ends                                              *)

\* Tidy, of a database of the type.
LEMMA TidyIs ==
  ASSUME NEW db \in DatabaseType
  PROVE  Tidy(db) <=>
           /\ \A n \in db.ways : \E m \in DOMAIN db.tree : Below(m, n)
           /\ \A n \in FCOName : n \in db.dirs <=> \E m \in Entries(db) : Below(m, n)
<1>1. db.dirs \in SUBSET FCOName
  BY DEF DatabaseType
<1> QED
  BY <1>1 DEF Tidy, LeadsOn

\* In a tidy database there is an object at or below every entry, and an
\* entry above it.
LEMMA TidyEntries ==
  ASSUME NEW db \in DatabaseType, Tidy(db)
  PROVE  /\ \A n \in Entries(db) : n \in FCOName /\ \E m \in DOMAIN db.tree : AtOrBelow(m, n)
         /\ \A n \in Entries(db), m \in FCOName : Below(n, m) => m \in Entries(db)
<1>1. /\ db.tree \in Tree /\ db.ways \in SUBSET FCOName /\ db.dirs \in SUBSET FCOName
      /\ db.dirs \subseteq Entries(db)
  BY DEF DatabaseType
<1>2. DOMAIN db.tree \subseteq FCOName
  BY <1>1, Trees
<1>3. Entries(db) = DOMAIN db.tree \cup db.ways
  BY DEF Entries
<1>4. \A n \in db.ways : \E m \in DOMAIN db.tree : Below(m, n)
  BY TidyIs
<1>5. \A n \in Entries(db) : n \in FCOName /\ \E m \in DOMAIN db.tree : AtOrBelow(m, n)
  BY <1>1, <1>2, <1>3, <1>4, NamesLieOnWays
<1>6. \A n \in Entries(db), m \in FCOName : Below(n, m) => m \in Entries(db)
  BY <1>1, TidyIs
<1> QED
  BY <1>5, <1>6

\* An object is stored at an entry that is there.
LEMMA StoreTidy ==
  ASSUME NEW db \in DatabaseType, Tidy(db), NEW n \in Entries(db), NEW o \in StoredObject
  PROVE  Tidy(SetFCOData(db, n, o))
<1>1. PICK e : e = SetFCOData(db, n, o)
  OBVIOUS
<1>2. n \in FCOName
  BY TidyEntries
<1>3. e \in DatabaseType
  BY <1>1, <1>2, SetFCODataEffect
<1>4. DOMAIN e.tree = DOMAIN db.tree \cup {n} /\ e.ways = db.ways \ {n} /\ e.dirs = db.dirs
  BY <1>1 DEF SetFCOData
<1>5. Entries(e) = Entries(db)
  BY <1>4 DEF Entries
<1>6. Tidy(e)
  BY <1>3, <1>4, <1>5, TidyIs
<1> QED
  BY <1>1, <1>6

\* An object is stored with a path to it.
LEMMA AddTidy ==
  ASSUME NEW db \in DatabaseType, Tidy(db), NEW n \in FCOName, NEW o \in StoredObject
  PROVE  Tidy(SetFCOData(CreatePath(db, n), n, o))
<1>1. PICK c, e : c = CreatePath(db, n) /\ e = SetFCOData(c, n, o)
  OBVIOUS
<1>2. e \in DatabaseType
  BY <1>1, AddedEffect
<1>3. /\ c.tree = db.tree /\ c.ways = db.ways \cup ((Parents(n) \cup {n}) \ DOMAIN db.tree)
      /\ c.dirs = db.dirs \cup Parents(n)
  BY <1>1 DEF CreatePath
<1>4. DOMAIN e.tree = DOMAIN c.tree \cup {n} /\ e.ways = c.ways \ {n} /\ e.dirs = c.dirs
  BY <1>1 DEF SetFCOData
<1>5. Parents(n) \subseteq FCOName /\ \A m \in FCOName : m \in Parents(n) <=> Below(n, m)
  BY NamesArePaths, NamesLieOnWays
<1>6. Entries(e) = Entries(db) \cup Parents(n) \cup {n}
  BY <1>3, <1>4 DEF Entries
<1>7. /\ \A m \in db.ways : \E k \in DOMAIN db.tree : Below(k, m)
      /\ \A m \in FCOName : m \in db.dirs <=> \E k \in Entries(db) : Below(k, m)
  BY TidyIs
<1>8. ASSUME NEW m \in e.ways
      PROVE  \E k \in DOMAIN e.tree : Below(k, m)
  <2>1. m \in db.ways \/ m \in Parents(n)
    BY <1>3, <1>4
  <2> QED
    BY <1>3, <1>4, <1>5, <1>7, <2>1
<1>9. ASSUME NEW m \in FCOName
      PROVE  m \in e.dirs <=> \E k \in Entries(e) : Below(k, m)
  <2>1. m \in e.dirs <=> m \in db.dirs \/ Below(n, m)
    BY <1>3, <1>4, <1>5
  <2>2. ASSUME NEW k \in Parents(n), Below(k, m)
        PROVE  Below(n, m)
    BY <1>5, <2>2, NamesLieOnWays
  <2> QED
    BY <1>6, <1>7, <2>1, <2>2
<1>10. Tidy(e)
  BY <1>2, <1>8, <1>9, TidyIs
<1> QED
  BY <1>1, <1>10

\* From the entry k parts down the path of n on there is no other way.
OnlyWay(db, n, k) ==
  \A m \in Entries(db) : Below(m, SubSeq(n, 1, k)) => AtOrBelow(m, SubSeq(n, 1, k + 1))

\* The entries on the path of n that a removal takes away.
IsGone(db, n, gone) ==
  /\ gone \in [1 .. Len(n) -> BOOLEAN]
  /\ \A k \in 1 .. Len(n) :
       gone[k] = IF k = Len(n) THEN n \notin db.dirs
                 ELSE gone[k + 1] /\ OnlyWay(db, n, k) /\ SubSeq(n, 1, k) \in db.ways

\* What is left of the database.
Without(db, n, gone) ==
  [tree |-> Restrict(db.tree, DOMAIN db.tree \ {n}),
   ways |-> (db.ways \cup {n}) \ {SubSeq(n, 1, k) : k \in {j \in 1 .. Len(n) : gone[j]}},
   dirs |-> db.dirs \ {SubSeq(n, 1, k) : k \in {j \in 1 .. Len(n) - 1 :
                                                  gone[j + 1] /\ OnlyWay(db, n, j)}}]

\* The loop up the path ends, so that there are such entries.
LEMMA RemoveFCOIs ==
  ASSUME NEW db \in DatabaseType, NEW n \in FCOName
  PROVE  \E gone : IsGone(db, n, gone) /\ RemoveFCOFromDb(db, n) = Without(db, n, gone)
<1> DEFINE at(k)      == SubSeq(n, 1, k)
           onlyWay(k) == \A m \in Entries(db) : Below(m, at(k)) => AtOrBelow(m, at(k + 1))
           gone[k \in 1 .. Len(n)] ==
             IF k = Len(n) THEN n \notin db.dirs
             ELSE gone[k + 1] /\ onlyWay(k) /\ at(k) \in db.ways
           t == Restrict(db.tree, DOMAIN db.tree \ {n})
           w == (db.ways \cup {n}) \ {at(k) : k \in {j \in DOMAIN gone : gone[j]}}
           d == db.dirs \ {at(k) : k \in {j \in 1 .. Len(n) - 1 : gone[j + 1] /\ onlyWay(j)}}
<1>1. RemoveFCOFromDb(db, n) = [tree |-> t, ways |-> w, dirs |-> d]
  BY DEF RemoveFCOFromDb
<1>2. Len(n) \in Nat /\ at(Len(n)) = n
  <2>1. n \in Seq(ToSet(n))
    BY NamesArePaths
  <2> QED
    BY <2>1, LenProperties, SubSeqProperties, SeqEqual
<1> DEFINE step == [j \in 1 .. Len(n) |-> [b \in BOOLEAN |->
                      b /\ onlyWay(Len(n) - j) /\ at(Len(n) - j) \in db.ways]]
<1> HIDE DEF onlyWay, at
<1>3. PICK f \in [0 .. Len(n) -> BOOLEAN] :
        f[0] = (n \notin db.dirs) /\ \A j \in 1 .. Len(n) : f[j] = step[j][f[j - 1]]
  <2>1. step \in [1 .. Len(n) -> [BOOLEAN -> BOOLEAN]] /\ (n \notin db.dirs) \in BOOLEAN
    OBVIOUS
  <2>2. PICK T, N, first : T = BOOLEAN /\ N = Len(n) /\ first = (n \notin db.dirs)
    OBVIOUS
  <2> HIDE DEF step
  <2>3. N \in Nat /\ first \in T /\ step \in [1 .. N -> [T -> T]]
    BY <1>2, <2>1, <2>2
  <2>4. \E f \in [0 .. N -> T] :
          f[0] = first /\ \A j \in 1 .. N : f[j] = step[j][f[j - 1]]
    BY <2>3, IteratedFunction, Z3
  <2> QED
    BY <2>2, <2>4
<1> DEFINE g == [k \in 1 .. Len(n) |-> f[Len(n) - k]]
<1>4. \A k \in 1 .. Len(n) : Len(n) - k \in 0 .. Len(n)
  BY <1>2
<1>5. g \in [1 .. Len(n) -> BOOLEAN]
  BY <1>4
<1>6. g = [k \in 1 .. Len(n) |-> IF k = Len(n) THEN n \notin db.dirs
                                 ELSE g[k + 1] /\ onlyWay(k) /\ at(k) \in db.ways]
  <2> SUFFICES ASSUME NEW k \in 1 .. Len(n)
               PROVE  g[k] = IF k = Len(n) THEN n \notin db.dirs
                             ELSE g[k + 1] /\ onlyWay(k) /\ at(k) \in db.ways
    OBVIOUS
  <2>1. CASE k = Len(n)
    BY <1>2, <1>3, <2>1
  <2>2. CASE k # Len(n)
    <3>1. Len(n) - k \in 1 .. Len(n) /\ (Len(n) - k) - 1 = Len(n) - (k + 1)
          /\ Len(n) - (Len(n) - k) = k /\ k + 1 \in 1 .. Len(n)
          /\ Len(n) - (k + 1) \in 0 .. Len(n)
      BY <1>2, <2>2
    <3>2. f[Len(n) - k] = step[Len(n) - k][f[Len(n) - (k + 1)]]
      BY <1>3, <3>1
    <3>3. f[Len(n) - (k + 1)] \in BOOLEAN
      BY <3>1
    <3>4. g[k] = f[Len(n) - k] /\ g[k + 1] = f[Len(n) - (k + 1)]
      BY <3>1
    <3>5. step[Len(n) - k][f[Len(n) - (k + 1)]]
            = (f[Len(n) - (k + 1)] /\ onlyWay(k) /\ at(k) \in db.ways)
      BY <3>1, <3>3
    <3> QED
      BY <2>2, <3>2, <3>4, <3>5
  <2> QED
    BY <2>1, <2>2
<1>7. /\ gone \in [1 .. Len(n) -> BOOLEAN] /\ DOMAIN gone = 1 .. Len(n)
      /\ \A k \in 1 .. Len(n) :
           gone[k] = IF k = Len(n) THEN n \notin db.dirs
                     ELSE gone[k + 1] /\ onlyWay(k) /\ at(k) \in db.ways
  <2> HIDE DEF g
  <2>1. gone = [k \in 1 .. Len(n) |-> IF k = Len(n) THEN n \notin db.dirs
                                      ELSE gone[k + 1] /\ onlyWay(k) /\ at(k) \in db.ways]
    BY <1>6
  <2> HIDE DEF gone
  <2>2. \A k \in 1 .. Len(n) :
          gone[k] = IF k = Len(n) THEN n \notin db.dirs
                    ELSE gone[k + 1] /\ onlyWay(k) /\ at(k) \in db.ways
    BY <2>1
  <2>3. gone \in [1 .. Len(n) -> BOOLEAN]
    BY <2>1
  <2> QED
    BY <2>2, <2>3
<1> HIDE DEF gone
<1>8. \A k : onlyWay(k) <=> OnlyWay(db, n, k)
  BY DEF onlyWay, at, OnlyWay
<1>9. IsGone(db, n, gone)
  BY <1>7, <1>8 DEF IsGone, at
<1>10. [tree |-> t, ways |-> w, dirs |-> d] = Without(db, n, gone)
  BY <1>7, <1>8 DEF Without, at
<1> QED
  BY <1>1, <1>9, <1>10

\* The names on the path of a name.
IsPath(n, P) ==
  /\ Len(n) \in Nat \ {0} /\ P[Len(n)] = n
  /\ \A k \in 1 .. Len(n) : P[k] \in FCOName /\ Len(P[k]) = k /\ AtOrBelow(n, P[k])
  /\ \A j, k \in 1 .. Len(n) : j < k => Below(P[k], P[j])
  /\ \A m \in FCOName : AtOrBelow(n, m) => Len(m) \in 1 .. Len(n) /\ m = P[Len(m)]

LEMMA PathParts ==
  ASSUME NEW n \in FCOName, NEW P, P = [k \in 1 .. Len(n) |-> SubSeq(n, 1, k)]
  PROVE  IsPath(n, P)
<1>1. n \in Seq(ToSet(n)) /\ Len(n) \in Nat \ {0} /\ SubSeq(n, 1, Len(n)) = n
  <2>1. n \in Seq(ToSet(n))
    BY NamesArePaths
  <2>2. Len(n) \in Nat \ {0}
    BY NamesLieOnWays
  <2> QED
    BY <2>1, <2>2, LenProperties, SubSeqProperties, SeqEqual
<1>2. P[Len(n)] = n /\ Len(n) \in Nat
  BY <1>1
<1>3. ASSUME NEW k \in 1 .. Len(n)
      PROVE  P[k] \in FCOName /\ Len(P[k]) = k
  <2>1. P[k] = SubSeq(n, 1, k)
    OBVIOUS
  <2>2. Len(SubSeq(n, 1, k)) = k
    BY <1>1, SubSeqProperties
  <2>3. P[k] \in FCOName
    <3>1. CASE k = Len(n)
      BY <1>2, <3>1
    <3>2. CASE k # Len(n)
      <4>1. k \in 1 .. Len(n) - 1
        BY <1>2, <3>2
      <4> QED
        BY <2>1, <4>1, NamesArePaths DEF Parents
    <3> QED
      BY <3>1, <3>2
  <2> QED
    BY <2>1, <2>2, <2>3
<1>4. ASSUME NEW k \in 1 .. Len(n)
      PROVE  AtOrBelow(n, P[k])
  <2>1. Len(P[k]) <= Len(n) /\ P[k] = SubSeq(n, 1, Len(P[k]))
    BY <1>1, <1>3
  <2> QED
    BY <1>3, <2>1, NamePrefixes
<1>5. ASSUME NEW j \in 1 .. Len(n), NEW k \in 1 .. Len(n), j < k
      PROVE  Below(P[k], P[j])
  <2>1. AtOrBelow(P[k], P[j]) \/ AtOrBelow(P[j], P[k])
    BY <1>3, <1>4, NamesLieOnWays
  <2>2. AtOrBelow(P[j], P[k]) => Len(P[k]) <= Len(P[j])
    BY <1>3, NamesLieOnWays
  <2>3. Len(P[k]) = k /\ Len(P[j]) = j /\ k \in Nat /\ j \in Nat
    BY <1>3
  <2>4. AtOrBelow(P[k], P[j]) /\ P[k] # P[j]
    BY <1>5, <2>1, <2>2, <2>3
  <2> QED
    BY <1>3, <2>4, NamesLieOnWays
<1>6. ASSUME NEW m \in FCOName, AtOrBelow(n, m)
      PROVE  Len(m) \in 1 .. Len(n) /\ m = P[Len(m)]
  <2>1. Len(m) \in Nat \ {0} /\ Len(m) <= Len(n) /\ m = SubSeq(n, 1, Len(m))
    BY <1>6, NamesLieOnWays, NamePrefixes
  <2> QED
    BY <1>1, <2>1
<1> QED
  BY <1>1, <1>2, <1>3, <1>4, <1>5, <1>6 DEF IsPath

\* With an entry on the path that goes, all that is below it goes.
GoTogether(db, n, gone, P) ==
  \A k \in 1 .. Len(n) : gone[k] =>
    \A m \in Entries(db) : AtOrBelow(m, P[k]) => \E j \in k .. Len(n) : m = P[j] /\ gone[j]

LEMMA GoneIs ==
  ASSUME NEW db \in DatabaseType, Tidy(db), NEW n \in DOMAIN db.tree, n \in FCOName,
         NEW gone, IsGone(db, n, gone),
         NEW P, P = [k \in 1 .. Len(n) |-> SubSeq(n, 1, k)]
  PROVE  GoTogether(db, n, gone, P)
<1> DEFINE Goes(k) == gone[k] => \A m \in Entries(db) : AtOrBelow(m, P[k]) =>
                                   \E j \in k .. Len(n) : m = P[j] /\ gone[j]
           C == {i \in Nat : i < Len(n) => Goes(Len(n) - i)}
<1>0. Len(n) \in Nat /\ Len(n) \in 1 .. Len(n)
  <2>1. IsPath(n, P)
    BY PathParts
  <2>2. Len(n) \in Nat \ {0}
    BY <2>1 DEF IsPath
  <2> QED
    BY <2>2
<1>1. /\ P[Len(n)] = n
      /\ \A k \in 1 .. Len(n) : P[k] \in FCOName
  <2>1. IsPath(n, P)
    BY PathParts
  <2> QED
    BY <2>1 DEF IsPath
<1>2. /\ \A m \in Entries(db) : m \in FCOName
      /\ n \in db.dirs <=> \E m \in Entries(db) : Below(m, n)
  BY TidyIs, TidyEntries
<1>3. Goes(Len(n))
  <2>1. ASSUME gone[Len(n)], NEW m \in Entries(db), AtOrBelow(m, n)
        PROVE  m = n
    <3>1. n \notin db.dirs
      BY <1>0, <2>1 DEF IsGone
    <3> QED
      BY <1>2, <2>1, <3>1, NamesLieOnWays
  <2>2. Len(n) \in Len(n) .. Len(n)
    BY <1>0
  <2> QED
    BY <1>0, <1>1, <2>1, <2>2
<1>4. ASSUME NEW k \in 1 .. Len(n) - 1, Goes(k + 1)
      PROVE  Goes(k)
  <2> SUFFICES ASSUME gone[k], NEW m \in Entries(db), AtOrBelow(m, P[k])
               PROVE  \E j \in k .. Len(n) : m = P[j] /\ gone[j]
    OBVIOUS
  <2>1. k \in 1 .. Len(n) /\ k # Len(n) /\ k + 1 \in 1 .. Len(n)
    BY <1>0
  <2>2. gone[k + 1] /\ OnlyWay(db, n, k)
    BY <2>1 DEF IsGone
  <2>3. CASE m = P[k]
    BY <2>1, <2>3
  <2>4. CASE m # P[k]
    <3>1. Below(m, P[k])
      BY <1>1, <1>2, <2>1, <2>4, NamesLieOnWays
    <3>2. AtOrBelow(m, P[k + 1])
      BY <2>1, <2>2, <3>1 DEF OnlyWay
    <3>3. PICK j \in k + 1 .. Len(n) : m = P[j] /\ gone[j]
      BY <1>4, <2>2, <3>2
    <3>4. j \in k .. Len(n)
      BY <1>0
    <3> QED
      BY <3>3, <3>4
  <2> QED
    BY <2>3, <2>4
<1> HIDE DEF Goes
<1>5. 0 \in C
  <2>1. Len(n) - 0 = Len(n)
    BY <1>0
  <2> QED
    BY <1>3, <2>1
<1>6. ASSUME NEW i \in C
      PROVE  i + 1 \in C
  <2>1. CASE i + 1 < Len(n)
    <3>1. PICK k : k = Len(n) - (i + 1)
      OBVIOUS
    <3>2. k \in 1 .. Len(n) - 1 /\ k + 1 = Len(n) - i /\ i < Len(n)
      BY <1>0, <2>1, <3>1
    <3>3. Goes(k)
      BY <1>4, <3>2
    <3> QED
      BY <3>1, <3>3
  <2> QED
    BY <2>1
<1>7. Nat \subseteq C
  <2> HIDE DEF C
  <2> QED
    BY <1>5, <1>6, NatSetInduction
<1>8. ASSUME NEW k \in 1 .. Len(n)
      PROVE  Goes(k)
  <2>1. PICK i : i = Len(n) - k
    OBVIOUS
  <2>2. i \in Nat /\ i < Len(n) /\ k = Len(n) - i
    BY <1>0, <2>1
  <2>3. i \in C
    BY <1>7, <2>2
  <2> QED
    BY <2>2, <2>3
<1> QED
  BY <1>8 DEF Goes, GoTogether

\* Below an entry on the path that stays without data there is another object.
LEMMA StaysFor ==
  ASSUME NEW db \in DatabaseType, Tidy(db), NEW n \in DOMAIN db.tree, n \in FCOName,
         NEW gone, IsGone(db, n, gone),
         NEW P, P = [k \in 1 .. Len(n) |-> SubSeq(n, 1, k)]
  PROVE  \A k \in 1 .. Len(n) : ~gone[k] /\ (k = Len(n) \/ P[k] \in db.ways) =>
           \E t \in DOMAIN db.tree \ {n} : Below(t, P[k])
<1> DEFINE Stays(k) == ~gone[k] /\ (k = Len(n) \/ P[k] \in db.ways) =>
                         \E t \in DOMAIN db.tree \ {n} : Below(t, P[k])
           C == {i \in Nat : i < Len(n) => Stays(Len(n) - i)}
<1>0. Len(n) \in Nat /\ Len(n) \in 1 .. Len(n)
  <2>1. IsPath(n, P)
    BY PathParts
  <2>2. Len(n) \in Nat \ {0}
    BY <2>1 DEF IsPath
  <2> QED
    BY <2>2
<1>1. /\ P[Len(n)] = n
      /\ \A k \in 1 .. Len(n) : P[k] \in FCOName /\ Len(P[k]) = k
      /\ \A j, k \in 1 .. Len(n) : j < k => Below(P[k], P[j])
      /\ \A m \in FCOName : AtOrBelow(n, m) => Len(m) \in 1 .. Len(n) /\ m = P[Len(m)]
  <2>1. IsPath(n, P)
    BY PathParts
  <2> QED
    BY <2>1 DEF IsPath
<1>2. /\ \A m \in Entries(db) : m \in FCOName /\ \E t \in DOMAIN db.tree : AtOrBelow(t, m)
      /\ \A m \in Entries(db), k \in FCOName : Below(m, k) => k \in Entries(db)
      /\ n \in db.dirs <=> \E m \in Entries(db) : Below(m, n)
      /\ DOMAIN db.tree \subseteq Entries(db)
  BY TidyIs, TidyEntries DEF Entries
<1>3. Stays(Len(n))
  <2> SUFFICES ASSUME ~gone[Len(n)]
               PROVE  \E t \in DOMAIN db.tree \ {n} : Below(t, n)
    BY <1>1
  <2>1. n \in db.dirs
    BY <1>0 DEF IsGone
  <2>2. PICK m \in Entries(db) : Below(m, n)
    BY <1>2, <2>1
  <2>3. PICK t \in DOMAIN db.tree : AtOrBelow(t, m)
    BY <1>2
  <2>4. t \in FCOName /\ m \in FCOName
    BY <1>2
  <2>5. AtOrBelow(m, n) /\ m # n
    BY <2>2, <2>4, NamesLieOnWays
  <2>6. AtOrBelow(t, n) /\ t # n
    BY <2>3, <2>4, <2>5, NamesLieOnWays
  <2>7. Below(t, n)
    BY <2>4, <2>6, NamesLieOnWays
  <2> QED
    BY <2>6, <2>7
<1>4. ASSUME NEW k \in 1 .. Len(n) - 1, Stays(k + 1)
      PROVE  Stays(k)
  <2>0. k # Len(n)
    BY <1>0
  <2> SUFFICES ASSUME ~gone[k], P[k] \in db.ways
               PROVE  \E t \in DOMAIN db.tree \ {n} : Below(t, P[k])
    BY <2>0
  <2>1. k \in 1 .. Len(n) /\ k # Len(n) /\ k + 1 \in 1 .. Len(n) /\ k < k + 1
    BY <1>0
  <2>2. ~gone[k + 1] \/ ~OnlyWay(db, n, k)
    BY <2>1 DEF IsGone
  <2>3. P[k] \in FCOName /\ P[k + 1] \in FCOName /\ Below(P[k + 1], P[k])
    BY <1>0, <1>1, <2>1
  <2>4. CASE ~OnlyWay(db, n, k)
    <3>1. PICK m \in Entries(db) : Below(m, P[k]) /\ ~AtOrBelow(m, P[k + 1])
      BY <2>1, <2>4 DEF OnlyWay
    <3>2. PICK t \in DOMAIN db.tree : AtOrBelow(t, m)
      BY <1>2
    <3>3. t \in FCOName /\ m \in FCOName
      BY <1>2
    <3>4. Below(t, P[k])
      BY <2>3, <3>1, <3>2, <3>3, NamesLieOnWays
    <3>5. ASSUME t = n
          PROVE  FALSE
      <4>1. PICK l : l = Len(m)
        OBVIOUS
      <4>2. l \in 1 .. Len(n) /\ m = P[l]
        BY <1>1, <3>2, <3>3, <3>5, <4>1
      <4>3. k < l
        <5>1. Len(P[k]) < Len(m)
          BY <2>3, <3>1, <3>3, NamesLieOnWays
        <5> QED
          BY <1>1, <2>1, <4>1, <5>1
      <4>4. AtOrBelow(m, P[k + 1])
        <5>1. CASE l = k + 1
          BY <3>3, <4>2, <5>1, NamesLieOnWays
        <5>2. CASE k + 1 < l
          <6>1. Below(P[l], P[k + 1])
            BY <1>1, <2>1, <4>2, <5>2
          <6> QED
            BY <2>3, <3>3, <4>2, <6>1, NamesLieOnWays
        <5> QED
          BY <1>0, <2>1, <4>2, <4>3, <5>1, <5>2
      <4> QED
        BY <3>1, <4>4
    <3> QED
      BY <3>4, <3>5
  <2>5. CASE ~gone[k + 1]
    <3>1. CASE k + 1 = Len(n) \/ P[k + 1] \in db.ways
      <4>1. PICK t \in DOMAIN db.tree \ {n} : Below(t, P[k + 1])
        BY <1>4, <2>5, <3>1
      <4>2. t \in FCOName
        BY <1>2
      <4>3. Below(t, P[k])
        BY <2>3, <4>1, <4>2, NamesLieOnWays
      <4> QED
        BY <4>3
    <3>2. CASE k + 1 # Len(n) /\ P[k + 1] \notin db.ways
      <4>1. k + 1 < Len(n)
        BY <1>0, <3>2
      <4>2. Below(n, P[k + 1])
        <5>1. Below(P[Len(n)], P[k + 1])
          BY <1>0, <1>1, <2>1, <4>1
        <5> QED
          BY <1>1, <5>1
      <4>3. P[k + 1] \in Entries(db)
        <5>1. n \in Entries(db)
          BY <1>2
        <5>2. \A m \in FCOName : Below(n, m) => m \in Entries(db)
          BY <5>1, TidyEntries
        <5> QED
          BY <2>3, <4>2, <5>2
      <4>4. P[k + 1] # n
        <5>1. \A m \in FCOName : Below(n, m) => n # m
          BY NamesLieOnWays
        <5> QED
          BY <2>3, <4>2, <5>1
      <4>5. P[k + 1] \in DOMAIN db.tree \ {n}
        BY <3>2, <4>3, <4>4 DEF Entries
      <4> QED
        BY <2>3, <4>5
    <3> QED
      BY <3>1, <3>2
  <2> QED
    BY <2>2, <2>4, <2>5
<1> HIDE DEF Stays
<1>5. 0 \in C
  <2>1. Len(n) - 0 = Len(n)
    BY <1>0
  <2> QED
    BY <1>3, <2>1
<1>6. ASSUME NEW i \in C
      PROVE  i + 1 \in C
  <2>1. CASE i + 1 < Len(n)
    <3>1. PICK k : k = Len(n) - (i + 1)
      OBVIOUS
    <3>2. k \in 1 .. Len(n) - 1 /\ k + 1 = Len(n) - i /\ i < Len(n)
      BY <1>0, <2>1, <3>1
    <3>3. Stays(k)
      BY <1>4, <3>2
    <3> QED
      BY <3>1, <3>3
  <2> QED
    BY <2>1
<1>7. Nat \subseteq C
  <2> HIDE DEF C
  <2> QED
    BY <1>5, <1>6, NatSetInduction
<1>8. ASSUME NEW k \in 1 .. Len(n)
      PROVE  Stays(k)
  <2>1. PICK i : i = Len(n) - k
    OBVIOUS
  <2>2. i \in Nat /\ i < Len(n) /\ k = Len(n) - i
    BY <1>0, <2>1
  <2>3. i \in C
    BY <1>7, <2>2
  <2> QED
    BY <2>2, <2>3
<1> QED
  BY <1>8 DEF Stays

\* What a removal takes away, in terms of the path of the name.
IsWithout(db, n, gone, P, e) ==
  /\ DOMAIN e.tree = DOMAIN db.tree \ {n}
  /\ \A m : m \in e.ways <=> /\ m \in db.ways \cup {n}
                             /\ \A k \in 1 .. Len(n) : gone[k] => m # P[k]
  /\ \A m : m \in e.dirs <=> /\ m \in db.dirs
                             /\ \A k \in 1 .. Len(n) - 1 :
                                  gone[k + 1] /\ OnlyWay(db, n, k) => m # P[k]
  /\ \A m : m \in Entries(e) <=> /\ m \in Entries(db)
                                 /\ \A k \in 1 .. Len(n) : gone[k] => m # P[k]

\* That is what Without leaves.
LEMMA WithoutIs ==
  ASSUME NEW db \in DatabaseType, NEW n \in DOMAIN db.tree, n \in FCOName,
         NEW gone, IsGone(db, n, gone),
         NEW P, P = [k \in 1 .. Len(n) |-> SubSeq(n, 1, k)],
         NEW e, e = Without(db, n, gone)
  PROVE  IsWithout(db, n, gone, P, e)
<1>1. Len(n) \in Nat \ {0} /\ P[Len(n)] = n
  <2>1. IsPath(n, P)
    BY PathParts
  <2> QED
    BY <2>1 DEF IsPath
<1>2. \A k \in 1 .. Len(n) - 1 : k \in 1 .. Len(n)
  BY <1>1
<1>3. DOMAIN e.tree = DOMAIN db.tree \ {n}
  BY DEF Without, Restrict
<1>4. \A m : m \in e.ways <=> /\ m \in db.ways \cup {n}
                              /\ \A k \in 1 .. Len(n) : gone[k] => m # P[k]
  BY DEF Without
<1>5. \A m : m \in e.dirs <=> /\ m \in db.dirs
                              /\ \A k \in 1 .. Len(n) - 1 :
                                   gone[k + 1] /\ OnlyWay(db, n, k) => m # P[k]
  BY <1>2 DEF Without
<1>6. \A k \in 1 .. Len(n) : gone[k] => P[k] \in db.ways \cup {n}
  BY <1>1 DEF IsGone
<1>7. db.ways \cap DOMAIN db.tree = {}
  BY DEF DatabaseType
<1>8. \A m : m \in Entries(e) <=> /\ m \in Entries(db)
                                  /\ \A k \in 1 .. Len(n) : gone[k] => m # P[k]
  <2> SUFFICES ASSUME NEW m
               PROVE  m \in Entries(e) <=> /\ m \in Entries(db)
                                           /\ \A k \in 1 .. Len(n) : gone[k] => m # P[k]
    OBVIOUS
  <2>1. m \in Entries(e) <=> m \in DOMAIN db.tree \ {n} \/ m \in e.ways
    BY <1>3 DEF Entries
  <2>2. m \in Entries(db) <=> m \in DOMAIN db.tree \ {n} \/ m \in db.ways \cup {n}
    BY DEF Entries
  <2>3. m \in DOMAIN db.tree \ {n} => \A k \in 1 .. Len(n) : gone[k] => m # P[k]
    BY <1>6, <1>7
  <2> QED
    BY <1>4, <2>1, <2>2, <2>3
<1> QED
  BY <1>3, <1>4, <1>5, <1>8 DEF IsWithout

\* A removal leaves no dead ends and no child arrays but those there is
\* something below.
LEMMA RemoveTidy ==
  ASSUME NEW db \in DatabaseType, Tidy(db), NEW n \in DOMAIN db.tree
  PROVE  Tidy(RemoveFCOFromDb(db, n))
<1>1. n \in FCOName
  BY Trees DEF DatabaseType
<1>2. PICK gone : IsGone(db, n, gone) /\ RemoveFCOFromDb(db, n) = Without(db, n, gone)
  BY <1>1, RemoveFCOIs
<1>3. PICK P, e : P = [k \in 1 .. Len(n) |-> SubSeq(n, 1, k)] /\ e = Without(db, n, gone)
  OBVIOUS
<1>4. e \in DatabaseType
  BY <1>1, <1>2, <1>3, RemoveFCOEffect
<1>5. /\ DOMAIN e.tree = DOMAIN db.tree \ {n}
      /\ \A m : m \in e.ways <=> /\ m \in db.ways \cup {n}
                                 /\ \A k \in 1 .. Len(n) : gone[k] => m # P[k]
      /\ \A m : m \in e.dirs <=> /\ m \in db.dirs
                                 /\ \A k \in 1 .. Len(n) - 1 :
                                      gone[k + 1] /\ OnlyWay(db, n, k) => m # P[k]
      /\ \A m : m \in Entries(e) <=> /\ m \in Entries(db)
                                     /\ \A k \in 1 .. Len(n) : gone[k] => m # P[k]
  <2>1. IsWithout(db, n, gone, P, e)
    BY <1>1, <1>2, <1>3, WithoutIs
  <2> QED
    BY <2>1 DEF IsWithout
<1>6. IsPath(n, P)
  BY <1>1, <1>3, PathParts
<1>7. /\ Len(n) \in Nat \ {0} /\ P[Len(n)] = n
      /\ \A k \in 1 .. Len(n) : P[k] \in FCOName /\ Len(P[k]) = k /\ AtOrBelow(n, P[k])
  BY <1>6 DEF IsPath
<1>8. \A j, k \in 1 .. Len(n) : j < k => Below(P[k], P[j])
  BY <1>6 DEF IsPath
<1>9. \A m \in FCOName : AtOrBelow(n, m) => Len(m) \in 1 .. Len(n) /\ m = P[Len(m)]
  BY <1>6 DEF IsPath
<1>10. \A k \in 1 .. Len(n) : gone[k] =>
         \A m \in Entries(db) : AtOrBelow(m, P[k]) => \E j \in k .. Len(n) : m = P[j] /\ gone[j]
  <2>1. GoTogether(db, n, gone, P)
    BY <1>1, <1>2, <1>3, GoneIs
  <2> QED
    BY <2>1 DEF GoTogether
<1>11. \A k \in 1 .. Len(n) : ~gone[k] /\ (k = Len(n) \/ P[k] \in db.ways) =>
         \E t \in DOMAIN db.tree \ {n} : Below(t, P[k])
  BY <1>1, <1>2, <1>3, StaysFor
<1>12. /\ \A m \in db.ways : m \in FCOName /\ \E t \in DOMAIN db.tree : Below(t, m)
       /\ \A m \in FCOName : m \in db.dirs <=> \E x \in Entries(db) : Below(x, m)
       /\ \A x \in Entries(db) : x \in FCOName
       /\ \A x \in Entries(db), m \in FCOName : Below(x, m) => m \in Entries(db)
  BY TidyIs, TidyEntries DEF Entries
<1>13. ASSUME NEW m \in e.ways
       PROVE  \E t \in DOMAIN e.tree : Below(t, m)
  <2>1. m \in db.ways \cup {n} /\ \A k \in 1 .. Len(n) : gone[k] => m # P[k]
    BY <1>5
  <2>2. CASE m = n
    <3>1. Len(n) \in 1 .. Len(n)
      BY <1>7
    <3>2. ~gone[Len(n)]
      BY <1>7, <2>1, <2>2, <3>1
    <3> QED
      BY <1>5, <1>7, <1>11, <2>2, <3>1, <3>2
  <2>3. CASE m \in db.ways
    <3>1. PICK t \in DOMAIN db.tree : Below(t, m)
      BY <1>12, <2>3
    <3>2. CASE t # n
      BY <1>5, <3>1, <3>2
    <3>3. CASE t = n
      <4>1. AtOrBelow(n, m)
        BY <1>1, <1>12, <2>3, <3>1, <3>3, NamesLieOnWays
      <4>2. PICK k \in 1 .. Len(n) : m = P[k]
        BY <1>9, <1>12, <2>3, <4>1
      <4>3. ~gone[k]
        BY <2>1, <4>2
      <4> QED
        BY <1>5, <1>11, <2>3, <4>2, <4>3
    <3> QED
      BY <3>2, <3>3
  <2> QED
    BY <2>1, <2>2, <2>3
<1>14. ASSUME NEW m \in FCOName, NEW x \in Entries(e), Below(x, m)
       PROVE  m \in e.dirs
  <2>1. x \in Entries(db) /\ \A k \in 1 .. Len(n) : gone[k] => x # P[k]
    BY <1>5
  <2>2. m \in db.dirs
    BY <1>12, <1>14, <2>1
  <2>3. ASSUME NEW k \in 1 .. Len(n) - 1, gone[k + 1], OnlyWay(db, n, k), m = P[k]
        PROVE  FALSE
    <3>1. k \in 1 .. Len(n) /\ k + 1 \in 1 .. Len(n)
      BY <1>7
    <3>2. AtOrBelow(x, P[k + 1])
      BY <1>3, <1>14, <2>1, <2>3, <3>1 DEF OnlyWay
    <3>3. PICK j \in k + 1 .. Len(n) : x = P[j] /\ gone[j]
      BY <1>10, <2>1, <2>3, <3>1, <3>2
    <3>4. j \in 1 .. Len(n)
      BY <1>7, <3>1
    <3> QED
      BY <2>1, <3>3, <3>4
  <2> QED
    BY <1>5, <2>2, <2>3
<1>15. ASSUME NEW m \in e.dirs
       PROVE  \E x \in Entries(e) : Below(x, m)
  <2> SUFFICES ASSUME \A x \in Entries(e) : ~Below(x, m)
               PROVE  FALSE
    OBVIOUS
  <2>1. m \in db.dirs /\ m \in FCOName
    BY <1>5 DEF DatabaseType
  <2>2. \A x \in Entries(db) : Below(x, m) => \E j \in 1 .. Len(n) : gone[j] /\ x = P[j]
    BY <1>5
  <2>3. PICK x \in Entries(db) : Below(x, m)
    BY <1>12, <2>1
  <2>4. PICK l \in 1 .. Len(n) : gone[l] /\ x = P[l]
    BY <2>2, <2>3
  <2>5. PICK k \in 1 .. Len(n) : m = P[k]
    <3>1. AtOrBelow(n, m)
      BY <1>1, <1>7, <2>1, <2>3, <2>4, NamesLieOnWays
    <3> QED
      BY <1>9, <2>1, <3>1
  <2>6. ASSUME NEW j \in 1 .. Len(n), Below(P[j], m)
        PROVE  k < j
    <3>1. Len(m) < Len(P[j])
      BY <1>7, <2>1, <2>6, NamesLieOnWays
    <3> QED
      BY <1>7, <2>5, <3>1
  <2>7. k < l
    BY <2>3, <2>4, <2>6
  <2>8. k \in 1 .. Len(n) - 1 /\ k + 1 \in 1 .. Len(n) /\ k < k + 1 /\ (l = k + 1 \/ k + 1 < l)
    BY <1>7, <2>7
  <2>9. Below(P[k + 1], m)
    BY <1>8, <2>5, <2>8
  <2>10. P[k + 1] \in Entries(db)
    <3>1. CASE l = k + 1
      BY <2>4, <3>1
    <3>2. CASE k + 1 < l
      <4>1. Below(P[l], P[k + 1])
        BY <1>8, <2>8, <3>2
      <4> QED
        BY <1>7, <1>12, <2>4, <2>8, <4>1
    <3> QED
      BY <2>8, <3>1, <3>2
  <2>11. gone[k + 1]
    <3>1. PICK j \in 1 .. Len(n) : gone[j] /\ P[k + 1] = P[j]
      BY <2>2, <2>9, <2>10
    <3>2. j = k + 1
      BY <1>7, <2>8, <3>1
    <3> QED
      BY <3>1, <3>2
  <2>12. ASSUME NEW y \in Entries(db), Below(y, P[k])
         PROVE  AtOrBelow(y, P[k + 1])
    <3>1. PICK j \in 1 .. Len(n) : gone[j] /\ y = P[j]
      BY <2>2, <2>5, <2>12
    <3>2. k < j
      BY <2>5, <2>6, <2>12, <3>1
    <3>3. j = k + 1 \/ k + 1 < j
      BY <3>2
    <3>4. CASE j = k + 1
      BY <1>7, <2>8, <3>1, <3>4, NamesLieOnWays
    <3>5. CASE k + 1 < j
      <4>1. Below(P[j], P[k + 1])
        BY <1>8, <2>8, <3>5
      <4> QED
        BY <1>7, <2>8, <3>1, <4>1, NamesLieOnWays
    <3> QED
      BY <3>3, <3>4, <3>5
  <2>13. OnlyWay(db, n, k)
    BY <1>3, <2>8, <2>12 DEF OnlyWay
  <2> QED
    BY <1>5, <2>5, <2>8, <2>11, <2>13
<1>16. Tidy(e)
  BY <1>4, <1>13, <1>14, <1>15, TidyIs
<1> QED
  BY <1>2, <1>3, <1>16

-----------------------------------------------------------------------------
(* The database update                                                     *)

\* What an update does for one verdict, and what the object is then.
Step(db, replace, v, d) ==
  CASE v.kind = "added"   -> SetFCOData(CreatePath(d, v.name), v.name,
                                        Stored(v, db.tree, replace))
    [] v.kind = "removed" -> RemoveFCOFromDb(d, v.name)
    [] v.kind = "changed" -> SetFCOData(d, v.name, Stored(v, db.tree, replace))

Outcome(db, replace, v) ==
  IF v.kind = "removed" THEN {} ELSE {Stored(v, db.tree, replace)}

\* What is stored for a verdict that fits is an object.
LEMMA StoredIsObject ==
  ASSUME NEW db \in DatabaseType, NEW replace, NEW v \in VerdictType, ~Conflict(db.tree, v)
  PROVE  v.kind # "removed" => Stored(v, db.tree, replace) \in StoredObject
<1>1. v.name \in FCOName /\ v.new \in StoredObject
  BY DEF VerdictType
<1>2. db.tree \in Tree
  BY DEF DatabaseType
<1>3. CASE v.kind = "changed" /\ ~replace
  <2>1. v.name \in DOMAIN db.tree
    BY <1>3 DEF Conflict
  <2>2. db.tree[v.name] \in StoredObject
    BY <1>2, <2>1, Trees
  <2> QED
    BY <1>1, <1>3, <2>2, StoredParts DEF Stored
<1>4. CASE ~(v.kind = "changed" /\ ~replace)
  BY <1>1, <1>4 DEF Stored
<1> QED
  BY <1>3, <1>4

\* A step concerns the object of its verdict and no other.
LEMMA StepEffect ==
  ASSUME NEW db \in DatabaseType, NEW replace, NEW v \in VerdictType,
         ~Conflict(db.tree, v), NEW d \in DatabaseType
  PROVE  /\ Step(db, replace, v, d) \in DatabaseType
         /\ At(Step(db, replace, v, d).tree, v.name) = Outcome(db, replace, v)
         /\ \A m \in FCOName \ {v.name} :
              At(Step(db, replace, v, d).tree, m) = At(d.tree, m)
<1>1. /\ v.name \in FCOName /\ v.new \in StoredObject
      /\ v.kind \in {"added", "removed", "changed"}
  BY DEF VerdictType
<1>3. v.kind # "removed" => Stored(v, db.tree, replace) \in StoredObject
  BY StoredIsObject
<1>4. CASE v.kind = "added"
  <2>1. Step(db, replace, v, d) =
          SetFCOData(CreatePath(d, v.name), v.name, Stored(v, db.tree, replace))
    BY <1>4 DEF Step
  <2>2. PICK o : o = Stored(v, db.tree, replace)
    OBVIOUS
  <2>3. o \in StoredObject
    BY <1>3, <1>4, <2>2
  <2>4. /\ Step(db, replace, v, d) = SetFCOData(CreatePath(d, v.name), v.name, o)
        /\ Outcome(db, replace, v) = {o}
    BY <1>4, <2>1, <2>2 DEF Outcome
  <2>5. /\ SetFCOData(CreatePath(d, v.name), v.name, o) \in DatabaseType
        /\ At(SetFCOData(CreatePath(d, v.name), v.name, o).tree, v.name) = {o}
        /\ \A m \in FCOName \ {v.name} :
             At(SetFCOData(CreatePath(d, v.name), v.name, o).tree, m) = At(d.tree, m)
    BY ZenonT(30), <1>1, <2>3, AddedEffect
  <2> QED
    BY <2>4, <2>5
<1>5. CASE v.kind = "removed"
  <2>1. Step(db, replace, v, d) = RemoveFCOFromDb(d, v.name)
    BY <1>5 DEF Step
  <2>2. Outcome(db, replace, v) = {}
    BY <1>5 DEF Outcome
  <2>3. /\ RemoveFCOFromDb(d, v.name) \in DatabaseType
        /\ At(RemoveFCOFromDb(d, v.name).tree, v.name) = {}
        /\ \A m \in FCOName \ {v.name} : At(RemoveFCOFromDb(d, v.name).tree, m) = At(d.tree, m)
    BY <1>1, RemoveFCOEffect
  <2> QED
    BY <2>1, <2>2, <2>3
<1>6. CASE v.kind = "changed"
  <2>1. Step(db, replace, v, d) = SetFCOData(d, v.name, Stored(v, db.tree, replace))
    BY <1>6 DEF Step
  <2>2. PICK o : o = Stored(v, db.tree, replace)
    OBVIOUS
  <2>3. o \in StoredObject
    BY <1>3, <1>6, <2>2
  <2>4. Step(db, replace, v, d) = SetFCOData(d, v.name, o) /\ Outcome(db, replace, v) = {o}
    BY <1>6, <2>1, <2>2 DEF Outcome
  <2>5. /\ SetFCOData(d, v.name, o) \in DatabaseType
        /\ At(SetFCOData(d, v.name, o).tree, v.name) = {o}
        /\ \A m \in FCOName \ {v.name} : At(SetFCOData(d, v.name, o).tree, m) = At(d.tree, m)
    <3>1. d \in DatabaseType /\ v.name \in FCOName
      BY <1>1
    <3>2. PICK n \in FCOName : n = v.name
      BY <3>1
    <3>3. /\ SetFCOData(d, n, o) \in DatabaseType
          /\ At(SetFCOData(d, n, o).tree, n) = {o}
          /\ \A m \in FCOName \ {n} : At(SetFCOData(d, n, o).tree, m) = At(d.tree, m)
      BY <2>3, <3>1, SetFCODataEffect
    <3> QED
      BY <3>2, <3>3
  <2> QED
    BY <2>4, <2>5
<1> QED
  BY <1>1, <1>4, <1>5, <1>6

\* Nor does it leave a dead end, where the object is as the report has it.
LEMMA StepTidy ==
  ASSUME NEW db \in DatabaseType, NEW replace, NEW v \in VerdictType,
         ~Conflict(db.tree, v), NEW d \in DatabaseType, Tidy(d),
         At(d.tree, v.name) = At(db.tree, v.name)
  PROVE  Tidy(Step(db, replace, v, d))
<1>1. v.name \in FCOName /\ v.kind \in {"added", "removed", "changed"}
  BY DEF VerdictType
<1>2. v.kind # "added" => v.name \in DOMAIN db.tree
  BY <1>1 DEF Conflict
<1>3. v.name \in DOMAIN db.tree => v.name \in DOMAIN d.tree
  BY DEF At
<1>4. PICK n, o : n = v.name /\ o = Stored(v, db.tree, replace)
  OBVIOUS
<1>5. v.kind # "removed" => o \in StoredObject
  BY <1>4, StoredIsObject
<1>6. CASE v.kind = "added"
  <2>1. Tidy(SetFCOData(CreatePath(d, n), n, o))
    BY <1>1, <1>4, <1>5, <1>6, AddTidy
  <2> QED
    BY <1>4, <1>6, <2>1 DEF Step
<1>7. CASE v.kind = "removed"
  <2>1. n \in DOMAIN d.tree
    BY <1>2, <1>3, <1>4, <1>7
  <2>2. Tidy(RemoveFCOFromDb(d, n))
    BY <2>1, RemoveTidy
  <2> QED
    BY <1>4, <1>7, <2>2 DEF Step
<1>8. CASE v.kind = "changed"
  <2>1. n \in Entries(d)
    BY <1>2, <1>3, <1>4, <1>8 DEF Entries
  <2>2. Tidy(SetFCOData(d, n, o))
    BY <1>5, <1>8, <2>1, StoreTidy
  <2> QED
    BY <1>4, <1>8, <2>2 DEF Step
<1> QED
  BY <1>1, <1>6, <1>7, <1>8

\* f is what following one verdict after the other comes to.
IsStepFold(f, db, replace, base, S) ==
  f = [s \in SUBSET S |-> IF s = {} THEN base ELSE
         LET x == CHOOSE y \in s : TRUE IN Step(db, replace, x, f[s \ {x}])]

\* d is base but for the verdicts of s, which have been followed; no dead end
\* was left.
Followed(db, replace, base, s, d) ==
  /\ d \in DatabaseType
  /\ \A v \in s : At(d.tree, v.name) = Outcome(db, replace, v)
  /\ \A n \in FCOName : (\A v \in s : v.name # n) => At(d.tree, n) = At(base.tree, n)
  /\ Tidy(base) /\ (\A v \in s : At(base.tree, v.name) = At(db.tree, v.name)) => Tidy(d)

\* Folding over verdicts on different objects follows them all.
LEMMA FoldFollows ==
  ASSUME NEW db \in DatabaseType, NEW replace, NEW base \in DatabaseType,
         NEW S \in SUBSET VerdictType, IsFiniteSet(S), OneEach(S),
         \A v \in S : ~Conflict(db.tree, v),
         NEW f, IsStepFold(f, db, replace, base, S)
  PROVE  Followed(db, replace, base, S, f[S])
<1> DEFINE C == {s \in SUBSET S : Followed(db, replace, base, s, f[s])}
<1>1. \A s \in SUBSET S : f[s] = IF s = {} THEN base ELSE
        LET x == CHOOSE y \in s : TRUE IN Step(db, replace, x, f[s \ {x}])
  BY DEF IsStepFold
<1>2. {} \in C
  BY <1>1 DEF Followed
<1>3. ASSUME NEW s \in SUBSET S, s # {}, \A x \in s : s \ {x} \in C
      PROVE  s \in C
  <2>1. PICK x \in s : f[s] = Step(db, replace, x, f[s \ {x}])
    BY <1>1, <1>3
  <2>2. Followed(db, replace, base, s \ {x}, f[s \ {x}])
    BY <1>3
  <2>3. f[s \ {x}] \in DatabaseType /\ x \in VerdictType /\ ~Conflict(db.tree, x)
    BY <2>2 DEF Followed
  <2>4. /\ f[s] \in DatabaseType
        /\ At(f[s].tree, x.name) = Outcome(db, replace, x)
        /\ \A m \in FCOName \ {x.name} : At(f[s].tree, m) = At(f[s \ {x}].tree, m)
    <3>1. PICK e : e = f[s \ {x}]
      OBVIOUS
    <3>2. e \in DatabaseType /\ x \in VerdictType /\ ~Conflict(db.tree, x)
      BY <2>3, <3>1
    <3>3. /\ Step(db, replace, x, e) \in DatabaseType
          /\ At(Step(db, replace, x, e).tree, x.name) = Outcome(db, replace, x)
          /\ \A m \in FCOName \ {x.name} :
               At(Step(db, replace, x, e).tree, m) = At(e.tree, m)
      BY <3>2, StepEffect
    <3> QED
      BY <2>1, <3>1, <3>3
  <2>5. ASSUME NEW v \in s
        PROVE  At(f[s].tree, v.name) = Outcome(db, replace, v)
    <3>1. CASE v = x
      BY <2>4, <3>1
    <3>2. CASE v # x
      <4>1. v.name # x.name /\ v.name \in FCOName
        BY <3>2 DEF OneEach, VerdictType
      <4>2. At(f[s \ {x}].tree, v.name) = Outcome(db, replace, v)
        BY <2>2, <3>2 DEF Followed
      <4> QED
        BY <2>4, <4>1, <4>2
    <3> QED
      BY <3>1, <3>2
  <2>6. ASSUME NEW n \in FCOName, \A v \in s : v.name # n
        PROVE  At(f[s].tree, n) = At(base.tree, n)
    <3>1. At(f[s \ {x}].tree, n) = At(base.tree, n)
      BY <2>2, <2>6 DEF Followed
    <3> QED
      BY <2>4, <2>6, <3>1
  <2>7. ASSUME Tidy(base), \A v \in s : At(base.tree, v.name) = At(db.tree, v.name)
        PROVE  Tidy(f[s])
    <3>1. PICK e : e = f[s \ {x}]
      OBVIOUS
    <3>2. e \in DatabaseType /\ Tidy(e)
      BY <2>2, <2>7, <3>1 DEF Followed
    <3>3. \A v \in s \ {x} : v.name # x.name
      BY DEF OneEach
    <3>4. x.name \in FCOName
      BY DEF VerdictType
    <3>5. At(e.tree, x.name) = At(base.tree, x.name)
      BY <2>2, <3>1, <3>3, <3>4 DEF Followed
    <3>6. Tidy(Step(db, replace, x, e))
      BY <2>3, <2>7, <3>2, <3>5, StepTidy
    <3> QED
      BY <2>1, <3>1, <3>6
  <2> QED
    BY <2>4, <2>5, <2>6, <2>7 DEF Followed
<1>4. S \in C
  <2> HIDE DEF C
  <2> QED
    BY <1>2, <1>3, FiniteSetInduction
<1> QED
  BY <1>4

\* What the steps of a fold come to exists.
LEMMA FoldExists ==
  ASSUME NEW db \in DatabaseType, NEW replace, NEW base \in DatabaseType,
         NEW S \in SUBSET VerdictType, IsFiniteSet(S),
         \A v \in S : ~Conflict(db.tree, v)
  PROVE  \E f : IsStepFold(f, db, replace, base, S)
<1>1. PICK T, step, pick :
        /\ T = DatabaseType
        /\ step = [v \in S |-> [d \in T |-> Step(db, replace, v, d)]]
        /\ pick = [s \in SUBSET S |-> CHOOSE y \in s : TRUE]
  OBVIOUS
<1>2. \A v \in S, d \in T : Step(db, replace, v, d) \in T
  BY <1>1, StepEffect
<1>3. step \in [S -> [T -> T]] /\ base \in T
  BY <1>1, <1>2
<1>4. \A s \in SUBSET S : s # {} => pick[s] \in s
  BY <1>1
<1>5. PICK f : IsFold(f, S, T, base, step, pick)
  BY <1>3, <1>4, FoldedFunction
<1>6. /\ f \in [SUBSET S -> T]
      /\ \A s \in SUBSET S : f[s] = IF s = {} THEN base
                                     ELSE step[pick[s]][f[s \ {pick[s]}]]
  BY <1>5 DEF IsFold
<1>7. ASSUME NEW s \in SUBSET S
      PROVE  f[s] = IF s = {} THEN base ELSE
                    LET x == CHOOSE y \in s : TRUE IN Step(db, replace, x, f[s \ {x}])
  <2>1. CASE s = {}
    BY <1>6, <2>1
  <2>2. CASE s # {}
    <3>1. pick[s] \in S /\ pick[s] = CHOOSE y \in s : TRUE
      BY <1>1, <1>4, <2>2
    <3>2. f[s \ {pick[s]}] \in T
      BY <1>6
    <3>3. step[pick[s]][f[s \ {pick[s]}]] = Step(db, replace, pick[s], f[s \ {pick[s]}])
      BY <1>1, <3>1, <3>2
    <3> QED
      BY <1>6, <2>2, <3>1, <3>3
  <2> QED
    BY <2>1, <2>2
<1>8. f = [s \in SUBSET S |-> IF s = {} THEN base ELSE
             LET x == CHOOSE y \in s : TRUE IN Step(db, replace, x, f[s \ {x}])]
  BY <1>6, <1>7
<1> QED
  BY <1>8 DEF IsStepFold

\* An update follows the verdicts that fit the database, and changes nothing
\* else.
LEMMA UpdateFollows ==
  ASSUME NEW db \in DatabaseType, NEW replace, NEW report \in SUBSET VerdictType,
         IsFiniteSet(report), OneEach(report)
  PROVE  Followed(db, replace, db, Fitting(db.tree, report), Updated(db, report, replace))
<1> DEFINE done(kind)   == {v \in Fitting(db.tree, report) : v.kind = kind}
           store(v, d)  == SetFCOData(d, v.name, Stored(v, db.tree, replace))
           add(v, d)    == store(v, CreatePath(d, v.name))
           remove(v, d) == RemoveFCOFromDb(d, v.name)
           f[s \in SUBSET done("added")] ==
             IF s = {} THEN db
             ELSE LET x == CHOOSE y \in s : TRUE IN add(x, f[s \ {x}])
           g[s \in SUBSET done("removed")] ==
             IF s = {} THEN f[done("added")]
             ELSE LET x == CHOOSE y \in s : TRUE IN remove(x, g[s \ {x}])
           h[s \in SUBSET done("changed")] ==
             IF s = {} THEN g[done("removed")]
             ELSE LET x == CHOOSE y \in s : TRUE IN store(x, h[s \ {x}])
<1>1. Updated(db, report, replace) = h[done("changed")]
  BY DEF Updated, FoldSet, MapThenFoldSet
<1>2. ASSUME NEW kind
      PROVE  /\ done(kind) \in SUBSET VerdictType
             /\ IsFiniteSet(done(kind))
             /\ OneEach(done(kind))
             /\ \A v \in done(kind) : ~Conflict(db.tree, v) /\ v.kind = kind
  <2>1. done(kind) \subseteq report
    BY DEF Fitting
  <2> QED
    BY <2>1, FS_Subset DEF Fitting, OneEach
<1> HIDE DEF done
<1>3. Followed(db, replace, db, done("added"), f[done("added")])
  <2>1. PICK S, b : S = done("added") /\ b = db
    OBVIOUS
  <2>2. /\ S \in SUBSET VerdictType /\ IsFiniteSet(S) /\ OneEach(S)
        /\ \A v \in S : ~Conflict(db.tree, v)
        /\ b \in DatabaseType
    BY <1>2, <2>1
  <2>3. \A x \in S : \A d : Step(db, replace, x, d) = add(x, d)
    BY <1>2, <2>1 DEF Step
  <2>4. PICK e : IsStepFold(e, db, replace, b, S)
    BY <2>2, FoldExists
  <2> HIDE DEF add
  <2>5. e = [s \in SUBSET S |-> IF s = {} THEN b ELSE
              LET x == CHOOSE y \in s : TRUE IN add(x, e[s \ {x}])]
    <3>1. ASSUME NEW s \in SUBSET S
          PROVE  e[s] = IF s = {} THEN b ELSE
                        LET x == CHOOSE y \in s : TRUE IN add(x, e[s \ {x}])
      <4>1. e[s] = IF s = {} THEN b ELSE
                   LET x == CHOOSE y \in s : TRUE IN Step(db, replace, x, e[s \ {x}])
        BY <2>4 DEF IsStepFold
      <4>2. s # {} => (CHOOSE y \in s : TRUE) \in S
        OBVIOUS
      <4> QED
        BY <2>3, <4>1, <4>2
    <3> QED
      BY <2>4, <3>1 DEF IsStepFold
  <2>6. e = [s \in SUBSET done("added") |-> IF s = {} THEN db ELSE
              LET x == CHOOSE y \in s : TRUE IN add(x, e[s \ {x}])]
    BY <2>1, <2>5
  <2>7. f = [s \in SUBSET done("added") |-> IF s = {} THEN db ELSE
              LET x == CHOOSE y \in s : TRUE IN add(x, f[s \ {x}])]
    BY <2>6
  <2> HIDE DEF f
  <2>8. f = [s \in SUBSET S |-> IF s = {} THEN b ELSE
              LET x == CHOOSE y \in s : TRUE IN add(x, f[s \ {x}])]
    BY <2>1, <2>7
  <2>9. ASSUME NEW s \in SUBSET S
        PROVE  f[s] = IF s = {} THEN b ELSE
                      LET x == CHOOSE y \in s : TRUE IN Step(db, replace, x, f[s \ {x}])
    <3>1. f[s] = IF s = {} THEN b ELSE
                 LET x == CHOOSE y \in s : TRUE IN add(x, f[s \ {x}])
      BY <2>8
    <3>2. s # {} => (CHOOSE y \in s : TRUE) \in S
      OBVIOUS
    <3> QED
      BY <2>3, <3>1, <3>2
  <2>10. IsStepFold(f, db, replace, b, S)
    BY <2>8, <2>9 DEF IsStepFold
  <2>11. Followed(db, replace, b, S, f[S])
    BY <2>2, <2>10, FoldFollows
  <2> QED
    BY <2>1, <2>11
<1> HIDE DEF f
<1>4. f[done("added")] \in DatabaseType
  BY <1>3 DEF Followed
<1>5. Followed(db, replace, f[done("added")], done("removed"), g[done("removed")])
  <2>1. PICK S, b : S = done("removed") /\ b = f[done("added")]
    OBVIOUS
  <2>2. /\ S \in SUBSET VerdictType /\ IsFiniteSet(S) /\ OneEach(S)
        /\ \A v \in S : ~Conflict(db.tree, v)
        /\ b \in DatabaseType
    BY <1>2, <1>4, <2>1
  <2>3. \A x \in S : \A d : Step(db, replace, x, d) = remove(x, d)
    BY <1>2, <2>1 DEF Step
  <2>4. PICK e : IsStepFold(e, db, replace, b, S)
    BY <2>2, FoldExists
  <2> HIDE DEF remove
  <2>5. e = [s \in SUBSET S |-> IF s = {} THEN b ELSE
              LET x == CHOOSE y \in s : TRUE IN remove(x, e[s \ {x}])]
    <3>1. ASSUME NEW s \in SUBSET S
          PROVE  e[s] = IF s = {} THEN b ELSE
                        LET x == CHOOSE y \in s : TRUE IN remove(x, e[s \ {x}])
      <4>1. e[s] = IF s = {} THEN b ELSE
                   LET x == CHOOSE y \in s : TRUE IN Step(db, replace, x, e[s \ {x}])
        BY <2>4 DEF IsStepFold
      <4>2. s # {} => (CHOOSE y \in s : TRUE) \in S
        OBVIOUS
      <4> QED
        BY <2>3, <4>1, <4>2
    <3> QED
      BY <2>4, <3>1 DEF IsStepFold
  <2>6. e = [s \in SUBSET done("removed") |-> IF s = {} THEN f[done("added")] ELSE
              LET x == CHOOSE y \in s : TRUE IN remove(x, e[s \ {x}])]
    BY <2>1, <2>5
  <2>7. g = [s \in SUBSET done("removed") |-> IF s = {} THEN f[done("added")] ELSE
              LET x == CHOOSE y \in s : TRUE IN remove(x, g[s \ {x}])]
    BY <2>6
  <2> HIDE DEF g
  <2>8. g = [s \in SUBSET S |-> IF s = {} THEN b ELSE
              LET x == CHOOSE y \in s : TRUE IN remove(x, g[s \ {x}])]
    BY <2>1, <2>7
  <2>9. ASSUME NEW s \in SUBSET S
        PROVE  g[s] = IF s = {} THEN b ELSE
                      LET x == CHOOSE y \in s : TRUE IN Step(db, replace, x, g[s \ {x}])
    <3>1. g[s] = IF s = {} THEN b ELSE
                 LET x == CHOOSE y \in s : TRUE IN remove(x, g[s \ {x}])
      BY <2>8
    <3>2. s # {} => (CHOOSE y \in s : TRUE) \in S
      OBVIOUS
    <3> QED
      BY <2>3, <3>1, <3>2
  <2>10. IsStepFold(g, db, replace, b, S)
    BY <2>8, <2>9 DEF IsStepFold
  <2>11. Followed(db, replace, b, S, g[S])
    BY <2>2, <2>10, FoldFollows
  <2> QED
    BY <2>1, <2>11
<1> HIDE DEF g
<1>6. g[done("removed")] \in DatabaseType
  BY <1>5 DEF Followed
<1>7. Followed(db, replace, g[done("removed")], done("changed"), h[done("changed")])
  <2>1. PICK S, b : S = done("changed") /\ b = g[done("removed")]
    OBVIOUS
  <2>2. /\ S \in SUBSET VerdictType /\ IsFiniteSet(S) /\ OneEach(S)
        /\ \A v \in S : ~Conflict(db.tree, v)
        /\ b \in DatabaseType
    BY <1>2, <1>6, <2>1
  <2>3. \A x \in S : \A d : Step(db, replace, x, d) = store(x, d)
    BY <1>2, <2>1 DEF Step
  <2>4. PICK e : IsStepFold(e, db, replace, b, S)
    BY <2>2, FoldExists
  <2> HIDE DEF store
  <2>5. e = [s \in SUBSET S |-> IF s = {} THEN b ELSE
              LET x == CHOOSE y \in s : TRUE IN store(x, e[s \ {x}])]
    <3>1. ASSUME NEW s \in SUBSET S
          PROVE  e[s] = IF s = {} THEN b ELSE
                        LET x == CHOOSE y \in s : TRUE IN store(x, e[s \ {x}])
      <4>1. e[s] = IF s = {} THEN b ELSE
                   LET x == CHOOSE y \in s : TRUE IN Step(db, replace, x, e[s \ {x}])
        BY <2>4 DEF IsStepFold
      <4>2. s # {} => (CHOOSE y \in s : TRUE) \in S
        OBVIOUS
      <4> QED
        BY <2>3, <4>1, <4>2
    <3> QED
      BY <2>4, <3>1 DEF IsStepFold
  <2>6. e = [s \in SUBSET done("changed") |-> IF s = {} THEN g[done("removed")] ELSE
              LET x == CHOOSE y \in s : TRUE IN store(x, e[s \ {x}])]
    BY <2>1, <2>5
  <2>7. h = [s \in SUBSET done("changed") |-> IF s = {} THEN g[done("removed")] ELSE
              LET x == CHOOSE y \in s : TRUE IN store(x, h[s \ {x}])]
    BY <2>6
  <2> HIDE DEF h
  <2>8. h = [s \in SUBSET S |-> IF s = {} THEN b ELSE
              LET x == CHOOSE y \in s : TRUE IN store(x, h[s \ {x}])]
    BY <2>1, <2>7
  <2>9. ASSUME NEW s \in SUBSET S
        PROVE  h[s] = IF s = {} THEN b ELSE
                      LET x == CHOOSE y \in s : TRUE IN Step(db, replace, x, h[s \ {x}])
    <3>1. h[s] = IF s = {} THEN b ELSE
                 LET x == CHOOSE y \in s : TRUE IN store(x, h[s \ {x}])
      BY <2>8
    <3>2. s # {} => (CHOOSE y \in s : TRUE) \in S
      OBVIOUS
    <3> QED
      BY <2>3, <3>1, <3>2
  <2>10. IsStepFold(h, db, replace, b, S)
    BY <2>8, <2>9 DEF IsStepFold
  <2>11. Followed(db, replace, b, S, h[S])
    BY <2>2, <2>10, FoldFollows
  <2> QED
    BY <2>1, <2>11
<1> HIDE DEF h
<1> DEFINE d1 == f[done("added")]
           d2 == g[done("removed")]
           d3 == h[done("changed")]
<1> HIDE DEF d1, d2, d3
<1>8. /\ Followed(db, replace, db, done("added"), d1)
      /\ Followed(db, replace, d1, done("removed"), d2)
      /\ Followed(db, replace, d2, done("changed"), d3)
  BY <1>3, <1>5, <1>7 DEF d1, d2, d3
<1>9. \A v \in Fitting(db.tree, report) :
        /\ v \in report /\ v.name \in FCOName /\ v.kind \in {"added", "removed", "changed"}
        /\ v \in done(v.kind)
  BY DEF Fitting, VerdictType, done
<1>10. \A kind : \A w \in done(kind) : w \in Fitting(db.tree, report) /\ w.kind = kind
  BY DEF done
<1>11. ASSUME NEW v \in Fitting(db.tree, report), NEW kind, kind # v.kind,
              NEW w \in done(kind)
       PROVE  w.name # v.name
  BY <1>9, <1>10, <1>11 DEF OneEach
<1>12. ASSUME NEW v \in Fitting(db.tree, report)
       PROVE  At(d3.tree, v.name) = Outcome(db, replace, v)
  <2>1. CASE v.kind = "added"
    <3>1. At(d1.tree, v.name) = Outcome(db, replace, v)
      BY <1>8, <1>9, <2>1 DEF Followed
    <3>2. At(d2.tree, v.name) = At(d1.tree, v.name)
      BY <1>8, <1>9, <1>11, <2>1 DEF Followed
    <3>3. At(d3.tree, v.name) = At(d2.tree, v.name)
      BY <1>8, <1>9, <1>11, <2>1 DEF Followed
    <3> QED
      BY <3>1, <3>2, <3>3
  <2>2. CASE v.kind = "removed"
    <3>1. At(d2.tree, v.name) = Outcome(db, replace, v)
      BY <1>8, <1>9, <2>2 DEF Followed
    <3>2. At(d3.tree, v.name) = At(d2.tree, v.name)
      BY <1>8, <1>9, <1>11, <2>2 DEF Followed
    <3> QED
      BY <3>1, <3>2
  <2>3. CASE v.kind = "changed"
    BY <1>8, <1>9, <2>3 DEF Followed
  <2> QED
    BY <1>9, <2>1, <2>2, <2>3
<1>13. ASSUME NEW n \in FCOName, \A v \in Fitting(db.tree, report) : v.name # n
       PROVE  At(d3.tree, n) = At(db.tree, n)
  <2>1. At(d1.tree, n) = At(db.tree, n)
    BY <1>8, <1>10, <1>13 DEF Followed
  <2>2. At(d2.tree, n) = At(d1.tree, n)
    BY <1>8, <1>10, <1>13 DEF Followed
  <2>3. At(d3.tree, n) = At(d2.tree, n)
    BY <1>8, <1>10, <1>13 DEF Followed
  <2> QED
    BY <2>1, <2>2, <2>3
<1>14. d3 \in DatabaseType
  BY <1>8 DEF Followed
<1>15. ASSUME Tidy(db)
       PROVE  Tidy(d3)
  <2>1. Tidy(d1)
    BY <1>8, <1>15 DEF Followed
  <2>2. \A v \in done("removed") : At(d1.tree, v.name) = At(db.tree, v.name)
    <3> SUFFICES ASSUME NEW v \in done("removed")
                 PROVE  At(d1.tree, v.name) = At(db.tree, v.name)
      OBVIOUS
    <3>1. v \in Fitting(db.tree, report) /\ v.kind = "removed"
      BY <1>10
    <3>2. v.name \in FCOName /\ \A w \in done("added") : w.name # v.name
      BY <1>9, <1>11, <3>1
    <3> QED
      BY <1>8, <3>2 DEF Followed
  <2>3. Tidy(d2)
    BY <1>8, <2>1, <2>2 DEF Followed
  <2>4. \A v \in done("changed") : At(d2.tree, v.name) = At(db.tree, v.name)
    <3> SUFFICES ASSUME NEW v \in done("changed")
                 PROVE  At(d2.tree, v.name) = At(db.tree, v.name)
      OBVIOUS
    <3>1. v \in Fitting(db.tree, report) /\ v.kind = "changed"
      BY <1>10
    <3>2. /\ v.name \in FCOName
          /\ \A w \in done("added") : w.name # v.name
          /\ \A w \in done("removed") : w.name # v.name
      BY <1>9, <1>11, <3>1
    <3>3. At(d1.tree, v.name) = At(db.tree, v.name)
      BY <1>8, <3>2 DEF Followed
    <3>4. At(d2.tree, v.name) = At(d1.tree, v.name)
      BY <1>8, <3>2 DEF Followed
    <3> QED
      BY <3>3, <3>4
  <2> QED
    BY <1>8, <2>3, <2>4 DEF Followed
<1>16. Followed(db, replace, db, Fitting(db.tree, report), d3)
  BY <1>12, <1>13, <1>14, <1>15 DEF Followed
<1> QED
  BY <1>1, <1>16 DEF d3

-----------------------------------------------------------------------------
(* Verdicts                                                                *)

\* What the proofs need of a policy, with ignored properties or without.
Sound(policy) ==
  /\ \A i \in DOMAIN policy : policy[i].mask \subseteq Property
  /\ \A n \in FCOName : \A i, j \in RuleOf(policy, n) : i = j

LEMMA PoliciesAreSound ==
  ASSUME NEW policy \in Policy
  PROVE  /\ Sound(policy)
         /\ \A ignored \in SUBSET Property :
              /\ Sound(TrimProps(policy, ignored))
              /\ DOMAIN TrimProps(policy, ignored) = DOMAIN policy
              /\ \A i \in DOMAIN policy :
                   /\ TrimProps(policy, ignored)[i].spec = policy[i].spec
                   /\ TrimProps(policy, ignored)[i].mask = policy[i].mask \ ignored
<1>1. \A i \in DOMAIN policy : policy[i] \in [spec : {policy[i].spec}, mask : SUBSET Property]
  BY RulesAreRules
<1>2. Sound(policy)
  BY <1>1, PoliciesAreDisjoint DEF Sound
<1>3. ASSUME NEW ignored \in SUBSET Property
      PROVE  /\ DOMAIN TrimProps(policy, ignored) = DOMAIN policy
             /\ \A i \in DOMAIN policy :
                  /\ TrimProps(policy, ignored)[i].spec = policy[i].spec
                  /\ TrimProps(policy, ignored)[i].mask = policy[i].mask \ ignored
  BY <1>1 DEF TrimProps
<1>4. ASSUME NEW ignored \in SUBSET Property
      PROVE  Sound(TrimProps(policy, ignored))
  <2>1. \A n : RuleOf(TrimProps(policy, ignored), n) = RuleOf(policy, n)
    BY <1>3 DEF RuleOf
  <2> QED
    BY <1>2, <1>3, <2>1 DEF Sound
<1> QED
  BY <1>2, <1>3, <1>4

\* A rule has a verdict on a name.
Found(rule, tree, files, validOnly, v) ==
  LET n   == v.name
      new == CalcProps(files[n], rule.mask)
  IN /\ Walked(rule.spec, n)
     /\ \/ n \in DOMAIN files \ DOMAIN tree /\ v = Added(n, new)
        \/ n \in DOMAIN tree \ DOMAIN files /\ v = Removed(n, tree[n])
        \/ /\ n \in DOMAIN tree \cap DOMAIN files /\ v = Changed(n, tree[n], new)
           /\ Differ(tree[n], new, Compared(tree[n], new, rule.mask, validOnly))

LEMMA VerdictNames ==
  \A n, old, new :
    /\ Added(n, new).name = n /\ Added(n, new).kind = "added"
    /\ Added(n, new).new = new /\ Added(n, new).old = Absent
    /\ Removed(n, old).name = n /\ Removed(n, old).kind = "removed"
    /\ Removed(n, old).old = old /\ Removed(n, old).new = Absent
    /\ Changed(n, old, new).name = n /\ Changed(n, old, new).kind = "changed"
    /\ Changed(n, old, new).old = old /\ Changed(n, old, new).new = new
BY DEF Added, Removed, Changed

\* The kind of a verdict tells on which sides its object is.
LEMMA FoundKinds ==
  ASSUME NEW rule, NEW tree, NEW files, NEW validOnly, NEW v,
         Found(rule, tree, files, validOnly, v)
  PROVE  \/ v.kind = "added" /\ v.name \in DOMAIN files \ DOMAIN tree
         \/ v.kind = "removed" /\ v.name \in DOMAIN tree \ DOMAIN files
         \/ v.kind = "changed" /\ v.name \in DOMAIN tree \cap DOMAIN files
<1>1. PICK n, new : n = v.name /\ new = CalcProps(files[n], rule.mask)
  OBVIOUS
<1>2. CASE n \in DOMAIN files \ DOMAIN tree /\ v = Added(n, new)
  <2>1. v.kind = "added"
    BY <1>2 DEF Added
  <2> QED
    BY <1>1, <1>2, <2>1
<1>3. CASE n \in DOMAIN tree \ DOMAIN files /\ v = Removed(n, tree[n])
  <2>1. v.kind = "removed"
    BY <1>3 DEF Removed
  <2> QED
    BY <1>1, <1>3, <2>1
<1>4. CASE n \in DOMAIN tree \cap DOMAIN files /\ v = Changed(n, tree[n], new)
  <2>1. v.kind = "changed"
    BY <1>4 DEF Changed
  <2> QED
    BY <1>1, <1>4, <2>1
<1> QED
  BY <1>1, <1>2, <1>3, <1>4 DEF Found

\* The verdicts are what the rules find, no more and no less.
LEMMA VerdictsAreFound ==
  ASSUME NEW policy, NEW tree \in Tree, NEW files \in FileSystem, NEW validOnly, NEW v
  PROVE  v \in Verdicts(policy, tree, files, validOnly)
           <=> \E i \in DOMAIN policy : Found(policy[i], tree, files, validOnly, v)
<1> SUFFICES ASSUME NEW i \in DOMAIN policy
             PROVE  v \in VerdictsOf(policy[i], tree, files, validOnly)
                      <=> Found(policy[i], tree, files, validOnly, v)
  BY DEF Verdicts
<1> DEFINE asked == {n \in DOMAIN tree \cup DOMAIN files : Walked(policy[i].spec, n)}
           new(n) == CalcProps(files[n], policy[i].mask)
<1>1. v \in VerdictsOf(policy[i], tree, files, validOnly) <=>
        \/ \E n \in (asked \cap DOMAIN files) \ DOMAIN tree : v = Added(n, new(n))
        \/ \E n \in asked \ DOMAIN files : v = Removed(n, tree[n])
        \/ \E n \in asked \cap DOMAIN files \cap DOMAIN tree :
             /\ Differ(tree[n], new(n), Compared(tree[n], new(n), policy[i].mask, validOnly))
             /\ v = Changed(n, tree[n], new(n))
  BY DEF VerdictsOf, VerdictsAmong
<1> QED
  BY <1>1, VerdictNames DEF Found

\* There is one of a name, and what it holds are objects.
LEMMA VerdictsAreTyped ==
  ASSUME NEW policy, Sound(policy), NEW tree \in Tree, NEW files \in FileSystem, NEW validOnly
  PROVE  /\ Verdicts(policy, tree, files, validOnly) \in SUBSET VerdictType
         /\ OneEach(Verdicts(policy, tree, files, validOnly))
<1>1. ASSUME NEW i \in DOMAIN policy, NEW v, Found(policy[i], tree, files, validOnly, v)
      PROVE  v \in VerdictType /\ i \in RuleOf(policy, v.name)
  <2> DEFINE n == v.name
             new == CalcProps(files[n], policy[i].mask)
  <2>1. n \in FCOName /\ n \in DOMAIN tree \cup DOMAIN files
    BY <1>1, Trees DEF Found
  <2>2. n \in DOMAIN tree => tree[n] \in StoredObject
    BY Trees
  <2>3. n \in DOMAIN files => new \in StoredObject
    BY Trees, StoredParts DEF Sound
  <2>4. Absent \in StoredObject
    BY StoredObjects
  <2>5. v \in VerdictType
    BY <1>1, <2>1, <2>2, <2>3, <2>4 DEF Found, VerdictType, Added, Removed, Changed
  <2> QED
    BY <1>1, <2>5 DEF Found, RuleOf
<1>2. \A v \in Verdicts(policy, tree, files, validOnly) : v \in VerdictType
  BY <1>1, VerdictsAreFound
<1>3. ASSUME NEW v \in Verdicts(policy, tree, files, validOnly),
             NEW w \in Verdicts(policy, tree, files, validOnly), v.name = w.name
      PROVE  v = w
  <2>1. PICK i \in DOMAIN policy : Found(policy[i], tree, files, validOnly, v)
    BY VerdictsAreFound
  <2>2. PICK j \in DOMAIN policy : Found(policy[j], tree, files, validOnly, w)
    BY VerdictsAreFound
  <2>3. v.name \in FCOName
    BY <1>2 DEF VerdictType
  <2>4. i = j
    BY <1>1, <1>3, <2>1, <2>2, <2>3 DEF Sound
  <2> QED
    BY <1>3, <2>1, <2>2, <2>4 DEF Found
<1> QED
  BY <1>2, <1>3 DEF OneEach

\* As there are finitely many names.
LEMMA ReportsAreFinite ==
  ASSUME NEW report \in SUBSET VerdictType, OneEach(report)
  PROVE  IsFiniteSet(report)
<1>1. PICK f : f = [v \in report |-> v.name]
  OBVIOUS
<1>2. f \in Injection(report, FCOName)
  BY <1>1 DEF Injection, IsInjective, VerdictType, OneEach
<1> QED
  BY <1>2, FiniteNames, FS_Injection

-----------------------------------------------------------------------------
(* What the modes compute is a database                                    *)

\* What a walk comes to is in the rule's range.
LEMMA WalkedIsContained ==
  ASSUME NEW policy \in Policy, NEW i \in DOMAIN policy, NEW n \in FCOName,
         Walked(policy[i].spec, n)
  PROVE  ContainsFCO(policy[i].spec, n)
<1>1. PICK s : s = policy[i].spec
  OBVIOUS
<1>2. s.start \in FCOName /\ \A p \in s.stops : p \in FCOName /\ Below(p, s.start)
  BY <1>1, RulesAreRules
<1>3. AtOrBelow(n, s.start) /\ \A k \in Len(s.start) .. Len(n) : ~ShouldStopDescent(s, SubSeq(n, 1, k))
  BY <1>1 DEF Walked
<1>4. Len(s.start) \in Nat /\ Len(n) \in Nat /\ Len(s.start) <= Len(n)
  BY <1>2, <1>3, NamePrefixes
<1>5. CASE s.kind = "no children"
  <2>1. SubSeq(n, 1, Len(n)) = s.start
    <3>1. Len(n) \in Len(s.start) .. Len(n)
      BY <1>4
    <3>2. ~ShouldStopDescent(s, SubSeq(n, 1, Len(n)))
      BY <1>3, <3>1
    <3> QED
      BY <1>5, <3>2 DEF ShouldStopDescent
  <2>2. SubSeq(n, 1, Len(n)) = n
    BY NamePrefixes DEF AtOrBelow, IsPrefix
  <2> QED
    BY <1>1, <1>5, <2>1, <2>2 DEF ContainsFCO
<1>6. CASE s.kind # "no children"
  <2>1. ASSUME NEW p \in s.stops, AtOrBelow(n, p)
        PROVE  FALSE
    <3>1. p \in FCOName /\ AtOrBelow(p, s.start)
      BY <1>2 DEF Below, AtOrBelow, IsStrictPrefix
    <3>2. Len(p) \in Nat /\ Len(s.start) <= Len(p)
      BY <1>2, <3>1, NamePrefixes
    <3>3. Len(p) <= Len(n) /\ p = SubSeq(n, 1, Len(p))
      BY <2>1, <3>1, NamePrefixes
    <3>4. Len(p) \in Len(s.start) .. Len(n)
      BY <1>4, <3>2, <3>3
    <3>5. ~ShouldStopDescent(s, SubSeq(n, 1, Len(p)))
      BY <1>3, <3>4
    <3>6. SubSeq(n, 1, Len(p)) \in s.stops
      BY <3>3
    <3> QED
      BY <1>6, <3>5, <3>6 DEF ShouldStopDescent
  <2> QED
    BY <1>1, <1>3, <1>6, <2>1 DEF ContainsFCO
<1> QED
  BY <1>5, <1>6

\* The one rule whose walk comes to a name.
LEMMA TheRule ==
  ASSUME NEW policy, Sound(policy), NEW n \in FCOName, NEW i \in RuleOf(policy, n)
  PROVE  (CHOOSE j \in RuleOf(policy, n) : TRUE) = i
BY DEF Sound

\* A new database has what the rules come to.
LEMMA GeneratedTreeIs ==
  ASSUME NEW policy, Sound(policy), NEW files \in FileSystem
  PROVE  /\ GeneratedTree(policy, files) \in Tree
         /\ \A n \in FCOName : n \in DOMAIN GeneratedTree(policy, files)
              <=> n \in DOMAIN files /\ RuleOf(policy, n) # {}
         /\ \A n \in DOMAIN files : \A i \in RuleOf(policy, n) :
              GeneratedTree(policy, files)[n] = CalcProps(files[n], policy[i].mask)
<1> DEFINE S == {m \in DOMAIN files : RuleOf(policy, m) # {}}
           t == GeneratedTree(policy, files)
<1>1. S \in SUBSET FCOName /\ DOMAIN t = S
  BY Trees DEF GeneratedTree
<1>2. ASSUME NEW n \in DOMAIN files, NEW i \in RuleOf(policy, n)
      PROVE  /\ t[n] = CalcProps(files[n], policy[i].mask)
             /\ CalcProps(files[n], policy[i].mask) \in StoredObject
  <2>1. n \in FCOName /\ files[n] \in Object /\ n \in S
    BY Trees
  <2>2. (CHOOSE j \in RuleOf(policy, n) : TRUE) = i
    BY <2>1, TheRule
  <2>3. policy[i].mask \in SUBSET Property
    BY DEF RuleOf, Sound
  <2> QED
    BY <2>1, <2>2, <2>3, StoredParts DEF GeneratedTree
<1>3. t \in [S -> StoredObject]
  <2>1. t = [n \in S |-> t[n]]
    BY DEF GeneratedTree
  <2>2. \A n \in S : t[n] \in StoredObject
    BY <1>2
  <2> HIDE DEF t
  <2> QED
    BY <2>1, <2>2
<1>4. t \in Tree
  <2> HIDE DEF t, S
  <2> QED
    BY <1>1, <1>3, Trees
<1> QED
  BY <1>1, <1>2, <1>4, Trees

\* Its entries without data are those on the way to a start point; each entry
\* that leads on has a child array, no other has.
LEMMA GeneratedIsDatabase ==
  ASSUME NEW policy \in Policy, NEW files \in FileSystem
  PROVE  Generated(policy, files) \in DatabaseType /\ Tidy(Generated(policy, files))
<1> DEFINE t      == GeneratedTree(policy, files)
           starts == {policy[i].spec.start : i \in DOMAIN policy} \cap DOMAIN t
           ways   == (UNION {Parents(n) : n \in starts}) \ DOMAIN t
           dirs   == UNION {Parents(n) : n \in DOMAIN t \cup ways}
<1>1. Generated(policy, files) = [tree |-> t, ways |-> ways, dirs |-> dirs]
  BY DEF Generated
<1>2. Sound(policy)
  BY PoliciesAreSound
<1>3. t \in Tree /\ DOMAIN t \subseteq FCOName
  BY <1>2, GeneratedTreeIs, Trees
<1>4. \A n \in FCOName : n \in DOMAIN t <=> n \in DOMAIN files /\ RuleOf(policy, n) # {}
  BY <1>2, GeneratedTreeIs
<1> HIDE DEF t
<1>5. \A n \in starts : n \in DOMAIN t /\ n \in FCOName /\ Parents(n) \subseteq FCOName
  BY <1>3, NamesArePaths
<1>6. \A i \in DOMAIN policy : policy[i].spec.start \in DOMAIN t => policy[i].spec.start \in starts
  OBVIOUS
<1> HIDE DEF starts
<1>7. /\ \A n \in starts : \A m \in Parents(n) : m \in DOMAIN t \cup ways
      /\ \A m \in ways : m \notin DOMAIN t /\ \E n \in starts : m \in Parents(n)
  OBVIOUS
<1>8. ways \subseteq FCOName /\ ways \cap DOMAIN t = {}
  BY <1>5, <1>7
<1>9. dirs \subseteq FCOName
  BY <1>3, <1>8, NamesArePaths
<1>10. ASSUME NEW n \in DOMAIN t, NEW m \in Parents(n)
      PROVE  m \in DOMAIN t \cup ways
  <2>1. n \in FCOName /\ m \in FCOName /\ n \in DOMAIN files
    BY <1>3, <1>4, NamesArePaths
  <2>2. PICK i \in DOMAIN policy : Walked(policy[i].spec, n)
    BY <1>3, <1>4 DEF RuleOf
  <2>3. PICK s : s = policy[i].spec
    OBVIOUS
  <2>4. s.start \in FCOName
    BY <2>3, RulesAreRules
  <2>5. /\ AtOrBelow(n, s.start)
        /\ \A k \in Len(s.start) .. Len(n) : ~ShouldStopDescent(s, SubSeq(n, 1, k))
    BY <2>2, <2>3 DEF Walked
  <2>6. Len(m) \in 1 .. Len(n) - 1 /\ m = SubSeq(n, 1, Len(m)) /\ m \in DOMAIN files
    BY <2>1, NamePrefixes, Trees
  <2>7. /\ Len(s.start) \in Nat /\ Len(n) \in Nat
        /\ Len(s.start) <= Len(n) /\ s.start = SubSeq(n, 1, Len(s.start))
    BY <2>1, <2>4, <2>5, NamePrefixes
  <2>8. ASSUME NEW p \in FCOName, p \in DOMAIN files, AtOrBelow(n, p), AtOrBelow(p, s.start)
        PROVE  p \in DOMAIN t
    <3>1. /\ Len(p) \in Nat /\ Len(p) <= Len(n) /\ Len(s.start) <= Len(p)
          /\ \A k \in 0 .. Len(p) : SubSeq(n, 1, k) = SubSeq(p, 1, k)
      BY <2>1, <2>4, <2>8, NamePrefixes
    <3>2. ASSUME NEW k \in Len(s.start) .. Len(p)
          PROVE  ~ShouldStopDescent(s, SubSeq(p, 1, k))
      <4>1. k \in Len(s.start) .. Len(n) /\ SubSeq(n, 1, k) = SubSeq(p, 1, k)
        BY <2>7, <3>1
      <4>2. ~ShouldStopDescent(s, SubSeq(n, 1, k))
        BY <2>5, <4>1
      <4> QED
        BY <4>1, <4>2
    <3>3. Walked(s, p)
      BY <2>8, <3>2 DEF Walked
    <3> QED
      BY <1>4, <2>3, <2>8, <3>3 DEF RuleOf
  <2>9. CASE Len(m) >= Len(s.start)
    <3>1. AtOrBelow(n, m)
      BY <2>1, <2>6, <2>7, NamePrefixes
    <3>2. SubSeq(n, 1, Len(s.start)) = SubSeq(m, 1, Len(s.start))
      BY <2>1, <2>6, <2>7, <2>9, <3>1, NamePrefixes
    <3>3. AtOrBelow(m, s.start)
      BY <2>1, <2>4, <2>7, <2>9, <3>2, NamePrefixes
    <3> QED
      BY <2>1, <2>6, <2>8, <3>1, <3>3
  <2>10. CASE Len(m) < Len(s.start)
    <3>1. s.start \in DOMAIN files
      <4>1. CASE s.start = n
        BY <2>1, <4>1
      <4>2. CASE s.start # n
        BY <2>1, <2>4, <2>5, <2>6, <2>10, <4>2, NamesAreOrdered, Trees
      <4> QED
        BY <4>1, <4>2
    <3>2. AtOrBelow(s.start, s.start)
      BY DEF AtOrBelow, IsPrefix
    <3>3. s.start \in starts
      BY <1>6, <2>3, <2>4, <2>5, <2>8, <3>1, <3>2
    <3>4. SubSeq(n, 1, Len(m)) = SubSeq(s.start, 1, Len(m))
      BY <2>1, <2>4, <2>5, <2>6, <2>7, <2>10, NamePrefixes
    <3>5. m \in Parents(s.start)
      <4>1. PICK st : st = s.start
        OBVIOUS
      <4>2. st \in FCOName /\ Len(m) \in 1 .. Len(st) - 1 /\ m = SubSeq(st, 1, Len(m))
        BY SMTT(30), <2>4, <2>6, <2>7, <2>10, <3>4, <4>1
      <4> QED
        BY <2>1, <4>1, <4>2, NamePrefixes
    <3> QED
      BY <1>7, <3>3, <3>5
  <2> QED
    BY <2>6, <2>7, <2>9, <2>10
<1>11. ASSUME NEW n \in ways, NEW m \in Parents(n)
      PROVE  m \in DOMAIN t \cup ways
  <2>1. PICK s \in starts : n \in Parents(s)
    BY <1>7
  <2>2. s \in FCOName /\ n \in FCOName /\ m \in FCOName
    BY <1>5, <1>8, NamesArePaths
  <2>3. AtOrBelow(s, n)
    <3>1. Len(s) \in Nat /\ Len(n) \in 1 .. Len(s) - 1 /\ n = SubSeq(s, 1, Len(n))
      BY <2>1, <2>2, NamePrefixes
    <3>2. Len(n) <= Len(s)
      BY <3>1
    <3> QED
      BY <2>2, <3>1, <3>2, NamePrefixes
  <2>4. m \in Parents(s)
    BY <2>2, <2>3, NamesAreOrdered
  <2> QED
    BY <1>5, <1>10, <2>1, <2>4
<1>12. dirs \subseteq DOMAIN t \cup ways
  BY <1>10, <1>11
<1>13. \A n \in ways : \E m \in DOMAIN t : Below(m, n)
  BY <1>5, <1>7, <1>8, NamesLieOnWays
<1>14. \A n \in FCOName : n \in dirs <=> \E m \in DOMAIN t \cup ways : Below(m, n)
  <2>1. \A n \in FCOName : n \in dirs <=> \E m \in DOMAIN t \cup ways : n \in Parents(m)
    OBVIOUS
  <2>2. \A m \in DOMAIN t \cup ways : m \in FCOName
    BY <1>3, <1>8
  <2> HIDE DEF ways, dirs
  <2> QED
    BY <2>1, <2>2, NamesLieOnWays
<1>15. PICK e : e = [tree |-> t, ways |-> ways, dirs |-> dirs]
  OBVIOUS
<1> HIDE DEF ways, dirs
<1>16. e \in DatabaseType
  BY <1>3, <1>8, <1>9, <1>12, <1>15 DEF DatabaseType, Entries
<1>17. Tidy(e)
  BY <1>13, <1>14, <1>15, <1>16, TidyIs DEF Entries
<1> QED
  BY <1>1, <1>15, <1>16, <1>17

\* The check of a policy update leaves every object, with the properties of
\* the rule that comes to it.
LEMMA CheckedTreeIs ==
  ASSUME NEW policy, Sound(policy), NEW tree \in Tree, NEW files \in FileSystem
  PROVE  /\ CheckedTree(policy, tree, files) \in Tree
         /\ DOMAIN CheckedTree(policy, tree, files) = DOMAIN tree
         /\ \A n \in DOMAIN tree \cap DOMAIN files : \A i \in RuleOf(policy, n) :
              CheckedTree(policy, tree, files)[n]
                = Rewritten(tree[n], CalcProps(files[n], policy[i].mask), policy[i].mask)
         /\ \A n \in DOMAIN tree \ DOMAIN files : CheckedTree(policy, tree, files)[n] = tree[n]
<1> DEFINE t == CheckedTree(policy, tree, files)
<1>1. DOMAIN t = DOMAIN tree /\ t = [n \in DOMAIN tree |-> t[n]]
  BY DEF CheckedTree
<1>2. ASSUME NEW n \in DOMAIN tree \cap DOMAIN files, NEW i \in RuleOf(policy, n)
      PROVE  /\ t[n] = Rewritten(tree[n], CalcProps(files[n], policy[i].mask), policy[i].mask)
             /\ t[n] \in StoredObject
  <2>1. n \in FCOName /\ files[n] \in Object /\ tree[n] \in StoredObject
    BY Trees
  <2>2. (CHOOSE j \in RuleOf(policy, n) : TRUE) = i
    BY <2>1, TheRule
  <2>3. policy[i].mask \in SUBSET Property
    BY DEF RuleOf, Sound
  <2>4. t[n] = Rewritten(tree[n], CalcProps(files[n], policy[i].mask), policy[i].mask)
    BY <2>2 DEF CheckedTree
  <2>5. CalcProps(files[n], policy[i].mask) \in StoredObject
    BY <2>1, <2>3, StoredParts
  <2>6. PICK P : P = DOMAIN tree[n] \cap policy[i].mask
    OBVIOUS
  <2>7. P \in SUBSET Property /\ P \subseteq DOMAIN tree[n]
    BY <2>3, <2>6
  <2>8. Restrict(tree[n], P) \in StoredObject
    BY <2>1, <2>7, StoredParts
  <2> QED
    BY <2>4, <2>5, <2>6, <2>8, StoredParts DEF Rewritten
<1>3. ASSUME NEW n \in DOMAIN tree, n \notin DOMAIN files \/ RuleOf(policy, n) = {}
      PROVE  t[n] = tree[n] /\ t[n] \in StoredObject
  BY <1>3, Trees DEF CheckedTree
<1>4. \A n \in DOMAIN tree : t[n] \in StoredObject
  BY <1>2, <1>3
<1>5. t \in Tree
  <2>1. DOMAIN tree \in SUBSET FCOName
    BY Trees
  <2> HIDE DEF t
  <2>2. t \in [DOMAIN tree -> StoredObject]
    BY <1>1, <1>4
  <2> QED
    BY <2>1, <2>2, Trees
<1> QED
  BY <1>1, <1>2, <1>3, <1>5

\* What the report of a policy update holds for a verdict of its check.
Corrected(checked, v) ==
  IF v.kind = "changed" THEN [v EXCEPT !.old = checked[v.name]] ELSE v

LEMMA CorrectedIs ==
  ASSUME NEW v \in VerdictType, NEW checked \in Tree,
         v.kind = "changed" => v.name \in DOMAIN checked
  PROVE  /\ Corrected(checked, v) \in VerdictType
         /\ Corrected(checked, v).name = v.name
         /\ Corrected(checked, v).kind = v.kind
         /\ Corrected(checked, v).new = v.new
         /\ v.kind = "changed" => Corrected(checked, v).old = checked[v.name]
<1>1. v.kind = "changed" => checked[v.name] \in StoredObject
  BY Trees
<1> QED
  BY <1>1 DEF Corrected, VerdictType

LEMMA PolicyReportIs ==
  ASSUME NEW policy, Sound(policy), NEW tree \in Tree, NEW files \in FileSystem
  PROVE  /\ PolicyReport(policy, tree, files) \in SUBSET VerdictType
         /\ OneEach(PolicyReport(policy, tree, files))
         /\ \A v : v \in PolicyReport(policy, tree, files) <=>
              \E w \in Verdicts(policy, tree, files, TRUE) :
                v = Corrected(CheckedTree(policy, tree, files), w)
         /\ \A v \in PolicyReport(policy, tree, files) :
              ~Conflict(CheckedTree(policy, tree, files), v)
<1> DEFINE R       == PolicyReport(policy, tree, files)
           V       == Verdicts(policy, tree, files, TRUE)
           checked == CheckedTree(policy, tree, files)
<1>1. V \in SUBSET VerdictType /\ OneEach(V)
  BY VerdictsAreTyped
<1>2. checked \in Tree /\ DOMAIN checked = DOMAIN tree
  BY CheckedTreeIs
<1>3. \A v : v \in R <=> \E w \in V : v = Corrected(checked, w)
  BY DEF PolicyReport, Corrected
<1>4. ASSUME NEW w \in V
      PROVE  \/ w.kind = "added" /\ w.name \notin DOMAIN tree
             \/ w.kind = "removed" /\ w.name \in DOMAIN tree
             \/ w.kind = "changed" /\ w.name \in DOMAIN tree
  <2>1. PICK i \in DOMAIN policy : Found(policy[i], tree, files, TRUE, w)
    BY VerdictsAreFound
  <2>2. \/ w.kind = "added" /\ w.name \in DOMAIN files \ DOMAIN tree
        \/ w.kind = "removed" /\ w.name \in DOMAIN tree \ DOMAIN files
        \/ w.kind = "changed" /\ w.name \in DOMAIN tree \cap DOMAIN files
    BY <2>1, FoundKinds
  <2> QED
    BY <2>2
<1> HIDE DEF R, V, checked
<1>5. ASSUME NEW w \in V
      PROVE  /\ Corrected(checked, w) \in VerdictType
             /\ Corrected(checked, w).name = w.name
             /\ Corrected(checked, w).kind = w.kind
             /\ w.kind = "changed" => Corrected(checked, w).old = checked[w.name]
  BY <1>1, <1>2, <1>4, CorrectedIs
<1>6. R \in SUBSET VerdictType
  BY <1>3, <1>5
<1>7. OneEach(R)
  <2> SUFFICES ASSUME NEW v \in R, NEW w \in R, v.name = w.name
               PROVE  v = w
    BY DEF OneEach
  <2>1. PICK x \in V : v = Corrected(checked, x)
    BY <1>3
  <2>2. PICK y \in V : w = Corrected(checked, y)
    BY <1>3
  <2>3. x = y
    BY <1>1, <1>5, <2>1, <2>2 DEF OneEach
  <2> QED
    BY <2>1, <2>2, <2>3
<1>8. ASSUME NEW v \in R
      PROVE  ~Conflict(checked, v)
  <2>1. PICK w \in V : v = Corrected(checked, w)
    BY <1>3
  <2>2. /\ v.name = w.name /\ v.kind = w.kind
        /\ w.kind = "changed" => v.old = checked[w.name]
    BY <1>5, <2>1
  <2>3. \A o : ~Differ(o, o, DOMAIN o)
    BY DEF Differ
  <2>4. CASE w.kind = "added"
    BY <1>2, <1>4, <2>2, <2>4 DEF Conflict
  <2>5. CASE w.kind = "removed"
    BY <1>2, <1>4, <2>2, <2>5 DEF Conflict
  <2>6. CASE w.kind = "changed"
    BY <1>2, <1>4, <2>2, <2>3, <2>6 DEF Conflict
  <2> QED
    BY <1>4, <2>4, <2>5, <2>6
<1> QED
  BY <1>3, <1>6, <1>7, <1>8 DEF R, V, checked

\* Pruning keeps the objects in the range of the policy, and what leads to them.
LEMMA PrunedIs ==
  ASSUME NEW policy, NEW db \in DatabaseType
  PROVE  /\ Pruned(policy, db) \in DatabaseType /\ LeadsOn(Pruned(policy, db))
         /\ \A n \in FCOName : At(Pruned(policy, db).tree, n) =
              IF InSpecList(policy, n) THEN At(db.tree, n) ELSE {}
<1> DEFINE kept == {n \in DOMAIN db.tree : InSpecList(policy, n)}
           ways == {n \in Entries(db) \ kept : \E m \in kept : Below(m, n)}
           t    == Restrict(db.tree, kept)
           dirs == db.dirs \cap (kept \cup ways)
<1>1. Pruned(policy, db) = [tree |-> t, ways |-> ways, dirs |-> dirs]
  BY DEF Pruned
<1>2. /\ db.tree \in Tree /\ db.ways \in SUBSET FCOName /\ db.dirs \in SUBSET FCOName
      /\ DOMAIN db.tree \subseteq FCOName
  BY Trees DEF DatabaseType
<1>3. kept \in SUBSET FCOName /\ ways \in SUBSET FCOName /\ dirs \in SUBSET FCOName
  BY <1>2 DEF Entries
<1>4. t \in [kept -> StoredObject]
  BY <1>2, Trees DEF Restrict
<1>5. t \in Tree /\ DOMAIN t = kept /\ \A n \in kept : t[n] = db.tree[n]
  <2>1. \A n \in kept : t[n] = db.tree[n]
    BY DEF Restrict
  <2> HIDE DEF t, kept
  <2> QED
    BY <1>3, <1>4, <2>1, Trees
<1>6. [tree |-> t, ways |-> ways, dirs |-> dirs] \in DatabaseType
  <2>1. ways \cap kept = {} /\ dirs \subseteq kept \cup ways
    OBVIOUS
  <2> HIDE DEF t, kept, ways, dirs
  <2> QED
    BY <1>3, <1>5, <2>1 DEF DatabaseType, Entries
<1>7. \A n \in FCOName : At(t, n) = IF InSpecList(policy, n) THEN At(db.tree, n) ELSE {}
  <2> HIDE DEF t
  <2> QED
    BY <1>5 DEF At
<1>8. \A n \in ways : \E m \in kept : Below(m, n)
  OBVIOUS
<1> HIDE DEF t, kept, ways, dirs
<1>9. Pruned(policy, db).tree = t /\ Pruned(policy, db).ways = ways
  BY <1>1
<1>10. LeadsOn(Pruned(policy, db))
  BY <1>5, <1>8, <1>9 DEF LeadsOn
<1> QED
  BY <1>1, <1>6, <1>7, <1>9, <1>10

\* A tree is what a check by the policy finds in order: where a rule comes to,
\* the objects there are with the properties the rule is about.
InOrder(policy, tree, files) ==
  \A n \in FCOName : \A i \in RuleOf(policy, n) :
    At(tree, n) = IF n \in DOMAIN files THEN {CalcProps(files[n], policy[i].mask)} ELSE {}

LEMMA NothingToReport ==
  ASSUME NEW policy, NEW tree \in Tree, NEW files \in FileSystem, InOrder(policy, tree, files)
  PROVE  Verdicts(policy, tree, files, FALSE) = {}
<1> SUFFICES ASSUME NEW v \in Verdicts(policy, tree, files, FALSE)
             PROVE  FALSE
  OBVIOUS
<1>1. PICK i \in DOMAIN policy : Found(policy[i], tree, files, FALSE, v)
  BY VerdictsAreFound
<1>2. PICK n : n = v.name
  OBVIOUS
<1>3. i \in RuleOf(policy, n)
  BY <1>1, <1>2 DEF Found, RuleOf
<1>4. n \in FCOName
  BY <1>1, <1>2, Trees DEF Found
<1>5. PICK new : new = CalcProps(files[n], policy[i].mask)
  OBVIOUS
<1>6. At(tree, n) = IF n \in DOMAIN files THEN {new} ELSE {}
  BY <1>3, <1>4, <1>5 DEF InOrder
<1>7. DOMAIN new = policy[i].mask
  BY <1>5 DEF CalcProps, Restrict
<1>8. \/ n \in DOMAIN files \ DOMAIN tree
      \/ n \in DOMAIN tree \ DOMAIN files
      \/ /\ n \in DOMAIN tree \cap DOMAIN files
         /\ Differ(tree[n], new, Compared(tree[n], new, policy[i].mask, FALSE))
  BY <1>1, <1>2, <1>5 DEF Found
<1>9. ~(n \in DOMAIN files \ DOMAIN tree) /\ ~(n \in DOMAIN tree \ DOMAIN files)
  BY <1>6 DEF At
<1>10. CASE /\ n \in DOMAIN tree \cap DOMAIN files
            /\ Differ(tree[n], new, Compared(tree[n], new, policy[i].mask, FALSE))
  <2>1. tree[n] = new
    BY <1>6, <1>10 DEF At
  <2> QED
    BY <1>7, <1>10, <2>1 DEF Differ, Compared
<1> QED
  BY <1>8, <1>9, <1>10

LEMMA GeneratedIsInOrder ==
  ASSUME NEW policy \in Policy, NEW files \in FileSystem
  PROVE  InOrder(policy, Generated(policy, files).tree, files)
<1>1. Sound(policy)
  BY PoliciesAreSound
<1>2. Generated(policy, files).tree = GeneratedTree(policy, files)
  BY DEF Generated
<1>3. ASSUME NEW n \in FCOName, NEW i \in RuleOf(policy, n)
      PROVE  At(GeneratedTree(policy, files), n)
               = IF n \in DOMAIN files THEN {CalcProps(files[n], policy[i].mask)} ELSE {}
  BY <1>1, GeneratedTreeIs DEF At
<1> QED
  BY <1>2, <1>3 DEF InOrder

\* A policy update leaves a database without dead ends, of objects in the
\* range of the policy, and whatever the new rules come to in order.
LEMMA PolicyUpdateEffect ==
  ASSUME NEW policy \in Policy, NEW db \in DatabaseType, NEW files \in FileSystem
  PROVE  /\ PolicyUpdated(policy, db, files) \in DatabaseType
         /\ LeadsOn(PolicyUpdated(policy, db, files))
         /\ \A n \in DOMAIN PolicyUpdated(policy, db, files).tree :
              n \in FCOName /\ InSpecList(policy, n)
         /\ InOrder(policy, PolicyUpdated(policy, db, files).tree, files)
<1> DEFINE checked == CheckedTree(policy, db.tree, files)
           R       == PolicyReport(policy, db.tree, files)
           V       == Verdicts(policy, db.tree, files, TRUE)
           db1     == [db EXCEPT !.tree = checked]
           db2     == Updated(db1, R, TRUE)
           db3     == Pruned(policy, db2)
<1>1. PolicyUpdated(policy, db, files) = db3
  BY DEF PolicyUpdated
<1>2. Sound(policy)
  BY PoliciesAreSound
<1>3. /\ db \in [tree : Tree, ways : SUBSET FCOName, dirs : SUBSET FCOName]
      /\ db.tree \in Tree
      /\ db.ways \cap DOMAIN db.tree = {} /\ db.dirs \subseteq DOMAIN db.tree \cup db.ways
  BY DEF DatabaseType, Entries
<1>4. checked \in Tree /\ DOMAIN checked = DOMAIN db.tree
  BY <1>2, <1>3, CheckedTreeIs
<1>5. /\ R \in SUBSET VerdictType /\ OneEach(R)
      /\ \A v : v \in R <=> \E w \in V : v = Corrected(checked, w)
      /\ \A v \in R : ~Conflict(checked, v)
  <2>1. db.tree \in Tree
    BY <1>3
  <2> QED
    BY <1>2, <2>1, PolicyReportIs
<1>6. /\ V \in SUBSET VerdictType
      /\ \A v : v \in V <=> \E i \in DOMAIN policy : Found(policy[i], db.tree, files, TRUE, v)
  BY <1>2, <1>3, VerdictsAreTyped, VerdictsAreFound
<1>7. \A n \in DOMAIN db.tree \cap DOMAIN files : \A i \in RuleOf(policy, n) :
        checked[n] = Rewritten(db.tree[n], CalcProps(files[n], policy[i].mask), policy[i].mask)
  BY <1>2, <1>3, CheckedTreeIs
<1> HIDE DEF checked, R, V
<1>8. db1 \in DatabaseType /\ db1.tree = checked
  BY <1>3, <1>4 DEF DatabaseType, Entries
<1> HIDE DEF db1
<1>9. Fitting(db1.tree, R) = R
  BY <1>5, <1>8 DEF Fitting
<1>10. Followed(db1, TRUE, db1, R, db2)
  <2>1. IsFiniteSet(R)
    BY <1>5, ReportsAreFinite
  <2>2. Followed(db1, TRUE, db1, Fitting(db1.tree, R), db2)
    BY <1>5, <1>8, <2>1, UpdateFollows
  <2> QED
    BY <1>9, <2>2
<1> HIDE DEF db2
<1>11. db2 \in DatabaseType
  BY <1>10 DEF Followed
<1>12. /\ db3 \in DatabaseType /\ LeadsOn(db3)
       /\ \A n \in FCOName : At(db3.tree, n) = IF InSpecList(policy, n) THEN At(db2.tree, n) ELSE {}
  BY <1>11, PrunedIs
<1> HIDE DEF db3
<1>13. ASSUME NEW n \in FCOName, NEW i \in RuleOf(policy, n)
       PROVE  At(db3.tree, n)
                = IF n \in DOMAIN files THEN {CalcProps(files[n], policy[i].mask)} ELSE {}
  <2>1. InSpecList(policy, n)
    BY WalkedIsContained DEF RuleOf, InSpecList
  <2>2. At(db3.tree, n) = At(db2.tree, n)
    BY <1>12, <2>1
  <2>3. i \in DOMAIN policy /\ Walked(policy[i].spec, n) /\ policy[i].mask \subseteq Property
    BY <1>2 DEF RuleOf, Sound
  <2>4. PICK new : new = CalcProps(files[n], policy[i].mask)
    OBVIOUS
  <2>5. ASSUME NEW w \in V, w.name = n
        PROVE  At(db2.tree, n) = IF w.kind = "removed" THEN {} ELSE {w.new}
    <3>1. Corrected(checked, w) \in R
      BY <1>5
    <3>2. w.kind = "changed" => w.name \in DOMAIN checked
      <4>1. PICK j \in DOMAIN policy : Found(policy[j], db.tree, files, TRUE, w)
        BY <1>6
      <4> QED
        BY <1>4, <4>1, FoundKinds
    <3>3. /\ Corrected(checked, w).name = n
          /\ Corrected(checked, w).kind = w.kind
          /\ Corrected(checked, w).new = w.new
      BY <1>4, <1>6, <2>5, <3>2, CorrectedIs
    <3>4. At(db2.tree, n) = Outcome(db1, TRUE, Corrected(checked, w))
      BY <1>10, <3>1, <3>3 DEF Followed
    <3> QED
      BY <3>3, <3>4 DEF Outcome, Stored
  <2>6. ASSUME \A w \in V : w.name # n
        PROVE  At(db2.tree, n) = At(checked, n)
    <3>1. ASSUME NEW v \in R
          PROVE  v.name # n
      <4>1. PICK w \in V : v = Corrected(checked, w)
        BY <1>5
      <4>2. w.kind = "changed" => w.name \in DOMAIN checked
        <5>1. PICK j \in DOMAIN policy : Found(policy[j], db.tree, files, TRUE, w)
          BY <1>6
        <5> QED
          BY <1>4, <5>1, FoundKinds
      <4>3. v.name = w.name
        BY <1>4, <1>6, <4>1, <4>2, CorrectedIs
      <4> QED
        BY <2>6, <4>3
    <3> QED
      BY <1>8, <1>10, <3>1 DEF Followed
  <2>7. CASE n \in DOMAIN files \ DOMAIN db.tree
    <3>1. PICK w : w = Added(n, new)
      OBVIOUS
    <3>2. w.name = n /\ w.kind = "added" /\ w.new = new
      BY <3>1 DEF Added
    <3>3. w \in V
      BY <1>6, <2>3, <2>4, <2>7, <3>1, <3>2 DEF Found
    <3> QED
      BY <2>2, <2>4, <2>5, <2>7, <3>2, <3>3
  <2>8. CASE n \in DOMAIN db.tree \ DOMAIN files
    <3>1. PICK w : w = Removed(n, db.tree[n])
      OBVIOUS
    <3>2. w.name = n /\ w.kind = "removed"
      BY <3>1 DEF Removed
    <3>3. w \in V
      BY <1>6, <2>3, <2>8, <3>1, <3>2 DEF Found
    <3> QED
      BY <2>2, <2>5, <2>8, <3>2, <3>3
  <2>9. CASE n \in DOMAIN db.tree \cap DOMAIN files
               /\ Differ(db.tree[n], new, Compared(db.tree[n], new, policy[i].mask, TRUE))
    <3>1. PICK w : w = Changed(n, db.tree[n], new)
      OBVIOUS
    <3>2. w.name = n /\ w.kind = "changed" /\ w.new = new
      BY <3>1 DEF Changed
    <3>3. w \in V
      BY <1>6, <2>3, <2>4, <2>9, <3>1, <3>2 DEF Found
    <3> QED
      BY <2>2, <2>4, <2>5, <2>9, <3>2, <3>3
  <2>10. CASE n \in DOMAIN db.tree \cap DOMAIN files
                /\ ~Differ(db.tree[n], new, Compared(db.tree[n], new, policy[i].mask, TRUE))
    <3>1. ASSUME NEW w \in V, w.name = n
          PROVE  FALSE
      <4>1. PICK j \in DOMAIN policy : Found(policy[j], db.tree, files, TRUE, w)
        BY <1>6
      <4>2. j = i
        BY <1>2, <3>1, <4>1 DEF Found, RuleOf, Sound
      <4> QED
        BY <2>4, <2>10, <3>1, <4>1, <4>2 DEF Found
    <3>2. At(db2.tree, n) = {checked[n]}
      BY <1>4, <2>6, <2>10, <3>1 DEF At
    <3>3. checked[n] = Rewritten(db.tree[n], new, policy[i].mask)
      BY <1>7, <2>4, <2>10
    <3>4. /\ DOMAIN new = policy[i].mask
          /\ new = [p \in policy[i].mask |-> new[p]]
      BY <2>4 DEF CalcProps, Restrict
    <3>5. \A p \in policy[i].mask \cap DOMAIN db.tree[n] : db.tree[n][p] = new[p]
      BY <2>10, <3>4 DEF Differ, Compared
    <3>6. Rewritten(db.tree[n], new, policy[i].mask) = new
      BY <3>4, <3>5 DEF Rewritten, Over, Restrict
    <3> QED
      BY <2>2, <2>4, <2>10, <3>2, <3>3, <3>6
  <2>11. CASE n \notin DOMAIN db.tree /\ n \notin DOMAIN files
    <3>1. ASSUME NEW w \in V, w.name = n
          PROVE  FALSE
      <4>1. PICK j \in DOMAIN policy : Found(policy[j], db.tree, files, TRUE, w)
        BY <1>6
      <4> QED
        BY <2>11, <3>1, <4>1 DEF Found
    <3>2. At(db2.tree, n) = {}
      BY <1>4, <2>6, <2>11, <3>1 DEF At
    <3> QED
      BY <2>2, <2>11, <3>2
  <2> QED
    BY <2>7, <2>8, <2>9, <2>10, <2>11
<1>14. ASSUME NEW n \in DOMAIN db3.tree
       PROVE  n \in FCOName /\ InSpecList(policy, n)
  <2>1. n \in FCOName
    BY <1>12, Trees DEF DatabaseType
  <2>2. At(db3.tree, n) # {}
    BY DEF At
  <2> QED
    BY <1>12, <2>1, <2>2
<1> QED
  BY <1>1, <1>12, <1>13, <1>14 DEF InOrder

-----------------------------------------------------------------------------
(* The inductive invariant of Tripwire                                     *)

DatabaseFile == [policy : Policy, db : DatabaseType]

ReportType ==
  [policy : Policy, ignored : SUBSET Property, verdicts : SUBSET VerdictType,
   fs : FileSystem, tree : Tree]

\* The files hold what they are for, or less.
FilesTyped(d) ==
  /\ d = [f \in File |-> d[f]]
  /\ d["policy"] \in Policy \cup {Missing, Broken}
  /\ d["database"] \in DatabaseFile \cup {Missing, Broken}

\* A report has what a check of the tree and the files in it found.
ReportsAreWhole ==
  \A r \in reports : r \in ReportType /\ r.verdicts = Left(r, r.tree)

\* What comes next when a thing was done to the files.
Follows(x, y) ==
  CASE x[2] = "drop"  -> y = <<x[1], "copy">>
    [] x[2] = "copy"  -> y = <<x[1], "open">>
    [] x[2] = "open"  -> y = <<x[1], "write">>
    [] x[2] = "write" -> x[1] = "policy" /\ y = <<"database", "drop">>

LastFile(mode) == IF mode = "create policy" THEN "policy" ELSE "database"

\* A plan ends when its last file is written.
IsPlan(todo, last) ==
  /\ todo \in Seq(File \X {"drop", "copy", "open", "write"})
  /\ Len(todo) # 0 /\ todo[Len(todo)] = <<last, "write">>
  /\ \A i \in 1 .. Len(todo) - 1 : Follows(todo[i], todo[i + 1])

JobType ==
  [mode : {"create policy", "init", "update", "policy update"}, policy : Policy,
   db : DatabaseType, report : {job.report}, high : BOOLEAN, todo : {job.todo}]

\* The file being written is in its backup before it is opened.
PlanIsSafe ==
  LET f == Head(job.todo)[1]
      s == Head(job.todo)[2]
  IN /\ s = "open" => disk[f] = Missing \/ bak[f] = disk[f]
     /\ s = "write" => disk[f] = Broken

\* The database file a mode read: while it writes its own, the backup.
AtDatabase == Head(job.todo) = <<"database", "write">>
Source     == IF AtDatabase THEN bak["database"] ELSE disk["database"]

SourceIsWhole ==
  Source \in DatabaseFile /\ (AtDatabase \/ IsRead("database"))

InitIsRight ==
  /\ job.report.fs \in FileSystem
  /\ job.db = Generated(job.policy, job.report.fs)

UpdateIsRight ==
  /\ SourceIsWhole
  /\ job.policy = Source.policy
  /\ job.report \in ReportType
  /\ job.report.verdicts \subseteq Left(job.report, job.report.tree)
  /\ job.db = Updated(Source.db, job.report.verdicts, FALSE)
  /\ job.high => ~HasConflicts(Source.db.tree, job.report.verdicts)

PolicyUpdateIsRight ==
  /\ SourceIsWhole
  /\ job.report.fs \in FileSystem
  /\ job.db = PolicyUpdated(job.policy, Source.db, job.report.fs)
  /\ job.high => \A v \in PolicyReport(job.policy, Source.db.tree, job.report.fs) :
                   ~Offends(Source.policy, job.policy, v)

\* What a mode is going to write was computed from the database it replaces.
JobIsRight ==
  /\ job \in JobType
  /\ IsPlan(job.todo, LastFile(job.mode))
  /\ PlanIsSafe
  /\ job.mode = "init" => InitIsRight
  /\ job.mode = "update" => UpdateIsRight
  /\ job.mode = "policy update" => PolicyUpdateIsRight

IInv ==
  /\ fs \in FileSystem
  /\ changes \in 0 .. MaxChanges
  /\ FilesTyped(disk) /\ FilesTyped(bak)
  /\ ReportsAreWhole
  /\ job # NoJob => JobIsRight

-----------------------------------------------------------------------------
(* Plans, and the steps of a mode that writes                              *)

LEMMA PlanStep ==
  ASSUME NEW todo, NEW last, IsPlan(todo, last)
  PROVE  /\ Head(todo) \in File \X {"drop", "copy", "open", "write"}
         /\ Len(todo) = 1 => Head(todo) = <<last, "write">>
         /\ Len(todo) # 1 => IsPlan(Tail(todo), last) /\ Follows(Head(todo), Head(Tail(todo)))
<1> DEFINE Step2 == File \X {"drop", "copy", "open", "write"}
<1>1. /\ todo \in Seq(Step2) /\ Len(todo) \in Nat \ {0}
      /\ todo[Len(todo)] = <<last, "write">>
      /\ \A i \in 1 .. Len(todo) - 1 : Follows(todo[i], todo[i + 1])
  BY DEF IsPlan
<1> HIDE DEF Step2
<1>2. Head(todo) = todo[1] /\ todo[1] \in Step2
  BY <1>1
<1>3. ASSUME Len(todo) # 1
      PROVE  IsPlan(Tail(todo), last) /\ Follows(Head(todo), Head(Tail(todo)))
  <2>1. PICK rest : rest = Tail(todo)
    OBVIOUS
  <2>2. /\ rest \in Seq(Step2) /\ Len(rest) = Len(todo) - 1
        /\ \A i \in 1 .. Len(rest) : rest[i] = todo[i + 1]
    BY <1>1, <1>3, <2>1
  <2>3. Len(rest) # 0 /\ rest[Len(rest)] = <<last, "write">>
    BY <1>1, <1>3, <2>2
  <2>4. ASSUME NEW i \in 1 .. Len(rest) - 1
        PROVE  Follows(rest[i], rest[i + 1])
    <3>1. rest[i] = todo[i + 1] /\ rest[i + 1] = todo[i + 1 + 1]
      BY <1>1, <2>2
    <3>2. i + 1 \in 1 .. Len(todo) - 1
      BY <1>1, <2>2
    <3> QED
      BY <1>1, <3>1, <3>2
  <2>5. IsPlan(rest, last)
    BY <2>2, <2>3, <2>4 DEF IsPlan, Step2
  <2>6. Head(rest) = todo[2]
    BY <1>1, <1>3, <2>2
  <2>7. Follows(todo[1], todo[2])
    <3>1. PICK k : k = Len(todo)
      OBVIOUS
    <3>2. k \in Nat /\ k # 0 /\ k # 1
      BY <1>1, <1>3, <3>1
    <3>3. 1 \in 1 .. k - 1
      BY <3>2
    <3>4. Follows(todo[1], todo[1 + 1])
      BY <1>1, <3>1, <3>3
    <3>5. 1 + 1 = 2
      OBVIOUS
    <3> QED
      BY <3>4, <3>5
  <2> QED
    BY <1>2, <2>1, <2>5, <2>6, <2>7
<1> QED
  BY <1>1, <1>2, <1>3 DEF Step2

\* The files are written as SaveStep's comment has it.
LEMMA SavesArePlans ==
  /\ \A f \in File : IsPlan(Save(f), f) /\ Head(Save(f)) = <<f, "drop">>
  /\ IsPlan(Save("policy") \o Save("database"), "database")
  /\ Head(Save("policy") \o Save("database")) = <<"policy", "drop">>
<1> DEFINE Step2 == File \X {"drop", "copy", "open", "write"}
<1>1. ASSUME NEW f \in File
      PROVE  /\ Save(f) \in Seq(Step2) /\ Len(Save(f)) = 4
             /\ Save(f)[1] = <<f, "drop">> /\ Save(f)[2] = <<f, "copy">>
             /\ Save(f)[3] = <<f, "open">> /\ Save(f)[4] = <<f, "write">>
  BY DEF Save
<1>2. ASSUME NEW f \in File
      PROVE  IsPlan(Save(f), f) /\ Head(Save(f)) = <<f, "drop">>
  <2>1. PICK s : s = Save(f)
    OBVIOUS
  <2>2. /\ Follows(<<f, "drop">>, <<f, "copy">>)
        /\ Follows(<<f, "copy">>, <<f, "open">>)
        /\ Follows(<<f, "open">>, <<f, "write">>)
    BY DEF Follows
  <2>3. /\ s \in Seq(Step2) /\ Len(s) = 4
        /\ s[1] = <<f, "drop">> /\ s[4] = <<f, "write">>
        /\ Follows(s[1], s[2]) /\ Follows(s[2], s[3]) /\ Follows(s[3], s[4])
    BY <1>1, <2>1, <2>2
  <2> HIDE DEF Step2
  <2>4. ASSUME NEW i \in 1 .. 3
        PROVE  Follows(s[i], s[i + 1])
    <3>1. CASE i = 1
      BY <2>3, <3>1
    <3>2. CASE i = 2
      BY <2>3, <3>2
    <3>3. CASE i = 3
      BY <2>3, <3>3
    <3> QED
      BY <3>1, <3>2, <3>3
  <2>5. Len(s) - 1 = 3 /\ Len(s) # 0
    BY <2>3
  <2>6. Head(s) = s[1]
    BY <2>3
  <2>7. IsPlan(s, f)
    BY <2>3, <2>4, <2>5 DEF IsPlan, Step2
  <2> QED
    BY <2>1, <2>3, <2>6, <2>7
<1>3. PICK a, b : a = Save("policy") /\ b = Save("database")
  OBVIOUS
<1>4. PICK s : s = a \o b
  OBVIOUS
<1>5. /\ a \in Seq(Step2) /\ Len(a) = 4 /\ b \in Seq(Step2) /\ Len(b) = 4
      /\ "policy" \in File /\ "database" \in File
  BY <1>1, <1>3 DEF File
<1>6. /\ s \in Seq(Step2) /\ Len(s) = 8
      /\ \A i \in 1 .. 4 : s[i] = a[i] /\ s[i + 4] = b[i]
  <2>1. PICK T : T = Step2
    OBVIOUS
  <2>2. a \in Seq(T) /\ b \in Seq(T)
    BY <1>5, <2>1
  <2> HIDE DEF Step2
  <2>3. s \in Seq(T) /\ Len(s) = Len(a) + Len(b)
    BY <1>4, <2>2, ConcatProperties
  <2>4. \A i \in 1 .. Len(a) + Len(b) : s[i] = IF i <= Len(a) THEN a[i] ELSE b[i - Len(a)]
    BY <1>4, <2>2, ConcatProperties
  <2>5. \A i \in 1 .. 8 : s[i] = IF i <= 4 THEN a[i] ELSE b[i - 4]
    BY <1>5, <2>4
  <2> QED
    BY <1>5, <2>1, <2>3, <2>5
<1>7. \A i \in 1 .. 3 : Follows(a[i], a[i + 1]) /\ Follows(b[i], b[i + 1])
  <2>1. IsPlan(a, "policy") /\ IsPlan(b, "database")
    BY <1>2, <1>3, <1>5
  <2>2. Len(a) - 1 = 3 /\ Len(b) - 1 = 3
    BY <1>5
  <2>3. /\ \A i \in 1 .. Len(a) - 1 : Follows(a[i], a[i + 1])
        /\ \A i \in 1 .. Len(b) - 1 : Follows(b[i], b[i + 1])
    BY <2>1 DEF IsPlan
  <2> QED
    BY <2>2, <2>3
<1>8. ASSUME NEW i \in 1 .. 7
      PROVE  Follows(s[i], s[i + 1])
  <2>1. CASE i \in 1 .. 3
    <3>1. Follows(a[i], a[i + 1])
      BY <1>7, <2>1
    <3> QED
      BY <1>6, <2>1, <3>1
  <2>2. CASE i = 4
    <3>1. s[4] = <<"policy", "write">> /\ s[5] = <<"database", "drop">>
      BY <1>1, <1>3, <1>5, <1>6
    <3> QED
      BY <2>2, <3>1 DEF Follows
  <2>3. CASE i \in 5 .. 7
    <3>1. i - 4 \in 1 .. 3 /\ i - 3 \in 1 .. 4 /\ i - 4 + 1 = i - 3
      BY <2>3
    <3>2. Follows(b[i - 4], b[i - 4 + 1])
      BY <1>7, <3>1
    <3>3. s[i - 4 + 4] = b[i - 4] /\ s[i - 3 + 4] = b[i - 3]
      BY <1>6, <3>1
    <3>4. i - 4 + 4 = i /\ i - 3 + 4 = i + 1
      OBVIOUS
    <3>5. s[i] = b[i - 4] /\ s[i + 1] = b[i - 3]
      BY <3>3, <3>4
    <3> QED
      BY <3>1, <3>2, <3>5
  <2> QED
    BY <2>1, <2>2, <2>3
<1>9. s[1] = <<"policy", "drop">> /\ s[8] = <<"database", "write">>
  BY <1>1, <1>3, <1>5, <1>6
<1>10. IsPlan(s, "database") /\ Head(s) = <<"policy", "drop">>
  <2>1. Len(s) - 1 = 7 /\ Len(s) # 0 /\ Head(s) = s[1]
    BY <1>6
  <2> HIDE DEF Step2
  <2>2. s \in Seq(Step2)
    BY <1>6
  <2> QED
    BY <1>6, <1>8, <1>9, <2>1, <2>2 DEF IsPlan, Step2
<1> QED
  BY <1>2, <1>3, <1>4, <1>10

\* What a step of a mode that writes does to the files.
LEMMA FilesWritten ==
  ASSUME IInv, SaveStep
  PROVE  LET f == Head(job.todo)[1]
             s == Head(job.todo)[2]
         IN /\ job # NoJob /\ JobIsRight
            /\ f \in File /\ s \in {"drop", "copy", "open", "write"}
            /\ Head(job.todo) = <<f, s>>
            /\ disk' = [g \in File |-> disk'[g]] /\ bak' = [g \in File |-> bak'[g]]
            /\ \A g \in File : g # f => disk'[g] = disk[g] /\ bak'[g] = bak[g]
            /\ disk'[f] = IF s = "open" THEN Broken
                          ELSE IF s = "write" THEN Output(f) ELSE disk[f]
            /\ bak'[f] = IF disk[f] = Missing \/ s \in {"open", "write"} THEN bak[f]
                         ELSE IF s = "drop" THEN Broken ELSE disk[f]
            /\ Len(job.todo) = 1 =>
                 Head(job.todo) = <<LastFile(job.mode), "write">> /\ job' = NoJob
            /\ Len(job.todo) # 1 =>
                 /\ job' = [job EXCEPT !.todo = Tail(job.todo)]
                 /\ IsPlan(Tail(job.todo), LastFile(job.mode))
                 /\ Follows(Head(job.todo), Head(Tail(job.todo)))
            /\ UNCHANGED <<fs, changes, reports>>
<1> DEFINE f == Head(job.todo)[1]
           s == Head(job.todo)[2]
<1>1. job # NoJob /\ JobIsRight
  BY DEF IInv, SaveStep, Idle
<1>2. /\ Head(job.todo) \in File \X {"drop", "copy", "open", "write"}
      /\ Len(job.todo) = 1 => Head(job.todo) = <<LastFile(job.mode), "write">>
      /\ Len(job.todo) # 1 => /\ IsPlan(Tail(job.todo), LastFile(job.mode))
                              /\ Follows(Head(job.todo), Head(Tail(job.todo)))
  BY <1>1, PlanStep DEF JobIsRight
<1>3. f \in File /\ s \in {"drop", "copy", "open", "write"} /\ Head(job.todo) = <<f, s>>
  BY <1>2
<1>4. /\ disk = [g \in File |-> disk[g]] /\ bak = [g \in File |-> bak[g]]
  BY DEF IInv, FilesTyped
<1>5. /\ bak'  = [bak EXCEPT ![f] =
                    CASE disk[f] = Missing \/ s \in {"open", "write"} -> bak[f]
                      [] disk[f] # Missing /\ s = "drop" -> Broken
                      [] disk[f] # Missing /\ s = "copy" -> disk[f]]
      /\ disk' = [disk EXCEPT ![f] = CASE s \in {"drop", "copy"} -> disk[f]
                                       [] s = "open"  -> Broken
                                       [] s = "write" -> Output(f)]
      /\ job' = IF Len(job.todo) = 1 THEN NoJob ELSE [job EXCEPT !.todo = Tail(job.todo)]
      /\ UNCHANGED <<fs, changes, reports>>
  BY DEF SaveStep
<1> HIDE DEF f, s
<1>6. /\ bak' = [g \in File |-> bak'[g]] /\ disk' = [g \in File |-> disk'[g]]
      /\ \A g \in File : g # f => disk'[g] = disk[g] /\ bak'[g] = bak[g]
  BY <1>3, <1>4, <1>5
<1>7. bak'[f] = CASE disk[f] = Missing \/ s \in {"open", "write"} -> bak[f]
                  [] disk[f] # Missing /\ s = "drop" -> Broken
                  [] disk[f] # Missing /\ s = "copy" -> disk[f]
  BY <1>3, <1>4, <1>5
<1>8. disk'[f] = CASE s \in {"drop", "copy"} -> disk[f]
                   [] s = "open"  -> Broken
                   [] s = "write" -> Output(f)
  BY <1>3, <1>4, <1>5
<1>9. bak'[f] = IF disk[f] = Missing \/ s \in {"open", "write"} THEN bak[f]
                ELSE IF s = "drop" THEN Broken ELSE disk[f]
  BY <1>3, <1>7
<1>10. disk'[f] = IF s = "open" THEN Broken
                  ELSE IF s = "write" THEN Output(f) ELSE disk[f]
  BY <1>3, <1>8
<1> QED
  BY <1>1, <1>2, <1>3, <1>5, <1>6, <1>9, <1>10 DEF f, s

LEMMA SaveStepKeepsInv ==
  ASSUME IInv, SaveStep
  PROVE  IInv'
<1> DEFINE f == Head(job.todo)[1]
           s == Head(job.todo)[2]
           t == Tail(job.todo)
<1>1. /\ job # NoJob /\ JobIsRight
      /\ f \in File /\ s \in {"drop", "copy", "open", "write"} /\ Head(job.todo) = <<f, s>>
      /\ disk' = [g \in File |-> disk'[g]] /\ bak' = [g \in File |-> bak'[g]]
      /\ \A g \in File : g # f => disk'[g] = disk[g] /\ bak'[g] = bak[g]
      /\ disk'[f] = IF s = "open" THEN Broken
                    ELSE IF s = "write" THEN Output(f) ELSE disk[f]
      /\ bak'[f] = IF disk[f] = Missing \/ s \in {"open", "write"} THEN bak[f]
                   ELSE IF s = "drop" THEN Broken ELSE disk[f]
      /\ Len(job.todo) = 1 =>
           Head(job.todo) = <<LastFile(job.mode), "write">> /\ job' = NoJob
      /\ Len(job.todo) # 1 =>
           /\ job' = [job EXCEPT !.todo = t]
           /\ IsPlan(t, LastFile(job.mode)) /\ Follows(Head(job.todo), Head(t))
      /\ UNCHANGED <<fs, changes, reports>>
  BY FilesWritten
<1>2. /\ job \in JobType /\ PlanIsSafe
      /\ job.mode = "init" => InitIsRight
      /\ job.mode = "update" => UpdateIsRight
      /\ job.mode = "policy update" => PolicyUpdateIsRight
  BY <1>1 DEF JobIsRight
<1>3. /\ s = "open" => disk[f] = Missing \/ bak[f] = disk[f]
      /\ s = "write" => disk[f] = Broken
  BY <1>2 DEF PlanIsSafe
<1>4. /\ fs \in FileSystem /\ changes \in 0 .. MaxChanges
      /\ FilesTyped(disk) /\ FilesTyped(bak) /\ ReportsAreWhole
  BY DEF IInv
<1> HIDE DEF f, s, t
<1>5. fs' \in FileSystem /\ changes' \in 0 .. MaxChanges /\ ReportsAreWhole'
  BY <1>1, <1>4 DEF ReportsAreWhole
<1>6. FilesTyped(disk)' /\ FilesTyped(bak)'
  <2>1. /\ f = "policy" => Output(f) \in Policy
        /\ f = "database" => Output(f) \in DatabaseFile
    BY <1>2 DEF JobType, DatabaseFile, Output
  <2>2. CASE f = "policy"
    BY <1>1, <1>4, <2>1, <2>2 DEF FilesTyped, File
  <2>3. CASE f = "database"
    BY <1>1, <1>4, <2>1, <2>3 DEF FilesTyped, File
  <2> QED
    BY <1>1, <2>2, <2>3 DEF File
<1>7. ASSUME job' # NoJob
      PROVE  JobIsRight'
  <2>1. /\ job' = [job EXCEPT !.todo = t]
        /\ IsPlan(t, LastFile(job.mode)) /\ Follows(<<f, s>>, Head(t))
    BY <1>1, <1>7
  <2>2. /\ job'.mode = job.mode /\ job'.policy = job.policy /\ job'.db = job.db
        /\ job'.report = job.report /\ job'.high = job.high /\ job'.todo = t
        /\ (job \in JobType)'
    BY <1>2, <2>1 DEF JobType
  <2>3. PICK f2 \in File, s2 \in {"drop", "copy", "open", "write"} : Head(t) = <<f2, s2>>
    <3>1. Head(t) \in File \X {"drop", "copy", "open", "write"}
      BY <2>1, PlanStep
    <3> QED
      BY <3>1
  <2>4. /\ s = "drop"  => f2 = f /\ s2 = "copy"
        /\ s = "copy"  => f2 = f /\ s2 = "open"
        /\ s = "open"  => f2 = f /\ s2 = "write"
        /\ s = "write" => f = "policy" /\ f2 = "database" /\ s2 = "drop"
    <3>1. Follows(<<f, s>>, <<f2, s2>>)
      BY <2>1, <2>3
    <3> QED
      BY <3>1 DEF Follows
  <2>5. PlanIsSafe'
    <3>1. /\ s2 = "open" => disk'[f2] = Missing \/ bak'[f2] = disk'[f2]
          /\ s2 = "write" => disk'[f2] = Broken
      BY <1>1, <2>4
    <3> QED
      BY <2>2, <2>3, <3>1 DEF PlanIsSafe
  <2>6. ASSUME SourceIsWhole
        PROVE  SourceIsWhole' /\ Source' = Source
    <3>1. AtDatabase <=> f = "database" /\ s = "write"
      BY <1>1 DEF AtDatabase
    <3>2. AtDatabase' <=> f2 = "database" /\ s2 = "write"
      BY <2>2, <2>3 DEF AtDatabase
    <3>3. ~AtDatabase
      BY <2>4, <3>1
    <3>4. disk["database"] \in DatabaseFile /\ IsRead("database") /\ Source = disk["database"]
      BY <2>6, <3>3 DEF SourceIsWhole, Source
    <3>5. CASE f = "database" /\ s = "open"
      <4>1. bak["database"] = disk["database"]
        BY <1>3, <3>4, <3>5 DEF IsRead
      <4>2. bak'["database"] = bak["database"]
        BY <1>1, <3>5
      <4>3. AtDatabase'
        BY <2>4, <3>2, <3>5
      <4> QED
        BY <3>4, <4>1, <4>2, <4>3 DEF SourceIsWhole, Source
    <3>6. CASE f = "policy" \/ s # "open"
      <4>1. ~AtDatabase'
        BY <1>1, <2>4, <3>2, <3>6
      <4>2. disk'["database"] = disk["database"]
        BY <1>1, <2>4, <3>6 DEF File
      <4> QED
        BY <3>4, <4>1, <4>2 DEF SourceIsWhole, Source, IsRead
    <3> QED
      BY <1>1, <3>5, <3>6 DEF File
  <2>7. IsPlan(job'.todo, LastFile(job'.mode))
    BY <2>1, <2>2
  <2>8. job'.mode = "init" => InitIsRight'
    BY <1>2, <2>2 DEF InitIsRight
  <2>9. job'.mode = "update" => UpdateIsRight'
    BY <1>2, <2>2, <2>6 DEF UpdateIsRight
  <2>10. job'.mode = "policy update" => PolicyUpdateIsRight'
    BY <1>2, <2>2, <2>6 DEF PolicyUpdateIsRight
  <2> QED
    BY <2>2, <2>5, <2>7, <2>8, <2>9, <2>10 DEF JobIsRight
<1> QED
  BY <1>5, <1>6, <1>7 DEF IInv

\* A mode that begins to write has what it read on the disk still.
LEMMA BeginKeepsInv ==
  ASSUME IInv,
         NEW mode \in {"create policy", "init", "update", "policy update"},
         NEW policy \in Policy, NEW db \in DatabaseType, NEW report, NEW high \in BOOLEAN,
         NEW todo, IsPlan(todo, LastFile(mode)),
         NEW f \in File, Head(todo) = <<f, "drop">>,
         Begin(mode, policy, db, report, high, todo)
  PROVE  /\ job'.mode = mode /\ job'.policy = policy /\ job'.db = db
         /\ job'.report = report /\ job'.high = high
         /\ Source' = disk["database"]
         /\ disk["database"] \in DatabaseFile /\ IsRead("database") => SourceIsWhole'
         /\ (/\ mode = "init" => InitIsRight'
             /\ mode = "update" => UpdateIsRight'
             /\ mode = "policy update" => PolicyUpdateIsRight') => IInv'
<1>1. /\ job' = [mode |-> mode, policy |-> policy, db |-> db,
                 report |-> report, high |-> high, todo |-> todo]
      /\ UNCHANGED <<fs, changes, disk, bak, reports>>
  BY DEF Begin
<1>2. /\ job'.mode = mode /\ job'.policy = policy /\ job'.db = db
      /\ job'.report = report /\ job'.high = high /\ job'.todo = todo
      /\ (job \in JobType)'
  BY <1>1 DEF JobType
<1>3. ~AtDatabase' /\ PlanIsSafe'
  <2>1. PICK h : h = Head(job'.todo)
    OBVIOUS
  <2>2. h = <<f, "drop">>
    BY <1>2, <2>1
  <2>3. h[1] = f /\ h[2] = "drop" /\ h # <<"database", "write">>
    BY <2>2
  <2>4. ~AtDatabase'
    BY <2>1, <2>3 DEF AtDatabase
  <2>5. PlanIsSafe'
    BY <2>1, <2>3 DEF PlanIsSafe
  <2> QED
    BY <2>4, <2>5
<1>4. Source' = disk["database"]
  BY <1>1, <1>3 DEF Source
<1>5. disk["database"] \in DatabaseFile /\ IsRead("database") => SourceIsWhole'
  BY <1>1, <1>3, <1>4 DEF SourceIsWhole, IsRead
<1>6. IsPlan(job'.todo, LastFile(job'.mode))
  BY <1>2
<1>7. ASSUME mode = "init" => InitIsRight', mode = "update" => UpdateIsRight',
             mode = "policy update" => PolicyUpdateIsRight'
      PROVE  JobIsRight'
  BY <1>2, <1>3, <1>6, <1>7 DEF JobIsRight
<1>8. /\ fs' \in FileSystem /\ changes' \in 0 .. MaxChanges
      /\ FilesTyped(disk)' /\ FilesTyped(bak)' /\ ReportsAreWhole'
  BY <1>1 DEF IInv, FilesTyped, ReportsAreWhole
<1> QED
  BY <1>2, <1>4, <1>5, <1>7, <1>8 DEF IInv

-----------------------------------------------------------------------------
(* The invariant is inductive                                              *)

LEMMA FilesAreRead ==
  ASSUME IInv
  PROVE  /\ IsRead("policy") => disk["policy"] \in Policy
         /\ IsRead("database") => /\ disk["database"] \in DatabaseFile
                                  /\ DbPolicy \in Policy /\ Database \in DatabaseType
                                  /\ Database.tree \in Tree
BY DEF IInv, FilesTyped, IsRead, DatabaseFile, DatabaseType, DbPolicy, Database

LEMMA InitHasInv == Init => IInv
<1> SUFFICES ASSUME Init
             PROVE  IInv
  OBVIOUS
<1>1. fs \in FileSystem /\ changes \in 0 .. MaxChanges
  BY InitialFsAreFs, BoundIsNumber DEF Init
<1>2. FilesTyped(disk) /\ FilesTyped(bak)
  BY DEF Init, FilesTyped, File
<1>3. ReportsAreWhole
  BY DEF Init, ReportsAreWhole
<1> QED
  BY <1>1, <1>2, <1>3 DEF Init, IInv

LEMMA CreatePolKeepsInv ==
  ASSUME IInv, NEW policy \in Policy, CreatePol(policy)
  PROVE  IInv'
<1>1. Empty \in DatabaseType
  <2>1. << >> \in [{} -> StoredObject] /\ DOMAIN << >> = {}
    OBVIOUS
  <2>2. << >> \in Tree
    <3>1. {} \in SUBSET FCOName
      OBVIOUS
    <3> QED
      BY <2>1, <3>1, Trees
  <2> QED
    BY <2>1, <2>2 DEF Empty, DatabaseType, Entries
<1>2. "policy" \in File /\ LastFile("create policy") = "policy"
  BY DEF File, LastFile
<1>3. IsPlan(Save("policy"), "policy") /\ Head(Save("policy")) = <<"policy", "drop">>
  BY <1>2, SavesArePlans
<1> QED
  BY <1>1, <1>2, <1>3, BeginKeepsInv DEF CreatePol

LEMMA InitDbKeepsInv ==
  ASSUME IInv, InitDb
  PROVE  IInv'
<1>1. PICK policy, db, report : /\ policy = disk["policy"] /\ db = Generated(policy, fs)
                                /\ report = [fs |-> fs]
  OBVIOUS
<1>2. policy \in Policy /\ fs \in FileSystem
  BY <1>1, FilesAreRead DEF InitDb, IInv
<1>3. db \in DatabaseType
  BY <1>1, <1>2, PoliciesAreSound, GeneratedIsDatabase
<1>4. "database" \in File /\ LastFile("init") = "database"
  BY DEF File, LastFile
<1>5. IsPlan(Save("database"), "database") /\ Head(Save("database")) = <<"database", "drop">>
  BY <1>4, SavesArePlans
<1>6. Begin("init", policy, db, report, FALSE, Save("database"))
  BY <1>1 DEF InitDb
<1>7. /\ job'.mode = "init" /\ job'.policy = policy /\ job'.db = db /\ job'.report = report
      /\ InitIsRight' => IInv'
  BY ZenonT(30), <1>2, <1>3, <1>4, <1>5, <1>6, BeginKeepsInv
<1>8. InitIsRight'
  BY <1>1, <1>2, <1>7 DEF InitIsRight
<1> QED
  BY <1>7, <1>8

\* Whether a job is right depends on the files and on the job.
LEMMA JobUnchanged ==
  ASSUME UNCHANGED <<disk, bak, job>>
  PROVE  JobIsRight' <=> JobIsRight
BY DEF JobIsRight, JobType, PlanIsSafe, InitIsRight, UpdateIsRight, PolicyUpdateIsRight,
       SourceIsWhole, Source, AtDatabase, IsRead

LEMMA CheckKeepsInv ==
  ASSUME IInv, NEW ignored \in SUBSET Property, Check(ignored)
  PROVE  IInv'
<1> DEFINE V == Verdicts(TrimProps(DbPolicy, ignored), Database.tree, fs, FALSE)
           r == [policy |-> DbPolicy, ignored |-> ignored, verdicts |-> V,
                 fs |-> fs, tree |-> Database.tree]
<1>1. DbPolicy \in Policy /\ Database.tree \in Tree /\ fs \in FileSystem
  BY FilesAreRead DEF Check, IInv
<1>2. V \in SUBSET VerdictType
  BY <1>1, PoliciesAreSound, VerdictsAreTyped
<1>3. /\ reports' = reports \cup {r}
      /\ UNCHANGED <<fs, changes, disk, bak, job>>
  BY DEF Check
<1>4. r.verdicts = Left(r, r.tree)
  BY DEF Left
<1> HIDE DEF V
<1>5. r \in ReportType
  BY <1>1, <1>2 DEF ReportType
<1> HIDE DEF r
<1>6. ReportsAreWhole'
  BY <1>3, <1>4, <1>5 DEF IInv, ReportsAreWhole
<1>7. /\ fs' \in FileSystem /\ changes' \in 0 .. MaxChanges
      /\ FilesTyped(disk)' /\ FilesTyped(bak)'
  BY <1>3 DEF IInv, FilesTyped
<1>8. job' # NoJob => JobIsRight'
  BY <1>3, JobUnchanged DEF IInv
<1> QED
  BY <1>6, <1>7, <1>8 DEF IInv

LEMMA UpdateDbKeepsInv ==
  ASSUME IInv, NEW r \in reports, NEW kept \in SUBSET r.verdicts, NEW high \in BOOLEAN,
         UpdateDb(r, kept, high)
  PROVE  IInv'
<1>1. PICK policy, old, db, report :
        /\ policy = DbPolicy /\ old = Database /\ db = Updated(old, kept, FALSE)
        /\ report = [r EXCEPT !.verdicts = kept]
  OBVIOUS
<1>2. /\ r \in ReportType /\ r.verdicts = Left(r, r.tree)
      /\ r.policy \in Policy /\ r.ignored \in SUBSET Property
      /\ r.tree \in Tree /\ r.fs \in FileSystem
  BY DEF IInv, ReportsAreWhole, ReportType
<1>3. /\ policy \in Policy /\ old \in DatabaseType /\ disk["database"] \in DatabaseFile
      /\ IsRead("database")
  BY <1>1, FilesAreRead DEF UpdateDb
<1>4. /\ report \in ReportType /\ report.verdicts = kept
      /\ report.policy = r.policy /\ report.ignored = r.ignored
      /\ report.tree = r.tree /\ report.fs = r.fs
  BY <1>1, <1>2 DEF ReportType
<1>5. Left(r, r.tree) \in SUBSET VerdictType /\ OneEach(Left(r, r.tree))
  BY <1>2, PoliciesAreSound, VerdictsAreTyped DEF Left
<1>6. kept \in SUBSET VerdictType /\ OneEach(kept)
  BY <1>2, <1>5 DEF OneEach
<1>7. db \in DatabaseType
  BY <1>1, <1>3, <1>6, ReportsAreFinite, UpdateFollows DEF Followed
<1>8. "database" \in File /\ LastFile("update") = "database"
  BY DEF File, LastFile
<1>9. IsPlan(Save("database"), "database") /\ Head(Save("database")) = <<"database", "drop">>
  BY <1>8, SavesArePlans
<1>10. Begin("update", policy, db, report, high, Save("database"))
  BY <1>1 DEF UpdateDb
<1>11. /\ job'.mode = "update" /\ job'.policy = policy /\ job'.db = db
       /\ job'.report = report /\ job'.high = high
       /\ Source' = disk["database"]
       /\ SourceIsWhole'
       /\ UpdateIsRight' => IInv'
  <2>1. /\ job'.mode = "update" /\ job'.policy = policy /\ job'.db = db
        /\ job'.report = report /\ job'.high = high
        /\ Source' = disk["database"]
        /\ disk["database"] \in DatabaseFile /\ IsRead("database") => SourceIsWhole'
        /\ (/\ "update" = "init" => InitIsRight'
            /\ "update" = "update" => UpdateIsRight'
            /\ "update" = "policy update" => PolicyUpdateIsRight') => IInv'
    BY <1>3, <1>7, <1>8, <1>9, <1>10, BeginKeepsInv
  <2> QED
    BY <1>3, <2>1
<1>12. Left(report, report.tree) = Left(r, r.tree)
  BY <1>4 DEF Left
<1>13. ~(high /\ HasConflicts(old.tree, kept))
  BY <1>1 DEF UpdateDb
<1>14. policy = Source'.policy /\ old = Source'.db
  BY <1>1, <1>11 DEF DbPolicy, Database
<1>15. UpdateIsRight'
  BY <1>1, <1>2, <1>4, <1>11, <1>12, <1>13, <1>14 DEF UpdateIsRight, Left
<1> QED
  BY <1>11, <1>15

LEMMA PolicyUpdateKeepsInv ==
  ASSUME IInv, NEW new \in Policy, NEW high \in BOOLEAN, PolicyUpdate(new, high)
  PROVE  IInv'
<1>1. PICK policy, old, db, report, todo :
        /\ policy = DbPolicy /\ old = Database /\ db = PolicyUpdated(new, old, fs)
        /\ report = [fs |-> fs] /\ todo = Save("policy") \o Save("database")
  OBVIOUS
<1>2. /\ policy \in Policy /\ old \in DatabaseType /\ disk["database"] \in DatabaseFile
      /\ IsRead("database") /\ fs \in FileSystem
  BY <1>1, FilesAreRead DEF PolicyUpdate, IInv
<1>3. db \in DatabaseType
  BY <1>1, <1>2, PolicyUpdateEffect
<1>4. "policy" \in File /\ LastFile("policy update") = "database"
  BY DEF File, LastFile
<1>5. IsPlan(todo, "database") /\ Head(todo) = <<"policy", "drop">>
  BY <1>1, SavesArePlans
<1>6. Begin("policy update", new, db, report, high, todo)
  BY <1>1 DEF PolicyUpdate
<1>7. /\ job'.mode = "policy update" /\ job'.policy = new /\ job'.db = db
      /\ job'.report = report /\ job'.high = high
      /\ Source' = disk["database"]
      /\ SourceIsWhole'
      /\ PolicyUpdateIsRight' => IInv'
  <2>1. /\ job'.mode = "policy update" /\ job'.policy = new /\ job'.db = db
        /\ job'.report = report /\ job'.high = high
        /\ Source' = disk["database"]
        /\ disk["database"] \in DatabaseFile /\ IsRead("database") => SourceIsWhole'
        /\ (/\ "policy update" = "init" => InitIsRight'
            /\ "policy update" = "update" => UpdateIsRight'
            /\ "policy update" = "policy update" => PolicyUpdateIsRight') => IInv'
    BY <1>2, <1>3, <1>4, <1>5, <1>6, BeginKeepsInv
  <2> QED
    BY <1>2, <2>1
<1>8. high => \A v \in PolicyReport(new, old.tree, fs) : ~Offends(policy, new, v)
  BY <1>1 DEF PolicyUpdate
<1>9. policy = Source'.policy /\ old = Source'.db
  BY <1>1, <1>7 DEF DbPolicy, Database
<1>10. job'.report.fs = fs
  <2>1. report.fs = fs
    BY <1>1
  <2> QED
    BY <1>7, <2>1
<1>11. PolicyUpdateIsRight'
  BY <1>1, <1>2, <1>7, <1>8, <1>9, <1>10 DEF PolicyUpdateIsRight
<1> QED
  BY <1>7, <1>11

\* The file system stays closed under directories.
LEMMA ChangeKeepsInv ==
  ASSUME IInv, NEW files \in FileSystem, Change(files)
  PROVE  IInv'
<1>1. /\ fs' = files /\ changes < MaxChanges /\ changes' = changes + 1
      /\ UNCHANGED <<disk, bak, reports, job>>
  BY DEF Change
<1>2. fs' \in FileSystem /\ changes' \in 0 .. MaxChanges
  BY <1>1, BoundIsNumber DEF IInv
<1>3. FilesTyped(disk)' /\ FilesTyped(bak)' /\ ReportsAreWhole'
  BY <1>1 DEF IInv, FilesTyped, ReportsAreWhole
<1>4. job' # NoJob => JobIsRight'
  BY <1>1, JobUnchanged DEF IInv
<1> QED
  BY <1>2, <1>3, <1>4 DEF IInv

LEMMA WriteKeepsInv ==
  ASSUME IInv, NEW n \in FCOName, NEW p \in Property, NEW v \in Value, Write(n, p, v)
  PROVE  IInv'
<1>1. PICK files : files = [fs EXCEPT ![n][p] = v]
  OBVIOUS
<1>2. /\ fs \in FileSystem /\ DOMAIN fs \in SUBSET FCOName /\ n \in DOMAIN fs
      /\ \A m \in DOMAIN fs : fs[m] \in Object /\ Parents(m) \subseteq DOMAIN fs
  BY Trees DEF IInv, Write
<1>3. [fs[n] EXCEPT ![p] = v] \in Object
  BY <1>2 DEF Object
<1>4. files = [m \in DOMAIN fs |-> IF m = n THEN [fs[n] EXCEPT ![p] = v] ELSE fs[m]]
  BY <1>1, <1>2, Trees
<1>5. files \in [DOMAIN fs -> Object]
  BY <1>2, <1>3, <1>4
<1>6. files \in FileSystem
  BY <1>2, <1>5, Trees
<1> QED
  BY <1>1, <1>6, ChangeKeepsInv DEF Write

LEMMA CreateKeepsInv ==
  ASSUME IInv, NEW n \in FCOName, NEW o \in Object, Create(n, o)
  PROVE  IInv'
<1>1. PICK S, files : /\ S = DOMAIN fs \cup {n}
                      /\ files = [m \in S |-> IF m = n THEN o ELSE fs[m]]
  OBVIOUS
<1>2. /\ fs \in FileSystem /\ DOMAIN fs \in SUBSET FCOName
      /\ \A m \in DOMAIN fs : fs[m] \in Object /\ Parents(m) \subseteq DOMAIN fs
  BY Trees DEF IInv
<1>3. S \in SUBSET FCOName /\ files \in [S -> Object]
  BY <1>1, <1>2
<1>4. Parents(n) \subseteq DOMAIN fs
  <2> SUFFICES ASSUME NEW m \in Parents(n)
               PROVE  m \in DOMAIN fs
    OBVIOUS
  <2>1. m \in FCOName
    BY NamesArePaths
  <2>2. /\ Len(n) \in Nat /\ Len(m) \in 1 .. Len(n) - 1 /\ m = SubSeq(n, 1, Len(m))
        /\ AtOrBelow(n, m)
    BY <2>1, NamePrefixes
  <2>3. n # m
    BY <2>2
  <2>4. Below(n, m)
    BY <2>1, <2>2, <2>3, NamesAreOrdered
  <2> QED
    BY <2>1, <2>4 DEF Create
<1>5. \A m \in S : Parents(m) \subseteq S
  BY <1>1, <1>2, <1>4
<1>6. files \in FileSystem
  BY <1>3, <1>5, Trees
<1> QED
  BY <1>1, <1>6, ChangeKeepsInv DEF Create

LEMMA UnlinkKeepsInv ==
  ASSUME IInv, NEW n \in FCOName, Unlink(n)
  PROVE  IInv'
<1>1. PICK S, files : /\ S = {m \in DOMAIN fs : ~AtOrBelow(m, n)}
                      /\ files = Restrict(fs, S)
  OBVIOUS
<1>2. /\ fs \in FileSystem /\ DOMAIN fs \in SUBSET FCOName
      /\ \A m \in DOMAIN fs : fs[m] \in Object /\ Parents(m) \subseteq DOMAIN fs
  BY Trees DEF IInv
<1>3. S \in SUBSET FCOName /\ files \in [S -> Object]
  BY <1>1, <1>2 DEF Restrict
<1>4. ASSUME NEW m \in S, NEW k \in Parents(m)
      PROVE  k \in S
  <2>1. m \in FCOName /\ k \in DOMAIN fs /\ k \in FCOName
    BY <1>1, <1>2
  <2>2. AtOrBelow(m, k)
    BY <2>1, NamePrefixes
  <2>3. ~AtOrBelow(k, n)
    BY <1>1, <2>1, <2>2, NamesAreOrdered
  <2> QED
    BY <1>1, <2>1, <2>3
<1>5. files \in FileSystem
  BY <1>3, <1>4, Trees
<1> QED
  BY <1>1, <1>5, ChangeKeepsInv DEF Unlink

\* Init establishes IInv and every step keeps it.
THEOREM InductiveInvariant == Spec => []IInv
<1>1. IInv /\ [Next]_vars => IInv'
  <2> SUFFICES ASSUME IInv, [Next]_vars
               PROVE  IInv'
    OBVIOUS
  <2>1. CASE SaveStep
    BY <2>1, SaveStepKeepsInv
  <2>2. CASE Die
    <3>1. job' = NoJob /\ UNCHANGED <<fs, changes, disk, bak, reports>>
      BY <2>2 DEF Die
    <3> QED
      BY <3>1 DEF IInv, FilesTyped, ReportsAreWhole
  <2>3. CASE InitDb
    BY <2>3, InitDbKeepsInv
  <2>4. ASSUME NEW policy \in Policy, CreatePol(policy)
        PROVE  IInv'
    BY <2>4, CreatePolKeepsInv
  <2>5. ASSUME NEW ignored \in SUBSET Property, Check(ignored)
        PROVE  IInv'
    BY <2>5, CheckKeepsInv
  <2>6. ASSUME NEW r \in reports, NEW kept \in SUBSET r.verdicts, NEW high \in BOOLEAN,
               UpdateDb(r, kept, high)
        PROVE  IInv'
    BY <2>6, UpdateDbKeepsInv
  <2>7. ASSUME NEW new \in Policy, NEW high \in BOOLEAN, PolicyUpdate(new, high)
        PROVE  IInv'
    BY <2>7, PolicyUpdateKeepsInv
  <2>8. ASSUME NEW n \in FCOName, NEW p \in Property, NEW v \in Value, Write(n, p, v)
        PROVE  IInv'
    BY <2>8, WriteKeepsInv
  <2>9. ASSUME NEW n \in FCOName, NEW o \in Object, Create(n, o)
        PROVE  IInv'
    BY <2>9, CreateKeepsInv
  <2>10. ASSUME NEW n \in FCOName, Unlink(n)
         PROVE  IInv'
    BY <2>10, UnlinkKeepsInv
  <2>11. CASE UNCHANGED vars
    <3>1. UNCHANGED <<fs, changes, disk, bak, reports, job>>
      BY <2>11 DEF vars
    <3>2. JobIsRight' <=> JobIsRight
      BY <3>1, JobUnchanged
    <3>3. FilesTyped(disk)' /\ FilesTyped(bak)' /\ ReportsAreWhole'
      BY <3>1 DEF IInv, FilesTyped, ReportsAreWhole
    <3> QED
      BY <3>1, <3>2, <3>3 DEF IInv
  <2> QED
    BY <2>1, <2>2, <2>3, <2>4, <2>5, <2>6, <2>7, <2>8, <2>9, <2>10, <2>11 DEF Next
<1> QED
  BY <1>1, InitHasInv, PTL DEF Spec

\* The files hold what they are for, or less, and what a mode is going to
\* write is a database.
THEOREM TypeCorrect == Spec => []TypeOK
<1>1. IInv => TypeOK
  <2> SUFFICES ASSUME IInv
               PROVE  TypeOK
    OBVIOUS
  <2>1. \A d \in DatabaseFile : IsDatabase(d)
    BY DEF DatabaseFile, DatabaseType, IsDatabase
  <2>2. ASSUME NEW d \in {disk, bak}
        PROVE  /\ d["policy"] \in Policy \cup {Missing, Broken}
               /\ d["database"] \in {Missing, Broken} \/ IsDatabase(d["database"])
    BY <2>1 DEF IInv, FilesTyped
  <2>3. ASSUME NEW r \in reports
        PROVE  \A v, w \in r.verdicts : v.name = w.name => v = w
    <3>1. /\ r.verdicts = Left(r, r.tree)
          /\ r.policy \in Policy /\ r.ignored \in SUBSET Property
          /\ r.tree \in Tree /\ r.fs \in FileSystem
      BY DEF IInv, ReportsAreWhole, ReportType
    <3>2. Sound(TrimProps(r.policy, r.ignored))
      BY <3>1, PoliciesAreSound
    <3>3. OneEach(Left(r, r.tree))
      BY <3>1, <3>2, VerdictsAreTyped DEF Left
    <3> QED
      BY <3>1, <3>3 DEF OneEach
  <2>4. ASSUME job # NoJob
        PROVE  IsDatabase(Output("database"))
    <3>1. Output("database") \in DatabaseFile
      BY <2>4 DEF IInv, JobIsRight, JobType, Output, DatabaseFile
    <3> QED
      BY <2>1, <3>1
  <2> QED
    BY <2>2, <2>3, <2>4 DEF IInv, TypeOK
<1> QED
  BY <1>1, InductiveInvariant, PTL

-----------------------------------------------------------------------------
(* What the modes do to the files                                          *)

\* Only a mode that writes changes the files.
LEMMA OthersLeaveFiles ==
  ASSUME [Next]_vars, ~SaveStep
  PROVE  UNCHANGED <<disk, bak>>
BY DEF Next, vars, Die, InitDb, CreatePol, Check, UpdateDb, PolicyUpdate, Begin,
       Write, Create, Unlink, Change

\* A file that can be read is overwritten only when its backup is a copy of
\* it.
THEOREM BackedUp == Spec => CopyBeforeOverwrite
<1>1. ASSUME IInv, [Next]_vars, NEW f \in File, disk'[f] # disk[f], IsRead(f)
      PROVE  bak'[f] = disk[f]
  <2>1. SaveStep
    BY <1>1, OthersLeaveFiles
  <2>2. PICK g, s : g = Head(job.todo)[1] /\ s = Head(job.todo)[2]
    OBVIOUS
  <2>3. /\ job # NoJob /\ JobIsRight
        /\ g \in File /\ s \in {"drop", "copy", "open", "write"}
        /\ \A h \in File : h # g => disk'[h] = disk[h]
        /\ disk'[g] = IF s = "open" THEN Broken
                      ELSE IF s = "write" THEN Output(g) ELSE disk[g]
        /\ bak'[g] = IF disk[g] = Missing \/ s \in {"open", "write"} THEN bak[g]
                     ELSE IF s = "drop" THEN Broken ELSE disk[g]
    BY <1>1, <2>1, <2>2, FilesWritten
  <2>4. /\ s = "open" => disk[g] = Missing \/ bak[g] = disk[g]
        /\ s = "write" => disk[g] = Broken
    BY <2>2, <2>3 DEF JobIsRight, PlanIsSafe
  <2> QED
    BY <1>1, <2>3, <2>4 DEF IsRead
<1>2. IInv /\ [Next]_vars =>
        [\A f \in File : disk'[f] # disk[f] /\ IsRead(f) => bak'[f] = disk[f]]_vars
  BY <1>1
<1> QED
  BY <1>2, InductiveInvariant, PTL DEF Spec, CopyBeforeOverwrite

\* A database is rebuilt by the last step of a mode, from the one that is now
\* the backup.
LEMMA RebuiltIsWrite ==
  ASSUME IInv, [Next]_vars, NEW mode, Rebuilt(mode)
  PROVE  /\ JobIsRight /\ job \in JobType /\ job.mode = mode
         /\ Source = Old
         /\ New' = [policy |-> job.policy, db |-> job.db]
         /\ New'.policy = job.policy /\ New'.db = job.db
<1>1. disk["database"] = Broken /\ disk'["database"] # Broken /\ job.mode = mode
  BY DEF Rebuilt
<1>2. SaveStep
  BY <1>1, OthersLeaveFiles
<1>3. PICK f, s : f = Head(job.todo)[1] /\ s = Head(job.todo)[2]
  OBVIOUS
<1>4. /\ JobIsRight /\ f \in File /\ s \in {"drop", "copy", "open", "write"}
      /\ Head(job.todo) = <<f, s>>
      /\ \A g \in File : g # f => disk'[g] = disk[g]
      /\ disk'[f] = IF s = "open" THEN Broken
                    ELSE IF s = "write" THEN Output(f) ELSE disk[f]
  BY <1>2, <1>3, FilesWritten
<1>5. f = "database" /\ s = "write" /\ disk'["database"] = Output("database")
  BY <1>1, <1>4 DEF File
<1>6. Source = Old
  BY <1>4, <1>5 DEF Source, AtDatabase, Old
<1>7. New' = [policy |-> job.policy, db |-> job.db]
  BY <1>5 DEF New, Output
<1>8. job \in JobType
  BY <1>4 DEF JobIsRight
<1> QED
  BY <1>1, <1>4, <1>6, <1>7, <1>8

\* A check of the file system the new database was made from, or put under
\* its policy against, has nothing to report.
THEOREM Settled == Spec => BaselineSettles
<1>1. ASSUME IInv, [Next]_vars, Rebuilt("init") \/ Rebuilt("policy update")
      PROVE  Verdicts(New'.policy, New'.db.tree, job.report.fs, FALSE) = {}
  <2>1. CASE Rebuilt("init")
    <3>1. /\ JobIsRight /\ job \in JobType /\ job.mode = "init"
          /\ New'.policy = job.policy /\ New'.db = job.db
      BY <1>1, <2>1, RebuiltIsWrite
    <3>2. /\ job.policy \in Policy /\ job.report.fs \in FileSystem
          /\ job.db = Generated(job.policy, job.report.fs)
          /\ job.db.tree \in Tree
      BY <3>1 DEF JobIsRight, JobType, InitIsRight, DatabaseType
    <3>3. InOrder(job.policy, job.db.tree, job.report.fs)
      BY <3>2, GeneratedIsInOrder
    <3>4. Verdicts(job.policy, job.db.tree, job.report.fs, FALSE) = {}
      BY <3>2, <3>3, NothingToReport
    <3> QED
      BY <3>1, <3>4
  <2>2. CASE Rebuilt("policy update")
    <3>1. /\ JobIsRight /\ job \in JobType /\ job.mode = "policy update"
          /\ New'.policy = job.policy /\ New'.db = job.db
      BY <1>1, <2>2, RebuiltIsWrite
    <3>2. /\ job.policy \in Policy /\ job.report.fs \in FileSystem
          /\ job.db = PolicyUpdated(job.policy, Source.db, job.report.fs)
          /\ job.db.tree \in Tree /\ Source.db \in DatabaseType
      BY <3>1 DEF JobIsRight, JobType, PolicyUpdateIsRight, SourceIsWhole, DatabaseFile,
                  DatabaseType
    <3>3. InOrder(job.policy, job.db.tree, job.report.fs)
      BY <3>2, PolicyUpdateEffect
    <3>4. Verdicts(job.policy, job.db.tree, job.report.fs, FALSE) = {}
      BY <3>2, <3>3, NothingToReport
    <3> QED
      BY <3>1, <3>4
  <2> QED
    BY <1>1, <2>1, <2>2
<1>2. IInv /\ [Next]_vars =>
        [Rebuilt("init") \/ Rebuilt("policy update") =>
           Verdicts(New'.policy, New'.db.tree, job.report.fs, FALSE) = {}]_vars
  BY <1>1
<1> QED
  BY <1>2, InductiveInvariant, PTL DEF Spec, BaselineSettles

\* What is read in an update, and what the report may hold.
LEMMA UpdateSource ==
  ASSUME IInv, [Next]_vars, Rebuilt("update")
  PROVE  /\ Old.db \in DatabaseType /\ Old.db.tree \in Tree
         /\ job.report \in ReportType
         /\ job.report.verdicts \in SUBSET VerdictType /\ OneEach(job.report.verdicts)
         /\ IsFiniteSet(job.report.verdicts)
         /\ job.report.verdicts \subseteq Left(job.report, job.report.tree)
         /\ New'.policy = Old.policy
         /\ New'.db = Updated(Old.db, job.report.verdicts, FALSE)
         /\ job.high => ~HasConflicts(Old.db.tree, job.report.verdicts)
<1>1. /\ JobIsRight /\ job.mode = "update" /\ Source = Old
      /\ New'.policy = job.policy /\ New'.db = job.db
  BY RebuiltIsWrite
<1>2. UpdateIsRight
  BY <1>1 DEF JobIsRight
<1>3. /\ Old \in DatabaseFile /\ job.policy = Old.policy
      /\ job.report \in ReportType
      /\ job.report.verdicts \subseteq Left(job.report, job.report.tree)
      /\ job.db = Updated(Old.db, job.report.verdicts, FALSE)
      /\ job.high => ~HasConflicts(Old.db.tree, job.report.verdicts)
  BY <1>1, <1>2 DEF UpdateIsRight, SourceIsWhole
<1>4. Old.db \in DatabaseType /\ Old.db.tree \in Tree
  BY <1>3 DEF DatabaseFile, DatabaseType
<1>5. /\ job.report.policy \in Policy /\ job.report.ignored \in SUBSET Property
      /\ job.report.tree \in Tree /\ job.report.fs \in FileSystem
      /\ job.report.verdicts \in SUBSET VerdictType
  BY <1>3 DEF ReportType
<1>6. OneEach(Left(job.report, job.report.tree))
  BY <1>5, PoliciesAreSound, VerdictsAreTyped DEF Left
<1>7. OneEach(job.report.verdicts)
  BY <1>3, <1>6 DEF OneEach
<1> QED
  BY <1>1, <1>3, <1>4, <1>5, <1>7, ReportsAreFinite

\* A verdict fits a database that is as it says.
LEMMA FittingIsAsSeen ==
  ASSUME NEW tree \in Tree, NEW v \in VerdictType, ~Conflict(tree, v)
  PROVE  AsSeen(v, tree)
<1>1. v.kind \in {"added", "removed", "changed"}
  BY DEF VerdictType
<1> QED
  BY <1>1 DEF Conflict, AsSeen, Differ

\* An update changes an object only where the database is as the report has
\* it; in high security mode all that was kept is.
THEOREM SeenIsChanged == Spec => OnlySeenIsChanged
<1> DEFINE Unseen(n) ==
             \/ n \notin DOMAIN Old.db.tree /\ n \notin DOMAIN New'.db.tree
             \/ n \in DOMAIN Old.db.tree \cap DOMAIN New'.db.tree /\ Old.db.tree[n] = New'.db.tree[n]
             \/ \E v \in job.report.verdicts : v.name = n /\ AsSeen(v, Old.db.tree)
<1>1. ASSUME IInv, [Next]_vars, Rebuilt("update")
      PROVE  /\ \A n \in FCOName : Unseen(n)
             /\ job.high => \A v \in job.report.verdicts : AsSeen(v, Old.db.tree)
  <2>1. PICK old, V : old = Old.db /\ V = job.report.verdicts
    OBVIOUS
  <2>2. /\ old \in DatabaseType /\ old.tree \in Tree
        /\ V \in SUBSET VerdictType /\ OneEach(V) /\ IsFiniteSet(V)
        /\ New'.db = Updated(old, V, FALSE)
        /\ job.high => ~HasConflicts(old.tree, V)
    BY <1>1, <2>1, UpdateSource
  <2>3. PICK new : new = Updated(old, V, FALSE)
    OBVIOUS
  <2>4. Followed(old, FALSE, old, Fitting(old.tree, V), new)
    BY <2>2, <2>3, UpdateFollows
  <2>5. ASSUME NEW n \in FCOName
        PROVE  Unseen(n)
    <3>1. CASE \E v \in Fitting(old.tree, V) : v.name = n
      <4>1. PICK v \in V : v.name = n /\ ~Conflict(old.tree, v)
        BY <3>1 DEF Fitting
      <4>2. AsSeen(v, old.tree)
        BY <2>2, <4>1, FittingIsAsSeen
      <4> QED
        BY <2>1, <4>1, <4>2
    <3>2. CASE \A v \in Fitting(old.tree, V) : v.name # n
      <4>1. At(new.tree, n) = At(old.tree, n)
        BY <2>4, <3>2 DEF Followed
      <4>2. \/ n \notin DOMAIN old.tree /\ n \notin DOMAIN new.tree
            \/ n \in DOMAIN old.tree \cap DOMAIN new.tree /\ old.tree[n] = new.tree[n]
        BY <4>1 DEF At
      <4> QED
        BY <2>1, <2>2, <2>3, <4>2
    <3> QED
      BY <3>1, <3>2
  <2>6. ASSUME job.high, NEW v \in V
        PROVE  AsSeen(v, old.tree)
    <3>1. ~Conflict(old.tree, v)
      BY <2>2, <2>6 DEF HasConflicts
    <3> QED
      BY <2>2, <3>1, FittingIsAsSeen
  <2> QED
    BY <2>1, <2>5, <2>6
<1>2. IInv /\ [Next]_vars =>
        [Rebuilt("update") =>
           /\ \A n \in FCOName : Unseen(n)
           /\ job.high => \A v \in job.report.verdicts : AsSeen(v, Old.db.tree)]_vars
  BY <1>1
<1> QED
  BY <1>2, InductiveInvariant, PTL DEF Spec, OnlySeenIsChanged

\* In high security mode a policy update that goes through has found what the
\* rules of both policies come to as the database has it.
LEMMA NothingHidden ==
  ASSUME NEW old \in Policy, NEW policy \in Policy, NEW db \in DatabaseType,
         NEW files \in FileSystem,
         \A v \in PolicyReport(policy, db.tree, files) : ~Offends(old, policy, v),
         NEW n \in FCOName, RuleOf(old, n) # {}, RuleOf(policy, n) # {}
  PROVE  LET tree == PolicyUpdated(policy, db, files).tree
         IN /\ n \in DOMAIN files <=> n \in DOMAIN db.tree
            /\ n \in DOMAIN db.tree =>
                 \A p \in DOMAIN db.tree[n] \cap DOMAIN tree[n] : db.tree[n][p] = tree[n][p]
<1> DEFINE V       == Verdicts(policy, db.tree, files, TRUE)
           checked == CheckedTree(policy, db.tree, files)
<1>1. PICK tree, new : tree = db.tree /\ new = PolicyUpdated(policy, db, files).tree
  OBVIOUS
<1>2. tree \in Tree
  BY <1>1 DEF DatabaseType
<1>3. Sound(policy)
  BY PoliciesAreSound
<1>4. PICK i \in RuleOf(policy, n) : TRUE
  OBVIOUS
<1>5. i \in DOMAIN policy /\ Walked(policy[i].spec, n) /\ policy[i].mask \subseteq Property
  BY <1>3, <1>4 DEF RuleOf, Sound
<1>6. InSpecList(old, n) /\ InSpecList(policy, n)
  BY WalkedIsContained DEF RuleOf, InSpecList
<1>7. PICK seen : seen = CalcProps(files[n], policy[i].mask)
  OBVIOUS
<1>8. ASSUME NEW w \in V, w.name = n
      PROVE  FALSE
  <2>1. /\ w \in VerdictType
        /\ \E j \in DOMAIN policy : Found(policy[j], tree, files, TRUE, w)
    BY <1>1, <1>2, <1>3, VerdictsAreTyped, VerdictsAreFound
  <2>2. checked \in Tree /\ DOMAIN checked = DOMAIN tree
    BY <1>1, <1>2, <1>3, CheckedTreeIs
  <2>3. w.kind = "changed" => w.name \in DOMAIN checked
    BY <2>1, <2>2, FoundKinds
  <2>4. PICK v : v = Corrected(checked, w)
    OBVIOUS
  <2> HIDE DEF checked, V
  <2>5. v.name = n /\ v.kind \in {"added", "removed", "changed"}
    <3>1. v.name = w.name /\ v.kind = w.kind
      BY <2>1, <2>2, <2>3, <2>4, CorrectedIs
    <3> QED
      BY <1>8, <2>1, <3>1 DEF VerdictType
  <2>6. v \in PolicyReport(policy, tree, files)
    <3>1. \A x : x \in PolicyReport(policy, tree, files) <=>
            \E y \in Verdicts(policy, tree, files, TRUE) :
              x = Corrected(CheckedTree(policy, tree, files), y)
      BY <1>2, <1>3, PolicyReportIs
    <3> QED
      BY <1>1, <1>8, <2>4, <3>1 DEF checked, V
  <2>7. Offends(old, policy, v)
    BY <1>6, <2>5 DEF Offends
  <2> QED
    BY <1>1, <2>6, <2>7
<1>9. \A w : w \in V <=> \E j \in DOMAIN policy : Found(policy[j], tree, files, TRUE, w)
  BY <1>1, <1>2, VerdictsAreFound
<1> HIDE DEF V, checked
<1>10. ~(n \in DOMAIN files \ DOMAIN tree)
  <2> SUFFICES ASSUME n \in DOMAIN files \ DOMAIN tree
               PROVE  FALSE
    OBVIOUS
  <2>1. PICK w : w = Added(n, seen)
    OBVIOUS
  <2>2. w.name = n
    BY <2>1 DEF Added
  <2>3. w \in V
    BY <1>5, <1>7, <1>9, <2>1, <2>2 DEF Found
  <2> QED
    BY <1>8, <2>2, <2>3
<1>11. ~(n \in DOMAIN tree \ DOMAIN files)
  <2> SUFFICES ASSUME n \in DOMAIN tree \ DOMAIN files
               PROVE  FALSE
    OBVIOUS
  <2>1. PICK w : w = Removed(n, tree[n])
    OBVIOUS
  <2>2. w.name = n
    BY <2>1 DEF Removed
  <2>3. w \in V
    BY <1>5, <1>9, <2>1, <2>2 DEF Found
  <2> QED
    BY <1>8, <2>2, <2>3
<1>12. ASSUME n \in DOMAIN tree, NEW p \in DOMAIN tree[n] \cap DOMAIN new[n]
       PROVE  tree[n][p] = new[n][p]
  <2>1. n \in DOMAIN tree \cap DOMAIN files
    BY <1>11, <1>12
  <2>2. ~Differ(tree[n], seen, Compared(tree[n], seen, policy[i].mask, TRUE))
    <3> SUFFICES ASSUME Differ(tree[n], seen, Compared(tree[n], seen, policy[i].mask, TRUE))
                 PROVE  FALSE
      OBVIOUS
    <3>1. PICK w : w = Changed(n, tree[n], seen)
      OBVIOUS
    <3>2. w.name = n
      BY <3>1 DEF Changed
    <3>3. w \in V
      BY <1>5, <1>7, <1>9, <2>1, <3>1, <3>2 DEF Found
    <3> QED
      BY <1>8, <3>2, <3>3
  <2>3. InOrder(policy, new, files)
    BY <1>1, PolicyUpdateEffect
  <2>4. At(new, n) = {seen}
    BY <1>4, <1>7, <2>1, <2>3 DEF InOrder
  <2>5. new[n] = seen
    BY <2>4 DEF At
  <2>6. DOMAIN seen = policy[i].mask
    BY <1>7 DEF CalcProps, Restrict
  <2> QED
    BY <1>12, <2>2, <2>5, <2>6 DEF Differ, Compared
<1> QED
  BY <1>1, <1>10, <1>11, <1>12, Trees

\* In high security mode a policy update makes no difference part of the
\* database in what the rules of both policies come to.
THEOREM NothingIsHidden == Spec => PolicyUpdateHidesNothing
<1> DEFINE Kept(n) ==
             RuleOf(Old.policy, n) # {} /\ RuleOf(New'.policy, n) # {} =>
               /\ n \in DOMAIN job.report.fs <=> n \in DOMAIN Old.db.tree
               /\ n \in DOMAIN Old.db.tree =>
                    \A p \in DOMAIN Old.db.tree[n] \cap DOMAIN New'.db.tree[n] :
                      Old.db.tree[n][p] = New'.db.tree[n][p]
<1>1. ASSUME IInv, [Next]_vars, Rebuilt("policy update"), job.high, NEW n \in FCOName
      PROVE  Kept(n)
  <2>1. /\ JobIsRight /\ job \in JobType /\ job.mode = "policy update" /\ Source = Old
        /\ New'.policy = job.policy /\ New'.db = job.db
    BY <1>1, RebuiltIsWrite
  <2>2. PICK old, policy, files :
          old = Old /\ policy = job.policy /\ files = job.report.fs
    OBVIOUS
  <2>3. /\ old \in DatabaseFile /\ policy \in Policy /\ files \in FileSystem
        /\ job.db = PolicyUpdated(policy, old.db, files)
        /\ \A v \in PolicyReport(policy, old.db.tree, files) : ~Offends(old.policy, policy, v)
    BY <1>1, <2>1, <2>2 DEF JobIsRight, JobType, PolicyUpdateIsRight, SourceIsWhole
  <2>4. old.policy \in Policy /\ old.db \in DatabaseType
    BY <2>3 DEF DatabaseFile
  <2> SUFFICES ASSUME RuleOf(old.policy, n) # {}, RuleOf(policy, n) # {}
               PROVE  /\ n \in DOMAIN files <=> n \in DOMAIN old.db.tree
                      /\ n \in DOMAIN old.db.tree =>
                           \A p \in DOMAIN old.db.tree[n] \cap DOMAIN job.db.tree[n] :
                             old.db.tree[n][p] = job.db.tree[n][p]
    BY <2>1, <2>2
  <2> QED
    BY <2>3, <2>4, NothingHidden
<1>2. IInv /\ [Next]_vars =>
        [Rebuilt("policy update") /\ job.high => \A n \in FCOName : Kept(n)]_vars
  BY <1>1
<1> QED
  BY <1>2, InductiveInvariant, PTL DEF Spec, PolicyUpdateHidesNothing

-----------------------------------------------------------------------------
(* What an update from a report of the same database leaves                *)

\* What a rule finds at a name depends on what the tree has at that name.
LEMMA FoundAt ==
  ASSUME NEW rule, NEW t, NEW u, NEW files, NEW validOnly, NEW v, At(t, v.name) = At(u, v.name)
  PROVE  Found(rule, t, files, validOnly, v) <=> Found(rule, u, files, validOnly, v)
<1>1. PICK n : n = v.name
  OBVIOUS
<1>2. CASE n \in DOMAIN t
  <2>1. n \in DOMAIN u /\ t[n] = u[n]
    BY <1>1, <1>2 DEF At
  <2> QED
    BY <1>1, <1>2, <2>1 DEF Found
<1>3. CASE n \notin DOMAIN t
  <2>1. n \notin DOMAIN u
    BY <1>1, <1>3 DEF At
  <2> QED
    BY <1>1, <1>3, <2>1 DEF Found
<1> QED
  BY <1>2, <1>3

\* What is found fits the tree it was found in.
LEMMA FoundIsNoConflict ==
  ASSUME NEW rule, NEW tree, NEW files, NEW validOnly, NEW v,
         Found(rule, tree, files, validOnly, v)
  PROVE  ~Conflict(tree, v)
<1>1. \A o : ~Differ(o, o, DOMAIN o)
  BY DEF Differ
<1>2. PICK n, new : n = v.name /\ new = CalcProps(files[n], rule.mask)
  OBVIOUS
<1>3. CASE n \in DOMAIN files \ DOMAIN tree /\ v = Added(n, new)
  <2>1. v.kind = "added"
    BY <1>3 DEF Added
  <2> QED
    BY <1>2, <1>3, <2>1 DEF Conflict
<1>4. CASE n \in DOMAIN tree \ DOMAIN files /\ v = Removed(n, tree[n])
  <2>1. v.kind = "removed"
    BY <1>4 DEF Removed
  <2> QED
    BY <1>2, <1>4, <2>1 DEF Conflict
<1>5. CASE n \in DOMAIN tree \cap DOMAIN files /\ v = Changed(n, tree[n], new)
  <2>1. v.kind = "changed" /\ v.old = tree[n]
    BY <1>5 DEF Changed
  <2> QED
    BY <1>1, <1>2, <1>5, <2>1 DEF Conflict
<1> QED
  BY <1>2, <1>3, <1>4, <1>5 DEF Found

\* In u the rule finds nothing of n, and what it is not about is as in tree.
SettledAt(rule, tree, files, n, u) ==
  /\ \A w : w.name = n => ~Found(rule, u, files, FALSE, w)
  /\ n \in DOMAIN tree \cap DOMAIN u =>
       /\ DOMAIN tree[n] \subseteq DOMAIN u[n]
       /\ \A p \in DOMAIN tree[n] \ rule.mask : u[n][p] = tree[n][p]

\* What was found and kept is what the tree has then.
LEMMA FoundOutcome ==
  ASSUME NEW rule, rule.mask \subseteq Property, NEW db, NEW files \in FileSystem, NEW v,
         Found(rule, db.tree, files, FALSE, v), NEW u,
         At(u, v.name) = Outcome(db, FALSE, v)
  PROVE  SettledAt(rule, db.tree, files, v.name, u)
<1>1. PICK n, new, t : n = v.name /\ new = CalcProps(files[n], rule.mask) /\ t = db.tree
  OBVIOUS
<1>2. DOMAIN new = rule.mask
  BY <1>1 DEF CalcProps, Restrict
<1> SUFFICES SettledAt(rule, t, files, n, u)
  BY <1>1
<1>3. CASE n \in DOMAIN files \ DOMAIN t /\ v = Added(n, new)
  <2>1. v.kind = "added" /\ v.new = new
    BY <1>3 DEF Added
  <2>2. At(u, n) = {new}
    BY <1>1, <2>1 DEF Outcome, Stored
  <2>3. n \in DOMAIN u /\ u[n] = new
    BY <2>2 DEF At
  <2>4. ~Differ(new, new, Compared(new, new, rule.mask, FALSE))
    BY DEF Differ, Compared
  <2> QED
    BY <1>1, <1>3, <2>3, <2>4 DEF Found, SettledAt
<1>4. CASE n \in DOMAIN t \ DOMAIN files /\ v = Removed(n, t[n])
  <2>1. v.kind = "removed"
    BY <1>4 DEF Removed
  <2>2. n \notin DOMAIN u
    BY <1>1, <2>1 DEF Outcome, At
  <2> QED
    BY <1>1, <1>4, <2>2 DEF Found, SettledAt
<1>5. CASE n \in DOMAIN t \cap DOMAIN files /\ v = Changed(n, t[n], new)
  <2>1. v.kind = "changed" /\ v.new = new
    BY <1>5 DEF Changed
  <2>2. At(u, n) = {Over(new, t[n])}
    BY <1>1, <2>1 DEF Outcome, Stored
  <2>3. n \in DOMAIN u /\ u[n] = Over(new, t[n])
    BY <2>2 DEF At
  <2>4. /\ DOMAIN u[n] = rule.mask \cup DOMAIN t[n]
        /\ \A p \in rule.mask : u[n][p] = new[p]
        /\ \A p \in DOMAIN t[n] \ rule.mask : u[n][p] = t[n][p]
    BY <1>2, <2>3 DEF Over
  <2>5. ~Differ(u[n], new, Compared(u[n], new, rule.mask, FALSE))
    BY <1>2, <2>4 DEF Differ, Compared
  <2> QED
    BY <1>1, <1>5, <2>3, <2>4, <2>5 DEF Found, SettledAt
<1> QED
  BY <1>1, <1>3, <1>4, <1>5 DEF Found

\* The tree u leaves the verdicts that were not kept, and what the rules are
\* not about as it is in tree.
SettledBy(policy, tree, files, kept, u) ==
  /\ Verdicts(policy, u, files, FALSE) = Verdicts(policy, tree, files, FALSE) \ kept
  /\ \A n \in DOMAIN tree \cap DOMAIN u :
       /\ DOMAIN tree[n] \subseteq DOMAIN u[n]
       /\ \A p \in DOMAIN tree[n] :
            (\A i \in DOMAIN policy : p \notin policy[i].mask) => u[n][p] = tree[n][p]

\* After an update with some verdicts of a check of the same database, that
\* check has the others; what the rules are not about is as it was.
LEMMA KeptIsSettled ==
  ASSUME NEW policy, Sound(policy), NEW db \in DatabaseType, NEW files \in FileSystem,
         NEW kept \in SUBSET Verdicts(policy, db.tree, files, FALSE)
  PROVE  SettledBy(policy, db.tree, files, kept, Updated(db, kept, FALSE).tree)
<1> DEFINE V == Verdicts(policy, db.tree, files, FALSE)
<1>1. PICK d, t, u : d = Updated(db, kept, FALSE) /\ t = db.tree /\ u = d.tree
  OBVIOUS
<1>2. t \in Tree
  BY <1>1 DEF DatabaseType
<1>3. V \in SUBSET VerdictType /\ OneEach(V)
  BY <1>1, <1>2, VerdictsAreTyped
<1>4. \A v : v \in V <=> \E i \in DOMAIN policy : Found(policy[i], t, files, FALSE, v)
  BY <1>1, <1>2, VerdictsAreFound
<1> HIDE DEF V
<1>5. kept \in SUBSET VerdictType /\ kept \subseteq V /\ OneEach(kept)
  BY <1>3 DEF OneEach, V
<1>6. Fitting(t, kept) = kept
  BY <1>4, <1>5, FoundIsNoConflict DEF Fitting
<1>7. Followed(db, FALSE, db, kept, d)
  <2>1. Followed(db, FALSE, db, Fitting(db.tree, kept), Updated(db, kept, FALSE))
    BY <1>5, ReportsAreFinite, UpdateFollows
  <2> QED
    BY <1>1, <1>6, <2>1
<1>8. /\ \A v \in kept : At(u, v.name) = Outcome(db, FALSE, v)
      /\ \A n \in FCOName : (\A v \in kept : v.name # n) => At(u, n) = At(t, n)
      /\ u \in Tree
  BY <1>1, <1>7 DEF Followed, DatabaseType
<1>9. ASSUME NEW v \in kept
      PROVE  /\ \A w : w.name = v.name =>
                  \A i \in DOMAIN policy : ~Found(policy[i], u, files, FALSE, w)
             /\ v.name \in DOMAIN t \cap DOMAIN u =>
                  /\ DOMAIN t[v.name] \subseteq DOMAIN u[v.name]
                  /\ \A p \in DOMAIN t[v.name] :
                       (\A i \in DOMAIN policy : p \notin policy[i].mask) =>
                         u[v.name][p] = t[v.name][p]
  <2>1. PICK i \in DOMAIN policy : Found(policy[i], t, files, FALSE, v)
    BY <1>4, <1>5
  <2>2. policy[i].mask \subseteq Property /\ v.name \in FCOName
    BY <1>5 DEF Sound, VerdictType
  <2>3. /\ \A w : w.name = v.name => ~Found(policy[i], u, files, FALSE, w)
        /\ v.name \in DOMAIN t \cap DOMAIN u =>
             /\ DOMAIN t[v.name] \subseteq DOMAIN u[v.name]
             /\ \A p \in DOMAIN t[v.name] \ policy[i].mask : u[v.name][p] = t[v.name][p]
    <3>1. PICK rule : rule = policy[i]
      OBVIOUS
    <3>2. /\ rule.mask \subseteq Property /\ Found(rule, db.tree, files, FALSE, v)
          /\ At(u, v.name) = Outcome(db, FALSE, v)
      BY <1>1, <1>8, <2>1, <2>2, <3>1
    <3>3. SettledAt(rule, db.tree, files, v.name, u)
      BY <3>2, FoundOutcome
    <3> QED
      BY <1>1, <3>1, <3>3 DEF SettledAt
  <2>4. ASSUME NEW w, w.name = v.name, NEW j \in DOMAIN policy,
               Found(policy[j], u, files, FALSE, w)
        PROVE  FALSE
    <3>1. j = i
      BY <2>1, <2>2, <2>4 DEF Found, RuleOf, Sound
    <3> QED
      BY <2>3, <2>4, <3>1
  <2> QED
    BY <2>3, <2>4
<1>10. Verdicts(policy, u, files, FALSE) = V \ kept
  <2> SUFFICES ASSUME NEW v
               PROVE  v \in Verdicts(policy, u, files, FALSE) <=> v \in V \ kept
    OBVIOUS
  <2>1. v \in Verdicts(policy, u, files, FALSE)
          <=> \E i \in DOMAIN policy : Found(policy[i], u, files, FALSE, v)
    BY <1>8, VerdictsAreFound
  <2>2. CASE \E k \in kept : k.name = v.name
    <3>1. PICK k \in kept : k.name = v.name
      BY <2>2
    <3>2. v \notin Verdicts(policy, u, files, FALSE)
      BY <1>9, <2>1, <3>1
    <3>3. v \in V => v = k
      BY <1>3, <1>5, <3>1 DEF OneEach
    <3> QED
      BY <3>1, <3>2, <3>3
  <2>3. CASE \A k \in kept : k.name # v.name
    <3>1. v \notin kept
      BY <2>3
    <3>2. ASSUME v.name \in FCOName
          PROVE  (\E i \in DOMAIN policy : Found(policy[i], u, files, FALSE, v)) <=> v \in V
      <4>1. At(u, v.name) = At(t, v.name)
        BY <1>8, <2>3, <3>2
      <4> QED
        BY <1>4, <4>1, FoundAt
    <3>3. v \in Verdicts(policy, u, files, FALSE) \/ v \in V => v.name \in FCOName
      <4>1. v \in Verdicts(policy, u, files, FALSE) => v \in VerdictType
        BY <1>8, VerdictsAreTyped
      <4> QED
        BY <1>3, <4>1 DEF VerdictType
    <3> QED
      BY <2>1, <3>1, <3>2, <3>3
  <2> QED
    BY <2>2, <2>3
<1>11. ASSUME NEW n \in DOMAIN t \cap DOMAIN u
       PROVE  /\ DOMAIN t[n] \subseteq DOMAIN u[n]
              /\ \A p \in DOMAIN t[n] :
                   (\A i \in DOMAIN policy : p \notin policy[i].mask) => u[n][p] = t[n][p]
  <2>1. CASE \E k \in kept : k.name = n
    BY <1>9, <2>1
  <2>2. CASE \A k \in kept : k.name # n
    <3>1. At(u, n) = At(t, n)
      BY <1>2, <1>8, <2>2, Trees
    <3>2. u[n] = t[n]
      BY <3>1 DEF At
    <3> QED
      BY <3>2
  <2> QED
    BY <2>1, <2>2
<1> QED
  BY <1>1, <1>10, <1>11 DEF V, SettledBy

\* After an update from a report of this database, a check of what the report
\* saw reports what was not kept, and nothing else; ignored properties stay.
THEOREM UpdateIsSettled == Spec => UpdateSettles
<1> DEFINE Settles ==
             /\ Left(job.report, New'.db.tree)
                  = Left(job.report, Old.db.tree) \ job.report.verdicts
             /\ \A n \in DOMAIN Old.db.tree \cap DOMAIN New'.db.tree :
                  /\ DOMAIN Old.db.tree[n] \subseteq DOMAIN New'.db.tree[n]
                  /\ \A p \in job.report.ignored \cap DOMAIN Old.db.tree[n] :
                       New'.db.tree[n][p] = Old.db.tree[n][p]
<1>1. ASSUME IInv, [Next]_vars, Rebuilt("update"), job.report.tree = Old.db.tree,
             job.report.policy = Old.policy
      PROVE  Settles
  <2>1. PICK old, r, policy :
          old = Old.db /\ r = job.report /\ policy = TrimProps(r.policy, r.ignored)
    OBVIOUS
  <2>2. /\ old \in DatabaseType /\ r \in ReportType /\ r.tree = old.tree
        /\ r.verdicts \subseteq Left(r, r.tree)
        /\ New'.db = Updated(old, r.verdicts, FALSE)
    BY <1>1, <2>1, UpdateSource
  <2>3. r.policy \in Policy /\ r.ignored \in SUBSET Property /\ r.fs \in FileSystem
    BY <2>2 DEF ReportType
  <2>4. /\ Sound(policy) /\ DOMAIN policy = DOMAIN r.policy
        /\ \A i \in DOMAIN policy : policy[i].mask = r.policy[i].mask \ r.ignored
    BY <2>1, <2>3, PoliciesAreSound
  <2>5. \A t : Left(r, t) = Verdicts(policy, t, r.fs, FALSE)
    BY <2>1 DEF Left
  <2>6. PICK u : u = Updated(old, r.verdicts, FALSE).tree
    OBVIOUS
  <2>7. r.verdicts \in SUBSET Verdicts(policy, old.tree, r.fs, FALSE)
    BY <2>2, <2>5
  <2>8. SettledBy(policy, old.tree, r.fs, r.verdicts, u)
    BY <2>2, <2>3, <2>4, <2>6, <2>7, KeptIsSettled
  <2>9. \A p \in r.ignored : \A i \in DOMAIN policy : p \notin policy[i].mask
    BY <2>4
  <2>10. /\ Left(r, u) = Left(r, old.tree) \ r.verdicts
         /\ \A n \in DOMAIN old.tree \cap DOMAIN u :
              /\ DOMAIN old.tree[n] \subseteq DOMAIN u[n]
              /\ \A p \in r.ignored \cap DOMAIN old.tree[n] : u[n][p] = old.tree[n][p]
    BY <2>4, <2>5, <2>8, <2>9 DEF SettledBy
  <2>11. New'.db.tree = u
    BY <2>2, <2>6
  <2> QED
    BY <2>1, <2>10, <2>11
<1>2. IInv /\ [Next]_vars =>
        [Rebuilt("update") /\ job.report.tree = Old.db.tree /\ job.report.policy = Old.policy
         => Settles]_vars
  BY <1>1
<1> QED
  BY <1>2, InductiveInvariant, PTL DEF Spec, UpdateSettles

-----------------------------------------------------------------------------
(* What is in a database fits its policy                                   *)

NoDepth(policy) == \A i \in DOMAIN policy : policy[i].spec.depth = Infinite

\* Without a recurse depth a walk comes to all that is in the rule's range.
LEMMA ContainedIsWalked ==
  ASSUME NEW policy \in Policy, NoDepth(policy), NEW i \in DOMAIN policy,
         NEW n \in FCOName, ContainsFCO(policy[i].spec, n)
  PROVE  i \in RuleOf(policy, n)
<1>1. PICK s : s = policy[i].spec
  OBVIOUS
<1>2. /\ s.start \in FCOName /\ \A p \in s.stops : p \in FCOName
      /\ s.depth = Infinite /\ ContainsFCO(s, n)
  BY <1>1, RulesAreRules DEF NoDepth
<1>3. Len(n) \in Nat /\ AtOrBelow(n, n) /\ SubSeq(n, 1, Len(n)) = n
  BY NamesLieOnWays, NamePrefixes
<1>4. CASE s.kind = "no children"
  <2>1. n = s.start
    BY <1>2, <1>4 DEF ContainsFCO
  <2>2. \A k \in Len(s.start) .. Len(n) : SubSeq(n, 1, k) = s.start
    <3>0. \A l \in Nat : \A k \in l .. l : k = l
      OBVIOUS
    <3>1. \A k \in Len(n) .. Len(n) : k = Len(n)
      BY <1>3, <3>0
    <3>2. \A k \in Len(n) .. Len(n) : SubSeq(n, 1, k) = n
      BY <1>3, <3>1
    <3> QED
      BY <2>1, <3>2
  <2>3. Walked(s, n)
    BY <1>3, <1>4, <2>1, <2>2 DEF Walked, ShouldStopDescent
  <2> QED
    BY <1>1, <2>3 DEF RuleOf
<1>5. CASE s.kind # "no children"
  <2>1. AtOrBelow(n, s.start) /\ \A p \in s.stops : ~AtOrBelow(n, p)
    BY <1>2, <1>5 DEF ContainsFCO
  <2>2. ASSUME NEW k \in Len(s.start) .. Len(n)
        PROVE  ~ShouldStopDescent(s, SubSeq(n, 1, k))
    <3>1. SubSeq(n, 1, k) \notin s.stops
      <4> SUFFICES ASSUME SubSeq(n, 1, k) \in s.stops
                   PROVE  FALSE
        OBVIOUS
      <4>1. PICK p \in s.stops : p = SubSeq(n, 1, k)
        OBVIOUS
      <4>2. Len(s.start) \in Nat /\ k \in 0 .. Len(n)
        <5>1. Len(s.start) \in Nat
          BY <1>2, NamesLieOnWays
        <5> QED
          BY <1>3, <5>1
      <4>3. Len(p) = k
        <5>1. n \in Seq(ToSet(n))
          BY NamesArePaths
        <5> QED
          BY <4>1, <4>2, <5>1, SubSeqProperties
      <4>4. Len(p) <= Len(n) /\ p = SubSeq(n, 1, Len(p))
        BY <1>3, <4>1, <4>2, <4>3
      <4>5. AtOrBelow(n, p)
        BY <1>2, <4>4, NamePrefixes
      <4> QED
        BY <2>1, <4>5
    <3> QED
      BY <1>2, <1>5, <3>1 DEF ShouldStopDescent, WithinDepth
  <2>3. Walked(s, n)
    BY <2>1, <2>2 DEF Walked
  <2> QED
    BY <1>1, <2>3 DEF RuleOf
<1> QED
  BY <1>4, <1>5

\* What is stored under a rule has the properties the rule is about.
LEMMA InOrderFits ==
  ASSUME NEW policy \in Policy, NEW tree \in Tree, NEW files, InOrder(policy, tree, files),
         \A n \in DOMAIN tree : RuleOf(policy, n) # {},
         NEW d, d.policy = policy, d.db.tree = tree
  PROVE  Fits(d)
<1> SUFFICES ASSUME NEW n \in DOMAIN tree
             PROVE  \E i \in DOMAIN policy :
                      /\ ContainsFCO(policy[i].spec, n)
                      /\ DOMAIN tree[n] \subseteq policy[i].mask
  BY DEF Fits
<1>1. n \in FCOName
  BY Trees
<1>2. PICK i \in RuleOf(policy, n) : TRUE
  OBVIOUS
<1>3. i \in DOMAIN policy /\ ContainsFCO(policy[i].spec, n)
  BY <1>1, <1>2, WalkedIsContained DEF RuleOf
<1>4. PICK new : new = CalcProps(files[n], policy[i].mask)
  OBVIOUS
<1>5. {tree[n]} = IF n \in DOMAIN files THEN {new} ELSE {}
  BY <1>1, <1>2, <1>4 DEF InOrder, At
<1>6. tree[n] = new
  BY <1>5
<1>7. DOMAIN new = policy[i].mask
  BY <1>4 DEF CalcProps, Restrict
<1> QED
  BY <1>3, <1>6, <1>7

\* An update of a database that fits its policy, from a check by that policy.
LEMMA UpdateFits ==
  ASSUME NEW policy \in Policy, NoDepth(policy), NEW ignored \in SUBSET Property,
         NEW old, old.policy = policy, old.db \in DatabaseType, Fits(old),
         NEW seen \in Tree, NEW files \in FileSystem,
         NEW kept \in SUBSET Verdicts(TrimProps(policy, ignored), seen, files, FALSE),
         NEW new, new.policy = policy, new.db = Updated(old.db, kept, FALSE)
  PROVE  Fits(new)
<1>1. PICK t, u, rules : t = old.db.tree /\ u = new.db.tree /\ rules = TrimProps(policy, ignored)
  OBVIOUS
<1>2. /\ Sound(rules) /\ DOMAIN rules = DOMAIN policy
      /\ \A i \in DOMAIN policy :
           rules[i].spec = policy[i].spec /\ rules[i].mask = policy[i].mask \ ignored
  BY <1>1, PoliciesAreSound
<1>3. /\ kept \in SUBSET VerdictType /\ OneEach(kept) /\ IsFiniteSet(kept)
      /\ \A v \in kept : \E i \in DOMAIN policy : Found(rules[i], seen, files, FALSE, v)
  <2>1. /\ Verdicts(rules, seen, files, FALSE) \in SUBSET VerdictType
        /\ OneEach(Verdicts(rules, seen, files, FALSE))
    BY <1>2, VerdictsAreTyped
  <2>2. kept \subseteq Verdicts(rules, seen, files, FALSE)
    BY <1>1
  <2>3. kept \in SUBSET VerdictType /\ OneEach(kept)
    BY <2>1, <2>2 DEF OneEach
  <2>4. \A v \in kept : \E i \in DOMAIN policy : Found(rules[i], seen, files, FALSE, v)
    BY <1>2, <2>2, VerdictsAreFound
  <2> QED
    BY <2>3, <2>4, ReportsAreFinite
<1>4. Followed(old.db, FALSE, old.db, Fitting(t, kept), new.db)
  BY <1>1, <1>3, UpdateFollows
<1>5. t \in Tree /\ u \in Tree
  BY <1>1, <1>4 DEF Followed, DatabaseType
<1>6. \A n \in DOMAIN t : \E i \in DOMAIN policy :
        ContainsFCO(policy[i].spec, n) /\ DOMAIN t[n] \subseteq policy[i].mask
  BY <1>1 DEF Fits
<1> SUFFICES ASSUME NEW n \in DOMAIN u
             PROVE  \E i \in DOMAIN policy :
                      ContainsFCO(policy[i].spec, n) /\ DOMAIN u[n] \subseteq policy[i].mask
  BY <1>1 DEF Fits
<1>7. n \in FCOName
  BY <1>5, Trees
<1>8. CASE \A v \in Fitting(t, kept) : v.name # n
  <2>1. At(u, n) = At(t, n)
    BY <1>1, <1>4, <1>7, <1>8 DEF Followed
  <2>2. n \in DOMAIN t /\ t[n] = u[n]
    BY <2>1 DEF At
  <2> QED
    BY <1>6, <2>2
<1>9. CASE \E v \in Fitting(t, kept) : v.name = n
  <2>1. PICK v \in kept : v.name = n /\ v \in Fitting(t, kept) /\ ~Conflict(t, v)
    BY <1>9 DEF Fitting
  <2>2. PICK i \in DOMAIN policy : Found(rules[i], seen, files, FALSE, v)
    BY <1>3
  <2>3. i \in RuleOf(policy, n)
    BY <1>2, <2>1, <2>2 DEF Found, RuleOf
  <2>4. ContainsFCO(policy[i].spec, n)
    BY <1>7, <2>3, WalkedIsContained DEF RuleOf
  <2>5. At(u, n) = Outcome(old.db, FALSE, v)
    BY <1>1, <1>4, <2>1 DEF Followed
  <2>6. u[n] = Stored(v, t, FALSE) /\ v.kind # "removed"
    BY <1>1, <2>5 DEF At, Outcome
  <2>7. DOMAIN v.new \subseteq policy[i].mask
    <3>1. PICK new1 : new1 = CalcProps(files[n], rules[i].mask)
      OBVIOUS
    <3>2. DOMAIN new1 = rules[i].mask
      BY <3>1 DEF CalcProps, Restrict
    <3>3. \/ v = Added(n, new1)
          \/ v = Removed(n, seen[n])
          \/ v = Changed(n, seen[n], new1)
      BY <2>1, <2>2, <3>1 DEF Found
    <3>4. v.new = new1
      BY <2>6, <3>3 DEF Added, Removed, Changed
    <3> QED
      BY <1>2, <3>2, <3>4
  <2>8. CASE v.kind = "changed"
    <3>1. n \in DOMAIN t
      BY <2>1, <2>8 DEF Conflict
    <3>2. PICK j \in DOMAIN policy :
            ContainsFCO(policy[j].spec, n) /\ DOMAIN t[n] \subseteq policy[j].mask
      BY <1>6, <3>1
    <3>3. j \in RuleOf(policy, n)
      BY <1>7, <3>2, ContainedIsWalked
    <3>4. j = i
      BY <1>7, <2>3, <3>3, PoliciesAreDisjoint
    <3>5. DOMAIN u[n] = DOMAIN v.new \cup DOMAIN t[n]
      BY <2>1, <2>6, <2>8 DEF Stored, Over
    <3> QED
      BY <2>4, <2>7, <3>2, <3>4, <3>5
  <2>9. CASE v.kind # "changed"
    BY <2>4, <2>6, <2>7, <2>9 DEF Stored
  <2> QED
    BY <2>8, <2>9
<1> QED
  BY <1>8, <1>9

\* No mode leaves a dead end, whatever the rules are: an entry without data
\* leads to an object, and but for a policy update child arrays are neither
\* empty nor missing.
THEOREM NoDeadEnds ==
  Spec => [][/\ Rebuilt("init") => Tidy(New'.db)
             /\ Rebuilt("policy update") => LeadsOn(New'.db)
             /\ Rebuilt("update") /\ Tidy(Old.db) => Tidy(New'.db)]_vars
<1>1. ASSUME IInv, [Next]_vars, Rebuilt("init")
      PROVE  Tidy(New'.db)
  <2>1. JobIsRight /\ job \in JobType /\ job.mode = "init" /\ New'.db = job.db
    BY <1>1, RebuiltIsWrite
  <2>2. /\ job.policy \in Policy /\ job.report.fs \in FileSystem
        /\ job.db = Generated(job.policy, job.report.fs)
    BY <2>1 DEF JobIsRight, JobType, InitIsRight
  <2> QED
    BY <2>1, <2>2, GeneratedIsDatabase
<1>2. ASSUME IInv, [Next]_vars, Rebuilt("policy update")
      PROVE  LeadsOn(New'.db)
  <2>1. JobIsRight /\ job \in JobType /\ job.mode = "policy update" /\ New'.db = job.db
    BY <1>2, RebuiltIsWrite
  <2>2. /\ job.policy \in Policy /\ job.report.fs \in FileSystem
        /\ job.db = PolicyUpdated(job.policy, Source.db, job.report.fs)
        /\ Source.db \in DatabaseType
    BY <2>1 DEF JobIsRight, JobType, PolicyUpdateIsRight, SourceIsWhole, DatabaseFile
  <2> QED
    BY <2>1, <2>2, PolicyUpdateEffect
<1>3. ASSUME IInv, [Next]_vars, Rebuilt("update"), Tidy(Old.db)
      PROVE  Tidy(New'.db)
  <2>1. PICK old, new, V : old = Old.db /\ new = New'.db /\ V = job.report.verdicts
    OBVIOUS
  <2>2. /\ old \in DatabaseType /\ Tidy(old)
        /\ V \in SUBSET VerdictType /\ OneEach(V) /\ IsFiniteSet(V)
        /\ new = Updated(old, V, FALSE)
    BY <1>3, <2>1, UpdateSource
  <2>3. Followed(old, FALSE, old, Fitting(old.tree, V), new)
    BY <2>2, UpdateFollows
  <2> QED
    BY <2>1, <2>2, <2>3 DEF Followed
<1>4. IInv /\ [Next]_vars =>
        [/\ Rebuilt("init") => Tidy(New'.db)
         /\ Rebuilt("policy update") => LeadsOn(New'.db)
         /\ Rebuilt("update") /\ Tidy(Old.db) => Tidy(New'.db)]_vars
  BY <1>1, <1>2, <1>3
<1> QED
  BY <1>4, InductiveInvariant, PTL DEF Spec

\* With rules that have no recurse depth a database holds what its policy is
\* about, and no dead ends.  (With one, an object too deep for a walk keeps the
\* properties it had under another policy.)
THEOREM DatabasesFit ==
  ASSUME \A policy \in Policy : NoDepth(policy)
  PROVE  Spec => FitsPolicy
<1>1. ASSUME IInv, [Next]_vars, Rebuilt("init")
      PROVE  Fits(New')
  <2>1. /\ JobIsRight /\ job \in JobType /\ job.mode = "init"
        /\ New'.policy = job.policy /\ New'.db = job.db
    BY <1>1, RebuiltIsWrite
  <2>2. PICK policy, files, tree :
          policy = job.policy /\ files = job.report.fs /\ tree = Generated(policy, files).tree
    OBVIOUS
  <2>3. policy \in Policy /\ files \in FileSystem /\ New'.db.tree = tree
    BY <2>1, <2>2 DEF JobIsRight, JobType, InitIsRight
  <2>4. InOrder(policy, tree, files) /\ tree = GeneratedTree(policy, files)
    BY <2>2, <2>3, GeneratedIsInOrder DEF Generated
  <2>5. tree \in Tree /\ \A n \in DOMAIN tree : RuleOf(policy, n) # {}
    BY <2>3, <2>4, PoliciesAreSound, GeneratedTreeIs, Trees
  <2> QED
    BY <2>1, <2>2, <2>3, <2>4, <2>5, InOrderFits
<1>2. ASSUME IInv, [Next]_vars, Rebuilt("policy update")
      PROVE  Fits(New')
  <2>1. /\ JobIsRight /\ job \in JobType /\ job.mode = "policy update"
        /\ New'.policy = job.policy /\ New'.db = job.db
    BY <1>2, RebuiltIsWrite
  <2>2. PICK policy, files, tree, db :
          /\ policy = job.policy /\ files = job.report.fs /\ db = Source.db
          /\ tree = PolicyUpdated(policy, db, files).tree
    OBVIOUS
  <2>3. policy \in Policy /\ files \in FileSystem /\ New'.db.tree = tree /\ db \in DatabaseType
    BY <2>1, <2>2 DEF JobIsRight, JobType, PolicyUpdateIsRight, SourceIsWhole, DatabaseFile
  <2>4. /\ InOrder(policy, tree, files) /\ tree \in Tree
        /\ \A n \in DOMAIN tree : n \in FCOName /\ InSpecList(policy, n)
    BY <2>2, <2>3, PolicyUpdateEffect DEF DatabaseType
  <2>5. \A n \in DOMAIN tree : RuleOf(policy, n) # {}
    BY <2>3, <2>4, ContainedIsWalked DEF InSpecList
  <2> QED
    BY <2>1, <2>2, <2>3, <2>4, <2>5, InOrderFits
<1>3. ASSUME IInv, [Next]_vars, Rebuilt("update"), Fits(Old), job.report.policy = Old.policy
      PROVE  Fits(New')
  <2>1. PICK old, new, r : old = Old /\ new = New' /\ r = job.report
    OBVIOUS
  <2>2. /\ old.db \in DatabaseType /\ r \in ReportType
        /\ r.verdicts \subseteq Left(r, r.tree)
        /\ new.policy = old.policy /\ new.db = Updated(old.db, r.verdicts, FALSE)
        /\ r.policy = old.policy
    BY <1>3, <2>1, UpdateSource
  <2>3. /\ r.policy \in Policy /\ r.ignored \in SUBSET Property
        /\ r.tree \in Tree /\ r.fs \in FileSystem
    BY <2>2 DEF ReportType
  <2>4. r.verdicts \in SUBSET Verdicts(TrimProps(r.policy, r.ignored), r.tree, r.fs, FALSE)
    BY <2>2 DEF Left
  <2>5. Fits(old)
    BY <1>3, <2>1
  <2>6. Fits(new)
    BY <2>2, <2>3, <2>4, <2>5, UpdateFits
  <2> QED
    BY <2>1, <2>6
<1>4. IInv /\ [Next]_vars =>
        [Rebuilt("init") \/ Rebuilt("policy update")
         \/ (Rebuilt("update") /\ Fits(Old) /\ job.report.policy = Old.policy)
         => Fits(New')]_vars
  BY <1>1, <1>2, <1>3
<1> QED
  BY <1>4, InductiveInvariant, NoDeadEnds, PTL DEF Spec, FitsPolicy
=============================================================================
