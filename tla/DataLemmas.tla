----------------------------- MODULE DataLemmas -----------------------------
(***************************************************************************)
(* Induction over the numbers, the length of a list and finite sets, with  *)
(* sets for predicates and functions for steps, and what the other proofs  *)
(* need of lists, products and least numbers.                              *)
(***************************************************************************)
EXTENDS SequenceTheorems, SequencesExt, FiniteSetTheorems, WellFoundedInduction, TLAPS

\* Induction: a set that holds 0 and with each number the next holds them all.
LEMMA NatSetInduction ==
  ASSUME NEW S, 0 \in S, \A n \in Nat : n \in S => n + 1 \in S
  PROVE  Nat \subseteq S
<1> DEFINE T == {n \in Nat : n \notin S}
<1>1. SUFFICES ASSUME T # {} PROVE FALSE
  OBVIOUS
<1>2. PICK x \in T : \A y \in T : ~ (<<y, x>> \in OpToRel(<, Nat))
  BY <1>1, WFMin, NatLessThanWellFounded
<1>3. x # 0 /\ x - 1 \in Nat
  OBVIOUS
<1>4. x - 1 \in T
  BY <1>3
<1>5. <<x - 1, x>> \in OpToRel(<, Nat)
  BY <1>3 DEF OpToRel
<1> QED
  BY <1>2, <1>4, <1>5

\* Recursion: what is computed one step after another is a function.
LEMMA IteratedFunction ==
  ASSUME NEW T, NEW first \in T, NEW N \in Nat, NEW step \in [1 .. N -> [T -> T]]
  PROVE  \E f \in [0 .. N -> T] :
           f[0] = first /\ \A n \in 1 .. N : f[n] = step[n][f[n - 1]]
<1> DEFINE Iterates(m, f) ==
             /\ f \in [0 .. m -> T]
             /\ f[0] = first
             /\ \A n \in 1 .. m : f[n] = step[n][f[n - 1]]
           S == {m \in Nat : m <= N => \E f : Iterates(m, f)}
<1>1. 0 \in S
  <2>1. Iterates(0, [n \in 0 .. 0 |-> first])
    OBVIOUS
  <2> QED
    BY <2>1
<1>2. ASSUME NEW m \in Nat, m \in S
      PROVE  m + 1 \in S
  <2> SUFFICES ASSUME m + 1 <= N
               PROVE  \E g : Iterates(m + 1, g)
    OBVIOUS
  <2>1. PICK f : Iterates(m, f)
    BY <1>2
  <2> DEFINE g == [n \in 0 .. m + 1 |-> IF n = m + 1 THEN step[m + 1][f[m]] ELSE f[n]]
  <2>2. Iterates(m + 1, g)
    BY <2>1
  <2> HIDE DEF Iterates, g
  <2> QED
    BY <2>2
<1>3. N \in S
  BY <1>1, <1>2, NatSetInduction
<1> QED
  BY <1>3

\* Induction: a set that holds the empty set, and each subset of S from which it
\* holds all that lack one element, holds every subset of S.
LEMMA FiniteSetInduction ==
  ASSUME NEW S, IsFiniteSet(S), NEW C, {} \in C,
         \A s \in SUBSET S : s # {} /\ (\A x \in s : s \ {x} \in C) => s \in C
  PROVE  SUBSET S \subseteq C
<1> DEFINE N == {n \in Nat : \A s \in SUBSET S : Cardinality(s) = n => s \in C}
<1>1. \A s \in SUBSET S : /\ IsFiniteSet(s) /\ Cardinality(s) \in Nat
                          /\ Cardinality(s) = 0 <=> s = {}
  BY FS_Subset, FS_CardinalityType, FS_EmptySet
<1>2. 0 \in N
  BY <1>1, FS_EmptySet
<1>3. ASSUME NEW n \in Nat, n \in N
      PROVE  n + 1 \in N
  <2> SUFFICES ASSUME NEW s \in SUBSET S, Cardinality(s) = n + 1
               PROVE  s \in C
    OBVIOUS
  <2>1. s # {}
    BY <1>1
  <2>2. ASSUME NEW x \in s
        PROVE  s \ {x} \in C
    <3>1. Cardinality(s \ {x}) = n
      BY <1>1, FS_RemoveElement
    <3> QED
      BY <1>3, <3>1
  <2> QED
    BY <2>1, <2>2
<1>4. Nat \subseteq N
  <2> HIDE DEF N
  <2> QED
    BY <1>2, <1>3, NatSetInduction
<1> QED
  BY <1>1, <1>4

\* f is what folding over S comes to, subset by subset.
IsFold(f, S, T, base, step, pick) ==
  /\ f \in [SUBSET S -> T]
  /\ \A s \in SUBSET S : f[s] = IF s = {} THEN base
                                 ELSE step[pick[s]][f[s \ {pick[s]}]]

\* Recursion: what is folded over a finite set, the element to come next
\* chosen in any way, is a function of the set.
LEMMA FoldedFunction ==
  ASSUME NEW S, IsFiniteSet(S), NEW T, NEW base \in T,
         NEW step \in [S -> [T -> T]], NEW pick, \A s \in SUBSET S : s # {} => pick[s] \in s
  PROVE  \E f : IsFold(f, S, T, base, step, pick)
<1> DEFINE Upto(n) == {s \in SUBSET S : Cardinality(s) <= n}
           Folds(n, f) ==
             /\ f \in [Upto(n) -> T]
             /\ \A s \in Upto(n) : f[s] = IF s = {} THEN base
                                          ELSE step[pick[s]][f[s \ {pick[s]}]]
           N == {n \in Nat : \E f : Folds(n, f)}
<1>1. \A s \in SUBSET S : /\ IsFiniteSet(s) /\ Cardinality(s) \in Nat
                          /\ Cardinality(s) <= Cardinality(S)
                          /\ Cardinality(s) = 0 <=> s = {}
  BY FS_Subset, FS_CardinalityType, FS_EmptySet
<1>2. \A s \in SUBSET S : \A x \in s : Cardinality(s \ {x}) = Cardinality(s) - 1
  BY <1>1, FS_RemoveElement
<1>3. 0 \in N
  <2>1. Upto(0) = {{}}
    BY <1>1
  <2>2. Folds(0, [s \in Upto(0) |-> base])
    BY <2>1
  <2> QED
    BY <2>2
<1>4. ASSUME NEW n \in Nat, n \in N
      PROVE  n + 1 \in N
  <2>1. PICK f : Folds(n, f)
    BY <1>4
  <2> DEFINE g == [s \in Upto(n + 1) |->
                     IF s \in Upto(n) THEN f[s] ELSE step[pick[s]][f[s \ {pick[s]}]]]
  <2>2. ASSUME NEW s \in Upto(n + 1), s # {}
        PROVE  pick[s] \in S /\ s \ {pick[s]} \in Upto(n)
    BY <1>1, <1>2, <2>2
  <2>3. Upto(n) \subseteq Upto(n + 1)
    BY <1>1
  <2>4. {} \in Upto(n)
    BY <1>1
  <2>5. ASSUME NEW s \in Upto(n + 1)
        PROVE  g[s] \in T /\ g[s] = IF s = {} THEN base
                                    ELSE step[pick[s]][g[s \ {pick[s]}]]
    <3>1. CASE s \in Upto(n)
      <4>1. g[s] = f[s] /\ f[s] \in T
        BY <2>1, <3>1
      <4>2. s # {} => g[s \ {pick[s]}] = f[s \ {pick[s]}]
        BY <2>2, <2>3
      <4> QED
        BY <2>1, <3>1, <4>1, <4>2
    <3>2. CASE s \notin Upto(n)
      <4>1. s # {}
        BY <2>4, <3>2
      <4>2. f[s \ {pick[s]}] \in T /\ g[s \ {pick[s]}] = f[s \ {pick[s]}]
        BY <2>1, <2>2, <2>3, <4>1
      <4>3. g[s] = step[pick[s]][f[s \ {pick[s]}]]
        BY <3>2
      <4>4. pick[s] \in S
        BY <2>2, <4>1
      <4>5. step[pick[s]] \in [T -> T]
        BY <4>4
      <4> HIDE DEF g, Upto
      <4>6. g[s] \in T
        BY <4>2, <4>3, <4>5
      <4> QED
        BY <4>1, <4>2, <4>3, <4>6
    <3> QED
      BY <3>1, <3>2
  <2>6. Folds(n + 1, g)
    BY <2>5
  <2> HIDE DEF Folds, g
  <2> QED
    BY <2>6
<1>5. Cardinality(S) \in N
  <2>1. Cardinality(S) \in Nat
    BY FS_CardinalityType
  <2>2. Nat \subseteq N
    <3> HIDE DEF N
    <3> QED
      BY <1>3, <1>4, NatSetInduction
  <2> QED
    BY <2>1, <2>2
<1>6. Upto(Cardinality(S)) = SUBSET S
  BY <1>1
<1>7. PICK f : Folds(Cardinality(S), f)
  BY <1>5
<1> QED
  BY <1>6, <1>7 DEF IsFold

\* A list that is not empty: its first element, and the rest.
LEMMA ListStep ==
  ASSUME NEW S, NEW s \in Seq(S), s # << >>
  PROVE  /\ Head(s) \in S
         /\ Tail(s) \in Seq(S)
         /\ ToSet(s) = {Head(s)} \cup ToSet(Tail(s))
<1>1. /\ Head(s) \in S
      /\ Tail(s) \in Seq(S)
      /\ Len(Tail(s)) = Len(s) - 1
      /\ \A i \in 1 .. Len(Tail(s)) : Tail(s)[i] = s[i + 1]
  BY HeadTailProperties
<1>2. /\ Len(s) \in Nat \ {0}
      /\ DOMAIN s = 1 .. Len(s)
      /\ DOMAIN Tail(s) = 1 .. Len(Tail(s))
  BY <1>1, EmptySeq, LenProperties
<1>3. Head(s) = s[1]
  OBVIOUS
<1>4. ASSUME NEW i \in DOMAIN s
      PROVE  s[i] \in {Head(s)} \cup ToSet(Tail(s))
  <2>1. CASE i = 1
    BY <1>3, <2>1
  <2>2. CASE i # 1
    <3>1. i - 1 \in DOMAIN Tail(s) /\ Tail(s)[i - 1] = s[i]
      BY <1>1, <1>2, <2>2
    <3> QED
      BY <3>1 DEF ToSet
  <2> QED
    BY <2>1, <2>2
<1>5. ASSUME NEW i \in DOMAIN Tail(s)
      PROVE  Tail(s)[i] \in ToSet(s)
  <2>1. i + 1 \in DOMAIN s /\ Tail(s)[i] = s[i + 1]
    BY <1>1, <1>2
  <2> QED
    BY <2>1 DEF ToSet
<1>6. Head(s) \in ToSet(s)
  BY <1>2, <1>3 DEF ToSet
<1> QED
  BY <1>1, <1>4, <1>5, <1>6 DEF ToSet

\* A list and one element more.
LEMMA ListAppend ==
  ASSUME NEW S, NEW s \in Seq(S), NEW x \in S
  PROVE  /\ Append(s, x) \in Seq(S)
         /\ ToSet(Append(s, x)) = ToSet(s) \cup {x}
<1>1. /\ Append(s, x) \in Seq(S)
      /\ Len(Append(s, x)) = Len(s) + 1
      /\ \A i \in 1 .. Len(s) : Append(s, x)[i] = s[i]
      /\ Append(s, x)[Len(s) + 1] = x
  BY AppendProperties
<1>2. /\ Len(s) \in Nat
      /\ DOMAIN s = 1 .. Len(s)
      /\ DOMAIN Append(s, x) = 1 .. Len(s) + 1
  BY <1>1, LenProperties
<1> QED
  BY <1>1, <1>2 DEF ToSet

\* The empty list.
LEMMA ListEmpty == ToSet(<< >>) = {}
  BY DEF ToSet

\* A list without repetitions, from its second element on.
LEMMA InjectiveStep ==
  ASSUME NEW S, NEW s \in Seq(S), s # << >>, IsInjective(s)
  PROVE  IsInjective(Tail(s)) /\ Head(s) \notin ToSet(Tail(s))
<1>1. /\ Tail(s) \in Seq(S)
      /\ Len(Tail(s)) = Len(s) - 1
      /\ \A i \in 1 .. Len(Tail(s)) : Tail(s)[i] = s[i + 1]
  BY HeadTailProperties
<1>2. /\ Len(s) \in Nat \ {0}
      /\ DOMAIN s = 1 .. Len(s)
      /\ DOMAIN Tail(s) = 1 .. Len(Tail(s))
  BY <1>1, EmptySeq, LenProperties
<1>3. Head(s) = s[1]
  OBVIOUS
<1>4. \A i \in DOMAIN Tail(s) : i + 1 \in DOMAIN s /\ Tail(s)[i] = s[i + 1] /\ i + 1 # 1
  BY <1>1, <1>2
<1>5. ASSUME NEW i \in DOMAIN Tail(s), NEW j \in DOMAIN Tail(s), Tail(s)[i] = Tail(s)[j]
      PROVE  i = j
  <2>1. i + 1 = j + 1
    BY <1>4, <1>5 DEF IsInjective
  <2> QED
    BY <1>1, <1>2, <2>1
<1>6. \A i \in DOMAIN Tail(s) : Tail(s)[i] # s[1]
  BY <1>2, <1>4 DEF IsInjective
<1> QED
  BY <1>3, <1>5, <1>6 DEF IsInjective, ToSet

\* An element that is not in the list yet.
LEMMA InjectiveAppend ==
  ASSUME NEW S, NEW s \in Seq(S), IsInjective(s), NEW x \in S, x \notin ToSet(s)
  PROVE  IsInjective(Append(s, x))
<1>1. /\ Append(s, x) \in Seq(S)
      /\ Len(Append(s, x)) = Len(s) + 1
      /\ \A i \in 1 .. Len(s) : Append(s, x)[i] = s[i]
      /\ Append(s, x)[Len(s) + 1] = x
  BY AppendProperties
<1>2. /\ Len(s) \in Nat
      /\ DOMAIN s = 1 .. Len(s)
      /\ DOMAIN Append(s, x) = 1 .. Len(s) + 1
  BY <1>1, LenProperties
<1>3. \A i \in 1 .. Len(s) : s[i] # x
  BY <1>2 DEF ToSet
<1> QED
  BY <1>1, <1>2, <1>3 DEF IsInjective

\* Contains is membership, and Reverse has the same members.
LEMMA ListMembers ==
  ASSUME NEW S, NEW s \in Seq(S)
  PROVE  /\ \A x : Contains(s, x) <=> x \in ToSet(s)
         /\ ToSet(s) \subseteq S
         /\ Reverse(s) \in Seq(S)
         /\ ToSet(Reverse(s)) = ToSet(s)
<1>1. /\ Len(s) \in Nat
      /\ DOMAIN s = 1 .. Len(s)
      /\ \A i \in 1 .. Len(s) : s[i] \in S
  BY LenProperties, ElementOfSeq
<1>2. \A i \in 1 .. Len(s) : Len(s) - i + 1 \in 1 .. Len(s)
  BY <1>1
<1>3. Reverse(s) \in [1 .. Len(s) -> S]
  BY <1>1, <1>2 DEF Reverse
<1>4. Reverse(s) \in Seq(S)
  BY <1>1, <1>3, SeqDef
<1>5. \A i \in 1 .. Len(s) : Reverse(s)[i] = s[Len(s) - i + 1]
  BY <1>1 DEF Reverse
<1>6. DOMAIN Reverse(s) = 1 .. Len(s)
  BY <1>3
<1>7. ASSUME NEW i \in 1 .. Len(s)
      PROVE  s[i] \in ToSet(Reverse(s)) /\ Reverse(s)[i] \in ToSet(s)
  <2>1. Len(s) - (Len(s) - i + 1) + 1 = i /\ Len(s) - i + 1 \in 1 .. Len(s)
    BY <1>1
  <2>2. s[i] = Reverse(s)[Len(s) - i + 1] /\ Reverse(s)[i] = s[Len(s) - i + 1]
    BY <1>5, <2>1
  <2> QED
    BY <1>1, <1>6, <2>1, <2>2 DEF ToSet
<1> QED
  BY <1>1, <1>4, <1>6, <1>7 DEF Contains, ToSet

-----------------------------------------------------------------------------
(* Numbers                                                                 *)

\* A product, one factor at a time.
LEMMA Times ==
  ASSUME NEW k \in Nat, NEW n \in Nat
  PROVE  n * k \in Nat /\ (n + 1) * k = n * k + k /\ 0 * k = 0 /\ 1 * k = k
  OBVIOUS

\* A product grows with a factor.
LEMMA TimesGrows ==
  ASSUME NEW k \in Nat, NEW n \in Nat, NEW m \in Nat, m <= n
  PROVE  m * k <= n * k
<1>1. PICK d \in Nat : n = m + d
  <2>1. n - m \in Nat /\ n = m + (n - m)
    OBVIOUS
  <2> QED
    BY <2>1
<1>2. n * k = m * k + d * k
  BY <1>1
<1>3. d * k \in Nat /\ m * k \in Nat
  OBVIOUS
<1> QED
  BY <1>2, <1>3

\* Division rounds down, and no further.
LEMMA DivBound ==
  ASSUME NEW n \in Nat, NEW b \in Nat, NEW k \in Nat \ {0}, n * k <= b
  PROVE  n <= b \div k
<1>1. PICK q : q = b \div k
  OBVIOUS
<1>2. q \in Nat /\ b < (q + 1) * k
  BY <1>1
<1>3. q + 1 <= n => (q + 1) * k <= n * k
  BY <1>2, TimesGrows
<1>4. (q + 1) * k \in Nat /\ n * k \in Nat
  BY <1>2, Times
<1>5. n <= q
  BY <1>2, <1>3, <1>4
<1> QED
  BY <1>1, <1>5

\* A set of numbers has a least one, and below a bound a greatest one.
LEMMA LeastNumber ==
  ASSUME NEW S \in SUBSET Nat, S # {}
  PROVE  \E x \in S : \A y \in S : x <= y
<1>1. PICK x \in S : \A y \in S : ~(<<y, x>> \in OpToRel(<, Nat))
  BY WFMin, NatLessThanWellFounded
<1>2. ASSUME NEW y \in S
      PROVE  x <= y
  <2>1. y < x => <<y, x>> \in OpToRel(<, Nat)
    BY DEF OpToRel
  <2>2. ~(y < x)
    BY <1>1, <2>1, Zenon
  <2> QED
    BY <2>2
<1> QED
  BY <1>2

\* And a set of numbers with a bound a greatest.
LEMMA GreatestNumber ==
  ASSUME NEW S \in SUBSET Nat, S # {}, NEW b \in Nat, \A x \in S : x <= b
  PROVE  \E x \in S : \A y \in S : y <= x
<1> DEFINE T == {y \in Nat : \E x \in S : y = b - x}
<1>1. T \in SUBSET Nat /\ T # {}
  <2>1. \A x \in S : b - x \in T
    OBVIOUS
  <2> QED
    BY <2>1
<1>2. PICK m \in T : \A y \in T : m <= y
  BY <1>1, LeastNumber
<1>3. PICK x \in S : m = b - x
  OBVIOUS
<1>4. ASSUME NEW y \in S
      PROVE  y <= x
  <2>1. b - y \in T
    OBVIOUS
  <2>2. b - x <= b - y
    BY <1>2, <1>3, <2>1
  <2> QED
    BY <2>2
<1> QED
  BY <1>4

\* A list without its last element.
LEMMA FrontParts ==
  ASSUME NEW S, NEW s \in Seq(S), s # << >>
  PROVE  /\ Front(s) \in Seq(S) /\ Len(Front(s)) = Len(s) - 1 /\ Len(s) \in Nat \ {0}
         /\ \A j \in 1 .. Len(s) - 1 : Front(s)[j] = s[j]
<1>1. Len(s) \in Nat \ {0}
  BY EmptySeq, LenProperties
<1>2. PICK u : u = SubSeq(s, 1, Len(s) - 1)
  OBVIOUS
<1>3. /\ u \in Seq(S)
      /\ Len(u) = IF 1 <= Len(s) - 1 THEN (Len(s) - 1) - 1 + 1 ELSE 0
      /\ \A j \in 1 .. (Len(s) - 1) - 1 + 1 : u[j] = s[1 + j - 1]
  <2>1. 1 \in 1 .. Len(s) + 1 /\ Len(s) - 1 \in 1 - 1 .. Len(s)
    BY <1>1
  <2> QED
    BY <1>2, <2>1, SubSeqProperties
<1>4. PICK n \in Nat \ {0} : n = Len(s)
  BY <1>1
<1>5. Len(u) = n - 1
  <2>1. Len(u) = IF 1 <= n - 1 THEN (n - 1) - 1 + 1 ELSE 0
    BY <1>3, <1>4
  <2> QED
    BY <2>1
<1>6. \A j \in 1 .. n - 1 : u[j] = s[j]
  <2>1. (n - 1) - 1 + 1 = n - 1 /\ \A j \in 1 .. n - 1 : 1 + j - 1 = j
    OBVIOUS
  <2> QED
    BY <1>3, <1>4, <2>1
<1> QED
  BY <1>1, <1>2, <1>3, <1>4, <1>5, <1>6 DEF Front
=============================================================================
