----------------------- MODULE BlockRecordArrayProofs -----------------------
(***************************************************************************)
(* A block stays sound, and its items stay what they are, for any sizes of *)
(* blocks, headers, indexes and items.                                     *)
(***************************************************************************)
EXTENDS BlockRecordArray, DataLemmas

-----------------------------------------------------------------------------
(* The inductive invariant                                                 *)

\* The header in the block is what the object believes, and neither is read
\* before it was written.
HeaderIsKept ==
  /\ header \in [numItems : Nat, space : Nat]
  /\ IF init THEN header = [numItems |-> numItems, space |-> space]
             ELSE numItems = 0 /\ space = -1

\* An item takes the bytes from the offset before its own up to its own; a
\* free index takes none.
OffsetsAreRight ==
  /\ rec \in [0 .. N -> [off : Nat \cup {-1}, main : {1, InvalidIndex}]]
  /\ rec[N] = Guard
  /\ N # 0 => Used(N - 1)
  /\ \A i \in 0 .. N - 1 :
       /\ rec[i].off \in Nat
       /\ IF Used(i) THEN PrevOffset(i) + WordSize <= rec[i].off
                     ELSE PrevOffset(i) = rec[i].off

\* The bound on the number of records holds when one more is made, which is
\* when all the others are in use and take a word each; it holds ever after,
\* as no record is made while there is a free one.
IInv ==
  /\ init \in BOOLEAN
  /\ HeaderIsKept
  /\ OffsetsAreRight
  /\ Space = FreeSpace(N, Top)
  /\ TableClearOfData
  /\ N <= MaxRecords
  /\ bytes \in [1 .. Top -> Byte]

-----------------------------------------------------------------------------
(* Arithmetic                                                              *)

\* As many records as there is room for, each with an index and a word.
LEMMA Room ==
  ASSUME NEW n \in Nat, n * IndexSize + n * WordSize <= BlockSize
  PROVE  n <= MaxRecords
<1>1. IndexSize + WordSize \in Nat \ {0} /\ BlockSize \in Nat
  BY SizesArePos
<1>2. n * (IndexSize + WordSize) = n * IndexSize + n * WordSize
  BY SizesArePos
<1> QED
  BY <1>1, <1>2, DivBound DEF MaxRecords

-----------------------------------------------------------------------------
(* Offsets                                                                 *)

\* Where an item ends, the next begins; offsets grow with the index.
LEMMA Increasing ==
  ASSUME OffsetsAreRight, N \in Nat
  PROVE  /\ \A i \in 0 .. N : PrevOffset(i) \in Nat
         /\ \A i \in 0 .. N - 1 : PrevOffset(i + 1) = rec[i].off
         /\ \A j \in 0 .. N : \A i \in 0 .. j : PrevOffset(i) <= PrevOffset(j)
<1>1. \A i \in 0 .. N - 1 : PrevOffset(i + 1) = rec[i].off /\ rec[i].off \in Nat
  BY DEF PrevOffset, OffsetsAreRight
<1>2. PrevOffset(0) = 0
  BY DEF PrevOffset
<1>3. ASSUME NEW i \in 0 .. N
      PROVE  PrevOffset(i) \in Nat
  <2>1. i = 0 \/ (i - 1 \in 0 .. N - 1 /\ i = (i - 1) + 1)
    OBVIOUS
  <2> QED
    BY <1>1, <1>2, <2>1
<1>4. ASSUME NEW i \in 0 .. N - 1
      PROVE  PrevOffset(i) <= PrevOffset(i + 1)
  <2>1. i \in 0 .. N /\ i + 1 \in 0 .. N
    OBVIOUS
  <2>2. PrevOffset(i) \in Nat /\ PrevOffset(i + 1) \in Nat /\ PrevOffset(i + 1) = rec[i].off
    BY <1>1, <1>3, <2>1
  <2>3. IF Used(i) THEN PrevOffset(i) + WordSize <= rec[i].off ELSE PrevOffset(i) = rec[i].off
    BY DEF OffsetsAreRight
  <2> QED
    BY <2>2, <2>3, SizesArePos
<1> DEFINE S == {j \in Nat : j <= N => \A i \in 0 .. j : PrevOffset(i) <= PrevOffset(j)}
<1>5. 0 \in S
  BY <1>2
<1>6. ASSUME NEW j \in Nat, j \in S
      PROVE  j + 1 \in S
  <2> SUFFICES ASSUME j + 1 <= N, NEW i \in 0 .. j + 1
               PROVE  PrevOffset(i) <= PrevOffset(j + 1)
    OBVIOUS
  <2>1. j \in 0 .. N - 1 /\ j + 1 \in 0 .. N /\ j \in 0 .. N
    OBVIOUS
  <2>2. PrevOffset(j) <= PrevOffset(j + 1)
    BY <1>4, <2>1
  <2>3. i # j + 1 => PrevOffset(i) <= PrevOffset(j)
    BY <1>6
  <2>4. PrevOffset(i) \in Nat /\ PrevOffset(j) \in Nat /\ PrevOffset(j + 1) \in Nat
    BY <1>3, <2>1
  <2> QED
    BY <2>2, <2>3, <2>4
<1>7. Nat \subseteq S
  BY <1>5, <1>6, NatSetInduction
<1> QED
  BY <1>1, <1>3, <1>7

\* Indexes that are all in use have a word each.
LEMMA AllUsed ==
  ASSUME OffsetsAreRight, N \in Nat
  PROVE  \A k \in 0 .. N : (\A j \in 0 .. k - 1 : Used(j)) => k * WordSize <= PrevOffset(k)
<1>1. \A i \in 0 .. N : PrevOffset(i) \in Nat
  BY Increasing
<1>2. \A i \in 0 .. N - 1 : PrevOffset(i + 1) = rec[i].off
  BY Increasing
<1> DEFINE S == {k \in Nat : k <= N => ((\A j \in 0 .. k - 1 : Used(j))
                                          => k * WordSize <= PrevOffset(k))}
<1>3. 0 \in S
  BY SizesArePos DEF PrevOffset
<1>4. ASSUME NEW k \in Nat, k \in S
      PROVE  k + 1 \in S
  <2> SUFFICES ASSUME k + 1 <= N, \A j \in 0 .. (k + 1) - 1 : Used(j)
               PROVE  (k + 1) * WordSize <= PrevOffset(k + 1)
    OBVIOUS
  <2>1. k \in 0 .. N - 1 /\ k \in 0 .. N /\ k + 1 \in 0 .. N
    OBVIOUS
  <2>2. Used(k) /\ \A j \in 0 .. k - 1 : Used(j)
    OBVIOUS
  <2>3. PrevOffset(k) + WordSize <= PrevOffset(k + 1)
    BY <1>2, <2>1, <2>2 DEF OffsetsAreRight
  <2>4. k * WordSize <= PrevOffset(k)
    BY <1>4, <2>1, <2>2
  <2>5. PrevOffset(k) \in Nat /\ PrevOffset(k + 1) \in Nat /\ WordSize \in Nat
    BY <1>1, <2>1, SizesArePos
  <2>6. k * WordSize \in Nat /\ (k + 1) * WordSize = k * WordSize + WordSize
    BY <2>5, Times
  <2> QED
    BY <2>3, <2>4, <2>5, <2>6
<1>5. Nat \subseteq S
  BY <1>3, <1>4, NatSetInduction
<1> QED
  BY <1>5

\* What the parts of the invariant say of each other.
LEMMA Counts ==
  ASSUME HeaderIsKept, init \in BOOLEAN, OffsetsAreRight
  PROVE  /\ N \in Nat /\ N = header.numItems /\ Space = header.space
         /\ Top \in Nat
         /\ FreeSpace(N, Top) \in Nat
<1>1. N \in Nat /\ N = header.numItems /\ Space = header.space
  BY DEF HeaderIsKept, N, Space
<1>2. Top \in Nat
  BY <1>1, Increasing DEF Top
<1>3. (N + 1) * IndexSize \in Nat
  BY <1>1, Times, SizesArePos
<1>4. BlockSize - HeaderSize - (N + 1) * IndexSize - Margin - Top \in Int
  BY <1>2, <1>3, SizesArePos
<1> QED
  BY <1>1, <1>2, <1>4 DEF FreeSpace

\* The space on offer is there: filling it leaves room for one more index.
LEMMA SpaceIsThere ==
  ASSUME NEW n \in Nat, NEW top \in Nat
  PROVE  /\ FreeSpace(n, top) \in 0 .. BlockSize
         /\ FreeSpace(n, top) <= MaxDataSize
         /\ \A s \in 1 .. FreeSpace(n, top) :
              HeaderSize + (n + 2) * IndexSize <= BlockSize - (top + s)
<1>1. /\ BlockSize \in Nat /\ HeaderSize \in Nat /\ Margin \in Nat
      /\ IndexSize \in Nat \ {0}
      /\ Margin >= IndexSize /\ HeaderSize + IndexSize + Margin <= BlockSize
  BY SizesArePos, MarginHoldsGuard, BlockHoldsGuard
<1>2. PICK p \in Nat : p = (n + 1) * IndexSize
  BY <1>1, Times
<1>3. (n + 2) * IndexSize = p + IndexSize
  <2>1. n + 1 \in Nat /\ (n + 1) + 1 = n + 2
    OBVIOUS
  <2>2. ((n + 1) + 1) * IndexSize = (n + 1) * IndexSize + IndexSize
    BY <1>1, <2>1, Times
  <2> QED
    BY <1>2, <2>1, <2>2
<1>4. IndexSize <= p
  BY <1>1, <1>2, Times
<1>5. FreeSpace(n, top) = IF BlockSize - HeaderSize - p - Margin - top < 0 THEN 0
                          ELSE BlockSize - HeaderSize - p - Margin - top
  BY <1>2 DEF FreeSpace
<1>6. FreeSpace(n, top) \in 0 .. BlockSize /\ FreeSpace(n, top) <= MaxDataSize
  BY <1>1, <1>4, <1>5 DEF MaxDataSize
<1>7. ASSUME NEW s \in 1 .. FreeSpace(n, top)
      PROVE  HeaderSize + (p + IndexSize) <= BlockSize - (top + s)
  BY <1>1, <1>5, <1>6
<1> QED
  BY <1>3, <1>6, <1>7

-----------------------------------------------------------------------------
(* The steps                                                               *)

\* A change ends with the header: what it has to establish for the rest.
LEMMA HeaderIsUpdated ==
  ASSUME NEW n \in Nat, NEW top \in Nat, UpdateHeader(n, top), top = Top',
         OffsetsAreRight', bytes' \in [1 .. top -> Byte],
         n <= MaxRecords, HeaderSize + (n + 1) * IndexSize <= BlockSize - top
  PROVE  IInv'
<1>1. /\ init' = TRUE /\ numItems' = n /\ space' = FreeSpace(n, top)
      /\ header' = [numItems |-> n, space |-> FreeSpace(n, top)]
  BY DEF UpdateHeader
<1>2. N' = n /\ Space' = FreeSpace(n, top)
  BY <1>1 DEF N, Space
<1>3. FreeSpace(n, top) \in Nat
  BY SpaceIsThere
<1>4. HeaderIsKept'
  BY <1>1, <1>3 DEF HeaderIsKept
<1>5. TableClearOfData'
  BY <1>2 DEF TableClearOfData
<1>6. FreeSpace(N, Top)' = FreeSpace(n, top)
  BY <1>2 DEF FreeSpace
<1> QED
  BY <1>1, <1>2, <1>4, <1>5, <1>6 DEF IInv

LEMMA InitIsRight == Init => IInv
<1> SUFFICES ASSUME Init
             PROVE  IInv
  OBVIOUS
<1>1. /\ init = TRUE /\ numItems = 0 /\ space = FreeSpace(0, 0)
      /\ header = [numItems |-> 0, space |-> FreeSpace(0, 0)]
      /\ rec = [j \in {0} |-> Guard]
      /\ bytes = [o \in 1 .. 0 |-> 0]
  BY DEF Init
<1>2. N = 0 /\ Space = FreeSpace(0, 0) /\ Top = 0
  BY <1>1 DEF N, Space, Top, PrevOffset
<1>3. HeaderIsKept
  BY <1>1, SpaceIsThere DEF HeaderIsKept
<1>4. OffsetsAreRight
  <2>1. 0 .. 0 = {0}
    OBVIOUS
  <2> QED
    BY <1>1, <1>2, <2>1 DEF OffsetsAreRight, Guard
<1>5. TableClearOfData
  BY <1>2, SizesArePos, BlockHoldsGuard DEF TableClearOfData
<1>6. 0 <= MaxRecords
  <2>1. 0 * IndexSize + 0 * WordSize <= BlockSize
    BY SizesArePos
  <2> QED
    BY <2>1, Room
<1> QED
  BY <1>1, <1>2, <1>3, <1>4, <1>5, <1>6 DEF IInv

Record == [off : Nat \cup {-1}, main : {1, InvalidIndex}]

\* An item was added at index i; now there are n.
Added(i, n, d) ==
  /\ i \in 0 .. N /\ n = IF i = N THEN N + 1 ELSE N
  /\ i < N => ~Used(i)
  /\ \A j \in 0 .. i - 1 : Used(j)
  /\ rec' \in [0 .. n -> Record]
  /\ rec'[n] = Guard
  /\ rec'[i] = [off |-> PrevOffset(i) + Len(d), main |-> 1]
  /\ \A j \in 0 .. i - 1 : rec'[j] = rec[j]
  /\ \A j \in i + 1 .. n - 1 : /\ rec'[j].off = rec[j].off + Len(d)
                               /\ rec'[j].main = rec[j].main
  /\ \A j \in 0 .. i : PrevOffset(j)' = PrevOffset(j)
  /\ \A j \in i + 1 .. n - 1 : PrevOffset(j)' = PrevOffset(j) + Len(d)
  /\ PrevOffset(n)' = Top + Len(d)
  /\ bytes' = DataWith(i, d)
  /\ UpdateHeader(n, Top + Len(d))

\* What adding an item comes to, with the free index found or a new one.
LEMMA AddSays ==
  ASSUME IInv, NEW d \in Items, AddItem(d)
  PROVE  \E i \in 0 .. N : \E n \in Nat : Added(i, n, d)
<1>1. /\ N \in Nat /\ Top \in Nat
      /\ OffsetsAreRight
  BY Counts DEF IInv
<1>2. PICK i \in 0 .. N :
        LET n == IF i = N THEN N + 1 ELSE N
        IN /\ IsNewIndex(i)
           /\ rec' = [j \in 0 .. n |->
                        CASE j < i -> rec[j]
                          [] j = i -> [off |-> PrevOffset(i) + Len(d), main |-> 1]
                          [] j > i /\ j < n -> [rec[j] EXCEPT !.off = @ + Len(d)]
                          [] j > i /\ j = n -> Guard]
           /\ bytes' = DataWith(i, d)
           /\ UpdateHeader(n, Top + Len(d))
  BY DEF AddItem
<1>3. PICK n \in Nat : n = IF i = N THEN N + 1 ELSE N
  BY <1>1
<1>4. Len(d) \in Nat /\ PrevOffset(i) \in Nat
  BY <1>1, Increasing, LenProperties, ItemsAreWords
<1>5. /\ IsNewIndex(i) /\ bytes' = DataWith(i, d) /\ UpdateHeader(n, Top + Len(d))
      /\ rec' = [j \in 0 .. n |->
                   CASE j < i -> rec[j]
                     [] j = i -> [off |-> PrevOffset(i) + Len(d), main |-> 1]
                     [] j > i /\ j < n -> [rec[j] EXCEPT !.off = @ + Len(d)]
                     [] j > i /\ j = n -> Guard]
  BY <1>2, <1>3
<1>6. i < n /\ i \in Nat
  BY <1>1, <1>3
<1>7. /\ DOMAIN rec' = 0 .. n
      /\ \A j \in 0 .. i - 1 : rec'[j] = rec[j]
      /\ rec'[i] = [off |-> PrevOffset(i) + Len(d), main |-> 1]
      /\ \A j \in i + 1 .. n - 1 : rec'[j] = [rec[j] EXCEPT !.off = @ + Len(d)]
      /\ rec'[n] = Guard
  BY <1>5, <1>6
<1>8. \A j \in 0 .. N - 1 : rec[j] \in Record /\ rec[j].off \in Nat
  BY <1>1 DEF OffsetsAreRight, Record
<1>9. \A j \in i + 1 .. n - 1 : /\ rec'[j].off = rec[j].off + Len(d)
                                /\ rec'[j].main = rec[j].main
                                /\ rec'[j] \in Record
  <2> SUFFICES ASSUME NEW j \in i + 1 .. n - 1
               PROVE  /\ rec'[j].off = rec[j].off + Len(d)
                      /\ rec'[j].main = rec[j].main
                      /\ rec'[j] \in Record
    OBVIOUS
  <2>1. rec'[j] = [rec[j] EXCEPT !.off = @ + Len(d)]
    BY <1>7
  <2>2. j \in 0 .. N - 1
    BY <1>1, <1>3
  <2> QED
    BY <1>4, <1>8, <2>1, <2>2 DEF Record
<1>10. rec' \in [0 .. n -> Record]
  <2>1. ASSUME NEW j \in 0 .. n
        PROVE  rec'[j] \in Record
    <3>1. j < i => rec'[j] \in Record
      BY <1>1, <1>3, <1>7, <1>8
    <3>2. j = i => rec'[j] \in Record
      BY <1>4, <1>7 DEF Record
    <3>3. j = n => rec'[j] \in Record
      BY <1>7 DEF Record, Guard
    <3> QED
      BY <1>6, <1>9, <3>1, <3>2, <3>3
  <2> QED
    BY <1>5, <2>1
<1>11. \A j \in 0 .. i : PrevOffset(j)' = PrevOffset(j)
  BY <1>6, <1>7 DEF PrevOffset
<1>12. ASSUME i < N, ~Used(i)
       PROVE  rec[i].off = PrevOffset(i)
  BY <1>1, <1>6, <1>12 DEF OffsetsAreRight
<1>13. i < N => ~Used(i)
  BY <1>5 DEF IsNewIndex
<1>14. ASSUME NEW j \in i + 1 .. N, i < N
       PROVE  PrevOffset(j)' = PrevOffset(j) + Len(d)
  <2>1. PrevOffset(j)' = rec'[j - 1].off /\ PrevOffset(j) = rec[j - 1].off
    BY <1>6 DEF PrevOffset
  <2>2. CASE j = i + 1
    BY <1>4, <1>6, <1>7, <1>12, <1>13, <1>14, <2>1, <2>2
  <2>3. CASE j # i + 1
    <3>1. j - 1 \in i + 1 .. n - 1
      BY <1>3, <1>6, <1>14, <2>3
    <3> QED
      BY <1>9, <2>1, <3>1
  <2> QED
    BY <2>2, <2>3
<1>15. PrevOffset(n)' = Top + Len(d)
  <2>1. CASE i = N
    BY <1>1, <1>3, <1>6, <1>7, <2>1 DEF PrevOffset, Top
  <2>2. CASE i # N
    BY <1>1, <1>3, <1>6, <1>14, <2>2 DEF Top
  <2> QED
    BY <2>1, <2>2
<1>16. \A j \in i + 1 .. n - 1 : PrevOffset(j)' = PrevOffset(j) + Len(d)
  BY <1>1, <1>3, <1>14
<1>17. Added(i, n, d)
  BY <1>3, <1>5, <1>7, <1>9, <1>10, <1>11, <1>13, <1>15, <1>16 DEF Added, IsNewIndex
<1> QED
  BY <1>17

LEMMA AddKeeps ==
  ASSUME IInv, NEW d \in Items, AddItem(d)
  PROVE  IInv'
<1>1. /\ N \in Nat /\ Top \in Nat /\ OffsetsAreRight
      /\ Space = FreeSpace(N, Top) /\ N <= MaxRecords
      /\ bytes \in [1 .. Top -> Byte]
  BY Counts DEF IInv
<1>2. PICK i \in 0 .. N, n \in Nat : Added(i, n, d)
  BY AddSays
<1>3. /\ n = IF i = N THEN N + 1 ELSE N
      /\ i < n /\ i \in Nat
  BY <1>1, <1>2 DEF Added
<1>4. /\ \A j \in 0 .. N : PrevOffset(j) \in Nat
      /\ \A j \in 0 .. N : \A h \in 0 .. j : PrevOffset(h) <= PrevOffset(j)
  BY <1>1, Increasing
<1>5. /\ Len(d) \in Nat /\ WordSize <= Len(d) /\ WordSize \in Nat \ {0}
      /\ \A o \in 1 .. Len(d) : d[o] \in Byte
  BY ItemsAreWords, SizesArePos, LenProperties, ElementOfSeq
<1>6. Len(d) \in 1 .. FreeSpace(N, Top)
  BY <1>1, <1>5, SpaceIsThere DEF AddItem
<1>7. HeaderSize + (N + 2) * IndexSize <= BlockSize - (Top + Len(d))
  BY <1>1, <1>6, SpaceIsThere
<1>8. (n + 1) * IndexSize <= (N + 2) * IndexSize /\ (n + 1) * IndexSize \in Nat
      /\ (N + 2) * IndexSize \in Nat
  <2>1. n + 1 \in Nat /\ N + 2 \in Nat /\ n + 1 <= N + 2 /\ IndexSize \in Nat
    BY <1>1, <1>3, SizesArePos
  <2> QED
    BY <2>1, TimesGrows, Times
<1>9. HeaderSize + (n + 1) * IndexSize <= BlockSize - (Top + Len(d))
  BY <1>1, <1>5, <1>7, <1>8, SizesArePos
<1>10. N' = n
  BY <1>2 DEF Added, UpdateHeader, N
<1>11. OffsetsAreRight'
  <2>1. rec' \in [0 .. n -> Record] /\ rec'[n] = Guard
    BY <1>2 DEF Added
  <2>2. Used(n - 1)'
    <3>1. CASE i = n - 1
      BY <1>2, <3>1 DEF Added, Used, InvalidIndex
    <3>2. CASE i # n - 1
      <4>1. n - 1 \in i + 1 .. n - 1 /\ n = N /\ N # 0
        BY <1>1, <1>3, <3>2
      <4>2. Used(N - 1)
        BY <1>1, <4>1 DEF OffsetsAreRight
      <4> QED
        BY <1>2, <4>1, <4>2 DEF Added, Used
    <3> QED
      BY <3>1, <3>2
  <2>3. ASSUME NEW j \in 0 .. n - 1
        PROVE  /\ rec'[j].off \in Nat
               /\ IF Used(j)' THEN PrevOffset(j)' + WordSize <= rec'[j].off
                              ELSE PrevOffset(j)' = rec'[j].off
    <3>1. CASE j < i
      <4>1. rec'[j] = rec[j] /\ PrevOffset(j)' = PrevOffset(j) /\ j \in 0 .. N - 1
        BY <1>1, <1>2, <1>3, <3>1 DEF Added
      <4> QED
        BY <1>1, <4>1 DEF OffsetsAreRight, Used
    <3>2. CASE j = i
      <4>1. rec'[j] = [off |-> PrevOffset(i) + Len(d), main |-> 1]
            /\ PrevOffset(j)' = PrevOffset(i)
        BY <1>2, <1>3, <3>2 DEF Added
      <4>2. Used(j)'
        BY <4>1 DEF Used, InvalidIndex
      <4>3. PrevOffset(i) \in Nat
        BY <1>4
      <4> QED
        BY <1>5, <4>1, <4>2, <4>3
    <3>3. CASE j > i
      <4>1. /\ rec'[j].off = rec[j].off + Len(d) /\ rec'[j].main = rec[j].main
            /\ PrevOffset(j)' = PrevOffset(j) + Len(d)
            /\ j \in 0 .. N - 1 /\ j \in 0 .. N
        BY <1>1, <1>2, <1>3, <3>3 DEF Added
      <4>2. Used(j)' <=> Used(j)
        BY <4>1 DEF Used
      <4>3. /\ rec[j].off \in Nat
            /\ IF Used(j) THEN PrevOffset(j) + WordSize <= rec[j].off
                          ELSE PrevOffset(j) = rec[j].off
        BY <1>1, <4>1 DEF OffsetsAreRight
      <4>4. PrevOffset(j) \in Nat
        BY <1>4, <4>1
      <4> QED
        BY <1>5, <4>1, <4>2, <4>3, <4>4
    <3> QED
      BY <1>3, <3>1, <3>2, <3>3
  <2> QED
    BY <1>10, <2>1, <2>2, <2>3 DEF OffsetsAreRight, Record
<1>12. Top' = Top + Len(d)
  BY <1>2, <1>10 DEF Added, Top
<1>13. bytes' \in [1 .. Top + Len(d) -> Byte]
  <2>1. bytes' = DataWith(i, d)
    BY <1>2 DEF Added
  <2>2. PrevOffset(i) \in Nat /\ PrevOffset(i) <= Top
    BY <1>1, <1>4 DEF Top
  <2>3. ASSUME NEW o \in 1 .. Top + Len(d)
        PROVE  (IF o <= PrevOffset(i) THEN bytes[o]
                ELSE IF o <= PrevOffset(i) + Len(d)
                     THEN d[PrevOffset(i) + Len(d) - o + 1]
                     ELSE bytes[o - Len(d)]) \in Byte
    <3>1. o <= PrevOffset(i) => bytes[o] \in Byte
      BY <1>1, <2>2
    <3>2. o > PrevOffset(i) /\ o <= PrevOffset(i) + Len(d)
            => d[PrevOffset(i) + Len(d) - o + 1] \in Byte
      <4>1. o > PrevOffset(i) /\ o <= PrevOffset(i) + Len(d)
              => PrevOffset(i) + Len(d) - o + 1 \in 1 .. Len(d)
        BY <1>5, <2>2
      <4> QED
        BY <1>5, <4>1
    <3>3. o > PrevOffset(i) + Len(d) => bytes[o - Len(d)] \in Byte
      BY <1>1, <1>5, <2>2
    <3> QED
      BY <1>5, <2>2, <3>1, <3>2, <3>3
  <2> QED
    BY <2>1, <2>3 DEF DataWith
<1>14. n <= MaxRecords
  <2>1. CASE i = N
    <3>1. N * WordSize <= Top
      BY <1>1, <1>2, <2>1, AllUsed DEF Added, Top
    <3>2. n * IndexSize + n * WordSize <= BlockSize
      <4>1. PICK p \in Nat : p = N * WordSize
        BY <1>1, <1>5, Times
      <4>2. n * WordSize = p + WordSize
        BY <1>1, <1>3, <1>5, <2>1, <4>1, Times
      <4>3. n * IndexSize \in Nat /\ (n + 1) * IndexSize = n * IndexSize + IndexSize
        BY SizesArePos, Times
      <4>4. p <= Top
        BY <3>1, <4>1
      <4> QED
        BY <1>1, <1>5, <1>9, <4>2, <4>3, <4>4, SizesArePos
    <3> QED
      BY <3>2, Room
  <2>2. CASE i # N
    BY <1>1, <1>3, <2>2
  <2> QED
    BY <2>1, <2>2
<1>15. UpdateHeader(n, Top + Len(d)) /\ Top + Len(d) \in Nat
  BY <1>1, <1>2, <1>5 DEF Added
<1> QED
  BY <1>9, <1>11, <1>12, <1>13, <1>14, <1>15, HeaderIsUpdated

LEMMA DeleteLastKeeps ==
  ASSUME IInv, DeleteLast
  PROVE  IInv'
<1>1. /\ N \in Nat /\ Top \in Nat /\ OffsetsAreRight
      /\ N <= MaxRecords /\ TableClearOfData
      /\ bytes \in [1 .. Top -> Byte]
  BY Counts DEF IInv
<1>2. PICK n \in 0 .. N - 1 :
        /\ IsTrimmed(n)
        /\ rec' = [j \in 0 .. n |-> IF j = n THEN Guard ELSE rec[j]]
        /\ bytes' = [o \in 1 .. PrevOffset(n) |-> bytes[o]]
        /\ UpdateHeader(n, PrevOffset(n))
  BY DEF DeleteLast
<1>3. n \in Nat /\ n \in 0 .. N /\ N \in 0 .. N /\ n \in 0 .. N /\ n + 1 <= N
  BY <1>1
<1>4. /\ \A j \in 0 .. N : PrevOffset(j) \in Nat
      /\ PrevOffset(n) <= Top
  BY <1>1, <1>3, Increasing DEF Top
<1>5. N' = n
  BY <1>2 DEF UpdateHeader, N
<1>6. /\ DOMAIN rec' = 0 .. n /\ rec'[n] = Guard
      /\ \A j \in 0 .. n - 1 : rec'[j] = rec[j]
  BY <1>2, <1>3
<1>7. \A j \in 0 .. n : PrevOffset(j)' = PrevOffset(j)
  BY <1>3, <1>6 DEF PrevOffset
<1>8. OffsetsAreRight'
  <2>1. \A j \in 0 .. n - 1 : j \in 0 .. N - 1 /\ j \in 0 .. N /\ j \in 0 .. n
    BY <1>1, <1>3
  <2>2. \A j \in 0 .. n - 1 : rec[j] \in Record
    BY <1>1, <2>1 DEF OffsetsAreRight, Record
  <2>3. rec' \in [0 .. n -> Record]
    <3>1. rec' = [j \in 0 .. n |-> rec'[j]]
      BY <1>2
    <3>2. \A j \in 0 .. n : rec'[j] \in Record
      BY <1>3, <1>6, <2>2 DEF Guard, Record
    <3> QED
      BY <3>1, <3>2
  <2>4. n # 0 => Used(n - 1)'
    BY <1>2, <1>3, <1>6 DEF IsTrimmed, Used
  <2>5. ASSUME NEW j \in 0 .. n - 1
        PROVE  /\ rec'[j].off \in Nat
               /\ IF Used(j)' THEN PrevOffset(j)' + WordSize <= rec'[j].off
                              ELSE PrevOffset(j)' = rec'[j].off
    <3>1. rec'[j] = rec[j] /\ PrevOffset(j)' = PrevOffset(j) /\ j \in 0 .. N - 1
      BY <1>6, <1>7, <2>1
    <3> QED
      BY <1>1, <3>1 DEF OffsetsAreRight, Used
  <2> QED
    BY <1>5, <1>6, <2>3, <2>4, <2>5 DEF OffsetsAreRight, Record
<1>9. Top' = PrevOffset(n) /\ PrevOffset(n) \in Nat
  BY <1>3, <1>4, <1>5, <1>7 DEF Top
<1>10. bytes' \in [1 .. PrevOffset(n) -> Byte]
  BY <1>1, <1>2, <1>4, <1>9
<1>11. HeaderSize + (n + 1) * IndexSize <= BlockSize - PrevOffset(n)
  <2>1. n + 1 \in Nat /\ N + 1 \in Nat /\ n + 1 <= N + 1 /\ IndexSize \in Nat
    BY <1>1, <1>3, SizesArePos
  <2>2. /\ (n + 1) * IndexSize <= (N + 1) * IndexSize
        /\ (n + 1) * IndexSize \in Nat /\ (N + 1) * IndexSize \in Nat
    BY <2>1, TimesGrows, Times
  <2>3. PICK p \in Nat, q \in Nat : p = (n + 1) * IndexSize /\ q = (N + 1) * IndexSize
    BY <2>2
  <2>4. HeaderSize + q <= BlockSize - Top
    BY <1>1, <2>3 DEF TableClearOfData
  <2>5. p <= q
    BY <2>2, <2>3
  <2>6. HeaderSize + p <= BlockSize - PrevOffset(n)
    BY <1>1, <1>4, <1>9, <2>4, <2>5, SizesArePos
  <2> QED
    BY <2>3, <2>6
<1>12. MaxRecords \in Int
  BY SizesArePos DEF MaxRecords
<1> QED
  BY SMTT(30), <1>1, <1>2, <1>3, <1>8, <1>9, <1>10, <1>11, <1>12, HeaderIsUpdated

\* The item at index i was deleted, and its index kept.
Freed(i) ==
  /\ i \in 0 .. N - 2 /\ Used(i) /\ Size(i) \in Nat
  /\ rec' \in [0 .. N -> Record]
  /\ rec'[N] = Guard
  /\ rec'[i] = [off |-> PrevOffset(i), main |-> InvalidIndex]
  /\ \A j \in 0 .. i - 1 : rec'[j] = rec[j]
  /\ \A j \in i + 1 .. N - 1 : /\ rec'[j].off = rec[j].off - Size(i)
                               /\ rec'[j].main = rec[j].main
  /\ \A j \in 0 .. i : PrevOffset(j)' = PrevOffset(j)
  /\ \A j \in i + 1 .. N : /\ PrevOffset(j)' = PrevOffset(j) - Size(i)
                           /\ PrevOffset(j)' \in Nat
  /\ bytes' = [o \in 1 .. Top - Size(i) |->
                 IF o <= PrevOffset(i) THEN bytes[o] ELSE bytes[o + Size(i)]]
  /\ UpdateHeader(N, Top - Size(i))

LEMMA FreeSays ==
  ASSUME IInv, NEW i \in 0 .. N - 1, DeleteItem(i), i + 1 # N
  PROVE  Freed(i)
<1>1. N \in Nat /\ Top \in Nat /\ OffsetsAreRight
  BY Counts DEF IInv
<1>2. DeleteMiddle(i) /\ Used(i) /\ i \in 0 .. N - 2
  BY <1>1 DEF DeleteItem, IsValid
<1>3. /\ rec' = [j \in 0 .. N |->
                   CASE j < i -> rec[j]
                     [] j = i -> [off |-> PrevOffset(i), main |-> InvalidIndex]
                     [] j > i /\ j < N -> [rec[j] EXCEPT !.off = @ - Size(i)]
                     [] j > i /\ j = N -> rec[j]]
      /\ bytes' = [o \in 1 .. Top - Size(i) |->
                     IF o <= PrevOffset(i) THEN bytes[o] ELSE bytes[o + Size(i)]]
      /\ UpdateHeader(N, Top - Size(i))
  BY <1>2 DEF DeleteMiddle
<1>4. /\ DOMAIN rec' = 0 .. N
      /\ \A j \in 0 .. i - 1 : rec'[j] = rec[j]
      /\ rec'[i] = [off |-> PrevOffset(i), main |-> InvalidIndex]
      /\ \A j \in i + 1 .. N - 1 : rec'[j] = [rec[j] EXCEPT !.off = @ - Size(i)]
      /\ rec'[N] = rec[N]
  BY <1>1, <1>2, <1>3
<1>5. /\ \A j \in 0 .. N : PrevOffset(j) \in Nat
      /\ \A j \in 0 .. N : \A h \in 0 .. j : PrevOffset(h) <= PrevOffset(j)
      /\ \A j \in 0 .. N - 1 : PrevOffset(j + 1) = rec[j].off
  BY <1>1, Increasing
<1>6. \A j \in 0 .. N - 1 : rec[j] \in Record /\ rec[j].off \in Nat
  BY <1>1 DEF OffsetsAreRight, Record
<1>7. Size(i) \in Nat /\ PrevOffset(i) \in Nat /\ rec[i].off = PrevOffset(i) + Size(i)
      /\ PrevOffset(i + 1) = PrevOffset(i) + Size(i)
  <2>1. i \in 0 .. N /\ i \in 0 .. N - 1
    BY <1>1
  <2>2. rec[i].off \in Nat /\ PrevOffset(i) \in Nat /\ PrevOffset(i) + WordSize <= rec[i].off
    BY <1>1, <1>2, <1>5, <1>6, <2>1 DEF OffsetsAreRight
  <2> QED
    BY <1>5, <2>1, <2>2, SizesArePos DEF Size
<1>8. ASSUME NEW j \in i + 1 .. N
      PROVE  PrevOffset(j) \in Nat /\ PrevOffset(i) + Size(i) <= PrevOffset(j)
  <2>1. j \in 0 .. N /\ i + 1 \in 0 .. j
    BY <1>2, <1>8
  <2> QED
    BY <1>5, <1>7, <2>1
<1>9. ASSUME NEW j \in i + 1 .. N - 1
      PROVE  /\ rec'[j].off = rec[j].off - Size(i)
             /\ rec'[j].main = rec[j].main
             /\ rec'[j] \in Record
  <2>1. rec'[j] = [rec[j] EXCEPT !.off = @ - Size(i)] /\ rec[j] \in Record /\ rec[j].off \in Nat
    BY <1>2, <1>4, <1>6
  <2>2. j + 1 \in i + 1 .. N /\ PrevOffset(j + 1) = rec[j].off
    BY <1>1, <1>2, <1>5
  <2>3. PrevOffset(i) + Size(i) <= rec[j].off
    BY <1>8, <2>2
  <2>4. rec[j].off - Size(i) \in Nat
    BY <1>7, <2>1, <2>3
  <2> QED
    BY <2>1, <2>4 DEF Record
<1>10. rec' \in [0 .. N -> Record]
  <2>1. ASSUME NEW j \in 0 .. N
        PROVE  rec'[j] \in Record
    <3>1. j < i => rec'[j] \in Record
      BY <1>1, <1>2, <1>4, <1>6
    <3>2. j = i => rec'[j] \in Record
      BY <1>4, <1>7 DEF Record
    <3>3. j = N => rec'[j] \in Record
      BY <1>1, <1>4 DEF OffsetsAreRight, Record
    <3> QED
      BY <1>1, <1>2, <1>9, <3>1, <3>2, <3>3
  <2> QED
    BY <1>3, <2>1
<1>11. \A j \in 0 .. i : PrevOffset(j)' = PrevOffset(j)
  BY <1>2, <1>4 DEF PrevOffset
<1>12. ASSUME NEW j \in i + 1 .. N
       PROVE  PrevOffset(j)' = PrevOffset(j) - Size(i)
  <2>1. PrevOffset(j)' = rec'[j - 1].off /\ PrevOffset(j) = rec[j - 1].off
    BY <1>2 DEF PrevOffset
  <2>2. CASE j = i + 1
    BY <1>2, <1>4, <1>7, <2>1, <2>2
  <2>3. CASE j # i + 1
    <3>1. j - 1 \in i + 1 .. N - 1
      BY <1>1, <1>2, <1>12, <2>3
    <3> QED
      BY <1>9, <2>1, <3>1
  <2> QED
    BY <2>2, <2>3
<1>13. \A j \in i + 1 .. N : PrevOffset(j)' = PrevOffset(j) - Size(i) /\ PrevOffset(j)' \in Nat
  BY <1>7, <1>8, <1>12
<1>14. rec'[N] = Guard
  BY <1>1, <1>4 DEF OffsetsAreRight
<1> QED
  BY <1>2, <1>3, <1>4, <1>7, <1>9, <1>10, <1>11, <1>13, <1>14 DEF Freed

LEMMA DeleteMiddleKeeps ==
  ASSUME IInv, NEW i \in 0 .. N - 1, DeleteItem(i), i + 1 # N
  PROVE  IInv'
<1>1. /\ N \in Nat /\ Top \in Nat /\ OffsetsAreRight
      /\ N <= MaxRecords /\ TableClearOfData
      /\ bytes \in [1 .. Top -> Byte]
  BY Counts DEF IInv
<1>2. Freed(i)
  BY FreeSays
<1>3. N' = N /\ i \in 0 .. N - 2 /\ Size(i) \in Nat
  BY <1>2 DEF Freed, UpdateHeader, N
<1>4. \A j \in 0 .. N : PrevOffset(j) \in Nat
  BY <1>1, Increasing
<1>5. OffsetsAreRight'
  <2>1. Used(N - 1)'
    <3>1. N - 1 \in i + 1 .. N - 1 /\ N # 0
      BY <1>1, <1>3
    <3>2. rec'[N - 1].main = rec[N - 1].main
      BY <1>2, <3>1 DEF Freed
    <3>3. rec[N - 1].main # InvalidIndex
      BY <1>1, <3>1 DEF OffsetsAreRight, Used
    <3> QED
      BY <1>3, <3>2, <3>3 DEF Used
  <2>2. ASSUME NEW j \in 0 .. N - 1
        PROVE  /\ rec'[j].off \in Nat
               /\ IF Used(j)' THEN PrevOffset(j)' + WordSize <= rec'[j].off
                              ELSE PrevOffset(j)' = rec'[j].off
    <3>1. CASE j < i
      <4>1. rec'[j] = rec[j] /\ PrevOffset(j)' = PrevOffset(j)
        BY <1>2, <1>3, <3>1 DEF Freed
      <4> QED
        BY <1>1, <4>1 DEF OffsetsAreRight, Used
    <3>2. CASE j = i
      <4>1. rec'[i] = [off |-> PrevOffset(i), main |-> InvalidIndex]
            /\ PrevOffset(i)' = PrevOffset(i)
        BY <1>2, <1>3 DEF Freed
      <4>2. i \in 0 .. N
        BY <1>1
      <4> QED
        BY <1>4, <3>2, <4>1, <4>2 DEF Used
    <3>3. CASE j > i
      <4>1. /\ rec'[j].off = rec[j].off - Size(i) /\ rec'[j].main = rec[j].main
            /\ PrevOffset(j)' = PrevOffset(j) - Size(i) /\ PrevOffset(j)' \in Nat
            /\ j \in 0 .. N
        BY <1>1, <1>2, <1>3, <3>3 DEF Freed
      <4>2. Used(j)' <=> Used(j)
        BY <4>1 DEF Used
      <4>3. /\ rec[j].off \in Nat
            /\ IF Used(j) THEN PrevOffset(j) + WordSize <= rec[j].off
                          ELSE PrevOffset(j) = rec[j].off
        BY <1>1 DEF OffsetsAreRight
      <4>4. PrevOffset(j) \in Nat
        BY <1>4, <4>1
      <4> QED
        BY <1>3, <4>1, <4>2, <4>3, <4>4, SizesArePos
    <3> QED
      BY <1>3, <3>1, <3>2, <3>3
  <2> QED
    BY <1>2, <1>3, <2>1, <2>2 DEF Freed, OffsetsAreRight, Record
<1>6. Top' = Top - Size(i) /\ Top - Size(i) \in Nat
  <2>1. N \in i + 1 .. N
    BY <1>1, <1>3
  <2> QED
    BY <1>2, <1>3, <2>1 DEF Freed, Top
<1>7. bytes' \in [1 .. Top - Size(i) -> Byte]
  <2>1. bytes' = [o \in 1 .. Top - Size(i) |->
                    IF o <= PrevOffset(i) THEN bytes[o] ELSE bytes[o + Size(i)]]
    BY <1>2 DEF Freed
  <2>2. \A o \in 1 .. Top - Size(i) : o \in 1 .. Top /\ o + Size(i) \in 1 .. Top
    BY <1>1, <1>3, <1>6
  <2> QED
    BY <1>1, <2>1, <2>2
<1>8. HeaderSize + (N + 1) * IndexSize <= BlockSize - (Top - Size(i))
  <2>1. (N + 1) * IndexSize \in Nat
    BY <1>1, SizesArePos, Times
  <2>2. HeaderSize + (N + 1) * IndexSize <= BlockSize - Top
    BY <1>1 DEF TableClearOfData
  <2> QED
    BY <1>1, <1>3, <2>1, <2>2, SizesArePos
<1>9. UpdateHeader(N, Top - Size(i))
  BY <1>2 DEF Freed
<1> QED
  BY <1>1, <1>5, <1>6, <1>7, <1>8, <1>9, HeaderIsUpdated

\* Neither a rewrite nor a new object for the block changes what it has.
LEMMA SameBlock ==
  ASSUME IInv, HeaderIsKept', init' \in BOOLEAN,
         UNCHANGED <<header, rec>>, bytes' \in [1 .. Top -> Byte]
  PROVE  IInv'
<1>1. N = header.numItems /\ Space = header.space
  BY Counts DEF IInv
<1>2. N' = header.numItems /\ Space' = header.space
  BY DEF HeaderIsKept, N, Space
<1>3. N' = N /\ Space' = Space
  BY <1>1, <1>2
<1>4. \A i : PrevOffset(i)' = PrevOffset(i) /\ Used(i)' = Used(i)
  BY DEF PrevOffset, Used
<1>5. Top' = Top
  BY <1>3, <1>4 DEF Top
<1>6. OffsetsAreRight'
  BY <1>3, <1>4 DEF IInv, OffsetsAreRight
<1>7. TableClearOfData' /\ FreeSpace(N, Top)' = FreeSpace(N, Top)
  BY <1>3, <1>5 DEF IInv, TableClearOfData, FreeSpace
<1> QED
  BY <1>3, <1>5, <1>6, <1>7 DEF IInv

LEMMA WriteKeeps ==
  ASSUME IInv, NEW i \in 0 .. N - 1, NEW d \in Items, WriteItem(i, d)
  PROVE  IInv'
<1>1. /\ N \in Nat /\ Top \in Nat /\ OffsetsAreRight
      /\ N = header.numItems /\ Space = header.space
      /\ HeaderIsKept /\ bytes \in [1 .. Top -> Byte]
  BY Counts DEF IInv
<1>2. /\ Len(d) = Size(i)
      /\ bytes' = [o \in 1 .. Top |->
                     IF o > PrevOffset(i) /\ o <= rec[i].off
                     THEN d[rec[i].off - o + 1] ELSE bytes[o]]
      /\ init' = TRUE /\ numItems' = N /\ space' = Space /\ UNCHANGED <<header, rec>>
  BY DEF WriteItem
<1>3. HeaderIsKept'
  BY <1>1, <1>2 DEF HeaderIsKept
<1>4. i \in 0 .. N /\ rec[i].off \in Nat /\ PrevOffset(i) \in Nat
  BY <1>1, Increasing DEF OffsetsAreRight
<1>5. Len(d) = rec[i].off - PrevOffset(i) /\ \A o \in 1 .. Len(d) : d[o] \in Byte
  BY <1>2, ItemsAreWords, ElementOfSeq DEF Size
<1>6. ASSUME NEW o \in 1 .. Top
      PROVE  (IF o > PrevOffset(i) /\ o <= rec[i].off
              THEN d[rec[i].off - o + 1] ELSE bytes[o]) \in Byte
  <2>1. o > PrevOffset(i) /\ o <= rec[i].off => rec[i].off - o + 1 \in 1 .. Len(d)
    BY <1>4, <1>5
  <2> QED
    BY <1>1, <1>5, <2>1
<1>7. bytes' \in [1 .. Top -> Byte]
  BY <1>2, <1>6
<1> QED
  BY <1>2, <1>3, <1>7, SameBlock

LEMMA ReopenKeeps ==
  ASSUME IInv, Reopen
  PROVE  IInv'
<1>1. HeaderIsKept'
  BY DEF IInv, HeaderIsKept, Reopen
<1> QED
  BY <1>1, SameBlock DEF IInv, Reopen

LEMMA IdleKeeps ==
  ASSUME IInv, UNCHANGED vars
  PROVE  IInv'
<1>1. HeaderIsKept'
  BY DEF IInv, HeaderIsKept, vars
<1> QED
  BY <1>1, SameBlock DEF IInv, vars

\* After any additions, deletions, rewrites and sessions, the offsets divide
\* the data among the items, the header says what there is, and there is room
\* for the table (cBlockRecordArray).
THEOREM InductiveInvariant == Spec => []IInv
<1>1. ASSUME IInv, [Next]_vars
      PROVE  IInv'
  <2>1. CASE \E d \in Items : AddItem(d)
    BY <1>1, <2>1, AddKeeps
  <2>2. CASE \E i \in 0 .. N - 1 : DeleteItem(i)
    <3>1. PICK i \in 0 .. N - 1 : DeleteItem(i)
      BY <2>2
    <3>2. CASE i + 1 = N
      BY <1>1, <3>1, <3>2, DeleteLastKeeps DEF DeleteItem
    <3>3. CASE i + 1 # N
      BY <1>1, <3>1, <3>3, DeleteMiddleKeeps
    <3> QED
      BY <3>2, <3>3
  <2>3. CASE \E i \in 0 .. N - 1, d \in Items : WriteItem(i, d)
    BY <1>1, <2>3, WriteKeeps
  <2>4. CASE Reopen
    BY <1>1, <2>4, ReopenKeeps
  <2>5. CASE UNCHANGED vars
    BY <1>1, <2>5, IdleKeeps
  <2> QED
    BY <1>1, <2>1, <2>2, <2>3, <2>4, <2>5 DEF Next
<1> QED
  BY <1>1, InitIsRight, PTL DEF Spec

-----------------------------------------------------------------------------
(* The theorems                                                            *)

\* The header, the indexes and the data keep their types, and there is always
\* exactly the data that the indexes divide.
THEOREM TypeCorrect == Spec => []TypeOK
<1>1. ASSUME IInv
      PROVE  TypeOK
  <2>1. HeaderIsKept /\ OffsetsAreRight /\ init \in BOOLEAN /\ bytes \in [1 .. Top -> Byte]
    BY <1>1 DEF IInv
  <2>2. numItems \in Nat /\ space \in Nat \cup {-1} /\ header \in [numItems : Nat, space : Nat]
    BY <2>1 DEF HeaderIsKept
  <2> QED
    BY <2>1, <2>2 DEF TypeOK, OffsetsAreRight
<1> QED
  BY <1>1, InductiveInvariant, PTL

\* A block is one that IsClassValid accepts when a later session opens it,
\* whose table is clear of the data, with all the space its header offers,
\* after any sequence of additions, deletions and rewrites.
THEOREM LayoutSound == Spec => []LayoutIsSound
<1>1. ASSUME IInv
      PROVE  LayoutIsSound
  <2>1. /\ HeaderIsKept /\ OffsetsAreRight /\ TableClearOfData
        /\ Space = FreeSpace(N, Top) /\ N <= MaxRecords
    BY <1>1 DEF IInv
  <2>2. N \in Nat /\ Top \in Nat /\ FreeSpace(N, Top) \in Nat
    BY <1>1, Counts DEF IInv
  <2>3. \A i \in 0 .. N : PrevOffset(i) \in Nat
    BY <2>1, <2>2, Increasing
  <2>4. ASSUME NEW i \in 0 .. N - 1
        PROVE  rec[i].off >= PrevOffset(i) /\ (~Used(i) => Size(i) = 0)
    <3>1. /\ rec[i].off \in Nat
          /\ IF Used(i) THEN PrevOffset(i) + WordSize <= rec[i].off
                        ELSE PrevOffset(i) = rec[i].off
      BY <2>1 DEF OffsetsAreRight
    <3>2. PrevOffset(i) \in Nat
      BY <2>2, <2>3
    <3> QED
      BY <3>1, <3>2, SizesArePos DEF Size
  <2>5. HeaderSize + N * IndexSize < BlockSize - Top
    <3>1. PICK p \in Nat : p = N * IndexSize /\ (N + 1) * IndexSize = p + IndexSize
      BY <2>2, SizesArePos, Times
    <3>2. HeaderSize + (p + IndexSize) <= BlockSize - Top
      BY <2>1, <3>1 DEF TableClearOfData
    <3>3. HeaderSize + p < BlockSize - Top
      BY <2>2, <3>2, SizesArePos
    <3> QED
      BY <3>1, <3>3
  <2>6. IsClassValid
    <3>1. Space \in 0 .. MaxDataSize
      <4>1. MaxDataSize \in Int
        BY SizesArePos DEF MaxDataSize
      <4> QED
        BY <2>1, <2>2, <4>1, SpaceIsThere
    <3>2. MaxRecords \in Int
      BY SizesArePos DEF MaxRecords
    <3>3. N # 0 => Used(N - 1) /\ rec[N - 1].off # -1
      <4>1. N # 0 => N - 1 \in 0 .. N - 1
        BY <2>2
      <4>2. \A i \in 0 .. N - 1 : rec[i].off \in Nat
        BY <2>1 DEF OffsetsAreRight
      <4>3. -1 \notin Nat
        OBVIOUS
      <4> QED
        BY <2>1, <4>1, <4>2, <4>3 DEF OffsetsAreRight
    <3> QED
      BY <2>1, <2>2, <2>4, <2>5, <3>1, <3>2, <3>3 DEF IsClassValid, OffsetsAreRight, Guard
  <2>7. FreeIndexesAreEmpty
    BY <2>4 DEF FreeIndexesAreEmpty
  <2>8. HeaderIsTrue
    <3>1. Space > 0 => HeaderSize + (N + 2) * IndexSize <= BlockSize - (Top + Space)
      <4>1. PICK s \in Nat : s = FreeSpace(N, Top)
        BY <2>2
      <4>2. s > 0 => s \in 1 .. FreeSpace(N, Top)
        BY <4>1
      <4>3. s > 0 => HeaderSize + (N + 2) * IndexSize <= BlockSize - (Top + s)
        BY <2>2, <4>2, SpaceIsThere
      <4> QED
        BY <2>1, <4>1, <4>3
    <3> QED
      BY <2>1, <3>1 DEF HeaderIsTrue, HeaderIsKept
  <2> QED
    BY <2>1, <2>6, <2>7, <2>8 DEF LayoutIsSound
<1> QED
  BY <1>1, InductiveInvariant, PTL

-----------------------------------------------------------------------------
(* The table of items that the block is to its clients                     *)

Recorded == {j \in 0 .. N - 1 : Used(j)}
Held     == [i \in Recorded |-> ItemAt(i)]

\* An item whose bytes have all moved by the same distance is the same item.
LEMMA ItemStays ==
  ASSUME NEW j, NEW s \in Int, rec[j].off \in Int, PrevOffset(j) \in Int,
         rec'[j].off = rec[j].off + s, PrevOffset(j)' = PrevOffset(j) + s,
         \A o \in PrevOffset(j) + 1 .. rec[j].off : bytes'[o + s] = bytes[o]
  PROVE  ItemAt(j)' = ItemAt(j)
<1>1. Size(j)' = Size(j) /\ Size(j) \in Int
  BY DEF Size
<1>2. ASSUME NEW k \in 1 .. Size(j)
      PROVE  bytes'[rec'[j].off - k + 1] = bytes[rec[j].off - k + 1]
  <2>1. rec[j].off - k + 1 \in PrevOffset(j) + 1 .. rec[j].off
    BY DEF Size
  <2>2. bytes'[(rec[j].off - k + 1) + s] = bytes[rec[j].off - k + 1]
    BY <2>1
  <2>3. rec'[j].off - k + 1 = (rec[j].off - k + 1) + s
    OBVIOUS
  <2> QED
    BY <2>2, <2>3
<1> QED
  BY <1>1, <1>2 DEF ItemAt

\* What the step lemmas need of the offsets of an item.
LEMMA Ends ==
  ASSUME IInv
  PROVE  /\ N \in Nat /\ Top \in Nat
         /\ \A j \in 0 .. N - 1 : /\ rec[j].off \in Nat /\ PrevOffset(j) \in Nat
                                  /\ PrevOffset(j) <= rec[j].off /\ rec[j].off <= Top
                                  /\ Size(j) \in Nat
         /\ \A j \in 0 .. N - 1 : \A i \in 0 .. j - 1 : rec[i].off <= PrevOffset(j)
<1>1. N \in Nat /\ Top \in Nat /\ OffsetsAreRight
  BY Counts DEF IInv
<1>2. /\ \A i \in 0 .. N : PrevOffset(i) \in Nat
      /\ \A i \in 0 .. N - 1 : PrevOffset(i + 1) = rec[i].off
      /\ \A j \in 0 .. N : \A i \in 0 .. j : PrevOffset(i) <= PrevOffset(j)
  BY <1>1, Increasing
<1>3. \A j \in 0 .. N - 1 : /\ j \in 0 .. N /\ j + 1 \in 0 .. N /\ j \in 0 .. j + 1
                            /\ N \in 0 .. N /\ j + 1 \in 0 .. N
  BY <1>1
<1>4. ASSUME NEW j \in 0 .. N - 1
      PROVE  /\ rec[j].off \in Nat /\ PrevOffset(j) \in Nat
             /\ PrevOffset(j) <= rec[j].off /\ rec[j].off <= Top
             /\ Size(j) \in Nat
  <2>1. /\ PrevOffset(j) \in Nat /\ PrevOffset(j + 1) \in Nat
        /\ PrevOffset(j) <= PrevOffset(j + 1) /\ PrevOffset(j + 1) <= PrevOffset(N)
        /\ PrevOffset(j + 1) = rec[j].off
    BY <1>2, <1>3
  <2> QED
    BY <2>1 DEF Top, Size
<1>5. ASSUME NEW j \in 0 .. N - 1, NEW i \in 0 .. j - 1
      PROVE  rec[i].off <= PrevOffset(j)
  <2>1. i \in 0 .. N - 1 /\ i + 1 \in 0 .. j /\ j \in 0 .. N
    BY <1>1
  <2> QED
    BY <1>2, <2>1
<1> QED
  BY <1>1, <1>4, <1>5

LEMMA InitRefines == Init => Table!Init
<1> SUFFICES ASSUME Init
             PROVE  Held = << >>
  BY DEF Table!Init, Held, Recorded
<1>1. N = 0
  BY DEF Init, N
<1>2. Recorded = {}
  BY <1>1 DEF Recorded
<1> QED
  BY <1>2 DEF Held

LEMMA AddRefines ==
  ASSUME IInv, NEW d \in Items, AddItem(d)
  PROVE  Table!AddItem(d)
<1>1. /\ N \in Nat /\ Top \in Nat
      /\ \A j \in 0 .. N - 1 : /\ rec[j].off \in Nat /\ PrevOffset(j) \in Nat
                               /\ PrevOffset(j) <= rec[j].off /\ rec[j].off <= Top
      /\ \A j \in 0 .. N - 1 : \A h \in 0 .. j - 1 : rec[h].off <= PrevOffset(j)
  BY Ends
<1>2. PICK i \in 0 .. N, n \in Nat : Added(i, n, d)
  BY AddSays
<1>3. /\ n = IF i = N THEN N + 1 ELSE N
      /\ i < n /\ i \in Nat /\ i \in 0 .. n - 1
      /\ N' = n
  BY <1>1, <1>2 DEF Added, UpdateHeader, N
<1>4. /\ d \in Seq(Byte) /\ Len(d) \in Nat
      /\ d = [k \in 1 .. Len(d) |-> d[k]]
  BY ItemsAreWords, LenProperties, SeqDef
<1>5. PrevOffset(i) \in Nat /\ PrevOffset(i) <= Top
  <2>1. OffsetsAreRight /\ N \in 0 .. N
    BY <1>1 DEF IInv
  <2> QED
    BY <1>1, <2>1, Increasing DEF Top
<1>6. /\ \A o \in 1 .. PrevOffset(i) : bytes'[o] = bytes[o]
      /\ \A k \in 1 .. Len(d) : bytes'[PrevOffset(i) + Len(d) - k + 1] = d[k]
      /\ \A o \in PrevOffset(i) + 1 .. Top : bytes'[o + Len(d)] = bytes[o]
  <2>1. \A o \in 1 .. Top + Len(d) :
          /\ o <= PrevOffset(i) => bytes'[o] = bytes[o]
          /\ o > PrevOffset(i) /\ o <= PrevOffset(i) + Len(d)
               => bytes'[o] = d[PrevOffset(i) + Len(d) - o + 1]
          /\ o > PrevOffset(i) + Len(d) => bytes'[o] = bytes[o - Len(d)]
    BY <1>1, <1>2, <1>4, <1>5 DEF Added, DataWith
  <2>2. ASSUME NEW k \in 1 .. Len(d)
        PROVE  bytes'[PrevOffset(i) + Len(d) - k + 1] = d[k]
    <3>1. PICK o \in Nat : o = PrevOffset(i) + Len(d) - k + 1
      BY <1>4, <1>5
    <3>2. /\ o \in 1 .. Top + Len(d) /\ o > PrevOffset(i) /\ o <= PrevOffset(i) + Len(d)
          /\ PrevOffset(i) + Len(d) - o + 1 = k
      <4>1. Top \in Nat /\ Len(d) \in Nat /\ PrevOffset(i) \in Nat /\ k \in Nat
            /\ PrevOffset(i) <= Top /\ 1 <= k /\ k <= Len(d)
        BY <1>1, <1>4, <1>5
      <4>2. o \in 1 .. Top + Len(d) /\ o > PrevOffset(i) /\ o <= PrevOffset(i) + Len(d)
        BY <3>1, <4>1
      <4>3. PrevOffset(i) + Len(d) - o + 1 = k
        BY SMTT(30), <3>1, <4>1
      <4> QED
        BY <4>2, <4>3
    <3> QED
      BY <2>1, <3>1, <3>2
  <2>3. ASSUME NEW o \in PrevOffset(i) + 1 .. Top
        PROVE  bytes'[o + Len(d)] = bytes[o]
    <3>1. PICK q \in Nat : q = o + Len(d)
      BY <1>4, <1>5
    <3>2. q \in 1 .. Top + Len(d) /\ q > PrevOffset(i) + Len(d) /\ q - Len(d) = o
      BY <1>1, <1>4, <1>5, <3>1
    <3> QED
      BY <2>1, <3>1, <3>2
  <2>4. \A o \in 1 .. PrevOffset(i) : o \in 1 .. Top + Len(d) /\ o <= PrevOffset(i)
    BY <1>1, <1>4, <1>5
  <2> QED
    BY <2>1, <2>2, <2>3, <2>4
<1>7. i \notin Recorded
  BY <1>1, <1>2 DEF Added, Recorded
<1>8. Recorded' = Recorded \cup {i}
  <2>1. Used(i)'
    BY <1>2 DEF Added, Used, InvalidIndex
  <2>2. ASSUME NEW j \in 0 .. n - 1, j # i
        PROVE  j \in 0 .. N - 1 /\ (Used(j)' <=> Used(j))
    <3>1. j \in 0 .. N - 1
      BY <1>1, <1>3, <2>2
    <3>2. rec'[j].main = rec[j].main
      <4>1. j \in 0 .. i - 1 \/ j \in i + 1 .. n - 1
        BY <1>3, <2>2
      <4> QED
        BY <1>2, <4>1 DEF Added
    <3> QED
      BY <3>1, <3>2 DEF Used
  <2>3. 0 .. N - 1 \subseteq 0 .. n - 1
    BY <1>1, <1>3
  <2>4. Recorded' = {j \in 0 .. n - 1 : Used(j)'}
    BY <1>3 DEF Recorded
  <2> QED
    BY <1>3, <2>1, <2>2, <2>3, <2>4 DEF Recorded
<1>9. ItemAt(i)' = d
  <2>1. rec'[i].off = PrevOffset(i) + Len(d) /\ PrevOffset(i)' = PrevOffset(i)
    BY <1>2, <1>3 DEF Added
  <2>2. Size(i)' = Len(d)
    BY <1>4, <1>5, <2>1 DEF Size
  <2>3. ASSUME NEW k \in 1 .. Len(d)
        PROVE  bytes'[rec'[i].off - k + 1] = d[k]
    <3>1. bytes'[PrevOffset(i) + Len(d) - k + 1] = d[k]
      BY <1>6
    <3>2. PICK e \in Nat : e = PrevOffset(i) + Len(d)
      BY <1>4, <1>5
    <3>3. bytes'[e - k + 1] = d[k]
      BY <1>4, <1>5, <3>1, <3>2
    <3>4. rec'[i].off = e
      BY <2>1, <3>2
    <3> QED
      BY <3>3, <3>4
  <2> QED
    BY <1>4, <2>2, <2>3 DEF ItemAt
<1>10. ASSUME NEW j \in Recorded
       PROVE  ItemAt(j)' = ItemAt(j)
  <2>1. j \in 0 .. N - 1 /\ j # i
    BY <1>7 DEF Recorded
  <2>2. /\ rec[j].off \in Nat /\ PrevOffset(j) \in Nat
        /\ PrevOffset(j) <= rec[j].off /\ rec[j].off <= Top
    BY <1>1, <2>1
  <2>3. CASE j < i
    <3>1. rec'[j] = rec[j] /\ PrevOffset(j)' = PrevOffset(j)
      BY <1>2, <1>3, <2>1, <2>3 DEF Added
    <3>2. rec[j].off <= PrevOffset(i)
      <4>1. OffsetsAreRight /\ j + 1 \in 0 .. i /\ i \in 0 .. N
        BY <1>1, <1>3, <2>1, <2>3 DEF IInv
      <4>2. PrevOffset(j + 1) = rec[j].off /\ PrevOffset(j + 1) <= PrevOffset(i)
        BY <1>1, <2>1, <4>1, Increasing
      <4> QED
        BY <4>2
    <3>3. ASSUME NEW o \in PrevOffset(j) + 1 .. rec[j].off
          PROVE  bytes'[o + 0] = bytes[o]
      <4>1. o \in 1 .. PrevOffset(i) /\ o + 0 = o
        BY <1>1, <1>4, <1>5, <2>2, <3>2
      <4> QED
        BY <1>6, <4>1
    <3>4. rec'[j].off = rec[j].off + 0 /\ PrevOffset(j)' = PrevOffset(j) + 0
      BY <2>2, <3>1
    <3> QED
      BY <2>2, <3>3, <3>4, ItemStays
  <2>4. CASE j > i
    <3>1. j \in i + 1 .. n - 1
      BY <1>1, <1>3, <2>1, <2>4
    <3>2. rec'[j].off = rec[j].off + Len(d) /\ PrevOffset(j)' = PrevOffset(j) + Len(d)
      BY <1>2, <3>1 DEF Added
    <3>3. PrevOffset(i) <= PrevOffset(j)
      <4>1. OffsetsAreRight /\ i \in 0 .. j /\ j \in 0 .. N
        BY <1>1, <1>3, <2>1, <2>4 DEF IInv
      <4> QED
        BY <1>1, <4>1, Increasing
    <3>4. ASSUME NEW o \in PrevOffset(j) + 1 .. rec[j].off
          PROVE  bytes'[o + Len(d)] = bytes[o]
      <4>1. o \in PrevOffset(i) + 1 .. Top
        BY <1>1, <1>4, <1>5, <2>2, <3>3
      <4> QED
        BY <1>6, <4>1
    <3> QED
      BY <1>4, <2>2, <3>2, <3>4, ItemStays
  <2> QED
    BY <1>1, <1>3, <2>1, <2>3, <2>4
<1>11. i \in 0 .. MaxRecords - 1
  <2>1. N' <= MaxRecords
    BY AddKeeps DEF IInv
  <2>2. MaxRecords \in Int
    BY SizesArePos DEF MaxRecords
  <2> QED
    BY <1>3, <2>1, <2>2
<1>12. Held' = [j \in DOMAIN Held \cup {i} |-> IF j = i THEN d ELSE Held[j]]
  BY <1>7, <1>8, <1>9, <1>10 DEF Held
<1>13. \E x \in (0 .. MaxRecords - 1) \ DOMAIN Held :
         Held' = [j \in DOMAIN Held \cup {x} |-> IF j = x THEN d ELSE Held[j]]
  BY <1>7, <1>11, <1>12 DEF Held
<1> QED
  BY <1>13 DEF Table!AddItem, Held, Recorded

LEMMA DeleteLastRefines ==
  ASSUME IInv, NEW i \in 0 .. N - 1, DeleteItem(i), i + 1 = N
  PROVE  i \in Recorded /\ Held' = [j \in Recorded \ {i} |-> Held[j]]
<1>1. /\ N \in Nat /\ Top \in Nat
      /\ \A j \in 0 .. N - 1 : /\ rec[j].off \in Nat /\ PrevOffset(j) \in Nat
                               /\ PrevOffset(j) <= rec[j].off /\ rec[j].off <= Top
      /\ \A j \in 0 .. N - 1 : \A h \in 0 .. j - 1 : rec[h].off <= PrevOffset(j)
  BY Ends
<1>2. PICK n \in 0 .. N - 1 :
        /\ IsTrimmed(n)
        /\ rec' = [j \in 0 .. n |-> IF j = n THEN Guard ELSE rec[j]]
        /\ bytes' = [o \in 1 .. PrevOffset(n) |-> bytes[o]]
        /\ UpdateHeader(n, PrevOffset(n))
  BY DEF DeleteItem, DeleteLast
<1>3. Used(i) /\ i = N - 1
  BY <1>1 DEF DeleteItem, IsValid
<1>4. N' = n /\ n \in Nat /\ n <= i
  BY <1>1, <1>2, <1>3 DEF UpdateHeader, N
<1>5. \A j \in 0 .. n - 1 : rec'[j] = rec[j] /\ PrevOffset(j)' = PrevOffset(j)
  <2>1. \A j \in 0 .. n - 1 : rec'[j] = rec[j]
    BY <1>2, <1>4
  <2> QED
    BY <1>4, <2>1 DEF PrevOffset
<1>6. Recorded' = Recorded \ {i}
  <2>1. Recorded' = {j \in 0 .. n - 1 : Used(j)'}
    BY <1>4 DEF Recorded
  <2>2. \A j \in 0 .. n - 1 : Used(j)' <=> Used(j)
    BY <1>5 DEF Used
  <2>3. \A j \in n .. N - 2 : ~Used(j)
    BY <1>2 DEF IsTrimmed
  <2>4. \A j \in 0 .. N - 1 : j \in 0 .. n - 1 \/ j \in n .. N - 2 \/ j = i
    BY <1>1, <1>3, <1>4
  <2>5. \A j \in 0 .. n - 1 : j \in 0 .. N - 1 /\ j # i
    BY <1>1, <1>3, <1>4
  <2> QED
    BY <2>1, <2>2, <2>3, <2>4, <2>5 DEF Recorded
<1>7. ASSUME NEW j \in Recorded \ {i}
      PROVE  ItemAt(j)' = ItemAt(j)
  <2>1. j \in 0 .. n - 1 /\ j \in 0 .. N - 1 /\ n \in 0 .. N - 1
    <3>1. j \in Recorded'
      BY <1>6
    <3> QED
      BY <1>1, <1>2, <1>3, <1>4, <3>1 DEF Recorded
  <2>2. rec'[j] = rec[j] /\ PrevOffset(j)' = PrevOffset(j)
    BY <1>5, <2>1
  <2>3. rec[j].off \in Nat /\ PrevOffset(j) \in Nat /\ rec[j].off <= PrevOffset(n)
        /\ PrevOffset(n) \in Nat
    BY <1>1, <2>1
  <2>4. rec'[j].off = rec[j].off + 0 /\ PrevOffset(j)' = PrevOffset(j) + 0
    BY <2>2, <2>3
  <2>5. ASSUME NEW o \in PrevOffset(j) + 1 .. rec[j].off
        PROVE  bytes'[o + 0] = bytes[o]
    <3>1. o \in 1 .. PrevOffset(n) /\ o + 0 = o
      BY <2>3
    <3> QED
      BY <1>2, <3>1
  <2> QED
    BY <2>3, <2>4, <2>5, ItemStays
<1>8. i \in Recorded
  BY <1>3 DEF Recorded
<1> QED
  BY <1>6, <1>7, <1>8 DEF Held

LEMMA DeleteMiddleRefines ==
  ASSUME IInv, NEW i \in 0 .. N - 1, DeleteItem(i), i + 1 # N
  PROVE  i \in Recorded /\ Held' = [j \in Recorded \ {i} |-> Held[j]]
<1>1. /\ N \in Nat /\ Top \in Nat
      /\ \A j \in 0 .. N - 1 : /\ rec[j].off \in Nat /\ PrevOffset(j) \in Nat
                               /\ PrevOffset(j) <= rec[j].off /\ rec[j].off <= Top
      /\ \A j \in 0 .. N - 1 : \A h \in 0 .. j - 1 : rec[h].off <= PrevOffset(j)
  BY Ends
<1>2. Freed(i)
  BY FreeSays
<1>3. i \in Recorded /\ N' = N /\ i \in 0 .. N - 2
  BY <1>2 DEF Freed, UpdateHeader, N, Recorded
<1>4. Size(i) \in Nat /\ rec[i].off = PrevOffset(i) + Size(i)
      /\ rec[i].off \in Nat /\ PrevOffset(i) \in Nat /\ rec[i].off <= Top
  BY SMTT(30), <1>1, <1>2 DEF Freed, Size
<1>5. /\ \A o \in 1 .. PrevOffset(i) : bytes'[o] = bytes[o]
      /\ \A o \in rec[i].off + 1 .. Top : bytes'[o - Size(i)] = bytes[o]
  <2>1. bytes' = [o \in 1 .. Top - Size(i) |->
                    IF o <= PrevOffset(i) THEN bytes[o] ELSE bytes[o + Size(i)]]
    BY <1>2 DEF Freed
  <2>2. \A o \in 1 .. PrevOffset(i) : o \in 1 .. Top - Size(i) /\ o <= PrevOffset(i)
    BY <1>1, <1>4
  <2>3. ASSUME NEW o \in rec[i].off + 1 .. Top
        PROVE  bytes'[o - Size(i)] = bytes[o]
    <3>1. PICK q \in Nat : q = o - Size(i)
      BY <1>1, <1>4
    <3>2. q \in 1 .. Top - Size(i) /\ ~(q <= PrevOffset(i)) /\ q + Size(i) = o
      BY <1>1, <1>4, <3>1
    <3> QED
      BY <2>1, <3>1, <3>2
  <2> QED
    BY <2>1, <2>2, <2>3
<1>6. Recorded' = Recorded \ {i}
  <2>1. Recorded' = {j \in 0 .. N - 1 : Used(j)'}
    BY <1>3 DEF Recorded
  <2>2. ~Used(i)'
    BY <1>2 DEF Freed, Used
  <2>3. ASSUME NEW j \in 0 .. N - 1, j # i
        PROVE  Used(j)' <=> Used(j)
    <3>1. j \in 0 .. i - 1 \/ j \in i + 1 .. N - 1
      BY <1>1, <1>3, <2>3
    <3>2. rec'[j].main = rec[j].main
      BY <1>2, <3>1 DEF Freed
    <3> QED
      BY <3>2 DEF Used
  <2> QED
    BY <2>1, <2>2, <2>3 DEF Recorded
<1>7. ASSUME NEW j \in Recorded \ {i}
      PROVE  ItemAt(j)' = ItemAt(j)
  <2>1. j \in 0 .. N - 1 /\ j # i
    BY DEF Recorded
  <2>2. /\ rec[j].off \in Nat /\ PrevOffset(j) \in Nat
        /\ PrevOffset(j) <= rec[j].off /\ rec[j].off <= Top
    BY <1>1, <2>1
  <2>3. CASE j < i
    <3>1. rec'[j] = rec[j] /\ PrevOffset(j)' = PrevOffset(j) /\ rec[j].off <= PrevOffset(i)
      BY <1>1, <1>2, <1>3, <2>1, <2>3 DEF Freed
    <3>2. rec'[j].off = rec[j].off + 0 /\ PrevOffset(j)' = PrevOffset(j) + 0
      BY <2>2, <3>1
    <3>3. ASSUME NEW o \in PrevOffset(j) + 1 .. rec[j].off
          PROVE  bytes'[o + 0] = bytes[o]
      <4>1. o \in 1 .. PrevOffset(i) /\ o + 0 = o
        BY <1>4, <2>2, <3>1
      <4> QED
        BY <1>5, <4>1
    <3> QED
      BY <2>2, <3>2, <3>3, ItemStays
  <2>4. CASE j > i
    <3>1. j \in i + 1 .. N - 1 /\ j \in i + 1 .. N /\ i \in 0 .. j - 1
      BY <1>1, <1>3, <2>1, <2>4
    <3>2. rec'[j].off = rec[j].off - Size(i) /\ PrevOffset(j)' = PrevOffset(j) - Size(i)
      BY <1>2, <3>1 DEF Freed
    <3>3. rec[i].off <= PrevOffset(j)
      BY <1>1, <2>1, <3>1
    <3>4. PICK s \in Int : s = 0 - Size(i)
      BY <1>4
    <3>5. rec'[j].off = rec[j].off + s /\ PrevOffset(j)' = PrevOffset(j) + s
      BY <1>4, <2>2, <3>2, <3>4
    <3>6. ASSUME NEW o \in PrevOffset(j) + 1 .. rec[j].off
          PROVE  bytes'[o + s] = bytes[o]
      <4>1. o \in rec[i].off + 1 .. Top /\ o + s = o - Size(i)
        BY <1>1, <1>4, <2>2, <3>3, <3>4
      <4> QED
        BY <1>5, <4>1
    <3> QED
      BY <2>2, <3>5, <3>6, ItemStays
  <2> QED
    BY <1>1, <1>3, <2>1, <2>3, <2>4
<1> QED
  BY <1>3, <1>6, <1>7 DEF Held

LEMMA DeleteRefines ==
  ASSUME IInv, NEW i \in 0 .. N - 1, DeleteItem(i)
  PROVE  i \in DOMAIN Held /\ Table!DeleteItem(i)
<1>1. i \in Recorded /\ Held' = [j \in Recorded \ {i} |-> Held[j]]
  BY DeleteLastRefines, DeleteMiddleRefines
<1>2. DOMAIN Held = Recorded
  BY DEF Held
<1>3. i \in DOMAIN Held /\ Held' = [j \in DOMAIN Held \ {i} |-> Held[j]]
  BY <1>1, <1>2
<1> QED
  BY <1>3 DEF Table!DeleteItem, Table!Without, Held, Recorded

LEMMA WriteRefines ==
  ASSUME IInv, NEW i \in 0 .. N - 1, NEW d \in Items, WriteItem(i, d)
  PROVE  i \in DOMAIN Held /\ Table!WriteItem(i, d)
<1>1. /\ N \in Nat /\ Top \in Nat
      /\ \A j \in 0 .. N - 1 : /\ rec[j].off \in Nat /\ PrevOffset(j) \in Nat
                               /\ PrevOffset(j) <= rec[j].off /\ rec[j].off <= Top
                               /\ Size(j) \in Nat
      /\ \A j \in 0 .. N - 1 : \A h \in 0 .. j - 1 : rec[h].off <= PrevOffset(j)
  BY Ends
<1>2. /\ Used(i) /\ Len(d) = Size(i)
      /\ bytes' = [o \in 1 .. Top |->
                     IF o > PrevOffset(i) /\ o <= rec[i].off
                     THEN d[rec[i].off - o + 1] ELSE bytes[o]]
      /\ init' = TRUE /\ numItems' = N /\ UNCHANGED <<header, rec>>
  BY DEF WriteItem, IsValid
<1>3. N' = N
  BY <1>2 DEF N
<1>4. \A j : PrevOffset(j)' = PrevOffset(j) /\ Used(j)' = Used(j) /\ Size(j)' = Size(j)
  BY <1>2 DEF PrevOffset, Used, Size
<1>5. Recorded' = Recorded
  BY <1>3, <1>4 DEF Recorded
<1>6. /\ Len(d) \in Nat /\ d = [k \in 1 .. Len(d) |-> d[k]]
  BY ItemsAreWords, LenProperties
<1>7. rec[i].off \in Nat /\ PrevOffset(i) \in Nat /\ Size(i) \in Nat
      /\ rec[i].off <= Top /\ rec[i].off = PrevOffset(i) + Len(d)
  BY <1>1, <1>2 DEF Size
<1>8. /\ \A k \in 1 .. Len(d) : bytes'[rec[i].off - k + 1] = d[k]
      /\ \A o \in 1 .. Top : o <= PrevOffset(i) \/ rec[i].off < o => bytes'[o] = bytes[o]
  <2>1. PICK e \in Nat : e = rec[i].off
    BY <1>7
  <2>2. \A o \in 1 .. Top :
          /\ o > PrevOffset(i) /\ o <= e => bytes'[o] = d[e - o + 1]
          /\ o <= PrevOffset(i) \/ e < o => bytes'[o] = bytes[o]
    BY <1>1, <1>2, <1>7, <2>1
  <2>3. e <= Top /\ e = PrevOffset(i) + Len(d)
    BY <1>7, <2>1
  <2>4. ASSUME NEW k \in 1 .. Len(d)
        PROVE  bytes'[e - k + 1] = d[k]
    <3>1. PICK o \in Nat : o = e - k + 1
      BY <1>6, <1>7, <2>3
    <3>2. o \in 1 .. Top /\ o > PrevOffset(i) /\ o <= e /\ e - o + 1 = k
      <4>1. Top \in Nat /\ Len(d) \in Nat /\ PrevOffset(i) \in Nat /\ k \in Nat
        BY <1>1, <1>6, <1>7
      <4>2. o \in 1 .. Top /\ o > PrevOffset(i) /\ o <= e
        BY <2>3, <3>1, <4>1
      <4>3. e - o + 1 = k
        BY <3>1, <4>1
      <4> QED
        BY <4>2, <4>3
    <3>3. bytes'[o] = d[e - o + 1]
      BY <2>2, <3>2
    <3> QED
      BY <3>1, <3>2, <3>3
  <2> QED
    BY <2>1, <2>2, <2>4
<1>9. ItemAt(i)' = d
  <2>1. ItemAt(i)' = [k \in 1 .. Len(d) |-> bytes'[rec[i].off - k + 1]]
    BY <1>2, <1>4 DEF ItemAt
  <2> QED
    BY <1>8, <1>6, <2>1
<1>10. ASSUME NEW j \in Recorded \ {i}
      PROVE  ItemAt(j)' = ItemAt(j)
  <2>1. j \in 0 .. N - 1 /\ j # i
    BY DEF Recorded
  <2>2. /\ rec[j].off \in Nat /\ PrevOffset(j) \in Nat
        /\ PrevOffset(j) <= rec[j].off /\ rec[j].off <= Top
    BY <1>1, <2>1
  <2>3. rec[j].off <= PrevOffset(i) \/ rec[i].off <= PrevOffset(j)
    <3>1. j \in 0 .. i - 1 \/ i \in 0 .. j - 1
      BY <1>1, <2>1
    <3> QED
      BY <1>1, <2>1, <3>1
  <2>4. rec'[j].off = rec[j].off + 0 /\ PrevOffset(j)' = PrevOffset(j) + 0
    BY <1>2, <1>4, <2>2
  <2>5. ASSUME NEW o \in PrevOffset(j) + 1 .. rec[j].off
        PROVE  bytes'[o + 0] = bytes[o]
    <3>1. /\ Top \in Nat /\ rec[i].off \in Nat /\ PrevOffset(i) \in Nat
          /\ o \in Nat /\ PrevOffset(j) < o /\ o <= rec[j].off
      <4>1. Top \in Nat /\ rec[i].off \in Nat /\ PrevOffset(i) \in Nat
        BY <1>1, <1>7
      <4>2. o \in Nat /\ PrevOffset(j) < o /\ o <= rec[j].off
        BY <2>2
      <4> QED
        BY <4>1, <4>2
    <3>2. o \in 1 .. Top /\ o + 0 = o
      BY <2>2, <3>1
    <3>3. o <= PrevOffset(i) \/ rec[i].off < o
      BY <2>2, <2>3, <3>1
    <3>4. bytes'[o] = bytes[o]
      BY <1>8, <3>2, <3>3
    <3> QED
      BY <3>2, <3>4
  <2> QED
    BY <2>2, <2>4, <2>5, ItemStays
<1>11. i \in Recorded
  BY <1>2 DEF Recorded
<1>12. Held' = [Held EXCEPT ![i] = d]
  BY <1>5, <1>9, <1>10, <1>11 DEF Held
<1>13. Len(d) = Len(Held[i])
  <2>1. Held[i] = [k \in 1 .. Size(i) |-> bytes[rec[i].off - k + 1]]
    BY <1>11 DEF Held, ItemAt
  <2> QED
    BY <1>2, <1>7, <2>1
<1>14. i \in DOMAIN Held
  BY <1>11 DEF Held
<1> QED
  BY <1>12, <1>13, <1>14 DEF Table!WriteItem, Held, Recorded

LEMMA SameBlockRefines ==
  ASSUME IInv, IInv', UNCHANGED <<header, rec, bytes>>
  PROVE  UNCHANGED Held
<1>1. N = header.numItems /\ N' = header.numItems
  <2>1. N = header.numItems
    BY Counts DEF IInv
  <2>2. N' = header'.numItems
    BY DEF IInv, HeaderIsKept, N
  <2> QED
    BY <2>1, <2>2
<1>2. \A j : Used(j)' = Used(j) /\ PrevOffset(j)' = PrevOffset(j)
  BY DEF Used, PrevOffset
<1>3. \A j : Size(j)' = Size(j)
  BY <1>2 DEF Size
<1>4. \A j : ItemAt(j)' = ItemAt(j)
  BY <1>3 DEF ItemAt
<1> QED
  BY <1>1, <1>2, <1>4 DEF Held, Recorded

\* Whatever is added, deleted, moved or rewritten around it, and in whichever
\* session, an item is found whole at the index it was given: each step of the
\* block is one of a table of items, or none (cBlockRecordArray).
THEOREM BlockRefinesTable == Spec => ImplementsRecordTable
<1>1. ASSUME IInv, IInv', [Next]_vars
      PROVE  Table!Next \/ UNCHANGED Held
  <2>1. CASE \E d \in Items : AddItem(d)
    BY <1>1, <2>1, AddRefines DEF Table!Next
  <2>2. CASE \E i \in 0 .. N - 1 : DeleteItem(i)
    BY <1>1, <2>2, DeleteRefines DEF Table!Next, Held, Recorded
  <2>3. CASE \E i \in 0 .. N - 1, d \in Items : WriteItem(i, d)
    BY <1>1, <2>3, WriteRefines DEF Table!Next, Held, Recorded
  <2>4. CASE Reopen \/ UNCHANGED vars
    BY <1>1, <2>4, SameBlockRefines DEF Reopen, vars
  <2> QED
    BY <1>1, <2>1, <2>2, <2>3, <2>4 DEF Next
<1>2. IInv /\ IInv' /\ [Next]_vars
        => [Table!Next]_[i \in {j \in 0 .. N - 1 : Used(j)} |-> ItemAt(i)]
  BY <1>1 DEF Held, Recorded
<1> QED
  BY <1>2, InductiveInvariant, InitRefines, PTL
  DEF Spec, ImplementsRecordTable, Table!Spec

=============================================================================
