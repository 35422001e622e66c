--------------------------- MODULE DatabaseProofs ---------------------------
(***************************************************************************)
(* The theorems of the two upper layers of the database (src/db).  First   *)
(* BlockRecordFile: the items of a file of record blocks.  Then            *)
(* HierDatabase: the tree of entries kept in such items.  The second takes *)
(* a record file as ItemStore describes it, which the first is proved to   *)
(* implement.                                                              *)
(***************************************************************************)
EXTENDS BlockRecordFile, HierDatabase, DataLemmas

(***************************************************************************)
(*                             BlockRecordFile                             *)
(***************************************************************************)

-----------------------------------------------------------------------------
(* The inductive invariant                                                 *)

Slots == Seq(Item \cup {Free})
Table == [slots : Slots, top : Nat, header : [numItems : Nat, space : Nat]]

\* What the first slots of a block take, for each number of them: the offsets
\* of its items.
Bytes(x) == IF x = Free THEN 0 ELSE SizeOf(x)
Offsets(slots, f) ==
  /\ f \in [0 .. Len(slots) -> Nat]
  /\ f[0] = 0
  /\ \A i \in 1 .. Len(slots) : f[i] = f[i - 1] + Bytes(slots[i])

\* The header says what there is, the top is where the last item ends, and
\* table and data do not meet.
TableIsSound(t) ==
  /\ t \in Table
  /\ t = WithHeader(t.slots, t.top)
  /\ HeaderSize + (Len(t.slots) + 1) * IndexSize + t.top <= BlockSize
  /\ Len(t.slots) <= MaxRecords
  /\ \E f : Offsets(t.slots, f) /\ f[Len(t.slots)] = t.top

\* An array object is as it was made when the file was opened, or says what
\* the header of its block says.
IInv ==
  /\ fileOpen \in BOOLEAN /\ mbOpen = fileOpen
  /\ blocks \in Seq(Table)
  /\ \A k \in DOMAIN blocks : TableIsSound(blocks[k])
  /\ Len(blocks) <= MaxBlocks
  /\ lastAdded \in -1 .. MaxBlocks - 1
  /\ arrays \in Seq(ArrayObject)
  /\ IF fileOpen THEN Len(arrays) = Len(blocks) /\ lastAdded \in 0 .. Len(blocks) - 1
                 ELSE arrays = << >>
  /\ \A k \in DOMAIN arrays :
       IF arrays[k].init THEN arrays[k] = ArrayFor(blocks[k]) ELSE arrays[k] = NewArray

-----------------------------------------------------------------------------
(* Tables                                                                  *)

\* As many records as there is room for, each with an index and a word.
LEMMA Room ==
  ASSUME NEW n \in Nat, n * IndexSize + n * WordSize <= BlockSize
  PROVE  n <= MaxRecords
<1>1. IndexSize + WordSize \in Nat \ {0} /\ BlockSize \in Nat
  BY SizesArePos
<1>2. n * (IndexSize + WordSize) = n * IndexSize + n * WordSize
  BY SizesArePos
<1> QED
  BY <1>1, <1>2, DivBound DEF MaxRecords

\* The space on offer is there: filling it leaves room for one more index.
LEMMA SpaceIsThere ==
  ASSUME NEW n \in Nat, NEW top \in Nat
  PROVE  /\ FreeSpace(n, top) \in 0 .. BlockSize
         /\ FreeSpace(n, top) \in 0 .. MaxDataSize
         /\ \A s \in 1 .. FreeSpace(n, top) :
              HeaderSize + (n + 2) * IndexSize + (top + s) <= BlockSize
<1>1. /\ BlockSize \in Nat /\ HeaderSize \in Nat /\ Margin \in Nat
      /\ IndexSize \in Nat \ {0}
      /\ Margin >= IndexSize /\ HeaderSize + IndexSize + Margin <= BlockSize
  BY SizesArePos, MarginHoldsGuard, BlockHoldsGuard
<1>2. PICK p \in Nat : p = (n + 1) * IndexSize
  BY <1>1, Times
<1>3. (n + 2) * IndexSize = p + IndexSize
  <2>1. n + 1 \in Nat /\ (n + 1) + 1 = n + 2
    OBVIOUS
  <2>2. ((n + 1) + 1) * IndexSize = (n + 1) * IndexSize + IndexSize
    BY <1>1, <2>1, Times
  <2> QED
    BY <1>2, <2>1, <2>2
<1>4. IndexSize <= p
  BY <1>1, <1>2, Times
<1>5. FreeSpace(n, top) = IF BlockSize - HeaderSize - p - Margin - top < 0 THEN 0
                          ELSE BlockSize - HeaderSize - p - Margin - top
  BY <1>2 DEF FreeSpace
<1>6. FreeSpace(n, top) \in 0 .. BlockSize /\ FreeSpace(n, top) \in 0 .. MaxDataSize
  BY <1>1, <1>4, <1>5 DEF MaxDataSize
<1>7. ASSUME NEW s \in 1 .. FreeSpace(n, top)
      PROVE  HeaderSize + (p + IndexSize) + (top + s) <= BlockSize
  BY <1>1, <1>5, <1>6
<1> QED
  BY <1>3, <1>6, <1>7

\* A new block has room for every item.
LEMMA EmptyIsSound ==
  /\ TableIsSound(EmptyTable)
  /\ EmptyTable.slots = << >> /\ EmptyTable.top = 0
  /\ FreeSpace(0, 0) = MaxDataSize
<1>1. EmptyTable \in Table /\ EmptyTable = WithHeader(<< >>, 0)
      /\ EmptyTable.slots = << >> /\ EmptyTable.top = 0
  BY SpaceIsThere, EmptySeq DEF EmptyTable, Table, Slots, WithHeader
<1>2. HeaderSize + (0 + 1) * IndexSize + 0 <= BlockSize
  BY SizesArePos, BlockHoldsGuard
<1>3. 0 <= MaxRecords
  <2>1. 0 * IndexSize + 0 * WordSize <= BlockSize
    BY SizesArePos
  <2> QED
    BY <2>1, Room
<1>4. Offsets(<< >>, [i \in 0 .. 0 |-> 0])
  BY DEF Offsets
<1>5. FreeSpace(0, 0) = MaxDataSize
  BY SizesArePos, MarginHoldsGuard, BlockHoldsGuard DEF FreeSpace, MaxDataSize
<1>6. \E f : Offsets(<< >>, f) /\ f[0] = 0
  BY <1>4
<1>7. Len(<< >>) = 0
  OBVIOUS
<1> QED
  BY <1>1, <1>2, <1>3, <1>5, <1>6, <1>7 DEF TableIsSound

\* What an item takes is a word or more, and no more than a new block offers.
LEMMA ItemBytes ==
  /\ \A item \in Item : /\ SizeOf(item) \in Nat /\ WordSize <= SizeOf(item) /\ item # Free
                      /\ SizeOf(item) <= MaxDataSize /\ Bytes(item) = SizeOf(item)
  /\ \A x \in Item \cup {Free} : Bytes(x) \in Nat
  /\ Bytes(Free) = 0
<1>1. ASSUME NEW item \in Item
      PROVE  /\ SizeOf(item) \in Nat /\ WordSize <= SizeOf(item) /\ item # Free
             /\ SizeOf(item) <= MaxDataSize
  <2>1. PICK n : n = SizeOf(item)
    OBVIOUS
  <2>2. n \in WordSize .. MaxDataSize
    BY <2>1, ItemsFitABlock
  <2>3. WordSize \in Nat /\ MaxDataSize \in Int
    BY SizesArePos DEF MaxDataSize
  <2>4. n \in Nat /\ WordSize <= n /\ n <= MaxDataSize
    BY <2>2, <2>3
  <2> QED
    BY <2>1, <2>4, FreeIsNoItem
<1> QED
  BY <1>1 DEF Bytes

\* Offsets grow; slots that are all in use take a word each.
LEMMA OffsetsGrow ==
  ASSUME NEW s \in Slots, NEW f, Offsets(s, f)
  PROVE  /\ \A j \in 0 .. Len(s) : \A i \in 0 .. j : f[i] <= f[j]
         /\ \A k \in 0 .. Len(s) :
              (\A j \in 1 .. k : s[j] # Free) => k * WordSize <= f[k]
<1>1. Len(s) \in Nat /\ \A i \in 1 .. Len(s) : s[i] \in Item \cup {Free}
  BY LenProperties, ElementOfSeq DEF Slots
<1>2. /\ \A i \in 0 .. Len(s) : f[i] \in Nat
      /\ f[0] = 0
      /\ \A i \in 1 .. Len(s) : f[i] = f[i - 1] + Bytes(s[i]) /\ Bytes(s[i]) \in Nat
  BY <1>1, ItemBytes DEF Offsets
<1> DEFINE S == {j \in Nat : j <= Len(s) => \A i \in 0 .. j : f[i] <= f[j]}
           T == {k \in Nat : k <= Len(s) => ((\A j \in 1 .. k : s[j] # Free)
                                                => k * WordSize <= f[k])}
<1>3. 0 \in S /\ 0 \in T
  BY <1>2, SizesArePos
<1>4. ASSUME NEW j \in Nat, j + 1 <= Len(s)
      PROVE  /\ f[j] \in Nat /\ f[j + 1] \in Nat
             /\ f[j + 1] = f[j] + Bytes(s[j + 1]) /\ Bytes(s[j + 1]) \in Nat
  <2>1. j \in 0 .. Len(s) /\ j + 1 \in 1 .. Len(s) /\ j + 1 \in 0 .. Len(s) /\ (j + 1) - 1 = j
    BY <1>1, <1>4
  <2> QED
    BY <1>2, <2>1
<1>5. ASSUME NEW j \in Nat, j \in S
      PROVE  j + 1 \in S
  <2> SUFFICES ASSUME j + 1 <= Len(s), NEW i \in 0 .. j + 1
               PROVE  f[i] <= f[j + 1]
    OBVIOUS
  <2>1. f[j] <= f[j + 1] /\ f[j] \in Nat /\ f[j + 1] \in Nat
    <3>1. f[j] \in Nat /\ f[j + 1] \in Nat /\ f[j + 1] = f[j] + Bytes(s[j + 1])
          /\ Bytes(s[j + 1]) \in Nat
      BY <1>4
    <3> QED
      BY <3>1
  <2>2. i # j + 1 => f[i] <= f[j]
    BY <1>1, <1>5
  <2>3. f[i] \in Nat
    BY <1>1, <1>2
  <2> QED
    BY <2>1, <2>2, <2>3
<1>6. ASSUME NEW k \in Nat, k \in T
      PROVE  k + 1 \in T
  <2> SUFFICES ASSUME k + 1 <= Len(s), \A j \in 1 .. k + 1 : s[j] # Free
               PROVE  (k + 1) * WordSize <= f[k + 1]
    OBVIOUS
  <2>1. s[k + 1] \in Item /\ k <= Len(s) /\ \A j \in 1 .. k : s[j] # Free
    BY <1>1
  <2>2. k * WordSize <= f[k]
    BY <1>6, <2>1
  <2>3. WordSize <= Bytes(s[k + 1])
    BY <2>1, ItemBytes
  <2>4. f[k] \in Nat /\ f[k + 1] = f[k] + Bytes(s[k + 1]) /\ Bytes(s[k + 1]) \in Nat
    BY <1>4
  <2>5. WordSize \in Nat /\ k * WordSize \in Nat /\ (k + 1) * WordSize = k * WordSize + WordSize
    BY SizesArePos, Times
  <2> QED
    BY <2>2, <2>3, <2>4, <2>5
<1>7. Nat \subseteq S /\ Nat \subseteq T
  BY <1>3, <1>5, <1>6, NatSetInduction
<1> QED
  BY <1>1, <1>7

\* What a change makes of a table is sound when there is room for it.
LEMMA NewTable ==
  ASSUME NEW s \in Slots, NEW top \in Nat, NEW f, Offsets(s, f), f[Len(s)] = top,
         Len(s) <= MaxRecords, HeaderSize + (Len(s) + 1) * IndexSize + top <= BlockSize
  PROVE  /\ TableIsSound(WithHeader(s, top))
         /\ WithHeader(s, top).slots = s /\ WithHeader(s, top).top = top
<1>1. Len(s) \in Nat
  BY LenProperties DEF Slots
<1>2. FreeSpace(Len(s), top) \in Nat
  BY <1>1, SpaceIsThere
<1>3. WithHeader(s, top).slots = s /\ WithHeader(s, top).top = top
  BY DEF WithHeader
<1>4. WithHeader(s, top) \in Table
  BY <1>1, <1>2 DEF WithHeader, Table
<1> QED
  BY <1>3, <1>4 DEF TableIsSound

\* The first free index is one that is free, or one more.
LEMMA FirstFreeIs ==
  ASSUME NEW s \in Slots
  PROVE  /\ FirstFree(s) \in 1 .. Len(s) + 1
         /\ FirstFree(s) <= Len(s) => s[FirstFree(s)] = Free
         /\ \A j \in 1 .. FirstFree(s) - 1 : s[j] # Free
<1>1. Len(s) \in Nat
  BY LenProperties DEF Slots
<1> DEFINE S == {i \in 1 .. Len(s) + 1 : i <= Len(s) => s[i] = Free}
<1>2. S \in SUBSET Nat /\ Len(s) + 1 \in S
  BY <1>1
<1>3. PICK x \in S : \A y \in S : x <= y
  BY <1>2, LeastNumber
<1>4. ASSUME NEW j \in 1 .. x - 1
      PROVE  s[j] # Free
  <2>1. j \in 1 .. Len(s) + 1 /\ ~(x <= j)
    BY <1>1, <1>2
  <2> QED
    BY <1>3, <2>1
<1>5. \E i \in 1 .. Len(s) + 1 :
        /\ i <= Len(s) => s[i] = Free
        /\ \A j \in 1 .. i - 1 : s[j] # Free
  BY <1>4
<1> QED
  BY <1>5 DEF FirstFree

\* The table u has the item in slot i, and the rest of t.
HasNow(u, t, i, item) ==
  /\ i \in 1 .. Len(t.slots) + 1
  /\ i <= Len(t.slots) => t.slots[i] = Free
  /\ Len(u.slots) = IF i = Len(t.slots) + 1 THEN i ELSE Len(t.slots)
  /\ u.slots[i] = item
  /\ \A j \in 1 .. Len(t.slots) : j # i => u.slots[j] = t.slots[j]

\* An item that fits the space on offer is put into the first free slot.
LEMMA InsertedIsSound ==
  ASSUME NEW t, TableIsSound(t), NEW item \in Item, SizeOf(item) <= FreeSpace(Len(t.slots), t.top)
  PROVE  /\ TableIsSound(Inserted(t, item))
         /\ Inserted(t, item).top = t.top + SizeOf(item)
         /\ HasNow(Inserted(t, item), t, FirstFree(t.slots), item)
<1>1. PICK s, n, top, i, z :
        s = t.slots /\ n = Len(s) /\ top = t.top /\ i = FirstFree(s) /\ z = SizeOf(item)
  OBVIOUS
<1>2. /\ s \in Slots /\ n \in Nat /\ top \in Nat /\ n <= MaxRecords
      /\ s \in Seq(Item \cup {Free})
      /\ \A j \in 1 .. n : s[j] \in Item \cup {Free}
  <2>1. s \in Slots /\ top \in Nat /\ n <= MaxRecords
    BY <1>1 DEF TableIsSound, Table
  <2> QED
    BY <1>1, <2>1, LenProperties, ElementOfSeq DEF Slots
<1>3. PICK f : Offsets(s, f) /\ f[n] = top
  BY <1>1 DEF TableIsSound
<1>4. /\ z \in Nat /\ WordSize <= z /\ WordSize \in Nat \ {0}
      /\ Bytes(item) = z /\ item \in Item \cup {Free}
  BY <1>1, ItemBytes, SizesArePos
<1>5. i \in 1 .. n + 1 /\ (i <= n => s[i] = Free) /\ \A j \in 1 .. i - 1 : s[j] # Free
  BY <1>1, <1>2, FirstFreeIs
<1>6. PICK u : u = IF i > n THEN Append(s, item) ELSE [s EXCEPT ![i] = item]
  OBVIOUS
<1>7. /\ u \in Slots /\ Len(u) = (IF i = n + 1 THEN i ELSE n)
      /\ u[i] = item
      /\ \A j \in 1 .. n : j # i => u[j] = s[j]
  <2>1. CASE i > n
    <3>1. u = Append(s, item) /\ i = n + 1
      BY <1>2, <1>5, <1>6, <2>1
    <3>2. /\ Append(s, item) \in Seq(Item \cup {Free})
          /\ Len(Append(s, item)) = n + 1
          /\ \A j \in 1 .. n : Append(s, item)[j] = s[j]
          /\ Append(s, item)[n + 1] = item
      BY <1>1, <1>2, <1>4, AppendProperties
    <3> QED
      BY <3>1, <3>2 DEF Slots
  <2>2. CASE ~(i > n)
    <3>1. u = [s EXCEPT ![i] = item] /\ i \in 1 .. n /\ i # n + 1
      BY <1>2, <1>5, <1>6, <2>2
    <3>2. u \in Seq(Item \cup {Free}) /\ Len(u) = n
      BY <1>1, <1>2, <1>4, <3>1, ExceptSeq
    <3>3. DOMAIN s = 1 .. n
      BY <1>1, <1>2, LenProperties
    <3> QED
      BY <3>1, <3>2, <3>3 DEF Slots
  <2> QED
    BY <2>1, <2>2
<1>8. PICK m \in Nat : m = Len(u)
  BY <1>7, LenProperties DEF Slots
<1>9. /\ f \in [0 .. n -> Nat] /\ f[0] = 0
      /\ \A j \in 1 .. n : f[j] = f[j - 1] + Bytes(s[j])
  BY <1>1, <1>3 DEF Offsets
<1>10. PICK g : g = [j \in 0 .. m |-> IF j < i THEN f[j]
                                      ELSE (IF j <= n THEN f[j] ELSE f[n]) + z]
  OBVIOUS
<1>11. g \in [0 .. m -> Nat]
  <2>1. f[n] \in Nat /\ \A j \in 0 .. n : f[j] \in Nat
    BY <1>2, <1>9
  <2>2. \A j \in 0 .. m : j < i => j \in 0 .. n
    BY <1>2, <1>5
  <2>3. \A j \in 0 .. m : j <= n => j \in 0 .. n
    BY <1>2
  <2>4. ASSUME NEW j \in 0 .. m
        PROVE  (IF j < i THEN f[j] ELSE (IF j <= n THEN f[j] ELSE f[n]) + z) \in Nat
    <3>1. j < i => f[j] \in Nat
      BY <2>1, <2>2
    <3>2. (IF j <= n THEN f[j] ELSE f[n]) \in Nat
      BY <2>1, <2>3
    <3> QED
      BY <1>4, <3>1, <3>2
  <2> QED
    BY <1>10, <2>4
<1>12. ASSUME NEW j \in 1 .. m
       PROVE  g[j] = g[j - 1] + Bytes(u[j])
  <2>1. j - 1 \in 0 .. m /\ j \in 0 .. m /\ j - 1 \in Nat
    BY <1>8
  <2>2. CASE j < i
    <3>1. j \in 1 .. n /\ j # i /\ j - 1 < i
      BY <1>2, <1>5, <2>2
    <3>2. g[j] = f[j] /\ g[j - 1] = f[j - 1]
      BY <1>10, <2>1, <2>2, <3>1
    <3> QED
      BY <1>7, <1>9, <3>1, <3>2
  <2>3. CASE j = i
    <3>1. g[j - 1] = f[j - 1] /\ u[j] = item /\ f[j - 1] \in Nat
      BY <1>2, <1>5, <1>7, <1>9, <1>10, <2>1, <2>3
    <3>2. CASE i <= n
      <4>1. g[j] = f[j] + z /\ f[j] = f[j - 1] + 0
        BY <1>2, <1>5, <1>9, <1>10, <2>1, <2>3, <3>2, ItemBytes
      <4> QED
        BY <1>4, <3>1, <4>1
    <3>3. CASE ~(i <= n)
      <4>1. i = n + 1 /\ j - 1 = n
        BY <1>2, <1>5, <2>3, <3>3
      <4>2. g[j] = f[n] + z
        BY <1>2, <1>10, <2>1, <2>3, <3>3, <4>1
      <4> QED
        BY <1>4, <3>1, <4>1, <4>2
    <3> QED
      BY <3>2, <3>3
  <2>4. CASE j > i
    <3>1. i <= n /\ m = n /\ j \in 1 .. n /\ j # i
      BY <1>2, <1>5, <1>7, <1>8, <2>4
    <3>2. g[j] = f[j] + z /\ g[j - 1] = f[j - 1] + z
      BY <1>2, <1>5, <1>10, <2>1, <2>4, <3>1
    <3>3. u[j] = s[j] /\ f[j] = f[j - 1] + Bytes(s[j])
      BY <1>7, <1>9, <3>1
    <3>4. f[j - 1] \in Nat /\ Bytes(s[j]) \in Nat
      BY <1>2, <1>9, <3>1, ItemBytes
    <3> QED
      BY <1>4, <3>2, <3>3, <3>4
  <2> QED
    BY <1>5, <2>2, <2>3, <2>4
<1>13. Offsets(u, g)
  <2>1. g[0] = 0
    BY <1>5, <1>8, <1>9, <1>10
  <2> QED
    BY <1>8, <1>11, <1>12, <2>1 DEF Offsets
<1>14. g[m] = top + z
  BY <1>2, <1>3, <1>5, <1>7, <1>8, <1>10
<1>15. HeaderSize + (n + 2) * IndexSize + (top + z) <= BlockSize
  <2>1. z \in 1 .. FreeSpace(n, top)
    BY <1>1, <1>2, <1>4, SpaceIsThere
  <2> QED
    BY <1>2, <2>1, SpaceIsThere
<1>16. HeaderSize + (m + 1) * IndexSize + (top + z) <= BlockSize
  <2>1. m + 1 \in Nat /\ n + 2 \in Nat /\ m + 1 <= n + 2 /\ IndexSize \in Nat
    BY <1>2, <1>5, <1>7, <1>8, SizesArePos
  <2>2. PICK p \in Nat, q \in Nat : p = (m + 1) * IndexSize /\ q = (n + 2) * IndexSize
    BY <2>1, Times
  <2>3. p <= q
    BY <2>1, <2>2, TimesGrows
  <2>4. HeaderSize + q + (top + z) <= BlockSize
    BY <1>15, <2>2
  <2>5. HeaderSize + p + (top + z) <= BlockSize
    BY <1>2, <1>4, <2>3, <2>4, SizesArePos
  <2> QED
    BY <2>2, <2>5
<1>17. m <= MaxRecords
  <2>1. CASE i = n + 1
    <3>1. n * WordSize <= top
      <4>1. n \in 0 .. n /\ \A j \in 1 .. n : s[j] # Free
        BY <1>2, <1>5, <2>1
      <4>2. n * WordSize <= f[n]
        BY <1>1, <1>2, <1>3, <4>1, OffsetsGrow
      <4> QED
        BY <1>3, <4>2
    <3>2. m = n + 1 /\ IndexSize \in Nat
      BY <1>7, <1>8, <2>1, SizesArePos
    <3>3. PICK p \in Nat, q \in Nat :
            p = m * IndexSize /\ (m + 1) * IndexSize = p + IndexSize
            /\ q = n * WordSize /\ m * WordSize = q + WordSize
      BY <1>2, <1>4, <3>2, Times
    <3>4. HeaderSize + (p + IndexSize) + (top + z) <= BlockSize /\ q <= top
      BY <1>16, <3>1, <3>3
    <3>5. p + (q + WordSize) <= BlockSize
      BY <1>2, <1>4, <3>2, <3>4, SizesArePos
    <3> QED
      BY <1>8, <3>3, <3>5, Room
  <2>2. CASE i # n + 1
    BY <1>2, <1>7, <1>8, <2>2
  <2> QED
    BY <2>1, <2>2
<1>18. Inserted(t, item) = WithHeader(u, top + z)
  BY <1>1, <1>6 DEF Inserted
<1>19. /\ TableIsSound(WithHeader(u, top + z))
       /\ WithHeader(u, top + z).slots = u /\ WithHeader(u, top + z).top = top + z
  <2>1. top + z \in Nat
    BY <1>2, <1>4
  <2> QED
    BY <1>7, <1>8, <1>13, <1>14, <1>16, <1>17, <2>1, NewTable
<1>20. HasNow(Inserted(t, item), t, i, item)
  BY <1>1, <1>5, <1>7, <1>18, <1>19 DEF HasNow
<1> QED
  BY <1>1, <1>18, <1>19, <1>20

\* Free slots at the end are dropped, and nothing else.
LEMMA TrimmedIs ==
  ASSUME NEW s \in Slots
  PROVE  /\ Trimmed(s) \in Slots
         /\ Len(Trimmed(s)) \in 0 .. Len(s)
         /\ \A j \in 1 .. Len(Trimmed(s)) : Trimmed(s)[j] = s[j]
         /\ \A j \in Len(Trimmed(s)) + 1 .. Len(s) : s[j] = Free
<1>1. /\ Len(s) \in Nat /\ s \in Seq(Item \cup {Free})
      /\ \A j \in 1 .. Len(s) : s[j] \in Item \cup {Free}
  BY LenProperties, ElementOfSeq DEF Slots
<1> DEFINE S == {i \in 0 .. Len(s) : i > 0 => s[i] # Free}
<1>2. S \in SUBSET Nat /\ 0 \in S /\ \A x \in S : x <= Len(s)
  BY <1>1
<1>3. PICK x \in S : \A y \in S : y <= x
  BY <1>1, <1>2, GreatestNumber
<1>4. ASSUME NEW j \in x + 1 .. Len(s)
      PROVE  s[j] = Free
  <2>1. j \in 0 .. Len(s) /\ ~(j <= x)
    BY <1>1, <1>2
  <2> QED
    BY <1>3, <2>1
<1>5. PICK n : n = CHOOSE m \in 0 .. Len(s) :
                     /\ m > 0 => s[m] # Free
                     /\ \A j \in m + 1 .. Len(s) : s[j] = Free
  OBVIOUS
<1>6. \E m \in 0 .. Len(s) : /\ m > 0 => s[m] # Free
                             /\ \A j \in m + 1 .. Len(s) : s[j] = Free
  BY <1>4
<1>7. n \in 0 .. Len(s) /\ \A j \in n + 1 .. Len(s) : s[j] = Free
  BY <1>5, <1>6
<1>8. Trimmed(s) = SubSeq(s, 1, n)
  BY <1>5 DEF Trimmed
<1>9. /\ SubSeq(s, 1, n) \in Seq(Item \cup {Free})
      /\ Len(SubSeq(s, 1, n)) = n
      /\ \A j \in 1 .. n : SubSeq(s, 1, n)[j] = s[j]
  <2>1. \A j \in 1 .. n : s[j] \in Item \cup {Free}
    BY <1>1, <1>7
  <2>2. n \in Nat
    BY <1>7
  <2>3. /\ SubSeq(s, 1, n) \in Seq(Item \cup {Free})
        /\ Len(SubSeq(s, 1, n)) = IF 1 <= n THEN n - 1 + 1 ELSE 0
        /\ \A j \in 1 .. n - 1 + 1 : SubSeq(s, 1, n)[j] = s[1 + j - 1]
    BY <2>1, <2>2, SubSeqProperties
  <2>4. \A j \in 1 .. n : j \in 1 .. n - 1 + 1 /\ 1 + j - 1 = j
    BY <2>2
  <2>5. (IF 1 <= n THEN n - 1 + 1 ELSE 0) = n
    BY <2>2
  <2> QED
    BY <2>3, <2>4, <2>5
<1> QED
  BY <1>7, <1>8, <1>9 DEF Slots

\* What they take is nothing, so that the top stays where it is.
LEMMA TrimmedOffsets ==
  ASSUME NEW s \in Slots, NEW f, Offsets(s, f), NEW u \in Slots, Len(u) \in 0 .. Len(s),
         \A j \in 1 .. Len(u) : u[j] = s[j],
         \A j \in Len(u) + 1 .. Len(s) : s[j] = Free
  PROVE  \E g : Offsets(u, g) /\ g[Len(u)] = f[Len(s)]
<1>1. PICK n, m : n = Len(s) /\ m = Len(u)
  OBVIOUS
<1>2. n \in Nat /\ m \in Nat /\ m <= n
  BY <1>1, LenProperties DEF Slots
<1>3. /\ f \in [0 .. n -> Nat] /\ f[0] = 0
      /\ \A j \in 1 .. n : f[j] = f[j - 1] + Bytes(s[j])
  BY <1>1 DEF Offsets
<1>4. PICK g : g = [j \in 0 .. m |-> f[j]]
  OBVIOUS
<1>5. Offsets(u, g)
  <2>1. g \in [0 .. m -> Nat]
    BY <1>2, <1>3, <1>4
  <2>2. ASSUME NEW j \in 1 .. m
        PROVE  g[j] = g[j - 1] + Bytes(u[j])
    <3>1. j \in 0 .. m /\ j - 1 \in 0 .. m /\ j \in 1 .. n
      BY <1>2
    <3>2. g[j] = f[j] /\ g[j - 1] = f[j - 1]
      BY <1>4, <3>1
    <3> QED
      BY <1>1, <1>3, <3>1, <3>2
  <2>3. g[0] = 0
    BY <1>2, <1>3, <1>4
  <2> QED
    BY <1>1, <2>1, <2>2, <2>3 DEF Offsets
<1> DEFINE S == {k \in Nat : m + k <= n => f[m + k] = f[m]}
<1>6. 0 \in S
  BY <1>2
<1>7. ASSUME NEW k \in Nat, k \in S
      PROVE  k + 1 \in S
  <2> SUFFICES ASSUME m + (k + 1) <= n
               PROVE  f[m + (k + 1)] = f[m]
    OBVIOUS
  <2>1. PICK j \in Nat : j = m + (k + 1)
    BY <1>2
  <2>2. j \in 1 .. n /\ j \in m + 1 .. n /\ j - 1 = m + k /\ m + k <= n
    BY <1>2, <2>1
  <2>3. f[j] = f[j - 1] + 0
    BY <1>1, <1>3, <2>2, ItemBytes
  <2>4. f[m + k] = f[m]
    BY <1>7, <2>2
  <2>5. f[m] \in Nat
    BY <1>2, <1>3
  <2> QED
    BY <2>1, <2>2, <2>3, <2>4, <2>5
<1>8. n - m \in S
  <2>1. n - m \in Nat
    BY <1>2
  <2> HIDE DEF S
  <2> QED
    BY <1>6, <1>7, <2>1, NatSetInduction
<1>9. f[n] = f[m]
  <2>1. PICK k \in Nat : k = n - m
    BY <1>2
  <2>2. m + k = n /\ m + k <= n
    BY <1>2, <2>1
  <2>3. m + k <= n => f[m + k] = f[m]
    BY <1>8, <2>1
  <2> QED
    BY <2>2, <2>3
<1>10. g[m] = f[n]
  BY <1>2, <1>4, <1>9
<1> QED
  BY <1>1, <1>5, <1>10

\* The table u has what t has, but for what was in slot i.
HasNoLonger(u, t, i) ==
  /\ i \in 1 .. Len(t.slots)
  /\ Len(u.slots) \in 0 .. Len(t.slots)
  /\ \A j \in 1 .. Len(u.slots) : u.slots[j] = IF j = i THEN Free ELSE t.slots[j]
  /\ \A j \in Len(u.slots) + 1 .. Len(t.slots) : j # i => t.slots[j] = Free

\* The slot of the item is freed; free slots at the end are dropped.
LEMMA DeletedIsSound ==
  ASSUME NEW t, TableIsSound(t), NEW i \in 0 .. Len(t.slots) - 1, t.slots[i + 1] # Free
  PROVE  /\ TableIsSound(Deleted(t, i))
         /\ HasNoLonger(Deleted(t, i), t, i + 1)
<1>1. PICK s, n, top, h, z :
        s = t.slots /\ n = Len(s) /\ top = t.top /\ h = i + 1 /\ z = SizeOf(s[h])
  OBVIOUS
<1>2. /\ s \in Slots /\ n \in Nat /\ top \in Nat /\ n <= MaxRecords
      /\ s \in Seq(Item \cup {Free})
      /\ \A j \in 1 .. n : s[j] \in Item \cup {Free}
      /\ DOMAIN s = 1 .. n
  <2>1. s \in Slots /\ top \in Nat /\ n <= MaxRecords
    BY <1>1 DEF TableIsSound, Table
  <2> QED
    BY <1>1, <2>1, LenProperties, ElementOfSeq DEF Slots
<1>3. PICK f : Offsets(s, f) /\ f[n] = top
  BY <1>1 DEF TableIsSound
<1>4. h \in 1 .. n /\ h \in Nat
  BY <1>1, <1>2
<1>5. z \in Nat /\ Bytes(s[h]) = z
  <2>1. s[h] \in Item
    BY <1>1, <1>2, <1>4
  <2> QED
    BY <1>1, <2>1, ItemBytes
<1>6. PICK v : v = [s EXCEPT ![h] = Free]
  OBVIOUS
<1>7. /\ v \in Slots /\ Len(v) = n /\ v[h] = Free
      /\ \A j \in 1 .. n : j # h => v[j] = s[j]
  <2>1. v \in Seq(Item \cup {Free}) /\ Len(v) = n
    BY <1>1, <1>2, <1>4, <1>6, ExceptSeq
  <2> QED
    BY <1>2, <1>4, <1>6, <2>1 DEF Slots
<1>8. /\ f \in [0 .. n -> Nat] /\ f[0] = 0
      /\ \A j \in 1 .. n : f[j] = f[j - 1] + Bytes(s[j])
      /\ \A k \in 0 .. n : \A j \in 0 .. k : f[j] <= f[k]
  BY <1>1, <1>2, <1>3, OffsetsGrow DEF Offsets
<1>9. ASSUME NEW j \in h .. n
      PROVE  f[j] \in Nat /\ f[j] - z \in Nat
  <2>1. h - 1 \in 0 .. n /\ h \in 0 .. j /\ j \in 0 .. n
    BY <1>2, <1>4
  <2>2. f[h] = f[h - 1] + z /\ f[h - 1] \in Nat /\ f[h] <= f[j] /\ f[j] \in Nat
    BY <1>4, <1>5, <1>8, <2>1
  <2> QED
    BY <1>5, <2>2
<1>10. PICK g : g = [j \in 0 .. n |-> IF j < h THEN f[j] ELSE f[j] - z]
  OBVIOUS
<1>11. Offsets(v, g)
  <2>1. g \in [0 .. n -> Nat]
    <3>1. ASSUME NEW j \in 0 .. n
          PROVE  (IF j < h THEN f[j] ELSE f[j] - z) \in Nat
      <4>1. j < h => f[j] \in Nat
        BY <1>8
      <4>2. ~(j < h) => f[j] - z \in Nat
        BY <1>2, <1>4, <1>9
      <4> QED
        BY <4>1, <4>2
    <3> QED
      BY <1>10, <3>1
  <2>2. g[0] = 0
    BY <1>2, <1>4, <1>8, <1>10
  <2>3. ASSUME NEW j \in 1 .. n
        PROVE  g[j] = g[j - 1] + Bytes(v[j])
    <3>1. j \in 0 .. n /\ j - 1 \in 0 .. n /\ f[j - 1] \in Nat /\ f[j] \in Nat
          /\ f[j] = f[j - 1] + Bytes(s[j]) /\ Bytes(s[j]) \in Nat
      <4>1. j \in 0 .. n /\ j - 1 \in 0 .. n
        BY <1>2
      <4>2. f[j - 1] \in Nat /\ f[j] \in Nat /\ f[j] = f[j - 1] + Bytes(s[j])
        BY ONLY <1>8, <4>1, j \in 1 .. n
      <4>3. s[j] \in Item \cup {Free}
        BY <1>2
      <4>4. Bytes(s[j]) \in Nat
        BY <4>3, ItemBytes
      <4> QED
        BY <4>1, <4>2, <4>4
    <3>2. CASE j < h
      <4>1. g[j] = f[j] /\ g[j - 1] = f[j - 1] /\ v[j] = s[j]
        BY <1>4, <1>7, <1>10, <3>1, <3>2
      <4> QED
        BY <3>1, <4>1
    <3>3. CASE j = h
      <4>1. g[j] = f[j] - z /\ g[j - 1] = f[j - 1] /\ Bytes(v[j]) = 0
        BY <1>4, <1>7, <1>10, <3>1, <3>3, ItemBytes
      <4> QED
        BY <1>5, <3>1, <3>3, <4>1
    <3>4. CASE j > h
      <4>1. g[j] = f[j] - z /\ g[j - 1] = f[j - 1] - z /\ v[j] = s[j]
        BY <1>4, <1>7, <1>10, <3>1, <3>4
      <4> QED
        BY <1>5, <3>1, <4>1
    <3> QED
      BY <1>4, <3>2, <3>3, <3>4
  <2> QED
    BY <1>7, <2>1, <2>2, <2>3 DEF Offsets
<1>12. g[n] = top - z /\ top - z \in Nat
  <2>1. n \in h .. n /\ n \in 0 .. n /\ ~(n < h)
    BY <1>2, <1>4
  <2> QED
    BY <1>3, <1>9, <1>10, <2>1
<1>13. PICK u : u = Trimmed(v)
  OBVIOUS
<1>14. /\ u \in Slots /\ Len(u) \in 0 .. n
       /\ \A j \in 1 .. Len(u) : u[j] = v[j]
       /\ \A j \in Len(u) + 1 .. n : v[j] = Free
  BY <1>7, <1>13, TrimmedIs
<1>15. PICK e : Offsets(u, e) /\ e[Len(u)] = top - z
  BY <1>7, <1>11, <1>12, <1>14, TrimmedOffsets
<1>16. HeaderSize + (Len(u) + 1) * IndexSize + (top - z) <= BlockSize
  <2>1. PICK m \in Nat : m = Len(u) /\ m <= n
    BY <1>2, <1>14
  <2>2. m + 1 \in Nat /\ n + 1 \in Nat /\ m + 1 <= n + 1 /\ IndexSize \in Nat
    BY <1>2, <2>1, SizesArePos
  <2>3. PICK p \in Nat, q \in Nat : p = (m + 1) * IndexSize /\ q = (n + 1) * IndexSize
    BY <2>2, Times
  <2>4. p <= q
    BY <2>2, <2>3, TimesGrows
  <2>5. HeaderSize + q + top <= BlockSize
    BY <1>1, <2>3 DEF TableIsSound
  <2>6. HeaderSize + p + (top - z) <= BlockSize
    BY <1>2, <1>5, <1>12, <2>4, <2>5, SizesArePos
  <2> QED
    BY <2>1, <2>3, <2>6
<1>17. Len(u) <= MaxRecords
  BY <1>2, <1>14, SizesArePos DEF MaxRecords
<1>18. Deleted(t, i) = WithHeader(u, top - z)
  BY <1>1, <1>6, <1>13 DEF Deleted
<1>19. TableIsSound(WithHeader(u, top - z)) /\ WithHeader(u, top - z).slots = u
  BY <1>12, <1>14, <1>15, <1>16, <1>17, NewTable
<1>20. HasNoLonger(Deleted(t, i), t, h)
  <2>1. \A j \in 1 .. Len(u) : u[j] = IF j = h THEN Free ELSE s[j]
    BY <1>2, <1>7, <1>14
  <2>2. \A j \in Len(u) + 1 .. n : j # h => s[j] = Free
    BY <1>2, <1>7, <1>14
  <2> QED
    BY <1>1, <1>4, <1>14, <1>18, <1>19, <2>1, <2>2 DEF HasNoLonger
<1> QED
  BY <1>1, <1>18, <1>19, <1>20

\* An item of the same size takes the place of another.
LEMMA RewrittenIsSound ==
  ASSUME NEW t, TableIsSound(t), NEW i \in 1 .. Len(t.slots), t.slots[i] # Free,
         NEW item \in Item, SizeOf(item) = SizeOf(t.slots[i]),
         NEW u, u = [t EXCEPT !.slots = [t.slots EXCEPT ![i] = item]]
  PROVE  /\ TableIsSound(u) /\ u.header = t.header
         /\ Len(u.slots) = Len(t.slots) /\ u.slots[i] = item
         /\ \A j \in 1 .. Len(t.slots) : j # i => u.slots[j] = t.slots[j]
<1>1. PICK s, n, top : s = t.slots /\ n = Len(s) /\ top = t.top
  OBVIOUS
<1>2. /\ s \in Slots /\ n \in Nat /\ top \in Nat /\ n <= MaxRecords
      /\ s \in Seq(Item \cup {Free})
      /\ \A j \in 1 .. n : s[j] \in Item \cup {Free}
      /\ DOMAIN s = 1 .. n
      /\ t \in Table /\ t = WithHeader(s, top)
  <2>1. s \in Slots /\ top \in Nat /\ n <= MaxRecords /\ t \in Table /\ t = WithHeader(s, top)
    BY <1>1 DEF TableIsSound, Table
  <2> QED
    BY <1>1, <2>1, LenProperties, ElementOfSeq DEF Slots
<1>3. PICK f : Offsets(s, f) /\ f[n] = top
  BY <1>1 DEF TableIsSound
<1>4. PICK v : v = [s EXCEPT ![i] = item]
  OBVIOUS
<1>5. /\ v \in Slots /\ Len(v) = n /\ v[i] = item
      /\ \A j \in 1 .. n : j # i => v[j] = s[j]
  <2>1. i \in 1 .. n /\ i \in 1 .. Len(s) /\ item \in Item \cup {Free} /\ n = Len(s)
    BY <1>1
  <2>2. s \in Seq(Item \cup {Free})
    BY <1>2
  <2>3. [s EXCEPT ![i] = item] \in Seq(Item \cup {Free}) /\ Len([s EXCEPT ![i] = item]) = Len(s)
    BY <2>1, <2>2, ExceptSeq
  <2>4. v \in Seq(Item \cup {Free}) /\ Len(v) = n
    BY <1>4, <2>1, <2>3
  <2> QED
    BY <1>2, <1>4, <2>1, <2>4 DEF Slots
<1>6. Bytes(s[i]) = Bytes(item)
  <2>1. s[i] \in Item
    BY <1>1, <1>2
  <2> QED
    BY <1>1, <2>1, ItemBytes
<1>7. Offsets(v, f)
  <2>1. \A j \in 1 .. n : Bytes(v[j]) = Bytes(s[j])
    BY <1>5, <1>6
  <2> QED
    BY <1>1, <1>3, <1>5, <2>1 DEF Offsets
<1>8. u = WithHeader(v, top)
  <2>1. t.header = [numItems |-> n, space |-> FreeSpace(n, top)]
    BY <1>1, <1>2 DEF WithHeader
  <2>2. u = [slots |-> v, top |-> top, header |-> t.header]
    BY <1>1, <1>2, <1>4 DEF Table
  <2> QED
    BY <1>5, <2>1, <2>2 DEF WithHeader
<1>9. HeaderSize + (n + 1) * IndexSize + top <= BlockSize
  BY <1>1 DEF TableIsSound
<1>10. TableIsSound(u) /\ u.slots = v
  <2>1. /\ v \in Slots /\ top \in Nat /\ Len(v) <= MaxRecords /\ f[Len(v)] = top
        /\ HeaderSize + (Len(v) + 1) * IndexSize + top <= BlockSize
    BY <1>2, <1>3, <1>5, <1>9
  <2>2. TableIsSound(WithHeader(v, top)) /\ WithHeader(v, top).slots = v
    BY <1>7, <2>1, NewTable
  <2> QED
    BY <1>8, <2>2
<1>11. u.header = t.header
  BY <1>2 DEF Table
<1> QED
  BY <1>1, <1>5, <1>10, <1>11

-----------------------------------------------------------------------------
(* Blocks and their array objects                                          *)

\* An array object says what its block holds, or nothing yet.
AgreesWith(array, t) == IF array.init THEN array = ArrayFor(t) ELSE array = NewArray

\* An array object that is made for a sound block has its counts.
LEMMA ArraysAre ==
  /\ NewArray \in ArrayObject
  /\ \A t : TableIsSound(t) =>
       /\ ArrayFor(t) \in ArrayObject
       /\ ArrayFor(t).init
       /\ ArrayFor(t).numItems = Len(t.slots)
       /\ ArrayFor(t).space = FreeSpace(Len(t.slots), t.top)
       /\ Len(t.slots) \in 0 .. MaxRecords
<1>1. MaxRecords \in Int /\ MaxDataSize \in Int /\ 0 <= MaxRecords /\ 0 <= MaxDataSize
  <2>1. TableIsSound(EmptyTable) /\ Len(EmptyTable.slots) = 0
    BY EmptyIsSound
  <2>2. MaxRecords \in Int /\ MaxDataSize \in Int
    BY SizesArePos DEF MaxRecords, MaxDataSize
  <2>3. 0 <= MaxDataSize
    BY SizesArePos, BlockHoldsGuard DEF MaxDataSize
  <2> QED
    BY <2>1, <2>2, <2>3 DEF TableIsSound
<1>2. NewArray \in ArrayObject
  BY <1>1 DEF NewArray, ArrayObject
<1>3. ASSUME NEW t, TableIsSound(t)
      PROVE  /\ ArrayFor(t) \in ArrayObject
             /\ ArrayFor(t).init
             /\ ArrayFor(t).numItems = Len(t.slots)
             /\ ArrayFor(t).space = FreeSpace(Len(t.slots), t.top)
             /\ Len(t.slots) \in 0 .. MaxRecords
  <2>1. t.slots \in Slots /\ t.top \in Nat /\ Len(t.slots) <= MaxRecords
    BY <1>3 DEF TableIsSound, Table
  <2>2. Len(t.slots) \in Nat
    BY <2>1, LenProperties DEF Slots
  <2>3. PICK n, space : n = Len(t.slots) /\ space = FreeSpace(Len(t.slots), t.top)
    OBVIOUS
  <2>4. t.header = [numItems |-> n, space |-> space]
    <3>1. WithHeader(t.slots, t.top).header = [numItems |-> n, space |-> space]
      BY <2>3 DEF WithHeader
    <3> QED
      BY <1>3, <3>1 DEF TableIsSound
  <2>5. n \in 0 .. MaxRecords /\ space \in 0 .. MaxDataSize
    <3>1. space \in 0 .. MaxDataSize
      BY <2>1, <2>2, <2>3, SpaceIsThere
    <3>2. n \in Nat /\ n <= MaxRecords
      BY <2>1, <2>2, <2>3
    <3> QED
      BY <1>1, <3>1, <3>2
  <2>6. ArrayFor(t) = [init |-> TRUE, numItems |-> n, space |-> space]
    BY <2>4 DEF ArrayFor
  <2>7. space \in -1 .. MaxDataSize
    BY <1>1, <2>5
  <2> QED
    BY <2>3, <2>5, <2>6, <2>7 DEF ArrayObject
<1> QED
  BY <1>2, <1>3

\* Blocks are sound at any time; while the file is open each has its array.
LEMMA BlocksAre ==
  ASSUME IInv
  PROVE  /\ NumBlocks \in 0 .. MaxBlocks /\ MaxBlocks \in Nat \ {0}
         /\ blocks \in Seq(Table) /\ DOMAIN blocks = 1 .. NumBlocks
         /\ \A b \in 0 .. NumBlocks - 1 :
              /\ b + 1 \in 1 .. NumBlocks
              /\ TableIsSound(Block(b))
              /\ Len(Block(b).slots) \in 0 .. MaxRecords
<1>1. blocks \in Seq(Table) /\ \A k \in DOMAIN blocks : TableIsSound(blocks[k])
  BY DEF IInv
<1>2. NumBlocks \in Nat /\ DOMAIN blocks = 1 .. NumBlocks /\ NumBlocks <= MaxBlocks
  BY <1>1, LenProperties DEF NumBlocks, IInv
<1>3. ASSUME NEW b \in 0 .. NumBlocks - 1
      PROVE  /\ b + 1 \in 1 .. NumBlocks
             /\ TableIsSound(Block(b))
             /\ Len(Block(b).slots) \in 0 .. MaxRecords
  <2>1. b + 1 \in 1 .. NumBlocks
    BY <1>2
  <2>2. TableIsSound(Block(b))
    BY <1>1, <1>2, <2>1 DEF Block
  <2> QED
    BY <2>1, <2>2, ArraysAre
<1> QED
  BY <1>1, <1>2, <1>3, SomeBlocks

\* While the file is open, an array that is looked at has its block's counts.
LEMMA WhenOpen ==
  ASSUME IInv, mbOpen
  PROVE  /\ fileOpen
         /\ lastAdded \in 0 .. NumBlocks - 1 /\ NumBlocks \in 1 .. MaxBlocks
         /\ arrays \in Seq(ArrayObject)
         /\ Len(arrays) = NumBlocks /\ DOMAIN arrays = 1 .. NumBlocks
         /\ \A k \in 1 .. NumBlocks : AgreesWith(arrays[k], blocks[k])
         /\ \A b \in 0 .. NumBlocks - 1 :
              /\ Loaded(b) = ArrayFor(Block(b))
              /\ Loaded(b).numItems = Len(Block(b).slots)
              /\ Loaded(b).space = FreeSpace(Len(Block(b).slots), Block(b).top)
<1>1. /\ fileOpen /\ Len(arrays) = NumBlocks /\ lastAdded \in 0 .. NumBlocks - 1
      /\ arrays \in Seq(ArrayObject)
      /\ \A k \in DOMAIN arrays : AgreesWith(arrays[k], blocks[k])
  BY DEF IInv, NumBlocks, AgreesWith
<1>2. NumBlocks \in 0 .. MaxBlocks
  BY BlocksAre
<1>3. DOMAIN arrays = 1 .. NumBlocks
  BY <1>1, LenProperties
<1>4. ASSUME NEW b \in 0 .. NumBlocks - 1
      PROVE  /\ Loaded(b) = ArrayFor(Block(b))
             /\ Loaded(b).numItems = Len(Block(b).slots)
             /\ Loaded(b).space = FreeSpace(Len(Block(b).slots), Block(b).top)
  <2>1. b + 1 \in 1 .. NumBlocks /\ TableIsSound(Block(b))
    BY BlocksAre
  <2>2. AgreesWith(Array(b), Block(b))
    BY <1>1, <1>3, <2>1 DEF Array, Block
  <2>3. Loaded(b) = ArrayFor(Block(b))
    BY <2>2 DEF Loaded, ArrayFor, AgreesWith
  <2> QED
    BY <2>1, <2>3, ArraysAre
<1> QED
  BY <1>1, <1>2, <1>3, <1>4

\* Looking at an array's space initializes it, and it is right.
LEMMA TouchIs ==
  ASSUME IInv, mbOpen, NEW S
  PROVE  /\ Touch(S) \in Seq(ArrayObject) /\ Len(Touch(S)) = NumBlocks
         /\ \A k \in 1 .. NumBlocks : AgreesWith(Touch(S)[k], blocks[k])
         /\ \A b \in S : b \in 0 .. NumBlocks - 1 => Touch(S)[b + 1] = ArrayFor(Block(b))
<1>1. /\ NumBlocks \in Nat /\ DOMAIN arrays = 1 .. NumBlocks /\ arrays \in Seq(ArrayObject)
      /\ \A k \in 1 .. NumBlocks : AgreesWith(arrays[k], blocks[k])
      /\ \A b \in 0 .. NumBlocks - 1 : Loaded(b) = ArrayFor(Block(b))
  BY BlocksAre, WhenOpen
<1>2. PICK touched : touched = Touch(S)
  OBVIOUS
<1>3. touched = [k \in 1 .. NumBlocks |-> IF k - 1 \in S THEN Loaded(k - 1) ELSE arrays[k]]
  BY <1>1, <1>2 DEF Touch
<1>4. ASSUME NEW k \in 1 .. NumBlocks
      PROVE  touched[k] \in ArrayObject /\ AgreesWith(touched[k], blocks[k])
  <2>1. k - 1 \in 0 .. NumBlocks - 1 /\ (k - 1) + 1 = k
    BY <1>1
  <2>2. TableIsSound(Block(k - 1)) /\ Block(k - 1) = blocks[k]
    BY <2>1, BlocksAre DEF Block
  <2>3. Loaded(k - 1) \in ArrayObject /\ AgreesWith(Loaded(k - 1), blocks[k])
    BY <1>1, <2>1, <2>2, ArraysAre DEF AgreesWith
  <2>4. arrays[k] \in ArrayObject
    BY <1>1, WhenOpen, ElementOfSeq
  <2> QED
    BY <1>1, <1>3, <2>3, <2>4
<1>5. touched \in Seq(ArrayObject) /\ Len(touched) = NumBlocks
  <2>1. touched \in [1 .. NumBlocks -> ArrayObject]
    BY <1>3, <1>4
  <2> QED
    BY <1>1, <2>1, SeqDef, LenProperties
<1>6. ASSUME NEW b \in S, b \in 0 .. NumBlocks - 1
      PROVE  touched[b + 1] = ArrayFor(Block(b))
  <2>1. b + 1 \in 1 .. NumBlocks /\ (b + 1) - 1 = b
    BY <1>1, <1>6
  <2>2. touched[b + 1] = Loaded(b)
    BY <1>3, <1>6, <2>1
  <2> QED
    BY <1>1, <1>6, <2>2
<1> QED
  BY <1>2, <1>4, <1>5, <1>6

\* The block chosen has room for the item, or it is a new one and none has.
LEMMA RoomIsFound ==
  ASSUME IInv, mbOpen, NEW item \in Item
  PROVE  /\ FindRoom(item).block \in 0 .. NumBlocks
         /\ FindRoom(item).block # NumBlocks => HasRoom(FindRoom(item).block, item)
         /\ FindRoom(item).block = NumBlocks
              => \A c \in 0 .. NumBlocks - 1 : ~HasRoom(c, item)
<1>1. NumBlocks \in Nat /\ lastAdded \in 0 .. NumBlocks - 1
  BY BlocksAre, WhenOpen
<1>2. PICK fits : fits = {b \in 0 .. NumBlocks - 1 : HasRoom(b, item)}
  OBVIOUS
<1>3. PICK b : b = CHOOSE x \in fits : \A y \in fits : x <= y
  OBVIOUS
<1>4. FindRoom(item).block = IF HasRoom(lastAdded, item) THEN lastAdded
                           ELSE IF fits # {} THEN b ELSE NumBlocks
  BY <1>2, <1>3 DEF FindRoom
<1>5. fits # {} => b \in fits
  <2>1. fits \in SUBSET Nat
    BY <1>1, <1>2
  <2>2. fits # {} => \E x \in fits : \A y \in fits : x <= y
    BY <2>1, LeastNumber
  <2> QED
    BY <1>3, <2>2
<1>6. CASE HasRoom(lastAdded, item)
  BY <1>1, <1>4, <1>6
<1>7. CASE ~HasRoom(lastAdded, item) /\ fits # {}
  <2>1. FindRoom(item).block \in 0 .. NumBlocks - 1 /\ HasRoom(FindRoom(item).block, item)
    BY <1>2, <1>4, <1>5, <1>7
  <2> QED
    BY <1>1, <2>1
<1>8. CASE ~HasRoom(lastAdded, item) /\ fits = {}
  <2>1. FindRoom(item).block = NumBlocks
    BY <1>4, <1>8
  <2>2. \A c \in 0 .. NumBlocks - 1 : ~HasRoom(c, item)
    BY <1>2, <1>8
  <2> QED
    BY <1>1, <2>1, <2>2
<1> QED
  BY <1>6, <1>7, <1>8

-----------------------------------------------------------------------------
(* Every step keeps the invariant                                          *)

\* What the step lemmas show: sound blocks, and arrays that agree with them.
LEMMA Kept ==
  ASSUME IInv, mbOpen, UNCHANGED <<fileOpen, mbOpen>>,
         NEW n \in 1 .. MaxBlocks,
         blocks' \in Seq(Table), Len(blocks') = n,
         \A k \in 1 .. n : TableIsSound(blocks'[k]),
         lastAdded' \in 0 .. n - 1,
         arrays' \in Seq(ArrayObject), Len(arrays') = n,
         \A k \in 1 .. n : AgreesWith(arrays'[k], blocks'[k])
  PROVE  IInv'
<1>1. DOMAIN blocks' = 1 .. n /\ DOMAIN arrays' = 1 .. n
  BY LenProperties
<1>2. n \in Nat /\ n <= MaxBlocks /\ MaxBlocks \in Nat
  BY SomeBlocks
<1>3. lastAdded' \in -1 .. MaxBlocks - 1
  BY <1>2
<1>4. fileOpen' /\ fileOpen' \in BOOLEAN /\ mbOpen' = fileOpen'
  BY DEF IInv
<1> QED
  BY <1>1, <1>2, <1>3, <1>4 DEF IInv, AgreesWith

\* One block and its array replaced.
LEMMA BlockKept ==
  ASSUME IInv, mbOpen, UNCHANGED <<fileOpen, mbOpen>>,
         NEW b \in 0 .. NumBlocks - 1, NEW t, TableIsSound(t),
         blocks' = [blocks EXCEPT ![b + 1] = t],
         lastAdded' \in 0 .. NumBlocks - 1,
         arrays' \in Seq(ArrayObject), Len(arrays') = NumBlocks,
         AgreesWith(arrays'[b + 1], t),
         \A k \in 1 .. NumBlocks : k # b + 1 => AgreesWith(arrays'[k], blocks[k])
  PROVE  /\ IInv'
         /\ Len(blocks') = NumBlocks /\ blocks'[b + 1] = t
         /\ \A k \in 1 .. NumBlocks : k # b + 1 => blocks'[k] = blocks[k]
<1>1. /\ NumBlocks \in 1 .. MaxBlocks /\ blocks \in Seq(Table)
      /\ DOMAIN blocks = 1 .. NumBlocks /\ b + 1 \in 1 .. NumBlocks
      /\ \A k \in DOMAIN blocks : TableIsSound(blocks[k])
  BY BlocksAre, WhenOpen DEF IInv
<1>2. t \in Table
  BY DEF TableIsSound
<1>3. blocks' \in Seq(Table) /\ Len(blocks') = NumBlocks
  <2>1. b + 1 \in 1 .. Len(blocks)
    BY <1>1 DEF NumBlocks
  <2> QED
    BY <1>1, <1>2, <2>1, ExceptSeq DEF NumBlocks
<1>4. /\ blocks'[b + 1] = t
      /\ \A k \in 1 .. NumBlocks : k # b + 1 => blocks'[k] = blocks[k]
  BY <1>1
<1>5. \A k \in 1 .. NumBlocks : TableIsSound(blocks'[k]) /\ AgreesWith(arrays'[k], blocks'[k])
  BY <1>1, <1>4
<1>6. IInv'
  BY <1>1, <1>3, <1>5, Kept
<1> QED
  BY <1>3, <1>4, <1>6

\* A new block and its array added.
LEMMA BlockAdded ==
  ASSUME IInv, mbOpen, UNCHANGED <<fileOpen, mbOpen>>, NumBlocks < MaxBlocks,
         NEW t, TableIsSound(t), blocks' = Append(blocks, t),
         lastAdded' = NumBlocks,
         NEW objs \in Seq(ArrayObject), Len(objs) = NumBlocks,
         \A k \in 1 .. NumBlocks : AgreesWith(objs[k], blocks[k]),
         arrays' = Append(objs, ArrayFor(t))
  PROVE  /\ IInv'
         /\ Len(blocks') = NumBlocks + 1 /\ blocks'[NumBlocks + 1] = t
         /\ \A k \in 1 .. NumBlocks : blocks'[k] = blocks[k]
<1>1. /\ NumBlocks \in 1 .. MaxBlocks /\ blocks \in Seq(Table) /\ NumBlocks = Len(blocks)
      /\ MaxBlocks \in Nat
      /\ \A k \in 1 .. NumBlocks : TableIsSound(blocks[k])
  BY BlocksAre, WhenOpen DEF IInv, NumBlocks
<1>2. t \in Table /\ ArrayFor(t) \in ArrayObject /\ AgreesWith(ArrayFor(t), t)
  BY ArraysAre DEF TableIsSound, AgreesWith
<1>3. /\ blocks' \in Seq(Table) /\ Len(blocks') = NumBlocks + 1
      /\ blocks'[NumBlocks + 1] = t
      /\ \A k \in 1 .. NumBlocks : blocks'[k] = blocks[k]
  BY <1>1, <1>2, AppendProperties
<1>4. /\ arrays' \in Seq(ArrayObject) /\ Len(arrays') = NumBlocks + 1
      /\ arrays'[NumBlocks + 1] = ArrayFor(t)
      /\ \A k \in 1 .. NumBlocks : arrays'[k] = objs[k]
  BY <1>2, AppendProperties
<1>5. ASSUME NEW k \in 1 .. NumBlocks + 1
      PROVE  TableIsSound(blocks'[k]) /\ AgreesWith(arrays'[k], blocks'[k])
  <2>1. CASE k = NumBlocks + 1
    BY <1>2, <1>3, <1>4, <2>1
  <2>2. CASE k # NumBlocks + 1
    <3>1. k \in 1 .. NumBlocks
      BY <1>1, <2>2
    <3> QED
      BY <1>1, <1>3, <1>4, <3>1
  <2> QED
    BY <2>1, <2>2
<1>6. IInv'
  <2>1. NumBlocks + 1 \in 1 .. MaxBlocks /\ lastAdded' \in 0 .. (NumBlocks + 1) - 1
    BY <1>1
  <2> QED
    BY <1>3, <1>4, <1>5, <2>1, Kept
<1> QED
  BY <1>3, <1>6

\* An object that has not been opened keeps its own state.
LEMMA InitIsRight == Init => IInv
<1> SUFFICES ASSUME Init
             PROVE  IInv
  OBVIOUS
<1>1. blocks \in Seq(Table) /\ Len(blocks) = 0 /\ DOMAIN blocks = {}
  BY EmptySeq DEF Init
<1>2. arrays \in Seq(ArrayObject) /\ DOMAIN arrays = {}
  BY EmptySeq DEF Init
<1>3. lastAdded \in -1 .. MaxBlocks - 1 /\ 0 <= MaxBlocks
  BY SomeBlocks DEF Init
<1> QED
  BY <1>1, <1>2, <1>3 DEF Init, IInv

\* Open and the reading of no header: the objects are as they were made.
LEMMA OpenKeeps ==
  ASSUME IInv, Open
  PROVE  IInv'
<1>1. NumBlocks \in 0 .. MaxBlocks /\ MaxBlocks \in Nat \ {0} /\ blocks \in Seq(Table)
      /\ \A k \in DOMAIN blocks : TableIsSound(blocks[k])
  BY BlocksAre DEF IInv
<1>2. /\ blocks' \in Seq(Table) /\ Len(blocks') \in 1 .. MaxBlocks
      /\ DOMAIN blocks' = 1 .. Len(blocks')
      /\ \A k \in DOMAIN blocks' : TableIsSound(blocks'[k])
  <2>1. CASE blocks = << >>
    <3>1. blocks' = <<EmptyTable>> /\ TableIsSound(EmptyTable) /\ EmptyTable \in Table
      BY <2>1, EmptyIsSound DEF Open, TableIsSound
    <3>2. <<EmptyTable>> \in Seq(Table) /\ Len(<<EmptyTable>>) = 1
          /\ DOMAIN <<EmptyTable>> = 1 .. 1 /\ <<EmptyTable>>[1] = EmptyTable
      BY <3>1
    <3>3. 1 \in 1 .. MaxBlocks /\ \A k \in 1 .. 1 : k = 1
      BY <1>1
    <3> QED
      BY <3>1, <3>2, <3>3
  <2>2. CASE blocks # << >>
    <3>1. blocks' = blocks
      BY <2>2 DEF Open
    <3>2. Len(blocks) \in Nat \ {0} /\ DOMAIN blocks = 1 .. Len(blocks)
      BY <1>1, <2>2, EmptySeq, LenProperties
    <3> QED
      BY <1>1, <3>1, <3>2 DEF NumBlocks
  <2> QED
    BY <2>1, <2>2
<1>3. PICK n : n = Len(blocks')
  OBVIOUS
<1>4. n \in 1 .. MaxBlocks /\ n \in Nat /\ 1 \in 1 .. n
  BY <1>1, <1>2, <1>3
<1>5. arrays' = [k \in 1 .. n |-> IF k = 1 THEN ArrayFor(blocks'[1]) ELSE NewArray]
  BY <1>2, <1>3 DEF Open
<1>6. TableIsSound(blocks'[1])
  BY <1>2, <1>3, <1>4
<1>7. ASSUME NEW k \in 1 .. n
      PROVE  arrays'[k] \in ArrayObject
             /\ IF arrays'[k].init THEN arrays'[k] = ArrayFor(blocks'[k])
                ELSE arrays'[k] = NewArray
  <2>1. ~NewArray.init
    BY DEF NewArray
  <2> QED
    BY <1>5, <1>6, <2>1, ArraysAre
<1>8. arrays' \in Seq(ArrayObject) /\ Len(arrays') = n /\ DOMAIN arrays' = 1 .. n
  <2>1. arrays' \in [1 .. n -> ArrayObject]
    BY <1>5, <1>7
  <2> QED
    BY <1>4, <2>1, SeqDef, LenProperties
<1>9. lastAdded' \in 0 .. n - 1 /\ lastAdded' \in -1 .. MaxBlocks - 1 /\ n <= MaxBlocks
  BY <1>1, <1>4 DEF Open
<1> QED
  BY <1>2, <1>3, <1>7, <1>8, <1>9 DEF Open, IInv

\* Close forgets the objects and leaves the blocks.
LEMMA CloseKeeps ==
  ASSUME IInv, Close
  PROVE  IInv'
<1>1. arrays' \in Seq(ArrayObject) /\ DOMAIN arrays' = {}
  BY EmptySeq DEF Close
<1> QED
  BY <1>1 DEF Close, IInv

\* What adding an item comes to, in block b, whose items were those of t.
Added(b, t, item) ==
  /\ b \in 0 .. NumBlocks
  /\ t = IF b = NumBlocks THEN EmptyTable ELSE Block(b)
  /\ TableIsSound(t)
  /\ SizeOf(item) <= FreeSpace(Len(t.slots), t.top)
  /\ b = NumBlocks => \A c \in 0 .. NumBlocks - 1 : ~HasRoom(c, item)
  /\ Len(blocks') = IF b = NumBlocks THEN NumBlocks + 1 ELSE NumBlocks
  /\ blocks'[b + 1] = Inserted(t, item)
  /\ \A k \in 1 .. NumBlocks : k # b + 1 => blocks'[k] = blocks[k]

\* What was appended, replaced: as if the other had been appended at once.
LEMMA AppendedAnother ==
  ASSUME NEW S, NEW s \in Seq(S), NEW x \in S, NEW y \in S
  PROVE  [Append(s, x) EXCEPT ![Len(s) + 1] = y] = Append(s, y)
<1>1. PICK u, v : u = Append(s, x) /\ v = Append(s, y)
  OBVIOUS
<1>2. Len(s) \in Nat
  BY LenProperties
<1>3. /\ u \in Seq(S) /\ Len(u) = Len(s) + 1 /\ \A i \in 1 .. Len(s) : u[i] = s[i]
      /\ v \in Seq(S) /\ Len(v) = Len(s) + 1 /\ \A i \in 1 .. Len(s) : v[i] = s[i]
      /\ v[Len(s) + 1] = y
  BY <1>1, AppendProperties
<1>4. PICK k \in Nat : k = Len(s) + 1 /\ \A i \in 1 .. k : i # k => i \in 1 .. Len(s)
  BY <1>2
<1>5. k \in 1 .. Len(u) /\ Len(u) = k /\ Len(v) = k
  BY <1>3, <1>4
<1>6. PICK w : w = [u EXCEPT ![k] = y]
  OBVIOUS
<1>7. /\ w \in Seq(S) /\ Len(w) = k
      /\ \A i \in 1 .. k : w[i] = IF i = k THEN y ELSE u[i]
  BY <1>3, <1>5, <1>6, ExceptSeq
<1>8. \A i \in 1 .. k : w[i] = v[i]
  BY <1>3, <1>4, <1>7
<1>9. w = v
  BY <1>3, <1>5, <1>7, <1>8, SeqEqual
<1> QED
  BY <1>1, <1>4, <1>6, <1>9

\* Adding keeps the invariant, and comes to Added.
LEMMA AddKeeps ==
  ASSUME IInv, NEW item \in Item, AddItem(item)
  PROVE  IInv' /\ \E b, t : Added(b, t, item)
<1>1. mbOpen /\ UNCHANGED <<fileOpen, mbOpen>>
  BY DEF AddItem
<1>2. /\ NumBlocks \in Nat /\ NumBlocks = Len(blocks)
      /\ \A b \in 0 .. NumBlocks - 1 : TableIsSound(Block(b)) /\ b + 1 \in 1 .. NumBlocks
  BY BlocksAre DEF NumBlocks
<1>3. PICK b, seen : b = FindRoom(item).block /\ seen = FindRoom(item).seen
  OBVIOUS
<1>4. /\ b \in 0 .. NumBlocks
      /\ b # NumBlocks => HasRoom(b, item)
      /\ b = NumBlocks => \A c \in 0 .. NumBlocks - 1 : ~HasRoom(c, item)
  BY <1>1, <1>3, RoomIsFound
<1>5. PICK objs : objs = Touch(seen)
  OBVIOUS
<1>6. /\ objs \in Seq(ArrayObject) /\ Len(objs) = NumBlocks
      /\ \A k \in 1 .. NumBlocks : AgreesWith(objs[k], blocks[k])
  BY <1>1, <1>5, TouchIs
<1>7. b < MaxBlocks /\ lastAdded' = b
  BY <1>3 DEF AddItem
<1>8. CASE b = NumBlocks
  <2>1. PICK t : t = Inserted(EmptyTable, item)
    OBVIOUS
  <2>2. /\ EmptyTable.slots = << >> /\ EmptyTable.top = 0 /\ TableIsSound(EmptyTable)
        /\ FreeSpace(0, 0) = MaxDataSize /\ Len(<< >>) = 0
    BY EmptyIsSound
  <2>3. SizeOf(item) <= FreeSpace(Len(EmptyTable.slots), EmptyTable.top)
    BY <2>2, ItemBytes
  <2>4. TableIsSound(t)
    BY <2>1, <2>2, <2>3, InsertedIsSound
  <2>5. Append(blocks, EmptyTable)[b + 1] = EmptyTable
    BY <1>2, <1>8, <2>2, AppendProperties DEF IInv, TableIsSound
  <2>6. /\ blocks' = [Append(blocks, EmptyTable) EXCEPT ![b + 1] = t]
        /\ arrays' = [Append(objs, NewArray) EXCEPT ![b + 1] = ArrayFor(t)]
    BY <1>3, <1>5, <1>8, <2>1, <2>5 DEF AddItem
  <2>7. blocks' = Append(blocks, t)
    <3>1. blocks \in Seq(Table) /\ t \in Table /\ EmptyTable \in Table
      BY <2>2, <2>4 DEF IInv, TableIsSound
    <3> QED
      BY <1>2, <1>8, <2>6, <3>1, AppendedAnother
  <2>8. arrays' = Append(objs, ArrayFor(t))
    <3>1. NewArray \in ArrayObject /\ ArrayFor(t) \in ArrayObject
      BY <2>4, ArraysAre
    <3> QED
      BY <1>6, <1>8, <2>6, <3>1, AppendedAnother
  <2>9. /\ IInv'
        /\ Len(blocks') = NumBlocks + 1 /\ blocks'[NumBlocks + 1] = t
        /\ \A k \in 1 .. NumBlocks : blocks'[k] = blocks[k]
    BY <1>1, <1>6, <1>7, <1>8, <2>4, <2>7, <2>8, BlockAdded
  <2>10. Added(b, EmptyTable, item)
    BY <1>4, <1>8, <2>1, <2>2, <2>3, <2>9 DEF Added
  <2> QED
    BY <2>9, <2>10
<1>9. CASE b # NumBlocks
  <2>1. b \in 0 .. NumBlocks - 1 /\ b + 1 \in 1 .. NumBlocks /\ TableIsSound(Block(b))
    BY <1>2, <1>4, <1>9
  <2>2. PICK t : t = Inserted(Block(b), item)
    OBVIOUS
  <2>3. SizeOf(item) <= FreeSpace(Len(Block(b).slots), Block(b).top)
    <3>1. Loaded(b).space >= SizeOf(item) /\ SizeOf(item) \in Nat
      BY <1>4, <1>9, ItemBytes DEF HasRoom
    <3>2. Loaded(b).space = FreeSpace(Len(Block(b).slots), Block(b).top)
      BY <1>1, <2>1, WhenOpen
    <3> QED
      BY <3>1, <3>2
  <2>4. TableIsSound(t)
    BY <2>1, <2>2, <2>3, InsertedIsSound
  <2>5. /\ blocks' = [blocks EXCEPT ![b + 1] = t]
        /\ arrays' = [objs EXCEPT ![b + 1] = ArrayFor(t)]
    BY <1>3, <1>5, <1>9, <2>2 DEF AddItem, Block
  <2>6. /\ arrays' \in Seq(ArrayObject) /\ Len(arrays') = NumBlocks
        /\ arrays'[b + 1] = ArrayFor(t)
        /\ \A k \in 1 .. NumBlocks : k # b + 1 => arrays'[k] = objs[k]
    <3>1. ArrayFor(t) \in ArrayObject /\ b + 1 \in 1 .. Len(objs)
      BY <1>6, <2>1, <2>4, ArraysAre
    <3> QED
      BY <1>6, <2>5, <3>1, ExceptSeq
  <2>7. AgreesWith(arrays'[b + 1], t)
    BY <2>4, <2>6, ArraysAre DEF AgreesWith
  <2>8. /\ IInv'
        /\ Len(blocks') = NumBlocks /\ blocks'[b + 1] = t
        /\ \A k \in 1 .. NumBlocks : k # b + 1 => blocks'[k] = blocks[k]
    BY <1>1, <1>6, <1>7, <2>1, <2>4, <2>5, <2>6, <2>7, BlockKept
  <2>9. Added(b, Block(b), item)
    BY <1>4, <1>9, <2>1, <2>2, <2>3, <2>8 DEF Added
  <2> QED
    BY <2>8, <2>9
<1> QED
  BY <1>8, <1>9

\* A live address is a slot in use of a block that there is.
LiveAreUsed ==
  /\ \A a \in Live : /\ a = <<a[1], a[2]>>
                     /\ a[1] \in 0 .. NumBlocks - 1
                     /\ a[2] \in 0 .. Len(Block(a[1]).slots) - 1
                     /\ Block(a[1]).slots[a[2] + 1] # Free
  /\ \A b \in 0 .. NumBlocks - 1 : \A i \in 0 .. Len(Block(b).slots) - 1 :
       Block(b).slots[i + 1] # Free => <<b, i>> \in Live
  /\ Live \subseteq Addresses

\* What has an address is an item of its block.
LEMMA LiveIs == IInv => LiveAreUsed
<1> SUFFICES ASSUME IInv
             PROVE  LiveAreUsed
  OBVIOUS
<1>1. /\ NumBlocks \in 0 .. MaxBlocks /\ MaxBlocks \in Nat
      /\ \A b \in 0 .. NumBlocks - 1 : Len(Block(b).slots) \in 0 .. MaxRecords
      /\ MaxRecords \in Int
  BY BlocksAre, SizesArePos DEF MaxRecords
<1>2. ASSUME NEW a \in Live
      PROVE  /\ a = <<a[1], a[2]>>
             /\ a[1] \in 0 .. NumBlocks - 1
             /\ a[2] \in 0 .. Len(Block(a[1]).slots) - 1
             /\ Block(a[1]).slots[a[2] + 1] # Free
             /\ a[2] \in 0 .. MaxRecords - 1
  <2>1. /\ a \in (0 .. NumBlocks - 1) \X (0 .. MaxRecords - 1)
        /\ a[2] < Len(Block(a[1]).slots) /\ Slot(a) # Free
    BY DEF Live
  <2>2. a = <<a[1], a[2]>> /\ a[1] \in 0 .. NumBlocks - 1 /\ a[2] \in 0 .. MaxRecords - 1
    BY <2>1
  <2>3. a[2] \in 0 .. Len(Block(a[1]).slots) - 1
    BY <1>1, <2>1, <2>2
  <2> QED
    BY <2>1, <2>2, <2>3 DEF Slot
<1>3. ASSUME NEW b \in 0 .. NumBlocks - 1, NEW i \in 0 .. Len(Block(b).slots) - 1,
             Block(b).slots[i + 1] # Free
      PROVE  <<b, i>> \in Live
  <2>1. Len(Block(b).slots) \in 0 .. MaxRecords
    BY <1>1
  <2>2. i \in 0 .. MaxRecords - 1 /\ i < Len(Block(b).slots)
    BY <1>1, <2>1
  <2> QED
    BY <1>3, <2>2 DEF Live, Slot
<1>4. Live \subseteq Addresses
  BY <1>1, <1>2 DEF Addresses
<1> QED
  BY <1>2, <1>3, <1>4 DEF LiveAreUsed

\* Removing keeps the invariant, and changes one block.
LEMMA RemoveKeeps ==
  ASSUME IInv, NEW a \in Live, RemoveItem(a)
  PROVE  /\ IInv'
         /\ NumBlocks' = NumBlocks
         /\ HasNoLonger(blocks'[a[1] + 1], Block(a[1]), a[2] + 1)
         /\ \A k \in 1 .. NumBlocks : k # a[1] + 1 => blocks'[k] = blocks[k]
<1>1. mbOpen /\ UNCHANGED <<fileOpen, mbOpen>>
  BY DEF RemoveItem
<1>2. PICK b, i : b = a[1] /\ i = a[2]
  OBVIOUS
<1>3. /\ b \in 0 .. NumBlocks - 1 /\ i \in 0 .. Len(Block(b).slots) - 1
      /\ Block(b).slots[i + 1] # Free
  BY <1>2, LiveIs DEF LiveAreUsed
<1>4. b + 1 \in 1 .. NumBlocks /\ TableIsSound(Block(b))
  BY <1>3, BlocksAre
<1>5. PICK t : t = Deleted(Block(b), i)
  OBVIOUS
<1>6. TableIsSound(t) /\ HasNoLonger(t, Block(b), i + 1)
  BY <1>3, <1>4, <1>5, DeletedIsSound
<1>7. blocks' = [blocks EXCEPT ![b + 1] = t] /\ arrays' = [arrays EXCEPT ![b + 1] = ArrayFor(t)]
      /\ lastAdded' = lastAdded
  BY <1>2, <1>5 DEF RemoveItem
<1>8. /\ arrays \in Seq(ArrayObject) /\ Len(arrays) = NumBlocks
      /\ lastAdded \in 0 .. NumBlocks - 1
      /\ \A k \in 1 .. NumBlocks : AgreesWith(arrays[k], blocks[k])
  BY <1>1, WhenOpen
<1>9. /\ arrays' \in Seq(ArrayObject) /\ Len(arrays') = NumBlocks
      /\ arrays'[b + 1] = ArrayFor(t)
      /\ \A k \in 1 .. NumBlocks : k # b + 1 => arrays'[k] = arrays[k]
  <2>1. ArrayFor(t) \in ArrayObject /\ b + 1 \in 1 .. Len(arrays)
    BY <1>4, <1>6, <1>8, ArraysAre
  <2> QED
    BY <1>7, <1>8, <2>1, ExceptSeq
<1>10. AgreesWith(arrays'[b + 1], t)
  BY <1>6, <1>9, ArraysAre DEF AgreesWith
<1>11. /\ IInv'
       /\ Len(blocks') = NumBlocks /\ blocks'[b + 1] = t
       /\ \A k \in 1 .. NumBlocks : k # b + 1 => blocks'[k] = blocks[k]
  BY <1>1, <1>3, <1>6, <1>7, <1>8, <1>9, <1>10, BlockKept
<1> QED
  BY <1>2, <1>6, <1>11 DEF NumBlocks

\* Rewriting keeps the invariant, and changes one slot.
LEMMA RewriteKeeps ==
  ASSUME IInv, NEW a \in Live, NEW item \in Item, RewriteItem(a, item)
  PROVE  /\ IInv'
         /\ NumBlocks' = NumBlocks
         /\ Len(blocks'[a[1] + 1].slots) = Len(Block(a[1]).slots)
         /\ blocks'[a[1] + 1].slots[a[2] + 1] = item
         /\ \A j \in 1 .. Len(Block(a[1]).slots) :
              j # a[2] + 1 => blocks'[a[1] + 1].slots[j] = Block(a[1]).slots[j]
         /\ \A k \in 1 .. NumBlocks : k # a[1] + 1 => blocks'[k] = blocks[k]
<1>1. mbOpen /\ UNCHANGED <<fileOpen, mbOpen>>
  BY DEF RewriteItem
<1>2. PICK b, i : b = a[1] /\ i = a[2]
  OBVIOUS
<1>3. /\ b \in 0 .. NumBlocks - 1 /\ i \in 0 .. Len(Block(b).slots) - 1
      /\ Block(b).slots[i + 1] # Free
  BY <1>2, LiveIs DEF LiveAreUsed
<1>4. /\ b + 1 \in 1 .. NumBlocks /\ TableIsSound(Block(b))
      /\ DOMAIN blocks = 1 .. NumBlocks /\ Len(Block(b).slots) \in Nat
      /\ i + 1 \in 1 .. Len(Block(b).slots)
  <2>1. /\ b + 1 \in 1 .. NumBlocks /\ TableIsSound(Block(b))
        /\ DOMAIN blocks = 1 .. NumBlocks /\ Len(Block(b).slots) \in 0 .. MaxRecords
    BY <1>3, BlocksAre
  <2> QED
    BY <1>3, <2>1
<1>5. PICK t : t = [Block(b) EXCEPT !.slots = [Block(b).slots EXCEPT ![i + 1] = item]]
  OBVIOUS
<1>6. SizeOf(item) = SizeOf(Block(b).slots[i + 1])
  BY <1>2 DEF RewriteItem, Slot
<1>7. /\ TableIsSound(t) /\ t.header = Block(b).header
      /\ Len(t.slots) = Len(Block(b).slots) /\ t.slots[i + 1] = item
      /\ \A j \in 1 .. Len(Block(b).slots) : j # i + 1 => t.slots[j] = Block(b).slots[j]
  BY <1>3, <1>4, <1>5, <1>6, RewrittenIsSound
<1>8. blocks' = [blocks EXCEPT ![b + 1] = t]
  BY <1>2, <1>5 DEF RewriteItem, Block
<1>9. arrays' = Touch({b}) /\ lastAdded' = lastAdded /\ lastAdded \in 0 .. NumBlocks - 1
  BY <1>1, <1>2, WhenOpen DEF RewriteItem
<1>10. /\ arrays' \in Seq(ArrayObject) /\ Len(arrays') = NumBlocks
       /\ \A k \in 1 .. NumBlocks : AgreesWith(arrays'[k], blocks[k])
       /\ arrays'[b + 1] = ArrayFor(Block(b))
  BY <1>1, <1>3, <1>9, TouchIs
<1>11. AgreesWith(arrays'[b + 1], t)
  BY <1>7, <1>10 DEF AgreesWith, ArrayFor
<1>12. /\ IInv'
       /\ Len(blocks') = NumBlocks /\ blocks'[b + 1] = t
       /\ \A k \in 1 .. NumBlocks : k # b + 1 => blocks'[k] = blocks[k]
  BY <1>1, <1>3, <1>7, <1>8, <1>9, <1>10, <1>11, BlockKept
<1> QED
  BY <1>2, <1>7, <1>12 DEF NumBlocks

\* A read changes no block; it may read a header for the first time.
LEMMA ReadKeeps ==
  ASSUME IInv, NEW a \in Live, ReadItem(a)
  PROVE  IInv' /\ blocks' = blocks
<1>1. mbOpen /\ UNCHANGED <<fileOpen, mbOpen, lastAdded, blocks>> /\ arrays' = Touch({a[1]})
  BY DEF ReadItem
<1>2. /\ arrays' \in Seq(ArrayObject) /\ Len(arrays') = NumBlocks
      /\ \A k \in 1 .. NumBlocks : AgreesWith(arrays'[k], blocks[k])
      /\ lastAdded \in 0 .. NumBlocks - 1 /\ NumBlocks \in 1 .. MaxBlocks
  BY <1>1, TouchIs, WhenOpen
<1>3. /\ blocks \in Seq(Table) /\ Len(blocks) = NumBlocks
      /\ \A k \in 1 .. NumBlocks : TableIsSound(blocks[k])
  BY BlocksAre DEF IInv, NumBlocks
<1> QED
  BY <1>1, <1>2, <1>3, Kept

\* Every block stays sound and every array object as it was made or in agreement
\* with its block, through all of cBlockRecordFile's operations.
THEOREM InductiveInvariant == Spec => []IInv
<1>1. ASSUME IInv, [Next]_vars
      PROVE  IInv'
  <2>1. CASE Open
    BY <1>1, <2>1, OpenKeeps
  <2>2. CASE \E item \in Item : AddItem(item)
    BY <1>1, <2>2, AddKeeps
  <2>3. CASE \E a \in Live : RemoveItem(a)
    BY <1>1, <2>3, RemoveKeeps
  <2>4. CASE \E a \in Live : ReadItem(a)
    BY <1>1, <2>4, ReadKeeps
  <2>5. CASE \E a \in Live, item \in Item : RewriteItem(a, item)
    BY <1>1, <2>5, RewriteKeeps
  <2>6. CASE Close
    BY <1>1, <2>6, CloseKeeps
  <2>7. CASE UNCHANGED vars
    BY <1>1, <2>7 DEF vars, IInv
  <2> QED
    BY <1>1, <2>1, <2>2, <2>3, <2>4, <2>5, <2>6, <2>7 DEF Next
<1> QED
  BY <1>1, InitIsRight, PTL DEF Spec

-----------------------------------------------------------------------------
(* The theorems                                                            *)

\* Array objects, blocks and headers keep their types, whatever is stored.
THEOREM TypeCorrect == Spec => []TypeOK
<1>1. ASSUME IInv
      PROVE  TypeOK
  <2>1. ASSUME NEW k \in DOMAIN blocks
        PROVE  /\ blocks[k].slots \in Seq(Item \cup {Free})
               /\ blocks[k].top \in 0 .. BlockSize
               /\ blocks[k].header \in [numItems : 0 .. MaxRecords, space : 0 .. MaxDataSize]
    <3>1. PICK t : t = blocks[k]
      OBVIOUS
    <3>2. TableIsSound(t) /\ t.slots \in Slots /\ t.top \in Nat
      BY <1>1, <3>1 DEF IInv, TableIsSound, Table
    <3>3. /\ Len(t.slots) \in 0 .. MaxRecords
          /\ FreeSpace(Len(t.slots), t.top) \in 0 .. MaxDataSize
      <4>1. Len(t.slots) \in 0 .. MaxRecords
        BY <3>2, ArraysAre
      <4>2. Len(t.slots) \in Nat
        BY <3>2, LenProperties DEF Slots
      <4> QED
        BY <3>2, <4>1, <4>2, SpaceIsThere
    <3>4. t.header = [numItems |-> Len(t.slots), space |-> FreeSpace(Len(t.slots), t.top)]
      <4>1. WithHeader(t.slots, t.top).header
              = [numItems |-> Len(t.slots), space |-> FreeSpace(Len(t.slots), t.top)]
        BY DEF WithHeader
      <4> QED
        BY <3>2, <4>1 DEF TableIsSound
    <3>5. t.top \in 0 .. BlockSize
      <4>1. PICK n \in Nat : n = Len(t.slots) + 1
        BY <3>2, LenProperties DEF Slots
      <4>2. PICK p \in Nat : p = n * IndexSize
        BY SizesArePos, Times
      <4>3. HeaderSize + p + t.top <= BlockSize
        BY <3>2, <4>1, <4>2 DEF TableIsSound
      <4> QED
        BY <3>2, <4>3, SizesArePos
    <3> QED
      BY <3>1, <3>2, <3>3, <3>4, <3>5 DEF Slots
  <2> QED
    BY <1>1, <2>1 DEF IInv, TypeOK
<1> QED
  BY <1>1, InductiveInvariant, PTL

\* While the file is open there is an array for each block and the last block
\* added to is one of them; an array in use agrees with the header of its
\* block, and the header with the items; no block holds more than fits.
THEOREM ArraysSound == Spec => []ArraysAreSound
<1>1. ASSUME IInv
      PROVE  ArraysAreSound
  <2>1. /\ NumBlocks \in Nat /\ DOMAIN blocks = 1 .. NumBlocks
        /\ \A b \in 0 .. NumBlocks - 1 : TableIsSound(Block(b))
    BY <1>1, BlocksAre
  <2>2. AssertValid
    BY <1>1 DEF IInv, AssertValid, NumBlocks
  <2>3. ASSUME NEW b \in 0 .. Len(arrays) - 1, Array(b).init
        PROVE  Array(b) = ArrayFor(Block(b))
    <3>1. b + 1 \in DOMAIN arrays
      <4>1. arrays \in Seq(ArrayObject)
        BY <1>1 DEF IInv
      <4>2. Len(arrays) \in Nat /\ DOMAIN arrays = 1 .. Len(arrays)
        BY <4>1, LenProperties
      <4> QED
        BY <4>2
    <3> QED
      BY <1>1, <2>3, <3>1 DEF IInv, Array, Block
  <2>4. ArraysAreCurrent
    BY <2>1, <2>3 DEF ArraysAreCurrent, TableIsSound
  <2>5. BlocksFit
    BY <2>1 DEF BlocksFit, TableIsSound
  <2> QED
    BY <2>2, <2>4, <2>5 DEF ArraysAreSound
<1> QED
  BY <1>1, InductiveInvariant, PTL

\* FindRoomForData makes a new block only for an item that fits in none of
\* those there are.
THEOREM GrowsWhenFull == Spec => GrowsOnlyWhenFull
<1> DEFINE Grows == NumBlocks > 0 /\ Len(blocks') > NumBlocks
                      => \A b \in 0 .. NumBlocks - 1 :
                           FreeSpace(Len(Block(b).slots), Block(b).top)
                             < blocks'[NumBlocks + 1].top
<1>1. ASSUME IInv, [Next]_vars
      PROVE  Grows
  <2> SUFFICES ASSUME NumBlocks > 0, Len(blocks') > NumBlocks,
                      NEW b \in 0 .. NumBlocks - 1
               PROVE  FreeSpace(Len(Block(b).slots), Block(b).top) < blocks'[NumBlocks + 1].top
    OBVIOUS
  <2>1. NumBlocks \in Nat /\ TableIsSound(Block(b)) /\ NumBlocks = Len(blocks)
        /\ blocks \in Seq(Table)
    BY <1>1, BlocksAre DEF NumBlocks
  <2>2. PICK item \in Item : AddItem(item)
    <3>1. CASE Open
      <4>1. blocks # << >>
        BY <2>1, EmptySeq
      <4> QED
        BY <2>1, <3>1, <4>1 DEF Open
    <3>2. ASSUME NEW a \in Live, RemoveItem(a)
          PROVE  FALSE
      BY <1>1, <2>1, <3>2, RemoveKeeps DEF NumBlocks
    <3>3. ASSUME NEW a \in Live, NEW item \in Item, RewriteItem(a, item)
          PROVE  FALSE
      BY <1>1, <2>1, <3>3, RewriteKeeps DEF NumBlocks
    <3>4. ASSUME NEW a \in Live, ReadItem(a)
          PROVE  FALSE
      BY <2>1, <3>4 DEF ReadItem
    <3>5. CASE Close
      BY <2>1, <3>5 DEF Close
    <3>6. CASE UNCHANGED vars
      BY <2>1, <3>6 DEF vars
    <3> QED
      BY <1>1, <3>1, <3>2, <3>3, <3>4, <3>5, <3>6 DEF Next
  <2>3. mbOpen
    BY <2>2 DEF AddItem
  <2>4. PICK n, t : Added(n, t, item)
    BY <1>1, <2>2, AddKeeps
  <2>5. n = NumBlocks
    BY <2>1, <2>4 DEF Added
  <2>6. t = EmptyTable /\ blocks'[NumBlocks + 1] = Inserted(EmptyTable, item)
        /\ SizeOf(item) <= FreeSpace(Len(EmptyTable.slots), EmptyTable.top)
        /\ ~HasRoom(b, item)
    BY <2>4, <2>5 DEF Added
  <2>7. Inserted(EmptyTable, item).top = 0 + SizeOf(item)
    BY <2>6, EmptyIsSound, InsertedIsSound
  <2>8. PICK z \in Nat, s \in Nat : z = SizeOf(item) /\ s = FreeSpace(Len(Block(b).slots), Block(b).top)
    <3>1. Len(Block(b).slots) \in Nat /\ Block(b).top \in Nat
      <4>1. Block(b).slots \in Slots /\ Block(b).top \in Nat
        BY <2>1 DEF TableIsSound, Table
      <4> QED
        BY <4>1, LenProperties DEF Slots
    <3>2. FreeSpace(Len(Block(b).slots), Block(b).top) \in Nat
      <4>1. PICK k \in Nat, top \in Nat : k = Len(Block(b).slots) /\ top = Block(b).top
        BY <3>1
      <4>2. FreeSpace(k, top) \in Nat
        <5>1. FreeSpace(k, top) \in 0 .. BlockSize
          BY SpaceIsThere
        <5> QED
          BY <5>1, SizesArePos
      <4> QED
        BY <4>1, <4>2
    <3> QED
      BY <3>2, ItemBytes
  <2>9. ~(s >= z)
    BY <1>1, <2>3, <2>6, <2>8, WhenOpen DEF HasRoom
  <2>10. s < z /\ blocks'[NumBlocks + 1].top = z
    BY <2>6, <2>7, <2>8, <2>9
  <2> QED
    BY <2>8, <2>10
<1>2. IInv /\ [Next]_vars => [Grows]_vars
  BY <1>1
<1> QED
  BY <1>2, InductiveInvariant, PTL DEF Spec, GrowsOnlyWhenFull

-----------------------------------------------------------------------------
(* The items by address                                                    *)

Stored == [a \in Live |-> Slot(a)]

\* A file that has not been opened is an empty store.
LEMMA InitRefines == Init => Store!Init
<1> SUFFICES ASSUME Init
             PROVE  Live = {}
  BY DEF Store!Init
<1>1. NumBlocks = 0
  BY EmptySeq DEF Init, NumBlocks
<1> QED
  BY <1>1 DEF Live

\* Blocks that do not change hold the same items at the same addresses.
LEMMA SameBlocks ==
  ASSUME IInv, blocks' = blocks
  PROVE  Stored' = Stored
<1>1. Live' = Live
  BY DEF Live, Slot, Block, NumBlocks
<1> QED
  BY <1>1 DEF Stored, Slot, Block

\* The block made when an empty file is opened has no items.
LEMMA OpenRefines ==
  ASSUME IInv, IInv', Open
  PROVE  Stored' = Stored
<1>1. CASE blocks # << >>
  BY <1>1, SameBlocks DEF Open
<1>2. CASE blocks = << >>
  <2>1. Live = {}
    BY <1>2, EmptySeq DEF Live, NumBlocks
  <2>2. blocks' = <<EmptyTable>> /\ EmptyTable.slots = << >> /\ Len(<< >>) = 0
    BY <1>2, EmptyIsSound DEF Open
  <2>3. NumBlocks' = 1 /\ \A b \in 0 .. 0 : Block(b)' = EmptyTable
    BY <2>2 DEF NumBlocks, Block
  <2>4. Live' = {}
    <3> SUFFICES ASSUME NEW a \in Live'
                 PROVE  FALSE
      OBVIOUS
    <3>1. a[1] \in 0 .. NumBlocks' - 1 /\ a[2] \in 0 .. Len(Block(a[1])'.slots) - 1
      <4>1. LiveAreUsed'
        BY LiveIs, PTL
      <4> QED
        BY <4>1 DEF LiveAreUsed
    <3>2. a[1] \in 0 .. 0
      BY <2>3, <3>1
    <3>3. Len(Block(a[1])'.slots) = 0
      BY <2>2, <2>3, <3>2
    <3> QED
      BY <3>1, <3>3
  <2> QED
    BY <2>1, <2>4 DEF Stored
<1> QED
  BY <1>1, <1>2

\* The item is at the address of the first free index of its block, and every
\* other stays where it was.
LEMMA AddRefines ==
  ASSUME IInv, IInv', NEW item \in Item, AddItem(item)
  PROVE  Store!AddItem(item)
<1>1. PICK b, t : Added(b, t, item)
  BY AddKeeps
<1>2. PICK i : i = FirstFree(t.slots)
  OBVIOUS
<1>3. PICK u : u = Inserted(t, item)
  OBVIOUS
<1>4. /\ NumBlocks \in Nat /\ b \in 0 .. NumBlocks
      /\ \A c \in 0 .. NumBlocks - 1 : c + 1 \in 1 .. NumBlocks
      /\ LiveAreUsed /\ LiveAreUsed'
  <2>1. LiveAreUsed
    BY LiveIs
  <2>2. LiveAreUsed'
    BY LiveIs, PTL
  <2> QED
    BY <1>1, <2>1, <2>2, BlocksAre DEF Added
<1>5. HasNow(u, t, i, item) /\ blocks'[b + 1] = u
  BY <1>1, <1>2, <1>3, InsertedIsSound DEF Added
<1>6. t.slots \in Slots /\ Len(t.slots) \in Nat
  <2>1. t.slots \in Slots
    BY <1>1 DEF Added, TableIsSound, Table
  <2> QED
    BY <2>1, LenProperties DEF Slots
<1>7. PICK n \in Nat, m \in Nat : n = Len(t.slots) /\ m = Len(u.slots)
  BY <1>5, <1>6 DEF HasNow
<1>8. /\ i \in 1 .. n + 1 /\ i \in Nat /\ i <= m /\ n <= m
      /\ i <= n => t.slots[i] = Free
      /\ m = IF i = n + 1 THEN n + 1 ELSE n
      /\ u.slots[i] = item
      /\ \A j \in 1 .. n : j # i => u.slots[j] = t.slots[j]
  BY <1>5, <1>7 DEF HasNow
<1>9. PICK h \in Nat : h = i - 1 /\ h + 1 = i /\ h \in 0 .. m - 1
  BY <1>7, <1>8
<1>10. PICK a : a = <<b, h>>
  OBVIOUS
<1>11. /\ NumBlocks' = IF b = NumBlocks THEN NumBlocks + 1 ELSE NumBlocks
       /\ b \in 0 .. NumBlocks' - 1
       /\ Block(b)' = u
       /\ \A c \in 0 .. NumBlocks - 1 : c # b => c \in 0 .. NumBlocks' - 1 /\ Block(c)' = Block(c)
  <2>1. NumBlocks' = IF b = NumBlocks THEN NumBlocks + 1 ELSE NumBlocks
    BY <1>1 DEF Added, NumBlocks
  <2>2. b \in 0 .. NumBlocks' - 1
    BY <1>4, <2>1
  <2>3. ASSUME NEW c \in 0 .. NumBlocks - 1, c # b
        PROVE  c \in 0 .. NumBlocks' - 1 /\ Block(c)' = Block(c)
    <3>1. c + 1 \in 1 .. NumBlocks /\ c + 1 # b + 1
      BY <1>4, <2>3
    <3> QED
      BY <1>1, <1>4, <2>1, <3>1 DEF Added, Block
  <2> QED
    BY <1>5, <2>1, <2>2, <2>3 DEF Block
<1>12. a \in Live' /\ Slot(a)' = item
  <2>1. item # Free
    BY ItemBytes
  <2>2. <<b, h>> \in Live'
    BY <1>4, <1>7, <1>8, <1>9, <1>11, <2>1 DEF LiveAreUsed
  <2> QED
    BY <1>8, <1>9, <1>10, <1>11, <2>2 DEF Slot
<1>13. ASSUME NEW x \in Live
       PROVE  x # a /\ x \in Live' /\ Slot(x)' = Slot(x)
  <2>1. PICK c, j : c = x[1] /\ j = x[2]
    OBVIOUS
  <2>2. /\ x = <<c, j>> /\ c \in 0 .. NumBlocks - 1 /\ j \in 0 .. Len(Block(c).slots) - 1
        /\ Block(c).slots[j + 1] # Free
    BY <1>4, <2>1 DEF LiveAreUsed
  <2>3. CASE c = b
    <3>1. t = Block(c) /\ b # NumBlocks
      BY <1>1, <1>4, <2>2, <2>3 DEF Added
    <3>2. j \in 0 .. n - 1 /\ t.slots[j + 1] # Free
      BY <1>7, <2>2, <3>1
    <3>3. j + 1 \in 1 .. n /\ j \in 0 .. m - 1 /\ j + 1 # i
      BY <1>8, <3>2
    <3>4. u.slots[j + 1] = t.slots[j + 1]
      BY <1>8, <3>3
    <3>5. <<c, j>> \in Live'
      BY <1>4, <1>7, <1>11, <2>3, <3>2, <3>3, <3>4 DEF LiveAreUsed
    <3>6. Slot(x) = t.slots[j + 1] /\ Slot(x)' = u.slots[j + 1]
      BY <1>11, <2>1, <2>3, <3>1 DEF Slot
    <3>7. j # h
      BY <1>9, <3>3
    <3> QED
      BY <1>10, <2>2, <3>4, <3>5, <3>6, <3>7
  <2>4. CASE c # b
    <3>1. c \in 0 .. NumBlocks' - 1 /\ Block(c)' = Block(c)
      BY <1>11, <2>2, <2>4
    <3>2. <<c, j>> \in Live'
      BY <1>4, <2>2, <3>1 DEF LiveAreUsed
    <3> QED
      BY <1>10, <2>1, <2>2, <2>4, <3>1, <3>2 DEF Slot
  <2> QED
    BY <2>3, <2>4
<1>14. ASSUME NEW x \in Live'
       PROVE  x \in Live \cup {a}
  <2>1. PICK c, j : c = x[1] /\ j = x[2]
    OBVIOUS
  <2>2. /\ x = <<c, j>> /\ c \in 0 .. NumBlocks' - 1 /\ j \in 0 .. Len(Block(c)'.slots) - 1
        /\ Block(c)'.slots[j + 1] # Free
    BY <1>4, <2>1 DEF LiveAreUsed
  <2>3. CASE c = b /\ j = h
    BY <1>10, <2>2, <2>3
  <2>4. CASE c = b /\ j # h
    <3>1. j \in 0 .. m - 1 /\ u.slots[j + 1] # Free
      BY <1>7, <1>11, <2>2, <2>4
    <3>2. j + 1 \in 1 .. n /\ j + 1 # i /\ j \in 0 .. n - 1
      BY <1>8, <1>9, <2>4, <3>1
    <3>3. t.slots[j + 1] # Free
      BY <1>8, <3>1, <3>2
    <3>4. b # NumBlocks
      <4>1. EmptyTable.slots = << >> /\ Len(<< >>) = 0
        BY EmptyIsSound
      <4>2. b = NumBlocks => n = 0
        BY <1>1, <1>7, <4>1 DEF Added
      <4> QED
        BY <3>2, <4>2
    <3>5. t = Block(b) /\ b \in 0 .. NumBlocks - 1
      BY <1>1, <1>4, <3>4 DEF Added
    <3> QED
      BY <1>4, <1>7, <2>2, <2>4, <3>2, <3>3, <3>5 DEF LiveAreUsed
  <2>5. CASE c # b
    <3>1. c \in 0 .. NumBlocks - 1
      BY <1>4, <1>11, <2>2, <2>5
    <3>2. Block(c)' = Block(c)
      BY <1>11, <2>5, <3>1
    <3>3. <<c, j>> \in Live
      BY <1>4, <2>2, <3>1, <3>2 DEF LiveAreUsed
    <3> QED
      BY <2>2, <3>3
  <2> QED
    BY <2>3, <2>4, <2>5
<1>15. Live' = Live \cup {a}
  BY <1>12, <1>13, <1>14
<1>16. a \in Addresses \ Live
  <2>1. a \in Addresses
    <3>1. Live' \subseteq Addresses'
      BY <1>4 DEF LiveAreUsed
    <3> QED
      BY <1>12, <3>1 DEF Addresses
  <2> QED
    BY <1>13, <2>1
<1>17. DOMAIN Stored = Live
  BY DEF Stored
<1>18. Stored' = [x \in Live \cup {a} |-> IF x = a THEN item ELSE Stored[x]]
  <2>1. \A x \in Live : Stored[x] = Slot(x) /\ Slot(x)' = Slot(x) /\ x # a
    BY <1>13 DEF Stored
  <2>2. Stored' = [x \in Live' |-> Slot(x)']
    BY DEF Stored
  <2> QED
    BY <1>12, <1>15, <2>1, <2>2
<1> QED
  BY <1>16, <1>17, <1>18 DEF Store!AddItem, Stored

\* Only the slot of the address removed is free now; the free slots dropped
\* at the end had no item.
LEMMA RemoveRefines ==
  ASSUME IInv, IInv', NEW a \in Live, RemoveItem(a)
  PROVE  Store!RemoveItem(a)
<1>1. LiveAreUsed /\ LiveAreUsed'
  <2>1. LiveAreUsed
    BY LiveIs
  <2>2. LiveAreUsed'
    BY LiveIs, PTL
  <2> QED
    BY <2>1, <2>2
<1>2. PICK b, h : b = a[1] /\ h = a[2]
  OBVIOUS
<1>3. /\ a = <<b, h>> /\ b \in 0 .. NumBlocks - 1
      /\ h \in 0 .. Len(Block(b).slots) - 1
  BY <1>1, <1>2 DEF LiveAreUsed
<1>4. /\ NumBlocks \in Nat
      /\ \A c \in 0 .. NumBlocks - 1 : c + 1 \in 1 .. NumBlocks
      /\ TableIsSound(Block(b))
  BY <1>3, BlocksAre
<1>5. PICK t, u : t = Block(b) /\ u = Block(b)'
  OBVIOUS
<1>6. /\ NumBlocks' = NumBlocks
      /\ HasNoLonger(u, t, h + 1)
      /\ \A c \in 0 .. NumBlocks - 1 : c # b => Block(c)' = Block(c)
  <2>1. /\ NumBlocks' = NumBlocks
        /\ HasNoLonger(blocks'[b + 1], Block(b), h + 1)
        /\ \A k \in 1 .. NumBlocks : k # b + 1 => blocks'[k] = blocks[k]
    BY <1>2, RemoveKeeps
  <2>2. ASSUME NEW c \in 0 .. NumBlocks - 1, c # b
        PROVE  Block(c)' = Block(c)
    <3>1. c + 1 \in 1 .. NumBlocks /\ c + 1 # b + 1
      BY <1>3, <1>4, <2>2
    <3> QED
      BY <2>1, <3>1 DEF Block
  <2> QED
    BY <1>5, <2>1, <2>2 DEF Block
<1>7. PICK n \in Nat, m \in Nat : n = Len(t.slots) /\ m = Len(u.slots)
  <2>1. t.slots \in Slots
    BY <1>4, <1>5 DEF TableIsSound, Table
  <2>2. Len(t.slots) \in Nat
    BY <2>1, LenProperties DEF Slots
  <2>3. Len(u.slots) \in Nat
    BY <1>6 DEF HasNoLonger
  <2> QED
    BY <2>2, <2>3
<1>8. /\ h \in 0 .. n - 1 /\ h \in Nat /\ m <= n
      /\ \A j \in 1 .. m : u.slots[j] = IF j = h + 1 THEN Free ELSE t.slots[j]
      /\ \A j \in m + 1 .. n : j # h + 1 => t.slots[j] = Free
  BY <1>3, <1>5, <1>6, <1>7 DEF HasNoLonger
<1>9. ASSUME NEW x \in Live, x # a
      PROVE  x \in Live' /\ Slot(x)' = Slot(x)
  <2>1. PICK c, j : c = x[1] /\ j = x[2]
    OBVIOUS
  <2>2. /\ x = <<c, j>> /\ c \in 0 .. NumBlocks - 1 /\ j \in 0 .. Len(Block(c).slots) - 1
        /\ Block(c).slots[j + 1] # Free
    BY <1>1, <2>1 DEF LiveAreUsed
  <2>3. CASE c = b
    <3>1. j \in 0 .. n - 1 /\ t.slots[j + 1] # Free /\ j # h
      BY <1>3, <1>5, <1>7, <1>9, <2>2, <2>3
    <3>2. j + 1 \in 1 .. m /\ j \in 0 .. m - 1 /\ j + 1 # h + 1
      <4>1. j + 1 \in 1 .. n /\ j + 1 # h + 1
        BY <1>8, <3>1
      <4>2. j + 1 \notin m + 1 .. n
        BY <1>8, <3>1, <4>1
      <4> QED
        BY <3>1, <4>1, <4>2
    <3>3. u.slots[j + 1] = t.slots[j + 1]
      BY <1>8, <3>2
    <3>4. <<c, j>> \in Live'
      BY <1>1, <1>5, <1>6, <1>7, <2>2, <2>3, <3>1, <3>2, <3>3 DEF LiveAreUsed
    <3> QED
      BY <1>5, <2>1, <2>2, <2>3, <3>3, <3>4 DEF Slot
  <2>4. CASE c # b
    <3>1. Block(c)' = Block(c)
      BY <1>6, <2>2, <2>4
    <3>2. <<c, j>> \in Live'
      BY <1>1, <1>6, <2>2, <3>1 DEF LiveAreUsed
    <3> QED
      BY <2>1, <2>2, <3>1, <3>2 DEF Slot
  <2> QED
    BY <2>3, <2>4
<1>10. ASSUME NEW x \in Live'
       PROVE  x \in Live \ {a}
  <2>1. PICK c, j : c = x[1] /\ j = x[2]
    OBVIOUS
  <2>2. /\ x = <<c, j>> /\ c \in 0 .. NumBlocks' - 1 /\ j \in 0 .. Len(Block(c)'.slots) - 1
        /\ Block(c)'.slots[j + 1] # Free
    BY <1>1, <2>1 DEF LiveAreUsed
  <2>3. CASE c = b
    <3>1. j \in 0 .. m - 1 /\ u.slots[j + 1] # Free
      BY <1>5, <1>7, <2>2, <2>3
    <3>2. j + 1 \in 1 .. m /\ j \in 0 .. n - 1
      BY <1>8, <3>1
    <3>3. j + 1 # h + 1 /\ t.slots[j + 1] # Free
      BY <1>8, <3>1, <3>2
    <3>4. <<c, j>> \in Live
      BY <1>1, <1>3, <1>5, <1>7, <2>3, <3>2, <3>3 DEF LiveAreUsed
    <3> QED
      BY <1>3, <2>2, <3>3, <3>4
  <2>4. CASE c # b
    <3>1. c \in 0 .. NumBlocks - 1 /\ Block(c)' = Block(c)
      BY <1>6, <2>2, <2>4
    <3>2. <<c, j>> \in Live
      BY <1>1, <2>2, <3>1 DEF LiveAreUsed
    <3> QED
      BY <1>3, <2>2, <2>4, <3>2
  <2> QED
    BY <2>3, <2>4
<1>11. Live' = Live \ {a}
  <2>1. \A x \in Live : x # a => x \in Live'
    BY <1>9
  <2> QED
    BY <1>10, <2>1
<1>12. Stored' = [x \in Live \ {a} |-> Stored[x]]
  <2>1. \A x \in Live \ {a} : Stored[x] = Slot(x) /\ Slot(x)' = Slot(x)
    BY <1>9 DEF Stored
  <2>2. Stored' = [x \in Live' |-> Slot(x)']
    BY DEF Stored
  <2> QED
    BY <1>11, <2>1, <2>2
<1> QED
  BY <1>12 DEF Store!RemoveItem, Stored

\* Only the item at the address rewritten is another one now.
LEMMA RewriteRefines ==
  ASSUME IInv, IInv', NEW a \in Live, NEW item \in Item, RewriteItem(a, item)
  PROVE  Store!RewriteItem(a, item)
<1>1. LiveAreUsed /\ LiveAreUsed'
  <2>1. LiveAreUsed
    BY LiveIs
  <2>2. LiveAreUsed'
    BY LiveIs, PTL
  <2> QED
    BY <2>1, <2>2
<1>2. PICK b, h : b = a[1] /\ h = a[2]
  OBVIOUS
<1>3. /\ a = <<b, h>> /\ b \in 0 .. NumBlocks - 1
      /\ h \in 0 .. Len(Block(b).slots) - 1
      /\ Block(b).slots[h + 1] # Free
  BY <1>1, <1>2 DEF LiveAreUsed
<1>4. /\ NumBlocks \in Nat
      /\ \A c \in 0 .. NumBlocks - 1 : /\ c + 1 \in 1 .. NumBlocks
                                       /\ Len(Block(c).slots) \in 0 .. MaxRecords
  BY BlocksAre
<1>5. /\ NumBlocks' = NumBlocks
      /\ \A c \in 0 .. NumBlocks - 1 : Len(Block(c)'.slots) = Len(Block(c).slots)
      /\ Block(b)'.slots[h + 1] = item
      /\ \A c \in 0 .. NumBlocks - 1 : \A j \in 0 .. Len(Block(c).slots) - 1 :
           <<c, j>> # a => Block(c)'.slots[j + 1] = Block(c).slots[j + 1]
  <2>1. /\ NumBlocks' = NumBlocks
        /\ Len(blocks'[b + 1].slots) = Len(Block(b).slots)
        /\ blocks'[b + 1].slots[h + 1] = item
        /\ \A j \in 1 .. Len(Block(b).slots) :
             j # h + 1 => blocks'[b + 1].slots[j] = Block(b).slots[j]
        /\ \A k \in 1 .. NumBlocks : k # b + 1 => blocks'[k] = blocks[k]
    BY <1>2, RewriteKeeps
  <2>2. ASSUME NEW c \in 0 .. NumBlocks - 1, c # b
        PROVE  Block(c)' = Block(c)
    <3>1. c + 1 \in 1 .. NumBlocks /\ c + 1 # b + 1
      BY <1>3, <1>4, <2>2
    <3> QED
      BY <2>1, <3>1 DEF Block
  <2>3. Len(Block(b)'.slots) = Len(Block(b).slots) /\ Block(b)'.slots[h + 1] = item
    BY <2>1 DEF Block
  <2>4. ASSUME NEW j \in 0 .. Len(Block(b).slots) - 1, j # h
        PROVE  Block(b)'.slots[j + 1] = Block(b).slots[j + 1]
    <3>1. PICK n \in Nat : n = Len(Block(b).slots)
      BY <1>3, <1>4
    <3>2. j \in 0 .. n - 1 /\ h \in 0 .. n - 1
      BY <1>3, <2>4, <3>1
    <3>3. j + 1 \in 1 .. n /\ j + 1 # h + 1
      BY <2>4, <3>2
    <3>4. blocks'[b + 1].slots[j + 1] = Block(b).slots[j + 1]
      BY <2>1, <3>1, <3>3
    <3> QED
      BY <3>4 DEF Block
  <2>5. ASSUME NEW c \in 0 .. NumBlocks - 1
        PROVE  Len(Block(c)'.slots) = Len(Block(c).slots)
    BY <2>2, <2>3
  <2>6. ASSUME NEW c \in 0 .. NumBlocks - 1, NEW j \in 0 .. Len(Block(c).slots) - 1,
               <<c, j>> # a
        PROVE  Block(c)'.slots[j + 1] = Block(c).slots[j + 1]
    <3>1. c = b => j # h
      BY <1>3, <2>6
    <3> QED
      BY <2>2, <2>4, <3>1
  <2> QED
    BY <2>1, <2>3, <2>5, <2>6
<1>6. item # Free
  BY ItemBytes
<1>7. ASSUME NEW x \in Live
      PROVE  x \in Live' /\ Slot(x)' = IF x = a THEN item ELSE Slot(x)
  <2>1. PICK c, j : c = x[1] /\ j = x[2]
    OBVIOUS
  <2>2. /\ x = <<c, j>> /\ c \in 0 .. NumBlocks - 1 /\ j \in 0 .. Len(Block(c).slots) - 1
        /\ Block(c).slots[j + 1] # Free
    BY <1>1, <2>1 DEF LiveAreUsed
  <2>3. Block(c)'.slots[j + 1] = IF x = a THEN item ELSE Block(c).slots[j + 1]
    <3>1. x = a => c = b /\ j = h
      BY <1>2, <2>1
    <3> QED
      BY <1>5, <2>2, <3>1
  <2>4. <<c, j>> \in Live'
    BY <1>1, <1>5, <1>6, <2>2, <2>3 DEF LiveAreUsed
  <2> QED
    BY <2>1, <2>2, <2>3, <2>4 DEF Slot
<1>8. ASSUME NEW x \in Live'
      PROVE  x \in Live
  <2>1. PICK c, j : c = x[1] /\ j = x[2]
    OBVIOUS
  <2>2. /\ x = <<c, j>> /\ c \in 0 .. NumBlocks' - 1 /\ j \in 0 .. Len(Block(c)'.slots) - 1
        /\ Block(c)'.slots[j + 1] # Free
    BY <1>1, <2>1 DEF LiveAreUsed
  <2>3. c \in 0 .. NumBlocks - 1 /\ j \in 0 .. Len(Block(c).slots) - 1
    BY <1>5, <2>2
  <2>4. x # a => <<c, j>> \in Live
    BY <1>1, <1>5, <2>2, <2>3 DEF LiveAreUsed
  <2> QED
    BY <2>2, <2>4
<1>9. Live' = Live
  BY <1>7, <1>8
<1>10. Stored' = [Stored EXCEPT ![a] = item]
  <2>1. \A x \in Live : Slot(x)' = IF x = a THEN item ELSE Slot(x)
    BY <1>7
  <2>2. Stored' = [x \in Live |-> Slot(x)']
    BY <1>9 DEF Stored
  <2> QED
    BY <2>1, <2>2 DEF Stored
<1>11. SizeOf(item) = SizeOf(Stored[a])
  BY DEF RewriteItem, Stored
<1> QED
  BY <1>10, <1>11 DEF Store!RewriteItem, Stored

\* Items stay at their addresses: every step is an addition at a new address,
\* a removal or a rewrite of the abstract store, or changes nothing in it,
\* closing and opening the file again included.
THEOREM FileRefinesStore == Spec => ImplementsItemStore
<1>1. ASSUME IInv, IInv', [Next]_vars
      PROVE  Store!Next \/ Stored' = Stored
  <2>1. CASE Open
    BY <1>1, <2>1, OpenRefines
  <2>2. CASE \E item \in Item : AddItem(item)
    BY <1>1, <2>2, AddRefines DEF Store!Next
  <2>3. CASE \E a \in Live : RemoveItem(a)
    <3>1. DOMAIN Stored = Live
      BY DEF Stored
    <3> QED
      BY <1>1, <2>3, <3>1, RemoveRefines DEF Store!Next, Stored
  <2>4. CASE \E a \in Live : ReadItem(a)
    BY <1>1, <2>4, SameBlocks DEF ReadItem
  <2>5. CASE \E a \in Live, item \in Item : RewriteItem(a, item)
    <3>1. DOMAIN Stored = Live
      BY DEF Stored
    <3> QED
      BY <1>1, <2>5, <3>1, RewriteRefines DEF Store!Next, Stored
  <2>6. CASE Close
    BY <1>1, <2>6, SameBlocks DEF Close
  <2>7. CASE UNCHANGED vars
    BY <1>1, <2>7, SameBlocks DEF vars
  <2> QED
    BY <1>1, <2>1, <2>2, <2>3, <2>4, <2>5, <2>6, <2>7 DEF Next
<1>2. IInv /\ IInv' /\ [Next]_vars => [Store!Next]_[a \in Live |-> Slot(a)]
  BY <1>1 DEF Stored
<1> QED
  BY <1>2, InductiveInvariant, InitRefines, PTL DEF Spec, ImplementsItemStore, Store!Spec

(***************************************************************************)
(*                              HierDatabase                               *)
(***************************************************************************)

-----------------------------------------------------------------------------
(* The shape of the file                                                   *)

InfosOf(h) == {a \in DOMAIN h : h[a].kind = "info"}
DatasOf(h) == {a \in DOMAIN h : h[a].kind = "data"}

\* The items are of the four kinds, the root and its directory in their places.
IsHeap(h) ==
  /\ DOMAIN h \subseteq Addr
  /\ \A a \in DOMAIN h : h[a] \in Node
  /\ 1 \in DOMAIN h /\ h[1] = Root
  /\ \A a \in DOMAIN h \ {1} : h[a].kind # "root"
  /\ RootInfo \in InfosOf(h) /\ h[RootInfo].parent = Null

\* s are the addresses of the entries linked from `first'.
IsChain(h, first, s) ==
  /\ s \in Seq(EntriesOf(h))
  /\ first = IF s = << >> THEN Null ELSE s[1]
  /\ \A k \in 1 .. Len(s) : h[s[k]].next = IF k = Len(s) THEN Null ELSE s[k + 1]

\* list[d] are the addresses of the entries of directory d, in the order of
\* their names, and home[a] is the directory entry a is in.
ListsAreRight(h, list, home) ==
  /\ list \in [InfosOf(h) -> Seq(EntriesOf(h))]
  /\ home \in [EntriesOf(h) -> InfosOf(h)]
  /\ \A d \in InfosOf(h) :
       /\ IsChain(h, h[d].array, list[d])
       /\ \A k \in 1 .. Len(list[d]) : home[list[d][k]] = d
       /\ \A j, k \in 1 .. Len(list[d]) : j < k => h[list[d][j]].name < h[list[d][k]].name
  /\ \A a \in EntriesOf(h) : \E k \in 1 .. Len(list[home[a]]) : list[home[a]][k] = a

\* way[d] is the path of directory d, and no other has it.
WaysAreRight(h, way, home) ==
  /\ way \in [InfosOf(h) -> Seq(Name)]
  /\ way[RootInfo] = << >>
  /\ \A d \in InfosOf(h) : Len(way[d]) < MaxDepth
  /\ \A c, d \in InfosOf(h) : way[c] = way[d] => c = d
  /\ \A a \in EntriesOf(h) : h[a].child # Null =>
       /\ h[a].child \in InfosOf(h) \ {RootInfo}
       /\ h[h[a].child].parent = home[a]
       /\ way[h[a].child] = Append(way[home[a]], h[a].name)
  /\ \A d \in InfosOf(h) \ {RootInfo} : \E a \in EntriesOf(h) : h[a].child = d

\* Each data item is one entry's.
DatasAreRight(h) ==
  /\ \A a \in EntriesOf(h) : h[a].data # Null => h[a].data \in DatasOf(h)
  /\ \A b \in DatasOf(h) : \E a \in EntriesOf(h) : h[a].data = b
  /\ \A a, b \in EntriesOf(h) : h[a].data = h[b].data /\ h[a].data # Null => a = b

Shape(h, list, way, home) ==
  /\ IsHeap(h)
  /\ ListsAreRight(h, list, home)
  /\ WaysAreRight(h, way, home)
  /\ DatasAreRight(h)

\* What the items of each kind are.
LEMMA NodeKinds ==
  ASSUME NEW h, IsHeap(h), NEW a \in DOMAIN h
  PROVE  /\ h[a].kind \in {"root", "info", "data", "entry"}
         /\ h[a].kind = "root" => a = 1
         /\ a \in EntriesOf(h) => h[a] \in Entry
         /\ a \in InfosOf(h) =>
              h[a] \in [kind : {"info"}, parent : Addr \cup {Null}, array : Addr \cup {Null}]
         /\ a \in DatasOf(h) => h[a] \in [kind : {"data"}, value : Payload]
         /\ a \in Addr /\ a # Null
<1>1. h[a] \in Node /\ a \in Addr
  BY DEF IsHeap
<1>2. h[a] = Root => h[a].kind = "root"
  BY DEF Root
<1>3. CASE h[a] = Root
  BY <1>1, <1>2, <1>3 DEF IsHeap, EntriesOf, InfosOf, DatasOf, Addr, Null
<1>4. CASE h[a] \in [kind : {"info"}, parent : Addr \cup {Null}, array : Addr \cup {Null}]
  BY <1>1, <1>4 DEF IsHeap, EntriesOf, InfosOf, DatasOf, Addr, Null
<1>5. CASE h[a] \in [kind : {"data"}, value : Payload]
  BY <1>1, <1>5 DEF IsHeap, EntriesOf, InfosOf, DatasOf, Addr, Null
<1>6. CASE h[a] \in Entry
  <2>1. h[a].kind = "entry"
    BY <1>6 DEF Entry
  <2> QED
    BY <1>1, <1>6, <2>1 DEF IsHeap, EntriesOf, InfosOf, DatasOf, Addr, Null
<1> QED
  BY <1>1, <1>3, <1>4, <1>5, <1>6 DEF Node

\* What a loop over a list reads is the list, if every entry is in one.
LEMMA LinkedIs ==
  ASSUME NEW h, NEW list, NEW way, NEW home, Shape(h, list, way, home),
         NEW d \in InfosOf(h)
  PROVE  Linked(h, h[d].array) = [k \in 1 .. Len(list[d]) |-> h[list[d][k]]]
<1> DEFINE D == EntriesOf(h) \cup {Null}
           IsRead(f) == f = [a \in D |-> IF a = Null THEN << >>
                                         ELSE <<h[a]>> \o f[h[a].next]]
           place(a) == CHOOSE k \in 1 .. Len(list[home[a]]) : list[home[a]][k] = a
           rest(s, k) == [j \in 1 .. Len(s) - k + 1 |-> h[s[k + j - 1]]]
           g == [a \in D |-> IF a = Null THEN << >> ELSE rest(list[home[a]], place(a))]
           H == {h[a] : a \in EntriesOf(h)}
<1>1. /\ \A a \in EntriesOf(h) : home[a] \in InfosOf(h)
      /\ \A c \in InfosOf(h) :
           /\ list[c] \in Seq(EntriesOf(h)) /\ Len(list[c]) \in Nat
           /\ \A k \in 1 .. Len(list[c]) : list[c][k] \in EntriesOf(h) /\ home[list[c][k]] = c
           /\ \A k \in 1 .. Len(list[c]) :
                h[list[c][k]].next = IF k = Len(list[c]) THEN Null ELSE list[c][k + 1]
           /\ h[c].array = IF list[c] = << >> THEN Null ELSE list[c][1]
  BY LenProperties, ElementOfSeq DEF Shape, ListsAreRight, IsChain
<1>2. Null \notin EntriesOf(h)
  BY NodeKinds DEF Shape, EntriesOf
<1>3. \A c \in InfosOf(h) : \A j, k \in 1 .. Len(list[c]) : list[c][j] = list[c][k] => j = k
  <2> SUFFICES ASSUME NEW c \in InfosOf(h), NEW j \in 1 .. Len(list[c]),
                      NEW k \in 1 .. Len(list[c]), list[c][j] = list[c][k]
               PROVE  j = k
    OBVIOUS
  <2>1. h[list[c][j]].name \in Nat
    <3>1. list[c][j] \in EntriesOf(h) /\ list[c][j] \in DOMAIN h
      BY <1>1 DEF EntriesOf
    <3>2. h[list[c][j]] \in Entry
      BY <3>1, NodeKinds DEF Shape
    <3> QED
      BY <3>2, NamesAreOrdered DEF Entry
  <2>2. /\ j < k => h[list[c][j]].name < h[list[c][k]].name
        /\ k < j => h[list[c][k]].name < h[list[c][j]].name
    BY DEF Shape, ListsAreRight
  <2>3. ~(j < k) /\ ~(k < j)
    BY <2>1, <2>2
  <2> QED
    BY <1>1, <2>3
<1>4. \A c \in InfosOf(h) : \A k \in 1 .. Len(list[c]) : place(list[c][k]) = k
  BY <1>1, <1>3
<1>5. \A c \in InfosOf(h) : \A k \in 1 .. Len(list[c]) + 1 : rest(list[c], k) \in Seq(H)
  <2> SUFFICES ASSUME NEW c \in InfosOf(h), NEW k \in 1 .. Len(list[c]) + 1
               PROVE  rest(list[c], k) \in Seq(H)
    OBVIOUS
  <2>1. Len(list[c]) - k + 1 \in Nat
    BY <1>1
  <2>2. \A j \in 1 .. Len(list[c]) - k + 1 : h[list[c][k + j - 1]] \in H
    BY <1>1
  <2>3. rest(list[c], k) \in [1 .. Len(list[c]) - k + 1 -> H]
    BY <2>2
  <2>4. PICK r, m : r = rest(list[c], k) /\ m = Len(list[c]) - k + 1
    OBVIOUS
  <2>5. m \in Nat /\ r \in [1 .. m -> H]
    BY <2>1, <2>3, <2>4
  <2>6. r \in Seq(H)
    BY ONLY <2>5, SeqDef
  <2> QED
    BY <2>4, <2>6
<1>6. \A c \in InfosOf(h) : \A k \in 1 .. Len(list[c]) :
        rest(list[c], k) = <<h[list[c][k]]>> \o rest(list[c], k + 1)
  <2> SUFFICES ASSUME NEW c \in InfosOf(h), NEW k \in 1 .. Len(list[c])
               PROVE  rest(list[c], k) = <<h[list[c][k]]>> \o rest(list[c], k + 1)
    OBVIOUS
  <2>1. k \in 1 .. Len(list[c]) + 1 /\ k + 1 \in 1 .. Len(list[c]) + 1
        /\ Len(list[c]) \in Nat /\ k \in Nat
    BY <1>1
  <2>2. rest(list[c], k) \in Seq(H) /\ rest(list[c], k + 1) \in Seq(H)
    BY <1>5, <2>1
  <2>3. Len(rest(list[c], k)) = Len(list[c]) - k + 1
        /\ Len(rest(list[c], k + 1)) = Len(list[c]) - k
    BY <2>1, <2>2, LenProperties, SMTT(30)
  <2> DEFINE x == h[list[c][k]]
  <2>4. <<x>> \in Seq(H) /\ Len(<<x>>) = 1 /\ <<x>>[1] = x
    BY <1>1
  <2>5. /\ <<x>> \o rest(list[c], k + 1) \in Seq(H)
        /\ Len(<<x>> \o rest(list[c], k + 1)) = Len(list[c]) - k + 1
        /\ \A j \in 1 .. Len(list[c]) - k + 1 :
             (<<x>> \o rest(list[c], k + 1))[j] =
               IF j <= 1 THEN <<x>>[j] ELSE rest(list[c], k + 1)[j - 1]
    <3> HIDE DEF rest, x
    <3>1. Len(<<x>>) + Len(rest(list[c], k + 1)) = Len(list[c]) - k + 1
      BY <2>1, <2>3, <2>4
    <3> QED
      BY <2>2, <2>4, <3>1, ConcatProperties
  <2>6. \A j \in 1 .. Len(list[c]) - k + 1 :
          rest(list[c], k)[j] = (<<x>> \o rest(list[c], k + 1))[j]
    BY <2>1, <2>4, <2>5
  <2> QED
    <3> HIDE DEF rest, x
    <3>1. rest(list[c], k) = <<x>> \o rest(list[c], k + 1)
      BY <2>2, <2>3, <2>5, <2>6, SeqEqual
    <3> QED
      BY <3>1 DEF x
<1>7. \A c \in InfosOf(h) : rest(list[c], Len(list[c]) + 1) = << >>
  BY <1>1
<1>8. IsRead(g)
  <2> SUFFICES \A a \in EntriesOf(h) : g[a] = <<h[a]>> \o g[h[a].next]
    <3> HIDE DEF place, rest
    <3>1. g[Null] = << >>
      OBVIOUS
    <3>2. g = [a \in D |-> g[a]]
      OBVIOUS
    <3> HIDE DEF g
    <3>3. \A a \in D : g[a] = IF a = Null THEN << >> ELSE <<h[a]>> \o g[h[a].next]
      BY <3>1
    <3> HIDE DEF D
    <3> QED
      BY <3>2, <3>3
  <2> TAKE a \in EntriesOf(h)
  <2>1. PICK k \in 1 .. Len(list[home[a]]) : list[home[a]][k] = a
    BY DEF Shape, ListsAreRight
  <2> DEFINE s == list[home[a]]
  <2>2. home[a] \in InfosOf(h) /\ k \in 1 .. Len(s) /\ s[k] = a /\ Len(s) \in Nat
    BY <1>1, <2>1
  <2>3. g[a] = rest(s, k)
    <3>1. place(a) = k
      BY <1>4, <2>2
    <3> HIDE DEF place, rest
    <3> QED
      BY <1>2, <3>1
  <2>4. g[h[a].next] = rest(s, k + 1)
    <3>1. CASE k = Len(s)
      <4>1. h[a].next = Null
        BY <1>1, <2>2, <3>1
      <4> QED
        BY <1>7, <2>2, <3>1, <4>1
    <3>2. CASE k # Len(s)
      <4>1. k + 1 \in 1 .. Len(s) /\ h[a].next = s[k + 1]
        BY <1>1, <2>2, <3>2
      <4>2. s[k + 1] \in EntriesOf(h) /\ home[s[k + 1]] = home[a]
        BY <1>1, <2>2, <4>1
      <4>3. place(s[k + 1]) = k + 1
        BY <1>4, <2>2, <4>1
      <4> HIDE DEF place, rest
      <4> QED
        BY <1>2, <4>1, <4>2, <4>3
    <3> QED
      BY <3>1, <3>2
  <2> HIDE DEF rest, g
  <2> QED
    BY <1>6, <2>2, <2>3, <2>4
<1> DEFINE f == CHOOSE f : IsRead(f)
<1>9. IsRead(f)
  <2> HIDE DEF IsRead, g
  <2> QED
    BY <1>8
<1>10. Linked(h, h[d].array) = f[h[d].array]
  BY DEF Linked
<1> DEFINE s == list[d]
           N == {n \in Nat : n <= Len(s) =>
                   f[IF n = 0 THEN Null ELSE s[Len(s) - n + 1]] = rest(s, Len(s) - n + 1)}
<1>11. Len(s) \in Nat
  BY <1>1
<1>12. \A a \in D : f[a] = IF a = Null THEN << >> ELSE <<h[a]>> \o f[h[a].next]
  <2> HIDE DEF f, D
  <2> QED
    BY <1>9
<1>13. 0 \in N
  <2>1. f[Null] = << >>
    BY <1>12
  <2> HIDE DEF f
  <2> QED
    BY <1>7, <1>11, <2>1
<1>14. ASSUME NEW n \in Nat, n \in N
       PROVE  n + 1 \in N
  <2> SUFFICES ASSUME n + 1 <= Len(s)
               PROVE  f[s[Len(s) - n]] = rest(s, Len(s) - n)
    BY <1>11
  <2>1. PICK k \in 1 .. Len(s) : k = Len(s) - n
    <3>1. Len(s) - n \in 1 .. Len(s)
      BY <1>11
    <3> HIDE DEF s
    <3> QED
      BY <3>1
  <2>2. s[k] \in EntriesOf(h) /\ s[k] # Null
    BY <1>1, <1>2
  <2>3. f[s[k]] = <<h[s[k]]>> \o f[h[s[k]].next]
    <3> HIDE DEF f, s
    <3> QED
      BY <1>12, <2>2
  <2>4. h[s[k]].next = IF n = 0 THEN Null ELSE s[Len(s) - n + 1]
    <3>1. h[s[k]].next = IF k = Len(s) THEN Null ELSE s[k + 1]
      BY <1>1
    <3> QED
      BY <1>11, <2>1, <3>1
  <2>5. f[h[s[k]].next] = rest(s, k + 1)
    <3>1. n <= Len(s) /\ k + 1 = Len(s) - n + 1
      BY <1>11, <2>1
    <3>2. f[IF n = 0 THEN Null ELSE s[Len(s) - n + 1]] = rest(s, Len(s) - n + 1)
      BY <1>14, <3>1
    <3> HIDE DEF f, s, rest
    <3> QED
      BY <2>4, <3>1, <3>2
  <2>6. f[s[k]] = rest(s, k)
    <3>1. rest(s, k) = <<h[s[k]]>> \o rest(s, k + 1)
      BY <1>6
    <3> HIDE DEF f, s, rest
    <3> QED
      BY <2>3, <2>5, <3>1
  <2> HIDE DEF f, s, rest
  <2> QED
    BY <2>1, <2>6
<1>15. Len(s) \in N
  <2> HIDE DEF N
  <2> QED
    BY <1>11, <1>13, <1>14, NatSetInduction
<1>16. f[h[d].array] = rest(s, 1)
  <2>1. Len(s) - Len(s) + 1 = 1 /\ (Len(s) = 0 <=> s = << >>)
    BY <1>1, <1>11, EmptySeq
  <2>2. h[d].array = IF Len(s) = 0 THEN Null ELSE s[1]
    BY <1>1, <2>1
  <2>3. f[IF Len(s) = 0 THEN Null ELSE s[Len(s) - Len(s) + 1]] = rest(s, Len(s) - Len(s) + 1)
    <3> HIDE DEF f, s, rest
    <3> QED
      BY <1>11, <1>15
  <2> HIDE DEF f, s, rest
  <2> QED
    BY <2>1, <2>2, <2>3
<1>17. rest(s, 1) = [k \in 1 .. Len(s) |-> h[s[k]]]
  BY <1>11
<1> QED
  <2> HIDE DEF f, s, rest
  <2>1. Linked(h, h[d].array) = [k \in 1 .. Len(s) |-> h[s[k]]]
    BY <1>10, <1>16, <1>17
  <2> QED
    BY <2>1 DEF s

\* The iterator's view of a list, and what its parts are.
LEMMA ListParts ==
  ASSUME NEW h, NEW list, NEW way, NEW home, Shape(h, list, way, home),
         NEW d \in InfosOf(h)
  PROVE  /\ list[d] \in Seq(EntriesOf(h)) /\ Len(list[d]) \in Nat
         /\ h[d].array = IF Len(list[d]) = 0 THEN Null ELSE list[d][1]
         /\ \A k \in 1 .. Len(list[d]) :
              /\ list[d][k] \in EntriesOf(h) /\ home[list[d][k]] = d
              /\ h[list[d][k]] \in Entry
              /\ h[list[d][k]].next = IF k = Len(list[d]) THEN Null ELSE list[d][k + 1]
         /\ \A j, k \in 1 .. Len(list[d]) : j < k => h[list[d][j]].name < h[list[d][k]].name
<1>1. /\ list[d] \in Seq(EntriesOf(h)) /\ Len(list[d]) \in Nat
      /\ \A k \in 1 .. Len(list[d]) : list[d][k] \in EntriesOf(h) /\ home[list[d][k]] = d
      /\ \A k \in 1 .. Len(list[d]) :
           h[list[d][k]].next = IF k = Len(list[d]) THEN Null ELSE list[d][k + 1]
      /\ h[d].array = IF list[d] = << >> THEN Null ELSE list[d][1]
      /\ \A j, k \in 1 .. Len(list[d]) : j < k => h[list[d][j]].name < h[list[d][k]].name
  BY LenProperties, ElementOfSeq DEF Shape, ListsAreRight, IsChain
<1>2. list[d] = << >> <=> Len(list[d]) = 0
  BY <1>1, EmptySeq
<1>3. \A a \in EntriesOf(h) : h[a] \in Entry
  BY NodeKinds DEF EntriesOf, Shape
<1> QED
  BY <1>1, <1>2, <1>3

\* Every entry has a home, where no other has its name.
LEMMA EntryParts ==
  ASSUME NEW h, NEW list, NEW way, NEW home, Shape(h, list, way, home),
         NEW a \in EntriesOf(h)
  PROVE  /\ h[a] \in Entry /\ home[a] \in InfosOf(h) /\ a \in DOMAIN h /\ a # Null
         /\ \E k \in 1 .. Len(list[home[a]]) : list[home[a]][k] = a
         /\ h[a].name \in Name /\ h[a].name \in Nat
         /\ \A b \in EntriesOf(h) : home[b] = home[a] /\ h[b].name = h[a].name => b = a
<1>1. /\ h[a] \in Entry /\ home[a] \in InfosOf(h) /\ a \in DOMAIN h /\ a # Null
      /\ \E k \in 1 .. Len(list[home[a]]) : list[home[a]][k] = a
  BY NodeKinds DEF Shape, ListsAreRight, EntriesOf
<1>2. h[a].name \in Name /\ h[a].name \in Nat
  BY <1>1, NamesAreOrdered DEF Entry
<1>3. ASSUME NEW b \in EntriesOf(h), home[b] = home[a], h[b].name = h[a].name
      PROVE  b = a
  <2>1. PICK d \in InfosOf(h) : d = home[a]
    BY <1>1
  <2>2. PICK j \in 1 .. Len(list[d]) : list[d][j] = a
    BY <1>1, <2>1
  <2>3. PICK k \in 1 .. Len(list[d]) : list[d][k] = b
    <3>1. \E k \in 1 .. Len(list[home[b]]) : list[home[b]][k] = b
      BY DEF Shape, ListsAreRight
    <3> QED
      BY <1>3, <2>1, <3>1
  <2>4. ~(j < k) /\ ~(k < j) /\ j \in Nat /\ k \in Nat
    BY <1>2, <1>3, <2>2, <2>3, ListParts
  <2>5. j = k
    BY <2>4
  <2> QED
    BY <2>2, <2>3, <2>5
<1> QED
  BY <1>1, <1>2, <1>3

-----------------------------------------------------------------------------
(* The tree the file shows                                                 *)

PathOf(h, way, home, a) == Append(way[home[a]], h[a].name)

Shown(h, way, home, a) ==
  [path |-> PathOf(h, way, home, a), child |-> h[a].child, data |-> h[a].data]

\* Paths are made of the directory's and the name, and are one entry's each.
LEMMA PathParts ==
  ASSUME NEW h, NEW list, NEW way, NEW home, Shape(h, list, way, home),
         NEW a \in EntriesOf(h)
  PROVE  /\ way[home[a]] \in Seq(Name) /\ Len(way[home[a]]) \in Nat
         /\ Len(way[home[a]]) < MaxDepth
         /\ PathOf(h, way, home, a) \in Seq(Name)
         /\ Len(PathOf(h, way, home, a)) = Len(way[home[a]]) + 1
         /\ \A b \in EntriesOf(h) : PathOf(h, way, home, a) = PathOf(h, way, home, b) => a = b
         /\ h[a].child # Null =>
              /\ h[a].child \in InfosOf(h) \ {RootInfo}
              /\ h[h[a].child].parent = home[a]
              /\ way[h[a].child] = PathOf(h, way, home, a)
<1>1. \A b \in EntriesOf(h) :
        /\ home[b] \in InfosOf(h) /\ way[home[b]] \in Seq(Name) /\ h[b].name \in Name
        /\ Len(way[home[b]]) < MaxDepth
  BY EntryParts DEF Shape, WaysAreRight
<1>2. \A b \in EntriesOf(h) : PathOf(h, way, home, a) = PathOf(h, way, home, b) => a = b
  <2> SUFFICES ASSUME NEW b \in EntriesOf(h), PathOf(h, way, home, a) = PathOf(h, way, home, b)
               PROVE  a = b
    OBVIOUS
  <2>1. way[home[a]] = way[home[b]] /\ h[a].name = h[b].name
    <3>1. PICK s, t, e, f : /\ s = way[home[a]] /\ t = way[home[b]]
                            /\ e = h[a].name /\ f = h[b].name
      OBVIOUS
    <3>2. s \in Seq(Name) /\ e \in Name /\ t \in Seq(Name) /\ f \in Name
      BY <1>1, <3>1
    <3>3. Append(s, e) = Append(t, f)
      BY <3>1 DEF PathOf
    <3>4. s = t /\ e = f
      BY <3>2, <3>3, AppendInjective
    <3> QED
      BY <3>1, <3>4
  <2>2. home[a] = home[b]
    BY <1>1, <2>1 DEF Shape, WaysAreRight
  <2> QED
    BY <2>1, <2>2, EntryParts
<1>3. /\ PathOf(h, way, home, a) \in Seq(Name)
      /\ Len(PathOf(h, way, home, a)) = Len(way[home[a]]) + 1
      /\ Len(way[home[a]]) \in Nat
  BY <1>1, AppendProperties, LenProperties DEF PathOf
<1>4. h[a].child # Null =>
        /\ h[a].child \in InfosOf(h) \ {RootInfo}
        /\ h[h[a].child].parent = home[a]
        /\ way[h[a].child] = PathOf(h, way, home, a)
  BY DEF Shape, WaysAreRight, PathOf
<1> QED
  BY <1>1, <1>2, <1>3, <1>4

\* What a directory's list shows are the entries whose home it is.
LEMMA DirectoryShows ==
  ASSUME NEW h, NEW list, NEW way, NEW home, Shape(h, list, way, home),
         NEW d \in InfosOf(h)
  PROVE  ToSet(Linked(h, h[d].array)) = {h[a] : a \in {b \in EntriesOf(h) : home[b] = d}}
<1>1. ToSet(Linked(h, h[d].array)) = {h[list[d][k]] : k \in 1 .. Len(list[d])}
  <2>1. Linked(h, h[d].array) = [k \in 1 .. Len(list[d]) |-> h[list[d][k]]]
    BY LinkedIs
  <2>2. PICK x : x = Linked(h, h[d].array)
    OBVIOUS
  <2>3. DOMAIN x = 1 .. Len(list[d]) /\ \A k \in 1 .. Len(list[d]) : x[k] = h[list[d][k]]
    BY <2>1, <2>2
  <2> QED
    BY <2>2, <2>3 DEF ToSet
<1>2. \A k \in 1 .. Len(list[d]) : list[d][k] \in {b \in EntriesOf(h) : home[b] = d}
  BY ListParts
<1>3. \A a \in {b \in EntriesOf(h) : home[b] = d} : \E k \in 1 .. Len(list[d]) : list[d][k] = a
  BY EntryParts
<1> QED
  BY <1>1, <1>2, <1>3

\* The entries the abstract tree finds at each depth are those of the
\* directories whose way down from the root is that long.
LEMMA AtDepthIs ==
  ASSUME NEW h, NEW list, NEW way, NEW home, Shape(h, list, way, home)
  PROVE  /\ EntriesAtDepth(h)[0] = {[path |-> << >>, child |-> RootInfo, data |-> Null]}
         /\ \A k \in 1 .. MaxDepth :
              EntriesAtDepth(h)[k] =
                {Shown(h, way, home, a) : a \in {b \in EntriesOf(h) : Len(way[home[b]]) = k - 1}}
<1> DEFINE Top == {[path |-> << >>, child |-> RootInfo, data |-> Null]}
           Below1(X) == UNION {{[path |-> Append(x.path, e.name), child |-> e.child, data |-> e.data] :
                         e \in ToSet(Linked(h, h[x.child].array))} :
                      x \in {y \in X : y.child # Null}}
           IsAt(f) == f = [k \in 0 .. MaxDepth |-> IF k = 0 THEN Top ELSE Below1(f[k - 1])]
           g == [k \in 0 .. MaxDepth |->
                   IF k = 0 THEN Top
                   ELSE {Shown(h, way, home, a) :
                           a \in {b \in EntriesOf(h) : Len(way[home[b]]) = k - 1}}]
<1>1. ASSUME NEW X, NEW k \in Nat,
             \A x \in X : x.child # Null =>
               x.child \in InfosOf(h) /\ way[x.child] = x.path /\ Len(x.path) = k,
             \A d \in InfosOf(h) : Len(way[d]) = k => \E x \in X : x.child = d
      PROVE  Below1(X) = {Shown(h, way, home, a) :
                            a \in {b \in EntriesOf(h) : Len(way[home[b]]) = k}}
  <2>1. ASSUME NEW x \in X, x.child # Null, NEW e \in ToSet(Linked(h, h[x.child].array))
        PROVE  \E a \in {b \in EntriesOf(h) : Len(way[home[b]]) = k} :
                 [path |-> Append(x.path, e.name), child |-> e.child, data |-> e.data]
                   = Shown(h, way, home, a)
    <3>1. PICK d \in InfosOf(h) : d = x.child /\ way[d] = x.path /\ Len(x.path) = k
      BY <1>1, <2>1
    <3>2. PICK a \in EntriesOf(h) : home[a] = d /\ e = h[a]
      BY <2>1, <3>1, DirectoryShows
    <3> QED
      BY <3>1, <3>2 DEF Shown, PathOf
  <2>2. ASSUME NEW a \in EntriesOf(h), Len(way[home[a]]) = k
        PROVE  \E x \in X : x.child # Null /\ \E e \in ToSet(Linked(h, h[x.child].array)) :
                 [path |-> Append(x.path, e.name), child |-> e.child, data |-> e.data]
                   = Shown(h, way, home, a)
    <3>1. PICK d \in InfosOf(h) : d = home[a]
      BY EntryParts
    <3>2. PICK x \in X : x.child = d
      BY <1>1, <2>2, <3>1
    <3>3. x.child # Null /\ way[x.child] = x.path
      <4>1. d # Null
        BY NodeKinds DEF Shape, InfosOf
      <4> QED
        BY <1>1, <3>2, <4>1
    <3>4. h[a] \in ToSet(Linked(h, h[x.child].array))
      BY <3>1, <3>2, DirectoryShows
    <3> QED
      BY <3>1, <3>2, <3>3, <3>4 DEF Shown, PathOf
  <2> HIDE DEF Below1
  <2>3. \A z : z \in Below1(X) <=> \E x \in X : x.child # Null /\
                 \E e \in ToSet(Linked(h, h[x.child].array)) :
                   z = [path |-> Append(x.path, e.name), child |-> e.child, data |-> e.data]
    BY DEF Below1
  <2>4. \A z \in Below1(X) : \E a \in {b \in EntriesOf(h) : Len(way[home[b]]) = k} :
                                z = Shown(h, way, home, a)
    <3> TAKE z \in Below1(X)
    <3>1. PICK x \in X : x.child # Null /\ \E e \in ToSet(Linked(h, h[x.child].array)) :
                   z = [path |-> Append(x.path, e.name), child |-> e.child, data |-> e.data]
      BY <2>3
    <3>2. PICK e \in ToSet(Linked(h, h[x.child].array)) :
                   z = [path |-> Append(x.path, e.name), child |-> e.child, data |-> e.data]
      BY <3>1
    <3> QED
      BY <2>1, <3>1, <3>2
  <2>5. \A a \in {b \in EntriesOf(h) : Len(way[home[b]]) = k} : Shown(h, way, home, a) \in Below1(X)
    BY <2>2, <2>3
  <2> QED
    BY <2>4, <2>5
<1>2. ASSUME NEW k \in 1 .. MaxDepth
      PROVE  g[k] = Below1(g[k - 1])
  <2>1. k - 1 \in Nat /\ k - 1 \in 0 .. MaxDepth
    BY DepthIsNumber
  <2>2. \A x \in g[k - 1] : x.child # Null =>
          x.child \in InfosOf(h) /\ way[x.child] = x.path /\ Len(x.path) = k - 1
    <3>1. CASE k = 1
      <4>1. g[k - 1] = Top
        BY <2>1, <3>1
      <4>2. RootInfo \in InfosOf(h) /\ way[RootInfo] = << >> /\ Len(<< >>) = 0
        BY DEF Shape, IsHeap, WaysAreRight
      <4>3. \A x \in g[k - 1] : x.child = RootInfo /\ x.path = << >>
        <5> HIDE DEF g
        <5> QED
          BY <4>1
      <4> HIDE DEF g
      <4> QED
        BY <3>1, <4>2, <4>3
    <3>2. CASE k # 1
      <4> SUFFICES ASSUME NEW a \in EntriesOf(h), Len(way[home[a]]) = k - 1 - 1,
                          h[a].child # Null
                   PROVE  /\ h[a].child \in InfosOf(h)
                          /\ way[h[a].child] = PathOf(h, way, home, a)
                          /\ Len(PathOf(h, way, home, a)) = k - 1
        BY <2>1, <3>2 DEF Shown
      <4> QED
        BY <2>1, PathParts
    <3> QED
      BY <3>1, <3>2
  <2>3. \A d \in InfosOf(h) : Len(way[d]) = k - 1 => \E x \in g[k - 1] : x.child = d
    <3> SUFFICES ASSUME NEW d \in InfosOf(h), Len(way[d]) = k - 1
                 PROVE  \E x \in g[k - 1] : x.child = d
      OBVIOUS
    <3>1. CASE k = 1
      <4>1. way[d] = << >>
        BY <3>1, EmptySeq DEF Shape, WaysAreRight
      <4>2. d = RootInfo
        BY <4>1 DEF Shape, IsHeap, WaysAreRight
      <4>3. g[k - 1] = Top
        BY <2>1, <3>1
      <4>4. [path |-> << >>, child |-> RootInfo, data |-> Null] \in g[k - 1]
        BY <4>3
      <4> HIDE DEF g
      <4> QED
        BY <4>2, <4>4
    <3>2. CASE k # 1
      <4>1. d # RootInfo
        BY <2>1, <3>2 DEF Shape, WaysAreRight
      <4>2. PICK a \in EntriesOf(h) : h[a].child = d
        BY <4>1 DEF Shape, WaysAreRight
      <4>3. d # Null
        BY NodeKinds DEF Shape, InfosOf
      <4>4. Len(way[home[a]]) = k - 1 - 1
        BY <2>1, <4>2, <4>3, PathParts
      <4>5. Shown(h, way, home, a) \in g[k - 1] /\ Shown(h, way, home, a).child = d
        BY <2>1, <3>2, <4>2, <4>4 DEF Shown
      <4> QED
        BY <4>5
    <3> QED
      BY <3>1, <3>2
  <2>4. g[k] = {Shown(h, way, home, a) :
                  a \in {b \in EntriesOf(h) : Len(way[home[b]]) = k - 1}}
    OBVIOUS
  <2> HIDE DEF g, Below1
  <2> QED
    BY <1>1, <2>1, <2>2, <2>3, <2>4
<1>3. IsAt(g)
  <2>1. g = [k \in 0 .. MaxDepth |-> g[k]] /\ g[0] = Top
    BY DepthIsNumber
  <2> HIDE DEF g, Below1, Top
  <2>2. \A k \in 0 .. MaxDepth : g[k] = IF k = 0 THEN Top ELSE Below1(g[k - 1])
    BY <1>2, <2>1
  <2> QED
    BY <2>1, <2>2
<1> DEFINE f == CHOOSE f : IsAt(f)
<1>4. IsAt(f)
  <2> HIDE DEF IsAt, g
  <2> QED
    BY <1>3
<1>5. EntriesAtDepth(h) = f
  BY DEF EntriesAtDepth
<1>6. \A k \in 0 .. MaxDepth : f[k] = IF k = 0 THEN Top ELSE Below1(f[k - 1])
  <2> HIDE DEF f, Below1, Top
  <2> QED
    BY <1>4
<1> DEFINE N == {k \in Nat : k <= MaxDepth => f[k] = g[k]}
<1>7. Nat \subseteq N
  <2>1. 0 \in N
    <3> HIDE DEF f, Below1, Top
    <3> QED
      BY <1>6, DepthIsNumber
  <2>2. ASSUME NEW k \in Nat, k \in N
        PROVE  k + 1 \in N
    <3> SUFFICES ASSUME k + 1 <= MaxDepth
                 PROVE  f[k + 1] = g[k + 1]
      <4> HIDE DEF f, g
      <4> QED
        OBVIOUS
    <3>1. k + 1 \in 1 .. MaxDepth /\ k + 1 \in 0 .. MaxDepth /\ k + 1 - 1 = k /\ k <= MaxDepth
          /\ k + 1 # 0
      BY DepthIsNumber
    <3>2. f[k] = g[k]
      BY <2>2, <3>1
    <3> HIDE DEF f, g, Below1, Top
    <3>3. f[k + 1] = Below1(f[k + 1 - 1])
      BY <1>6, <3>1
    <3>4. g[k + 1] = Below1(g[k + 1 - 1])
      BY <1>2, <3>1
    <3> QED
      BY <3>1, <3>2, <3>3, <3>4
  <2> HIDE DEF N
  <2> QED
    BY <2>1, <2>2, NatSetInduction
<1>8. \A k \in 0 .. MaxDepth : f[k] = g[k]
  <2> HIDE DEF f, g
  <2> QED
    BY <1>7, DepthIsNumber
<1>9. f[0] = Top /\ \A k \in 1 .. MaxDepth : f[k] = g[k]
  <2> HIDE DEF f, g, Below1
  <2> QED
    BY <1>6, <1>8, DepthIsNumber
<1>10. \A k \in 1 .. MaxDepth : g[k] = {Shown(h, way, home, a) :
                           a \in {b \in EntriesOf(h) : Len(way[home[b]]) = k - 1}}
  BY DepthIsNumber
<1> QED
  <2> HIDE DEF f, g
  <2> QED
    BY <1>5, <1>9, <1>10

\* t is the tree of the file's entries, by their paths.
Shows(h, a) ==
  [data |-> IF h[a].data = Null THEN NoData ELSE h[h[a].data].value,
   dir  |-> h[a].child # Null]

IsTree(t, h, way, home) ==
  /\ t = [p \in {PathOf(h, way, home, a) : a \in EntriesOf(h)} |-> t[p]]
  /\ \A a \in EntriesOf(h) : t[PathOf(h, way, home, a)] = Shows(h, a)

\* The tree a sound heap stands for has each entry once, at its path.
LEMMA TreeIs ==
  ASSUME NEW h, NEW list, NEW way, NEW home, Shape(h, list, way, home)
  PROVE  IsTree(TreeOf(h), h, way, home)
<1> DEFINE found == UNION {EntriesAtDepth(h)[k] : k \in 1 .. MaxDepth}
           show(p) == LET e == CHOOSE e \in found : e.path = p
                      IN [data |-> IF e.data = Null THEN NoData ELSE h[e.data].value,
                          dir  |-> e.child # Null]
<1>1. found = {Shown(h, way, home, a) : a \in EntriesOf(h)}
  <2>1. ASSUME NEW k \in 1 .. MaxDepth, NEW e \in EntriesAtDepth(h)[k]
        PROVE  \E a \in EntriesOf(h) : e = Shown(h, way, home, a)
    BY AtDepthIs
  <2>2. ASSUME NEW a \in EntriesOf(h)
        PROVE  \E k \in 1 .. MaxDepth : Shown(h, way, home, a) \in EntriesAtDepth(h)[k]
    <3>1. PICK k \in 1 .. MaxDepth : Len(way[home[a]]) = k - 1
      <4>1. Len(way[home[a]]) + 1 \in 1 .. MaxDepth
            /\ Len(way[home[a]]) = (Len(way[home[a]]) + 1) - 1
        BY PathParts, DepthIsNumber
      <4> QED
        BY <4>1
    <3> QED
      BY <3>1, AtDepthIs
  <2> QED
    BY <2>1, <2>2
<1>2. {e.path : e \in found} = {PathOf(h, way, home, a) : a \in EntriesOf(h)}
  <2>1. \A a \in EntriesOf(h) : Shown(h, way, home, a).path = PathOf(h, way, home, a)
    BY DEF Shown
  <2> HIDE DEF found
  <2> QED
    BY <1>1, <2>1
<1>3. TreeOf(h) = [p \in {e.path : e \in found} |-> show(p)]
  BY DEF TreeOf
<1>4. ASSUME NEW a \in EntriesOf(h)
      PROVE  show(PathOf(h, way, home, a)) = Shows(h, a)
  <2>1. \A e \in found : e.path = PathOf(h, way, home, a) <=> e = Shown(h, way, home, a)
    BY <1>1, PathParts DEF Shown
  <2>2. Shown(h, way, home, a) \in found
    BY <1>1
  <2>3. (CHOOSE e \in found : e.path = PathOf(h, way, home, a)) = Shown(h, way, home, a)
    <3> HIDE DEF found
    <3> QED
      BY <2>1, <2>2
  <2>4. /\ Shown(h, way, home, a).data = h[a].data
        /\ Shown(h, way, home, a).child = h[a].child
    BY DEF Shown
  <2>5. PICK x : x = (CHOOSE e \in found : e.path = PathOf(h, way, home, a))
    OBVIOUS
  <2>6. show(PathOf(h, way, home, a)) =
          [data |-> IF x.data = Null THEN NoData ELSE h[x.data].value, dir |-> x.child # Null]
    BY <2>5
  <2>7. x.data = h[a].data /\ x.child = h[a].child
    BY <2>3, <2>4, <2>5
  <2> HIDE DEF found, show
  <2> QED
    BY <2>6, <2>7 DEF Shows
<1> QED
  <2> HIDE DEF found, show
  <2> QED
    BY <1>2, <1>3, <1>4 DEF IsTree

-----------------------------------------------------------------------------
(* Lists with one more and one less                                        *)

Ins(s, k, e) == [j \in 1 .. Len(s) + 1 |-> IF j < k THEN s[j] ELSE IF j = k THEN e ELSE s[j - 1]]
Del(s, k)    == [j \in 1 .. Len(s) - 1 |-> IF j < k THEN s[j] ELSE s[j + 1]]

\* A list with an element more, position by position.
LEMMA InsertedList ==
  ASSUME NEW S, NEW s \in Seq(S), NEW k \in 1 .. Len(s) + 1, NEW e \in S
  PROVE  /\ Ins(s, k, e) \in Seq(S) /\ Len(Ins(s, k, e)) = Len(s) + 1 /\ Len(s) \in Nat
         /\ \A j \in 1 .. Len(s) + 1 :
              Ins(s, k, e)[j] = IF j < k THEN s[j] ELSE IF j = k THEN e ELSE s[j - 1]
<1>1. Len(s) \in Nat /\ \A j \in 1 .. Len(s) : s[j] \in S
  BY LenProperties, ElementOfSeq
<1>2. \A j \in 1 .. Len(s) + 1 :
        Ins(s, k, e)[j] = IF j < k THEN s[j] ELSE IF j = k THEN e ELSE s[j - 1]
  BY DEF Ins
<1>3. Ins(s, k, e) \in Seq(S) /\ Len(Ins(s, k, e)) = Len(s) + 1
  <2>1. \A j \in 1 .. Len(s) + 1 :
          (IF j < k THEN s[j] ELSE IF j = k THEN e ELSE s[j - 1]) \in S
    BY <1>1
  <2>2. Ins(s, k, e) \in [1 .. Len(s) + 1 -> S]
    BY <2>1 DEF Ins
  <2>3. Ins(s, k, e) \in Seq(S)
    BY <1>1, <2>2, SeqDef
  <2> QED
    BY <1>1, <2>2, <2>3, LenProperties
<1> QED
  BY <1>1, <1>2, <1>3

\* Inserting with the community modules' operator, or in front.
LEMMA InsertAtIs ==
  ASSUME NEW S, NEW s \in Seq(S), NEW k \in 1 .. Len(s) + 1, NEW e \in S
  PROVE  /\ InsertAt(s, k, e) = Ins(s, k, e)
         /\ k = 1 => <<e>> \o s = Ins(s, k, e)
<1>1. Len(s) \in Nat /\ \A j \in 1 .. Len(s) : s[j] \in S
  BY LenProperties, ElementOfSeq
<1>2. \A j \in 1 .. Len(s) + 1 :
        Ins(s, k, e)[j] = IF j < k THEN s[j] ELSE IF j = k THEN e ELSE s[j - 1]
  BY DEF Ins
<1>3. Ins(s, k, e) \in Seq(S) /\ Len(Ins(s, k, e)) = Len(s) + 1
  BY InsertedList
<1>4. InsertAt(s, k, e) = Ins(s, k, e)
  <2> DEFINE u == SubSeq(s, 1, k - 1)
             v == SubSeq(s, k, Len(s))
  <2>1. /\ u \in Seq(S) /\ Len(u) = k - 1
        /\ \A j \in 1 .. k - 1 : u[j] = s[j]
    <3>1. 1 \in 1 .. Len(s) + 1 /\ k - 1 \in 1 - 1 .. Len(s)
      BY <1>1
    <3>2. /\ u \in Seq(S)
          /\ Len(u) = IF 1 <= k - 1 THEN (k - 1) - 1 + 1 ELSE 0
          /\ \A j \in 1 .. (k - 1) - 1 + 1 : u[j] = s[1 + j - 1]
      BY <3>1, SubSeqProperties
    <3>3. (k - 1) - 1 + 1 = k - 1 /\ \A j \in 1 .. k - 1 : 1 + j - 1 = j
      BY <1>1
    <3>4. Len(u) = k - 1
      <4> HIDE DEF u
      <4> QED
        BY <1>1, <3>2
    <3> HIDE DEF u
    <3> QED
      BY <3>2, <3>3, <3>4
  <2>2. /\ v \in Seq(S) /\ Len(v) = Len(s) - k + 1
        /\ \A j \in 1 .. Len(s) - k + 1 : v[j] = s[k + j - 1]
    <3>1. k \in 1 .. Len(s) + 1 /\ Len(s) \in k - 1 .. Len(s)
      BY <1>1
    <3>2. /\ v \in Seq(S)
          /\ Len(v) = IF k <= Len(s) THEN Len(s) - k + 1 ELSE 0
          /\ \A j \in 1 .. Len(s) - k + 1 : v[j] = s[k + j - 1]
      BY <3>1, SubSeqProperties
    <3> HIDE DEF v
    <3> QED
      BY <1>1, <3>2
  <2> HIDE DEF u, v
  <2>3. <<e>> \in Seq(S) /\ Len(<<e>>) = 1 /\ <<e>>[1] = e
    OBVIOUS
  <2>4. PICK w : w = u \o <<e>>
    OBVIOUS
  <2>5. /\ w \in Seq(S) /\ Len(w) = k
        /\ \A j \in 1 .. k : w[j] = IF j <= k - 1 THEN u[j] ELSE <<e>>[j - (k - 1)]
    <3>1. Len(u) + Len(<<e>>) = k
      BY <2>1, <2>3
    <3> QED
      BY <2>1, <2>3, <2>4, <3>1, ConcatProperties
  <2>6. PICK x : x = w \o v
    OBVIOUS
  <2>7. /\ x \in Seq(S) /\ Len(x) = Len(s) + 1
        /\ \A j \in 1 .. Len(s) + 1 : x[j] = IF j <= k THEN w[j] ELSE v[j - k]
    <3>1. Len(w) + Len(v) = Len(s) + 1
      BY <1>1, <2>2, <2>5
    <3>2. /\ w \o v \in Seq(S)
          /\ Len(w \o v) = Len(w) + Len(v)
          /\ \A j \in 1 .. Len(w) + Len(v) :
               (w \o v)[j] = IF j <= Len(w) THEN w[j] ELSE v[j - Len(w)]
      BY <2>2, <2>5, ConcatProperties
    <3> QED
      BY <2>2, <2>5, <2>6, <3>1, <3>2
  <2>8. \A j \in 1 .. Len(s) + 1 : x[j] = Ins(s, k, e)[j]
    <3> SUFFICES ASSUME NEW j \in 1 .. Len(s) + 1
                 PROVE  x[j] = Ins(s, k, e)[j]
      OBVIOUS
    <3>1. CASE j < k
      BY <1>1, <1>2, <2>1, <2>5, <2>7, <3>1, SMTT(30)
    <3>2. CASE j = k
      <4>1. x[j] = <<e>>[j - (k - 1)]
        BY <1>1, <2>5, <2>7, <3>2, SMTT(30)
      <4>2. j - (k - 1) = 1
        BY <1>1, <3>2
      <4> QED
        BY <1>1, <1>2, <2>3, <3>2, <4>1, <4>2
    <3>3. CASE j > k
      <4>1. x[j] = v[j - k] /\ j - k \in 1 .. Len(s) - k + 1
        BY <1>1, <2>7, <3>3
      <4>2. v[j - k] = s[k + (j - k) - 1] /\ k + (j - k) - 1 = j - 1
        BY <1>1, <2>2, <4>1
      <4> QED
        BY <1>1, <1>2, <3>3, <4>1, <4>2
    <3> QED
      BY <1>1, <3>1, <3>2, <3>3
  <2>9. x = Ins(s, k, e)
    BY <1>3, <2>7, <2>8, SeqEqual
  <2> QED
    BY <2>4, <2>6, <2>9 DEF InsertAt, u, v
<1>5. k = 1 => <<e>> \o s = Ins(s, k, e)
  <2> SUFFICES ASSUME k = 1 PROVE <<e>> \o s = Ins(s, k, e)
    OBVIOUS
  <2>1. PICK x : x = <<e>> \o s
    OBVIOUS
  <2>2. <<e>> \in Seq(S) /\ Len(<<e>>) = 1 /\ <<e>>[1] = e
    OBVIOUS
  <2>3. /\ x \in Seq(S) /\ Len(x) = Len(s) + 1
        /\ \A j \in 1 .. Len(s) + 1 : x[j] = IF j <= 1 THEN <<e>>[j] ELSE s[j - 1]
    <3>1. Len(<<e>>) + Len(s) = Len(s) + 1
      BY <1>1, <2>2
    <3> QED
      BY <2>1, <2>2, <3>1, ConcatProperties
  <2>4. \A j \in 1 .. Len(s) + 1 : x[j] = Ins(s, k, e)[j]
    BY <1>1, <1>2, <2>2, <2>3
  <2> QED
    BY <1>3, <2>1, <2>3, <2>4, SeqEqual
<1> QED
  BY <1>4, <1>5

\* A list with an element less, position by position.
LEMMA RemovedList ==
  ASSUME NEW S, NEW s \in Seq(S), NEW k \in 1 .. Len(s)
  PROVE  /\ Del(s, k) \in Seq(S) /\ Len(Del(s, k)) = Len(s) - 1 /\ Len(s) \in Nat \ {0}
         /\ \A j \in 1 .. Len(s) - 1 : Del(s, k)[j] = IF j < k THEN s[j] ELSE s[j + 1]
         /\ RemoveAt(s, k) = Del(s, k)
<1>1. Len(s) \in Nat \ {0} /\ \A j \in 1 .. Len(s) : s[j] \in S
  BY LenProperties, ElementOfSeq
<1>2. \A j \in 1 .. Len(s) - 1 : Del(s, k)[j] = IF j < k THEN s[j] ELSE s[j + 1]
  BY DEF Del
<1>3. Del(s, k) \in Seq(S) /\ Len(Del(s, k)) = Len(s) - 1
  <2>1. \A j \in 1 .. Len(s) - 1 : (IF j < k THEN s[j] ELSE s[j + 1]) \in S
    BY <1>1
  <2>2. Del(s, k) \in [1 .. Len(s) - 1 -> S]
    BY <2>1 DEF Del
  <2>3. Del(s, k) \in Seq(S)
    BY <1>1, <2>2, SeqDef
  <2> QED
    BY <1>1, <2>2, <2>3, LenProperties
<1>4. RemoveAt(s, k) = Del(s, k)
  <2> DEFINE u == SubSeq(s, 1, k - 1)
             v == SubSeq(s, k + 1, Len(s))
  <2>1. /\ u \in Seq(S) /\ Len(u) = k - 1
        /\ \A j \in 1 .. k - 1 : u[j] = s[j]
    <3>1. 1 \in 1 .. Len(s) + 1 /\ k - 1 \in 1 - 1 .. Len(s)
      BY <1>1
    <3>2. /\ u \in Seq(S)
          /\ Len(u) = IF 1 <= k - 1 THEN (k - 1) - 1 + 1 ELSE 0
          /\ \A j \in 1 .. (k - 1) - 1 + 1 : u[j] = s[1 + j - 1]
      BY <3>1, SubSeqProperties
    <3>3. (k - 1) - 1 + 1 = k - 1 /\ \A j \in 1 .. k - 1 : 1 + j - 1 = j
      BY <1>1
    <3>4. Len(u) = k - 1
      <4> HIDE DEF u
      <4> QED
        BY <1>1, <3>2
    <3> HIDE DEF u
    <3> QED
      BY <3>2, <3>3, <3>4
  <2>2. /\ v \in Seq(S) /\ Len(v) = Len(s) - k
        /\ \A j \in 1 .. Len(s) - k : v[j] = s[k + j]
    <3>1. k + 1 \in 1 .. Len(s) + 1 /\ Len(s) \in (k + 1) - 1 .. Len(s)
      BY <1>1
    <3>2. /\ v \in Seq(S)
          /\ Len(v) = IF k + 1 <= Len(s) THEN Len(s) - (k + 1) + 1 ELSE 0
          /\ \A j \in 1 .. Len(s) - (k + 1) + 1 : v[j] = s[(k + 1) + j - 1]
      BY <3>1, SubSeqProperties
    <3>3. Len(s) - (k + 1) + 1 = Len(s) - k
      BY <1>1
    <3> HIDE DEF v
    <3>4. \A j \in 1 .. Len(s) - k : (k + 1) + j - 1 = k + j
      BY <1>1
    <3>5. Len(v) = Len(s) - k
      BY <1>1, <3>2
    <3>6. \A j \in 1 .. Len(s) - k : v[j] = s[(k + 1) + j - 1]
      BY <3>2, <3>3
    <3> QED
      BY <3>2, <3>4, <3>5, <3>6
  <2> HIDE DEF u, v
  <2>6. PICK x : x = u \o v
    OBVIOUS
  <2>7. /\ x \in Seq(S) /\ Len(x) = Len(s) - 1
        /\ \A j \in 1 .. Len(s) - 1 : x[j] = IF j <= k - 1 THEN u[j] ELSE v[j - (k - 1)]
    <3>1. Len(u) + Len(v) = Len(s) - 1
      BY <1>1, <2>1, <2>2
    <3>2. /\ u \o v \in Seq(S)
          /\ Len(u \o v) = Len(u) + Len(v)
          /\ \A j \in 1 .. Len(u) + Len(v) :
               (u \o v)[j] = IF j <= Len(u) THEN u[j] ELSE v[j - Len(u)]
      BY <2>1, <2>2, ConcatProperties
    <3> QED
      BY <2>1, <2>2, <2>6, <3>1, <3>2
  <2>8. \A j \in 1 .. Len(s) - 1 : x[j] = Del(s, k)[j]
    <3> SUFFICES ASSUME NEW j \in 1 .. Len(s) - 1
                 PROVE  x[j] = Del(s, k)[j]
      OBVIOUS
    <3>1. CASE j < k
      BY <1>1, <1>2, <2>1, <2>7, <3>1
    <3>3. CASE j >= k
      <4>1. x[j] = v[j - (k - 1)] /\ j - (k - 1) \in 1 .. Len(s) - k
        BY <1>1, <2>7, <3>3
      <4>2. v[j - (k - 1)] = s[k + (j - (k - 1))] /\ k + (j - (k - 1)) = j + 1
        BY <1>1, <2>2, <4>1
      <4> QED
        BY <1>1, <1>2, <3>3, <4>1, <4>2
    <3> QED
      BY <1>1, <3>1, <3>3
  <2>9. x = Del(s, k)
    BY <1>3, <2>7, <2>8, SeqEqual
  <2> QED
    BY <2>6, <2>9 DEF RemoveAt, u, v
<1> QED
  BY <1>1, <1>2, <1>3, <1>4

\* All but the last of a list with one appended are the list.
LEMMA FrontIs ==
  ASSUME NEW S, NEW s \in Seq(S), NEW e \in S
  PROVE  /\ Front(Append(s, e)) = s /\ SubSeq(Append(s, e), 1, Len(s)) = s
         /\ Append(s, e) \in Seq(S) /\ Len(Append(s, e)) = Len(s) + 1
         /\ Append(s, e) # << >> /\ Len(s) \in Nat
<1>1. PICK t : t = Append(s, e)
  OBVIOUS
<1>2. /\ t \in Seq(S) /\ Len(t) = Len(s) + 1 /\ Len(s) \in Nat /\ t # << >>
      /\ \A j \in 1 .. Len(s) : t[j] = s[j]
  BY <1>1, AppendProperties, LenProperties
<1>3. PICK u : u = SubSeq(t, 1, Len(s))
  OBVIOUS
<1>4. /\ u \in Seq(S)
      /\ Len(u) = IF 1 <= Len(s) THEN Len(s) - 1 + 1 ELSE 0
      /\ \A j \in 1 .. Len(s) - 1 + 1 : u[j] = t[1 + j - 1]
  <2>1. 1 \in 1 .. Len(t) + 1 /\ Len(s) \in 1 - 1 .. Len(t)
    BY <1>2
  <2> QED
    BY <1>2, <1>3, <2>1, SubSeqProperties
<1>5. Len(u) = Len(s) /\ \A j \in 1 .. Len(s) : u[j] = s[j]
  BY <1>2, <1>4
<1>6. u = s
  BY <1>4, <1>5, SeqEqual
<1>7. Len(t) - 1 = Len(s)
  BY <1>2
<1> QED
  BY <1>1, <1>2, <1>3, <1>6, <1>7 DEF Front

-----------------------------------------------------------------------------
(* What keeps the lists, the paths and the data right                      *)

\* The lists of h, for the directories h2 has: a new one is empty.
ListIn(list, h, h2) == [d \in InfosOf(h2) |-> IF d \in InfosOf(h) THEN list[d] ELSE << >>]

\* A rewrite that leaves entries' names and links leaves every list.
LEMMA ListsKept ==
  ASSUME NEW h, NEW list, NEW way, NEW home, Shape(h, list, way, home), NEW h2,
         EntriesOf(h2) = EntriesOf(h),
         \A a \in EntriesOf(h) : h2[a].next = h[a].next /\ h2[a].name = h[a].name,
         \A d \in InfosOf(h2) \ InfosOf(h) : h2[d].array = Null,
         \A d \in InfosOf(h2) \cap InfosOf(h) : h2[d].array = h[d].array,
         \A d \in InfosOf(h) \ InfosOf(h2) : h[d].array = Null
  PROVE  ListsAreRight(h2, ListIn(list, h, h2), home)
<1> DEFINE list2 == ListIn(list, h, h2)
<1>1. \A d \in InfosOf(h2) : list2[d] = IF d \in InfosOf(h) THEN list[d] ELSE << >>
  BY DEF ListIn
<1>2. list2 \in [InfosOf(h2) -> Seq(EntriesOf(h2))]
  BY ListParts DEF ListIn
<1>3. home \in [EntriesOf(h2) -> InfosOf(h2)]
  <2>1. home \in [EntriesOf(h) -> InfosOf(h)]
    BY DEF Shape, ListsAreRight
  <2>2. ASSUME NEW a \in EntriesOf(h)
        PROVE  home[a] \in InfosOf(h2)
    <3>1. PICK d \in InfosOf(h) : d = home[a]
      BY EntryParts
    <3>2. PICK k \in 1 .. Len(list[d]) : list[d][k] = a
      BY <3>1, EntryParts
    <3>3. h[d].array = list[d][1] /\ list[d][1] \in EntriesOf(h)
      BY <3>2, ListParts
    <3>4. h[d].array # Null
      BY <3>3, EntryParts
    <3> QED
      BY <3>1, <3>4
  <2> QED
    BY <2>1, <2>2
<1>4. ASSUME NEW d \in InfosOf(h2)
      PROVE  /\ IsChain(h2, h2[d].array, list2[d])
             /\ \A k \in 1 .. Len(list2[d]) : home[list2[d][k]] = d
             /\ \A j, k \in 1 .. Len(list2[d]) :
                  j < k => h2[list2[d][j]].name < h2[list2[d][k]].name
  <2>1. CASE d \in InfosOf(h)
    <3>1. list2[d] = list[d] /\ h2[d].array = h[d].array
      BY <1>1, <2>1
    <3>2. IsChain(h, h[d].array, list[d])
      BY <2>1 DEF Shape, ListsAreRight
    <3>3. \A k \in 1 .. Len(list[d]) : list[d][k] \in EntriesOf(h) /\ home[list[d][k]] = d
      BY <2>1, ListParts
    <3>4. IsChain(h2, h2[d].array, list2[d])
      <4> HIDE DEF list2
      <4> QED
        BY <3>1, <3>2, <3>3 DEF IsChain
    <3>5. \A j, k \in 1 .. Len(list[d]) : j < k => h[list[d][j]].name < h[list[d][k]].name
      BY <2>1, ListParts
    <3> HIDE DEF list2
    <3> QED
      BY <3>1, <3>3, <3>4, <3>5
  <2>2. CASE d \notin InfosOf(h)
    <3>1. list2[d] = << >> /\ h2[d].array = Null
      BY <1>1, <2>2
    <3> HIDE DEF list2
    <3> QED
      BY <3>1 DEF IsChain
  <2> QED
    BY <2>1, <2>2
<1>5. \A a \in EntriesOf(h2) : \E k \in 1 .. Len(list2[home[a]]) : list2[home[a]][k] = a
  <2> TAKE a \in EntriesOf(h2)
  <2>1. home[a] \in InfosOf(h) /\ home[a] \in InfosOf(h2)
    BY <1>3, EntryParts
  <2>2. list2[home[a]] = list[home[a]]
    BY <1>1, <2>1
  <2> HIDE DEF list2
  <2> QED
    BY <2>2, EntryParts
<1> HIDE DEF list2
<1>6. ListsAreRight(h2, list2, home)
  BY <1>2, <1>3, <1>4, <1>5 DEF ListsAreRight
<1> QED
  BY <1>6 DEF list2

\* The directories are the same, and so are the entries that lead to them.
LEMMA WaysSame ==
  ASSUME NEW h, NEW list, NEW way, NEW home, Shape(h, list, way, home), NEW h2, NEW home2,
         InfosOf(h2) = InfosOf(h),
         \A d \in InfosOf(h) : h2[d].parent = h[d].parent,
         \A a \in EntriesOf(h2) : h2[a].child # Null =>
           /\ a \in EntriesOf(h)
           /\ h2[a].child = h[a].child /\ h2[a].name = h[a].name /\ home2[a] = home[a],
         \A a \in EntriesOf(h) : h[a].child # Null =>
           a \in EntriesOf(h2) /\ h2[a].child = h[a].child
  PROVE  WaysAreRight(h2, way, home2)
<1>1. WaysAreRight(h, way, home)
  BY DEF Shape
<1>2. \A a \in EntriesOf(h2) : h2[a].child # Null =>
       /\ h2[a].child \in InfosOf(h2) \ {RootInfo}
       /\ h2[h2[a].child].parent = home2[a]
       /\ way[h2[a].child] = Append(way[home2[a]], h2[a].name)
  <2> TAKE a \in EntriesOf(h2)
  <2> HAVE h2[a].child # Null
  <2>1. /\ a \in EntriesOf(h)
        /\ h2[a].child = h[a].child /\ h2[a].name = h[a].name /\ home2[a] = home[a]
    OBVIOUS
  <2>2. /\ h[a].child \in InfosOf(h) \ {RootInfo}
        /\ h[h[a].child].parent = home[a]
        /\ way[h[a].child] = Append(way[home[a]], h[a].name)
    BY <1>1, <2>1 DEF WaysAreRight
  <2> QED
    BY <2>1, <2>2
<1>3. \A d \in InfosOf(h2) \ {RootInfo} : \E a \in EntriesOf(h2) : h2[a].child = d
  <2> TAKE d \in InfosOf(h2) \ {RootInfo}
  <2>1. PICK a \in EntriesOf(h) : h[a].child = d
    BY <1>1 DEF WaysAreRight
  <2>2. d # Null
    BY NodeKinds DEF Shape, InfosOf
  <2> QED
    BY <2>1, <2>2
<1> QED
  BY <1>1, <1>2, <1>3 DEF WaysAreRight

\* The paths when the entry a has got the directory c, and when one is gone.
WayWith(h, way, home, h2, a, c) ==
  [d \in InfosOf(h2) |-> IF d = c THEN PathOf(h, way, home, a) ELSE way[d]]
WayIn(way, h2) == [d \in InfosOf(h2) |-> way[d]]

\* A directory is made below the entry a.
LEMMA WaysMore ==
  ASSUME NEW h, NEW list, NEW way, NEW home, Shape(h, list, way, home), NEW h2,
         NEW a \in EntriesOf(h), NEW c, c \notin InfosOf(h), c # Null, c # RootInfo,
         h[a].child = Null, Len(way[home[a]]) < MaxDepth - 1,
         InfosOf(h2) = InfosOf(h) \cup {c}, EntriesOf(h2) = EntriesOf(h),
         \A d \in InfosOf(h) : h2[d].parent = h[d].parent,
         h2[c].parent = home[a], h2[a].child = c,
         \A b \in EntriesOf(h) : h2[b].name = h[b].name,
         \A b \in EntriesOf(h) \ {a} : h2[b].child = h[b].child,
         NEW way2, way2 = WayWith(h, way, home, h2, a, c)
  PROVE  WaysAreRight(h2, way2, home)
<1>1. WaysAreRight(h, way, home) /\ RootInfo \in InfosOf(h) /\ MaxDepth \in Nat
      /\ \A b \in EntriesOf(h) : home[b] \in InfosOf(h)
  BY DepthIsNumber, EntryParts DEF Shape, IsHeap
<1>2. /\ way2[c] = PathOf(h, way, home, a)
      /\ \A d \in InfosOf(h) : way2[d] = way[d]
  BY DEF WayWith
<1>3. /\ PathOf(h, way, home, a) \in Seq(Name)
      /\ Len(PathOf(h, way, home, a)) < MaxDepth
      /\ PathOf(h, way, home, a) # << >>
  BY <1>1, PathParts
<1>4. way2 \in [InfosOf(h2) -> Seq(Name)]
  BY <1>1, <1>3 DEF WaysAreRight, WayWith
<1>5. \A d \in InfosOf(h) : way[d] # PathOf(h, way, home, a)
  <2> SUFFICES ASSUME NEW d \in InfosOf(h), way[d] = PathOf(h, way, home, a)
               PROVE  FALSE
    OBVIOUS
  <2>1. d # RootInfo
    BY <1>1, <1>3 DEF WaysAreRight
  <2>2. PICK b \in EntriesOf(h) : h[b].child = d
    BY <1>1, <2>1 DEF WaysAreRight
  <2>3. d # Null
    BY NodeKinds DEF Shape, InfosOf
  <2>4. PathOf(h, way, home, b) = PathOf(h, way, home, a)
    BY <2>2, <2>3, PathParts
  <2> QED
    BY <2>2, <2>3, <2>4, PathParts
<1>6. \A b, d \in InfosOf(h2) : way2[b] = way2[d] => b = d
  <2>1. \A b, d \in InfosOf(h) : way[b] = way[d] => b = d
    BY <1>1 DEF WaysAreRight
  <2> QED
    BY <1>2, <1>5, <2>1
<1>7. ASSUME NEW b \in EntriesOf(h2), h2[b].child # Null
      PROVE  /\ h2[b].child \in InfosOf(h2) \ {RootInfo}
             /\ h2[h2[b].child].parent = home[b]
             /\ way2[h2[b].child] = Append(way2[home[b]], h2[b].name)
  <2>1. CASE b = a
    BY <1>1, <1>2, <2>1 DEF PathOf
  <2>2. CASE b # a
    <3>1. b \in EntriesOf(h) /\ h2[b].child = h[b].child
      BY <2>2
    <3>2. h[b].child # Null
      BY <1>7, <3>1
    <3>3. /\ h[b].child \in InfosOf(h) \ {RootInfo}
          /\ h[h[b].child].parent = home[b]
          /\ way[h[b].child] = Append(way[home[b]], h[b].name)
      BY <1>1, <3>1, <3>2 DEF WaysAreRight
    <3> QED
      BY <1>1, <1>2, <3>1, <3>3
  <2> QED
    BY <2>1, <2>2
<1>8. \A d \in InfosOf(h2) \ {RootInfo} : \E b \in EntriesOf(h2) : h2[b].child = d
  <2> TAKE d \in InfosOf(h2) \ {RootInfo}
  <2>1. CASE d = c
    BY <2>1
  <2>2. CASE d # c
    <3>1. PICK b \in EntriesOf(h) : h[b].child = d
      BY <1>1, <2>2 DEF WaysAreRight
    <3>2. d # Null
      BY <2>2, NodeKinds DEF Shape, InfosOf
    <3> QED
      BY <3>1, <3>2
  <2> QED
    BY <2>1, <2>2
<1>9. way2[RootInfo] = << >> /\ \A d \in InfosOf(h2) : Len(way2[d]) < MaxDepth
  BY <1>1, <1>2, <1>3 DEF WaysAreRight
<1>10. WaysAreRight(h2, way2, home)
  BY <1>4, <1>6, <1>7, <1>8, <1>9 DEF WaysAreRight
<1> QED
  BY <1>10

\* The empty directory below the entry a goes.
LEMMA WaysLess ==
  ASSUME NEW h, NEW list, NEW way, NEW home, Shape(h, list, way, home), NEW h2,
         NEW a \in EntriesOf(h), NEW c \in InfosOf(h), h[a].child = c, h[c].array = Null,
         InfosOf(h2) = InfosOf(h) \ {c}, EntriesOf(h2) = EntriesOf(h),
         \A d \in InfosOf(h2) : h2[d].parent = h[d].parent,
         h2[a].child = Null,
         \A b \in EntriesOf(h) : h2[b].name = h[b].name,
         \A b \in EntriesOf(h) \ {a} : h2[b].child = h[b].child,
         NEW way2, way2 = WayIn(way, h2)
  PROVE  /\ WaysAreRight(h2, way2, home)
         /\ \A b \in EntriesOf(h) : home[b] # c
         /\ c # Null
<1>1. WaysAreRight(h, way, home) /\ RootInfo \in InfosOf(h)
      /\ \A b \in EntriesOf(h) : home[b] \in InfosOf(h)
  BY EntryParts DEF Shape, IsHeap
<1>2. c # Null
  BY NodeKinds DEF Shape, InfosOf
<1>3. c # RootInfo
  BY <1>1, <1>2 DEF WaysAreRight
<1>4. ASSUME NEW b \in EntriesOf(h)
      PROVE  home[b] # c
  <2> SUFFICES ASSUME home[b] = c
               PROVE  FALSE
    OBVIOUS
  <2>1. PICK k \in 1 .. Len(list[c]) : list[c][k] = b
    BY EntryParts
  <2>2. h[c].array = list[c][1] /\ list[c][1] \in EntriesOf(h)
    BY <2>1, ListParts
  <2> QED
    BY <2>2, EntryParts
<1>5. ASSUME NEW b \in EntriesOf(h), h[b].child = c
      PROVE  b = a
  BY <1>2, <1>5, PathParts
<1>6. \A d \in InfosOf(h2) : way2[d] = way[d]
  BY DEF WayIn
<1>7. way2 \in [InfosOf(h2) -> Seq(Name)]
  BY <1>1 DEF WaysAreRight, WayIn
<1>8. ASSUME NEW b \in EntriesOf(h2), h2[b].child # Null
      PROVE  /\ h2[b].child \in InfosOf(h2) \ {RootInfo}
             /\ h2[h2[b].child].parent = home[b]
             /\ way2[h2[b].child] = Append(way2[home[b]], h2[b].name)
  <2>1. b # a /\ b \in EntriesOf(h)
    BY <1>8
  <2>2. h2[b].child = h[b].child /\ h[b].child # Null
    BY <1>8, <2>1
  <2>3. /\ h[b].child \in InfosOf(h) \ {RootInfo}
        /\ h[h[b].child].parent = home[b]
        /\ way[h[b].child] = Append(way[home[b]], h[b].name)
    BY <1>1, <2>1, <2>2 DEF WaysAreRight
  <2>4. h[b].child \in InfosOf(h2) /\ home[b] \in InfosOf(h2)
    BY <1>1, <1>4, <1>5, <2>1, <2>3
  <2> QED
    BY <1>6, <2>1, <2>2, <2>3, <2>4
<1>9. \A d \in InfosOf(h2) \ {RootInfo} : \E b \in EntriesOf(h2) : h2[b].child = d
  <2> TAKE d \in InfosOf(h2) \ {RootInfo}
  <2>1. PICK b \in EntriesOf(h) : h[b].child = d
    BY <1>1 DEF WaysAreRight
  <2>2. b # a
    BY <2>1
  <2> QED
    BY <2>1, <2>2
<1>10. /\ way2[RootInfo] = << >>
       /\ \A d \in InfosOf(h2) : Len(way2[d]) < MaxDepth
       /\ \A b, d \in InfosOf(h2) : way2[b] = way2[d] => b = d
  BY <1>1, <1>3, <1>6 DEF WaysAreRight
<1>11. WaysAreRight(h2, way2, home)
  BY <1>7, <1>8, <1>9, <1>10 DEF WaysAreRight
<1> QED
  BY <1>2, <1>4, <1>11

\* The data are the same, and so are the entries that have them.
LEMMA DatasSame ==
  ASSUME NEW h, DatasAreRight(h), NEW h2, DatasOf(h2) = DatasOf(h),
         \A b \in DatasOf(h) : b # Null,
         \A a \in EntriesOf(h2) : h2[a].data # Null =>
           a \in EntriesOf(h) /\ h2[a].data = h[a].data,
         \A a \in EntriesOf(h) : h[a].data # Null =>
           a \in EntriesOf(h2) /\ h2[a].data = h[a].data
  PROVE  DatasAreRight(h2)
<1>1. \A a \in EntriesOf(h2) : h2[a].data # Null => h2[a].data \in DatasOf(h2)
  BY DEF DatasAreRight
<1>2. \A b \in DatasOf(h2) : \E a \in EntriesOf(h2) : h2[a].data = b
  <2> TAKE b \in DatasOf(h2)
  <2>1. PICK a \in EntriesOf(h) : h[a].data = b
    BY DEF DatasAreRight
  <2>2. h[a].data # Null
    BY <2>1
  <2> QED
    BY <2>1, <2>2
<1>3. \A a, b \in EntriesOf(h2) : h2[a].data = h2[b].data /\ h2[a].data # Null => a = b
  BY DEF DatasAreRight
<1> QED
  BY <1>1, <1>2, <1>3 DEF DatasAreRight

\* The data of the entry a becomes the item b, or none.
LEMMA DatasChanged ==
  ASSUME NEW h, DatasAreRight(h), NEW h2, NEW a \in EntriesOf(h), NEW b,
         EntriesOf(h2) = EntriesOf(h), h2[a].data = b,
         \A c \in EntriesOf(h) \ {a} : h2[c].data = h[c].data,
         \A c \in DatasOf(h) : c # Null,
         b \notin DatasOf(h) \ {h[a].data},
         DatasOf(h2) = (DatasOf(h) \ {h[a].data}) \cup ({b} \ {Null})
  PROVE  DatasAreRight(h2)
<1>1. ASSUME NEW c \in EntriesOf(h2), h2[c].data # Null
      PROVE  h2[c].data \in DatasOf(h2)
  <2>1. CASE c = a
    BY <1>1, <2>1
  <2>2. CASE c # a
    BY <1>1, <2>2 DEF DatasAreRight
  <2> QED
    BY <2>1, <2>2
<1>2. \A d \in DatasOf(h2) : \E c \in EntriesOf(h2) : h2[c].data = d
  <2> TAKE d \in DatasOf(h2)
  <2>1. CASE d = b
    BY <2>1
  <2>2. CASE d # b
    <3>1. d \in DatasOf(h) /\ d # h[a].data
      BY <2>2
    <3>2. PICK c \in EntriesOf(h) : h[c].data = d
      BY <3>1 DEF DatasAreRight
    <3> QED
      BY <3>1, <3>2
  <2> QED
    BY <2>1, <2>2
<1>3. ASSUME NEW c \in EntriesOf(h2), NEW d \in EntriesOf(h2),
             h2[c].data = h2[d].data, h2[c].data # Null
      PROVE  c = d
  <2>1. \A e \in EntriesOf(h) \ {a} : h2[e].data # Null => h2[e].data # b
    BY DEF DatasAreRight
  <2> QED
    BY <1>3, <2>1 DEF DatasAreRight
<1> QED
  BY <1>1, <1>2, <1>3 DEF DatasAreRight

\* An entry is in its list once.
LEMMA ListOnce ==
  ASSUME NEW h, NEW list, NEW way, NEW home, Shape(h, list, way, home),
         NEW d \in InfosOf(h), NEW j \in 1 .. Len(list[d]), NEW k \in 1 .. Len(list[d]),
         list[d][j] = list[d][k]
  PROVE  j = k
<1>1. list[d][j] \in EntriesOf(h) /\ j \in Nat /\ k \in Nat
  BY ListParts
<1>2. h[list[d][j]].name \in Nat
  BY <1>1, EntryParts
<1>3. ~(j < k) /\ ~(k < j)
  BY <1>2, ListParts
<1> QED
  BY <1>1, <1>3

\* The lists when that of directory d is t, and where the entries are when a
\* has come to d, or gone.
ListWith(list, h2, d, t) == [c \in InfosOf(h2) |-> IF c = d THEN t ELSE list[c]]
HomeWith(home, h2, a, d) == [b \in EntriesOf(h2) |-> IF b = a THEN d ELSE home[b]]
HomeIn(home, h2)         == [b \in EntriesOf(h2) |-> home[b]]

\* The entry a is linked in as the k-th of directory d.
LEMMA ListsMore ==
  ASSUME NEW h, NEW list, NEW way, NEW home, Shape(h, list, way, home), NEW h2,
         NEW d \in InfosOf(h), NEW k \in 1 .. Len(list[d]) + 1, NEW a, a \notin EntriesOf(h),
         InfosOf(h2) = InfosOf(h), EntriesOf(h2) = EntriesOf(h) \cup {a},
         \A b \in EntriesOf(h) : h2[b].name = h[b].name,
         \A b \in EntriesOf(h) :
           h2[b].next = IF k > 1 /\ b = list[d][k - 1] THEN a ELSE h[b].next,
         \A c \in InfosOf(h) : h2[c].array = IF c = d /\ k = 1 THEN a ELSE h[c].array,
         h2[a].next = IF k <= Len(list[d]) THEN list[d][k] ELSE Null,
         h2[a].name \in Nat,
         \A j \in 1 .. k - 1 : h[list[d][j]].name < h2[a].name,
         k <= Len(list[d]) => h2[a].name < h[list[d][k]].name,
         NEW list2, list2 = ListWith(list, h2, d, Ins(list[d], k, a)),
         NEW home2, home2 = HomeWith(home, h2, a, d)
  PROVE  ListsAreRight(h2, list2, home2)
<1>1. PICK s, n : s = list[d] /\ n = Len(s)
  OBVIOUS
<1>2. /\ s \in Seq(EntriesOf(h)) /\ n \in Nat /\ k \in 1 .. n + 1
      /\ h[d].array = IF n = 0 THEN Null ELSE s[1]
      /\ \A j \in 1 .. n : /\ s[j] \in EntriesOf(h) /\ home[s[j]] = d
                           /\ h[s[j]].next = IF j = n THEN Null ELSE s[j + 1]
                           /\ h[s[j]].name \in Nat
      /\ \A i, j \in 1 .. n : i < j => h[s[i]].name < h[s[j]].name
      /\ \A i, j \in 1 .. n : s[i] = s[j] => i = j
  BY <1>1, ListParts, ListOnce, EntryParts
<1>3. PICK t : t = Ins(s, k, a)
  OBVIOUS
<1>4. /\ t \in Seq(EntriesOf(h2)) /\ Len(t) = n + 1
      /\ \A j \in 1 .. n + 1 : t[j] = IF j < k THEN s[j] ELSE IF j = k THEN a ELSE s[j - 1]
  <2>1. s \in Seq(EntriesOf(h2)) /\ a \in EntriesOf(h2)
    BY <1>2, SeqMonotonic
  <2>2. k \in 1 .. Len(s) + 1
    BY <1>1, <1>2
  <2>3. /\ Ins(s, k, a) \in Seq(EntriesOf(h2)) /\ Len(Ins(s, k, a)) = Len(s) + 1
        /\ \A j \in 1 .. Len(s) + 1 :
             Ins(s, k, a)[j] = IF j < k THEN s[j] ELSE IF j = k THEN a ELSE s[j - 1]
    <3>1. PICK E : E = EntriesOf(h2)
      OBVIOUS
    <3>2. s \in Seq(E) /\ a \in E
      BY <2>1, <3>1
    <3>3. /\ Ins(s, k, a) \in Seq(E) /\ Len(Ins(s, k, a)) = Len(s) + 1
          /\ \A j \in 1 .. Len(s) + 1 :
               Ins(s, k, a)[j] = IF j < k THEN s[j] ELSE IF j = k THEN a ELSE s[j - 1]
      <4>0. \A x \in Seq(E) : \A i \in 1 .. Len(x) + 1 : \A e \in E :
              Ins(x, i, e) \in Seq(E) /\ Len(Ins(x, i, e)) = Len(x) + 1
        BY ONLY InsertedList
      <4>1. Ins(s, k, a) \in Seq(E) /\ Len(Ins(s, k, a)) = Len(s) + 1
        BY ONLY <2>2, <3>2, <4>0
      <4> QED
        BY <4>1 DEF Ins
    <3> QED
      BY <3>1, <3>3
  <2> QED
    BY <1>1, <1>3, <2>3
<1>5. list2[d] = t /\ \A c \in InfosOf(h) \ {d} : list2[c] = list[c]
  BY <1>1, <1>3 DEF ListWith
<1>6. home2[a] = d /\ \A b \in EntriesOf(h) : home2[b] = home[b]
  BY DEF HomeWith
<1>7. list2 \in [InfosOf(h2) -> Seq(EntriesOf(h2))]
  <2>1. \A c \in InfosOf(h) : list[c] \in Seq(EntriesOf(h2))
    <3>1. \A c \in InfosOf(h) : list[c] \in Seq(EntriesOf(h))
      BY ListParts
    <3>2. Seq(EntriesOf(h)) \subseteq Seq(EntriesOf(h2))
      BY SeqMonotonic
    <3> QED
      BY <3>1, <3>2
  <2> QED
    BY <1>1, <1>3, <1>4, <2>1 DEF ListWith
<1>8. home2 \in [EntriesOf(h2) -> InfosOf(h2)]
  BY EntryParts DEF HomeWith
<1>9. /\ IsChain(h2, h2[d].array, t)
      /\ \A j \in 1 .. n + 1 : home2[t[j]] = d
      /\ \A i, j \in 1 .. n + 1 : i < j => h2[t[i]].name < h2[t[j]].name
  <2>1. h2[d].array = t[1] /\ t # << >>
    <3>1. t # << >>
      BY <1>2, <1>4
    <3>2. CASE k = 1
      BY <1>2, <1>4, <3>1, <3>2
    <3>3. CASE k # 1
      <4>1. 1 < k /\ n # 0 /\ 1 \in 1 .. n + 1
        BY <1>2, <3>3
      <4> QED
        BY <1>2, <1>4, <3>1, <3>3, <4>1
    <3> QED
      BY <3>2, <3>3
  <2>2. ASSUME NEW j \in 1 .. n + 1
        PROVE  h2[t[j]].next = IF j = n + 1 THEN Null ELSE t[j + 1]
    <3>1. CASE j < k - 1
      <4>1. t[j] = s[j] /\ t[j + 1] = s[j + 1] /\ j \in 1 .. n /\ j # n /\ j # n + 1
        BY <1>2, <1>4, <3>1
      <4>2. k > 1 => k - 1 \in 1 .. n /\ j # k - 1
        BY <1>2, <3>1
      <4>3. h2[s[j]].next = h[s[j]].next
        BY <1>1, <1>2, <4>1, <4>2
      <4> QED
        BY <1>2, <4>1, <4>3
    <3>2. CASE j = k - 1
      <4>1. t[j] = s[k - 1] /\ t[j + 1] = a /\ k > 1 /\ j # n + 1 /\ k - 1 \in 1 .. n
        BY <1>2, <1>4, <3>2
      <4> QED
        BY <1>1, <1>2, <4>1
    <3>3. CASE j = k
      <4>1. t[j] = a /\ (k <= n => t[k + 1] = s[k])
        BY <1>2, <1>4, <3>3
      <4> QED
        BY <1>1, <1>2, <3>3, <4>1
    <3>4. CASE j > k
      <4>1. /\ t[j] = s[j - 1] /\ j - 1 \in 1 .. n
            /\ j # n + 1 => t[j + 1] = s[j]
        BY <1>2, <1>4, <3>4, SMTT(30)
      <4>2. k > 1 => k - 1 \in 1 .. n /\ j - 1 # k - 1
        BY <1>2, <3>4
      <4>3. h2[s[j - 1]].next = h[s[j - 1]].next
        BY <1>1, <1>2, <4>1, <4>2
      <4>4. h[s[j - 1]].next = IF j - 1 = n THEN Null ELSE s[(j - 1) + 1]
        BY <1>2, <4>1
      <4>5. (j - 1 = n <=> j = n + 1) /\ (j - 1) + 1 = j
        BY <1>2
      <4> QED
        BY <4>1, <4>3, <4>4, <4>5
    <3> QED
      BY <1>2, <3>1, <3>2, <3>3, <3>4
  <2>3. ASSUME NEW j \in 1 .. n + 1
        PROVE  home2[t[j]] = d
    <3>1. t[j] = a \/ \E p \in 1 .. n : t[j] = s[p]
      <4>1. j < k => j \in 1 .. n
        BY <1>2
      <4>2. j > k => j - 1 \in 1 .. n
        BY <1>2
      <4>3. j < k \/ j = k \/ j > k
        BY <1>2
      <4> QED
        BY <1>4, <4>1, <4>2, <4>3
    <3> QED
      BY ONLY <1>2, <1>6, <3>1
  <2>4. ASSUME NEW i \in 1 .. n + 1, NEW j \in 1 .. n + 1, i < j
        PROVE  h2[t[i]].name < h2[t[j]].name
    <3>1. \A m \in 1 .. n : h2[s[m]].name = h[s[m]].name
      BY <1>2
    <3>2. CASE j < k
      <4>1. t[i] = s[i] /\ t[j] = s[j] /\ i \in 1 .. n /\ j \in 1 .. n
        BY <1>2, <1>4, <2>4, <3>2
      <4> QED
        BY <1>2, <2>4, <3>1, <4>1
    <3>3. CASE j = k
      <4>1. t[i] = s[i] /\ t[j] = a /\ i \in 1 .. n /\ i \in 1 .. k - 1
        BY <1>2, <1>4, <2>4, <3>3
      <4> QED
        BY <1>1, <1>2, <3>1, <4>1
    <3>4. CASE j > k
      <4>1. t[j] = s[j - 1] /\ j - 1 \in 1 .. n
        BY <1>2, <1>4, <3>4
      <4>2. CASE i < k
        <5>1. t[i] = s[i] /\ i \in 1 .. n
          BY <1>2, <1>4, <3>4, <4>2
        <5>2. i < j - 1
          BY <1>2, <3>4, <4>2
        <5> QED
          BY <1>2, <3>1, <4>1, <5>1, <5>2
      <4>3. CASE i = k
        <5>1. t[i] = a /\ k <= n /\ k \in 1 .. n /\ k <= j - 1
          BY <1>2, <1>4, <3>4, <4>3
        <5>2. h2[a].name < h[s[k]].name /\ h2[a].name \in Nat
          BY <1>1, <5>1
        <5>3. CASE k = j - 1
          BY <3>1, <4>1, <5>1, <5>2, <5>3
        <5>4. CASE k # j - 1
          <6>1. h[s[k]].name < h[s[j - 1]].name
            BY <1>2, <4>1, <5>1, <5>4
          <6>2. h[s[k]].name \in Nat /\ h[s[j - 1]].name \in Nat
            BY <1>2, <4>1, <5>1
          <6> QED
            BY <3>1, <4>1, <5>1, <5>2, <6>1, <6>2
        <5> QED
          BY <5>3, <5>4
      <4>4. CASE i > k
        <5>1. t[i] = s[i - 1] /\ i - 1 \in 1 .. n /\ i - 1 < j - 1
          BY <1>2, <1>4, <2>4, <3>4, <4>4
        <5> QED
          BY <1>2, <3>1, <4>1, <5>1
      <4> QED
        BY <1>2, <4>2, <4>3, <4>4
    <3> QED
      BY <1>2, <3>2, <3>3, <3>4
  <2> QED
    BY <1>4, <2>1, <2>2, <2>3, <2>4 DEF IsChain
<1>10. ASSUME NEW c \in InfosOf(h2)
       PROVE  /\ IsChain(h2, h2[c].array, list2[c])
              /\ \A j \in 1 .. Len(list2[c]) : home2[list2[c][j]] = c
              /\ \A i, j \in 1 .. Len(list2[c]) :
                   i < j => h2[list2[c][i]].name < h2[list2[c][j]].name
  <2>1. CASE c = d
    BY <1>4, <1>5, <1>9, <2>1
  <2>2. CASE c # d
    <3>1. list2[c] = list[c] /\ h2[c].array = h[c].array /\ c \in InfosOf(h)
      BY <1>5, <2>2
    <3>2. IsChain(h, h[c].array, list[c])
      BY <3>1 DEF Shape, ListsAreRight
    <3>3. \A j \in 1 .. Len(list[c]) :
            /\ list[c][j] \in EntriesOf(h) /\ home[list[c][j]] = c
            /\ h2[list[c][j]].next = h[list[c][j]].next
            /\ h2[list[c][j]].name = h[list[c][j]].name
            /\ home2[list[c][j]] = c
      <4> TAKE j \in 1 .. Len(list[c])
      <4>1. list[c][j] \in EntriesOf(h) /\ home[list[c][j]] = c
        BY <3>1, ListParts
      <4>2. k > 1 => list[c][j] # list[d][k - 1]
        <5>1. k > 1 => k - 1 \in 1 .. n
          BY <1>2
        <5> QED
          BY <1>1, <1>2, <2>2, <4>1, <5>1
      <4> QED
        BY <1>6, <4>1, <4>2
    <3>4. \A i, j \in 1 .. Len(list[c]) : i < j => h[list[c][i]].name < h[list[c][j]].name
      BY <3>1, ListParts
    <3>5. list[c] \in Seq(EntriesOf(h2))
      BY <1>7, <3>1
    <3>6. IsChain(h2, h2[c].array, list[c])
      BY <3>1, <3>2, <3>3, <3>5 DEF IsChain
    <3> QED
      BY <3>1, <3>3, <3>4, <3>6
  <2> QED
    BY <2>1, <2>2
<1>11. \A b \in EntriesOf(h2) : \E j \in 1 .. Len(list2[home2[b]]) : list2[home2[b]][j] = b
  <2> TAKE b \in EntriesOf(h2)
  <2>1. CASE b = a
    <3>1. t[k] = a /\ k \in 1 .. Len(t)
      BY <1>2, <1>4
    <3> QED
      BY <1>5, <1>6, <2>1, <3>1
  <2>2. CASE b # a
    <3>1. b \in EntriesOf(h) /\ home2[b] = home[b] /\ home[b] \in InfosOf(h)
      BY <1>6, <2>2, EntryParts
    <3>2. CASE home[b] = d
      <4>1. PICK j \in 1 .. n : s[j] = b
        BY <1>1, <3>1, <3>2, EntryParts
      <4>2. CASE j < k
        <5>1. t[j] = b /\ j \in 1 .. Len(t)
          BY <1>2, <1>4, <4>1, <4>2
        <5> QED
          BY <1>5, <3>1, <3>2, <5>1
      <4>3. CASE j >= k
        <5>1. j + 1 \in 1 .. n + 1 /\ j + 1 > k /\ (j + 1) - 1 = j
          BY <1>2, <4>3
        <5>2. t[j + 1] = s[(j + 1) - 1]
          BY <1>2, <1>4, <5>1
        <5>3. t[j + 1] = b /\ j + 1 \in 1 .. Len(t)
          BY <1>4, <4>1, <5>1, <5>2
        <5> QED
          BY <1>5, <3>1, <3>2, <5>3
      <4> QED
        BY <1>2, <4>2, <4>3
    <3>3. CASE home[b] # d
      <4>1. list2[home2[b]] = list[home[b]]
        BY <1>5, <3>1, <3>3
      <4>2. \E j \in 1 .. Len(list[home[b]]) : list[home[b]][j] = b
        BY <3>1, EntryParts
      <4> QED
        BY <4>1, <4>2
    <3> QED
      BY <3>2, <3>3
  <2> QED
    BY <2>1, <2>2
<1>12. ListsAreRight(h2, list2, home2)
  BY <1>7, <1>8, <1>10, <1>11 DEF ListsAreRight
<1> QED
  BY <1>12

\* The k-th entry of directory d is unlinked.
LEMMA ListsLess ==
  ASSUME NEW h, NEW list, NEW way, NEW home, Shape(h, list, way, home), NEW h2,
         NEW d \in InfosOf(h), NEW k \in 1 .. Len(list[d]),
         InfosOf(h2) = InfosOf(h), EntriesOf(h2) = EntriesOf(h) \ {list[d][k]},
         \A b \in EntriesOf(h2) : h2[b].name = h[b].name,
         \A b \in EntriesOf(h2) :
           h2[b].next = IF k > 1 /\ b = list[d][k - 1] THEN h[list[d][k]].next ELSE h[b].next,
         \A c \in InfosOf(h) :
           h2[c].array = IF c = d /\ k = 1 THEN h[list[d][k]].next ELSE h[c].array,
         NEW list2, list2 = ListWith(list, h2, d, Del(list[d], k)),
         NEW home2, home2 = HomeIn(home, h2)
  PROVE  ListsAreRight(h2, list2, home2)
<1>1. PICK s, n : s = list[d] /\ n = Len(s)
  OBVIOUS
<1>2. /\ s \in Seq(EntriesOf(h)) /\ n \in Nat \ {0} /\ k \in 1 .. n
      /\ h[d].array = s[1]
      /\ \A j \in 1 .. n : /\ s[j] \in EntriesOf(h) /\ home[s[j]] = d
                           /\ h[s[j]].next = IF j = n THEN Null ELSE s[j + 1]
      /\ \A i, j \in 1 .. n : i < j => h[s[i]].name < h[s[j]].name
      /\ \A i, j \in 1 .. n : s[i] = s[j] => i = j
  <2>1. n \in Nat \ {0}
    BY <1>1, ListParts
  <2> QED
    BY <1>1, <2>1, ListParts, ListOnce, SMTT(30)
<1>3. PICK t : t = Del(s, k)
  OBVIOUS
<1>4. /\ t \in Seq(EntriesOf(h)) /\ Len(t) = n - 1
      /\ \A j \in 1 .. n - 1 : t[j] = IF j < k THEN s[j] ELSE s[j + 1]
  <2>1. k \in 1 .. Len(s)
    BY <1>1, <1>2
  <2>2. /\ Del(s, k) \in Seq(EntriesOf(h)) /\ Len(Del(s, k)) = Len(s) - 1
        /\ \A j \in 1 .. Len(s) - 1 : Del(s, k)[j] = IF j < k THEN s[j] ELSE s[j + 1]
    BY <1>2, <2>1, RemovedList
  <2> QED
    BY <1>1, <1>3, <2>2
<1>5. \A j \in 1 .. n - 1 : t[j] \in EntriesOf(h2)
  <2> TAKE j \in 1 .. n - 1
  <2>1. CASE j < k
    BY <1>1, <1>2, <1>4, <2>1
  <2>2. CASE j >= k
    <3>1. t[j] = s[j + 1] /\ j + 1 \in 1 .. n /\ j + 1 # k
      BY <1>2, <1>4, <2>2
    <3> QED
      BY <1>1, <1>2, <3>1
  <2> QED
    BY <1>2, <2>1, <2>2
<1>6. t \in Seq(EntriesOf(h2))
  <2>1. t \in [1 .. n - 1 -> EntriesOf(h2)] /\ n - 1 \in Nat
    BY <1>2, <1>4, <1>5, LenProperties
  <2> QED
    BY <2>1, SeqDef
<1>7. list2[d] = t /\ \A c \in InfosOf(h) \ {d} : list2[c] = list[c]
  BY <1>1, <1>3 DEF ListWith
<1>8. \A b \in EntriesOf(h2) : home2[b] = home[b]
  BY DEF HomeIn
<1>9. ASSUME NEW c \in InfosOf(h) \ {d}
      PROVE  /\ \A j \in 1 .. Len(list[c]) :
                  /\ list[c][j] \in EntriesOf(h2) /\ home[list[c][j]] = c
                  /\ h2[list[c][j]].next = h[list[c][j]].next
                  /\ h2[list[c][j]].name = h[list[c][j]].name
                  /\ home2[list[c][j]] = c
             /\ list[c] \in Seq(EntriesOf(h2))
  <2>1. ASSUME NEW j \in 1 .. Len(list[c])
        PROVE  /\ list[c][j] \in EntriesOf(h2) /\ home[list[c][j]] = c
               /\ h2[list[c][j]].next = h[list[c][j]].next
               /\ h2[list[c][j]].name = h[list[c][j]].name
               /\ home2[list[c][j]] = c
    <3>1. list[c][j] \in EntriesOf(h) /\ home[list[c][j]] = c
      BY ListParts
    <3>2. \A i \in 1 .. n : list[c][j] # s[i]
      BY <1>2, <3>1
    <3>3. list[c][j] \in EntriesOf(h2)
      BY <1>1, <1>2, <3>1, <3>2
    <3>4. k > 1 => k - 1 \in 1 .. n
      BY <1>2
    <3> QED
      BY <1>1, <1>8, <3>1, <3>2, <3>3, <3>4
  <2>2. list[c] \in [1 .. Len(list[c]) -> EntriesOf(h2)] /\ Len(list[c]) \in Nat
    <3>1. list[c] \in Seq(EntriesOf(h)) /\ Len(list[c]) \in Nat
      BY ListParts
    <3>2. list[c] \in [1 .. Len(list[c]) -> EntriesOf(h)]
      BY <3>1, LenProperties
    <3> QED
      BY <2>1, <3>1, <3>2
  <2>3. list[c] \in Seq(EntriesOf(h2))
    BY <2>2, SeqDef
  <2> QED
    BY <2>1, <2>3
<1>10. list2 \in [InfosOf(h2) -> Seq(EntriesOf(h2))]
  BY <1>1, <1>3, <1>6, <1>9 DEF ListWith
<1>11. home2 \in [EntriesOf(h2) -> InfosOf(h2)]
  BY EntryParts DEF HomeIn
<1>12. /\ IsChain(h2, h2[d].array, t)
       /\ \A j \in 1 .. n - 1 : home2[t[j]] = d
       /\ \A i, j \in 1 .. n - 1 : i < j => h2[t[i]].name < h2[t[j]].name
  <2>1. h2[d].array = IF t = << >> THEN Null ELSE t[1]
    <3>1. t = << >> <=> n = 1
      <4>1. t = << >> <=> n - 1 = 0
        BY <1>4, EmptySeq
      <4> QED
        BY <1>2, <4>1
    <3>2. CASE k = 1
      <4>1. h2[d].array = h[s[1]].next /\ 1 \in 1 .. n
        BY <1>1, <1>2, <3>2
      <4>2. h2[d].array = IF n = 1 THEN Null ELSE s[2]
        BY <1>2, <4>1
      <4>3. n # 1 => t[1] = s[2]
        BY <1>2, <1>4, <3>2
      <4> QED
        BY <3>1, <4>2, <4>3
    <3>3. CASE k # 1
      <4>1. h2[d].array = s[1] /\ n # 1 /\ t[1] = s[1]
        BY <1>2, <1>4, <3>3
      <4> QED
        BY <3>1, <4>1
    <3> QED
      BY <3>2, <3>3
  <2>2. ASSUME NEW j \in 1 .. n - 1
        PROVE  h2[t[j]].next = IF j = n - 1 THEN Null ELSE t[j + 1]
    <3>1. CASE j < k - 1
      <4>1. t[j] = s[j] /\ t[j + 1] = s[j + 1] /\ j \in 1 .. n /\ j # n /\ j # n - 1
        BY <1>2, <1>4, <3>1
      <4>2. k > 1 => k - 1 \in 1 .. n /\ j # k - 1
        BY <1>2, <3>1
      <4>3. h2[s[j]].next = h[s[j]].next
        BY <1>1, <1>2, <1>5, <4>1, <4>2
      <4> QED
        BY <1>2, <4>1, <4>3
    <3>2. CASE j = k - 1
      <4>1. t[j] = s[k - 1] /\ k > 1
        BY <1>2, <1>4, <3>2
      <4>2. h2[t[j]].next = h[s[k]].next
        BY <1>1, <1>5, <4>1
      <4>3. h[s[k]].next = IF k = n THEN Null ELSE s[k + 1]
        BY <1>2
      <4>4. (k = n <=> j = n - 1) /\ (j # n - 1 => t[j + 1] = s[k + 1])
        BY <1>2, <1>4, <3>2
      <4> QED
        BY <4>2, <4>3, <4>4
    <3>3. CASE j >= k
      <4>1. /\ t[j] = s[j + 1] /\ j + 1 \in 1 .. n
            /\ j # n - 1 => t[j + 1] = s[j + 2]
        <5>1. j # n - 1 => t[j + 1] = s[(j + 1) + 1]
          BY <1>2, <1>4, <3>3
        <5>2. (j + 1) + 1 = j + 2
          BY <1>2
        <5> QED
          BY <1>2, <1>4, <3>3, <5>1, <5>2
      <4>2. k > 1 => k - 1 \in 1 .. n /\ j + 1 # k - 1
        BY <1>2, <3>3
      <4>3. h2[s[j + 1]].next = h[s[j + 1]].next
        BY <1>1, <1>2, <1>5, <4>1, <4>2
      <4>4. h[s[j + 1]].next = IF j + 1 = n THEN Null ELSE s[(j + 1) + 1]
        BY <1>2, <4>1
      <4>5. (j + 1 = n <=> j = n - 1) /\ (j + 1) + 1 = j + 2
        BY <1>2
      <4> QED
        BY <4>1, <4>3, <4>4, <4>5
    <3> QED
      BY <1>2, <3>1, <3>2, <3>3
  <2>3. ASSUME NEW j \in 1 .. n - 1
        PROVE  home2[t[j]] = d
    <3>1. home2[t[j]] = home[t[j]]
      BY <1>5, <1>8
    <3>2. \E p \in 1 .. n : t[j] = s[p]
      <4>1. j \in 1 .. n /\ j + 1 \in 1 .. n
        BY <1>2
      <4> QED
        BY <1>4, <4>1
    <3> QED
      BY <1>2, <3>1, <3>2
  <2>4. ASSUME NEW i \in 1 .. n - 1, NEW j \in 1 .. n - 1, i < j
        PROVE  h2[t[i]].name < h2[t[j]].name
    <3>1. h2[t[i]].name = h[t[i]].name /\ h2[t[j]].name = h[t[j]].name
      BY <1>5
    <3>2. PICK p \in 1 .. n : t[i] = s[p] /\ p = IF i < k THEN i ELSE i + 1
      BY <1>2, <1>4
    <3>3. PICK q \in 1 .. n : t[j] = s[q] /\ q = IF j < k THEN j ELSE j + 1
      BY <1>2, <1>4
    <3>4. p < q
      BY <1>2, <2>4, <3>2, <3>3
    <3>5. h[s[p]].name < h[s[q]].name
      BY <1>2, <3>4
    <3> QED
      BY <3>1, <3>2, <3>3, <3>5
  <2> QED
    BY <1>4, <1>6, <2>1, <2>2, <2>3, <2>4 DEF IsChain
<1>13. ASSUME NEW c \in InfosOf(h2)
       PROVE  /\ IsChain(h2, h2[c].array, list2[c])
              /\ \A j \in 1 .. Len(list2[c]) : home2[list2[c][j]] = c
              /\ \A i, j \in 1 .. Len(list2[c]) :
                   i < j => h2[list2[c][i]].name < h2[list2[c][j]].name
  <2>1. CASE c = d
    BY <1>4, <1>7, <1>12, <2>1
  <2>2. CASE c # d
    <3>1. list2[c] = list[c] /\ h2[c].array = h[c].array /\ c \in InfosOf(h) \ {d}
      BY <1>7, <2>2
    <3>2. IsChain(h, h[c].array, list[c])
      BY <3>1 DEF Shape, ListsAreRight
    <3>3. \A i, j \in 1 .. Len(list[c]) : i < j => h[list[c][i]].name < h[list[c][j]].name
      BY <3>1, ListParts
    <3>4. IsChain(h2, h2[c].array, list[c])
      BY <1>9, <3>1, <3>2 DEF IsChain
    <3> QED
      BY <1>9, <3>1, <3>3, <3>4
  <2> QED
    BY <2>1, <2>2
<1>14. \A b \in EntriesOf(h2) : \E j \in 1 .. Len(list2[home2[b]]) : list2[home2[b]][j] = b
  <2> TAKE b \in EntriesOf(h2)
  <2>1. b \in EntriesOf(h) /\ home2[b] = home[b] /\ home[b] \in InfosOf(h) /\ b # s[k]
    BY <1>1, <1>8, EntryParts
  <2>2. CASE home[b] = d
    <3>1. PICK j \in 1 .. n : s[j] = b
      BY <1>1, <2>1, <2>2, EntryParts
    <3>2. CASE j < k
      <4>1. t[j] = b /\ j \in 1 .. Len(t)
        BY <1>2, <1>4, <3>1, <3>2
      <4> QED
        BY <1>7, <2>1, <2>2, <4>1
    <3>3. CASE j > k
      <4>1. j - 1 \in 1 .. n - 1 /\ ~(j - 1 < k) /\ (j - 1) + 1 = j
        BY <1>2, <3>3
      <4>2. t[j - 1] = s[(j - 1) + 1]
        BY <1>4, <4>1
      <4>3. t[j - 1] = b /\ j - 1 \in 1 .. Len(t)
        BY <1>4, <3>1, <4>1, <4>2
      <4> QED
        BY <1>7, <2>1, <2>2, <4>3
    <3> QED
      BY <1>2, <2>1, <3>1, <3>2, <3>3
  <2>3. CASE home[b] # d
    <3>1. list2[home2[b]] = list[home[b]]
      BY <1>7, <2>1, <2>3
    <3> QED
      BY <2>1, <3>1, EntryParts
  <2> QED
    BY <2>2, <2>3
<1>15. ListsAreRight(h2, list2, home2)
  BY <1>10, <1>11, <1>13, <1>14 DEF ListsAreRight
<1> QED
  BY <1>15

-----------------------------------------------------------------------------
(* What the changes of the file do to the tree                             *)

\* What the tree of a sound heap says of each path.
LEMMA TreeParts ==
  ASSUME NEW h, NEW list, NEW way, NEW home, Shape(h, list, way, home),
         NEW t, t = TreeOf(h)
  PROVE  /\ DOMAIN t = {PathOf(h, way, home, a) : a \in EntriesOf(h)}
         /\ \A a \in EntriesOf(h) : t[PathOf(h, way, home, a)] = Shows(h, a)
         /\ t = [p \in DOMAIN t |-> t[p]]
<1>1. IsTree(TreeOf(h), h, way, home)
  BY TreeIs
<1>2. IsTree(t, h, way, home)
  BY <1>1
<1> QED
  BY <1>2 DEF IsTree

\* A tree with p showing v, and without p.
TreeWith(t, p, v) == [q \in DOMAIN t \cup {p} |-> IF q = p THEN v ELSE t[q]]
TreeWithout(t, p) == [q \in DOMAIN t \ {p} |-> t[q]]

\* One entry shows something else.
LEMMA TreeChanged ==
  ASSUME NEW h, NEW list, NEW way, NEW home, Shape(h, list, way, home),
         NEW h2, NEW list2, NEW way2, Shape(h2, list2, way2, home),
         EntriesOf(h2) = EntriesOf(h), NEW a \in EntriesOf(h),
         \A b \in EntriesOf(h) : PathOf(h2, way2, home, b) = PathOf(h, way, home, b),
         \A b \in EntriesOf(h) \ {a} : Shows(h2, b) = Shows(h, b)
  PROVE  TreeOf(h2) = TreeWith(TreeOf(h), PathOf(h, way, home, a), Shows(h2, a))
<1>1. PICK t, t2, p : t = TreeOf(h) /\ t2 = TreeOf(h2) /\ p = PathOf(h, way, home, a)
  OBVIOUS
<1> DEFINE P(b) == PathOf(h, way, home, b)
<1>2. /\ DOMAIN t = {P(b) : b \in EntriesOf(h)} /\ t = [q \in DOMAIN t |-> t[q]]
      /\ \A b \in EntriesOf(h) : t[P(b)] = Shows(h, b)
  BY <1>1, TreeParts
<1>3. /\ t2 = [q \in DOMAIN t2 |-> t2[q]]
      /\ DOMAIN t2 = {PathOf(h2, way2, home, b) : b \in EntriesOf(h2)}
      /\ \A b \in EntriesOf(h2) : t2[PathOf(h2, way2, home, b)] = Shows(h2, b)
  BY <1>1, TreeParts
<1>4. /\ DOMAIN t2 = {P(b) : b \in EntriesOf(h)}
      /\ \A b \in EntriesOf(h) : t2[P(b)] = Shows(h2, b)
  BY <1>3
<1>5. \A b \in EntriesOf(h) : P(b) = p => b = a
  BY <1>1, PathParts
<1> HIDE DEF P
<1>6. \A q \in DOMAIN t2 : t2[q] = IF q = p THEN Shows(h2, a) ELSE t[q]
  <2> TAKE q \in DOMAIN t2
  <2>1. PICK b \in EntriesOf(h) : q = P(b)
    BY <1>4
  <2> QED
    BY <1>1, <1>2, <1>4, <1>5, <2>1 DEF P
<1>7. t2 = TreeWith(t, p, Shows(h2, a))
  <2>1. p \in DOMAIN t /\ DOMAIN t2 = DOMAIN t
    BY <1>1, <1>2, <1>4 DEF P
  <2>2. DOMAIN t2 = DOMAIN t \cup {p}
    BY <2>1
  <2> QED
    BY <1>3, <1>6, <2>2 DEF TreeWith
<1> QED
  BY <1>1, <1>7

\* One entry more, without data and child.
LEMMA TreeMore ==
  ASSUME NEW h, NEW list, NEW way, NEW home, Shape(h, list, way, home),
         NEW h2, NEW list2, NEW home2, Shape(h2, list2, way, home2),
         NEW a, a \notin EntriesOf(h), EntriesOf(h2) = EntriesOf(h) \cup {a},
         \A b \in EntriesOf(h) : /\ PathOf(h2, way, home2, b) = PathOf(h, way, home, b)
                                 /\ Shows(h2, b) = Shows(h, b)
  PROVE  /\ PathOf(h2, way, home2, a) \notin DOMAIN TreeOf(h)
         /\ TreeOf(h2) = TreeWith(TreeOf(h), PathOf(h2, way, home2, a), Shows(h2, a))
<1>0. PICK p : p = PathOf(h2, way, home2, a)
  OBVIOUS
<1>1. PICK t, t2 : t = TreeOf(h) /\ t2 = TreeOf(h2)
  OBVIOUS
<1> DEFINE P(b) == PathOf(h, way, home, b)
<1>2. /\ DOMAIN t = {P(b) : b \in EntriesOf(h)}
      /\ \A b \in EntriesOf(h) : t[P(b)] = Shows(h, b)
  <2>1. Shape(h, list, way, home) /\ t = TreeOf(h)
    BY <1>1
  <2> QED
    BY ONLY <2>1, TreeParts DEF P
<1>3. /\ t2 = [q \in DOMAIN t2 |-> t2[q]]
      /\ DOMAIN t2 = {PathOf(h2, way, home2, b) : b \in EntriesOf(h2)}
      /\ \A b \in EntriesOf(h2) : t2[PathOf(h2, way, home2, b)] = Shows(h2, b)
  BY <1>1, TreeParts
<1>4. \A b \in EntriesOf(h) : P(b) # p
  <2>1. \A b \in EntriesOf(h) : PathOf(h2, way, home2, b) # PathOf(h2, way, home2, a)
    BY PathParts
  <2> QED
    BY <1>0, <2>1
<1>5. \A b \in EntriesOf(h) : t2[P(b)] = t[P(b)]
  <2> TAKE b \in EntriesOf(h)
  <2>1. b \in EntriesOf(h2) /\ PathOf(h2, way, home2, b) = P(b) /\ Shows(h2, b) = Shows(h, b)
    OBVIOUS
  <2>2. t2[PathOf(h2, way, home2, b)] = Shows(h2, b)
    BY <1>3, <2>1
  <2> HIDE DEF P
  <2> QED
    BY <1>2, <2>1, <2>2
<1>6. DOMAIN t2 = DOMAIN t \cup {p} /\ t2[p] = Shows(h2, a)
  <2>1. \A q : q \in DOMAIN t2 <=> q = p \/ \E b \in EntriesOf(h) : q = P(b)
    BY <1>0, <1>3
  <2>2. \A q : q \in DOMAIN t <=> \E b \in EntriesOf(h) : q = P(b)
    BY <1>2
  <2>3. DOMAIN t2 = DOMAIN t \cup {p}
    BY <2>1, <2>2
  <2> QED
    BY <1>0, <1>3, <2>3
<1> HIDE DEF P
<1>7. p \notin DOMAIN t /\ \A q \in DOMAIN t : t2[q] = t[q]
  BY <1>2, <1>4, <1>5
<1>8. t2 = TreeWith(t, p, Shows(h2, a))
  BY <1>3, <1>6, <1>7 DEF TreeWith
<1> QED
  BY <1>0, <1>1, <1>7, <1>8

\* One entry less.
LEMMA TreeLess ==
  ASSUME NEW h, NEW list, NEW way, NEW home, Shape(h, list, way, home),
         NEW h2, NEW list2, NEW home2, Shape(h2, list2, way, home2),
         NEW a \in EntriesOf(h), EntriesOf(h2) = EntriesOf(h) \ {a},
         \A b \in EntriesOf(h2) : /\ PathOf(h2, way, home2, b) = PathOf(h, way, home, b)
                                  /\ Shows(h2, b) = Shows(h, b)
  PROVE  TreeOf(h2) = TreeWithout(TreeOf(h), PathOf(h, way, home, a))
<1>0. PICK p : p = PathOf(h, way, home, a)
  OBVIOUS
<1>1. PICK t, t2 : t = TreeOf(h) /\ t2 = TreeOf(h2)
  OBVIOUS
<1> DEFINE P(b) == PathOf(h, way, home, b)
<1>2. /\ DOMAIN t = {P(b) : b \in EntriesOf(h)}
      /\ \A b \in EntriesOf(h) : t[P(b)] = Shows(h, b)
  BY <1>1, TreeParts
<1>3. /\ t2 = [q \in DOMAIN t2 |-> t2[q]]
      /\ DOMAIN t2 = {PathOf(h2, way, home2, b) : b \in EntriesOf(h2)}
      /\ \A b \in EntriesOf(h2) : t2[PathOf(h2, way, home2, b)] = Shows(h2, b)
  <2>1. IsTree(TreeOf(h2), h2, way, home2)
    BY TreeIs
  <2>2. IsTree(t2, h2, way, home2)
    BY <1>1, <2>1
  <2> QED
    BY <2>2 DEF IsTree
<1>4. \A b \in EntriesOf(h) : P(b) = p => b = a
  BY <1>0, PathParts
<1>5. /\ DOMAIN t2 = {P(b) : b \in EntriesOf(h2)}
      /\ \A b \in EntriesOf(h2) : t2[P(b)] = Shows(h2, b) /\ Shows(h2, b) = Shows(h, b)
  BY <1>3
<1>6. p = P(a)
  BY <1>0
<1> HIDE DEF P
<1>7. DOMAIN t2 = DOMAIN t \ {p} /\ \A q \in DOMAIN t2 : t2[q] = t[q]
  <2>1. \A b \in EntriesOf(h2) : b \in EntriesOf(h) /\ P(b) # p
    BY <1>4
  <2>2. \A b \in EntriesOf(h) : P(b) # p => b \in EntriesOf(h2)
    BY <1>6
  <2> QED
    BY <1>2, <1>5, <2>1, <2>2
<1>8. t2 = TreeWithout(t, p)
  BY <1>3, <1>7 DEF TreeWithout
<1> QED
  BY <1>0, <1>1, <1>8

-----------------------------------------------------------------------------
(* The changes of the file, each in one directory                          *)

\* Outside of directory d nothing changes but that directories below it go.
OnlyIn(h, list, way, h2, list2, way2, d) ==
  /\ d \in InfosOf(h2) /\ way2[d] = way[d]
  /\ \A c \in InfosOf(h) \ {d} :
       /\ c \notin InfosOf(h2) => Len(way[d]) < Len(way[c])
       /\ c \in InfosOf(h2) =>
            /\ h2[c] = h[c] /\ list2[c] = list[c] /\ way2[c] = way[c]
            /\ \A k \in 1 .. Len(list[c]) : h2[list[c][k]] = h[list[c][k]]

\* Of the entries, only a is changed, with what is below it.
ChangesEntry(h, list, way, home, h2, list2, way2, a) ==
  /\ Shape(h2, list2, way2, home)
  /\ OnlyIn(h, list, way, h2, list2, way2, home[a])
  /\ list2[home[a]] = list[home[a]] /\ h2[home[a]] = h[home[a]]
  /\ \A x \in EntriesOf(h) \ {a} : h2[x] = h[x]
  /\ TreeOf(h2) = TreeWith(TreeOf(h), PathOf(h, way, home, a), Shows(h2, a))

ShownData(h, b) == IF b = Null THEN NoData ELSE h[b].value

\* The entry a gets the data item b, or none.
GetsData(h, h2, a, b) ==
  /\ b \in Addr \cup {Null} /\ b \notin DOMAIN h \ {h[a].data}
  /\ DOMAIN h2 = (DOMAIN h \ {h[a].data}) \cup ({b} \ {Null})
  /\ \A c \in DOMAIN h \ {a, b, h[a].data} : h2[c] = h[c]
  /\ h2[a] = [h[a] EXCEPT !.data = b]
  /\ b # Null => h2[b] \in [kind : {"data"}, value : Payload]

\* Giving an entry data, other data or none changes the tree at its path only.
LEMMA DataIsChanged ==
  ASSUME NEW h, NEW list, NEW way, NEW home, Shape(h, list, way, home), NEW h2,
         NEW a \in EntriesOf(h), NEW b, GetsData(h, h2, a, b)
  PROVE  /\ ChangesEntry(h, list, way, home, h2, ListIn(list, h, h2), way, a)
         /\ Shows(h2, a) = [data |-> ShownData(h2, b), dir |-> h[a].child # Null]
<1>0. /\ b \in Addr \cup {Null} /\ b \notin DOMAIN h \ {h[a].data}
      /\ DOMAIN h2 = (DOMAIN h \ {h[a].data}) \cup ({b} \ {Null})
      /\ \A c \in DOMAIN h \ {a, b, h[a].data} : h2[c] = h[c]
      /\ h2[a] = [h[a] EXCEPT !.data = b]
      /\ b # Null => h2[b] \in [kind : {"data"}, value : Payload]
  BY DEF GetsData
<1> USE <1>0
<1>1. PICK old, e : old = h[a].data /\ e = h[a]
  OBVIOUS
<1>2. /\ e \in Entry /\ e.kind = "entry" /\ a \in DOMAIN h /\ a # Null
      /\ old # Null => old \in DatasOf(h)
      /\ \A x \in DOMAIN h : h[x] \in Node
      /\ DOMAIN h \subseteq Addr /\ Null \notin DOMAIN h
  <2>1. e \in Entry /\ a \in DOMAIN h /\ a # Null
    BY <1>1, EntryParts
  <2>2. Null \notin DOMAIN h
    BY NodeKinds DEF Shape
  <2> QED
    BY <1>1, <2>1, <2>2 DEF Shape, DatasAreRight, IsHeap, Entry
<1>3. a # old /\ a # b
  <2>1. a # old
    BY <1>1, <1>2 DEF DatasOf
  <2> QED
    BY <1>1, <1>2, <2>1
<1>4. /\ h2[a] \in Entry /\ h2[a].kind = "entry" /\ h2[a].name = e.name /\ h2[a].next = e.next
      /\ h2[a].child = e.child /\ h2[a].data = b
  <2>1. h2[a] = [e EXCEPT !.data = b]
    BY <1>1
  <2> QED
    BY <1>2, <2>1 DEF Entry
<1>5. /\ \A c \in DOMAIN h \ {a, old} : c # b /\ c \in DOMAIN h2 /\ h2[c] = h[c]
      /\ \A c \in DOMAIN h2 : c = a \/ c = b \/ c \in DOMAIN h \ {a, old}
      /\ a \in DOMAIN h2
  BY <1>1, <1>2, <1>3
<1>6. /\ EntriesOf(h2) = EntriesOf(h) /\ InfosOf(h2) = InfosOf(h)
      /\ DatasOf(h2) = (DatasOf(h) \ {old}) \cup ({b} \ {Null})
  <2>1. \A c \in EntriesOf(h) \cup InfosOf(h) : c # old
    BY <1>2 DEF EntriesOf, InfosOf, DatasOf
  <2>2. b \in DOMAIN h2 => b # Null /\ h2[b].kind = "data"
    BY <1>2
  <2>6. \A c \in DOMAIN h2 : c = a \/ h2[c].kind = "data" \/ (c \in DOMAIN h /\ h2[c] = h[c])
    BY <1>5, <2>2
  <2>7. \A c \in EntriesOf(h) \cup InfosOf(h) : c = a \/ (c \in DOMAIN h2 /\ h2[c] = h[c])
    BY <1>5, <2>1 DEF EntriesOf, InfosOf
  <2>3. EntriesOf(h2) = EntriesOf(h)
    <3>1. \A c \in EntriesOf(h2) : c \in EntriesOf(h)
      <4> TAKE c \in EntriesOf(h2)
      <4>1. c \in DOMAIN h2 /\ h2[c].kind = "entry"
        BY DEF EntriesOf
      <4>2. c = a \/ (c \in DOMAIN h /\ h[c].kind = "entry")
        BY <2>6, <4>1
      <4> QED
        BY <4>2 DEF EntriesOf
    <3>2. \A c \in EntriesOf(h) : c \in DOMAIN h2 /\ h2[c].kind = "entry"
      <4> TAKE c \in EntriesOf(h)
      <4>1. c \in DOMAIN h /\ h[c].kind = "entry"
        BY DEF EntriesOf
      <4> QED
        BY <1>4, <1>5, <2>7, <4>1
    <3>3. \A c \in EntriesOf(h) : c \in EntriesOf(h2)
      BY <3>2 DEF EntriesOf
    <3> QED
      BY <3>1, <3>3
  <2>4. InfosOf(h2) = InfosOf(h)
    <3>1. a \notin InfosOf(h)
      BY <1>1, <1>2 DEF InfosOf
    <3>2. \A c \in InfosOf(h2) : c \in InfosOf(h)
      <4> TAKE c \in InfosOf(h2)
      <4>1. c \in DOMAIN h2 /\ h2[c].kind = "info"
        BY DEF InfosOf
      <4>2. c \in DOMAIN h /\ h[c].kind = "info"
        BY <1>4, <2>6, <4>1
      <4> QED
        BY <4>2 DEF InfosOf
    <3>3. \A c \in InfosOf(h) : c \in DOMAIN h2 /\ h2[c].kind = "info"
      <4> TAKE c \in InfosOf(h)
      <4>1. c \in DOMAIN h /\ h[c].kind = "info"
        BY DEF InfosOf
      <4> QED
        BY <2>7, <3>1, <4>1
    <3>4. \A c \in InfosOf(h) : c \in InfosOf(h2)
      BY <3>3 DEF InfosOf
    <3> QED
      BY <3>2, <3>4
  <2>5. DatasOf(h2) = (DatasOf(h) \ {old}) \cup ({b} \ {Null})
    <3>1. \A c \in DatasOf(h2) : c \in (DatasOf(h) \ {old}) \cup ({b} \ {Null})
      BY <1>4, <1>5, <2>2 DEF DatasOf
    <3>2. \A c \in DatasOf(h) \ {old} : c \in DatasOf(h2)
      BY <1>1, <1>2, <1>5 DEF DatasOf
    <3>3. b # Null => b \in DatasOf(h2)
      BY DEF DatasOf
    <3> QED
      BY <3>1, <3>2, <3>3
  <2> QED
    BY <2>3, <2>4, <2>5
<1>7. /\ \A c \in EntriesOf(h) \ {a} : c \in DOMAIN h \ {a, old} /\ h2[c] = h[c]
      /\ \A d \in InfosOf(h) : h2[d] = h[d]
  <2>1. \A c \in EntriesOf(h) \cup InfosOf(h) : c # old /\ c \in DOMAIN h
    BY <1>2 DEF EntriesOf, InfosOf, DatasOf
  <2>2. a \notin InfosOf(h)
    BY <1>1, <1>2 DEF InfosOf
  <2> QED
    BY <1>5, <2>1, <2>2
<1>8. \A c \in EntriesOf(h) :
        h2[c].name = h[c].name /\ h2[c].next = h[c].next /\ h2[c].child = h[c].child
  BY <1>1, <1>4, <1>7
<1>9. IsHeap(h2)
  <2>1. DOMAIN h2 \subseteq Addr
    BY <1>2, <1>5 DEF Null
  <2>2. \A c \in DOMAIN h2 : h2[c] \in Node /\ (c # 1 => h2[c].kind # "root")
    <3> TAKE c \in DOMAIN h2
    <3>1. CASE c = a
      BY <1>4, <3>1 DEF Node
    <3>2. CASE c = b
      <4>1. h2[c] \in [kind : {"data"}, value : Payload]
        BY <1>2, <3>2
      <4> QED
        BY <4>1 DEF Node
    <3>3. CASE c \in DOMAIN h \ {a, old}
      BY <1>2, <1>5, <3>3 DEF Shape, IsHeap
    <3> QED
      BY <1>5, <3>1, <3>2, <3>3
  <2>3. 1 \in DOMAIN h2 /\ h2[1] = Root
    <3>1. 1 \in DOMAIN h /\ h[1].kind = "root"
      BY DEF Shape, IsHeap, Root
    <3>2. 1 # a /\ 1 # old
      BY <1>1, <1>2, <3>1 DEF DatasOf, Null
    <3> QED
      BY <1>5, <3>1, <3>2 DEF Shape, IsHeap
  <2>4. RootInfo \in InfosOf(h2) /\ h2[RootInfo].parent = Null
    BY <1>6, <1>7 DEF Shape, IsHeap
  <2> QED
    BY <2>1, <2>2, <2>3, <2>4 DEF IsHeap
<1>10. ListsAreRight(h2, ListIn(list, h, h2), home)
  BY <1>6, <1>7, <1>8, ListsKept
<1>11. WaysAreRight(h2, way, home)
  BY <1>6, <1>7, <1>8, WaysSame
<1>12. DatasAreRight(h2)
  <2>1. \A c \in DatasOf(h) : c # Null
    BY <1>2 DEF DatasOf
  <2>2. b \notin DatasOf(h) \ {old}
    BY <1>1 DEF DatasOf
  <2>3. \A c \in EntriesOf(h) \ {a} : h2[c].data = h[c].data
    BY <1>7
  <2> QED
    <3>1. DatasAreRight(h) /\ a \in EntriesOf(h) /\ EntriesOf(h2) = EntriesOf(h) /\ h2[a].data = b
          /\ DatasOf(h2) = (DatasOf(h) \ {old}) \cup ({b} \ {Null}) /\ old = h[a].data
      BY <1>1, <1>4, <1>6 DEF Shape
    <3> QED
      BY ONLY <2>1, <2>2, <2>3, <3>1, DatasChanged
<1>13. Shape(h2, ListIn(list, h, h2), way, home)
  BY <1>9, <1>10, <1>11, <1>12 DEF Shape
<1>14. \A d \in InfosOf(h) : ListIn(list, h, h2)[d] = list[d]
  BY <1>6 DEF ListIn
<1>15. OnlyIn(h, list, way, h2, ListIn(list, h, h2), way, home[a])
  <2>1. home[a] \in InfosOf(h2)
    BY <1>6, EntryParts
  <2>2. ASSUME NEW c \in InfosOf(h) \ {home[a]}, NEW k \in 1 .. Len(list[c])
        PROVE  h2[list[c][k]] = h[list[c][k]]
    <3>1. list[c][k] \in EntriesOf(h) /\ home[list[c][k]] = c
      BY ListParts
    <3> QED
      BY <1>7, <3>1
  <2> QED
    BY <1>6, <1>7, <1>14, <2>1, <2>2 DEF OnlyIn
<1>16. TreeOf(h2) = TreeWith(TreeOf(h), PathOf(h, way, home, a), Shows(h2, a))
  <2>1. \A c \in EntriesOf(h) : PathOf(h2, way, home, c) = PathOf(h, way, home, c)
    BY <1>8 DEF PathOf
  <2>2. ASSUME NEW c \in EntriesOf(h) \ {a}
        PROVE  Shows(h2, c) = Shows(h, c)
    <3>1. h2[c] = h[c]
      BY <1>7
    <3>2. CASE h[c].data = Null
      BY <3>1, <3>2 DEF Shows
    <3>3. CASE h[c].data # Null
      <4>1. h[c].data \in DatasOf(h) /\ h[c].data # old
        BY <1>1, <3>3 DEF Shape, DatasAreRight
      <4>2. h2[h[c].data] = h[h[c].data]
        <5>1. h[c].data \in DOMAIN h /\ h[c].data # a
          BY <1>1, <1>2, <4>1 DEF DatasOf
        <5> QED
          BY <1>5, <4>1, <5>1
      <4> QED
        BY <3>1, <4>2 DEF Shows
    <3> QED
      BY <3>2, <3>3
  <2> QED
    BY <1>6, <1>13, <2>1, <2>2, TreeChanged
<1>17. Shows(h2, a) = [data |-> ShownData(h2, b), dir |-> h[a].child # Null]
  BY <1>1, <1>4 DEF Shows, ShownData
<1>18. home[a] \in InfosOf(h)
  BY EntryParts
<1> QED
  BY <1>7, <1>13, <1>14, <1>15, <1>16, <1>17, <1>18 DEF ChangesEntry

\* The three kinds of items, by the field that tells them.
LEMMA KindOf ==
  ASSUME NEW h, NEW c
  PROVE  /\ c \in EntriesOf(h) <=> c \in DOMAIN h /\ h[c].kind = "entry"
         /\ c \in InfosOf(h) <=> c \in DOMAIN h /\ h[c].kind = "info"
         /\ c \in DatasOf(h) <=> c \in DOMAIN h /\ h[c].kind = "data"
BY DEF EntriesOf, InfosOf, DatasOf

\* Items added, dropped or rewritten in their own kind leave a heap a heap.
LEMMA HeapKept ==
  ASSUME NEW h, IsHeap(h), NEW h2, DOMAIN h2 \subseteq Addr, 1 \in DOMAIN h2, h2[1] = h[1],
         \A c \in DOMAIN h2 \cap DOMAIN h : h2[c] \in Node /\ h2[c].kind = h[c].kind,
         \A c \in DOMAIN h2 \ DOMAIN h : h2[c] \in Node /\ h2[c].kind # "root",
         RootInfo \in DOMAIN h2, h2[RootInfo].parent = Null
  PROVE  IsHeap(h2)
<1>1. \A c \in DOMAIN h2 : h2[c] \in Node
  OBVIOUS
<1>2. \A c \in DOMAIN h2 \ {1} : h2[c].kind # "root"
  BY DEF IsHeap
<1>3. RootInfo \in DOMAIN h /\ h[RootInfo].kind = "info"
  BY DEF IsHeap, InfosOf
<1>4. h2[RootInfo].kind = "info"
  BY <1>3
<1>5. RootInfo \in InfosOf(h2)
  BY <1>4 DEF InfosOf
<1> QED
  BY <1>1, <1>2, <1>5 DEF IsHeap

\* The root item, its directory and the entries are apart.
LEMMA Apart ==
  ASSUME NEW h, IsHeap(h)
  PROVE  /\ 1 \in DOMAIN h /\ RootInfo \in DOMAIN h /\ Null \notin DOMAIN h
         /\ \A a \in EntriesOf(h) : a \in DOMAIN h /\ a # 1 /\ a \notin InfosOf(h) /\ a # RootInfo
         /\ \A a \in InfosOf(h) : a \in DOMAIN h /\ a # 1
         /\ \A a \in DatasOf(h) : a \in DOMAIN h /\ a # 1 /\ a \notin InfosOf(h)
                                  /\ a \notin EntriesOf(h) /\ a # RootInfo
<1>1. 1 \in DOMAIN h /\ h[1].kind = "root" /\ RootInfo \in DOMAIN h /\ h[RootInfo].kind = "info"
  BY DEF IsHeap, Root, InfosOf
<1>2. Null \notin DOMAIN h
  BY NodeKinds
<1> QED
  BY <1>1, <1>2 DEF EntriesOf, InfosOf, DatasOf

\* The entry a of directory d gets the directory c.
GetsChild(h, h2, a, c, d) ==
  /\ h[a].child = Null
  /\ c \in Addr /\ c \notin DOMAIN h
  /\ DOMAIN h2 = DOMAIN h \cup {c}
  /\ \A x \in DOMAIN h \ {a} : h2[x] = h[x]
  /\ h2[a] = [h[a] EXCEPT !.child = c]
  /\ h2[c] = Info(d, Null)

\* An empty child array hung below an entry makes it a directory, no more.
LEMMA ChildIsMade ==
  ASSUME NEW h, NEW list, NEW way, NEW home, Shape(h, list, way, home), NEW h2,
         NEW a \in EntriesOf(h), NEW c, GetsChild(h, h2, a, c, home[a]),
         Len(way[home[a]]) < MaxDepth - 1,
         NEW way2, way2 = WayWith(h, way, home, h2, a, c)
  PROVE  /\ ChangesEntry(h, list, way, home, h2, ListIn(list, h, h2), way2, a)
         /\ Shows(h2, a) = [data |-> Shows(h, a).data, dir |-> TRUE]
<1>1. PICK e : e = h[a]
  OBVIOUS
<1>2. /\ e \in Entry /\ e.kind = "entry" /\ a \in DOMAIN h /\ a # Null
      /\ home[a] \in InfosOf(h) /\ IsHeap(h) /\ c # Null /\ c # a
      /\ \A x \in DOMAIN h : h[x] \in Node
  <2>1. c # Null /\ c # a
    BY EntryParts DEF GetsChild, Addr, Null
  <2> QED
    BY <1>1, <2>1, EntryParts DEF Shape, Entry, IsHeap
<1>19. /\ h[a].child = Null
       /\ c \in Addr /\ c \notin DOMAIN h
       /\ DOMAIN h2 = DOMAIN h \cup {c}
       /\ \A x \in DOMAIN h \ {a} : h2[x] = h[x]
  BY DEF GetsChild
<1>3. /\ h2[a] \in Entry /\ h2[a].kind = "entry" /\ h2[a].name = e.name /\ h2[a].next = e.next
      /\ h2[a].child = c /\ h2[a].data = e.data
  <2>1. h2[a] = [e EXCEPT !.child = c] /\ c \in Addr
    BY <1>1 DEF GetsChild
  <2> QED
    BY <1>2, <2>1 DEF Entry
<1>4. /\ h2[c] \in [kind : {"info"}, parent : Addr \cup {Null}, array : Addr \cup {Null}]
      /\ h2[c].kind = "info" /\ h2[c].parent = home[a] /\ h2[c].array = Null
  <2>1. home[a] \in Addr
    BY <1>2 DEF IsHeap, InfosOf
  <2> QED
    BY <2>1 DEF Info, GetsChild
<1>5. \A x \in DOMAIN h \cap DOMAIN h2 : h2[x].kind = h[x].kind
  BY <1>1, <1>2, <1>3, <1>19
<1>6. /\ EntriesOf(h2) = EntriesOf(h) /\ InfosOf(h2) = InfosOf(h) \cup {c}
      /\ DatasOf(h2) = DatasOf(h)
  <2>1. h2[c].kind = "info" /\ c \in DOMAIN h2 /\ c \notin DOMAIN h
    BY <1>4, <1>19
  <2>2. \A y : y \in EntriesOf(h2) <=> y \in EntriesOf(h)
    BY <1>5, <1>19, <2>1, KindOf
  <2>3. \A y : y \in InfosOf(h2) <=> y \in InfosOf(h) \/ y = c
    BY <1>5, <1>19, <2>1, KindOf
  <2>4. \A y : y \in DatasOf(h2) <=> y \in DatasOf(h)
    BY <1>5, <1>19, <2>1, KindOf
  <2>5. EntriesOf(h2) = EntriesOf(h)
    BY <2>2
  <2>6. InfosOf(h2) = InfosOf(h) \cup {c}
    BY <2>3
  <2>7. DatasOf(h2) = DatasOf(h)
    BY <2>4
  <2> QED
    BY <2>5, <2>6, <2>7
<1>7. /\ \A x \in EntriesOf(h) \ {a} : h2[x] = h[x]
      /\ \A d \in InfosOf(h) : h2[d] = h[d] /\ d # c
      /\ \A b \in DatasOf(h) : h2[b] = h[b]
  BY <1>2, <1>19, Apart
<1>8. \A x \in EntriesOf(h) :
        h2[x].name = h[x].name /\ h2[x].next = h[x].next /\ h2[x].data = h[x].data
  BY <1>1, <1>3, <1>7
<1>9. IsHeap(h2)
  <2>1. DOMAIN h2 \subseteq Addr /\ 1 \in DOMAIN h2 /\ h2[1] = h[1] /\ RootInfo \in DOMAIN h2
    BY <1>2, <1>19, Apart DEF IsHeap
  <2>2. \A x \in DOMAIN h2 \cap DOMAIN h : h2[x] \in Node
    BY <1>2, <1>3, <1>19 DEF Node
  <2>3. \A x \in DOMAIN h2 \ DOMAIN h : h2[x] \in Node /\ h2[x].kind # "root"
    BY <1>4, <1>19 DEF Node
  <2>4. h2[RootInfo].parent = Null
    BY <1>2, <1>7 DEF IsHeap
  <2> QED
    BY <1>2, <1>5, <2>1, <2>2, <2>3, <2>4, HeapKept
<1>10. ListsAreRight(h2, ListIn(list, h, h2), home)
  BY <1>4, <1>6, <1>7, <1>8, ListsKept
<1>11. WaysAreRight(h2, way2, home)
  <2>1. c \notin InfosOf(h) /\ c # RootInfo
    BY <1>2, <1>19, Apart
  <2>2. \A x \in EntriesOf(h) \ {a} : h2[x].child = h[x].child
    BY <1>7
  <2>3. \A d \in InfosOf(h) : h2[d].parent = h[d].parent
    BY <1>7
  <2>4. \A x \in EntriesOf(h) : h2[x].name = h[x].name
    BY <1>8
  <2> QED
    BY <1>2, <1>3, <1>4, <1>6, <1>19, <2>1, <2>2, <2>3, <2>4, WaysMore
<1>12. DatasAreRight(h2)
  <2>1. \A b \in DatasOf(h) : b # Null
    BY <1>2, Apart
  <2> QED
    BY <1>6, <1>8, <2>1, DatasSame DEF Shape
<1>13. Shape(h2, ListIn(list, h, h2), way2, home)
  BY <1>9, <1>10, <1>11, <1>12 DEF Shape
<1>14. \A d \in InfosOf(h) : ListIn(list, h, h2)[d] = list[d] /\ way2[d] = way[d]
  BY <1>6, <1>7 DEF ListIn, WayWith
<1>15. OnlyIn(h, list, way, h2, ListIn(list, h, h2), way2, home[a])
  <2>1. ASSUME NEW d \in InfosOf(h) \ {home[a]}, NEW k \in 1 .. Len(list[d])
        PROVE  h2[list[d][k]] = h[list[d][k]]
    <3>1. list[d][k] \in EntriesOf(h) /\ home[list[d][k]] = d
      BY ListParts
    <3> QED
      BY <1>7, <3>1
  <2> QED
    BY <1>2, <1>6, <1>7, <1>14, <2>1 DEF OnlyIn
<1>16. TreeOf(h2) = TreeWith(TreeOf(h), PathOf(h, way, home, a), Shows(h2, a))
  <2>1. \A x \in EntriesOf(h) : PathOf(h2, way2, home, x) = PathOf(h, way, home, x)
    BY <1>8, <1>14, EntryParts DEF PathOf
  <2>2. \A x \in EntriesOf(h) : h[x].data # Null => h2[h[x].data] = h[h[x].data]
    BY <1>7 DEF Shape, DatasAreRight
  <2>3. \A x \in EntriesOf(h) \ {a} : Shows(h2, x) = Shows(h, x)
    BY <1>7, <2>2 DEF Shows
  <2>4. PICK list2 : list2 = ListIn(list, h, h2)
    OBVIOUS
  <2>5. Shape(h2, list2, way2, home)
    BY <1>13, <2>4
  <2> QED
    BY <1>6, <2>1, <2>3, <2>5, TreeChanged
<1>17. Shows(h2, a) = [data |-> Shows(h, a).data, dir |-> TRUE]
  <2>1. e.data # Null => h2[e.data] = h[e.data]
    BY <1>1, <1>7 DEF Shape, DatasAreRight
  <2> QED
    BY <1>1, <1>2, <1>3, <2>1 DEF Shows
<1> QED
  BY <1>2, <1>7, <1>13, <1>14, <1>15, <1>16, <1>17 DEF ChangesEntry

\* The entry a loses its directory c, which is empty.
LosesChild(h, h2, a, c) ==
  /\ h[a].child = c /\ c # Null
  /\ h[c].array = Null
  /\ DOMAIN h2 = DOMAIN h \ {c}
  /\ \A x \in DOMAIN h2 \ {a} : h2[x] = h[x]
  /\ h2[a] = [h[a] EXCEPT !.child = Null]

\* Dropping a child array without entries makes its entry no directory.
LEMMA ChildIsDropped ==
  ASSUME NEW h, NEW list, NEW way, NEW home, Shape(h, list, way, home), NEW h2,
         NEW a \in EntriesOf(h), NEW c, LosesChild(h, h2, a, c),
         NEW way2, way2 = WayIn(way, h2)
  PROVE  /\ ChangesEntry(h, list, way, home, h2, ListIn(list, h, h2), way2, a)
         /\ Shows(h2, a) = [data |-> Shows(h, a).data, dir |-> FALSE]
         /\ \A b \in EntriesOf(h) : home[b] # c
         /\ way[c] = PathOf(h, way, home, a)
<1>1. PICK e : e = h[a]
  OBVIOUS
<1>2. /\ e \in Entry /\ e.kind = "entry" /\ a \in DOMAIN h /\ a # Null
      /\ home[a] \in InfosOf(h) /\ IsHeap(h)
      /\ \A x \in DOMAIN h : h[x] \in Node
      /\ c \in InfosOf(h) \ {RootInfo} /\ c \in DOMAIN h /\ c # 1 /\ a # c
      /\ way[c] = PathOf(h, way, home, a)
  <2>1. c \in InfosOf(h) \ {RootInfo} /\ way[c] = PathOf(h, way, home, a)
    BY PathParts DEF LosesChild
  <2>2. IsHeap(h)
    BY DEF Shape
  <2> QED
    BY <1>1, <2>1, <2>2, EntryParts, Apart DEF Entry, IsHeap
<1>19. /\ h[a].child = c /\ h[c].array = Null /\ c # Null
       /\ DOMAIN h2 = DOMAIN h \ {c}
       /\ \A x \in DOMAIN h2 \ {a} : h2[x] = h[x]
  BY DEF LosesChild
<1>3. /\ h2[a] \in Entry /\ h2[a].kind = "entry" /\ h2[a].name = e.name /\ h2[a].next = e.next
      /\ h2[a].child = Null /\ h2[a].data = e.data
  <2>1. h2[a] = [e EXCEPT !.child = Null]
    BY <1>1 DEF LosesChild
  <2> QED
    BY <1>2, <2>1 DEF Entry
<1>5. \A x \in DOMAIN h \cap DOMAIN h2 : h2[x].kind = h[x].kind
  BY <1>1, <1>2, <1>3, <1>19
<1>6. /\ EntriesOf(h2) = EntriesOf(h) /\ InfosOf(h2) = InfosOf(h) \ {c}
      /\ DatasOf(h2) = DatasOf(h)
  <2>1. h[c].kind = "info" /\ c \notin DOMAIN h2 /\ DOMAIN h2 \subseteq DOMAIN h
    BY <1>2, <1>19, KindOf
  <2>2. \A y : y \in EntriesOf(h2) <=> y \in EntriesOf(h)
    BY <1>5, <1>19, <2>1, KindOf
  <2>3. \A y : y \in InfosOf(h2) <=> y \in InfosOf(h) /\ y # c
    BY <1>5, <1>19, <2>1, KindOf
  <2>4. \A y : y \in DatasOf(h2) <=> y \in DatasOf(h)
    BY <1>5, <1>19, <2>1, KindOf
  <2>5. EntriesOf(h2) = EntriesOf(h)
    BY <2>2
  <2>6. InfosOf(h2) = InfosOf(h) \ {c}
    BY <2>3
  <2>7. DatasOf(h2) = DatasOf(h)
    BY <2>4
  <2> QED
    BY <2>5, <2>6, <2>7
<1>7. /\ \A x \in EntriesOf(h) \ {a} : h2[x] = h[x]
      /\ \A d \in InfosOf(h) \ {c} : h2[d] = h[d]
      /\ \A b \in DatasOf(h) : h2[b] = h[b]
  BY <1>2, <1>19, Apart
<1>8. \A x \in EntriesOf(h) :
        h2[x].name = h[x].name /\ h2[x].next = h[x].next /\ h2[x].data = h[x].data
  BY <1>1, <1>3, <1>7
<1>9. IsHeap(h2)
  <2>1. DOMAIN h2 \subseteq Addr /\ 1 \in DOMAIN h2 /\ h2[1] = h[1] /\ RootInfo \in DOMAIN h2
    BY <1>2, <1>19, Apart DEF IsHeap
  <2>2. \A x \in DOMAIN h2 \cap DOMAIN h : h2[x] \in Node
    BY <1>2, <1>3, <1>19 DEF Node
  <2>4. h2[RootInfo].parent = Null
    BY <1>2, <1>7 DEF IsHeap
  <2> QED
    BY <1>2, <1>5, <1>19, <2>1, <2>2, <2>4, HeapKept
<1>10. ListsAreRight(h2, ListIn(list, h, h2), home)
  BY <1>6, <1>7, <1>8, <1>19, ListsKept
<1>11. WaysAreRight(h2, way2, home) /\ \A b \in EntriesOf(h) : home[b] # c
  <2>2. \A x \in EntriesOf(h) \ {a} : h2[x].child = h[x].child
    BY <1>7
  <2>3. \A d \in InfosOf(h2) : h2[d].parent = h[d].parent
    BY <1>6, <1>7
  <2>4. \A x \in EntriesOf(h) : h2[x].name = h[x].name
    BY <1>8
  <2> QED
    BY <1>2, <1>3, <1>6, <1>19, <2>2, <2>3, <2>4, WaysLess
<1>12. DatasAreRight(h2)
  <2>1. \A b \in DatasOf(h) : b # Null
    BY <1>2, Apart
  <2> QED
    BY <1>6, <1>8, <2>1, DatasSame DEF Shape
<1>13. Shape(h2, ListIn(list, h, h2), way2, home)
  BY <1>9, <1>10, <1>11, <1>12 DEF Shape
<1>14. \A d \in InfosOf(h2) : ListIn(list, h, h2)[d] = list[d] /\ way2[d] = way[d]
  BY <1>6 DEF ListIn, WayIn
<1>15. OnlyIn(h, list, way, h2, ListIn(list, h, h2), way2, home[a])
  <2>1. ASSUME NEW d \in InfosOf(h) \ {home[a]}, NEW k \in 1 .. Len(list[d])
        PROVE  h2[list[d][k]] = h[list[d][k]]
    <3>1. list[d][k] \in EntriesOf(h) /\ home[list[d][k]] = d
      BY ListParts
    <3> QED
      BY <1>7, <3>1
  <2>2. home[a] \in InfosOf(h2)
    BY <1>2, <1>6, <1>11
  <2>3. Len(way[home[a]]) < Len(way[c])
    <3>1. Len(way[c]) = Len(way[home[a]]) + 1 /\ Len(way[home[a]]) \in Nat
      BY <1>2, PathParts
    <3> QED
      BY <3>1
  <2> QED
    BY <1>6, <1>7, <1>14, <2>1, <2>2, <2>3 DEF OnlyIn
<1>16. TreeOf(h2) = TreeWith(TreeOf(h), PathOf(h, way, home, a), Shows(h2, a))
  <2>1. \A x \in EntriesOf(h) : PathOf(h2, way2, home, x) = PathOf(h, way, home, x)
    <3> TAKE x \in EntriesOf(h)
    <3>1. home[x] \in InfosOf(h2)
      BY <1>6, <1>11, EntryParts
    <3> QED
      BY <1>8, <1>14, <3>1 DEF PathOf
  <2>2. \A x \in EntriesOf(h) : h[x].data # Null => h2[h[x].data] = h[h[x].data]
    BY <1>7 DEF Shape, DatasAreRight
  <2>3. \A x \in EntriesOf(h) \ {a} : Shows(h2, x) = Shows(h, x)
    BY <1>7, <2>2 DEF Shows
  <2>4. PICK list2 : list2 = ListIn(list, h, h2)
    OBVIOUS
  <2>5. Shape(h2, list2, way2, home)
    BY <1>13, <2>4
  <2> QED
    BY <1>6, <2>1, <2>3, <2>5, TreeChanged
<1>17. Shows(h2, a) = [data |-> Shows(h, a).data, dir |-> FALSE]
  <2>1. e.data # Null => h2[e.data] = h[e.data]
    BY <1>1, <1>7 DEF Shape, DatasAreRight
  <2> QED
    BY <1>1, <1>2, <1>3, <2>1 DEF Shows
<1>18. home[a] \in InfosOf(h2)
  BY <1>2, <1>6, <1>11
<1> QED
  BY <1>2, <1>6, <1>7, <1>11, <1>13, <1>14, <1>15, <1>16, <1>17, <1>18 DEF ChangesEntry

\* What links the k-th entry of the list s of directory d.
Link(s, d, k) == IF k = 1 THEN d ELSE s[k - 1]

\* The item that links the k-th entry, linked to the entry b.
Linking(h, s, d, k, b) ==
  IF k = 1 THEN Info(h[d].parent, b) ELSE [h[s[k - 1]] EXCEPT !.next = b]

NewEntry(s, k, n) ==
  [kind |-> "entry", name |-> n, child |-> Null, data |-> Null,
   next |-> IF k <= Len(s) THEN s[k] ELSE Null]

\* The entry a, named n, is linked in as the k-th of directory d.
AddsEntry(h, h2, s, d, k, a, n) ==
  /\ a \in Addr /\ a \notin DOMAIN h /\ n \in Name
  /\ DOMAIN h2 = DOMAIN h \cup {a}
  /\ \A x \in DOMAIN h \ {Link(s, d, k)} : h2[x] = h[x]
  /\ h2[a] = NewEntry(s, k, n)
  /\ h2[Link(s, d, k)] = Linking(h, s, d, k, a)
  /\ \A j \in 1 .. k - 1 : h[s[j]].name < n
  /\ k <= Len(s) => n < h[s[k]].name

\* The k-th entry of directory d, without data or child, is unlinked and goes.
DropsEntry(h, h2, s, d, k) ==
  /\ h[s[k]].child = Null /\ h[s[k]].data = Null
  /\ DOMAIN h2 = DOMAIN h \ {s[k]}
  /\ \A x \in DOMAIN h2 \ {Link(s, d, k)} : h2[x] = h[x]
  /\ h2[Link(s, d, k)] = Linking(h, s, d, k, h[s[k]].next)

\* What relinking an item does to it.
LEMMA LinkingIs ==
  ASSUME NEW h, NEW list, NEW way, NEW home, Shape(h, list, way, home),
         NEW d \in InfosOf(h), NEW k \in 1 .. Len(list[d]) + 1, NEW b \in Addr \cup {Null},
         NEW s, s = list[d], NEW l, l = Link(s, d, k), NEW x, x = Linking(h, s, d, k, b)
  PROVE  /\ l \in DOMAIN h /\ x \in Node /\ x.kind = h[l].kind /\ x.kind # "root"
         /\ k = 1 => /\ l = d /\ x.parent = h[d].parent /\ x.array = b
                     /\ x = Info(h[d].parent, b)
         /\ k > 1 => /\ k - 1 \in 1 .. Len(s) /\ l = s[k - 1] /\ l \in EntriesOf(h) /\ home[l] = d
                     /\ x.name = h[l].name /\ x.child = h[l].child /\ x.data = h[l].data
                     /\ x.next = b /\ x \in Entry
<1>1. Len(s) \in Nat /\ k \in 1 .. Len(s) + 1
  BY ListParts
<1>2. CASE k = 1
  <2>1. PICK e : e = h[d]
    OBVIOUS
  <2>2. e \in [kind : {"info"}, parent : Addr \cup {Null}, array : Addr \cup {Null}]
    BY <2>1, NodeKinds DEF Shape, InfosOf
  <2>3. x = Info(e.parent, b) /\ l = d /\ l \in DOMAIN h
    BY <1>2, <2>1 DEF Linking, Link, InfosOf
  <2>4. x \in [kind : {"info"}, parent : Addr \cup {Null}, array : Addr \cup {Null}]
    BY <2>2, <2>3 DEF Info
  <2> QED
    BY <1>2, <2>1, <2>2, <2>3, <2>4 DEF Info, Node
<1>3. CASE k > 1
  <2>1. k - 1 \in 1 .. Len(s)
    BY <1>1, <1>3
  <2>2. PICK e : e = h[s[k - 1]]
    OBVIOUS
  <2>3. s[k - 1] \in EntriesOf(h) /\ home[s[k - 1]] = d /\ e \in Entry
    BY <2>1, <2>2, ListParts
  <2>4. x = [e EXCEPT !.next = b] /\ l = s[k - 1] /\ l \in DOMAIN h /\ k # 1
    BY <1>1, <1>3, <2>2, <2>3 DEF Linking, Link, EntriesOf
  <2>5. x \in Entry /\ x.kind = "entry" /\ e.kind = "entry" /\ x.name = e.name
        /\ x.child = e.child /\ x.data = e.data /\ x.next = b
    BY <2>3, <2>4 DEF Entry
  <2> QED
    BY <2>1, <2>2, <2>3, <2>4, <2>5 DEF Node
<1> QED
  BY <1>1, <1>2, <1>3

Adding(h, list, way, home, h2, d, s, k, a, n) ==
  /\ Shape(h, list, way, home) /\ d \in InfosOf(h) /\ s = list[d]
  /\ k \in 1 .. Len(list[d]) + 1 /\ AddsEntry(h, h2, s, d, k, a, n)

\* The tree t2 is t with a new entry at the path p.
TreeGets(t, t2, p) ==
  p \notin DOMAIN t /\ t2 = TreeWith(t, p, [data |-> NoData, dir |-> FALSE])

\* A new entry linked into a directory's list: the tree has one path more.
LEMMA EntryIsAdded ==
  ASSUME NEW h, NEW list, NEW way, NEW home, NEW h2, NEW d, NEW s, NEW k, NEW a, NEW n,
         Adding(h, list, way, home, h2, d, s, k, a, n)
  PROVE  \E list2, home2 :
           /\ Shape(h2, list2, way, home2)
           /\ OnlyIn(h, list, way, h2, list2, way, d)
           /\ list2[d] = Ins(s, k, a)
           /\ TreeGets(TreeOf(h), TreeOf(h2), Append(way[d], n))
<1>a. /\ Shape(h, list, way, home) /\ d \in InfosOf(h) /\ s = list[d]
      /\ k \in 1 .. Len(list[d]) + 1 /\ AddsEntry(h, h2, s, d, k, a, n)
  BY DEF Adding
<1> USE <1>a
<1> DEFINE l == Link(s, d, k)
           x == Linking(h, s, d, k, a)
<1>0. PICK list2, home2 : /\ list2 = ListWith(list, h2, d, Ins(list[d], k, a))
                          /\ home2 = HomeWith(home, h2, a, d)
  OBVIOUS
<1>1. /\ a \in Addr /\ a \notin DOMAIN h /\ n \in Name
      /\ DOMAIN h2 = DOMAIN h \cup {a}
      /\ \A y \in DOMAIN h \ {l} : h2[y] = h[y]
      /\ h2[a] = NewEntry(s, k, n) /\ h2[l] = x
      /\ \A j \in 1 .. k - 1 : h[s[j]].name < n
      /\ k <= Len(s) => n < h[s[k]].name
  BY DEF AddsEntry
<1>2. Len(s) \in Nat /\ k \in 1 .. Len(s) + 1
  BY ListParts
<1>3. /\ l \in DOMAIN h /\ x \in Node /\ x.kind = h[l].kind
      /\ k = 1 => /\ l = d /\ x.parent = h[d].parent /\ x.array = a
      /\ k > 1 => /\ k - 1 \in 1 .. Len(s) /\ l = s[k - 1] /\ l \in EntriesOf(h) /\ home[l] = d
                  /\ x.name = h[l].name /\ x.child = h[l].child /\ x.data = h[l].data
                  /\ x.next = a
  <2> HIDE DEF l, x
  <2>1. a \in Addr \cup {Null}
    BY <1>1
  <2>2. l = Link(s, d, k) /\ x = Linking(h, s, d, k, a)
    BY DEF l, x
  <2> QED
    BY ONLY <1>a, <2>1, <2>2, LinkingIs
<1> HIDE DEF l, x
<1>4. /\ h2[a] \in Entry /\ h2[a].kind = "entry" /\ h2[a].name = n /\ h2[a].child = Null
      /\ h2[a].data = Null /\ h2[a].next = IF k <= Len(s) THEN s[k] ELSE Null
  <2>1. (IF k <= Len(s) THEN s[k] ELSE Null) \in Addr \cup {Null}
    <3>1. k <= Len(s) => s[k] \in EntriesOf(h)
      BY <1>2, ListParts
    <3>2. EntriesOf(h) \subseteq Addr
      BY DEF Shape, IsHeap, EntriesOf
    <3> QED
      BY <3>1, <3>2
  <2>2. Null \in Addr \cup {Null}
    OBVIOUS
  <2>3. PICK b : b = IF k <= Len(s) THEN s[k] ELSE Null
    OBVIOUS
  <2>4. h2[a] = [kind |-> "entry", name |-> n, child |-> Null, data |-> Null, next |-> b]
    BY <1>1, <2>3 DEF NewEntry
  <2> QED
    BY <1>1, <2>1, <2>2, <2>3, <2>4 DEF Entry
<1>5. \A y \in DOMAIN h : h2[y].kind = h[y].kind
  BY <1>1, <1>3
<1>6. /\ EntriesOf(h2) = EntriesOf(h) \cup {a} /\ InfosOf(h2) = InfosOf(h)
      /\ DatasOf(h2) = DatasOf(h)
  <2>1. \A y : y \in EntriesOf(h2) <=> y \in EntriesOf(h) \/ y = a
    BY <1>1, <1>4, <1>5, KindOf
  <2>2. \A y : y \in InfosOf(h2) <=> y \in InfosOf(h)
    BY <1>1, <1>4, <1>5, KindOf
  <2>3. \A y : y \in DatasOf(h2) <=> y \in DatasOf(h)
    BY <1>1, <1>4, <1>5, KindOf
  <2>4. EntriesOf(h2) = EntriesOf(h) \cup {a}
    BY <2>1
  <2>5. InfosOf(h2) = InfosOf(h)
    BY <2>2
  <2>6. DatasOf(h2) = DatasOf(h)
    BY <2>3
  <2> QED
    BY <2>4, <2>5, <2>6
<1>7. /\ a \notin EntriesOf(h) /\ d # Null
      /\ \A b \in EntriesOf(h) : b \in DOMAIN h /\ b \notin InfosOf(h) /\ b # a
      /\ \A c \in InfosOf(h) : c \in DOMAIN h
      /\ \A b \in DatasOf(h) : b \in DOMAIN h /\ b \notin InfosOf(h) /\ b \notin EntriesOf(h)
      /\ Null \notin DOMAIN h
  BY <1>1, Apart DEF Shape
<1>8. /\ \A b \in EntriesOf(h) :
           /\ h2[b].name = h[b].name /\ h2[b].child = h[b].child /\ h2[b].data = h[b].data
           /\ h2[b].next = IF k > 1 /\ b = s[k - 1] THEN a ELSE h[b].next
      /\ \A c \in InfosOf(h) :
           /\ h2[c].parent = h[c].parent
           /\ h2[c].array = IF c = d /\ k = 1 THEN a ELSE h[c].array
      /\ \A b \in DatasOf(h) : h2[b] = h[b]
  <2>1. CASE k = 1
    BY <1>1, <1>3, <1>7, <2>1
  <2>2. CASE k > 1
    BY <1>1, <1>3, <1>7, <2>2
  <2> QED
    BY <1>2, <2>1, <2>2
<1>9. IsHeap(h2)
  <2>1. /\ DOMAIN h2 \subseteq Addr /\ 1 \in DOMAIN h2 /\ RootInfo \in DOMAIN h2
        /\ RootInfo \in InfosOf(h) /\ IsHeap(h)
    BY <1>1, Apart DEF IsHeap, Shape
  <2>2. \A y \in DOMAIN h2 \cap DOMAIN h : h2[y] \in Node /\ h2[y].kind = h[y].kind
    BY <1>1, <1>3, <1>5 DEF IsHeap, Shape
  <2>3. \A y \in DOMAIN h2 \ DOMAIN h : h2[y] \in Node /\ h2[y].kind # "root"
    BY <1>1, <1>4 DEF Node
  <2>4. h2[RootInfo].parent = Null
    BY <1>8, <2>1 DEF IsHeap
  <2>5. h2[1] = h[1]
    <3>1. h[1].kind = "root" /\ 1 \in DOMAIN h
      BY <2>1 DEF IsHeap, Root
    <3>2. 1 # l
      BY <1>2, <1>3, <2>1, Apart
    <3> QED
      BY <1>1, <3>1, <3>2
  <2> QED
    BY <2>1, <2>2, <2>3, <2>4, <2>5, HeapKept
<1>10. ListsAreRight(h2, list2, home2)
  <2>1. h2[a].name \in Nat
    BY <1>1, <1>4, NamesAreOrdered
  <2>2. \A j \in 1 .. k - 1 : h[list[d][j]].name < h2[a].name
    BY <1>1, <1>4
  <2>3. k <= Len(list[d]) => h2[a].name < h[list[d][k]].name
    BY <1>1, <1>4
  <2>4. \A b \in EntriesOf(h) :
          h2[b].next = IF k > 1 /\ b = list[d][k - 1] THEN a ELSE h[b].next
    BY <1>8
  <2>5. h2[a].next = IF k <= Len(list[d]) THEN list[d][k] ELSE Null
    BY <1>4
  <2>6. \A b \in EntriesOf(h) : h2[b].name = h[b].name
    BY <1>8
  <2>7. \A c \in InfosOf(h) : h2[c].array = IF c = d /\ k = 1 THEN a ELSE h[c].array
    BY <1>8
  <2> QED
    BY <1>0, <1>6, <1>7, <2>1, <2>2, <2>3, <2>4, <2>5, <2>6, <2>7, ListsMore
<1>11. home2[a] = d /\ \A b \in EntriesOf(h) : home2[b] = home[b]
  BY <1>0, <1>6, <1>7 DEF HomeWith
<1>12. list2[d] = Ins(s, k, a) /\ \A c \in InfosOf(h) \ {d} : list2[c] = list[c]
  BY <1>0, <1>6 DEF ListWith
<1>13. WaysAreRight(h2, way, home2)
  <2>1. \A b \in EntriesOf(h2) : h2[b].child # Null =>
           /\ b \in EntriesOf(h)
           /\ h2[b].child = h[b].child /\ h2[b].name = h[b].name /\ home2[b] = home[b]
    BY <1>4, <1>6, <1>8, <1>11
  <2>2. \A b \in EntriesOf(h) : h[b].child # Null =>
           b \in EntriesOf(h2) /\ h2[b].child = h[b].child
    BY <1>6, <1>8
  <2>3. \A c \in InfosOf(h) : h2[c].parent = h[c].parent
    BY <1>8
  <2> QED
    BY <1>6, <2>1, <2>2, <2>3, WaysSame
<1>14. DatasAreRight(h2)
  <2>1. \A b \in DatasOf(h) : b # Null
    BY <1>7
  <2>2. \A b \in EntriesOf(h2) : h2[b].data # Null =>
           b \in EntriesOf(h) /\ h2[b].data = h[b].data
    BY <1>4, <1>6, <1>8
  <2>3. \A b \in EntriesOf(h) : h[b].data # Null =>
           b \in EntriesOf(h2) /\ h2[b].data = h[b].data
    BY <1>6, <1>8
  <2> QED
    BY <1>6, <2>1, <2>2, <2>3, DatasSame DEF Shape
<1>15. Shape(h2, list2, way, home2)
  BY <1>9, <1>10, <1>13, <1>14 DEF Shape
<1>16. OnlyIn(h, list, way, h2, list2, way, d)
  <2>1. ASSUME NEW c \in InfosOf(h) \ {d}, NEW j \in 1 .. Len(list[c])
        PROVE  h2[list[c][j]] = h[list[c][j]]
    <3>1. list[c][j] \in EntriesOf(h) /\ home[list[c][j]] = c
      BY ListParts
    <3>2. list[c][j] # l
      BY <1>2, <1>3, <1>7, <3>1
    <3> QED
      BY <1>1, <1>7, <3>1, <3>2
  <2>2. ASSUME NEW c \in InfosOf(h) \ {d}
        PROVE  h2[c] = h[c]
    <3>1. c # l
      BY <1>2, <1>3, <1>7
    <3> QED
      BY <1>1, <1>7, <3>1
  <2> QED
    BY <1>6, <1>12, <2>1, <2>2 DEF OnlyIn
<1>17. PICK p : p = Append(way[d], n)
  OBVIOUS
<1>18. p = PathOf(h2, way, home2, a)
  BY <1>4, <1>11, <1>17 DEF PathOf
<1>19. \A b \in EntriesOf(h) : /\ PathOf(h2, way, home2, b) = PathOf(h, way, home, b)
                               /\ Shows(h2, b) = Shows(h, b)
  <2> TAKE b \in EntriesOf(h)
  <2>1. h[b].data # Null => h2[h[b].data] = h[h[b].data]
    BY <1>8 DEF Shape, DatasAreRight
  <2> QED
    BY <1>8, <1>11, <2>1 DEF PathOf, Shows
<1>20. /\ p \notin DOMAIN TreeOf(h)
       /\ TreeOf(h2) = TreeWith(TreeOf(h), p, Shows(h2, a))
  <2>1. a \notin EntriesOf(h) /\ EntriesOf(h2) = EntriesOf(h) \cup {a}
    BY <1>6, <1>7
  <2>2. Shape(h, list, way, home)
    OBVIOUS
  <2> QED
    BY ONLY <1>15, <1>18, <1>19, <2>1, <2>2, TreeMore
<1>21. Shows(h2, a) = [data |-> NoData, dir |-> FALSE]
  BY <1>4 DEF Shows
<1>22. TreeGets(TreeOf(h), TreeOf(h2), p)
  BY ONLY <1>20, <1>21 DEF TreeGets
<1> QED
  BY ONLY <1>a, <1>12, <1>15, <1>16, <1>17, <1>22

Dropping(h, list, way, home, h2, d, s, k) ==
  /\ Shape(h, list, way, home) /\ d \in InfosOf(h) /\ s = list[d]
  /\ k \in 1 .. Len(list[d]) /\ DropsEntry(h, h2, s, d, k)

\* An entry without a child unlinked: the tree has one path less.
LEMMA EntryIsDropped ==
  ASSUME NEW h, NEW list, NEW way, NEW home, NEW h2, NEW d, NEW s, NEW k,
         Dropping(h, list, way, home, h2, d, s, k)
  PROVE  \E list2, home2 :
           /\ Shape(h2, list2, way, home2)
           /\ OnlyIn(h, list, way, h2, list2, way, d)
           /\ list2[d] = Del(s, k)
           /\ TreeOf(h2) = TreeWithout(TreeOf(h), PathOf(h, way, home, s[k]))
<1>b. /\ Shape(h, list, way, home) /\ d \in InfosOf(h) /\ s = list[d]
      /\ k \in 1 .. Len(list[d]) /\ DropsEntry(h, h2, s, d, k)
  BY DEF Dropping
<1> USE <1>b
<1> DEFINE l == Link(s, d, k)
<1>0. PICK a, nx, list2, home2 : /\ a = s[k] /\ nx = h[a].next
                                 /\ list2 = ListWith(list, h2, d, Del(list[d], k))
                                 /\ home2 = HomeIn(home, h2)
  OBVIOUS
<1> DEFINE x == Linking(h, s, d, k, nx)
<1>1. /\ h[a].child = Null /\ h[a].data = Null
      /\ DOMAIN h2 = DOMAIN h \ {a}
      /\ \A y \in DOMAIN h2 \ {l} : h2[y] = h[y]
      /\ h2[l] = x
  BY <1>0 DEF DropsEntry
<1>2. Len(s) \in Nat /\ k \in 1 .. Len(s) /\ k \in 1 .. Len(list[d]) + 1
      /\ a \in EntriesOf(h) /\ home[a] = d /\ nx \in Addr \cup {Null}
  <2>1. h[a] \in Entry /\ a \in EntriesOf(h) /\ home[a] = d /\ Len(s) \in Nat
    BY <1>0, ListParts
  <2> QED
    BY <1>0, <2>1 DEF Entry
<1>3. /\ l \in DOMAIN h /\ x \in Node /\ x.kind = h[l].kind
      /\ k = 1 => /\ l = d /\ x.parent = h[d].parent /\ x.array = nx
      /\ k > 1 => /\ k - 1 \in 1 .. Len(s) /\ l = s[k - 1] /\ l \in EntriesOf(h) /\ home[l] = d
                  /\ x.name = h[l].name /\ x.child = h[l].child /\ x.data = h[l].data
                  /\ x.next = nx
  <2> HIDE DEF l, x
  <2>1. l = Link(s, d, k) /\ x = Linking(h, s, d, k, nx)
    BY DEF l, x
  <2> QED
    BY ONLY <1>b, <1>2, <2>1, LinkingIs
<1> HIDE DEF l, x
<1>7. /\ a \in DOMAIN h
      /\ \A b \in EntriesOf(h) : b \in DOMAIN h /\ b \notin InfosOf(h)
      /\ \A c \in InfosOf(h) : c \in DOMAIN h
      /\ \A b \in DatasOf(h) : b \in DOMAIN h /\ b \notin InfosOf(h) /\ b \notin EntriesOf(h)
      /\ Null \notin DOMAIN h
  BY <1>2, Apart DEF Shape
<1>4. l # a /\ l \in DOMAIN h2
  <2>1. CASE k = 1
    BY <1>1, <1>2, <1>3, <1>7, <2>1
  <2>2. CASE k > 1
    <3>1. k - 1 # k
      BY <1>2
    <3>2. s[k - 1] # s[k]
      BY <1>2, <1>3, <2>2, <3>1, ListOnce
    <3> QED
      BY <1>0, <1>1, <1>3, <2>2, <3>2
  <2> QED
    BY <1>2, <2>1, <2>2
<1>5. \A y \in DOMAIN h2 : h2[y].kind = h[y].kind
  BY <1>1, <1>3
<1>6. /\ EntriesOf(h2) = EntriesOf(h) \ {a} /\ InfosOf(h2) = InfosOf(h)
      /\ DatasOf(h2) = DatasOf(h)
  <2>0. h[a].kind = "entry"
    BY <1>2, KindOf
  <2>1. \A y : y \in EntriesOf(h2) <=> y \in EntriesOf(h) /\ y # a
    BY <1>1, <1>5, KindOf
  <2>2. \A y : y \in InfosOf(h2) <=> y \in InfosOf(h)
    BY <1>1, <1>5, <2>0, KindOf
  <2>3. \A y : y \in DatasOf(h2) <=> y \in DatasOf(h)
    BY <1>1, <1>5, <2>0, KindOf
  <2>4. EntriesOf(h2) = EntriesOf(h) \ {a}
    BY <2>1
  <2>5. InfosOf(h2) = InfosOf(h)
    BY <2>2
  <2>6. DatasOf(h2) = DatasOf(h)
    BY <2>3
  <2> QED
    BY <2>4, <2>5, <2>6
<1>8. /\ \A b \in EntriesOf(h2) :
           /\ h2[b].name = h[b].name /\ h2[b].child = h[b].child /\ h2[b].data = h[b].data
           /\ h2[b].next = IF k > 1 /\ b = s[k - 1] THEN nx ELSE h[b].next
      /\ \A c \in InfosOf(h) :
           /\ h2[c].parent = h[c].parent
           /\ h2[c].array = IF c = d /\ k = 1 THEN nx ELSE h[c].array
      /\ \A b \in DatasOf(h) : h2[b] = h[b]
  <2>0. /\ \A b \in EntriesOf(h2) : b \in DOMAIN h2
        /\ \A c \in InfosOf(h) : c \in DOMAIN h2
        /\ \A b \in DatasOf(h) : b \in DOMAIN h2
    BY <1>1, <1>2, <1>6, <1>7
  <2>1. CASE k = 1
    BY <1>1, <1>3, <1>6, <1>7, <2>0, <2>1
  <2>2. CASE k > 1
    BY <1>1, <1>3, <1>6, <1>7, <2>0, <2>2
  <2> QED
    BY <1>2, <2>1, <2>2
<1>9. IsHeap(h2)
  <2>1. /\ DOMAIN h2 \subseteq Addr /\ 1 \in DOMAIN h2 /\ RootInfo \in DOMAIN h2
        /\ RootInfo \in InfosOf(h) /\ IsHeap(h)
    BY <1>1, <1>2, Apart DEF IsHeap, Shape
  <2>2. \A y \in DOMAIN h2 \cap DOMAIN h : h2[y] \in Node /\ h2[y].kind = h[y].kind
    BY <1>1, <1>3, <1>5 DEF IsHeap, Shape
  <2>4. h2[RootInfo].parent = Null
    BY <1>8, <2>1 DEF IsHeap
  <2>5. h2[1] = h[1]
    <3>2. 1 # l
      BY <1>2, <1>3, <2>1, Apart
    <3> QED
      BY <1>1, <2>1, <3>2
  <2> QED
    BY <1>1, <2>1, <2>2, <2>4, <2>5, HeapKept
<1>10. ListsAreRight(h2, list2, home2)
  <2>1. \A b \in EntriesOf(h2) : h2[b].name = h[b].name
    BY <1>8
  <2>2. \A b \in EntriesOf(h2) :
          h2[b].next = IF k > 1 /\ b = list[d][k - 1] THEN h[list[d][k]].next ELSE h[b].next
    BY <1>0, <1>8
  <2>3. \A c \in InfosOf(h) :
          h2[c].array = IF c = d /\ k = 1 THEN h[list[d][k]].next ELSE h[c].array
    BY <1>0, <1>8
  <2>4. EntriesOf(h2) = EntriesOf(h) \ {list[d][k]}
    BY <1>0, <1>6
  <2> QED
    BY <1>0, <1>6, <2>1, <2>2, <2>3, <2>4, ListsLess
<1>11. \A b \in EntriesOf(h2) : home2[b] = home[b]
  BY <1>0 DEF HomeIn
<1>12. list2[d] = Del(s, k) /\ \A c \in InfosOf(h) \ {d} : list2[c] = list[c]
  BY <1>0, <1>6 DEF ListWith
<1>13. WaysAreRight(h2, way, home2)
  <2>1. \A b \in EntriesOf(h2) : h2[b].child # Null =>
           /\ b \in EntriesOf(h)
           /\ h2[b].child = h[b].child /\ h2[b].name = h[b].name /\ home2[b] = home[b]
    BY <1>6, <1>8, <1>11
  <2>2. \A b \in EntriesOf(h) : h[b].child # Null =>
           b \in EntriesOf(h2) /\ h2[b].child = h[b].child
    BY <1>1, <1>6, <1>8
  <2>3. \A c \in InfosOf(h) : h2[c].parent = h[c].parent
    BY <1>8
  <2> QED
    BY <1>6, <2>1, <2>2, <2>3, WaysSame
<1>14. DatasAreRight(h2)
  <2>1. \A b \in DatasOf(h) : b # Null
    BY <1>7
  <2>2. \A b \in EntriesOf(h2) : h2[b].data # Null =>
           b \in EntriesOf(h) /\ h2[b].data = h[b].data
    BY <1>6, <1>8
  <2>3. \A b \in EntriesOf(h) : h[b].data # Null =>
           b \in EntriesOf(h2) /\ h2[b].data = h[b].data
    BY <1>1, <1>6, <1>8
  <2> QED
    BY <1>6, <2>1, <2>2, <2>3, DatasSame DEF Shape
<1>15. Shape(h2, list2, way, home2)
  BY <1>9, <1>10, <1>13, <1>14 DEF Shape
<1>16. OnlyIn(h, list, way, h2, list2, way, d)
  <2>1. ASSUME NEW c \in InfosOf(h) \ {d}, NEW j \in 1 .. Len(list[c])
        PROVE  h2[list[c][j]] = h[list[c][j]]
    <3>1. list[c][j] \in EntriesOf(h) /\ home[list[c][j]] = c
      BY ListParts
    <3>2. list[c][j] # l /\ list[c][j] # a
      BY <1>2, <1>3, <1>7, <3>1
    <3> QED
      BY <1>1, <1>7, <3>1, <3>2
  <2>2. ASSUME NEW c \in InfosOf(h) \ {d}
        PROVE  h2[c] = h[c]
    <3>1. c # l /\ c # a
      BY <1>2, <1>3, <1>7
    <3> QED
      BY <1>1, <1>7, <3>1
  <2> QED
    BY <1>6, <1>12, <2>1, <2>2 DEF OnlyIn
<1>17. PICK p : p = PathOf(h, way, home, a)
  OBVIOUS
<1>19. \A b \in EntriesOf(h2) : /\ PathOf(h2, way, home2, b) = PathOf(h, way, home, b)
                                /\ Shows(h2, b) = Shows(h, b)
  <2> TAKE b \in EntriesOf(h2)
  <2>1. h[b].data # Null => h2[h[b].data] = h[h[b].data]
    BY <1>6, <1>8 DEF Shape, DatasAreRight
  <2> QED
    BY <1>8, <1>11, <2>1 DEF PathOf, Shows
<1>20. TreeOf(h2) = TreeWithout(TreeOf(h), p)
  <2>1. a \in EntriesOf(h) /\ EntriesOf(h2) = EntriesOf(h) \ {a}
    BY <1>2, <1>6
  <2>2. Shape(h, list, way, home)
    OBVIOUS
  <2> QED
    BY ONLY <1>15, <1>17, <1>19, <2>1, <2>2, TreeLess
<1> QED
  BY <1>0, <1>12, <1>15, <1>16, <1>17, <1>20

-----------------------------------------------------------------------------
(* The iterators                                                           *)

Iterators == [addr : Addr, info : Node, entries : Seq(Entry), pos : Nat, path : Seq(Name)]

\* What the file holds of the directory at `a'.
Entries(a, h, list) == [k \in 1 .. Len(list[a]) |-> h[list[a][k]]]

\* An iterator at the entry p of the directory at `a'.
View(a, h, list, way, p) ==
  [addr |-> a, info |-> h[a], entries |-> Entries(a, h, list), pos |-> p, path |-> way[a]]

IsView(i, h, list, way) ==
  \E a \in InfosOf(h) : \E p \in 1 .. Len(list[a]) + 1 : i = View(a, h, list, way, p)

\* There is a number of calls that is enough.
LEMMA CallsAreNumber == MaxCalls \in Nat \ {0}
  BY DepthIsNumber DEF MaxCalls

\* The iterators show what the file holds, each below that of its caller.
IsStack(s, h, list, way) ==
  /\ s \in Seq(Iterators) /\ Len(s) \in 1 .. MaxCalls
  /\ \A k \in 1 .. Len(s) : IsView(s[k], h, list, way)
  /\ \A j, k \in 1 .. Len(s) : j < k => Len(s[j].path) < Len(s[k].path)
  /\ \A k \in 1 .. Len(s) - 1 : s[k + 1].path # << >> /\ Front(s[k + 1].path) = s[k].path

\* An iterator at a directory caches what the heap says of it.
LEMMA ViewParts ==
  ASSUME NEW h, NEW list, NEW way, NEW home, Shape(h, list, way, home),
         NEW a \in InfosOf(h), NEW p \in 1 .. Len(list[a]) + 1,
         NEW i, i = View(a, h, list, way, p)
  PROVE  /\ i \in Iterators
         /\ i.addr = a /\ i.info = h[a] /\ i.pos = p /\ i.path = way[a]
         /\ i.entries = Entries(a, h, list) /\ i.entries \in Seq(Entry)
         /\ Len(i.entries) = Len(list[a]) /\ Len(list[a]) \in Nat
         /\ \A k \in 1 .. Len(list[a]) : i.entries[k] = h[list[a][k]]
<1>1. PICK n, e : n = Len(list[a]) /\ e = Entries(a, h, list)
  OBVIOUS
<1>2. n \in Nat /\ \A k \in 1 .. n : h[list[a][k]] \in Entry
  BY <1>1, ListParts
<1>3. e \in [1 .. n -> Entry] /\ \A k \in 1 .. n : e[k] = h[list[a][k]]
  BY <1>1, <1>2 DEF Entries
<1>4. e \in Seq(Entry) /\ Len(e) = n
  <2>1. e \in Seq(Entry)
    BY <1>2, <1>3, SeqDef
  <2> QED
    BY <1>2, <1>3, <2>1, LenProperties
<1>5. a \in Addr /\ h[a] \in Node /\ way[a] \in Seq(Name)
  BY DEF Shape, IsHeap, WaysAreRight, InfosOf
<1>6. i = [addr |-> a, info |-> h[a], entries |-> e, pos |-> p, path |-> way[a]]
  BY <1>1 DEF View
<1>7. p \in Nat
  BY <1>1, <1>2
<1>8. i \in Iterators
  BY <1>4, <1>5, <1>6, <1>7 DEF Iterators
<1> QED
  BY <1>1, <1>2, <1>3, <1>4, <1>6, <1>8

\* The view of another directory stays.
LEMMA ViewKept ==
  ASSUME NEW h, NEW list, NEW way, NEW home, Shape(h, list, way, home),
         NEW h2, NEW list2, NEW way2, NEW home2, Shape(h2, list2, way2, home2),
         NEW d, OnlyIn(h, list, way, h2, list2, way2, d), d \in InfosOf(h),
         NEW i, IsView(i, h, list, way), Len(i.path) < Len(way[d])
  PROVE  IsView(i, h2, list2, way2)
<1>0. PICK a \in InfosOf(h) : \E p \in 1 .. Len(list[a]) + 1 : i = View(a, h, list, way, p)
  BY DEF IsView
<1>1. PICK p \in 1 .. Len(list[a]) + 1 : i = View(a, h, list, way, p)
  BY <1>0
<1>2. i.path = way[a]
  BY <1>1, ViewParts
<1>3. Len(way[a]) \in Nat /\ Len(way[d]) \in Nat
  BY LenProperties DEF Shape, WaysAreRight
<1>4. a # d /\ a \in InfosOf(h2)
  BY <1>2, <1>3 DEF OnlyIn
<1>5. /\ h2[a] = h[a] /\ list2[a] = list[a] /\ way2[a] = way[a]
      /\ \A k \in 1 .. Len(list[a]) : h2[list[a][k]] = h[list[a][k]]
  BY <1>4 DEF OnlyIn
<1>6. Entries(a, h2, list2) = Entries(a, h, list)
  BY <1>5 DEF Entries
<1>7. View(a, h2, list2, way2, p) = View(a, h, list, way, p)
  BY <1>5, <1>6 DEF View
<1>8. p \in 1 .. Len(list2[a]) + 1
  BY <1>5
<1> QED
  BY <1>1, <1>4, <1>7, <1>8 DEF IsView

\* The directory d of the last iterator is changed, and its cache with it.
Rewrites(s, s2, h, list, way, home, h2, list2, way2, home2, d, p) ==
  /\ Shape(h, list, way, home) /\ Shape(h2, list2, way2, home2)
  /\ IsStack(s, h, list, way)
  /\ d \in InfosOf(h) /\ s[Len(s)].path = way[d] /\ OnlyIn(h, list, way, h2, list2, way2, d)
  /\ p \in 1 .. Len(list2[d]) + 1
  /\ s2 = [s EXCEPT ![Len(s)] = View(d, h2, list2, way2, p)]

\* A rewrite below the innermost iterator's directory leaves the callers' caches
\* right, since each caller is in a directory above.
LEMMA StackKept ==
  ASSUME NEW h, NEW list, NEW way, NEW home, NEW h2, NEW list2, NEW way2, NEW home2,
         NEW s, NEW s2, NEW d, NEW p,
         Rewrites(s, s2, h, list, way, home, h2, list2, way2, home2, d, p)
  PROVE  /\ IsStack(s2, h2, list2, way2)
         /\ Last(s2) = View(d, h2, list2, way2, p) /\ Last(s2).path = Last(s).path
<1>0. PICK n, i : n = Len(s) /\ i = View(d, h2, list2, way2, p)
  OBVIOUS
<1>a. /\ Shape(h, list, way, home) /\ Shape(h2, list2, way2, home2)
      /\ IsStack(s, h, list, way)
      /\ d \in InfosOf(h) /\ s[n].path = way[d] /\ OnlyIn(h, list, way, h2, list2, way2, d)
      /\ p \in 1 .. Len(list2[d]) + 1
      /\ s2 = [s EXCEPT ![n] = i]
  BY <1>0 DEF Rewrites
<1> USE <1>0, <1>a
<1>1. /\ s \in Seq(Iterators) /\ n \in 1 .. MaxCalls /\ n \in Nat
      /\ \A k \in 1 .. n : IsView(s[k], h, list, way)
      /\ \A j, k \in 1 .. n : j < k => Len(s[j].path) < Len(s[k].path)
      /\ \A k \in 1 .. n - 1 : s[k + 1].path # << >> /\ Front(s[k + 1].path) = s[k].path
  BY CallsAreNumber DEF IsStack
<1>2. d \in InfosOf(h2) /\ way2[d] = way[d]
  BY DEF OnlyIn
<1>3. i \in Iterators /\ i.path = way[d]
  BY <1>2, ViewParts
<1>4. n \in 1 .. n
  BY <1>1
<1>5. s2 \in Seq(Iterators) /\ Len(s2) = n /\ \A k \in 1 .. n : s2[k] = IF k = n THEN i ELSE s[k]
  <2>1. n \in 1 .. Len(s)
    BY <1>4
  <2>2. \A x \in Seq(Iterators) : \A j \in 1 .. Len(x) : \A e \in Iterators :
          /\ [x EXCEPT ![j] = e] \in Seq(Iterators)
          /\ Len([x EXCEPT ![j] = e]) = Len(x)
          /\ \A k \in 1 .. Len(x) : [x EXCEPT ![j] = e][k] = IF k = j THEN e ELSE x[k]
    BY ExceptSeq
  <2> QED
    BY <1>1, <1>3, <2>1, <2>2
<1>6. \A k \in 1 .. n : IsView(s2[k], h2, list2, way2)
  <2> TAKE k \in 1 .. n
  <2>1. CASE k = n
    BY <1>2, <1>5, <2>1 DEF IsView
  <2>2. CASE k # n
    <3>1. s2[k] = s[k] /\ Len(s[k].path) < Len(way[d])
      BY <1>1, <1>4, <1>5, <2>2
    <3> QED
      BY <1>1, <3>1, ViewKept
  <2> QED
    BY <2>1, <2>2
<1>7. \A k \in 1 .. n : s2[k].path = s[k].path
  BY <1>3, <1>5
<1>8. \A k \in 1 .. n - 1 : k \in 1 .. n /\ k + 1 \in 1 .. n
  <2>1. n \in Nat
    BY <1>1
  <2> TAKE k \in 1 .. n - 1
  <2> QED
    BY <2>1
<1>9. IsStack(s2, h2, list2, way2)
  <2>1. \A j, k \in 1 .. n : j < k => Len(s2[j].path) < Len(s2[k].path)
    BY ONLY <1>1, <1>7
  <2>2. \A k \in 1 .. n - 1 : s2[k + 1].path # << >> /\ Front(s2[k + 1].path) = s2[k].path
    <3> TAKE k \in 1 .. n - 1
    <3>1. s2[k + 1].path = s[k + 1].path /\ s2[k].path = s[k].path
      BY <1>7, <1>8
    <3>2. s[k + 1].path # << >> /\ Front(s[k + 1].path) = s[k].path
      BY <1>1
    <3> QED
      BY ONLY <3>1, <3>2
  <2> QED
    BY <1>1, <1>5, <1>6, <2>1, <2>2 DEF IsStack
<1>10. Last(s2) = i /\ Last(s2).path = Last(s).path
  BY <1>4, <1>5, <1>7 DEF Last
<1> QED
  BY ONLY <1>0, <1>9, <1>10

\* An iterator with no callers.
LEMMA OneView ==
  ASSUME NEW h, NEW list, NEW way, NEW home, Shape(h, list, way, home),
         NEW d \in InfosOf(h), NEW i, i = View(d, h, list, way, 1), NEW s, s = <<i>>
  PROVE  IsStack(s, h, list, way) /\ Last(s) = i /\ i.path = way[d]
<1>1. 1 \in 1 .. Len(list[d]) + 1
  BY ListParts
<1>2. i \in Iterators /\ i.path = way[d] /\ IsView(i, h, list, way)
  BY <1>1, ViewParts DEF IsView
<1>3. s \in Seq(Iterators) /\ Len(s) = 1 /\ s[1] = i
  BY <1>2
<1>4. 1 \in 1 .. MaxCalls /\ 1 .. 1 - 1 = {} /\ 1 .. 1 = {1}
  BY CallsAreNumber
<1> QED
  BY <1>2, <1>3, <1>4 DEF IsStack, Last

\* A function is passed a copy of the iterator and goes down.
CallsBelow(h, list, way, home, s, n, d, c, x, i, s2) ==
  /\ Shape(h, list, way, home) /\ IsStack(s, h, list, way) /\ n = Len(s) /\ n < MaxCalls
  /\ d \in InfosOf(h) /\ s[n].path = way[d]
  /\ c \in InfosOf(h) /\ x \in Name /\ way[c] = Append(way[d], x)
  /\ i = View(c, h, list, way, 1) /\ s2 = Append(s, i)

\* A copy of the iterator passed one directory down.
LEMMA StackCalls ==
  ASSUME NEW h, NEW list, NEW way, NEW home, NEW s, NEW n, NEW d, NEW c, NEW x, NEW i, NEW s2,
         CallsBelow(h, list, way, home, s, n, d, c, x, i, s2)
  PROVE  IsStack(s2, h, list, way) /\ Last(s2) = i /\ i.path = way[c]
<1>a. /\ Shape(h, list, way, home) /\ IsStack(s, h, list, way) /\ n = Len(s) /\ n < MaxCalls
      /\ d \in InfosOf(h) /\ s[n].path = way[d]
      /\ c \in InfosOf(h) /\ x \in Name /\ way[c] = Append(way[d], x)
      /\ i = View(c, h, list, way, 1) /\ s2 = Append(s, i)
  BY DEF CallsBelow
<1> USE <1>a
<1>1. /\ s \in Seq(Iterators) /\ n \in 1 .. MaxCalls /\ n \in Nat /\ MaxCalls \in Nat
      /\ \A k \in 1 .. n : IsView(s[k], h, list, way)
      /\ \A j, k \in 1 .. n : j < k => Len(s[j].path) < Len(s[k].path)
      /\ \A k \in 1 .. n - 1 : s[k + 1].path # << >> /\ Front(s[k + 1].path) = s[k].path
  BY CallsAreNumber DEF IsStack
<1>2. 1 \in 1 .. Len(list[c]) + 1
  BY ListParts
<1>3. i \in Iterators /\ i.path = way[c] /\ IsView(i, h, list, way)
  BY <1>2, ViewParts DEF IsView
<1>4. /\ way[d] \in Seq(Name) /\ Len(way[d]) \in Nat
      /\ Front(way[c]) = way[d] /\ way[c] # << >> /\ Len(way[c]) = Len(way[d]) + 1
  <2>1. way[d] \in Seq(Name)
    BY DEF Shape, WaysAreRight
  <2> QED
    BY <2>1, FrontIs
<1>5. /\ s2 \in Seq(Iterators) /\ Len(s2) = n + 1 /\ s2[n + 1] = i
      /\ \A k \in 1 .. n : s2[k] = s[k]
  BY <1>1, <1>3, AppendProperties
<1>6. \A k \in 1 .. n + 1 : k = n + 1 \/ k \in 1 .. n
  BY <1>1
<1>7. \A k \in 1 .. n + 1 : IsView(s2[k], h, list, way)
  BY <1>1, <1>3, <1>5, <1>6
<1>8. \A k \in 1 .. n : s[k].path = way[d] \/ Len(s[k].path) < Len(way[d])
  <2> TAKE k \in 1 .. n
  <2>1. k = n \/ (k < n /\ n \in 1 .. n)
    BY <1>1
  <2> QED
    BY <1>1, <2>1
<1>9. \A k \in 1 .. n : Len(s[k].path) \in Nat
  <2> TAKE k \in 1 .. n
  <2>1. s[k] \in Iterators
    BY <1>1, ElementOfSeq
  <2> QED
    BY <2>1, LenProperties DEF Iterators
<1>10. ASSUME NEW j \in 1 .. n + 1, NEW k \in 1 .. n + 1, j < k
       PROVE  Len(s2[j].path) < Len(s2[k].path)
  <2>1. j \in 1 .. n
    BY <1>1, <1>10
  <2>2. CASE k = n + 1
    <3>1. Len(s2[k].path) = Len(way[d]) + 1
      BY <1>3, <1>4, <1>5, <2>2
    <3>2. Len(s[j].path) \in Nat /\ s2[j] = s[j]
      BY <1>5, <1>9, <2>1
    <3>3. s[j].path = way[d] \/ Len(s[j].path) < Len(way[d])
      BY <1>8, <2>1
    <3> QED
      BY ONLY <1>4, <3>1, <3>2, <3>3
  <2>3. CASE k \in 1 .. n
    BY <1>1, <1>5, <1>10, <2>1, <2>3
  <2> QED
    BY <1>6, <2>2, <2>3
<1>11. ASSUME NEW k \in 1 .. (n + 1) - 1
       PROVE  s2[k + 1].path # << >> /\ Front(s2[k + 1].path) = s2[k].path
  <2>1. k \in 1 .. n
    BY <1>1
  <2>2. CASE k = n
    BY <1>3, <1>4, <1>5, <2>1, <2>2
  <2>3. CASE k # n
    <3>1. k \in 1 .. n - 1 /\ k + 1 \in 1 .. n
      BY <1>1, <2>1, <2>3
    <3> QED
      BY <1>1, <1>5, <2>1, <3>1
  <2> QED
    BY <2>2, <2>3
<1>12. n + 1 \in 1 .. MaxCalls
  BY <1>1
<1>13. IsStack(s2, h, list, way)
  BY <1>5, <1>7, <1>10, <1>11, <1>12 DEF IsStack
<1> QED
  BY <1>3, <1>5, <1>13 DEF Last

\* The function returns to its caller.
LEMMA StackReturns ==
  ASSUME NEW h, NEW list, NEW way, NEW s, IsStack(s, h, list, way), Len(s) > 1,
         NEW s2, s2 = Front(s)
  PROVE  /\ IsStack(s2, h, list, way)
         /\ Last(s).path # << >> /\ Last(s2).path = Front(Last(s).path)
<1>1. PICK n : n = Len(s)
  OBVIOUS
<1>2. /\ s \in Seq(Iterators) /\ n \in 1 .. MaxCalls /\ n \in Nat /\ MaxCalls \in Nat /\ n > 1
      /\ \A k \in 1 .. n : IsView(s[k], h, list, way)
      /\ \A j, k \in 1 .. n : j < k => Len(s[j].path) < Len(s[k].path)
      /\ \A k \in 1 .. n - 1 : s[k + 1].path # << >> /\ Front(s[k + 1].path) = s[k].path
  <2>1. n > 1 /\ MaxCalls \in Nat
    BY <1>1, CallsAreNumber
  <2>2. n \in 1 .. MaxCalls
    BY <1>1 DEF IsStack
  <2>3. n \in Nat
    BY ONLY <2>1, <2>2
  <2> QED
    BY <1>1, <2>1, <2>2, <2>3 DEF IsStack
<1>3. s2 \in Seq(Iterators) /\ Len(s2) = n - 1 /\ \A j \in 1 .. n - 1 : s2[j] = s[j]
  <2>1. s # << >>
    BY <1>1, <1>2
  <2> QED
    BY <1>1, <1>2, <2>1, FrontParts
<1>4. /\ \A k \in 1 .. n - 1 : k \in 1 .. n
      /\ \A k \in 1 .. (n - 1) - 1 : k \in 1 .. n - 1 /\ k + 1 \in 1 .. n - 1
      /\ n - 1 \in 1 .. MaxCalls /\ n - 1 \in 1 .. n - 1 /\ (n - 1) + 1 = n
  BY <1>2
<1>5. IsStack(s2, h, list, way)
  <2>1. \A k \in 1 .. n - 1 : IsView(s2[k], h, list, way)
    BY ONLY <1>2, <1>3, <1>4
  <2>2. \A j, k \in 1 .. n - 1 : j < k => Len(s2[j].path) < Len(s2[k].path)
    BY ONLY <1>2, <1>3, <1>4
  <2>3. ASSUME NEW k \in 1 .. (n - 1) - 1
        PROVE  s2[k + 1].path # << >> /\ Front(s2[k + 1].path) = s2[k].path
    <3>1. k \in 1 .. n - 1 /\ k + 1 \in 1 .. n - 1
      BY <1>4
    <3>2. s2[k + 1] = s[k + 1] /\ s2[k] = s[k]
      BY <1>3, <3>1
    <3>3. s[k + 1].path # << >> /\ Front(s[k + 1].path) = s[k].path
      BY <1>2, <3>1
    <3> QED
      BY ONLY <3>2, <3>3
  <2> QED
    BY ONLY <1>3, <1>4, <2>1, <2>2, <2>3 DEF IsStack
<1>6. s[n].path # << >> /\ Front(s[n].path) = s[n - 1].path
  BY <1>2, <1>4
<1>7. s2[n - 1] = s[n - 1]
  BY <1>3, <1>4
<1> QED
  BY <1>1, <1>3, <1>5, <1>6, <1>7 DEF Last

-----------------------------------------------------------------------------
(* What the operators of the iterator give                                 *)

\* The address a new item gets is free.
LEMMA FreeAddrIsFree ==
  ASSUME NEW h, HasFree(h)
  PROVE  FreeAddr(h) \in Addr \ DOMAIN h
<1>1. Addr \ DOMAIN h \subseteq Nat /\ Addr \ DOMAIN h # {}
  BY RoomForTheRoot DEF HasFree, Addr
<1>2. \E a \in Addr \ DOMAIN h : \A b \in Addr \ DOMAIN h : a <= b
  BY <1>1, LeastNumber
<1> QED
  BY <1>2 DEF FreeAddr

\* The items after one is written, and after one is removed.

\* The heap after an item was removed.
LEMMA WithoutIs ==
  ASSUME NEW h, NEW a
  PROVE  /\ DOMAIN Without(h, a) = DOMAIN h \ {a}
         /\ \A b \in DOMAIN h \ {a} : Without(h, a)[b] = h[b]
  BY DEF Without

\* i is at the entry p of the directory d.
IsAt(i, h, list, way, d, p) ==
  d \in InfosOf(h) /\ p \in 1 .. Len(list[d]) + 1 /\ i = View(d, h, list, way, p)

\* The innermost iterator's cache, entry by entry and with their addresses.
LEMMA IteratorShows ==
  ASSUME NEW h, NEW list, NEW way, NEW home, Shape(h, list, way, home),
         NEW i, NEW d, NEW p, IsAt(i, h, list, way, d, p)
  PROVE  /\ d \in InfosOf(h) /\ p \in 1 .. Len(list[d]) + 1
         /\ i.addr = d /\ i.info = h[d] /\ i.pos = p /\ i.path = way[d]
         /\ i.entries = Entries(d, h, list) /\ i.entries \in Seq(Entry)
         /\ Len(i.entries) = Len(list[d]) /\ Len(list[d]) \in Nat
         /\ \A k \in 1 .. Len(list[d]) : i.entries[k] = h[list[d][k]]
         /\ \A k \in 1 .. Len(list[d]) : AddrAt(i, k) = list[d][k]
         /\ p > Len(list[d]) \/ p \in 1 .. Len(list[d])
<1>1. /\ d \in InfosOf(h) /\ p \in 1 .. Len(list[d]) + 1
      /\ i.addr = d /\ i.info = h[d] /\ i.pos = p /\ i.path = way[d]
      /\ i.entries = Entries(d, h, list) /\ i.entries \in Seq(Entry)
      /\ Len(i.entries) = Len(list[d]) /\ Len(list[d]) \in Nat
      /\ \A k \in 1 .. Len(list[d]) : i.entries[k] = h[list[d][k]]
  BY ViewParts DEF IsAt
<1>2. ASSUME NEW k \in 1 .. Len(list[d])
      PROVE  AddrAt(i, k) = list[d][k]
  <2>1. CASE k = 1
    <3>1. Len(list[d]) # 0
      BY <1>1, <2>1
    <3>2. h[d].array = list[d][1]
      BY <1>1, <3>1, ListParts
    <3> QED
      BY <1>1, <2>1, <3>2 DEF AddrAt
  <2>2. CASE k # 1
    <3>1. k - 1 \in 1 .. Len(list[d]) /\ k - 1 # Len(list[d]) /\ (k - 1) + 1 = k
      BY <1>1, <2>2
    <3>2. h[list[d][k - 1]].next = list[d][k]
      BY <1>1, <3>1, ListParts
    <3> QED
      BY <1>1, <2>2, <3>1, <3>2 DEF AddrAt
  <2> QED
    BY <2>1, <2>2
<1> QED
  BY <1>1, <1>2

\* A directory just loaded is seen from its beginning.
LEMMA LoadedIs ==
  ASSUME NEW h, NEW list, NEW way, NEW home, Shape(h, list, way, home),
         NEW d \in InfosOf(h)
  PROVE  LoadArrayAt(h, d, way[d]) = View(d, h, list, way, 1)
  BY LinkedIs DEF LoadArrayAt, View, Entries

\* A change that rewrites one entry of the iterator's directory.
LEMMA EntryRewritten ==
  ASSUME NEW h, NEW list, NEW way, NEW home, Shape(h, list, way, home),
         NEW i, NEW d, NEW p, IsAt(i, h, list, way, d, p),
         NEW a, p \in 1 .. Len(list[d]), a = list[d][p],
         NEW h2, NEW list2, NEW way2, list2[d] = list[d], way2[d] = way[d], h2[d] = h[d],
         \A x \in EntriesOf(h) \ {a} : h2[x] = h[x]
  PROVE  [i EXCEPT !.entries[i.pos] = h2[a]] = View(d, h2, list2, way2, p)
<1>1. /\ i.pos = p /\ i.entries = Entries(d, h, list) /\ d \in InfosOf(h) /\ Len(list[d]) \in Nat
  BY IteratorShows
<1>2. PICK e : e = Entries(d, h, list)
  OBVIOUS
<1>3. i = [addr |-> d, info |-> h[d], entries |-> e, pos |-> p, path |-> way[d]]
  BY <1>2 DEF IsAt, View
<1>4. [i EXCEPT !.entries[i.pos] = h2[a]]
        = [addr |-> d, info |-> h[d], entries |-> [e EXCEPT ![p] = h2[a]], pos |-> p,
           path |-> way[d]]
  BY <1>3
<1>5. [e EXCEPT ![p] = h2[a]] = Entries(d, h2, list2)
  <2>1. \A k \in 1 .. Len(list[d]) :
          h2[list[d][k]] = IF k = p THEN h2[a] ELSE h[list[d][k]]
    <3> TAKE k \in 1 .. Len(list[d])
    <3>1. CASE k = p
      BY <3>1
    <3>2. CASE k # p
      <4>1. list[d][k] \in EntriesOf(h)
        BY <1>1, ListParts
      <4>2. list[d][k] # a
        BY <1>1, <3>2, ListOnce
      <4> QED
        BY <3>2, <4>1, <4>2
    <3> QED
      BY <3>1, <3>2
  <2>2. /\ e = [k \in 1 .. Len(list[d]) |-> h[list[d][k]]]
        /\ Entries(d, h2, list2) = [k \in 1 .. Len(list[d]) |-> h2[list[d][k]]]
    BY <1>2 DEF Entries
  <2>3. [e EXCEPT ![p] = h2[a]]
          = [k \in 1 .. Len(list[d]) |-> IF k = p THEN h2[a] ELSE h[list[d][k]]]
    BY ONLY <2>2
  <2> QED
    BY ONLY <2>1, <2>2, <2>3
<1> QED
  BY ONLY <1>4, <1>5, list2[d] = list[d], way2[d] = way[d], h2[d] = h[d] DEF View

-----------------------------------------------------------------------------
(* The steps of the tree                                                   *)

\* The entry of a directory is a child of its path.
LEMMA EntryIsChild ==
  ASSUME NEW h, NEW list, NEW way, NEW home, Shape(h, list, way, home),
         NEW a \in EntriesOf(h), NEW t, t = TreeOf(h),
         NEW p, p = PathOf(h, way, home, a), NEW w, w = way[home[a]]
  PROVE  /\ p \in HT!Children(t, w) /\ p \in DOMAIN t /\ t[p] = Shows(h, a)
         /\ p = Append(w, h[a].name) /\ Front(p) = w
<1>1. w \in Seq(Name) /\ h[a].name \in Name /\ p = Append(w, h[a].name)
  BY PathParts, EntryParts DEF PathOf
<1>2. /\ Front(p) = w /\ SubSeq(p, 1, Len(w)) = w /\ Len(p) = Len(w) + 1
  <2>1. PICK x \in Name : x = h[a].name
    BY <1>1
  <2>2. /\ Front(Append(w, x)) = w /\ SubSeq(Append(w, x), 1, Len(w)) = w
        /\ Len(Append(w, x)) = Len(w) + 1
    BY <1>1, FrontIs
  <2> QED
    BY <1>1, <2>1, <2>2
<1>3. p \in DOMAIN t /\ t[p] = Shows(h, a)
  <2>1. Shape(h, list, way, home) /\ a \in EntriesOf(h) /\ p = PathOf(h, way, home, a)
    OBVIOUS
  <2>2. /\ DOMAIN t = {PathOf(h, way, home, b) : b \in EntriesOf(h)}
        /\ \A b \in EntriesOf(h) : t[PathOf(h, way, home, b)] = Shows(h, b)
    BY TreeParts
  <2> QED
    BY ONLY <2>1, <2>2
<1> QED
  BY <1>1, <1>2, <1>3 DEF HT!Children

\* Changes of what an entry shows, from v and w to v2 and w2.
ShownAnew(t, t2, p, v, w, v2, w2) ==
  /\ t = [q \in DOMAIN t |-> t[q]] /\ p \in DOMAIN t /\ t[p] = [data |-> v, dir |-> w]
  /\ t2 = TreeWith(t, p, [data |-> v2, dir |-> w2])

\* A tree changed at one path is the abstract specification's EXCEPT.
LEMMA AnewIs ==
  ASSUME NEW t, NEW t2, NEW p, NEW v, NEW w, NEW v2, NEW w2,
         ShownAnew(t, t2, p, v, w, v2, w2)
  PROVE  /\ w2 = w => t2 = [t EXCEPT ![p].data = v2]
         /\ v2 = v => t2 = [t EXCEPT ![p].dir = w2]
<1>1. /\ t = [q \in DOMAIN t |-> t[q]] /\ p \in DOMAIN t /\ t[p] = [data |-> v, dir |-> w]
      /\ t2 = TreeWith(t, p, [data |-> v2, dir |-> w2])
  BY DEF ShownAnew
<1>2. DOMAIN t \cup {p} = DOMAIN t
  BY <1>1
<1>3. t2 = [q \in DOMAIN t |-> IF q = p THEN [data |-> v2, dir |-> w2] ELSE t[q]]
  BY <1>1, <1>2 DEF TreeWith
<1>4. [t[p] EXCEPT !.data = v2] = [data |-> v2, dir |-> w]
  BY <1>1
<1>5. [t[p] EXCEPT !.dir = w2] = [data |-> v, dir |-> w2]
  BY <1>1
<1>6. [t EXCEPT ![p].data = v2] = [q \in DOMAIN t |-> IF q = p THEN [data |-> v2, dir |-> w] ELSE t[q]]
  BY <1>1, <1>4
<1>7. [t EXCEPT ![p].dir = w2] = [q \in DOMAIN t |-> IF q = p THEN [data |-> v, dir |-> w2] ELSE t[q]]
  BY <1>1, <1>5
<1> QED
  BY <1>3, <1>6, <1>7

-----------------------------------------------------------------------------
(* The inductive invariant                                                 *)

\* The items h have a shape, and the iterators s show what they hold.
IsState(h, s) ==
  \E list, way, home : Shape(h, list, way, home) /\ IsStack(s, h, list, way)

EditState == IsState(heap, iters)

\* A step of HierTree, or none, from the tree t and the directory w.
StepsTo(t, w, t2, w2) ==
  \/ /\ t2 = t
     /\ \/ w2 = w
        \/ w2 \in HT!Children(t, w) /\ t[w2].dir
        \/ w # << >> /\ w2 = SubSeq(w, 1, Len(w) - 1)
        \/ w2 = << >>
  \/ /\ w2 = w
     /\ \/ \E n \in Name : t2 = HT!Created(t, Append(w, n))
        \/ \E p \in HT!Children(t, w) :
             \/ t2 \in HT!DataSet(t, p)
             \/ t2 \in HT!ArrayMade(t, p)
             \/ t2 \in HT!ArrayGone(t, p)
             \/ t2 \in HT!EntryGone(t, p)

\* What a step leads to.
Keeps == IsState(heap', iters') /\ StepsTo(TreeOf(heap), it.path, TreeOf(heap'), it'.path)

\* The iterator at work is at an entry of a directory.
IsNow(list, way, home, n, d, p) ==
  /\ Shape(heap, list, way, home) /\ IsStack(iters, heap, list, way)
  /\ n = Len(iters) /\ n \in 1 .. MaxCalls /\ it = iters[n]
  /\ IsAt(it, heap, list, way, d, p)

\* The parts of the invariant given names for the proofs of the steps.
LEMMA NowIs ==
  ASSUME EditState
  PROVE  \E list, way, home, n, d, p : IsNow(list, way, home, n, d, p)
<1>1. PICK list, way, home : Shape(heap, list, way, home) /\ IsStack(iters, heap, list, way)
  BY DEF EditState, IsState
<1>2. PICK n : n = Len(iters)
  OBVIOUS
<1>3. n \in 1 .. MaxCalls /\ n \in 1 .. n /\ it = iters[n] /\ \A k \in 1 .. n : IsView(iters[k], heap, list, way)
  BY <1>1, <1>2, CallsAreNumber DEF IsStack, it, Last
<1>4. PICK d \in InfosOf(heap) : \E p \in 1 .. Len(list[d]) + 1 : it = View(d, heap, list, way, p)
  BY <1>3 DEF IsView
<1>5. PICK p \in 1 .. Len(list[d]) + 1 : it = View(d, heap, list, way, p)
  BY <1>4
<1>6. IsNow(list, way, home, n, d, p)
  BY <1>1, <1>2, <1>3, <1>5 DEF IsNow, IsAt
<1> QED
  BY <1>6

\* What these parts say of the current iterator.
LEMMA NowParts ==
  ASSUME NEW list, NEW way, NEW home, NEW n, NEW d, NEW p, IsNow(list, way, home, n, d, p)
  PROVE  /\ Shape(heap, list, way, home) /\ d \in InfosOf(heap) /\ p \in 1 .. Len(list[d]) + 1
         /\ it.addr = d /\ it.info = heap[d] /\ it.pos = p /\ it.path = way[d]
         /\ it.entries = Entries(d, heap, list) /\ it.entries \in Seq(Entry)
         /\ Len(it.entries) = Len(list[d]) /\ Len(list[d]) \in Nat
         /\ \A k \in 1 .. Len(list[d]) : it.entries[k] = heap[list[d][k]]
         /\ \A k \in 1 .. Len(list[d]) : AddrAt(it, k) = list[d][k]
         /\ ~Done <=> p \in 1 .. Len(list[d])
         /\ way[d] \in Seq(Name)
<1>1. /\ Shape(heap, list, way, home) /\ d \in InfosOf(heap) /\ p \in 1 .. Len(list[d]) + 1
      /\ it.addr = d /\ it.info = heap[d] /\ it.pos = p /\ it.path = way[d]
      /\ it.entries = Entries(d, heap, list) /\ it.entries \in Seq(Entry)
      /\ Len(it.entries) = Len(list[d]) /\ Len(list[d]) \in Nat
      /\ \A k \in 1 .. Len(list[d]) : it.entries[k] = heap[list[d][k]]
      /\ \A k \in 1 .. Len(list[d]) : AddrAt(it, k) = list[d][k]
  BY IteratorShows DEF IsNow
<1>2. ~Done <=> p \in 1 .. Len(list[d])
  BY <1>1 DEF Done
<1>3. way[d] \in Seq(Name)
  BY <1>1 DEF Shape, WaysAreRight
<1> QED
  BY <1>1, <1>2, <1>3

\* The entry the iterator is at.
LEMMA CurIs ==
  ASSUME NEW list, NEW way, NEW home, NEW n, NEW d, NEW p, IsNow(list, way, home, n, d, p),
         ~Done
  PROVE  \E a \in EntriesOf(heap) :
           /\ p \in 1 .. Len(list[d]) /\ a = list[d][p] /\ home[a] = d
           /\ heap[a] \in Entry /\ Cur = heap[a] /\ AddrAt(it, it.pos) = a
           /\ CanDescend <=> heap[a].child # Null
           /\ HasData <=> heap[a].data # Null
<1>1. /\ Shape(heap, list, way, home) /\ d \in InfosOf(heap) /\ p \in 1 .. Len(list[d])
      /\ it.pos = p /\ it.entries[p] = heap[list[d][p]] /\ AddrAt(it, p) = list[d][p]
  BY NowParts
<1>2. /\ list[d][p] \in EntriesOf(heap) /\ home[list[d][p]] = d /\ heap[list[d][p]] \in Entry
  BY <1>1, ListParts
<1> QED
  BY <1>1, <1>2 DEF Cur, CanDescend, HasData

\* The iterator at work is changed, or moved in its directory.
LEMMA NowChanged ==
  ASSUME NEW list, NEW way, NEW home, NEW n, NEW d, NEW p, IsNow(list, way, home, n, d, p),
         NEW list2, NEW way2, NEW home2, Shape(heap', list2, way2, home2),
         OnlyIn(heap, list, way, heap', list2, way2, d),
         NEW i, NEW p2 \in 1 .. Len(list2[d]) + 1, i = View(d, heap', list2, way2, p2),
         Replaced(i)
  PROVE  IsState(heap', iters') /\ it'.path = it.path
<1>0. /\ Shape(heap, list, way, home) /\ IsStack(iters, heap, list, way)
      /\ n = Len(iters) /\ it = iters[n]
      /\ Shape(heap', list2, way2, home2) /\ OnlyIn(heap, list, way, heap', list2, way2, d)
      /\ p2 \in 1 .. Len(list2[d]) + 1 /\ i = View(d, heap', list2, way2, p2)
  BY DEF IsNow
<1>1. iters' = [iters EXCEPT ![n] = i]
  BY <1>0 DEF Replaced
<1>2. d \in InfosOf(heap) /\ iters[n].path = way[d]
  BY <1>0, NowParts
<1>3. IsStack(iters', heap', list2, way2) /\ Last(iters').path = Last(iters).path
  <2>1. PICK s, s2 : s = iters /\ s2 = iters'
    OBVIOUS
  <2>2. Rewrites(s, s2, heap, list, way, home, heap', list2, way2, home2, d, p2)
    BY <1>0, <1>1, <1>2, <2>1 DEF Rewrites
  <2>3. IsStack(s2, heap', list2, way2) /\ Last(s2).path = Last(s).path
    BY ONLY <2>2, StackKept
  <2> QED
    BY ONLY <2>1, <2>3
<1> QED
  BY <1>3 DEF IsState, it

\* A change that rewrites the entry at hand.
LEMMA EntryRewriteKeeps ==
  ASSUME NEW list, NEW way, NEW home, NEW n, NEW d, NEW p, IsNow(list, way, home, n, d, p),
         ~Done, NEW a, a = list[d][p], NEW list2, NEW way2,
         ChangesEntry(heap, list, way, home, heap', list2, way2, a),
         Replaced([it EXCEPT !.entries[it.pos] = heap'[a]])
  PROVE  /\ IsState(heap', iters') /\ it'.path = it.path
         /\ PathOf(heap, way, home, a) \in HT!Children(TreeOf(heap), it.path)
         /\ \A v, w, v2, w2 :
              Shows(heap, a) = [data |-> v, dir |-> w] /\ Shows(heap', a) = [data |-> v2, dir |-> w2]
                => ShownAnew(TreeOf(heap), TreeOf(heap'), PathOf(heap, way, home, a), v, w, v2, w2)
<1>1. /\ a \in EntriesOf(heap) /\ p \in 1 .. Len(list[d]) /\ home[a] = d
      /\ Shape(heap, list, way, home) /\ it.path = way[d] /\ d \in InfosOf(heap)
  BY CurIs, NowParts
<1>2. /\ Shape(heap', list2, way2, home)
      /\ OnlyIn(heap, list, way, heap', list2, way2, d)
      /\ list2[d] = list[d] /\ heap'[d] = heap[d]
      /\ \A x \in EntriesOf(heap) \ {a} : heap'[x] = heap[x]
      /\ TreeOf(heap') = TreeWith(TreeOf(heap), PathOf(heap, way, home, a), Shows(heap', a))
  BY <1>1 DEF ChangesEntry
<1>3. PICK i : i = [it EXCEPT !.entries[it.pos] = heap'[a]]
  OBVIOUS
<1>4. Replaced(i)
  BY <1>3
<1>5. way2[d] = way[d]
  BY <1>2 DEF OnlyIn
<1>6. i = View(d, heap', list2, way2, p)
  <2>1. IsAt(it, heap, list, way, d, p)
    BY DEF IsNow
  <2> QED
    BY <1>1, <1>2, <1>3, <1>5, <2>1, EntryRewritten
<1>7. p \in 1 .. Len(list2[d]) + 1
  BY <1>2, NowParts
<1>8. IsState(heap', iters') /\ it'.path = it.path
  BY <1>2, <1>4, <1>6, <1>7, NowChanged
<1>9. PICK q, t, t2 : q = PathOf(heap, way, home, a) /\ t = TreeOf(heap) /\ t2 = TreeOf(heap')
  OBVIOUS
<1>10. q \in HT!Children(t, way[d]) /\ q \in DOMAIN t /\ t[q] = Shows(heap, a)
  BY ONLY <1>1, <1>9, EntryIsChild
<1>11. t = [x \in DOMAIN t |-> t[x]]
  BY ONLY <1>1, <1>9, TreeParts
<1>12. ASSUME NEW v, NEW w, NEW v2, NEW w2,
              Shows(heap, a) = [data |-> v, dir |-> w], Shows(heap', a) = [data |-> v2, dir |-> w2]
       PROVE  ShownAnew(t, t2, q, v, w, v2, w2)
  BY ONLY <1>2, <1>9, <1>10, <1>11, <1>12 DEF ShownAnew
<1> QED
  BY ONLY <1>1, <1>8, <1>9, <1>10, <1>12

-----------------------------------------------------------------------------
(* The steps of the iterator                                               *)

\* What this is in the tree.
LEMMA DataSteps ==
  ASSUME NEW h, NEW list, NEW way, NEW home, Shape(h, list, way, home), NEW h2,
         NEW a \in EntriesOf(h), NEW b, GetsData(h, h2, a, b),
         NEW w, w = way[home[a]]
  PROVE  StepsTo(TreeOf(h), w, TreeOf(h2), w)
<1>1. PICK q, t, t2 : q = PathOf(h, way, home, a) /\ t = TreeOf(h) /\ t2 = TreeOf(h2)
  OBVIOUS
<1>2. PICK v, c, v2 : /\ v = Shows(h, a).data /\ c = (h[a].child # Null)
                      /\ v2 = ShownData(h2, b)
  OBVIOUS
<1>3. Shows(h, a) = [data |-> v, dir |-> c]
  BY <1>2 DEF Shows
<1>4. t2 = TreeWith(t, q, Shows(h2, a)) /\ Shows(h2, a) = [data |-> v2, dir |-> c]
  <2>1. GetsData(h, h2, a, b)
    OBVIOUS
  <2>2. /\ ChangesEntry(h, list, way, home, h2, ListIn(list, h, h2), way, a)
        /\ Shows(h2, a) = [data |-> ShownData(h2, b), dir |-> h[a].child # Null]
    BY ONLY <2>1, Shape(h, list, way, home), a \in EntriesOf(h), DataIsChanged
  <2> QED
    BY ONLY <1>1, <1>2, <2>2 DEF ChangesEntry
<1>5. q \in HT!Children(t, w) /\ q \in DOMAIN t /\ t[q] = Shows(h, a)
  BY ONLY <1>1, Shape(h, list, way, home), a \in EntriesOf(h), w = way[home[a]], EntryIsChild
<1>6. t = [x \in DOMAIN t |-> t[x]]
  BY ONLY <1>1, Shape(h, list, way, home), TreeParts
<1>7. ShownAnew(t, t2, q, v, c, v2, c)
  BY ONLY <1>3, <1>4, <1>5, <1>6 DEF ShownAnew
<1>8. t2 = [t EXCEPT ![q].data = v2]
  BY ONLY <1>7, AnewIs
<1>9. v2 \in Payload \cup {NoData}
  BY <1>2 DEF GetsData, ShownData
<1>10. t2 \in HT!DataSet(t, q)
  BY ONLY <1>8, <1>9 DEF HT!DataSet
<1> QED
  BY ONLY <1>1, <1>5, <1>10 DEF StepsTo

\* The entry at hand gets the data b, or none.
LEMMA DataKeeps ==
  ASSUME NEW list, NEW way, NEW home, NEW n, NEW d, NEW p, IsNow(list, way, home, n, d, p),
         ~Done, NEW a, a = list[d][p], NEW b, GetsData(heap, heap', a, b),
         Replaced([it EXCEPT !.entries[it.pos] = heap'[a]])
  PROVE  Keeps
<1>1. /\ a \in EntriesOf(heap) /\ Shape(heap, list, way, home)
      /\ home[a] = d /\ it.path = way[d]
  BY CurIs, NowParts
<1>2. PICK list2 : list2 = ListIn(list, heap, heap')
  OBVIOUS
<1>3. ChangesEntry(heap, list, way, home, heap', list2, way, a)
  <2>1. GetsData(heap, heap', a, b)
    OBVIOUS
  <2>2. ChangesEntry(heap, list, way, home, heap', ListIn(list, heap, heap'), way, a)
    BY ONLY <1>1, <2>1, DataIsChanged
  <2> QED
    BY ONLY <1>2, <2>2
<1>4. IsState(heap', iters') /\ it'.path = it.path
  <2>1. /\ IsNow(list, way, home, n, d, p) /\ ~Done /\ a = list[d][p]
        /\ ChangesEntry(heap, list, way, home, heap', list2, way, a)
        /\ Replaced([it EXCEPT !.entries[it.pos] = heap'[a]])
    BY <1>3
  <2> QED
    BY ONLY <2>1, EntryRewriteKeeps
<1>5. StepsTo(TreeOf(heap), it.path, TreeOf(heap'), it.path)
  BY <1>1, DataSteps
<1> QED
  BY <1>4, <1>5 DEF Keeps

\* cHierDatabaseIter::RemoveData and the freeing of the data item.
LEMMA RemoveDataKeeps ==
  ASSUME EditState, RemoveData
  PROVE  Keeps
<1>1. PICK list, way, home, n, d, p : IsNow(list, way, home, n, d, p)
  BY NowIs
<1>2. HasData /\ ~Done
  BY DEF RemoveData, HasData
<1>3. PICK a \in EntriesOf(heap) :
        /\ p \in 1 .. Len(list[d]) /\ a = list[d][p] /\ home[a] = d
        /\ heap[a] \in Entry /\ Cur = heap[a] /\ AddrAt(it, it.pos) = a
        /\ HasData <=> heap[a].data # Null
  BY <1>1, <1>2, CurIs
<1>4. PICK e, old, h : e = heap[a] /\ old = e.data /\ h = Without(heap, old)
  OBVIOUS
<1>5. /\ old # Null
      /\ heap' = With(h, a, [e EXCEPT !.data = Null])
      /\ Replaced([it EXCEPT !.entries[it.pos] = [e EXCEPT !.data = Null]])
  BY <1>2, <1>3, <1>4 DEF RemoveData, Rewrite
<1>6. a \in DOMAIN heap /\ old # a /\ Null \notin DOMAIN heap
  <2>1. Shape(heap, list, way, home) /\ IsHeap(heap)
    BY <1>1 DEF IsNow, Shape
  <2>2. old \in DatasOf(heap)
    BY <1>3, <1>4, <1>5, <2>1 DEF Shape, DatasAreRight
  <2> QED
    BY <2>1, <2>2, Apart
<1>7. /\ DOMAIN h = DOMAIN heap \ {old}
      /\ \A c \in DOMAIN heap \ {old} : h[c] = heap[c]
      /\ DOMAIN heap' = DOMAIN h \cup {a} /\ heap'[a] = [e EXCEPT !.data = Null]
      /\ \A c \in DOMAIN h \ {a} : heap'[c] = h[c]
  <2>1. h = Without(heap, old)
    BY <1>4
  <2>2. PICK e2 : e2 = [e EXCEPT !.data = Null]
    OBVIOUS
  <2>3. heap' = With(h, a, e2)
    BY <1>5, <2>2
  <2> QED
    BY ONLY <2>1, <2>2, <2>3 DEF With, Without
<1>8. /\ Null \in Addr \cup {Null} /\ Null \notin DOMAIN heap \ {old}
      /\ DOMAIN heap' = (DOMAIN heap \ {old}) \cup ({Null} \ {Null})
      /\ \A c \in DOMAIN heap \ {a, Null, old} : heap'[c] = heap[c]
  BY <1>6, <1>7
<1>9. a = list[d][p] /\ e = heap[a] /\ old = e.data
  BY <1>3, <1>4
<1>10. GetsData(heap, heap', a, Null)
  BY <1>7, <1>8, <1>9 DEF GetsData
<1>11. Replaced([it EXCEPT !.entries[it.pos] = heap'[a]])
  BY <1>5, <1>7
<1> QED
  BY ONLY <1>1, <1>2, <1>9, <1>10, <1>11, DataKeeps

\* cHierDatabaseIter::SetData, which removes the old data first, with an
\* iterator that has the entry right.
LEMMA SetDataGets ==
  ASSUME NEW list, NEW way, NEW home, Shape(heap, list, way, home),
         NEW a \in EntriesOf(heap), Cur = heap[a], AddrAt(it, it.pos) = a, ~Done,
         NEW v \in Payload, SetData(v)
  PROVE  \E b : /\ GetsData(heap, heap', a, b) /\ b # Null
                /\ Replaced([it EXCEPT !.entries[it.pos] = heap'[a]])
<1>3. /\ a \in EntriesOf(heap) /\ heap[a] \in Entry
      /\ Cur = heap[a] /\ AddrAt(it, it.pos) = a
      /\ HasData <=> heap[a].data # Null
  BY EntryParts DEF HasData
<1>4. PICK e, old, h : /\ e = heap[a] /\ old = e.data
                       /\ h = IF HasData THEN Without(heap, Cur.data) ELSE heap
  OBVIOUS
<1>5. PICK b : b = FreeAddr(h)
  OBVIOUS
<1>6. /\ HasFree(h)
      /\ heap' = With(With(h, b, Data(v)), a, [e EXCEPT !.data = b])
      /\ Replaced([it EXCEPT !.entries[it.pos] = [e EXCEPT !.data = b]])
  BY <1>3, <1>4, <1>5 DEF SetData, Rewrite
<1>7. b \in Addr \ DOMAIN h
  BY <1>5, <1>6, FreeAddrIsFree
<1>8. Shape(heap, list, way, home) /\ IsHeap(heap) /\ Null \notin DOMAIN heap /\ a \in DOMAIN heap
  BY <1>3, Apart DEF Shape
<1>9. old # a
  <2>1. old # Null => old \in DatasOf(heap)
    BY <1>3, <1>4, <1>8 DEF Shape, DatasAreRight
  <2> QED
    BY <1>3, <1>8, <2>1, Apart
<1>10. /\ DOMAIN h = DOMAIN heap \ {old}
       /\ \A c \in DOMAIN heap \ {old} : h[c] = heap[c]
  <2>1. CASE HasData
    <3>1. h = Without(heap, old)
      BY <1>3, <1>4, <2>1
    <3> QED
      BY ONLY <3>1, WithoutIs
  <2>2. CASE ~HasData
    BY <1>3, <1>4, <1>8, <2>2
  <2> QED
    BY <2>1, <2>2
<1>11. PICK g : g = With(h, b, Data(v))
  OBVIOUS
<1>12. /\ DOMAIN g = DOMAIN h \cup {b} /\ g[b] = Data(v)
       /\ \A c \in DOMAIN h \ {b} : g[c] = h[c]
       /\ DOMAIN heap' = DOMAIN g \cup {a} /\ heap'[a] = [e EXCEPT !.data = b]
       /\ \A c \in DOMAIN g \ {a} : heap'[c] = g[c]
  <2>1. PICK x : x = [e EXCEPT !.data = b]
    OBVIOUS
  <2>2. heap' = With(g, a, x)
    BY <1>6, <1>11, <2>1
  <2>3. PICK y : y = Data(v)
    OBVIOUS
  <2>4. g = With(h, b, y)
    BY <1>11, <2>3
  <2> QED
    BY ONLY <2>1, <2>2, <2>3, <2>4 DEF With
<1>13. b # a /\ b # Null /\ a \in DOMAIN h
  BY <1>7, <1>8, <1>9, <1>10 DEF Addr, Null
<1>14. /\ b \in Addr \cup {Null} /\ b \notin DOMAIN heap \ {old}
       /\ DOMAIN heap' = (DOMAIN heap \ {old}) \cup ({b} \ {Null})
       /\ \A c \in DOMAIN heap \ {a, b, old} : heap'[c] = heap[c]
  BY <1>7, <1>10, <1>12, <1>13
<1>15. heap'[b] \in [kind : {"data"}, value : Payload]
  BY <1>12, <1>13 DEF Data
<1>16. e = heap[a] /\ old = e.data
  BY <1>4
<1>17. GetsData(heap, heap', a, b)
  BY <1>12, <1>14, <1>15, <1>16 DEF GetsData
<1>18. Replaced([it EXCEPT !.entries[it.pos] = heap'[a]])
  BY <1>6, <1>12
<1> QED
  BY <1>13, <1>17, <1>18

LEMMA SetDataKeeps ==
  ASSUME EditState, NEW v \in Payload, SetData(v)
  PROVE  Keeps
<1>1. PICK list, way, home, n, d, p : IsNow(list, way, home, n, d, p)
  BY NowIs
<1>2. ~Done /\ Shape(heap, list, way, home)
  BY <1>1 DEF SetData, IsNow
<1>3. PICK a \in EntriesOf(heap) :
        a = list[d][p] /\ Cur = heap[a] /\ AddrAt(it, it.pos) = a
  BY <1>1, <1>2, CurIs
<1>4. PICK b : /\ GetsData(heap, heap', a, b)
               /\ Replaced([it EXCEPT !.entries[it.pos] = heap'[a]])
  BY <1>2, <1>3, SetDataGets
<1> QED
  BY ONLY <1>1, <1>2, <1>3, <1>4, DataKeeps

\* cHierDatabaseIter::CreateChildArray.
LEMMA CreateChildArrayKeeps ==
  ASSUME EditState, CreateChildArray
  PROVE  Keeps
<1>1. PICK list, way, home, n, d, p : IsNow(list, way, home, n, d, p)
  BY NowIs
<1>2. PICK c : c = FreeAddr(heap)
  OBVIOUS
<1>3. ~Done /\ ~CanDescend /\ Len(it.path) < MaxDepth - 1 /\ HasFree(heap)
  BY DEF CreateChildArray
<1>4. PICK a \in EntriesOf(heap) :
        /\ p \in 1 .. Len(list[d]) /\ a = list[d][p] /\ home[a] = d
        /\ heap[a] \in Entry /\ Cur = heap[a] /\ AddrAt(it, it.pos) = a
        /\ CanDescend <=> heap[a].child # Null
  BY <1>1, <1>3, CurIs
<1>5. PICK e, h : e = [heap[a] EXCEPT !.child = c] /\ h = With(heap, c, Info(it.addr, Null))
  OBVIOUS
<1>6. /\ heap' = With(h, a, e)
      /\ Replaced([it EXCEPT !.entries[it.pos] = e])
  BY <1>2, <1>4, <1>5 DEF CreateChildArray, Rewrite
<1>7. /\ Shape(heap, list, way, home) /\ IsHeap(heap) /\ a \in DOMAIN heap /\ it.addr = d
      /\ it.path = way[d]
  BY <1>1, <1>4, NowParts, Apart DEF Shape
<1>8. c \in Addr /\ c \notin DOMAIN heap
  BY <1>2, <1>3, FreeAddrIsFree
<1>9. /\ DOMAIN heap' = DOMAIN heap \cup {c}
      /\ \A x \in DOMAIN heap \ {a} : heap'[x] = heap[x]
      /\ heap'[a] = e /\ heap'[c] = Info(d, Null)
  BY ONLY <1>5, <1>6, <1>7, <1>8 DEF With
<1>10. GetsChild(heap, heap', a, c, home[a])
  BY <1>3, <1>4, <1>5, <1>8, <1>9 DEF GetsChild
<1>11. PICK way2 : way2 = WayWith(heap, way, home, heap', a, c)
  OBVIOUS
<1>12. PICK q, t, t2 : q = PathOf(heap, way, home, a) /\ t = TreeOf(heap) /\ t2 = TreeOf(heap')
  OBVIOUS
<1>13. PICK v, no, yes : v = Shows(heap, a).data /\ no = FALSE /\ yes = TRUE
  OBVIOUS
<1>14. Shows(heap, a) = [data |-> v, dir |-> no]
  BY <1>3, <1>4, <1>13 DEF Shows
<1>15. PICK list2 : list2 = ListIn(list, heap, heap')
  OBVIOUS
<1>16. /\ ChangesEntry(heap, list, way, home, heap', list2, way2, a)
       /\ Shows(heap', a) = [data |-> v, dir |-> yes]
  <2>1. a \in EntriesOf(heap) /\ Len(way[home[a]]) < MaxDepth - 1
    BY <1>3, <1>4, <1>7
  <2>2. /\ ChangesEntry(heap, list, way, home, heap', list2, way2, a)
        /\ Shows(heap', a) = [data |-> Shows(heap, a).data, dir |-> TRUE]
    BY ONLY <1>7, <1>10, <1>11, <1>15, <2>1, ChildIsMade
  <2> QED
    BY ONLY <1>13, <2>2
<1>17. /\ IsState(heap', iters') /\ it'.path = it.path
       /\ q \in HT!Children(t, it.path) /\ ShownAnew(t, t2, q, v, no, v, yes)
  <2>2. a = list[d][p] /\ Replaced([it EXCEPT !.entries[it.pos] = heap'[a]])
    BY <1>4, <1>6, <1>9
  <2> QED
    BY ONLY <1>1, <1>3, <1>12, <1>14, <1>16, <2>2, EntryRewriteKeeps
<1>18. t2 = [t EXCEPT ![q].dir = TRUE]
  <2>1. t2 = [t EXCEPT ![q].dir = yes]
    BY ONLY <1>17, AnewIs
  <2> QED
    BY <1>13, <2>1
<1>19. ~t[q].dir
  BY <1>13, <1>17 DEF ShownAnew
<1>20. t2 \in HT!ArrayMade(t, q)
  BY <1>18, <1>19 DEF HT!ArrayMade
<1>21. StepsTo(t, it.path, t2, it'.path)
  BY <1>17, <1>20 DEF StepsTo
<1> QED
  BY <1>12, <1>17, <1>21 DEF Keeps

\* cHierDatabaseIter::DeleteChildArray, for a child array without entries.
LEMMA DeleteChildArrayKeeps ==
  ASSUME EditState, DeleteChildArray
  PROVE  Keeps
<1>1. PICK list, way, home, n, d, p : IsNow(list, way, home, n, d, p)
  BY NowIs
<1>2. CanDescend /\ ~Done
  BY DEF DeleteChildArray, CanDescend
<1>3. PICK a \in EntriesOf(heap) :
        /\ p \in 1 .. Len(list[d]) /\ a = list[d][p] /\ home[a] = d
        /\ heap[a] \in Entry /\ Cur = heap[a] /\ AddrAt(it, it.pos) = a
        /\ CanDescend <=> heap[a].child # Null
  BY <1>1, <1>2, CurIs
<1>4. PICK c, e, h : /\ c = heap[a].child /\ e = [heap[a] EXCEPT !.child = Null]
                     /\ h = Without(heap, c)
  OBVIOUS
<1>5. /\ heap[c].array = Null /\ c # Null
      /\ heap' = With(h, a, e)
      /\ Replaced([it EXCEPT !.entries[it.pos] = e])
  BY <1>2, <1>3, <1>4 DEF DeleteChildArray, Rewrite
<1>6. /\ Shape(heap, list, way, home) /\ IsHeap(heap) /\ a \in DOMAIN heap
      /\ it.path = way[d]
  BY <1>1, <1>3, NowParts, Apart DEF Shape
<1>7. c # a
  BY <1>3, <1>4, <1>5, <1>6, Apart DEF Shape, WaysAreRight
<1>8. /\ DOMAIN heap' = DOMAIN heap \ {c}
      /\ \A x \in DOMAIN heap' \ {a} : heap'[x] = heap[x]
      /\ heap'[a] = e
  BY ONLY <1>4, <1>5, <1>6, <1>7 DEF With, Without
<1>9. LosesChild(heap, heap', a, c)
  BY <1>4, <1>5, <1>8 DEF LosesChild
<1>10. PICK way2 : way2 = WayIn(way, heap')
  OBVIOUS
<1>11. PICK q, t, t2 : q = PathOf(heap, way, home, a) /\ t = TreeOf(heap) /\ t2 = TreeOf(heap')
  OBVIOUS
<1>12. PICK v, no, yes : v = Shows(heap, a).data /\ no = FALSE /\ yes = TRUE
  OBVIOUS
<1>13. Shows(heap, a) = [data |-> v, dir |-> yes]
  BY <1>2, <1>3, <1>12 DEF Shows
<1>14. PICK list2 : list2 = ListIn(list, heap, heap')
  OBVIOUS
<1>15. /\ ChangesEntry(heap, list, way, home, heap', list2, way2, a)
       /\ Shows(heap', a) = [data |-> v, dir |-> no]
       /\ \A b \in EntriesOf(heap) : home[b] # c
       /\ way[c] = q
  <2>1. a \in EntriesOf(heap)
    OBVIOUS
  <2>2. /\ ChangesEntry(heap, list, way, home, heap', list2, way2, a)
        /\ Shows(heap', a) = [data |-> Shows(heap, a).data, dir |-> FALSE]
        /\ \A b \in EntriesOf(heap) : home[b] # c
        /\ way[c] = PathOf(heap, way, home, a)
    BY ONLY <1>6, <1>9, <1>10, <1>14, <2>1, ChildIsDropped
  <2> QED
    BY ONLY <1>11, <1>12, <2>2
<1>16. /\ IsState(heap', iters') /\ it'.path = it.path
       /\ q \in HT!Children(t, it.path) /\ ShownAnew(t, t2, q, v, yes, v, no)
  <2>2. a = list[d][p] /\ Replaced([it EXCEPT !.entries[it.pos] = heap'[a]])
    BY <1>3, <1>5, <1>8
  <2> QED
    BY ONLY <1>1, <1>2, <1>11, <1>13, <1>15, <2>2, EntryRewriteKeeps
<1>17. t2 = [t EXCEPT ![q].dir = FALSE] /\ t[q].dir
  <2>1. t[q].dir
    BY <1>12, <1>16 DEF ShownAnew
  <2>2. t2 = [t EXCEPT ![q].dir = no]
    BY ONLY <1>16, AnewIs
  <2> QED
    BY <1>12, <2>1, <2>2
<1>18. HT!Children(t, q) = {}
  <2> SUFFICES ASSUME NEW r \in DOMAIN t, Len(r) = Len(q) + 1, SubSeq(r, 1, Len(q)) = q
               PROVE  FALSE
    BY DEF HT!Children
  <2>1. PICK b \in EntriesOf(heap) : r = PathOf(heap, way, home, b)
    <3>1. DOMAIN t = {PathOf(heap, way, home, b) : b \in EntriesOf(heap)}
      BY ONLY <1>6, <1>11, TreeParts
    <3> QED
      BY <3>1
  <2>2. PICK w : w = way[home[b]]
    OBVIOUS
  <2>3. /\ w \in Seq(Name) /\ heap[b].name \in Name /\ r = Append(w, heap[b].name)
        /\ home[b] \in InfosOf(heap)
    BY <1>6, <2>1, <2>2, PathParts, EntryParts DEF PathOf
  <2>4. Len(r) = Len(w) + 1 /\ SubSeq(r, 1, Len(w)) = w /\ Len(w) \in Nat
    BY <2>3, FrontIs
  <2>5. q \in Seq(Name) /\ Len(q) \in Nat
    BY <1>6, <1>11, PathParts, LenProperties
  <2>6. w = q
    BY <2>4, <2>5
  <2>7. c \in InfosOf(heap)
    BY <1>4, <1>5, <1>6 DEF Shape, WaysAreRight
  <2>8. home[b] = c
    <3>1. \A x, y \in InfosOf(heap) : way[x] = way[y] => x = y
      BY <1>6 DEF Shape, WaysAreRight
    <3>2. way[home[b]] = way[c]
      BY <1>15, <2>2, <2>6
    <3> QED
      BY ONLY <2>3, <2>7, <3>1, <3>2
  <2> QED
    BY <1>15, <2>8
<1>19. t2 \in HT!ArrayGone(t, q)
  BY <1>17, <1>18 DEF HT!ArrayGone
<1>20. StepsTo(t, it.path, t2, it'.path)
  BY <1>16, <1>19 DEF StepsTo
<1> QED
  BY <1>11, <1>16, <1>20 DEF Keeps

\* The iterator moves in its directory.
LEMMA MovedKeeps ==
  ASSUME EditState, NEW k \in 1 .. Len(it.entries) + 1,
         Replaced([it EXCEPT !.pos = k]), UNCHANGED heap
  PROVE  Keeps
<1>1. PICK list, way, home, n, d, p : IsNow(list, way, home, n, d, p)
  BY NowIs
<1>2. /\ Shape(heap, list, way, home) /\ d \in InfosOf(heap) /\ k \in 1 .. Len(list[d]) + 1
  BY <1>1, NowParts
<1>3. [it EXCEPT !.pos = k] = View(d, heap, list, way, k)
  <2>1. it = View(d, heap, list, way, p)
    BY <1>1 DEF IsNow, IsAt
  <2> QED
    BY <2>1 DEF View
<1>4. OnlyIn(heap, list, way, heap', list, way, d)
  BY <1>2 DEF OnlyIn
<1>5. /\ Shape(heap', list, way, home) /\ Replaced(View(d, heap', list, way, k))
  BY <1>2, <1>3
<1>6. IsState(heap', iters') /\ it'.path = it.path
  BY ONLY <1>1, <1>2, <1>4, <1>5, NowChanged
<1>7. StepsTo(TreeOf(heap), it.path, TreeOf(heap'), it'.path)
  BY <1>6 DEF StepsTo
<1> QED
  BY <1>6, <1>7 DEF Keeps

\* Moving in the cached directory reads and writes nothing.
LEMMA SeekKeeps ==
  ASSUME EditState, Seek
  PROVE  Keeps
  BY MovedKeeps DEF Seek

\* Where a name belongs in the directory.
LEMMA BoundIs ==
  ASSUME NEW list, NEW way, NEW home, NEW m, NEW d, NEW p, IsNow(list, way, home, m, d, p),
         NEW n \in Name
  PROVE  /\ Bound(n) \in 1 .. Len(list[d]) + 1
         /\ \A j \in 1 .. Bound(n) - 1 : heap[list[d][j]].name < n
         /\ Bound(n) <= Len(list[d]) => heap[list[d][Bound(n)]].name >= n
<1>1. /\ Len(it.entries) = Len(list[d]) /\ Len(list[d]) \in Nat
      /\ \A k \in 1 .. Len(list[d]) : it.entries[k] = heap[list[d][k]]
      /\ Shape(heap, list, way, home) /\ d \in InfosOf(heap)
  BY NowParts
<1>2. \A k \in 1 .. Len(list[d]) : it.entries[k].name \in Nat
  <2> TAKE k \in 1 .. Len(list[d])
  <2>1. heap[list[d][k]] \in Entry
    BY <1>1, ListParts
  <2> QED
    BY <1>1, <2>1, NamesAreOrdered DEF Entry
<1> DEFINE Fits(k) == /\ \A j \in 1 .. k - 1 : it.entries[j].name < n
                      /\ k <= Len(it.entries) => it.entries[k].name >= n
           S == {k \in 1 .. Len(it.entries) + 1 : k <= Len(it.entries) => it.entries[k].name >= n}
<1>3. S \in SUBSET Nat /\ S # {}
  <2>1. Len(it.entries) + 1 \in S
    BY <1>1
  <2> QED
    BY <2>1
<1>4. PICK k \in S : \A j \in S : k <= j
  <2> HIDE DEF S
  <2> QED
    BY <1>3, LeastNumber
<1>5. k \in 1 .. Len(it.entries) + 1 /\ Fits(k)
  <2>1. k \in 1 .. Len(it.entries) + 1 /\ (k <= Len(it.entries) => it.entries[k].name >= n)
    OBVIOUS
  <2>2. ASSUME NEW j \in 1 .. k - 1
        PROVE  it.entries[j].name < n
    <3>1. j \in 1 .. Len(it.entries) /\ j < k
      BY <1>1, <2>1
    <3>2. ~(k <= j)
      BY <1>1, <2>1, <3>1
    <3>3. j \notin S
      BY <1>4, <3>2
    <3>4. ~(it.entries[j].name >= n)
      BY <1>1, <3>1, <3>3
    <3> QED
      BY <1>1, <1>2, <3>1, <3>4, NamesAreOrdered
  <2> QED
    BY <2>1, <2>2
<1>6. Bound(n) \in 1 .. Len(it.entries) + 1 /\ Fits(Bound(n))
  <2>1. Bound(n) = CHOOSE x \in 1 .. Len(it.entries) + 1 : Fits(x)
    BY DEF Bound
  <2> HIDE DEF Fits
  <2> QED
    BY <1>5, <2>1
<1>7. PICK b : b = Bound(n)
  OBVIOUS
<1>8. /\ b \in 1 .. Len(list[d]) + 1
      /\ \A j \in 1 .. b - 1 : j \in 1 .. Len(list[d]) /\ it.entries[j].name < n
      /\ b <= Len(list[d]) => b \in 1 .. Len(list[d]) /\ it.entries[b].name >= n
  BY <1>1, <1>6, <1>7
<1> QED
  BY <1>1, <1>7, <1>8

\* The list an iterator has after an insertion, and after a removal.
Grows(h2, E, s, k, a, es, list2, d) ==
  /\ s \in Seq(E) /\ k \in 1 .. Len(s) + 1 /\ a \in E \cup Addr
  /\ Len(es) = Len(s) /\ \A j \in 1 .. Len(s) : es[j] = h2[s[j]]
  /\ list2[d] = Ins(s, k, a)

\* The cache with the new entry inserted is the cache of the new list.
LEMMA ListGrows ==
  ASSUME NEW h2, NEW E, NEW s, NEW k, NEW a, NEW es, NEW list2, NEW d,
         Grows(h2, E, s, k, a, es, list2, d)
  PROVE  /\ Ins(es, k, h2[a]) = Entries(d, h2, list2)
         /\ k \in 1 .. Len(list2[d]) + 1
<1>a. /\ s \in Seq(E) /\ k \in 1 .. Len(s) + 1 /\ a \in E \cup Addr
      /\ Len(es) = Len(s) /\ \A j \in 1 .. Len(s) : es[j] = h2[s[j]]
      /\ list2[d] = Ins(s, k, a)
  BY DEF Grows
<1>0. PICK U : U = E \cup Addr
  OBVIOUS
<1>1. s \in Seq(U) /\ Len(s) \in Nat /\ a \in U
  BY <1>a, <1>0, LenProperties, SeqDef
<1>2. /\ Len(Ins(s, k, a)) = Len(s) + 1
      /\ \A j \in 1 .. Len(s) + 1 :
           Ins(s, k, a)[j] = IF j < k THEN s[j] ELSE IF j = k THEN a ELSE s[j - 1]
  <2>1. k \in 1 .. Len(s) + 1
    BY <1>a
  <2>2. Len(Ins(s, k, a)) = Len(s) + 1
    BY ONLY <1>1, <2>1, InsertedList
  <2> QED
    BY <2>2 DEF Ins
<1> USE <1>a
<1>3. Ins(es, k, h2[a]) = [j \in 1 .. Len(s) + 1 |->
                             IF j < k THEN es[j] ELSE IF j = k THEN h2[a] ELSE es[j - 1]]
  BY DEF Ins
<1>4. ASSUME NEW j \in 1 .. Len(s) + 1
      PROVE  (IF j < k THEN es[j] ELSE IF j = k THEN h2[a] ELSE es[j - 1]) = h2[Ins(s, k, a)[j]]
  <2>1. CASE j < k
    <3>1. j \in 1 .. Len(s)
      BY <1>1, <2>1
    <3> QED
      BY <1>2, <2>1, <3>1
  <2>2. CASE j = k
    BY <1>2, <2>2
  <2>3. CASE j > k
    <3>1. j - 1 \in 1 .. Len(s) /\ ~(j < k) /\ j # k
      BY <1>1, <2>3
    <3> QED
      BY <1>2, <3>1
  <2> QED
    BY <1>1, <2>1, <2>2, <2>3
<1>5. Entries(d, h2, list2) = [j \in 1 .. Len(s) + 1 |-> h2[Ins(s, k, a)[j]]]
  BY <1>2 DEF Entries
<1> QED
  BY <1>1, <1>2, <1>3, <1>4, <1>5

Shrinks(h2, E, s, k, es, list2, d) ==
  /\ s \in Seq(E) /\ k \in 1 .. Len(s)
  /\ Len(es) = Len(s) /\ \A j \in 1 .. Len(s) : j # k => es[j] = h2[s[j]]
  /\ list2[d] = Del(s, k)

\* The cache without the entry is the cache of the shorter list.
LEMMA ListShrinks ==
  ASSUME NEW h2, NEW E, NEW s, NEW k, NEW es, NEW list2, NEW d,
         Shrinks(h2, E, s, k, es, list2, d)
  PROVE  /\ Del(es, k) = Entries(d, h2, list2)
         /\ k \in 1 .. Len(list2[d]) + 1
<1>a. /\ s \in Seq(E) /\ k \in 1 .. Len(s)
      /\ Len(es) = Len(s) /\ \A j \in 1 .. Len(s) : j # k => es[j] = h2[s[j]]
      /\ list2[d] = Del(s, k)
  BY DEF Shrinks
<1> USE <1>a
<1>1. /\ Len(Del(s, k)) = Len(s) - 1 /\ Len(s) \in Nat \ {0}
      /\ \A j \in 1 .. Len(s) - 1 : Del(s, k)[j] = IF j < k THEN s[j] ELSE s[j + 1]
  BY RemovedList
<1>2. Del(es, k) = [j \in 1 .. Len(s) - 1 |-> IF j < k THEN es[j] ELSE es[j + 1]]
  BY DEF Del
<1>3. ASSUME NEW j \in 1 .. Len(s) - 1
      PROVE  (IF j < k THEN es[j] ELSE es[j + 1]) = h2[Del(s, k)[j]]
  <2>1. CASE j < k
    <3>1. j \in 1 .. Len(s) /\ j # k
      BY <1>1, <2>1
    <3> QED
      BY <1>1, <2>1, <3>1
  <2>2. CASE ~(j < k)
    <3>1. j + 1 \in 1 .. Len(s) /\ j + 1 # k
      BY <1>1, <2>2
    <3> QED
      BY <1>1, <2>2, <3>1
  <2> QED
    BY <2>1, <2>2
<1>4. Entries(d, h2, list2) = [j \in 1 .. Len(s) - 1 |-> h2[Del(s, k)[j]]]
  BY <1>1 DEF Entries
<1> QED
  BY <1>1, <1>2, <1>3, <1>4

\* An info item is its parent and its array.
LEMMA InfoIs ==
  ASSUME NEW h, IsHeap(h), NEW d \in InfosOf(h), NEW a
  PROVE  /\ [h[d] EXCEPT !.array = a] = Info(h[d].parent, a)
<1>1. PICK x : x = h[d]
  OBVIOUS
<1>2. d \in DOMAIN h
  BY DEF InfosOf
<1>3. x \in [kind : {"info"}, parent : Addr \cup {Null}, array : Addr \cup {Null}]
  BY <1>1, <1>2, NodeKinds
<1>4. [x EXCEPT !.array = a] = Info(x.parent, a)
  BY <1>3 DEF Info
<1> QED
  BY <1>1, <1>4

\* cHierDatabaseIter::DeleteEntry, first in the list or after another.
LEMMA DeleteEntryKeeps ==
  ASSUME EditState, DeleteEntry
  PROVE  Keeps
<1>1. PICK list, way, home, n, d, k : IsNow(list, way, home, n, d, k)
  BY NowIs
<1>2. ~Done /\ ~CanDescend /\ ~HasData
  BY DEF DeleteEntry
<1>3. PICK a \in EntriesOf(heap) :
        /\ k \in 1 .. Len(list[d]) /\ a = list[d][k] /\ home[a] = d
        /\ heap[a] \in Entry /\ Cur = heap[a] /\ AddrAt(it, it.pos) = a
        /\ heap[a].child = Null /\ heap[a].data = Null
  BY <1>1, <1>2, CurIs
<1>4. PICK s, l, b : s = list[d] /\ l = Link(s, d, k) /\ b = heap[a].next
  OBVIOUS
<1>5. PICK x : x = Linking(heap, s, d, k, b)
  OBVIOUS
<1>6. /\ Shape(heap, list, way, home) /\ IsHeap(heap) /\ d \in InfosOf(heap)
      /\ it = View(d, heap, list, way, k)
      /\ it.addr = d /\ it.info = heap[d] /\ it.pos = k /\ it.path = way[d]
      /\ it.entries \in Seq(Entry) /\ Len(it.entries) = Len(s) /\ Len(s) \in Nat
      /\ k \in 1 .. Len(s)
      /\ \A j \in 1 .. Len(s) : it.entries[j] = heap[s[j]]
      /\ \A j \in 1 .. Len(s) : AddrAt(it, j) = s[j]
      /\ s \in Seq(EntriesOf(heap))
  <2>1. it = View(d, heap, list, way, k) /\ Shape(heap, list, way, home) /\ IsHeap(heap)
    BY <1>1 DEF IsNow, IsAt, Shape
  <2>2. d \in InfosOf(heap)
    BY <1>1, NowParts
  <2>3. list[d] \in Seq(EntriesOf(heap))
    BY <2>1, <2>2, ListParts
  <2> QED
    BY <1>1, <1>3, <1>4, <2>1, <2>2, <2>3, NowParts
<1>7. b \in Addr \cup {Null}
  BY <1>3, <1>4 DEF Entry
<1>8. /\ l \in DOMAIN heap /\ x \in Node
      /\ k = 1 => l = d /\ x = Info(heap[d].parent, b)
      /\ k > 1 => k - 1 \in 1 .. Len(s) /\ l = s[k - 1] /\ l \in EntriesOf(heap) /\ x \in Entry
  <2>1. k \in 1 .. Len(list[d]) + 1
    BY <1>1, NowParts
  <2> QED
    BY ONLY <1>4, <1>5, <1>6, <1>7, <2>1, LinkingIs
<1>9. k > 1 => x = [heap[l] EXCEPT !.next = b]
  BY <1>4, <1>5, <1>8 DEF Linking
<1>10. l # a /\ a \in DOMAIN heap
  <2>1. CASE k = 1
    BY <1>3, <1>6, <1>8, <2>1, Apart
  <2>2. CASE k > 1
    <3>1. k - 1 \in 1 .. Len(list[d]) /\ k - 1 # k /\ k \in 1 .. Len(list[d])
      BY <1>4, <1>6, <1>8, <2>2
    <3>2. list[d][k - 1] # list[d][k]
      BY ONLY <1>6, <3>1, ListOnce
    <3> QED
      BY <1>3, <1>4, <1>6, <1>8, <2>2, <3>2, Apart
  <2> QED
    BY <1>6, <2>1, <2>2
<1>11. heap' = Without(With(heap, l, x), a)
  <2>1. CASE k = 1
    BY <1>3, <1>4, <1>6, <1>8, <2>1 DEF DeleteEntry
  <2>2. CASE k > 1
    <3>1. AddrAt(it, k - 1) = l /\ it.entries[k - 1] = heap[l]
      BY <1>6, <1>8, <2>2
    <3> QED
      BY <1>3, <1>4, <1>6, <1>9, <2>2, <3>1 DEF DeleteEntry
  <2> QED
    BY <1>6, <2>1, <2>2
<1>12. /\ DOMAIN heap' = DOMAIN heap \ {a}
       /\ \A y \in DOMAIN heap' \ {l} : heap'[y] = heap[y]
       /\ heap'[l] = x
  BY ONLY <1>8, <1>10, <1>11 DEF With, Without
<1>13. DropsEntry(heap, heap', s, d, k)
  BY <1>3, <1>4, <1>5, <1>12 DEF DropsEntry
<1>14. PICK t, t2, q : t = TreeOf(heap) /\ t2 = TreeOf(heap') /\ q = PathOf(heap, way, home, a)
  OBVIOUS
<1>15. PICK list2, home2 :
         /\ Shape(heap', list2, way, home2)
         /\ OnlyIn(heap, list, way, heap', list2, way, d)
         /\ list2[d] = Del(s, k)
         /\ t2 = TreeWithout(t, q)
  <2>1. \E list2, home2 :
         /\ Shape(heap', list2, way, home2)
         /\ OnlyIn(heap, list, way, heap', list2, way, d)
         /\ list2[d] = Del(s, k)
         /\ TreeOf(heap') = TreeWithout(TreeOf(heap), PathOf(heap, way, home, s[k]))
    <3>1. Dropping(heap, list, way, home, heap', d, s, k)
      BY <1>3, <1>4, <1>6, <1>13 DEF Dropping
    <3> QED
      BY ONLY <3>1, EntryIsDropped
  <2> QED
    BY <1>3, <1>4, <1>14, <2>1
<1>16. PICK es, g : es = it.entries /\ g = RemoveAt(es, k)
  OBVIOUS
<1>17. g = Del(es, k)
  BY <1>6, <1>16, RemovedList
<1>18. PICK i : i = View(d, heap', list2, way, k)
  OBVIOUS
<1>19. Replaced(i) /\ k \in 1 .. Len(list2[d]) + 1
  <2>1. CASE k = 1
    <3>1. Replaced([Erased(it) EXCEPT !.info = Info(it.info.parent, Cur.next)])
      BY <1>6, <2>1 DEF DeleteEntry
    <3>2. heap'[d] = Info(it.info.parent, Cur.next)
      BY <1>3, <1>4, <1>6, <1>8, <1>12, <2>1
    <3>3. \A j \in 1 .. Len(s) : j # k => es[j] = heap'[s[j]]
      <4> SUFFICES ASSUME NEW j \in 1 .. Len(s), j # k
                   PROVE  heap[s[j]] = heap'[s[j]]
        BY <1>6, <1>16
      <4>1. s[j] \in EntriesOf(heap)
        BY <1>6, ElementOfSeq
      <4>2. s[j] \in DOMAIN heap /\ s[j] # l
        BY <1>6, <1>8, <2>1, <4>1, Apart
      <4>3. list[d][j] # list[d][k]
        <5>1. j \in 1 .. Len(list[d]) /\ k \in 1 .. Len(list[d]) /\ j # k
          BY <1>4, <1>6
        <5> QED
          BY ONLY <1>6, <5>1, ListOnce
      <4> QED
        BY <1>3, <1>4, <1>12, <4>2, <4>3
    <3>4. es \in Seq(Entry) /\ Len(es) = Len(s) /\ k \in 1 .. Len(s) /\ s \in Seq(EntriesOf(heap))
      BY <1>6, <1>16
    <3>5. Del(es, k) = Entries(d, heap', list2) /\ k \in 1 .. Len(list2[d]) + 1
      <4>1. PICK E : E = EntriesOf(heap)
        OBVIOUS
      <4>2. Shrinks(heap', E, s, k, es, list2, d)
        BY ONLY <1>15, <3>3, <3>4, <4>1 DEF Shrinks
      <4> QED
        BY ONLY <4>2, ListShrinks
    <3>6. [Erased(it) EXCEPT !.info = Info(it.info.parent, Cur.next)] = i
      <4>1. Erased(it) = [addr |-> d, info |-> heap[d], entries |-> g, pos |-> k, path |-> way[d]]
        <5>1. Erased(it) = [it EXCEPT !.entries = g]
          BY <1>6, <1>16 DEF Erased
        <5> QED
          BY <1>6, <5>1 DEF View
      <4> QED
        BY <1>17, <1>18, <3>2, <3>5, <4>1 DEF View
    <3> QED
      BY <3>1, <3>5, <3>6
  <2>2. CASE k > 1
    <3>0. k - 1 \in 1 .. Len(s) /\ k # 1 /\ l = s[k - 1]
      BY <1>6, <1>8, <2>2
    <3>1. it.entries[k - 1] = heap[l]
      BY <1>6, <3>0
    <3>2. Replaced([Erased(it) EXCEPT !.entries[k - 1] = x])
      BY <1>3, <1>4, <1>6, <1>9, <2>2, <3>0, <3>1 DEF DeleteEntry
    <3>3. PICK es2 : es2 = [es EXCEPT ![k - 1] = x]
      OBVIOUS
    <3>4. /\ es2 \in Seq(Entry) /\ Len(es2) = Len(s)
          /\ \A j \in 1 .. Len(s) : es2[j] = IF j = k - 1 THEN x ELSE heap[s[j]]
      <4>1. \A y \in Seq(Entry) : \A j \in 1 .. Len(y) : \A e \in Entry :
              /\ [y EXCEPT ![j] = e] \in Seq(Entry)
              /\ Len([y EXCEPT ![j] = e]) = Len(y)
              /\ \A c \in 1 .. Len(y) : [y EXCEPT ![j] = e][c] = IF c = j THEN e ELSE y[c]
        BY ExceptSeq
      <4>2. es \in Seq(Entry) /\ Len(es) = Len(s) /\ x \in Entry /\ k - 1 \in 1 .. Len(es)
            /\ \A j \in 1 .. Len(s) : es[j] = heap[s[j]]
        BY <1>6, <1>8, <1>16, <2>2, <3>0
      <4> QED
        BY ONLY <3>3, <4>1, <4>2
    <3>5. \A j \in 1 .. Len(s) : j # k => es2[j] = heap'[s[j]]
      <4> SUFFICES ASSUME NEW j \in 1 .. Len(s), j # k
                   PROVE  es2[j] = heap'[s[j]]
        OBVIOUS
      <4>1. CASE j = k - 1
        BY <1>12, <3>0, <3>4, <4>1
      <4>2. CASE j # k - 1
        <5>1. s[j] \in EntriesOf(heap)
          BY <1>6, ElementOfSeq
        <5>2. s[j] \in DOMAIN heap
          BY <1>6, <5>1, Apart
        <5>3. /\ j \in 1 .. Len(list[d]) /\ k \in 1 .. Len(list[d]) /\ j # k
              /\ k - 1 \in 1 .. Len(list[d])
          BY <1>4, <1>6, <3>0
        <5>4. list[d][j] # list[d][k]
          BY ONLY <1>6, <5>3, ListOnce
        <5>5. list[d][j] # list[d][k - 1]
          BY ONLY <1>6, <4>2, <5>3, ListOnce
        <5>6. s[j] # a /\ s[j] # l
          BY <1>3, <1>4, <3>0, <5>4, <5>5
        <5>7. heap'[s[j]] = heap[s[j]]
          BY ONLY <1>12, <5>2, <5>6
        <5> QED
          BY <3>4, <4>2, <5>7
      <4> QED
        BY <4>1, <4>2
    <3>6. k \in 1 .. Len(s) /\ s \in Seq(EntriesOf(heap))
      BY <1>6
    <3>7. Del(es2, k) = Entries(d, heap', list2) /\ k \in 1 .. Len(list2[d]) + 1
      <4>1. PICK E : E = EntriesOf(heap)
        OBVIOUS
      <4>2. Shrinks(heap', E, s, k, es2, list2, d)
        BY ONLY <1>15, <3>4, <3>5, <3>6, <4>1 DEF Shrinks
      <4> QED
        BY ONLY <4>2, ListShrinks
    <3>8. [g EXCEPT ![k - 1] = x] = Del(es2, k)
      <4>1. /\ Del(es, k) = [j \in 1 .. Len(s) - 1 |-> IF j < k THEN es[j] ELSE es[j + 1]]
            /\ Del(es2, k) = [j \in 1 .. Len(s) - 1 |-> IF j < k THEN es2[j] ELSE es2[j + 1]]
        BY <1>6, <1>16, <3>4 DEF Del
      <4>2. /\ \A j \in 1 .. Len(s) : es2[j] = IF j = k - 1 THEN x ELSE es[j]
            /\ Len(s) \in Nat /\ k \in 1 .. Len(s)
        BY <1>6, <1>16, <3>4
      <4>3. [g EXCEPT ![k - 1] = x]
              = [j \in 1 .. Len(s) - 1 |->
                   IF j = k - 1 THEN x ELSE IF j < k THEN es[j] ELSE es[j + 1]]
        BY ONLY <1>17, <4>1
      <4>4. ASSUME NEW j \in 1 .. Len(s) - 1
            PROVE  (IF j = k - 1 THEN x ELSE IF j < k THEN es[j] ELSE es[j + 1])
                     = IF j < k THEN es2[j] ELSE es2[j + 1]
        <5>1. j \in 1 .. Len(s) /\ j + 1 \in 1 .. Len(s) /\ k \in Nat /\ j \in Nat
          BY <4>2
        <5> QED
          BY ONLY <4>2, <5>1
      <4> QED
        BY ONLY <4>1, <4>3, <4>4
    <3>9. heap'[d] = heap[d]
      <4>1. d # l /\ d # a /\ d \in DOMAIN heap
        BY <1>3, <1>6, <1>8, <2>2, Apart
      <4> QED
        BY ONLY <1>12, <4>1
    <3>10. [Erased(it) EXCEPT !.entries[k - 1] = x] = i
      <4>1. Erased(it) = [addr |-> d, info |-> heap[d], entries |-> g, pos |-> k, path |-> way[d]]
        <5>1. Erased(it) = [it EXCEPT !.entries = g]
          BY <1>6, <1>16 DEF Erased
        <5> QED
          BY <1>6, <5>1 DEF View
      <4>2. [Erased(it) EXCEPT !.entries[k - 1] = x]
              = [addr |-> d, info |-> heap[d], entries |-> [g EXCEPT ![k - 1] = x], pos |-> k,
                 path |-> way[d]]
        BY <4>1
      <4> QED
        BY ONLY <1>18, <3>7, <3>8, <3>9, <4>2 DEF View
    <3> QED
      BY <3>2, <3>7, <3>10
  <2> QED
    BY <1>6, <2>1, <2>2
<1>20. IsState(heap', iters') /\ it'.path = it.path
  BY ONLY <1>1, <1>15, <1>18, <1>19, NowChanged
<1>21. q \in HT!Children(t, it.path) /\ t[q] = Shows(heap, a)
  <2>1. PICK w : w = way[home[a]]
    OBVIOUS
  <2>2. a \in EntriesOf(heap) /\ Shape(heap, list, way, home)
    BY <1>6
  <2>3. q \in HT!Children(t, w) /\ t[q] = Shows(heap, a)
    BY ONLY <1>14, <2>1, <2>2, EntryIsChild
  <2> QED
    BY <1>3, <1>6, <2>1, <2>3
<1>22. ~t[q].dir
  <2>1. Shows(heap, a).dir = (heap[a].child # Null)
    BY DEF Shows
  <2> QED
    BY ONLY <1>3, <1>21, <2>1
<1>23. t2 \in HT!EntryGone(t, q)
  BY <1>15, <1>22 DEF HT!EntryGone, TreeWithout
<1>24. StepsTo(t, it.path, t2, it'.path)
  BY <1>20, <1>21, <1>23 DEF StepsTo
<1> QED
  BY <1>14, <1>20, <1>24 DEF Keeps

\* cHierDatabaseIter::CreateEntry when the name is not there yet.
LEMMA EntryMadeKeeps ==
  ASSUME NEW list, NEW way, NEW home, NEW m, NEW d, NEW p, IsNow(list, way, home, m, d, p),
         NEW n \in Name, NEW k, k = Bound(n),
         ~(k <= Len(it.entries) /\ it.entries[k].name = n), CreateEntry(n)
  PROVE  Keeps
<1>1. PICK s : s = list[d]
  OBVIOUS
<1>2. PICK l, a, new : l = Link(s, d, k) /\ a = FreeAddr(heap) /\ new = NewEntry(s, k, n)
  OBVIOUS
<1>3. PICK x : x = Linking(heap, s, d, k, a)
  OBVIOUS
<1>4. /\ Shape(heap, list, way, home) /\ IsHeap(heap) /\ d \in InfosOf(heap)
      /\ it = View(d, heap, list, way, p)
      /\ it.addr = d /\ it.info = heap[d] /\ it.path = way[d]
      /\ it.entries \in Seq(Entry) /\ Len(it.entries) = Len(s) /\ Len(s) \in Nat
      /\ \A j \in 1 .. Len(s) : it.entries[j] = heap[s[j]]
      /\ \A j \in 1 .. Len(s) : AddrAt(it, j) = s[j]
      /\ s \in Seq(EntriesOf(heap))
  <2>1. it = View(d, heap, list, way, p) /\ Shape(heap, list, way, home) /\ IsHeap(heap)
    BY DEF IsNow, IsAt, Shape
  <2>2. d \in InfosOf(heap)
    BY NowParts
  <2>3. list[d] \in Seq(EntriesOf(heap))
    BY <2>1, <2>2, ListParts
  <2> QED
    BY <1>1, <2>1, <2>2, <2>3, NowParts
<1>5. /\ k \in 1 .. Len(s) + 1
      /\ \A j \in 1 .. k - 1 : heap[s[j]].name < n
      /\ k <= Len(s) => n < heap[s[k]].name
  <2>1. /\ k \in 1 .. Len(s) + 1
        /\ \A j \in 1 .. k - 1 : heap[s[j]].name < n
        /\ k <= Len(s) => heap[s[k]].name >= n
    BY <1>1, BoundIs
  <2>2. ASSUME k <= Len(s)
        PROVE  n < heap[s[k]].name
    <3>1. k \in 1 .. Len(s)
      BY <1>4, <2>1, <2>2
    <3>2. it.entries[k] = heap[s[k]] /\ heap[s[k]] \in Entry
      BY <1>1, <1>4, <3>1, ListParts
    <3>3. heap[s[k]].name \in Nat /\ n \in Nat /\ heap[s[k]].name # n
      BY <1>4, <2>2, <3>2, NamesAreOrdered DEF Entry
    <3> QED
      BY <2>1, <2>2, <3>3
  <2> QED
    BY <2>1, <2>2
<1>6. HasFree(heap) /\ a \in Addr /\ a \notin DOMAIN heap
  <2>1. HasFree(heap)
    BY DEF CreateEntry
  <2> QED
    BY <1>2, <2>1, FreeAddrIsFree
<1>7. new = [kind |-> "entry", name |-> n, child |-> Null, data |-> Null,
             next |-> IF k <= Len(it.entries) THEN AddrAt(it, k) ELSE Null]
  <2>1. k <= Len(s) => AddrAt(it, k) = s[k]
    <3>1. k <= Len(s) => k \in 1 .. Len(s)
      BY <1>4, <1>5
    <3> QED
      BY <1>4, <3>1
  <2>2. Len(it.entries) = Len(s)
    BY <1>4
  <2> QED
    BY ONLY <1>2, <2>1, <2>2 DEF NewEntry
<1>8. new \in Entry
  <2>1. (IF k <= Len(s) THEN s[k] ELSE Null) \in Addr \cup {Null}
    <3>1. k <= Len(s) => k \in 1 .. Len(s)
      BY <1>4, <1>5
    <3>2. k <= Len(s) => s[k] \in EntriesOf(heap)
      BY <1>4, <3>1, ElementOfSeq
    <3>3. EntriesOf(heap) \subseteq Addr
      BY <1>4 DEF IsHeap, EntriesOf
    <3> QED
      BY <3>2, <3>3
  <2>2. PICK y : y = IF k <= Len(s) THEN s[k] ELSE Null
    OBVIOUS
  <2>3. new = [kind |-> "entry", name |-> n, child |-> Null, data |-> Null, next |-> y]
    BY <1>2, <2>2 DEF NewEntry
  <2>4. Null \in Addr \cup {Null} /\ y \in Addr \cup {Null}
    BY <2>1, <2>2
  <2> QED
    BY <2>3, <2>4 DEF Entry
<1>9. /\ l \in DOMAIN heap /\ x \in Node
      /\ k = 1 => l = d /\ x = Info(heap[d].parent, a)
      /\ k > 1 => k - 1 \in 1 .. Len(s) /\ l = s[k - 1] /\ l \in EntriesOf(heap) /\ x \in Entry
  <2>1. k \in 1 .. Len(list[d]) + 1 /\ a \in Addr \cup {Null}
    BY <1>1, <1>5, <1>6
  <2> QED
    BY ONLY <1>1, <1>2, <1>3, <1>4, <2>1, LinkingIs
<1>10. k > 1 => x = [heap[l] EXCEPT !.next = a]
  BY <1>2, <1>3, <1>9 DEF Linking
<1>11. /\ heap' = With(With(heap, a, new), l, x)
       /\ k = 1 => Replaced([it EXCEPT !.pos = 1, !.info.array = a, !.entries = <<new>> \o @])
       /\ k > 1 => Replaced([it EXCEPT !.pos = k,
                               !.entries = InsertAt([@ EXCEPT ![k - 1] = x], k, new)])
  <2>1. CASE k = 1
    BY <1>2, <1>4, <1>7, <1>9, <2>1 DEF CreateEntry
  <2>2. CASE k > 1
    <3>1. AddrAt(it, k - 1) = l /\ it.entries[k - 1] = heap[l] /\ k # 1
      BY <1>4, <1>9, <2>2
    <3>2. x = [it.entries[k - 1] EXCEPT !.next = a]
      BY <1>10, <2>2, <3>1
    <3> QED
      BY <1>2, <1>7, <2>2, <3>1, <3>2 DEF CreateEntry
  <2> QED
    BY <1>4, <1>5, <2>1, <2>2
<1>12. /\ DOMAIN heap' = DOMAIN heap \cup {a}
       /\ \A y \in DOMAIN heap \ {l} : heap'[y] = heap[y]
       /\ heap'[a] = new /\ heap'[l] = x
  BY ONLY <1>6, <1>9, <1>11 DEF With
<1>13. Adding(heap, list, way, home, heap', d, s, k, a, n)
  <2>1. AddsEntry(heap, heap', s, d, k, a, n)
    BY <1>2, <1>3, <1>5, <1>6, <1>12 DEF AddsEntry
  <2> QED
    BY <1>1, <1>4, <1>5, <2>1 DEF Adding
<1>14. PICK t, t2, q : t = TreeOf(heap) /\ t2 = TreeOf(heap') /\ q = Append(way[d], n)
  OBVIOUS
<1>15. PICK list2, home2 :
         /\ Shape(heap', list2, way, home2)
         /\ OnlyIn(heap, list, way, heap', list2, way, d)
         /\ list2[d] = Ins(s, k, a)
         /\ TreeGets(t, t2, q)
  <2>1. \E list2, home2 :
         /\ Shape(heap', list2, way, home2)
         /\ OnlyIn(heap, list, way, heap', list2, way, d)
         /\ list2[d] = Ins(s, k, a)
         /\ TreeGets(TreeOf(heap), TreeOf(heap'), Append(way[d], n))
    BY ONLY <1>13, EntryIsAdded
  <2> QED
    BY <1>14, <2>1
<1>16. PICK es : es = IF k = 1 THEN it.entries ELSE [it.entries EXCEPT ![k - 1] = x]
  OBVIOUS
<1>17. /\ es \in Seq(Entry) /\ Len(es) = Len(s)
       /\ \A j \in 1 .. Len(s) : es[j] = IF k > 1 /\ j = k - 1 THEN x ELSE heap[s[j]]
  <2>1. CASE k = 1
    BY <1>4, <1>16, <2>1
  <2>2. CASE k > 1
    <3>1. es = [it.entries EXCEPT ![k - 1] = x]
      BY <1>16, <2>2
    <3>2. \A y \in Seq(Entry) : \A j \in 1 .. Len(y) : \A e \in Entry :
            /\ [y EXCEPT ![j] = e] \in Seq(Entry)
            /\ Len([y EXCEPT ![j] = e]) = Len(y)
            /\ \A c \in 1 .. Len(y) : [y EXCEPT ![j] = e][c] = IF c = j THEN e ELSE y[c]
      BY ExceptSeq
    <3> QED
      BY ONLY <1>4, <1>9, <2>2, <3>1, <3>2
  <2> QED
    BY <1>4, <1>5, <2>1, <2>2
<1>18. \A j \in 1 .. Len(s) : es[j] = heap'[s[j]]
  <2> TAKE j \in 1 .. Len(s)
  <2>1. s[j] \in EntriesOf(heap)
    BY <1>4, ElementOfSeq
  <2>2. s[j] \in DOMAIN heap /\ s[j] \notin InfosOf(heap)
    BY <1>4, <2>1, Apart
  <2>3. CASE k > 1 /\ j = k - 1
    <3>1. es[j] = x /\ s[j] = l
      BY <1>9, <1>17, <2>3
    <3> QED
      BY ONLY <1>12, <3>1
  <2>4. CASE ~(k > 1 /\ j = k - 1)
    <3>1. es[j] = heap[s[j]]
      BY <1>17, <2>4
    <3>2. s[j] # l
      <4>1. CASE k = 1
        BY <1>4, <1>9, <2>2, <4>1
      <4>2. CASE k > 1
        <5>1. k - 1 \in 1 .. Len(list[d]) /\ j \in 1 .. Len(list[d]) /\ j # k - 1
          BY <1>1, <1>9, <2>4, <4>2
        <5>2. list[d][j] # list[d][k - 1]
          BY ONLY <1>4, <5>1, ListOnce
        <5> QED
          BY <1>1, <1>9, <4>2, <5>2
      <4> QED
        BY <1>4, <1>5, <4>1, <4>2
    <3> QED
      BY ONLY <1>12, <2>2, <3>1, <3>2
  <2> QED
    BY <2>3, <2>4
<1>19. Ins(es, k, new) = Entries(d, heap', list2) /\ k \in 1 .. Len(list2[d]) + 1
  <2>1. PICK E : E = EntriesOf(heap)
    OBVIOUS
  <2>2. s \in Seq(E) /\ a \in E \cup Addr
    BY <1>4, <1>6, <2>1
  <2>3. Grows(heap', E, s, k, a, es, list2, d)
    BY ONLY <1>5, <1>15, <1>17, <1>18, <2>2 DEF Grows
  <2>4. Ins(es, k, heap'[a]) = Entries(d, heap', list2) /\ k \in 1 .. Len(list2[d]) + 1
    BY ONLY <2>3, ListGrows
  <2> QED
    BY <1>12, <2>4
<1>20. PICK i : i = View(d, heap', list2, way, k)
  OBVIOUS
<1>21. Replaced(i)
  <2>0. k \in 1 .. Len(es) + 1
    BY <1>5, <1>17
  <2>1. CASE k = 1
    <3>1. <<new>> \o it.entries = Ins(es, k, new)
      <4>1. es = it.entries
        BY <1>16, <2>1
      <4>2. k = 1 => <<new>> \o es = Ins(es, k, new)
        BY ONLY <1>8, <1>17, <2>0, InsertAtIs
      <4> QED
        BY ONLY <2>1, <4>1, <4>2
    <3>2. [heap[d] EXCEPT !.array = a] = heap'[d]
      <4>1. [heap[d] EXCEPT !.array = a] = Info(heap[d].parent, a)
        BY ONLY <1>4, InfoIs, SMTT(30)
      <4> QED
        BY <1>9, <1>12, <2>1, <4>1
    <3>3. [it EXCEPT !.pos = 1, !.info.array = a, !.entries = <<new>> \o @]
            = [addr |-> d, info |-> [heap[d] EXCEPT !.array = a],
               entries |-> <<new>> \o it.entries, pos |-> 1, path |-> way[d]]
      <4>1. PICK e, h0, w, i0 : e = it.entries /\ h0 = heap[d] /\ w = way[d] /\ i0 = it
        OBVIOUS
      <4>2. i0 = [addr |-> d, info |-> h0, entries |-> e, pos |-> p, path |-> w]
        BY <1>4, <4>1 DEF View
      <4>3. i0.entries = e /\ i0.info = h0
        BY ONLY <4>2
      <4>4. [i0 EXCEPT !.pos = 1, !.info.array = a, !.entries = <<new>> \o @]
              = [addr |-> d, info |-> [h0 EXCEPT !.array = a], entries |-> <<new>> \o e,
                 pos |-> 1, path |-> w]
        <5>1. PICK g, h1, one : g = <<new>> \o e /\ h1 = [h0 EXCEPT !.array = a] /\ one = 1
          OBVIOUS
        <5>2. PICK i1 : i1 = [i0 EXCEPT !.pos = one]
          OBVIOUS
        <5>3. i1 = [addr |-> d, info |-> h0, entries |-> e, pos |-> one, path |-> w]
          BY ONLY <4>2, <5>2
        <5>4. PICK i2 : i2 = [i1 EXCEPT !.info = h1]
          OBVIOUS
        <5>5. i2 = [addr |-> d, info |-> h1, entries |-> e, pos |-> one, path |-> w]
          BY ONLY <5>3, <5>4
        <5>6. [i2 EXCEPT !.entries = g]
                = [addr |-> d, info |-> h1, entries |-> g, pos |-> one, path |-> w]
          BY ONLY <5>5
        <5>7. [i0 EXCEPT !.pos = 1, !.info.array = a, !.entries = <<new>> \o @]
                = [i2 EXCEPT !.entries = g]
          BY ONLY <4>3, <5>1, <5>2, <5>3, <5>4
        <5> QED
          BY ONLY <5>1, <5>6, <5>7
      <4> QED
        BY ONLY <4>1, <4>4
    <3>4. [it EXCEPT !.pos = 1, !.info.array = a, !.entries = <<new>> \o @] = i
      BY ONLY <1>19, <1>20, <2>1, <3>1, <3>2, <3>3 DEF View
    <3> QED
      BY <1>11, <2>1, <3>4
  <2>2. CASE k > 1
    <3>1. InsertAt(es, k, new) = Ins(es, k, new)
      BY ONLY <1>8, <1>17, <2>0, InsertAtIs
    <3>2. es = [it.entries EXCEPT ![k - 1] = x]
      BY <1>16, <2>2
    <3>3. [it EXCEPT !.pos = k, !.entries = InsertAt([@ EXCEPT ![k - 1] = x], k, new)]
            = [addr |-> d, info |-> heap[d], entries |-> InsertAt(es, k, new), pos |-> k,
               path |-> way[d]]
      <4>1. PICK e, h0, w, i0 : e = it.entries /\ h0 = heap[d] /\ w = way[d] /\ i0 = it
        OBVIOUS
      <4>2. i0 = [addr |-> d, info |-> h0, entries |-> e, pos |-> p, path |-> w]
        BY <1>4, <4>1 DEF View
      <4>3. i0.entries = e /\ i0.info = h0
        BY ONLY <4>2
      <4>4. [i0 EXCEPT !.pos = k, !.entries = InsertAt([@ EXCEPT ![k - 1] = x], k, new)]
              = [addr |-> d, info |-> h0, entries |-> InsertAt([e EXCEPT ![k - 1] = x], k, new),
                 pos |-> k, path |-> w]
        <5>1. PICK g : g = InsertAt([e EXCEPT ![k - 1] = x], k, new)
          OBVIOUS
        <5>2. PICK i1 : i1 = [i0 EXCEPT !.pos = k]
          OBVIOUS
        <5>3. i1 = [addr |-> d, info |-> h0, entries |-> e, pos |-> k, path |-> w]
          BY ONLY <4>2, <5>2
        <5>4. [i1 EXCEPT !.entries = g]
                = [addr |-> d, info |-> h0, entries |-> g, pos |-> k, path |-> w]
          BY ONLY <5>3
        <5>5. [i0 EXCEPT !.pos = k, !.entries = InsertAt([@ EXCEPT ![k - 1] = x], k, new)]
                = [i1 EXCEPT !.entries = g]
          BY ONLY <4>3, <5>1, <5>2, <5>3
        <5> QED
          BY ONLY <5>1, <5>4, <5>5
      <4> QED
        BY ONLY <3>2, <4>1, <4>4
    <3>4. heap'[d] = heap[d]
      <4>1. d # l /\ d \in DOMAIN heap
        BY <1>4, <1>9, <2>2, Apart
      <4> QED
        BY ONLY <1>12, <4>1
    <3>5. [it EXCEPT !.pos = k, !.entries = InsertAt([@ EXCEPT ![k - 1] = x], k, new)] = i
      BY ONLY <1>19, <1>20, <3>1, <3>3, <3>4 DEF View
    <3> QED
      BY <1>11, <2>2, <3>5
  <2> QED
    BY <1>4, <1>5, <2>1, <2>2
<1>22. IsState(heap', iters') /\ it'.path = it.path
  <2>1. IsNow(list, way, home, m, d, p)
    OBVIOUS
  <2> QED
    BY ONLY <1>15, <1>19, <1>20, <1>21, <2>1, NowChanged
<1>23. t2 = HT!Created(t, q)
  BY ONLY <1>15 DEF TreeGets, HT!Created, TreeWith
<1>24. StepsTo(t, it.path, t2, it'.path)
  <2>1. t2 = HT!Created(t, Append(it.path, n))
    BY <1>4, <1>14, <1>23
  <2> QED
    BY <1>22, <2>1 DEF StepsTo
<1> QED
  BY <1>14, <1>22, <1>24 DEF Keeps

\* cHierDatabaseIter::CreateEntry, with the assertion that the name is new.
LEMMA CreateEntryKeeps ==
  ASSUME EditState, NEW n \in Name, CreateEntry(n)
  PROVE  Keeps
<1>1. PICK list, way, home, m, d, p : IsNow(list, way, home, m, d, p)
  BY NowIs
<1>2. PICK k : k = Bound(n)
  OBVIOUS
<1>3. CASE k <= Len(it.entries) /\ it.entries[k].name = n
  <2>1. Replaced([it EXCEPT !.pos = k]) /\ UNCHANGED heap
    BY <1>2, <1>3 DEF CreateEntry
  <2>2. k \in 1 .. Len(it.entries) + 1
    BY <1>1, <1>2, BoundIs, NowParts
  <2> QED
    BY <2>1, <2>2, MovedKeeps
<1>4. CASE ~(k <= Len(it.entries) /\ it.entries[k].name = n)
  BY <1>1, <1>2, <1>4, EntryMadeKeeps
<1> QED
  BY <1>3, <1>4

-----------------------------------------------------------------------------
(* Moving between directories                                              *)

\* The directory below the entry a, of which the iterator has name and child.
LEMMA BelowAt ==
  ASSUME NEW list, NEW way, NEW home, Shape(heap, list, way, home),
         NEW a \in EntriesOf(heap), heap[a].child # Null,
         it.path = way[home[a]], Cur.child = heap[a].child, Cur.name = heap[a].name
  PROVE  \E c \in InfosOf(heap), x \in Name :
           /\ way[c] = Append(way[home[a]], x) /\ Below = View(c, heap, list, way, 1)
           /\ way[c] \in HT!Children(TreeOf(heap), it.path) /\ TreeOf(heap)[way[c]].dir
<1>3. Shape(heap, list, way, home)
  OBVIOUS
<1>4. PICK c, x, w, t : c = heap[a].child /\ x = heap[a].name /\ w = way[home[a]] /\ t = TreeOf(heap)
  OBVIOUS
<1>5. /\ c \in InfosOf(heap) /\ way[c] = PathOf(heap, way, home, a)
  BY <1>3, <1>4, PathParts
<1>6. x \in Name
  BY <1>3, <1>4, EntryParts
<1>7. PICK q : q = PathOf(heap, way, home, a)
  OBVIOUS
<1>8. q \in HT!Children(t, w) /\ t[q] = Shows(heap, a) /\ q = Append(w, x)
  <2>1. q \in HT!Children(t, w) /\ t[q] = Shows(heap, a) /\ q = Append(w, heap[a].name)
    <3>1. a \in EntriesOf(heap)
      OBVIOUS
    <3> QED
      BY ONLY <1>3, <1>4, <1>7, <3>1, EntryIsChild
  <2> QED
    BY <1>4, <2>1
<1>9. t[q].dir
  <2>1. Shows(heap, a).dir = (heap[a].child # Null)
    BY DEF Shows
  <2>2. heap[a].child # Null
    OBVIOUS
  <2> QED
    BY ONLY <1>8, <2>1, <2>2
<1>10. w = it.path
  BY <1>4
<1>11. Below = View(c, heap, list, way, 1)
  <2>1. LoadArrayAt(heap, c, way[c]) = View(c, heap, list, way, 1)
    BY <1>3, <1>5, LoadedIs
  <2>2. way[c] = Append(it.path, Cur.name)
    BY <1>4, <1>5, <1>7, <1>8, <1>10
  <2> QED
    BY <1>4, <2>1, <2>2 DEF Below
<1> QED
  BY <1>4, <1>5, <1>6, <1>7, <1>8, <1>9, <1>10, <1>11

\* The directory below the entry at hand.
LEMMA BelowIs ==
  ASSUME NEW list, NEW way, NEW home, NEW n, NEW d, NEW p, IsNow(list, way, home, n, d, p),
         CanDescend
  PROVE  \E c \in InfosOf(heap), x \in Name :
           /\ way[c] = Append(way[d], x) /\ Below = View(c, heap, list, way, 1)
           /\ way[c] \in HT!Children(TreeOf(heap), it.path) /\ TreeOf(heap)[way[c]].dir
<1>1. ~Done
  BY DEF CanDescend
<1>2. PICK a \in EntriesOf(heap) : home[a] = d /\ Cur = heap[a] /\ heap[a].child # Null
  BY <1>1, CurIs
<1>3. Shape(heap, list, way, home) /\ it.path = way[d]
  BY NowParts
<1> QED
  BY <1>2, <1>3, BelowAt

\* The items stay, and the iterator moves: what this is in the tree.
LEMMA MoveSteps ==
  ASSUME UNCHANGED heap,
         \/ it'.path = it.path
         \/ it'.path \in HT!Children(TreeOf(heap), it.path) /\ TreeOf(heap)[it'.path].dir
         \/ it.path # << >> /\ it'.path = Front(it.path)
         \/ it'.path = << >>
  PROVE  StepsTo(TreeOf(heap), it.path, TreeOf(heap'), it'.path)
<1>2. TreeOf(heap') = TreeOf(heap)
  OBVIOUS
<1>3. PICK w, w2, t : w = it.path /\ w2 = it'.path /\ t = TreeOf(heap)
  OBVIOUS
<1>4. Front(w) = SubSeq(w, 1, Len(w) - 1)
  BY DEF Front
<1>5. \/ w2 = w
      \/ w2 \in HT!Children(t, w) /\ t[w2].dir
      \/ w # << >> /\ w2 = Front(w)
      \/ w2 = << >>
  BY <1>3
<1>6. StepsTo(t, w, t, w2)
  BY ONLY <1>4, <1>5 DEF StepsTo
<1> QED
  BY <1>2, <1>3, <1>6

\* The items stay, and the iterators show them.
LEMMA ShownStays ==
  ASSUME NEW list, NEW way, NEW home, Shape(heap, list, way, home), UNCHANGED heap,
         IsStack(iters', heap, list, way),
         \/ it'.path = it.path
         \/ it'.path \in HT!Children(TreeOf(heap), it.path) /\ TreeOf(heap)[it'.path].dir
         \/ it.path # << >> /\ it'.path = Front(it.path)
         \/ it'.path = << >>
  PROVE  Keeps
<1>1. IsState(heap', iters')
  BY DEF IsState
<1> QED
  BY <1>1, MoveSteps DEF Keeps

\* An iterator with no callers is replaced by another.
LEMMA ReplacedOne ==
  ASSUME iters \in Seq(Iterators), Len(iters) = 1, NEW i, Replaced(i)
  PROVE  iters' = <<i>>
<1>1. iters \in Seq(Iterators)
  OBVIOUS
<1>2. PICK s, s2 : s = iters /\ s2 = iters'
  OBVIOUS
<1>3. DOMAIN s = 1 .. 1 /\ s2 = [s EXCEPT ![1] = i]
  BY <1>1, <1>2, LenProperties DEF Replaced
<1>4. DOMAIN s2 = 1 .. 1 /\ s2[1] = i /\ s2 = [k \in 1 .. 1 |-> s2[k]]
  <2>1. s2 = [k \in 1 .. 1 |-> IF k = 1 THEN i ELSE s[k]]
    BY ONLY <1>3
  <2> QED
    BY ONLY <2>1
<1>5. \A k \in 1 .. 1 : k = 1
  OBVIOUS
<1>6. s2 = <<i>>
  BY ONLY <1>4, <1>5
<1> QED
  BY ONLY <1>2, <1>6

\* cHierDatabaseIter::Descend reads the child's array.
LEMMA DescendKeeps ==
  ASSUME EditState, Descend
  PROVE  Keeps
<1>1. PICK list, way, home, n, d, p : IsNow(list, way, home, n, d, p)
  BY NowIs
<1>2. Len(iters) = 1 /\ CanDescend /\ Replaced(Below) /\ UNCHANGED heap
  BY DEF Descend
<1>3. PICK c \in InfosOf(heap) :
        /\ Below = View(c, heap, list, way, 1)
        /\ way[c] \in HT!Children(TreeOf(heap), it.path) /\ TreeOf(heap)[way[c]].dir
  BY <1>1, <1>2, BelowIs
<1>4. Shape(heap, list, way, home) /\ IsStack(iters, heap, list, way)
  BY <1>1 DEF IsNow
<1>5. iters' = <<Below>>
  BY <1>2, <1>4, ReplacedOne DEF IsStack
<1>6. IsStack(iters', heap, list, way) /\ it'.path = way[c]
  <2>1. PICK i, s : i = Below /\ s = iters'
    OBVIOUS
  <2>2. IsStack(s, heap, list, way) /\ Last(s) = i /\ i.path = way[c]
    BY <1>3, <1>4, <1>5, <2>1, OneView
  <2> QED
    BY <2>1, <2>2 DEF it
<1> QED
  BY <1>2, <1>3, <1>4, <1>6, ShownStays

\* A function called with a copy of the iterator that it descends.
LEMMA CallKeeps ==
  ASSUME EditState, Call
  PROVE  Keeps
<1>1. PICK list, way, home, n, d, p : IsNow(list, way, home, n, d, p)
  BY NowIs
<1>2. Len(iters) < MaxCalls /\ CanDescend /\ iters' = Append(iters, Below) /\ UNCHANGED heap
  BY DEF Call
<1>3. PICK c \in InfosOf(heap), x \in Name :
        /\ way[c] = Append(way[d], x) /\ Below = View(c, heap, list, way, 1)
        /\ way[c] \in HT!Children(TreeOf(heap), it.path) /\ TreeOf(heap)[way[c]].dir
  BY <1>1, <1>2, BelowIs
<1>4. /\ Shape(heap, list, way, home) /\ IsStack(iters, heap, list, way)
      /\ n = Len(iters) /\ it = iters[n] /\ d \in InfosOf(heap) /\ it.path = way[d]
  <2>1. d \in InfosOf(heap) /\ it.path = way[d]
    BY <1>1, NowParts
  <2> QED
    BY <1>1, <2>1 DEF IsNow
<1>5. IsStack(iters', heap, list, way) /\ it'.path = way[c]
  <2>1. PICK i, s, s2, h : i = Below /\ s = iters /\ s2 = iters' /\ h = heap
    OBVIOUS
  <2>2. /\ IsStack(s, h, list, way) /\ n = Len(s) /\ n < MaxCalls /\ s[n].path = way[d]
        /\ i = View(c, h, list, way, 1) /\ s2 = Append(s, i)
        /\ c \in InfosOf(h) /\ x \in Name /\ way[c] = Append(way[d], x)
        /\ d \in InfosOf(h) /\ Shape(h, list, way, home)
    BY <1>2, <1>3, <1>4, <2>1
  <2>3. CallsBelow(h, list, way, home, s, n, d, c, x, i, s2)
    BY ONLY <2>2 DEF CallsBelow
  <2>4. IsStack(s2, h, list, way) /\ Last(s2) = i /\ i.path = way[c]
    BY ONLY <2>3, StackCalls
  <2> QED
    BY <2>1, <2>4 DEF it
<1> QED
  BY <1>2, <1>3, <1>4, <1>5, ShownStays

\* Back in the caller, whose copy of the directory is used again.
LEMMA ReturnKeeps ==
  ASSUME EditState, Return
  PROVE  Keeps
<1>1. PICK list, way, home : Shape(heap, list, way, home) /\ IsStack(iters, heap, list, way)
  BY DEF EditState, IsState
<1>2. Len(iters) > 1 /\ iters' = Front(iters) /\ UNCHANGED heap
  BY DEF Return
<1>3. PICK s, s2 : s = iters /\ s2 = iters'
  OBVIOUS
<1>4. /\ IsStack(s2, heap, list, way)
      /\ Last(s).path # << >> /\ Last(s2).path = Front(Last(s).path)
  BY <1>1, <1>2, <1>3, StackReturns
<1>5. it.path # << >> /\ it'.path = Front(it.path)
  BY <1>3, <1>4 DEF it
<1> QED
  BY <1>1, <1>2, <1>3, <1>4, <1>5, ShownStays

\* A directory below the root is an entry's.
LEMMA AboveIs ==
  ASSUME NEW h, NEW list, NEW way, NEW home, Shape(h, list, way, home),
         NEW d \in InfosOf(h), d # RootInfo
  PROVE  /\ h[d].parent \in InfosOf(h) /\ way[d] # << >>
         /\ Front(way[d]) = way[h[d].parent]
<1>1. PICK a \in EntriesOf(h) : h[a].child = d
  BY DEF Shape, WaysAreRight
<1>2. d # Null
  BY Apart DEF Shape
<1>3. /\ h[d].parent = home[a] /\ home[a] \in InfosOf(h)
      /\ way[d] = PathOf(h, way, home, a)
  BY <1>1, <1>2, PathParts, EntryParts
<1>4. PICK q, w, t : q = PathOf(h, way, home, a) /\ w = way[home[a]] /\ t = TreeOf(h)
  OBVIOUS
<1>5. Front(q) = w /\ q = Append(w, h[a].name)
  BY <1>4, EntryIsChild
<1>6. q # << >>
  <2>1. q \in Seq(Name) /\ Len(q) = Len(w) + 1 /\ Len(w) \in Nat
    BY <1>4, PathParts
  <2> QED
    BY <2>1, EmptySeq
<1> QED
  BY <1>3, <1>4, <1>5, <1>6

\* cHierDatabaseIter::Ascend reads the parent's array again.
LEMMA AscendKeeps ==
  ASSUME EditState, Ascend
  PROVE  Keeps
<1>1. PICK list, way, home, n, d, p : IsNow(list, way, home, n, d, p)
  BY NowIs
<1>2. PICK c, i : c = it.info.parent /\ i = LoadArrayAt(heap, c, Front(it.path))
  OBVIOUS
<1>3. Len(iters) = 1 /\ it.addr # RootInfo /\ Replaced(i) /\ UNCHANGED heap
  BY <1>2 DEF Ascend
<1>4. /\ Shape(heap, list, way, home) /\ IsStack(iters, heap, list, way)
      /\ d \in InfosOf(heap) /\ it.addr = d /\ it.info = heap[d] /\ it.path = way[d]
  <2>1. d \in InfosOf(heap) /\ it.addr = d /\ it.info = heap[d] /\ it.path = way[d]
    BY <1>1, NowParts
  <2> QED
    BY <1>1, <2>1 DEF IsNow
<1>5. c \in InfosOf(heap) /\ way[d] # << >> /\ Front(way[d]) = way[c]
  BY <1>2, <1>3, <1>4, AboveIs
<1>6. i = View(c, heap, list, way, 1)
  BY <1>2, <1>4, <1>5, LoadedIs
<1>7. iters' = <<i>>
  BY <1>3, <1>4, ReplacedOne DEF IsStack
<1>8. IsStack(iters', heap, list, way) /\ it'.path = way[c]
  <2>1. PICK s : s = iters'
    OBVIOUS
  <2>2. IsStack(s, heap, list, way) /\ Last(s) = i /\ i.path = way[c]
    BY <1>4, <1>5, <1>6, <1>7, <2>1, OneView
  <2> QED
    BY <2>1, <2>2 DEF it
<1> QED
  BY <1>3, <1>4, <1>5, <1>8, ShownStays

\* A new iterator begins at the root.
LEMMA RootShows ==
  ASSUME NEW list, NEW way, NEW home, Shape(heap, list, way, home),
         iters' = AtRoot, UNCHANGED heap
  PROVE  Keeps
<1>1. Shape(heap, list, way, home)
  OBVIOUS
<1>2. RootInfo \in InfosOf(heap) /\ heap[1].child = RootInfo /\ way[RootInfo] = << >>
  BY <1>1 DEF Shape, IsHeap, WaysAreRight, Root
<1>3. PICK i : i = LoadArrayAt(heap, RootInfo, << >>)
  OBVIOUS
<1>4. iters' = <<i>> /\ UNCHANGED heap
  BY <1>2, <1>3 DEF AtRoot
<1>5. i = View(RootInfo, heap, list, way, 1)
  BY <1>1, <1>2, <1>3, LoadedIs
<1>6. IsStack(iters', heap, list, way) /\ it'.path = << >>
  <2>1. PICK s : s = iters'
    OBVIOUS
  <2>2. IsStack(s, heap, list, way) /\ Last(s) = i /\ i.path = << >>
    BY <1>1, <1>2, <1>4, <1>5, <2>1, OneView
  <2> QED
    BY <2>1, <2>2 DEF it
<1> QED
  BY <1>1, <1>4, <1>6, ShownStays

LEMMA ReopenKeeps ==
  ASSUME EditState, Reopen
  PROVE  Keeps
  BY RootShows DEF EditState, IsState, Reopen

-----------------------------------------------------------------------------
(* The integrity check: what its iterators know                            *)

\* The entry e is x, the one at address a, or was x before the check that has
\* been at a gave it other data.
Nearly(e, x, a, seen) ==
  \/ e = x
  \/ /\ a \in seen /\ e.data # Null /\ x.data # Null
     /\ e = [x EXCEPT !.data = e.data]

\* i is at the entry p of the directory d, and nearly the view of it.
IsNear(i, h, list, way, seen, d, p) ==
  /\ d \in InfosOf(h) /\ p \in 1 .. Len(list[d]) + 1 /\ i \in Iterators
  /\ i.addr = d /\ i.info = h[d] /\ i.pos = p /\ i.path = way[d]
  /\ Len(i.entries) = Len(list[d])
  /\ \A k \in 1 .. Len(list[d]) : Nearly(i.entries[k], h[list[d][k]], list[d][k], seen)

HandedIn(s, k)   == k > 1 /\ s[k].addr = s[k - 1].addr
EntryAt(i, list) == list[i.addr][i.pos]

\* i has the entry it is at right, and that is one the check has been at.
Holds(i, h, list, seen) ==
  /\ i.pos \in 1 .. Len(list[i.addr])
  /\ EntryAt(i, list) \in seen
  /\ i.entries[i.pos] = h[EntryAt(i, list)]

\* The directory with path v is the one with path w, or in it.
IsBelow(v, w) == v = w \/ (v # << >> /\ Front(v) = w)

\* The iterators of a check: nearly views, and those handed to ProcessChangedFCO
\* hold an entry each that no other of them is at.
IsWalk(s, h, list, way, seen) ==
  /\ s \in Seq(Iterators) /\ Len(s) \in 1 .. MaxCalls /\ seen \subseteq EntriesOf(h)
  /\ \A k \in 1 .. Len(s) : \E d, p : IsNear(s[k], h, list, way, seen, d, p)
  /\ \A k \in 1 .. Len(s) : HandedIn(s, k) => Holds(s[k], h, list, seen)
  /\ \A j, k \in 1 .. Len(s) :
       HandedIn(s, j) /\ HandedIn(s, k) /\ j # k => EntryAt(s[j], list) # EntryAt(s[k], list)
  /\ \A k \in 1 .. Len(s) - 1 : IsBelow(s[k + 1].path, s[k].path)

\* What a near view has of an entry, wherever its data is.
LEMMA NearlyIs ==
  ASSUME NEW x \in Entry, NEW e, NEW a, NEW seen, Nearly(e, x, a, seen)
  PROVE  /\ e \in [kind : {"entry"}, name : Name, child : Addr \cup {Null},
                   data : {e.data}, next : Addr \cup {Null}]
         /\ e.name = x.name /\ e.child = x.child /\ e.next = x.next
         /\ e.data # Null <=> x.data # Null
  BY DEF Nearly, Entry

LEMMA NearParts ==
  ASSUME NEW h, NEW list, NEW way, NEW home, Shape(h, list, way, home),
         NEW i, NEW seen, NEW d, NEW p, IsNear(i, h, list, way, seen, d, p)
  PROVE  /\ Len(list[d]) \in Nat
         /\ \A k \in 1 .. Len(list[d]) :
              /\ i.entries[k].name = h[list[d][k]].name
              /\ i.entries[k].child = h[list[d][k]].child
              /\ i.entries[k].next = h[list[d][k]].next
              /\ i.entries[k].data # Null <=> h[list[d][k]].data # Null
              /\ AddrAt(i, k) = list[d][k]
<1>1. /\ d \in InfosOf(h) /\ i.info = h[d] /\ Len(list[d]) \in Nat
  BY ListParts DEF IsNear
<1>2. ASSUME NEW k \in 1 .. Len(list[d])
      PROVE  /\ i.entries[k].name = h[list[d][k]].name
             /\ i.entries[k].child = h[list[d][k]].child
             /\ i.entries[k].next = h[list[d][k]].next
             /\ i.entries[k].data # Null <=> h[list[d][k]].data # Null
  <2>1. h[list[d][k]] \in Entry /\ Nearly(i.entries[k], h[list[d][k]], list[d][k], seen)
    BY <1>1, ListParts DEF IsNear
  <2>2. PICK e, x, a : e = i.entries[k] /\ x = h[list[d][k]] /\ a = list[d][k]
    OBVIOUS
  <2>3. x \in Entry /\ Nearly(e, x, a, seen)
    BY <2>1, <2>2
  <2>4. e.name = x.name /\ e.child = x.child /\ e.next = x.next /\ (e.data # Null <=> x.data # Null)
    BY ONLY <2>3, NearlyIs
  <2> QED
    BY ONLY <2>2, <2>4
<1>3. ASSUME NEW k \in 1 .. Len(list[d])
      PROVE  AddrAt(i, k) = list[d][k]
  <2>1. CASE k = 1
    <3>1. Len(list[d]) # 0
      BY <1>1, <2>1
    <3>2. h[d].array = list[d][1]
      BY <1>1, <3>1, ListParts
    <3> QED
      BY <1>1, <2>1, <3>2 DEF AddrAt
  <2>2. CASE k # 1
    <3>1. k - 1 \in 1 .. Len(list[d]) /\ k - 1 # Len(list[d]) /\ (k - 1) + 1 = k
      BY <1>1, <2>2
    <3>2. h[list[d][k - 1]].next = list[d][k]
      BY <1>1, <3>1, ListParts
    <3>3. i.entries[k - 1].next = h[list[d][k - 1]].next
      BY <1>2, <3>1
    <3> QED
      BY <2>2, <3>2, <3>3 DEF AddrAt
  <2> QED
    BY <2>1, <2>2
<1> QED
  BY <1>1, <1>2, <1>3

\* A view is a near one.
LEMMA ViewIsNear ==
  ASSUME NEW h, NEW list, NEW way, NEW home, Shape(h, list, way, home), NEW seen,
         NEW d \in InfosOf(h), NEW p \in 1 .. Len(list[d]) + 1,
         NEW i, i = View(d, h, list, way, p)
  PROVE  IsNear(i, h, list, way, seen, d, p)
<1>1. /\ i \in Iterators /\ i.addr = d /\ i.info = h[d] /\ i.pos = p /\ i.path = way[d]
      /\ Len(i.entries) = Len(list[d])
      /\ \A k \in 1 .. Len(list[d]) : i.entries[k] = h[list[d][k]]
  BY ViewParts
<1> QED
  BY <1>1 DEF IsNear, Nearly

\* It stays one when the check has been at more entries.
LEMMA NearStays ==
  ASSUME NEW h, NEW list, NEW way, NEW seen, NEW seen2, seen \subseteq seen2,
         NEW i, NEW d, NEW p, IsNear(i, h, list, way, seen, d, p)
  PROVE  IsNear(i, h, list, way, seen2, d, p)
<1>1. \A e, x, a : Nearly(e, x, a, seen) => Nearly(e, x, a, seen2)
  BY DEF Nearly
<1> QED
  BY <1>1 DEF IsNear

\* The first iterator of a check.
LEMMA WalkStarts ==
  ASSUME NEW h, NEW list, NEW way, NEW seen, seen \subseteq EntriesOf(h),
         NEW i, NEW d, NEW p, IsNear(i, h, list, way, seen, d, p), NEW s, s = <<i>>
  PROVE  IsWalk(s, h, list, way, seen) /\ Last(s) = i
<1>1. i \in Iterators
  BY DEF IsNear
<1>2. s \in Seq(Iterators) /\ Len(s) = 1 /\ s[1] = i
  BY <1>1
<1>3. 1 \in 1 .. MaxCalls /\ 1 .. 1 - 1 = {} /\ 1 .. 1 = {1} /\ ~(1 > 1)
  BY CallsAreNumber
<1>4. \A k \in 1 .. 1 : ~HandedIn(s, k)
  BY <1>3 DEF HandedIn
<1> QED
  BY <1>2, <1>3, <1>4 DEF IsWalk, Last

\* The iterators of any time are those of a check that has been nowhere.
LEMMA StackIsWalk ==
  ASSUME NEW h, NEW list, NEW way, NEW home, Shape(h, list, way, home),
         NEW s, IsStack(s, h, list, way)
  PROVE  IsWalk(s, h, list, way, {})
<1>1. PICK n : n = Len(s)
  OBVIOUS
<1>2. /\ s \in Seq(Iterators) /\ n \in 1 .. MaxCalls /\ n \in Nat
      /\ \A k \in 1 .. n : IsView(s[k], h, list, way)
      /\ \A j, k \in 1 .. n : j < k => Len(s[j].path) < Len(s[k].path)
      /\ \A k \in 1 .. n - 1 : s[k + 1].path # << >> /\ Front(s[k + 1].path) = s[k].path
  BY <1>1, CallsAreNumber DEF IsStack
<1>3. ASSUME NEW k \in 1 .. n
      PROVE  /\ \E d, p : IsNear(s[k], h, list, way, {}, d, p)
             /\ s[k].path = way[s[k].addr] /\ Len(s[k].path) \in Nat
  <2>1. PICK d \in InfosOf(h) : \E p \in 1 .. Len(list[d]) + 1 : s[k] = View(d, h, list, way, p)
    BY <1>2, <1>3 DEF IsView
  <2>2. PICK p \in 1 .. Len(list[d]) + 1 : s[k] = View(d, h, list, way, p)
    BY <2>1
  <2>3. IsNear(s[k], h, list, way, {}, d, p)
    BY <2>2, ViewIsNear
  <2>4. s[k].path \in Seq(Name)
    BY <2>3 DEF IsNear, Iterators
  <2> QED
    BY <2>3, <2>4, LenProperties DEF IsNear
<1>4. \A k \in 1 .. n : ~HandedIn(s, k)
  <2> SUFFICES ASSUME NEW k \in 1 .. n, HandedIn(s, k)
               PROVE  FALSE
    OBVIOUS
  <2>1. k - 1 \in 1 .. n /\ k - 1 < k
    BY <1>2 DEF HandedIn
  <2>2. s[k].path = s[k - 1].path
    BY <1>3, <2>1 DEF HandedIn
  <2>3. Len(s[k - 1].path) < Len(s[k].path) /\ Len(s[k].path) \in Nat
    BY <1>2, <1>3, <2>1
  <2> QED
    BY <2>2, <2>3
<1>5. \A k \in 1 .. n - 1 : IsBelow(s[k + 1].path, s[k].path)
  BY <1>2 DEF IsBelow
<1>6. \A k \in 1 .. n : \E d, p : IsNear(s[k], h, list, way, {}, d, p)
  BY <1>3
<1> QED
  BY ONLY <1>1, <1>2, <1>4, <1>5, <1>6 DEF IsWalk

\* A copy is passed on, in its directory or below.
Passes(s, s2, h, list, way, seen, seen2, n, i, d, p) ==
  /\ IsWalk(s, h, list, way, seen) /\ seen \subseteq seen2 /\ seen2 \subseteq EntriesOf(h)
  /\ n = Len(s) /\ n < MaxCalls
  /\ IsNear(i, h, list, way, seen2, d, p) /\ IsBelow(i.path, s[n].path)
  /\ i.addr = s[n].addr => Holds(i, h, list, seen2) /\ EntryAt(i, list) \notin seen
  /\ s2 = Append(s, i)

LEMMA WalkCalls ==
  ASSUME NEW s, NEW s2, NEW h, NEW list, NEW way, NEW seen, NEW seen2, NEW n,
         NEW i, NEW d, NEW p, Passes(s, s2, h, list, way, seen, seen2, n, i, d, p)
  PROVE  IsWalk(s2, h, list, way, seen2) /\ Last(s2) = i
<1>a. /\ IsWalk(s, h, list, way, seen) /\ seen \subseteq seen2 /\ seen2 \subseteq EntriesOf(h)
      /\ n = Len(s) /\ n < MaxCalls
      /\ IsNear(i, h, list, way, seen2, d, p) /\ IsBelow(i.path, s[n].path)
      /\ i.addr = s[n].addr => Holds(i, h, list, seen2) /\ EntryAt(i, list) \notin seen
      /\ s2 = Append(s, i)
  BY DEF Passes
<1> USE <1>a
<1>1. /\ s \in Seq(Iterators) /\ n \in 1 .. MaxCalls /\ n \in Nat /\ MaxCalls \in Nat
      /\ \A k \in 1 .. n : \E e, q : IsNear(s[k], h, list, way, seen, e, q)
      /\ \A k \in 1 .. n : HandedIn(s, k) => Holds(s[k], h, list, seen)
      /\ \A j, k \in 1 .. n :
           HandedIn(s, j) /\ HandedIn(s, k) /\ j # k => EntryAt(s[j], list) # EntryAt(s[k], list)
      /\ \A k \in 1 .. n - 1 : IsBelow(s[k + 1].path, s[k].path)
  BY CallsAreNumber DEF IsWalk
<1>2. i \in Iterators
  BY DEF IsNear
<1>3. /\ s2 \in Seq(Iterators) /\ Len(s2) = n + 1 /\ s2[n + 1] = i
      /\ \A k \in 1 .. n : s2[k] = s[k]
  BY <1>1, <1>2, AppendProperties
<1>4. /\ \A k \in 1 .. n + 1 : k = n + 1 \/ k \in 1 .. n
      /\ \A k \in 1 .. (n + 1) - 1 : k = n \/ (k \in 1 .. n - 1 /\ k + 1 \in 1 .. n)
      /\ \A k \in 1 .. n : k > 1 => k - 1 \in 1 .. n
      /\ \A k \in 1 .. n - 1 : k \in 1 .. n
      /\ n \in 1 .. n /\ (n + 1) - 1 = n /\ n + 1 \in 1 .. MaxCalls /\ n + 1 \notin 1 .. n
  BY <1>1
<1>5. /\ \A k \in 1 .. n : HandedIn(s2, k) <=> HandedIn(s, k)
      /\ HandedIn(s2, n + 1) => i.addr = s[n].addr
  BY <1>3, <1>4 DEF HandedIn
<1>6. ASSUME NEW k \in 1 .. n + 1
      PROVE  \E e, q : IsNear(s2[k], h, list, way, seen2, e, q)
  <2>1. CASE k = n + 1
    BY <1>3, <2>1
  <2>2. CASE k \in 1 .. n
    <3>1. PICK e, q : IsNear(s[k], h, list, way, seen, e, q)
      BY <1>1, <2>2
    <3>2. IsNear(s[k], h, list, way, seen2, e, q)
      BY <3>1, NearStays
    <3> QED
      BY <1>3, <2>2, <3>2
  <2> QED
    BY <1>4, <2>1, <2>2
<1>7. ASSUME NEW k \in 1 .. n + 1, HandedIn(s2, k)
      PROVE  Holds(s2[k], h, list, seen2)
  <2>1. CASE k = n + 1
    BY <1>3, <1>5, <1>7, <2>1
  <2>2. CASE k \in 1 .. n
    <3>1. Holds(s[k], h, list, seen)
      BY <1>1, <1>5, <1>7, <2>2
    <3> QED
      BY <1>3, <2>2, <3>1 DEF Holds
  <2> QED
    BY <1>4, <2>1, <2>2
<1>8. \A k \in 1 .. n : HandedIn(s2, k) =>
        HandedIn(s, k) /\ EntryAt(s2[k], list) = EntryAt(s[k], list) /\ EntryAt(s[k], list) \in seen
  BY <1>1, <1>3, <1>5 DEF Holds
<1>9. HandedIn(s2, n + 1) => EntryAt(s2[n + 1], list) \notin seen
  BY <1>3, <1>5
<1>10. ASSUME NEW j \in 1 .. n + 1, NEW k \in 1 .. n + 1,
              HandedIn(s2, j), HandedIn(s2, k), j # k
       PROVE  EntryAt(s2[j], list) # EntryAt(s2[k], list)
  <2>1. CASE j \in 1 .. n /\ k \in 1 .. n
    BY ONLY <1>1, <1>8, <1>10, <2>1
  <2>2. CASE j = n + 1 /\ k \in 1 .. n
    BY ONLY <1>8, <1>9, <1>10, <2>2
  <2>3. CASE k = n + 1 /\ j \in 1 .. n
    BY ONLY <1>8, <1>9, <1>10, <2>3
  <2> QED
    BY ONLY <1>4, <1>10, <2>1, <2>2, <2>3
<1>11. ASSUME NEW k \in 1 .. (n + 1) - 1
       PROVE  IsBelow(s2[k + 1].path, s2[k].path)
  <2>1. CASE k = n
    BY <1>3, <1>4, <2>1
  <2>2. CASE k \in 1 .. n - 1 /\ k + 1 \in 1 .. n
    BY <1>1, <1>3, <1>4, <2>2
  <2> QED
    BY <1>4, <2>1, <2>2
<1>12. IsWalk(s2, h, list, way, seen2)
  BY ONLY <1>3, <1>4, <1>6, <1>7, <1>10, <1>11, <1>a DEF IsWalk
<1> QED
  BY <1>3, <1>12 DEF Last

\* The call is over.
LEMMA WalkReturns ==
  ASSUME NEW h, NEW list, NEW way, NEW s, NEW seen, IsWalk(s, h, list, way, seen), Len(s) > 1,
         NEW s2, s2 = Front(s)
  PROVE  IsWalk(s2, h, list, way, seen) /\ IsBelow(Last(s).path, Last(s2).path)
<1>1. PICK n : n = Len(s)
  OBVIOUS
<1>2. /\ s \in Seq(Iterators) /\ n \in 1 .. MaxCalls /\ n \in Nat /\ MaxCalls \in Nat /\ n > 1
      /\ seen \subseteq EntriesOf(h)
      /\ \A k \in 1 .. n : \E e, q : IsNear(s[k], h, list, way, seen, e, q)
      /\ \A k \in 1 .. n : HandedIn(s, k) => Holds(s[k], h, list, seen)
      /\ \A j, k \in 1 .. n :
           HandedIn(s, j) /\ HandedIn(s, k) /\ j # k => EntryAt(s[j], list) # EntryAt(s[k], list)
      /\ \A k \in 1 .. n - 1 : IsBelow(s[k + 1].path, s[k].path)
  BY <1>1, CallsAreNumber DEF IsWalk
<1>3. s2 \in Seq(Iterators) /\ Len(s2) = n - 1 /\ \A j \in 1 .. n - 1 : s2[j] = s[j]
  <2>1. s # << >>
    BY <1>1, <1>2
  <2> QED
    BY <1>1, <1>2, <2>1, FrontParts
<1>4. /\ \A k \in 1 .. n - 1 : k \in 1 .. n /\ (k > 1 => k - 1 \in 1 .. n - 1)
      /\ \A k \in 1 .. (n - 1) - 1 : k \in 1 .. n - 1 /\ k + 1 \in 1 .. n - 1
      /\ n - 1 \in 1 .. MaxCalls /\ n - 1 \in 1 .. n - 1 /\ (n - 1) + 1 = n
  BY <1>2
<1>5. \A k \in 1 .. n - 1 : HandedIn(s2, k) <=> HandedIn(s, k)
  BY <1>3, <1>4 DEF HandedIn
<1>6. /\ \A k \in 1 .. n - 1 : \E e, q : IsNear(s2[k], h, list, way, seen, e, q)
      /\ \A k \in 1 .. n - 1 : HandedIn(s2, k) => Holds(s2[k], h, list, seen)
  BY <1>2, <1>3, <1>4, <1>5
<1>7. \A j, k \in 1 .. n - 1 :
        HandedIn(s2, j) /\ HandedIn(s2, k) /\ j # k => EntryAt(s2[j], list) # EntryAt(s2[k], list)
  BY <1>2, <1>3, <1>4, <1>5
<1>8. \A k \in 1 .. (n - 1) - 1 : IsBelow(s2[k + 1].path, s2[k].path)
  BY <1>2, <1>3, <1>4
<1>9. IsWalk(s2, h, list, way, seen)
  BY ONLY <1>2, <1>3, <1>4, <1>6, <1>7, <1>8 DEF IsWalk
<1>10. IsBelow(s[n].path, s2[n - 1].path)
  BY <1>2, <1>3, <1>4
<1> QED
  BY <1>1, <1>3, <1>9, <1>10 DEF Last

\* An iterator is replaced by another in its directory.
Exchanges(s, s2, n, i) ==
  /\ s \in Seq(Iterators) /\ n = Len(s) /\ n \in Nat /\ n > 0
  /\ i \in Iterators /\ s2 = [s EXCEPT ![n] = i]
  /\ i.addr = s[n].addr /\ i.path = s[n].path

LEMMA WalkReplaced ==
  ASSUME NEW s, NEW s2, NEW n, NEW i, Exchanges(s, s2, n, i)
  PROVE  /\ s2 \in Seq(Iterators) /\ Len(s2) = n /\ Last(s2) = i
         /\ \A k \in 1 .. n : s2[k] = IF k = n THEN i ELSE s[k]
         /\ \A k \in 1 .. n : HandedIn(s2, k) <=> HandedIn(s, k)
         /\ \A k \in 1 .. n : s2[k].path = s[k].path
<1> USE DEF Exchanges
<1>1. n \in 1 .. Len(s) /\ \A k \in 1 .. n : k > 1 => k - 1 \in 1 .. n
  OBVIOUS
<1>2. \A x \in Seq(Iterators) : \A j \in 1 .. Len(x) : \A e \in Iterators :
        /\ [x EXCEPT ![j] = e] \in Seq(Iterators)
        /\ Len([x EXCEPT ![j] = e]) = Len(x)
        /\ \A k \in 1 .. Len(x) : [x EXCEPT ![j] = e][k] = IF k = j THEN e ELSE x[k]
  BY ExceptSeq
<1>3. s2 \in Seq(Iterators) /\ Len(s2) = n /\ \A k \in 1 .. n : s2[k] = IF k = n THEN i ELSE s[k]
  BY <1>1, <1>2
<1>4. \A k \in 1 .. n : s2[k].addr = s[k].addr /\ s2[k].path = s[k].path
  BY <1>3
<1>5. \A k \in 1 .. n : HandedIn(s2, k) <=> HandedIn(s, k)
  BY <1>1, <1>4 DEF HandedIn
<1> QED
  BY <1>1, <1>3, <1>4, <1>5 DEF Last

\* One that was not handed on moves in its directory.
MovesOn(s, s2, h, list, way, seen, n, i, d, p) ==
  /\ IsWalk(s, h, list, way, seen) /\ n = Len(s) /\ ~HandedIn(s, n)
  /\ IsNear(i, h, list, way, seen, d, p) /\ i.addr = s[n].addr /\ i.path = s[n].path
  /\ s2 = [s EXCEPT ![n] = i]

LEMMA WalkMoves ==
  ASSUME NEW s, NEW s2, NEW h, NEW list, NEW way, NEW seen, NEW n, NEW i, NEW d, NEW p,
         MovesOn(s, s2, h, list, way, seen, n, i, d, p)
  PROVE  IsWalk(s2, h, list, way, seen) /\ Last(s2) = i
<1>a. /\ IsWalk(s, h, list, way, seen) /\ n = Len(s) /\ ~HandedIn(s, n)
      /\ IsNear(i, h, list, way, seen, d, p) /\ i.addr = s[n].addr /\ i.path = s[n].path
      /\ s2 = [s EXCEPT ![n] = i]
  BY DEF MovesOn
<1> USE <1>a
<1>1. /\ s \in Seq(Iterators) /\ n \in 1 .. MaxCalls /\ n \in Nat /\ n > 0
      /\ seen \subseteq EntriesOf(h)
      /\ \A k \in 1 .. n : \E e, q : IsNear(s[k], h, list, way, seen, e, q)
      /\ \A k \in 1 .. n : HandedIn(s, k) => Holds(s[k], h, list, seen)
      /\ \A j, k \in 1 .. n :
           HandedIn(s, j) /\ HandedIn(s, k) /\ j # k => EntryAt(s[j], list) # EntryAt(s[k], list)
      /\ \A k \in 1 .. n - 1 : IsBelow(s[k + 1].path, s[k].path)
      /\ \A k \in 1 .. n - 1 : k \in 1 .. n /\ k + 1 \in 1 .. n
  BY CallsAreNumber DEF IsWalk
<1>2. i \in Iterators
  BY DEF IsNear
<1>3. /\ s2 \in Seq(Iterators) /\ Len(s2) = n /\ Last(s2) = i
      /\ \A k \in 1 .. n : s2[k] = IF k = n THEN i ELSE s[k]
      /\ \A k \in 1 .. n : HandedIn(s2, k) <=> HandedIn(s, k)
      /\ \A k \in 1 .. n : s2[k].path = s[k].path
  <2>1. Exchanges(s, s2, n, i)
    BY <1>1, <1>2 DEF Exchanges
  <2> QED
    BY ONLY <2>1, WalkReplaced
<1>4. \A k \in 1 .. n : \E e, q : IsNear(s2[k], h, list, way, seen, e, q)
  BY <1>1, <1>3
<1>5. \A k \in 1 .. n : HandedIn(s2, k) => HandedIn(s, k) /\ s2[k] = s[k]
  BY <1>3, <1>a
<1>6. /\ \A k \in 1 .. n : HandedIn(s2, k) => Holds(s2[k], h, list, seen)
      /\ \A j, k \in 1 .. n :
           HandedIn(s2, j) /\ HandedIn(s2, k) /\ j # k => EntryAt(s2[j], list) # EntryAt(s2[k], list)
  BY ONLY <1>1, <1>5
<1>7. \A k \in 1 .. n - 1 : IsBelow(s2[k + 1].path, s2[k].path)
  BY <1>1, <1>3
<1>8. IsWalk(s2, h, list, way, seen)
  BY ONLY <1>1, <1>3, <1>4, <1>6, <1>7 DEF IsWalk
<1> QED
  BY <1>3, <1>8

\* The entry a is given other data, in b.
GivesData(h, list, way, home, h2, a, b, list2) ==
  /\ Shape(h, list, way, home) /\ a \in EntriesOf(h) /\ GetsData(h, h2, a, b)
  /\ b # Null /\ h[a].data # Null /\ list2 = ListIn(list, h, h2)

\* What that leaves.
DataIsOther(h, h2, a, b) ==
  /\ \A c \in InfosOf(h) : c \in InfosOf(h2) /\ h2[c] = h[c]
  /\ \A x \in EntriesOf(h) : x \in EntriesOf(h2) /\ (x # a => h2[x] = h[x])
  /\ h2[a] = [h[a] EXCEPT !.data = b] /\ h2[a] \in Entry

LEMMA DataOnly ==
  ASSUME NEW h, NEW list, NEW way, NEW home, NEW h2, NEW a, NEW b, NEW list2,
         GivesData(h, list, way, home, h2, a, b, list2)
  PROVE  DataIsOther(h, h2, a, b)
<1> USE DEF GivesData
<1>1. /\ b \in Addr \cup {Null} /\ b \notin DOMAIN h \ {h[a].data}
      /\ DOMAIN h2 = (DOMAIN h \ {h[a].data}) \cup ({b} \ {Null})
      /\ \A c \in DOMAIN h \ {a, b, h[a].data} : h2[c] = h[c]
      /\ h2[a] = [h[a] EXCEPT !.data = b]
  BY DEF GetsData
<1>2. /\ \A x \in EntriesOf(h) : x \in DOMAIN h /\ x \notin InfosOf(h)
      /\ \A c \in InfosOf(h) : c \in DOMAIN h
      /\ \A c \in DatasOf(h) : c \notin InfosOf(h) /\ c \notin EntriesOf(h)
      /\ Null \notin DOMAIN h
  BY Apart DEF Shape
<1>3. h[a].data = Null \/ h[a].data \in DatasOf(h)
  BY DEF Shape, DatasAreRight
<1>4. \A x \in EntriesOf(h) \cup InfosOf(h) : x # h[a].data /\ x \in DOMAIN h /\ x # b
  BY <1>1, <1>2, <1>3
<1>5. \A x \in EntriesOf(h) \cup InfosOf(h) : x \in DOMAIN h2 /\ (x # a => h2[x] = h[x])
  BY <1>1, <1>4
<1>6. h[a] \in Entry
  BY EntryParts
<1>7. h2[a] \in Entry /\ h2[a].kind = "entry"
  BY <1>1, <1>6 DEF Entry
<1>8. \A c \in InfosOf(h) : h2[c] = h[c]
  BY <1>2, <1>5
<1>9. \A c \in InfosOf(h) : c \in InfosOf(h2)
  BY <1>5, <1>8, KindOf
<1>10. \A x \in EntriesOf(h) : h2[x].kind = "entry"
  <2> TAKE x \in EntriesOf(h)
  <2>1. h[x].kind = "entry"
    BY KindOf
  <2> QED
    BY <1>5, <1>7, <2>1
<1>11. \A x \in EntriesOf(h) : x \in EntriesOf(h2)
  BY <1>5, <1>10, KindOf
<1> QED
  BY <1>1, <1>5, <1>7, <1>8, <1>9, <1>11 DEF DataIsOther

\* The last, which was handed on, gives other data to the entry it holds.
Rewriting(s, s2, h, list, way, home, seen, n, a, h2, b) ==
  /\ Shape(h, list, way, home) /\ IsWalk(s, h, list, way, seen)
  /\ n = Len(s) /\ HandedIn(s, n) /\ a = EntryAt(s[n], list)
  /\ GetsData(h, h2, a, b) /\ b # Null /\ h[a].data # Null
  /\ s2 = [s EXCEPT ![n] = [s[n] EXCEPT !.entries[s[n].pos] = h2[a]]]

\* A near view is one of the new items too.
LEMMA NearRewritten ==
  ASSUME NEW h, NEW list, NEW way, NEW home, NEW h2, NEW a, NEW b, NEW list2,
         GivesData(h, list, way, home, h2, a, b, list2),
         NEW seen, a \in seen,
         NEW i, NEW d, NEW p, IsNear(i, h, list, way, seen, d, p)
  PROVE  IsNear(i, h2, list2, way, seen, d, p)
<1>a. /\ Shape(h, list, way, home) /\ a \in EntriesOf(h) /\ GetsData(h, h2, a, b)
      /\ b # Null /\ h[a].data # Null /\ list2 = ListIn(list, h, h2)
  BY DEF GivesData
<1> USE <1>a
<1>1. /\ d \in InfosOf(h) /\ p \in 1 .. Len(list[d]) + 1 /\ i \in Iterators
      /\ i.addr = d /\ i.info = h[d] /\ i.pos = p /\ i.path = way[d]
      /\ Len(i.entries) = Len(list[d])
      /\ \A k \in 1 .. Len(list[d]) : Nearly(i.entries[k], h[list[d][k]], list[d][k], seen)
  BY DEF IsNear
<1>2. /\ \A c \in InfosOf(h) : c \in InfosOf(h2) /\ h2[c] = h[c]
      /\ \A x \in EntriesOf(h) : x # a => h2[x] = h[x]
      /\ h2[a] = [h[a] EXCEPT !.data = b]
  <2>1. DataIsOther(h, h2, a, b)
    BY ONLY GivesData(h, list, way, home, h2, a, b, list2), DataOnly
  <2> QED
    BY ONLY <2>1 DEF DataIsOther
<1>3. list2[d] = list[d]
  BY <1>1, <1>2 DEF ListIn
<1>4. h[a] \in Entry
  BY EntryParts
<1>5. ASSUME NEW k \in 1 .. Len(list[d])
      PROVE  Nearly(i.entries[k], h2[list[d][k]], list[d][k], seen)
  <2>1. list[d][k] \in EntriesOf(h) /\ Nearly(i.entries[k], h[list[d][k]], list[d][k], seen)
    BY <1>1, ListParts
  <2>2. CASE list[d][k] # a
    BY <1>2, <2>1, <2>2
  <2>3. CASE list[d][k] = a
    <3>1. PICK e, x, x2 : e = i.entries[k] /\ x = h[a] /\ x2 = h2[a]
      OBVIOUS
    <3>2. x \in Entry /\ x2 = [x EXCEPT !.data = b] /\ x.data # Null
      BY <1>2, <1>4, <3>1
    <3>3. Nearly(e, x, a, seen)
      BY <2>1, <2>3, <3>1
    <3>4. e.data # Null /\ e = [x EXCEPT !.data = e.data]
      BY ONLY <3>2, <3>3 DEF Nearly, Entry
    <3>5. x2.data = b /\ [x2 EXCEPT !.data = e.data] = [x EXCEPT !.data = e.data]
      BY ONLY <3>2 DEF Entry
    <3>6. Nearly(e, x2, a, seen)
      BY <3>4, <3>5 DEF Nearly
    <3> QED
      BY <2>3, <3>1, <3>6
  <2> QED
    BY <2>2, <2>3
<1> QED
  BY <1>1, <1>2, <1>3, <1>5 DEF IsNear

LEMMA WalkRewrites ==
  ASSUME NEW s, NEW s2, NEW h, NEW list, NEW way, NEW home, NEW seen, NEW n, NEW a, NEW h2, NEW b,
         Rewriting(s, s2, h, list, way, home, seen, n, a, h2, b),
         NEW list2, list2 = ListIn(list, h, h2)
  PROVE  IsWalk(s2, h2, list2, way, seen) /\ Last(s2).path = Last(s).path
<1>a. /\ Shape(h, list, way, home) /\ IsWalk(s, h, list, way, seen)
      /\ n = Len(s) /\ HandedIn(s, n) /\ a = EntryAt(s[n], list)
      /\ GetsData(h, h2, a, b) /\ b # Null /\ h[a].data # Null
      /\ s2 = [s EXCEPT ![n] = [s[n] EXCEPT !.entries[s[n].pos] = h2[a]]]
  BY DEF Rewriting
<1> USE <1>a
<1>1. /\ s \in Seq(Iterators) /\ n \in 1 .. MaxCalls /\ n \in Nat /\ n > 0 /\ n \in 1 .. n
      /\ seen \subseteq EntriesOf(h)
      /\ \A k \in 1 .. n : \E e, q : IsNear(s[k], h, list, way, seen, e, q)
      /\ \A k \in 1 .. n : HandedIn(s, k) => Holds(s[k], h, list, seen)
      /\ \A j, k \in 1 .. n :
           HandedIn(s, j) /\ HandedIn(s, k) /\ j # k => EntryAt(s[j], list) # EntryAt(s[k], list)
      /\ \A k \in 1 .. n - 1 : IsBelow(s[k + 1].path, s[k].path)
      /\ \A k \in 1 .. n - 1 : k \in 1 .. n /\ k + 1 \in 1 .. n
  BY CallsAreNumber DEF IsWalk
<1>2. PICK d, p : IsNear(s[n], h, list, way, seen, d, p)
  BY <1>1
<1>3. /\ a \in seen /\ a \in EntriesOf(h)
      /\ d \in InfosOf(h) /\ s[n].addr = d /\ s[n].pos = p /\ s[n].path = way[d]
      /\ p \in 1 .. Len(list[d]) /\ a = list[d][p] /\ Len(s[n].entries) = Len(list[d])
      /\ s[n] \in Iterators
  BY <1>1, <1>2 DEF Holds, EntryAt, IsNear
<1>b. GivesData(h, list, way, home, h2, a, b, list2)
  BY <1>3 DEF GivesData
<1>4. /\ \A c \in InfosOf(h) : c \in InfosOf(h2) /\ h2[c] = h[c]
      /\ \A x \in EntriesOf(h) : x \in EntriesOf(h2) /\ (x # a => h2[x] = h[x])
      /\ h2[a] \in Entry
  <2>1. DataIsOther(h, h2, a, b)
    BY ONLY <1>b, DataOnly
  <2> QED
    BY ONLY <2>1 DEF DataIsOther
<1>5. \A c \in InfosOf(h) : list2[c] = list[c]
  BY <1>4 DEF ListIn
<1>6. ASSUME NEW k \in 1 .. n
      PROVE  \E e, q : IsNear(s[k], h2, list2, way, seen, e, q)
  <2>1. PICK e, q : IsNear(s[k], h, list, way, seen, e, q)
    BY <1>1
  <2>2. IsNear(s[k], h2, list2, way, seen, e, q)
    BY ONLY <1>3, <1>b, <2>1, NearRewritten
  <2> QED
    BY <2>2
<1>7. PICK i : i = [s[n] EXCEPT !.entries[p] = h2[a]]
  OBVIOUS
<1>8. /\ i \in Iterators /\ i.addr = d /\ i.info = s[n].info /\ i.pos = p /\ i.path = s[n].path
      /\ Len(i.entries) = Len(list[d])
      /\ \A k \in 1 .. Len(list[d]) : i.entries[k] = IF k = p THEN h2[a] ELSE s[n].entries[k]
  <2>1. PICK x, y : x = s[n] /\ y = x.entries
    OBVIOUS
  <2>2. x \in Iterators /\ y \in Seq(Entry) /\ Len(y) = Len(list[d]) /\ p \in 1 .. Len(y)
    BY <1>3, <2>1 DEF Iterators
  <2>3. /\ [y EXCEPT ![p] = h2[a]] \in Seq(Entry)
        /\ Len([y EXCEPT ![p] = h2[a]]) = Len(y)
        /\ \A k \in 1 .. Len(y) : [y EXCEPT ![p] = h2[a]][k] = IF k = p THEN h2[a] ELSE y[k]
    BY <1>4, <2>2, ExceptSeq
  <2>4. PICK z : z = [y EXCEPT ![p] = h2[a]]
    OBVIOUS
  <2>5. i = [x EXCEPT !.entries = z]
    BY <1>7, <2>1, <2>4
  <2>6. /\ i \in Iterators /\ i.addr = x.addr /\ i.info = x.info /\ i.pos = x.pos /\ i.path = x.path
        /\ i.entries = z
    <3>1. z \in Seq(Entry)
      BY <2>3, <2>4
    <3> QED
      BY ONLY <2>2, <2>5, <3>1 DEF Iterators
  <2> QED
    BY <1>3, <2>1, <2>2, <2>3, <2>4, <2>6
<1>9. IsNear(i, h2, list2, way, seen, d, p)
  <2>1. IsNear(s[n], h2, list2, way, seen, d, p)
    BY ONLY <1>2, <1>3, <1>b, NearRewritten
  <2>2. list2[d] = list[d]
    BY <1>3, <1>5
  <2>3. Nearly(h2[a], h2[a], a, seen)
    BY DEF Nearly
  <2>4. \A k \in 1 .. Len(list[d]) : Nearly(i.entries[k], h2[list[d][k]], list[d][k], seen)
    BY <1>3, <1>8, <2>1, <2>2, <2>3 DEF IsNear
  <2> QED
    BY <1>8, <2>1, <2>2, <2>4 DEF IsNear
<1>10. /\ s2 \in Seq(Iterators) /\ Len(s2) = n /\ Last(s2) = i
       /\ \A k \in 1 .. n : s2[k] = IF k = n THEN i ELSE s[k]
       /\ \A k \in 1 .. n : HandedIn(s2, k) <=> HandedIn(s, k)
       /\ \A k \in 1 .. n : s2[k].path = s[k].path
  <2>1. s2 = [s EXCEPT ![n] = i] /\ i.addr = s[n].addr /\ i.path = s[n].path /\ i \in Iterators
    BY <1>3, <1>7, <1>8
  <2>2. Exchanges(s, s2, n, i)
    BY <1>1, <2>1 DEF Exchanges
  <2> QED
    BY ONLY <2>2, WalkReplaced
<1>11. \A k \in 1 .. n : \E e, q : IsNear(s2[k], h2, list2, way, seen, e, q)
  BY <1>6, <1>9, <1>10
<1>12. \A k \in 1 .. n : s2[k].addr = s[k].addr /\ s2[k].pos = s[k].pos /\ s[k].addr \in InfosOf(h)
  <2> TAKE k \in 1 .. n
  <2>1. PICK e, q : IsNear(s[k], h, list, way, seen, e, q)
    BY <1>1
  <2> QED
    BY <1>3, <1>8, <1>10, <2>1 DEF IsNear
<1>13. \A k \in 1 .. n : /\ list2[s2[k].addr] = list[s[k].addr]
                         /\ EntryAt(s2[k], list2) = EntryAt(s[k], list)
  <2> TAKE k \in 1 .. n
  <2>1. list2[s2[k].addr] = list[s[k].addr]
    BY ONLY <1>5, <1>12
  <2>2. list2[s2[k].addr][s2[k].pos] = list[s[k].addr][s[k].pos]
    BY ONLY <1>12, <2>1
  <2> QED
    BY ONLY <2>1, <2>2 DEF EntryAt
<1>14. ASSUME NEW k \in 1 .. n, HandedIn(s2, k)
       PROVE  Holds(s2[k], h2, list2, seen)
  <2>1. /\ HandedIn(s, k) /\ s[k].pos \in 1 .. Len(list[s[k].addr])
        /\ EntryAt(s[k], list) \in seen /\ s[k].entries[s[k].pos] = h[EntryAt(s[k], list)]
    BY <1>1, <1>10, <1>14 DEF Holds
  <2>2. CASE k = n
    <3>1. s2[k] = i /\ i.pos = p /\ i.entries[p] = h2[a] /\ EntryAt(s2[k], list2) = a
      BY <1>3, <1>8, <1>10, <1>13, <2>2
    <3>2. i.pos \in 1 .. Len(list2[i.addr])
      BY <1>12, <1>13, <2>1, <3>1
    <3> QED
      BY <1>3, <3>1, <3>2 DEF Holds
  <2>3. CASE k # n
    <3>1. s2[k] = s[k] /\ EntryAt(s[k], list) # a /\ EntryAt(s[k], list) \in EntriesOf(h)
      BY <1>1, <1>10, <2>1, <2>3
    <3>2. h2[EntryAt(s[k], list)] = h[EntryAt(s[k], list)]
      BY <1>4, <3>1
    <3> QED
      BY <1>13, <2>1, <3>1, <3>2 DEF Holds
  <2> QED
    BY <2>2, <2>3
<1>15. \A j, k \in 1 .. n :
         HandedIn(s2, j) /\ HandedIn(s2, k) /\ j # k => EntryAt(s2[j], list2) # EntryAt(s2[k], list2)
  BY ONLY <1>1, <1>10, <1>13
<1>16. \A k \in 1 .. n - 1 : IsBelow(s2[k + 1].path, s2[k].path)
  BY ONLY <1>1, <1>10
<1>17. seen \subseteq EntriesOf(h2)
  BY <1>1, <1>4
<1>18. IsWalk(s2, h2, list2, way, seen)
  BY ONLY <1>1, <1>10, <1>11, <1>14, <1>15, <1>16, <1>17 DEF IsWalk
<1> QED
  BY <1>1, <1>8, <1>10, <1>18 DEF Last

-----------------------------------------------------------------------------
(* The steps of the integrity check                                        *)

\* The items h have a shape, and the iterators s of a check nearly show it.
IsWalkState(h, s, seen) ==
  \E list, way, home : Shape(h, list, way, home) /\ IsWalk(s, h, list, way, seen)

\* What a step of the check leads to.
WalkKeeps == /\ IsWalkState(heap', iters', visited')
             /\ StepsTo(TreeOf(heap), it.path, TreeOf(heap'), it'.path)

\* The iterator at work is at an entry of a directory.
IsNowNear(list, way, home, n, d, p) ==
  /\ Shape(heap, list, way, home) /\ IsWalk(iters, heap, list, way, visited)
  /\ n = Len(iters) /\ n \in 1 .. MaxCalls /\ it = iters[n] /\ visited \subseteq EntriesOf(heap)
  /\ IsNear(it, heap, list, way, visited, d, p)

LEMMA NowNear ==
  ASSUME IsWalkState(heap, iters, visited)
  PROVE  \E list, way, home, n, d, p : IsNowNear(list, way, home, n, d, p)
<1>1. PICK list, way, home : Shape(heap, list, way, home) /\ IsWalk(iters, heap, list, way, visited)
  BY DEF IsWalkState
<1>2. PICK n : n = Len(iters)
  OBVIOUS
<1>3. n \in 1 .. MaxCalls /\ n \in 1 .. n /\ it = iters[n] /\ visited \subseteq EntriesOf(heap)
  BY <1>1, <1>2, CallsAreNumber DEF IsWalk, it, Last
<1>4. PICK d, p : IsNear(it, heap, list, way, visited, d, p)
  BY <1>1, <1>2, <1>3 DEF IsWalk
<1> QED
  BY <1>1, <1>2, <1>3, <1>4 DEF IsNowNear

\* The entry it is at.
LEMMA CurNear ==
  ASSUME NEW list, NEW way, NEW home, NEW n, NEW d, NEW p, IsNowNear(list, way, home, n, d, p),
         ~Done
  PROVE  \E a \in EntriesOf(heap) :
           /\ p \in 1 .. Len(list[d]) /\ a = list[d][p] /\ home[a] = d
           /\ it.addr = d /\ it.pos = p /\ it.path = way[d] /\ a = EntryAt(it, list)
           /\ Cur = it.entries[p] /\ Nearly(Cur, heap[a], a, visited)
           /\ Cur.child = heap[a].child /\ Cur.name = heap[a].name
           /\ AddrAt(it, it.pos) = a
           /\ CanDescend <=> heap[a].child # Null
           /\ HasData <=> heap[a].data # Null
<1>1. /\ Shape(heap, list, way, home) /\ IsNear(it, heap, list, way, visited, d, p)
      /\ d \in InfosOf(heap) /\ it.addr = d /\ it.pos = p /\ it.path = way[d]
      /\ p \in 1 .. Len(list[d]) + 1 /\ Len(it.entries) = Len(list[d])
  BY DEF IsNowNear, IsNear
<1>2. Len(list[d]) \in Nat
  BY <1>1, NearParts
<1>3. p \in 1 .. Len(list[d])
  BY <1>1, <1>2 DEF Done
<1>4. /\ Cur = it.entries[p] /\ Cur.child = heap[list[d][p]].child
      /\ Cur.name = heap[list[d][p]].name
      /\ Cur.data # Null <=> heap[list[d][p]].data # Null
      /\ AddrAt(it, it.pos) = list[d][p]
  BY <1>1, <1>3, NearParts DEF Cur
<1>5. list[d][p] \in EntriesOf(heap) /\ home[list[d][p]] = d
  BY <1>1, <1>3, ListParts
<1>6. Nearly(Cur, heap[list[d][p]], list[d][p], visited)
  BY <1>1, <1>3, <1>4 DEF IsNear
<1> QED
  BY <1>1, <1>3, <1>4, <1>5, <1>6 DEF CanDescend, HasData, EntryAt

\* Handed is HandedIn of the iterators.
LEMMA HandedIs == \A k : Handed(k) <=> HandedIn(iters, k)
  BY DEF Handed, HandedIn

\* ProcessChangedFCO is handed a copy of its caller's iterator.
LEMMA ProcessKeeps ==
  ASSUME IsWalkState(heap, iters, visited), ProcessChangedFCO
  PROVE  WalkKeeps
<1>1. PICK list, way, home, n, d, p : IsNowNear(list, way, home, n, d, p)
  BY NowNear
<1>2. /\ ~Done /\ AddrAt(it, it.pos) \notin visited /\ Len(iters) < MaxCalls
      /\ iters' = Append(iters, it) /\ visited' = visited \cup {AddrAt(it, it.pos)}
      /\ UNCHANGED heap
  BY DEF ProcessChangedFCO
<1>3. PICK a \in EntriesOf(heap) :
        /\ p \in 1 .. Len(list[d]) /\ a = list[d][p]
        /\ it.addr = d /\ it.pos = p /\ a = EntryAt(it, list)
        /\ Cur = it.entries[p] /\ Nearly(Cur, heap[a], a, visited) /\ AddrAt(it, it.pos) = a
  BY <1>1, <1>2, CurNear
<1>4. /\ Shape(heap, list, way, home) /\ IsWalk(iters, heap, list, way, visited)
      /\ n = Len(iters) /\ it = iters[n] /\ visited \subseteq EntriesOf(heap)
      /\ IsNear(it, heap, list, way, visited, d, p)
  BY <1>1 DEF IsNowNear
<1>5. a \notin visited /\ visited' = visited \cup {a} /\ Cur = heap[a]
  BY <1>2, <1>3 DEF Nearly
<1>6. Holds(it, heap, list, visited')
  BY <1>3, <1>5 DEF Holds
<1>7. PICK i, s, s2, seen, seen2 : /\ i = it /\ s = iters /\ s2 = iters'
                                   /\ seen = visited /\ seen2 = visited'
  OBVIOUS
<1>8. /\ IsWalk(s, heap, list, way, seen) /\ seen \subseteq seen2 /\ seen2 \subseteq EntriesOf(heap)
      /\ n = Len(s) /\ n < MaxCalls /\ IsNear(i, heap, list, way, seen, d, p)
      /\ i.path = s[n].path
      /\ Holds(i, heap, list, seen2) /\ EntryAt(i, list) \notin seen
      /\ s2 = Append(s, i)
  BY <1>2, <1>3, <1>4, <1>5, <1>6, <1>7
<1>9. IsNear(i, heap, list, way, seen2, d, p) /\ IsBelow(i.path, s[n].path)
  BY <1>8, NearStays DEF IsBelow
<1>10. IsWalk(s2, heap, list, way, seen2) /\ Last(s2) = i
  <2>1. Passes(s, s2, heap, list, way, seen, seen2, n, i, d, p)
    BY ONLY <1>8, <1>9 DEF Passes
  <2> QED
    BY ONLY <2>1, WalkCalls
<1>11. IsWalk(iters', heap, list, way, visited') /\ it' = it
  BY <1>7, <1>10 DEF it
<1>12. IsWalkState(heap', iters', visited')
  BY <1>2, <1>4, <1>11 DEF IsWalkState
<1> QED
  BY <1>2, <1>11, <1>12, MoveSteps DEF WalkKeeps

\* The check is somewhere else in the items as they are.
LEMMA WalkStays ==
  ASSUME NEW list, NEW way, NEW home, Shape(heap, list, way, home), UNCHANGED heap,
         NEW s2, s2 = iters', NEW seen2, seen2 = visited', IsWalk(s2, heap, list, way, seen2),
         NEW w2, w2 = Last(s2).path,
         \/ w2 = it.path
         \/ w2 \in HT!Children(TreeOf(heap), it.path) /\ TreeOf(heap)[w2].dir
         \/ it.path # << >> /\ w2 = Front(it.path)
         \/ w2 = << >>
  PROVE  WalkKeeps
<1>1. IsWalkState(heap', iters', visited')
  BY DEF IsWalkState
<1>2. it'.path = w2
  BY DEF it
<1> QED
  BY <1>1, <1>2, MoveSteps DEF WalkKeeps

\* The iterator moves in its directory.
LEMMA WalkSeekKeeps ==
  ASSUME IsWalkState(heap, iters, visited), ~Handed(Len(iters)), Seek, UNCHANGED visited
  PROVE  WalkKeeps
<1>1. PICK list, way, home, n, d, p : IsNowNear(list, way, home, n, d, p)
  BY NowNear
<1>2. PICK k \in 1 .. Len(it.entries) + 1 : Replaced([it EXCEPT !.pos = k])
  BY DEF Seek
<1>3. UNCHANGED heap
  BY DEF Seek
<1>4. /\ Shape(heap, list, way, home) /\ IsWalk(iters, heap, list, way, visited)
      /\ n = Len(iters) /\ it = iters[n]
      /\ IsNear(it, heap, list, way, visited, d, p)
  BY <1>1 DEF IsNowNear
<1>5. PICK i, j, s, s2, seen : /\ j = it /\ i = [it EXCEPT !.pos = k] /\ s = iters /\ s2 = iters'
                               /\ seen = visited
  OBVIOUS
<1>6. j \in Iterators /\ Len(j.entries) = Len(list[d]) /\ Len(list[d]) \in Nat
  BY <1>4, <1>5, NearParts DEF IsNear
<1>7. k \in Nat /\ k \in 1 .. Len(list[d]) + 1
  BY <1>5, <1>6
<1>8. /\ i \in Iterators /\ i.addr = j.addr /\ i.info = j.info /\ i.pos = k /\ i.path = j.path
      /\ i.entries = j.entries
  <2>1. i = [j EXCEPT !.pos = k]
    BY <1>5
  <2> QED
    BY ONLY <1>6, <1>7, <2>1 DEF Iterators
<1>9. IsNear(i, heap, list, way, seen, d, k)
  BY <1>4, <1>5, <1>7, <1>8 DEF IsNear
<1>10. s2 = [s EXCEPT ![n] = i] /\ ~HandedIn(s, n)
  BY <1>2, <1>4, <1>5, HandedIs DEF Replaced
<1>11. IsWalk(s, heap, list, way, seen) /\ n = Len(s) /\ i.addr = s[n].addr /\ i.path = s[n].path
  BY <1>4, <1>5, <1>8
<1>12. IsWalk(s2, heap, list, way, seen) /\ Last(s2) = i
  <2>1. MovesOn(s, s2, heap, list, way, seen, n, i, d, k)
    BY ONLY <1>9, <1>10, <1>11 DEF MovesOn
  <2> QED
    BY ONLY <2>1, WalkMoves
<1>13. seen = visited' /\ s2 = iters' /\ i.path = it.path
  BY <1>5, <1>8
<1> QED
  BY <1>3, <1>4, <1>12, <1>13, WalkStays

\* The only iterator is replaced by a fresh one.
LEMMA WalkReloads ==
  ASSUME NEW list, NEW way, NEW home, Shape(heap, list, way, home), UNCHANGED heap,
         NEW seen2, seen2 = visited', seen2 \subseteq EntriesOf(heap),
         NEW c \in InfosOf(heap), NEW i, i = View(c, heap, list, way, 1), iters' = <<i>>,
         \/ way[c] = it.path
         \/ way[c] \in HT!Children(TreeOf(heap), it.path) /\ TreeOf(heap)[way[c]].dir
         \/ it.path # << >> /\ way[c] = Front(it.path)
         \/ way[c] = << >>
  PROVE  WalkKeeps
<1>1. 1 \in 1 .. Len(list[c]) + 1
  BY ListParts
<1>2. IsNear(i, heap, list, way, seen2, c, 1)
  BY <1>1, ViewIsNear
<1>3. PICK s2 : s2 = iters'
  OBVIOUS
<1>4. IsWalk(s2, heap, list, way, seen2) /\ Last(s2) = i
  BY <1>2, <1>3, WalkStarts
<1>5. Last(s2).path = way[c]
  BY <1>2, <1>4 DEF IsNear
<1> QED
  BY <1>3, <1>4, <1>5, WalkStays

LEMMA WalkDescendKeeps ==
  ASSUME IsWalkState(heap, iters, visited), Descend, UNCHANGED visited
  PROVE  WalkKeeps
<1>1. PICK list, way, home, n, d, p : IsNowNear(list, way, home, n, d, p)
  BY NowNear
<1>2. Len(iters) = 1 /\ CanDescend /\ ~Done /\ Replaced(Below) /\ UNCHANGED heap
  BY DEF Descend, CanDescend
<1>3. PICK a \in EntriesOf(heap) :
        /\ home[a] = d /\ it.path = way[d] /\ heap[a].child # Null
        /\ Cur.child = heap[a].child /\ Cur.name = heap[a].name
  BY <1>1, <1>2, CurNear
<1>4. /\ Shape(heap, list, way, home) /\ iters \in Seq(Iterators) /\ visited \subseteq EntriesOf(heap)
  BY <1>1 DEF IsNowNear, IsWalk
<1>5. PICK c \in InfosOf(heap) :
        /\ Below = View(c, heap, list, way, 1)
        /\ way[c] \in HT!Children(TreeOf(heap), it.path) /\ TreeOf(heap)[way[c]].dir
  BY <1>3, <1>4, BelowAt
<1>6. iters' = <<Below>>
  BY <1>2, <1>4, ReplacedOne
<1>7. visited' = visited
  OBVIOUS
<1> QED
  BY <1>2, <1>4, <1>5, <1>6, <1>7, WalkReloads

LEMMA WalkAscendKeeps ==
  ASSUME IsWalkState(heap, iters, visited), Ascend, UNCHANGED visited
  PROVE  WalkKeeps
<1>1. PICK list, way, home, n, d, p : IsNowNear(list, way, home, n, d, p)
  BY NowNear
<1>2. PICK c, i : c = it.info.parent /\ i = LoadArrayAt(heap, c, Front(it.path))
  OBVIOUS
<1>3. Len(iters) = 1 /\ it.addr # RootInfo /\ Replaced(i) /\ UNCHANGED heap
  BY <1>2 DEF Ascend
<1>4. /\ Shape(heap, list, way, home) /\ iters \in Seq(Iterators) /\ visited \subseteq EntriesOf(heap)
      /\ d \in InfosOf(heap) /\ it.addr = d /\ it.info = heap[d] /\ it.path = way[d]
  BY <1>1 DEF IsNowNear, IsWalk, IsNear
<1>5. c \in InfosOf(heap) /\ way[d] # << >> /\ Front(way[d]) = way[c]
  BY <1>2, <1>3, <1>4, AboveIs
<1>6. i = View(c, heap, list, way, 1)
  BY <1>2, <1>4, <1>5, LoadedIs
<1>7. iters' = <<i>> /\ visited' = visited
  BY <1>3, <1>4, ReplacedOne
<1>8. it.path # << >> /\ way[c] = Front(it.path)
  BY <1>4, <1>5
<1> QED
  BY <1>3, <1>4, <1>5, <1>6, <1>7, <1>8, WalkReloads

\* A new iterator at the root: Reopen, and where a check begins and ends.
LEMMA AtRootKeeps ==
  ASSUME NEW list, NEW way, NEW home, Shape(heap, list, way, home),
         iters' = AtRoot, UNCHANGED heap, visited' \subseteq EntriesOf(heap)
  PROVE  WalkKeeps
<1>1. RootInfo \in InfosOf(heap) /\ heap[1].child = RootInfo /\ way[RootInfo] = << >>
  BY DEF Shape, IsHeap, WaysAreRight, Root
<1>2. PICK i : i = LoadArrayAt(heap, RootInfo, << >>)
  OBVIOUS
<1>3. iters' = <<i>> /\ i = View(RootInfo, heap, list, way, 1)
  BY <1>1, <1>2, LoadedIs DEF AtRoot
<1> QED
  BY <1>1, <1>3, WalkReloads

\* ProcessChangedFCO's copy is passed to ProcessDir, which descends.
LEMMA WalkCallKeeps ==
  ASSUME IsWalkState(heap, iters, visited), Call, UNCHANGED visited
  PROVE  WalkKeeps
<1>1. PICK list, way, home, n, d, p : IsNowNear(list, way, home, n, d, p)
  BY NowNear
<1>2. Len(iters) < MaxCalls /\ CanDescend /\ ~Done /\ iters' = Append(iters, Below) /\ UNCHANGED heap
  BY DEF Call, CanDescend
<1>3. PICK a \in EntriesOf(heap) :
        /\ home[a] = d /\ it.path = way[d] /\ it.addr = d /\ heap[a].child # Null
        /\ Cur.child = heap[a].child /\ Cur.name = heap[a].name
  BY <1>1, <1>2, CurNear
<1>4. /\ Shape(heap, list, way, home) /\ IsWalk(iters, heap, list, way, visited)
      /\ n = Len(iters) /\ it = iters[n] /\ visited \subseteq EntriesOf(heap) /\ d \in InfosOf(heap)
  BY <1>1 DEF IsNowNear, IsNear
<1>5. PICK c \in InfosOf(heap), x \in Name :
        /\ way[c] = Append(way[d], x) /\ Below = View(c, heap, list, way, 1)
        /\ way[c] \in HT!Children(TreeOf(heap), it.path) /\ TreeOf(heap)[way[c]].dir
  BY <1>3, <1>4, BelowAt
<1>6. /\ way[d] \in Seq(Name) /\ Front(way[c]) = way[d] /\ way[c] # << >>
      /\ Len(way[c]) = Len(way[d]) + 1 /\ Len(way[d]) \in Nat
  <2>1. way[d] \in Seq(Name)
    BY <1>4 DEF Shape, WaysAreRight
  <2> QED
    BY <1>5, <2>1, FrontIs
<1>7. c # d
  BY <1>6
<1>8. PICK i, s, s2, seen : i = Below /\ s = iters /\ s2 = iters' /\ seen = visited
  OBVIOUS
<1>9. 1 \in 1 .. Len(list[c]) + 1
  BY <1>4, ListParts
<1>10. IsNear(i, heap, list, way, seen, c, 1)
  BY <1>4, <1>5, <1>8, <1>9, ViewIsNear
<1>11. i.addr = c /\ i.path = way[c]
  BY <1>10 DEF IsNear
<1>12. /\ IsWalk(s, heap, list, way, seen) /\ seen \subseteq EntriesOf(heap)
       /\ n = Len(s) /\ n < MaxCalls /\ i.addr # s[n].addr
       /\ IsBelow(i.path, s[n].path) /\ s2 = Append(s, i)
  BY <1>2, <1>3, <1>4, <1>6, <1>7, <1>8, <1>11 DEF IsBelow
<1>13. IsWalk(s2, heap, list, way, seen) /\ Last(s2) = i
  <2>1. Passes(s, s2, heap, list, way, seen, seen, n, i, c, 1)
    BY ONLY <1>10, <1>12 DEF Passes
  <2> QED
    BY ONLY <2>1, WalkCalls
<1>14. s2 = iters' /\ seen = visited'
  BY <1>8
<1> QED
  BY <1>2, <1>4, <1>5, <1>11, <1>13, <1>14, WalkStays

LEMMA WalkReturnKeeps ==
  ASSUME IsWalkState(heap, iters, visited), Return, UNCHANGED visited
  PROVE  WalkKeeps
<1>1. PICK list, way, home : Shape(heap, list, way, home) /\ IsWalk(iters, heap, list, way, visited)
  BY DEF IsWalkState
<1>2. Len(iters) > 1 /\ iters' = Front(iters) /\ UNCHANGED heap
  BY DEF Return
<1>3. PICK s, s2, seen : s = iters /\ s2 = iters' /\ seen = visited
  OBVIOUS
<1>4. IsWalk(s2, heap, list, way, seen) /\ IsBelow(Last(s).path, Last(s2).path)
  BY <1>1, <1>2, <1>3, WalkReturns
<1>5. Last(s).path = it.path /\ s2 = iters' /\ seen = visited'
  BY <1>3 DEF it
<1>6. Last(s2).path = it.path \/ (it.path # << >> /\ Last(s2).path = Front(it.path))
  BY <1>4, <1>5 DEF IsBelow
<1> QED
  BY <1>1, <1>2, <1>4, <1>5, <1>6, WalkStays

\* ProcessChangedFCO's copy has the entry right, and gives it other data.
LEMMA WalkRewriteKeeps ==
  ASSUME NEW v \in Payload, RewriteFCO(v), UNCHANGED visited, IsWalkState(heap, iters, visited)
  PROVE  WalkKeeps
<1>1. PICK list, way, home, n, d, p : IsNowNear(list, way, home, n, d, p)
  BY NowNear
<1>2. Handed(Len(iters)) /\ HasData /\ ~Done /\ SetData(v)
  BY DEF RewriteFCO, HasData
<1>3. /\ Shape(heap, list, way, home) /\ IsWalk(iters, heap, list, way, visited)
      /\ n = Len(iters) /\ n \in 1 .. MaxCalls /\ it = iters[n]
  BY <1>1 DEF IsNowNear
<1>4. PICK a \in EntriesOf(heap) :
        /\ home[a] = d /\ it.pos = p /\ it.path = way[d] /\ a = EntryAt(it, list)
        /\ Cur = it.entries[p] /\ AddrAt(it, it.pos) = a /\ heap[a].data # Null
  BY <1>1, <1>2, CurNear
<1>5. HandedIn(iters, n) /\ n \in 1 .. n
  BY <1>2, <1>3, HandedIs, CallsAreNumber
<1>6. Holds(it, heap, list, visited)
  BY <1>3, <1>5 DEF IsWalk
<1>7. Cur = heap[a]
  BY <1>4, <1>6 DEF Holds
<1>8. PICK b : /\ GetsData(heap, heap', a, b) /\ b # Null
               /\ Replaced([it EXCEPT !.entries[it.pos] = heap'[a]])
  BY <1>2, <1>3, <1>4, <1>7, SetDataGets
<1>9. PICK list2 : list2 = ListIn(list, heap, heap')
  OBVIOUS
<1>10. Shape(heap', list2, way, home)
  <2>1. GetsData(heap, heap', a, b) /\ Shape(heap, list, way, home) /\ a \in EntriesOf(heap)
    BY <1>3, <1>8
  <2>2. ChangesEntry(heap, list, way, home, heap', ListIn(list, heap, heap'), way, a)
    BY ONLY <2>1, DataIsChanged
  <2> QED
    BY <1>9, <2>2 DEF ChangesEntry
<1>11. PICK s, s2, seen, h2 : s = iters /\ s2 = iters' /\ seen = visited /\ h2 = heap'
  OBVIOUS
<1>12. s2 = [s EXCEPT ![n] = [s[n] EXCEPT !.entries[s[n].pos] = h2[a]]]
  BY <1>3, <1>8, <1>11 DEF Replaced
<1>13. Rewriting(s, s2, heap, list, way, home, seen, n, a, h2, b)
  BY <1>3, <1>4, <1>5, <1>8, <1>11, <1>12 DEF Rewriting
<1>14. IsWalk(s2, h2, list2, way, seen) /\ Last(s2).path = Last(s).path
  BY <1>9, <1>11, <1>13, WalkRewrites
<1>15. visited' = visited
  OBVIOUS
<1>16. IsWalk(iters', heap', list2, way, visited') /\ it'.path = it.path
  BY <1>11, <1>14, <1>15 DEF it
<1>17. StepsTo(TreeOf(heap), it.path, TreeOf(heap'), it.path)
  BY <1>3, <1>4, <1>8, DataSteps
<1> QED
  BY <1>10, <1>16, <1>17 DEF IsWalkState, WalkKeeps

\* The steps between the check's beginning and its end.
LEMMA CheckSteps ==
  ASSUME IsWalkState(heap, iters, visited), Check
  PROVE  WalkKeeps
<1>1. CASE ProcessChangedFCO
  BY <1>1, ProcessKeeps
<1>2. CASE ~Handed(Len(iters)) /\ Seek /\ UNCHANGED visited
  BY <1>2, WalkSeekKeeps
<1>3. CASE Descend /\ UNCHANGED visited
  BY <1>3, WalkDescendKeeps
<1>4. CASE Ascend /\ UNCHANGED visited
  BY <1>4, WalkAscendKeeps
<1>5. CASE Reopen /\ UNCHANGED visited
  <2>1. PICK list, way, home : /\ Shape(heap, list, way, home)
                               /\ IsWalk(iters, heap, list, way, visited)
    BY DEF IsWalkState
  <2>2. visited' \subseteq EntriesOf(heap) /\ iters' = AtRoot /\ UNCHANGED heap
    BY <1>5, <2>1 DEF IsWalk, Reopen
  <2> QED
    BY <2>1, <2>2, AtRootKeeps
<1>6. CASE Call /\ UNCHANGED visited
  BY <1>6, WalkCallKeeps
<1>7. CASE Return /\ UNCHANGED visited
  BY <1>7, WalkReturnKeeps
<1>8. ASSUME NEW v \in Payload, RewriteFCO(v), UNCHANGED visited
      PROVE  WalkKeeps
  BY ONLY <1>8, IsWalkState(heap, iters, visited), WalkRewriteKeeps
<1> QED
  BY <1>1, <1>2, <1>3, <1>4, <1>5, <1>6, <1>7, <1>8 DEF Check, Walks

-----------------------------------------------------------------------------
(* The inductive invariant holds                                           *)

\* Outside of a check the iterators show what the file holds, in a check but
\* for the data of what it has been at.
HierInvariant ==
  /\ checking \in BOOLEAN
  /\ checking => IsWalkState(heap, iters, visited)
  /\ ~checking => EditState /\ visited = {}

\* A new file: the root and an array without entries.
LEMMA NewFileIs ==
  ASSUME NEW h, h = <<Root, Info(Null, Null)>>, NEW list, list = [d \in {RootInfo} |-> << >>]
  PROVE  Shape(h, list, list, [a \in {} |-> RootInfo]) /\ EntriesOf(h) = {}
<1>1. /\ DOMAIN h = {1, 2} /\ h[1] = Root /\ h[2] = [kind |-> "info", parent |-> Null, array |-> Null]
      /\ RootInfo = 2 /\ Root.kind = "root"
  BY DEF Info, RootInfo, Root
<1>2. h[2].kind = "info" /\ h[2].parent = Null /\ h[2].array = Null
  BY <1>1
<1>3. EntriesOf(h) = {} /\ InfosOf(h) = {RootInfo} /\ DatasOf(h) = {}
  BY <1>1, <1>2 DEF EntriesOf, InfosOf, DatasOf
<1>4. IsHeap(h)
  <2>1. DOMAIN h \subseteq Addr
    BY <1>1, RoomForTheRoot DEF Addr
  <2>2. h[1] \in Node /\ h[2] \in Node
    BY <1>1 DEF Node
  <2> QED
    BY <1>1, <1>2, <1>3, <2>1, <2>2 DEF IsHeap
<1>5. list[RootInfo] = << >> /\ Len(<< >>) = 0 /\ << >> \in Seq({}) /\ << >> \in Seq(Name)
  OBVIOUS
<1>6. ListsAreRight(h, list, [a \in {} |-> RootInfo])
  BY <1>1, <1>2, <1>3, <1>5 DEF ListsAreRight, IsChain
<1>7. WaysAreRight(h, list, [a \in {} |-> RootInfo])
  BY <1>3, <1>5, DepthIsNumber DEF WaysAreRight
<1>8. DatasAreRight(h)
  BY <1>3 DEF DatasAreRight
<1> QED
  BY <1>3, <1>4, <1>6, <1>7, <1>8 DEF Shape

\* The first state has the invariant and stands for an empty tree.
LEMMA HierStarts ==
  ASSUME HierInit
  PROVE  EditState /\ Tree = << >> /\ it.path = << >>
<1>1. PICK i, list, home : /\ i = LoadArrayAt(heap, RootInfo, << >>)
                           /\ list = [d \in {RootInfo} |-> << >>]
                           /\ home = [a \in {} |-> RootInfo]
  OBVIOUS
<1>2. heap = <<Root, Info(Null, Null)>> /\ iters = <<i>>
  BY <1>1 DEF HierInit
<1>3. Shape(heap, list, list, home) /\ EntriesOf(heap) = {}
  BY <1>1, <1>2, NewFileIs
<1>4. RootInfo \in InfosOf(heap) /\ list[RootInfo] = << >>
  BY <1>1, <1>3 DEF Shape, IsHeap
<1>5. i = View(RootInfo, heap, list, list, 1)
  BY <1>1, <1>3, <1>4, LoadedIs
<1>6. IsStack(iters, heap, list, list) /\ it.path = << >>
  <2>1. PICK s : s = iters
    OBVIOUS
  <2>2. IsStack(s, heap, list, list) /\ Last(s) = i /\ i.path = << >>
    BY <1>2, <1>3, <1>4, <1>5, <2>1, OneView
  <2> QED
    BY <2>1, <2>2 DEF it
<1>7. Tree = << >>
  <2>1. PICK t : t = TreeOf(heap)
    OBVIOUS
  <2>2. DOMAIN t = {} /\ t = [p \in DOMAIN t |-> t[p]]
    <3>1. /\ DOMAIN t = {PathOf(heap, list, home, a) : a \in EntriesOf(heap)}
          /\ t = [p \in DOMAIN t |-> t[p]]
      BY <1>3, <2>1, TreeParts
    <3> QED
      BY <1>3, <3>1
  <2>3. t = << >>
    BY ONLY <2>2
  <2> QED
    BY <2>1, <2>3 DEF Tree
<1> QED
  BY <1>3, <1>6, <1>7 DEF EditState, IsState

\* Everything outside of a check.
LEMMA EditSteps ==
  ASSUME EditState, Edit
  PROVE  Keeps
<1>1. ASSUME NEW n \in Name, CreateEntry(n) PROVE Keeps
  BY <1>1, CreateEntryKeeps
<1>2. ASSUME NEW v \in Payload, SetData(v) PROVE Keeps
  BY <1>2, SetDataKeeps
<1>3. CASE RemoveData
  BY <1>3, RemoveDataKeeps
<1>4. CASE CreateChildArray
  BY <1>4, CreateChildArrayKeeps
<1>5. CASE DeleteChildArray
  BY <1>5, DeleteChildArrayKeeps
<1>6. CASE DeleteEntry
  BY <1>6, DeleteEntryKeeps
<1>7. CASE Seek
  BY <1>7, SeekKeeps
<1>8. CASE Descend
  BY <1>8, DescendKeeps
<1>9. CASE Ascend
  BY <1>9, AscendKeeps
<1>10. CASE Call
  BY <1>10, CallKeeps
<1>11. CASE Return
  BY <1>11, ReturnKeeps
<1>12. CASE Reopen
  BY <1>12, ReopenKeeps
<1> QED
  BY <1>1, <1>2, <1>3, <1>4, <1>5, <1>6, <1>7, <1>8, <1>9, <1>10, <1>11, <1>12 DEF Edit

\* Every step keeps the invariant and is a step of the tree.
LEMMA HierSteps ==
  ASSUME HierInvariant, [HierNext]_hierVars
  PROVE  /\ HierInvariant'
         /\ StepsTo(TreeOf(heap), it.path, TreeOf(heap'), it'.path)
<1>1. CASE ~checking /\ Edit /\ UNCHANGED <<checking, visited>>
  <2>1. Keeps
    BY <1>1, EditSteps DEF HierInvariant
  <2> QED
    BY <1>1, <2>1 DEF HierInvariant, EditState, Keeps
<1>2. CASE checking /\ Check /\ UNCHANGED checking
  <2>1. WalkKeeps
    BY <1>2, CheckSteps DEF HierInvariant
  <2> QED
    BY <1>2, <2>1 DEF HierInvariant, WalkKeeps
<1>3. CASE CheckBegins
  <2>1. /\ EditState /\ visited' = {} /\ checking' = TRUE
        /\ iters' = AtRoot /\ UNCHANGED heap
    BY <1>3 DEF CheckBegins, HierInvariant
  <2>2. PICK list, way, home : Shape(heap, list, way, home)
    BY <2>1 DEF EditState, IsState
  <2>3. WalkKeeps
    BY <2>1, <2>2, AtRootKeeps
  <2> QED
    BY <2>1, <2>3 DEF HierInvariant, WalkKeeps
<1>4. CASE CheckEnds
  <2>1. /\ IsWalkState(heap, iters, visited) /\ visited' = {} /\ checking' = FALSE
        /\ iters' = AtRoot /\ UNCHANGED heap
    BY <1>4 DEF CheckEnds, HierInvariant
  <2>2. PICK list, way, home : Shape(heap, list, way, home)
    BY <2>1 DEF IsWalkState
  <2>3. Keeps
    BY <2>1, <2>2, RootShows
  <2> QED
    BY <2>1, <2>3 DEF HierInvariant, EditState, Keeps
<1>5. CASE UNCHANGED hierVars
  <2>1. UNCHANGED <<heap, iters, checking, visited>>
    BY <1>5 DEF hierVars
  <2>2. it' = it
    BY <2>1 DEF it
  <2>3. HierInvariant'
    BY <2>1 DEF HierInvariant, EditState
  <2>4. StepsTo(TreeOf(heap), it.path, TreeOf(heap'), it'.path)
    BY <2>1, <2>2 DEF StepsTo
  <2> QED
    BY <2>3, <2>4
<1> QED
  BY <1>1, <1>2, <1>3, <1>4, <1>5 DEF HierNext

-----------------------------------------------------------------------------
(* What the invariant says of the properties                               *)

\* An entry is linked from one place.
LEMMA EntryOwner ==
  ASSUME NEW h, NEW list, NEW way, NEW home, Shape(h, list, way, home),
         NEW b \in EntriesOf(h), NEW d, d = home[b],
         NEW k \in 1 .. Len(list[d]), list[d][k] = b
  PROVE  /\ \A c \in InfosOf(h) : h[c].array = b => k = 1 /\ c = d
         /\ \A a \in EntriesOf(h) : h[a].next = b => k > 1 /\ a = list[d][k - 1]
         /\ k = 1 => h[d].array = b
         /\ k > 1 => list[d][k - 1] \in EntriesOf(h) /\ h[list[d][k - 1]].next = b
<1>1. d \in InfosOf(h) /\ b # Null /\ Len(list[d]) \in Nat /\ k \in Nat /\ k <= Len(list[d])
  <2>1. d \in InfosOf(h) /\ b # Null
    BY EntryParts
  <2> QED
    BY <2>1, ListParts
<1>2. ASSUME NEW c \in InfosOf(h), h[c].array = b
      PROVE  k = 1 /\ c = d
  <2>1. Len(list[c]) # 0 /\ list[c][1] = b /\ Len(list[c]) \in Nat
    BY <1>1, <1>2, ListParts
  <2>2. 1 \in 1 .. Len(list[c])
    BY <2>1
  <2>3. home[list[c][1]] = c
    BY <2>2, ListParts
  <2>4. c = d
    BY <2>1, <2>3
  <2>5. 1 \in 1 .. Len(list[d]) /\ list[d][1] = list[d][k]
    BY <2>1, <2>2, <2>4
  <2>6. 1 = k
    BY <1>1, <2>5, ListOnce
  <2> QED
    BY <2>4, <2>6
<1>3. ASSUME NEW a \in EntriesOf(h), h[a].next = b
      PROVE  k > 1 /\ a = list[d][k - 1]
  <2>1. PICK e \in InfosOf(h) : e = home[a]
    BY EntryParts
  <2>2. PICK j \in 1 .. Len(list[e]) : list[e][j] = a
    BY <2>1, EntryParts
  <2>3. j # Len(list[e]) /\ list[e][j + 1] = b /\ Len(list[e]) \in Nat
    BY <1>1, <1>3, <2>2, ListParts
  <2>4. j + 1 \in 1 .. Len(list[e]) /\ j \in Nat
    BY <2>2, <2>3
  <2>5. home[list[e][j + 1]] = e
    BY <2>4, ListParts
  <2>6. e = d
    BY <2>3, <2>5
  <2>7. j + 1 \in 1 .. Len(list[d]) /\ list[d][j + 1] = list[d][k]
    BY <2>3, <2>4, <2>6
  <2>8. j + 1 = k
    BY <1>1, <2>7, ListOnce
  <2>9. k > 1 /\ k - 1 = j
    BY <2>2, <2>3, <2>8
  <2> QED
    BY <2>2, <2>6, <2>9
<1>4. ASSUME k = 1
      PROVE  h[d].array = b
  BY <1>1, <1>4, ListParts
<1>5. ASSUME k > 1
      PROVE  list[d][k - 1] \in EntriesOf(h) /\ h[list[d][k - 1]].next = b
  <2>1. k - 1 \in 1 .. Len(list[d]) /\ k - 1 # Len(list[d]) /\ (k - 1) + 1 = k
    BY <1>1, <1>5
  <2> QED
    BY <1>1, <2>1, ListParts
<1> QED
  BY <1>2, <1>3, <1>4, <1>5

\* What the items refer to.
Refers(h, a, r) ==
  \/ a = 1 /\ r = <<"info", RootInfo>>
  \/ a \in InfosOf(h) /\ r = <<"entry", h[a].array>> /\ h[a].array # Null
  \/ a \in EntriesOf(h) /\ r = <<"entry", h[a].next>> /\ h[a].next # Null
  \/ a \in EntriesOf(h) /\ r = <<"data", h[a].data>> /\ h[a].data # Null
  \/ a \in EntriesOf(h) /\ r = <<"info", h[a].child>> /\ h[a].child # Null

\* RefsOf says which links an item has.
LEMMA RefsAre ==
  ASSUME IsHeap(heap), NEW a \in DOMAIN heap, NEW r
  PROVE  r \in RefsOf(a) <=> Refers(heap, a, r)
<1>1. PICK x : x = heap[a]
  OBVIOUS
<1>2. /\ x.kind \in {"root", "info", "data", "entry"}
      /\ x.kind = "root" <=> a = 1
      /\ a = 1 => x = Root
      /\ a \in InfosOf(heap) <=> x.kind = "info"
      /\ a \in EntriesOf(heap) <=> x.kind = "entry"
  BY <1>1, NodeKinds DEF IsHeap, InfosOf, EntriesOf, Root
<1>3. r \in RefsOf(a) <=> r \in Refs(x) /\ r[2] # Null
  BY <1>1 DEF RefsOf
<1>4. CASE x.kind = "root"
  <2>1. Refs(x) = {<<"info", RootInfo>>}
    BY <1>2, <1>4 DEF Refs, Root
  <2>2. RootInfo # Null
    BY DEF RootInfo, Null
  <2> QED
    BY <1>2, <1>3, <1>4, <2>1, <2>2 DEF Refers
<1>5. CASE x.kind = "info"
  <2>1. Refs(x) = {<<"entry", x.array>>}
    BY <1>5 DEF Refs
  <2> QED
    BY <1>1, <1>2, <1>3, <1>5, <2>1 DEF Refers
<1>6. CASE x.kind = "data"
  <2>1. Refs(x) = {}
    BY <1>6 DEF Refs
  <2> QED
    BY <1>2, <1>3, <1>6, <2>1 DEF Refers
<1>7. CASE x.kind = "entry"
  <2>1. Refs(x) = {<<"entry", x.next>>, <<"data", x.data>>, <<"info", x.child>>}
    BY <1>7 DEF Refs
  <2> QED
    BY <1>1, <1>2, <1>3, <1>7, <2>1 DEF Refers
<1> QED
  BY <1>2, <1>4, <1>5, <1>6, <1>7

\* A reference is to an item of the kind it says.
LEMMA RefersTo ==
  ASSUME NEW h, NEW list, NEW way, NEW home, Shape(h, list, way, home),
         NEW a \in DOMAIN h, NEW r, Refers(h, a, r)
  PROVE  r[2] \in DOMAIN h /\ h[r[2]].kind = r[1]
<1>1. CASE a = 1 /\ r = <<"info", RootInfo>>
  BY <1>1 DEF Shape, IsHeap, InfosOf
<1>2. CASE a \in InfosOf(h) /\ r = <<"entry", h[a].array>> /\ h[a].array # Null
  <2>1. Len(list[a]) # 0 /\ h[a].array = list[a][1] /\ Len(list[a]) \in Nat
    BY <1>2, ListParts
  <2>2. 1 \in 1 .. Len(list[a])
    BY <2>1
  <2>3. h[a].array \in EntriesOf(h)
    BY <1>2, <2>1, <2>2, ListParts
  <2> QED
    BY <1>2, <2>3 DEF EntriesOf
<1>3. CASE a \in EntriesOf(h) /\ r = <<"entry", h[a].next>> /\ h[a].next # Null
  <2>1. PICK d \in InfosOf(h) : d = home[a]
    BY <1>3, EntryParts
  <2>2. PICK j \in 1 .. Len(list[d]) : list[d][j] = a
    BY <1>3, <2>1, EntryParts
  <2>3. j # Len(list[d]) /\ h[a].next = list[d][j + 1] /\ Len(list[d]) \in Nat
    BY <1>3, <2>2, ListParts
  <2>4. j + 1 \in 1 .. Len(list[d])
    BY <2>2, <2>3
  <2>5. h[a].next \in EntriesOf(h)
    BY <2>3, <2>4, ListParts
  <2> QED
    BY <1>3, <2>5 DEF EntriesOf
<1>4. CASE a \in EntriesOf(h) /\ r = <<"data", h[a].data>> /\ h[a].data # Null
  BY <1>4 DEF Shape, DatasAreRight, DatasOf
<1>5. CASE a \in EntriesOf(h) /\ r = <<"info", h[a].child>> /\ h[a].child # Null
  BY <1>5 DEF Shape, WaysAreRight, InfosOf
<1> QED
  BY <1>1, <1>2, <1>3, <1>4, <1>5 DEF Refers

\* Every item but the root is referred to.
LEMMA IsReferred ==
  ASSUME NEW h, NEW list, NEW way, NEW home, Shape(h, list, way, home),
         NEW b \in DOMAIN h \ {1}
  PROVE  \E a \in DOMAIN h : \E r : Refers(h, a, r) /\ r[2] = b
<1>1. b \in InfosOf(h) \/ b \in DatasOf(h) \/ b \in EntriesOf(h)
  BY NodeKinds DEF Shape, InfosOf, DatasOf, EntriesOf
<1>2. b # Null /\ 1 \in DOMAIN h /\ EntriesOf(h) \subseteq DOMAIN h
  BY Apart DEF Shape, IsHeap, EntriesOf
<1>3. CASE b \in InfosOf(h)
  <2>1. CASE b = RootInfo
    <3>1. Refers(h, 1, <<"info", RootInfo>>)
      BY DEF Refers
    <3> QED
      BY <1>2, <2>1, <3>1
  <2>2. CASE b # RootInfo
    <3>1. PICK a \in EntriesOf(h) : h[a].child = b
      BY <1>3, <2>2 DEF Shape, WaysAreRight
    <3>2. Refers(h, a, <<"info", b>>)
      BY <1>2, <3>1 DEF Refers
    <3> QED
      BY <1>2, <3>2
  <2> QED
    BY <2>1, <2>2
<1>4. CASE b \in DatasOf(h)
  <2>1. PICK a \in EntriesOf(h) : h[a].data = b
    BY <1>4 DEF Shape, DatasAreRight
  <2>2. Refers(h, a, <<"data", b>>)
    BY <1>2, <2>1 DEF Refers
  <2> QED
    BY <1>2, <2>2
<1>5. CASE b \in EntriesOf(h)
  <2>1. PICK d \in InfosOf(h) : d = home[b]
    BY <1>5, EntryParts
  <2>2. PICK k \in 1 .. Len(list[d]) : list[d][k] = b
    BY <1>5, <2>1, EntryParts
  <2>3. CASE k = 1
    <3>1. h[d].array = b
      BY <1>5, <2>1, <2>2, <2>3, EntryOwner
    <3>2. Refers(h, d, <<"entry", b>>) /\ d \in DOMAIN h
      BY <1>2, <3>1 DEF Refers, InfosOf
    <3> QED
      BY <3>2
  <2>4. CASE k # 1
    <3>1. k > 1
      BY <2>1, <2>2, <2>4, ListParts
    <3>2. PICK a : a = list[d][k - 1]
      OBVIOUS
    <3>3. a \in EntriesOf(h) /\ h[a].next = b
      BY <1>5, <2>1, <2>2, <3>1, <3>2, EntryOwner
    <3>4. Refers(h, a, <<"entry", b>>)
      BY <1>2, <3>3 DEF Refers
    <3> QED
      BY <1>2, <3>3, <3>4
  <2> QED
    BY <2>3, <2>4
<1> QED
  BY <1>1, <1>3, <1>4, <1>5

\* By one item, once.
LEMMA ReferredOnce ==
  ASSUME NEW h, NEW list, NEW way, NEW home, Shape(h, list, way, home),
         NEW a1 \in DOMAIN h, NEW r1, Refers(h, a1, r1),
         NEW a2 \in DOMAIN h, NEW r2, Refers(h, a2, r2), r1[2] = r2[2]
  PROVE  a1 = a2 /\ r1 = r2
<1>1. PICK b : b = r1[2]
  OBVIOUS
<1>2. b \in DOMAIN h /\ h[b].kind = r1[1] /\ h[b].kind = r2[1]
  BY <1>1, RefersTo
<1>3. r1 = <<h[b].kind, b>> /\ r2 = <<h[b].kind, b>>
  <2>1. \A a, r : Refers(h, a, r) => \E x, y : r = <<x, y>>
    BY DEF Refers
  <2>2. PICK x, y : r1 = <<x, y>>
    BY <2>1
  <2>3. PICK z, w : r2 = <<z, w>>
    BY <2>1
  <2>4. r2[2] = b
    BY <1>1
  <2> QED
    BY ONLY <1>1, <1>2, <2>2, <2>3, <2>4
<1>4. h[b].kind \in {"info", "data", "entry"}
  BY <1>2 DEF Refers
<1>5. CASE h[b].kind = "info"
  <2>1. \A a, r : Refers(h, a, r) /\ r = <<"info", b>> =>
          (a = 1 /\ b = RootInfo) \/ (a \in EntriesOf(h) /\ b = h[a].child /\ h[a].child # Null)
    BY DEF Refers
  <2>2. \A a \in EntriesOf(h) : h[a].child # Null =>
          h[a].child # RootInfo /\ way[h[a].child] = PathOf(h, way, home, a)
    BY PathParts
  <2>3. \A a, c \in EntriesOf(h) : PathOf(h, way, home, a) = PathOf(h, way, home, c) => a = c
    BY PathParts
  <2> QED
    BY <1>3, <1>5, <2>1, <2>2, <2>3
<1>6. CASE h[b].kind = "data"
  <2>1. \A a, r : Refers(h, a, r) /\ r = <<"data", b>> =>
          a \in EntriesOf(h) /\ b = h[a].data /\ h[a].data # Null
    BY DEF Refers
  <2> QED
    BY <1>3, <1>6, <2>1 DEF Shape, DatasAreRight
<1>7. CASE h[b].kind = "entry"
  <2>1. b \in EntriesOf(h)
    BY <1>2, <1>7 DEF EntriesOf
  <2>2. PICK d \in InfosOf(h) : d = home[b]
    BY <2>1, EntryParts
  <2>3. PICK k \in 1 .. Len(list[d]) : list[d][k] = b
    BY <2>1, <2>2, EntryParts
  <2>4. \A a, r : Refers(h, a, r) /\ r = <<"entry", b>> =>
          (a \in InfosOf(h) /\ h[a].array = b) \/ (a \in EntriesOf(h) /\ h[a].next = b)
    BY DEF Refers
  <2>5. /\ \A c \in InfosOf(h) : h[c].array = b => k = 1 /\ c = d
        /\ \A a \in EntriesOf(h) : h[a].next = b => k > 1 /\ a = list[d][k - 1]
    BY <2>1, <2>2, <2>3, EntryOwner
  <2>6. \A a, r : Refers(h, a, r) /\ r = <<"entry", b>> =>
          a = IF k = 1 THEN d ELSE list[d][k - 1]
    BY <2>4, <2>5
  <2> QED
    BY <1>3, <1>7, <2>6
<1> QED
  BY <1>3, <1>4, <1>5, <1>6, <1>7

\* What the invariant says of all iterators, in a check or not.
LEMMA InvariantShows ==
  ASSUME HierInvariant
  PROVE  \E list, way, home :
           /\ Shape(heap, list, way, home) /\ IsWalk(iters, heap, list, way, visited)
           /\ DOMAIN iters = 1 .. Len(iters) /\ Len(iters) \in 1 .. MaxCalls
           /\ \A k \in DOMAIN iters : \E d, p : IsNear(iters[k], heap, list, way, visited, d, p)
<1>1. IsWalkState(heap, iters, visited)
  <2>1. CASE checking
    BY <2>1 DEF HierInvariant
  <2>2. CASE ~checking
    <3>1. PICK list, way, home : Shape(heap, list, way, home) /\ IsStack(iters, heap, list, way)
      BY <2>2 DEF HierInvariant, EditState, IsState
    <3>2. IsWalk(iters, heap, list, way, {})
      BY <3>1, StackIsWalk
    <3> QED
      BY <2>2, <3>1, <3>2 DEF HierInvariant, IsWalkState
  <2> QED
    BY <2>1, <2>2
<1>2. PICK list, way, home : Shape(heap, list, way, home) /\ IsWalk(iters, heap, list, way, visited)
  BY <1>1 DEF IsWalkState
<1>3. iters \in Seq(Iterators) /\ DOMAIN iters = 1 .. Len(iters)
  BY <1>2, LenProperties DEF IsWalk
<1> QED
  BY <1>2, <1>3 DEF IsWalk

\* Each item but the root is linked to from one place only, and no link dangles.
LEMMA OneOwnerIs ==
  ASSUME HierInvariant
  PROVE  OneOwnerEach
<1>1. PICK list, way, home : Shape(heap, list, way, home)
  BY InvariantShows
<1>2. IsHeap(heap)
  BY <1>1 DEF Shape
<1>3. \A a \in DOMAIN heap : \A r : r \in RefsOf(a) <=> Refers(heap, a, r)
  BY <1>2, RefsAre
<1>4. ASSUME NEW a \in DOMAIN heap, NEW r \in RefsOf(a)
      PROVE  r[2] \in DOMAIN heap /\ heap[r[2]].kind = r[1]
  BY <1>1, <1>3, RefersTo
<1>5. ASSUME NEW b \in DOMAIN heap \ {1}
      PROVE  \E a \in DOMAIN heap : \E r \in RefsOf(a) : r[2] = b
  BY <1>1, <1>3, IsReferred
<1>6. ASSUME NEW a1 \in DOMAIN heap, NEW a2 \in DOMAIN heap,
             NEW r1 \in RefsOf(a1), NEW r2 \in RefsOf(a2), r1[2] = r2[2]
      PROVE  a1 = a2 /\ r1 = r2
  <2>1. Refers(heap, a1, r1) /\ Refers(heap, a2, r2)
    BY <1>3
  <2> QED
    BY <1>1, <1>6, <2>1, ReferredOnce
<1> QED
  BY ONLY <1>4, <1>5, <1>6 DEF OneOwnerEach

\* The invariant implies the type invariant.
LEMMA TypesAreRight ==
  ASSUME HierInvariant
  PROVE  HierTypeOK
<1>1. PICK list, way, home :
        /\ Shape(heap, list, way, home) /\ IsWalk(iters, heap, list, way, visited)
        /\ Len(iters) \in 1 .. MaxCalls
        /\ \A k \in DOMAIN iters : \E d, p : IsNear(iters[k], heap, list, way, visited, d, p)
  BY InvariantShows
<1>2. DOMAIN heap \subseteq Addr /\ \A a \in DOMAIN heap : heap[a] \in Node
  BY <1>1 DEF Shape, IsHeap
<1>3. ASSUME NEW k \in DOMAIN iters
      PROVE  /\ iters[k].addr \in Addr
             /\ iters[k].entries \in Seq(Entry)
             /\ iters[k].pos \in 1 .. Len(iters[k].entries) + 1
             /\ iters[k].path \in Seq(Name)
  <2>1. PICK i, d, p : i = iters[k] /\ IsNear(i, heap, list, way, visited, d, p)
    BY <1>1
  <2>2. i \in Iterators /\ i.pos \in 1 .. Len(i.entries) + 1
    BY <2>1 DEF IsNear
  <2> QED
    BY <2>1, <2>2 DEF Iterators
<1>4. visited \subseteq DOMAIN heap /\ checking \in BOOLEAN
  BY <1>1 DEF IsWalk, EntriesOf, HierInvariant
<1> QED
  BY <1>1, <1>2, <1>3, <1>4 DEF HierTypeOK

\* The cached entries of all iterators are in order of their names.
LEMMA CachesAreSorted ==
  ASSUME HierInvariant
  PROVE  EntriesSorted
<1>1. PICK list, way, home :
        /\ Shape(heap, list, way, home)
        /\ \A k \in DOMAIN iters : \E d, p : IsNear(iters[k], heap, list, way, visited, d, p)
  BY InvariantShows
<1>2. ASSUME NEW k \in DOMAIN iters, NEW j \in 1 .. Len(iters[k].entries) - 1
      PROVE  iters[k].entries[j].name < iters[k].entries[j + 1].name
  <2>1. PICK i, d, p : i = iters[k] /\ IsNear(i, heap, list, way, visited, d, p)
    BY <1>1
  <2>2. /\ d \in InfosOf(heap) /\ Len(i.entries) = Len(list[d]) /\ Len(list[d]) \in Nat
        /\ \A m \in 1 .. Len(list[d]) : i.entries[m].name = heap[list[d][m]].name
    <3>1. /\ Len(list[d]) \in Nat
          /\ \A m \in 1 .. Len(list[d]) : i.entries[m].name = heap[list[d][m]].name
      BY ONLY <1>1, <2>1, NearParts
    <3> QED
      BY ONLY <2>1, <3>1 DEF IsNear
  <2>3. j \in 1 .. Len(list[d]) /\ j + 1 \in 1 .. Len(list[d]) /\ j < j + 1
    BY <1>2, <2>1, <2>2
  <2>4. heap[list[d][j]].name < heap[list[d][j + 1]].name
    BY <1>1, <2>2, <2>3, ListParts
  <2> QED
    BY <2>1, <2>2, <2>3, <2>4
<1> QED
  BY <1>2 DEF EntriesSorted

\* The cached entries of all iterators are the heap's, but for the data of what
\* the check has been at and its copies do not hold.
LEMMA CachesAreRight ==
  ASSUME HierInvariant
  PROVE  CachesAreCurrent
<1>1. PICK list, way, home :
        /\ Shape(heap, list, way, home) /\ IsWalk(iters, heap, list, way, visited)
        /\ DOMAIN iters = 1 .. Len(iters)
        /\ \A k \in DOMAIN iters : \E d, p : IsNear(iters[k], heap, list, way, visited, d, p)
  BY InvariantShows
<1>2. ASSUME NEW k \in DOMAIN iters, NEW file, file = Linked(heap, iters[k].info.array)
      PROVE  /\ iters[k].addr \in DOMAIN heap
             /\ iters[k].info = heap[iters[k].addr]
             /\ Len(iters[k].entries) = Len(file)
             /\ \A j \in DOMAIN file : Knows(k, j, file[j])
  <2>1. PICK i, d, p : i = iters[k] /\ IsNear(i, heap, list, way, visited, d, p)
    BY <1>1
  <2>2. /\ d \in InfosOf(heap) /\ i.addr = d /\ i.info = heap[d] /\ i.pos = p
        /\ Len(i.entries) = Len(list[d]) /\ Len(list[d]) \in Nat
        /\ \A j \in 1 .. Len(list[d]) :
             /\ Nearly(i.entries[j], heap[list[d][j]], list[d][j], visited)
             /\ AddrAt(i, j) = list[d][j]
    <3>1. /\ Len(list[d]) \in Nat
          /\ \A j \in 1 .. Len(list[d]) : AddrAt(i, j) = list[d][j]
      BY ONLY <1>1, <2>1, NearParts
    <3> QED
      BY ONLY <2>1, <3>1 DEF IsNear
  <2>3. file = [j \in 1 .. Len(list[d]) |-> heap[list[d][j]]]
    BY <1>1, <1>2, <2>1, <2>2, LinkedIs
  <2>4. DOMAIN file = 1 .. Len(list[d]) /\ \A j \in 1 .. Len(list[d]) : file[j] = heap[list[d][j]]
    BY ONLY <2>3
  <2>5. Len(file) = Len(list[d])
    <3>1. \A j \in 1 .. Len(list[d]) : heap[list[d][j]] \in Entry
      BY <1>1, <2>2, ListParts
    <3>2. file \in [1 .. Len(list[d]) -> Entry]
      BY <2>3, <3>1
    <3>3. file \in Seq(Entry)
      BY <2>2, <3>2, SeqDef
    <3> QED
      BY <2>2, <2>4, <3>3, LenProperties
  <2>6. ASSUME Handed(k)
        PROVE  p \in 1 .. Len(list[d]) /\ i.entries[p] = heap[list[d][p]]
    <3>1. Holds(i, heap, list, visited)
      BY <1>1, <2>1, <2>6, HandedIs DEF IsWalk
    <3> QED
      BY <2>2, <3>1 DEF Holds, EntryAt
  <2>7. ASSUME NEW j \in DOMAIN file
        PROVE  Knows(k, j, file[j])
    <3>1. CASE i.entries[j] = file[j]
      BY <2>1, <3>1 DEF Knows
    <3>2. CASE i.entries[j] # file[j]
      <4>1. j \in 1 .. Len(list[d]) /\ file[j] = heap[list[d][j]] /\ AddrAt(i, j) = list[d][j]
        BY <2>2, <2>4, <2>7
      <4>2. Nearly(i.entries[j], file[j], list[d][j], visited)
        BY <2>2, <4>1
      <4>3. ~(Handed(k) /\ j = i.pos)
        BY <2>2, <2>6, <3>2, <4>1
      <4> QED
        BY <2>1, <3>2, <4>1, <4>2, <4>3 DEF Nearly, Knows
    <3> QED
      BY <3>1, <3>2
  <2>8. d \in DOMAIN heap
    BY <2>2 DEF InfosOf
  <2> QED
    BY <2>1, <2>2, <2>5, <2>7, <2>8
<1>3. ASSUME NEW k \in DOMAIN iters
      PROVE  \E x \in EntriesAtDepth(heap)[Len(iters[k].path)] :
               x.path = iters[k].path /\ x.child = iters[k].addr
  <2>1. PICK d \in InfosOf(heap) : iters[k].addr = d /\ iters[k].path = way[d]
    BY <1>1 DEF IsNear
  <2>2. CASE d = RootInfo
    <3>1. way[d] = << >> /\ Len(way[d]) = 0
      BY <1>1, <2>2 DEF Shape, WaysAreRight
    <3>2. EntriesAtDepth(heap)[0] = {[path |-> << >>, child |-> RootInfo, data |-> Null]}
      BY <1>1, AtDepthIs
    <3>3. PICK x : x = [path |-> << >>, child |-> RootInfo, data |-> Null]
      OBVIOUS
    <3>4. x \in EntriesAtDepth(heap)[0] /\ x.path = << >> /\ x.child = RootInfo
      BY <3>2, <3>3
    <3> QED
      BY ONLY <2>1, <2>2, <3>1, <3>4
  <2>3. CASE d # RootInfo
    <3>1. PICK a \in EntriesOf(heap) : heap[a].child = d
      BY <1>1, <2>3 DEF Shape, WaysAreRight
    <3>2. d # Null
      BY <1>1, Apart DEF Shape
    <3>3. /\ way[d] = PathOf(heap, way, home, a)
          /\ Len(way[d]) = Len(way[home[a]]) + 1
          /\ Len(way[home[a]]) \in Nat /\ Len(way[home[a]]) < MaxDepth
      <4>1. /\ heap[a].child # Null => way[heap[a].child] = PathOf(heap, way, home, a)
            /\ Len(PathOf(heap, way, home, a)) = Len(way[home[a]]) + 1
            /\ Len(way[home[a]]) \in Nat /\ Len(way[home[a]]) < MaxDepth
        BY <1>1, PathParts
      <4> QED
        BY ONLY <3>1, <3>2, <4>1
    <3>4. PICK n : n = Len(way[d])
      OBVIOUS
    <3>5. n \in 1 .. MaxDepth /\ Len(way[home[a]]) = n - 1
      BY <3>3, <3>4, DepthIsNumber
    <3>6. Shown(heap, way, home, a) \in EntriesAtDepth(heap)[n]
      BY <1>1, <3>5, AtDepthIs
    <3>7. Shown(heap, way, home, a).path = way[d] /\ Shown(heap, way, home, a).child = d
      BY <3>1, <3>3 DEF Shown
    <3> QED
      BY <2>1, <3>4, <3>6, <3>7
  <2> QED
    BY <2>2, <2>3
<1>4. CachesMatchFile
  BY <1>2 DEF CachesMatchFile
<1>5. PathsAreTrue
  BY <1>3 DEF PathsAreTrue
<1> QED
  BY <1>4, <1>5 DEF CachesAreCurrent

-----------------------------------------------------------------------------
(* The theorems                                                            *)

\* However entries are made, changed and deleted, and objects rewritten by a
\* check, the items are one tree and the iterators show it, those of a check
\* but for the data of objects it has been at.
THEOREM HierInductive == HierSpec => []HierInvariant
<1>1. HierInit => HierInvariant
  BY HierStarts DEF HierInit, HierInvariant
<1>2. HierInvariant /\ [HierNext]_hierVars => HierInvariant'
  BY HierSteps
<1> QED
  BY <1>1, <1>2, PTL DEF HierSpec

\* Items have their kind's fields, iterators their types, all values of the
\* constants: HierTypeOK of the run hierdatabase.
THEOREM HierTypeCorrect == HierSpec => []HierTypeOK
<1>1. HierInvariant => HierTypeOK
  BY TypesAreRight
<1> QED
  BY <1>1, HierInductive, PTL

\* However entries and arrays are made and deleted, what is reachable in the
\* file is one tree: no item has two owners, none is lost, no link dangles, and
\* each directory is in order (TreeIsSound).
THEOREM FileIsOneTree == HierSpec => []TreeIsSound
<1>1. HierInvariant => TreeIsSound
  BY OneOwnerIs, CachesAreSorted DEF TreeIsSound
<1> QED
  BY <1>1, HierInductive, PTL

\* No iterator, the callers' copies included, caches a directory that another
\* has changed since, but for where the data is of objects a check has been at;
\* the copy that a check rewrites an object with has that right (CachesAreCurrent).
THEOREM IteratorsStayCurrent == HierSpec => []CachesAreCurrent
<1>1. HierInvariant => CachesAreCurrent
  BY CachesAreRight
<1> QED
  BY <1>1, HierInductive, PTL

\* Each operation is one step of the abstract tree.
LEMMA StepIsTreeStep ==
  ASSUME HierInvariant, [HierNext]_hierVars
  PROVE  [HT!Next]_(HT!vars)
<1>1. StepsTo(TreeOf(heap), it.path, TreeOf(heap'), it'.path)
  BY HierSteps
<1>2. PICK t, w, t2, w2 : t = Tree /\ w = it.path /\ t2 = Tree' /\ w2 = it'.path
  OBVIOUS
<1>3. StepsTo(t, w, t2, w2)
  BY <1>1, <1>2 DEF Tree
<1>4. CASE t2 = t /\ w2 = w
  BY <1>2, <1>4 DEF HT!vars
<1>5. CASE t2 = t /\ \/ w2 \in HT!Children(t, w) /\ t[w2].dir
                     \/ w # << >> /\ w2 = SubSeq(w, 1, Len(w) - 1)
                     \/ w2 = << >>
  <2>1. HT!Move(Tree)
    BY <1>2, <1>5 DEF HT!Move
  <2> QED
    BY <2>1 DEF HT!Next
<1>6. CASE w2 = w /\ \/ \E n \in Name : t2 = HT!Created(t, Append(w, n))
                     \/ \E p \in HT!Children(t, w) :
                          \/ t2 \in HT!DataSet(t, p)
                          \/ t2 \in HT!ArrayMade(t, p)
                          \/ t2 \in HT!ArrayGone(t, p)
                          \/ t2 \in HT!EntryGone(t, p)
  <2>1. HT!Change(Tree) /\ it'.path = it.path
    BY <1>2, <1>6 DEF HT!Change
  <2> QED
    BY <2>1 DEF HT!Next
<1> QED
  BY ONLY <1>3, <1>4, <1>5, <1>6 DEF StepsTo

\* The items and links implement a tree of names with data: each operation
\* changes it as its path and name say and changes nothing else.
THEOREM FileImplementsTree == HierSpec => ImplementsHierTree
<1>1. HierInit => HT!Init
  BY HierStarts DEF HT!Init
<1>2. HierInvariant /\ [HierNext]_hierVars => [HT!Next]_(HT!vars)
  BY StepIsTreeStep
<1> QED
  BY <1>1, <1>2, HierInductive, PTL DEF HierSpec, ImplementsHierTree, HT!Spec

=============================================================================
