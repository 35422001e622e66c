-------------------------- MODULE BlockRecordArray --------------------------
(***************************************************************************)
(* cBlockRecordArray (src/db/blockrecordarray.{h,cpp}): items of variable  *)
(* size kept in one block.  The block begins with a header and a table of  *)
(* indexes, closed by a guard entry, and the items are packed from its end *)
(* downwards; an index holds the offset of its item from the end of the    *)
(* block.  Deleting an item moves the items below it up, and leaves a free *)
(* index behind, so that the other items keep theirs; adding an item takes *)
(* the first free index and moves the items below it down.                 *)
(*                                                                         *)
(* Offset 1 is the block's last byte (blockrecordarray.h:111).  Dead       *)
(* memory, below the lowest item and after the guard, is left out: nothing *)
(* reads it.  The main index is 1 for every item its only caller adds      *)
(* (blockrecordfile.cpp:169).                                              *)
(***************************************************************************)
EXTENDS Integers, Sequences

CONSTANTS
  Byte,        \* what one byte of data can be
  Items,       \* the items clients add
  BlockSize,   \* cBlockFile::BLOCK_SIZE
  HeaderSize,  \* sizeof(tHeader)
  IndexSize,   \* sizeof(tRecordIndex)
  Margin,      \* MARGIN
  WordSize     \* sizeof(uint32)

ASSUME SizesArePos ==
  /\ BlockSize \in Nat /\ HeaderSize \in Nat /\ Margin \in Nat
  /\ IndexSize \in Nat \ {0} /\ WordSize \in Nat \ {0}

\* The margin is what the guard is written into when the data fills all the
\* space on offer (10 and 8 in the code).
ASSUME MarginHoldsGuard == Margin >= IndexSize

ASSUME BlockHoldsGuard == HeaderSize + IndexSize + Margin <= BlockSize

\* No client adds an item smaller than a uint32 (blockrecordarray.h:145-148).
ASSUME ItemsAreWords == \A d \in Items : d \in Seq(Byte) /\ Len(d) >= WordSize

VARIABLES
  init,        \* mbInit
  numItems,    \* mNumItems
  space,       \* mSpaceAvailable
  header,      \* the block's tHeader
  rec,         \* the block's maRecordIndex, up to and including the guard
  bytes        \* the block's data, by offset from the end

vars == <<init, numItems, space, header, rec, bytes>>

InvalidIndex == -1
Guard        == [off |-> -1, main |-> InvalidIndex]
MaxRecords   == BlockSize \div (IndexSize + WordSize)
MaxDataSize  == BlockSize - IndexSize - HeaderSize - Margin

\* The number of indexes in use or free, once the header is read (the
\* operations call InitForExistingBlock() first if need be).
N == IF init THEN numItems ELSE header.numItems
Space == IF init THEN space ELSE header.space

Used(i)    == rec[i].main # InvalidIndex
IsValid(i) == i \in 0 .. N - 1 /\ Used(i)

PrevOffset(i) == IF i = 0 THEN 0 ELSE rec[i - 1].off
Size(i)       == rec[i].off - PrevOffset(i)
Top           == PrevOffset(N)

\* GetDataForReading: the pointer is to the item's lowest address, that is
\* its highest offset.
ItemAt(i) == [k \in 1 .. Size(i) |-> bytes[rec[i].off - k + 1]]

-----------------------------------------------------------------------------

\* UpdateFreeSpace: room for one more index and the margin is set aside.
FreeSpace(n, top) ==
  LET avail == BlockSize - HeaderSize - (n + 1) * IndexSize - Margin - top
  IN IF avail < 0 THEN 0 ELSE avail

\* Mutant: the header in the block is not written.
HeaderNotWritten(n, top) ==
  /\ init' = TRUE
  /\ numItems' = n
  /\ space' = FreeSpace(n, top)
  /\ header' = header

\* UpdateFreeSpace, then WriteHeaderInfo, at the end of every change.
UpdateHeader(n, top) ==
  /\ init' = TRUE
  /\ numItems' = n
  /\ space' = FreeSpace(n, top)
  /\ header' = [numItems |-> n, space |-> FreeSpace(n, top)]

\* The first free index, or one more index if none is free.
IsNewIndex(i) ==
  /\ i \in 0 .. N
  /\ i < N => ~Used(i)
  /\ \A j \in 0 .. i - 1 : Used(j)

\* Mutant: the items below the new one are overwritten instead of moved.
OverwriteAt(i, d) ==
  [o \in 1 .. Top + Len(d) |->
     IF o <= PrevOffset(i) THEN bytes[o]
     ELSE IF o <= PrevOffset(i) + Len(d)
          THEN d[PrevOffset(i) + Len(d) - o + 1]
          ELSE IF o <= Top THEN bytes[o] ELSE bytes[o - Len(d)]]

\* The items below PrevOffset(i) move down by Len(d); d fills the gap.
DataWith(i, d) ==
  [o \in 1 .. Top + Len(d) |->
     IF o <= PrevOffset(i) THEN bytes[o]
     ELSE IF o <= PrevOffset(i) + Len(d)
          THEN d[PrevOffset(i) + Len(d) - o + 1]
          ELSE bytes[o - Len(d)]]

AddItem(d) ==
  /\ Len(d) <= Space
  /\ \E i \in 0 .. N :
       LET n == IF i = N THEN N + 1 ELSE N
       IN /\ IsNewIndex(i)
          /\ rec' = [j \in 0 .. n |->
                       CASE j < i -> rec[j]
                         [] j = i -> [off |-> PrevOffset(i) + Len(d), main |-> 1]
                         [] j > i /\ j < n -> [rec[j] EXCEPT !.off = @ + Len(d)]
                         [] j > i /\ j = n -> Guard]
          /\ bytes' = DataWith(i, d)
          /\ UpdateHeader(n, Top + Len(d))

\* Mutant: only the last index is dropped, free ones before it are kept.
IsTrimmedNoScan(n) == n = N - 1

\* The free indexes before the last one go with it.
IsTrimmed(n) ==
  /\ n \in 0 .. N - 1
  /\ n > 0 => Used(n - 1)
  /\ \A j \in n .. N - 2 : ~Used(j)

DeleteLast ==
  \E n \in 0 .. N - 1 :
    /\ IsTrimmed(n)
    /\ rec' = [j \in 0 .. n |-> IF j = n THEN Guard ELSE rec[j]]
    /\ bytes' = [o \in 1 .. PrevOffset(n) |-> bytes[o]]
    /\ UpdateHeader(n, PrevOffset(n))

DeleteMiddle(i) ==
  /\ rec' = [j \in 0 .. N |->
               CASE j < i -> rec[j]
                 [] j = i -> [off |-> PrevOffset(i), main |-> InvalidIndex]
                 [] j > i /\ j < N -> [rec[j] EXCEPT !.off = @ - Size(i)]
                 [] j > i /\ j = N -> rec[j]]
  /\ bytes' = [o \in 1 .. Top - Size(i) |->
                 IF o <= PrevOffset(i) THEN bytes[o] ELSE bytes[o + Size(i)]]
  /\ UpdateHeader(N, Top - Size(i))

DeleteItem(i) ==
  /\ IsValid(i)
  /\ IF i + 1 = N THEN DeleteLast ELSE DeleteMiddle(i)

\* GetDataForWriting, and the client's copy of an object of the same size
\* to the address it returns (util_RewriteObject, hierdatabase.cpp:96-105).
WriteItem(i, d) ==
  /\ IsValid(i)
  /\ Len(d) = Size(i)
  /\ bytes' = [o \in 1 .. Top |->
                 IF o > PrevOffset(i) /\ o <= rec[i].off
                 THEN d[rec[i].off - o + 1] ELSE bytes[o]]
  /\ init' = TRUE
  /\ numItems' = N
  /\ space' = Space
  /\ UNCHANGED <<header, rec>>

\* The file is closed and opened again: a new object over the same block.
Reopen ==
  /\ init
  /\ init' = FALSE
  /\ numItems' = 0
  /\ space' = -1
  /\ UNCHANGED <<header, rec, bytes>>

-----------------------------------------------------------------------------

\* InitNewBlock.
Init ==
  /\ init = TRUE
  /\ numItems = 0
  /\ space = FreeSpace(0, 0)
  /\ header = [numItems |-> 0, space |-> FreeSpace(0, 0)]
  /\ rec = [j \in {0} |-> Guard]
  /\ bytes = [o \in 1 .. 0 |-> 0]

Next ==
  \/ \E d \in Items : AddItem(d)
  \/ \E i \in 0 .. N - 1 : DeleteItem(i)
  \/ \E i \in 0 .. N - 1, d \in Items : WriteItem(i, d)
  \/ Reopen

Spec == Init /\ [][Next]_vars

-----------------------------------------------------------------------------
(* Properties                                                              *)

TypeOK ==
  /\ init \in BOOLEAN
  /\ numItems \in Nat
  /\ space \in Nat \cup {-1}
  /\ header \in [numItems : Nat, space : Nat]
  /\ rec \in [0 .. N -> [off : Nat \cup {-1}, main : {1, InvalidIndex}]]
  /\ bytes \in [1 .. Top -> Byte]

\* cBlockRecordArray::IsClassValid (blockrecordarray.cpp:509-567): what a
\* block must satisfy for the file it begins to be opened at all.  After any
\* sequence of additions and deletions, the record count stays below
\* MAX_RECORDS although freed indexes are never given back before the last.
IsClassValid ==
  /\ N \in 0 .. MaxRecords
  /\ Space \in 0 .. MaxDataSize
  /\ N # 0 => Used(N - 1) /\ rec[N - 1].off # -1
  /\ \A i \in 0 .. N - 1 : rec[i].off >= PrevOffset(i)
  /\ rec[N].off = -1
  /\ HeaderSize + N * IndexSize < BlockSize - Top

\* The index table, guard included, never reaches the data: what is taken
\* from the margin by the guard of a full block is at most the margin.
TableClearOfData == HeaderSize + (N + 1) * IndexSize <= BlockSize - Top

\* A free index spans no data: AddItem() moves `topOffset - prevOffset' bytes
\* for it (blockrecordarray.cpp:306) and would otherwise split an item.
FreeIndexesAreEmpty == \A i \in 0 .. N - 1 : ~Used(i) => Size(i) = 0

\* The header in the block, which a later session trusts, says what the
\* object believed, and the space on offer is really there: filling it leaves
\* the table clear of the data.
HeaderIsTrue ==
  /\ init => header = [numItems |-> numItems, space |-> space]
  /\ Space = FreeSpace(N, Top)
  /\ Space > 0 => HeaderSize + (N + 2) * IndexSize <= BlockSize - (Top + Space)

\* A block stays one a later session can open, read and add to, after any
\* sequence of additions, deletions and rewrites.
LayoutIsSound ==
  IsClassValid /\ TableClearOfData /\ FreeIndexesAreEmpty /\ HeaderIsTrue

\* An item is found again, whole, at the index it was given, whatever is
\* added, deleted, moved or rewritten around it (blockrecordarray.h:84-101).
Table == INSTANCE RecordTable WITH
  Indexes <- 0 .. MaxRecords - 1,
  items <- [i \in {j \in 0 .. N - 1 : Used(j)} |-> ItemAt(i)]

ImplementsRecordTable == Table!Spec

=============================================================================
