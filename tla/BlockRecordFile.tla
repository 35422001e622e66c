-------------------------- MODULE BlockRecordFile ---------------------------
(***************************************************************************)
(* cBlockRecordFile (src/db/blockrecordfile.cpp): a file of blocks, each   *)
(* holding a table of items, that stores items at addresses made of a      *)
(* block number and an index.                                              *)
(*                                                                         *)
(* Below it, BlockFile's pages are invisible (BlockStore), and a block's   *)
(* layout shows as the items by index, the top offset and the header       *)
(* (RecordTable).  What is kept here is what this class adds: one array    *)
(* object per block, that reads its block's header when it is first used,  *)
(* and the choice of the block an item goes to.                            *)
(***************************************************************************)
EXTENDS Integers, Sequences

CONSTANTS
  Item,        \* the items clients store
  SizeOf(_),   \* an item's size in bytes
  BlockSize, HeaderSize, IndexSize, Margin, WordSize,  \* as in BlockRecordArray
  MaxBlocks,   \* bound: the number of blocks the file may grow to
  Free         \* a free index

MaxDataSize == BlockSize - IndexSize - HeaderSize - Margin

\* As in BlockRecordArray.
ASSUME SizesArePos ==
  /\ BlockSize \in Nat /\ HeaderSize \in Nat /\ Margin \in Nat
  /\ IndexSize \in Nat \ {0} /\ WordSize \in Nat \ {0}
ASSUME MarginHoldsGuard == Margin >= IndexSize
ASSUME BlockHoldsGuard  == HeaderSize + IndexSize + Margin <= BlockSize
ASSUME SomeBlocks       == MaxBlocks \in Nat \ {0}

\* FindRoomForData() asserts that its argument fits (blockrecordfile.cpp:259);
\* no client adds less than a uint32 (blockrecordarray.h:145-148).
ASSUME ItemsFitABlock == \A it \in Item : SizeOf(it) \in WordSize .. MaxDataSize
ASSUME FreeIsNoItem   == Free \notin Item

VARIABLES
  fileOpen,   \* mBlockFile has an archive
  mbOpen,
  arrays,     \* mvBlocks: the array objects, block 0 first
  lastAdded,  \* mLastAddedTo
  blocks      \* the blocks' contents, block 0 first

vars == <<fileOpen, mbOpen, arrays, lastAdded, blocks>>

NumBlocks == Len(blocks)
Block(b)  == blocks[b + 1]
Array(b)  == arrays[b + 1]

\* Mutant: a block that used its margin reports a negative space.
FreeSpaceSigned(n, top) == BlockSize - HeaderSize - (n + 1) * IndexSize - Margin - top

\* UpdateFreeSpace.
FreeSpace(n, top) ==
  LET avail == BlockSize - HeaderSize - (n + 1) * IndexSize - Margin - top
  IN IF avail < 0 THEN 0 ELSE avail

NewArray   == [init |-> FALSE, numItems |-> 0, space |-> -1]
EmptyTable == [slots |-> << >>, top |-> 0,
               header |-> [numItems |-> 0, space |-> FreeSpace(0, 0)]]

\* util_InitBlockArray / InitForExistingBlock: an array not used since the
\* file was opened takes its counts from the block's header.
Loaded(b) ==
  IF Array(b).init THEN Array(b)
  ELSE [init     |-> TRUE,
        numItems |-> Block(b).header.numItems,
        space    |-> Block(b).header.space]

ArrayFor(table) == [init |-> TRUE, numItems |-> table.header.numItems,
                    space |-> table.header.space]

\* The arrays of the blocks in S are initialized on the way.
Touch(S) ==
  [k \in DOMAIN arrays |-> IF k - 1 \in S THEN Loaded(k - 1) ELSE arrays[k]]

Slot(a)        == Block(a[1]).slots[a[2] + 1]
IsValidAddr(a) == /\ a[1] \in 0 .. NumBlocks - 1
                  /\ a[2] \in 0 .. Loaded(a[1]).numItems - 1
                  /\ Slot(a) # Free

WithHeader(slots, top) ==
  [slots |-> slots, top |-> top,
   header |-> [numItems |-> Len(slots), space |-> FreeSpace(Len(slots), top)]]

-----------------------------------------------------------------------------

\* cBlockRecordArray::AddItem: the first free index, or one more.
FirstFree(slots) ==
  CHOOSE i \in 1 .. Len(slots) + 1 :
    /\ i <= Len(slots) => slots[i] = Free
    /\ \A j \in 1 .. i - 1 : slots[j] # Free

Inserted(table, it) ==
  LET i == FirstFree(table.slots)
  IN WithHeader(IF i > Len(table.slots) THEN Append(table.slots, it)
                ELSE [table.slots EXCEPT ![i] = it],
                table.top + SizeOf(it))

\* Mutant: the count goes down by one with every item.
TrimmedByOne(slots) == SubSeq(slots, 1, Len(slots) - 1)

\* cBlockRecordArray::DeleteItem: the free indexes at the end are dropped.
Trimmed(slots) ==
  LET last == CHOOSE n \in 0 .. Len(slots) :
                /\ n > 0 => slots[n] # Free
                /\ \A j \in n + 1 .. Len(slots) : slots[j] = Free
  IN SubSeq(slots, 1, last)

Deleted(table, i) ==
  WithHeader(Trimmed([table.slots EXCEPT ![i + 1] = Free]),
             table.top - SizeOf(table.slots[i + 1]))

HasRoom(b, it) == Loaded(b).space >= SizeOf(it)

\* Mutant: the search starts at the block last added to and does not return
\* to the blocks before it.
FindRoomForward(it) ==
  LET fits == {b \in lastAdded .. NumBlocks - 1 : HasRoom(b, it)}
      b    == CHOOSE x \in fits : \A y \in fits : x <= y
  IN IF fits # {} THEN [block |-> b, seen |-> lastAdded .. b]
     ELSE [block |-> NumBlocks, seen |-> lastAdded .. NumBlocks - 1]

\* FindRoomForData: the block last added to, else the first with room, else
\* a new one, and the blocks whose space was looked at.
FindRoom(it) ==
  LET fits == {b \in 0 .. NumBlocks - 1 : HasRoom(b, it)}
      b    == CHOOSE x \in fits : \A y \in fits : x <= y
  IN IF HasRoom(lastAdded, it)
     THEN [block |-> lastAdded, seen |-> {lastAdded}]
     ELSE IF fits # {}
          THEN [block |-> b, seen |-> {lastAdded} \cup 0 .. b]
          ELSE [block |-> NumBlocks, seen |-> 0 .. NumBlocks - 1]

AddItem(it) ==
  /\ mbOpen
  /\ LET room == FindRoom(it)
         b    == room.block
         grow == b = NumBlocks
         old  == IF grow THEN Append(blocks, EmptyTable) ELSE blocks
         objs == IF grow THEN Append(Touch(room.seen), NewArray) ELSE Touch(room.seen)
         new  == Inserted(old[b + 1], it)
     IN /\ b < MaxBlocks
        /\ blocks' = [old EXCEPT ![b + 1] = new]
        /\ arrays' = [objs EXCEPT ![b + 1] = ArrayFor(new)]
        /\ lastAdded' = b
  /\ UNCHANGED <<fileOpen, mbOpen>>

\* The block is never given back, even when it is empty (cpp:191-208).
RemoveItem(a) ==
  /\ mbOpen
  /\ IsValidAddr(a)
  /\ LET new == Deleted(Block(a[1]), a[2])
     IN /\ blocks' = [blocks EXCEPT ![a[1] + 1] = new]
        /\ arrays' = [arrays EXCEPT ![a[1] + 1] = ArrayFor(new)]
  /\ UNCHANGED <<fileOpen, mbOpen, lastAdded>>

\* GetDataForReading.
ReadItem(a) ==
  /\ mbOpen
  /\ IsValidAddr(a)
  /\ arrays' = Touch({a[1]})
  /\ UNCHANGED <<fileOpen, mbOpen, lastAdded, blocks>>

\* GetDataForWriting, and the client's write of an object of the same size.
RewriteItem(a, it) ==
  /\ mbOpen
  /\ IsValidAddr(a)
  /\ SizeOf(it) = SizeOf(Slot(a))
  /\ blocks' = [blocks EXCEPT ![a[1] + 1].slots[a[2] + 1] = it]
  /\ arrays' = Touch({a[1]})
  /\ UNCHANGED <<fileOpen, mbOpen, lastAdded>>

\* Mutant: the block last added to is not set again.
OpenKeepsLastAdded ==
  /\ ~fileOpen
  /\ fileOpen' = TRUE
  /\ mbOpen' = TRUE
  /\ blocks' = IF blocks = << >> THEN <<EmptyTable>> ELSE blocks
  /\ arrays' = [k \in DOMAIN blocks' |->
                  IF k = 1 THEN ArrayFor(blocks'[1]) ELSE NewArray]
  /\ UNCHANGED lastAdded

\* Open(pArch) and OpenImpl: an empty archive becomes one initialized block;
\* the first block of an existing one is read to check the format.
Open ==
  /\ ~fileOpen
  /\ fileOpen' = TRUE
  /\ mbOpen' = TRUE
  /\ blocks' = IF blocks = << >> THEN <<EmptyTable>> ELSE blocks
  /\ arrays' = [k \in DOMAIN blocks' |->
                  IF k = 1 THEN ArrayFor(blocks'[1]) ELSE NewArray]
  /\ lastAdded' = 0

Close ==
  /\ fileOpen
  /\ fileOpen' = FALSE
  /\ mbOpen' = FALSE
  /\ arrays' = << >>
  /\ UNCHANGED <<lastAdded, blocks>>

-----------------------------------------------------------------------------

MaxRecords == BlockSize \div (IndexSize + WordSize)

Addresses == (0 .. MaxBlocks - 1) \X (0 .. MaxRecords - 1)

\* The addresses clients hold: those AddItem() returned.
Live == {a \in (0 .. NumBlocks - 1) \X (0 .. MaxRecords - 1) :
           a[2] < Len(Block(a[1]).slots) /\ Slot(a) # Free}

Init ==
  /\ fileOpen = FALSE
  /\ mbOpen = FALSE
  /\ arrays = << >>
  /\ lastAdded = -1
  /\ blocks = << >>

Next ==
  \/ Open
  \/ \E it \in Item : AddItem(it)
  \/ \E a \in Live : RemoveItem(a)
  \/ \E a \in Live : ReadItem(a)
  \/ \E a \in Live, it \in Item : RewriteItem(a, it)
  \/ Close

Spec == Init /\ [][Next]_vars

-----------------------------------------------------------------------------
(* Properties                                                              *)

ArrayObject == [init : BOOLEAN, numItems : 0 .. MaxRecords, space : -1 .. MaxDataSize]

TypeOK ==
  /\ fileOpen \in BOOLEAN /\ mbOpen \in BOOLEAN
  /\ lastAdded \in -1 .. MaxBlocks - 1
  /\ arrays \in Seq(ArrayObject)
  /\ \A k \in DOMAIN blocks :
       /\ blocks[k].slots \in Seq(Item \cup {Free})
       /\ blocks[k].top \in 0 .. BlockSize
       /\ blocks[k].header \in [numItems : 0 .. MaxRecords, space : 0 .. MaxDataSize]

\* cBlockRecordFile::AssertValid (blockrecordfile.cpp:322-326), and what the
\* ASSERT of FindRoomForData (:295) needs: while the file is open there is
\* one array per block and the last block added to is one of them.
AssertValid ==
  mbOpen => /\ Len(arrays) = NumBlocks
            /\ lastAdded \in 0 .. NumBlocks - 1

\* An array object, initialized when its block was first used or created,
\* never disagrees with the block's header, and the header never with the
\* items: what a FindRoomForData() decides on is true.
ArraysAreCurrent ==
  /\ \A b \in 0 .. Len(arrays) - 1 : Array(b).init => Array(b) = ArrayFor(Block(b))
  /\ \A b \in 0 .. NumBlocks - 1 :
       Block(b) = WithHeader(Block(b).slots, Block(b).top)

\* A block never holds more than fits, guard included.
BlocksFit ==
  \A b \in 0 .. NumBlocks - 1 :
    HeaderSize + (Len(Block(b).slots) + 1) * IndexSize + Block(b).top <= BlockSize

\* What a session leaves in the arrays and blocks, a later one can use.
ArraysAreSound == AssertValid /\ ArraysAreCurrent /\ BlocksFit

\* The file grows only for an item that no block had room for.
GrowsOnlyWhenFull ==
  [][NumBlocks > 0 /\ Len(blocks') > NumBlocks
       => \A b \in 0 .. NumBlocks - 1 :
            FreeSpace(Len(Block(b).slots), Block(b).top) < blocks'[NumBlocks + 1].top]_vars

Store == INSTANCE ItemStore WITH
  Addr  <- Addresses,
  items <- [a \in Live |-> Slot(a)]

\* Items stay at their addresses through additions, removals, growth of the
\* file, closing and reopening (blockrecordfile.h:81-100).
ImplementsItemStore == Store!Spec

=============================================================================
