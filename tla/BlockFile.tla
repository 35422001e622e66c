----------------------------- MODULE BlockFile ------------------------------
(***************************************************************************)
(* cBlockFile (src/db/blockfile.{h,cpp}, block.h): an archive seen as an   *)
(* array of fixed-size blocks through a small cache of pages.  A page is   *)
(* replaced in least-recently-requested order, the order being kept by a   *)
(* uint32 timer that every request increments and that wraps.              *)
(*                                                                         *)
(* The client holds at most the pointer the last GetBlock/CreateBlock      *)
(* returned (`current'): every caller in blockrecordarray.cpp asks for the *)
(* block again before it touches it.                                       *)
(*                                                                         *)
(* The object outlives Close(): blockrecordarray_t.cpp closes and reopens  *)
(* it on the same file, so the pages, which Close() does not discard, and  *)
(* the timer are carried from one opening to the next.                     *)
(***************************************************************************)
EXTENDS Integers

CONSTANTS
  Data,        \* the contents a block can have
  Zero,        \* BLOCK_SIZE zero bytes
  MaxBlocks,   \* bound: number of blocks the archive may grow to
  PageCounts,  \* the values of numPages the callers of Open() pass
  TimerMod     \* number of values of mTimer (2^32 in the code)

ASSUME ZeroIsData      == Zero \in Data
ASSUME MaxBlocksIsPos  == MaxBlocks \in Nat \ {0}
\* GetBlock() asserts that there is a second page (blockfile.cpp:205).
ASSUME AtLeastTwoPages == PageCounts \subseteq Nat \ {0, 1}
ASSUME TimerModIsPos   == TimerMod \in Nat \ {0, 1}

VARIABLES
  isOpen,      \* mpArchive # 0
  archive,     \* contents of the archive's blocks (Zero beyond its length)
  length,      \* mpArchive->Length(), in blocks
  numBlocks,   \* mNumBlocks
  timer,       \* mTimer
  pages,       \* mvPagedBlocks
  current      \* index of the page the client points to, or NoPage

vars == <<isOpen, archive, length, numBlocks, timer, pages, current>>

NoPage     == 0
InvalidNum == -1
BlockNums  == 0 .. MaxBlocks - 1
PageNums   == DOMAIN pages

Page == [num   : BlockNums \cup {InvalidNum},
         dirty : BOOLEAN,
         stamp : 0 .. TimerMod - 1,
         data  : Data]

FreshPage == [num |-> InvalidNum, dirty |-> FALSE, stamp |-> 0, data |-> Zero]

\* Mutant: the search for a resident block starts at the second page.
SkipFirstPage(b) == {i \in PageNums : i > 1 /\ pages[i].num = b}

Resident(b) == {i \in PageNums : pages[i].num = b}

-----------------------------------------------------------------------------
(* FlushBlock, and the page's Write: a page is written back if it is dirty *)

NeedsWrite(p) == p.num # InvalidNum /\ p.dirty

\* Mutant: the victim is dropped without being written back.
NotWrittenBack(base, p) == base

WrittenBack(base, p) ==
  IF NeedsWrite(p) THEN [base EXCEPT ![p.num] = p.data] ELSE base

DirtyPagesOf(b) == {i \in Resident(b) : NeedsWrite(pages[i])}

\* Flush(): the pages are written in order, so a later page would win.
FlushedArchive ==
  [b \in BlockNums |->
     IF DirtyPagesOf(b) = {}
     THEN archive[b]
     ELSE pages[CHOOSE i \in DirtyPagesOf(b) :
                  \A j \in DirtyPagesOf(b) : j <= i].data]

FlushedPages ==
  [i \in PageNums |->
     IF NeedsWrite(pages[i]) THEN [pages[i] EXCEPT !.dirty = FALSE] ELSE pages[i]]

-----------------------------------------------------------------------------
(* GetBlock                                                                *)

\* Mutant: the timer is wider than the access times it is compared with.
TickUnwrapped == timer + 1

Tick == (timer + 1) % TimerMod

\* Mutant: the timer flips and the access times are left alone.
NeverAged == pages

\* When the timer flips, every access time is reset to 0.
AgedPages ==
  IF Tick = 0 THEN [i \in PageNums |-> [pages[i] EXCEPT !.stamp = 0]] ELSE pages

\* Mutant: the search keeps the latest timestamp instead of the earliest.
IsLatest(aged, v) ==
  \A i \in PageNums : \/ aged[v].stamp > aged[i].stamp
                      \/ aged[v].stamp = aged[i].stamp /\ v <= i

\* The first page, in order, of those with the earliest timestamp.
IsVictim(aged, v) ==
  \A i \in PageNums : \/ aged[v].stamp < aged[i].stamp
                      \/ aged[v].stamp = aged[i].stamp /\ v <= i

Hit(b, base) ==
  /\ Resident(b) # {}
  /\ \E i \in Resident(b) :
       /\ \A j \in Resident(b) : i <= j
       /\ pages' = [AgedPages EXCEPT ![i].stamp = Tick]
       /\ current' = i
  /\ archive' = base

Miss(b, base) ==
  /\ Resident(b) = {}
  /\ \E v \in PageNums :
       /\ IsVictim(AgedPages, v)
       /\ archive' = WrittenBack(base, pages[v])
       /\ pages' = [AgedPages EXCEPT ![v] =
                      [num |-> b, dirty |-> FALSE, stamp |-> Tick,
                       data |-> archive'[b]]]
       /\ current' = v

\* Bring block b in, the archive's contents being `base'.
Fetch(b, base) ==
  /\ timer' = Tick
  /\ Hit(b, base) \/ Miss(b, base)

GetBlock(b) ==
  /\ isOpen
  /\ b < numBlocks
  /\ Fetch(b, archive)
  /\ UNCHANGED <<isOpen, length, numBlocks>>

CreateBlock ==
  /\ isOpen
  /\ numBlocks < MaxBlocks
  /\ numBlocks' = numBlocks + 1
  /\ length' = IF length <= numBlocks THEN numBlocks + 1 ELSE length
  /\ Fetch(numBlocks, [archive EXCEPT ![numBlocks] = Zero])
  /\ UNCHANGED isOpen

\* Mutant: the client's write forgets SetDirty().
WriteWithoutDirty(d) ==
  /\ current # NoPage
  /\ pages' = [pages EXCEPT ![current].data = d]
  /\ UNCHANGED <<isOpen, archive, length, numBlocks, timer, current>>

\* The client writes through the pointer it holds and calls SetDirty().
WriteBlock(d) ==
  /\ current # NoPage
  /\ pages' = [pages EXCEPT ![current].dirty = TRUE, ![current].data = d]
  /\ UNCHANGED <<isOpen, archive, length, numBlocks, timer, current>>

-----------------------------------------------------------------------------
(* Open, Flush, Close                                                      *)

\* mvPagedBlocks.resize(n): the pages of an earlier opening are kept.
ResizedPages(n) ==
  [i \in 1 .. n |-> IF i \in PageNums THEN pages[i] ELSE FreshPage]

Open(n) ==
  /\ ~isOpen
  /\ isOpen' = TRUE
  /\ pages' = ResizedPages(n)
  /\ IF length = 0
     THEN /\ archive' = [archive EXCEPT ![0] = ResizedPages(n)[1].data]
          /\ length' = 1
     ELSE UNCHANGED <<archive, length>>
  /\ numBlocks' = length'
  /\ UNCHANGED <<timer, current>>

Flush ==
  /\ isOpen
  /\ archive' = FlushedArchive
  /\ pages' = FlushedPages
  /\ UNCHANGED <<isOpen, length, numBlocks, timer, current>>

Close ==
  /\ isOpen
  /\ isOpen' = FALSE
  /\ archive' = FlushedArchive
  /\ pages' = FlushedPages
  /\ current' = NoPage
  /\ UNCHANGED <<length, numBlocks, timer>>

-----------------------------------------------------------------------------

\* A new object, about to be opened on any archive.
Init ==
  /\ isOpen = FALSE
  /\ length \in 0 .. MaxBlocks
  /\ archive \in [BlockNums -> Data]
  /\ \A b \in BlockNums : b >= length => archive[b] = Zero
  /\ numBlocks = -1
  /\ timer = 0
  /\ pages = [i \in 1 .. 0 |-> FreshPage]
  /\ current = NoPage

Next ==
  \/ \E n \in PageCounts : Open(n)
  \/ \E b \in BlockNums : GetBlock(b)
  \/ CreateBlock
  \/ \E d \in Data : WriteBlock(d)
  \/ Flush
  \/ Close

Spec == Init /\ [][Next]_vars

-----------------------------------------------------------------------------
(* Properties                                                              *)

TypeOK ==
  /\ isOpen \in BOOLEAN
  /\ length \in 0 .. MaxBlocks
  /\ archive \in [BlockNums -> Data]
  /\ numBlocks \in -1 .. MaxBlocks
  /\ timer \in 0 .. TimerMod - 1
  /\ \E n \in PageCounts \cup {0} : pages \in [1 .. n -> Page]
  /\ current \in PageNums \cup {NoPage}

\* A block is never in two pages: GetBlock() pages a block in only when no
\* page holds it (blockfile.cpp:184-194), so two pointers to one block can
\* never be written independently and Flush() has no order to get wrong.
OnePagePerBlock ==
  \A i, j \in PageNums :
    pages[i].num = pages[j].num /\ pages[i].num # InvalidNum => i = j

\* A page that is not dirty holds what the archive holds, through any order
\* of paging in, writing, paging out, Flush() and Close(): replacing it
\* loses nothing, and a block served from memory is the one on disk.
CleanPagesMatchArchive ==
  \A i \in PageNums :
    pages[i].num # InvalidNum /\ ~pages[i].dirty
      => pages[i].data = archive[pages[i].num]

\* cBlockFile::AssertValid (blockfile.cpp:322-359): the archive's length is
\* the number of blocks, every page holds a block of the file, and no page
\* was accessed after the current time, in particular after a wrap.
AssertValid ==
  /\ isOpen => length = numBlocks
  /\ \A i \in PageNums : pages[i].num < length /\ pages[i].stamp <= timer

\* With two pages or more, the block requested last survives the next
\* request: the reason for the ASSERT at blockfile.cpp:205.  Not so when the
\* timer wraps, which makes all pages equally old: that case is excluded.
MruStaysResident ==
  [][current # NoPage /\ timer # 0 /\ timer' # 0
       => pages'[current].num = pages[current].num]_vars

\* The blocks as the client sees them: those in memory hide the archive's.
Contents ==
  [b \in BlockNums |->
     IF Resident(b) = {} THEN archive[b]
     ELSE pages[CHOOSE i \in Resident(b) : TRUE].data]

Store == INSTANCE BlockStore WITH
  opened <- isOpen,
  size   <- length,
  store  <- Contents,
  saved  <- archive,
  cursor <- IF current = NoPage THEN InvalidNum ELSE pages[current].num

\* The cache is invisible: every run of the block file is a run of an array
\* of blocks in which a read sees the last write and Flush() and Close()
\* make everything durable (blockfile.h:65-95).
ImplementsBlockStore == Store!Spec

=============================================================================
