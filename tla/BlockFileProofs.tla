-------------------------- MODULE BlockFileProofs ---------------------------
(***************************************************************************)
(* Proofs about BlockFile for any number of blocks, any page counts of at  *)
(* least two, any block contents and any width of the timer.               *)
(***************************************************************************)
EXTENDS BlockFile, TLAPS

\* The client's pointer is to a page that holds a block, in an open file.
CurrentIsResident ==
  current # NoPage => isOpen /\ pages[current].num # InvalidNum

\* Nothing waits to be written once the file is closed.
ClosedIsClean == ~isOpen => \A i \in PageNums : ~NeedsWrite(pages[i])

\* Only an object that was never opened has an archive of no blocks.
EmptyIsNew ==
  length = 0 => ~isOpen /\ PageNums = {} /\ archive[0] = Zero

\* The inductive invariant.
IInv ==
  /\ TypeOK
  /\ OnePagePerBlock
  /\ CleanPagesMatchArchive
  /\ AssertValid
  /\ CurrentIsResident
  /\ ClosedIsClean
  /\ EmptyIsNew

-----------------------------------------------------------------------------

\* The page vector as the actions see it: some number of pages, all typed.
LEMMA PagesType ==
  ASSUME TypeOK
  PROVE  \E n \in PageCounts \cup {0} :
           /\ n \in Nat
           /\ PageNums = 1 .. n
           /\ pages \in [PageNums -> Page]
  BY AtLeastTwoPages DEF TypeOK, PageNums

\* A request changes the timestamps, and at most one page otherwise: the one
\* it returns, which then holds the block asked for.
LEMMA FetchEffect ==
  ASSUME TypeOK,
         NEW b \in BlockNums, NEW base \in [BlockNums -> Data], Fetch(b, base)
  PROVE  /\ timer' \in 0 .. TimerMod - 1
         /\ pages' \in [PageNums -> Page]
         /\ DOMAIN pages' = PageNums
         /\ archive' \in [BlockNums -> Data]
         /\ current' \in PageNums
         /\ pages'[current'].num = b
         /\ pages'[current'].stamp = timer'
         /\ \A i \in PageNums \ {current'} :
              \/ pages'[i].stamp = 0
              \/ pages'[i].stamp = pages[i].stamp /\ timer' # 0
         /\ \A i \in PageNums \ {current'} :
              /\ pages'[i].num = pages[i].num
              /\ pages'[i].dirty = pages[i].dirty
              /\ pages'[i].data = pages[i].data
         /\ \/ /\ pages[current'].num = b
               /\ pages'[current'].dirty = pages[current'].dirty
               /\ pages'[current'].data = pages[current'].data
               /\ archive' = base
            \/ /\ \A i \in PageNums : pages[i].num # b
               /\ pages'[current'].dirty = FALSE
               /\ pages'[current'].data = archive'[b]
               /\ archive' = WrittenBack(base, pages[current'])
<1>1. PICK n \in PageCounts \cup {0} :
        n \in Nat /\ PageNums = 1 .. n /\ pages \in [PageNums -> Page]
  BY PagesType
<1>2. timer' = Tick /\ Tick \in 0 .. TimerMod - 1
  BY TimerModIsPos DEF Fetch, Tick, TypeOK
<1>3. /\ AgedPages \in [PageNums -> Page]
      /\ DOMAIN AgedPages = PageNums
      /\ \A i \in PageNums :
           /\ AgedPages[i].num = pages[i].num
           /\ AgedPages[i].dirty = pages[i].dirty
           /\ AgedPages[i].data = pages[i].data
           /\ \/ AgedPages[i].stamp = 0
              \/ AgedPages[i].stamp = pages[i].stamp /\ Tick # 0
  BY <1>1, TimerModIsPos DEF AgedPages, Page
<1>4. CASE Hit(b, base)
  <2>1. PICK i \in Resident(b) :
          /\ pages' = [AgedPages EXCEPT ![i].stamp = Tick]
          /\ current' = i
          /\ archive' = base
    BY <1>4 DEF Hit
  <2>2. i \in PageNums /\ pages[i].num = b
    BY <2>1 DEF Resident
  <2>3. pages' = [AgedPages EXCEPT ![i] = [AgedPages[i] EXCEPT !.stamp = Tick]]
    BY <2>1
  <2>4. [AgedPages[i] EXCEPT !.stamp = Tick] \in Page
    BY <1>2, <1>3, <2>2 DEF Page
  <2>5. pages' \in [PageNums -> Page] /\ DOMAIN pages' = PageNums
    BY <1>3, <2>2, <2>3, <2>4
  <2>6. /\ pages'[i].num = b
        /\ pages'[i].dirty = pages[i].dirty
        /\ pages'[i].data = pages[i].data
        /\ pages'[i].stamp = Tick
    BY <1>3, <2>2, <2>3 DEF Page
  <2>7. \A j \in PageNums \ {i} : pages'[j] = AgedPages[j]
    BY <1>3, <2>2, <2>3
  <2> QED
    BY <1>2, <1>3, <2>1, <2>2, <2>5, <2>6, <2>7
<1>5. CASE Miss(b, base)
  <2>1. PICK v \in PageNums :
          /\ archive' = WrittenBack(base, pages[v])
          /\ pages' = [AgedPages EXCEPT ![v] =
                         [num |-> b, dirty |-> FALSE, stamp |-> Tick,
                          data |-> archive'[b]]]
          /\ current' = v
    BY <1>5 DEF Miss
  <2>2. \A i \in PageNums : pages[i].num # b
    BY <1>5 DEF Miss, Resident
  <2>3. archive' \in [BlockNums -> Data]
    BY <1>1, <2>1 DEF WrittenBack, Page
  <2>4. [num |-> b, dirty |-> FALSE, stamp |-> Tick, data |-> archive'[b]] \in Page
    BY <1>2, <2>3 DEF Page
  <2>5. pages' \in [PageNums -> Page] /\ DOMAIN pages' = PageNums
    BY <1>3, <2>1, <2>4
  <2>6. /\ pages'[v].num = b
        /\ pages'[v].dirty = FALSE
        /\ pages'[v].data = archive'[b]
        /\ pages'[v].stamp = Tick
    BY <1>3, <2>1
  <2>7. \A j \in PageNums \ {v} : pages'[j] = AgedPages[j]
    BY <1>3, <2>1
  <2>8. \A i \in PageNums \ {v} :
          \/ pages'[i].stamp = 0
          \/ pages'[i].stamp = pages[i].stamp /\ timer' # 0
    BY <1>2, <1>3, <2>7
  <2>9. \A i \in PageNums \ {v} :
           /\ pages'[i].num = pages[i].num
           /\ pages'[i].dirty = pages[i].dirty
           /\ pages'[i].data = pages[i].data
    BY <1>3, <2>7
  <2> QED
    BY <1>2, <2>1, <2>2, <2>3, <2>5, <2>6, <2>8, <2>9
<1> QED
  BY <1>4, <1>5 DEF Fetch

\* Flush(): afterwards the archive agrees with every page, dirty or not, and
\* blocks in no page are what they were.
LEMMA FlushEffect ==
  ASSUME IInv
  PROVE  /\ FlushedArchive \in [BlockNums -> Data]
         /\ \A i \in PageNums :
              pages[i].num # InvalidNum => FlushedArchive[pages[i].num] = pages[i].data
         /\ \A b \in BlockNums : Resident(b) = {} => FlushedArchive[b] = archive[b]
         /\ FlushedPages \in [PageNums -> Page]
         /\ \A i \in PageNums :
              /\ FlushedPages[i].num = pages[i].num
              /\ FlushedPages[i].data = pages[i].data
              /\ FlushedPages[i].stamp = pages[i].stamp
              /\ ~NeedsWrite(FlushedPages[i])
<1>1. pages \in [PageNums -> Page]
  BY PagesType DEF IInv
<1>2. ASSUME NEW i \in PageNums, NeedsWrite(pages[i])
      PROVE  DirtyPagesOf(pages[i].num) = {i}
  BY <1>2 DEF DirtyPagesOf, Resident, NeedsWrite, IInv, OnePagePerBlock
<1>3. ASSUME NEW b \in BlockNums
      PROVE  \/ DirtyPagesOf(b) = {} /\ FlushedArchive[b] = archive[b]
             \/ \E i \in PageNums : /\ NeedsWrite(pages[i])
                                    /\ pages[i].num = b
                                    /\ FlushedArchive[b] = pages[i].data
  <2>1. CASE DirtyPagesOf(b) = {}
    BY <2>1 DEF FlushedArchive
  <2>2. CASE DirtyPagesOf(b) # {}
    <3>1. PICK i \in PageNums : NeedsWrite(pages[i]) /\ pages[i].num = b
      BY <2>2 DEF DirtyPagesOf, Resident
    <3>2. DirtyPagesOf(b) = {i}
      BY <1>2, <3>1
    <3>3. i \in Nat
      BY PagesType DEF IInv
    <3>4. (CHOOSE k \in {i} : \A j \in {i} : j <= k) = i
      BY <3>3
    <3> QED
      BY ZenonT(30), <2>2, <3>1, <3>2, <3>4 DEF FlushedArchive
  <2> QED
    BY <2>1, <2>2
<1>4. FlushedArchive \in [BlockNums -> Data]
  <2>1. \A b \in BlockNums : FlushedArchive[b] \in Data
    BY <1>1, <1>3 DEF Page, IInv, TypeOK
  <2> QED
    BY <2>1 DEF FlushedArchive
<1>5. ASSUME NEW i \in PageNums, pages[i].num # InvalidNum
      PROVE  FlushedArchive[pages[i].num] = pages[i].data
  <2>1. pages[i].num \in BlockNums
    BY <1>1, <1>5 DEF Page
  <2>2. CASE pages[i].dirty
    BY <1>2, <1>3, <1>5, <2>1, <2>2 DEF NeedsWrite, DirtyPagesOf, Resident
  <2>3. CASE ~pages[i].dirty
    <3>1. DirtyPagesOf(pages[i].num) = {}
      BY <1>5, <2>3 DEF DirtyPagesOf, Resident, NeedsWrite, IInv, OnePagePerBlock
    <3> QED
      BY <1>5, <2>1, <2>3, <3>1 DEF FlushedArchive, IInv, CleanPagesMatchArchive
  <2> QED
    BY <2>2, <2>3
<1>6. \A b \in BlockNums : Resident(b) = {} => FlushedArchive[b] = archive[b]
  BY DEF FlushedArchive, DirtyPagesOf
<1>7. /\ FlushedPages \in [PageNums -> Page]
      /\ \A i \in PageNums :
           /\ FlushedPages[i].num = pages[i].num
           /\ FlushedPages[i].data = pages[i].data
           /\ FlushedPages[i].stamp = pages[i].stamp
           /\ ~NeedsWrite(FlushedPages[i])
  BY <1>1 DEF FlushedPages, NeedsWrite, Page
<1> QED
  BY <1>4, <1>5, <1>6, <1>7

-----------------------------------------------------------------------------

LEMMA InitIInv == Init => IInv
<1> SUFFICES ASSUME Init PROVE IInv
  OBVIOUS
<1>1. PageNums = {}
  BY DEF Init, PageNums
<1>2. TypeOK
  <2>1. pages \in [1 .. 0 -> Page]
    BY DEF Init
  <2>2. \E n \in PageCounts \cup {0} : pages \in [1 .. n -> Page]
    BY <2>1
  <2>3. timer \in 0 .. TimerMod - 1 /\ numBlocks \in -1 .. MaxBlocks
    BY TimerModIsPos, MaxBlocksIsPos DEF Init
  <2> QED
    BY <1>1, <2>2, <2>3 DEF Init, TypeOK, NoPage
<1>3. EmptyIsNew
  BY <1>1, MaxBlocksIsPos DEF Init, EmptyIsNew, BlockNums
<1> QED
  BY <1>1, <1>2, <1>3 DEF Init, IInv, OnePagePerBlock, CleanPagesMatchArchive,
                          AssertValid, CurrentIsResident, ClosedIsClean

\* The requests: GetBlock, and CreateBlock with the new block already zeroed
\* in the archive.
LEMMA FetchIInv ==
  ASSUME IInv, isOpen, isOpen', NEW b \in BlockNums,
         NEW base \in [BlockNums -> Data], Fetch(b, base),
         \A x \in BlockNums : x < length => base[x] = archive[x],
         length \in Nat, length' \in 0 .. MaxBlocks, length <= length', b < length',
         numBlocks' = length'
  PROVE  IInv'
<1>1. PICK n \in PageCounts \cup {0} :
        n \in Nat /\ PageNums = 1 .. n /\ pages \in [PageNums -> Page]
  BY PagesType DEF IInv
<1>2. /\ timer' \in 0 .. TimerMod - 1
      /\ pages' \in [PageNums -> Page]
      /\ DOMAIN pages' = PageNums
      /\ archive' \in [BlockNums -> Data]
      /\ current' \in PageNums
      /\ pages'[current'].num = b
      /\ \A i \in PageNums \ {current'} :
           /\ pages'[i].num = pages[i].num
           /\ pages'[i].dirty = pages[i].dirty
           /\ pages'[i].data = pages[i].data
  BY FetchEffect DEF IInv
<1>3. \/ /\ pages[current'].num = b
         /\ pages'[current'].dirty = pages[current'].dirty
         /\ pages'[current'].data = pages[current'].data
         /\ archive' = base
      \/ /\ \A i \in PageNums : pages[i].num # b
         /\ pages'[current'].dirty = FALSE
         /\ pages'[current'].data = archive'[b]
         /\ archive' = WrittenBack(base, pages[current'])
  BY FetchEffect DEF IInv
<1>4. TypeOK'
  BY <1>1, <1>2, MaxBlocksIsPos DEF TypeOK, PageNums, NoPage
<1>5. OnePagePerBlock'
  BY <1>2, <1>3 DEF IInv, OnePagePerBlock, PageNums
<1>6. CleanPagesMatchArchive'
  <2> SUFFICES ASSUME NEW i \in PageNums,
                      pages'[i].num # InvalidNum, ~pages'[i].dirty
               PROVE  pages'[i].data = archive'[pages'[i].num]
    BY <1>2 DEF CleanPagesMatchArchive, PageNums
  <2>1. \A j \in PageNums : pages[j].num # InvalidNum
                             => pages[j].num \in BlockNums /\ pages[j].num < length
    BY <1>1 DEF Page, IInv, AssertValid
  <2>2. CASE i = current'
    BY <1>2, <1>3, <2>1, <2>2 DEF IInv, CleanPagesMatchArchive
  <2>3. CASE i # current' /\ archive' = base
    BY <1>2, <2>1, <2>3 DEF IInv, CleanPagesMatchArchive
  <2>4. CASE i # current' /\ archive' = WrittenBack(base, pages[current'])
    <3>1. pages'[i].num = pages[i].num /\ pages'[i].data = pages[i].data
          /\ ~pages[i].dirty /\ pages[i].num # InvalidNum
      BY <1>2, <2>4
    <3>2. pages[current'].num # pages[i].num
      BY <1>2, <2>4, <3>1 DEF IInv, OnePagePerBlock
    <3>3. archive'[pages[i].num] = base[pages[i].num]
      BY <2>1, <2>4, <3>1, <3>2, <1>2 DEF WrittenBack
    <3> QED
      BY <2>1, <3>1, <3>3 DEF IInv, CleanPagesMatchArchive
  <2> QED
    BY <1>3, <2>2, <2>3, <2>4
<1>7. AssertValid'
  <2>1. ASSUME NEW i \in PageNums
        PROVE  pages'[i].num < length'
    <3>1. pages[i].num \in Int /\ pages[i].num < length
      BY <1>1, MaxBlocksIsPos DEF IInv, AssertValid, Page, BlockNums, InvalidNum
    <3>2. length' \in Int /\ length <= length'
      BY MaxBlocksIsPos
    <3> QED
      BY <1>2, <3>1, <3>2
  <2>2. \A i \in PageNums : pages'[i].stamp <= timer'
    <3>1. ASSUME NEW i \in PageNums, pages'[i].stamp = pages[i].stamp, timer' # 0
          PROVE  pages'[i].stamp <= timer'
      <4>1. timer' = timer + 1
        BY SMTT(30), <3>1, TimerModIsPos DEF Fetch, Tick, IInv, TypeOK
      <4>2. pages[i].stamp <= timer /\ pages[i].stamp \in Int /\ timer \in Int
        BY <1>1, TimerModIsPos DEF IInv, AssertValid, Page, TypeOK
      <4> QED
        BY <3>1, <4>1, <4>2
    <3>2. \A i \in PageNums : \/ pages'[i].stamp = timer' \/ pages'[i].stamp = 0
                              \/ pages'[i].stamp = pages[i].stamp /\ timer' # 0
      BY FetchEffect DEF IInv
    <3> QED
      BY <1>2, <3>1, <3>2, TimerModIsPos
  <2> QED
    BY <1>2, <2>1, <2>2 DEF AssertValid, PageNums
<1>8. CurrentIsResident' /\ ClosedIsClean' /\ EmptyIsNew'
  BY <1>2, MaxBlocksIsPos
  DEF CurrentIsResident, ClosedIsClean, EmptyIsNew, BlockNums, InvalidNum
<1> QED
  BY <1>4, <1>5, <1>6, <1>7, <1>8 DEF IInv

LEMMA StepIInv == IInv /\ [Next]_vars => IInv'
<1> SUFFICES ASSUME IInv, [Next]_vars PROVE IInv'
  OBVIOUS
<1>0. PICK n \in PageCounts \cup {0} :
        n \in Nat /\ PageNums = 1 .. n /\ pages \in [PageNums -> Page]
  BY PagesType DEF IInv
<1>1. ASSUME NEW m \in PageCounts, Open(m)
      PROVE  IInv'
  <2>1. m \in Nat /\ m > 1
    BY AtLeastTwoPages
  <2>2. FreshPage \in Page
    BY ZeroIsData, TimerModIsPos DEF FreshPage, Page
  <2>3. ResizedPages(m) \in [1 .. m -> Page]
    BY <1>0, <2>2 DEF ResizedPages
  <2>4. pages' = ResizedPages(m) /\ DOMAIN pages' = 1 .. m
    BY <1>1, <2>3 DEF Open
  <2>5. \A i \in 1 .. m : \/ i \in PageNums /\ pages'[i] = pages[i]
                          \/ pages'[i] = FreshPage
    BY <2>4 DEF ResizedPages
  <2>6. /\ archive' \in [BlockNums -> Data]
        /\ length' \in 0 .. MaxBlocks
        /\ length' > 0
        /\ length' >= length
        /\ numBlocks' = length'
        /\ length # 0 => archive' = archive
        /\ timer' = timer /\ isOpen' = TRUE /\ current' = NoPage
    <3>1. current = NoPage
      BY <1>1 DEF Open, IInv, CurrentIsResident
    <3>2. CASE length = 0
      <4>1. ResizedPages(m)[1].data \in Data
        BY <2>1, <2>3 DEF Page
      <4> QED
        BY <1>1, <3>1, <3>2, <4>1, MaxBlocksIsPos DEF Open, IInv, TypeOK
    <3>3. CASE length # 0
      BY <1>1, <3>1, <3>3, MaxBlocksIsPos DEF Open, IInv, TypeOK
    <3> QED
      BY <3>2, <3>3
  <2>7. TypeOK'
    BY <2>3, <2>4, <2>6, MaxBlocksIsPos DEF TypeOK, IInv, NoPage
  <2>8. OnePagePerBlock'
    BY <2>4, <2>5 DEF IInv, OnePagePerBlock, FreshPage, InvalidNum, PageNums
  <2>9. CleanPagesMatchArchive'
    <3>1. CASE length = 0
      BY <2>4, <2>5, <3>1
      DEF IInv, EmptyIsNew, CleanPagesMatchArchive, FreshPage, PageNums
    <3>2. CASE length # 0
      BY <2>4, <2>5, <2>6, <3>2
      DEF IInv, CleanPagesMatchArchive, FreshPage, PageNums
    <3> QED
      BY <3>1, <3>2
  <2>10. AssertValid'
    <3> SUFFICES ASSUME NEW i \in 1 .. m
                 PROVE  pages'[i].num < length' /\ pages'[i].stamp <= timer'
      BY <2>4, <2>6 DEF AssertValid, PageNums
    <3>1. timer \in Nat /\ length \in Int /\ length' \in Int
      BY <2>6, TimerModIsPos, MaxBlocksIsPos DEF IInv, TypeOK
    <3>2. CASE pages'[i] = FreshPage
      BY <2>6, <3>1, <3>2 DEF FreshPage, InvalidNum
    <3>3. CASE i \in PageNums /\ pages'[i] = pages[i]
      <4>1. pages[i].num \in Int /\ pages[i].num < length /\ pages[i].stamp <= timer
        BY <1>0, <3>3, MaxBlocksIsPos
        DEF IInv, AssertValid, Page, BlockNums, InvalidNum
      <4> QED
        BY <2>6, <3>1, <3>3, <4>1
    <3> QED
      BY <2>5, <3>2, <3>3
  <2> QED
    BY <2>6, <2>7, <2>8, <2>9, <2>10
    DEF IInv, CurrentIsResident, ClosedIsClean, EmptyIsNew
<1>2. ASSUME NEW b \in BlockNums, GetBlock(b)
      PROVE  IInv'
  <2>1. archive \in [BlockNums -> Data] /\ numBlocks = length
    BY <1>2 DEF GetBlock, IInv, TypeOK, AssertValid
  <2>2. length \in Nat /\ length' \in 0 .. MaxBlocks /\ length' = length
    BY <1>2, MaxBlocksIsPos DEF GetBlock, IInv, TypeOK
  <2> QED
    BY <1>2, <2>1, <2>2, FetchIInv DEF GetBlock
<1>3. CASE CreateBlock
  <2> DEFINE base == [archive EXCEPT ![numBlocks] = Zero]
  <2>1. length \in Nat /\ numBlocks = length /\ length < MaxBlocks
    BY <1>3, MaxBlocksIsPos DEF CreateBlock, IInv, TypeOK, AssertValid
  <2>2. numBlocks \in BlockNums
    BY <2>1, MaxBlocksIsPos DEF BlockNums
  <2>3. base \in [BlockNums -> Data]
    BY <2>2, ZeroIsData DEF IInv, TypeOK
  <2>4. \A x \in BlockNums : x < length => base[x] = archive[x]
    BY <2>1 DEF IInv, TypeOK
  <2>5. length' = length + 1 /\ numBlocks' = length'
    BY <1>3, <2>1 DEF CreateBlock
  <2>6. length' \in 0 .. MaxBlocks /\ length <= length' /\ numBlocks < length'
    BY <2>1, <2>5, MaxBlocksIsPos
  <2>7. isOpen /\ isOpen' /\ Fetch(numBlocks, base)
    BY <1>3 DEF CreateBlock
  <2> HIDE DEF base
  <2> QED
    BY <2>1, <2>2, <2>3, <2>4, <2>5, <2>6, <2>7, FetchIInv
<1>4. ASSUME NEW d \in Data, WriteBlock(d)
      PROVE  IInv'
  <2>1. current \in PageNums /\ isOpen /\ pages[current].num # InvalidNum
    BY <1>4 DEF WriteBlock, IInv, TypeOK, CurrentIsResident
  <2>2. /\ pages' \in [PageNums -> Page]
        /\ DOMAIN pages' = PageNums
        /\ pages'[current].dirty = TRUE
        /\ \A i \in PageNums \ {current} : pages'[i] = pages[i]
        /\ \A i \in PageNums : /\ pages'[i].num = pages[i].num
                               /\ pages'[i].stamp = pages[i].stamp
    BY <1>0, <1>4, <2>1 DEF WriteBlock, Page
  <2>3. UNCHANGED <<isOpen, archive, length, numBlocks, timer, current>>
    BY <1>4 DEF WriteBlock
  <2>4. TypeOK'
    BY <1>0, <2>2, <2>3 DEF IInv, TypeOK, PageNums
  <2> QED
    BY <2>1, <2>2, <2>3, <2>4
    DEF IInv, OnePagePerBlock, CleanPagesMatchArchive, AssertValid,
        CurrentIsResident, ClosedIsClean, EmptyIsNew, PageNums
<1>5. CASE Flush \/ Close
  <2>1. /\ pages' = FlushedPages /\ archive' = FlushedArchive
        /\ UNCHANGED <<length, numBlocks, timer>>
        /\ isOpen
        /\ \/ isOpen' = TRUE /\ current' = current
           \/ isOpen' = FALSE /\ current' = NoPage
    BY <1>5 DEF Flush, Close, IInv, TypeOK
  <2>2. /\ archive' \in [BlockNums -> Data]
        /\ pages' \in [PageNums -> Page]
        /\ DOMAIN pages' = PageNums
        /\ \A i \in PageNums :
             /\ pages'[i].num = pages[i].num
             /\ pages'[i].stamp = pages[i].stamp
             /\ ~NeedsWrite(pages'[i])
             /\ pages'[i].num # InvalidNum => pages'[i].data = archive'[pages'[i].num]
    BY <2>1, FlushEffect
  <2>3. TypeOK'
    BY <1>0, <2>1, <2>2 DEF IInv, TypeOK, PageNums
  <2>4. OnePagePerBlock' /\ AssertValid'
    BY <2>1, <2>2 DEF IInv, OnePagePerBlock, AssertValid, PageNums
  <2>5. CleanPagesMatchArchive' /\ ClosedIsClean' /\ EmptyIsNew'
    BY <2>1, <2>2
    DEF IInv, CleanPagesMatchArchive, ClosedIsClean, EmptyIsNew, PageNums
  <2>6. CurrentIsResident'
    BY <2>1, <2>2 DEF IInv, TypeOK, CurrentIsResident, NoPage
  <2> QED
    BY <2>3, <2>4, <2>5, <2>6 DEF IInv
<1>6. CASE UNCHANGED vars
  BY <1>6
  DEF vars, IInv, TypeOK, OnePagePerBlock, CleanPagesMatchArchive, AssertValid,
      CurrentIsResident, ClosedIsClean, EmptyIsNew, PageNums
<1> QED
  BY <1>1, <1>2, <1>3, <1>4, <1>5, <1>6 DEF Next

-----------------------------------------------------------------------------

\* The conjunction of the invariants below is invariant; every theorem of
\* this module follows from it.
THEOREM InductiveInvariant == Spec => []IInv
<1> QED
  BY InitIInv, StepIInv, PTL DEF Spec

\* The variables keep their types whatever the order of requests, writes,
\* flushes, closings and reopenings with other page counts.
THEOREM TypeCorrect == Spec => []TypeOK
<1>1. IInv => TypeOK
  BY DEF IInv
<1> QED
  BY <1>1, InductiveInvariant, PTL

\* GetBlock() never brings a block into a second page.
THEOREM UniqueResidency == Spec => []OnePagePerBlock
<1>1. IInv => OnePagePerBlock
  BY DEF IInv
<1> QED
  BY <1>1, InductiveInvariant, PTL

\* A page that is not dirty may always be replaced without losing a write.
THEOREM CacheCoherence == Spec => []CleanPagesMatchArchive
<1>1. IInv => CleanPagesMatchArchive
  BY DEF IInv
<1> QED
  BY <1>1, InductiveInvariant, PTL

\* cBlockFile::AssertValid never fires, timer wraps included.
THEOREM AssertValidHolds == Spec => []AssertValid
<1>1. IInv => AssertValid
  BY DEF IInv
<1> QED
  BY <1>1, InductiveInvariant, PTL

-----------------------------------------------------------------------------
(* The block requested last is not the next one replaced.                  *)

\* Between two flips of the timer, no page is as recent as the client's.
CurrentIsNewest ==
  current # NoPage /\ timer # 0 =>
    /\ pages[current].stamp = timer
    /\ \A i \in PageNums \ {current} : pages[i].stamp < timer

LEMMA FetchNewest ==
  ASSUME IInv, NEW b \in BlockNums, NEW base \in [BlockNums -> Data], Fetch(b, base)
  PROVE  CurrentIsNewest'
<1> SUFFICES ASSUME timer' # 0,
                    NEW i \in PageNums \ {current'}
             PROVE  pages'[current'].stamp = timer' /\ pages'[i].stamp < timer'
  BY FetchEffect DEF CurrentIsNewest, PageNums, IInv
<1>1. pages \in [PageNums -> Page]
  BY PagesType DEF IInv
<1>2. timer' = timer + 1 /\ timer \in Nat
  BY TimerModIsPos DEF Fetch, Tick, IInv, TypeOK
<1>3. pages[i].stamp \in Int /\ pages[i].stamp <= timer
  BY <1>1 DEF IInv, AssertValid, Page
<1>4. /\ pages'[current'].stamp = timer'
      /\ pages'[i].stamp = 0 \/ pages'[i].stamp = pages[i].stamp
  BY FetchEffect DEF IInv
<1> QED
  BY <1>2, <1>3, <1>4

LEMMA StepNewest == IInv /\ CurrentIsNewest /\ [Next]_vars => CurrentIsNewest'
<1> SUFFICES ASSUME IInv, CurrentIsNewest, [Next]_vars PROVE CurrentIsNewest'
  OBVIOUS
<1>0. pages \in [PageNums -> Page] /\ archive \in [BlockNums -> Data]
  BY PagesType DEF IInv, TypeOK
<1>1. ASSUME NEW m \in PageCounts, Open(m)
      PROVE  CurrentIsNewest'
  BY <1>1 DEF Open, IInv, CurrentIsResident, CurrentIsNewest
<1>2. ASSUME NEW b \in BlockNums, GetBlock(b)
      PROVE  CurrentIsNewest'
  BY <1>0, <1>2, FetchNewest DEF GetBlock
<1>3. CASE CreateBlock
  <2> DEFINE base == [archive EXCEPT ![numBlocks] = Zero]
  <2>1. numBlocks \in BlockNums
    BY <1>3, MaxBlocksIsPos DEF CreateBlock, IInv, TypeOK, AssertValid, BlockNums
  <2>2. base \in [BlockNums -> Data]
    BY <1>0, <2>1, ZeroIsData
  <2>3. Fetch(numBlocks, base)
    BY <1>3 DEF CreateBlock
  <2> HIDE DEF base
  <2> QED
    BY <2>1, <2>2, <2>3, FetchNewest
<1>4. ASSUME NEW d \in Data, WriteBlock(d)
      PROVE  CurrentIsNewest'
  <2>1. \A i \in PageNums : pages'[i].stamp = pages[i].stamp
    BY <1>0, <1>4 DEF WriteBlock, Page
  <2>2. DOMAIN pages' = PageNums /\ UNCHANGED <<timer, current>>
    BY <1>0, <1>4 DEF WriteBlock
  <2> QED
    BY <2>1, <2>2 DEF CurrentIsNewest, IInv, TypeOK, PageNums
<1>5. CASE Flush \/ Close
  <2>1. /\ pages' = FlushedPages
        /\ timer' = timer
        /\ current' = current \/ current' = NoPage
    BY <1>5 DEF Flush, Close
  <2>2. /\ FlushedPages \in [PageNums -> Page]
        /\ \A i \in PageNums : FlushedPages[i].stamp = pages[i].stamp
    BY FlushEffect
  <2>3. DOMAIN FlushedPages = PageNums
    BY <2>2
  <2> QED
    BY <2>1, <2>2, <2>3 DEF CurrentIsNewest, IInv, TypeOK, PageNums
<1>6. CASE UNCHANGED vars
  BY <1>6 DEF vars, CurrentIsNewest, PageNums
<1> QED
  BY <1>1, <1>2, <1>3, <1>4, <1>5, <1>6 DEF Next

LEMMA MruStep ==
  IInv /\ CurrentIsNewest /\ [Next]_vars
    => [current # NoPage /\ timer # 0 /\ timer' # 0
          => pages'[current].num = pages[current].num]_vars
<1> SUFFICES ASSUME IInv, CurrentIsNewest, Next,
                    current # NoPage, timer # 0, timer' # 0
             PROVE  pages'[current].num = pages[current].num
  OBVIOUS
<1>0. pages \in [PageNums -> Page] /\ current \in PageNums
  BY PagesType DEF IInv, TypeOK
<1>1. ASSUME NEW m \in PageCounts, Open(m) PROVE FALSE
  BY <1>1 DEF Open, IInv, CurrentIsResident
<1>2. ASSUME NEW b, NEW base, Fetch(b, base)
      PROVE  pages'[current].num = pages[current].num
  <2>1. Tick # 0 /\ AgedPages = pages
    BY <1>2 DEF Fetch, AgedPages
  <2>2. CASE Hit(b, base)
    <3>1. PICK i : pages' = [pages EXCEPT ![i].stamp = Tick]
      BY <2>1, <2>2 DEF Hit
    <3> QED
      BY <1>0, <3>1 DEF Page
  <2>3. CASE Miss(b, base)
    <3>1. PICK v \in PageNums :
            /\ IsVictim(pages, v)
            /\ pages' = [pages EXCEPT ![v] = [num |-> b, dirty |-> FALSE,
                                            stamp |-> Tick, data |-> archive'[b]]]
      BY <2>1, <2>3 DEF Miss
    <3>2. PICK j \in PageNums : j # current
      <4>1. PICK n \in PageCounts \cup {0} : n \in Nat /\ PageNums = 1 .. n
        BY PagesType DEF IInv
      <4>2. 1 \in PageNums /\ 2 \in PageNums
        BY <1>0, <4>1, AtLeastTwoPages
      <4> QED
        BY <4>2
    <3>3. v # current
      <4>1. pages[current].stamp = timer /\ pages[j].stamp < timer
        BY <3>2 DEF CurrentIsNewest
      <4>2. timer \in Int /\ pages[j].stamp \in Int
        <5>1. timer \in Int
          BY TimerModIsPos DEF IInv, TypeOK
        <5>2. pages[j] \in Page
          BY <1>0, <3>2
        <5> QED
          BY <5>1, <5>2, TimerModIsPos DEF Page
      <4>3. \/ pages[v].stamp < pages[j].stamp
            \/ pages[v].stamp = pages[j].stamp
        <5>1. j \in PageNums
          BY <3>2
        <5> QED
          BY <3>1, <5>1, Zenon DEF IsVictim
      <4> QED
        BY <4>1, <4>2, <4>3
    <3> QED
      BY <1>0, <3>1, <3>3
  <2> QED
    BY <1>2, <2>2, <2>3 DEF Fetch
<1>3. CASE (\E b \in BlockNums : GetBlock(b)) \/ CreateBlock
  BY <1>2, <1>3 DEF GetBlock, CreateBlock
<1>4. ASSUME NEW d \in Data, WriteBlock(d)
      PROVE  pages'[current].num = pages[current].num
  BY <1>0, <1>4 DEF WriteBlock, Page
<1>5. CASE Flush \/ Close
  BY <1>0, <1>5, FlushEffect DEF Flush, Close
<1> QED
  BY <1>1, <1>3, <1>4, <1>5 DEF Next

\* As long as the timer does not flip, the block requested last survives the
\* next request, whatever pages are free, dirty or resident.
THEOREM MostRecentSurvives == Spec => MruStaysResident
<1>1. Init => CurrentIsNewest
  BY DEF Init, CurrentIsNewest
<1> QED
  BY <1>1, InductiveInvariant, StepNewest, MruStep, PTL DEF Spec, MruStaysResident

-----------------------------------------------------------------------------
(* The block file implements an array of blocks.                           *)

\* What the client sees, page by page.
PagesShowContents ==
  /\ Contents \in [BlockNums -> Data]
  /\ \A i \in PageNums :
       pages[i].num # InvalidNum => Contents[pages[i].num] = pages[i].data
  /\ \A b \in BlockNums :
       (\A i \in PageNums : pages[i].num # b) => Contents[b] = archive[b]

LEMMA ContentsShown == IInv => PagesShowContents
<1> SUFFICES ASSUME IInv PROVE PagesShowContents
  OBVIOUS
<1>0. pages \in [PageNums -> Page] /\ archive \in [BlockNums -> Data]
  BY PagesType DEF IInv, TypeOK
<1>1. ASSUME NEW b \in BlockNums, \A i \in PageNums : pages[i].num # b
      PROVE  Contents[b] = archive[b]
  BY <1>1 DEF Contents, Resident
<1>2. ASSUME NEW i \in PageNums, pages[i].num # InvalidNum
      PROVE  Contents[pages[i].num] = pages[i].data
  <2>1. Resident(pages[i].num) = {i}
    BY <1>2 DEF Resident, IInv, OnePagePerBlock
  <2>2. pages[i].num \in BlockNums
    BY <1>0, <1>2 DEF Page
  <2> QED
    BY <2>1, <2>2 DEF Contents
<1>3. ASSUME NEW b \in BlockNums
      PROVE  Contents[b] \in Data
  <2>1. CASE \A i \in PageNums : pages[i].num # b
    BY <1>0, <1>1, <2>1
  <2>2. CASE \E i \in PageNums : pages[i].num = b
    <3>1. PICK i \in PageNums : pages[i].num = b
      BY <2>2
    <3>2. pages[i].num # InvalidNum /\ pages[i].data \in Data
      BY <1>0, <3>1, MaxBlocksIsPos DEF Page, BlockNums, InvalidNum
    <3> QED
      BY <1>2, <3>1, <3>2
  <2> QED
    BY <2>1, <2>2
<1>4. Contents \in [BlockNums -> Data]
  BY <1>3 DEF Contents
<1> QED
  BY <1>1, <1>2, <1>4 DEF PagesShowContents

LEMMA ContentsShownNext == IInv' => PagesShowContents'
  BY ContentsShown, PTL

\* A request leaves the contents alone, but for the block it creates, and
\* makes at most one other block durable.
LEMMA FetchContents ==
  ASSUME IInv, IInv', NEW b \in BlockNums,
         NEW base \in [BlockNums -> Data], Fetch(b, base),
         \A x \in BlockNums : x # b => base[x] = archive[x],
         b < length => base[b] = archive[b], length \in Nat
  PROVE  /\ \A x \in BlockNums : x # b => Contents'[x] = Contents[x]
         /\ b < length => Contents'[b] = Contents[b]
         /\ b >= length => Contents'[b] = base[b]
         /\ \/ archive' = base
            \/ \E e \in BlockNums : archive' = [base EXCEPT ![e] = Contents[e]]
         /\ current' # NoPage /\ pages'[current'].num = b
<1>0. /\ pages \in [PageNums -> Page] /\ archive \in [BlockNums -> Data]
      /\ 0 \notin PageNums
  BY PagesType DEF IInv, TypeOK
<1>1. /\ DOMAIN pages' = PageNums
      /\ archive' \in [BlockNums -> Data]
      /\ current' \in PageNums
      /\ pages'[current'].num = b
      /\ \A i \in PageNums \ {current'} :
           /\ pages'[i].num = pages[i].num
           /\ pages'[i].dirty = pages[i].dirty
           /\ pages'[i].data = pages[i].data
  BY FetchEffect DEF IInv
<1>2. /\ Contents \in [BlockNums -> Data]
      /\ \A i \in PageNums :
           pages[i].num # InvalidNum => Contents[pages[i].num] = pages[i].data
      /\ \A x \in BlockNums :
           (\A i \in PageNums : pages[i].num # x) => Contents[x] = archive[x]
  BY ContentsShown DEF PagesShowContents
<1>3. /\ \A i \in PageNums :
           pages'[i].num # InvalidNum => Contents'[pages'[i].num] = pages'[i].data
      /\ \A x \in BlockNums :
           (\A i \in PageNums : pages'[i].num # x) => Contents'[x] = archive'[x]
  BY <1>1, ContentsShownNext DEF PagesShowContents, PageNums
<1>4. \A i \in PageNums :
        /\ pages[i].num # InvalidNum => pages[i].num \in BlockNums
        /\ pages[i].num < length
  BY <1>0 DEF Page, IInv, AssertValid
<1>5. b # InvalidNum /\ b \in Int
  BY MaxBlocksIsPos DEF BlockNums, InvalidNum
<1>6. CASE /\ pages[current'].num = b
           /\ pages'[current'].data = pages[current'].data
           /\ archive' = base
  <2>1. b < length
    BY <1>1, <1>4, <1>6
  <2>2. Contents'[b] = Contents[b]
    BY <1>1, <1>2, <1>3, <1>5, <1>6
  <2>3. ASSUME NEW x \in BlockNums, x # b
        PROVE  Contents'[x] = Contents[x]
    <3>1. CASE \E i \in PageNums : pages[i].num = x
      <4>1. PICK i \in PageNums : pages[i].num = x
        BY <3>1
      <4>2. i # current' /\ x # InvalidNum
        BY <1>6, <2>3, <4>1, MaxBlocksIsPos DEF BlockNums, InvalidNum
      <4> QED
        BY <1>1, <1>2, <1>3, <4>1, <4>2
    <3>2. CASE \A i \in PageNums : pages[i].num # x
      BY <1>1, <1>2, <1>3, <1>6, <2>3, <3>2
    <3> QED
      BY <3>1, <3>2
  <2> QED
    BY <1>0, <1>1, <1>5, <1>6, <2>1, <2>2, <2>3 DEF NoPage
<1>7. CASE /\ \A i \in PageNums : pages[i].num # b
           /\ pages'[current'].data = archive'[b]
           /\ archive' = WrittenBack(base, pages[current'])
  <2> DEFINE e == pages[current'].num
  <2>1. e = InvalidNum \/ (e \in BlockNums /\ e # b /\ e < length)
    BY <1>1, <1>4, <1>7
  <2>2. /\ \A x \in BlockNums : x # e => archive'[x] = base[x]
        /\ e # InvalidNum => archive'[e] = Contents[e]
        /\ archive' = base \/ (e \in BlockNums /\ archive' = [base EXCEPT ![e] = Contents[e]])
    <3>1. CASE NeedsWrite(pages[current'])
      BY <1>1, <1>2, <1>7, <2>1, <3>1 DEF WrittenBack, NeedsWrite
    <3>2. CASE ~NeedsWrite(pages[current'])
      BY <1>1, <1>2, <1>7, <2>1, <3>2
      DEF WrittenBack, NeedsWrite, IInv, CleanPagesMatchArchive
    <3> QED
      BY <3>1, <3>2
  <2>3. Contents'[b] = base[b]
    BY <1>1, <1>3, <1>5, <1>7, <2>1, <2>2
  <2>4. b < length => Contents'[b] = Contents[b]
    BY <1>2, <1>7, <2>3
  <2>5. ASSUME NEW x \in BlockNums, x # b
        PROVE  Contents'[x] = Contents[x]
    <3>0. x # InvalidNum
      BY MaxBlocksIsPos DEF BlockNums, InvalidNum
    <3>1. CASE x = e
      <4>1. \A i \in PageNums : pages'[i].num # x
        <5>1. \A i \in PageNums \ {current'} : pages[i].num # x
          BY <1>1, <3>0, <3>1 DEF IInv, OnePagePerBlock
        <5> QED
          BY <1>1, <2>5, <5>1
      <4> QED
        BY <1>3, <2>2, <3>0, <3>1, <4>1
    <3>2. CASE x # e /\ \E i \in PageNums : pages[i].num = x
      <4>1. PICK i \in PageNums : pages[i].num = x
        BY <3>2
      <4>2. i # current'
        BY <3>2, <4>1
      <4> QED
        BY <1>1, <1>2, <1>3, <3>0, <4>1, <4>2
    <3>3. CASE x # e /\ \A i \in PageNums : pages[i].num # x
      <4>1. \A i \in PageNums : pages'[i].num # x
        BY <1>1, <2>5, <3>3
      <4> QED
        BY <1>2, <1>3, <2>2, <2>5, <3>3, <4>1
    <3> QED
      BY <3>1, <3>2, <3>3
  <2> HIDE DEF e
  <2>6. archive' = base \/ \E x \in BlockNums : archive' = [base EXCEPT ![x] = Contents[x]]
    BY <2>2
  <2> QED
    BY <1>0, <1>1, <2>3, <2>4, <2>5, <2>6 DEF NoPage
<1> QED
  BY <1>6, <1>7, FetchEffect DEF IInv

LEMMA InitRefines == Init => Store!Init
<1> SUFFICES ASSUME Init PROVE Store!Init
  OBVIOUS
<1>1. \A b \in BlockNums : Resident(b) = {}
  BY DEF Init, Resident, PageNums
<1>2. Contents = archive
  BY <1>1 DEF Contents, Init
<1> QED
  BY <1>2 DEF Init, Store!Init, Store!BlockNums, Store!NoBlock, BlockNums, InvalidNum

LEMMA StepRefines == IInv /\ IInv' /\ [Next]_vars => [Store!Next]_(Store!vars)
<1> SUFFICES ASSUME IInv, IInv', [Next]_vars PROVE [Store!Next]_(Store!vars)
  OBVIOUS
<1> USE DEF Store!BlockNums, Store!NoBlock, InvalidNum, NoPage
<1>0. /\ pages \in [PageNums -> Page] /\ archive \in [BlockNums -> Data]
      /\ length \in Nat /\ 0 \notin PageNums
  BY PagesType, MaxBlocksIsPos DEF IInv, TypeOK
<1>1. /\ Contents \in [BlockNums -> Data]
      /\ \A i \in PageNums :
           pages[i].num # InvalidNum => Contents[pages[i].num] = pages[i].data
      /\ \A b \in BlockNums :
           (\A i \in PageNums : pages[i].num # b) => Contents[b] = archive[b]
  BY ContentsShown DEF PagesShowContents
<1>2. /\ Contents' \in [BlockNums -> Data]
      /\ \A i \in DOMAIN pages' :
           pages'[i].num # InvalidNum => Contents'[pages'[i].num] = pages'[i].data
      /\ \A b \in BlockNums :
           (\A i \in DOMAIN pages' : pages'[i].num # b) => Contents'[b] = archive'[b]
  BY ContentsShownNext DEF PagesShowContents, PageNums
<1>3. ASSUME NEW m \in PageCounts, Open(m)
      PROVE  Store!Open
  <2>1. m \in Nat /\ 1 \in 1 .. m
    BY AtLeastTwoPages
  <2>2. pages' = ResizedPages(m) /\ DOMAIN pages' = 1 .. m
    BY <1>3 DEF Open, ResizedPages
  <2>3. archive' = archive
    <3>1. CASE length = 0
      <4>1. ResizedPages(m)[1] = FreshPage /\ archive[0] = Zero
        BY <2>1, <3>1 DEF ResizedPages, IInv, EmptyIsNew
      <4> QED
        BY <1>0, <1>3, <3>1, <4>1, MaxBlocksIsPos DEF Open, FreshPage, BlockNums
    <3>2. CASE length # 0
      BY <1>3, <3>2 DEF Open
    <3> QED
      BY <3>1, <3>2
  \* A page dropped by the resize was clean, so its block reads the same.
  <2>4. ASSUME NEW b \in BlockNums
        PROVE  Contents'[b] = archive[b] /\ Contents[b] = archive[b]
    <3>0. b # InvalidNum
      BY MaxBlocksIsPos DEF BlockNums
    <3>1. \A i \in PageNums : pages[i].num = b => pages[i].data = archive[b]
      BY <1>3, <3>0
      DEF Open, IInv, ClosedIsClean, NeedsWrite, CleanPagesMatchArchive
    <3>2. Contents[b] = archive[b]
      BY <1>1, <3>0, <3>1
    <3>3. \A i \in 1 .. m : pages'[i].num = b => pages'[i].data = archive[b]
      BY <2>2, <3>0, <3>1 DEF ResizedPages, FreshPage
    <3>4. Contents'[b] = archive'[b]
      BY <1>2, <2>2, <2>3, <3>0, <3>3
    <3> QED
      BY <2>3, <3>2, <3>4
  <2>5. Contents' = Contents
    BY <1>1, <1>2, <2>4
  <2>6. current = NoPage /\ current' = NoPage
    BY <1>3 DEF Open, IInv, CurrentIsResident
  <2> QED
    BY <1>3, <2>3, <2>5, <2>6 DEF Open, Store!Open
<1>4. ASSUME NEW b \in BlockNums, GetBlock(b)
      PROVE  Store!GetBlock(b)
  <2>1. isOpen /\ b < length /\ Fetch(b, archive)
    BY <1>4 DEF GetBlock, IInv, AssertValid
  <2>2. UNCHANGED <<isOpen, length>>
    BY <1>4 DEF GetBlock
  <2>3. /\ \A x \in BlockNums : Contents'[x] = Contents[x]
        /\ \/ archive' = archive
           \/ \E e \in BlockNums : archive' = [archive EXCEPT ![e] = Contents[e]]
        /\ current' # NoPage /\ pages'[current'].num = b
    BY <1>0, <2>1, FetchContents
  <2>4. Contents' = Contents
    BY <1>1, <1>2, <2>3
  <2>5. Store!PageOut(archive)
    BY <2>3 DEF Store!PageOut, BlockNums
  <2> QED
    BY <2>1, <2>2, <2>3, <2>4, <2>5 DEF Store!GetBlock
<1>5. ASSUME CreateBlock
      PROVE  Store!CreateBlock
  <2> DEFINE base == [archive EXCEPT ![numBlocks] = Zero]
  <2>1. numBlocks = length /\ length < MaxBlocks /\ length \in BlockNums
    BY <1>0, <1>5, MaxBlocksIsPos DEF CreateBlock, IInv, AssertValid, BlockNums
  <2>2. base \in [BlockNums -> Data] /\ base[length] = Zero
        /\ \A x \in BlockNums : x # length => base[x] = archive[x]
    BY <1>0, <2>1, ZeroIsData
  <2>3. /\ isOpen /\ isOpen' = isOpen /\ length' = length + 1
        /\ Fetch(length, base)
    BY <1>0, <1>5, <2>1 DEF CreateBlock
  <2> HIDE DEF base
  <2>4. /\ \A x \in BlockNums : x # length => Contents'[x] = Contents[x]
        /\ Contents'[length] = Zero
        /\ \/ archive' = base
           \/ \E e \in BlockNums : archive' = [base EXCEPT ![e] = Contents[e]]
        /\ current' # NoPage /\ pages'[current'].num = length
    BY <1>0, <2>1, <2>2, <2>3, FetchContents
  <2>5. Contents' = [Contents EXCEPT ![length] = Zero]
    BY <1>1, <1>2, <2>1, <2>4
  <2>6. base = [archive EXCEPT ![length] = Zero]
    BY <2>1 DEF base
  <2>7. Store!PageOut([archive EXCEPT ![length] = Zero])
    BY <2>4, <2>6 DEF Store!PageOut, BlockNums
  <2> QED
    BY <2>1, <2>3, <2>4, <2>5, <2>7 DEF Store!CreateBlock
<1>6. ASSUME NEW d \in Data, WriteBlock(d)
      PROVE  Store!WriteBlock(d)
  <2>1. current \in PageNums /\ current # NoPage /\ pages[current].num # InvalidNum
    BY <1>6 DEF WriteBlock, IInv, TypeOK, CurrentIsResident
  <2>2. /\ DOMAIN pages' = PageNums
        /\ pages'[current].num = pages[current].num
        /\ pages'[current].data = d
        /\ \A i \in PageNums \ {current} : pages'[i] = pages[i]
        /\ UNCHANGED <<isOpen, archive, length, current>>
    BY <1>0, <1>6, <2>1 DEF WriteBlock, Page
  <2> DEFINE c == pages[current].num
  <2>3. c \in BlockNums /\ Contents'[c] = d
    BY <1>0, <1>2, <2>1, <2>2 DEF Page
  <2>4. ASSUME NEW x \in BlockNums, x # c
        PROVE  Contents'[x] = Contents[x]
    <3>0. x # InvalidNum
      BY MaxBlocksIsPos DEF BlockNums
    <3>1. CASE \E i \in PageNums : pages[i].num = x
      <4>1. PICK i \in PageNums : pages[i].num = x
        BY <3>1
      <4>2. i # current
        BY <2>4, <4>1
      <4> QED
        BY <1>1, <1>2, <2>2, <3>0, <4>1, <4>2
    <3>2. CASE \A i \in PageNums : pages[i].num # x
      <4>1. \A i \in PageNums : pages'[i].num # x
        BY <2>2, <2>4, <3>2
      <4> QED
        BY <1>1, <1>2, <2>2, <3>2, <4>1
    <3> QED
      BY <3>1, <3>2
  <2>5. Contents' = [Contents EXCEPT ![c] = d]
    BY <1>1, <1>2, <2>3, <2>4
  <2> QED
    BY <2>1, <2>2, <2>5 DEF Store!WriteBlock
<1>7. ASSUME Flush \/ Close
      PROVE  archive' = Contents /\ Contents' = Contents
  <2>1. /\ pages' = FlushedPages /\ archive' = FlushedArchive
    BY <1>7 DEF Flush, Close
  <2>2. /\ FlushedArchive \in [BlockNums -> Data]
        /\ \A i \in PageNums :
             pages[i].num # InvalidNum => FlushedArchive[pages[i].num] = pages[i].data
        /\ \A b \in BlockNums : Resident(b) = {} => FlushedArchive[b] = archive[b]
        /\ DOMAIN FlushedPages = PageNums
        /\ \A i \in PageNums : /\ FlushedPages[i].num = pages[i].num
                               /\ FlushedPages[i].data = pages[i].data
    BY FlushEffect
  <2>3. ASSUME NEW x \in BlockNums
        PROVE  archive'[x] = Contents[x] /\ Contents'[x] = Contents[x]
    <3>0. x # InvalidNum
      BY MaxBlocksIsPos DEF BlockNums
    <3>1. CASE \E i \in PageNums : pages[i].num = x
      BY <1>1, <1>2, <2>1, <2>2, <3>0, <3>1
    <3>2. CASE \A i \in PageNums : pages[i].num # x
      <4>1. Resident(x) = {}
        BY <3>2 DEF Resident
      <4> QED
        BY <1>1, <1>2, <2>1, <2>2, <3>2, <4>1
    <3> QED
      BY <3>1, <3>2
  <2> QED
    BY <1>1, <1>2, <2>1, <2>2, <2>3
<1>8. ASSUME Flush
      PROVE  Store!Flush
  <2>1. (IF current = NoPage THEN InvalidNum ELSE pages[current].num)'
          = (IF current = NoPage THEN InvalidNum ELSE pages[current].num)
    BY <1>8, FlushEffect DEF Flush, IInv, TypeOK
  <2> QED
    BY <1>7, <1>8, <2>1 DEF Flush, Store!Flush
<1>9. ASSUME Close
      PROVE  Store!Close
  BY <1>7, <1>9 DEF Close, Store!Close
<1>10. CASE UNCHANGED vars
  <2>1. Contents' = Contents
    BY <1>10 DEF vars, Contents, Resident, PageNums
  <2> QED
    BY <1>10, <2>1 DEF vars, Store!vars
<1> QED
  BY <1>3, <1>4, <1>5, <1>6, <1>8, <1>9, <1>10 DEF Next, Store!Next, BlockNums

\* Every run of the page cache is a run of the array of blocks it stands for:
\* a client reads the last write of every block, and Flush() and Close()
\* leave all of them in the archive.
THEOREM CacheRefinesStore == Spec => ImplementsBlockStore
<1>1. IInv /\ [Next]_vars => [Store!Next]_(Store!vars)
  BY StepIInv, StepRefines
<1> QED
  BY <1>1, InductiveInvariant, InitRefines, PTL
  DEF Spec, Store!Spec, ImplementsBlockStore

=============================================================================
