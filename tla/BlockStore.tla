----------------------------- MODULE BlockStore -----------------------------
(***************************************************************************)
(* What cBlockFile promises its clients (blockfile.h:65-95), with no       *)
(* pages, no dirty bits and no timestamps: a growing array of blocks, a    *)
(* cursor on the block whose pointer the client was given last, and the    *)
(* durable image of the array.  A block may become durable at any time (a  *)
(* page is paged out); all of them are durable after Flush() and Close().  *)
(***************************************************************************)
EXTENDS Integers

CONSTANTS
  Data,       \* the contents a block can have
  Zero,       \* the contents of a block nobody has written yet
  MaxBlocks   \* bound: the number of blocks the file may grow to

VARIABLES
  opened,     \* an archive is associated with the file
  size,       \* number of blocks
  store,      \* the contents of each block, as the client sees it
  saved,      \* the contents of each block, as the archive holds it
  cursor      \* block number behind the client's Block*, or NoBlock

vars == <<opened, size, store, saved, cursor>>

BlockNums == 0 .. MaxBlocks - 1
NoBlock == -1

Init ==
  /\ opened = FALSE
  /\ size \in 0 .. MaxBlocks
  /\ store \in [BlockNums -> Data]
  /\ \A b \in BlockNums : b >= size => store[b] = Zero
  /\ saved = store
  /\ cursor = NoBlock

\* Some block, or none, is paged out on top of the image `base`.
PageOut(base) ==
  \/ saved' = base
  \/ \E e \in BlockNums : saved' = [base EXCEPT ![e] = store[e]]

Open ==
  /\ ~opened
  /\ opened' = TRUE
  /\ size' = IF size = 0 THEN 1 ELSE size
  /\ UNCHANGED <<store, saved, cursor>>

GetBlock(b) ==
  /\ opened
  /\ b < size
  /\ cursor' = b
  /\ PageOut(saved)
  /\ UNCHANGED <<opened, size, store>>

CreateBlock ==
  /\ opened
  /\ size < MaxBlocks
  /\ size' = size + 1
  /\ cursor' = size
  /\ store' = [store EXCEPT ![size] = Zero]
  /\ PageOut([saved EXCEPT ![size] = Zero])
  /\ UNCHANGED opened

WriteBlock(d) ==
  /\ cursor # NoBlock
  /\ store' = [store EXCEPT ![cursor] = d]
  /\ UNCHANGED <<opened, size, saved, cursor>>

Flush ==
  /\ opened
  /\ saved' = store
  /\ UNCHANGED <<opened, size, store, cursor>>

Close ==
  /\ opened
  /\ opened' = FALSE
  /\ saved' = store
  /\ cursor' = NoBlock
  /\ UNCHANGED <<size, store>>

Next ==
  \/ Open
  \/ \E b \in BlockNums : GetBlock(b)
  \/ CreateBlock
  \/ \E d \in Data : WriteBlock(d)
  \/ Flush
  \/ Close

Spec == Init /\ [][Next]_vars

=============================================================================
