---------------------------- MODULE HierDatabase ----------------------------
(***************************************************************************)
(* cHierDatabase and cHierDatabaseIter (src/db/hierdatabase.{h,cpp}): a    *)
(* tree of named entries stored as items of a record file.  A directory is *)
(* an array-info item that names its first entry; the entries of a         *)
(* directory are linked by name order; an entry names its data and its     *)
(* child directory.  The record file is what ItemStore says it is, with    *)
(* the index choice of cBlockRecordArray: the first free one.              *)
(*                                                                         *)
(* An iterator keeps a copy of the directory it is in, and every change    *)
(* rewrites items from that copy.  Copies of an iterator are made when it  *)
(* is passed by value.  util_ProcessDir (generatedb.cpp:59),               *)
(* util_PruneExtraObjects (policyupdate.cpp:68) and                        *)
(* cIntegrityCheck::ProcessDir (integritycheck.cpp:287) go into a          *)
(* directory with a copy while their caller's iterator keeps what it had   *)
(* read.  ProcessChangedFCO (integritycheck.cpp:138) works in its caller's *)
(* directory: the check of a policy update rewrites an object's data there *)
(* (211-212), and what its callers have cached of that object is stale     *)
(* from then on.                                                           *)
(***************************************************************************)
EXTENDS Integers, Sequences, SequencesExt

CONSTANTS
  Name,      \* the names of entries, naturals for their order (Compare)
  Payload,   \* what an entry's data can be
  NoData,    \* an entry without data
  MaxItems,  \* bound: the number of items the file holds
  MaxDepth   \* bound: the depth of the tree

ASSUME NamesAreOrdered == Name \subseteq Nat
ASSUME RoomForTheRoot  == MaxItems \in Nat /\ MaxItems >= 2
ASSUME DepthIsNumber   == MaxDepth \in Nat \ {0}

VARIABLES
  heap,      \* the items, by address
  iters,     \* the iterators, the one of the running call last
  checking,  \* cIntegrityCheck::Execute is running
  visited    \* the entries its ProcessChangedFCO has been at, by address

hierVars == <<heap, iters, checking, visited>>

MaxCalls == 2 * MaxDepth  \* a directory takes two calls: an object's, and its own

Null     == 0
Addr     == 1 .. MaxItems
RootInfo == 2          \* OpenImpl() asserts where the first two items go

Root              == [kind |-> "root", child |-> RootInfo]
Info(parent, fst) == [kind |-> "info", parent |-> parent, array |-> fst]
Data(d)           == [kind |-> "data", value |-> d]
Entry             == [kind : {"entry"}, name : Name, child : Addr \cup {Null},
                      data : Addr \cup {Null}, next : Addr \cup {Null}]

-----------------------------------------------------------------------------
(* The record file                                                         *)

FreeAddr(h)   == CHOOSE a \in Addr \ DOMAIN h : \A b \in Addr \ DOMAIN h : a <= b
HasFree(h)    == Addr \ DOMAIN h # {}
With(h, a, x) == [b \in DOMAIN h \cup {a} |-> IF b = a THEN x ELSE h[b]]
Without(h, a) == [b \in DOMAIN h \ {a} |-> h[b]]

-----------------------------------------------------------------------------
(* The iterator                                                            *)

EntriesOf(h) == {a \in DOMAIN h : h[a].kind = "entry"}

\* The entries linked from `first', in order.
Linked(h, first) ==
  LET from[a \in EntriesOf(h) \cup {Null}] ==
        IF a = Null THEN << >> ELSE <<h[a]>> \o from[h[a].next]
  IN from[first]

\* LoadArrayAt: the directory at `a', seen from its beginning.
LoadArrayAt(h, a, path) ==
  [addr |-> a, info |-> h[a], entries |-> Linked(h, h[a].array),
   pos |-> 1, path |-> path]

it      == Last(iters)
Done    == it.pos > Len(it.entries)
Cur     == it.entries[it.pos]
CanDescend == ~Done /\ Cur.child # Null
HasData    == ~Done /\ Cur.data # Null

\* GetCurrentAddr: where the entry before, or the directory, says it is.
AddrAt(i, k) == IF k = 1 THEN i.info.array ELSE i.entries[k - 1].next

\* UpperBound: the first entry whose name is not before n.
Bound(n) ==
  CHOOSE k \in 1 .. Len(it.entries) + 1 :
    /\ \A j \in 1 .. k - 1 : it.entries[j].name < n
    /\ k <= Len(it.entries) => it.entries[k].name >= n

Replaced(i) == iters' = [iters EXCEPT ![Len(iters)] = i]

\* util_RewriteObject of the current entry, changed to `e', on the items `h'.
Rewrite(h, e) ==
  /\ heap' = With(h, AddrAt(it, it.pos), e)
  /\ Replaced([it EXCEPT !.entries[it.pos] = e])

CreateEntry(n) ==
  LET k     == Bound(n)
      found == k <= Len(it.entries) /\ it.entries[k].name = n
      new   == [kind |-> "entry", name |-> n, child |-> Null, data |-> Null,
                next |-> IF k <= Len(it.entries) THEN AddrAt(it, k) ELSE Null]
      a     == FreeAddr(heap)
      entry == IF k > 1 THEN [it.entries[k - 1] EXCEPT !.next = a] ELSE new
  IN IF found
     THEN Replaced([it EXCEPT !.pos = k]) /\ UNCHANGED heap
     ELSE /\ HasFree(heap)
          /\ IF k = 1
             THEN /\ heap' = With(With(heap, a, new), it.addr, Info(it.info.parent, a))
                  /\ Replaced([it EXCEPT !.pos = 1, !.info.array = a,
                                         !.entries = <<new>> \o @])
             ELSE /\ heap' = With(With(heap, a, new), AddrAt(it, k - 1), entry)
                  /\ Replaced([it EXCEPT !.pos = k,
                       !.entries = InsertAt([@ EXCEPT ![k - 1] = entry], k, new)])

RemoveData ==
  /\ HasData
  /\ Rewrite(Without(heap, Cur.data), [Cur EXCEPT !.data = Null])

\* Mutant: the data an entry has is not removed before it gets another.
SetDataOver(d) ==
  LET a == FreeAddr(heap)
  IN /\ ~Done
     /\ HasFree(heap)
     /\ Rewrite(With(heap, a, Data(d)), [Cur EXCEPT !.data = a])

SetData(d) ==
  LET h == IF HasData THEN Without(heap, Cur.data) ELSE heap
      a == FreeAddr(h)
  IN /\ ~Done
     /\ HasFree(h)
     /\ Rewrite(With(h, a, Data(d)), [Cur EXCEPT !.data = a])

CreateChildArray ==
  LET a == FreeAddr(heap)
  IN /\ ~Done
     /\ ~CanDescend
     /\ Len(it.path) < MaxDepth - 1
     /\ HasFree(heap)
     /\ Rewrite(With(heap, a, Info(it.addr, Null)), [Cur EXCEPT !.child = a])

\* Mutant: the child array goes with what it holds.
DeleteChildArrayUnchecked ==
  /\ CanDescend
  /\ Rewrite(Without(heap, Cur.child), [Cur EXCEPT !.child = Null])

\* ChildArrayEmpty() reads the child's info from the file.
DeleteChildArray ==
  /\ CanDescend
  /\ heap[Cur.child].array = Null
  /\ Rewrite(Without(heap, Cur.child), [Cur EXCEPT !.child = Null])

\* Mutant: the iterator is moved on past the entry that followed.
ErasedAndNext(i) == [i EXCEPT !.entries = RemoveAt(@, i.pos), !.pos = @ + 1]

\* mEntries.erase: the iterator is at the entry that followed.
Erased(i) == [i EXCEPT !.entries = RemoveAt(@, i.pos)]

\* The entry before, or the directory, is linked to the entry that followed.
\* The only caller, RemoveFCO (dbdatasource.cpp:219-230), asks for it when the
\* entry has no data.
DeleteEntry ==
  LET k    == it.pos
      gone == AddrAt(it, k)
      info == Info(it.info.parent, Cur.next)
      prev == [it.entries[k - 1] EXCEPT !.next = Cur.next]
  IN /\ ~Done
     /\ ~CanDescend
     /\ ~HasData
     /\ IF k = 1
        THEN /\ heap' = Without(With(heap, it.addr, info), gone)
             /\ Replaced([Erased(it) EXCEPT !.info = info])
        ELSE /\ heap' = Without(With(heap, AddrAt(it, k - 1), prev), gone)
             /\ Replaced([Erased(it) EXCEPT !.entries[k - 1] = prev])

-----------------------------------------------------------------------------
(* Moving                                                                  *)

\* SeekTo, SeekBegin, Next: a name that is not there leaves it at the end.
Seek ==
  /\ \E k \in 1 .. Len(it.entries) + 1 : k # it.pos /\ Replaced([it EXCEPT !.pos = k])
  /\ UNCHANGED heap

Below == LoadArrayAt(heap, Cur.child, Append(it.path, Cur.name))

Descend ==
  /\ Len(iters) = 1
  /\ CanDescend
  /\ Replaced(Below)
  /\ UNCHANGED heap

Ascend ==
  /\ Len(iters) = 1
  /\ it.addr # RootInfo
  /\ Replaced(LoadArrayAt(heap, it.info.parent, Front(it.path)))
  /\ UNCHANGED heap

\* util_ProcessDir, util_PruneExtraObjects and ProcessDir are passed the
\* iterator by value and begin with Descend().
Call ==
  /\ Len(iters) < MaxCalls
  /\ CanDescend
  /\ iters' = Append(iters, Below)
  /\ UNCHANGED heap

\* Its caller goes on with the iterator it had.
Return ==
  /\ Len(iters) > 1
  /\ iters' = Front(iters)
  /\ UNCHANGED heap

\* An iterator begins at the root the root item names.
AtRoot == <<LoadArrayAt(heap, heap[1].child, << >>)>>

\* The database is opened, or another iterator made.
Reopen ==
  /\ Len(iters) = 1
  /\ it.addr # RootInfo
  /\ iters' = AtRoot
  /\ UNCHANGED heap

-----------------------------------------------------------------------------
(* The integrity check                                                     *)

\* Iterator k is the copy ProcessChangedFCO was handed: it is in the directory
\* of its caller's.
Handed(k) == k > 1 /\ iters[k].addr = iters[k - 1].addr

\* cIntegrityCheck::Execute makes an iterator for itself.
CheckBegins ==
  /\ ~checking
  /\ Len(iters) = 1
  /\ iters' = AtRoot
  /\ checking' = TRUE
  /\ UNCHANGED <<heap, visited>>

\* Mutant: an object is compared again, as one of another rule.
ProcessAgain ==
  /\ ~Handed(Len(iters)) /\ ~Done
  /\ Len(iters) < MaxCalls
  /\ iters' = Append(iters, it)
  /\ visited' = visited \cup {AddrAt(it, it.pos)}
  /\ UNCHANGED heap

\* ProcessChangedFCO is handed a copy of the iterator at an object.  An object
\* is under one rule, and a rule's walk comes by it once: where another rule
\* begins, ProcessChangedFCO returns at once (ShouldStopDescent), no step here.
ProcessChangedFCO ==
  /\ ~Handed(Len(iters)) /\ ~Done
  /\ AddrAt(it, it.pos) \notin visited
  /\ Len(iters) < MaxCalls
  /\ iters' = Append(iters, it)
  /\ visited' = visited \cup {AddrAt(it, it.pos)}
  /\ UNCHANGED heap

\* RemoveFCOData and SetFCOData, when the check is a policy update's.
RewriteFCO(d) == Handed(Len(iters)) /\ HasData /\ SetData(d)

\* The iterator of Execute goes to each rule's start, those of ProcessDir along
\* their directories.  ProcessChangedFCO moves nothing and recurses by ProcessDir.
Walks ==
  \/ ~Handed(Len(iters)) /\ (Seek \/ Descend \/ Ascend \/ Reopen)
  \/ Handed(Len(iters)) /\ Call
  \/ Return

\* Execute is over, and what follows makes an iterator for itself.
CheckEnds ==
  /\ checking
  /\ Len(iters) = 1
  /\ iters' = AtRoot
  /\ checking' = FALSE
  /\ visited' = {}
  /\ UNCHANGED heap

-----------------------------------------------------------------------------

\* OpenImpl(bTruncate), and an iterator's constructor.
HierInit ==
  /\ heap = <<Root, Info(Null, Null)>>
  /\ iters = <<LoadArrayAt(heap, RootInfo, << >>)>>
  /\ checking = FALSE
  /\ visited = {}

\* Everything else that opens the database: it is made, updated and pruned.
Edit ==
  \/ \E n \in Name : CreateEntry(n)
  \/ \E d \in Payload : SetData(d)
  \/ RemoveData
  \/ CreateChildArray
  \/ DeleteChildArray
  \/ DeleteEntry
  \/ Seek
  \/ Descend
  \/ Ascend
  \/ Call
  \/ Return
  \/ Reopen

Check ==
  \/ ProcessChangedFCO
  \/ (Walks \/ \E d \in Payload : RewriteFCO(d)) /\ UNCHANGED visited

HierNext ==
  \/ ~checking /\ Edit /\ UNCHANGED <<checking, visited>>
  \/ checking /\ Check /\ UNCHANGED checking
  \/ CheckBegins
  \/ CheckEnds

HierSpec == HierInit /\ [][HierNext]_hierVars

-----------------------------------------------------------------------------
(* Properties                                                              *)

Node == {Root} \cup [kind : {"info"}, parent : Addr \cup {Null}, array : Addr \cup {Null}]
               \cup [kind : {"data"}, value : Payload] \cup Entry

HierTypeOK ==
  /\ DOMAIN heap \subseteq Addr
  /\ \A a \in DOMAIN heap : heap[a] \in Node
  /\ Len(iters) \in 1 .. MaxCalls
  /\ checking \in BOOLEAN
  /\ visited \subseteq DOMAIN heap
  /\ \A k \in DOMAIN iters :
       /\ iters[k].addr \in Addr
       /\ iters[k].entries \in Seq(Entry)
       /\ iters[k].pos \in 1 .. Len(iters[k].entries) + 1
       /\ iters[k].path \in Seq(Name)

\* What an item refers to, by the name of the reference.
Refs(x) ==
  CASE x.kind = "root"  -> {<<"info", x.child>>}
    [] x.kind = "info"  -> {<<"entry", x.array>>}
    [] x.kind = "entry" -> {<<"entry", x.next>>, <<"data", x.data>>, <<"info", x.child>>}
    [] OTHER            -> {}

RefsOf(a) == {r \in Refs(heap[a]) : r[2] # Null}

\* Every item but the root is referred to by exactly one other, as what it
\* is: no address dangles, nothing leaks, no two lists share an entry, after
\* any sequence of insertions and removals through cached copies.
OneOwnerEach ==
  /\ \A a \in DOMAIN heap : \A r \in RefsOf(a) :
       r[2] \in DOMAIN heap /\ heap[r[2]].kind = r[1]
  /\ \A b \in DOMAIN heap \ {1} :
       /\ \E a \in DOMAIN heap : \E r \in RefsOf(a) : r[2] = b
       /\ \A a1, a2 \in DOMAIN heap : \A r1 \in RefsOf(a1), r2 \in RefsOf(a2) :
            r1[2] = b /\ r2[2] = b => a1 = a2 /\ r1 = r2

\* The entry j of iterator k is the file's, x: or, of an object the check has
\* been at, the file's but for where its data is, which only the copy
\* ProcessChangedFCO was handed has to know.  That there is data its callers
\* know as well.
Knows(k, j, x) ==
  LET e == iters[k].entries[j]
  IN \/ e = x
     \/ /\ AddrAt(iters[k], j) \in visited
        /\ ~(Handed(k) /\ j = iters[k].pos)
        /\ e.data # Null /\ x.data # Null
        /\ e = [x EXCEPT !.data = e.data]

\* What an iterator has in memory is what the file holds, for the iterators
\* of the callers too, but for the data of objects that need no rewrite any
\* more.  Every rewrite from the cache relies on it (Refresh() exists for the
\* clients that cannot: hierdatabase.h:150-153).
CachesMatchFile ==
  \A k \in DOMAIN iters :
    LET i    == iters[k]
        file == Linked(heap, i.info.array)
    IN /\ i.addr \in DOMAIN heap
       /\ i.info = heap[i.addr]
       /\ Len(i.entries) = Len(file)
       /\ \A j \in DOMAIN file : Knows(k, j, file[j])

\* SeekTo() and CreateEntry() search the entries of a directory in order, so
\* a name is found if it is there, and is there once.
EntriesSorted ==
  \A k \in DOMAIN iters :
    \A j \in 1 .. Len(iters[k].entries) - 1 :
      iters[k].entries[j].name < iters[k].entries[j + 1].name

\* The records on file are one tree, each directory in order.
TreeIsSound == OneOwnerEach /\ EntriesSorted

\* The entries at depth k, from the root's, with their paths.
EntriesAtDepth(h) ==
  LET at[k \in 0 .. MaxDepth] ==
        IF k = 0 THEN {[path |-> << >>, child |-> RootInfo, data |-> Null]}
        ELSE UNION {{[path |-> Append(x.path, e.name), child |-> e.child, data |-> e.data] :
                       e \in ToSet(Linked(h, h[x.child].array))} :
                    x \in {y \in at[k - 1] : y.child # Null}}
  IN at

TreeOf(h) ==
  LET found == UNION {EntriesAtDepth(h)[k] : k \in 1 .. MaxDepth}
  IN [p \in {e.path : e \in found} |->
        LET e == CHOOSE e \in found : e.path = p
        IN [data |-> IF e.data = Null THEN NoData ELSE h[e.data].value,
            dir  |-> e.child # Null]]

Tree == TreeOf(heap)

\* The iterator's path names the directory it shows: what it changes is what
\* its path and name say, and nothing else in the tree changes.
PathsAreTrue ==
  \A k \in DOMAIN iters :
    \E x \in EntriesAtDepth(heap)[Len(iters[k].path)] :
      x.path = iters[k].path /\ x.child = iters[k].addr

\* An iterator can be used as it is, whatever those of its callers and of the
\* functions it was passed to have done: its directory is the one its path
\* names and its entries are the file's, or of objects the check is done with.
CachesAreCurrent == CachesMatchFile /\ PathsAreTrue

HT == INSTANCE HierTree WITH tree <- Tree, cwd <- it.path

ImplementsHierTree == HT!Spec

=============================================================================
