----------------------------- MODULE ItemStore ------------------------------
(***************************************************************************)
(* What cBlockRecordFile promises (blockrecordfile.h): items found again   *)
(* at the address AddItem() returned, until they are removed, whether or   *)
(* not the file was closed and opened in between.                          *)
(***************************************************************************)
CONSTANTS
  Addr,    \* the addresses there are: a block and an index in it
  Item,    \* the items clients store
  SizeOf(_)  \* the size of an item

VARIABLE items   \* the items, by address

Init == items = [a \in {} |-> a]

AddItem(it) ==
  \E a \in Addr \ DOMAIN items :
    items' = [x \in DOMAIN items \cup {a} |-> IF x = a THEN it ELSE items[x]]

RemoveItem(a) == items' = [x \in DOMAIN items \ {a} |-> items[x]]

RewriteItem(a, it) ==
  /\ SizeOf(it) = SizeOf(items[a])
  /\ items' = [items EXCEPT ![a] = it]

Next ==
  \/ \E it \in Item : AddItem(it)
  \/ \E a \in DOMAIN items : RemoveItem(a)
  \/ \E a \in DOMAIN items, it \in Item : RewriteItem(a, it)

Spec == Init /\ [][Next]_items

=============================================================================
