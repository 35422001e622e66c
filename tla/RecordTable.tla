---------------------------- MODULE RecordTable -----------------------------
(***************************************************************************)
(* What cBlockRecordArray promises (blockrecordarray.h:81-101): a table    *)
(* of items, each found again at the index AddItem() gave it, untouched by *)
(* what happens to the other items.                                        *)
(***************************************************************************)
EXTENDS Naturals, Sequences

CONSTANTS
  Byte,    \* what one byte of data can be
  Items,   \* the items a client may add: sequences of bytes
  Indexes  \* the indexes there are

VARIABLE items  \* the items, by index

Without(i) == [j \in DOMAIN items \ {i} |-> items[j]]

Init == items = << >>

\* The client does not choose the index: any unused one will do.
AddItem(d) ==
  \E i \in Indexes \ DOMAIN items :
    items' = [j \in DOMAIN items \cup {i} |-> IF j = i THEN d ELSE items[j]]

DeleteItem(i) == items' = Without(i)

\* An item is rewritten in place, with the same size.
WriteItem(i, d) ==
  /\ Len(d) = Len(items[i])
  /\ items' = [items EXCEPT ![i] = d]

Next ==
  \/ \E d \in Items : AddItem(d)
  \/ \E i \in DOMAIN items : DeleteItem(i)
  \/ \E i \in DOMAIN items, d \in Items : WriteItem(i, d)

Spec == Init /\ [][Next]_items

=============================================================================
