------------------------------ MODULE IndexSet ------------------------------
(***************************************************************************)
(* IndexSet of util.rs: an array of N slots, each either an item or a link *)
(* of the list of free slots.  `free_index` is the head of that list and N *)
(* (an index past the array) ends it.                                      *)
(*                                                                         *)
(* The array of IndexOption is kept as two functions: items[i] is the item *)
(* of slot i or NoItem, and next[i] the link of a slot without an item.    *)
(* The link of an occupied slot does not exist in the code; it is N here.  *)
(***************************************************************************)
EXTENDS Integers

CONSTANTS N,        \* the const generic N
          Item,     \* the items a caller may add
          NoItem    \* not an item

ASSUME NAssumption == N \in Nat

ASSUME NoItemAssumption == NoItem \notin Item

VARIABLES free_index, next, items,
          result    \* what the last call returned

vars == <<free_index, next, items, result>>

Slot == 0 .. N - 1

TypeOK ==
  /\ free_index \in 0 .. N
  /\ next \in [Slot -> 0 .. N]
  /\ items \in [Slot -> Item \cup {NoItem}]
  /\ result \in {<<"new">>, <<"None">>, <<"unreachable">>}
                \cup {<<"Ok", i>> : i \in Slot}
                \cup {<<"Err", x>> : x \in Item}
                \cup {<<"Some", x>> : x \in Item}

----------------------------------------------------------------------------
\* IndexSet::new: every slot links to the one after it.
Init ==
  /\ free_index = 0
  /\ next = [i \in Slot |-> i + 1]
  /\ items = [i \in Slot |-> NoItem]
  /\ result = <<"new">>

\* add_item puts the item into the slot at the head of the free list; a head
\* that already holds an item is the unreachable!() of the code.
AddItem(x) ==
  /\ free_index \in Slot
  /\ IF items[free_index] = NoItem
     THEN /\ free_index' = next[free_index]
          /\ items' = [items EXCEPT ![free_index] = x]
          /\ next' = [next EXCEPT ![free_index] = N]
          /\ result' = <<"Ok", free_index>>
     ELSE /\ result' = <<"unreachable">>
          /\ UNCHANGED <<free_index, next, items>>

\* The free list is empty: add_item hands the item back.
AddItemFull(x) ==
  /\ free_index \notin Slot
  /\ result' = <<"Err", x>>
  /\ UNCHANGED <<free_index, next, items>>

\* Mutant: remove_item without its match on Exist, a double free.
RemoveItemTwice(h) ==
  /\ h \in Slot
  /\ next' = [next EXCEPT ![h] = free_index]
  /\ free_index' = h
  /\ items' = [items EXCEPT ![h] = NoItem]
  /\ result' = <<"Some", items[h]>>

\* Mutant: remove_item that does not move the head of the free list.
RemoveItemLeaks(h) ==
  /\ h \in Slot
  /\ items[h] # NoItem
  /\ next' = [next EXCEPT ![h] = free_index]
  /\ items' = [items EXCEPT ![h] = NoItem]
  /\ result' = <<"Some", items[h]>>
  /\ UNCHANGED free_index

\* remove_item of a handle in use: the slot becomes the head of the free list.
RemoveItem(h) ==
  /\ h \in Slot
  /\ items[h] # NoItem
  /\ next' = [next EXCEPT ![h] = free_index]
  /\ free_index' = h
  /\ items' = [items EXCEPT ![h] = NoItem]
  /\ result' = <<"Some", items[h]>>

\* remove_item of a handle that is not in use, or past the array.
RemoveNothing(h) ==
  /\ h \in Slot => items[h] = NoItem
  /\ result' = <<"None">>
  /\ UNCHANGED <<free_index, next, items>>

Next ==
  \/ \E x \in Item : AddItem(x) \/ AddItemFull(x)
  \/ \E h \in 0 .. N : RemoveItem(h) \/ RemoveNothing(h)

Spec == Init /\ [][Next]_vars

----------------------------------------------------------------------------
Free == {i \in Slot : items[i] = NoItem}

\* s lists the n free slots in the order of the links, head first.
IsFreeList(s, n) ==
  /\ \A k \in 1 .. n : s[k] \in Free
  /\ \A i \in Free : \E k \in 1 .. n : s[k] = i
  /\ \A k, l \in 1 .. n : s[k] = s[l] => k = l
  /\ free_index = IF n = 0 THEN N ELSE s[1]
  /\ \A k \in 1 .. n : next[s[k]] = IF k = n THEN N ELSE s[k + 1]

(* The links from free_index visit every slot without an item exactly once *)
(* and end past the array, whatever the order of add_item and remove_item: *)
(* no slot leaks, none is handed out twice, unreachable!() is unreachable. *)
FreeListComplete ==
  \E n \in 0 .. N : \E s \in [1 .. n -> Slot] : IsFreeList(s, n)

(* The calls behave as those of HandleMap: add_item fails only when all N  *)
(* handles are in use, and no call disturbs the item behind another handle. *)
Handles == INSTANCE HandleMap WITH held <- items

ImplementsHandleMap == Handles!Spec
=============================================================================
