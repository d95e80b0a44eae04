------------------------------ MODULE HandleMap ------------------------------
(***************************************************************************)
(* What a user of util.rs' IndexSet relies on: a table of at most N items, *)
(* each known by the handle it got when it was added.  A handle is any     *)
(* unused one, adding fails only when all N are in use, and adding or      *)
(* removing an item touches no other one.                                  *)
(***************************************************************************)
EXTENDS Integers

CONSTANTS N,        \* number of handles, 0 .. N-1
          Item,     \* the items
          NoItem    \* what an unused handle holds

VARIABLES held,     \* held[h]: the item behind handle h, or NoItem
          result    \* what the last call returned

Handle == 0 .. N - 1

Init ==
  /\ held = [h \in Handle |-> NoItem]
  /\ result = <<"new">>

Add(x) ==
  \E h \in Handle :
    /\ held[h] = NoItem
    /\ held' = [held EXCEPT ![h] = x]
    /\ result' = <<"Ok", h>>

AddToFull(x) ==
  /\ \A h \in Handle : held[h] # NoItem
  /\ result' = <<"Err", x>>
  /\ UNCHANGED held

Remove(h) ==
  /\ held[h] # NoItem
  /\ result' = <<"Some", held[h]>>
  /\ held' = [held EXCEPT ![h] = NoItem]

RemoveUnused ==
  /\ result' = <<"None">>
  /\ UNCHANGED held

Next ==
  \/ \E x \in Item : Add(x) \/ AddToFull(x)
  \/ \E h \in Handle : Remove(h)
  \/ RemoveUnused

Spec == Init /\ [][Next]_<<held, result>>
=============================================================================
