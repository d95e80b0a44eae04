--------------------------- MODULE IndexSetProofs ---------------------------
(***************************************************************************)
(* The free list of IndexSet is complete after every sequence of calls,    *)
(* for every N and every set of items, and IndexSet implements HandleMap.  *)
(*                                                                         *)
(* FreeListComplete is inductive once TypeOK is known: the list after      *)
(* add_item is the tail of the list before, and the list after remove_item *)
(* has the freed slot in front.                                            *)
(***************************************************************************)
EXTENDS IndexSet, FiniteSetTheorems, TLAPS

\* Pigeonhole: a list of distinct slots is no longer than the array.
LEMMA ListLength ==
  ASSUME NEW n \in Nat, NEW s \in [1 .. n -> Slot],
         \A k, l \in 1 .. n : s[k] = s[l] => k = l
  PROVE  n <= N
<1>1. IsFiniteSet(1 .. n) /\ Cardinality(1 .. n) = n
  BY FS_Interval, SMT
<1>2. IsFiniteSet(0 .. N - 1) /\ Cardinality(0 .. N - 1) = N
  BY NAssumption, FS_Interval, SMT
<1>3. SUFFICES ASSUME Cardinality(Slot) < Cardinality(1 .. n)
               PROVE  FALSE
  BY <1>1, <1>2, NAssumption, SMT DEF Slot
<1>4. \E x, y \in 1 .. n : x # y /\ s[x] = s[y]
  <2>1. IsFiniteSet(Slot)
    BY <1>2 DEF Slot
  <2>2. QED
    BY <1>1, <1>3, <2>1, FS_PigeonHole, Zenon
<1>5. QED
  BY <1>4

\* IndexSet::new and every call keep the slots, the links and the results typed.
THEOREM TypeCorrect == Spec => []TypeOK
<1>1. Init => TypeOK
  BY NAssumption, SMT DEF Init, TypeOK, Slot
<1>2. TypeOK /\ [Next]_vars => TypeOK'
  <2> SUFFICES ASSUME TypeOK, [Next]_vars
               PROVE  TypeOK'
    OBVIOUS
  <2> USE NAssumption
  <2>0. CASE UNCHANGED <<items, next, free_index, result>>
    BY <2>0 DEF TypeOK
  <2>1. ASSUME NEW x \in Item, AddItem(x) PROVE TypeOK'
    <3>1. free_index \in Slot /\ next[free_index] \in 0 .. N
      BY <2>1 DEF AddItem, TypeOK
    <3>2. free_index' \in 0 .. N /\ next' \in [Slot -> 0 .. N]
      BY <2>1, <3>1 DEF AddItem, TypeOK
    <3>3. items' \in [Slot -> Item \cup {NoItem}]
      BY <2>1, <3>1 DEF AddItem, TypeOK
    <3>4. result' = <<"Ok", free_index>> \/ result' = <<"unreachable">>
      BY <2>1 DEF AddItem
    <3>5. QED
      BY <3>1, <3>2, <3>3, <3>4, Zenon DEF TypeOK
  <2>2. ASSUME NEW x \in Item, AddItemFull(x) PROVE TypeOK'
    BY <2>2 DEF AddItemFull, TypeOK
  <2>3. ASSUME NEW h \in 0 .. N, RemoveItem(h) PROVE TypeOK'
    BY <2>3 DEF RemoveItem, TypeOK, Slot
  <2>4. ASSUME NEW h \in 0 .. N, RemoveNothing(h) PROVE TypeOK'
    BY <2>4 DEF RemoveNothing, TypeOK
  <2> QED
    BY <2>0, <2>1, <2>2, <2>3, <2>4 DEF Next, vars
<1>3. QED
  BY <1>1, <1>2, PTL DEF Spec

\* The list of free slots of IndexSet::new is 0, 1, ..., N-1.
LEMMA FreeListInit == Init => FreeListComplete
<1> SUFFICES ASSUME Init PROVE FreeListComplete
  OBVIOUS
<1> DEFINE s == [k \in 1 .. N |-> k - 1]
<1>1. s \in [1 .. N -> Slot]
  BY NAssumption DEF Slot
<1>2. IsFreeList(s, N)
  <2>1. Free = Slot
    BY DEF Init, Free
  <2>2. \A i \in Slot : i + 1 \in 1 .. N /\ s[i + 1] = i
    BY NAssumption DEF Slot
  <2>3. \A k \in 1 .. N : s[k] \in Slot /\ next[s[k]] = k
    BY NAssumption DEF Init, Slot
  <2>4. free_index = IF N = 0 THEN N ELSE s[1]
    BY NAssumption DEF Init
  <2>5. \A k \in 1 .. N : next[s[k]] = IF k = N THEN N ELSE s[k + 1]
    BY <2>3, NAssumption
  <2>6. \A k, l \in 1 .. N : s[k] = s[l] => k = l
    BY NAssumption
  <2>7. QED
    BY <2>1, <2>2, <2>3, <2>4, <2>5, <2>6 DEF IsFreeList
<1>3. QED
  BY <1>1, <1>2, NAssumption DEF FreeListComplete

\* add_item leaves the tail of the free list.
LEMMA FreeListAdd ==
  ASSUME TypeOK, FreeListComplete, NEW x \in Item, AddItem(x)
  PROVE  FreeListComplete'
<1>1. PICK n \in 0 .. N : \E s \in [1 .. n -> Slot] : IsFreeList(s, n)
  BY DEF FreeListComplete
<1>2. PICK s \in [1 .. n -> Slot] : IsFreeList(s, n)
  BY <1>1
<1> DEFINE t == [k \in 1 .. n - 1 |-> s[k + 1]]
<1>3. n \in Nat /\ n > 0 /\ free_index = s[1] /\ s[1] \in Slot
  BY <1>2, NAssumption DEF AddItem, IsFreeList, Slot
<1>4. items[free_index] = NoItem
  BY <1>2, <1>3 DEF IsFreeList, Free
<1>5. /\ free_index' = next[free_index]
      /\ items' = [items EXCEPT ![free_index] = x]
      /\ next' = [next EXCEPT ![free_index] = N]
  BY <1>4 DEF AddItem
<1>6. Free' = Free \ {free_index}
  BY <1>3, <1>5, NoItemAssumption DEF Free, TypeOK
<1>7. t \in [1 .. n - 1 -> Slot]
  BY <1>3
<1>8. IsFreeList(t, n - 1)'
  <2>1. \A k \in 1 .. n - 1 : t[k] \in Free'
    BY <1>2, <1>3, <1>6 DEF IsFreeList
  <2>2. \A i \in Free' : \E k \in 1 .. n - 1 : t[k] = i
    <3>1. SUFFICES ASSUME NEW i \in Free' PROVE \E k \in 1 .. n - 1 : t[k] = i
      OBVIOUS
    <3>2. PICK k \in 1 .. n : s[k] = i
      BY <1>2, <1>6, <3>1 DEF IsFreeList
    <3>3. k # 1
      BY <1>3, <1>6, <3>1, <3>2
    <3>4. k - 1 \in 1 .. n - 1 /\ t[k - 1] = i
      BY <1>3, <3>2, <3>3
    <3>5. QED
      BY <3>4
  <2>3. \A k, l \in 1 .. n - 1 : t[k] = t[l] => k = l
    BY <1>2, <1>3 DEF IsFreeList
  <2>4. free_index' = IF n - 1 = 0 THEN N ELSE t[1]
    BY <1>2, <1>3, <1>5 DEF IsFreeList
  <2>5. \A k \in 1 .. n - 1 : next'[t[k]] = IF k = n - 1 THEN N ELSE t[k + 1]
    <3>1. SUFFICES ASSUME NEW k \in 1 .. n - 1
                   PROVE  next'[t[k]] = IF k = n - 1 THEN N ELSE t[k + 1]
      OBVIOUS
    <3>2. k + 1 \in 1 .. n /\ s[k + 1] \in Slot /\ s[k + 1] # s[1]
      BY <1>2, <1>3, <3>1 DEF IsFreeList
    <3>3. next'[s[k + 1]] = next[s[k + 1]]
      BY <1>3, <1>5, <3>2 DEF TypeOK
    <3>4. next[s[k + 1]] = IF k + 1 = n THEN N ELSE s[k + 2]
      BY <1>2, <1>3, <3>2 DEF IsFreeList
    <3>5. QED
      BY <1>3, <3>1, <3>3, <3>4
  <2>6. QED
    BY <2>1, <2>2, <2>3, <2>4, <2>5 DEF IsFreeList
<1>9. n - 1 \in 0 .. N
  BY <1>3, NAssumption
<1>10. QED
  BY <1>7, <1>8, <1>9 DEF FreeListComplete, Slot

\* remove_item puts the freed slot in front of the free list.
LEMMA FreeListRemove ==
  ASSUME TypeOK, FreeListComplete, NEW h \in 0 .. N, RemoveItem(h)
  PROVE  FreeListComplete'
<1>1. PICK n \in 0 .. N : \E s \in [1 .. n -> Slot] : IsFreeList(s, n)
  BY DEF FreeListComplete
<1>2. PICK s \in [1 .. n -> Slot] : IsFreeList(s, n)
  BY <1>1
<1> DEFINE t == [k \in 1 .. n + 1 |-> IF k = 1 THEN h ELSE s[k - 1]]
<1>3. n \in Nat /\ h \in Slot /\ h \notin Free
  BY NAssumption DEF RemoveItem, Free
<1>4. /\ free_index' = h
      /\ items' = [items EXCEPT ![h] = NoItem]
      /\ next' = [next EXCEPT ![h] = free_index]
  BY DEF RemoveItem
<1>5. Free' = Free \cup {h}
  BY <1>3, <1>4 DEF Free, TypeOK
<1>6. t \in [1 .. n + 1 -> Slot]
  BY <1>3
<1>7. \A k \in 2 .. n + 1 : k - 1 \in 1 .. n /\ t[k] = s[k - 1] /\ t[k] \in Free /\ t[k] # h
  BY <1>2, <1>3 DEF IsFreeList
<1>8. \A k, l \in 1 .. n + 1 : t[k] = t[l] => k = l
  BY <1>2, <1>3, <1>7 DEF IsFreeList
<1>9. IsFreeList(t, n + 1)'
  <2>1. \A k \in 1 .. n + 1 : t[k] \in Free'
    <3>1. \A k \in 1 .. n + 1 : k = 1 \/ k \in 2 .. n + 1
      BY <1>3
    <3>2. t[1] = h
      BY <1>3
    <3>3. QED
      BY <1>5, <1>7, <3>1, <3>2
  <2>2. \A i \in Free' : \E k \in 1 .. n + 1 : t[k] = i
    <3>1. SUFFICES ASSUME NEW i \in Free' PROVE \E k \in 1 .. n + 1 : t[k] = i
      OBVIOUS
    <3>2. CASE i = h
      BY <1>3, <3>2
    <3>3. CASE i \in Free
      <4>1. PICK k \in 1 .. n : s[k] = i
        BY <1>2, <3>3 DEF IsFreeList
      <4>2. k + 1 \in 1 .. n + 1 /\ t[k + 1] = i
        BY <1>3, <4>1
      <4>3. QED
        BY <4>2
    <3>4. QED
      BY <1>5, <3>1, <3>2, <3>3
  <2>3. free_index' = IF n + 1 = 0 THEN N ELSE t[1]
    BY <1>3, <1>4
  <2>4. \A k \in 1 .. n + 1 : next'[t[k]] = IF k = n + 1 THEN N ELSE t[k + 1]
    <3>1. SUFFICES ASSUME NEW k \in 1 .. n + 1
                   PROVE  next'[t[k]] = IF k = n + 1 THEN N ELSE t[k + 1]
      OBVIOUS
    <3>2. CASE k = 1
      BY <1>2, <1>3, <1>4, <3>2 DEF IsFreeList, TypeOK
    <3>3. CASE k # 1
      <4>1. k - 1 \in 1 .. n /\ t[k] = s[k - 1] /\ t[k] # h /\ t[k] \in Slot
        <5>1. k \in 2 .. n + 1
          BY <1>3, <3>1, <3>3
        <5>2. QED
          BY <1>7, <5>1 DEF Free
      <4>2. next'[t[k]] = next[s[k - 1]]
        BY <1>3, <1>4, <4>1 DEF TypeOK
      <4>3. next[s[k - 1]] = IF k - 1 = n THEN N ELSE s[k]
        BY <1>2, <1>3, <4>1 DEF IsFreeList
      <4>4. QED
        BY <1>3, <3>1, <3>3, <4>2, <4>3
    <3>4. QED
      BY <3>2, <3>3
  <2>5. QED
    BY <1>8, <2>1, <2>2, <2>3, <2>4 DEF IsFreeList
<1>10. n + 1 \in 0 .. N
  <2>1. n + 1 \in Nat
    BY <1>3
  <2>2. n + 1 <= N
    BY <1>6, <1>8, <2>1, ListLength, Zenon
  <2>3. QED
    BY <2>1, <2>2, NAssumption
<1>11. QED
  BY <1>6, <1>9, <1>10 DEF FreeListComplete, Slot

\* After every sequence of calls the free list holds every unused slot once: no
\* slot leaks and the unreachable!() of add_item is never reached.
THEOREM FreeListAlwaysComplete == Spec => []FreeListComplete
<1>1. Init => FreeListComplete
  BY FreeListInit
<1>2. TypeOK /\ FreeListComplete /\ [Next]_vars => FreeListComplete'
  <2> SUFFICES ASSUME TypeOK, FreeListComplete, [Next]_vars
               PROVE  FreeListComplete'
    OBVIOUS
  <2>1. ASSUME NEW x \in Item, AddItem(x) PROVE FreeListComplete'
    BY <2>1, FreeListAdd
  <2>2. ASSUME NEW h \in 0 .. N, RemoveItem(h) PROVE FreeListComplete'
    BY <2>2, FreeListRemove
  <2>3. ASSUME UNCHANGED <<free_index, next, items>> PROVE FreeListComplete'
    BY <2>3 DEF FreeListComplete, IsFreeList, Free
  <2>4. QED
    BY <2>1, <2>2, <2>3 DEF Next, AddItemFull, RemoveNothing, vars
<1>3. QED
  BY <1>1, <1>2, TypeCorrect, PTL DEF Spec

\* IndexSet implements HandleMap: handles are unique among the items held, and
\* add_item fails only when all N are in use.
THEOREM IndexSetImplementsHandleMap == Spec => ImplementsHandleMap
<1>1. Init => Handles!Init
  BY DEF Init, Handles!Init, Handles!Handle, Slot
<1>2. TypeOK /\ FreeListComplete /\ [Next]_vars
        => [Handles!Next]_<<items, result>>
  <2> SUFFICES ASSUME TypeOK, FreeListComplete, [Next]_vars
               PROVE  [Handles!Next]_<<items, result>>
    OBVIOUS
  <2>0. CASE UNCHANGED <<items, next, free_index, result>>
    BY <2>0
  <2>1. ASSUME NEW x \in Item, AddItem(x) PROVE Handles!Next
    <3>1. free_index \in Slot => items[free_index] = NoItem
      BY NAssumption DEF FreeListComplete, IsFreeList, Free, Slot
    <3>2. Handles!Add(x)
      BY <2>1, <3>1 DEF AddItem, Handles!Add, Handles!Handle, Slot
    <3>3. QED
      BY <3>2 DEF Handles!Next
  <2>2. ASSUME NEW x \in Item, AddItemFull(x) PROVE Handles!Next
    <3>1. Free = {}
      BY <2>2, NAssumption DEF AddItemFull, FreeListComplete, IsFreeList, Free, Slot
    <3>2. Handles!AddToFull(x)
      BY <2>2, <3>1 DEF AddItemFull, Free, Handles!AddToFull, Handles!Handle, Slot
    <3>3. QED
      BY <3>2 DEF Handles!Next
  <2>3. ASSUME NEW h \in 0 .. N, RemoveItem(h) PROVE Handles!Next
    <3>1. h \in Handles!Handle /\ Handles!Remove(h)
      BY <2>3 DEF RemoveItem, Handles!Remove, Handles!Handle, Slot
    <3>2. QED
      BY <3>1 DEF Handles!Next
  <2>4. ASSUME NEW h \in 0 .. N, RemoveNothing(h) PROVE Handles!Next
    BY <2>4 DEF RemoveNothing, Handles!Next, Handles!RemoveUnused
  <2> QED
    BY <2>0, <2>1, <2>2, <2>3, <2>4 DEF Next, vars
<1>3. QED
  BY <1>1, <1>2, TypeCorrect, FreeListAlwaysComplete, PTL
  DEF Spec, ImplementsHandleMap, Handles!Spec
=============================================================================
