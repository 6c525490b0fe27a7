------------------------- MODULE SequentialLruProof -------------------------
(***************************************************************************)
(* Proofs about SequentialLru: the list stays well formed in every step of *)
(* reference and clean, for any set of keys and of addresses.              *)
(***************************************************************************)
EXTENDS SequentialLru, FiniteSetTheorems, TLAPS

\* What the search loop knows: it has passed only keys below the one it
\* looks for.
SearchOrder == pc = "search" /\ last # NULL => heap[last].key < key

\* Between calls the locals are dead.
IdleLocals == pc = "idle" => cursor = NULL /\ last = NULL

\* The part of the inductive invariant that speaks about the list.
ListInv == TypeOK /\ ListShape /\ CursorSafe /\ SearchOrder /\ NoZombie

\* A node that the walk stands on is the least of those above last, so all
\* other live nodes lie at or below last or strictly above cursor.
LEMMA CursorSplits ==
  ASSUME ListInv, pc # "idle", cursor # NULL
  PROVE  /\ cursor \in live
         /\ last # NULL => last \in live /\ heap[last].key < heap[cursor].key
         /\ \A m \in live \ {cursor} :
              IF last = NULL THEN heap[m].key > heap[cursor].key
              ELSE heap[m].key <= heap[last].key \/ heap[m].key > heap[cursor].key
<1>1. cursor \in live /\ (last # NULL => last \in live)
  BY DEF ListInv, CursorSafe
<1>2. \A n \in live : heap[n].key \in Int
  BY KeysAreInts DEF ListInv, TypeOK, ListNode
<1>3. CASE last = NULL
  <2>1. cursor = list_head
    BY <1>3 DEF ListInv, CursorSafe
  <2>2. \A m \in live : heap[cursor].key <= heap[m].key
    BY <1>1, <2>1 DEF ListInv, ListShape, Leads
  <2> QED  BY <1>1, <1>2, <1>3, <2>2 DEF ListInv, ListShape
<1>4. CASE last # NULL
  <2>1. cursor = heap[last].next
    BY <1>4 DEF ListInv, CursorSafe
  <2>2. Leads(cursor, LiveAbove(heap[last].key))
    BY <1>1, <1>4, <2>1 DEF ListInv, ListShape
  <2>3. cursor \in LiveAbove(heap[last].key)
    BY <2>2, NullIsNoNode DEF Leads
  <2>4. \A m \in live : heap[m].key > heap[last].key => heap[cursor].key <= heap[m].key
    BY <2>2, <2>3 DEF Leads, LiveAbove
  <2> QED  BY <1>1, <1>2, <1>4, <2>3, <2>4 DEF LiveAbove, ListInv, ListShape
<1> QED  BY <1>3, <1>4

\* A search that misses has its key strictly between last and cursor, and no
\* node of the list has that key.
LEMMA MissSplits ==
  ASSUME ListInv, SearchMissed
  PROVE  /\ cursor # NULL => cursor \in live
         /\ last # NULL => last \in live /\ heap[last].key < key
         /\ \A m \in live :
              IF last = NULL THEN heap[m].key > key
              ELSE heap[m].key <= heap[last].key \/ heap[m].key > key
         /\ Leads(cursor, LiveAbove(key))
<1>1. /\ cursor # NULL => cursor \in live
      /\ last # NULL => last \in live /\ heap[last].key < key
  BY DEF ListInv, CursorSafe, SearchOrder, SearchMissed
<1>2. key \in Int /\ \A n \in live : heap[n].key \in Int
  BY KeysAreInts DEF ListInv, TypeOK, ListNode
<1>a. NULL \notin live
  BY NullIsNoNode DEF ListInv, TypeOK
<1>3. \A m \in live :
        IF last = NULL THEN heap[m].key > key
        ELSE heap[m].key <= heap[last].key \/ heap[m].key > key
  <2>1. CASE cursor # NULL
    BY <1>1, <1>2, <2>1, CursorSplits DEF SearchMissed
  <2>2. CASE cursor = NULL /\ last = NULL
    BY <1>a, <2>2 DEF ListInv, ListShape, CursorSafe, SearchMissed, Leads
  <2>3. CASE cursor = NULL /\ last # NULL
    <3>1. Leads(NULL, LiveAbove(heap[last].key))
      BY <1>1, <2>3 DEF ListInv, ListShape, CursorSafe, SearchMissed
    <3>2. LiveAbove(heap[last].key) = {}
      BY <1>a, <3>1 DEF Leads, LiveAbove
    <3> QED  BY <1>1, <1>2, <2>3, <3>2 DEF LiveAbove
  <2> QED  BY <2>1, <2>2, <2>3
<1>4. Leads(cursor, LiveAbove(key))
  <2>1. CASE last = NULL
    <3>1. LiveAbove(key) = live
      BY <1>3, <2>1 DEF LiveAbove
    <3> QED  BY <2>1, <3>1 DEF ListInv, ListShape, CursorSafe, SearchMissed
  <2>2. CASE last # NULL
    <3>1. LiveAbove(key) = LiveAbove(heap[last].key)
      <4>1. \A m \in live : heap[m].key > key <=> heap[m].key > heap[last].key
        BY <1>1, <1>2, <1>3, <2>2
      <4> QED  BY <4>1 DEF LiveAbove
    <3> QED  BY <1>1, <2>2, <3>1 DEF ListInv, ListShape, CursorSafe, SearchMissed
  <2> QED  BY <2>1, <2>2
<1> QED  BY <1>1, <1>3, <1>4

-----------------------------------------------------------------------------
(***************************************************************************)
(* The inductive invariant, action by action                               *)
(***************************************************************************)

LEMMA InitListInv == Init => ListInv
<1> SUFFICES ASSUME Init PROVE ListInv
  OBVIOUS
<1>1. Blank \in ListNode
  BY KeysAreInts DEF Blank, ListNode, Pointers
<1>2. TypeOK
  BY <1>1 DEF Init, TypeOK, Pointers
<1> QED
  BY <1>2 DEF Init, ListInv, ListShape, CursorSafe, SearchOrder, NoZombie, Leads

LEMMA CallListInv ==
  ASSUME ListInv, CallClean \/ \E k \in Keys : CallReference(k)
  PROVE  ListInv'
<1>1. TypeOK'
  BY DEF ListInv, TypeOK, CallClean, CallReference, Pointers
<1>2. ListShape' /\ NoZombie'
  BY DEF ListInv, ListShape, NoZombie, Leads, LiveAbove, CallClean, CallReference
<1>3. CursorSafe' /\ SearchOrder'
  BY NullIsNoNode DEF ListInv, ListShape, CursorSafe, SearchOrder, Leads,
     CallClean, CallReference
<1> QED  BY <1>1, <1>2, <1>3 DEF ListInv

\* The steps that only move the locals, or end a call.
LEMMA WalkListInv ==
  ASSUME ListInv, SearchAdvance \/ NoMemory \/ CleanReturn \/ UNCHANGED vars
  PROVE  ListInv'
<1>1. UNCHANGED <<list_head, heap, live, count, key>>
  BY DEF SearchAdvance, NoMemory, CleanReturn, vars
<1>2. ListShape' /\ NoZombie'
  BY <1>1 DEF ListInv, ListShape, NoZombie, Leads, LiveAbove
<1>3. CASE NoMemory \/ CleanReturn \/ UNCHANGED vars
  BY <1>1, <1>2, <1>3 DEF ListInv, TypeOK, CursorSafe, SearchOrder, NoMemory,
     CleanReturn, Return, vars, Pointers
<1>4. CASE SearchAdvance
  <2>1. cursor \in live
    BY <1>4 DEF ListInv, CursorSafe, SearchAdvance
  <2>2. TypeOK'
    BY <1>1, <1>4, <2>1 DEF ListInv, TypeOK, SearchAdvance, ListNode, Pointers
  <2>3. heap[cursor].next = NULL \/ heap[cursor].next \in live
    BY <2>1 DEF ListInv, ListShape, Leads, LiveAbove
  <2>4. CursorSafe' /\ SearchOrder'
    BY <1>1, <1>4, <2>1, <2>3 DEF CursorSafe, SearchOrder, SearchAdvance
  <2> QED  BY <1>2, <2>2, <2>4 DEF ListInv
<1> QED  BY <1>3, <1>4

\* The steps that change a reference count and nothing else in the list.
LEMMA CountListInv ==
  ASSUME ListInv, SearchHit \/ CleanKeep
  PROVE  ListInv'
<1>1. cursor \in live /\ cursor \in Nodes /\ heap[cursor] \in ListNode
  BY DEF ListInv, CursorSafe, SearchHit, CleanKeep, TypeOK
<1>2. /\ UNCHANGED <<list_head, live, key>>
      /\ DOMAIN heap' = DOMAIN heap
      /\ \A n \in Nodes : heap'[n].next = heap[n].next /\ heap'[n].key = heap[n].key
      /\ \A n \in Nodes \ {cursor} : heap'[n] = heap[n]
  BY DEF SearchHit, CleanKeep, ListInv, TypeOK, ListNode
<1>3. heap' \in [Nodes -> ListNode] /\ heap'[cursor].refcount >= 1
  BY <1>1 DEF SearchHit, CleanKeep, ListInv, TypeOK, ListNode, NoZombie
<1>4. live \subseteq Nodes
  BY DEF ListInv, TypeOK
<1>5. \A k : LiveAbove(k)' = LiveAbove(k)
  BY <1>2, <1>4 DEF LiveAbove
<1>6. ListShape'
  <2>1. Leads(list_head, live)'
    BY <1>2, <1>4 DEF Leads, ListInv, ListShape
  <2>2. ASSUME NEW n \in live
        PROVE  Leads(heap[n].next, LiveAbove(heap[n].key))'
    BY <1>2, <1>4 DEF Leads, LiveAbove, ListInv, ListShape
  <2> QED  BY <1>2, <1>4, <2>1, <2>2 DEF ListInv, ListShape
<1>7. NoZombie'
  BY <1>1, <1>2, <1>3, <1>4 DEF ListInv, NoZombie
<1>8. heap[cursor].next = NULL \/ heap[cursor].next \in live
  BY <1>1 DEF ListInv, ListShape, Leads, LiveAbove
<1>9. CursorSafe' /\ SearchOrder'
  BY <1>1, <1>2, <1>8 DEF ListInv, CursorSafe, SearchOrder, SearchHit, CleanKeep, Return
<1>10. TypeOK'
  BY <1>1, <1>2, <1>3 DEF ListInv, TypeOK, SearchHit, CleanKeep, Return, Pointers, ListNode
<1> QED  BY <1>6, <1>7, <1>9, <1>10 DEF ListInv

\* reference adds a node between last and cursor.
LEMMA InsertListInv ==
  ASSUME ListInv, Insert
  PROVE  ListInv'
<1>1. PICK n \in Nodes \ live : live' = live \cup {n} /\ LinkNew(n, 1)
  BY DEF Insert
<1>2. SearchMissed /\ key' = key /\ pc' = "idle" /\ cursor' = NULL /\ last' = NULL
  BY DEF Insert, Return
<1>3. /\ cursor # NULL => cursor \in live
      /\ last # NULL => last \in live /\ heap[last].key < key
      /\ \A m \in live :
           IF last = NULL THEN heap[m].key > key
           ELSE heap[m].key <= heap[last].key \/ heap[m].key > key
      /\ Leads(cursor, LiveAbove(key))
  BY <1>2, MissSplits
<1>4. /\ live \subseteq Nodes /\ heap \in [Nodes -> ListNode]
      /\ key \in Int /\ key \in Keys /\ \A m \in live : heap[m].key \in Int
  BY KeysAreInts DEF ListInv, TypeOK, ListNode
<1>a. /\ ListShape /\ NoZombie
      /\ last = NULL => cursor = list_head
      /\ last # NULL => cursor = heap[last].next
  BY <1>2 DEF ListInv, CursorSafe, SearchMissed
<1>5. /\ heap'[n] = [next |-> cursor, key |-> key, refcount |-> 1]
      /\ \A m \in live : /\ heap'[m].key = heap[m].key
                          /\ heap'[m].refcount = heap[m].refcount
                          /\ heap'[m].next = IF m = last THEN n ELSE heap[m].next
      /\ list_head' = IF last = NULL THEN n ELSE list_head
  <2>1. n \notin live /\ n \in Nodes /\ last # n
    BY <1>1, <1>3, NullIsNoNode
  <2>2. CASE last = NULL
    BY <1>1, <1>4, <2>1, <2>2, NullIsNoNode DEF LinkNew, ListNode
  <2>3. CASE last # NULL
    BY <1>1, <1>3, <1>4, <2>1, <2>3 DEF LinkNew, ListNode
  <2> QED  BY <2>2, <2>3
<1>6. TypeOK'
  <2>1. cursor \in Pointers /\ n \in Nodes
    BY <1>1 DEF ListInv, TypeOK
  <2>2. heap' \in [Nodes -> ListNode]
    BY <1>1, <1>3, <1>4, <2>1 DEF LinkNew, ListNode, Pointers
  <2>3. list_head' \in Pointers /\ live' \in SUBSET Nodes /\ count' \in Nat
    BY <1>1, <1>5, <2>1 DEF ListInv, TypeOK, Pointers, Insert
  <2> QED  BY <1>2, <2>2, <2>3 DEF ListInv, TypeOK, Pointers
<1>7. \A k \in Int : LiveAbove(k)' = IF key > k THEN LiveAbove(k) \cup {n} ELSE LiveAbove(k)
  BY <1>1, <1>4, <1>5 DEF LiveAbove
<1>8. \A m, o \in live' : heap'[m].key = heap'[o].key => m = o
  BY <1>1, <1>3, <1>4, <1>5, <1>a DEF ListShape
<1>9. Leads(list_head, live)'
  <2>1. CASE last = NULL
    BY <1>1, <1>3, <1>4, <1>5, <2>1 DEF Leads
  <2>2. CASE last # NULL
    <3>1. list_head \in live /\ \A m \in live : heap[list_head].key <= heap[m].key
      BY <1>3, <1>a, <2>2 DEF ListShape, Leads
    <3> QED  BY <1>1, <1>3, <1>4, <1>5, <2>2, <3>1 DEF Leads
  <2> QED  BY <2>1, <2>2
<1>10. ASSUME NEW m \in live'
       PROVE  Leads(heap[m].next, LiveAbove(heap[m].key))'
  <2>1. CASE m = n
    <3>1. LiveAbove(heap[m].key)' = LiveAbove(key)
      BY <1>4, <1>5, <1>7, <2>1
    <3> QED  BY <1>3, <1>5, <2>1, <3>1 DEF Leads, LiveAbove
  <2>2. CASE m \in live /\ m = last
    <3>1. LiveAbove(heap[m].key)' = LiveAbove(heap[m].key) \cup {n}
      BY <1>3, <1>4, <1>5, <1>7, <2>2, NullIsNoNode
    <3>2. \A o \in LiveAbove(heap[m].key) : heap[o].key > key
      BY <1>3, <1>4, <2>2 DEF LiveAbove
    <3>3. heap'[m].next = n
      BY <1>5, <2>2
    <3> QED  BY <1>4, <1>5, <3>1, <3>2, <3>3 DEF Leads, LiveAbove
  <2>3. CASE m \in live /\ m # last
    <3>1. heap'[m].next = heap[m].next /\ heap'[m].key = heap[m].key
          /\ Leads(heap[m].next, LiveAbove(heap[m].key))
      BY <1>5, <1>a, <2>3 DEF ListShape
    <3>2. CASE heap[m].key > key
      BY <1>4, <1>5, <1>7, <2>3, <3>1, <3>2 DEF Leads, LiveAbove
    <3>3. CASE ~(heap[m].key > key)
      <4>1. last # NULL /\ heap[m].key < heap[last].key /\ last \in live
        BY <1>3, <1>4, <1>a, <2>3, <3>3, NullIsNoNode DEF ListShape
      <4>2. last \in LiveAbove(heap[m].key)
        BY <4>1 DEF LiveAbove
      <4>3. heap[m].next \in LiveAbove(heap[m].key)
            /\ \A o \in LiveAbove(heap[m].key) : heap[heap[m].next].key <= heap[o].key
        BY <3>1, <4>2 DEF Leads
      <4>4. heap[m].next \in live /\ heap[heap[m].next].key < key
        BY <1>3, <1>4, <4>1, <4>2, <4>3 DEF LiveAbove
      <4>5. LiveAbove(heap[m].key)' = LiveAbove(heap[m].key) \cup {n}
        BY <1>3, <1>4, <1>5, <1>7, <2>3, <4>1
      <4> QED  BY <1>4, <1>5, <3>1, <4>3, <4>4, <4>5 DEF Leads, LiveAbove
    <3> QED  BY <3>2, <3>3
  <2> QED  BY <1>1, <2>1, <2>2, <2>3
<1>11. ListShape'
  BY <1>8, <1>9, <1>10 DEF ListShape
<1>12. NoZombie'
  BY <1>1, <1>5, <1>a DEF NoZombie
<1> QED
  BY <1>2, <1>6, <1>11, <1>12 DEF ListInv, CursorSafe, SearchOrder

\* clean takes the node at cursor out of the list and frees it.
LEMMA DropListInv ==
  ASSUME ListInv, CleanDrop, count' \in Nat
  PROVE  ListInv'
<1>1. /\ cursor \in live
      /\ last # NULL => last \in live /\ heap[last].key < heap[cursor].key
      /\ \A m \in live \ {cursor} :
           IF last = NULL THEN heap[m].key > heap[cursor].key
           ELSE heap[m].key <= heap[last].key \/ heap[m].key > heap[cursor].key
  BY CursorSplits DEF CleanDrop
<1>2. /\ live \subseteq Nodes /\ heap \in [Nodes -> ListNode]
      /\ \A m \in live : heap[m].key \in Int
      /\ ListShape /\ NoZombie
      /\ last = NULL => cursor = list_head
      /\ last # NULL => cursor = heap[last].next
  BY KeysAreInts DEF ListInv, TypeOK, ListNode, CursorSafe, CleanDrop
<1>3. /\ live' = live \ {cursor} /\ cursor' = heap[cursor].next
      /\ last' = last /\ pc' = "clean" /\ key' = key
      /\ last # cursor
  BY <1>1, <1>2 DEF CleanDrop
<1>4. /\ \A m \in live' : /\ heap'[m].key = heap[m].key
                          /\ heap'[m].refcount = heap[m].refcount
                          /\ heap'[m].next = IF m = last THEN heap[cursor].next
                                             ELSE heap[m].next
      /\ list_head' = IF last = NULL THEN heap[cursor].next ELSE list_head
  <2>1. CASE last = NULL
    BY <1>1, <1>2, <1>3, <2>1, NullIsNoNode DEF CleanDrop, Unlink, ListNode
  <2>2. CASE last # NULL
    BY <1>1, <1>2, <1>3, <2>2 DEF CleanDrop, Unlink, ListNode
  <2> QED  BY <2>1, <2>2
<1>5. heap[cursor].next = NULL \/ heap[cursor].next \in live'
  BY <1>1, <1>2, <1>3 DEF ListShape, Leads, LiveAbove
<1>6. TypeOK'
  <2>1. Blank \in ListNode
    BY KeysAreInts DEF Blank, ListNode, Pointers
  <2>2. heap[cursor].next \in Pointers
    BY <1>1, <1>2 DEF ListNode
  <2>3. heap' \in [Nodes -> ListNode]
    BY <1>1, <1>2, <2>1, <2>2 DEF CleanDrop, Unlink, ListNode
  <2> QED  BY <1>2, <1>3, <1>4, <2>2, <2>3 DEF ListInv, TypeOK
<1>7. \A k \in Int : LiveAbove(k)' = LiveAbove(k) \ {cursor}
  BY <1>3, <1>4 DEF LiveAbove
<1>8. LiveAbove(heap[cursor].key) \subseteq live'
      /\ Leads(heap[cursor].next, LiveAbove(heap[cursor].key))
  <2>1. LiveAbove(heap[cursor].key) \subseteq live'
    BY <1>1, <1>2, <1>3 DEF LiveAbove
  <2>2. Leads(heap[cursor].next, LiveAbove(heap[cursor].key))
    BY <1>1, <1>2 DEF ListShape
  <2> QED  BY <2>1, <2>2
<1>9. Leads(list_head, live)'
  <2>1. CASE last = NULL
    <3>1. live' = LiveAbove(heap[cursor].key)
      BY <1>1, <1>2, <1>3, <2>1 DEF LiveAbove
    <3> QED  BY <1>4, <1>8, <2>1, <3>1 DEF Leads
  <2>2. CASE last # NULL
    <3>1. list_head \in live /\ \A m \in live : heap[list_head].key <= heap[m].key
      BY <1>1, <1>2, <2>2 DEF ListShape, Leads
    <3>2. list_head # cursor
      BY <1>1, <1>2, <2>2, <3>1
    <3> QED  BY <1>1, <1>3, <1>4, <2>2, <3>1, <3>2 DEF Leads
  <2> QED  BY <2>1, <2>2
<1>10. ASSUME NEW m \in live'
       PROVE  Leads(heap[m].next, LiveAbove(heap[m].key))'
  <2>1. /\ heap'[m].key = heap[m].key /\ m \in live /\ heap[m].key \in Int
        /\ LiveAbove(heap[m].key)' = LiveAbove(heap[m].key) \ {cursor}
    BY <1>2, <1>3, <1>4, <1>7
  <2>2. CASE m = last
    <3>1. LiveAbove(heap[m].key) \ {cursor} = LiveAbove(heap[cursor].key)
      BY <1>1, <1>2, <2>1, <2>2, NullIsNoNode DEF LiveAbove
    <3>2. heap'[m].next = heap[cursor].next
      BY <1>4, <2>2
    <3> QED  BY <1>4, <1>8, <2>1, <3>1, <3>2 DEF Leads
  <2>3. CASE m # last
    <3>1. heap'[m].next = heap[m].next /\ Leads(heap[m].next, LiveAbove(heap[m].key))
      BY <1>2, <1>4, <2>1, <2>3 DEF ListShape
    <3>2. CASE heap[m].key > heap[cursor].key
      <4>1. LiveAbove(heap[m].key)' = LiveAbove(heap[m].key)
        BY <1>1, <1>2, <2>1, <3>2 DEF LiveAbove
      <4>2. LiveAbove(heap[m].key) \subseteq live'
        BY <1>3, <2>1, <4>1 DEF LiveAbove
      <4> QED  BY <1>4, <2>1, <3>1, <4>1, <4>2 DEF Leads
    <3>3. CASE ~(heap[m].key > heap[cursor].key)
      <4>1. last # NULL /\ heap[m].key < heap[last].key
        BY <1>1, <1>2, <1>3, <2>1, <2>3, <3>3 DEF ListShape
      <4>2. last \in LiveAbove(heap[m].key) /\ heap[last].key < heap[cursor].key
        BY <1>1, <4>1 DEF LiveAbove
      <4>3. heap[m].next \in LiveAbove(heap[m].key)
            /\ \A o \in LiveAbove(heap[m].key) : heap[heap[m].next].key <= heap[o].key
        BY <3>1, <4>2 DEF Leads
      <4>4. heap[m].next # cursor
        BY <1>1, <1>2, <4>2, <4>3 DEF LiveAbove
      <4>5. heap[m].next \in live' /\ LiveAbove(heap[m].key) \ {cursor} \subseteq live'
        BY <1>3, <4>3, <4>4 DEF LiveAbove
      <4> QED  BY <1>4, <2>1, <3>1, <4>3, <4>4, <4>5 DEF Leads
    <3> QED  BY <3>2, <3>3
  <2> QED  BY <2>2, <2>3
<1>11. ListShape'
  BY <1>2, <1>3, <1>4, <1>9, <1>10 DEF ListShape
<1>12. NoZombie'
  BY <1>2, <1>3, <1>4 DEF NoZombie
<1>13. CursorSafe' /\ SearchOrder'
  BY <1>1, <1>3, <1>4, <1>5 DEF CursorSafe, SearchOrder
<1> QED  BY <1>6, <1>11, <1>12, <1>13 DEF ListInv

-----------------------------------------------------------------------------
(***************************************************************************)
(* The theorems                                                            *)
(***************************************************************************)

Inv == ListInv /\ CountAccurate

LEMMA LiveIsFinite ==
  ASSUME ListInv
  PROVE  IsFiniteSet(live) /\ Cardinality(live) \in Nat
BY NodesAreFinite, FS_Subset, FS_CardinalityType DEF ListInv, TypeOK

LEMMA InitInv == Init => Inv
BY InitListInv, FS_EmptySet DEF Init, Inv, CountAccurate

LEMMA StepInv ==
  ASSUME Inv, [Next]_vars
  PROVE  Inv'
<1>1. IsFiniteSet(live) /\ Cardinality(live) \in Nat
  BY LiveIsFinite DEF Inv
<1>2. CASE CallClean \/ \E k \in Keys : CallReference(k)
  BY <1>2, CallListInv DEF Inv, CountAccurate, CallClean, CallReference
<1>3. CASE SearchAdvance \/ NoMemory \/ CleanReturn \/ UNCHANGED vars
  BY <1>3, WalkListInv DEF Inv, CountAccurate, SearchAdvance, NoMemory, CleanReturn, vars
<1>4. CASE SearchHit \/ CleanKeep
  BY <1>4, CountListInv DEF Inv, CountAccurate, SearchHit, CleanKeep
<1>5. CASE Insert
  <2>1. PICK n \in Nodes \ live : live' = live \cup {n}
    BY <1>5 DEF Insert
  <2>2. Cardinality(live') = Cardinality(live) + 1
    BY <1>1, <2>1, FS_AddElement
  <2> QED  BY <1>5, <2>2, InsertListInv DEF Inv, CountAccurate, Insert
<1>6. CASE CleanDrop
  <2>1. cursor \in live /\ live' = live \ {cursor}
    BY <1>6 DEF Inv, ListInv, CursorSafe, CleanDrop
  <2>2. Cardinality(live') = Cardinality(live) - 1 /\ IsFiniteSet(live')
    BY <1>1, <2>1, FS_RemoveElement
  <2>3. count' = Cardinality(live') /\ count' \in Nat
    BY <1>6, <2>2, FS_CardinalityType DEF Inv, CountAccurate, CleanDrop
  <2> QED  BY <1>6, <2>3, DropListInv DEF Inv, CountAccurate
<1> QED
  BY <1>2, <1>3, <1>4, <1>5, <1>6 DEF Next, Step

LEMMA SpecInv == Spec => []Inv
BY InitInv, StepInv, PTL DEF Spec

\* No step of reference or clean leaves the pointers, the counts and the
\* locals outside their types; count never goes below zero.
THEOREM TypeSafety == Spec => []TypeOK
<1>1. Inv => TypeOK
  BY DEF Inv, ListInv
<1> QED  BY <1>1, SpecInv, PTL

\* The list is sorted, has no cycle, loses no node and never leads to freed
\* memory, in every state of every call (sequential-lru.c).
THEOREM ListIsWellFormed == Spec => []ListShape
<1>1. Inv => ListShape
  BY DEF Inv, ListInv
<1> QED  BY <1>1, SpecInv, PTL

\* cursor and last never dangle and always are neighbours in the list.
THEOREM CursorIsSafe == Spec => []CursorSafe
<1>1. Inv => CursorSafe
  BY DEF Inv, ListInv
<1> QED  BY <1>1, SpecInv, PTL

\* The global count is the number of nodes, also in the middle of a pass.
THEOREM CountIsAccurate == Spec => []CountAccurate
<1>1. Inv => CountAccurate
  BY DEF Inv
<1> QED  BY <1>1, SpecInv, PTL

\* Every node has a reference count of at least one, so every node is one
\* that enough cleaning passes will free.
THEOREM NoNodeIsLost == Spec => []NoZombie
<1>1. Inv => NoZombie
  BY DEF Inv, ListInv
<1> QED  BY <1>1, SpecInv, PTL

-----------------------------------------------------------------------------
(***************************************************************************)
(* The list implements the cache                                           *)
(***************************************************************************)

Due(n) == IF DueToAge(n) THEN 1 ELSE 0

\* CacheRefs without its CHOOSE: keys are unique in the list.
RefsOfList ==
  /\ \A n \in live : CacheRefs[heap[n].key] = heap[n].refcount - Due(n)
  /\ \A k \in Keys : (\A n \in live : heap[n].key # k) => CacheRefs[k] = 0
  /\ \A n \in live : heap[n].key \in Keys /\ heap[n].refcount \in Int
  /\ CacheRefs = [k \in Keys |-> CacheRefs[k]]

LEMMA RefsOfListHolds == ListInv => RefsOfList
<1> SUFFICES ASSUME ListInv PROVE RefsOfList
  OBVIOUS
<1>1. \A n \in live : heap[n].key \in Keys /\ heap[n].refcount \in Int
  BY DEF ListInv, TypeOK, ListNode
<1>2. ASSUME NEW n \in live
      PROVE  CacheRefs[heap[n].key] = heap[n].refcount - Due(n)
  <2>1. (CHOOSE m \in live : heap[m].key = heap[n].key) = n
    BY DEF ListInv, ListShape
  <2> QED  BY <1>1, <2>1 DEF CacheRefs, Due
<1>3. \A k \in Keys : (\A n \in live : heap[n].key # k) => CacheRefs[k] = 0
  BY DEF CacheRefs
<1>4. CacheRefs = [k \in Keys |-> CacheRefs[k]]
  BY DEF CacheRefs
<1> QED  BY <1>1, <1>2, <1>3, <1>4 DEF RefsOfList

\* Two lists with the same nodes, keys, counts and dues show the same cache.
LEMMA SameRefs ==
  ASSUME RefsOfList, RefsOfList', live' = live,
         \A n \in live : /\ heap'[n].key = heap[n].key
                         /\ heap'[n].refcount - Due(n)' = heap[n].refcount - Due(n)
  PROVE  CacheRefs' = CacheRefs
<1>1. ASSUME NEW k \in Keys
      PROVE  CacheRefs[k]' = CacheRefs[k]
  <2>1. CASE \E n \in live : heap[n].key = k
    BY <2>1 DEF RefsOfList
  <2>2. CASE \A n \in live : heap[n].key # k
    BY <2>2 DEF RefsOfList
  <2> QED  BY <2>1, <2>2
<1> QED  BY <1>1 DEF RefsOfList

\* reference: a hit, or the insertion of a node, is the abstract Reference.
LEMMA ReferenceStep ==
  ASSUME ListInv, RefsOfList, RefsOfList', SearchHit \/ Insert
  PROVE  Cache!Reference(key) /\ key \in Keys
<1>1. key \in Keys
  BY DEF ListInv, TypeOK
<1>2. ASSUME NEW n \in live PROVE Due(n) = 0
  BY DEF SearchHit, Insert, SearchMissed, Due, DueToAge
<1>3. ASSUME NEW n PROVE Due(n)' = 0
  BY DEF SearchHit, Insert, Return, Due, DueToAge
<1>4. CASE SearchHit
  <2>1. live' = live /\ cursor \in live /\ heap[cursor].key = key /\ live \subseteq Nodes
    BY <1>4 DEF SearchHit, ListInv, CursorSafe, TypeOK
  <2>2. \A n \in live : /\ heap'[n].key = heap[n].key
                        /\ n # cursor => heap'[n].refcount = heap[n].refcount
        /\ heap'[cursor].refcount = heap[cursor].refcount + 1
    BY <1>4, <2>1 DEF SearchHit, ListInv, TypeOK, ListNode
  <2>3. ASSUME NEW k \in Keys
        PROVE  CacheRefs[k]' = IF k = key THEN CacheRefs[k] + 1 ELSE CacheRefs[k]
    <3>1. CASE \E n \in live : heap[n].key = k
      <4>1. PICK n \in live : heap[n].key = k
        BY <3>1
      <4>2. CacheRefs[k] = heap[n].refcount /\ CacheRefs[k]' = heap'[n].refcount
        BY <1>2, <1>3, <2>1, <2>2, <4>1 DEF RefsOfList
      <4> QED  BY <2>1, <2>2, <4>1, <4>2 DEF ListInv, ListShape
    <3>2. CASE \A n \in live : heap[n].key # k
      BY <2>1, <2>2, <3>2 DEF RefsOfList
    <3> QED  BY <3>1, <3>2
  <2> QED  BY <1>1, <2>3 DEF RefsOfList, Cache!Reference
<1>5. CASE Insert
  <2>1. PICK n \in Nodes \ live : live' = live \cup {n} /\ LinkNew(n, 1)
    BY <1>5 DEF Insert
  <2>2. /\ last # NULL => last \in live
        /\ \A m \in live : heap[m].key # key
    <3>1. SearchMissed
      BY <1>5 DEF Insert
    <3>2. key \in Int /\ \A m \in live : heap[m].key \in Int
      BY KeysAreInts DEF RefsOfList, ListInv, TypeOK
    <3>3. last # NULL => last \in live /\ heap[last].key < key
      BY <3>1, MissSplits
    <3>4. \A m \in live : IF last = NULL THEN heap[m].key > key
                          ELSE heap[m].key <= heap[last].key \/ heap[m].key > key
      BY <3>1, MissSplits
    <3> QED  BY <3>2, <3>3, <3>4
  <2>3. /\ heap'[n].key = key /\ heap'[n].refcount = 1
        /\ \A m \in live : heap'[m].key = heap[m].key /\ heap'[m].refcount = heap[m].refcount
    <3>1. heap \in [Nodes -> ListNode] /\ live \subseteq Nodes
      BY DEF ListInv, TypeOK
    <3> QED  BY <2>1, <2>2, <3>1, NullIsNoNode DEF LinkNew, ListNode
  <2>4. ASSUME NEW k \in Keys
        PROVE  CacheRefs[k]' = IF k = key THEN CacheRefs[k] + 1 ELSE CacheRefs[k]
    <3>1. CASE \E m \in live : heap[m].key = k
      <4>1. PICK m \in live : heap[m].key = k
        BY <3>1
      <4>2. CacheRefs[k] = heap[m].refcount /\ CacheRefs[k]' = heap'[m].refcount
        BY <1>2, <1>3, <2>1, <2>3, <4>1 DEF RefsOfList
      <4> QED  BY <2>2, <2>3, <4>1, <4>2
    <3>2. CASE k = key
      <4>1. CacheRefs[k] = 0
        BY <2>2, <3>2 DEF RefsOfList
      <4>2. CacheRefs[k]' = 1
        BY <1>3, <2>1, <2>3, <3>2 DEF RefsOfList
      <4> QED  BY <3>2, <4>1, <4>2
    <3>3. CASE k # key /\ \A m \in live : heap[m].key # k
      BY <2>1, <2>3, <3>3 DEF RefsOfList
    <3> QED  BY <3>1, <3>2, <3>3
  <2> QED  BY <1>1, <2>4 DEF RefsOfList, Cache!Reference
<1> QED  BY <1>1, <1>4, <1>5

\* A call of clean is the abstract Clean: from then on every node is due.
LEMMA CleanStep ==
  ASSUME ListInv, RefsOfList, RefsOfList', CallClean
  PROVE  Cache!Clean
<1>1. /\ live' = live /\ heap' = heap
      /\ \A n \in live : Due(n) = 0 /\ Due(n)' = 1
  <2>1. ASSUME NEW n \in live
        PROVE  list_head \in live /\ heap[list_head].key <= heap[n].key
    BY DEF ListInv, ListShape, Leads
  <2>2. ASSUME NEW n \in live PROVE Due(n) = 0
    BY DEF CallClean, Due, DueToAge
  <2>3. list_head \in live => list_head # NULL
    BY NullIsNoNode DEF ListInv, TypeOK
  <2>4. ASSUME NEW n \in live PROVE Due(n)' = 1
    BY <2>1, <2>3, KeysAreInts DEF CallClean, Due, DueToAge, RefsOfList
  <2> QED  BY <2>2, <2>4 DEF CallClean
<1>2. ASSUME NEW k \in Keys
      PROVE  CacheRefs[k]' = IF CacheRefs[k] = 0 THEN 0 ELSE CacheRefs[k] - 1
  <2>1. CASE \E n \in live : heap[n].key = k
    <3>1. PICK n \in live : heap[n].key = k
      BY <2>1
    <3>2. CacheRefs[k] = heap[n].refcount /\ CacheRefs[k]' = heap[n].refcount - 1
      BY <1>1, <3>1 DEF RefsOfList
    <3>3. heap[n].refcount >= 1
      BY DEF ListInv, NoZombie
    <3> QED  BY <3>2, <3>3 DEF RefsOfList
  <2>2. CASE \A n \in live : heap[n].key # k
    BY <1>1, <2>2 DEF RefsOfList
  <2> QED  BY <2>1, <2>2
<1> QED  BY <1>2 DEF RefsOfList, Cache!Clean

\* The walk itself is invisible: the node it ages was due and no longer is,
\* the node it frees was already shown with a count of zero.
LEMMA PassStep ==
  ASSUME ListInv, RefsOfList, RefsOfList', CleanKeep \/ CleanDrop
  PROVE  CacheRefs' = CacheRefs
<1>1. /\ cursor \in live /\ cursor # NULL /\ pc = "clean" /\ pc' = "clean"
      /\ live \subseteq Nodes /\ heap \in [Nodes -> ListNode]
      /\ cursor' = heap[cursor].next
      /\ \A n \in live : heap[n].key \in Int /\ heap[n].refcount \in Int
  BY KeysAreInts DEF CleanKeep, CleanDrop, ListInv, CursorSafe, TypeOK, ListNode
<1>2. /\ \A n \in live : heap[n].key > heap[cursor].key <=> cursor' # NULL /\ heap[n].key >= heap[cursor'].key
      /\ cursor' # NULL => cursor' \in live /\ cursor' # cursor
  <2>1. Leads(cursor', LiveAbove(heap[cursor].key))
    BY <1>1 DEF ListInv, ListShape
  <2>2. CASE cursor' = NULL
    BY <1>1, <2>1, <2>2, NullIsNoNode DEF Leads, LiveAbove
  <2>3. CASE cursor' # NULL
    <3>1. cursor' \in LiveAbove(heap[cursor].key)
          /\ \A m \in LiveAbove(heap[cursor].key) : heap[cursor'].key <= heap[m].key
      BY <2>1, <2>3 DEF Leads
    <3> QED  BY <1>1, <2>3, <3>1 DEF LiveAbove
  <2> QED  BY <2>2, <2>3
<1>3. /\ live' = live \/ live' = live \ {cursor}
      /\ \A n \in live \ {cursor} : heap'[n].key = heap[n].key /\ heap'[n].refcount = heap[n].refcount
  BY <1>1, NullIsNoNode DEF CleanKeep, CleanDrop, Unlink, ListInv, CursorSafe, ListNode
<1>4. \A n \in live \ {cursor} : Due(n)' = Due(n)
  <2>1. ASSUME NEW n \in live, n # cursor PROVE Due(n)' = Due(n)
    <3>1. heap[n].key # heap[cursor].key
      BY <1>1, <2>1 DEF ListInv, ListShape
    <3>2. heap[n].key >= heap[cursor].key <=> heap[n].key > heap[cursor].key
      BY <1>1, <3>1
    <3>3. heap'[n].key = heap[n].key /\ (cursor' # NULL => heap'[cursor'].key = heap[cursor'].key)
      BY <1>2, <1>3, <2>1
    <3> QED  BY <1>1, <1>2, <3>2, <3>3 DEF Due, DueToAge
  <2> QED  BY <2>1
<1>5. Due(cursor) = 1
  BY <1>1 DEF Due, DueToAge
<1>6. CASE CleanKeep
  <2>1. live' = live /\ heap'[cursor].key = heap[cursor].key
        /\ heap'[cursor].refcount = heap[cursor].refcount - 1
    BY <1>1, <1>6 DEF CleanKeep, ListNode
  <2>2. \A n : n = cursor => Due(n)' = 0
    <3>1. ASSUME NEW n, n = cursor PROVE ~DueToAge(n)'
      <4>1. ~(cursor' # NULL /\ heap[cursor].key >= heap[cursor'].key)
        BY <1>1, <1>2
      <4>2. cursor' # NULL => heap'[cursor'].key = heap[cursor'].key
        BY <1>2, <1>3
      <4> QED  BY <2>1, <3>1, <4>1, <4>2 DEF DueToAge
    <3> QED  BY <3>1 DEF Due
  <2>3. \A n \in live : /\ heap'[n].key = heap[n].key
                        /\ heap'[n].refcount - Due(n)' = heap[n].refcount - Due(n)
    <3>1. \A n \in live : n = cursor => heap'[n].refcount - Due(n)' = heap[n].refcount - Due(n)
      BY <1>1, <1>5, <2>1, <2>2
    <3> QED  BY <1>3, <1>4, <2>1, <3>1
  <2> QED  BY <2>1, <2>3, SameRefs
<1>7. CASE CleanDrop
  <2>1. live' = live \ {cursor} /\ heap[cursor].refcount = 1
    BY <1>1, <1>7 DEF CleanDrop
  <2>2. ASSUME NEW k \in Keys
        PROVE  CacheRefs[k]' = CacheRefs[k]
    <3>1. CASE \E n \in live \ {cursor} : heap[n].key = k
      <4>1. PICK n \in live \ {cursor} : heap[n].key = k
        BY <3>1
      <4> QED  BY <1>3, <1>4, <2>1, <4>1 DEF RefsOfList
    <3>2. CASE k = heap[cursor].key
      <4>1. CacheRefs[k] = 0
        BY <1>1, <1>5, <2>1, <3>2 DEF RefsOfList
      <4>2. \A n \in live' : heap'[n].key # k
        BY <1>1, <1>3, <2>1, <3>2 DEF ListInv, ListShape
      <4> QED  BY <4>1, <4>2 DEF RefsOfList
    <3>3. CASE \A n \in live : heap[n].key # k
      BY <1>3, <2>1, <3>3 DEF RefsOfList
    <3> QED  BY <3>1, <3>2, <3>3
  <2> QED  BY <2>2 DEF RefsOfList
<1> QED  BY <1>6, <1>7

\* The remaining steps leave the list alone and happen outside a pass, or
\* end one with nothing left to age.
LEMMA SilentStep ==
  ASSUME ListInv, RefsOfList, RefsOfList',
         \/ \E k \in Keys : CallReference(k)
         \/ SearchAdvance \/ NoMemory \/ CleanReturn \/ UNCHANGED vars
  PROVE  CacheRefs' = CacheRefs
<1>1. live' = live /\ heap' = heap
  BY DEF CallReference, SearchAdvance, NoMemory, CleanReturn, vars
<1>2. ASSUME NEW n \in live PROVE DueToAge(n)' <=> DueToAge(n)
  BY DEF CallReference, SearchAdvance, SearchMissed, NoMemory, CleanReturn, Return, vars, DueToAge
<1>3. \A n \in live : Due(n)' = Due(n)
  BY <1>2 DEF Due
<1> QED  BY <1>1, <1>3, SameRefs

\* The pointer list of sequential-lru.c implements the cache of lru.h: each
\* reference raises one key's count by one, each call of clean lowers every
\* positive count by one, and nothing else ever changes a count.
THEOREM ListImplementsCache == Spec => ImplementsCache
<1>1. Init => Cache!Init
  <2> SUFFICES ASSUME Init PROVE Cache!Init
    OBVIOUS
  <2>1. RefsOfList
    BY InitListInv, RefsOfListHolds
  <2> QED  BY <2>1 DEF Init, RefsOfList, Cache!Init
<1>2. ListInv /\ RefsOfList /\ RefsOfList' /\ [Next]_vars => [Cache!Next]_CacheRefs
  BY ReferenceStep, CleanStep, PassStep, SilentStep DEF Next, Step, Cache!Next
<1>3. Inv => ListInv /\ RefsOfList
  BY RefsOfListHolds DEF Inv
<1> QED
  BY <1>1, <1>2, <1>3, SpecInv, PTL DEF Spec, ImplementsCache, Cache!Spec

\* Counts change only by the running call, in its one effective step: a search
\* raises the count of its own key, a pass lowers all of them when it starts.
THEOREM EffectsAreTheCallsOwn == Spec => CallsTakeEffect
<1> DEFINE Effect == \/ CacheRefs' = CacheRefs
                     \/ pc = "search" /\ Cache!Reference(key)
                     \/ pc = "idle" /\ Cache!Clean
<1>1. ASSUME ListInv, RefsOfList, RefsOfList', [Next]_vars
      PROVE  Effect
  <2>1. CASE SearchHit \/ Insert
    <3>1. pc = "search"
      BY <2>1 DEF SearchHit, Insert, SearchMissed
    <3> QED  BY <1>1, <2>1, <3>1, ReferenceStep
  <2>2. CASE CallClean
    <3>1. pc = "idle"
      BY <2>2 DEF CallClean
    <3> QED  BY <1>1, <2>2, <3>1, CleanStep
  <2>3. CASE CleanKeep \/ CleanDrop
    BY <1>1, <2>3, PassStep
  <2>4. CASE \/ \E k \in Keys : CallReference(k)
             \/ SearchAdvance \/ NoMemory \/ CleanReturn \/ UNCHANGED vars
    BY <1>1, <2>4, SilentStep
  <2> QED  BY <1>1, <2>1, <2>2, <2>3, <2>4 DEF Next, Step
<1>2. Inv => ListInv /\ RefsOfList
  BY RefsOfListHolds DEF Inv
<1> QED
  BY <1>1, <1>2, SpecInv, PTL DEF Spec, CallsTakeEffect

-----------------------------------------------------------------------------
(***************************************************************************)
(* The loops end                                                           *)
(***************************************************************************)

\* The nodes that the running loop has still to look at.
Ahead == {m \in live : cursor # NULL /\ heap[m].key >= heap[cursor].key}

Advances == pc # "idle" /\ pc' # "idle" => Cardinality(Ahead') < Cardinality(Ahead)

\* A turn of either loop leaves the node behind on which it stood.
LEMMA TurnAdvances ==
  ASSUME ListInv, SearchAdvance \/ CleanKeep \/ CleanDrop
  PROVE  cursor \in Ahead /\ Ahead' \subseteq Ahead \ {cursor}
<1>1. /\ cursor \in live /\ cursor # NULL /\ cursor' = heap[cursor].next
      /\ live \subseteq Nodes /\ heap \in [Nodes -> ListNode]
      /\ \A n \in live : heap[n].key \in Int
  BY KeysAreInts DEF SearchAdvance, CleanKeep, CleanDrop, ListInv, CursorSafe, TypeOK, ListNode
<1>2. Leads(cursor', LiveAbove(heap[cursor].key))
  BY <1>1 DEF ListInv, ListShape
<1>3. live' \subseteq live /\ \A n \in live \ {cursor} : heap'[n].key = heap[n].key
  BY <1>1, NullIsNoNode
     DEF SearchAdvance, CleanKeep, CleanDrop, Unlink, ListInv, CursorSafe, ListNode
<1>4. cursor' # NULL => cursor' \in live /\ heap[cursor'].key > heap[cursor].key
  BY <1>1, <1>2, NullIsNoNode DEF Leads, LiveAbove
<1>5. cursor # NULL /\ cursor \in Ahead
  BY <1>1 DEF Ahead
<1>6. cursor' # NULL => cursor' \in live \ {cursor} /\ heap'[cursor'].key = heap[cursor'].key
  BY <1>1, <1>3, <1>4
<1>7. ASSUME NEW m \in Ahead' PROVE m \in Ahead \ {cursor}
  <2>1. m \in live /\ m \in live' /\ cursor' # NULL /\ heap'[m].key >= heap'[cursor'].key
    BY <1>3 DEF Ahead
  <2>2. heap'[cursor'].key > heap[cursor].key /\ heap'[cursor'].key \in Int
    BY <1>1, <1>4, <1>6, <2>1
  <2>3. CASE m = cursor
    <3>1. ~(SearchAdvance \/ CleanKeep)
      <4>1. SearchAdvance \/ CleanKeep => heap'[cursor].key = heap[cursor].key
        BY <1>1 DEF SearchAdvance, CleanKeep, ListNode
      <4> QED BY <1>1, <2>1, <2>2, <2>3, <4>1
    <3>2. ~CleanDrop
      BY <2>1, <2>3 DEF CleanDrop
    <3> QED BY <3>1, <3>2
  <2>4. CASE m # cursor
    <3>1. heap'[m].key = heap[m].key /\ heap[m].key \in Int /\ heap[cursor].key \in Int
      BY <1>1, <1>3, <2>1, <2>4
    <3>2. heap[m].key >= heap[cursor].key
      BY <2>1, <2>2, <3>1
    <3> QED BY <1>1, <2>1, <2>4, <3>2 DEF Ahead
  <2> QED BY <2>3, <2>4
<1> QED BY <1>5, <1>7

\* A call ends after no more turns of its loop than there are nodes: the
\* nodes ahead of the cursor are at most count, and every step that does not
\* end the call makes them fewer, although clean frees the node it stands on.
\* So reference and clean cannot run in circles, on a list of any length.
THEOREM LoopsAreBounded ==
  Spec => /\ [](Cardinality(Ahead) \in 0 .. count)
          /\ [][Advances]_vars
<1>1. ASSUME Inv
      PROVE  /\ IsFiniteSet(Ahead) /\ Cardinality(Ahead) \in Nat
             /\ Cardinality(Ahead) <= count
  <2>1. IsFiniteSet(live) /\ Cardinality(live) = count
    BY <1>1, LiveIsFinite DEF Inv, CountAccurate
  <2>2. Ahead \in SUBSET live
    BY DEF Ahead
  <2> QED BY <2>1, <2>2, FS_Subset, FS_CardinalityType
<1>2. Inv => Cardinality(Ahead) \in 0 .. count
  BY <1>1 DEF Inv, ListInv, TypeOK
<1>3. ASSUME Inv, Next, pc # "idle", pc' # "idle"
      PROVE  Cardinality(Ahead') < Cardinality(Ahead)
  <2>1. SearchAdvance \/ CleanKeep \/ CleanDrop
    BY <1>3 DEF Next, Step, CallReference, CallClean, SearchHit, Insert, NoMemory, CleanReturn,
       Return
  <2>2. cursor \in Ahead /\ Ahead' \in SUBSET (Ahead \ {cursor})
    BY <1>3, <2>1, TurnAdvances DEF Inv
  <2>3. IsFiniteSet(Ahead) /\ Cardinality(Ahead) \in Nat
    BY <1>1, <1>3
  <2>4. /\ IsFiniteSet(Ahead \ {cursor})
        /\ Cardinality(Ahead \ {cursor}) = Cardinality(Ahead) - 1
    BY <2>2, <2>3, FS_RemoveElement
  <2>5. Cardinality(Ahead') <= Cardinality(Ahead \ {cursor}) /\ Cardinality(Ahead') \in Nat
    BY <2>2, <2>4, FS_Subset, FS_CardinalityType
  <2> QED BY <2>3, <2>4, <2>5
<1>4. Inv /\ [Next]_vars => [Advances]_vars
  BY <1>3 DEF Advances
<1> QED BY <1>2, <1>4, SpecInv, PTL DEF Spec

=============================================================================
