--------------------------- MODULE SequentialLru ----------------------------
(***************************************************************************)
(* The singly linked, key-ordered list of sequential-lru.c, one step per   *)
(* iteration of its loops.  mutex-lru.c runs the same two loops inside its *)
(* critical sections.                                                      *)
(*                                                                         *)
(* Nodes are the addresses malloc can return.  A node outside `live' has   *)
(* not been allocated or has been freed: its fields are Blank, and no      *)
(* pointer of the program may lead to it.                                  *)
(***************************************************************************)
EXTENDS Integers, FiniteSets

CONSTANTS
  Keys,     \* the keys callers use, 0 .. MAX_KEY-1
  Nodes,    \* addresses malloc can return
  NULL,     \* the null pointer
  MaxRefs   \* bound on a reference count, for model checking

ASSUME KeysAreInts    == Keys \subseteq Int /\ Keys # {}
ASSUME NullIsNoNode   == NULL \notin Nodes
ASSUME MaxRefsIsNat   == MaxRefs \in Nat
ASSUME NodesAreFinite == IsFiniteSet(Nodes)

VARIABLES
  list_head,  \* static struct list_node* list_head
  heap,       \* contents of every address
  live,       \* addresses allocated and not yet freed
  count,      \* static int count
  pc,         \* "idle" between calls, else the loop being run
  key,        \* argument of reference
  cursor,     \* locals of the running call, NULL between calls
  last

vars == <<list_head, heap, live, count, pc, key, cursor, last>>

Pointers == Nodes \cup {NULL}

\* struct list_node
ListNode == [next : Pointers, key : Keys, refcount : Int]

\* What the model keeps in an address that is not allocated.
Blank == [next |-> NULL, key |-> CHOOSE k \in Keys : TRUE, refcount |-> 0]

TypeOK ==
  /\ list_head \in Pointers
  /\ heap \in [Nodes -> ListNode]
  /\ live \in SUBSET Nodes
  /\ count \in Nat
  /\ pc \in {"idle", "search", "clean"}
  /\ key \in Keys
  /\ cursor \in Pointers
  /\ last \in Pointers

Init ==
  /\ list_head = NULL
  /\ heap = [n \in Nodes |-> Blank]
  /\ live = {}
  /\ count = 0
  /\ pc = "idle"
  /\ key \in Keys
  /\ cursor = NULL
  /\ last = NULL

Return == pc' = "idle" /\ cursor' = NULL /\ last' = NULL

-----------------------------------------------------------------------------
(***************************************************************************)
(* reference(key)                                                          *)
(***************************************************************************)

\* MaxRefs bounds the model: no call that would pass it is made.
CallReference(k) ==
  /\ pc = "idle"
  /\ \A n \in live : heap[n].key = k => heap[n].refcount < MaxRefs
  /\ pc' = "search"
  /\ key' = k
  /\ cursor' = list_head
  /\ last' = NULL
  /\ UNCHANGED <<list_head, heap, live, count>>

\* Mutated form of SearchAdvance: last follows, cursor is not moved.
SearchStays ==
  /\ pc = "search"
  /\ cursor # NULL
  /\ heap[cursor].key < key
  /\ last' = cursor
  /\ cursor' = cursor
  /\ UNCHANGED <<list_head, heap, live, count, pc, key>>

SearchAdvance ==
  /\ pc = "search"
  /\ cursor # NULL
  /\ heap[cursor].key < key
  /\ last' = cursor
  /\ cursor' = heap[cursor].next
  /\ UNCHANGED <<list_head, heap, live, count, pc, key>>

SearchHit ==
  /\ pc = "search"
  /\ cursor # NULL
  /\ heap[cursor].key = key
  /\ heap' = [heap EXCEPT ![cursor].refcount = @ + 1]
  /\ Return
  /\ UNCHANGED <<list_head, live, count, key>>

SearchMissed ==
  /\ pc = "search"
  /\ cursor # NULL => heap[cursor].key > key

\* Mutated form of LinkNew: the new node goes in front of the list.
LinkNewAtFront(n, refcount) ==
  /\ list_head' = n
  /\ heap' = [heap EXCEPT ![n] = [next |-> list_head, key |-> key,
                                  refcount |-> refcount]]

\* The new node n takes its place between last and cursor.
LinkNew(n, refcount) ==
  LET node == [next |-> cursor, key |-> key, refcount |-> refcount]
  IN  IF last = NULL
      THEN /\ list_head' = n
           /\ heap' = [heap EXCEPT ![n] = node]
      ELSE /\ list_head' = list_head
           /\ heap' = [heap EXCEPT ![n] = node, ![last].next = n]

\* Mutated form of Insert: the count starts at zero.
InsertUnreferenced ==
  /\ SearchMissed
  /\ \E n \in Nodes \ live :
       /\ live' = live \cup {n}
       /\ LinkNew(n, 0)
  /\ count' = count + 1
  /\ Return
  /\ UNCHANGED key

\* Mutated form of Insert: count is not maintained.
InsertUncounted ==
  /\ SearchMissed
  /\ \E n \in Nodes \ live :
       /\ live' = live \cup {n}
       /\ LinkNew(n, 1)
  /\ count' = count
  /\ Return
  /\ UNCHANGED key

Insert ==
  /\ SearchMissed
  /\ \E n \in Nodes \ live :
       /\ live' = live \cup {n}
       /\ LinkNew(n, 1)
  /\ count' = count + 1
  /\ Return
  /\ UNCHANGED key

\* malloc returned NULL: reference returns 0.
NoMemory ==
  /\ SearchMissed
  /\ Return
  /\ UNCHANGED <<list_head, heap, live, count, key>>

-----------------------------------------------------------------------------
(***************************************************************************)
(* clean(check_water_mark), which ignores its argument in this variant     *)
(***************************************************************************)

CallClean ==
  /\ pc = "idle"
  /\ pc' = "clean"
  /\ cursor' = list_head
  /\ last' = NULL
  /\ UNCHANGED <<list_head, heap, live, count, key>>

\* Mutated form of CleanKeep: the walk forgets to age the node.
CleanKeepUnaged ==
  /\ pc = "clean"
  /\ cursor # NULL
  /\ heap[cursor].refcount - 1 # 0
  /\ heap' = heap
  /\ last' = cursor
  /\ cursor' = heap[cursor].next
  /\ UNCHANGED <<list_head, live, count, pc, key>>

CleanKeep ==
  /\ pc = "clean"
  /\ cursor # NULL
  /\ heap[cursor].refcount - 1 # 0
  /\ heap' = [heap EXCEPT ![cursor].refcount = @ - 1]
  /\ last' = cursor
  /\ cursor' = heap[cursor].next
  /\ UNCHANGED <<list_head, live, count, pc, key>>

\* Mutated form of Unlink: always through list_head, as if last were NULL.
UnlinkFromHead(n) ==
  /\ list_head' = heap[n].next
  /\ heap' = [heap EXCEPT ![n] = Blank]

\* Take node n out of the list and free it.
Unlink(n) ==
  IF last = NULL
  THEN /\ list_head' = heap[n].next
       /\ heap' = [heap EXCEPT ![n] = Blank]
  ELSE /\ list_head' = list_head
       /\ heap' = [heap EXCEPT ![last].next = heap[n].next, ![n] = Blank]

CleanDrop ==
  /\ pc = "clean"
  /\ cursor # NULL
  /\ heap[cursor].refcount - 1 = 0
  /\ Unlink(cursor)
  /\ live' = live \ {cursor}
  /\ cursor' = heap[cursor].next
  /\ count' = count - 1
  /\ UNCHANGED <<pc, key, last>>

CleanReturn ==
  /\ pc = "clean"
  /\ cursor = NULL
  /\ Return
  /\ UNCHANGED <<list_head, heap, live, count, key>>

-----------------------------------------------------------------------------

\* The steps of a call that is running.
Step ==
  \/ SearchAdvance \/ SearchHit \/ Insert \/ NoMemory
  \/ CleanKeep \/ CleanDrop \/ CleanReturn

Next ==
  \/ \E k \in Keys : CallReference(k)
  \/ CallClean
  \/ Step

\* The calling thread runs: a call that has started goes on.
Spec == Init /\ [][Next]_vars /\ WF_vars(Step)

-----------------------------------------------------------------------------
(***************************************************************************)
(* Properties                                                              *)
(***************************************************************************)

\* p points to the node of least key in the set S, and is NULL for no node.
Leads(p, S) ==
  IF S = {} THEN p = NULL
            ELSE p \in S /\ \A m \in S : heap[p].key <= heap[m].key

LiveAbove(k) == {m \in live : heap[m].key > k}

\* Between any two steps, inside a call or not, the list starting at
\* list_head runs through exactly the live nodes in strictly increasing key
\* order: the head is the least node, every next pointer leads to the least
\* node above it, and no key occurs twice.  So the list has no cycle, loses
\* no node (no leak), and no live pointer leads to freed memory.
ListShape ==
  /\ Leads(list_head, live)
  /\ \A n \in live : Leads(heap[n].next, LiveAbove(heap[n].key))
  /\ \A m, n \in live : heap[m].key = heap[n].key => m = n

\* The locals of the running call never point to freed memory, and they stay
\* neighbours in the list: cursor is what last points to (or the head).
\* This is what makes the splice in reference and clean safe.
CursorSafe ==
  /\ cursor # NULL => cursor \in live
  /\ last # NULL => last \in live
  /\ pc # "idle" => cursor = IF last = NULL THEN list_head ELSE heap[last].next

\* count is the number of nodes, also half-way through a cleaning pass.
CountAccurate == count = Cardinality(live)

\* No node in the list has a count below one.  Such a node would be lost to
\* clean, which frees a node only when its count falls to exactly zero.
NoZombie == \A n \in live : heap[n].refcount >= 1

\* Every call returns: the loops follow a list that ends.
CallsReturn == (pc # "idle") ~> (pc = "idle")

\* The reference counts the caller is entitled to see.  A cleaning pass takes
\* effect when it starts: the nodes it has not reached yet are due to lose one.
DueToAge(n) ==
  pc = "clean" /\ cursor # NULL /\ heap[n].key >= heap[cursor].key

CacheRefs ==
  [k \in Keys |->
     IF \E n \in live : heap[n].key = k
     THEN LET n == CHOOSE m \in live : heap[m].key = k
          IN  heap[n].refcount - (IF DueToAge(n) THEN 1 ELSE 0)
     ELSE 0]

Cache == INSTANCE LruCache WITH refs <- CacheRefs

\* The pointer list implements the cache that lru.h promises: each reference
\* raises exactly one count, each cleaning pass lowers all of them by one.
ImplementsCache == Cache!Spec

\* A call has its own effect and no other: a count changes only in the one step
\* in which a running reference(key) raises key's count, or at the start of a
\* cleaning pass, which lowers all of them.  No step of the pass itself
\* changes what the caller is entitled to see: it ages every node exactly
\* once and frees exactly those that the pass was due to remove.
CallsTakeEffect ==
  [][\/ CacheRefs' = CacheRefs
     \/ pc = "search" /\ Cache!Reference(key)
     \/ pc = "idle" /\ Cache!Clean]_vars

=============================================================================
