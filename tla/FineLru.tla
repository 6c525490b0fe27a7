------------------------------- MODULE FineLru ------------------------------
(***************************************************************************)
(* The fine-grained variant of the LRU list (fine-lru.c), which was not    *)
(* finished: one global mutex and one in every node.                       *)
(*                                                                         *)
(* What the code does bounds its state.  An insertion after the first node *)
(* is never made (the return in line 146 comes before it), and a cleaning  *)
(* pass over a list with a node never returns (CleanList), so there is at  *)
(* most one node, and count, which only those two change, stays zero.      *)
(* Hence no caller ever waits on a condition variable, and clean(1)        *)
(* returns at once.  The next pointer and the mutex of the node are not    *)
(* initialised.                                                            *)
(***************************************************************************)
EXTENDS Integers

CONSTANTS
  Threads,
  Keys,
  Nobody   \* in place of a thread: a mutex is free

VARIABLES
  pc,      \* of each thread
  key,     \* the argument of its reference
  mutex,   \* holder of the global mutex
  head,    \* whether there is a node: "none", "null" or "wild", its next pointer
  node,    \* its key, its reference count and the holder of its mutex
  done,
  crashed  \* the process has ended

vars == <<pc, key, mutex, head, node, done, crashed>>

\* A mutex made of arbitrary bytes may look as if it were held.
Junk == "junk"

Goto(t, place) == pc' = [pc EXCEPT ![t] = place]

Init ==
  /\ pc = [t \in Threads |-> "idle"]
  /\ key = [t \in Threads |-> CHOOSE k \in Keys : TRUE]
  /\ mutex = Nobody
  /\ head = "none"
  /\ node = [key |-> 0, refcount |-> 0, mutex |-> Nobody]
  /\ done = FALSE /\ crashed = FALSE

Acquire(t, place) == mutex = Nobody /\ mutex' = t /\ Goto(t, place)
Release(t, place) == mutex' = Nobody /\ Goto(t, place)
CrashNow == crashed' = TRUE /\ UNCHANGED <<pc, key, mutex, head, node, done>>

Reference(t, k) ==
  /\ pc[t] = "idle" /\ Acquire(t, "refBody")
  /\ key' = [key EXCEPT ![t] = k]
  /\ UNCHANGED <<head, node, done, crashed>>

\* The first reference makes the node, and writes through malloc's result.
RefBaseCase(t) ==
  /\ pc[t] = "refBody" /\ head = "none"
  /\ \/ CrashNow
     \/ /\ Release(t, "idle")
        /\ head' \in {"null", "wild"}
        /\ \E m \in {Nobody, Junk} :
             node' = [key |-> key[t], refcount |-> 1, mutex |-> m]
        /\ UNCHANGED <<key, done, crashed>>

\* The loop over the list locks the node, at every turn.
RefLockNode(t) ==
  /\ pc[t] = "refBody" /\ head # "none"
  /\ node.mutex = Nobody
  /\ node' = [node EXCEPT !.mutex = t]
  /\ Goto(t, "refNode")
  /\ UNCHANGED <<key, mutex, head, done, crashed>>

\* The key comes later in the list: the next node is locked, or the same one
\* once more when there is none.
RefAdvance(t) ==
  /\ pc[t] = "refNode" /\ node.key < key[t]
  /\ \/ head = "wild" /\ CrashNow
     \/ /\ head = "null" /\ Goto(t, "refBody")
        /\ UNCHANGED <<key, mutex, head, node, done, crashed>>

\* The key is the node's, or it is missing: reference returns 1 or 0.
RefReturn(t) ==
  /\ pc[t] = "refNode" /\ node.key >= key[t]
  /\ node' = IF node.key = key[t] THEN [node EXCEPT !.refcount = @ + 1] ELSE node
  /\ Goto(t, "idle")
  /\ UNCHANGED <<key, mutex, head, done, crashed>>

\* clean(1): count is zero.
CleanNothing(t) ==
  /\ pc[t] = "idle" /\ mutex = Nobody
  /\ UNCHANGED vars

\* clean(0)
Clean(t) ==
  /\ pc[t] = "idle" /\ Acquire(t, "cleanBody")
  /\ UNCHANGED <<key, head, node, done, crashed>>

\* The mutex of cursor->next is taken without a test of next.
CleanList(t) ==
  /\ pc[t] = "cleanBody"
  /\ \/ head = "none" /\ Release(t, "idle")
        /\ UNCHANGED <<key, head, node, done, crashed>>
     \/ head # "none" /\ node.mutex = Nobody /\ CrashNow

\* assert(!done)
Shutdown(t) ==
  /\ pc[t] = "idle" /\ mutex = Nobody
  /\ IF done THEN CrashNow
     ELSE done' = TRUE /\ UNCHANGED <<pc, key, mutex, head, node, crashed>>

Next ==
  /\ ~crashed
  /\ \E t \in Threads :
       \/ \E k \in Keys : Reference(t, k)
       \/ RefBaseCase(t) \/ RefLockNode(t) \/ RefAdvance(t) \/ RefReturn(t)
       \/ CleanNothing(t) \/ Clean(t) \/ CleanList(t) \/ Shutdown(t)

Spec == Init /\ [][Next]_vars

-----------------------------------------------------------------------------

\* fine-lru.c:66 and 127: "When we find our node and grab the lock for it, we
\* increment refcount and then release everything".  A thread that is not in
\* a call holds no mutex.
ReleasesEverything ==
  \A t \in Threads : pc[t] = "idle" => mutex # t /\ node.mutex # t

=============================================================================
