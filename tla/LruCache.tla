------------------------------ MODULE LruCache ------------------------------
(***************************************************************************)
(* What the LRU tracker promises its callers, without lists, locks or      *)
(* threads: every key has a reference count, zero when it is not tracked.  *)
(* reference(key) raises one count, a cleaning pass lowers every positive  *)
(* count by one and thereby forgets the keys whose count reaches zero.     *)
(*                                                                         *)
(* SequentialLru, the pointer list, implements this specification.  The    *)
(* critical sections of MutexLru work on counts of this form.              *)
(***************************************************************************)
EXTENDS Naturals

CONSTANT Keys

VARIABLE refs

Init == refs = [k \in Keys |-> 0]

Reference(k) == refs' = [refs EXCEPT ![k] = @ + 1]

Clean == refs' = [k \in Keys |-> IF refs[k] = 0 THEN 0 ELSE refs[k] - 1]

Next == Clean \/ \E k \in Keys : Reference(k)

Spec == Init /\ [][Next]_refs

=============================================================================
