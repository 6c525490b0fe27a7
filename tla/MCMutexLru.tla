----------------------------- MODULE MCMutexLru -----------------------------
(***************************************************************************)
(* The threaded program with every size divided by 32: four keys, water    *)
(* marks 1 and 3, self tests on two keys.                                  *)
(***************************************************************************)
EXTENDS MutexLru

CONSTANTS c1, c2

OneClient  == {c1}
TwoClients == {c1, c2}

=============================================================================
