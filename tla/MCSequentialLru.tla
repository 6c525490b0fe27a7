--------------------------- MODULE MCSequentialLru --------------------------
(***************************************************************************)
(* SequentialLru on three keys and one spare address: insertions at the    *)
(* front, in the middle and at the end, and re-use of freed addresses.     *)
(***************************************************************************)
EXTENDS SequentialLru

CONSTANTS n1, n2, n3, n4

MCKeys  == 0 .. 2
MCNodes == {n1, n2, n3, n4}

=============================================================================
