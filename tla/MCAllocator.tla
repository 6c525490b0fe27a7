---------------------------- MODULE MCAllocator -----------------------------
(***************************************************************************)
(* The allocator with two levels (superblocks of three and of one object)  *)
(* on three pages, and with one level (superblocks of one object, like the *)
(* 2048-byte level of the code) on five, where free has to look for whole  *)
(* superblocks behind others.                                              *)
(***************************************************************************)
EXTENDS Allocator, TLC

CONSTANTS p1, p2, p3, p4, p5

ThreePages == {p1, p2, p3}
FivePages  == {p1, p2, p3, p4, p5}

Symmetry == Permutations(Pages)

=============================================================================
