-------------------------------- MODULE Heap --------------------------------
(***************************************************************************)
(* What malloc and free promise their caller, without superblocks, levels  *)
(* or free lists: memory in blocks.  malloc gives a block that is mapped,  *)
(* at least as long as asked for and apart from every block the caller     *)
(* has; free takes one back.  A block that the caller has is not touched   *)
(* by either: it neither moves nor shrinks, stays mapped, and keeps what   *)
(* is in it.  Nothing is promised of when memory runs out.                 *)
(*                                                                         *)
(* A block has a page, or the first of several, the bytes from `first' on, *)
(* as many as `size', the number `asked' for, the first `word' of it as    *)
(* the allocator left it, and whether all of it is `mapped'.               *)
(*                                                                         *)
(* Allocator implements this specification.                                *)
(***************************************************************************)
EXTENDS Naturals

CONSTANT Sizes   \* what callers ask for

VARIABLE blocks  \* the blocks the caller has

Apart(b, c) ==
  \/ b.page # c.page
  \/ b.first + b.size <= c.first
  \/ c.first + c.size <= b.first

Init == blocks = {}

Malloc(size) ==
  \E b \in blocks' :
    /\ b.mapped /\ b.asked = size /\ size <= b.size
    /\ \A c \in blocks : Apart(b, c)
    /\ blocks' = blocks \cup {b}

Free(b) == blocks' = blocks \ {b}

Next == (\E size \in Sizes : Malloc(size)) \/ \E b \in blocks : Free(b)

Spec == Init /\ [][Next]_blocks

-----------------------------------------------------------------------------

\* What a caller may rely on: no two blocks have a byte in common, each is
\* all there, and as long as was asked for.
BlocksAreGood ==
  /\ \A b, c \in blocks : b # c => Apart(b, c)
  /\ \A b \in blocks : b.mapped /\ b.asked <= b.size

=============================================================================
