----------------------------- MODULE Allocator ------------------------------
(***************************************************************************)
(* th_alloc.c: malloc and free over superblocks of one page, each divided  *)
(* into objects of one power-of-two size, and over big objects that get    *)
(* pages of their own.  The allocator is single-threaded (its              *)
(* pthread_create exits), so a call of malloc is one step; free is one     *)
(* step followed by the steps of the loop that returns superblocks.        *)
(*                                                                         *)
(* A pointer is a pair <<page, slot>>: slot 0 is the start of the page,    *)
(* where the bookkeeping of a superblock or a big object lies.  Links of   *)
(* free lists never leave their superblock and are slots, 0 for NULL.      *)
(* The chain of superblocks of a level is the sequence pool[l].            *)
(***************************************************************************)
EXTENDS Integers, FiniteSets, Sequences, SequencesExt

CONSTANTS
  LEVELS,        \* power-of-two sizes, from 32 bytes to half a page
  Pages,         \* what mmap can hand out
  RESERVE_SUPERBLOCK_THRESHOLD,
  FREE_POISON, ALLOC_POISON,   \* what memset leaves in the first word
  MAP_FAILED,
  Sizes,         \* the sizes callers ask for
  MaxBig         \* bound on the list of big objects, for model checking

Level == 0 .. LEVELS - 1

\* Bytes: the biggest object is half a superblock.
ObjectSize(l) == 2 ^ (l + 5)
SUPER_BLOCK_SIZE == 2 ^ (LEVELS + 5)
MAX_ALLOC == ObjectSize(LEVELS - 1)

\* full_sb: the bookkeeping takes the place of one object.
FullSb(l) == SUPER_BLOCK_SIZE \div ObjectSize(l) - 1

\* The loop of size2level halves a double, which is exact, until it is at
\* most one.
Halvings(size) == CHOOSE n \in 0 .. size : size <= 2 ^ n /\ \A m \in 0 .. n - 1 : size > 2 ^ m

\* Mutated form of size2level: an offset of six.
size2levelTooLow(size) == IF Halvings(size) <= 6 THEN 0 ELSE Halvings(size) - 6

\* Mutated form of size2level: a byte more is asked for than the caller wants.
size2levelTooHigh(size) == IF Halvings(size + 1) <= 5 THEN 0 ELSE Halvings(size + 1) - 5

size2level(size) == IF Halvings(size) <= 5 THEN 0 ELSE Halvings(size) - 5

ASSUME LevelsIsPositive == LEVELS \in Nat \ {0}
ASSUME SuperblocksHoldObjects ==
  \A l \in Level : FullSb(l) \in Nat \ {0} /\ FullSb(l) <= FullSb(0)
ASSUME ThresholdIsNat == RESERVE_SUPERBLOCK_THRESHOLD \in Nat /\ MaxBig \in Nat
ASSUME SizesArePositive == Sizes \subseteq Nat \ {0}
ASSUME PagesAreFinite == IsFiniteSet(Pages)
ASSUME PoisonIsNoSlot ==
  FREE_POISON \notin 0 .. FullSb(0) /\ ALLOC_POISON \notin 0 .. FullSb(0)
ASSUME FailureIsNoPointer == MAP_FAILED \notin Pages \X (0 .. FullSb(0))

Slots    == 1 .. FullSb(0)
Objects  == Pages \X Slots
Pointers == Pages \X (0 .. FullSb(0))
Links    == 0 .. FullSb(0) \cup {FREE_POISON, ALLOC_POISON}

VARIABLES
  pool,               \* levels[l].next and the chain behind it
  free_objects,       \* levels[l].free_objects
  whole_superblocks,  \* levels[l].whole_superblocks
  bkeep,              \* the bookkeeping at the start of each superblock
  next,               \* the first word of every object
  big_object_list,    \* the list of big objects, each with its own node
  mapped,             \* the pages the process has
  held,               \* the pointers the caller has got and not freed
  asked,              \* the size the caller asked for, of each pointer in held
  pc,                 \* "idle", "release" (inside free), or how it crashed
  power,              \* locals of free: the level, and the place of curr in
  curr                \* its chain, 0 once that page is unmapped

levels == <<pool, free_objects, whole_superblocks>>
vars == <<levels, bkeep, next, big_object_list, mapped, held, asked, pc, power, curr>>

\* Ways to die: alloc_super writes to what a failed mmap returned; the free
\* list leads to no object; the caller frees MAP_FAILED.
Crashes == {"nomap", "badlist", "badfree"}

Bookkeeping == [level : Level, free_list : Links, free_count : 0 .. FullSb(0)]
BigObject   == [addr : Pointers \cup {MAP_FAILED}, node : Objects]

\* What the model keeps of a page that is no superblock.
NoBkeep == [level |-> 0, free_list |-> 0, free_count |-> 0]
NoNext  == [i \in Slots |-> 0]

TypeOK ==
  /\ pool \in [Level -> Seq(Pages)]
  /\ free_objects \in [Level -> Nat]
  /\ whole_superblocks \in [Level -> Nat]
  /\ bkeep \in [Pages -> Bookkeeping]
  /\ next \in [Pages -> [Slots -> Links]]
  /\ big_object_list \in Seq(BigObject)
  /\ mapped \subseteq Pages
  /\ held \subseteq Pointers \cup {MAP_FAILED}
  /\ asked \in [Pointers -> Sizes \cup {0}]
  /\ pc \in {"idle", "release"} \cup Crashes
  /\ power \in Level
  /\ curr \in Nat

Init ==
  /\ pool = [l \in Level |-> <<>>]
  /\ free_objects = [l \in Level |-> 0]
  /\ whole_superblocks = [l \in Level |-> 0]
  /\ bkeep = [p \in Pages |-> NoBkeep]
  /\ next = [p \in Pages |-> NoNext]
  /\ big_object_list = <<>>
  /\ mapped = {} /\ held = {}
  /\ asked = [a \in Pointers |-> 0]
  /\ pc = "idle" /\ power = 0 /\ curr = 0

Crash(how) == pc' = how /\ UNCHANGED <<levels, bkeep, next, big_object_list, mapped, held, asked, power, curr>>

-----------------------------------------------------------------------------
(***************************************************************************)
(* malloc(size)                                                            *)
(***************************************************************************)

\* The free list that alloc_super builds: the last object first.
NewList(l) == [i \in Slots |-> IF i <= FullSb(l) THEN i - 1 ELSE 0]

NewBkeep(l) == [level |-> l, free_list |-> FullSb(l), free_count |-> FullSb(l)]

\* Mutated form of Taken: the object stays on the free list.
TakenStays(b, links) ==
  [b EXCEPT !.free_count = @ - 1]

\* Bookkeeping b after the first object of its free list is taken out; links
\* are the first words of its objects.
Taken(b, links) ==
  [b EXCEPT !.free_list = IF b.free_count = 1 THEN 0 ELSE links[b.free_list],
            !.free_count = @ - 1]

\* p is the first superblock of its chain with a free object.
Serves(l, p) ==
  \E i \in 1 .. Len(pool[l]) :
    /\ pool[l][i] = p /\ bkeep[p].free_count > 0
    /\ \A j \in 1 .. i - 1 : bkeep[pool[l][j]].free_count = 0

\* Object <<p, i>> is taken from a superblock that has free objects.
TakeOld(l, p, i) ==
  /\ free_objects[l] > 0
  /\ Serves(l, p) /\ bkeep[p].free_list = i
  /\ bkeep' = [bkeep EXCEPT ![p] = Taken(@, next[p])]
  /\ next' = [next EXCEPT ![p][i] = ALLOC_POISON]
  /\ free_objects' = [free_objects EXCEPT ![l] = @ - 1]
  /\ whole_superblocks' = [whole_superblocks EXCEPT
       ![l] = IF bkeep[p].free_count = FullSb(l) THEN @ - 1 ELSE @]
  /\ pool' = pool

\* Mutated form of TakeNew: the superblock goes on counting as whole.
TakeNewWhole(l, p, i) ==
  /\ free_objects[l] = 0
  /\ p \notin mapped /\ i = FullSb(l)
  /\ bkeep' = [bkeep EXCEPT ![p] = Taken(NewBkeep(l), NewList(l))]
  /\ next' = [next EXCEPT ![p] = [NewList(l) EXCEPT ![i] = ALLOC_POISON]]
  /\ free_objects' = [free_objects EXCEPT ![l] = FullSb(l) - 1]
  /\ whole_superblocks' = [whole_superblocks EXCEPT ![l] = @ + 1]
  /\ pool' = [pool EXCEPT ![l] = <<p>> \o @]

\* Mutated form of TakeNew: the object of the bookkeeping is counted too.
TakeNewOffByOne(l, p, i) ==
  /\ free_objects[l] = 0
  /\ p \notin mapped /\ i = FullSb(l)
  /\ bkeep' = [bkeep EXCEPT ![p] = Taken(NewBkeep(l), NewList(l))]
  /\ next' = [next EXCEPT ![p] = [NewList(l) EXCEPT ![i] = ALLOC_POISON]]
  /\ free_objects' = [free_objects EXCEPT ![l] = FullSb(l)]
  /\ whole_superblocks' = whole_superblocks
  /\ pool' = [pool EXCEPT ![l] = <<p>> \o @]

\* alloc_super puts a new superblock p at the head of the chain, whole, and
\* its first object is taken at once.
TakeNew(l, p, i) ==
  /\ free_objects[l] = 0
  /\ p \notin mapped /\ i = FullSb(l)
  /\ bkeep' = [bkeep EXCEPT ![p] = Taken(NewBkeep(l), NewList(l))]
  /\ next' = [next EXCEPT ![p] = [NewList(l) EXCEPT ![i] = ALLOC_POISON]]
  /\ free_objects' = [free_objects EXCEPT ![l] = FullSb(l) - 1]
  /\ whole_superblocks' = whole_superblocks
  /\ pool' = [pool EXCEPT ![l] = <<p>> \o @]

Take(l, p, i) == TakeOld(l, p, i) \/ TakeNew(l, p, i)

\* The caller gets address a for its request.
Give(a, size) == held' = held \cup {a} /\ asked' = [asked EXCEPT ![a] = size]

\* The caller no longer has address a.
GiveUp(a) == held' = held \ {a} /\ asked' = [asked EXCEPT ![a] = 0]

Malloc(size) ==
  /\ pc = "idle" /\ size <= MAX_ALLOC
  /\ \E p \in Pages, i \in Slots :
       /\ Take(size2level(size), p, i)
       /\ mapped' = mapped \cup {p}
       /\ Give(<<p, i>>, size)
  /\ UNCHANGED <<big_object_list, pc, power, curr>>

\* A bigger size: the node comes from a recursive malloc (24 bytes, level 0),
\* the memory from mmap, whose failure is not NULL and passes for an address.
\* MaxBig bounds the model.
MallocBig(size) ==
  /\ pc = "idle" /\ size > MAX_ALLOC /\ Len(big_object_list) < MaxBig
  /\ \E p \in Pages, i \in Slots :
       /\ Take(0, p, i)
       /\ \/ \E q \in Pages \ (mapped \cup {p}) :
               /\ mapped' = mapped \cup {p, q}
               /\ Give(<<q, 0>>, size)
               /\ big_object_list' = <<[addr |-> <<q, 0>>, node |-> <<p, i>>]>> \o big_object_list
          \/ /\ mapped' = mapped \cup {p}
             /\ held' = held \cup {MAP_FAILED} /\ asked' = asked
             /\ big_object_list' = <<[addr |-> MAP_FAILED, node |-> <<p, i>>]>> \o big_object_list
  /\ UNCHANGED <<pc, power, curr>>

\* malloc crashes: the mmap of alloc_super failed, or the free list does not
\* lead to an object.  (SearchSucceeds says why its assert does not fail.)
MallocCrash(size) ==
  LET l == IF size <= MAX_ALLOC THEN size2level(size) ELSE 0 IN
  /\ pc = "idle"
  /\ \/ free_objects[l] = 0 /\ Crash("nomap")
     \/ /\ free_objects[l] > 0
        /\ \E p \in Pages : Serves(l, p) /\ bkeep[p].free_list \notin Slots
        /\ Crash("badlist")

-----------------------------------------------------------------------------
(***************************************************************************)
(* free(ptr)                                                               *)
(***************************************************************************)

\* Mutated form of PutBack: free_objects is not raised.
PutBackUncounted(p, i) ==
  LET l == bkeep[p].level IN
  /\ bkeep' = [bkeep EXCEPT ![p].free_list = i, ![p].free_count = @ + 1]
  /\ next' = [next EXCEPT ![p][i] = FREE_POISON]
  /\ whole_superblocks' = [whole_superblocks EXCEPT
       ![l] = IF bkeep[p].free_count + 1 = FullSb(l) THEN @ + 1 ELSE @]
  /\ pc' = "release" /\ power' = l /\ curr' = 1
  /\ UNCHANGED <<pool, free_objects>>

\* Object <<p, i>> goes back on the free list of its superblock.  The memset
\* that poisons it then overwrites the link it has just been given.
PutBack(p, i) ==
  LET l == bkeep[p].level IN
  /\ bkeep' = [bkeep EXCEPT ![p].free_list = i, ![p].free_count = @ + 1]
  /\ next' = [next EXCEPT ![p][i] = FREE_POISON]
  /\ free_objects' = [free_objects EXCEPT ![l] = @ + 1]
  /\ whole_superblocks' = [whole_superblocks EXCEPT
       ![l] = IF bkeep[p].free_count + 1 = FullSb(l) THEN @ + 1 ELSE @]
  /\ pc' = "release" /\ power' = l /\ curr' = 1
  /\ pool' = pool

FreeObject ==
  /\ pc = "idle"
  /\ \E p \in Pages, i \in Slots :
       /\ <<p, i>> \in held
       /\ PutBack(p, i)
       /\ GiveUp(<<p, i>>)
  /\ UNCHANGED <<big_object_list, mapped>>

\* Mutated form of FreeBig: the node is freed, the memory is not unmapped.
FreeBigLeaks ==
  /\ pc = "idle"
  /\ \E n \in 1 .. Len(big_object_list) :
       LET big == big_object_list[n] IN
       /\ big.addr \in held \ {MAP_FAILED}
       /\ \A m \in 1 .. n - 1 : big_object_list[m].addr # big.addr
       /\ mapped' = mapped
       /\ big_object_list' = RemoveAt(big_object_list, n)
       /\ GiveUp(big.addr)
       /\ PutBack(big.node[1], big.node[2])

\* A big object is found in the list, unmapped and unlinked; then its node
\* is freed.
FreeBig ==
  /\ pc = "idle"
  /\ \E n \in 1 .. Len(big_object_list) :
       LET big == big_object_list[n] IN
       /\ big.addr \in held \ {MAP_FAILED}
       /\ \A m \in 1 .. n - 1 : big_object_list[m].addr # big.addr
       /\ mapped' = mapped \ {big.addr[1]}
       /\ big_object_list' = RemoveAt(big_object_list, n)
       /\ GiveUp(big.addr)
       /\ PutBack(big.node[1], big.node[2])

\* The bookkeeping of MAP_FAILED is read before anything else.
FreeFailed == pc = "idle" /\ MAP_FAILED \in held /\ Crash("badfree")

\* The loop at the end of free, over the chain of level power.  ChainSafe
\* says why it finds a whole superblock.
IsWhole(p) == bkeep[p].free_count = FullSb(power)

\* Mutated form of TooManyWhole: one superblock too late.
TooManyWholeLate == pc = "release" /\ whole_superblocks[power] > RESERVE_SUPERBLOCK_THRESHOLD + 1

TooManyWhole == pc = "release" /\ whole_superblocks[power] > RESERVE_SUPERBLOCK_THRESHOLD

\* Mutated form of Release: the superblock goes on counting as whole.
ReleaseUncounted(n) ==
  LET p == pool[power][n] IN
  /\ pool' = [pool EXCEPT ![power] = RemoveAt(@, n)]
  /\ mapped' = mapped \ {p}
  /\ bkeep' = [bkeep EXCEPT ![p] = NoBkeep]
  /\ next' = [next EXCEPT ![p] = NoNext]
  /\ free_objects' = [free_objects EXCEPT ![power] = @ - FullSb(power)]
  /\ whole_superblocks' = whole_superblocks

\* Superblock n of the chain is unlinked and given back.
Release(n) ==
  LET p == pool[power][n] IN
  /\ pool' = [pool EXCEPT ![power] = RemoveAt(@, n)]
  /\ mapped' = mapped \ {p}
  /\ bkeep' = [bkeep EXCEPT ![p] = NoBkeep]
  /\ next' = [next EXCEPT ![p] = NoNext]
  /\ free_objects' = [free_objects EXCEPT ![power] = @ - FullSb(power)]
  /\ whole_superblocks' = [whole_superblocks EXCEPT ![power] = @ - 1]

ReleaseFirst ==
  /\ TooManyWhole
  /\ curr \in 1 .. Len(pool[power]) /\ IsWhole(pool[power][1])
  /\ Release(1)
  /\ curr' = 1
  /\ UNCHANGED <<big_object_list, held, asked, pc, power>>

\* Mutated form of ReleaseLater: curr does not move.
ReleaseLaterStays ==
  /\ TooManyWhole
  /\ curr \in 1 .. Len(pool[power]) - 1 /\ ~IsWhole(pool[power][1])
  /\ IF IsWhole(pool[power][curr + 1])
     THEN Release(curr + 1) /\ curr' = 0
     ELSE curr' = curr /\ UNCHANGED <<levels, mapped, bkeep, next>>
  /\ UNCHANGED <<big_object_list, held, asked, pc, power>>

\* curr moves on; if it gets to a whole superblock, that one is released and
\* curr is left pointing to it.
ReleaseLater ==
  /\ TooManyWhole
  /\ curr \in 1 .. Len(pool[power]) - 1 /\ ~IsWhole(pool[power][1])
  /\ IF IsWhole(pool[power][curr + 1])
     THEN Release(curr + 1) /\ curr' = 0
     ELSE curr' = curr + 1 /\ UNCHANGED <<levels, mapped, bkeep, next>>
  /\ UNCHANGED <<big_object_list, held, asked, pc, power>>

ReleaseDone ==
  /\ pc = "release" /\ ~TooManyWhole
  /\ pc' = "idle" /\ power' = 0 /\ curr' = 0
  /\ UNCHANGED <<levels, bkeep, next, big_object_list, mapped, held, asked>>

-----------------------------------------------------------------------------

ReleaseStep == ReleaseFirst \/ ReleaseLater \/ ReleaseDone

Next ==
  \/ \E size \in Sizes : Malloc(size) \/ MallocBig(size) \/ MallocCrash(size)
  \/ FreeObject \/ FreeBig \/ FreeFailed
  \/ ReleaseStep

\* The caller may stop calling; a call that has started goes on.
Spec == Init /\ [][Next]_vars /\ WF_vars(ReleaseStep)

-----------------------------------------------------------------------------
(***************************************************************************)
(* Properties                                                              *)
(***************************************************************************)

Superblocks(l) == ToSet(pool[l])

BigEntries == ToSet(big_object_list)

\* The objects that the caller or the list of big objects uses.
Used == (held \cap Objects) \cup {b.node : b \in BigEntries}

ObjectsOf(l) == Superblocks(l) \X (1 .. FullSb(l))

\* The three sets of books agree with the objects in use, and so with each
\* other: every free_count, the free_objects of every level (which decides
\* whether malloc maps a new superblock) and its whole_superblocks (which
\* decides whether free gives one back).
BooksBalance ==
  \A l \in Level :
    /\ \A p \in Superblocks(l) :
         bkeep[p].free_count = Cardinality({i \in 1 .. FullSb(l) : <<p, i>> \notin Used})
    /\ free_objects[l] = Cardinality(ObjectsOf(l) \ Used)
    /\ whole_superblocks[l] = Cardinality({p \in Superblocks(l) : bkeep[p].free_count = FullSb(l)})

\* Every mapped page is one superblock in one chain or one big object that
\* the caller holds (so nothing leaks); everything in use lies in a mapped
\* page (so no superblock is given back under its objects); and no object
\* is used twice.
PagesAccounted ==
  LET bigs == {b \in BigEntries : b.addr # MAP_FAILED} IN
  /\ \A l \in Level : \A m, n \in 1 .. Len(pool[l]) : pool[l][m] = pool[l][n] => m = n
  /\ \A l \in Level : \A p \in Superblocks(l) : bkeep[p].level = l
  /\ mapped = (UNION {Superblocks(l) : l \in Level}) \cup {b.addr[1] : b \in bigs}
  /\ \A b \in bigs : \A l \in Level : b.addr[1] \notin Superblocks(l)
  /\ held \cap (Pages \X {0}) = {b.addr : b \in bigs}
  /\ Used \subseteq UNION {ObjectsOf(l) : l \in Level}
  /\ \A b \in BigEntries : b.node \notin held
  /\ \A b, c \in BigEntries : b.node = c.node => b = c

\* Whatever free and its memset do to the links, no free list leads to an
\* object in use: its head is free, and the link of a free object leads to
\* a free object if it leads to an object at all.
FreeListsAreFree ==
  \A l \in Level : \A p \in Superblocks(l) :
    LET free == {i \in 1 .. FullSb(l) : <<p, i>> \notin Used}
    IN  /\ bkeep[p].free_list \in Slots => bkeep[p].free_list \in free
        /\ \A i \in free : next[p][i] \in Slots => next[p][i] \in free

\* The block behind an address of the caller, as Heap sees it.  A superblock
\* is divided into objects of its level's size; a big object has pages of its
\* own, as many as it needs, which mmap has filled with zeros.
BlockAt(a) ==
  LET p    == a[1]
      size == IF a[2] = 0 THEN asked[a] ELSE ObjectSize(bkeep[p].level)
      word == IF a[2] = 0 THEN 0 ELSE next[p][a[2]]
      end  == IF a[2] = 0 THEN asked[a] ELSE SUPER_BLOCK_SIZE
  IN  [page |-> p, first |-> a[2] * size, size |-> size, asked |-> asked[a], word |-> word,
       mapped |-> p \in mapped /\ a[2] * size + size <= end]

HeapBlocks == {BlockAt(a) : a \in held \ {MAP_FAILED}}

Memory == INSTANCE Heap WITH blocks <- HeapBlocks

\* Each call has its own effect, which Heap alone cannot say: there, a malloc
\* that hands out an address twice would pass for no step at all.
CallsTakeEffect ==
  [][/\ pc = "idle" /\ pc' = "idle" =>
          \A size \in Sizes :
            /\ Malloc(size) => Memory!Malloc(size)
            /\ MallocBig(size) =>
                 \/ Memory!Malloc(size)
                 \/ HeapBlocks' = HeapBlocks /\ MAP_FAILED \in held'
     /\ pc = "idle" /\ pc' = "release" =>
          \E a \in held \ {MAP_FAILED} : held' = held \ {a} /\ Memory!Free(BlockAt(a))
     /\ pc = "release" => HeapBlocks' = HeapBlocks]_vars

\* malloc and free keep the promises of Heap: whatever the books, the free
\* lists and the release of superblocks do, a new block has no byte in common
\* with those in use and is as big as asked for, and a block in use keeps its
\* place, size and contents, and stays mapped, until it is freed.
ImplementsHeap == Memory!Spec /\ CallsTakeEffect

\* Level l is the smallest whose objects have size bytes.
SmallestFit(size, l) ==
  size <= ObjectSize(l) /\ (l > 0 => size > ObjectSize(l - 1))

\* The object behind an address of the caller is of the smallest level that
\* holds what was asked for, from the malloc to the free, whatever has
\* happened to its superblock in between.
FitsRequest ==
  \A p \in Pages, i \in Slots :
    <<p, i>> \in held => SmallestFit(asked[<<p, i>>], bkeep[p].level)

\* The assert at the end of malloc holds: when free_objects promises a free
\* object, some superblock of the chain has one.
SearchSucceeds ==
  \A l \in Level : free_objects[l] > 0 => \E p \in Pages : Serves(l, p)

\* While there are too many whole superblocks, curr is a superblock of the
\* chain (not NULL, not unmapped) and the loop has one to find: the first,
\* or one after curr.
ChainSafe ==
  TooManyWhole =>
    /\ curr \in 1 .. Len(pool[power])
    /\ \E n \in {1} \cup curr + 1 .. Len(pool[power]) : IsWhole(pool[power][n])

\* Between calls no level keeps more than the reserve of whole superblocks.
ReserveIsSmall ==
  pc = "idle" => \A l \in Level : whole_superblocks[l] <= RESERVE_SUPERBLOCK_THRESHOLD

\* Every call of free returns.
FreeReturns == pc = "release" ~> pc # "release"

\* th_alloc.c:38 and test1.c:157: the first word of a free object is "for
\* free list", the "next pointer".  Taking an object follows that pointer.
FreeListsLead == pc # "badlist"

=============================================================================
