----------------------------- MODULE HeapProof ------------------------------
(***************************************************************************)
(* Proof that Allocator implements Heap: what malloc and free promise      *)
(* their caller holds for any number of levels, pages and requests.        *)
(***************************************************************************)
EXTENDS AllocatorProof

\* The addresses of the blocks that the caller has.
Addresses == held \ {MAP_FAILED}

\* What AllocInv says of the blocks.
BlocksApart ==
  /\ \A a \in Addresses : /\ BlockAt(a).mapped /\ BlockAt(a).page = a[1]
                          /\ BlockAt(a).asked = asked[a] /\ asked[a] <= BlockAt(a).size
  /\ \A a, c \in Addresses :
       a # c => Memory!Apart(BlockAt(a), BlockAt(c)) /\ BlockAt(a) # BlockAt(c)

-----------------------------------------------------------------------------
(***************************************************************************)
(* The objects of a superblock                                             *)
(***************************************************************************)

\* The objects of one size lie one behind the other.
LEMMA ObjectsInARow ==
  ASSUME NEW s \in Nat, s > 0, NEW i \in Nat, NEW j \in Nat, i < j
  PROVE  /\ i * s \in Nat /\ j * s \in Nat
         /\ i * s + s <= j * s /\ i * s # j * s
<1>1. PICK d \in Nat : j = i + 1 + d
  <2>1. j - i - 1 \in Nat /\ j = i + 1 + (j - i - 1)
    OBVIOUS
  <2> QED BY <2>1
<1>2. j * s = i * s + s + d * s
  BY <1>1
<1>3. i * s \in Nat /\ j * s \in Nat /\ d * s \in Nat
  OBVIOUS
<1> QED BY <1>2, <1>3

LEMMA Quotient ==
  ASSUME NEW m \in Nat, NEW s \in Nat, s > 0
  PROVE  m \div s \in Nat /\ (m \div s) * s <= m
<1>1. (m \div s) * s <= m
  BY SMT
<1>2. m \div s \in Nat
  OBVIOUS
<1> QED BY <1>1, <1>2

\* They fit into their superblock behind the bookkeeping.
LEMMA ObjectsFit ==
  ASSUME NEW l \in Level, NEW i \in 1 .. FullSb(l)
  PROVE  /\ ObjectSize(l) \in Nat /\ ObjectSize(l) > 0
         /\ i * ObjectSize(l) + ObjectSize(l) <= SUPER_BLOCK_SIZE
<1> DEFINE s == ObjectSize(l)
           n == SUPER_BLOCK_SIZE \div s
<1>1. s \in Nat /\ s > 0 /\ SUPER_BLOCK_SIZE \in Nat
  <2>1. l \in Nat /\ l + 5 \in Nat /\ LEVELS + 5 \in Nat
    BY LevelsIsPositive DEF Level
  <2>2. 2 ^ (l + 5) \in Nat /\ 2 ^ (LEVELS + 5) \in Nat
    BY <2>1, PowerCounts
  <2>3. l + 5 <= 2 ^ (l + 5)
    BY <2>1, PowerExceeds
  <2> QED BY <2>1, <2>2, <2>3 DEF ObjectSize, SUPER_BLOCK_SIZE
<1>2. FullSb(l) = n - 1 /\ FullSb(l) \in Nat
  BY FullSbType DEF FullSb
<1>3. n \in Nat /\ n * s <= SUPER_BLOCK_SIZE
  <2> HIDE DEF s
  <2> QED BY <1>1, Quotient
<1> HIDE DEF s, n
<1>4. i \in Nat /\ i < n
  BY <1>2, <1>3
<1>5. i * s + s <= n * s /\ i * s \in Nat /\ n * s \in Nat
  BY <1>1, <1>3, <1>4, ObjectsInARow
<1> QED BY <1>1, <1>3, <1>5 DEF s

-----------------------------------------------------------------------------
(***************************************************************************)
(* The blocks in a state                                                   *)
(***************************************************************************)

\* An address of the caller is a big object's or an object's of a superblock.
LEMMA AddressIs ==
  ASSUME AllocInv, NEW a \in Addresses
  PROVE  /\ a \in Pointers /\ a[1] \in Pages /\ a[2] \in 0 .. FullSb(0) /\ a = <<a[1], a[2]>>
         /\ a[1] \in mapped
         /\ a[2] = 0 => \A l \in Level : a[1] \notin Superblocks(l)
         /\ a[2] # 0 => /\ a \in Used /\ a[2] \in Slots
                        /\ \E l \in Level : /\ a[1] \in Superblocks(l) /\ a[2] \in 1 .. FullSb(l)
                                            /\ bkeep[a[1]].level = l
<1> USE DEF AllocInv
<1>1. /\ a \in held /\ a \in Pointers /\ a[1] \in Pages /\ a[2] \in 0 .. FullSb(0)
      /\ a = <<a[1], a[2]>>
  BY DEF Addresses, TypeOK, Pointers
<1>2. CASE a[2] = 0
  <2>1. a \in held \cap (Pages \X {0})
    BY <1>1, <1>2
  <2>2. PICK b \in BigEntries : b.addr # MAP_FAILED /\ a = b.addr
    BY <2>1 DEF PagesAccounted
  <2>3. b \in Bigs
    BY <2>2 DEF Bigs
  <2>4. a[1] \in mapped
    BY <2>2, <2>3, BigFacts
  <2>5. \A l \in Level : a[1] \notin Superblocks(l)
    BY <2>2 DEF PagesAccounted
  <2> QED BY <1>1, <1>2, <2>4, <2>5
<1>3. CASE a[2] # 0
  <2>1. a[2] \in Slots
    BY <1>1, <1>3, FullSbType DEF Slots
  <2>2. a \in Used
    BY <1>1, <2>1 DEF Used, Objects
  <2>3. PICK l \in Level : \E p \in Superblocks(l), i \in 1 .. FullSb(l) : a = <<p, i>>
    BY <2>2, UsedInSuperblock
  <2>4. a[1] \in Superblocks(l) /\ a[2] \in 1 .. FullSb(l)
    BY <2>3
  <2>5. a[1] \in mapped /\ bkeep[a[1]].level = l
    BY <2>4, OneLevel
  <2> QED BY <1>1, <1>3, <2>1, <2>2, <2>4, <2>5
<1> QED BY <1>2, <1>3

\* The block of a big object, and of an object of a superblock.
LEMMA BigBlock ==
  ASSUME NEW a, a[2] = 0, asked[a] \in Nat
  PROVE  /\ BlockAt(a).page = a[1] /\ BlockAt(a).asked = asked[a]
         /\ BlockAt(a).first = 0 /\ BlockAt(a).size = asked[a]
         /\ a[1] \in mapped => BlockAt(a).mapped
<1>1. a[2] * asked[a] = 0 /\ a[2] * asked[a] + asked[a] <= asked[a]
  OBVIOUS
<1> QED BY <1>1 DEF BlockAt

LEMMA ObjectBlock ==
  ASSUME NEW a, NEW l \in Level, bkeep[a[1]].level = l, a[2] \in 1 .. FullSb(l)
  PROVE  /\ BlockAt(a).page = a[1] /\ BlockAt(a).asked = asked[a]
         /\ BlockAt(a).first = a[2] * ObjectSize(l) /\ BlockAt(a).size = ObjectSize(l)
         /\ a[1] \in mapped => BlockAt(a).mapped
<1>1. a[2] # 0 /\ a[2] * ObjectSize(l) + ObjectSize(l) <= SUPER_BLOCK_SIZE
  BY ObjectsFit, FullSbType
<1> QED BY <1>1 DEF BlockAt

LEMMA InvSeparates == AllocInv => BlocksApart
<1> SUFFICES ASSUME AllocInv PROVE BlocksApart
  OBVIOUS
<1>1. \A a \in Addresses : asked[a] \in Nat
  BY AddressIs, SizesArePositive DEF AllocInv, TypeOK
<1>2. ASSUME NEW a \in Addresses
      PROVE  /\ BlockAt(a).mapped /\ BlockAt(a).page = a[1]
             /\ BlockAt(a).asked = asked[a] /\ asked[a] <= BlockAt(a).size
  <2>1. CASE a[2] = 0
    <3>1. asked[a] \in Nat /\ a[1] \in mapped
      BY <1>1, AddressIs
    <3>2. /\ BlockAt(a).page = a[1] /\ BlockAt(a).asked = asked[a]
          /\ BlockAt(a).size = asked[a] /\ BlockAt(a).mapped
      BY <2>1, <3>1, BigBlock
    <3> QED BY <3>1, <3>2
  <2>2. CASE a[2] # 0
    <3>1. PICK l \in Level : bkeep[a[1]].level = l /\ a[2] \in 1 .. FullSb(l)
      BY <2>2, AddressIs
    <3>2. <<a[1], a[2]>> = a /\ a[1] \in Pages /\ a[2] \in Slots /\ a \in held /\ a[1] \in mapped
      BY <2>2, AddressIs DEF Addresses
    <3>3. asked[a] <= ObjectSize(l)
      BY <3>1, <3>2 DEF AllocInv, FitsRequest, SmallestFit
    <3> QED BY <3>1, <3>2, <3>3, ObjectBlock
  <2> QED BY <2>1, <2>2
<1>3. ASSUME NEW a \in Addresses, NEW c \in Addresses, a # c, a[1] = c[1]
      PROVE  Memory!Apart(BlockAt(a), BlockAt(c)) /\ BlockAt(a) # BlockAt(c)
  <2>1. a[2] # 0 /\ c[2] # 0
    BY <1>3, AddressIs
  <2>2. PICK l \in Level : bkeep[a[1]].level = l /\ a[2] \in 1 .. FullSb(l)
    BY <2>1, AddressIs
  <2>3. bkeep[c[1]].level = l /\ c[2] \in 1 .. FullSb(l)
    BY <1>3, <2>1, <2>2, AddressIs
  <2>4. a[2] \in Nat /\ c[2] \in Nat /\ a[2] # c[2]
    BY <1>3, <2>2, <2>3, AddressIs
  <2> DEFINE s == ObjectSize(l)
  <2>5. s \in Nat /\ s > 0
    BY <2>2, ObjectsFit
  <2>6. /\ BlockAt(a).first = a[2] * s /\ BlockAt(a).size = s
        /\ BlockAt(c).first = c[2] * s /\ BlockAt(c).size = s
    BY <2>2, <2>3, ObjectBlock
  <2> HIDE DEF s
  <2>7. CASE a[2] < c[2]
    BY <2>4, <2>5, <2>6, <2>7, ObjectsInARow DEF Memory!Apart
  <2>8. CASE c[2] < a[2]
    BY <2>4, <2>5, <2>6, <2>8, ObjectsInARow DEF Memory!Apart
  <2> QED BY <2>4, <2>7, <2>8
<1>4. ASSUME NEW a \in Addresses, NEW c \in Addresses, a[1] # c[1]
      PROVE  Memory!Apart(BlockAt(a), BlockAt(c)) /\ BlockAt(a) # BlockAt(c)
  BY <1>2, <1>4 DEF Memory!Apart
<1> QED BY <1>2, <1>3, <1>4 DEF BlocksApart

-----------------------------------------------------------------------------
(***************************************************************************)
(* What a step does to the blocks                                          *)
(***************************************************************************)

\* The step leaves alone what is behind address a.
Kept(a) ==
  /\ asked'[a] = asked[a] /\ a[1] \in mapped'
  /\ a[2] # 0 => /\ bkeep'[a[1]].level = bkeep[a[1]].level
                 /\ next'[a[1]][a[2]] = next[a[1]][a[2]]

LEMMA KeptBlock ==
  ASSUME AllocInv, NEW a \in Addresses, Kept(a)
  PROVE  BlockAt(a)' = BlockAt(a)
<1>1. a[1] \in mapped /\ a[1] \in mapped'
  BY AddressIs DEF Kept
<1>2. CASE a[2] = 0
  BY <1>1, <1>2 DEF Kept, BlockAt
<1>3. CASE a[2] # 0
  BY <1>1, <1>3 DEF Kept, BlockAt
<1> QED BY <1>2, <1>3

\* The caller has the same addresses: no block changes.
LEMMA SameBlocks ==
  ASSUME AllocInv, Addresses' = Addresses, \A a \in Addresses : Kept(a)
  PROVE  HeapBlocks' = HeapBlocks
<1>1. HeapBlocks = {BlockAt(a) : a \in Addresses}
  BY DEF HeapBlocks, Addresses
<1>2. HeapBlocks' = {BlockAt(a)' : a \in Addresses}
  BY DEF HeapBlocks, Addresses
<1>3. \A a \in Addresses : BlockAt(a)' = BlockAt(a)
  BY KeptBlock
<1> QED BY <1>1, <1>2, <1>3

\* The caller gets a new address.
LEMMA NewBlock ==
  ASSUME AllocInv, AllocInv', NEW size \in Sizes, NEW a, a \notin held, a # MAP_FAILED,
         held' = held \cup {a}, asked'[a] = size, \A c \in Addresses : Kept(c)
  PROVE  Memory!Malloc(size)
<1>1. Addresses' = Addresses \cup {a} /\ a \notin Addresses
  BY DEF Addresses
<1>2. BlocksApart'
  BY InvSeparates, PTL
<1>3. \A c \in Addresses : BlockAt(c)' = BlockAt(c)
  BY KeptBlock
<1>4. HeapBlocks = {BlockAt(c) : c \in Addresses}
  BY DEF HeapBlocks, Addresses
<1>5. HeapBlocks' = {BlockAt(c)' : c \in Addresses \cup {a}}
  BY <1>1 DEF HeapBlocks, Addresses
<1>6. PICK b : b = BlockAt(a)'
  OBVIOUS
<1>7. b \in HeapBlocks' /\ HeapBlocks' = HeapBlocks \cup {b}
  BY <1>3, <1>4, <1>5, <1>6
<1>8. b.mapped /\ b.asked = size /\ size <= b.size
  BY <1>1, <1>2, <1>6 DEF BlocksApart
<1>9. ASSUME NEW c \in HeapBlocks
      PROVE  Memory!Apart(b, c)
  <2>1. PICK d \in Addresses : c = BlockAt(d)
    BY <1>4
  <2>2. d \in Addresses' /\ a \in Addresses' /\ a # d /\ c = BlockAt(d)'
    BY <1>1, <1>3, <2>1
  <2> QED BY <1>2, <1>6, <2>2 DEF BlocksApart
<1> QED BY <1>7, <1>8, <1>9 DEF Memory!Malloc

\* The caller gives an address up.
LEMMA OldBlock ==
  ASSUME AllocInv, NEW a \in Addresses,
         held' = held \ {a}, \A c \in Addresses \ {a} : Kept(c)
  PROVE  Memory!Free(BlockAt(a))
<1>1. Addresses' = Addresses \ {a}
  BY DEF Addresses
<1>2. BlocksApart
  BY InvSeparates
<1>3. \A c \in Addresses \ {a} : BlockAt(c)' = BlockAt(c)
  BY KeptBlock
<1>4. HeapBlocks = {BlockAt(c) : c \in Addresses}
  BY DEF HeapBlocks, Addresses
<1>5. HeapBlocks' = {BlockAt(c)' : c \in Addresses \ {a}}
  BY <1>1 DEF HeapBlocks, Addresses
<1>6. HeapBlocks' = {BlockAt(c) : c \in Addresses \ {a}}
  BY <1>3, <1>5
<1>7. \A c \in Addresses \ {a} : BlockAt(c) # BlockAt(a)
  BY <1>2 DEF BlocksApart
<1>8. HeapBlocks' = HeapBlocks \ {BlockAt(a)}
  BY <1>4, <1>6, <1>7
<1> QED BY <1>8 DEF Memory!Free

-----------------------------------------------------------------------------
(***************************************************************************)
(* The steps                                                               *)
(***************************************************************************)

\* Taking an object changes nothing behind the addresses of the caller.
LEMMA TakeKeepsBlocks ==
  ASSUME AllocInv, NEW l \in Level, NEW p \in Pages, NEW i \in Slots, Take(l, p, i),
         NEW c \in Addresses, asked'[c] = asked[c], mapped \cup {p} \in SUBSET mapped'
  PROVE  Kept(c)
<1> USE DEF AllocInv
<1>1. c[1] \in mapped'
  BY AddressIs
<1>2. ASSUME c[2] # 0
      PROVE  bkeep'[c[1]].level = bkeep[c[1]].level /\ next'[c[1]][c[2]] = next[c[1]][c[2]]
  <2>1. /\ c[1] \in Pages /\ c[2] \in Slots /\ c = <<c[1], c[2]>>
        /\ c \in held /\ c \in Used /\ c[1] \in mapped
    BY <1>2, AddressIs DEF Addresses
  <2>2. bkeep'[c[1]].level = bkeep[c[1]].level
    BY <2>1, TakeKeepsBooks, TakeKeepsPages
  <2>3. next \in [Pages -> [Slots -> Links]]
    BY DEF TypeOK
  <2>4. CASE TakeOld(l, p, i)
    <3>1. <<p, i>> # c
      BY <2>1, <2>4, TakeOldFrom
    <3>2. next' = [next EXCEPT ![p][i] = ALLOC_POISON]
      BY <2>4 DEF TakeOld
    <3>3. next'[c[1]][c[2]] = next[c[1]][c[2]]
      BY <2>1, <2>3, <3>1, <3>2
    <3> QED BY <2>2, <3>3
  <2>5. CASE TakeNew(l, p, i)
    <3>1. c[1] # p
      BY <2>1, <2>5 DEF TakeNew
    <3>2. next' = [next EXCEPT ![p] = [NewList(l) EXCEPT ![i] = ALLOC_POISON]]
      BY <2>5 DEF TakeNew
    <3>3. next'[c[1]][c[2]] = next[c[1]][c[2]]
      BY <2>1, <2>3, <3>1, <3>2
    <3> QED BY <2>2, <3>3
  <2> QED BY <2>4, <2>5 DEF Take
<1> QED BY <1>1, <1>2 DEF Kept

\* Putting an object back changes nothing behind the other addresses.
LEMMA PutBackKeepsBlocks ==
  ASSUME AllocInv, NEW p \in Pages, NEW i \in Slots, PutBack(p, i), <<p, i>> \in Used,
         NEW c \in Addresses, c # <<p, i>>, asked'[c] = asked[c], c[1] \in mapped'
  PROVE  Kept(c)
<1> USE DEF AllocInv
<1> SUFFICES ASSUME c[2] # 0
             PROVE  bkeep'[c[1]].level = bkeep[c[1]].level /\ next'[c[1]][c[2]] = next[c[1]][c[2]]
  BY DEF Kept
<1>1. c[1] \in Pages /\ c[2] \in Slots /\ c = <<c[1], c[2]>>
  BY AddressIs
<1>2. /\ next \in [Pages -> [Slots -> Links]] /\ next' = [next EXCEPT ![p][i] = FREE_POISON]
      /\ bkeep \in [Pages -> Bookkeeping]
  BY DEF TypeOK, PutBack
<1>3. bkeep' = [bkeep EXCEPT ![p] = [level |-> bkeep[p].level,
              free_list |-> i, free_count |-> bkeep[p].free_count + 1]]
  BY PutBackFrom
<1>4. bkeep'[c[1]].level = bkeep[c[1]].level
  BY <1>1, <1>2, <1>3
<1>5. next'[c[1]][c[2]] = next[c[1]][c[2]]
  BY <1>1, <1>2
<1> QED BY <1>4, <1>5

\* Nobody uses a superblock that is given back.
LEMMA ReleaseKeepsBlocks ==
  ASSUME AllocInv, NEW n \in 1 .. Len(pool[power]), IsWhole(pool[power][n]), Release(n),
         NEW c \in Addresses, asked' = asked
  PROVE  Kept(c)
<1>1. PICK l : l = power
  OBVIOUS
<1>2. PICK p : p = pool[l][n]
  OBVIOUS
<1>3. l \in Level /\ p \in Superblocks(l) /\ \A i \in 1 .. FullSb(l) : <<p, i>> \notin Used
  <2>1. n \in 1 .. Len(pool[l]) /\ IsWhole(p)
    BY <1>1, <1>2
  <2>2. ReleaseShape(l, p)
    BY <1>1, <1>2, <2>1, ReleaseKeepsShape
  <2>3. l \in Level
    BY <1>1 DEF AllocInv, TypeOK
  <2> QED BY <2>2, <2>3 DEF ReleaseShape
<1>4. /\ mapped' = mapped \ {p}
      /\ bkeep' = [bkeep EXCEPT ![p] = NoBkeep] /\ next' = [next EXCEPT ![p] = NoNext]
  BY <1>1, <1>2 DEF Release
<1>5. c[1] # p
  <2>1. CASE c[2] = 0
    BY <1>3, <2>1, AddressIs
  <2>2. CASE c[2] # 0
    <3>1. PICK k \in Level : /\ c[1] \in Superblocks(k) /\ c[2] \in 1 .. FullSb(k)
                             /\ c \in Used /\ c = <<c[1], c[2]>>
      BY <2>2, AddressIs
    <3>2. c[1] = p => k = l
      <4>1. TypeOK /\ PagesAccounted
        BY DEF AllocInv
      <4> QED BY <1>3, <3>1, <4>1, OneLevel
    <3> QED BY <1>3, <3>1, <3>2
  <2> QED BY <2>1, <2>2
<1>6. bkeep \in [Pages -> Bookkeeping] /\ next \in [Pages -> [Slots -> Links]]
  BY DEF AllocInv, TypeOK
<1>7. c[1] \in Pages /\ c[1] \in mapped
  BY AddressIs
<1> QED BY <1>4, <1>5, <1>6, <1>7 DEF Kept

\* malloc of a size that a superblock serves.
LEMMA MallocMakesBlock ==
  ASSUME AllocInv, AllocInv', NEW size \in Sizes, Malloc(size)
  PROVE  Memory!Malloc(size)
<1> DEFINE lvl == size2level(size)
<1>1. PICK p \in Pages, i \in Slots :
        /\ Take(lvl, p, i) /\ mapped' = mapped \cup {p} /\ Give(<<p, i>>, size)
  BY DEF Malloc
<1>2. lvl \in Level
  BY LevelFits DEF Malloc
<1> HIDE DEF lvl
<1>3. <<p, i>> \in Objects /\ <<p, i>> \in Pointers /\ <<p, i>> # MAP_FAILED
  BY AddressFacts DEF Objects
<1>4. <<p, i>> \notin held
  <2>1. <<p, i>> \notin Used
    BY <1>1, <1>2, TakeKeepsBooks DEF TakeShape
  <2> QED BY <1>3, <2>1 DEF Used
<1>5. asked \in [Pointers -> Sizes \cup {0}]
  BY DEF AllocInv, TypeOK
<1>6. /\ held' = held \cup {<<p, i>>} /\ asked'[<<p, i>>] = size
      /\ \A c \in Pointers : c # <<p, i>> => asked'[c] = asked[c]
  BY <1>1, <1>3, <1>5 DEF Give
<1>7. ASSUME NEW c \in Addresses PROVE Kept(c)
  <2>1. c \in Pointers /\ c # <<p, i>>
    BY <1>4, AddressIs DEF Addresses
  <2> QED BY <1>1, <1>2, <1>6, <2>1, TakeKeepsBlocks
<1> QED BY <1>3, <1>4, <1>6, <1>7, NewBlock

\* malloc of a bigger size; where mmap fails, the caller gets MAP_FAILED.
LEMMA MallocBigMakesBlock ==
  ASSUME AllocInv, AllocInv', NEW size \in Sizes, MallocBig(size)
  PROVE  \/ Memory!Malloc(size)
         \/ HeapBlocks' = HeapBlocks /\ MAP_FAILED \in held'
<1>1. PICK p \in Pages, i \in Slots :
        /\ Take(0, p, i)
        /\ \/ \E q \in Pages \ (mapped \cup {p}) :
                /\ mapped' = mapped \cup {p, q} /\ Give(<<q, 0>>, size)
           \/ /\ mapped' = mapped \cup {p}
              /\ held' = held \cup {MAP_FAILED} /\ asked' = asked
  BY DEF MallocBig
<1>2. 0 \in Level /\ asked \in [Pointers -> Sizes \cup {0}]
  BY FullSbType DEF AllocInv, TypeOK
<1>3. ASSUME NEW q \in Pages \ (mapped \cup {p}),
             mapped' = mapped \cup {p, q}, Give(<<q, 0>>, size)
      PROVE  Memory!Malloc(size)
  <2>1. <<q, 0>> \in Pointers /\ <<q, 0>> # MAP_FAILED
    BY AddressFacts
  <2>2. <<q, 0>> \notin held
    <3>1. q \notin mapped
      BY <1>3
    <3> QED BY <2>1, <3>1, AddressIs DEF Addresses
  <2>3. /\ held' = held \cup {<<q, 0>>} /\ asked'[<<q, 0>>] = size
        /\ \A c \in Pointers : c # <<q, 0>> => asked'[c] = asked[c]
    BY <1>2, <1>3, <2>1 DEF Give
  <2>4. ASSUME NEW c \in Addresses PROVE Kept(c)
    <3>1. c \in Pointers /\ c # <<q, 0>>
      BY <2>2, AddressIs DEF Addresses
    <3> QED BY <1>1, <1>2, <1>3, <2>3, <3>1, TakeKeepsBlocks
  <2> QED BY <2>1, <2>2, <2>3, <2>4, NewBlock
<1>4. ASSUME mapped' = mapped \cup {p}, held' = held \cup {MAP_FAILED}, asked' = asked
      PROVE  HeapBlocks' = HeapBlocks /\ MAP_FAILED \in held'
  <2>1. Addresses' = Addresses
    BY <1>4 DEF Addresses
  <2>2. \A c \in Addresses : Kept(c)
    BY <1>1, <1>2, <1>4, TakeKeepsBlocks
  <2> QED BY <1>4, <2>1, <2>2, SameBlocks
<1> QED BY <1>1, <1>3, <1>4

\* free, up to the loop that gives superblocks back.
FreesOne == \E a \in Addresses : held' = held \ {a} /\ Memory!Free(BlockAt(a))

LEMMA FreeObjectTakesBlock ==
  ASSUME AllocInv, FreeObject
  PROVE  FreesOne
<1>1. PICK p \in Pages, i \in Slots :
        /\ <<p, i>> \in held /\ PutBack(p, i) /\ mapped' = mapped
        /\ held' = held \ {<<p, i>>} /\ asked' = [asked EXCEPT ![<<p, i>>] = 0]
  BY DEF FreeObject, GiveUp
<1>2. /\ <<p, i>> \in Objects /\ <<p, i>> \in Pointers /\ <<p, i>> \in Used
      /\ <<p, i>> \in Addresses
  BY <1>1, AddressFacts DEF Objects, Used, Addresses
<1>3. asked \in [Pointers -> Sizes \cup {0}]
  BY DEF AllocInv, TypeOK
<1>4. ASSUME NEW c \in Addresses \ {<<p, i>>} PROVE Kept(c)
  <2>1. c \in Pointers /\ c \in Addresses /\ c # <<p, i>> /\ c[1] \in mapped'
    BY <1>1, AddressIs
  <2>2. asked'[c] = asked[c]
    BY <1>1, <1>3, <2>1
  <2> QED BY <1>1, <1>2, <2>1, <2>2, PutBackKeepsBlocks
<1>5. Memory!Free(BlockAt(<<p, i>>))
  BY <1>1, <1>2, <1>4, OldBlock
<1> QED BY <1>1, <1>2, <1>5 DEF FreesOne

LEMMA FreeBigTakesBlock ==
  ASSUME AllocInv, FreeBig
  PROVE  FreesOne
<1> USE DEF AllocInv
<1>1. PICK n \in 1 .. Len(big_object_list) :
        LET big == big_object_list[n] IN
        /\ big.addr \in held \ {MAP_FAILED}
        /\ mapped' = mapped \ {big.addr[1]}
        /\ big_object_list' = RemoveAt(big_object_list, n)
        /\ held' = held \ {big.addr} /\ asked' = [asked EXCEPT ![big.addr] = 0]
        /\ PutBack(big.node[1], big.node[2])
  BY DEF FreeBig, GiveUp
<1>2. PICK big : big = big_object_list[n]
  OBVIOUS
<1>3. /\ big.addr \in Addresses /\ big.addr # MAP_FAILED /\ mapped' = mapped \ {big.addr[1]}
      /\ big_object_list' = RemoveAt(big_object_list, n)
      /\ held' = held \ {big.addr} /\ asked' = [asked EXCEPT ![big.addr] = 0]
      /\ PutBack(big.node[1], big.node[2])
  BY <1>1, <1>2 DEF Addresses
<1>4. big \in Bigs /\ big \in BigEntries
  BY <1>2, <1>3, UnlinkBig DEF Bigs
<1>5. PICK p \in Pages, i \in Slots : big.node = <<p, i>>
  BY <1>4, BigFacts DEF Objects
<1>6. PutBack(p, i) /\ <<p, i>> \in Used /\ <<p, i>> \notin held
  BY <1>3, <1>4, <1>5, BigFacts
<1>7. /\ big.addr = <<big.addr[1], 0>> /\ big.addr \in Pointers
      /\ \A l \in Level : big.addr[1] \notin Superblocks(l)
  <2>1. big.addr = <<big.addr[1], 0>>
    BY <1>4, BigFacts
  <2>2. big.addr[2] = 0
    BY <2>1
  <2> QED BY <1>3, <2>1, <2>2, AddressIs
<1>8. asked \in [Pointers -> Sizes \cup {0}]
  BY DEF TypeOK
<1>9. ASSUME NEW c \in Addresses \ {big.addr} PROVE Kept(c)
  <2>1. c \in Pointers /\ c \in Addresses /\ c # big.addr /\ c[1] \in mapped
    BY AddressIs
  <2>2. c[1] # big.addr[1]
    <3>1. CASE c[2] = 0
      <4>1. c = <<c[1], 0>>
        BY <2>1, <3>1, AddressIs
      <4> QED BY <1>7, <2>1, <4>1
    <3>2. CASE c[2] # 0
      BY <1>7, <2>1, <3>2, AddressIs
    <3> QED BY <3>1, <3>2
  <2>3. asked'[c] = asked[c] /\ c[1] \in mapped' /\ c # <<p, i>>
    BY <1>3, <1>6, <1>8, <2>1, <2>2 DEF Addresses
  <2> QED BY <1>6, <2>1, <2>3, PutBackKeepsBlocks
<1>10. Memory!Free(BlockAt(big.addr))
  BY <1>3, <1>9, OldBlock
<1> QED BY <1>3, <1>10 DEF FreesOne

\* The loop that gives superblocks back.
LEMMA ReleaseStepKeepsBlocks ==
  ASSUME AllocInv, ReleaseStep
  PROVE  HeapBlocks' = HeapBlocks
<1>1. held' = held /\ asked' = asked /\ Addresses' = Addresses
  BY DEF ReleaseStep, ReleaseFirst, ReleaseLater, ReleaseDone, Addresses
<1>2. ASSUME UNCHANGED <<bkeep, next, mapped>>, NEW c \in Addresses
      PROVE  Kept(c)
  BY <1>1, <1>2, AddressIs DEF Kept
<1>3. power \in Level /\ Len(pool[power]) \in Nat
  BY DEF AllocInv, TypeOK
<1>4. ASSUME ReleaseFirst, NEW c \in Addresses PROVE Kept(c)
  <2>1. curr \in 1 .. Len(pool[power]) /\ IsWhole(pool[power][1]) /\ Release(1)
    BY <1>4 DEF ReleaseFirst
  <2>2. 1 \in 1 .. Len(pool[power])
    BY <1>3, <2>1
  <2> QED BY <1>1, <2>1, <2>2, ReleaseKeepsBlocks
<1>5. ASSUME ReleaseLater, NEW c \in Addresses PROVE Kept(c)
  <2>1. CASE IsWhole(pool[power][curr + 1])
    <3>1. curr \in 1 .. Len(pool[power]) - 1 /\ Release(curr + 1)
      BY <1>5, <2>1 DEF ReleaseLater
    <3>2. curr + 1 \in 1 .. Len(pool[power])
      BY <1>3, <3>1
    <3> QED BY <1>1, <2>1, <3>1, <3>2, ReleaseKeepsBlocks
  <2>2. CASE ~IsWhole(pool[power][curr + 1])
    BY <1>2, <1>5, <2>2 DEF ReleaseLater
  <2> QED BY <2>1, <2>2
<1>6. ASSUME ReleaseDone, NEW c \in Addresses PROVE Kept(c)
  BY <1>2, <1>6 DEF ReleaseDone
<1>7. \A c \in Addresses : Kept(c)
  BY <1>4, <1>5, <1>6 DEF ReleaseStep
<1> QED BY <1>1, <1>7, SameBlocks

\* A crash is the end of the program, not of a block.
LEMMA StillKeepsBlocks ==
  ASSUME AllocInv, UNCHANGED <<bkeep, next, mapped, held, asked>>
  PROVE  HeapBlocks' = HeapBlocks
<1>1. Addresses' = Addresses
  BY DEF Addresses
<1>2. \A c \in Addresses : Kept(c)
  BY AddressIs DEF Kept
<1> QED BY <1>1, <1>2, SameBlocks

\* What CallsTakeEffect says of one step.
TakesEffect ==
  /\ pc = "idle" /\ pc' = "idle" =>
       \A size \in Sizes :
         /\ Malloc(size) => Memory!Malloc(size)
         /\ MallocBig(size) =>
              \/ Memory!Malloc(size)
              \/ HeapBlocks' = HeapBlocks /\ MAP_FAILED \in held'
  /\ pc = "idle" /\ pc' = "release" =>
       \E a \in held \ {MAP_FAILED} : held' = held \ {a} /\ Memory!Free(BlockAt(a))
  /\ pc = "release" => HeapBlocks' = HeapBlocks

LEMMA StepTakesEffect == AllocInv /\ AllocInv' /\ [Next]_vars => [TakesEffect]_vars
<1> SUFFICES ASSUME AllocInv, AllocInv', Next PROVE TakesEffect
  OBVIOUS
<1>1. ASSUME NEW size \in Sizes
      PROVE  /\ Malloc(size) => Memory!Malloc(size)
             /\ MallocBig(size) => \/ Memory!Malloc(size)
                                   \/ HeapBlocks' = HeapBlocks /\ MAP_FAILED \in held'
  BY MallocMakesBlock, MallocBigMakesBlock
<1>2. ASSUME pc = "idle", pc' = "release"
      PROVE  FreesOne
  <2>1. \A size \in Sizes : ~Malloc(size) /\ ~MallocBig(size)
    BY <1>2 DEF Malloc, MallocBig
  <2>2. \A size \in Sizes : ~MallocCrash(size)
    BY <1>2 DEF MallocCrash, Crash
  <2>3. ~FreeFailed
    BY <1>2 DEF FreeFailed, Crash
  <2>4. ~ReleaseStep
    BY <1>2 DEF ReleaseStep, ReleaseFirst, ReleaseLater, ReleaseDone, TooManyWhole
  <2>5. FreeObject \/ FreeBig
    BY <2>1, <2>2, <2>3, <2>4 DEF Next
  <2> QED BY <2>5, FreeObjectTakesBlock, FreeBigTakesBlock
<1>3. ASSUME pc = "release"
      PROVE  HeapBlocks' = HeapBlocks
  <2>1. \A size \in Sizes : ~Malloc(size) /\ ~MallocBig(size) /\ ~MallocCrash(size)
    BY <1>3 DEF Malloc, MallocBig, MallocCrash
  <2>2. ~FreeObject /\ ~FreeBig /\ ~FreeFailed
    BY <1>3 DEF FreeObject, FreeBig, FreeFailed
  <2>3. ReleaseStep
    BY <2>1, <2>2 DEF Next
  <2> QED BY <2>3, ReleaseStepKeepsBlocks
<1> QED BY <1>1, <1>2, <1>3 DEF TakesEffect, FreesOne, Addresses

LEMMA StepImplementsHeap == AllocInv /\ AllocInv' /\ [Next]_vars => [Memory!Next]_HeapBlocks
<1> SUFFICES ASSUME AllocInv, AllocInv', [Next]_vars
             PROVE  Memory!Next \/ HeapBlocks' = HeapBlocks
  OBVIOUS
<1>1. ASSUME NEW size \in Sizes, Malloc(size)
      PROVE  Memory!Next
  BY <1>1, MallocMakesBlock DEF Memory!Next
<1>2. ASSUME NEW size \in Sizes, MallocBig(size)
      PROVE  Memory!Next \/ HeapBlocks' = HeapBlocks
  BY <1>2, MallocBigMakesBlock DEF Memory!Next
<1>3. ASSUME NEW size \in Sizes, MallocCrash(size)
      PROVE  HeapBlocks' = HeapBlocks
  BY <1>3, StillKeepsBlocks DEF MallocCrash, Crash
<1>4. CASE FreeObject \/ FreeBig
  <2>1. PICK a \in Addresses : Memory!Free(BlockAt(a))
    BY <1>4, FreeObjectTakesBlock, FreeBigTakesBlock DEF FreesOne
  <2>2. BlockAt(a) \in HeapBlocks
    BY <2>1 DEF HeapBlocks, Addresses
  <2> QED BY <2>1, <2>2 DEF Memory!Next
<1>5. CASE FreeFailed
  BY <1>5, StillKeepsBlocks DEF FreeFailed, Crash
<1>6. CASE ReleaseStep
  BY <1>6, ReleaseStepKeepsBlocks
<1>7. CASE UNCHANGED vars
  BY <1>7, StillKeepsBlocks DEF vars
<1> QED BY <1>1, <1>2, <1>3, <1>4, <1>5, <1>6, <1>7 DEF Next

-----------------------------------------------------------------------------
(***************************************************************************)
(* Theorems                                                                *)
(***************************************************************************)

\* malloc and free, with their superblocks, free lists and the loop that
\* gives superblocks back, do what Heap promises, and each call has the
\* effect it should have.
THEOREM AllocatorImplementsHeap == Spec => ImplementsHeap
<1>1. Init => Memory!Init
  BY DEF Init, Memory!Init, HeapBlocks
<1>2. Spec => Memory!Spec
  BY <1>1, StepImplementsHeap, AllocInvHolds, PTL DEF Spec, Memory!Spec
<1>3. Spec => [][TakesEffect]_vars
  BY StepTakesEffect, AllocInvHolds, PTL DEF Spec
<1>4. [][TakesEffect]_vars <=> CallsTakeEffect
  BY DEF CallsTakeEffect, TakesEffect
<1> QED BY <1>2, <1>3, <1>4 DEF ImplementsHeap

\* No two blocks of the caller have a byte in common, each lies in mapped
\* memory, and each is as long as was asked for.
THEOREM BlocksAlwaysGood == Spec => []Memory!BlocksAreGood
<1>1. AllocInv => Memory!BlocksAreGood
  <2> SUFFICES ASSUME BlocksApart PROVE Memory!BlocksAreGood
    BY InvSeparates
  <2>1. \A b \in HeapBlocks : \E a \in Addresses : b = BlockAt(a)
    BY DEF HeapBlocks, Addresses
  <2>2. ASSUME NEW b \in HeapBlocks, NEW c \in HeapBlocks, b # c
        PROVE  Memory!Apart(b, c)
    BY <2>1, <2>2 DEF BlocksApart
  <2>3. ASSUME NEW b \in HeapBlocks
        PROVE  b.mapped /\ b.asked <= b.size
    BY <2>1 DEF BlocksApart
  <2> QED BY <2>2, <2>3 DEF Memory!BlocksAreGood
<1> QED BY <1>1, AllocInvHolds, PTL

=============================================================================
