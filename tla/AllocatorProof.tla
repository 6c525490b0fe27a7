--------------------------- MODULE AllocatorProof ---------------------------
(***************************************************************************)
(* Proofs about Allocator, for any number of levels and pages, any reserve *)
(* and any requests: the three sets of books agree, pages and objects are  *)
(* accounted for, and the loop that gives superblocks back is safe.        *)
(***************************************************************************)
EXTENDS Allocator, SequenceTheorems, FiniteSetTheorems, WellFoundedInduction, TLAPS

\* The free objects of superblock p, and the whole superblocks of level l.
FreeIn(l, p) == {i \in 1 .. FullSb(l) : <<p, i>> \notin Used}
Whole(l)     == {p \in Superblocks(l) : bkeep[p].free_count = FullSb(l)}

\* What PagesAccounted leaves open: the list of big objects has no entry
\* twice, and no address twice.
BigsApart ==
  \A m, n \in 1 .. Len(big_object_list) :
    \/ big_object_list[m].node = big_object_list[n].node
    \/ /\ big_object_list[m].addr = big_object_list[n].addr
       /\ big_object_list[m].addr # MAP_FAILED
    => m = n

\* A link between free objects is one that alloc_super has made, and its
\* target is not the head of the list: so taking the head leaves no link to
\* an object in use.
LinksLead ==
  \A l \in Level : \A p \in Superblocks(l) : \A i \in FreeIn(l, p) :
    next[p][i] \in Slots =>
      /\ next[p][i] = i - 1 /\ i - 1 \in FreeIn(l, p)
      /\ bkeep[p].free_list # i - 1

\* At most one superblock too many is whole, and only while free is about to
\* give it back.
WholeLimit ==
  pc \in {"idle", "release"} =>
    \A l \in Level :
      whole_superblocks[l] <= RESERVE_SUPERBLOCK_THRESHOLD
                                + (IF pc = "release" /\ l = power THEN 1 ELSE 0)

AllocInv ==
  /\ TypeOK
  /\ BooksBalance /\ PagesAccounted /\ BigsApart
  /\ FreeListsAreFree /\ LinksLead
  /\ FitsRequest
  /\ WholeLimit /\ ChainSafe

-----------------------------------------------------------------------------
(***************************************************************************)
(* Sequences                                                               *)
(***************************************************************************)

LEMMA RemoveAtProperties ==
  ASSUME NEW S, NEW s \in Seq(S), NEW n \in 1 .. Len(s)
  PROVE  /\ RemoveAt(s, n) \in Seq(S)
         /\ Len(RemoveAt(s, n)) = Len(s) - 1
         /\ \A k \in 1 .. Len(s) - 1 :
              RemoveAt(s, n)[k] = IF k < n THEN s[k] ELSE s[k + 1]
<1> DEFINE before == SubSeq(s, 1, n - 1)
           after  == SubSeq(s, n + 1, Len(s))
<1>1. /\ before \in Seq(S) /\ Len(before) = n - 1
      /\ \A k \in 1 .. n - 1 : before[k] = s[k]
  OBVIOUS
<1>2. /\ after \in Seq(S) /\ Len(after) = Len(s) - n
      /\ \A k \in 1 .. Len(s) - n : after[k] = s[n + k]
  OBVIOUS
<1>3. RemoveAt(s, n) = before \o after
  BY DEF RemoveAt
<1> HIDE DEF before, after
<1>4. /\ before \o after \in Seq(S)
      /\ Len(before \o after) = Len(s) - 1
  BY <1>1, <1>2
<1>5. \A k \in 1 .. Len(s) - 1 :
        (before \o after)[k] = IF k < n THEN s[k] ELSE s[k + 1]
  <2> TAKE k \in 1 .. Len(s) - 1
  <2>1. (before \o after)[k] = IF k <= n - 1 THEN before[k] ELSE after[k - (n - 1)]
    BY <1>1, <1>2, ConcatProperties
  <2>2. CASE k < n
    BY <1>1, <2>1, <2>2
  <2>3. CASE k >= n
    <3>1. k - (n - 1) \in 1 .. Len(s) - n /\ n + (k - (n - 1)) = k + 1
      BY <2>3
    <3>2. ~(k < n) /\ ~(k <= n - 1)
      BY <2>3
    <3> QED BY <1>2, <2>1, <3>1, <3>2
  <2>4. k < n \/ k >= n
    OBVIOUS
  <2> QED BY <2>2, <2>3, <2>4
<1> QED BY <1>3, <1>4, <1>5

\* Without repetitions the element goes out of the set too, and no other.
LEMMA RemoveAtSet ==
  ASSUME NEW S, NEW s \in Seq(S), NEW n \in 1 .. Len(s),
         \A i, j \in 1 .. Len(s) : s[i] = s[j] => i = j
  PROVE  /\ ToSet(RemoveAt(s, n)) = ToSet(s) \ {s[n]}
         /\ \A i, j \in 1 .. Len(s) - 1 :
              RemoveAt(s, n)[i] = RemoveAt(s, n)[j] => i = j
<1> DEFINE r == RemoveAt(s, n)
<1>1. /\ r \in Seq(S) /\ Len(r) = Len(s) - 1
      /\ \A k \in 1 .. Len(s) - 1 : r[k] = IF k < n THEN s[k] ELSE s[k + 1]
  BY RemoveAtProperties
<1> HIDE DEF r
<1>2. DOMAIN r = 1 .. Len(s) - 1 /\ DOMAIN s = 1 .. Len(s)
  BY <1>1
<1>3. ASSUME NEW k \in DOMAIN r PROVE r[k] \in ToSet(s) \ {s[n]}
  <2>1. CASE k < n
    BY <1>1, <1>2, <2>1 DEF ToSet
  <2>2. CASE k >= n
    <3>1. k + 1 \in DOMAIN s /\ k + 1 # n /\ r[k] = s[k + 1]
      BY <1>1, <1>2, <2>2
    <3> QED BY <3>1, <1>2 DEF ToSet
  <2> QED BY <1>2, <2>1, <2>2
<1>4. ASSUME NEW k \in DOMAIN s, k # n PROVE s[k] \in ToSet(r)
  <2>1. CASE k < n
    <3>1. k \in DOMAIN r /\ r[k] = s[k]
      BY <1>1, <1>2, <2>1
    <3> QED BY <3>1 DEF ToSet
  <2>2. CASE k > n
    <3>1. k - 1 \in DOMAIN r /\ r[k - 1] = s[k]
      BY <1>1, <1>2, <2>2
    <3> QED BY <3>1 DEF ToSet
  <2> QED BY <1>2, <1>4, <2>1, <2>2
<1>5. ToSet(r) = ToSet(s) \ {s[n]}
  BY <1>3, <1>4 DEF ToSet
<1>6. \A i, j \in 1 .. Len(s) - 1 : r[i] = r[j] => i = j
  <2> SUFFICES ASSUME NEW i \in 1 .. Len(s) - 1, NEW j \in 1 .. Len(s) - 1,
                      r[i] = r[j], i < j
               PROVE  FALSE
    OBVIOUS
  <2>1. CASE j < n
    BY <1>1, <2>1
  <2>2. CASE i < n /\ j >= n
    BY <1>1, <2>2
  <2>3. CASE i >= n
    BY <1>1, <2>3
  <2> QED BY <2>1, <2>2, <2>3
<1> QED BY <1>5, <1>6 DEF r

LEMMA PrependProperties ==
  ASSUME NEW S, NEW s \in Seq(S), NEW x \in S
  PROVE  /\ <<x>> \o s \in Seq(S)
         /\ Len(<<x>> \o s) = Len(s) + 1
         /\ \A k \in 1 .. Len(s) + 1 :
              (<<x>> \o s)[k] = IF k = 1 THEN x ELSE s[k - 1]
         /\ ToSet(<<x>> \o s) = ToSet(s) \cup {x}
<1> DEFINE t == <<x>> \o s
<1>1. /\ t \in Seq(S) /\ Len(t) = Len(s) + 1
      /\ \A k \in 1 .. Len(s) + 1 : t[k] = IF k = 1 THEN x ELSE s[k - 1]
  OBVIOUS
<1> HIDE DEF t
<1>2. DOMAIN t = 1 .. Len(s) + 1 /\ DOMAIN s = 1 .. Len(s)
  BY <1>1
<1>3. \A k \in DOMAIN t : t[k] \in ToSet(s) \cup {x}
  BY <1>1, <1>2 DEF ToSet
<1>4. x = t[1] /\ 1 \in DOMAIN t
  BY <1>1, <1>2
<1>5. \A k \in DOMAIN s : s[k] = t[k + 1] /\ k + 1 \in DOMAIN t
  BY <1>1, <1>2
<1>6. ToSet(t) = ToSet(s) \cup {x}
  BY <1>3, <1>4, <1>5 DEF ToSet
<1> QED BY <1>1, <1>6 DEF t

-----------------------------------------------------------------------------
(***************************************************************************)
(* Powers of two and size classes                                          *)
(***************************************************************************)

LEMMA SmallestNat ==
  ASSUME NEW T \in SUBSET Nat, T # {}
  PROVE  \E n \in T : \A m \in T : n <= m
<1> DEFINE R == OpToRel(<, Nat)
<1>1. IsWellFoundedOn(R, Nat)
  BY NatLessThanWellFounded
<1> HIDE DEF R
<1>2. PICK n \in T : \A m \in T : ~ (<<m, n>> \in R)
  BY <1>1, WFMin
<1>3. \A m \in T : ~ (m < n)
  BY <1>2 DEF R, OpToRel
<1>4. \A m \in T : m \in Nat /\ n \in Nat
  OBVIOUS
<1> QED BY <1>3, <1>4

\* 2^n counts the subsets of 1 .. n.
LEMMA PowerCounts ==
  ASSUME NEW n \in Nat
  PROVE  /\ IsFiniteSet(SUBSET (1 .. n)) /\ Cardinality(SUBSET (1 .. n)) = 2 ^ n
         /\ 2 ^ n \in Nat
<1>1. IsFiniteSet(1 .. n) /\ Cardinality(1 .. n) = n
  BY FS_Interval
<1>2. IsFiniteSet(SUBSET (1 .. n)) /\ Cardinality(SUBSET (1 .. n)) = 2 ^ n
  BY <1>1, FS_SUBSET
<1>3. Cardinality(SUBSET (1 .. n)) \in Nat
  BY <1>2, FS_CardinalityType
<1> QED BY <1>2, <1>3

LEMMA PowerIsMonotone ==
  ASSUME NEW m \in Nat, NEW n \in Nat, m <= n
  PROVE  2 ^ m <= 2 ^ n
<1>1. SUBSET (1 .. m) \in SUBSET (SUBSET (1 .. n))
  OBVIOUS
<1>2. Cardinality(SUBSET (1 .. m)) <= Cardinality(SUBSET (1 .. n))
  BY <1>1, PowerCounts, FS_Subset
<1> QED BY <1>2, PowerCounts

LEMMA PowerExceeds ==
  ASSUME NEW n \in Nat
  PROVE  n <= 2 ^ n
<1> DEFINE f == [i \in 1 .. n |-> {i}]
<1>1. f \in Injection(1 .. n, SUBSET (1 .. n))
  BY DEF Injection, IsInjective
<1> HIDE DEF f
<1>2. Cardinality(1 .. n) <= Cardinality(SUBSET (1 .. n))
  BY <1>1, PowerCounts, FS_Injection
<1>3. Cardinality(1 .. n) = n
  BY FS_Interval
<1> QED BY <1>2, <1>3, PowerCounts

\* The loop of size2level stops, after as few halvings as will do.
LEMMA HalvingsCounts ==
  ASSUME NEW size \in Nat
  PROVE  /\ Halvings(size) \in Nat
         /\ size <= 2 ^ Halvings(size)
         /\ \A m \in Nat : size <= 2 ^ m => Halvings(size) <= m
<1> DEFINE Enough == {n \in Nat : size <= 2 ^ n}
<1>1. size \in Enough
  BY PowerExceeds
<1>2. PICK h \in Enough : \A m \in Enough : h <= m
  BY <1>1, SmallestNat
<1>3. h \in 0 .. size /\ size <= 2 ^ h
  BY <1>1, <1>2
<1>4. ASSUME NEW m \in 0 .. h - 1 PROVE size > 2 ^ m
  <2>1. m \in Nat /\ m < h
    BY <1>3
  <2>2. 2 ^ m \in Nat
    BY <2>1, PowerCounts
  <2>3. m \notin Enough
    BY <2>1, <1>2
  <2>4. ~(size <= 2 ^ m)
    BY <2>1, <2>3
  <2> QED BY <2>2, <2>4
<1>5. /\ Halvings(size) \in 0 .. size /\ size <= 2 ^ Halvings(size)
      /\ \A m \in 0 .. Halvings(size) - 1 : size > 2 ^ m
  <2>1. \E n \in 0 .. size : size <= 2 ^ n /\ \A m \in 0 .. n - 1 : size > 2 ^ m
    BY <1>3, <1>4
  <2> QED BY <2>1 DEF Halvings
<1>6. ASSUME NEW m \in Nat, size <= 2 ^ m PROVE Halvings(size) <= m
  <2> SUFFICES ASSUME Halvings(size) > m PROVE FALSE
    BY <1>5
  <2>1. m \in 0 .. Halvings(size) - 1
    BY <1>5
  <2>2. size > 2 ^ m /\ 2 ^ m \in Nat
    BY <2>1, <1>5, PowerCounts
  <2> QED BY <1>6, <2>2
<1> QED BY <1>5, <1>6

\* size2level picks the smallest level whose objects are big enough.
LEMMA LevelFits ==
  ASSUME NEW size \in Sizes
  PROVE  size <= MAX_ALLOC =>
           size2level(size) \in Level /\ SmallestFit(size, size2level(size))
<1> SUFFICES ASSUME size <= MAX_ALLOC
             PROVE  size2level(size) \in Level /\ SmallestFit(size, size2level(size))
  OBVIOUS
<1> DEFINE h == Halvings(size)
<1>1. size \in Nat /\ LEVELS \in Nat /\ LEVELS >= 1
  BY SizesArePositive, LevelsIsPositive
<1>2. /\ h \in Nat /\ size <= 2 ^ h
      /\ \A m \in Nat : size <= 2 ^ m => h <= m
  BY <1>1, HalvingsCounts
<1> HIDE DEF h
<1>3. LEVELS - 1 + 5 \in Nat
  BY <1>1
<1>4. h <= LEVELS - 1 + 5
  BY <1>2, <1>3 DEF MAX_ALLOC, ObjectSize
<1>5. CASE h <= 5
  <2>1. size2level(size) = 0 /\ 0 \in Level /\ ObjectSize(0) = 2 ^ 5
    BY <1>1, <1>5 DEF size2level, h, Level, ObjectSize
  <2>2. 2 ^ h <= 2 ^ 5 /\ 2 ^ h \in Nat /\ 2 ^ 5 \in Nat
    BY <1>2, <1>5, PowerIsMonotone, PowerCounts
  <2>3. size <= 2 ^ 5
    BY <1>1, <1>2, <2>2
  <2> QED BY <2>1, <2>3 DEF SmallestFit
<1>6. CASE h > 5
  <2>1. size2level(size) = h - 5
    BY <1>2, <1>6 DEF size2level, h
  <2>2. h - 5 \in Level /\ (h - 5) + 5 = h
    BY <1>1, <1>2, <1>4, <1>6 DEF Level
  <2>3. ObjectSize(h - 5) = 2 ^ h
    BY <2>2 DEF ObjectSize
  <2>4. h - 1 \in Nat /\ 2 ^ (h - 1) \in Nat /\ (h - 5) - 1 + 5 = h - 1
    <3>1. h - 1 \in Nat /\ (h - 5) - 1 + 5 = h - 1
      BY <1>2, <1>6
    <3> QED BY <3>1, PowerCounts
  <2>5. ~(size <= 2 ^ (h - 1))
    BY <1>2, <2>4
  <2>6. ObjectSize((h - 5) - 1) = 2 ^ (h - 1)
    BY <2>4 DEF ObjectSize
  <2>7. size > ObjectSize((h - 5) - 1)
    BY <1>1, <2>4, <2>5, <2>6
  <2> QED BY <1>2, <2>1, <2>2, <2>3, <2>7 DEF SmallestFit
<1> QED BY <1>2, <1>5, <1>6

-----------------------------------------------------------------------------
(***************************************************************************)
(* Superblocks and their objects                                           *)
(***************************************************************************)

LEMMA FullSbType ==
  /\ FullSb(0) \in Nat /\ 0 \in Level
  /\ \A l \in Level : /\ FullSb(l) \in Nat /\ FullSb(l) >= 1
                      /\ 1 .. FullSb(l) \in SUBSET Slots
<1>1. 0 \in Level
  BY LevelsIsPositive DEF Level
<1>2. FullSb(0) \in Nat
  BY <1>1, SuperblocksHoldObjects
<1>3. ASSUME NEW l \in Level
      PROVE  FullSb(l) \in Nat /\ FullSb(l) >= 1 /\ 1 .. FullSb(l) \in SUBSET Slots
  <2>1. FullSb(l) \in Nat \ {0} /\ FullSb(l) <= FullSb(0)
    BY SuperblocksHoldObjects
  <2> QED BY <1>2, <2>1 DEF Slots
<1> QED BY <1>1, <1>2, <1>3

\* The objects of one superblock, or the first of them.
LEMMA ObjectsOfPage ==
  ASSUME NEW p, NEW n \in Nat
  PROVE  IsFiniteSet({p} \X (1 .. n)) /\ Cardinality({p} \X (1 .. n)) = n
<1> DEFINE S == {p}
           T == 1 .. n
<1>1. IsFiniteSet(T) /\ Cardinality(T) = n
  BY FS_Interval
<1>2. IsFiniteSet(S) /\ Cardinality(S) = 1
  BY FS_Singleton
<1> HIDE DEF S, T
<1>3. IsFiniteSet(S \X T) /\ Cardinality(S \X T) = 1 * n
  BY <1>1, <1>2, FS_Product
<1> QED BY <1>3 DEF S, T

LEMMA SuperblockMember ==
  ASSUME TypeOK, NEW l \in Level
  PROVE  /\ pool[l] \in Seq(Pages)
         /\ Superblocks(l) \in SUBSET Pages
         /\ \A p : p \in Superblocks(l) <=> \E n \in 1 .. Len(pool[l]) : p = pool[l][n]
<1>1. pool[l] \in Seq(Pages)
  BY DEF TypeOK
<1>2. DOMAIN pool[l] = 1 .. Len(pool[l])
  BY <1>1
<1>3. \A n \in 1 .. Len(pool[l]) : pool[l][n] \in Pages
  BY <1>1
<1> QED BY <1>1, <1>2, <1>3 DEF Superblocks, ToSet

LEMMA FiniteParts ==
  ASSUME TypeOK, NEW l \in Level
  PROVE  /\ IsFiniteSet(Superblocks(l))
         /\ IsFiniteSet(ObjectsOf(l))
         /\ IsFiniteSet(ObjectsOf(l) \ Used)
         /\ IsFiniteSet(Whole(l))
         /\ \A p : IsFiniteSet(FreeIn(l, p))
<1>1. IsFiniteSet(Superblocks(l))
  BY SuperblockMember, PagesAreFinite, FS_Subset
<1>2. IsFiniteSet(1 .. FullSb(l))
  BY FullSbType, FS_Interval
<1>3. IsFiniteSet(ObjectsOf(l))
  BY <1>1, <1>2, FS_Product DEF ObjectsOf
<1>4. IsFiniteSet(ObjectsOf(l) \ Used)
  BY <1>3, FS_Difference
<1>5. IsFiniteSet(Whole(l))
  <2>1. Whole(l) \in SUBSET Superblocks(l)
    BY DEF Whole
  <2> QED BY <1>1, <2>1, FS_Subset
<1>6. \A p : IsFiniteSet(FreeIn(l, p))
  <2> TAKE p
  <2>1. FreeIn(l, p) \in SUBSET (1 .. FullSb(l))
    BY DEF FreeIn
  <2> QED BY <1>2, <2>1, FS_Subset
<1> QED BY <1>1, <1>3, <1>4, <1>5, <1>6

\* The books, one level and one superblock at a time.
LEMMA BooksOf ==
  ASSUME TypeOK, BooksBalance, NEW l \in Level
  PROVE  /\ free_objects[l] = Cardinality(ObjectsOf(l) \ Used)
         /\ whole_superblocks[l] = Cardinality(Whole(l))
         /\ \A p \in Superblocks(l) :
              /\ bkeep[p].free_count = Cardinality(FreeIn(l, p))
              /\ bkeep[p].free_count \in 0 .. FullSb(l)
<1>1. /\ free_objects[l] = Cardinality(ObjectsOf(l) \ Used)
      /\ whole_superblocks[l] = Cardinality(Whole(l))
  BY DEF BooksBalance, Whole
<1>2. ASSUME NEW p \in Superblocks(l)
      PROVE  /\ bkeep[p].free_count = Cardinality(FreeIn(l, p))
             /\ bkeep[p].free_count \in 0 .. FullSb(l)
  <2>1. bkeep[p].free_count = Cardinality(FreeIn(l, p))
    BY DEF BooksBalance, FreeIn
  <2>2. FreeIn(l, p) \in SUBSET (1 .. FullSb(l))
    BY DEF FreeIn
  <2>3. IsFiniteSet(1 .. FullSb(l)) /\ Cardinality(1 .. FullSb(l)) = FullSb(l)
    BY FullSbType, FS_Interval
  <2>4. Cardinality(FreeIn(l, p)) <= FullSb(l) /\ Cardinality(FreeIn(l, p)) \in Nat
    BY <2>2, <2>3, FS_Subset, FS_CardinalityType
  <2> QED BY <2>1, <2>4, FullSbType
<1> QED BY <1>1, <1>2

\* A page is a superblock of one level at most, and only if it is mapped.
LEMMA OneLevel ==
  ASSUME TypeOK, PagesAccounted, NEW l \in Level, NEW p \in Superblocks(l)
  PROVE  /\ p \in Pages /\ p \in mapped /\ bkeep[p].level = l
         /\ \A k \in Level : p \in Superblocks(k) => k = l
<1>1. p \in Pages
  BY SuperblockMember
<1>2. p \in mapped
  BY DEF PagesAccounted
<1>3. \A k \in Level : \A q \in Superblocks(k) : bkeep[q].level = k
  BY DEF PagesAccounted
<1> QED BY <1>1, <1>2, <1>3

\* What is in use lies in a superblock.
LEMMA UsedInSuperblock ==
  ASSUME TypeOK, PagesAccounted, NEW u \in Used
  PROVE  \E l \in Level : \E p \in Superblocks(l), i \in 1 .. FullSb(l) : u = <<p, i>>
<1>1. PICK l \in Level : u \in ObjectsOf(l)
  BY DEF PagesAccounted
<1>2. \E p \in Superblocks(l), i \in 1 .. FullSb(l) : u = <<p, i>>
  BY <1>1 DEF ObjectsOf
<1> QED BY <1>2

LEMMA UnmappedIsUnused ==
  ASSUME TypeOK, PagesAccounted, NEW p, p \notin mapped
  PROVE  /\ \A i : <<p, i>> \notin Used
         /\ \A l \in Level : p \notin Superblocks(l)
<1>1. \A l \in Level : p \notin Superblocks(l)
  BY OneLevel
<1>2. ASSUME NEW i, <<p, i>> \in Used PROVE FALSE
  BY <1>1, <1>2, UsedInSuperblock
<1> QED BY <1>1, <1>2

-----------------------------------------------------------------------------
(***************************************************************************)
(* Taking an object                                                        *)
(***************************************************************************)

\* What taking object i of superblock p, of level l, leaves of the chains.
TakeShape(l, p, i) ==
  /\ i \in 1 .. FullSb(l) /\ p \in Superblocks(l)' /\ <<p, i>> \notin Used
  /\ p \in Superblocks(l) \/ p \notin mapped
  /\ pool' \in [Level -> Seq(Pages)]
  /\ free_objects' \in [Level -> Nat] /\ whole_superblocks' \in [Level -> Nat]
  /\ bkeep' \in [Pages -> Bookkeeping] /\ next' \in [Pages -> [Slots -> Links]]
  /\ \A k \in Level :
       /\ Superblocks(k)' = IF k = l THEN Superblocks(k) \cup {p} ELSE Superblocks(k)
       /\ \A m, n \in 1 .. Len(pool'[k]) : pool'[k][m] = pool'[k][n] => m = n
       /\ whole_superblocks'[k] <= whole_superblocks[k]
  /\ \A q \in mapped : bkeep'[q].level = bkeep[q].level
  /\ bkeep'[p].level = l

LEMMA TakenIs ==
  ASSUME NEW b, NEW links, NEW level, NEW i, NEW n,
         b = [level |-> level, free_list |-> i, free_count |-> n]
  PROVE  Taken(b, links) = [level |-> level,
                            free_list |-> IF n = 1 THEN 0 ELSE links[i],
                            free_count |-> n - 1]
<1> DEFINE head == IF b.free_count = 1 THEN 0 ELSE links[b.free_list]
           c == [b EXCEPT !.free_list = head]
<1>1. head = IF n = 1 THEN 0 ELSE links[i]
  OBVIOUS
<1>2. Taken(b, links) = [c EXCEPT !.free_count = @ - 1]
  BY DEF Taken
<1> HIDE DEF head
<1>3. c = [level |-> level, free_list |-> head, free_count |-> n]
  OBVIOUS
<1> HIDE DEF c
<1>4. [c EXCEPT !.free_count = @ - 1] = [level |-> level, free_list |-> head, free_count |-> n - 1]
  BY <1>3
<1> QED BY <1>1, <1>2, <1>4

LEMMA TakeOldFrom ==
  ASSUME AllocInv, NEW l \in Level, NEW p \in Pages, NEW i \in Slots, TakeOld(l, p, i)
  PROVE  /\ p \in Superblocks(l) /\ i \in FreeIn(l, p)
         /\ bkeep[p].free_count \in 1 .. FullSb(l) /\ bkeep[p].free_list = i
         /\ <<p, i>> \in ObjectsOf(l) \ Used
         /\ bkeep' = [bkeep EXCEPT ![p] = [level |-> l,
              free_list |-> IF bkeep[p].free_count = 1 THEN 0 ELSE next[p][i],
              free_count |-> bkeep[p].free_count - 1]]
<1> USE DEF AllocInv
<1>1. p \in Superblocks(l) /\ bkeep[p].free_count > 0 /\ bkeep[p].free_list = i
  BY SuperblockMember DEF TakeOld, Serves
<1>2. i \in FreeIn(l, p)
  BY <1>1 DEF FreeListsAreFree, FreeIn
<1>3. bkeep[p].free_count \in 1 .. FullSb(l)
  <2>1. bkeep[p].free_count \in 0 .. FullSb(l)
    BY <1>1, BooksOf
  <2> QED BY <1>1, <2>1, FullSbType
<1>4. <<p, i>> \in ObjectsOf(l) \ Used
  BY <1>1, <1>2 DEF FreeIn, ObjectsOf
<1>5. bkeep[p] \in Bookkeeping /\ bkeep[p].level = l
  BY <1>1, OneLevel DEF TypeOK
<1>6. Taken(bkeep[p], next[p]) = [level |-> l,
              free_list |-> IF bkeep[p].free_count = 1 THEN 0 ELSE next[p][i],
              free_count |-> bkeep[p].free_count - 1]
  <2>1. bkeep[p] = [level |-> l, free_list |-> i, free_count |-> bkeep[p].free_count]
    BY <1>1, <1>5 DEF Bookkeeping
  <2> QED BY <2>1, TakenIs
<1>7. bkeep' = [bkeep EXCEPT ![p] = Taken(bkeep[p], next[p])]
  BY DEF TakeOld
<1> QED BY <1>1, <1>2, <1>3, <1>4, <1>6, <1>7

LEMMA TakeOldShape ==
  ASSUME AllocInv, NEW l \in Level, NEW p \in Pages, NEW i \in Slots, TakeOld(l, p, i)
  PROVE  TakeShape(l, p, i)
<1> USE DEF AllocInv
<1>1. /\ p \in Superblocks(l) /\ i \in FreeIn(l, p)
      /\ bkeep[p].free_count \in 1 .. FullSb(l)
      /\ bkeep' = [bkeep EXCEPT ![p] = [level |-> l,
           free_list |-> IF bkeep[p].free_count = 1 THEN 0 ELSE next[p][i],
           free_count |-> bkeep[p].free_count - 1]]
  BY TakeOldFrom
<1>2. pool' = pool /\ \A k \in Level : Superblocks(k)' = Superblocks(k)
  BY DEF TakeOld, Superblocks
<1>3. i \in 1 .. FullSb(l) /\ <<p, i>> \notin Used
  BY <1>1 DEF FreeIn
<1>4. free_objects' \in [Level -> Nat]
  <2>1. free_objects[l] > 0 /\ free_objects \in [Level -> Nat]
    BY DEF TakeOld, TypeOK
  <2>2. free_objects[l] - 1 \in Nat
    BY <2>1
  <2> QED BY <2>1, <2>2 DEF TakeOld
<1>5. /\ whole_superblocks' \in [Level -> Nat]
      /\ \A k \in Level : whole_superblocks'[k] <= whole_superblocks[k]
  <2>1. whole_superblocks \in [Level -> Nat]
    BY DEF TypeOK
  <2>2. CASE bkeep[p].free_count = FullSb(l)
    <3>1. p \in Whole(l)
      BY <1>1, <2>2 DEF Whole
    <3>2. Cardinality(Whole(l)) # 0
      BY <3>1, FiniteParts, FS_EmptySet
    <3>3. whole_superblocks[l] \in Nat /\ whole_superblocks[l] # 0
      BY <2>1, <3>2, BooksOf
    <3>4. whole_superblocks' = [whole_superblocks EXCEPT ![l] = whole_superblocks[l] - 1]
      BY <2>2 DEF TakeOld
    <3>5. whole_superblocks[l] - 1 \in Nat /\ whole_superblocks[l] - 1 <= whole_superblocks[l]
      BY <3>3
    <3> QED BY <2>1, <3>4, <3>5
  <2>3. CASE bkeep[p].free_count # FullSb(l)
    <3>1. whole_superblocks' = whole_superblocks
      BY <2>1, <2>3 DEF TakeOld
    <3> QED BY <2>1, <3>1
  <2> QED BY <2>2, <2>3
<1>6. next \in [Pages -> [Slots -> Links]] /\ next' \in [Pages -> [Slots -> Links]]
  <2>1. next \in [Pages -> [Slots -> Links]] /\ ALLOC_POISON \in Links
    BY DEF TypeOK, Links
  <2> QED BY <2>1 DEF TakeOld
<1>7. bkeep' \in [Pages -> Bookkeeping]
  <2>1. (IF bkeep[p].free_count = 1 THEN 0 ELSE next[p][i]) \in Links
    BY <1>6, FullSbType DEF Links
  <2>2. bkeep[p].free_count - 1 \in 0 .. FullSb(0)
    BY <1>1, FullSbType, SuperblocksHoldObjects
  <2>3. bkeep \in [Pages -> Bookkeeping]
    BY DEF TypeOK
  <2> QED BY <1>1, <2>1, <2>2, <2>3 DEF Bookkeeping
<1>8. \A q \in mapped : bkeep'[q].level = bkeep[q].level
  <2>1. bkeep \in [Pages -> Bookkeeping] /\ mapped \in SUBSET Pages /\ bkeep[p].level = l
    BY <1>1, OneLevel DEF TypeOK
  <2> QED BY <1>1, <2>1
<1>9. bkeep'[p].level = l
  BY <1>1 DEF TypeOK
<1>10. \A k \in Level : \A m, n \in 1 .. Len(pool'[k]) : pool'[k][m] = pool'[k][n] => m = n
  BY <1>2 DEF PagesAccounted
<1>11. pool' \in [Level -> Seq(Pages)]
  BY <1>2 DEF TypeOK
<1>12. \A k \in Level : Superblocks(k)' = IF k = l THEN Superblocks(k) \cup {p} ELSE Superblocks(k)
  BY <1>1, <1>2
<1>13. p \in Superblocks(l)'
  BY <1>1, <1>2
<1> QED BY <1>1, <1>3, <1>4, <1>5, <1>6, <1>7, <1>8, <1>9, <1>10, <1>11, <1>12, <1>13 DEF TakeShape

LEMMA TakeOldBooks ==
  ASSUME AllocInv, NEW l \in Level, NEW p \in Pages, NEW i \in Slots, TakeOld(l, p, i),
         Used' = Used \cup {<<p, i>>}
  PROVE  BooksBalance' /\ FreeListsAreFree' /\ LinksLead'
<1> USE DEF AllocInv
<1>1. /\ p \in Superblocks(l) /\ i \in FreeIn(l, p)
      /\ bkeep[p].free_count \in 1 .. FullSb(l) /\ bkeep[p].free_list = i
      /\ <<p, i>> \in ObjectsOf(l) \ Used
      /\ bkeep' = [bkeep EXCEPT ![p] = [level |-> l,
           free_list |-> IF bkeep[p].free_count = 1 THEN 0 ELSE next[p][i],
           free_count |-> bkeep[p].free_count - 1]]
  BY TakeOldFrom
<1>2. \A k \in Level : Superblocks(k)' = Superblocks(k) /\ ObjectsOf(k)' = ObjectsOf(k)
  BY DEF TakeOld, Superblocks, ObjectsOf
<1>3. bkeep \in [Pages -> Bookkeeping] /\ next \in [Pages -> [Slots -> Links]]
  BY DEF TypeOK
<1>4. /\ bkeep'[p].free_count = bkeep[p].free_count - 1
      /\ bkeep'[p].free_list = IF bkeep[p].free_count = 1 THEN 0 ELSE next[p][i]
  BY <1>1, <1>3
<1>5. /\ \A q \in Pages : q # p => bkeep'[q] = bkeep[q] /\ next'[q] = next[q]
      /\ \A j \in Slots : j # i => next'[p][j] = next[p][j]
  BY <1>1, <1>3 DEF TakeOld
<1>6. /\ \A k \in Level, q \in Pages : q # p => FreeIn(k, q)' = FreeIn(k, q)
      /\ FreeIn(l, p)' = FreeIn(l, p) \ {i}
  BY DEF FreeIn
<1>7. \A k \in Level : p \in Superblocks(k) => k = l
  BY <1>1, OneLevel
<1>8. \A k \in Level : Superblocks(k) \in SUBSET Pages
  BY SuperblockMember
<1>9. ASSUME NEW k \in Level, NEW q \in Superblocks(k)
      PROVE  bkeep'[q].free_count = Cardinality(FreeIn(k, q)')
  <2>1. CASE q = p
    <3>1. Cardinality(FreeIn(l, p) \ {i}) = Cardinality(FreeIn(l, p)) - 1
      BY <1>1, FiniteParts, FS_RemoveElement
    <3>2. bkeep[p].free_count = Cardinality(FreeIn(l, p))
      BY <1>1, BooksOf
    <3> QED BY <1>4, <1>6, <1>7, <2>1, <3>1, <3>2
  <2>2. CASE q # p
    <3>1. bkeep[q].free_count = Cardinality(FreeIn(k, q))
      BY BooksOf
    <3> QED BY <1>5, <1>6, <1>8, <2>2, <3>1
  <2> QED BY <2>1, <2>2
<1>10. ASSUME NEW k \in Level
       PROVE  free_objects'[k] = Cardinality((ObjectsOf(k) \ Used)')
  <2>1. (ObjectsOf(k) \ Used)' = (ObjectsOf(k) \ Used) \ {<<p, i>>}
    BY <1>2
  <2>2. free_objects[k] = Cardinality(ObjectsOf(k) \ Used)
    BY BooksOf
  <2>3. free_objects' = [free_objects EXCEPT ![l] = @ - 1] /\ free_objects \in [Level -> Nat]
    BY DEF TakeOld, TypeOK
  <2>4. CASE k = l
    <3>1. Cardinality((ObjectsOf(l) \ Used) \ {<<p, i>>}) = Cardinality(ObjectsOf(l) \ Used) - 1
      BY <1>1, FiniteParts, FS_RemoveElement
    <3> QED BY <2>1, <2>2, <2>3, <2>4, <3>1
  <2>5. CASE k # l
    <3>1. <<p, i>> \notin ObjectsOf(k)
      BY <1>7, <2>5 DEF ObjectsOf
    <3> QED BY <2>1, <2>2, <2>3, <2>5, <3>1
  <2> QED BY <2>4, <2>5
<1>11. ASSUME NEW k \in Level
       PROVE  whole_superblocks'[k] = Cardinality(Whole(k)')
  <2>1. whole_superblocks[k] = Cardinality(Whole(k))
    BY BooksOf
  <2>2. whole_superblocks \in [Level -> Nat]
    BY DEF TypeOK
  <2>3. /\ bkeep[p].free_count = FullSb(l)
           => whole_superblocks' = [whole_superblocks EXCEPT ![l] = @ - 1]
        /\ bkeep[p].free_count # FullSb(l) => whole_superblocks' = whole_superblocks
    BY <2>2 DEF TakeOld
  <2>4. CASE k = l
    <3>1. bkeep'[p].free_count # FullSb(l)
      BY <1>1, <1>4, FullSbType
    <3>2. Whole(l)' = Whole(l) \ {p}
      BY <1>2, <1>5, <1>8, <3>1 DEF Whole
    <3>3. p \in Whole(l) <=> bkeep[p].free_count = FullSb(l)
      BY <1>1 DEF Whole
    <3>4. Cardinality(Whole(l) \ {p}) = IF p \in Whole(l) THEN Cardinality(Whole(l)) - 1
                                                          ELSE Cardinality(Whole(l))
      BY FiniteParts, FS_RemoveElement
    <3> QED BY <2>1, <2>2, <2>3, <2>4, <3>2, <3>3, <3>4
  <2>5. CASE k # l
    <3>1. p \notin Superblocks(k)
      BY <1>7, <2>5
    <3>2. Whole(k)' = Whole(k)
      BY <1>2, <1>5, <1>8, <3>1 DEF Whole
    <3> QED BY <2>1, <2>2, <2>3, <2>5, <3>2
  <2> QED BY <2>4, <2>5
<1>12. BooksBalance'
  <2> SUFFICES ASSUME NEW k \in Level
               PROVE  (/\ \A q \in Superblocks(k) :
                            bkeep[q].free_count = Cardinality(FreeIn(k, q))
                       /\ free_objects[k] = Cardinality(ObjectsOf(k) \ Used)
                       /\ whole_superblocks[k] = Cardinality(Whole(k)))'
    BY Zenon DEF BooksBalance, FreeIn, Whole
  <2> QED BY <1>2, <1>9, <1>10, <1>11
<1>13. \A j \in FreeIn(l, p) : next[p][j] \in Slots =>
         next[p][j] = j - 1 /\ j - 1 \in FreeIn(l, p) /\ i # j - 1
  BY <1>1 DEF LinksLead
<1>14. FreeIn(l, p) \in SUBSET Slots /\ FreeIn(l, p) \in SUBSET Nat /\ 0 \notin Slots
  BY FullSbType DEF FreeIn, Slots
<1>15. ASSUME bkeep'[p].free_list \in Slots
       PROVE  bkeep'[p].free_list = i - 1 /\ i - 1 \in FreeIn(l, p)'
  <2>1. bkeep'[p].free_list = next[p][i]
    BY <1>4, <1>14, <1>15
  <2>2. next[p][i] = i - 1 /\ i - 1 \in FreeIn(l, p) /\ i # i - 1
    BY <1>1, <1>13, <1>15, <2>1
  <2> QED BY <1>6, <2>1, <2>2
<1>16. ASSUME NEW j \in FreeIn(l, p)', next'[p][j] \in Slots
       PROVE  /\ next'[p][j] = j - 1 /\ j - 1 \in FreeIn(l, p)'
              /\ bkeep'[p].free_list # j - 1
  <2>1. j \in FreeIn(l, p) /\ j # i /\ j \in Slots /\ j \in Nat /\ i \in Nat
    BY <1>1, <1>6, <1>14
  <2>2. next'[p][j] = next[p][j]
    BY <1>5, <2>1
  <2>3. next[p][j] = j - 1 /\ j - 1 \in FreeIn(l, p) /\ i # j - 1
    BY <1>13, <1>16, <2>1, <2>2
  <2>4. bkeep'[p].free_list # j - 1
    <3> SUFFICES ASSUME bkeep'[p].free_list = j - 1 PROVE FALSE
      OBVIOUS
    <3>1. bkeep'[p].free_list \in Slots
      BY <1>14, <2>3
    <3> QED BY <1>15, <2>1, <3>1
  <2> QED BY <1>6, <2>2, <2>3, <2>4
<1>17. ASSUME NEW k \in Level, NEW q \in Superblocks(k), q # p
       PROVE  /\ bkeep'[q] = bkeep[q] /\ next'[q] = next[q] /\ FreeIn(k, q)' = FreeIn(k, q)
  BY <1>5, <1>6, <1>8, <1>17
<1>18. FreeListsAreFree'
  <2> SUFFICES ASSUME NEW k \in Level, NEW q \in Superblocks(k)
               PROVE  /\ bkeep'[q].free_list \in Slots => bkeep'[q].free_list \in FreeIn(k, q)'
                      /\ \A j \in FreeIn(k, q)' : next'[q][j] \in Slots => next'[q][j] \in FreeIn(k, q)'
    BY <1>2 DEF FreeListsAreFree, FreeIn
  <2>1. CASE q = p
    BY <1>7, <1>15, <1>16, <2>1
  <2>2. CASE q # p
    <3>1. /\ bkeep[q].free_list \in Slots => bkeep[q].free_list \in FreeIn(k, q)
          /\ \A j \in FreeIn(k, q) : next[q][j] \in Slots => next[q][j] \in FreeIn(k, q)
      BY DEF FreeListsAreFree, FreeIn
    <3> QED BY <1>17, <2>2, <3>1
  <2> QED BY <2>1, <2>2
<1>19. LinksLead'
  <2> SUFFICES ASSUME NEW k \in Level, NEW q \in Superblocks(k), NEW j \in FreeIn(k, q)',
                      next'[q][j] \in Slots
               PROVE  /\ next'[q][j] = j - 1 /\ j - 1 \in FreeIn(k, q)'
                      /\ bkeep'[q].free_list # j - 1
    BY <1>2 DEF LinksLead
  <2>1. CASE q = p
    BY <1>7, <1>16, <2>1
  <2>2. CASE q # p
    BY <1>17, <2>2 DEF LinksLead
  <2> QED BY <2>1, <2>2
<1> QED BY <1>12, <1>18, <1>19

LEMMA TakeNewFrom ==
  ASSUME AllocInv, NEW l \in Level, NEW p \in Pages, NEW i \in Slots, TakeNew(l, p, i)
  PROVE  /\ i = FullSb(l) /\ p \notin mapped
         /\ \A j : <<p, j>> \notin Used
         /\ \A k \in Level : p \notin Superblocks(k)
         /\ \A k \in Level : Superblocks(k)' =
              IF k = l THEN Superblocks(k) \cup {p} ELSE Superblocks(k)
         /\ bkeep' = [bkeep EXCEPT ![p] = [level |-> l,
              free_list |-> IF i = 1 THEN 0 ELSE i - 1, free_count |-> i - 1]]
<1> USE DEF AllocInv
<1>1. i = FullSb(l) /\ p \notin mapped
  BY DEF TakeNew
<1>2. /\ \A j : <<p, j>> \notin Used
      /\ \A k \in Level : p \notin Superblocks(k)
  BY <1>1, UnmappedIsUnused
<1>3. Taken(NewBkeep(l), NewList(l)) = [level |-> l,
              free_list |-> IF i = 1 THEN 0 ELSE i - 1, free_count |-> i - 1]
  <2>1. Taken(NewBkeep(l), NewList(l)) = [level |-> l,
              free_list |-> IF FullSb(l) = 1 THEN 0 ELSE NewList(l)[FullSb(l)],
              free_count |-> FullSb(l) - 1]
    BY TakenIs DEF NewBkeep
  <2>2. NewList(l)[FullSb(l)] = FullSb(l) - 1
    BY <1>1, FullSbType DEF NewList
  <2> QED BY <1>1, <2>1, <2>2
<1>4. bkeep' = [bkeep EXCEPT ![p] = Taken(NewBkeep(l), NewList(l))]
  BY DEF TakeNew
<1>5. ASSUME NEW k \in Level
      PROVE  Superblocks(k)' = IF k = l THEN Superblocks(k) \cup {p} ELSE Superblocks(k)
  <2>1. pool' = [pool EXCEPT ![l] = <<p>> \o pool[l]] /\ pool \in [Level -> Seq(Pages)]
    BY DEF TakeNew, TypeOK
  <2>2. CASE k = l
    <3>1. pool'[k] = <<p>> \o pool[l]
      BY <2>1, <2>2
    <3>2. ToSet(<<p>> \o pool[l]) = ToSet(pool[l]) \cup {p}
      BY <2>1, PrependProperties
    <3> QED BY <2>2, <3>1, <3>2 DEF Superblocks
  <2>3. CASE k # l
    BY <2>1, <2>3 DEF Superblocks
  <2> QED BY <2>2, <2>3
<1> QED BY <1>1, <1>2, <1>3, <1>4, <1>5

LEMMA TakeNewShape ==
  ASSUME AllocInv, NEW l \in Level, NEW p \in Pages, NEW i \in Slots, TakeNew(l, p, i)
  PROVE  TakeShape(l, p, i)
<1> USE DEF AllocInv
<1>1. /\ i = FullSb(l) /\ p \notin mapped
      /\ \A j : <<p, j>> \notin Used
      /\ \A k \in Level : p \notin Superblocks(k)
      /\ \A k \in Level : Superblocks(k)' =
              IF k = l THEN Superblocks(k) \cup {p} ELSE Superblocks(k)
      /\ bkeep' = [bkeep EXCEPT ![p] = [level |-> l,
              free_list |-> IF i = 1 THEN 0 ELSE i - 1, free_count |-> i - 1]]
  BY TakeNewFrom
<1>2. FullSb(l) \in Nat /\ FullSb(l) >= 1 /\ FullSb(0) \in Nat /\ FullSb(l) <= FullSb(0)
  BY FullSbType, SuperblocksHoldObjects
<1>3. pool' = [pool EXCEPT ![l] = <<p>> \o pool[l]] /\ pool \in [Level -> Seq(Pages)]
  BY DEF TakeNew, TypeOK
<1>4. <<p>> \o pool[l] \in Seq(Pages)
  BY <1>3
<1>5. pool' \in [Level -> Seq(Pages)]
  BY <1>3, <1>4
<1>6. free_objects' \in [Level -> Nat]
  <2>1. FullSb(l) - 1 \in Nat
    BY <1>2
  <2> QED BY <2>1 DEF TakeNew, TypeOK
<1>7. /\ whole_superblocks' \in [Level -> Nat]
      /\ \A k \in Level : whole_superblocks'[k] <= whole_superblocks[k]
  BY DEF TakeNew, TypeOK
<1>8. bkeep' \in [Pages -> Bookkeeping]
  <2>1. (IF i = 1 THEN 0 ELSE i - 1) \in Links /\ i - 1 \in 0 .. FullSb(0)
    BY <1>1, <1>2 DEF Links
  <2>2. bkeep \in [Pages -> Bookkeeping]
    BY DEF TypeOK
  <2> QED BY <1>1, <2>1, <2>2 DEF Bookkeeping
<1>9. next' \in [Pages -> [Slots -> Links]]
  <2>1. NewList(l) \in [Slots -> Links]
    BY <1>2 DEF NewList, Slots, Links
  <2>2. ALLOC_POISON \in Links
    BY DEF Links
  <2>3. [NewList(l) EXCEPT ![i] = ALLOC_POISON] \in [Slots -> Links]
    BY <2>1, <2>2
  <2> QED BY <2>3 DEF TakeNew, TypeOK
<1>10. \A q \in mapped : bkeep'[q].level = bkeep[q].level
  <2>1. bkeep \in [Pages -> Bookkeeping] /\ mapped \in SUBSET Pages
    BY DEF TypeOK
  <2> QED BY <1>1, <2>1
<1>11. bkeep'[p].level = l
  BY <1>1 DEF TypeOK
<1>12. ASSUME NEW k \in Level, NEW m \in 1 .. Len(pool'[k]), NEW n \in 1 .. Len(pool'[k]),
              pool'[k][m] = pool'[k][n]
       PROVE  m = n
  <2>1. \A a, b \in 1 .. Len(pool[k]) : pool[k][a] = pool[k][b] => a = b
    BY DEF PagesAccounted
  <2>2. CASE k # l
    BY <1>3, <1>12, <2>1, <2>2
  <2>3. CASE k = l
    <3> DEFINE s == pool[l]
               t == <<p>> \o pool[l]
    <3>1. pool'[k] = t
      BY <1>3, <2>3
    <3>2. s \in Seq(Pages) /\ \A a, b \in 1 .. Len(s) : s[a] = s[b] => a = b
      BY <1>3, <2>1, <2>3
    <3>3. Len(t) = Len(s) + 1 /\ \A a \in 1 .. Len(s) + 1 : t[a] = IF a = 1 THEN p ELSE s[a - 1]
      BY <3>2, PrependProperties
    <3>4. \A a \in 1 .. Len(s) : s[a] # p
      BY <1>1, SuperblockMember
    <3>5. m \in 1 .. Len(t) /\ n \in 1 .. Len(t) /\ t[m] = t[n]
      BY <1>12, <3>1
    <3> HIDE DEF s, t
    <3>6. CASE m = 1 \/ n = 1
      <4>1. ASSUME NEW a \in 1 .. Len(t), a # 1 PROVE t[a] # p
        <5>1. a - 1 \in 1 .. Len(s) /\ t[a] = s[a - 1]
          BY <3>2, <3>3, <4>1
        <5> QED BY <3>4, <5>1
      <4>2. t[1] = p
        BY <3>2, <3>3
      <4> QED BY <3>5, <3>6, <4>1, <4>2
    <3>7. CASE m # 1 /\ n # 1
      <4>1. /\ m - 1 \in 1 .. Len(s) /\ n - 1 \in 1 .. Len(s)
            /\ t[m] = s[m - 1] /\ t[n] = s[n - 1]
        BY <3>2, <3>3, <3>5, <3>7
      <4>2. m - 1 = n - 1
        BY <3>2, <3>5, <4>1
      <4> QED BY <3>2, <3>3, <3>5, <4>2
    <3> QED BY <3>6, <3>7
  <2> QED BY <2>2, <2>3
<1>13. i \in 1 .. FullSb(l) /\ p \in Superblocks(l)' /\ <<p, i>> \notin Used
  BY <1>1, <1>2
<1> QED BY <1>1, <1>5, <1>6, <1>7, <1>8, <1>9, <1>10, <1>11, <1>12, <1>13 DEF TakeShape

LEMMA TakeNewBooks ==
  ASSUME AllocInv, NEW l \in Level, NEW p \in Pages, NEW i \in Slots, TakeNew(l, p, i),
         Used' = Used \cup {<<p, i>>}
  PROVE  BooksBalance' /\ FreeListsAreFree' /\ LinksLead'
<1> USE DEF AllocInv
<1>1. /\ i = FullSb(l) /\ p \notin mapped
      /\ \A j : <<p, j>> \notin Used
      /\ \A k \in Level : p \notin Superblocks(k)
      /\ \A k \in Level : Superblocks(k)' =
              IF k = l THEN Superblocks(k) \cup {p} ELSE Superblocks(k)
      /\ bkeep' = [bkeep EXCEPT ![p] = [level |-> l,
              free_list |-> IF i = 1 THEN 0 ELSE i - 1, free_count |-> i - 1]]
  BY TakeNewFrom
<1>2. i \in Nat /\ i >= 1
  BY <1>1, FullSbType
<1>3. bkeep \in [Pages -> Bookkeeping] /\ next \in [Pages -> [Slots -> Links]]
  BY DEF TypeOK
<1>4. /\ bkeep'[p].free_count = i - 1
      /\ bkeep'[p].free_list = IF i = 1 THEN 0 ELSE i - 1
  BY <1>1, <1>3
<1>5. \A q \in Pages : q # p => bkeep'[q] = bkeep[q] /\ next'[q] = next[q]
  BY <1>1, <1>3 DEF TakeNew
<1>6. FreeIn(l, p)' = 1 .. i - 1
  <2>1. \A j \in 1 .. FullSb(l) : <<p, j>> \notin Used' <=> j # i
    BY <1>1
  <2>2. FreeIn(l, p)' = {j \in 1 .. FullSb(l) : j # i}
    BY <2>1 DEF FreeIn
  <2> QED BY <1>1, <1>2, <2>2
<1>7. \A k \in Level, q \in Pages : q # p => FreeIn(k, q)' = FreeIn(k, q)
  BY DEF FreeIn
<1>8. \A k \in Level : Superblocks(k) \in SUBSET Pages
  BY SuperblockMember
<1>9. \A j \in 1 .. i - 1 : next'[p][j] = j - 1
  <2>1. 1 .. FullSb(l) \in SUBSET Slots
    BY FullSbType
  <2>2. next'[p] = [NewList(l) EXCEPT ![i] = ALLOC_POISON]
    BY <1>3 DEF TakeNew
  <2>3. ASSUME NEW j \in 1 .. i - 1 PROVE next'[p][j] = NewList(l)[j] /\ NewList(l)[j] = j - 1
    <3>1. j \in Slots /\ j # i /\ j <= FullSb(l)
      BY <1>1, <1>2, <2>1
    <3> QED BY <2>2, <3>1 DEF NewList
  <2> QED BY <2>3
<1>10. ASSUME NEW k \in Level, NEW q \in Superblocks(k)'
       PROVE  bkeep'[q].free_count = Cardinality(FreeIn(k, q)')
  <2>1. CASE q = p
    <3>1. k = l
      BY <1>1, <2>1
    <3>2. Cardinality(1 .. i - 1) = i - 1
      BY <1>2, FS_Interval
    <3> QED BY <1>4, <1>6, <2>1, <3>1, <3>2
  <2>2. CASE q # p
    <3>1. q \in Superblocks(k)
      BY <1>1, <2>2
    <3>2. bkeep[q].free_count = Cardinality(FreeIn(k, q))
      BY <3>1, BooksOf
    <3> QED BY <1>5, <1>7, <1>8, <2>2, <3>1, <3>2
  <2> QED BY <2>1, <2>2
<1>11. ASSUME NEW k \in Level
       PROVE  free_objects'[k] = Cardinality((ObjectsOf(k) \ Used)')
  <2>1. free_objects[k] = Cardinality(ObjectsOf(k) \ Used)
    BY BooksOf
  <2>2. free_objects' = [free_objects EXCEPT ![l] = FullSb(l) - 1] /\ free_objects \in [Level -> Nat]
    BY DEF TakeNew, TypeOK
  <2>3. CASE k = l
    <3>1. ObjectsOf(l) \ Used = {}
      <4>1. Cardinality(ObjectsOf(l) \ Used) = 0
        BY <2>1, <2>3 DEF TakeNew
      <4> QED BY <4>1, FiniteParts, FS_EmptySet
    <3>2. (ObjectsOf(l) \ Used)' = {p} \X (1 .. i - 1)
      <4>1. ObjectsOf(l)' = ObjectsOf(l) \cup ({p} \X (1 .. FullSb(l)))
        BY <1>1 DEF ObjectsOf
      <4>2. ({p} \X (1 .. FullSb(l))) \ Used' = {p} \X (1 .. i - 1)
        <5>1. \A j \in 1 .. FullSb(l) : <<p, j>> \notin Used' <=> j \in 1 .. i - 1
          BY <1>1, <1>2
        <5>2. 1 .. i - 1 \in SUBSET (1 .. FullSb(l))
          BY <1>1, <1>2
        <5> QED BY <5>1, <5>2
      <4>3. ObjectsOf(l) \ Used' = {}
        BY <3>1
      <4> QED BY <4>1, <4>2, <4>3
    <3>3. Cardinality({p} \X (1 .. i - 1)) = i - 1
      <4>1. i - 1 \in Nat
        BY <1>2
      <4> QED BY <4>1, ObjectsOfPage
    <3>4. free_objects'[l] = i - 1
      BY <1>1, <2>2
    <3> QED BY <2>3, <3>2, <3>3, <3>4
  <2>4. CASE k # l
    <3>1. Superblocks(k)' = Superblocks(k) /\ p \notin Superblocks(k)
      BY <1>1, <2>4
    <3>2. (ObjectsOf(k) \ Used)' = ObjectsOf(k) \ Used
      BY <3>1 DEF ObjectsOf
    <3> QED BY <2>1, <2>2, <2>4, <3>2
  <2> QED BY <2>3, <2>4
<1>12. ASSUME NEW k \in Level
       PROVE  whole_superblocks'[k] = Cardinality(Whole(k)')
  <2>1. whole_superblocks[k] = Cardinality(Whole(k)) /\ whole_superblocks' = whole_superblocks
    BY BooksOf DEF TakeNew
  <2>2. Whole(k)' = Whole(k)
    <3>1. k = l => bkeep'[p].free_count # FullSb(k)
      BY <1>1, <1>2, <1>4
    <3> QED BY <1>1, <1>5, <1>8, <3>1 DEF Whole
  <2> QED BY <2>1, <2>2
<1>13. BooksBalance'
  <2> SUFFICES ASSUME NEW k \in Level
               PROVE  (/\ \A q \in Superblocks(k) :
                            bkeep[q].free_count = Cardinality(FreeIn(k, q))
                       /\ free_objects[k] = Cardinality(ObjectsOf(k) \ Used)
                       /\ whole_superblocks[k] = Cardinality(Whole(k)))'
    BY Zenon DEF BooksBalance, FreeIn, Whole
  <2> QED BY <1>10, <1>11, <1>12
<1>14. \A k \in Level : \A q \in Superblocks(k)' :
         \/ k = l /\ q = p
         \/ /\ q \in Superblocks(k) /\ q # p
            /\ bkeep'[q] = bkeep[q] /\ next'[q] = next[q] /\ FreeIn(k, q)' = FreeIn(k, q)
  BY <1>1, <1>5, <1>7, <1>8
<1>15. FreeListsAreFree'
  <2> SUFFICES ASSUME NEW k \in Level, NEW q \in Superblocks(k)'
               PROVE  /\ bkeep'[q].free_list \in Slots => bkeep'[q].free_list \in FreeIn(k, q)'
                      /\ \A j \in FreeIn(k, q)' : next'[q][j] \in Slots => next'[q][j] \in FreeIn(k, q)'
    BY DEF FreeListsAreFree, FreeIn
  <2>1. CASE k = l /\ q = p
    <3>1. bkeep'[p].free_list \in Slots => bkeep'[p].free_list \in 1 .. i - 1
      BY <1>2, <1>4 DEF Slots
    <3>2. \A j \in 1 .. i - 1 : next'[p][j] \in Slots => next'[p][j] \in 1 .. i - 1
      BY <1>2, <1>9 DEF Slots
    <3> QED BY <1>6, <2>1, <3>1, <3>2
  <2>2. CASE q \in Superblocks(k) /\ q # p
    <3>1. /\ bkeep[q].free_list \in Slots => bkeep[q].free_list \in FreeIn(k, q)
          /\ \A j \in FreeIn(k, q) : next[q][j] \in Slots => next[q][j] \in FreeIn(k, q)
      BY <2>2 DEF FreeListsAreFree, FreeIn
    <3> QED BY <1>14, <2>2, <3>1
  <2> QED BY <1>14, <2>1, <2>2
<1>16. LinksLead'
  <2> SUFFICES ASSUME NEW k \in Level, NEW q \in Superblocks(k)', NEW j \in FreeIn(k, q)',
                      next'[q][j] \in Slots
               PROVE  /\ next'[q][j] = j - 1 /\ j - 1 \in FreeIn(k, q)'
                      /\ bkeep'[q].free_list # j - 1
    BY DEF LinksLead
  <2>1. CASE k = l /\ q = p
    <3>1. j \in 1 .. i - 1 /\ next'[p][j] = j - 1 /\ j - 1 \in Slots
      BY <1>6, <1>9, <2>1
    <3>2. j - 1 \in 1 .. i - 1 /\ bkeep'[p].free_list # j - 1
      BY <1>2, <1>4, <3>1 DEF Slots
    <3> QED BY <1>6, <2>1, <3>1, <3>2
  <2>2. CASE q \in Superblocks(k) /\ q # p
    <3>1. j \in FreeIn(k, q) /\ next[q][j] \in Slots
      BY <1>14, <2>2
    <3>2. next[q][j] = j - 1 /\ j - 1 \in FreeIn(k, q) /\ bkeep[q].free_list # j - 1
      BY <2>2, <3>1 DEF LinksLead
    <3> QED BY <1>14, <2>2, <3>2
  <2> QED BY <1>14, <2>1, <2>2
<1> QED BY <1>13, <1>15, <1>16

\* Both ways of taking an object.
LEMMA TakeKeepsBooks ==
  ASSUME AllocInv, NEW l \in Level, NEW p \in Pages, NEW i \in Slots, Take(l, p, i)
  PROVE  /\ TakeShape(l, p, i)
         /\ Used' = Used \cup {<<p, i>>} => BooksBalance' /\ FreeListsAreFree' /\ LinksLead'
<1>1. CASE TakeOld(l, p, i)
  BY <1>1, TakeOldShape, TakeOldBooks
<1>2. CASE TakeNew(l, p, i)
  BY <1>2, TakeNewShape, TakeNewBooks
<1> QED BY <1>1, <1>2 DEF Take

-----------------------------------------------------------------------------
(***************************************************************************)
(* Putting an object back                                                  *)
(***************************************************************************)

\* What putting object i back into superblock p leaves of the chains.
PutBackShape(p, i) ==
  LET l == bkeep[p].level IN
  /\ l \in Level /\ p \in Superblocks(l) /\ i \in 1 .. FullSb(l)
  /\ free_objects' \in [Level -> Nat] /\ whole_superblocks' \in [Level -> Nat]
  /\ bkeep' \in [Pages -> Bookkeeping] /\ next' \in [Pages -> [Slots -> Links]]
  /\ \A k \in Level : whole_superblocks'[k] <= whole_superblocks[k] + IF k = l THEN 1 ELSE 0
  /\ \A q \in Pages : bkeep'[q].level = bkeep[q].level

LEMMA PutBackFrom ==
  ASSUME AllocInv, NEW p \in Pages, NEW i \in Slots, PutBack(p, i), <<p, i>> \in Used
  PROVE  LET l == bkeep[p].level IN
         /\ l \in Level /\ p \in Superblocks(l) /\ i \in (1 .. FullSb(l)) \ FreeIn(l, p)
         /\ bkeep[p].free_count \in 0 .. FullSb(l) - 1
         /\ <<p, i>> \in ObjectsOf(l)
         /\ bkeep' = [bkeep EXCEPT ![p] = [level |-> l,
              free_list |-> i, free_count |-> bkeep[p].free_count + 1]]
<1> USE DEF AllocInv
<1>1. PICK l \in Level : p \in Superblocks(l) /\ i \in 1 .. FullSb(l)
  BY UsedInSuperblock
<1>2. bkeep[p].level = l
  BY <1>1, OneLevel
<1>3. i \in (1 .. FullSb(l)) \ FreeIn(l, p) /\ <<p, i>> \in ObjectsOf(l)
  BY <1>1 DEF FreeIn, ObjectsOf
<1>4. bkeep[p].free_count \in 0 .. FullSb(l) - 1
  <2>1. bkeep[p].free_count \in 0 .. FullSb(l) /\ bkeep[p].free_count = Cardinality(FreeIn(l, p))
    BY <1>1, BooksOf
  <2>2. IsFiniteSet(1 .. FullSb(l)) /\ Cardinality(1 .. FullSb(l)) = FullSb(l)
    BY FullSbType, FS_Interval
  <2>3. FreeIn(l, p) \in SUBSET (1 .. FullSb(l)) /\ FreeIn(l, p) # 1 .. FullSb(l)
    BY <1>3 DEF FreeIn
  <2>4. Cardinality(FreeIn(l, p)) # FullSb(l)
    BY <2>2, <2>3, FS_Subset
  <2> QED BY <2>1, <2>4, FullSbType
<1>5. bkeep' = [bkeep EXCEPT ![p] = [level |-> l,
              free_list |-> i, free_count |-> bkeep[p].free_count + 1]]
  <2> DEFINE b == bkeep[p]
  <2>1. b = [level |-> l, free_list |-> b.free_list, free_count |-> b.free_count]
    BY <1>2 DEF TypeOK, Bookkeeping
  <2>2. bkeep' = [bkeep EXCEPT ![p] = [b EXCEPT !.free_list = i, !.free_count = @ + 1]]
    BY DEF PutBack
  <2> HIDE DEF b
  <2> DEFINE c == [b EXCEPT !.free_list = i]
  <2>3. c = [level |-> l, free_list |-> i, free_count |-> b.free_count]
    BY <2>1
  <2>4. [b EXCEPT !.free_list = i, !.free_count = @ + 1] = [c EXCEPT !.free_count = @ + 1]
    OBVIOUS
  <2> HIDE DEF c
  <2>5. [c EXCEPT !.free_count = @ + 1]
          = [level |-> l, free_list |-> i, free_count |-> b.free_count + 1]
    BY <2>3
  <2> QED BY <2>2, <2>4, <2>5 DEF b
<1> QED BY <1>1, <1>2, <1>3, <1>4, <1>5

LEMMA PutBackKeepsShape ==
  ASSUME AllocInv, NEW p \in Pages, NEW i \in Slots, PutBack(p, i), <<p, i>> \in Used
  PROVE  PutBackShape(p, i)
<1> USE DEF AllocInv
<1> DEFINE l == bkeep[p].level
<1>1. /\ l \in Level /\ p \in Superblocks(l) /\ i \in (1 .. FullSb(l)) \ FreeIn(l, p)
      /\ bkeep[p].free_count \in 0 .. FullSb(l) - 1
      /\ bkeep' = [bkeep EXCEPT ![p] = [level |-> l,
              free_list |-> i, free_count |-> bkeep[p].free_count + 1]]
  BY PutBackFrom
<1>2. free_objects' \in [Level -> Nat]
  BY <1>1 DEF PutBack, TypeOK
<1>3. /\ whole_superblocks' \in [Level -> Nat]
      /\ \A k \in Level : whole_superblocks'[k] <= whole_superblocks[k] + IF k = l THEN 1 ELSE 0
  <2>1. whole_superblocks \in [Level -> Nat]
    BY DEF TypeOK
  <2>2. \/ whole_superblocks' = [whole_superblocks EXCEPT ![l] = @ + 1]
        \/ whole_superblocks' = [whole_superblocks EXCEPT ![l] = @]
    BY DEF PutBack
  <2> HIDE DEF l
  <2> QED BY <1>1, <2>1, <2>2
<1>4. next' \in [Pages -> [Slots -> Links]]
  <2>1. next \in [Pages -> [Slots -> Links]] /\ FREE_POISON \in Links
    BY DEF TypeOK, Links
  <2> QED BY <2>1 DEF PutBack
<1>5. bkeep \in [Pages -> Bookkeeping]
  BY DEF TypeOK
<1>6. bkeep' \in [Pages -> Bookkeeping]
  <2>1. i \in Links /\ bkeep[p].free_count + 1 \in 0 .. FullSb(0)
    BY <1>1, FullSbType, SuperblocksHoldObjects DEF Links
  <2> QED BY <1>1, <1>5, <2>1 DEF Bookkeeping
<1>7. \A q \in Pages : bkeep'[q].level = bkeep[q].level
  BY <1>1, <1>5
<1> QED BY <1>1, <1>2, <1>3, <1>4, <1>6, <1>7 DEF PutBackShape

LEMMA PutBackKeepsBooks ==
  ASSUME AllocInv, NEW p \in Pages, NEW i \in Slots, PutBack(p, i), <<p, i>> \in Used,
         Used' = Used \ {<<p, i>>}
  PROVE  BooksBalance' /\ FreeListsAreFree' /\ LinksLead'
<1> USE DEF AllocInv
<1>0. PICK l \in Level : l = bkeep[p].level
  BY PutBackFrom
<1>1. /\ p \in Superblocks(l) /\ i \in (1 .. FullSb(l)) \ FreeIn(l, p)
      /\ bkeep[p].free_count \in 0 .. FullSb(l) - 1
      /\ <<p, i>> \in ObjectsOf(l)
      /\ bkeep' = [bkeep EXCEPT ![p] = [level |-> l,
              free_list |-> i, free_count |-> bkeep[p].free_count + 1]]
  BY <1>0, PutBackFrom
<1>a. /\ next' = [next EXCEPT ![p][i] = FREE_POISON]
      /\ free_objects' = [free_objects EXCEPT ![l] = @ + 1]
      /\ whole_superblocks' = [whole_superblocks EXCEPT
           ![l] = IF bkeep[p].free_count + 1 = FullSb(l) THEN @ + 1 ELSE @]
      /\ pool' = pool
  BY <1>0 DEF PutBack
<1>2. \A k \in Level : Superblocks(k)' = Superblocks(k) /\ ObjectsOf(k)' = ObjectsOf(k)
  BY <1>a DEF Superblocks, ObjectsOf
<1>3. bkeep \in [Pages -> Bookkeeping] /\ next \in [Pages -> [Slots -> Links]]
  BY DEF TypeOK
<1>4. /\ bkeep'[p].free_count = bkeep[p].free_count + 1
      /\ bkeep'[p].free_list = i
  BY <1>1, <1>3
<1>5. /\ \A q \in Pages : q # p => bkeep'[q] = bkeep[q] /\ next'[q] = next[q]
      /\ \A j \in Slots : j # i => next'[p][j] = next[p][j]
      /\ next'[p][i] = FREE_POISON
  BY <1>1, <1>3, <1>a
<1>6. /\ \A k \in Level, q \in Pages : q # p => FreeIn(k, q)' = FreeIn(k, q)
      /\ FreeIn(l, p)' = FreeIn(l, p) \cup {i}
  BY <1>1 DEF FreeIn
<1>7. \A k \in Level : p \in Superblocks(k) => k = l
  BY <1>1, OneLevel
<1>8. \A k \in Level : Superblocks(k) \in SUBSET Pages
  BY SuperblockMember
<1>9. ASSUME NEW k \in Level, NEW q \in Superblocks(k)
      PROVE  bkeep'[q].free_count = Cardinality(FreeIn(k, q)')
  <2>1. CASE q = p
    <3>1. Cardinality(FreeIn(l, p) \cup {i}) = Cardinality(FreeIn(l, p)) + 1
      BY <1>1, FiniteParts, FS_AddElement
    <3>2. bkeep[p].free_count = Cardinality(FreeIn(l, p))
      BY <1>1, BooksOf
    <3> QED BY <1>4, <1>6, <1>7, <2>1, <3>1, <3>2
  <2>2. CASE q # p
    <3>1. bkeep[q].free_count = Cardinality(FreeIn(k, q))
      BY BooksOf
    <3> QED BY <1>5, <1>6, <1>8, <2>2, <3>1
  <2> QED BY <2>1, <2>2
<1>10. ASSUME NEW k \in Level
       PROVE  free_objects'[k] = Cardinality((ObjectsOf(k) \ Used)')
  <2>1. free_objects[k] = Cardinality(ObjectsOf(k) \ Used)
    BY BooksOf
  <2>2. free_objects \in [Level -> Nat]
    BY DEF TypeOK
  <2>3. CASE k = l
    <3>1. (ObjectsOf(l) \ Used)' = (ObjectsOf(l) \ Used) \cup {<<p, i>>}
      BY <1>1, <1>2
    <3>2. Cardinality((ObjectsOf(l) \ Used) \cup {<<p, i>>}) = Cardinality(ObjectsOf(l) \ Used) + 1
      BY <1>1, FiniteParts, FS_AddElement
    <3> QED BY <1>a, <2>1, <2>2, <2>3, <3>1, <3>2
  <2>4. CASE k # l
    <3>1. <<p, i>> \notin ObjectsOf(k)
      BY <1>7, <2>4 DEF ObjectsOf
    <3>2. (ObjectsOf(k) \ Used)' = ObjectsOf(k) \ Used
      BY <1>2, <3>1
    <3> QED BY <1>a, <2>1, <2>2, <2>4, <3>2
  <2> QED BY <2>3, <2>4
<1>11. ASSUME NEW k \in Level
       PROVE  whole_superblocks'[k] = Cardinality(Whole(k)')
  <2>1. whole_superblocks[k] = Cardinality(Whole(k))
    BY BooksOf
  <2>2. whole_superblocks \in [Level -> Nat]
    BY DEF TypeOK
  <2>3. p \notin Whole(l)
    BY <1>1, FullSbType DEF Whole
  <2>4. CASE k = l /\ bkeep[p].free_count + 1 = FullSb(l)
    <3>1. Whole(l)' = Whole(l) \cup {p}
      BY <1>1, <1>2, <1>4, <1>5, <1>8, <2>4 DEF Whole
    <3>2. Cardinality(Whole(l) \cup {p}) = Cardinality(Whole(l)) + 1
      BY <1>1, <2>3, FiniteParts, FS_AddElement
    <3> QED BY <1>a, <2>1, <2>2, <2>4, <3>1, <3>2
  <2>5. CASE k # l \/ bkeep[p].free_count + 1 # FullSb(l)
    <3>1. p \notin Whole(k) /\ p \notin Whole(k)'
      <4>1. CASE k = l
        BY <1>4, <2>3, <2>5, <4>1 DEF Whole
      <4>2. CASE k # l
        <5>1. p \notin Superblocks(k)
          BY <1>7, <4>2
        <5> QED BY <1>2, <5>1 DEF Whole
      <4> QED BY <4>1, <4>2
    <3>2. \A q : q \in Whole(k)' <=> q \in Whole(k)
      BY <1>2, <1>5, <1>8, <3>1 DEF Whole
    <3>3. Whole(k)' = Whole(k)
      BY <3>2
    <3>4. whole_superblocks'[k] = whole_superblocks[k]
      BY <1>a, <2>2, <2>5
    <3> QED BY <2>1, <3>3, <3>4
  <2> QED BY <2>4, <2>5
<1>12. BooksBalance'
  <2> SUFFICES ASSUME NEW k \in Level
               PROVE  (/\ \A q \in Superblocks(k) :
                            bkeep[q].free_count = Cardinality(FreeIn(k, q))
                       /\ free_objects[k] = Cardinality(ObjectsOf(k) \ Used)
                       /\ whole_superblocks[k] = Cardinality(Whole(k)))'
    BY Zenon DEF BooksBalance, FreeIn, Whole
  <2> QED BY <1>2, <1>9, <1>10, <1>11
<1>13. FREE_POISON \notin Slots
  BY PoisonIsNoSlot, FullSbType DEF Slots
<1>14. ASSUME NEW j \in FreeIn(l, p)', next'[p][j] \in Slots
       PROVE  /\ next'[p][j] = j - 1 /\ j - 1 \in FreeIn(l, p)' /\ i # j - 1
  <2>1. j \in FreeIn(l, p) /\ j # i /\ j \in Slots
    BY <1>1, <1>5, <1>6, <1>13, <1>14, FullSbType DEF FreeIn
  <2>2. next'[p][j] = next[p][j]
    BY <1>5, <2>1
  <2>3. next[p][j] = j - 1 /\ j - 1 \in FreeIn(l, p)
    BY <1>1, <1>14, <2>1, <2>2 DEF LinksLead
  <2> QED BY <1>1, <1>6, <2>2, <2>3
<1>15. \A k \in Level : \A q \in Superblocks(k) :
         \/ k = l /\ q = p
         \/ /\ q # p /\ bkeep'[q] = bkeep[q] /\ next'[q] = next[q]
            /\ FreeIn(k, q)' = FreeIn(k, q)
  BY <1>5, <1>6, <1>7, <1>8
<1>16. FreeListsAreFree'
  <2>0. FreeListsAreFree' <=>
          \A k \in Level : \A q \in Superblocks(k)' :
            /\ bkeep'[q].free_list \in Slots => bkeep'[q].free_list \in FreeIn(k, q)'
            /\ \A j \in FreeIn(k, q)' : next'[q][j] \in Slots => next'[q][j] \in FreeIn(k, q)'
    BY DEF FreeListsAreFree, FreeIn
  <2> SUFFICES ASSUME NEW k \in Level, NEW q \in Superblocks(k)
               PROVE  /\ bkeep'[q].free_list \in Slots => bkeep'[q].free_list \in FreeIn(k, q)'
                      /\ \A j \in FreeIn(k, q)' : next'[q][j] \in Slots => next'[q][j] \in FreeIn(k, q)'
    BY <1>2, <2>0
  <2>1. CASE k = l /\ q = p
    BY <1>4, <1>6, <1>14, <2>1
  <2>2. CASE q # p
    <3>1. /\ bkeep[q].free_list \in Slots => bkeep[q].free_list \in FreeIn(k, q)
          /\ \A j \in FreeIn(k, q) : next[q][j] \in Slots => next[q][j] \in FreeIn(k, q)
      BY DEF FreeListsAreFree, FreeIn
    <3> QED BY <1>15, <2>2, <3>1
  <2> QED BY <1>15, <2>1, <2>2
<1>17. LinksLead'
  <2> SUFFICES ASSUME NEW k \in Level, NEW q \in Superblocks(k), NEW j \in FreeIn(k, q)',
                      next'[q][j] \in Slots
               PROVE  /\ next'[q][j] = j - 1 /\ j - 1 \in FreeIn(k, q)'
                      /\ bkeep'[q].free_list # j - 1
    BY <1>2 DEF LinksLead
  <2>1. CASE k = l /\ q = p
    BY <1>4, <1>14, <2>1
  <2>2. CASE q # p
    <3>1. j \in FreeIn(k, q) /\ next[q][j] \in Slots
      BY <1>15, <2>2
    <3>2. next[q][j] = j - 1 /\ j - 1 \in FreeIn(k, q) /\ bkeep[q].free_list # j - 1
      BY <3>1 DEF LinksLead
    <3> QED BY <1>15, <2>2, <3>2
  <2> QED BY <1>15, <2>1, <2>2
<1> QED BY <1>12, <1>16, <1>17

-----------------------------------------------------------------------------
(***************************************************************************)
(* Giving a superblock back                                                *)
(***************************************************************************)

\* What giving superblock p of level l back leaves of the chains.
ReleaseShape(l, p) ==
  /\ p \in Superblocks(l) /\ mapped' = mapped \ {p}
  /\ \A i \in 1 .. FullSb(l) : <<p, i>> \notin Used
  /\ pool' \in [Level -> Seq(Pages)]
  /\ free_objects' \in [Level -> Nat] /\ whole_superblocks' \in [Level -> Nat]
  /\ bkeep' \in [Pages -> Bookkeeping] /\ next' \in [Pages -> [Slots -> Links]]
  /\ \A k \in Level :
       /\ Superblocks(k)' = IF k = l THEN Superblocks(k) \ {p} ELSE Superblocks(k)
       /\ \A a, b \in 1 .. Len(pool'[k]) : pool'[k][a] = pool'[k][b] => a = b
       /\ whole_superblocks'[k] = whole_superblocks[k] - IF k = l THEN 1 ELSE 0
  /\ \A q \in Pages : q # p => bkeep'[q] = bkeep[q]

LEMMA ReleaseFrom ==
  ASSUME AllocInv, NEW l, l = power, NEW n \in 1 .. Len(pool[l]), NEW p, p = pool[l][n],
         IsWhole(p), Release(n)
  PROVE  /\ l \in Level /\ p \in Superblocks(l) /\ p \in Whole(l)
         /\ \A i \in 1 .. FullSb(l) : <<p, i>> \notin Used
         /\ pool' = [pool EXCEPT ![l] = RemoveAt(@, n)]
         /\ mapped' = mapped \ {p}
         /\ bkeep' = [bkeep EXCEPT ![p] = NoBkeep]
         /\ next' = [next EXCEPT ![p] = NoNext]
         /\ free_objects' = [free_objects EXCEPT ![l] = @ - FullSb(l)]
         /\ whole_superblocks' = [whole_superblocks EXCEPT ![l] = @ - 1]
         /\ \A k \in Level : Superblocks(k)' = IF k = l THEN Superblocks(k) \ {p} ELSE Superblocks(k)
         /\ \A k \in Level : \A a, b \in 1 .. Len(pool'[k]) : pool'[k][a] = pool'[k][b] => a = b
         /\ pool' \in [Level -> Seq(Pages)]
<1> USE DEF AllocInv
<1>1. l \in Level
  BY DEF TypeOK
<1>2. p \in Superblocks(l)
  BY <1>1, SuperblockMember
<1>3. p \in Whole(l)
  BY <1>2 DEF IsWhole, Whole
<1>4. \A i \in 1 .. FullSb(l) : <<p, i>> \notin Used
  <2>1. Cardinality(FreeIn(l, p)) = FullSb(l)
    BY <1>1, <1>2, BooksOf DEF IsWhole
  <2>2. IsFiniteSet(1 .. FullSb(l)) /\ Cardinality(1 .. FullSb(l)) = FullSb(l)
    BY <1>1, FullSbType, FS_Interval
  <2>3. FreeIn(l, p) \in SUBSET (1 .. FullSb(l))
    BY DEF FreeIn
  <2>4. FreeIn(l, p) = 1 .. FullSb(l)
    BY <2>1, <2>2, <2>3, FS_Subset
  <2> QED BY <2>4 DEF FreeIn
<1>5. /\ pool' = [pool EXCEPT ![l] = RemoveAt(@, n)]
      /\ mapped' = mapped \ {p}
      /\ bkeep' = [bkeep EXCEPT ![p] = NoBkeep]
      /\ next' = [next EXCEPT ![p] = NoNext]
      /\ free_objects' = [free_objects EXCEPT ![l] = @ - FullSb(l)]
      /\ whole_superblocks' = [whole_superblocks EXCEPT ![l] = @ - 1]
  BY DEF Release
<1>6. pool \in [Level -> Seq(Pages)] /\ pool[l] \in Seq(Pages)
  BY <1>1 DEF TypeOK
<1>7. \A k \in Level : \A a, b \in 1 .. Len(pool[k]) : pool[k][a] = pool[k][b] => a = b
  BY DEF PagesAccounted
<1>8. /\ RemoveAt(pool[l], n) \in Seq(Pages)
      /\ Len(RemoveAt(pool[l], n)) = Len(pool[l]) - 1
  BY <1>6, RemoveAtProperties
<1>9. /\ ToSet(RemoveAt(pool[l], n)) = ToSet(pool[l]) \ {p}
      /\ \A a, b \in 1 .. Len(pool[l]) - 1 :
           RemoveAt(pool[l], n)[a] = RemoveAt(pool[l], n)[b] => a = b
  BY <1>1, <1>6, <1>7, RemoveAtSet
<1>10. pool' \in [Level -> Seq(Pages)]
  BY <1>5, <1>6, <1>8
<1>11. /\ pool'[l] = RemoveAt(pool[l], n)
       /\ \A k \in Level : k # l => pool'[k] = pool[k]
  BY <1>1, <1>5, <1>6
<1>12. \A k \in Level : Superblocks(k)' = IF k = l THEN Superblocks(k) \ {p} ELSE Superblocks(k)
  BY <1>9, <1>11 DEF Superblocks
<1>13. \A k \in Level : \A a, b \in 1 .. Len(pool'[k]) : pool'[k][a] = pool'[k][b] => a = b
  BY <1>7, <1>8, <1>9, <1>11
<1> QED BY <1>1, <1>2, <1>3, <1>4, <1>5, <1>10, <1>12, <1>13

LEMMA ReleaseKeepsShape ==
  ASSUME AllocInv, NEW l, l = power, NEW n \in 1 .. Len(pool[l]), NEW p, p = pool[l][n],
         IsWhole(p), Release(n)
  PROVE  ReleaseShape(l, p)
<1> USE DEF AllocInv
<1>1. /\ l \in Level /\ p \in Superblocks(l) /\ p \in Whole(l)
      /\ \A i \in 1 .. FullSb(l) : <<p, i>> \notin Used
      /\ mapped' = mapped \ {p}
      /\ bkeep' = [bkeep EXCEPT ![p] = NoBkeep]
      /\ next' = [next EXCEPT ![p] = NoNext]
      /\ free_objects' = [free_objects EXCEPT ![l] = @ - FullSb(l)]
      /\ whole_superblocks' = [whole_superblocks EXCEPT ![l] = @ - 1]
      /\ \A k \in Level : Superblocks(k)' = IF k = l THEN Superblocks(k) \ {p} ELSE Superblocks(k)
      /\ \A k \in Level : \A a, b \in 1 .. Len(pool'[k]) : pool'[k][a] = pool'[k][b] => a = b
      /\ pool' \in [Level -> Seq(Pages)]
  BY ReleaseFrom
<1>2. p \in Pages
  BY <1>1, SuperblockMember
<1>3. free_objects' \in [Level -> Nat]
  <2> DEFINE S == ObjectsOf(l) \ Used
             T == {p} \X (1 .. FullSb(l))
  <2>1. T \in SUBSET S
    BY <1>1 DEF ObjectsOf
  <2>2. Cardinality(T) = FullSb(l)
    BY <1>1, FullSbType, ObjectsOfPage
  <2>3. free_objects[l] = Cardinality(S) /\ IsFiniteSet(S)
    BY <1>1, BooksOf, FiniteParts
  <2> HIDE DEF S, T
  <2>a. Cardinality(T) <= Cardinality(S)
    BY <2>1, <2>3, FS_Subset
  <2>4. free_objects \in [Level -> Nat] /\ FullSb(l) <= free_objects[l] /\ FullSb(l) \in Nat
    BY <1>1, <2>2, <2>3, <2>a, FullSbType DEF TypeOK
  <2>5. free_objects[l] - FullSb(l) \in Nat
    BY <1>1, <2>4
  <2> QED BY <1>1, <2>4, <2>5
<1>4. /\ whole_superblocks' \in [Level -> Nat]
      /\ \A k \in Level : whole_superblocks'[k] = whole_superblocks[k] - IF k = l THEN 1 ELSE 0
  <2>1. Cardinality(Whole(l)) # 0
    BY <1>1, FiniteParts, FS_EmptySet
  <2>2. whole_superblocks \in [Level -> Nat] /\ whole_superblocks[l] # 0
    BY <1>1, <2>1, BooksOf DEF TypeOK
  <2>3. whole_superblocks[l] - 1 \in Nat
    BY <1>1, <2>2
  <2> QED BY <1>1, <2>2, <2>3
<1>5. bkeep \in [Pages -> Bookkeeping] /\ next \in [Pages -> [Slots -> Links]]
  BY DEF TypeOK
<1>6. bkeep' \in [Pages -> Bookkeeping]
  <2>1. NoBkeep \in Bookkeeping
    BY FullSbType DEF NoBkeep, Bookkeeping, Links
  <2> QED BY <1>1, <1>5, <2>1
<1>7. next' \in [Pages -> [Slots -> Links]]
  <2>1. NoNext \in [Slots -> Links]
    BY FullSbType DEF NoNext, Links
  <2> QED BY <1>1, <1>5, <2>1
<1>8. \A q \in Pages : q # p => bkeep'[q] = bkeep[q]
  BY <1>1, <1>5
<1> QED BY <1>1, <1>3, <1>4, <1>6, <1>7, <1>8 DEF ReleaseShape

LEMMA ReleaseKeepsBooks ==
  ASSUME AllocInv, NEW l, l = power, NEW n \in 1 .. Len(pool[l]), NEW p, p = pool[l][n],
         IsWhole(p), Release(n), Used' = Used
  PROVE  BooksBalance' /\ FreeListsAreFree' /\ LinksLead'
<1> USE DEF AllocInv
<1>1. /\ l \in Level /\ p \in Superblocks(l) /\ p \in Whole(l)
      /\ \A i \in 1 .. FullSb(l) : <<p, i>> \notin Used
      /\ bkeep' = [bkeep EXCEPT ![p] = NoBkeep]
      /\ next' = [next EXCEPT ![p] = NoNext]
      /\ free_objects' = [free_objects EXCEPT ![l] = @ - FullSb(l)]
      /\ whole_superblocks' = [whole_superblocks EXCEPT ![l] = @ - 1]
      /\ \A k \in Level : Superblocks(k)' = IF k = l THEN Superblocks(k) \ {p} ELSE Superblocks(k)
  BY ReleaseFrom
<1>2. p \in Pages /\ FullSb(l) \in Nat
  BY <1>1, SuperblockMember, FullSbType
<1>3. /\ bkeep \in [Pages -> Bookkeeping] /\ next \in [Pages -> [Slots -> Links]]
      /\ free_objects \in [Level -> Nat] /\ whole_superblocks \in [Level -> Nat]
  BY DEF TypeOK
<1>4. \A k \in Level : p \in Superblocks(k) => k = l
  BY <1>1, OneLevel
<1>5. \A k \in Level : \A q : FreeIn(k, q)' = FreeIn(k, q)
  BY DEF FreeIn
<1>6. \A k \in Level : \A q \in Superblocks(k)' :
        /\ q \in Superblocks(k) /\ q # p /\ q \in Pages
        /\ bkeep'[q] = bkeep[q] /\ next'[q] = next[q]
  <2> TAKE k \in Level
  <2> TAKE q \in Superblocks(k)'
  <2>1. q \in Superblocks(k) /\ q # p
    BY <1>1, <1>4
  <2>2. q \in Pages
    BY <2>1, SuperblockMember
  <2> QED BY <1>1, <1>3, <2>1, <2>2
<1>7. ASSUME NEW k \in Level, NEW q \in Superblocks(k)'
      PROVE  bkeep'[q].free_count = Cardinality(FreeIn(k, q)')
  <2>1. q \in Superblocks(k) /\ bkeep'[q] = bkeep[q] /\ FreeIn(k, q)' = FreeIn(k, q)
    BY <1>5, <1>6
  <2>2. bkeep[q].free_count = Cardinality(FreeIn(k, q))
    BY <2>1, BooksOf
  <2> QED BY <2>1, <2>2
<1>8. ASSUME NEW k \in Level
      PROVE  free_objects'[k] = Cardinality((ObjectsOf(k) \ Used)')
  <2>1. free_objects[k] = Cardinality(ObjectsOf(k) \ Used)
    BY BooksOf
  <2>2. CASE k = l
    <3> DEFINE S == ObjectsOf(l) \ Used
               T == {p} \X (1 .. FullSb(l))
    <3>1. (ObjectsOf(l) \ Used)' = S \ T
      BY <1>1 DEF ObjectsOf
    <3>2. S \cap T = T
      BY <1>1 DEF ObjectsOf
    <3>3. Cardinality(T) = FullSb(l)
      BY <1>2, ObjectsOfPage
    <3>4. IsFiniteSet(S)
      BY <1>1, FiniteParts
    <3>5. free_objects[l] = Cardinality(S)
      BY <2>1, <2>2
    <3> HIDE DEF S, T
    <3>6. Cardinality(S \ T) = Cardinality(S) - Cardinality(T)
      BY <3>2, <3>4, FS_Difference
    <3>7. free_objects'[l] = free_objects[l] - FullSb(l)
      BY <1>1, <1>3
    <3>8. Cardinality(S \ T) = free_objects[l] - FullSb(l)
      BY <3>3, <3>5, <3>6
    <3> QED BY <2>2, <3>1, <3>7, <3>8
  <2>3. CASE k # l
    <3>1. (ObjectsOf(k) \ Used)' = ObjectsOf(k) \ Used
      BY <1>1, <2>3 DEF ObjectsOf
    <3> QED BY <1>1, <1>3, <2>1, <2>3, <3>1
  <2> QED BY <2>2, <2>3
<1>9. ASSUME NEW k \in Level
      PROVE  whole_superblocks'[k] = Cardinality(Whole(k)')
  <2>1. whole_superblocks[k] = Cardinality(Whole(k))
    BY BooksOf
  <2>2. Whole(k)' = IF k = l THEN Whole(k) \ {p} ELSE Whole(k)
    <3>1. \A q : q \in Superblocks(k)' <=> q \in Superblocks(k) /\ q # p
      BY <1>1, <1>4
    <3>2. \A q : q \in Whole(k)' <=> q \in Whole(k) /\ q # p
      BY <1>6, <3>1 DEF Whole
    <3>3. k # l => p \notin Whole(k)
      BY <1>4 DEF Whole
    <3> QED BY <3>2, <3>3
  <2>3. Cardinality(Whole(l) \ {p}) = Cardinality(Whole(l)) - 1
    BY <1>1, FiniteParts, FS_RemoveElement
  <2>4. CASE k = l
    BY <1>1, <1>3, <2>1, <2>2, <2>3, <2>4
  <2>5. CASE k # l
    BY <1>1, <1>3, <2>1, <2>2, <2>5
  <2> QED BY <2>4, <2>5
<1>10. BooksBalance'
  <2> SUFFICES ASSUME NEW k \in Level
               PROVE  (/\ \A q \in Superblocks(k) :
                            bkeep[q].free_count = Cardinality(FreeIn(k, q))
                       /\ free_objects[k] = Cardinality(ObjectsOf(k) \ Used)
                       /\ whole_superblocks[k] = Cardinality(Whole(k)))'
    BY Zenon DEF BooksBalance, FreeIn, Whole
  <2> QED BY <1>7, <1>8, <1>9
<1>11. FreeListsAreFree'
  <2>1. FreeListsAreFree' <=>
          \A k \in Level : \A q \in Superblocks(k)' :
            /\ bkeep'[q].free_list \in Slots => bkeep'[q].free_list \in FreeIn(k, q)'
            /\ \A j \in FreeIn(k, q)' : next'[q][j] \in Slots => next'[q][j] \in FreeIn(k, q)'
    BY DEF FreeListsAreFree, FreeIn
  <2>2. \A k \in Level : \A q \in Superblocks(k) :
            /\ bkeep[q].free_list \in Slots => bkeep[q].free_list \in FreeIn(k, q)
            /\ \A j \in FreeIn(k, q) : next[q][j] \in Slots => next[q][j] \in FreeIn(k, q)
    BY DEF FreeListsAreFree, FreeIn
  <2> QED BY <1>5, <1>6, <2>1, <2>2
<1>12. LinksLead'
  <2> SUFFICES ASSUME NEW k \in Level, NEW q \in Superblocks(k)', NEW j \in FreeIn(k, q)',
                      next'[q][j] \in Slots
               PROVE  /\ next'[q][j] = j - 1 /\ j - 1 \in FreeIn(k, q)'
                      /\ bkeep'[q].free_list # j - 1
    BY DEF LinksLead
  <2>1. /\ q \in Superblocks(k) /\ j \in FreeIn(k, q)
        /\ bkeep'[q] = bkeep[q] /\ next'[q] = next[q] /\ FreeIn(k, q)' = FreeIn(k, q)
    BY <1>5, <1>6
  <2>2. next[q][j] = j - 1 /\ j - 1 \in FreeIn(k, q) /\ bkeep[q].free_list # j - 1
    BY <2>1 DEF LinksLead
  <2> QED BY <2>1, <2>2
<1> QED BY <1>10, <1>11, <1>12

-----------------------------------------------------------------------------
(***************************************************************************)
(* malloc                                                                  *)
(***************************************************************************)

\* The big objects that have memory.
Bigs == {b \in BigEntries : b.addr # MAP_FAILED}

\* PagesAccounted, one page and one object at a time.
Repeatless     == \A l \in Level : \A m, n \in 1 .. Len(pool[l]) : pool[l][m] = pool[l][n] => m = n
LevelsAgree    == \A l \in Level : \A p \in Superblocks(l) : bkeep[p].level = l
MappedIsKnown  == \A q : q \in mapped <=> \/ \E l \in Level : q \in Superblocks(l)
                                          \/ \E b \in Bigs : q = b.addr[1]
BigsAreNoSuper == \A b \in Bigs : \A l \in Level : b.addr[1] \notin Superblocks(l)
BigsAreHeld    == \A a : a \in held /\ a \in Pages \X {0} <=> \E b \in Bigs : a = b.addr
UsedIsChained  == \A u \in Used : \E l \in Level : u \in ObjectsOf(l)
NodesApart     == /\ \A b \in BigEntries : b.node \notin held
                  /\ \A b, c \in BigEntries : b.node = c.node => b = c

PagesByPage ==
  /\ Repeatless /\ LevelsAgree /\ MappedIsKnown /\ BigsAreNoSuper /\ BigsAreHeld
  /\ UsedIsChained /\ NodesApart

LEMMA PagesAccountedByPage == PagesAccounted <=> PagesByPage
<1> DEFINE U == UNION {Superblocks(l) : l \in Level}
           A == {b.addr : b \in Bigs}
           B == {b.addr[1] : b \in Bigs}
           O == UNION {ObjectsOf(l) : l \in Level}
<1>1. PagesAccounted <=> /\ Repeatless /\ LevelsAgree /\ mapped = U \cup B
                         /\ BigsAreNoSuper /\ held \cap (Pages \X {0}) = A
                         /\ Used \subseteq O /\ NodesApart
  <2>1. ASSUME PagesAccounted
        PROVE  /\ Repeatless /\ LevelsAgree /\ mapped = U \cup B
               /\ BigsAreNoSuper /\ held \cap (Pages \X {0}) = A
               /\ Used \subseteq O /\ NodesApart
    <3>1. Repeatless
      BY <2>1, Zenon DEF PagesAccounted, Repeatless
    <3>2. LevelsAgree
      BY <2>1, Zenon DEF PagesAccounted, LevelsAgree
    <3>3. mapped = U \cup B
      BY <2>1, Zenon DEF PagesAccounted, Bigs
    <3>4. BigsAreNoSuper
      BY <2>1, Zenon DEF PagesAccounted, BigsAreNoSuper, Bigs
    <3>5. held \cap (Pages \X {0}) = A
      BY <2>1, Zenon DEF PagesAccounted, Bigs
    <3>6. Used \subseteq O
      BY <2>1, Zenon DEF PagesAccounted
    <3>7. NodesApart
      BY <2>1, Zenon DEF PagesAccounted, NodesApart
    <3> QED BY <3>1, <3>2, <3>3, <3>4, <3>5, <3>6, <3>7
  <2>2. ASSUME /\ Repeatless /\ LevelsAgree /\ mapped = U \cup B
               /\ BigsAreNoSuper /\ held \cap (Pages \X {0}) = A
               /\ Used \subseteq O /\ NodesApart
        PROVE  PagesAccounted
    BY <2>2, Zenon DEF PagesAccounted, Repeatless, LevelsAgree, BigsAreNoSuper, NodesApart, Bigs
  <2> QED BY <2>1, <2>2
<1>2. \A q : q \in U <=> \E l \in Level : q \in Superblocks(l)
  BY Zenon
<1>3. \A q : q \in B <=> \E b \in Bigs : q = b.addr[1]
  BY Zenon
<1>4. \A q : q \in A <=> \E b \in Bigs : q = b.addr
  BY Zenon
<1>5. \A u : u \in O <=> \E l \in Level : u \in ObjectsOf(l)
  BY Zenon
<1> HIDE DEF U, A, B, O
<1>6. mapped = U \cup B <=> MappedIsKnown
  BY <1>2, <1>3 DEF MappedIsKnown
<1>7. held \cap (Pages \X {0}) = A <=> BigsAreHeld
  <2>1. held \cap (Pages \X {0}) = A
          <=> \A a : a \in held /\ a \in Pages \X {0} <=> a \in A
    BY Zenon
  <2> QED BY <1>4, <2>1, Zenon DEF BigsAreHeld
<1>8. Used \subseteq O <=> UsedIsChained
  BY <1>5 DEF UsedIsChained
<1> QED BY <1>1, <1>6, <1>7, <1>8 DEF PagesByPage

LEMMA BigFacts ==
  ASSUME TypeOK, PagesAccounted
  PROVE  /\ DOMAIN big_object_list = 1 .. Len(big_object_list)
         /\ \A b \in BigEntries : /\ b \in BigObject /\ b.node \in Objects /\ b.node \in Used
                                  /\ b.node \notin held
         /\ \A b \in Bigs : /\ b.addr = <<b.addr[1], 0>> /\ b.addr \in held
                            /\ b.addr[1] \in mapped /\ b.addr[1] \in Pages
<1>1. big_object_list \in Seq(BigObject) /\ mapped \in SUBSET Pages
  BY DEF TypeOK
<1>2. DOMAIN big_object_list = 1 .. Len(big_object_list)
  BY <1>1
<1>3. \A b \in BigEntries : b \in BigObject
  BY <1>1, <1>2 DEF BigEntries, ToSet
<1>4. \A b \in BigEntries : b.node \in Objects /\ b.node \in Used
  BY <1>3 DEF BigObject, Used
<1>5. PagesByPage
  BY PagesAccountedByPage
<1>6. ASSUME NEW b \in Bigs
      PROVE  /\ b.addr = <<b.addr[1], 0>> /\ b.addr \in held
             /\ b.addr[1] \in mapped /\ b.addr[1] \in Pages
  <2>1. b.addr \in held /\ b.addr \in Pages \X {0} /\ b.addr[1] \in mapped
    BY <1>5 DEF PagesByPage, BigsAreHeld, MappedIsKnown
  <2> QED BY <1>1, <2>1
<1> QED BY <1>2, <1>3, <1>4, <1>5, <1>6 DEF PagesByPage, NodesApart

LEMMA AddressFacts ==
  /\ \A q : <<q, 0>> \notin Objects
  /\ MAP_FAILED \notin Objects /\ MAP_FAILED \notin Pages \X {0}
  /\ Objects \in SUBSET Pointers /\ Pages \X {0} \in SUBSET Pointers
  /\ Objects \cap (Pages \X {0}) = {}
<1>1. 0 \notin Slots /\ Slots \in SUBSET (0 .. FullSb(0)) /\ 0 \in 0 .. FullSb(0)
  BY FullSbType DEF Slots
<1>2. Objects \in SUBSET Pointers /\ Pages \X {0} \in SUBSET Pointers
  BY <1>1 DEF Objects, Pointers
<1>3. MAP_FAILED \notin Pointers
  BY FailureIsNoPointer DEF Pointers
<1>4. \A q : <<q, 0>> \notin Objects
  BY <1>1 DEF Objects
<1>5. Objects \cap (Pages \X {0}) = {}
  BY <1>1 DEF Objects
<1> QED BY <1>2, <1>3, <1>4, <1>5

\* The pages after an object is taken.
LEMMA TakeKeepsPages ==
  ASSUME AllocInv, NEW l \in Level, NEW p \in Pages, NEW i \in Slots, TakeShape(l, p, i)
  PROVE  /\ Repeatless' /\ LevelsAgree'
         /\ \A q : (\E k \in Level : q \in Superblocks(k)')
                   <=> q = p \/ \E k \in Level : q \in Superblocks(k)
         /\ \A u \in Used \cup {<<p, i>>} : \E k \in Level : u \in ObjectsOf(k)'
         /\ \A b \in Bigs : b.addr[1] # p
         /\ \A b \in Bigs : \A k \in Level : b.addr[1] \notin Superblocks(k)'
         /\ \A q \in Pages, j \in Slots : <<q, j>> \in held => bkeep'[q].level = bkeep[q].level
<1> USE DEF AllocInv
<1>1. /\ i \in 1 .. FullSb(l) /\ p \in Superblocks(l)' /\ <<p, i>> \notin Used
      /\ p \in Superblocks(l) \/ p \notin mapped
      /\ \A k \in Level :
           Superblocks(k)' = IF k = l THEN Superblocks(k) \cup {p} ELSE Superblocks(k)
      /\ \A q \in mapped : bkeep'[q].level = bkeep[q].level
      /\ bkeep'[p].level = l
  BY DEF TakeShape
<1>2. ASSUME NEW k \in Level, NEW q \in Superblocks(k)'
      PROVE  bkeep'[q].level = k
  <2>1. CASE q \in Superblocks(k)
    <3>1. q \in mapped /\ bkeep[q].level = k
      BY <2>1, OneLevel
    <3> QED BY <1>1, <3>1
  <2>2. CASE k = l /\ q = p
    BY <1>1, <2>2
  <2> QED BY <1>1, <2>1, <2>2
<1>3. \A q : (\E k \in Level : q \in Superblocks(k)')
             <=> q = p \/ \E k \in Level : q \in Superblocks(k)
  BY <1>1
<1>4. PagesByPage
  BY PagesAccountedByPage
<1>5. ASSUME NEW u \in Used \cup {<<p, i>>}
      PROVE  \E k \in Level : u \in ObjectsOf(k)'
  <2>1. \A k \in Level : ObjectsOf(k) \in SUBSET (ObjectsOf(k)')
    BY <1>1 DEF ObjectsOf
  <2>2. <<p, i>> \in ObjectsOf(l)'
    BY <1>1 DEF ObjectsOf
  <2>3. u \in Used => \E k \in Level : u \in ObjectsOf(k)
    BY <1>4 DEF PagesByPage, UsedIsChained
  <2> QED BY <2>1, <2>2, <2>3
<1>6. \A b \in Bigs : \A k \in Level : b.addr[1] \notin Superblocks(k)
  BY <1>4 DEF PagesByPage, BigsAreNoSuper
<1>7. \A b \in Bigs : b.addr[1] # p
  BY <1>1, <1>6, BigFacts
<1>8. \A b \in Bigs : \A k \in Level : b.addr[1] \notin Superblocks(k)'
  BY <1>1, <1>6, <1>7
<1>9. ASSUME NEW q \in Pages, NEW j \in Slots, <<q, j>> \in held
      PROVE  bkeep'[q].level = bkeep[q].level
  <2>1. <<q, j>> \in Used
    BY <1>9 DEF Used, Objects
  <2>2. q \in mapped
    BY <2>1, UnmappedIsUnused
  <2> QED BY <1>1, <2>2
<1>10. Repeatless' /\ LevelsAgree'
  BY <1>2 DEF Repeatless, LevelsAgree, TakeShape
<1> QED BY <1>3, <1>5, <1>7, <1>8, <1>9, <1>10

LEMMA TakeKeepsLimit ==
  ASSUME AllocInv, NEW l \in Level, NEW p \in Pages, NEW i \in Slots, TakeShape(l, p, i),
         pc = "idle", pc' = pc
  PROVE  WholeLimit' /\ ChainSafe'
<1> USE DEF AllocInv
<1>1. \A k \in Level : whole_superblocks[k] <= RESERVE_SUPERBLOCK_THRESHOLD
  BY ThresholdIsNat DEF WholeLimit, TypeOK
<1>2. /\ \A k \in Level : whole_superblocks'[k] <= whole_superblocks[k]
      /\ whole_superblocks' \in [Level -> Nat] /\ whole_superblocks \in [Level -> Nat]
  BY DEF TakeShape, TypeOK
<1>3. \A k \in Level : whole_superblocks'[k] <= RESERVE_SUPERBLOCK_THRESHOLD
  BY <1>1, <1>2, ThresholdIsNat
<1>4. WholeLimit'
  BY <1>2, <1>3, ThresholdIsNat DEF WholeLimit
<1> QED BY <1>4 DEF ChainSafe, TooManyWhole

LEMMA MallocKeepsInv ==
  ASSUME AllocInv, NEW size \in Sizes, Malloc(size)
  PROVE  AllocInv'
<1> USE DEF AllocInv
<1> DEFINE lvl == size2level(size)
<1>1. PICK p \in Pages, i \in Slots :
        /\ Take(lvl, p, i) /\ mapped' = mapped \cup {p} /\ Give(<<p, i>>, size)
  BY DEF Malloc
<1>2. /\ pc = "idle" /\ size <= MAX_ALLOC
      /\ big_object_list' = big_object_list /\ pc' = pc /\ power' = power /\ curr' = curr
  BY DEF Malloc
<1>3. lvl \in Level /\ SmallestFit(size, lvl)
  BY <1>2, LevelFits
<1> HIDE DEF lvl
<1>4. /\ TakeShape(lvl, p, i)
      /\ Used' = Used \cup {<<p, i>>} => BooksBalance' /\ FreeListsAreFree' /\ LinksLead'
  BY <1>1, <1>3, TakeKeepsBooks
<1>5. /\ held' = held \cup {<<p, i>>} /\ asked' = [asked EXCEPT ![<<p, i>>] = size]
      /\ <<p, i>> \in Objects /\ <<p, i>> \in Pointers
  BY <1>1, AddressFacts DEF Give, Objects
<1>6. BigEntries' = BigEntries /\ Bigs' = Bigs
  BY <1>2 DEF BigEntries, Bigs
<1>7. Used' = Used \cup {<<p, i>>}
  BY <1>5, <1>6 DEF Used
<1>8. BooksBalance' /\ FreeListsAreFree' /\ LinksLead'
  BY <1>4, <1>7
<1>9. TypeOK'
  <2>1. held' \subseteq Pointers \cup {MAP_FAILED} /\ asked' \in [Pointers -> Sizes \cup {0}]
    BY <1>5 DEF TypeOK
  <2>2. mapped' \subseteq Pages
    BY <1>1 DEF TypeOK
  <2> QED BY <1>2, <1>4, <2>1, <2>2 DEF TypeOK, TakeShape
<1>10. PagesAccounted'
  <2>0. PagesByPage
    BY PagesAccountedByPage
  <2>1. /\ Repeatless' /\ LevelsAgree'
        /\ \A q : (\E k \in Level : q \in Superblocks(k)')
                  <=> q = p \/ \E k \in Level : q \in Superblocks(k)
        /\ \A u \in Used \cup {<<p, i>>} : \E k \in Level : u \in ObjectsOf(k)'
        /\ \A b \in Bigs : \A k \in Level : b.addr[1] \notin Superblocks(k)'
    BY <1>3, <1>4, TakeKeepsPages
  <2>2. MappedIsKnown'
    BY <1>1, <1>6, <2>0, <2>1 DEF PagesByPage, MappedIsKnown
  <2>3. BigsAreHeld'
    <3>1. <<p, i>> \notin Pages \X {0}
      BY <1>5, AddressFacts
    <3> QED BY <1>5, <1>6, <2>0, <3>1 DEF PagesByPage, BigsAreHeld
  <2>4. NodesApart'
    <3>1. <<p, i>> \notin Used
      BY <1>4 DEF TakeShape
    <3> QED BY <1>5, <1>6, <2>0, <3>1, BigFacts DEF PagesByPage, NodesApart
  <2>5. BigsAreNoSuper' /\ UsedIsChained'
    BY <1>6, <1>7, <2>1 DEF BigsAreNoSuper, UsedIsChained
  <2>6. PagesByPage'
    BY <2>1, <2>2, <2>3, <2>4, <2>5 DEF PagesByPage
  <2> QED BY <2>6, PagesAccountedByPage, PTL
<1>11. BigsApart'
  BY <1>2 DEF BigsApart
<1>12. FitsRequest'
  <2> SUFFICES ASSUME NEW q \in Pages, NEW j \in Slots, <<q, j>> \in held'
               PROVE  SmallestFit(asked'[<<q, j>>], bkeep'[q].level)
    BY DEF FitsRequest
  <2>1. asked \in [Pointers -> Sizes \cup {0}] /\ <<q, j>> \in Pointers
    BY AddressFacts DEF TypeOK, Objects
  <2>2. CASE <<q, j>> = <<p, i>>
    <3>1. bkeep'[p].level = lvl
      BY <1>4 DEF TakeShape
    <3> QED BY <1>3, <1>5, <2>1, <2>2, <3>1
  <2>3. CASE <<q, j>> # <<p, i>>
    <3>1. <<q, j>> \in held /\ asked'[<<q, j>>] = asked[<<q, j>>]
      BY <1>5, <2>1, <2>3
    <3>2. bkeep'[q].level = bkeep[q].level
      BY <1>3, <1>4, <3>1, TakeKeepsPages
    <3> QED BY <3>1, <3>2 DEF FitsRequest
  <2> QED BY <2>2, <2>3
<1>13. WholeLimit' /\ ChainSafe'
  BY <1>2, <1>3, <1>4, TakeKeepsLimit
<1> QED BY <1>8, <1>9, <1>10, <1>11, <1>12, <1>13

\* What is left of a big allocation when its node <<p, i>> has been taken and
\* a is the address: a page of its own, or the failure of mmap.
GivesBig(p, i, a) ==
  /\ a \in (Pages \X {0}) \cup {MAP_FAILED}
  /\ big_object_list' = <<[addr |-> a, node |-> <<p, i>>]>> \o big_object_list
  /\ held' = held \cup {a}
  /\ asked' \in [Pointers -> Sizes \cup {0}]
  /\ \A o \in Objects : asked'[o] = asked[o]
  /\ a = MAP_FAILED => mapped' = mapped \cup {p}
  /\ a # MAP_FAILED => /\ a[1] \in Pages /\ a[1] \notin mapped /\ a[1] # p
                       /\ a = <<a[1], 0>>
                       /\ mapped' = mapped \cup {p, a[1]}

LEMMA MallocBigGives ==
  ASSUME AllocInv, NEW size \in Sizes, MallocBig(size)
  PROVE  \E p \in Pages, i \in Slots : Take(0, p, i) /\ \E a : GivesBig(p, i, a)
<1> USE DEF AllocInv
<1>1. PICK p \in Pages, i \in Slots :
        /\ Take(0, p, i)
        /\ \/ \E q \in Pages \ (mapped \cup {p}) :
                /\ mapped' = mapped \cup {p, q} /\ Give(<<q, 0>>, size)
                /\ big_object_list' = <<[addr |-> <<q, 0>>, node |-> <<p, i>>]>> \o big_object_list
           \/ /\ mapped' = mapped \cup {p}
              /\ held' = held \cup {MAP_FAILED} /\ asked' = asked
              /\ big_object_list' = <<[addr |-> MAP_FAILED, node |-> <<p, i>>]>> \o big_object_list
  BY DEF MallocBig
<1>2. asked \in [Pointers -> Sizes \cup {0}]
  BY DEF TypeOK
<1>3. ASSUME NEW q \in Pages \ (mapped \cup {p}),
             mapped' = mapped \cup {p, q}, Give(<<q, 0>>, size),
             big_object_list' = <<[addr |-> <<q, 0>>, node |-> <<p, i>>]>> \o big_object_list
      PROVE  GivesBig(p, i, <<q, 0>>)
  <2>1. /\ <<q, 0>> \in Pages \X {0} /\ <<q, 0>> # MAP_FAILED
        /\ <<q, 0>> \in Pointers /\ <<q, 0>> \notin Objects
    BY AddressFacts
  <2>2. /\ asked' \in [Pointers -> Sizes \cup {0}]
        /\ \A o \in Objects : asked'[o] = asked[o]
    BY <1>2, <1>3, <2>1, AddressFacts DEF Give
  <2> QED BY <1>3, <2>1, <2>2 DEF Give, GivesBig
<1>4. ASSUME mapped' = mapped \cup {p},
             held' = held \cup {MAP_FAILED}, asked' = asked,
             big_object_list' = <<[addr |-> MAP_FAILED, node |-> <<p, i>>]>> \o big_object_list
      PROVE  GivesBig(p, i, MAP_FAILED)
  BY <1>2, <1>4 DEF GivesBig
<1> QED BY <1>1, <1>3, <1>4

LEMMA MallocBigKeepsInv ==
  ASSUME AllocInv, NEW size \in Sizes, MallocBig(size)
  PROVE  AllocInv'
<1> USE DEF AllocInv
<1>1. /\ pc = "idle" /\ pc' = pc /\ power' = power /\ curr' = curr
  BY DEF MallocBig
<1>a. PICK p \in Pages, i \in Slots : Take(0, p, i) /\ \E a : GivesBig(p, i, a)
  BY MallocBigGives
<1>b. PICK a : GivesBig(p, i, a)
  BY <1>a
<1>2. Take(0, p, i) /\ GivesBig(p, i, a)
  BY <1>a, <1>b
<1> DEFINE big == [addr |-> a, node |-> <<p, i>>]
<1>3. /\ a \in (Pages \X {0}) \cup {MAP_FAILED}
      /\ big_object_list' = <<big>> \o big_object_list
      /\ held' = held \cup {a}
      /\ \A o \in Objects : asked'[o] = asked[o]
      /\ a = MAP_FAILED => mapped' = mapped \cup {p}
      /\ a # MAP_FAILED => /\ a[1] \in Pages /\ a[1] \notin mapped /\ a[1] # p
                           /\ a = <<a[1], 0>>
                           /\ mapped' = mapped \cup {p, a[1]}
  BY <1>2 DEF GivesBig
<1>4. 0 \in Level /\ TakeShape(0, p, i)
  BY <1>2, FullSbType, TakeKeepsBooks
<1>5. /\ <<p, i>> \in Objects /\ <<p, i>> \notin Used /\ a \notin Objects /\ <<p, i>> # a
  BY <1>3, <1>4, AddressFacts DEF Objects, TakeShape
<1>6. big \in BigObject /\ big.addr = a /\ big.node = <<p, i>>
  BY <1>3, <1>5, AddressFacts DEF BigObject
<1>7. big_object_list \in Seq(BigObject)
  BY DEF TypeOK
<1> HIDE DEF big
<1>8. /\ big_object_list' \in Seq(BigObject)
      /\ Len(big_object_list') = Len(big_object_list) + 1
      /\ \A k \in 1 .. Len(big_object_list) + 1 :
           big_object_list'[k] = IF k = 1 THEN big ELSE big_object_list[k - 1]
      /\ BigEntries' = BigEntries \cup {big}
  BY <1>3, <1>6, <1>7, PrependProperties DEF BigEntries
<1>9. Used' = Used \cup {<<p, i>>}
  <2>1. held' \cap Objects = held \cap Objects
    BY <1>3, <1>5
  <2>2. \A u : u \in Used <=> u \in held \cap Objects \/ \E b \in BigEntries : u = b.node
    BY Zenon DEF Used
  <2>3. \A u : u \in Used' <=> u \in held' \cap Objects \/ \E b \in BigEntries' : u = b.node
    BY Zenon DEF Used
  <2>4. \A u : (\E b \in BigEntries' : u = b.node)
               <=> (\E b \in BigEntries : u = b.node) \/ u = <<p, i>>
    BY <1>6, <1>8
  <2> QED BY <2>1, <2>2, <2>3, <2>4
<1>10. BooksBalance' /\ FreeListsAreFree' /\ LinksLead'
  BY <1>2, <1>4, <1>9, TakeKeepsBooks
<1>11. TypeOK'
  <2>1. held' \subseteq Pointers \cup {MAP_FAILED}
    BY <1>3, AddressFacts DEF TypeOK
  <2>2. mapped' \subseteq Pages
    BY <1>3 DEF TypeOK
  <2>3. asked' \in [Pointers -> Sizes \cup {0}]
    BY <1>2 DEF GivesBig
  <2> QED BY <1>1, <1>4, <1>8, <2>1, <2>2, <2>3 DEF TypeOK, TakeShape
<1>12. Bigs' = Bigs \cup {b \in {big} : a # MAP_FAILED}
  BY <1>6, <1>8 DEF Bigs
<1>13. PagesAccounted'
  <2>0. PagesByPage
    BY PagesAccountedByPage
  <2>1. /\ Repeatless' /\ LevelsAgree'
        /\ \A q : (\E k \in Level : q \in Superblocks(k)')
                  <=> q = p \/ \E k \in Level : q \in Superblocks(k)
        /\ \A u \in Used \cup {<<p, i>>} : \E k \in Level : u \in ObjectsOf(k)'
        /\ \A b \in Bigs : \A k \in Level : b.addr[1] \notin Superblocks(k)'
    BY <1>4, TakeKeepsPages
  <2>2. MappedIsKnown'
    <3>1. \A q : q \in mapped <=> \/ \E k \in Level : q \in Superblocks(k)
                                  \/ \E b \in Bigs : q = b.addr[1]
      BY <2>0 DEF PagesByPage, MappedIsKnown
    <3>2. \A q : (\E b \in Bigs' : q = b.addr[1])
                 <=> (\E b \in Bigs : q = b.addr[1]) \/ (a # MAP_FAILED /\ q = a[1])
      BY <1>6, <1>12
    <3>3. \A q : q \in mapped' <=> q \in mapped \/ q = p \/ (a # MAP_FAILED /\ q = a[1])
      BY <1>3
    <3> QED BY <2>1, <3>1, <3>2, <3>3 DEF MappedIsKnown
  <2>3. BigsAreHeld'
    <3>1. \A c : c \in held /\ c \in Pages \X {0} <=> \E b \in Bigs : c = b.addr
      BY <2>0 DEF PagesByPage, BigsAreHeld
    <3>2. \A c : (\E b \in Bigs' : c = b.addr)
                 <=> (\E b \in Bigs : c = b.addr) \/ (a # MAP_FAILED /\ c = a)
      BY <1>6, <1>12
    <3>3. \A c : c \in held' /\ c \in Pages \X {0}
                 <=> (c \in held /\ c \in Pages \X {0}) \/ (a # MAP_FAILED /\ c = a)
      BY <1>3, AddressFacts
    <3> QED BY <3>1, <3>2, <3>3 DEF BigsAreHeld
  <2>4. NodesApart'
    <3>1. /\ \A b \in BigEntries : b.node \in Used /\ b.node \in Objects /\ b.node \notin held
          /\ held \cap Objects \in SUBSET Used
      BY BigFacts DEF Used
    <3>2. \A b \in BigEntries' : b.node \notin held'
      BY <1>3, <1>5, <1>6, <1>8, <3>1
    <3>3. \A b, c \in BigEntries : b.node = c.node => b = c
      BY <2>0 DEF PagesByPage, NodesApart
    <3>4. ASSUME NEW b \in BigEntries', NEW c \in BigEntries', b.node = c.node PROVE b = c
      <4>1. \A d \in BigEntries : d.node # big.node
        BY <1>5, <1>6, <3>1
      <4>2. (b \in BigEntries \/ b = big) /\ (c \in BigEntries \/ c = big)
        BY <1>8
      <4> QED BY <3>3, <3>4, <4>1, <4>2
    <3> QED BY <3>2, <3>4 DEF NodesApart
  <2>5. BigsAreNoSuper'
    <3>1. a # MAP_FAILED => \A k \in Level : a[1] \notin Superblocks(k)'
      <4> SUFFICES ASSUME a # MAP_FAILED, NEW k \in Level, a[1] \in Superblocks(k)'
                   PROVE  FALSE
        OBVIOUS
      <4>1. a[1] = p \/ \E j \in Level : a[1] \in Superblocks(j)
        BY <2>1
      <4> QED BY <1>3, <4>1, OneLevel
    <3> QED BY <1>6, <1>12, <2>1, <3>1 DEF BigsAreNoSuper
  <2>6. UsedIsChained'
    BY <1>9, <2>1 DEF UsedIsChained
  <2>7. PagesByPage'
    BY <2>1, <2>2, <2>3, <2>4, <2>5, <2>6 DEF PagesByPage
  <2> QED BY <2>7, PagesAccountedByPage, PTL
<1>14. BigsApart'
  <2>1. ASSUME NEW k \in 1 .. Len(big_object_list)
        PROVE  /\ big_object_list[k].node # <<p, i>>
               /\ a # MAP_FAILED => big_object_list[k].addr # a
    <3>1. big_object_list[k] \in BigEntries
      BY BigFacts DEF BigEntries, ToSet
    <3>2. big_object_list[k].node \in Used
      BY <3>1, BigFacts
    <3>3. a # MAP_FAILED => big_object_list[k].addr # a
      <4> SUFFICES ASSUME a # MAP_FAILED, big_object_list[k].addr = a PROVE FALSE
        OBVIOUS
      <4>1. big_object_list[k] \in Bigs
        BY <3>1 DEF Bigs
      <4>2. a[1] \in mapped
        BY <4>1, BigFacts
      <4> QED BY <1>3, <4>2
    <3> QED BY <1>5, <3>2, <3>3
  <2>2. SUFFICES ASSUME NEW m \in 1 .. Len(big_object_list'), NEW n \in 1 .. Len(big_object_list'),
                        m < n,
                        \/ big_object_list'[m].node = big_object_list'[n].node
                        \/ /\ big_object_list'[m].addr = big_object_list'[n].addr
                           /\ big_object_list'[m].addr # MAP_FAILED
                 PROVE  FALSE
    BY <1>8 DEF BigsApart
  <2>3. n - 1 \in 1 .. Len(big_object_list) /\ big_object_list'[n] = big_object_list[n - 1]
    BY <1>7, <1>8, <2>2
  <2>4. CASE m = 1
    <3>1. big_object_list'[m] = big
      BY <1>7, <1>8, <2>4
    <3> QED BY <1>6, <2>1, <2>2, <2>3, <3>1
  <2>5. CASE m # 1
    <3>1. m - 1 \in 1 .. Len(big_object_list) /\ big_object_list'[m] = big_object_list[m - 1]
      BY <1>7, <1>8, <2>5
    <3>2. m - 1 = n - 1
      BY <2>2, <2>3, <3>1 DEF BigsApart
    <3> QED BY <1>8, <2>2, <3>2
  <2> QED BY <2>4, <2>5
<1>15. FitsRequest'
  <2> SUFFICES ASSUME NEW q \in Pages, NEW j \in Slots, <<q, j>> \in held'
               PROVE  SmallestFit(asked'[<<q, j>>], bkeep'[q].level)
    BY DEF FitsRequest
  <2>1. <<q, j>> \in Objects /\ <<q, j>> \in held
    BY <1>3, <1>5 DEF Objects
  <2>2. bkeep'[q].level = bkeep[q].level /\ asked'[<<q, j>>] = asked[<<q, j>>]
    BY <1>3, <1>4, <2>1, TakeKeepsPages
  <2> QED BY <2>1, <2>2 DEF FitsRequest
<1>16. WholeLimit' /\ ChainSafe'
  BY <1>1, <1>4, TakeKeepsLimit
<1> QED BY <1>10, <1>11, <1>13, <1>14, <1>15, <1>16

-----------------------------------------------------------------------------
(***************************************************************************)
(* Steps that leave the heap alone                                         *)
(***************************************************************************)

LEMMA SameHeap ==
  ASSUME AllocInv,
         UNCHANGED <<pool, free_objects, whole_superblocks, bkeep, next>>,
         UNCHANGED <<big_object_list, mapped, held, asked>>
  PROVE  /\ BooksBalance' /\ PagesAccounted' /\ BigsApart'
         /\ FreeListsAreFree' /\ LinksLead' /\ FitsRequest'
<1> USE DEF AllocInv
<1>1. \A l \in Level : Superblocks(l)' = Superblocks(l) /\ ObjectsOf(l)' = ObjectsOf(l)
  BY DEF Superblocks, ObjectsOf
<1>2. BigEntries' = BigEntries /\ Bigs' = Bigs /\ Used' = Used
  BY DEF BigEntries, Bigs, Used
<1>3. \A l \in Level : Whole(l)' = Whole(l) /\ \A p : FreeIn(l, p)' = FreeIn(l, p)
  BY <1>1, <1>2 DEF Whole, FreeIn
<1>4. BooksBalance'
  <2> SUFFICES ASSUME NEW k \in Level
               PROVE  (/\ \A q \in Superblocks(k) :
                            bkeep[q].free_count = Cardinality(FreeIn(k, q))
                       /\ free_objects[k] = Cardinality(ObjectsOf(k) \ Used)
                       /\ whole_superblocks[k] = Cardinality(Whole(k)))'
    BY Zenon DEF BooksBalance, FreeIn, Whole
  <2>1. \A q \in Superblocks(k) : bkeep'[q].free_count = Cardinality(FreeIn(k, q)')
    BY <1>3, BooksOf
  <2>2. free_objects'[k] = Cardinality((ObjectsOf(k) \ Used)')
    BY <1>1, <1>2, BooksOf
  <2>3. whole_superblocks'[k] = Cardinality(Whole(k)')
    BY <1>3, BooksOf
  <2> QED BY <1>1, <2>1, <2>2, <2>3
<1>5. PagesAccounted'
  <2>1. PagesByPage
    BY PagesAccountedByPage
  <2>2. Repeatless' /\ LevelsAgree' /\ NodesApart' /\ BigsAreHeld' /\ UsedIsChained'
    BY <1>1, <1>2, <2>1
       DEF PagesByPage, Repeatless, LevelsAgree, NodesApart, BigsAreHeld, UsedIsChained
  <2>3. MappedIsKnown' /\ BigsAreNoSuper'
    BY <1>1, <1>2, <2>1 DEF PagesByPage, MappedIsKnown, BigsAreNoSuper
  <2>4. PagesByPage'
    BY <2>2, <2>3 DEF PagesByPage
  <2> QED BY <2>4, PagesAccountedByPage, PTL
<1>6. BigsApart' /\ FitsRequest'
  BY DEF BigsApart, FitsRequest
<1>7. FreeListsAreFree'
  BY <1>1, <1>2, Zenon DEF FreeListsAreFree
<1>8. LinksLead'
  BY <1>1, <1>2, Zenon DEF LinksLead, FreeIn
<1> QED BY <1>4, <1>5, <1>6, <1>7, <1>8

LEMMA CrashKeepsInv ==
  ASSUME AllocInv, NEW how \in Crashes, Crash(how)
  PROVE  AllocInv'
<1> USE DEF AllocInv
<1>1. /\ UNCHANGED <<pool, free_objects, whole_superblocks, bkeep, next>>
      /\ UNCHANGED <<big_object_list, mapped, held, asked>>
      /\ power' = power /\ curr' = curr
      /\ pc' \in Crashes /\ pc' \notin {"idle", "release"}
  BY DEF Crash, levels, Crashes
<1>2. TypeOK'
  BY <1>1 DEF TypeOK
<1>3. WholeLimit' /\ ChainSafe'
  BY <1>1 DEF WholeLimit, ChainSafe, TooManyWhole
<1> QED BY <1>1, <1>2, <1>3, SameHeap

LEMMA StutterKeepsInv ==
  ASSUME AllocInv, UNCHANGED vars
  PROVE  AllocInv'
<1> USE DEF AllocInv
<1>1. /\ UNCHANGED <<pool, free_objects, whole_superblocks, bkeep, next>>
      /\ UNCHANGED <<big_object_list, mapped, held, asked>>
      /\ pc' = pc /\ power' = power /\ curr' = curr
  BY DEF vars, levels
<1>2. TypeOK'
  BY <1>1 DEF TypeOK
<1>3. WholeLimit'
  BY <1>1 DEF WholeLimit
<1>4. ChainSafe'
  BY <1>1 DEF ChainSafe, TooManyWhole, IsWhole
<1> QED BY <1>1, <1>2, <1>3, <1>4, SameHeap

-----------------------------------------------------------------------------
(***************************************************************************)
(* free                                                                    *)
(***************************************************************************)

LEMMA UsedByCase ==
  \A u : u \in Used <=> u \in held \cap Objects \/ \E b \in BigEntries : u = b.node
BY Zenon DEF Used

\* A level that counts a whole superblock has one in its chain.
WholesInChain ==
  \A l \in Level : whole_superblocks[l] > 0 =>
    \E n \in 1 .. Len(pool[l]) : bkeep[pool[l][n]].free_count = FullSb(l)

LEMMA CountedIsThere == TypeOK /\ BooksBalance => WholesInChain
<1> SUFFICES ASSUME TypeOK, BooksBalance, NEW l \in Level, whole_superblocks[l] > 0
             PROVE  \E n \in 1 .. Len(pool[l]) : bkeep[pool[l][n]].free_count = FullSb(l)
  BY DEF WholesInChain
<1>1. whole_superblocks[l] = Cardinality(Whole(l)) /\ Cardinality(Whole(l)) # 0
  <2>1. whole_superblocks[l] \in Nat /\ whole_superblocks[l] # 0
    BY DEF TypeOK
  <2> QED BY <2>1, BooksOf
<1>2. PICK p \in Superblocks(l) : bkeep[p].free_count = FullSb(l)
  <2>1. Whole(l) # {}
    BY <1>1, FS_EmptySet
  <2> QED BY <2>1 DEF Whole
<1> QED BY <1>2, SuperblockMember

\* The search of the last loop of free starts with a superblock to find.
LEMMA PutBackKeepsLimit ==
  ASSUME AllocInv, NEW p \in Pages, NEW i \in Slots, PutBack(p, i), <<p, i>> \in Used,
         pc = "idle", TypeOK', BooksBalance'
  PROVE  WholeLimit' /\ ChainSafe'
<1> USE DEF AllocInv
<1>1. PICK l \in Level : l = bkeep[p].level
  BY PutBackFrom
<1>2. /\ pc' = "release" /\ power' = l /\ curr' = 1
      /\ \A k \in Level : whole_superblocks'[k] <= whole_superblocks[k] + IF k = l THEN 1 ELSE 0
      /\ whole_superblocks' \in [Level -> Nat] /\ whole_superblocks \in [Level -> Nat]
  BY <1>1, PutBackKeepsShape DEF PutBack, PutBackShape, TypeOK
<1>3. WholeLimit'
  <2>1. \A k \in Level : whole_superblocks[k] <= RESERVE_SUPERBLOCK_THRESHOLD
    BY ThresholdIsNat DEF WholeLimit, TypeOK
  <2>2. \A k \in Level : whole_superblocks'[k]
                           <= RESERVE_SUPERBLOCK_THRESHOLD + (IF k = l THEN 1 ELSE 0)
    BY <1>2, <2>1, ThresholdIsNat
  <2> QED BY <1>2, <2>2 DEF WholeLimit
<1>4. WholesInChain'
  BY CountedIsThere, PTL
<1>5. ChainSafe'
  <2> SUFFICES ASSUME whole_superblocks'[l] > RESERVE_SUPERBLOCK_THRESHOLD
               PROVE  /\ 1 \in 1 .. Len(pool'[l])
                      /\ \E n \in {1} \cup 2 .. Len(pool'[l]) :
                           bkeep'[pool'[l][n]].free_count = FullSb(l)
    BY <1>2 DEF ChainSafe, TooManyWhole, IsWhole
  <2>1. whole_superblocks'[l] > 0
    BY <1>2, ThresholdIsNat
  <2>2. PICK n \in 1 .. Len(pool'[l]) : bkeep'[pool'[l][n]].free_count = FullSb(l)
    BY <1>4, <2>1 DEF WholesInChain
  <2>3. Len(pool'[l]) \in Nat
    BY DEF TypeOK
  <2> QED BY <2>2, <2>3
<1> QED BY <1>3, <1>5

LEMMA FreeObjectKeepsInv ==
  ASSUME AllocInv, FreeObject
  PROVE  AllocInv'
<1> USE DEF AllocInv
<1>1. PICK p \in Pages, i \in Slots :
        /\ <<p, i>> \in held /\ PutBack(p, i)
        /\ held' = held \ {<<p, i>>} /\ asked' = [asked EXCEPT ![<<p, i>>] = 0]
  BY DEF FreeObject, GiveUp
<1>2. /\ pc = "idle" /\ big_object_list' = big_object_list /\ mapped' = mapped
      /\ pool' = pool /\ pc' = "release" /\ curr' = 1
  BY <1>1 DEF FreeObject, PutBack
<1>3. /\ BigEntries' = BigEntries /\ Bigs' = Bigs
      /\ \A k \in Level : Superblocks(k)' = Superblocks(k) /\ ObjectsOf(k)' = ObjectsOf(k)
  BY <1>2 DEF BigEntries, Bigs, Superblocks, ObjectsOf
<1>4. <<p, i>> \in Objects /\ <<p, i>> \in Pointers /\ <<p, i>> \in Used
  BY <1>1, AddressFacts DEF Objects, Used
<1>5. \A b \in BigEntries : b.node # <<p, i>>
  BY <1>1, BigFacts
<1>6. Used' = Used \ {<<p, i>>}
  <2>1. \A u : u \in Used' <=> u \in held' \cap Objects \/ \E b \in BigEntries' : u = b.node
    BY Zenon DEF Used
  <2> QED BY <1>1, <1>3, <1>5, <2>1, UsedByCase
<1>7. BooksBalance' /\ FreeListsAreFree' /\ LinksLead'
  BY <1>1, <1>4, <1>6, PutBackKeepsBooks
<1>8. PutBackShape(p, i)
  BY <1>1, <1>4, PutBackKeepsShape
<1>9. TypeOK'
  <2>1. /\ held' \subseteq Pointers \cup {MAP_FAILED} /\ asked' \in [Pointers -> Sizes \cup {0}]
    BY <1>1, <1>4 DEF TypeOK
  <2>2. power' \in Level /\ curr' \in Nat
    BY <1>1, <1>8 DEF PutBack, PutBackShape
  <2> QED BY <1>2, <1>8, <2>1, <2>2 DEF TypeOK, PutBackShape
<1>10. PagesAccounted'
  <2>1. PagesByPage
    BY PagesAccountedByPage
  <2>2. LevelsAgree'
    <3>1. \A k \in Level : Superblocks(k) \in SUBSET Pages
      BY SuperblockMember
    <3> QED BY <1>3, <1>8, <2>1, <3>1 DEF PagesByPage, LevelsAgree, PutBackShape
  <2>3. BigsAreHeld'
    <3>1. <<p, i>> \notin Pages \X {0}
      BY <1>4, AddressFacts
    <3> QED BY <1>1, <1>3, <2>1, <3>1 DEF PagesByPage, BigsAreHeld
  <2>4. Repeatless' /\ MappedIsKnown' /\ BigsAreNoSuper'
    BY <1>2, <1>3, <2>1 DEF PagesByPage, Repeatless, MappedIsKnown, BigsAreNoSuper
  <2>5. UsedIsChained' /\ NodesApart'
    BY <1>1, <1>3, <1>6, <2>1 DEF PagesByPage, UsedIsChained, NodesApart
  <2>6. PagesByPage'
    BY <2>2, <2>3, <2>4, <2>5 DEF PagesByPage
  <2> QED BY <2>6, PagesAccountedByPage, PTL
<1>11. BigsApart'
  BY <1>2 DEF BigsApart
<1>12. FitsRequest'
  <2> SUFFICES ASSUME NEW q \in Pages, NEW j \in Slots, <<q, j>> \in held'
               PROVE  SmallestFit(asked'[<<q, j>>], bkeep'[q].level)
    BY DEF FitsRequest
  <2>1. <<q, j>> \in held /\ <<q, j>> # <<p, i>> /\ <<q, j>> \in Pointers
    BY <1>1, AddressFacts DEF Objects
  <2>2. asked'[<<q, j>>] = asked[<<q, j>>] /\ bkeep'[q].level = bkeep[q].level
    BY <1>1, <1>8, <2>1 DEF TypeOK, PutBackShape
  <2> QED BY <2>1, <2>2 DEF FitsRequest
<1>13. WholeLimit' /\ ChainSafe'
  BY <1>1, <1>2, <1>4, <1>7, <1>9, PutBackKeepsLimit
<1> QED BY <1>7, <1>9, <1>10, <1>11, <1>12, <1>13

\* What taking entry n out of the list of big objects leaves of it.
LEMMA UnlinkBig ==
  ASSUME AllocInv, NEW n \in 1 .. Len(big_object_list), NEW big, big = big_object_list[n],
         big.addr # MAP_FAILED, big_object_list' = RemoveAt(big_object_list, n)
  PROVE  /\ big \in Bigs
         /\ big_object_list' \in Seq(BigObject)
         /\ \A b : b \in BigEntries' <=> b \in BigEntries /\ b # big
         /\ \A b : b \in Bigs' <=> b \in Bigs /\ b # big
         /\ \A b \in Bigs : b # big => b.addr # big.addr
         /\ \A b \in BigEntries : b # big => b.node # big.node
         /\ BigsApart'
<1> USE DEF AllocInv
<1>1. big_object_list \in Seq(BigObject)
  BY DEF TypeOK
<1>2. DOMAIN big_object_list = 1 .. Len(big_object_list)
  BY <1>1
<1>3. big \in BigEntries /\ big \in Bigs
  BY <1>2 DEF BigEntries, Bigs, ToSet
<1>4. \A i, j \in 1 .. Len(big_object_list) : big_object_list[i] = big_object_list[j] => i = j
  BY DEF BigsApart
<1>5. /\ big_object_list' \in Seq(BigObject)
      /\ Len(big_object_list') = Len(big_object_list) - 1
      /\ \A k \in 1 .. Len(big_object_list) - 1 :
           big_object_list'[k] = IF k < n THEN big_object_list[k] ELSE big_object_list[k + 1]
  BY <1>1, RemoveAtProperties
<1>6. BigEntries' = BigEntries \ {big}
  BY <1>1, <1>4, RemoveAtSet DEF BigEntries
<1>7. \A b : b \in Bigs' <=> b \in Bigs /\ b # big
  BY <1>6 DEF Bigs
<1>8. \A b \in BigEntries : b # big => b.node # big.node
  BY <1>3, PagesAccountedByPage DEF PagesByPage, NodesApart
<1>9. ASSUME NEW b \in Bigs, b.addr = big.addr PROVE b = big
  <2>1. b \in BigEntries /\ b.addr # MAP_FAILED
    BY DEF Bigs
  <2>2. PICK m \in 1 .. Len(big_object_list) : b = big_object_list[m]
    BY <1>2, <2>1 DEF BigEntries, ToSet
  <2> QED BY <1>9, <2>1, <2>2 DEF BigsApart
<1>10. BigsApart'
  <2> SUFFICES ASSUME NEW i \in 1 .. Len(big_object_list'), NEW j \in 1 .. Len(big_object_list'),
                      i < j,
                      \/ big_object_list'[i].node = big_object_list'[j].node
                      \/ /\ big_object_list'[i].addr = big_object_list'[j].addr
                         /\ big_object_list'[i].addr # MAP_FAILED
               PROVE  FALSE
    BY <1>5 DEF BigsApart
  <2> DEFINE at(k) == IF k < n THEN k ELSE k + 1
  <2>1. /\ at(i) \in 1 .. Len(big_object_list) /\ at(j) \in 1 .. Len(big_object_list)
        /\ at(i) # at(j)
    BY <1>1, <1>5
  <2>2. big_object_list'[i] = big_object_list[at(i)] /\ big_object_list'[j] = big_object_list[at(j)]
    BY <1>1, <1>5
  <2> HIDE DEF at
  <2> QED BY <2>1, <2>2 DEF BigsApart
<1> QED BY <1>3, <1>5, <1>6, <1>7, <1>8, <1>9, <1>10

LEMMA FreeBigKeepsInv ==
  ASSUME AllocInv, FreeBig
  PROVE  AllocInv'
<1> USE DEF AllocInv
<1>1. PICK n \in 1 .. Len(big_object_list) :
        LET big == big_object_list[n] IN
        /\ big.addr \in held \ {MAP_FAILED}
        /\ mapped' = mapped \ {big.addr[1]}
        /\ big_object_list' = RemoveAt(big_object_list, n)
        /\ held' = held \ {big.addr} /\ asked' = [asked EXCEPT ![big.addr] = 0]
        /\ PutBack(big.node[1], big.node[2])
  BY DEF FreeBig, GiveUp
<1>2. PICK big : big = big_object_list[n]
  OBVIOUS
<1>3. /\ big.addr \in held /\ big.addr # MAP_FAILED /\ mapped' = mapped \ {big.addr[1]}
      /\ big_object_list' = RemoveAt(big_object_list, n)
      /\ held' = held \ {big.addr} /\ asked' = [asked EXCEPT ![big.addr] = 0]
      /\ PutBack(big.node[1], big.node[2])
  BY <1>1, <1>2
<1>4. /\ big \in Bigs /\ big \in BigEntries
      /\ big_object_list' \in Seq(BigObject)
      /\ \A b : b \in BigEntries' <=> b \in BigEntries /\ b # big
      /\ \A b : b \in Bigs' <=> b \in Bigs /\ b # big
      /\ \A b \in Bigs : b # big => b.addr # big.addr
      /\ \A b \in BigEntries : b # big => b.node # big.node
      /\ BigsApart'
  BY <1>2, <1>3, UnlinkBig DEF Bigs
<1>5. PICK p \in Pages, i \in Slots : big.node = <<p, i>>
  BY <1>4, BigFacts DEF Objects
<1>6. /\ PutBack(p, i) /\ <<p, i>> \in Used /\ <<p, i>> \in Objects /\ <<p, i>> \notin held
  BY <1>3, <1>4, <1>5, BigFacts
<1>7. /\ big.addr = <<big.addr[1], 0>> /\ big.addr \notin Objects
      /\ big.addr \in Pointers /\ big.addr \in Pages \X {0}
  <2>1. big.addr = <<big.addr[1], 0>> /\ big.addr[1] \in Pages
    BY <1>4, BigFacts
  <2>2. <<big.addr[1], 0>> \in Pages \X {0} /\ <<big.addr[1], 0>> \notin Objects
    BY <2>1, AddressFacts
  <2>3. big.addr \in Pages \X {0} /\ big.addr \notin Objects
    BY <2>1, <2>2
  <2> QED BY <2>1, <2>3, AddressFacts
<1>8. pc = "idle" /\ pool' = pool /\ pc' = "release" /\ curr' = 1
  BY <1>6 DEF FreeBig, PutBack
<1>9. \A k \in Level : Superblocks(k)' = Superblocks(k) /\ ObjectsOf(k)' = ObjectsOf(k)
  BY <1>8 DEF Superblocks, ObjectsOf
<1>10. Used' = Used \ {<<p, i>>}
  <2>1. \A u : u \in Used' <=> u \in held' \cap Objects \/ \E b \in BigEntries' : u = b.node
    BY Zenon DEF Used
  <2>2. held' \cap Objects = held \cap Objects
    BY <1>3, <1>7
  <2>3. \A u : (\E b \in BigEntries' : u = b.node)
               <=> (\E b \in BigEntries : u = b.node) /\ u # <<p, i>>
    BY <1>4, <1>5
  <2> QED BY <1>6, <2>1, <2>2, <2>3, UsedByCase
<1>11. BooksBalance' /\ FreeListsAreFree' /\ LinksLead'
  BY <1>6, <1>10, PutBackKeepsBooks
<1>12. PutBackShape(p, i)
  BY <1>6, PutBackKeepsShape
<1>13. TypeOK'
  <2>1. /\ held' \subseteq Pointers \cup {MAP_FAILED} /\ asked' \in [Pointers -> Sizes \cup {0}]
        /\ mapped' \subseteq Pages
    BY <1>3, <1>7 DEF TypeOK
  <2>2. power' \in Level /\ curr' \in Nat
    BY <1>6, <1>12 DEF PutBack, PutBackShape
  <2> QED BY <1>4, <1>8, <1>12, <2>1, <2>2 DEF TypeOK, PutBackShape
<1>14. PagesAccounted'
  <2>1. PagesByPage
    BY PagesAccountedByPage
  <2>2. LevelsAgree'
    <3>1. \A k \in Level : Superblocks(k) \in SUBSET Pages
      BY SuperblockMember
    <3> QED BY <1>9, <1>12, <2>1, <3>1 DEF PagesByPage, LevelsAgree, PutBackShape
  <2>3. BigsAreHeld'
    <3>1. \A c : c \in held /\ c \in Pages \X {0} <=> \E b \in Bigs : c = b.addr
      BY <2>1 DEF PagesByPage, BigsAreHeld
    <3>2. \A c : (\E b \in Bigs' : c = b.addr) <=> (\E b \in Bigs : c = b.addr) /\ c # big.addr
      BY <1>4
    <3> QED BY <1>3, <3>1, <3>2 DEF BigsAreHeld
  <2>4. MappedIsKnown'
    <3>1. \A q : q \in mapped <=> \/ \E k \in Level : q \in Superblocks(k)
                                  \/ \E b \in Bigs : q = b.addr[1]
      BY <2>1 DEF PagesByPage, MappedIsKnown
    <3>2. \A b \in Bigs : b # big => b.addr[1] # big.addr[1]
      BY <1>4, <1>7, BigFacts
    <3>3. \A q : (\E b \in Bigs' : q = b.addr[1])
                 <=> (\E b \in Bigs : q = b.addr[1]) /\ q # big.addr[1]
      BY <1>4, <3>2
    <3>4. \A k \in Level : big.addr[1] \notin Superblocks(k)
      BY <1>4, <2>1 DEF PagesByPage, BigsAreNoSuper
    <3> QED BY <1>3, <1>9, <3>1, <3>3, <3>4 DEF MappedIsKnown
  <2>5. Repeatless' /\ BigsAreNoSuper'
    BY <1>4, <1>8, <1>9, <2>1 DEF PagesByPage, Repeatless, BigsAreNoSuper
  <2>6. UsedIsChained' /\ NodesApart'
    BY <1>3, <1>4, <1>9, <1>10, <2>1 DEF PagesByPage, UsedIsChained, NodesApart
  <2>7. PagesByPage'
    BY <2>2, <2>3, <2>4, <2>5, <2>6 DEF PagesByPage
  <2> QED BY <2>7, PagesAccountedByPage, PTL
<1>15. FitsRequest'
  <2> SUFFICES ASSUME NEW q \in Pages, NEW j \in Slots, <<q, j>> \in held'
               PROVE  SmallestFit(asked'[<<q, j>>], bkeep'[q].level)
    BY DEF FitsRequest
  <2>1. <<q, j>> \in held /\ <<q, j>> # big.addr /\ <<q, j>> \in Pointers
    BY <1>3, AddressFacts DEF Objects
  <2>2. asked'[<<q, j>>] = asked[<<q, j>>] /\ bkeep'[q].level = bkeep[q].level
    BY <1>3, <1>12, <2>1 DEF TypeOK, PutBackShape
  <2> QED BY <2>1, <2>2 DEF FitsRequest
<1>16. WholeLimit' /\ ChainSafe'
  BY <1>6, <1>8, <1>11, <1>13, PutBackKeepsLimit
<1> QED BY <1>4, <1>11, <1>13, <1>14, <1>15, <1>16

\* Giving superblock n of the chain back, as both branches of the loop do.
LEMMA ReleaseKeepsInv ==
  ASSUME AllocInv, TooManyWhole, NEW n \in 1 .. Len(pool[power]),
         IsWhole(pool[power][n]), Release(n),
         UNCHANGED <<big_object_list, held, asked, pc, power>>, curr' \in Nat
  PROVE  AllocInv'
<1> USE DEF AllocInv
<1>1. PICK l \in Level : l = power
  BY DEF TypeOK
<1>2. PICK p : p = pool[l][n]
  OBVIOUS
<1>3. BigEntries' = BigEntries /\ Bigs' = Bigs /\ Used' = Used
  BY DEF BigEntries, Bigs, Used
<1>4. ReleaseShape(l, p)
  BY <1>1, <1>2, ReleaseKeepsShape
<1>5. BooksBalance' /\ FreeListsAreFree' /\ LinksLead'
  BY <1>1, <1>2, <1>3, ReleaseKeepsBooks
<1>6. /\ p \in Superblocks(l) /\ mapped' = mapped \ {p}
      /\ \A i \in 1 .. FullSb(l) : <<p, i>> \notin Used
      /\ \A k \in Level :
           Superblocks(k)' = IF k = l THEN Superblocks(k) \ {p} ELSE Superblocks(k)
      /\ \A q \in Pages : q # p => bkeep'[q] = bkeep[q]
  BY <1>4 DEF ReleaseShape
<1>7. \A k \in Level : p \in Superblocks(k) => k = l
  BY <1>6, OneLevel
<1>8. \A k \in Level : \A q : q \in Superblocks(k)' <=> q \in Superblocks(k) /\ q # p
  BY <1>6, <1>7
<1>9. TypeOK'
  <2>1. mapped' \subseteq Pages
    BY <1>6 DEF TypeOK
  <2> QED BY <1>4, <2>1 DEF TypeOK, ReleaseShape
<1>10. PagesAccounted'
  <2>1. PagesByPage
    BY PagesAccountedByPage
  <2>2. LevelsAgree'
    <3>1. \A k \in Level : Superblocks(k) \in SUBSET Pages
      BY SuperblockMember
    <3> QED BY <1>6, <1>8, <2>1, <3>1 DEF PagesByPage, LevelsAgree
  <2>3. MappedIsKnown'
    <3>1. \A b \in Bigs : b.addr[1] # p
      BY <1>6, <2>1 DEF PagesByPage, BigsAreNoSuper
    <3> QED BY <1>3, <1>6, <1>8, <2>1, <3>1 DEF PagesByPage, MappedIsKnown
  <2>4. UsedIsChained'
    <3> SUFFICES ASSUME NEW u \in Used PROVE \E k \in Level : u \in ObjectsOf(k)'
      BY <1>3 DEF UsedIsChained
    <3>1. PICK k \in Level : \E q \in Superblocks(k), i \in 1 .. FullSb(k) : u = <<q, i>>
      BY UsedInSuperblock
    <3>2. PICK q \in Superblocks(k), i \in 1 .. FullSb(k) : u = <<q, i>>
      BY <3>1
    <3>3. q # p
      BY <1>6, <1>7, <3>2
    <3> QED BY <1>8, <3>2, <3>3 DEF ObjectsOf
  <2>5. BigsAreNoSuper' /\ BigsAreHeld' /\ NodesApart'
    BY <1>3, <1>8, <2>1 DEF PagesByPage, BigsAreNoSuper, BigsAreHeld, NodesApart
  <2>6. Repeatless'
    BY <1>4 DEF ReleaseShape, Repeatless
  <2>7. PagesByPage'
    BY <2>2, <2>3, <2>4, <2>5, <2>6 DEF PagesByPage
  <2> QED BY <2>7, PagesAccountedByPage, PTL
<1>11. BigsApart'
  BY DEF BigsApart
<1>12. FitsRequest'
  <2> SUFFICES ASSUME NEW q \in Pages, NEW j \in Slots, <<q, j>> \in held
               PROVE  SmallestFit(asked[<<q, j>>], bkeep'[q].level)
    BY DEF FitsRequest
  <2>1. <<q, j>> \in Used
    BY DEF Used, Objects
  <2>2. q # p
    <3>1. PICK k \in Level : \E r \in Superblocks(k), i \in 1 .. FullSb(k) : <<q, j>> = <<r, i>>
      BY <2>1, UsedInSuperblock
    <3>2. q \in Superblocks(k) /\ j \in 1 .. FullSb(k)
      BY <3>1
    <3> QED BY <1>6, <1>7, <2>1, <3>2
  <2> QED BY <1>6, <2>2 DEF FitsRequest
<1>13. /\ \A k \in Level : whole_superblocks'[k] = whole_superblocks[k] - IF k = l THEN 1 ELSE 0
       /\ whole_superblocks' \in [Level -> Nat] /\ whole_superblocks \in [Level -> Nat]
       /\ pc = "release" /\ pc' = "release" /\ power' = l
  BY <1>1, <1>4 DEF ReleaseShape, TypeOK, TooManyWhole
<1>14. \A k \in Level : whole_superblocks'[k] <= RESERVE_SUPERBLOCK_THRESHOLD
  <2>1. \A k \in Level : whole_superblocks[k]
                           <= RESERVE_SUPERBLOCK_THRESHOLD + (IF k = l THEN 1 ELSE 0)
    BY <1>1, <1>13 DEF WholeLimit
  <2> QED BY <1>13, <2>1, ThresholdIsNat
<1>15. WholeLimit'
  BY <1>13, <1>14, ThresholdIsNat DEF WholeLimit
<1>16. ChainSafe'
  BY <1>13, <1>14, ThresholdIsNat DEF ChainSafe, TooManyWhole
<1> QED BY <1>5, <1>9, <1>10, <1>11, <1>12, <1>15, <1>16

LEMMA ReleaseFirstKeepsInv ==
  ASSUME AllocInv, ReleaseFirst
  PROVE  AllocInv'
<1>1. /\ TooManyWhole /\ IsWhole(pool[power][1]) /\ Release(1)
      /\ UNCHANGED <<big_object_list, held, asked, pc, power>> /\ curr' \in Nat
      /\ curr \in 1 .. Len(pool[power])
  BY DEF ReleaseFirst
<1>2. 1 \in 1 .. Len(pool[power])
  BY <1>1 DEF AllocInv, TypeOK
<1> QED BY <1>1, <1>2, ReleaseKeepsInv

LEMMA ReleaseLaterKeepsInv ==
  ASSUME AllocInv, ReleaseLater
  PROVE  AllocInv'
<1>1. /\ TooManyWhole /\ curr \in 1 .. Len(pool[power]) - 1 /\ ~IsWhole(pool[power][1])
      /\ UNCHANGED <<big_object_list, held, asked, pc, power>>
  BY DEF ReleaseLater
<1>2. Len(pool[power]) \in Nat /\ power \in Level
  BY DEF AllocInv, TypeOK
<1>3. CASE IsWhole(pool[power][curr + 1])
  <2>1. Release(curr + 1) /\ curr' = 0
    BY <1>3 DEF ReleaseLater
  <2>2. curr + 1 \in 1 .. Len(pool[power])
    BY <1>1, <1>2
  <2> QED BY <1>1, <1>3, <2>1, <2>2, ReleaseKeepsInv
<1>4. CASE ~IsWhole(pool[power][curr + 1])
  <2> USE DEF AllocInv
  <2>1. curr' = curr + 1 /\ UNCHANGED <<levels, mapped, bkeep, next>>
    BY <1>4 DEF ReleaseLater
  <2>2. UNCHANGED <<pool, free_objects, whole_superblocks, bkeep, next>>
    BY <2>1 DEF levels
  <2>3. UNCHANGED <<big_object_list, mapped, held, asked>>
    BY <1>1, <2>1
  <2>4. TypeOK'
    BY <1>1, <2>1, <2>2, <2>3 DEF TypeOK
  <2>5. WholeLimit'
    BY <1>1, <2>2 DEF WholeLimit
  <2>6. PICK n \in {1} \cup curr + 1 .. Len(pool[power]) : IsWhole(pool[power][n])
    BY <1>1 DEF ChainSafe
  <2>7. n \in curr + 2 .. Len(pool[power])
    <3>1. n # 1 /\ n # curr + 1
      BY <1>1, <1>4, <2>6
    <3> QED BY <1>1, <1>2, <2>6, <3>1
  <2>8. ChainSafe'
    <3>1. curr' \in 1 .. Len(pool'[power']) /\ n \in curr' + 1 .. Len(pool'[power'])
      BY <1>1, <1>2, <2>1, <2>2, <2>7
    <3>2. IsWhole(pool[power][n])'
      BY <1>1, <2>2, <2>6 DEF IsWhole
    <3> QED BY <3>1, <3>2 DEF ChainSafe
  <2> QED BY <2>2, <2>3, <2>4, <2>5, <2>8, SameHeap
<1> QED BY <1>3, <1>4

LEMMA ReleaseDoneKeepsInv ==
  ASSUME AllocInv, ReleaseDone
  PROVE  AllocInv'
<1> USE DEF AllocInv
<1>1. /\ pc = "release" /\ ~(whole_superblocks[power] > RESERVE_SUPERBLOCK_THRESHOLD)
      /\ pc' = "idle" /\ power' = 0 /\ curr' = 0
      /\ UNCHANGED <<pool, free_objects, whole_superblocks, bkeep, next>>
      /\ UNCHANGED <<big_object_list, mapped, held, asked>>
  BY DEF ReleaseDone, TooManyWhole, levels
<1>2. TypeOK'
  BY <1>1, FullSbType DEF TypeOK
<1>3. WholeLimit'
  <2>1. \A k \in Level : whole_superblocks[k]
                           <= RESERVE_SUPERBLOCK_THRESHOLD + (IF k = power THEN 1 ELSE 0)
    BY <1>1 DEF WholeLimit
  <2>2. whole_superblocks \in [Level -> Nat] /\ power \in Level
    BY DEF TypeOK
  <2>3. \A k \in Level : whole_superblocks[k] <= RESERVE_SUPERBLOCK_THRESHOLD
    BY <1>1, <2>1, <2>2, ThresholdIsNat
  <2> QED BY <1>1, <2>2, <2>3, ThresholdIsNat DEF WholeLimit
<1>4. ChainSafe'
  BY <1>1 DEF ChainSafe, TooManyWhole
<1> QED BY <1>1, <1>2, <1>3, <1>4, SameHeap

-----------------------------------------------------------------------------
(***************************************************************************)
(* The invariant                                                           *)
(***************************************************************************)

LEMMA InitHasInv == Init => AllocInv
<1> SUFFICES ASSUME Init PROVE AllocInv
  OBVIOUS
<1>1. /\ pool = [l \in Level |-> <<>>] /\ free_objects = [l \in Level |-> 0]
      /\ whole_superblocks = [l \in Level |-> 0]
      /\ bkeep = [p \in Pages |-> NoBkeep] /\ next = [p \in Pages |-> NoNext]
      /\ big_object_list = <<>> /\ mapped = {} /\ held = {}
      /\ asked = [a \in Pointers |-> 0] /\ pc = "idle" /\ power = 0 /\ curr = 0
  BY DEF Init
<1>2. \A l \in Level : Superblocks(l) = {} /\ Len(pool[l]) = 0
  BY <1>1 DEF Superblocks, ToSet
<1>3. BigEntries = {} /\ Len(big_object_list) = 0 /\ Bigs = {}
  BY <1>1 DEF BigEntries, ToSet, Bigs
<1>4. Used = {}
  BY <1>1, <1>3 DEF Used
<1>5. TypeOK
  <2>1. NoBkeep \in Bookkeeping /\ NoNext \in [Slots -> Links]
    BY FullSbType DEF NoBkeep, Bookkeeping, NoNext, Links
  <2> QED BY <1>1, <2>1, FullSbType DEF TypeOK
<1>6. BooksBalance
  <2>1. \A l \in Level : ObjectsOf(l) \ Used = {}
    BY <1>2 DEF ObjectsOf
  <2>2. \A l \in Level : {p \in Superblocks(l) : bkeep[p].free_count = FullSb(l)} = {}
    BY <1>2
  <2>3. \A l \in Level : free_objects[l] = 0 /\ whole_superblocks[l] = 0
    BY <1>1
  <2> QED BY <1>2, <2>1, <2>2, <2>3, FS_EmptySet DEF BooksBalance
<1>7. PagesAccounted
  <2>1. PagesByPage
    BY <1>1, <1>2, <1>3, <1>4
       DEF PagesByPage, Repeatless, LevelsAgree, MappedIsKnown, BigsAreNoSuper, BigsAreHeld,
           UsedIsChained, NodesApart
  <2> QED BY <2>1, PagesAccountedByPage
<1>8. BigsApart
  BY <1>3 DEF BigsApart
<1>9. FreeListsAreFree /\ LinksLead
  BY <1>2 DEF FreeListsAreFree, LinksLead
<1>10. FitsRequest
  BY <1>1 DEF FitsRequest
<1>11. WholeLimit /\ ChainSafe
  BY <1>1, ThresholdIsNat DEF WholeLimit, ChainSafe, TooManyWhole
<1> QED BY <1>5, <1>6, <1>7, <1>8, <1>9, <1>10, <1>11 DEF AllocInv

LEMMA StepKeepsInv == AllocInv /\ [Next]_vars => AllocInv'
<1> SUFFICES ASSUME AllocInv, [Next]_vars PROVE AllocInv'
  OBVIOUS
<1>1. ASSUME NEW size \in Sizes, Malloc(size) PROVE AllocInv'
  BY <1>1, MallocKeepsInv
<1>2. ASSUME NEW size \in Sizes, MallocBig(size) PROVE AllocInv'
  BY <1>2, MallocBigKeepsInv
<1>3. ASSUME NEW size \in Sizes, MallocCrash(size) PROVE AllocInv'
  <2>1. \E how \in Crashes : Crash(how)
    BY <1>3 DEF MallocCrash, Crashes
  <2> QED BY <2>1, CrashKeepsInv
<1>4. CASE FreeObject
  BY <1>4, FreeObjectKeepsInv
<1>5. CASE FreeBig
  BY <1>5, FreeBigKeepsInv
<1>6. CASE FreeFailed
  <2>1. \E how \in Crashes : Crash(how)
    BY <1>6 DEF FreeFailed, Crashes
  <2> QED BY <2>1, CrashKeepsInv
<1>7. CASE ReleaseFirst
  BY <1>7, ReleaseFirstKeepsInv
<1>8. CASE ReleaseLater
  BY <1>8, ReleaseLaterKeepsInv
<1>9. CASE ReleaseDone
  BY <1>9, ReleaseDoneKeepsInv
<1>10. CASE UNCHANGED vars
  BY <1>10, StutterKeepsInv
<1> QED BY <1>1, <1>2, <1>3, <1>4, <1>5, <1>6, <1>7, <1>8, <1>9, <1>10 DEF Next, ReleaseStep

\* The books promise a free object only where the chain has one: the search
\* of malloc stops at the first superblock that has.
LEMMA BooksFindObject == TypeOK /\ BooksBalance => SearchSucceeds
<1> SUFFICES ASSUME TypeOK, BooksBalance, NEW l \in Level, free_objects[l] > 0
             PROVE  \E p \in Pages : Serves(l, p)
  BY DEF SearchSucceeds
<1>1. ObjectsOf(l) \ Used # {}
  <2>1. free_objects[l] \in Nat /\ free_objects[l] # 0
    BY DEF TypeOK
  <2> QED BY <2>1, BooksOf, FS_EmptySet
<1>2. PICK p \in Superblocks(l), i \in 1 .. FullSb(l) : <<p, i>> \notin Used
  BY <1>1 DEF ObjectsOf
<1>3. bkeep[p].free_count > 0
  <2>1. FreeIn(l, p) # {}
    BY <1>2 DEF FreeIn
  <2>2. bkeep[p].free_count # 0
    BY <1>2, <2>1, BooksOf, FiniteParts, FS_EmptySet
  <2>3. bkeep[p].free_count \in 0 .. FullSb(l)
    BY <1>2, BooksOf
  <2> QED BY <2>2, <2>3, FullSbType
<1> DEFINE T == {n \in 1 .. Len(pool[l]) : bkeep[pool[l][n]].free_count > 0}
<1>4. T # {}
  BY <1>2, <1>3, SuperblockMember
<1>5. Len(pool[l]) \in Nat
  BY SuperblockMember
<1>6. T \in SUBSET Nat
  BY <1>5
<1>7. PICK n \in T : \A m \in T : n <= m
  BY <1>4, <1>6, SmallestNat
<1>8. ASSUME NEW j \in 1 .. n - 1 PROVE bkeep[pool[l][j]].free_count = 0
  <2>1. j \in 1 .. Len(pool[l]) /\ j < n
    BY <1>5, <1>7
  <2>2. j \notin T
    BY <1>6, <1>7, <2>1
  <2>3. bkeep[pool[l][j]].free_count \in 0 .. FullSb(l)
    BY <2>1, SuperblockMember, BooksOf
  <2> QED BY <2>1, <2>2, <2>3, FullSbType
<1>9. n \in 1 .. Len(pool[l]) /\ pool[l][n] \in Pages /\ bkeep[pool[l][n]].free_count > 0
  BY <1>7, SuperblockMember
<1> QED BY <1>8, <1>9 DEF Serves

-----------------------------------------------------------------------------
(***************************************************************************)
(* Theorems                                                                *)
(***************************************************************************)

\* The inductive invariant holds: everything below follows from it.
THEOREM AllocInvHolds == Spec => []AllocInv
BY InitHasInv, StepKeepsInv, PTL DEF Spec

\* Every variable has its type: no counter of the books goes below zero, and
\* no free_count above what a superblock holds.
THEOREM TypesHold == Spec => []TypeOK
<1>1. AllocInv => TypeOK
  BY DEF AllocInv
<1> QED BY <1>1, AllocInvHolds, PTL

\* free_count, free_objects and whole_superblocks agree with the objects in
\* use, whatever the order of the calls of malloc and free.
THEOREM BooksAgree == Spec => []BooksBalance
<1>1. AllocInv => BooksBalance
  BY DEF AllocInv
<1> QED BY <1>1, AllocInvHolds, PTL

\* Nothing leaks, nothing in use is unmapped, and no object is used twice.
THEOREM PagesAreKnown == Spec => []PagesAccounted
<1>1. AllocInv => PagesAccounted
  BY DEF AllocInv
<1> QED BY <1>1, AllocInvHolds, PTL

\* No free list leads to an object in use, though the memset of free
\* overwrites the links.
THEOREM FreeListsStayFree == Spec => []FreeListsAreFree
<1>1. AllocInv => FreeListsAreFree
  BY DEF AllocInv
<1> QED BY <1>1, AllocInvHolds, PTL

\* An object is of the smallest size its caller's request fits in, for requests
\* of any size: size2level rounds up, once, and no superblock changes its level while the caller holds one of its objects.
THEOREM RequestsFit == Spec => []FitsRequest
<1>1. AllocInv => FitsRequest
  BY DEF AllocInv
<1> QED BY <1>1, AllocInvHolds, PTL

\* The search of malloc finds an object when free_objects promises one: the
\* assert at its end does not fail.
THEOREM SearchAlwaysSucceeds == Spec => []SearchSucceeds
<1>1. AllocInv => SearchSucceeds
  BY BooksFindObject DEF AllocInv
<1> QED BY <1>1, AllocInvHolds, PTL

\* The last loop of free never follows a null or unmapped curr, and always
\* has a superblock to find.
THEOREM ChainAlwaysSafe == Spec => []ChainSafe
<1>1. AllocInv => ChainSafe
  BY DEF AllocInv
<1> QED BY <1>1, AllocInvHolds, PTL

\* Between calls no level keeps more than its reserve of whole superblocks.
THEOREM ReserveStaysSmall == Spec => []ReserveIsSmall
<1>1. AllocInv => ReserveIsSmall
  <2> SUFFICES ASSUME AllocInv, pc = "idle", NEW l \in Level
               PROVE  whole_superblocks[l] <= RESERVE_SUPERBLOCK_THRESHOLD
    BY DEF ReserveIsSmall
  <2> QED BY ThresholdIsNat DEF AllocInv, WholeLimit, TypeOK
<1> QED BY <1>1, AllocInvHolds, PTL

-----------------------------------------------------------------------------
(***************************************************************************)
(* The last loop of free ends                                              *)
(***************************************************************************)

\* How many turns the loop has left at most.
TurnsLeft == IF TooManyWhole THEN Len(pool[power]) - curr + 1 ELSE 0

Advances == pc = "release" /\ pc' = "release" => TurnsLeft' < TurnsLeft

LEMMA TurnsAreFew ==
  ASSUME AllocInv
  PROVE  /\ Len(pool[power]) \in Nat /\ TurnsLeft \in 0 .. Len(pool[power])
         /\ TooManyWhole => TurnsLeft > 0 /\ TurnsLeft = Len(pool[power]) - curr + 1
<1>1. Len(pool[power]) \in Nat
  BY DEF AllocInv, TypeOK
<1>2. TooManyWhole => curr \in 1 .. Len(pool[power])
  BY DEF AllocInv, ChainSafe
<1> QED BY <1>1, <1>2 DEF TurnsLeft

\* One superblock given back is enough: then the level has its reserve.
LEMMA ReleaseEndsLoop ==
  ASSUME AllocInv, TooManyWhole, NEW n \in 1 .. Len(pool[power]),
         IsWhole(pool[power][n]), Release(n), power' = power
  PROVE  TurnsLeft' = 0
<1>1. power \in Level /\ whole_superblocks \in [Level -> Nat]
  BY DEF AllocInv, TypeOK
<1>2. whole_superblocks[power] <= RESERVE_SUPERBLOCK_THRESHOLD + 1
  BY <1>1 DEF AllocInv, WholeLimit, TooManyWhole
<1>3. whole_superblocks'[power] = whole_superblocks[power] - 1
  BY <1>1 DEF Release
<1>4. ~(whole_superblocks'[power'] > RESERVE_SUPERBLOCK_THRESHOLD)
  BY <1>1, <1>2, <1>3, ThresholdIsNat
<1> QED BY <1>4 DEF TurnsLeft, TooManyWhole

LEMMA ReleaseStepAdvances ==
  ASSUME AllocInv, ReleaseStep, pc' = "release"
  PROVE  TurnsLeft' < TurnsLeft
<1>1. /\ Len(pool[power]) \in Nat /\ curr \in Nat
      /\ TooManyWhole => TurnsLeft > 0 /\ TurnsLeft = Len(pool[power]) - curr + 1
  BY TurnsAreFew DEF AllocInv, TypeOK
<1>2. CASE ReleaseFirst
  <2>1. /\ TooManyWhole /\ curr \in 1 .. Len(pool[power]) /\ IsWhole(pool[power][1])
        /\ Release(1) /\ power' = power
    BY <1>2 DEF ReleaseFirst
  <2>2. 1 \in 1 .. Len(pool[power])
    BY <1>1, <2>1
  <2>3. TurnsLeft' = 0
    BY <2>1, <2>2, ReleaseEndsLoop
  <2> QED BY <1>1, <2>1, <2>3
<1>3. CASE ReleaseLater
  <2>1. TooManyWhole /\ curr \in 1 .. Len(pool[power]) - 1 /\ power' = power
    BY <1>3 DEF ReleaseLater
  <2>2. CASE IsWhole(pool[power][curr + 1])
    <3>1. Release(curr + 1)
      BY <1>3, <2>2 DEF ReleaseLater
    <3>2. curr + 1 \in 1 .. Len(pool[power])
      BY <1>1, <2>1
    <3>3. TurnsLeft' = 0
      BY <2>1, <2>2, <3>1, <3>2, ReleaseEndsLoop
    <3> QED BY <1>1, <2>1, <3>3
  <2>3. CASE ~IsWhole(pool[power][curr + 1])
    <3>1. curr' = curr + 1 /\ pool' = pool /\ whole_superblocks' = whole_superblocks /\ pc' = pc
      BY <1>3, <2>3 DEF ReleaseLater, levels
    <3>2. TurnsLeft' = Len(pool[power]) - (curr + 1) + 1
      BY <2>1, <3>1 DEF TurnsLeft, TooManyWhole
    <3> QED BY <1>1, <2>1, <3>2
  <2> QED BY <2>2, <2>3
<1>4. ~ReleaseDone
  BY DEF ReleaseDone
<1> QED BY <1>2, <1>3, <1>4 DEF ReleaseStep

\* The loop that gives superblocks back takes no more turns than its chain has
\* superblocks, though it changes the chain it walks over and starts again
\* from the front or goes on from an unmapped page.
THEOREM ReleaseIsBounded ==
  Spec => /\ [](TurnsLeft \in 0 .. Len(pool[power]))
          /\ [][Advances]_vars
<1>1. AllocInv => TurnsLeft \in 0 .. Len(pool[power])
  BY TurnsAreFew
<1>2. ASSUME AllocInv, Next PROVE Advances
  <2> SUFFICES ASSUME pc = "release", pc' = "release" PROVE TurnsLeft' < TurnsLeft
    BY DEF Advances
  <2>1. \A size \in Sizes : ~Malloc(size) /\ ~MallocBig(size) /\ ~MallocCrash(size)
    BY DEF Malloc, MallocBig, MallocCrash
  <2>2. ~FreeObject /\ ~FreeBig /\ ~FreeFailed
    BY DEF FreeObject, FreeBig, FreeFailed
  <2>3. ReleaseStep
    BY <1>2, <2>1, <2>2 DEF Next
  <2> QED BY <1>2, <2>3, ReleaseStepAdvances
<1>3. AllocInv /\ [Next]_vars => [Advances]_vars
  BY <1>2
<1> QED BY <1>1, <1>3, AllocInvHolds, PTL DEF Spec

=============================================================================
