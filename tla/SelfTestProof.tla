--------------------------- MODULE SelfTestProof ----------------------------
(***************************************************************************)
(* Proof that the self tests of MutexLru, which run through the same       *)
(* critical sections as the threads, print what main.c says they print,    *)
(* for any number of test keys and any water marks.                        *)
(***************************************************************************)
EXTENDS MutexLruProof

\* The program is in self_tests.
InTest ==
  ~finished /\ pc[Main] \in {"test"} \cup RefPlaces \cup CleanPlaces \cup PrintPlaces

\* The places of a call that has not yet changed the list.
Before == {"refLock", "refTest", "refWait", "refWake", "refBody", "refFail",
           "cleanLock", "cleanTest", "cleanWait", "cleanWake", "cleanBody"}

\* The calls that have changed the list.
Made == IF pc[Main] \in Before THEN step - 1 ELSE step

\* The list after the first s calls: key by key, then the even ones again,
\* then the two passes of clean.
After(s) ==
  [k \in Keys |->
     IF k >= TestSize \/ s >= TestPrint2 + 4 THEN 0
     ELSE IF s >= TestPrint2 + 2 THEN (IF k % 2 = 0 THEN 1 ELSE 0)
     ELSE IF s <= TestSize THEN (IF k < s THEN 1 ELSE 0)
     ELSE IF k % 2 = 0 /\ k < 2 * (s - TestSize - 1) THEN 2 ELSE 1]

TestRefs == (0 .. TestPrint2 - 1) \ {TestSize}

TestInv ==
  InTest =>
    /\ refs = After(Made)
    /\ pc[Main] \in RefPlaces   => step - 1 \in TestRefs
    /\ pc[Main] \in RefPlaces \cap Before => key[Main] = TestKey(step - 1)
    /\ pc[Main] \in CleanPlaces => step - 1 \in TestCleans
    /\ pc[Main] \in PrintPlaces => step - 1 \in TestPrints
-----------------------------------------------------------------------------
(***************************************************************************)
(* The list after each call                                                *)
(***************************************************************************)

LEMMA TestSizes ==
  /\ TestSize \in Nat /\ TestSize > 0 /\ Evens \in Nat /\ Evens > 0
  /\ 2 * Evens >= TestSize /\ 2 * Evens <= TestSize + 1
  /\ TestPrint2 = TestSize + 1 + Evens /\ TestPrint2 \in Nat
  /\ 0 \in Keys /\ Keys \subseteq Nat /\ \A k \in Nat : k < TestSize => k \in Keys
BY SizesAreNats, TestsFitTheKeys DEF Evens, TestPrint2, Keys

LEMMA NothingMade ==
  After(0) = [k \in Keys |-> 0]
BY TestSizes DEF After

LEMMA ReferenceMade ==
  ASSUME NEW s \in TestRefs
  PROVE  /\ TestKey(s) \in Keys
         /\ After(s + 1) = [After(s) EXCEPT ![TestKey(s)] = @ + 1]
<1> DEFINE x == TestKey(s)
<1>1. s \in Nat /\ s < TestPrint2 /\ s # TestSize
  BY TestSizes DEF TestRefs
<1>2. CASE s < TestSize
  <2>1. x = s /\ s \in Keys
    BY <1>1, <1>2, TestSizes DEF TestKey
  <2>2. ASSUME NEW k \in Keys
        PROVE  After(s + 1)[k] = IF k = s THEN After(s)[s] + 1 ELSE After(s)[k]
    BY <1>1, <1>2, <2>1, TestSizes DEF After
  <2> QED BY <2>1, <2>2 DEF After
<1>3. CASE s > TestSize
  <2> DEFINE j == s - TestSize - 1
  <2>1. x = 2 * j /\ j \in Nat /\ j < Evens
    BY <1>1, <1>3, TestSizes DEF TestKey
  <2>2. x \in Nat /\ x < TestSize /\ x \in Keys /\ x % 2 = 0
    BY <2>1, TestSizes
  <2>3. (s + 1) - TestSize - 1 = j + 1
    BY <1>1, TestSizes
  <2> HIDE DEF x, j
  <2>4. ASSUME NEW k \in Keys
        PROVE  k % 2 = 0 /\ k < 2 * (j + 1) <=> (k % 2 = 0 /\ k < 2 * j) \/ k = x
    BY <2>1, TestSizes
  <2>5. ~(s >= TestPrint2 + 4) /\ ~(s >= TestPrint2 + 2) /\ ~(s <= TestSize)
        /\ ~(s + 1 >= TestPrint2 + 4) /\ ~(s + 1 >= TestPrint2 + 2) /\ ~(s + 1 <= TestSize)
    BY <1>1, <1>3, TestSizes
  <2>6. /\ After(s) = [k \in Keys |-> IF k >= TestSize THEN 0
                                      ELSE IF k % 2 = 0 /\ k < 2 * j THEN 2 ELSE 1]
        /\ After(s + 1) = [k \in Keys |-> IF k >= TestSize THEN 0
                                          ELSE IF k % 2 = 0 /\ k < 2 * (j + 1) THEN 2 ELSE 1]
    BY <2>3, <2>5 DEF After, j
  <2>7. ~(x >= TestSize) /\ ~(x < 2 * j)
    BY <2>1, <2>2, TestSizes
  <2>8. ASSUME NEW k \in Keys
        PROVE  After(s + 1)[k] = IF k = x THEN After(s)[x] + 1 ELSE After(s)[k]
    BY <2>2, <2>4, <2>6, <2>7
  <2>9. After(s) \in [Keys -> Nat] /\ DOMAIN After(s + 1) = Keys
    BY <2>6
  <2> QED BY <2>2, <2>6, <2>8, <2>9 DEF x
<1> QED BY <1>1, <1>2, <1>3, TestSizes

LEMMA CleanMade ==
  ASSUME NEW s \in TestCleans
  PROVE  /\ After(s + 1) = [k \in Keys |-> IF After(s)[k] = 0 THEN 0 ELSE After(s)[k] - 1]
         /\ s = TestPrint2 + 1 => After(s)[0] > 0
<1>1. CASE s = TestPrint2 + 1
  <2>1. /\ ~(s >= TestPrint2 + 4) /\ ~(s >= TestPrint2 + 2) /\ ~(s <= TestSize)
        /\ ~(s + 1 >= TestPrint2 + 4) /\ s + 1 >= TestPrint2 + 2
        /\ s - TestSize - 1 = Evens + 1
    BY <1>1, TestSizes
  <2>2. \A k \in Keys : ~(k >= TestSize) => k < 2 * (Evens + 1)
    BY TestSizes
  <2>3. After(s) = [k \in Keys |-> IF k >= TestSize THEN 0 ELSE IF k % 2 = 0 THEN 2 ELSE 1]
    BY <2>1, <2>2 DEF After
  <2>4. After(s + 1) = [k \in Keys |-> IF k >= TestSize THEN 0 ELSE IF k % 2 = 0 THEN 1 ELSE 0]
    BY <2>1 DEF After
  <2>5. ~(0 >= TestSize) /\ 0 % 2 = 0 /\ 0 \in Keys
    BY TestSizes
  <2> QED BY <2>3, <2>4, <2>5
<1>2. CASE s = TestPrint2 + 3
  <2>1. /\ ~(s >= TestPrint2 + 4) /\ s >= TestPrint2 + 2 /\ s # TestPrint2 + 1
        /\ s + 1 >= TestPrint2 + 4
    BY <1>2, TestSizes
  <2>2. After(s) = [k \in Keys |-> IF k >= TestSize THEN 0 ELSE IF k % 2 = 0 THEN 1 ELSE 0]
    BY <2>1 DEF After
  <2>3. After(s + 1) = [k \in Keys |-> 0]
    BY <2>1 DEF After
  <2> QED BY <2>1, <2>2, <2>3
<1> QED BY <1>1, <1>2 DEF TestCleans

LEMMA PrintMade ==
  ASSUME NEW s \in TestPrints
  PROVE  /\ After(s + 1) = After(s)
         /\ After(s + 1) = [k \in Keys |->
              IF k >= TestSize \/ s + 1 = TestPrint2 + 5 THEN 0
              ELSE IF s + 1 = TestSize + 1 THEN 1
              ELSE IF s + 1 = TestPrint2 + 1 THEN (IF k % 2 = 0 THEN 2 ELSE 1)
              ELSE (IF k % 2 = 0 THEN 1 ELSE 0)]
<1>1. CASE s = TestSize
  <2>1. /\ s + 1 # TestPrint2 + 5 /\ s + 1 = TestSize + 1
        /\ ~(s >= TestPrint2 + 4) /\ ~(s >= TestPrint2 + 2) /\ s <= TestSize
        /\ ~(s + 1 >= TestPrint2 + 4) /\ ~(s + 1 >= TestPrint2 + 2) /\ ~(s + 1 <= TestSize)
        /\ (s + 1) - TestSize - 1 = 0
    BY <1>1, TestSizes
  <2>2. \A k \in Keys : ~(k < 2 * 0) /\ (~(k >= TestSize) => k < TestSize)
    BY TestSizes
  <2>3. After(s) = [k \in Keys |-> IF k >= TestSize THEN 0 ELSE 1]
    BY <1>1, <2>1, <2>2 DEF After
  <2>4. After(s + 1) = [k \in Keys |-> IF k >= TestSize THEN 0 ELSE 1]
    BY <2>1, <2>2 DEF After
  <2> QED BY <2>1, <2>3, <2>4
<1>2. CASE s = TestPrint2
  <2>1. /\ s + 1 # TestPrint2 + 5 /\ s + 1 # TestSize + 1 /\ s + 1 = TestPrint2 + 1
        /\ ~(s >= TestPrint2 + 4) /\ ~(s >= TestPrint2 + 2) /\ ~(s <= TestSize)
        /\ ~(s + 1 >= TestPrint2 + 4) /\ ~(s + 1 >= TestPrint2 + 2) /\ ~(s + 1 <= TestSize)
        /\ (s + 1) - TestSize - 1 = Evens + 1 /\ s - TestSize - 1 = Evens
    BY <1>2, TestSizes
  <2>2. \A k \in Keys : ~(k >= TestSize) => k < 2 * Evens /\ k < 2 * (Evens + 1)
    BY TestSizes
  <2>3. After(s) = [k \in Keys |-> IF k >= TestSize THEN 0 ELSE IF k % 2 = 0 THEN 2 ELSE 1]
    BY <2>1, <2>2 DEF After
  <2>4. After(s + 1) = [k \in Keys |-> IF k >= TestSize THEN 0 ELSE IF k % 2 = 0 THEN 2 ELSE 1]
    BY <2>1, <2>2 DEF After
  <2> QED BY <2>1, <2>3, <2>4
<1>3. CASE s = TestPrint2 + 2
  <2>1. /\ s + 1 # TestPrint2 + 5 /\ s + 1 # TestSize + 1 /\ s + 1 # TestPrint2 + 1
        /\ ~(s >= TestPrint2 + 4) /\ s >= TestPrint2 + 2
        /\ ~(s + 1 >= TestPrint2 + 4) /\ s + 1 >= TestPrint2 + 2
    BY <1>3, TestSizes
  <2> QED BY <2>1 DEF After
<1>4. CASE s = TestPrint2 + 4
  <2>1. s + 1 = TestPrint2 + 5 /\ s >= TestPrint2 + 4 /\ s + 1 >= TestPrint2 + 4
    BY <1>4, TestSizes
  <2> QED BY <2>1 DEF After
<1> QED BY <1>1, <1>2, <1>3, <1>4 DEF TestPrints

-----------------------------------------------------------------------------
(***************************************************************************)
(* The steps                                                               *)
(***************************************************************************)

\* During the tests main is alone.
LEMMA MainIsAlone ==
  ASSUME IndInv, InTest
  PROVE  /\ Main \in Threads /\ pc[Main] \in Places /\ pc \in [Threads -> Places]
         /\ ~done /\ ~finished
         /\ \A t \in Threads \ {Main} : pc[t] = "none"
<1>1. pc[Main] \notin {"create", "failed"}
  BY DEF InTest, RefPlaces, CleanPlaces, PrintPlaces
<1> QED BY <1>1 DEF IndInv, Types, MainOrder, InTest, Threads

LEMMA TestMoves ==
  ASSUME IndInv, InTest, Next
  PROVE  Reference(Main) \/ Clean(Main) \/ Spurious(Main) \/ SelfTests \/ PrintLock \/ PrintList
<1>a. /\ Cleaner \in Threads \ {Main} /\ Clients \subseteq Threads \ {Main}
      /\ pc[Main] \in {"test"} \cup RefPlaces \cup CleanPlaces \cup PrintPlaces
  BY ThreadsAreDistinct DEF Threads, InTest
<1>1. ASSUME NEW t \in Threads \ {Main}
      PROVE  ~Reference(t) /\ ~Clean(t) /\ ~Spurious(t) /\ pc[t] # "loop"
  BY MainIsAlone DEF Reference, RefLock, RefBlock, RefRelock, RefEnter, RefHit, RefInsert,
     RefNoMemory, RefSignal, RefUnlock, Clean, CleanLock, CleanEmpty, CleanBlock, CleanRelock,
     CleanEnter, CleanBody, CleanSignal, CleanUnlock, Spurious
<1>2. ~CleanerLoop /\ \A c \in Clients : ~ClientLoop(c)
  BY <1>1, <1>a DEF CleanerLoop, ClientLoop
<1>3. /\ ~CreateThread /\ ~Finish /\ ~ShutdownLock /\ ~ShutdownBody /\ ~ShutdownUnlock /\ ~Join
  BY <1>a DEF CreateThread, Finish, ShutdownLock, ShutdownBody, ShutdownUnlock, Join,
     RefPlaces, CleanPlaces, PrintPlaces
<1> QED BY <1>1, <1>2, <1>3, <1>a, NextCases

\* The tests do not begin again.
LEMMA TestsEnd ==
  ASSUME IndInv, ~InTest, [Next]_vars
  PROVE  ~InTest'
<1> SUFFICES ASSUME InTest' PROVE FALSE
  OBVIOUS
<1> DEFINE T == {"test"} \cup RefPlaces \cup CleanPlaces \cup PrintPlaces
<1>1. ~finished' /\ pc'[Main] \in T
  BY DEF InTest
<1>2. ~finished
  <2>1. finished' = finished \/ Finish
    BY NextCases DEF vars, Reference, RefLock, RefBlock, RefRelock, RefEnter, RefHit, RefInsert,
     RefNoMemory, RefSignal, RefUnlock, Clean, CleanLock, CleanEmpty, CleanBlock, CleanRelock,
     CleanEnter, CleanBody, CleanSignal, CleanUnlock, Spurious, CleanerLoop, ClientLoop,
     SelfTests, CreateThread, ShutdownLock, ShutdownBody, ShutdownUnlock, Join, PrintLock, PrintList
  <2> QED BY <1>1, <2>1 DEF Finish
<1>3. pc[Main] \notin T
  BY <1>2 DEF InTest
<1>4. pc[Main] \in {"create", "died", "failed", "returned"} /\ Main \in Threads
  BY <1>2, <1>3 DEF IndInv, Types, MainOrder, PlacesOf, MainPlaces, EndPlaces, Threads
<1>5. ASSUME NEW t \in Threads, Reference(t) \/ Clean(t) PROVE pc'[Main] = pc[Main]
  <2>1. t # Main
    BY <1>4, <1>5 DEF Reference, RefLock, RefBlock, RefRelock, RefEnter, RefHit, RefInsert,
       RefNoMemory, RefSignal, RefUnlock, Clean, CleanLock, CleanEmpty, CleanBlock, CleanRelock,
       CleanEnter, CleanBody, CleanSignal, CleanUnlock
  <2>2. Moves(t)
    BY <1>5, SignalMoves, GotoMoves DEF IndInv, Reference, RefLock, RefBlock, RefRelock, RefEnter,
       RefHit, RefInsert, RefNoMemory, RefSignal, RefUnlock, Clean, CleanLock, CleanEmpty,
       CleanBlock, CleanRelock, CleanEnter, CleanBody, CleanSignal, CleanUnlock, Acquire, Release
  <2> QED BY <1>4, <2>1, <2>2 DEF Moves, Woken
<1>6. ASSUME CleanerLoop \/ (\E c \in Clients : ClientLoop(c)) \/ \E t \in Threads : Spurious(t)
      PROVE  pc'[Main] = pc[Main]
  <2>1. PICK t \in Threads, place \in Places : t # Main /\ pc' = [pc EXCEPT ![t] = place]
    <3>1. CASE CleanerLoop
      BY <3>1, ThreadsAreDistinct DEF CleanerLoop, Goto, Threads, Places, CleanPlaces
    <3>2. CASE \E c \in Clients : ClientLoop(c)
      BY <3>2, ThreadsAreDistinct DEF ClientLoop, Goto, Threads, Places, RefPlaces
    <3>3. CASE \E t \in Threads : Spurious(t)
      BY <1>4, <3>3 DEF Spurious, Goto, Places, RefPlaces, CleanPlaces
    <3> QED BY <1>6, <3>1, <3>2, <3>3
  <2> QED BY <1>4, <2>1 DEF IndInv, Types
<1>7. CASE \/ SelfTests \/ CreateThread \/ Finish \/ ShutdownLock \/ ShutdownBody
           \/ ShutdownUnlock \/ Join \/ PrintLock \/ PrintList
  <2>1. CreateThread \/ Finish
    BY <1>4, <1>7 DEF SelfTests, ShutdownLock, ShutdownBody, ShutdownUnlock, Join, PrintLock, PrintList
  <2>2. pc'[Main] \in {"create", "failed", "shutLock"}
    BY <1>4, <2>1, ThreadsAreDistinct DEF CreateThread, Finish, Goto, IndInv, Types
  <2> QED BY <1>1, <2>2 DEF RefPlaces, CleanPlaces, PrintPlaces
<1>8. CASE UNCHANGED vars
  BY <1>1, <1>3, <1>8 DEF vars
<1>9. CASE Next
  BY <1>1, <1>3, <1>4, <1>5, <1>6, <1>7, <1>9, NextCases DEF Threads
<1> QED BY <1>8, <1>9

\* What the invariant says in a state of the tests.
TestState ==
  /\ refs = After(Made)
  /\ pc[Main] \in RefPlaces   => step - 1 \in TestRefs
  /\ pc[Main] \in RefPlaces \cap Before => key[Main] = TestKey(step - 1)
  /\ pc[Main] \in CleanPlaces => step - 1 \in TestCleans
  /\ pc[Main] \in PrintPlaces => step - 1 \in TestPrints

\* A step between two places of the same call that leaves the list alone.
LEMMA SameCall ==
  ASSUME IndInv, TestState, UNCHANGED <<refs, key, step>>,
         NEW place, pc' = [pc EXCEPT ![Main] = place],
         \/ {pc[Main], place} \subseteq RefPlaces
         \/ {pc[Main], place} \subseteq CleanPlaces
         \/ {pc[Main], place} \subseteq PrintPlaces,
         pc[Main] \in Before <=> place \in Before
  PROVE  TestState'
<1>1. pc'[Main] = place
  BY DEF IndInv, Types, Threads
<1>2. Made' = Made /\ After(Made)' = After(Made)
  BY <1>1 DEF Made, After
<1>3. RefPlaces \cap CleanPlaces = {} /\ RefPlaces \cap PrintPlaces = {}
      /\ CleanPlaces \cap PrintPlaces = {}
  BY DEF RefPlaces, CleanPlaces, PrintPlaces
<1> QED BY <1>1, <1>2, <1>3 DEF TestState

\* A call ends: main is back in self_tests, or the program ends.
LEMMA CallEnds ==
  ASSUME IndInv, TestState, UNCHANGED <<refs, key, step>>,
         NEW place, pc' = [pc EXCEPT ![Main] = place],
         \/ place = "test" /\ (pc[Main] \notin Before)
         \/ place \notin {"test"} \cup RefPlaces \cup CleanPlaces \cup PrintPlaces
  PROVE  TestInv'
<1>1. pc'[Main] = place
  BY DEF IndInv, Types, Threads
<1>2. CASE place = "test" /\ pc[Main] \notin Before
  <2>1. Made' = Made /\ After(Made)' = After(Made)
    BY <1>1, <1>2 DEF Made, After, Before
  <2> QED
    BY <1>1, <1>2, <2>1 DEF TestState, TestInv, RefPlaces, CleanPlaces, PrintPlaces
<1>3. CASE place \notin {"test"} \cup RefPlaces \cup CleanPlaces \cup PrintPlaces
  BY <1>1, <1>3 DEF TestInv, InTest
<1> QED BY <1>2, <1>3

LEMMA StateIsEnough ==
  ASSUME TestState
  PROVE  TestInv
BY DEF TestState, TestInv

\* reference, called by self_tests.
LEMMA ReferenceInTest ==
  ASSUME IndInv, InTest, TestState, Reference(Main)
  PROVE  TestInv'
<1>a. Main \in Threads /\ pc \in [Threads -> Places] /\ ~done
      /\ \A t \in Threads \ {Main} : pc[t] = "none"
  BY MainIsAlone
<1>b. UNCHANGED <<key, step>> /\ pc[Main] \in RefPlaces
  BY DEF Reference, RefLock, RefBlock, RefRelock, RefEnter, RefHit, RefInsert,
     RefNoMemory, RefSignal, RefUnlock, RefPlaces
<1>1. CASE RefLock(Main) \/ RefBlock(Main) \/ RefRelock(Main) \/ RefEnter(Main) \/ RefNoMemory(Main)
  <2>1. PICK place \in RefPlaces \cap Before :
          pc' = [pc EXCEPT ![Main] = place] /\ pc[Main] \in Before
    BY <1>1, <1>a DEF RefLock, RefBlock, RefRelock, RefEnter, RefNoMemory, Acquire, Release,
       Goto, RefPlaces, Before
  <2>2. refs' = refs
    BY <1>1 DEF RefLock, RefBlock, RefRelock, RefEnter, RefNoMemory
  <2>3. TestState'
    BY <1>b, <2>1, <2>2, SameCall
  <2> QED BY <2>3, StateIsEnough, PTL
<1>2. CASE RefHit(Main) \/ RefInsert(Main)
  <2>1. refs' = [refs EXCEPT ![key[Main]] = @ + 1] /\ pc[Main] = "refBody"
        /\ pc' = [pc EXCEPT ![Main] = "refSignal"]
    BY <1>2 DEF RefHit, RefInsert, Goto
  <2>2. /\ refs = After(step - 1) /\ step - 1 \in TestRefs /\ key[Main] = TestKey(step - 1)
    BY <2>1 DEF TestState, Made, Before, RefPlaces
  <2>3. refs' = After((step - 1) + 1)
    BY <2>1, <2>2, ReferenceMade
  <2>4. (step - 1) + 1 = step
    BY DEF IndInv, Types
  <2>5. pc'[Main] = "refSignal" /\ Made' = step
    BY <1>a, <1>b, <2>1 DEF Made, Before
  <2>6. refs' = After(Made)'
    BY <2>3, <2>4, <2>5 DEF After
  <2> QED
    BY <1>b, <2>2, <2>5, <2>6 DEF TestInv, RefPlaces, Before, CleanPlaces, PrintPlaces
<1>3. CASE RefSignal(Main)
  <2>1. BlockedAt("cleanWait") = {}
    BY <1>3, <1>a DEF BlockedAt, RefSignal
  <2>2. pc' = [pc EXCEPT ![Main] = "refUnlock"] /\ pc[Main] = "refSignal" /\ refs' = refs
    BY <1>3, <2>1 DEF RefSignal, Signal, Goto
  <2>3. TestState'
    BY <1>b, <2>2, SameCall DEF RefPlaces, Before
  <2> QED BY <2>3, StateIsEnough, PTL
<1>4. CASE RefUnlock(Main)
  <2>1. /\ pc[Main] \in {"refUnlock", "refFail"} /\ refs' = refs
        /\ pc[Main] = "refUnlock" => pc' = [pc EXCEPT ![Main] = "test"]
        /\ pc[Main] = "refFail" => pc' = [pc EXCEPT ![Main] = "died"]
    BY <1>4 DEF RefUnlock, Release, Goto, AfterReference
  <2>2. CASE pc[Main] = "refUnlock"
    BY <1>b, <2>1, <2>2, CallEnds DEF Before
  <2>3. CASE pc[Main] = "refFail"
    <3>1. pc' = [pc EXCEPT ![Main] = "died"] /\ UNCHANGED <<refs, key, step>>
      BY <1>b, <2>1, <2>3
    <3>2. "died" \notin {"test"} \cup RefPlaces \cup CleanPlaces \cup PrintPlaces
      BY DEF RefPlaces, CleanPlaces, PrintPlaces
    <3> QED BY <3>1, <3>2, CallEnds
  <2> QED BY <2>1, <2>2, <2>3
<1> QED BY <1>1, <1>2, <1>3, <1>4 DEF Reference

\* clean, called by self_tests.
LEMMA CleanInTest ==
  ASSUME IndInv, InTest, TestState, Clean(Main)
  PROVE  TestInv'
<1>a. Main \in Threads /\ pc \in [Threads -> Places] /\ ~done
      /\ \A t \in Threads \ {Main} : pc[t] = "none"
  BY MainIsAlone
<1>b. UNCHANGED <<key, step>> /\ pc[Main] \in CleanPlaces
  BY DEF Clean, CleanLock, CleanEmpty, CleanBlock, CleanRelock,
     CleanEnter, CleanBody, CleanSignal, CleanUnlock, CleanPlaces
<1>c. step - 1 \in TestCleans /\ (step - 1) + 1 = step
  BY <1>b DEF TestState, IndInv, Types
<1>1. CASE CleanLock(Main) \/ CleanBlock(Main) \/ CleanRelock(Main) \/ CleanEnter(Main)
  <2>1. PICK place \in CleanPlaces \cap Before :
          pc' = [pc EXCEPT ![Main] = place] /\ pc[Main] \in Before
    BY <1>1, <1>a DEF CleanLock, CleanBlock, CleanRelock, CleanEnter, Acquire, Release,
       Goto, CleanPlaces, Before
  <2>2. refs' = refs
    BY <1>1 DEF CleanLock, CleanBlock, CleanRelock, CleanEnter
  <2>3. TestState'
    BY <1>b, <2>1, <2>2, SameCall
  <2> QED BY <2>3, StateIsEnough, PTL
<1>2. CASE CleanEmpty(Main)
  <2>1. pc[Main] = "cleanTest" /\ count = 0 /\ step = TestPrint2 + 2
    BY <1>2, ThreadsAreDistinct DEF CleanEmpty, MustWait, CheckWaterMark
  <2>2. refs = After(step - 1) /\ step - 1 = TestPrint2 + 1
    BY <2>1, TestSizes DEF TestState, Made, Before
  <2>3. refs[0] > 0 /\ 0 \in Keys
    BY <1>c, <2>2, CleanMade, TestSizes
  <2>4. 0 \in Listed
    BY <2>3 DEF Listed
  <2>5. Cardinality(Listed) # 0
    <3>1. Listed \subseteq Keys
      BY DEF Listed
    <3>2. IsFiniteSet(Listed)
      BY <3>1, KeySets
    <3> QED BY <2>4, <3>2, FS_EmptySet
  <2> QED BY <2>1, <2>5 DEF IndInv, CountAccurate
<1>3. CASE CleanBody(Main)
  <2>1. /\ refs' = [k \in Keys |-> IF refs[k] = 0 THEN 0 ELSE refs[k] - 1]
        /\ pc[Main] = "cleanBody" /\ pc' = [pc EXCEPT ![Main] = "cleanSignal"]
    BY <1>3 DEF CleanBody, Goto
  <2>2. refs = After(step - 1)
    BY <2>1 DEF TestState, Made, Before
  <2>3. refs' = After((step - 1) + 1)
    BY <1>c, <2>1, <2>2, CleanMade
  <2>4. pc'[Main] = "cleanSignal" /\ Made' = step
    BY <1>a, <1>b, <2>1 DEF Made, Before
  <2>5. refs' = After(Made)'
    BY <1>c, <2>3, <2>4 DEF After
  <2> QED
    BY <1>b, <1>c, <2>4, <2>5 DEF TestInv, RefPlaces, CleanPlaces, PrintPlaces
<1>4. CASE CleanSignal(Main)
  <2>1. BlockedAt("refWait") = {}
    BY <1>4, <1>a DEF BlockedAt, CleanSignal
  <2>2. pc' = [pc EXCEPT ![Main] = "cleanUnlock"] /\ pc[Main] = "cleanSignal" /\ refs' = refs
    BY <1>4, <2>1 DEF CleanSignal, Signal, Goto
  <2>3. TestState'
    BY <1>b, <2>2, SameCall DEF CleanPlaces, Before
  <2> QED BY <2>3, StateIsEnough, PTL
<1>5. CASE CleanUnlock(Main)
  <2>1. /\ pc[Main] = "cleanUnlock" /\ refs' = refs
        /\ pc' = [pc EXCEPT ![Main] = "test"]
    BY <1>5 DEF CleanUnlock, Release, Goto
  <2> QED
    BY <1>b, <2>1, CallEnds DEF Before
<1> QED BY <1>1, <1>2, <1>3, <1>4, <1>5 DEF Clean

\* self_tests and print themselves.
LEMMA MainInTest ==
  ASSUME IndInv, InTest, TestState, SelfTests \/ PrintLock \/ PrintList
  PROVE  TestInv'
<1>a. Main \in Threads /\ pc \in [Threads -> Places] /\ step \in 0 .. TestEnd
  BY MainIsAlone DEF IndInv, Types
<1>b. refs' = refs
  BY DEF SelfTests, PrintLock, PrintList
<1>1. CASE SelfTests /\ step \in TestPrints \cup TestCleans
  <2>1. step # TestEnd
    BY <1>1, SizesAreNats DEF TestEnd, TestPrints, TestCleans, TestPrint2, Evens
  <2>2. PICK place \in {"printLock", "cleanLock"} :
          /\ pc' = [pc EXCEPT ![Main] = place] /\ pc[Main] = "test" /\ step' = step + 1
          /\ place = "printLock" => step \in TestPrints
          /\ place = "cleanLock" => step \in TestCleans
    BY <1>1, <2>1 DEF SelfTests, Goto
  <2>3. refs = After(step) /\ step' - 1 = step /\ pc'[Main] = place
    BY <1>a, <2>2 DEF TestState, Made, Before
  <2>4. CASE place = "printLock"
    <3>1. After(step') = After(step)
      BY <2>2, <2>4, PrintMade
    <3>2. refs' = After(Made)'
      <4>1. Made' = step'
        BY <2>3, <2>4 DEF Made, Before
      <4> QED BY <1>b, <2>3, <3>1, <4>1 DEF After
    <3> QED
      BY <2>2, <2>3, <2>4, <3>2 DEF TestInv, RefPlaces, CleanPlaces, PrintPlaces
  <2>5. CASE place = "cleanLock"
    <3>1. refs' = After(Made)'
      <4>1. Made' = step
        BY <2>3, <2>5 DEF Made, Before
      <4> QED BY <1>b, <2>3, <4>1 DEF After
    <3> QED
      BY <2>2, <2>3, <2>5, <3>1 DEF TestInv, RefPlaces, CleanPlaces, PrintPlaces
  <2> QED BY <2>4, <2>5
<1>2. CASE SelfTests /\ step \notin TestPrints \cup TestCleans \cup {TestEnd}
  <2>1. /\ pc' = [pc EXCEPT ![Main] = "refLock"] /\ pc[Main] = "test" /\ step' = step + 1
        /\ key' = [key EXCEPT ![Main] = TestKey(step)]
    BY <1>2 DEF SelfTests, Goto
  <2>2. step \in TestRefs
    BY <1>a, <1>2, TestSizes DEF TestRefs, TestEnd, TestPrints, TestCleans
  <2>3. refs = After(step) /\ step' - 1 = step /\ pc'[Main] = "refLock"
    BY <1>a, <2>1 DEF TestState, Made, Before
  <2>4. key'[Main] = TestKey(step)
    BY <1>a, <2>1 DEF IndInv, Types
  <2>5. refs' = After(Made)'
    <3>1. Made' = step
      BY <2>3 DEF Made, Before
    <3> QED BY <1>b, <2>3, <3>1 DEF After
  <2> QED
    BY <2>2, <2>3, <2>4, <2>5 DEF TestInv, RefPlaces, CleanPlaces, PrintPlaces
<1>3. CASE SelfTests /\ step = TestEnd /\ step \notin TestPrints \cup TestCleans
  <2>1. pc' = [pc EXCEPT ![Main] = "create"]
    BY <1>3 DEF SelfTests, Goto
  <2>2. pc'[Main] = "create"
    BY <1>a, <2>1
  <2> QED BY <2>2 DEF TestInv, InTest, RefPlaces, CleanPlaces, PrintPlaces
<1>4. CASE PrintLock
  <2>1. /\ pc' = [pc EXCEPT ![Main] = "printBody"] /\ pc[Main] = "printLock"
        /\ UNCHANGED <<refs, key, step>>
    BY <1>4 DEF PrintLock, Acquire, Goto
  <2>2. TestState'
    BY <2>1, SameCall DEF PrintPlaces, Before
  <2> QED BY <2>2, StateIsEnough, PTL
<1>5. CASE PrintList
  <2>1. /\ pc' = [pc EXCEPT ![Main] = "test"] /\ pc[Main] = "printBody"
        /\ UNCHANGED <<refs, key, step>>
    BY <1>5 DEF PrintList, Release, Goto, InTest
  <2> QED BY <2>1, CallEnds DEF Before
<1> QED BY <1>1, <1>2, <1>3, <1>4, <1>5

LEMMA TestStep ==
  ASSUME IndInv, TestInv, [Next]_vars
  PROVE  TestInv'
<1>1. CASE ~InTest
  BY <1>1, TestsEnd DEF TestInv
<1>2. CASE UNCHANGED vars
  BY <1>2 DEF vars, TestInv, InTest, Made, After
<1>3. CASE InTest /\ Next
  <2>1. TestState
    BY <1>3 DEF TestInv, TestState
  <2>2. CASE Spurious(Main)
    <3>1. PICK place \in {"refWake", "cleanWake"} :
            /\ pc' = [pc EXCEPT ![Main] = place]
            /\ pc[Main] = IF place = "refWake" THEN "refWait" ELSE "cleanWait"
            /\ UNCHANGED <<refs, key, step>>
      BY <2>2 DEF Spurious, Goto
    <3>2. TestState'
      BY <2>1, <3>1, SameCall DEF RefPlaces, CleanPlaces, Before
    <3> QED BY <3>2, StateIsEnough, PTL
  <2> QED
    BY <1>3, <2>1, <2>2, TestMoves, ReferenceInTest, CleanInTest, MainInTest
<1> QED BY <1>1, <1>2, <1>3

-----------------------------------------------------------------------------
(***************************************************************************)
(* Main does not wait                                                      *)
(***************************************************************************)

MainWaits == pc[Main] \in {"refWait", "cleanWait"}

\* The number of keys in the list until the first clean takes effect.
LEMMA SizeAfter ==
  ASSUME IndInv, NEW s \in Nat, s < TestPrint2 + 2, refs = After(s)
  PROVE  count = IF s <= TestSize THEN s ELSE TestSize
<1> DEFINE m == IF s <= TestSize THEN s ELSE TestSize
<1>1. m \in Nat /\ m <= MAX_KEY
  BY TestSizes, SizesAreNats, TestsFitTheKeys
<1>2. \A k \in Keys : refs[k] > 0 <=> k < m
  <2>1. /\ ~(s >= TestPrint2 + 4) /\ ~(s >= TestPrint2 + 2)
    BY TestSizes
  <2>2. ASSUME NEW k \in Keys PROVE refs[k] > 0 <=> k < m
    BY <2>1, TestSizes DEF After
  <2> QED BY <2>2
<1> HIDE DEF m
<1>3. Listed = 0 .. m - 1
  BY <1>1, <1>2, SizesAreNats DEF Listed, Keys
<1>4. Cardinality(0 .. m - 1) = m
  BY <1>1, FS_Interval
<1> QED BY <1>3, <1>4 DEF IndInv, CountAccurate, m

\* No call finds the list full, and the first clean finds enough in it.
LEMMA RoomInTest ==
  ASSUME IndInv, TestState, TestsFitTheMarks
  PROVE  ~RefBlock(Main) /\ ~CleanBlock(Main)
<1>1. ASSUME RefBlock(Main) PROVE FALSE
  <2>1. pc[Main] = "refTest" /\ count >= HIGH_WATER_MARK
    BY <1>1 DEF RefBlock
  <2>2. refs = After(step - 1) /\ step - 1 \in TestRefs
    BY <2>1 DEF TestState, Made, Before, RefPlaces
  <2>3. step - 1 \in Nat /\ step - 1 < TestPrint2 + 2
    BY <2>2, TestSizes DEF TestRefs
  <2>4. count \in Int /\ count <= TestSize
    BY <2>2, <2>3, SizeAfter, TestSizes
  <2> QED BY <2>1, <2>4, SizesAreNats DEF TestsFitTheMarks
<1>2. ASSUME CleanBlock(Main) PROVE FALSE
  <2>1. pc[Main] = "cleanTest" /\ step = TestPrint2 + 2 /\ count <= LOW_WATER_MARK
    BY <1>2, ThreadsAreDistinct DEF CleanBlock, MustWait, CheckWaterMark
  <2>2. refs = After(step - 1) /\ step - 1 = TestPrint2 + 1
    BY <2>1, TestSizes DEF TestState, Made, Before
  <2>3. TestPrint2 + 1 \in Nat /\ TestPrint2 + 1 < TestPrint2 + 2 /\ ~(TestPrint2 + 1 <= TestSize)
    BY TestSizes
  <2>4. count = TestSize
    BY <2>2, <2>3, SizeAfter
  <2> QED BY <2>1, <2>4, SizesAreNats DEF TestsFitTheMarks
<1> QED BY <1>1, <1>2

LEMMA MainGoesOn ==
  ASSUME IndInv, IndInv', TestInv, TestsFitTheMarks, ~MainWaits, [Next]_vars
  PROVE  ~MainWaits'
<1>1. CASE ~InTest
  <2>1. ~InTest'
    BY <1>1, TestsEnd
  <2> QED
    BY <2>1 DEF MainWaits, InTest, IndInv, MainOrder, RefPlaces, CleanPlaces
<1>2. CASE UNCHANGED vars
  BY <1>2 DEF vars, MainWaits
<1>3. CASE InTest /\ Next
  <2>1. Main \in Threads /\ pc \in [Threads -> Places] /\ Types
    BY <1>3, MainIsAlone DEF IndInv
  <2>2. ~RefBlock(Main) /\ ~CleanBlock(Main)
    BY <1>3, RoomInTest DEF TestInv, TestState
  <2>3. CASE Reference(Main)
    <3>1. CASE RefSignal(Main)
      <4>1. pc'[Main] = "refUnlock"
        BY <2>1, <3>1, SignalMoves DEF RefSignal
      <4> QED BY <4>1 DEF MainWaits
    <3>2. CASE ~RefSignal(Main)
      BY <2>1, <2>2, <2>3, <3>2 DEF MainWaits, Reference, RefLock, RefRelock, RefEnter, RefHit,
         RefInsert, RefNoMemory, RefUnlock, Acquire, Release, Goto, AfterReference
    <3> QED BY <3>1, <3>2
  <2>4. CASE Clean(Main)
    <3>1. CASE CleanSignal(Main)
      <4>1. pc'[Main] = "cleanUnlock"
        BY <2>1, <3>1, SignalMoves DEF CleanSignal
      <4> QED BY <4>1 DEF MainWaits
    <3>2. CASE ~CleanSignal(Main)
      BY <2>1, <2>2, <2>4, <3>2 DEF MainWaits, Clean, CleanLock, CleanEmpty, CleanRelock,
         CleanEnter, CleanBody, CleanUnlock, Acquire, Release, Goto
    <3> QED BY <3>1, <3>2
  <2>5. CASE Spurious(Main) \/ SelfTests \/ PrintLock \/ PrintList
    BY <2>1, <2>5 DEF MainWaits, Spurious, SelfTests, PrintLock, PrintList, Acquire, Release, Goto
  <2> QED BY <1>3, <2>3, <2>4, <2>5, TestMoves
<1> QED BY <1>1, <1>2, <1>3

\* Each print of self_tests shows the list that main.c expects there: all
\* keys once, the even ones twice, only the even ones, nothing; and where the
\* tests fit between the water marks main, which is alone, never waits.
THEOREM SelfTestsPrintRight == Spec => []SelfTestOutcome
<1>1. Init => TestInv
  <2> SUFFICES ASSUME Init PROVE TestInv
    OBVIOUS
  <2>1. pc[Main] = "test" /\ step = 0 /\ refs = [k \in Keys |-> 0]
    BY DEF Init, Threads
  <2>2. Made = 0
    BY <2>1 DEF Made, Before
  <2> QED
    BY <2>1, <2>2, NothingMade DEF TestInv, RefPlaces, CleanPlaces, PrintPlaces
<1>2. IndInv /\ TestInv /\ [Next]_vars => TestInv'
  BY TestStep
<1>3. IndInv /\ TestInv => PrintsAreRight
  <2> SUFFICES ASSUME IndInv, TestInv, pc[Main] = "printBody", ~finished
               PROVE  refs = [k \in Keys |->
                 IF k >= TestSize \/ step = TestPrint2 + 5 THEN 0
                 ELSE IF step = TestSize + 1 THEN 1
                 ELSE IF step = TestPrint2 + 1 THEN (IF k % 2 = 0 THEN 2 ELSE 1)
                 ELSE (IF k % 2 = 0 THEN 1 ELSE 0)]
    BY DEF PrintsAreRight
  <2>1. refs = After(step) /\ step - 1 \in TestPrints /\ (step - 1) + 1 = step
    BY DEF TestInv, InTest, PrintPlaces, Made, Before, IndInv, Types
  <2>2. PICK s \in TestPrints : s + 1 = step
    BY <2>1
  <2>3. After(s + 1) = [k \in Keys |->
          IF k >= TestSize \/ s + 1 = TestPrint2 + 5 THEN 0
          ELSE IF s + 1 = TestSize + 1 THEN 1
          ELSE IF s + 1 = TestPrint2 + 1 THEN (IF k % 2 = 0 THEN 2 ELSE 1)
          ELSE (IF k % 2 = 0 THEN 1 ELSE 0)]
    BY PrintMade
  <2> QED BY <2>1, <2>2, <2>3
<1> DEFINE GoesOn == TestsFitTheMarks => ~MainWaits
<1>4. Init => GoesOn
  BY DEF Init, MainWaits, Threads
<1>5. IndInv /\ IndInv' /\ TestInv /\ GoesOn /\ [Next]_vars => GoesOn'
  <2> SUFFICES ASSUME IndInv, IndInv', TestInv, GoesOn, [Next]_vars, TestsFitTheMarks'
               PROVE  ~MainWaits'
    OBVIOUS
  <2>1. TestsFitTheMarks
    BY DEF TestsFitTheMarks
  <2> QED BY <2>1, MainGoesOn
<1>6. PrintsAreRight /\ GoesOn => SelfTestOutcome
  BY DEF SelfTestOutcome, MainWaits
<1> HIDE DEF GoesOn
<1> QED BY <1>1, <1>2, <1>3, <1>4, <1>5, <1>6, SpecIndInv, PTL DEF Spec

=============================================================================
