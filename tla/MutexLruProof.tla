--------------------------- MODULE MutexLruProof ----------------------------
(***************************************************************************)
(* Proofs about MutexLru, for any number of clients, any water marks in    *)
(* order and any number of keys: mutual exclusion across the waits, the    *)
(* exact count, the water marks, no lost wakeup and no stall.              *)
(***************************************************************************)
EXTENDS MutexLru, FiniteSetTheorems, TLAPS

\* Everything before the threads exist, and what main has done by when.
MainOrder ==
  /\ ~finished => ~done
  /\ pc[Main] \in {"test", "create", "shutLock", "shutBody"} \cup RefPlaces \cup CleanPlaces => ~done
  /\ pc[Main] \in {"test", "create"} \cup RefPlaces \cup CleanPlaces => ~finished
  /\ pc[Main] \in {"shutLock", "shutBody", "shutUnlock", "join"} => finished
  /\ ~finished /\ pc[Main] \notin {"create", "failed"} =>
       \A t \in Threads \ {Main} : pc[t] = "none"

Others == <<refs, count, done, finished, key, tick, step, printed>>

\* The typing facts that do not depend on how count relates to the list.
Types ==
  /\ mutex \in Threads \cup {Nobody}
  /\ refs \in [Keys -> Nat]
  /\ count \in Int
  /\ done \in BOOLEAN /\ finished \in BOOLEAN
  /\ pc \in [Threads -> Places]
  /\ \A t \in Threads : pc[t] \in PlacesOf(t)
  /\ key \in [Threads -> Keys]
  /\ tick \in [Clients -> 0 .. CLEAN_RATIO - 1]
  /\ step \in 0 .. TestEnd
  /\ printed \in Nat

LEMMA KeySets ==
  ASSUME NEW S, S \subseteq Keys
  PROVE  IsFiniteSet(S) /\ Cardinality(S) \in 0 .. MAX_KEY
<1>1. 0 \in Int /\ MAX_KEY - 1 \in Int
  BY SizesAreNats
<1>2. IsFiniteSet(Keys) /\ Cardinality(Keys) = MAX_KEY
  BY <1>1, FS_Interval, SizesAreNats DEF Keys
<1>3. IsFiniteSet(S) /\ Cardinality(S) <= Cardinality(Keys)
  BY <1>2, FS_Subset
<1> QED  BY <1>2, <1>3, FS_CardinalityType, SizesAreNats

LEMMA TestKeyInKeys ==
  ASSUME step \in 0 .. TestEnd, step \notin TestPrints \cup TestCleans \cup {TestEnd}
  PROVE  TestKey(step) \in Keys /\ step + 1 \in 0 .. TestEnd
<1>1. step \in 0 .. TestPrint2 - 1 /\ step # TestSize
  BY SizesAreNats DEF TestEnd, TestPrints, TestCleans, TestPrint2, Evens
<1>2. 2 * Evens <= TestSize + 1 /\ Evens \in Nat
  BY SizesAreNats DEF Evens
<1> QED
  BY <1>1, <1>2, SizesAreNats, TestsFitTheKeys DEF TestKey, Keys, TestEnd, TestPrint2

\* A thread that moves, with at most one other thread woken, stays within
\* the places of its kind.
LEMMA MovePlaces ==
  ASSUME Types, NEW t \in Threads, NEW place \in PlacesOf(t), Goto(t, place)
  PROVE  pc' \in [Threads -> Places] /\ \A u \in Threads : pc'[u] \in PlacesOf(u)
<1>1. place \in Places
  BY DEF PlacesOf, Places
<1> QED  BY <1>1 DEF Types, Goto

LEMMA SignalPlaces ==
  ASSUME Types, NEW t \in Threads, NEW place \in PlacesOf(t), NEW waiting, NEW woken,
         \A u \in Threads : waiting \in PlacesOf(u) => woken \in PlacesOf(u),
         Signal(t, waiting, woken, place)
  PROVE  pc' \in [Threads -> Places] /\ \A u \in Threads : pc'[u] \in PlacesOf(u)
<1>1. \A u \in Threads : PlacesOf(u) \subseteq Places
  BY DEF PlacesOf, Places
<1>2. CASE Goto(t, place)
  BY <1>2, MovePlaces
<1>3. CASE \E w \in BlockedAt(waiting) : pc' = [pc EXCEPT ![w] = woken, ![t] = place]
  BY <1>1, <1>3 DEF Types, BlockedAt
<1> QED  BY <1>2, <1>3 DEF Signal

LEMMA ReferenceTypes ==
  ASSUME Types, NEW t \in Clients \cup {Main}, Reference(t)
  PROVE  Types'
<1>1. t \in Threads /\ RefPlaces \subseteq PlacesOf(t)
      /\ AfterReference(t) \in PlacesOf(t) /\ (t = Main => "died" \in PlacesOf(t))
  BY ThreadsAreDistinct DEF Threads, PlacesOf, AfterReference, CleanPlaces, MainPlaces, EndPlaces
<1>2. pc' \in [Threads -> Places] /\ \A u \in Threads : pc'[u] \in PlacesOf(u)
  <2>1. CASE RefSignal(t)
    BY <1>1, <2>1, SignalPlaces DEF RefSignal, PlacesOf, CleanPlaces, RefPlaces, PrintPlaces, MainPlaces, EndPlaces
  <2>2. CASE \E place \in PlacesOf(t) : Goto(t, place)
    BY <1>1, <2>2, MovePlaces
  <2>3. \/ RefSignal(t)
        \/ \E place \in PlacesOf(t) : Goto(t, place)
    BY <1>1 DEF Reference, RefLock, RefBlock, RefRelock, RefEnter, RefHit, RefInsert,
       RefNoMemory, RefUnlock, Acquire, Release, RefPlaces
  <2> QED  BY <2>1, <2>2, <2>3
<1>3. mutex' \in Threads \cup {Nobody}
  BY <1>1 DEF Types, Reference, RefLock, RefBlock, RefRelock, RefEnter, RefHit, RefInsert,
     RefNoMemory, RefSignal, RefUnlock, Acquire, Release
<1>4. refs' \in [Keys -> Nat] /\ count' \in Int
  BY <1>1 DEF Types, Reference, RefLock, RefBlock, RefRelock, RefEnter, RefHit, RefInsert,
     RefNoMemory, RefSignal, RefUnlock
<1>5. UNCHANGED <<done, finished, key, tick, step, printed>>
  BY DEF Reference, RefLock, RefBlock, RefRelock, RefEnter, RefHit, RefInsert,
     RefNoMemory, RefSignal, RefUnlock
<1> QED  BY <1>2, <1>3, <1>4, <1>5 DEF Types

LEMMA CleanTypes ==
  ASSUME Types, NEW t \in Threads, Clean(t)
  PROVE  Types'
<1>1. /\ CleanPlaces \ {"cleanWait", "cleanWake"} \subseteq PlacesOf(t)
      /\ t \in {Cleaner, Main} => CleanPlaces \subseteq PlacesOf(t)
      /\ (IF t = Main THEN "test" ELSE "loop") \in PlacesOf(t)
      /\ t \notin {Cleaner, Main} => ~CleanBlock(t) /\ ~CleanRelock(t)
  BY DEF PlacesOf, MainPlaces, CleanPlaces, RefPlaces, CleanBlock, CleanRelock, MustWait,
     CheckWaterMark, Types
<1>2. pc' \in [Threads -> Places] /\ \A u \in Threads : pc'[u] \in PlacesOf(u)
  <2>1. CASE CleanSignal(t)
    BY <1>1, <2>1, SignalPlaces DEF CleanSignal, PlacesOf, CleanPlaces, RefPlaces, PrintPlaces, MainPlaces, EndPlaces
  <2>2. CASE \E place \in PlacesOf(t) : Goto(t, place)
    BY <2>2, MovePlaces
  <2>3. \/ CleanSignal(t)
        \/ \E place \in PlacesOf(t) : Goto(t, place)
    BY <1>1 DEF Clean, CleanLock, CleanEmpty, CleanBlock, CleanRelock, CleanEnter, CleanBody,
       CleanUnlock, Acquire, Release, CleanPlaces
  <2> QED  BY <2>1, <2>2, <2>3
<1>3. mutex' \in Threads \cup {Nobody}
  BY DEF Types, Clean, CleanLock, CleanEmpty, CleanBlock, CleanRelock, CleanEnter, CleanBody,
     CleanSignal, CleanUnlock, Acquire, Release
<1>4. refs' \in [Keys -> Nat] /\ count' \in Int
  <2>1. CASE CleanBody(t)
    <3>1. Cardinality({k \in Keys : refs[k] = 1}) \in Nat
      BY KeySets
    <3> QED  BY <2>1, <3>1 DEF CleanBody, Types
  <2>2. CASE UNCHANGED <<refs, count>>
    BY <2>2 DEF Types
  <2> QED
    BY <2>1, <2>2 DEF Clean, CleanLock, CleanEmpty, CleanBlock, CleanRelock, CleanEnter,
       CleanSignal, CleanUnlock
<1>5. UNCHANGED <<done, finished, key, tick, step, printed>>
  BY DEF Clean, CleanLock, CleanEmpty, CleanBlock, CleanRelock, CleanEnter, CleanBody,
     CleanSignal, CleanUnlock
<1> QED  BY <1>2, <1>3, <1>4, <1>5 DEF Types

LEMMA LoopTypes ==
  ASSUME Types, CleanerLoop \/ (\E c \in Clients : ClientLoop(c)) \/ \E t \in Threads : Spurious(t)
  PROVE  Types'
<1>1. CASE CleanerLoop
  <2>1. Cleaner \in Threads /\ {"exited", "cleanLock"} \subseteq PlacesOf(Cleaner)
    BY ThreadsAreDistinct DEF Threads, PlacesOf, CleanPlaces
  <2>2. pc' \in [Threads -> Places] /\ \A u \in Threads : pc'[u] \in PlacesOf(u)
    BY <1>1, <2>1, MovePlaces DEF CleanerLoop
  <2> QED  BY <1>1, <2>2 DEF CleanerLoop, Types
<1>2. ASSUME NEW c \in Clients, ClientLoop(c) PROVE Types'
  <2>1. c \in Threads /\ {"exited", "refLock"} \subseteq PlacesOf(c)
    BY ThreadsAreDistinct DEF Threads, PlacesOf, RefPlaces
  <2>2. pc' \in [Threads -> Places] /\ \A u \in Threads : pc'[u] \in PlacesOf(u)
    BY <1>2, <2>1, MovePlaces DEF ClientLoop
  <2>3. key' \in [Threads -> Keys]
    BY <1>2 DEF ClientLoop, Types
  <2>4. (tick[c] + 1) % CLEAN_RATIO \in 0 .. CLEAN_RATIO - 1
    BY SizesAreNats DEF Types
  <2>5. tick' \in [Clients -> 0 .. CLEAN_RATIO - 1]
    BY <1>2, <2>4 DEF ClientLoop, Types
  <2> QED  BY <1>2, <2>2, <2>3, <2>5 DEF ClientLoop, Types
<1>3. ASSUME NEW t \in Threads, Spurious(t) PROVE Types'
  <2>1. \/ "refWake" \in PlacesOf(t) /\ Goto(t, "refWake")
        \/ "cleanWake" \in PlacesOf(t) /\ Goto(t, "cleanWake")
    BY <1>3 DEF Spurious, Types, PlacesOf, RefPlaces, CleanPlaces, PrintPlaces, MainPlaces, EndPlaces
  <2>2. pc' \in [Threads -> Places] /\ \A u \in Threads : pc'[u] \in PlacesOf(u)
    BY <2>1, MovePlaces
  <2> QED  BY <1>3, <2>2 DEF Spurious, Types
<1> QED  BY <1>1, <1>2, <1>3

LEMMA MainTypes ==
  ASSUME Types,
         \/ SelfTests \/ CreateThread \/ Finish \/ ShutdownLock \/ ShutdownBody
         \/ ShutdownUnlock \/ Join \/ PrintLock \/ PrintList
  PROVE  Types'
<1>1. Main \in Threads /\ Cleaner \in Threads
      /\ RefPlaces \cup CleanPlaces \cup PrintPlaces \cup MainPlaces \cup EndPlaces = PlacesOf(Main)
      /\ \A u \in Threads \ {Main} : {"loop"} \subseteq PlacesOf(u)
  BY DEF Threads, PlacesOf
<1>2. pc' \in [Threads -> Places] /\ \A u \in Threads : pc'[u] \in PlacesOf(u)
  <2>1. CASE ShutdownBody
    <3>1. \A u \in Threads : /\ "refWait" \in PlacesOf(u) => "refWake" \in PlacesOf(u)
                             /\ "cleanWait" \in PlacesOf(u) => "cleanWake" \in PlacesOf(u)
      BY DEF PlacesOf, RefPlaces, CleanPlaces, PrintPlaces, MainPlaces, EndPlaces
    <3>2. "shutUnlock" \in PlacesOf(Main)
      BY <1>1 DEF MainPlaces
    <3>3. \A u \in Threads : PlacesOf(u) \subseteq Places
      BY DEF PlacesOf, Places
    <3>4. \A u \in Threads : pc'[u] \in PlacesOf(u)
      BY <2>1, <3>1, <3>2 DEF ShutdownBody, Types
    <3> QED  BY <2>1, <3>3, <3>4 DEF ShutdownBody
  <2>2. CASE \E place \in PlacesOf(Main) : Goto(Main, place)
    BY <1>1, <2>2, MovePlaces
  <2>3. CASE \E u \in Threads \ {Main} : Goto(u, "loop")
    BY <1>1, <2>3, MovePlaces
  <2> QED
    BY <1>1, <2>1, <2>2, <2>3, ThreadsAreDistinct DEF SelfTests, CreateThread, Finish, ShutdownLock,
       ShutdownUnlock, Join, PrintLock, PrintList, Acquire, Release, PrintPlaces, MainPlaces,
       EndPlaces, RefPlaces, CleanPlaces, Threads
<1>3. mutex' \in Threads \cup {Nobody}
  BY <1>1 DEF Types, SelfTests, CreateThread, Finish, ShutdownLock, ShutdownBody,
     ShutdownUnlock, Join, PrintLock, PrintList, Acquire, Release
<1>4. key' \in [Threads -> Keys] /\ step' \in 0 .. TestEnd
  <2>1. CASE SelfTests
    <3>1. CASE step \in TestPrints \cup TestCleans
      <4>1. step # TestEnd
        BY <3>1, SizesAreNats DEF TestEnd, TestPrints, TestCleans, TestPrint2, Evens
      <4>2. step' = step + 1 /\ key' = key
        BY <2>1, <3>1, <4>1 DEF SelfTests
      <4>3. TestEnd \in Nat
        BY SizesAreNats DEF TestEnd, TestPrint2, Evens
      <4> QED  BY <4>1, <4>2, <4>3 DEF Types
    <3>2. CASE step \notin TestPrints \cup TestCleans \cup {TestEnd}
      <4>1. step' = step + 1 /\ key' = [key EXCEPT ![Main] = TestKey(step)]
        BY <2>1, <3>2 DEF SelfTests
      <4> QED  BY <3>2, <4>1, TestKeyInKeys DEF Types
    <3>3. CASE step = TestEnd /\ step \notin TestPrints \cup TestCleans
      BY <2>1, <3>3 DEF SelfTests, Types
    <3> QED  BY <3>1, <3>2, <3>3
  <2>2. CASE UNCHANGED <<key, step>>
    BY <2>2 DEF Types
  <2> QED
    BY <2>1, <2>2 DEF CreateThread, Finish, ShutdownLock, ShutdownBody,
       ShutdownUnlock, Join, PrintLock, PrintList
<1>5. UNCHANGED <<refs, count, tick>> /\ done' \in BOOLEAN /\ finished' \in BOOLEAN
  BY DEF Types, SelfTests, CreateThread, Finish, ShutdownLock, ShutdownBody,
     ShutdownUnlock, Join, PrintLock, PrintList
<1>6. printed' = printed \/ printed' = printed + 1
  BY DEF SelfTests, CreateThread, Finish, ShutdownLock, ShutdownBody,
     ShutdownUnlock, Join, PrintLock, PrintList
<1> QED  BY <1>2, <1>3, <1>4, <1>5, <1>6 DEF Types

LEMMA NextCases ==
  ASSUME Next
  PROVE  \/ \E t \in Clients \cup {Main} : Reference(t)
         \/ \E t \in Threads : Clean(t)
         \/ CleanerLoop \/ (\E c \in Clients : ClientLoop(c)) \/ \E t \in Threads : Spurious(t)
         \/ SelfTests \/ CreateThread \/ Finish \/ ShutdownLock \/ ShutdownBody
         \/ ShutdownUnlock \/ Join \/ PrintLock \/ PrintList
BY DEF Next, ClientStep, CleanerStep, MainStep, SpuriousWakeup, Threads

LEMMA TypesStep ==
  ASSUME Types, [Next]_vars
  PROVE  Types'
<1>1. CASE UNCHANGED vars
  BY <1>1 DEF Types, vars
<1>2. CASE Next
  BY <1>2, NextCases, ReferenceTypes, CleanTypes, LoopTypes, MainTypes
<1> QED  BY <1>1, <1>2

-----------------------------------------------------------------------------
(***************************************************************************)
(* The inductive invariant                                                 *)
(***************************************************************************)

IndInv ==
  Types /\ MutexDiscipline /\ CountAccurate /\ WaterMarks /\ MainOrder /\ NoLostWakeup

\* Apart from waking, a step moves one thread only.
Woken(u) ==
  \/ pc[u] = "refWait" /\ pc'[u] = "refWake"
  \/ pc[u] = "cleanWait" /\ pc'[u] = "cleanWake"

Moves(t) == \A u \in Threads \ {t} : pc'[u] = pc[u] \/ Woken(u)

LEMMA SignalMoves ==
  ASSUME Types, NEW t \in Threads, NEW place,
         \/ Signal(t, "cleanWait", "cleanWake", place)
         \/ Signal(t, "refWait", "refWake", place)
  PROVE  Moves(t) /\ (pc[t] \notin {"refWait", "cleanWait"} => pc'[t] = place)
BY DEF Types, Signal, Goto, BlockedAt, Moves, Woken

LEMMA GotoMoves ==
  ASSUME Types, NEW t \in Threads, NEW place, Goto(t, place)
  PROVE  Moves(t) /\ pc'[t] = place
BY DEF Types, Goto, Moves

LEMMA DisciplineStep ==
  ASSUME Types, MutexDiscipline, [Next]_vars
  PROVE  MutexDiscipline'
<1>a. /\ Main \in Threads /\ Cleaner \in Threads /\ Clients \subseteq Threads /\ Nobody \notin Threads
  BY ThreadsAreDistinct DEF Threads
\* What has to be shown of the thread that moves.
<1>b. ASSUME NEW t \in Threads, Moves(t), pc'[t] \in LockedPlaces <=> mutex' = t,
             mutex' = mutex \/ {mutex, mutex'} \subseteq {t, Nobody}
      PROVE  MutexDiscipline'
  <2>1. ASSUME NEW u \in Threads, u # t
        PROVE  pc'[u] \in LockedPlaces <=> mutex' = u
    <3>1. pc'[u] \in LockedPlaces <=> pc[u] \in LockedPlaces
      BY <1>b, <2>1 DEF Moves, Woken, LockedPlaces
    <3> QED  BY <1>a, <1>b, <2>1, <3>1 DEF MutexDiscipline
  <2> QED  BY <1>b, <2>1 DEF MutexDiscipline
<1>1. ASSUME NEW t \in Clients \cup {Main}, Reference(t) PROVE MutexDiscipline'
  <2>1. t \in Threads /\ AfterReference(t) \notin LockedPlaces /\ "died" \notin LockedPlaces
    BY <1>a DEF AfterReference, LockedPlaces
  <2>2. CASE RefSignal(t)
    BY <1>b, <2>1, <2>2, SignalMoves DEF RefSignal, MutexDiscipline, LockedPlaces
  <2>3. CASE RefLock(t) \/ RefRelock(t)
    BY <1>b, <2>1, <2>3, GotoMoves DEF RefLock, RefRelock, Acquire, LockedPlaces
  <2>4. CASE RefBlock(t)
    BY <1>a, <1>b, <2>1, <2>4, GotoMoves DEF RefBlock, Release, MutexDiscipline, LockedPlaces
  <2>5. CASE RefUnlock(t)
    <3>1. pc[t] \in LockedPlaces /\ mutex = t /\ mutex' = Nobody
      BY <2>1, <2>5 DEF RefUnlock, Release, MutexDiscipline, LockedPlaces
    <3>2. Moves(t) /\ pc'[t] \notin LockedPlaces
      BY <2>1, <2>5, GotoMoves DEF RefUnlock, Release
    <3> QED  BY <1>a, <1>b, <2>1, <3>1, <3>2
  <2>6. CASE RefEnter(t) \/ RefHit(t) \/ RefInsert(t) \/ RefNoMemory(t)
    BY <1>b, <2>1, <2>6, GotoMoves DEF RefEnter, RefHit, RefInsert, RefNoMemory, MutexDiscipline, LockedPlaces
  <2> QED  BY <1>1, <2>2, <2>3, <2>4, <2>5, <2>6 DEF Reference
<1>2. ASSUME NEW t \in Threads, Clean(t) PROVE MutexDiscipline'
  <2>2. CASE CleanSignal(t)
    BY <1>b, <2>2, SignalMoves DEF CleanSignal, MutexDiscipline, LockedPlaces
  <2>3. CASE CleanLock(t) \/ CleanRelock(t)
    BY <1>b, <2>3, GotoMoves DEF CleanLock, CleanRelock, Acquire, LockedPlaces
  <2>4. CASE CleanBlock(t) \/ CleanUnlock(t)
    <3>1. pc[t] \in LockedPlaces /\ mutex = t /\ mutex' = Nobody
      BY <2>4 DEF CleanBlock, CleanUnlock, Release, MutexDiscipline, LockedPlaces
    <3>2. Moves(t) /\ pc'[t] \notin LockedPlaces
      BY <2>4, GotoMoves DEF CleanBlock, CleanUnlock, Release, LockedPlaces
    <3> QED  BY <1>a, <1>b, <3>1, <3>2
  <2>5. CASE CleanEmpty(t) \/ CleanEnter(t) \/ CleanBody(t)
    BY <1>b, <2>5, GotoMoves DEF CleanEmpty, CleanEnter, CleanBody, MutexDiscipline, LockedPlaces
  <2> QED  BY <1>2, <2>2, <2>3, <2>4, <2>5 DEF Clean
<1>3. CASE CleanerLoop
  BY <1>3, <1>a, <1>b, GotoMoves DEF CleanerLoop, MutexDiscipline, LockedPlaces
<1>4. ASSUME NEW c \in Clients, ClientLoop(c) PROVE MutexDiscipline'
  BY <1>4, <1>a, <1>b, GotoMoves DEF ClientLoop, MutexDiscipline, LockedPlaces
<1>5. ASSUME NEW t \in Threads, Spurious(t) PROVE MutexDiscipline'
  BY <1>5, <1>b, GotoMoves DEF Spurious, MutexDiscipline, LockedPlaces
<1>6. CASE SelfTests
  BY <1>6, <1>a, <1>b, GotoMoves DEF SelfTests, MutexDiscipline, LockedPlaces
<1>7. CASE CreateThread
  BY <1>7, <1>a, <1>b, GotoMoves DEF CreateThread, MutexDiscipline, LockedPlaces
<1>8. CASE Finish \/ Join
  BY <1>8, <1>a, <1>b, GotoMoves DEF Finish, Join, MutexDiscipline, LockedPlaces
<1>9. CASE ShutdownLock \/ PrintLock
  BY <1>9, <1>a, <1>b, GotoMoves DEF ShutdownLock, PrintLock, Acquire, LockedPlaces
<1>10. CASE ShutdownUnlock \/ PrintList
  BY <1>10, <1>a, <1>b, GotoMoves DEF ShutdownUnlock, PrintList, Release, MutexDiscipline, LockedPlaces
<1>11. CASE ShutdownBody
  <2>1. Moves(Main) /\ pc'[Main] = "shutUnlock" /\ pc[Main] = "shutBody" /\ mutex' = mutex
    BY <1>11, <1>a DEF ShutdownBody, Moves, Woken
  <2> QED  BY <1>a, <1>b, <2>1 DEF MutexDiscipline, LockedPlaces
<1>12. CASE UNCHANGED vars
  BY <1>12 DEF MutexDiscipline, vars
<1> QED
  BY <1>1, <1>2, <1>3, <1>4, <1>5, <1>6, <1>7, <1>8, <1>9, <1>10, <1>11, <1>12, NextCases

\* Which steps touch the list.
LEMMA ListChanges ==
  ASSUME [Next]_vars
  PROVE  \/ UNCHANGED <<refs, count>>
         \/ \E t \in Clients \cup {Main} : RefHit(t) \/ RefInsert(t)
         \/ \E t \in Threads : CleanBody(t)
<1>1. CASE UNCHANGED vars
  BY <1>1 DEF vars
<1>2. ASSUME NEW t \in Clients \cup {Main}, Reference(t)
      PROVE  UNCHANGED <<refs, count>> \/ RefHit(t) \/ RefInsert(t)
  BY <1>2 DEF Reference, RefLock, RefBlock, RefRelock, RefEnter, RefNoMemory, RefSignal, RefUnlock
<1>3. ASSUME NEW t \in Threads, Clean(t)
      PROVE  UNCHANGED <<refs, count>> \/ CleanBody(t)
  BY <1>3 DEF Clean, CleanLock, CleanEmpty, CleanBlock, CleanRelock, CleanEnter, CleanSignal, CleanUnlock
<1>4. CASE \/ CleanerLoop \/ (\E c \in Clients : ClientLoop(c)) \/ \E t \in Threads : Spurious(t)
           \/ SelfTests \/ CreateThread \/ Finish \/ ShutdownLock \/ ShutdownBody
           \/ ShutdownUnlock \/ Join \/ PrintLock \/ PrintList
  BY <1>4 DEF CleanerLoop, ClientLoop, Spurious, SelfTests, CreateThread, Finish, ShutdownLock,
     ShutdownBody, ShutdownUnlock, Join, PrintLock, PrintList
<1> QED  BY <1>1, <1>2, <1>3, <1>4, NextCases

\* A pass frees exactly the nodes whose count was one.
LEMMA PassFrees ==
  ASSUME Types, CountAccurate, NEW t \in Threads, CleanBody(t)
  PROVE  CountAccurate' /\ count' <= count
<1> DEFINE Ones == {k \in Keys : refs[k] = 1}
<1>1. Listed' = Listed \ Ones /\ Ones \subseteq Listed
  BY DEF Types, CleanBody, Listed
<1>2. /\ IsFiniteSet(Listed) /\ IsFiniteSet(Ones)
      /\ Cardinality(Listed) \in Nat /\ Cardinality(Ones) \in Nat
  BY KeySets DEF Listed
<1>3. Listed \cap Ones = Ones
  BY <1>1
<1>4. Cardinality(Listed \ Ones) = Cardinality(Listed) - Cardinality(Listed \cap Ones)
  BY <1>2, FS_Difference
<1>5. count' = count - Cardinality(Ones)
  BY DEF CleanBody
<1>6. Cardinality(Listed') = Cardinality(Listed) - Cardinality(Ones)
  BY <1>1, <1>3, <1>4
<1> HIDE DEF Ones
<1> QED  BY <1>2, <1>5, <1>6 DEF CountAccurate

LEMMA CountStep ==
  ASSUME Types, CountAccurate, [Next]_vars
  PROVE  CountAccurate'
<1>1. CASE UNCHANGED <<refs, count>>
  BY <1>1 DEF CountAccurate, Listed
<1>2. ASSUME NEW t \in Clients \cup {Main}, RefHit(t) PROVE CountAccurate'
  <2>1. Listed' = Listed
    BY <1>2 DEF RefHit, Listed, Types, Threads
  <2> QED  BY <1>2, <2>1 DEF RefHit, CountAccurate
<1>3. ASSUME NEW t \in Clients \cup {Main}, RefInsert(t) PROVE CountAccurate'
  <2>1. Listed' = Listed \cup {key[t]} /\ key[t] \notin Listed
    BY <1>3 DEF RefInsert, Listed, Types, Threads
  <2>2. IsFiniteSet(Listed)
    BY KeySets DEF Listed
  <2>3. Cardinality(Listed') = Cardinality(Listed) + 1
    BY <2>1, <2>2, FS_AddElement
  <2> QED  BY <1>3, <2>3 DEF RefInsert, CountAccurate
<1> QED  BY <1>1, <1>2, <1>3, PassFrees, ListChanges

LEMMA MainOrderStep ==
  ASSUME Types, MainOrder, [Next]_vars
  PROVE  MainOrder'
<1>a. Main \in Threads /\ Cleaner \in Threads \ {Main} /\ Clients \subseteq Threads \ {Main}
  BY ThreadsAreDistinct DEF Threads
\* Steps of the other threads: they exist, so main is past its self tests.
<1>b. ASSUME NEW t \in Threads \ {Main}, Moves(t), pc[t] # "none", pc'[t] # "none",
             UNCHANGED <<done, finished>>, Running
      PROVE  MainOrder'
  <2>1. finished \/ pc[Main] = "create"
    BY <1>b DEF MainOrder, Running, EndPlaces
  <2>2. pc'[Main] = pc[Main] \/ Woken(Main)
    BY <1>a, <1>b DEF Moves
  <2> QED  BY <1>a, <1>b, <2>1, <2>2 DEF MainOrder, Woken, RefPlaces, CleanPlaces
<1>c. ASSUME Moves(Main), UNCHANGED <<done, finished>>, pc[Main] \in RefPlaces \cup CleanPlaces,
             pc'[Main] \in RefPlaces \cup CleanPlaces \cup {"test", "died"}
      PROVE  MainOrder'
  <2>1. ~finished /\ ~done /\ \A u \in Threads \ {Main} : pc[u] = "none"
    BY <1>c DEF MainOrder, RefPlaces, CleanPlaces
  <2>2. \A u \in Threads \ {Main} : pc'[u] = "none"
    BY <1>c, <2>1 DEF Moves, Woken
  <2> QED  BY <1>c, <2>1, <2>2 DEF MainOrder, RefPlaces, CleanPlaces
<1>1. ASSUME NEW t \in Threads, Reference(t), t # Main => Running PROVE MainOrder'
  <2>1. Moves(t) /\ pc[t] \in RefPlaces /\ UNCHANGED <<done, finished>>
    BY <1>1, SignalMoves, GotoMoves DEF Reference, RefLock, RefBlock, RefRelock, RefEnter, RefHit,
       RefInsert, RefNoMemory, RefSignal, RefUnlock, Acquire, Release, RefPlaces
  <2>2. pc'[t] \in RefPlaces \cup {AfterReference(t), "died"}
    BY <1>1, SignalMoves, GotoMoves DEF Reference, RefLock, RefBlock, RefRelock, RefEnter, RefHit,
       RefInsert, RefNoMemory, RefSignal, RefUnlock, Acquire, Release, RefPlaces
  <2> QED  BY <1>1, <1>b, <1>c, <2>1, <2>2 DEF RefPlaces, AfterReference
<1>2. ASSUME NEW t \in Threads, Clean(t), t # Main => Running PROVE MainOrder'
  <2>1. Moves(t) /\ pc[t] \in CleanPlaces /\ UNCHANGED <<done, finished>>
    BY <1>2, SignalMoves, GotoMoves DEF Clean, CleanLock, CleanEmpty, CleanBlock, CleanRelock,
       CleanEnter, CleanBody, CleanSignal, CleanUnlock, Acquire, Release, CleanPlaces
  <2>2. pc'[t] \in CleanPlaces \cup {IF t = Main THEN "test" ELSE "loop"}
    BY <1>2, SignalMoves, GotoMoves DEF Clean, CleanLock, CleanEmpty, CleanBlock, CleanRelock,
       CleanEnter, CleanBody, CleanSignal, CleanUnlock, Acquire, Release, CleanPlaces
  <2> QED  BY <1>2, <1>b, <1>c, <2>1, <2>2 DEF CleanPlaces
<1>3. CASE CleanerLoop /\ Running
  BY <1>3, <1>a, <1>b, GotoMoves DEF CleanerLoop
<1>4. ASSUME NEW c \in Clients, ClientLoop(c), Running PROVE MainOrder'
  BY <1>4, <1>a, <1>b, GotoMoves DEF ClientLoop
<1>5. ASSUME NEW t \in Threads, Spurious(t), Running PROVE MainOrder'
  <2>1. CASE t = Main
    BY <1>5, <1>a, <1>c, <2>1, GotoMoves DEF Spurious, RefPlaces, CleanPlaces
  <2>2. CASE t # Main
    BY <1>5, <1>b, <2>2, GotoMoves DEF Spurious
  <2> QED  BY <2>1, <2>2
<1>6. CASE SelfTests
  BY <1>6, <1>a, GotoMoves DEF SelfTests, MainOrder, Moves, Woken, RefPlaces, CleanPlaces
<1>7. CASE CreateThread
  <2>1. PICK u \in Threads, place \in {"loop", "failed"} :
           Goto(u, place) /\ (u = Main <=> place = "failed")
    BY <1>7, <1>a DEF CreateThread
  <2>2. pc[Main] = "create" /\ pc'[Main] \in {"create", "failed"} /\ UNCHANGED <<done, finished>>
    BY <1>7, <1>a, <2>1 DEF CreateThread, Goto, Types
  <2> QED  BY <2>2 DEF MainOrder, RefPlaces, CleanPlaces
<1>8. CASE Finish \/ Join \/ ShutdownUnlock \/ PrintLock \/ ShutdownLock
  BY <1>8, <1>a, GotoMoves DEF Finish, Join, ShutdownUnlock, PrintLock, ShutdownLock, Acquire,
     Release, MainOrder, Moves, Woken, RefPlaces, CleanPlaces
<1>9. CASE PrintList
  BY <1>9, <1>a, GotoMoves DEF PrintList, Release, MainOrder, Moves, Woken, RefPlaces, CleanPlaces
<1>10. CASE ShutdownBody
  <2>1. pc'[Main] = "shutUnlock" /\ finished' = finished /\ pc[Main] = "shutBody"
    BY <1>10, <1>a DEF ShutdownBody
  <2> QED  BY <2>1 DEF MainOrder, RefPlaces, CleanPlaces
<1>11. CASE UNCHANGED vars
  BY <1>11 DEF MainOrder, vars
<1> QED
  BY <1>a, <1>1, <1>2, <1>3, <1>4, <1>5, <1>6, <1>7, <1>8, <1>9, <1>10, <1>11
  DEF Next, ClientStep, CleanerStep, MainStep, SpuriousWakeup

\* In every step at most one thread enters a body, and it has just tested
\* the water mark itself.
LEMMA BodyEntered ==
  ASSUME Types, [Next]_vars, NEW u \in Threads
  PROVE  /\ pc'[u] = "refBody" =>
              pc[u] = "refBody" \/ (count' = count /\ count < HIGH_WATER_MARK)
         /\ pc'[u] = "cleanBody" =>
              /\ pc[u] = "cleanBody" \/ (count' = count /\ ~MustWait(u))
              /\ u = Main => step' = step
<1>a. Main \in Threads /\ Cleaner \in Threads /\ Clients \subseteq Threads
  BY DEF Threads
<1>1. ASSUME NEW t \in Threads, Moves(t)
      PROVE  pc'[u] \in {"refBody", "cleanBody"} /\ u # t => pc'[u] = pc[u]
  BY <1>1 DEF Moves, Woken
<1>2. ASSUME NEW t \in Clients \cup {Main}, Reference(t)
      PROVE  /\ Moves(t) /\ step' = step
             /\ pc'[t] # "cleanBody" /\ (pc'[t] = "refBody" => count' = count /\ count < HIGH_WATER_MARK)
  BY <1>2, <1>a, SignalMoves, GotoMoves DEF Reference, RefLock, RefBlock, RefRelock, RefEnter,
     RefHit, RefInsert, RefNoMemory, RefSignal, RefUnlock, Acquire, Release, AfterReference
<1>3. ASSUME NEW t \in Threads, Clean(t)
      PROVE  /\ Moves(t) /\ step' = step
             /\ pc'[t] # "refBody" /\ (pc'[t] = "cleanBody" => count' = count /\ ~MustWait(t))
  BY <1>3, SignalMoves, GotoMoves DEF Clean, CleanLock, CleanEmpty, CleanBlock, CleanRelock,
     CleanEnter, CleanBody, CleanSignal, CleanUnlock, Acquire, Release
<1>4. CASE CleanerLoop \/ (\E c \in Clients : ClientLoop(c)) \/ \E t \in Threads : Spurious(t)
  <2>1. PICK t \in Threads, place \in {"exited", "cleanLock", "refLock", "refWake", "cleanWake"} : Goto(t, place)
    BY <1>4, <1>a DEF CleanerLoop, ClientLoop, Spurious
  <2>2. step' = step
    BY <1>4 DEF CleanerLoop, ClientLoop, Spurious
  <2>3. Moves(t) /\ pc'[t] = place
    BY <2>1, GotoMoves
  <2>4. pc'[u] \in {"refBody", "cleanBody"} => pc'[u] = pc[u]
    BY <1>1, <2>3
  <2> QED  BY <2>2, <2>4
<1>5. CASE \/ SelfTests \/ CreateThread \/ Finish \/ ShutdownLock
           \/ ShutdownUnlock \/ Join \/ PrintLock \/ PrintList
  <2>1. PICK t \in Threads, place \in Places \ {"refBody", "cleanBody"} : Goto(t, place)
    BY <1>5, <1>a DEF SelfTests, CreateThread, Finish, ShutdownLock, ShutdownUnlock, Join, PrintLock,
       PrintList, Acquire, Release, Places, RefPlaces, CleanPlaces, PrintPlaces, MainPlaces, EndPlaces
  <2>2. pc[Main] # "cleanBody"
    BY <1>5 DEF SelfTests, CreateThread, Finish, ShutdownLock, ShutdownUnlock, Join, PrintLock, PrintList
  <2>3. Moves(t) /\ pc'[t] = place
    BY <2>1, GotoMoves
  <2>4. pc'[u] \in {"refBody", "cleanBody"} => pc'[u] = pc[u]
    BY <1>1, <2>3
  <2> QED  BY <2>2, <2>4
<1>6. CASE ShutdownBody
  BY <1>6, <1>a DEF ShutdownBody, Types
<1>7. CASE UNCHANGED vars
  BY <1>7 DEF vars
<1>8. ASSUME NEW t \in Clients \cup {Main}, Reference(t)
      PROVE  /\ pc'[u] = "refBody" => pc[u] = "refBody" \/ (count' = count /\ count < HIGH_WATER_MARK)
             /\ pc'[u] = "cleanBody" => pc[u] = "cleanBody" /\ step' = step
  BY <1>1, <1>2, <1>8, <1>a
<1>9. ASSUME NEW t \in Threads, Clean(t)
      PROVE  /\ pc'[u] = "refBody" => pc[u] = "refBody"
             /\ pc'[u] = "cleanBody" =>
                  /\ pc[u] = "cleanBody" \/ (count' = count /\ ~MustWait(u))
                  /\ step' = step
  BY <1>1, <1>3, <1>9
<1>10. CASE Next
  BY <1>4, <1>5, <1>6, <1>8, <1>9, <1>10, NextCases
<1> QED  BY <1>7, <1>10

LEMMA WaterMarksStep ==
  ASSUME Types, MutexDiscipline, CountAccurate, WaterMarks, MainOrder, [Next]_vars
  PROVE  WaterMarks'
<1>a. Main \in Threads /\ Clients \subseteq Threads
  BY DEF Threads
<1>b. count \in Int /\ count' \in Int
  BY TypesStep DEF Types
\* A thread that changes count holds the mutex, so no other one is in a body.
<1>1. ASSUME NEW t \in Clients \cup {Main}, RefInsert(t)
      PROVE  count' <= HIGH_WATER_MARK
  BY <1>1, <1>a, <1>b, SizesAreNats DEF RefInsert, WaterMarks
<1>2. count' <= HIGH_WATER_MARK
  BY <1>1, PassFrees, ListChanges, <1>b, SizesAreNats DEF WaterMarks, RefHit
<1>3. ASSUME NEW u \in Threads, pc'[u] \in {"refBody", "cleanBody"}, pc[u] = pc'[u]
      PROVE  count' = count
  <2>1. mutex = u /\ mutex' = u
    BY <1>3, DisciplineStep DEF MutexDiscipline, LockedPlaces
  <2>2. ASSUME NEW t \in Clients \cup {Main}, RefInsert(t) PROVE FALSE
    BY <1>3, <1>a, <2>1, <2>2, GotoMoves DEF RefInsert, MutexDiscipline, LockedPlaces
  <2>3. ASSUME NEW t \in Threads, CleanBody(t) PROVE FALSE
    BY <1>3, <1>a, <2>1, <2>3, GotoMoves DEF CleanBody, MutexDiscipline, LockedPlaces
  <2> QED  BY <2>2, <2>3, ListChanges DEF RefHit
<1>4. ASSUME NEW u \in Threads, pc'[u] = "refBody" PROVE count' < HIGH_WATER_MARK
  BY <1>3, <1>4, BodyEntered DEF WaterMarks
<1>5. ASSUME NEW u \in Threads, pc'[u] = "cleanBody", CheckWaterMark(u)'
      PROVE  count' > LOW_WATER_MARK
  <2>1. CheckWaterMark(u)
    BY <1>5, BodyEntered DEF CheckWaterMark
  <2>2. CASE pc[u] = "cleanBody"
    BY <1>3, <1>5, <2>1, <2>2 DEF WaterMarks
  <2>3. CASE count' = count /\ ~MustWait(u)
    BY <1>b, <2>1, <2>3, SizesAreNats DEF MustWait
  <2> QED  BY <1>5, <2>2, <2>3, BodyEntered
<1>6. pc'[Main] = "shutBody" => ~done'
  BY MainOrderStep DEF MainOrder
<1> QED  BY <1>2, <1>4, <1>5, <1>6 DEF WaterMarks

\* How a thread comes to sleep, and how it gets past its duty to signal.
LEMMA SleepAndSignal ==
  ASSUME Types, [Next]_vars, NEW u \in Threads
  PROVE  /\ pc'[u] = "refWait" /\ pc[u] # "refWait" => count' = count /\ count >= HIGH_WATER_MARK
         /\ pc'[u] = "cleanWait" /\ pc[u] # "cleanWait" => count' = count /\ count <= LOW_WATER_MARK
         /\ pc[u] = "refSignal" /\ pc'[u] # "refSignal" =>
              Signal(u, "cleanWait", "cleanWake", "refUnlock")
         /\ pc[u] = "cleanSignal" /\ pc'[u] # "cleanSignal" =>
              Signal(u, "refWait", "refWake", "cleanUnlock")
<1>a. Main \in Threads /\ Cleaner \in Threads /\ Clients \subseteq Threads
  BY DEF Threads
<1> DEFINE Waits == {"refWait", "cleanWait"}
           Duties == {"refSignal", "cleanSignal"}
<1>1. ASSUME NEW t \in Threads, Moves(t), u # t
      PROVE  (pc'[u] \in Waits => pc'[u] = pc[u]) /\ (pc[u] \in Duties => pc'[u] = pc[u])
  BY <1>1 DEF Moves, Woken
<1>2. ASSUME NEW t \in Clients \cup {Main}, Reference(t)
      PROVE  /\ Moves(t)
             /\ pc'[t] = "refWait" => count' = count /\ count >= HIGH_WATER_MARK
             /\ pc'[t] # "cleanWait" /\ pc[t] # "cleanSignal"
             /\ pc[t] = "refSignal" => Signal(t, "cleanWait", "cleanWake", "refUnlock")
  BY <1>2, <1>a, SignalMoves, GotoMoves DEF Reference, RefLock, RefBlock, RefRelock, RefEnter,
     RefHit, RefInsert, RefNoMemory, RefSignal, RefUnlock, Acquire, Release, AfterReference
<1>3. ASSUME NEW t \in Threads, Clean(t)
      PROVE  /\ Moves(t)
             /\ pc'[t] = "cleanWait" => count' = count /\ count <= LOW_WATER_MARK
             /\ pc'[t] # "refWait" /\ pc[t] # "refSignal"
             /\ pc[t] = "cleanSignal" => Signal(t, "refWait", "refWake", "cleanUnlock")
  BY <1>3, SignalMoves, GotoMoves DEF Clean, CleanLock, CleanEmpty, CleanBlock, CleanRelock, MustWait,
     CleanEnter, CleanBody, CleanSignal, CleanUnlock, Acquire, Release
<1>4. CASE \/ CleanerLoop \/ (\E c \in Clients : ClientLoop(c)) \/ (\E t \in Threads : Spurious(t))
           \/ SelfTests \/ CreateThread \/ Finish \/ ShutdownLock
           \/ ShutdownUnlock \/ Join \/ PrintLock \/ PrintList
  <2>1. PICK t \in Threads, place \in Places \ Waits : Goto(t, place) /\ pc[t] \notin Duties
    BY <1>4, <1>a DEF CleanerLoop, ClientLoop, Spurious, SelfTests, CreateThread, Finish,
       ShutdownLock, ShutdownUnlock, Join, PrintLock, PrintList, Acquire, Release, Places,
       RefPlaces, CleanPlaces, PrintPlaces, MainPlaces, EndPlaces
  <2>2. Moves(t) /\ pc'[t] = place
    BY <2>1, GotoMoves
  <2>3. (pc'[u] \in Waits => pc'[u] = pc[u]) /\ (pc[u] \in Duties => pc'[u] = pc[u])
    BY <1>1, <2>1, <2>2
  <2> QED  BY <2>3
<1>5. CASE ShutdownBody
  BY <1>5, <1>a DEF ShutdownBody, Types
<1>6. CASE UNCHANGED vars
  BY <1>6 DEF vars
<1>7. ASSUME NEW t \in Clients \cup {Main}, Reference(t)
      PROVE  /\ pc'[u] = "refWait" /\ pc[u] # "refWait" => count' = count /\ count >= HIGH_WATER_MARK
             /\ pc'[u] = "cleanWait" => pc[u] = "cleanWait"
             /\ pc[u] = "refSignal" /\ pc'[u] # "refSignal" =>
                  Signal(u, "cleanWait", "cleanWake", "refUnlock")
             /\ pc[u] = "cleanSignal" => pc'[u] = "cleanSignal"
  BY <1>1, <1>2, <1>7, <1>a
<1>8. ASSUME NEW t \in Threads, Clean(t)
      PROVE  /\ pc'[u] = "refWait" => pc[u] = "refWait"
             /\ pc'[u] = "cleanWait" /\ pc[u] # "cleanWait" => count' = count /\ count <= LOW_WATER_MARK
             /\ pc[u] = "refSignal" => pc'[u] = "refSignal"
             /\ pc[u] = "cleanSignal" /\ pc'[u] # "cleanSignal" =>
                  Signal(u, "refWait", "refWake", "cleanUnlock")
  BY <1>1, <1>3, <1>8
<1>9. CASE Next
  BY <1>4, <1>5, <1>7, <1>8, <1>9, NextCases
<1> QED  BY <1>6, <1>9

LEMMA WakeupStep ==
  ASSUME IndInv, [Next]_vars
  PROVE  NoLostWakeup'
<1>a. /\ Main \in Threads /\ Cleaner \in Threads \ {Main} /\ Clients \subseteq Threads \ {Main, Cleaner}
      /\ Clients # {}
  BY ThreadsAreDistinct DEF Threads
<1>b. pc[Main] \in RefPlaces \cup CleanPlaces => \A u \in Threads \ {Main} : pc[u] = "none"
  BY DEF IndInv, MainOrder, RefPlaces, CleanPlaces
<1>c. count \in Int /\ \A u \in Threads : pc[u] \in PlacesOf(u)
  BY DEF IndInv, Types
<1>d. ASSUME NEW t \in Threads, RefHit(t) \/ RefInsert(t) \/ CleanBody(t)
      PROVE  /\ mutex = t /\ Moves(t)
             /\ pc'[t] = IF CleanBody(t) THEN "cleanSignal" ELSE "refSignal"
             /\ pc[t] \in {"refBody", "cleanBody"}
  BY <1>d, GotoMoves DEF IndInv, MutexDiscipline, LockedPlaces, RefHit, RefInsert, CleanBody
\* The low water mark: the cleaner sleeps.
<1>1. ASSUME SeparateCleaner, pc'[Cleaner] = "cleanWait"
      PROVE  count' <= LOW_WATER_MARK \/ \E c \in Clients : pc'[c] = "refSignal"
  <2>1. CASE pc[Cleaner] # "cleanWait"
    BY <1>1, <1>a, <2>1, SleepAndSignal DEF IndInv
  <2>2. CASE pc[Cleaner] = "cleanWait"
    <3>1. pc[Main] \notin RefPlaces \cup CleanPlaces
      BY <1>a, <1>b, <2>2
    <3>2. count <= LOW_WATER_MARK \/ \E c \in Clients : pc[c] = "refSignal"
      BY <1>1, <2>2 DEF IndInv, NoLostWakeup
    <3>3. ASSUME NEW t \in Clients \cup {Main}, RefHit(t) \/ RefInsert(t)
          PROVE  \E c \in Clients : pc'[c] = "refSignal"
      <4>1. t \in Clients
        BY <1>a, <1>d, <3>1, <3>3 DEF RefPlaces, CleanPlaces
      <4>2. pc'[t] = "refSignal"
        BY <3>3, <4>1, <1>a, GotoMoves DEF RefHit, RefInsert, IndInv
      <4> QED  BY <4>1, <4>2
    <3>4. ASSUME NEW t \in Threads, CleanBody(t)
          PROVE  count' <= LOW_WATER_MARK
      <4>1. \A c \in Clients : pc[c] # "refSignal"
        BY <1>a, <1>d, <3>4 DEF IndInv, MutexDiscipline, LockedPlaces
      <4>2. count' <= count /\ count' \in Int
        BY <3>4, PassFrees, TypesStep DEF IndInv, Types
      <4> QED  BY <1>c, <3>2, <4>1, <4>2, SizesAreNats
    <3>5. CASE UNCHANGED <<refs, count>>
      <4>1. ASSUME NEW c \in Clients, pc[c] = "refSignal", pc'[c] # "refSignal"
            PROVE  FALSE
        <5>1. Signal(c, "cleanWait", "cleanWake", "refUnlock")
          BY <1>a, <4>1, SleepAndSignal DEF IndInv
        <5>2. BlockedAt("cleanWait") = {Cleaner}
          BY <1>a, <1>c, <2>2, <3>1 DEF BlockedAt, PlacesOf, RefPlaces, CleanPlaces, Threads
        <5>3. pc' = [pc EXCEPT ![Cleaner] = "cleanWake", ![c] = "refUnlock"]
          BY <5>1, <5>2 DEF Signal
        <5> QED  BY <1>1, <1>a, <5>3 DEF IndInv, Types
      <4> QED  BY <3>2, <3>5, <4>1
    <3> QED  BY <3>3, <3>4, <3>5, ListChanges
  <2> QED  BY <2>1, <2>2
\* The high water mark: all clients sleep.
<1>2. ASSUME SeparateCleaner, \A c \in Clients : pc'[c] = "refWait"
      PROVE  count' >= HIGH_WATER_MARK \/ pc'[Cleaner] = "cleanSignal"
  <2>1. CASE \E c \in Clients : pc[c] # "refWait"
    BY <1>2, <1>a, <1>c, <2>1, SleepAndSignal DEF IndInv
  <2>2. CASE \A c \in Clients : pc[c] = "refWait"
    <3>1. pc[Main] \notin RefPlaces \cup CleanPlaces
      BY <1>a, <1>b, <2>2
    <3>2. count >= HIGH_WATER_MARK \/ pc[Cleaner] = "cleanSignal"
      BY <1>2, <2>2 DEF IndInv, NoLostWakeup
    <3>3. ASSUME NEW t \in Threads, RefHit(t) \/ RefInsert(t) \/ CleanBody(t)
          PROVE  t = Cleaner
      BY <1>a, <1>d, <2>2, <3>1, <3>3 DEF Threads, RefPlaces, CleanPlaces
    <3>4. CASE \E t \in Threads : CleanBody(t)
      BY <3>3, <3>4, GotoMoves DEF CleanBody, IndInv
    <3>5. CASE UNCHANGED <<refs, count>>
      <4>1. ASSUME pc[Cleaner] = "cleanSignal", pc'[Cleaner] # "cleanSignal"
            PROVE  FALSE
        <5>1. Signal(Cleaner, "refWait", "refWake", "cleanUnlock")
          BY <1>a, <4>1, SleepAndSignal DEF IndInv
        <5>2. BlockedAt("refWait") = Clients
          BY <1>a, <2>2, <3>1, <4>1 DEF BlockedAt, RefPlaces, Threads
        <5>3. PICK w \in Clients : pc' = [pc EXCEPT ![w] = "refWake", ![Cleaner] = "cleanUnlock"]
          BY <1>a, <5>1, <5>2 DEF Signal
        <5> QED  BY <1>2, <1>a, <5>3 DEF IndInv, Types
      <4> QED  BY <3>2, <3>5, <4>1
    <3> QED  BY <1>a, <3>3, <3>4, <3>5, ListChanges
  <2> QED  BY <2>1, <2>2
<1> QED  BY <1>1, <1>2 DEF NoLostWakeup

-----------------------------------------------------------------------------
(***************************************************************************)
(* The theorems                                                            *)
(***************************************************************************)

LEMMA InitIndInv == Init => IndInv
<1> SUFFICES ASSUME Init PROVE IndInv
  OBVIOUS
<1>a. Main \in Threads /\ Cleaner \in Threads /\ Clients \subseteq Threads \ {Main, Cleaner} /\ Clients # {}
  BY ThreadsAreDistinct DEF Threads
<1>1. 0 \in Keys /\ 0 \in 0 .. CLEAN_RATIO - 1 /\ 0 \in 0 .. TestEnd
  BY SizesAreNats DEF Keys, TestEnd, TestPrint2, Evens
<1>2. Types
  <2>1. pc \in [Threads -> Places] /\ \A t \in Threads : pc[t] \in PlacesOf(t)
    BY DEF Init, Places, PlacesOf, MainPlaces
  <2>2. tick \in [Clients -> 0 .. CLEAN_RATIO - 1] /\ key \in [Threads -> Keys]
    BY <1>1 DEF Init
  <2>3. done \in BOOLEAN /\ finished \in BOOLEAN
    BY DEF Init
  <2>4. refs \in [Keys -> Nat] /\ mutex \in Threads \cup {Nobody} /\ count \in Int
        /\ step \in 0 .. TestEnd /\ printed \in Nat
    BY <1>1 DEF Init
  <2> QED  BY <2>1, <2>2, <2>3, <2>4 DEF Types
<1>3. MutexDiscipline
  BY ThreadsAreDistinct DEF Init, MutexDiscipline, LockedPlaces, Threads
<1>4. CountAccurate
  <2>1. Listed = {}
    BY DEF Init, Listed
  <2> QED  BY <2>1, FS_EmptySet DEF Init, CountAccurate
<1>5. WaterMarks /\ MainOrder /\ NoLostWakeup
  BY <1>a, SizesAreNats DEF Init, WaterMarks, MainOrder, NoLostWakeup, RefPlaces, CleanPlaces
<1> QED  BY <1>2, <1>3, <1>4, <1>5 DEF IndInv

LEMMA SpecIndInv == Spec => []IndInv
<1>1. IndInv /\ [Next]_vars => IndInv'
  BY TypesStep, DisciplineStep, CountStep, WaterMarksStep, MainOrderStep, WakeupStep DEF IndInv
<1> QED  BY InitIndInv, <1>1, PTL DEF Spec

\* Every variable keeps its type, every thread stays within the places of its
\* kind, and count never leaves 0 .. MAX_KEY.
THEOREM TypeSafety == Spec => []TypeOK
<1>1. IndInv => TypeOK
  <2> SUFFICES ASSUME IndInv PROVE TypeOK
    OBVIOUS
  <2>1. count \in 0 .. MAX_KEY
    BY KeySets DEF IndInv, CountAccurate, Listed
  <2> QED  BY <2>1 DEF IndInv, Types, TypeOK
<1> QED  BY <1>1, SpecIndInv, PTL

\* Two threads are never inside a critical section of mutex-lru.c together,
\* and a thread that comes back from a wait holds the mutex again.
THEOREM MutualExclusion == Spec => []MutexDiscipline
<1>1. IndInv => MutexDiscipline
  BY DEF IndInv
<1> QED  BY <1>1, SpecIndInv, PTL

\* The count that the water marks are tested against is the length of the
\* list, whatever the threads do.
THEOREM CountIsAccurate == Spec => []CountAccurate
<1>1. IndInv => CountAccurate
  BY DEF IndInv
<1> QED  BY <1>1, SpecIndInv, PTL

\* No assertion of mutex-lru.c fails and the list never outgrows the high
\* water mark.
THEOREM WaterMarksHold == Spec => []WaterMarks
<1>1. IndInv => WaterMarks
  BY DEF IndInv
<1> QED  BY <1>1, SpecIndInv, PTL

\* With a cleaner thread, the signals that end reference and clean reach the
\* thread they are meant for.
THEOREM NoWakeupIsLost == Spec => []NoLostWakeup
<1>1. IndInv => NoLostWakeup
  BY DEF IndInv
<1> QED  BY <1>1, SpecIndInv, PTL

\* With a cleaner thread, the clients and the cleaner are never all asleep,
\* for any number of clients and any two water marks in order.
THEOREM CleanerPreventsStall ==
  ASSUME SeparateCleaner = TRUE
  PROVE  Spec => []NoStall
<1>1. IndInv => NoStall
  <2> SUFFICES ASSUME IndInv, ~NoStall PROVE FALSE
    OBVIOUS
  <2>1. /\ \A c \in Clients : c \in Threads /\ pc[c] \in {"refWait", "cleanWait"}
        /\ Cleaner \in Threads /\ pc[Cleaner] \in {"refWait", "cleanWait"}
    BY DEF NoStall, Threads
  <2>2. (\A c \in Clients : pc[c] = "refWait") /\ pc[Cleaner] = "cleanWait"
    BY <2>1, ThreadsAreDistinct DEF IndInv, Types, PlacesOf, RefPlaces, CleanPlaces
  <2>3. count >= HIGH_WATER_MARK /\ count <= LOW_WATER_MARK
    BY <2>2 DEF IndInv, NoLostWakeup
  <2> QED  BY <2>3, SizesAreNats, WaterMarksAreOrdered DEF IndInv, Types
<1> QED  BY <1>1, SpecIndInv, PTL

-----------------------------------------------------------------------------
(***************************************************************************)
(* Refinement: the threaded program implements LruCache                    *)
(***************************************************************************)

Cache == INSTANCE LruCache

LEMMA StepImplementsCache ==
  ASSUME Types, [Next]_vars
  PROVE  [Cache!Next]_refs
<1>1. ASSUME NEW t \in Clients \cup {Main}, RefHit(t) \/ RefInsert(t)
      PROVE  Cache!Next
  <2>1. key[t] \in Keys /\ refs \in [Keys -> Nat]
    BY DEF Types, Threads
  <2>2. Cache!Reference(key[t])
    BY <1>1, <2>1 DEF RefHit, RefInsert, Cache!Reference
  <2> QED BY <2>1, <2>2 DEF Cache!Next
<1>2. ASSUME NEW t \in Threads, CleanBody(t)
      PROVE  Cache!Next
  BY <1>2 DEF CleanBody, Cache!Clean, Cache!Next
<1> QED BY <1>1, <1>2, ListChanges

\* To every client the threaded tracker is the abstract one, although calls
\* of reference and clean interleave and wait inside: each call takes effect
\* in one step, inside its critical section, exactly as LruCache says, and
\* nothing else that a thread or main does changes a reference count.
THEOREM MutexImplementsCache == Spec => Cache!Spec
<1>1. Init => Cache!Init
  BY DEF Init, Cache!Init
<1>2. IndInv => Types
  BY DEF IndInv
<1> QED BY <1>1, <1>2, StepImplementsCache, SpecIndInv, PTL DEF Spec, Cache!Spec

-----------------------------------------------------------------------------
(***************************************************************************)
(* After the shutdown                                                      *)
(***************************************************************************)

Workers == Clients \cup {Cleaner}

\* How many places a worker can still come to, once done is set.
StepsLeft(place) ==
  CASE place = "exited"      -> 0
    [] place = "loop"        -> 1
    [] place = "cleanUnlock" -> 2
    [] place = "cleanSignal" -> 3
    [] place = "cleanBody"   -> 4
    [] place = "cleanWake"   -> 4
    [] place = "cleanWait"   -> 5
    [] place = "cleanTest"   -> 6
    [] place = "cleanLock"   -> 7
    [] place = "refUnlock"   -> 8
    [] place = "refFail"     -> 8
    [] place = "refSignal"   -> 9
    [] place = "refBody"     -> 10
    [] place = "refWake"     -> 10
    [] place = "refWait"     -> 11
    [] place = "refTest"     -> 12
    [] place = "refLock"     -> 13
    [] place = "none"        -> 14

Nearer(t) == StepsLeft(pc'[t]) < StepsLeft(pc[t])

RunsDown == done => \A t \in Workers : pc'[t] # pc[t] => Nearer(t)

\* A worker that is woken is nearer to its end, so only the thread that moves
\* has to be looked at.
LEMMA OthersRunDown ==
  ASSUME NEW t \in Threads, Moves(t), t \in Workers => Nearer(t)
  PROVE  \A u \in Workers : pc'[u] # pc[u] => Nearer(u)
<1> SUFFICES ASSUME NEW u \in Workers, pc'[u] # pc[u], u # t PROVE Nearer(u)
  OBVIOUS
<1>1. u \in Threads \ {t}
  BY DEF Workers, Threads
<1>2. Woken(u)
  BY <1>1 DEF Moves
<1> QED BY <1>2 DEF Woken, Nearer, StepsLeft

LEMMA ReferenceRunsDown ==
  ASSUME IndInv, done, NEW t \in Clients, Reference(t)
  PROVE  Moves(t) /\ Nearer(t)
<1>1. Types /\ t \in Threads /\ t # Main
  BY ThreadsAreDistinct DEF IndInv, Threads
<1>2. AfterReference(t) \in {"cleanLock", "loop"}
  BY <1>1 DEF AfterReference
<1>3. CASE RefSignal(t)
  BY <1>1, <1>3, SignalMoves DEF RefSignal, Nearer, StepsLeft
<1>4. CASE RefLock(t) \/ RefRelock(t) \/ RefBlock(t)
  <2>1. /\ Moves(t)
        /\ \/ pc[t] = "refLock" /\ pc'[t] = "refTest"
           \/ pc[t] = "refWake" /\ pc'[t] = "refUnlock"
           \/ pc[t] = "refTest" /\ pc'[t] = "refWait"
    BY <1>1, <1>4, GotoMoves DEF RefLock, RefRelock, RefBlock, Acquire, Release
  <2> QED BY <2>1 DEF Nearer, StepsLeft
<1>5. CASE RefEnter(t) \/ RefHit(t) \/ RefInsert(t) \/ RefNoMemory(t)
  <2>1. /\ Moves(t)
        /\ \/ pc[t] = "refTest" /\ pc'[t] = "refBody"
           \/ pc[t] = "refBody" /\ pc'[t] \in {"refSignal", "refFail"}
    BY <1>1, <1>5, GotoMoves DEF RefEnter, RefHit, RefInsert, RefNoMemory
  <2> QED BY <2>1 DEF Nearer, StepsLeft
<1>6. CASE RefUnlock(t)
  <2>1. Moves(t) /\ pc'[t] \in {"cleanLock", "loop"} /\ pc[t] \in {"refUnlock", "refFail"}
    BY <1>1, <1>2, <1>6, GotoMoves DEF RefUnlock, Release
  <2> QED BY <2>1 DEF Nearer, StepsLeft
<1> QED BY <1>3, <1>4, <1>5, <1>6 DEF Reference

LEMMA CleanRunsDown ==
  ASSUME IndInv, done, NEW t \in Workers, Clean(t)
  PROVE  Moves(t) /\ Nearer(t)
<1>1. Types /\ t \in Threads /\ t # Main
  BY ThreadsAreDistinct DEF IndInv, Threads, Workers
<1>2. CASE CleanSignal(t)
  BY <1>1, <1>2, SignalMoves DEF CleanSignal, Nearer, StepsLeft
<1>3. CASE CleanLock(t) \/ CleanRelock(t) \/ CleanBlock(t) \/ CleanUnlock(t)
  <2>1. /\ Moves(t)
        /\ \/ pc[t] = "cleanLock" /\ pc'[t] = "cleanTest"
           \/ pc[t] = "cleanWake" /\ pc'[t] = "cleanUnlock"
           \/ pc[t] = "cleanTest" /\ pc'[t] = "cleanWait"
           \/ pc[t] = "cleanUnlock" /\ pc'[t] = "loop"
    BY <1>1, <1>3, GotoMoves DEF CleanLock, CleanRelock, CleanBlock, CleanUnlock, Acquire, Release
  <2> QED BY <2>1 DEF Nearer, StepsLeft
<1>4. CASE CleanEmpty(t) \/ CleanEnter(t) \/ CleanBody(t)
  <2>1. /\ Moves(t)
        /\ \/ pc[t] = "cleanTest" /\ pc'[t] \in {"cleanUnlock", "cleanBody"}
           \/ pc[t] = "cleanBody" /\ pc'[t] = "cleanSignal"
    BY <1>1, <1>4, GotoMoves DEF CleanEmpty, CleanEnter, CleanBody
  <2> QED BY <2>1 DEF Nearer, StepsLeft
<1> QED BY <1>2, <1>3, <1>4 DEF Clean

LEMMA StepRunsDown ==
  ASSUME IndInv, Next
  PROVE  RunsDown
<1> SUFFICES ASSUME done
             PROVE  \A u \in Workers : pc'[u] # pc[u] => Nearer(u)
  BY DEF RunsDown
<1>a. /\ Types /\ Main \in Threads /\ Workers \subseteq Threads \ {Main}
      /\ Threads = Workers \cup {Main}
  BY ThreadsAreDistinct DEF IndInv, Threads, Workers
<1>b. /\ finished
      /\ pc[Main] \notin {"test", "create", "shutLock", "shutBody"} \cup RefPlaces \cup CleanPlaces
  BY DEF IndInv, MainOrder
\* Main is past everything but the end of the shutdown.
<1>c. Moves(Main) => \A u \in Workers : pc'[u] # pc[u] => Nearer(u)
  BY <1>a, OthersRunDown
<1>1. ASSUME NEW c \in Clients, ClientStep(c)
      PROVE  Moves(c) /\ Nearer(c)
  <2>1. c \in Threads /\ c \in Workers
    BY DEF Threads, Workers
  <2>2. CASE ClientLoop(c)
    BY <1>a, <1>b, <2>1, <2>2, GotoMoves DEF ClientLoop, Nearer, StepsLeft
  <2> QED BY <1>1, <2>1, <2>2, ReferenceRunsDown, CleanRunsDown DEF ClientStep
<1>2. ASSUME CleanerStep
      PROVE  Moves(Cleaner) /\ Nearer(Cleaner)
  <2>1. Cleaner \in Threads /\ Cleaner \in Workers
    BY DEF Threads, Workers
  <2>2. CASE CleanerLoop
    BY <1>a, <1>b, <2>1, <2>2, GotoMoves DEF CleanerLoop, Nearer, StepsLeft
  <2> QED BY <1>2, <2>1, <2>2, CleanRunsDown DEF CleanerStep
<1>3. CASE MainStep \/ Finish
  <2>1. ~(Reference(Main) \/ Clean(Main) \/ SelfTests \/ CreateThread \/ Finish
          \/ ShutdownLock \/ ShutdownBody)
    BY <1>b DEF Reference, RefLock, RefBlock, RefRelock, RefEnter, RefHit, RefInsert, RefNoMemory,
       RefSignal, RefUnlock, Clean, CleanLock, CleanEmpty, CleanBlock, CleanRelock, CleanEnter,
       CleanBody, CleanSignal, CleanUnlock, SelfTests, CreateThread, Finish, ShutdownLock,
       ShutdownBody, RefPlaces, CleanPlaces
  <2>2. ShutdownUnlock \/ Join \/ PrintLock \/ PrintList
    BY <1>3, <2>1 DEF MainStep
  <2>3. Moves(Main)
    BY <1>a, <2>2, GotoMoves DEF ShutdownUnlock, Join, PrintLock, PrintList, Acquire, Release
  <2> QED BY <1>c, <2>3
<1>4. ASSUME NEW t \in Threads, Spurious(t)
      PROVE  Moves(t) /\ Nearer(t)
  BY <1>4, <1>a, GotoMoves DEF Spurious, Nearer, StepsLeft
<1> QED
  BY <1>a, <1>1, <1>2, <1>3, <1>4, OthersRunDown DEF Next, SpuriousWakeup, Workers

\* Once shutdown_threads has set done, every step of a client or of the cleaner
\* brings it nearer to its exit, whatever signals and spurious wakeups come
\* in between: nobody goes back into reference or clean, a sleeper that is
\* woken does not sleep again, and each thread takes at most StepsLeft(pc[t])
\* more steps, of which there are no more than fourteen.  What is left to
\* liveness is only whether a sleeper is woken at all.
THEOREM ShutdownRunsDown ==
  Spec => /\ []\A t \in Workers : StepsLeft(pc[t]) \in 0 .. 14
          /\ [][RunsDown]_vars
<1>1. IndInv => \A t \in Workers : StepsLeft(pc[t]) \in 0 .. 14
  <2> SUFFICES ASSUME IndInv, NEW t \in Workers PROVE StepsLeft(pc[t]) \in 0 .. 14
    OBVIOUS
  <2>1. t \in Threads /\ t # Main
    BY ThreadsAreDistinct DEF Workers, Threads
  <2>2. pc[t] \in RefPlaces \cup CleanPlaces \cup {"none", "loop", "exited"}
    BY <2>1 DEF IndInv, Types, PlacesOf
  <2> QED BY <2>2 DEF StepsLeft, RefPlaces, CleanPlaces
<1>2. IndInv /\ [Next]_vars => [RunsDown]_vars
  BY StepRunsDown
<1> QED BY <1>1, <1>2, SpecIndInv, PTL DEF Spec

=============================================================================
