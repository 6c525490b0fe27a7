------------------------------ MODULE MutexLru ------------------------------
(***************************************************************************)
(* The threaded LRU program: main.c linked with mutex-lru.c.  Client       *)
(* threads call reference, a cleaner thread (or, without one, the client)  *)
(* calls clean, and the main thread runs the self tests, creates the       *)
(* threads, lets them run and shuts them down.  One mutex protects the     *)
(* list; reference waits on cv_high while the list is full, clean(1) waits *)
(* on cv_low while it is small.                                            *)
(*                                                                         *)
(* The list is the function refs, from keys to reference counts, zero for  *)
(* a key without a node: SequentialLru shows that the two list loops,      *)
(* which mutex-lru.c repeats inside its critical sections, amount to that. *)
(*                                                                         *)
(* pc[t] is the place of thread t.  A thread at "refWait" or "cleanWait"   *)
(* is blocked on cv_high or cv_low; one at "refWake" or "cleanWake" has    *)
(* been woken and must take the mutex again.                               *)
(***************************************************************************)
EXTENDS Integers, FiniteSets

CONSTANTS
  Clients,          \* the client threads (option -c)
  Cleaner,          \* the thread of delete_thread
  Main,             \* the main thread
  Nobody,           \* owner of the free mutex
  SeparateCleaner,  \* separate_cleaner_thread
  MAX_KEY, LOW_WATER_MARK, HIGH_WATER_MARK, CLEAN_RATIO,
  TestSize,         \* the 64 of self_tests
  MaxRefs           \* bound on a reference count, for model checking

ASSUME ThreadsAreDistinct ==
  /\ IsFiniteSet(Clients) /\ Clients # {}
  /\ Cleaner \notin Clients /\ Main \notin Clients /\ Main # Cleaner
  /\ Nobody \notin Clients \cup {Cleaner, Main}
ASSUME CleanerForMany ==
  SeparateCleaner \in BOOLEAN /\ (Cardinality(Clients) > 1 => SeparateCleaner)
ASSUME SizesAreNats ==
  /\ LOW_WATER_MARK \in Nat /\ HIGH_WATER_MARK \in Nat
  /\ MAX_KEY \in Nat \ {0} /\ CLEAN_RATIO \in Nat \ {0}
  /\ TestSize \in Nat \ {0} /\ MaxRefs \in Nat
ASSUME WaterMarksAreOrdered == LOW_WATER_MARK < HIGH_WATER_MARK
ASSUME TestsFitTheKeys == TestSize <= MAX_KEY

Threads == Clients \cup {Cleaner, Main}
Keys    == 0 .. MAX_KEY - 1

VARIABLES
  mutex,     \* the thread that holds it, or Nobody
  refs,      \* the list
  count,     \* static int count
  done,      \* mutex-lru.c: shutdown has begun
  finished,  \* main.c: the simulation is over
  pc,        \* where each thread is
  key,       \* the argument of each thread's call of reference
  tick,      \* counter % CLEAN_RATIO of each client
  step,      \* calls made so far by self_tests
  printed    \* lists printed so far

vars == <<mutex, refs, count, done, finished, pc, key, tick, step, printed>>

RefPlaces   == {"refLock", "refTest", "refWait", "refWake", "refBody",
                "refSignal", "refUnlock", "refFail"}
CleanPlaces == {"cleanLock", "cleanTest", "cleanWait", "cleanWake",
                "cleanBody", "cleanSignal", "cleanUnlock"}
PrintPlaces == {"printLock", "printBody"}
MainPlaces  == {"test", "create", "shutLock", "shutBody", "shutUnlock", "join"}
EndPlaces   == {"died", "failed", "returned"}

\* The places where a thread is inside the critical section.
LockedPlaces == {"refTest", "refBody", "refSignal", "refUnlock", "refFail",
                 "cleanTest", "cleanBody", "cleanSignal", "cleanUnlock",
                 "printBody", "shutBody", "shutUnlock"}

Places == RefPlaces \cup CleanPlaces \cup PrintPlaces \cup MainPlaces
            \cup EndPlaces \cup {"none", "loop", "exited"}

PlacesOf(t) ==
  IF t = Main THEN RefPlaces \cup CleanPlaces \cup PrintPlaces \cup MainPlaces \cup EndPlaces
  ELSE IF t = Cleaner THEN CleanPlaces \cup {"none", "loop", "exited"}
  ELSE RefPlaces \cup (CleanPlaces \ {"cleanWait", "cleanWake"}) \cup {"none", "loop", "exited"}

\* The calls of self_tests: the keys 0 .. TestSize-1, a print, every second
\* key, then print, clean(1), print, clean(0), print.
Evens       == (TestSize + 1) \div 2
TestPrint2  == TestSize + 1 + Evens
TestPrints  == {TestSize, TestPrint2, TestPrint2 + 2, TestPrint2 + 4}
TestCleans  == {TestPrint2 + 1, TestPrint2 + 3}
TestEnd     == TestPrint2 + 5
TestKey(s)  == IF s < TestSize THEN s ELSE 2 * (s - TestSize - 1)

TypeOK ==
  /\ mutex \in Threads \cup {Nobody}
  /\ refs \in [Keys -> Nat]
  /\ count \in 0 .. MAX_KEY
  /\ done \in BOOLEAN /\ finished \in BOOLEAN
  /\ pc \in [Threads -> Places]
  /\ \A t \in Threads : pc[t] \in PlacesOf(t)
  /\ key \in [Threads -> Keys]
  /\ tick \in [Clients -> 0 .. CLEAN_RATIO - 1]
  /\ step \in 0 .. TestEnd
  /\ printed \in Nat

Init ==
  /\ mutex = Nobody
  /\ refs = [k \in Keys |-> 0]
  /\ count = 0
  /\ done = FALSE /\ finished = FALSE
  /\ pc = [t \in Threads |-> IF t = Main THEN "test" ELSE "none"]
  /\ key = [t \in Threads |-> 0]
  /\ tick = [c \in Clients |-> 0]
  /\ step = 0
  /\ printed = 0

-----------------------------------------------------------------------------
(***************************************************************************)
(* The mutex and the condition variables                                   *)
(***************************************************************************)

Goto(t, place) == pc' = [pc EXCEPT ![t] = place]

Acquire(t, place) == mutex = Nobody /\ mutex' = t /\ Goto(t, place)

Release(t, place) == mutex' = Nobody /\ Goto(t, place)

BlockedAt(place) == {t \in Threads : pc[t] = place}

\* pthread_cond_signal: one of the threads blocked at `waiting', if there is
\* any, goes on to `woken'.
Signal(t, waiting, woken, place) ==
  IF BlockedAt(waiting) = {}
  THEN Goto(t, place)
  ELSE \E w \in BlockedAt(waiting) :
         pc' = [pc EXCEPT ![w] = woken, ![t] = place]

\* pthread_cond_wait may return without a signal.
Spurious(t) ==
  /\ \/ pc[t] = "refWait" /\ Goto(t, "refWake")
     \/ pc[t] = "cleanWait" /\ Goto(t, "cleanWake")
  /\ UNCHANGED <<mutex, refs, count, done, finished, key, tick, step, printed>>

-----------------------------------------------------------------------------
(***************************************************************************)
(* reference(key)                                                          *)
(***************************************************************************)

RefLock(t) ==
  /\ pc[t] = "refLock"
  /\ Acquire(t, "refTest")
  /\ UNCHANGED <<refs, count, done, finished, key, tick, step, printed>>

\* Mutated form of RefBlock: the thread goes to sleep with the mutex.
RefBlockKeepsMutex(t) ==
  /\ pc[t] = "refTest"
  /\ count >= HIGH_WATER_MARK
  /\ Goto(t, "refWait")
  /\ UNCHANGED <<mutex, refs, count, done, finished, key, tick, step, printed>>

RefBlock(t) ==
  /\ pc[t] = "refTest"
  /\ count >= HIGH_WATER_MARK
  /\ Release(t, "refWait")
  /\ UNCHANGED <<refs, count, done, finished, key, tick, step, printed>>

\* Mutated form of RefRelock: the thread goes on without the mutex.
RefRelockUnlocked(t) ==
  /\ pc[t] = "refWake"
  /\ Goto(t, IF done THEN "refUnlock" ELSE "refTest")
  /\ UNCHANGED <<mutex, refs, count, done, finished, key, tick, step, printed>>

\* Mutated form of RefRelock: `if' for `while' around the wait.
RefRelockNoRetest(t) ==
  /\ pc[t] = "refWake"
  /\ Acquire(t, IF done THEN "refUnlock" ELSE "refBody")
  /\ UNCHANGED <<refs, count, done, finished, key, tick, step, printed>>

\* Mutated form of RefRelock: done is not looked at after the wait.
RefRelockIgnoresDone(t) ==
  /\ pc[t] = "refWake"
  /\ Acquire(t, "refTest")
  /\ UNCHANGED <<refs, count, done, finished, key, tick, step, printed>>

\* Back from pthread_cond_wait, with the mutex: leave at shutdown, else test
\* the water mark again.
RefRelock(t) ==
  /\ pc[t] = "refWake"
  /\ Acquire(t, IF done THEN "refUnlock" ELSE "refTest")
  /\ UNCHANGED <<refs, count, done, finished, key, tick, step, printed>>

RefEnter(t) ==
  /\ pc[t] = "refTest"
  /\ count < HIGH_WATER_MARK
  /\ Goto(t, "refBody")
  /\ UNCHANGED <<mutex, refs, count, done, finished, key, tick, step, printed>>

\* Mutated form of RefHit: the count of a key that is found stays the same.
RefHitUncounted(t) ==
  /\ pc[t] = "refBody"
  /\ refs[key[t]] > 0
  /\ refs' = refs
  /\ Goto(t, "refSignal")
  /\ UNCHANGED <<mutex, count, done, finished, key, tick, step, printed>>

RefHit(t) ==
  /\ pc[t] = "refBody"
  /\ refs[key[t]] > 0
  /\ refs' = [refs EXCEPT ![key[t]] = @ + 1]
  /\ Goto(t, "refSignal")
  /\ UNCHANGED <<mutex, count, done, finished, key, tick, step, printed>>

RefInsert(t) ==
  /\ pc[t] = "refBody"
  /\ refs[key[t]] = 0
  /\ refs' = [refs EXCEPT ![key[t]] = 1]
  /\ count' = count + 1
  /\ Goto(t, "refSignal")
  /\ UNCHANGED <<mutex, done, finished, key, tick, step, printed>>

\* malloc returned NULL
RefNoMemory(t) ==
  /\ pc[t] = "refBody"
  /\ refs[key[t]] = 0
  /\ Goto(t, "refFail")
  /\ UNCHANGED <<mutex, refs, count, done, finished, key, tick, step, printed>>

\* Mutated form of RefSignal: the cleaner is not signalled.
RefSignalDropped(t) ==
  /\ pc[t] = "refSignal"
  /\ Goto(t, "refUnlock")
  /\ UNCHANGED <<mutex, refs, count, done, finished, key, tick, step, printed>>

RefSignal(t) ==
  /\ pc[t] = "refSignal"
  /\ Signal(t, "cleanWait", "cleanWake", "refUnlock")
  /\ UNCHANGED <<mutex, refs, count, done, finished, key, tick, step, printed>>

\* Without a cleaner, a client cleans after every CLEAN_RATIO references.
AfterReference(t) ==
  IF t = Main THEN "test"
  ELSE IF ~SeparateCleaner /\ tick[t] = 0 THEN "cleanLock" ELSE "loop"

\* A client ignores the result of reference; self_tests dies of a failure.
RefUnlock(t) ==
  /\ \/ pc[t] = "refUnlock" /\ Release(t, AfterReference(t))
     \/ pc[t] = "refFail" /\ Release(t, IF t = Main THEN "died" ELSE AfterReference(t))
  /\ UNCHANGED <<refs, count, done, finished, key, tick, step, printed>>

Reference(t) ==
  \/ RefLock(t) \/ RefBlock(t) \/ RefRelock(t) \/ RefEnter(t)
  \/ RefHit(t) \/ RefInsert(t) \/ RefNoMemory(t) \/ RefSignal(t) \/ RefUnlock(t)

-----------------------------------------------------------------------------
(***************************************************************************)
(* clean(check_water_mark)                                                 *)
(***************************************************************************)

\* The argument: 1 from delete_thread and in the first clean of self_tests,
\* 0 from a client and in the second.
CheckWaterMark(t) == t = Cleaner \/ (t = Main /\ step = TestPrint2 + 2)

MustWait(t) == CheckWaterMark(t) /\ count <= LOW_WATER_MARK

CleanLock(t) ==
  /\ pc[t] = "cleanLock"
  /\ Acquire(t, "cleanTest")
  /\ UNCHANGED <<refs, count, done, finished, key, tick, step, printed>>

\* An empty list is not waited for: clean returns at once.
CleanEmpty(t) ==
  /\ pc[t] = "cleanTest"
  /\ MustWait(t) /\ count = 0
  /\ Goto(t, "cleanUnlock")
  /\ UNCHANGED <<mutex, refs, count, done, finished, key, tick, step, printed>>

CleanBlock(t) ==
  /\ pc[t] = "cleanTest"
  /\ MustWait(t) /\ count # 0
  /\ Release(t, "cleanWait")
  /\ UNCHANGED <<refs, count, done, finished, key, tick, step, printed>>

CleanRelock(t) ==
  /\ pc[t] = "cleanWake"
  /\ Acquire(t, IF done THEN "cleanUnlock" ELSE "cleanTest")
  /\ UNCHANGED <<refs, count, done, finished, key, tick, step, printed>>

CleanEnter(t) ==
  /\ pc[t] = "cleanTest"
  /\ ~MustWait(t)
  /\ Goto(t, "cleanBody")
  /\ UNCHANGED <<mutex, refs, count, done, finished, key, tick, step, printed>>

\* Mutated form of CleanBody: count is not kept up to date.
CleanBodyUncounted(t) ==
  /\ pc[t] = "cleanBody"
  /\ refs' = [k \in Keys |-> IF refs[k] = 0 THEN 0 ELSE refs[k] - 1]
  /\ Goto(t, "cleanSignal")
  /\ UNCHANGED <<mutex, count, done, finished, key, tick, step, printed>>

\* Mutated form of CleanBody: every node that is aged is counted as freed.
CleanBodyOvercounted(t) ==
  /\ pc[t] = "cleanBody"
  /\ refs' = [k \in Keys |-> IF refs[k] = 0 THEN 0 ELSE refs[k] - 1]
  /\ count' = count - Cardinality({k \in Keys : refs[k] > 0})
  /\ Goto(t, "cleanSignal")
  /\ UNCHANGED <<mutex, done, finished, key, tick, step, printed>>

\* One pass: every node is aged by one, those that reach zero are freed.
CleanBody(t) ==
  /\ pc[t] = "cleanBody"
  /\ refs' = [k \in Keys |-> IF refs[k] = 0 THEN 0 ELSE refs[k] - 1]
  /\ count' = count - Cardinality({k \in Keys : refs[k] = 1})
  /\ Goto(t, "cleanSignal")
  /\ UNCHANGED <<mutex, done, finished, key, tick, step, printed>>

\* Mutated form of CleanSignal: the waiting clients are not signalled.
CleanSignalDropped(t) ==
  /\ pc[t] = "cleanSignal"
  /\ Goto(t, "cleanUnlock")
  /\ UNCHANGED <<mutex, refs, count, done, finished, key, tick, step, printed>>

\* Mutated form of CleanSignal: the wrong condition variable is signalled.
CleanSignalWrongCond(t) ==
  /\ pc[t] = "cleanSignal"
  /\ Signal(t, "cleanWait", "cleanWake", "cleanUnlock")
  /\ UNCHANGED <<mutex, refs, count, done, finished, key, tick, step, printed>>

CleanSignal(t) ==
  /\ pc[t] = "cleanSignal"
  /\ Signal(t, "refWait", "refWake", "cleanUnlock")
  /\ UNCHANGED <<mutex, refs, count, done, finished, key, tick, step, printed>>

CleanUnlock(t) ==
  /\ pc[t] = "cleanUnlock"
  /\ Release(t, IF t = Main THEN "test" ELSE "loop")
  /\ UNCHANGED <<refs, count, done, finished, key, tick, step, printed>>

Clean(t) ==
  \/ CleanLock(t) \/ CleanEmpty(t) \/ CleanBlock(t) \/ CleanRelock(t)
  \/ CleanEnter(t) \/ CleanBody(t) \/ CleanSignal(t) \/ CleanUnlock(t)

-----------------------------------------------------------------------------
(***************************************************************************)
(* The threads                                                             *)
(***************************************************************************)

\* References to k that clients have asked for and not yet made.
Pending(k) == Cardinality({c \in Clients :
                key[c] = k /\ pc[c] \in {"refLock", "refTest", "refWait", "refWake", "refBody"}})

\* One turn of the loop of client; MaxRefs bounds the keys it draws.
ClientLoop(c) ==
  /\ pc[c] = "loop"
  /\ IF finished
     THEN Goto(c, "exited") /\ UNCHANGED <<key, tick>>
     ELSE /\ \E k \in Keys : /\ refs[k] + Pending(k) < MaxRefs
                             /\ key' = [key EXCEPT ![c] = k]
          /\ tick' = [tick EXCEPT ![c] = (@ + 1) % CLEAN_RATIO]
          /\ Goto(c, "refLock")
  /\ UNCHANGED <<mutex, refs, count, done, finished, step, printed>>

\* One turn of the loop of delete_thread.
CleanerLoop ==
  /\ pc[Cleaner] = "loop"
  /\ Goto(Cleaner, IF finished THEN "exited" ELSE "cleanLock")
  /\ UNCHANGED <<mutex, refs, count, done, finished, key, tick, step, printed>>

\* The next call of self_tests, or its end.
SelfTests ==
  /\ pc[Main] = "test"
  /\ \/ /\ step \in TestPrints
        /\ Goto(Main, "printLock") /\ key' = key /\ step' = step + 1
     \/ /\ step \in TestCleans
        /\ Goto(Main, "cleanLock") /\ key' = key /\ step' = step + 1
     \/ /\ step \notin TestPrints \cup TestCleans \cup {TestEnd}
        /\ key' = [key EXCEPT ![Main] = TestKey(step)]
        /\ Goto(Main, "refLock") /\ step' = step + 1
     \/ step = TestEnd /\ Goto(Main, "create") /\ UNCHANGED <<key, step>>
  /\ UNCHANGED <<mutex, refs, count, done, finished, tick, printed>>

\* pthread_create, the cleaner first.  A failure ends the program.
CreateThread ==
  /\ pc[Main] = "create"
  /\ \/ SeparateCleaner /\ pc[Cleaner] = "none" /\ Goto(Cleaner, "loop")
     \/ /\ SeparateCleaner => pc[Cleaner] # "none"
        /\ \E c \in Clients : pc[c] = "none" /\ Goto(c, "loop")
     \/ /\ \E c \in Clients : pc[c] = "none"
        /\ Goto(Main, "failed")
  /\ UNCHANGED <<mutex, refs, count, done, finished, key, tick, step, printed>>

\* The sleep in main is over.
Finish ==
  /\ pc[Main] = "create"
  /\ SeparateCleaner => pc[Cleaner] # "none"
  /\ \A c \in Clients : pc[c] # "none"
  /\ finished' = TRUE
  /\ Goto(Main, "shutLock")
  /\ UNCHANGED <<mutex, refs, count, done, key, tick, step, printed>>

\* shutdown_threads
ShutdownLock ==
  /\ pc[Main] = "shutLock"
  /\ Acquire(Main, "shutBody")
  /\ UNCHANGED <<refs, count, done, finished, key, tick, step, printed>>

\* done is set and both condition variables are broadcast.
ShutdownBody ==
  /\ pc[Main] = "shutBody"
  /\ done' = TRUE
  /\ pc' = [t \in Threads |->
              IF t = Main THEN "shutUnlock"
              ELSE IF pc[t] = "refWait" THEN "refWake"
              ELSE IF pc[t] = "cleanWait" THEN "cleanWake" ELSE pc[t]]
  /\ UNCHANGED <<mutex, refs, count, finished, key, tick, step, printed>>

ShutdownUnlock ==
  /\ pc[Main] = "shutUnlock"
  /\ Release(Main, "join")
  /\ UNCHANGED <<refs, count, done, finished, key, tick, step, printed>>

\* main joins its clients, not the cleaner.
Join ==
  /\ pc[Main] = "join"
  /\ \A c \in Clients : pc[c] = "exited"
  /\ Goto(Main, "printLock")
  /\ UNCHANGED <<mutex, refs, count, done, finished, key, tick, step, printed>>

PrintLock ==
  /\ pc[Main] = "printLock"
  /\ Acquire(Main, "printBody")
  /\ UNCHANGED <<refs, count, done, finished, key, tick, step, printed>>

\* print returns early after shutdown.
PrintList ==
  /\ pc[Main] = "printBody"
  /\ printed' = IF done THEN printed ELSE printed + 1
  /\ Release(Main, IF finished THEN "returned" ELSE "test")
  /\ UNCHANGED <<refs, count, done, finished, key, tick, step>>

-----------------------------------------------------------------------------

\* The process exists: main has not returned or exited.
Running == pc[Main] \notin EndPlaces

ClientStep(c) == Running /\ (ClientLoop(c) \/ Reference(c) \/ Clean(c))

CleanerStep == Running /\ (CleanerLoop \/ Clean(Cleaner))

MainStep ==
  /\ Running
  /\ \/ SelfTests \/ Reference(Main) \/ Clean(Main) \/ CreateThread
     \/ ShutdownLock \/ ShutdownBody \/ ShutdownUnlock \/ Join \/ PrintLock \/ PrintList

SpuriousWakeup == Running /\ \E t \in Threads : Spurious(t)

Next ==
  \/ \E c \in Clients : ClientStep(c)
  \/ CleanerStep
  \/ MainStep
  \/ Finish
  \/ SpuriousWakeup

\* Every thread that can run does, and spurious wakeups do not go on for
\* ever.  Nothing is assumed of the order in which threads get the mutex, of
\* whom a signal wakes, or of the length of the sleep.
Fairness ==
  /\ \A c \in Clients : WF_vars(ClientStep(c))
  /\ WF_vars(CleanerStep)
  /\ WF_vars(MainStep)
  /\ <>[][~SpuriousWakeup]_vars

Spec == Init /\ [][Next]_vars /\ Fairness

-----------------------------------------------------------------------------
(***************************************************************************)
(* Properties                                                              *)
(***************************************************************************)

Listed == {k \in Keys : refs[k] > 0}

\* A thread is inside a critical section exactly when it holds the mutex, so
\* no two are, also across the waits, which give the mutex up and must take
\* it again.
MutexDiscipline ==
  \A t \in Threads : pc[t] \in LockedPlaces <=> mutex = t

\* count, which the water marks are tested against, is the number of nodes.
CountAccurate == count = Cardinality(Listed)

\* The asserts of mutex-lru.c (lines 66, 142 and 185), and what the first of
\* them is for: the list never grows past the high water mark, although a
\* woken thread may find that others used the room it was woken for.
WaterMarks ==
  /\ count <= HIGH_WATER_MARK
  /\ \A t \in Threads : pc[t] = "refBody" => count < HIGH_WATER_MARK
  /\ \A t \in Threads : pc[t] = "cleanBody" /\ CheckWaterMark(t) => count > LOW_WATER_MARK
  /\ pc[Main] = "shutBody" => ~done

\* What main.c:112-136 says each print of self_tests shows: all keys once,
\* then the even ones twice, then only the even ones, then nothing.
PrintsAreRight ==
  pc[Main] = "printBody" /\ ~finished =>
    refs = [k \in Keys |->
              IF k >= TestSize \/ step = TestPrint2 + 5 THEN 0
              ELSE IF step = TestSize + 1 THEN 1
              ELSE IF step = TestPrint2 + 1 THEN (IF k % 2 = 0 THEN 2 ELSE 1)
              ELSE (IF k % 2 = 0 THEN 1 ELSE 0)]

\* The self tests fit between the water marks, as 64 does between 32 and 96.
TestsFitTheMarks == LOW_WATER_MARK < TestSize /\ TestSize < HIGH_WATER_MARK

\* The self tests print what they should, and no call of reference or clean
\* that they make waits: main is alone then, and nobody could wake it.
SelfTestOutcome ==
  /\ PrintsAreRight
  /\ TestsFitTheMarks => pc[Main] \notin {"refWait", "cleanWait"}

\* No wakeup is lost.  While the cleaner sleeps the list is small, or a
\* client is about to signal; when all clients sleep the list is full, or
\* the cleaner is about to signal.
NoLostWakeup ==
  SeparateCleaner =>
    /\ pc[Cleaner] = "cleanWait" =>
         count <= LOW_WATER_MARK \/ \E c \in Clients : pc[c] = "refSignal"
    /\ (\A c \in Clients : pc[c] = "refWait") =>
         count >= HIGH_WATER_MARK \/ pc[Cleaner] = "cleanSignal"

\* lru-matt/README.md:16: the signals at the end of reference and clean are
\* there "to ensure deadlocking does not occur".  The threads that use the
\* list are never all blocked on the condition variables.
NoStall ==
  \E t \in Clients \cup (IF SeparateCleaner THEN {Cleaner} ELSE {}) :
    pc[t] \notin {"refWait", "cleanWait"}

\* When all clients sleep, the cleaner sooner or later lets one of them go
\* on, without the help of a spurious wakeup or of the shutdown.
WaitersAreReleased ==
  (~finished /\ \A c \in Clients : pc[c] = "refWait")
    ~> (\E c \in Clients : pc[c] # "refWait")

\* Once the simulation is over, main gets the mutex and shuts down.
ShutdownHappens == finished ~> done

\* After the shutdown every client that was blocked leaves, and the program
\* ends, unless a client was on its way into reference at that moment.
ShutdownCompletes ==
  (pc[Main] = "shutUnlock" /\ \A c \in Clients : pc[c] # "refLock")
    ~> pc[Main] = "returned"

\* main.c:223-224: clients that block on a condition variable are notified
\* to give up, "since they may hang forever otherwise".
EveryClientExits == done ~> \A c \in Clients : pc[c] = "exited"

=============================================================================
