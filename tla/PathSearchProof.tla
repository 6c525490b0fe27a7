--------------------------- MODULE PathSearchProof --------------------------
(***************************************************************************)
(* Proofs about PathSearch with WorkingDirectory, for any tree of          *)
(* directories, any values of PATH and any bound of the search: where cd   *)
(* and "cd -" lead, and that the first program on the path runs.           *)
(***************************************************************************)
EXTENDS PathSearch, FiniteSetTheorems, TLAPS

\* The steps of others that are about directories, and cd.
CdNext == (\E a \in Args : Cd(a)) \/ RemoveDir \/ MakeDir

\* Every step of PathSearch is one of them or leaves the directories alone.
LEMMA StepIsCdStep == [Next]_vars => [CdNext]_cdVars
<1> SUFFICES ASSUME [Next]_vars PROVE [CdNext]_cdVars
  OBVIOUS
<1>1. CASE InitPath BY <1>1 DEF InitPath
<1>2. CASE CdStep BY <1>2 DEF CdStep, CdNext
<1>3. CASE Fork BY <1>3 DEF Fork
<1>4. CASE Stat BY <1>4 DEF Stat
<1>5. CASE StatBeyond BY <1>5 DEF StatBeyond, EndSearch
<1>6. CASE Exec BY <1>6 DEF Exec, EndSearch
<1>7. CASE GiveUp BY <1>7 DEF GiveUp, EndSearch
<1>8. CASE Others BY <1>8 DEF Others, CdNext
<1>9. CASE UNCHANGED vars BY <1>9 DEF vars
<1> QED BY <1>1, <1>2, <1>3, <1>4, <1>5, <1>6, <1>7, <1>8, <1>9 DEF Next

-----------------------------------------------------------------------------
(***************************************************************************)
(* The working directory                                                   *)
(***************************************************************************)

LEMMA SavedType == CdTypeOK => Saved \in Dirs
BY DirsFormTree DEF CdTypeOK, Saved

LEMMA ChdirType ==
  ASSUME CdTypeOK, UNCHANGED dirs, NEW d, Chdir(d)
  PROVE  /\ cwd' \in Dirs /\ live' \in BOOLEAN /\ (live' => cwd' \in dirs')
         /\ retval' \in {0, -1}
BY DEF CdTypeOK, Chdir

LEMMA RecordType ==
  ASSUME CdTypeOK, Record
  PROVE  previous' \in Dirs \cup {EMPTY} /\ missed' \in BOOLEAN
BY DEF CdTypeOK, Record

LEMMA CdStepKeepsTypes == CdTypeOK /\ [CdNext]_cdVars => CdTypeOK'
<1> SUFFICES ASSUME CdTypeOK, [CdNext]_cdVars PROVE CdTypeOK'
  OBVIOUS
<1>1. ASSUME NEW a \in Args, CdHere(a) PROVE CdTypeOK'
  BY <1>1 DEF CdHere, CdTypeOK
<1>2. ASSUME NEW a \in Args, CdDot(a) PROVE CdTypeOK'
  BY <1>2, SavedType, RecordType DEF CdDot, Save, CdTypeOK
<1>3. ASSUME NEW a \in Args, CdTo(a) PROVE CdTypeOK'
  BY <1>3, SavedType, RecordType, ChdirType DEF CdTo, Save, CdTypeOK
<1>4. CASE RemoveDir
  BY <1>4 DEF RemoveDir, CdTypeOK
<1>5. CASE MakeDir
  BY <1>5, DirsFormTree DEF MakeDir, CdTypeOK
<1>6. CASE UNCHANGED cdVars
  BY <1>6 DEF cdVars, CdTypeOK
<1> QED BY <1>1, <1>2, <1>3, <1>4, <1>5, <1>6 DEF CdNext, Cd

\* The shell stands in a directory of the tree, which exists unless others
\* have removed it, and old_path names one.
THEOREM DirectoriesExist == Spec => []CdTypeOK
<1>1. Init => CdTypeOK
  BY DirsFormTree DEF Init, CdInit, CdTypeOK
<1>2. CdTypeOK /\ [Next]_vars => CdTypeOK'
  BY StepIsCdStep, CdStepKeepsTypes
<1> QED BY <1>1, <1>2, PTL DEF Spec

\* "cd -" leads to the directory before the last cd, if that cd succeeded and
\* began in a directory that had not been removed.
THEOREM DashLeadsBack == Spec => []DashReturns
<1>1. Init => DashReturns
  BY DEF Init, CdInit, DashReturns
<1>2. ASSUME DashReturns, [CdNext]_cdVars PROVE DashReturns'
  <2>1. ASSUME NEW a \in Args, CdHere(a) PROVE DashReturns'
    BY <1>2, <2>1 DEF CdHere, DashReturns
  <2>2. ASSUME Save, Record PROVE DashReturns'
    BY <2>2 DEF Save, Saved, Record, DashReturns
  <2>3. ASSUME NEW a \in Args, CdDot(a) \/ CdTo(a) PROVE DashReturns'
    BY <2>2, <2>3 DEF CdDot, CdTo
  <2>4. CASE RemoveDir \/ MakeDir \/ UNCHANGED cdVars
    BY <1>2, <2>4 DEF RemoveDir, MakeDir, cdVars, DashReturns
  <2> QED BY <1>2, <2>1, <2>3, <2>4 DEF CdNext, Cd
<1>3. DashReturns /\ [Next]_vars => DashReturns'
  BY <1>2, StepIsCdStep
<1> QED BY <1>1, <1>3, PTL DEF Spec

LEMMA NothingAppended ==
  ASSUME NEW d \in Seq(STRING)
  PROVE  d \o <<>> = d
OBVIOUS

\* Each cd, by the kind of its argument.  Only the argument "." needs a fact
\* about sequences.
LEMMA CdGoesThere ==
  ASSUME CdTypeOK, NEW a \in Args, Cd(a)
  PROVE  \/ cwd' = IF retval' = 0 THEN Asked(a) ELSE cwd
         \/ a.kind = "dot" /\ a.path # <<>>
         \/ a.kind = "name" /\ ~live
<1> a.kind \in Kinds
  BY ArgsAreTyped
<1>1. CASE CdHere(a)
  BY <1>1 DEF CdHere, Asked
<1>2. CASE CdDot(a) /\ a.path = <<>>
  <2>1. cwd \o a.path = cwd
    BY <1>2, DirsFormTree, NothingAppended DEF CdTypeOK
  <2>2. Asked(a) = cwd \o a.path
    BY <1>2 DEF CdDot, Asked
  <2> QED BY <1>2, <2>1, <2>2 DEF CdDot
<1>3. CASE CdDot(a) /\ a.path # <<>>
  BY <1>3 DEF CdDot
<1>4. CASE CdTo(a) /\ (a.kind = "name" => live)
  <2>1. Target(a) = Asked(a)
    BY <1>4 DEF CdTo, Target, Asked, Saved, Kinds
  <2>2. Chdir(Asked(a))
    BY <1>4, <2>1 DEF CdTo
  <2> QED BY <2>2 DEF Chdir
<1>5. CASE CdTo(a) /\ a.kind = "name" /\ ~live
  BY <1>5
<1> QED BY <1>1, <1>2, <1>3, <1>4, <1>5 DEF Cd

\* A cd that reports success has gone where its argument says, one that
\* reports failure has not moved, but for the two exceptions.
THEOREM CdGoesThereAlways == Spec => CdGoesWhereAsked
<1>1. CdTypeOK =>
        [\A a \in Args :
           Cd(a) => \/ cwd' = IF retval' = 0 THEN Asked(a) ELSE cwd
                    \/ a.kind = "dot" /\ a.path # <<>>
                    \/ a.kind = "name" /\ ~live]_cdVars
  BY CdGoesThere
<1> QED BY <1>1, DirectoriesExist, PTL DEF CdGoesWhereAsked

-----------------------------------------------------------------------------
(***************************************************************************)
(* The table                                                               *)
(***************************************************************************)

\* With all its fields a value of PATH is cut into those fields.
LEMMA FullPathIsKept ==
  ASSUME NEW p \in Seq(Fields), \A k \in DOMAIN p : p[k] # Empty
  PROVE  PathTokens(p) = p
<1> DEFINE full   == {k \in DOMAIN p : p[k] # Empty}
           nth(n) == CHOOSE k \in full : Cardinality({j \in full : j < k}) = n - 1
<1> Len(p) \in Nat /\ DOMAIN p = 1 .. Len(p)
  OBVIOUS
<1>1. full = 1 .. Len(p)
  OBVIOUS
<1>2. PathTokens(p) = [n \in 1 .. Cardinality(full) |-> p[nth(n)]]
  BY DEF PathTokens
<1> HIDE DEF full
<1>3. Cardinality(full) = Len(p)
  <2>1. Cardinality(1 .. Len(p)) = Len(p)
    BY FS_Interval
  <2> QED BY <1>1, <2>1
<1>4. \A k \in full : Cardinality({j \in full : j < k}) = k - 1
  <2> TAKE k \in full
  <2>1. {j \in full : j < k} = 1 .. k - 1
    BY <1>1
  <2>2. Cardinality(1 .. k - 1) = k - 1
    BY <1>1, FS_Interval
  <2> QED BY <2>1, <2>2
<1>5. \A n \in 1 .. Len(p) : nth(n) = n
  BY <1>1, <1>4
<1> HIDE DEF nth
<1> QED BY <1>2, <1>3, <1>5

\* The table of a shell that has started: init_path got as many tokens as it
\* asked for, so that no field was empty, or PATH has no colon.
LEMMA TableIsThePath ==
  ASSUME NEW p \in Seq(Fields), p # <<>>,
         Slots(p) = 1 \/ Len(PathTokens(p)) >= Slots(p)
  PROVE  PathTokens(p) = IF Empty \in Range(p) THEN <<>> ELSE p
<1> DEFINE full == {k \in DOMAIN p : p[k] # Empty}
<1> Len(p) \in Nat /\ DOMAIN p = 1 .. Len(p)
  OBVIOUS
<1>1. CASE Empty \notin Range(p)
  BY <1>1, FullPathIsKept DEF Range
<1>2. CASE Empty \in Range(p) /\ Slots(p) = 1
  <2>1. full = {}
    BY <1>2 DEF Slots, Range
  <2>2. Cardinality(full) = 0
    BY <2>1, FS_EmptySet
  <2> HIDE DEF full
  <2>3. 1 .. Cardinality(full) = {}
    BY <2>2
  <2>4. PathTokens(p) = <<>>
    BY <2>3 DEF PathTokens, full
  <2> QED BY <1>2, <2>4
<1>3. CASE Empty \in Range(p) /\ Len(PathTokens(p)) >= Slots(p)
  <2>1. IsFiniteSet(1 .. Len(p)) /\ Cardinality(1 .. Len(p)) = Len(p)
    BY FS_Interval
  <2>2. full \in SUBSET (1 .. Len(p)) /\ full # 1 .. Len(p)
    BY <1>3 DEF Range
  <2> HIDE DEF full
  <2>3. IsFiniteSet(full) /\ Cardinality(full) < Len(p)
    <3>1. /\ IsFiniteSet(full) /\ Cardinality(full) <= Cardinality(1 .. Len(p))
          /\ Cardinality(1 .. Len(p)) = Cardinality(full) => 1 .. Len(p) = full
      BY <2>1, <2>2, FS_Subset
    <3>2. Cardinality(full) \in Nat
      BY <3>1, FS_CardinalityType
    <3> QED BY <2>1, <2>2, <3>1, <3>2
  <2>4. Len(PathTokens(p)) = Cardinality(full)
    BY <2>3, FS_CardinalityType DEF PathTokens, full
  <2> QED BY <1>3, <2>3, <2>4, FS_CardinalityType DEF Slots
<1> QED BY <1>1, <1>2, <1>3

-----------------------------------------------------------------------------
(***************************************************************************)
(* The search                                                              *)
(***************************************************************************)

Searching == pc \in {"stat", "exec"}

\* What the search has passed, if nothing has changed since it began.
Scanned ==
  Searching /\ steady =>
    \A k \in DOMAIN table : k <= i =>
      /\ There(table[k]) # "executable"
      /\ ~found => There(table[k]) = "absent"

\* The inductive invariant: FirstProgramRuns depends on what the search has
\* passed, and the table on the value of PATH.
SearchInv ==
  /\ TypeOK
  /\ path \in Paths /\ table \in Seq(Fields)
  /\ pc = "start" => table = <<>> /\ outcome = NoOutcome
  /\ Scanned
  /\ FirstProgramRuns

LEMMA SameFilesSameSearch ==
  ASSUME UNCHANGED <<cdVars, programs>>
  PROVE  \A f : There(f)' = There(f) /\ Dir(f)' = Dir(f)
BY DEF cdVars, There, Dir

\* The outcome stays true while nothing that it is about changes.
LEMMA OutcomeStays ==
  ASSUME FirstProgramRuns, UNCHANGED <<cdVars, programs, table, outcome, steady>>
  PROVE  FirstProgramRuns'
BY DEF FirstProgramRuns, Runnable, cdVars, There, Dir

LEMMA NoOutcomeIsTrue == outcome' = NoOutcome => FirstProgramRuns'
BY DEF FirstProgramRuns

LEMMA InitSearch == Init => SearchInv
<1> SUFFICES ASSUME Init PROVE SearchInv
  OBVIOUS
<1>1. CdTypeOK
  BY DirsFormTree DEF Init, CdInit, CdTypeOK
<1>2. TypeOK
  <2>1. i \in 0 .. BOUND
    BY BoundPositive DEF Init
  <2>2. pc = "start" /\ found \in BOOLEAN
           /\ programs \in [Dirs -> {"absent", "plain", "executable"}]
    BY DEF Init
  <2> QED BY <1>1, <2>1, <2>2 DEF TypeOK
<1>3. Scanned /\ FirstProgramRuns
  BY DEF Init, Scanned, Searching, FirstProgramRuns
<1> QED BY <1>2, <1>3 DEF Init, SearchInv

LEMMA InitPathKeeps == SearchInv /\ InitPath => SearchInv'
<1> SUFFICES ASSUME SearchInv, InitPath PROVE SearchInv'
  OBVIOUS
<1>1. path \in Seq(Fields) /\ path # <<>>
  BY PathsHaveFields DEF SearchInv
<1>2. CdTypeOK'
  BY StepIsCdStep, CdStepKeepsTypes DEF Next, SearchInv, TypeOK
<1>3. CASE Slots(path) = 1 \/ Len(PathTokens(path)) >= Slots(path)
  <2>1. table' = IF Empty \in Range(path) THEN <<>> ELSE path
    BY <1>1, <1>3, TableIsThePath DEF InitPath
  <2>2. table' \in Seq(Fields)
    BY <1>1, <2>1
  <2>3. TypeOK'
    BY <1>2, <1>3, <2>1 DEF InitPath, SearchInv, TypeOK
  <2> QED BY <1>3, <2>2, <2>3, NoOutcomeIsTrue DEF InitPath, SearchInv, Scanned, Searching
<1>4. CASE ~(Slots(path) = 1 \/ Len(PathTokens(path)) >= Slots(path))
  <2>1. Empty \in Range(path)
    BY <1>1, <1>4, FullPathIsKept DEF Slots, Range
  <2>2. TypeOK'
    BY <1>2, <1>4, <2>1 DEF InitPath, SearchInv, TypeOK
  <2> QED BY <1>4, <2>2, NoOutcomeIsTrue DEF InitPath, SearchInv, Scanned, Searching
<1> QED BY <1>3, <1>4

LEMMA CdKeeps ==
  ASSUME SearchInv, [CdNext]_cdVars, outcome' = NoOutcome,
         pc = "shell", UNCHANGED <<pc, path, table, i, found, programs>>
  PROVE  SearchInv'
<1>1. CdTypeOK'
  BY CdStepKeepsTypes DEF SearchInv, TypeOK
<1>2. TypeOK'
  BY <1>1 DEF SearchInv, TypeOK
<1> QED BY <1>2, NoOutcomeIsTrue DEF SearchInv, Scanned, Searching

LEMMA ForkKeeps == SearchInv /\ Fork => SearchInv'
<1> SUFFICES ASSUME SearchInv, Fork PROVE SearchInv'
  OBVIOUS
<1>1. CdTypeOK'
  BY StepIsCdStep, CdStepKeepsTypes DEF Next, SearchInv, TypeOK
<1>2. TypeOK'
  <2>1. i' \in 0 .. BOUND
    BY BoundPositive DEF Fork, SearchInv, TypeOK
  <2>3. found' \in BOOLEAN
    BY DEF Fork, SearchInv, TypeOK
  <2>2. pc' \in {"shell", "stat", "exec"}
           /\ (pc' = "exec" => found' /\ i' < BOUND /\ i' < Len(table'))
    BY DEF Fork, SearchInv, TypeOK
  <2> QED BY <1>1, <2>1, <2>2, <2>3 DEF Fork, SearchInv, TypeOK
<1>3. Scanned'
  BY DEF Fork, Scanned, SearchInv
<1> QED BY <1>2, <1>3, NoOutcomeIsTrue DEF Fork, SearchInv

LEMMA StatKeeps == SearchInv /\ Stat => SearchInv'
<1> SUFFICES ASSUME SearchInv, Stat PROVE SearchInv'
  OBVIOUS
<1>1. CdTypeOK'
  BY StepIsCdStep, CdStepKeepsTypes DEF Next, SearchInv, TypeOK
<1>2. TypeOK'
  <2>1. i' \in 0 .. BOUND
    BY BoundPositive DEF Stat, SearchInv, TypeOK
  <2>3. found' \in BOOLEAN
    BY DEF Stat, SearchInv, TypeOK
  <2>2. pc' \in {"shell", "stat", "exec"}
           /\ (pc' = "exec" => found' /\ i' < BOUND /\ i' < Len(table'))
    BY DEF Stat, SearchInv, TypeOK
  <2> QED BY <1>1, <2>1, <2>2, <2>3 DEF Stat, SearchInv, TypeOK
<1>3. Scanned'
  BY SameFilesSameSearch DEF Stat, Scanned, SearchInv, Searching, TypeOK
<1>4. FirstProgramRuns'
  BY OutcomeStays DEF Stat, SearchInv
<1> QED BY <1>2, <1>3, <1>4 DEF Stat, SearchInv

\* The search ends: what it has passed tells what the outcome means.
LEMMA EndKeeps ==
  ASSUME SearchInv, Searching, NEW o, EndSearch(o),
         steady => /\ o.kind = "ran" =>
                        \E k \in Runnable : /\ o = Ran(Dir(table[k])) /\ k <= BOUND
                                            /\ \A j \in Runnable : k <= j
                   /\ o.kind # "ran" => \A k \in Runnable : k > BOUND
                   /\ o.kind = "crash" => Len(table) < BOUND
                   /\ o.kind = "missing" =>
                        \A k \in DOMAIN table : k <= BOUND => There(table[k]) = "absent"
  PROVE  SearchInv'
<1>1. CdTypeOK'
  BY CdStepKeepsTypes DEF EndSearch, SearchInv, TypeOK
<1>2. TypeOK'
  <2>1. i' \in 0 .. BOUND
    BY BoundPositive DEF EndSearch, SearchInv, TypeOK
  <2>3. found' \in BOOLEAN
    BY DEF EndSearch, SearchInv, TypeOK
  <2>2. pc' \in {"shell", "stat", "exec"}
           /\ (pc' = "exec" => found' /\ i' < BOUND /\ i' < Len(table'))
    BY DEF EndSearch, SearchInv, TypeOK
  <2> QED BY <1>1, <2>1, <2>2, <2>3 DEF EndSearch, SearchInv, TypeOK, Searching
<1>3. Scanned'
  BY DEF EndSearch, Scanned, Searching
<1>4. FirstProgramRuns'
  <2>1. /\ \A f : There(f)' = There(f) /\ Dir(f)' = Dir(f)
        /\ outcome' = o /\ steady' = steady /\ table' = table
    BY SameFilesSameSearch DEF EndSearch
  <2>2. Runnable' = Runnable
    BY <2>1 DEF Runnable
  <2> QED BY <2>1, <2>2 DEF FirstProgramRuns
<1> QED BY <1>2, <1>3, <1>4 DEF EndSearch, SearchInv

\* Whatever is runnable lies ahead of the search.
LEMMA RunnableAhead ==
  ASSUME SearchInv, Searching, steady
  PROVE  \A k \in Runnable : k \in DOMAIN table /\ k > i
BY DEF SearchInv, TypeOK, Scanned, Runnable

LEMMA StatBeyondKeeps == SearchInv /\ StatBeyond => SearchInv'
<1> SUFFICES ASSUME SearchInv, StatBeyond PROVE SearchInv'
  OBVIOUS
<1>1. Searching /\ DOMAIN table = 1 .. Len(table) /\ Len(table) \in Nat /\ i \in Nat
  BY DEF StatBeyond, Searching, SearchInv, TypeOK
<1>2. CASE EndSearch(Crash)
  <2>1. steady => Runnable = {}
    BY <1>1, RunnableAhead DEF StatBeyond
  <2>2. Len(table) < BOUND
    BY <1>1, BoundPositive DEF StatBeyond
  <2> QED BY <1>1, <1>2, <2>1, <2>2, EndKeeps DEF Crash
<1>3. CASE i' = i + 1 /\ UNCHANGED <<cdVars, pc, path, table, found, programs, outcome, steady>>
  <2>1. CdTypeOK'
    BY <1>3, CdStepKeepsTypes DEF SearchInv, TypeOK
  <2>2. i' \in 0 .. BOUND
    BY <1>1, <1>3, BoundPositive DEF StatBeyond
  <2>3. TypeOK'
    BY <1>3, <2>1, <2>2 DEF StatBeyond, SearchInv, TypeOK
  <2>4. Scanned'
    BY <1>1, <1>3, SameFilesSameSearch DEF StatBeyond, Scanned, SearchInv, Searching
  <2>5. FirstProgramRuns'
    BY <1>3, OutcomeStays DEF SearchInv
  <2> QED BY <1>1, <1>3, <2>3, <2>4, <2>5 DEF SearchInv, StatBeyond
<1> QED BY <1>2, <1>3 DEF StatBeyond

LEMMA ExecKeeps == SearchInv /\ Exec => SearchInv'
<1> SUFFICES ASSUME SearchInv, Exec PROVE SearchInv'
  OBVIOUS
<1>1. /\ Searching /\ DOMAIN table = 1 .. Len(table) /\ Len(table) \in Nat
      /\ i \in Nat /\ i < BOUND /\ i < Len(table)
  BY BoundPositive DEF Exec, Searching, SearchInv, TypeOK
<1>2. CASE There(table[i + 1]) = "executable"
  <2> DEFINE o == Ran(Dir(table[i + 1]))
  <2>1. i + 1 \in Runnable
    BY <1>1, <1>2 DEF Runnable
  <2>2. steady => \A j \in Runnable : i + 1 <= j
    BY <1>1, RunnableAhead
  <2>3. i + 1 <= BOUND
    BY <1>1, BoundPositive
  <2>4. o.kind = "ran" /\ EndSearch(o)
    BY <1>2 DEF Exec, Ran
  <2> HIDE DEF o
  <2>5. steady => \E k \in Runnable : /\ o = Ran(Dir(table[k])) /\ k <= BOUND
                                     /\ \A j \in Runnable : k <= j
    BY <2>1, <2>2, <2>3 DEF o
  <2> QED BY <1>1, <2>4, <2>5, EndKeeps
<1>3. CASE There(table[i + 1]) # "executable"
  <2>1. /\ pc' = "stat" /\ i' = i + 1
        /\ UNCHANGED <<cdVars, path, table, found, programs, outcome, steady>>
    BY <1>3 DEF Exec
  <2>2. CdTypeOK'
    BY <2>1, CdStepKeepsTypes DEF SearchInv, TypeOK
  <2>3. i' \in 0 .. BOUND
    BY <1>1, <2>1, BoundPositive
  <2>4. TypeOK'
    BY <2>1, <2>2, <2>3 DEF Exec, SearchInv, TypeOK
  <2>5. found'
    BY <2>1 DEF Exec, SearchInv, TypeOK
  <2>6. Scanned'
    BY <1>1, <1>3, <2>1, <2>5, SameFilesSameSearch DEF Scanned, SearchInv, Searching
  <2>7. FirstProgramRuns'
    BY <2>1, OutcomeStays DEF SearchInv
  <2> QED BY <2>1, <2>4, <2>6, <2>7 DEF SearchInv
<1> QED BY <1>2, <1>3

LEMMA GiveUpKeeps == SearchInv /\ GiveUp => SearchInv'
<1> SUFFICES ASSUME SearchInv, GiveUp PROVE SearchInv'
  OBVIOUS
<1>1. Searching /\ DOMAIN table = 1 .. Len(table) /\ i = BOUND /\ BOUND \in Nat
  BY BoundPositive DEF GiveUp, Searching, SearchInv, TypeOK
<1>2. steady => \A k \in Runnable : k > BOUND
  BY <1>1, RunnableAhead
<1>3. CASE found
  BY <1>1, <1>2, <1>3, EndKeeps DEF GiveUp, Unusable
<1>4. CASE ~found
  <2>1. steady => \A k \in DOMAIN table : k <= BOUND => There(table[k]) = "absent"
    BY <1>1, <1>4 DEF SearchInv, Scanned
  <2> QED BY <1>1, <1>2, <1>4, <2>1, EndKeeps DEF GiveUp, Missing
<1> QED BY <1>3, <1>4

LEMMA OthersKeep == SearchInv /\ Others => SearchInv'
<1> SUFFICES ASSUME SearchInv, Others PROVE SearchInv'
  OBVIOUS
<1>1. CdTypeOK'
  BY StepIsCdStep, CdStepKeepsTypes DEF Next, SearchInv, TypeOK
<1>2. programs' \in [Dirs -> {"absent", "plain", "executable"}]
  BY DEF Others, SearchInv, TypeOK
<1>3. TypeOK'
  BY <1>1, <1>2 DEF Others, SearchInv, TypeOK
<1> QED BY <1>3, NoOutcomeIsTrue DEF Others, SearchInv, Scanned

LEMMA SearchInvariant == Spec => []SearchInv
<1>1. SearchInv /\ [Next]_vars => SearchInv'
  <2> SUFFICES ASSUME SearchInv, [Next]_vars PROVE SearchInv'
    OBVIOUS
  <2>1. CASE CdStep
    BY <2>1, CdKeeps DEF CdStep, CdNext
  <2>2. CASE UNCHANGED vars
    <3>1. CdTypeOK'
      BY StepIsCdStep, CdStepKeepsTypes DEF SearchInv, TypeOK
    <3>2. TypeOK'
      BY <2>2, <3>1 DEF vars, searchVars, SearchInv, TypeOK
    <3>3. Scanned'
      BY <2>2, SameFilesSameSearch DEF vars, searchVars, SearchInv, Scanned, Searching
    <3>4. FirstProgramRuns'
      BY <2>2, OutcomeStays DEF vars, searchVars, SearchInv
    <3> QED BY <2>2, <3>2, <3>3, <3>4 DEF vars, searchVars, SearchInv
  <2> QED BY <2>1, <2>2, InitPathKeeps, ForkKeeps, StatKeeps, StatBeyondKeeps,
             ExecKeeps, GiveUpKeeps, OthersKeep DEF Next
<1> QED BY <1>1, InitSearch, PTL DEF Spec

\* The variables have their types, and a shell that has started without an
\* empty field in PATH has the whole of it in its table.
THEOREM TableHoldsThePath == Spec => []TypeOK
<1>1. SearchInv => TypeOK
  BY DEF SearchInv
<1> QED BY <1>1, SearchInvariant, PTL

\* The program that runs is the first on the path, within the bound of the
\* search, when nothing changes during the search.
THEOREM FirstProgramIsRun == Spec => []FirstProgramRuns
<1>1. SearchInv => FirstProgramRuns
  BY DEF SearchInv
<1> QED BY <1>1, SearchInvariant, PTL

=============================================================================
