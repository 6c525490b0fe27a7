----------------------------- MODULE ShellProof -----------------------------
(***************************************************************************)
(* Proofs about Shell, for any lines, any bound on stages, descriptors and *)
(* shells: where a pipeline can hang, which input a program gets, and when *)
(* the shell's own input is replaced.                                      *)
(***************************************************************************)
EXTENDS Shell, SequenceTheorems, FiniteSetTheorems, WellFoundedInduction, TLAPS

Kinds     == {"tty", "in", "out", "closed", "read", "write"}
Files     == [kind : Kinds, pipe : Nat]
BlankLine == [stages |-> <<>>, words |-> 0, infile |-> "none", outfile |-> "none"]
Maybe     == Fds \cup {NoFd}

\* The states a process is in from the fork on, until main has its result.
Running == {"wait", "child", "program", "ran"}

Procs ==
  [pc     : {"prompt", "stage"} \cup Running,
   line   : Lines \cup {BlankLine},
   i      : Nat,
   infile : Lookup,
   infd   : Maybe,
   pipefd : {<<>>} \cup (Maybe \X Maybe),
   fds    : [Fds -> Files]]

\* The index is at most one past the stages.  A stage is running only if there
\* is one, and if it is not the last one the variable pipefd has been set.
StageRuns(p) ==
  /\ p.i <= Len(p.line.stages)
  /\ p.pc \in Running => HasStage(p) /\ (IsLast(p) \/ p.pipefd # <<>>)

\* The variables infile and infd belong to the line that is run.
InputIsTheLines(p) ==
  /\ p.infile \in {"none", p.line.infile}
  /\ p.pc = "stage" /\ p.i = 0 => p.infile = p.line.infile /\ p.infd = 0

\* A stage that is first and last, and has its input file and no output file:
\* descriptor 0 is the file, and the child cannot replace it by infd.
GetsFile(p) ==
  /\ p.pc \in {"child", "program"} /\ p.i = 0 /\ IsLast(p)
  /\ p.line.infile = "there" /\ p.infd > 0 /\ p.line.outfile # "there"
  =>
  /\ p.fds[0] = InFile
  /\ p.pc = "child" => p.fds[p.infd] = Closed

\* A process has a write end only while a stage runs that is not the last
\* one, and only that of the stage's pipe, in pipefd[2].  Its read end is in
\* pipefd[1] and, until it is moved, nowhere else.
OneWriteEnd(p) ==
  \A f \in Fds :
    p.fds[f].kind = "write" =>
      /\ p.pc \in Running /\ ~IsLast(p)
      /\ p.pipefd[2] = f /\ p.pipefd[1] \in Fds /\ p.pipefd[1] < f
      /\ p.pc # "program" \/ ByPath(Command(p)) =>
           \A g \in Fds :
             p.fds[g] = ReadEnd(p.fds[f].pipe) <=> g = p.pipefd[1]

\* What main closes after a stage is not descriptor 0, unless there was no
\* room for the pipe.
ClosesPipe(p) ==
  p.pc \in Running \ {"program"} /\ ~IsLast(p) =>
    p.pipefd[2] # 0 \/ Cardinality(Free(p.fds)) < 2

ProcOK(p) ==
  /\ StageRuns(p)
  /\ InputIsTheLines(p) /\ GetsFile(p)
  /\ OneWriteEnd(p) /\ ClosesPipe(p)

\* A process that waits has started one whose program is missing and which
\* goes on as a shell, or it has started the youngest process, which still
\* is at the same stage and has the same write ends.
Started(k) ==
  \/ Missing(Command(procs[k]))
  \/ /\ k = Len(procs) - 1 /\ Top.pc \in {"child", "program"}
     /\ Command(Top) = Command(procs[k])
     /\ \A f \in Fds :
          procs[k].fds[f].kind = "write" => Top.fds[f] = procs[k].fds[f]

ShellInv ==
  /\ procs \in Seq(Procs)
  /\ \A k \in 1 .. Len(procs) :
       /\ ProcOK(procs[k])
       /\ procs[k].pc = "wait" <=> k < Len(procs)
       /\ k < Len(procs) => Started(k)
  /\ procs # <<>> /\ Top.pc = "program" => ~Missing(Command(Top))
-----------------------------------------------------------------------------
(***************************************************************************)
(* Numbers and sequences                                                   *)
(***************************************************************************)

LEMMA SmallestNat ==
  ASSUME NEW T \in SUBSET Nat, T # {}
  PROVE  Min(T) \in T /\ \A m \in T : Min(T) <= m
<1> DEFINE R == OpToRel(<, Nat)
<1>1. IsWellFoundedOn(R, Nat)
  BY NatLessThanWellFounded
<1> HIDE DEF R
<1>2. PICK n \in T : \A m \in T : ~ (<<m, n>> \in R)
  BY <1>1, WFMin
<1>3. \A m \in T : ~ (m < n)
  BY <1>2 DEF R, OpToRel
<1>4. \A m \in T : m \in Nat /\ n \in Nat
  OBVIOUS
<1>5. n \in T /\ \A m \in T : n <= m
  BY <1>3, <1>4
<1> QED BY <1>5 DEF Min

\* The first n elements of a sequence.
LEMMA FirstPart ==
  ASSUME NEW S, NEW s \in Seq(S), NEW n \in 0 .. Len(s)
  PROVE  /\ SubSeq(s, 1, n) \in Seq(S) /\ Len(SubSeq(s, 1, n)) = n
         /\ \A k \in 1 .. n : SubSeq(s, 1, n)[k] = s[k]
OBVIOUS

\* The youngest process is replaced.
LEMMA StepShape ==
  ASSUME NEW S, NEW s \in Seq(S), s # <<>>, NEW p \in S
  PROVE  LET t == Append(Front(s), p) IN
           /\ t \in Seq(S) /\ t # <<>> /\ Len(t) = Len(s) /\ Last(t) = p
           /\ t[Len(s)] = p /\ \A k \in 1 .. Len(s) - 1 : t[k] = s[k]
<1> DEFINE f == Front(s)
           t == Append(f, p)
<1>1. Len(s) \in Nat /\ Len(s) > 0
  OBVIOUS
<1>2. /\ f \in Seq(S) /\ Len(f) = Len(s) - 1
      /\ \A k \in 1 .. Len(s) - 1 : f[k] = s[k]
  <2>1. Len(s) - 1 \in 0 .. Len(s)
    BY <1>1
  <2>2. f = SubSeq(s, 1, Len(s) - 1)
    BY DEF Front
  <2> HIDE DEF f
  <2> QED BY <2>1, <2>2, FirstPart
<1> HIDE DEF f
<1>3. /\ t \in Seq(S) /\ Len(t) = Len(s)
      /\ t[Len(s)] = p /\ \A k \in 1 .. Len(s) - 1 : t[k] = s[k]
  BY <1>1, <1>2
<1>4. t # <<>>
  BY <1>1, <1>3
<1> QED BY <1>3, <1>4 DEF f, Last

\* It forks.
LEMMA ForkShape ==
  ASSUME NEW S, NEW s \in Seq(S), s # <<>>, NEW p \in S, NEW q \in S
  PROVE  LET t == Front(s) \o <<p, q>> IN
           /\ t \in Seq(S) /\ t # <<>> /\ Len(t) = Len(s) + 1 /\ Last(t) = q
           /\ t[Len(s) + 1] = q /\ t[Len(s)] = p
           /\ \A k \in 1 .. Len(s) - 1 : t[k] = s[k]
<1> DEFINE f == Front(s)
           t == f \o <<p, q>>
<1>1. Len(s) \in Nat /\ Len(s) > 0
  OBVIOUS
<1>2. /\ f \in Seq(S) /\ Len(f) = Len(s) - 1
      /\ \A k \in 1 .. Len(s) - 1 : f[k] = s[k]
  <2>1. Len(s) - 1 \in 0 .. Len(s)
    BY <1>1
  <2>2. f = SubSeq(s, 1, Len(s) - 1)
    BY DEF Front
  <2> HIDE DEF f
  <2> QED BY <2>1, <2>2, FirstPart
<1> HIDE DEF f
<1>3. /\ t \in Seq(S) /\ Len(t) = Len(s) + 1
      /\ t[Len(s)] = p /\ \A k \in 1 .. Len(s) - 1 : t[k] = s[k]
      /\ t[Len(s) + 1] = q
  BY <1>1, <1>2
<1>4. t # <<>>
  BY <1>1, <1>3
<1> QED BY <1>3, <1>4 DEF f, Last

\* It ends, and the one that waits for it is replaced.
LEMMA ExitShape ==
  ASSUME NEW S, NEW s \in Seq(S), Len(s) > 1, NEW p \in S
  PROVE  LET t == Append(SubSeq(s, 1, Len(s) - 2), p) IN
           /\ t \in Seq(S) /\ t # <<>> /\ Len(t) = Len(s) - 1 /\ Last(t) = p
           /\ t[Len(s) - 1] = p /\ \A k \in 1 .. Len(s) - 2 : t[k] = s[k]
<1> DEFINE f == SubSeq(s, 1, Len(s) - 2)
           t == Append(f, p)
<1>1. Len(s) \in Nat /\ Len(s) - 2 \in Nat
  OBVIOUS
<1>2. /\ f \in Seq(S) /\ Len(f) = Len(s) - 2
      /\ \A k \in 1 .. Len(s) - 2 : f[k] = s[k]
  <2>1. Len(s) - 2 \in 0 .. Len(s)
    BY <1>1
  <2> QED BY <2>1, FirstPart
<1> HIDE DEF f
<1>3. /\ t \in Seq(S) /\ Len(t) = Len(s) - 1
      /\ t[Len(s) - 1] = p /\ \A k \in 1 .. Len(s) - 2 : t[k] = s[k]
  BY <1>1, <1>2
<1>4. t # <<>>
  BY <1>1, <1>3
<1> QED BY <1>3, <1>4 DEF f, Last

-----------------------------------------------------------------------------
(***************************************************************************)
(* Descriptors                                                             *)
(***************************************************************************)

LEMMA FdsAreNumbers ==
  /\ Fds \subseteq Nat /\ 0 \in Fds /\ NoFd \notin Fds /\ 0 # NoFd
  /\ \A f \in Maybe : f > 0 => f \in Fds
BY StandardDescriptors DEF Fds, Maybe, NoFd

LEMMA FilesAreTyped ==
  /\ Terminal \in Files /\ InFile \in Files /\ OutFile \in Files /\ Closed \in Files
  /\ \A n \in Nat : ReadEnd(n) \in Files /\ WriteEnd(n) \in Files
BY DEF Terminal, InFile, OutFile, Closed, ReadEnd, WriteEnd, Files, Kinds

LEMMA LowestIsFree ==
  ASSUME NEW fds, Free(fds) # {}
  PROVE  /\ Min(Free(fds)) \in Fds /\ fds[Min(Free(fds))] = Closed
         /\ \A g \in Fds : fds[g] = Closed => Min(Free(fds)) <= g
<1>1. Free(fds) \in SUBSET Nat
  BY FdsAreNumbers DEF Free
<1> QED BY <1>1, SmallestNat DEF Free

LEMMA FreeIsFinite ==
  ASSUME NEW fds
  PROVE  IsFiniteSet(Free(fds))
<1>1. 0 \in Int /\ OpenMax - 1 \in Int
  BY StandardDescriptors
<1>2. IsFiniteSet(Fds)
  BY <1>1, FS_Interval DEF Fds
<1>3. Free(fds) \in SUBSET Fds
  BY DEF Free
<1> QED BY <1>2, <1>3, FS_Subset

LEMMA CloseIs ==
  ASSUME NEW fds \in [Fds -> Files], NEW f
  PROVE  /\ Close(fds, f) \in [Fds -> Files]
         /\ \A g \in Fds : Close(fds, f)[g] = IF g = f THEN Closed ELSE fds[g]
BY FilesAreTyped DEF Close

LEMMA DupIs ==
  ASSUME NEW fds \in [Fds -> Files], NEW f
  PROVE  /\ Dup(fds, f) \in [Fds -> Files]
         /\ \A g \in Fds : Dup(fds, f)[g] =
              IF g = 0 /\ f \in Fds /\ fds[f] # Closed THEN fds[f] ELSE fds[g]
BY FdsAreNumbers DEF Dup

LEMMA RedirectIs ==
  ASSUME NEW fds \in [Fds -> Files], NEW f
  PROVE  /\ Redirect(fds, f) \in [Fds -> Files]
         /\ \A g \in Fds : Redirect(fds, f)[g] =
              IF g = f THEN Closed
              ELSE IF g = 0 /\ f \in Fds /\ fds[f] # Closed THEN fds[f] ELSE fds[g]
<1> DEFINE d == Dup(fds, f)
<1>1. d \in [Fds -> Files]
  BY DupIs
<1>2. \A g \in Fds : d[g] = IF g = 0 /\ f \in Fds /\ fds[f] # Closed THEN fds[f] ELSE fds[g]
  BY DupIs
<1> HIDE DEF d
<1>3. /\ Close(d, f) \in [Fds -> Files]
      /\ \A g \in Fds : Close(d, f)[g] = IF g = f THEN Closed ELSE d[g]
  BY <1>1, CloseIs
<1>4. Redirect(fds, f) = Close(d, f)
  BY DEF Redirect, d
<1> QED BY <1>2, <1>3, <1>4

\* There are fewer descriptors than numbers to choose from.
LEMMA NewPipeIsNew ==
  ASSUME procs \in Seq(Procs)
  PROVE  /\ NewPipe \in Nat /\ NewPipe # 0
         /\ \A k \in 1 .. Len(procs) : \A f \in Fds : procs[k].fds[f].pipe # NewPipe
<1> DEFINE D == (1 .. Len(procs)) \X Fds
           N == 1 .. OpenMax * Len(procs) + 1
           h == [d \in D |-> procs[d[1]].fds[d[2]].pipe]
           used == {h[d] : d \in D}
           T == {n \in N : \A k \in DOMAIN procs : \A f \in Fds : procs[k].fds[f].pipe # n}
<1>0. Len(procs) \in Nat /\ OpenMax \in Nat /\ DOMAIN procs = 1 .. Len(procs)
  BY StandardDescriptors
<1>1. IsFiniteSet(1 .. Len(procs)) /\ Cardinality(1 .. Len(procs)) = Len(procs)
  BY <1>0, FS_Interval
<1>2. IsFiniteSet(Fds) /\ Cardinality(Fds) = OpenMax
  <2>1. IsFiniteSet(0 .. OpenMax - 1) /\ Cardinality(0 .. OpenMax - 1) = OpenMax
    <3>1. 0 \in Int /\ OpenMax - 1 \in Int /\ ~(0 > OpenMax - 1)
      BY StandardDescriptors
    <3>2. /\ IsFiniteSet(0 .. OpenMax - 1)
          /\ Cardinality(0 .. OpenMax - 1) = (OpenMax - 1) - 0 + 1
      BY <3>1, FS_Interval
    <3>3. (OpenMax - 1) - 0 + 1 = OpenMax
      BY <1>0
    <3> QED BY <3>2, <3>3
  <2> QED BY <2>1 DEF Fds
<1>3. IsFiniteSet(D) /\ Cardinality(D) = Len(procs) * OpenMax
  BY <1>1, <1>2, FS_Product
<1>4. IsFiniteSet(used) /\ Cardinality(used) <= Cardinality(D)
  <2>1. h \in Surjection(D, used)
    <3>1. h \in [D -> used]
      OBVIOUS
    <3>2. \A u \in used : \E d \in D : h[d] = u
      OBVIOUS
    <3> HIDE DEF D, h, used
    <3> QED BY <3>1, <3>2 DEF Surjection
  <2> HIDE DEF D, h, used
  <2> QED BY <1>3, <2>1, FS_Surjection
<1>5. IsFiniteSet(N) /\ Cardinality(N) = OpenMax * Len(procs) + 1
  <2>1. OpenMax * Len(procs) \in Nat
    BY <1>0
  <2>2. \A m \in Nat : IsFiniteSet(1 .. m + 1) /\ Cardinality(1 .. m + 1) = m + 1
    BY FS_Interval
  <2> QED BY <2>1, <2>2
<1>6. PICK n \in N : n \notin used
  <2>1. CASE N \subseteq used
    <3>1. Cardinality(N) <= Cardinality(used)
      <4> HIDE DEF N, used
      <4> QED BY <1>4, <2>1, FS_Subset
    <3>2. Cardinality(used) \in Nat
      BY <1>4, FS_CardinalityType
    <3>3. OpenMax * Len(procs) \in Nat /\ OpenMax * Len(procs) = Len(procs) * OpenMax
      BY <1>0
    <3> HIDE DEF used, N, D
    <3> QED BY <1>3, <1>4, <1>5, <3>1, <3>2, <3>3
  <2> QED BY <2>1
<1>7. n \in T
  <2> SUFFICES ASSUME NEW k \in 1 .. Len(procs), NEW f \in Fds
               PROVE  procs[k].fds[f].pipe # n
    BY <1>0
  <2>1. <<k, f>> \in D /\ h[<<k, f>>] = procs[k].fds[f].pipe
    OBVIOUS
  <2>2. h[<<k, f>>] \in used
    BY <2>1
  <2> QED BY <1>6, <2>1, <2>2
<1>8. T \in SUBSET Nat /\ T # {}
  <2>1. N \subseteq Nat
    OBVIOUS
  <2> QED BY <1>7, <2>1
<1>9. Min(T) \in T
  <2> HIDE DEF T
  <2> QED BY <1>8, SmallestNat
<1>10. Min(T) \in N /\ \A k \in DOMAIN procs : \A f \in Fds : procs[k].fds[f].pipe # Min(T)
  BY <1>9
<1>11. NewPipe = Min(T)
  BY DEF NewPipe
<1> HIDE DEF T
<1>12. Min(T) \in Nat /\ Min(T) # 0
  BY <1>0, <1>10
<1> QED BY <1>0, <1>10, <1>11, <1>12

-----------------------------------------------------------------------------
(***************************************************************************)
(* One process: what main and run_command do to it                         *)
(***************************************************************************)

NoWrites(p) == \A f \in Fds : p.fds[f].kind # "write"

LEMMA FieldsAreTyped ==
  ASSUME NEW p \in Procs
  PROVE  /\ p.pc \in {"prompt", "stage"} \cup Running
         /\ p.line \in Lines \cup {BlankLine} /\ p.i \in Nat
         /\ p.infile \in Lookup /\ p.infd \in Maybe
         /\ p.pipefd \in {<<>>} \cup (Maybe \X Maybe) /\ p.fds \in [Fds -> Files]
BY DEF Procs

\* The number of stages of a line.
LEMMA StagesAreCounted ==
  /\ Len(BlankLine.stages) = 0
  /\ \A l \in Lines \cup {BlankLine} : Len(l.stages) \in Nat
<1>1. \A s \in Seq(Commands) : Len(s) \in Nat
  OBVIOUS
<1>2. Len(BlankLine.stages) = 0 /\ BlankLine.stages \in Seq(Commands)
  BY DEF BlankLine
<1> QED BY <1>1, <1>2, ParsedLines

\* Only the program counter changes.
LEMMA PcChanges ==
  ASSUME NEW p \in Procs, NEW c \in {"prompt", "stage"} \cup Running
  PROVE  LET q == [p EXCEPT !.pc = c] IN
           /\ q \in Procs /\ q.pc = c
           /\ q.line = p.line /\ q.i = p.i /\ q.infile = p.infile
           /\ q.infd = p.infd /\ q.pipefd = p.pipefd /\ q.fds = p.fds
BY DEF Procs

LEMMA IdleHasNoWrites ==
  ASSUME NEW p \in Procs, ProcOK(p), p.pc \notin Running \/ IsLast(p)
  PROVE  NoWrites(p)
BY DEF ProcOK, OneWriteEnd, NoWrites

LEMMA AtPromptIs ==
  ASSUME NEW p \in Procs, NoWrites(p)
  PROVE  /\ AtPrompt(p) \in Procs /\ ProcOK(AtPrompt(p))
         /\ AtPrompt(p).pc = "prompt" /\ AtPrompt(p).fds = p.fds
<1> DEFINE q == AtPrompt(p)
<1>1. /\ q \in Procs /\ q.pc = "prompt" /\ q.infile = "none" /\ q.fds = p.fds
      /\ q.i = 0 /\ q.line = BlankLine
  <2>1. q = [p EXCEPT !.pc = "prompt", !.line = BlankLine, !.i = 0, !.infile = "none"]
    BY DEF AtPrompt, BlankLine
  <2> HIDE DEF q
  <2>2. 0 \in Nat /\ "none" \in Lookup /\ BlankLine \in Lines \cup {BlankLine}
    BY DEF Lookup
  <2>3. q \in Procs
    BY <2>1, <2>2 DEF Procs
  <2>4. /\ q.pc = "prompt" /\ q.infile = "none" /\ q.fds = p.fds
        /\ q.i = 0 /\ q.line = BlankLine
    BY <2>1 DEF Procs
  <2> QED BY <2>3, <2>4
<1> HIDE DEF q
<1>2. q.pc \notin Running /\ q.pc # "stage"
  BY <1>1 DEF Running
<1>3. StageRuns(q) /\ InputIsTheLines(q) /\ GetsFile(q) /\ ClosesPipe(q)
  BY <1>1, <1>2, StagesAreCounted
     DEF StageRuns, InputIsTheLines, GetsFile, ClosesPipe, Running
<1>4. OneWriteEnd(q)
  BY <1>1 DEF NoWrites, OneWriteEnd
<1> QED BY <1>1, <1>3, <1>4 DEF q, ProcOK

LEMMA NewLineIs ==
  ASSUME NEW p \in Procs, NoWrites(p), NEW l \in Lines
  PROVE  /\ NewLine(p, l) \in Procs /\ ProcOK(NewLine(p, l))
         /\ NewLine(p, l).pc = "stage" /\ NewLine(p, l).fds = p.fds
<1> DEFINE q == NewLine(p, l)
<1>1. l.infile \in Lookup
  BY ParsedLines
<1>2. /\ q \in Procs /\ q.pc = "stage" /\ q.infile = q.line.infile
      /\ q.infd = 0 /\ q.fds = p.fds /\ q.i = 0 /\ q.line = l
  BY <1>1, FdsAreNumbers DEF NewLine, Procs, Maybe
<1> HIDE DEF q
<1>3. q.pc \notin Running
  BY <1>2 DEF Running
<1>4. StageRuns(q) /\ InputIsTheLines(q) /\ GetsFile(q) /\ ClosesPipe(q)
  BY <1>2, <1>3, StagesAreCounted
     DEF StageRuns, InputIsTheLines, GetsFile, ClosesPipe, Running
<1>5. OneWriteEnd(q)
  BY <1>2 DEF NoWrites, OneWriteEnd
<1> QED BY <1>2, <1>4, <1>5 DEF q, ProcOK

LEMMA AfterBuiltinIs ==
  ASSUME NEW p \in Procs, ProcOK(p), p.pc = "stage", HasStage(p)
  PROVE  /\ AfterBuiltin(p) \in Procs /\ ProcOK(AfterBuiltin(p))
         /\ AfterBuiltin(p).pc = "stage" /\ AfterBuiltin(p).fds = p.fds
<1> DEFINE q == AfterBuiltin(p)
<1>1. p.i \in Nat /\ p.i < Len(p.line.stages) /\ Len(p.line.stages) \in Nat
  BY FieldsAreTyped, StagesAreCounted DEF HasStage
<1>2. p.i + 1 \in Nat /\ p.i + 1 # 0 /\ p.i + 1 <= Len(p.line.stages)
  BY <1>1
<1>3. /\ q \in Procs /\ q.pc = "stage" /\ q.infile = p.infile /\ q.line = p.line
      /\ q.i = p.i + 1 /\ q.fds = p.fds
  BY <1>2 DEF AfterBuiltin, Procs
<1> HIDE DEF q
<1>4. q.pc \notin Running /\ p.pc \notin Running
  BY <1>3 DEF Running
<1>5. StageRuns(q) /\ InputIsTheLines(q) /\ GetsFile(q) /\ ClosesPipe(q)
  BY <1>2, <1>3, <1>4
     DEF StageRuns, InputIsTheLines, GetsFile, ClosesPipe, Running, ProcOK
<1>6. OneWriteEnd(q)
  BY <1>3, <1>4 DEF OneWriteEnd, ProcOK
<1> QED BY <1>3, <1>5, <1>6 DEF q, ProcOK

\* The input file is opened and moved, or infd says that it was not.
LEMMA OpenInfileIs ==
  ASSUME NEW p \in Procs, NoWrites(p)
  PROVE  LET q == OpenInfile(p)
             f == Min(Free(p.fds)) IN
           /\ q \in Procs /\ NoWrites(q) /\ q.infile = "none"
           /\ q.pc = p.pc /\ q.line = p.line /\ q.i = p.i /\ q.pipefd = p.pipefd
           /\ \/ p.infile = "none" /\ q.fds = p.fds /\ q.infd = p.infd
              \/ p.infile # "none" /\ q.fds = p.fds /\ q.infd = NoFd
              \/ /\ p.infile = "there" /\ Free(p.fds) # {} /\ q.infd = f
                 /\ \A g \in Fds : q.fds[g] = IF g = f THEN Closed
                                              ELSE IF g = 0 THEN InFile ELSE p.fds[g]
<1> DEFINE q == OpenInfile(p)
           f == Min(Free(p.fds))
<1>1. p.infile \in Lookup /\ p.fds \in [Fds -> Files]
  BY FieldsAreTyped
<1>2. CASE p.infile = "none"
  BY <1>2 DEF OpenInfile
<1>3. CASE p.infile # "none" /\ OpenFails(p)
  <2>1. q = [p EXCEPT !.infile = "none", !.infd = NoFd]
    BY <1>3 DEF OpenInfile
  <2>2. /\ q \in Procs /\ q.infile = "none" /\ q.infd = NoFd
        /\ q.pc = p.pc /\ q.line = p.line /\ q.i = p.i /\ q.pipefd = p.pipefd
        /\ q.fds = p.fds
    BY <2>1 DEF Procs, Lookup, Maybe
  <2> HIDE DEF q
  <2>3. NoWrites(q)
    BY <2>2 DEF NoWrites
  <2> QED BY <1>3, <2>2, <2>3 DEF q
<1>4. CASE p.infile # "none" /\ ~OpenFails(p)
  <2>1. p.infile = "there" /\ Free(p.fds) # {}
    BY <1>1, <1>4 DEF OpenFails, Lookup
  <2>2. f \in Fds
    BY <2>1, LowestIsFree
  <2> DEFINE o == [p.fds EXCEPT ![f] = InFile]
             d == Redirect(o, f)
  <2>3. /\ o \in [Fds -> Files]
        /\ \A g \in Fds : o[g] = IF g = f THEN InFile ELSE p.fds[g]
    BY <1>1, <2>2, FilesAreTyped
  <2>4. InFile # Closed
    BY DEF InFile, Closed
  <2>5. q = [p EXCEPT !.infile = "none", !.infd = f, !.fds = d]
    BY <1>4, Zenon DEF OpenInfile
  <2> HIDE DEF o, f
  <2>6. /\ d \in [Fds -> Files]
        /\ \A g \in Fds : d[g] = IF g = f THEN Closed
                                 ELSE IF g = 0 /\ f \in Fds /\ o[f] # Closed THEN o[f] ELSE o[g]
    BY <2>3, RedirectIs
  <2> HIDE DEF d, q
  <2>7. \A g \in Fds : d[g] = IF g = f THEN Closed
                              ELSE IF g = 0 THEN InFile ELSE p.fds[g]
    BY <2>2, <2>3, <2>4, <2>6
  <2>8. /\ q \in Procs /\ q.infile = "none" /\ q.infd = f
        /\ q.pc = p.pc /\ q.line = p.line /\ q.i = p.i /\ q.pipefd = p.pipefd
        /\ q.fds = d
    BY <2>2, <2>5, <2>6 DEF Procs, Lookup, Maybe
  <2>9. NoWrites(q)
    BY <2>7, <2>8 DEF NoWrites, Closed, InFile
  <2> QED BY <2>1, <2>7, <2>8, <2>9 DEF q, f
<1> QED BY <1>2, <1>3, <1>4

\* The output file is opened, and infd replaces descriptor 0.
LEMMA LastStageIs ==
  ASSUME NEW p \in Procs, NoWrites(p)
  PROVE  LET q == LastStage(p)
             o == Min(Free(p.fds))
             opens == p.line.outfile = "there" /\ Free(p.fds) # {}
             opened == [g \in Fds |-> IF opens /\ g = o THEN OutFile ELSE p.fds[g]] IN
           /\ q \in Procs /\ NoWrites(q)
           /\ q.pc = p.pc /\ q.line = p.line /\ q.i = p.i /\ q.infile = p.infile
           /\ q.infd = p.infd /\ q.pipefd = p.pipefd
           /\ \A g \in Fds : q.fds[g] =
                IF g = 0 /\ p.infd \in Fds /\ opened[p.infd] # Closed
                THEN opened[p.infd] ELSE opened[g]
<1> DEFINE q == LastStage(p)
           o == Min(Free(p.fds))
           opens == p.line.outfile = "there" /\ Free(p.fds) # {}
           opened == [g \in Fds |-> IF opens /\ g = o THEN OutFile ELSE p.fds[g]]
           given == IF opens THEN [p.fds EXCEPT ![o] = OutFile] ELSE p.fds
           d == IF p.infd # 0 THEN Dup(given, p.infd) ELSE given
<1>1. p.fds \in [Fds -> Files] /\ p.infd \in Maybe
  BY FieldsAreTyped
<1>2. opens => o \in Fds
  BY LowestIsFree
<1> HIDE DEF o, opens
<1>3. opened \in [Fds -> Files] /\ given = opened
  BY <1>1, <1>2, FilesAreTyped
<1>4. q = [p EXCEPT !.fds = d]
  BY DEF LastStage, o, opens
<1>5. \A g \in Fds : opened[g].kind # "write"
  BY <1>1 DEF NoWrites, OutFile
<1> HIDE DEF opened, given
<1>6. /\ Dup(opened, p.infd) \in [Fds -> Files]
      /\ \A g \in Fds : Dup(opened, p.infd)[g] =
           IF g = 0 /\ p.infd \in Fds /\ opened[p.infd] # Closed
           THEN opened[p.infd] ELSE opened[g]
  BY <1>3, DupIs
<1>7. /\ d \in [Fds -> Files]
      /\ \A g \in Fds : d[g] =
           IF g = 0 /\ p.infd \in Fds /\ opened[p.infd] # Closed
           THEN opened[p.infd] ELSE opened[g]
  BY <1>3, <1>6, FdsAreNumbers
<1> HIDE DEF d, q
<1>8. /\ q \in Procs
      /\ q.pc = p.pc /\ q.line = p.line /\ q.i = p.i /\ q.infile = p.infile
      /\ q.infd = p.infd /\ q.pipefd = p.pipefd /\ q.fds = d
  BY <1>4, <1>7 DEF Procs
<1>9. NoWrites(q)
  BY <1>5, <1>7, <1>8, FdsAreNumbers DEF NoWrites
<1> QED BY <1>7, <1>8, <1>9 DEF q, opened, opens, o

\* The two ends of a new pipe, at the lowest free descriptors; or, without
\* room for them, only the variable pipefd.
LEMMA PipeStageIs ==
  ASSUME NEW p \in Procs, NEW q \in PipeStage(p), procs \in Seq(Procs)
  PROVE  /\ q \in Procs /\ q.pipefd # <<>>
         /\ q.pc = p.pc /\ q.line = p.line /\ q.i = p.i /\ q.infile = p.infile
         /\ q.infd = p.infd
         /\ \/ /\ q.pipefd[1] \in Fds /\ q.pipefd[2] \in Fds
               /\ q.pipefd[1] < q.pipefd[2]
               /\ p.fds[q.pipefd[1]] = Closed /\ p.fds[q.pipefd[2]] = Closed
               /\ \A g \in Fds :
                    q.fds[g] = IF g = q.pipefd[1] THEN ReadEnd(NewPipe)
                               ELSE IF g = q.pipefd[2] THEN WriteEnd(NewPipe)
                               ELSE p.fds[g]
            \/ q.fds = p.fds /\ Cardinality(Free(p.fds)) < 2
<1> DEFINE r == Min(Free(p.fds))
           w == Min(Free(p.fds) \ {r})
           two == Cardinality(Free(p.fds)) >= 2
           d == [[p.fds EXCEPT ![r] = ReadEnd(NewPipe)] EXCEPT ![w] = WriteEnd(NewPipe)]
<1>1. p.fds \in [Fds -> Files] /\ p.pipefd \in {<<>>} \cup (Maybe \X Maybe)
  BY FieldsAreTyped
<1>2. CASE two
  <2>1. Cardinality(Free(p.fds)) >= 2
    BY <1>2
  <2>2. Free(p.fds) # {} /\ Free(p.fds) \ {r} # {}
    <3> HIDE DEF r
    <3>1. Cardinality({}) = 0
      BY FS_EmptySet
    <3>2. Cardinality({r}) = 1
      BY FS_Singleton
    <3>3. ~(0 >= 2) /\ ~(1 >= 2)
      OBVIOUS
    <3>4. Free(p.fds) # {} /\ Free(p.fds) # {r}
      BY <2>1, <3>1, <3>2, <3>3
    <3> QED BY <3>4
  <2>3. r \in Free(p.fds) /\ \A g \in Free(p.fds) : r <= g
    <3>1. Free(p.fds) \in SUBSET Nat
      BY FdsAreNumbers DEF Free
    <3> QED BY <2>2, <3>1, SmallestNat
  <2>4. w \in Free(p.fds) \ {r}
    <3>1. Free(p.fds) \ {r} \in SUBSET Nat
      BY FdsAreNumbers DEF Free
    <3> HIDE DEF r
    <3> QED BY <2>2, <3>1, SmallestNat
  <2> HIDE DEF r, w
  <2>5. /\ r \in Fds /\ w \in Fds /\ r # w /\ r <= w
        /\ p.fds[r] = Closed /\ p.fds[w] = Closed
    BY <2>3, <2>4 DEF Free
  <2>6. r < w
    BY <2>5, FdsAreNumbers
  <2>7. ReadEnd(NewPipe) \in Files /\ WriteEnd(NewPipe) \in Files
    BY NewPipeIsNew, FilesAreTyped
  <2>8. /\ d \in [Fds -> Files]
        /\ \A g \in Fds : d[g] = IF g = r THEN ReadEnd(NewPipe)
                                 ELSE IF g = w THEN WriteEnd(NewPipe) ELSE p.fds[g]
    BY <1>1, <2>5, <2>7
  <2>9. q = [p EXCEPT !.pipefd = <<r, w>>, !.fds = d]
    BY <1>2 DEF PipeStage, r, w
  <2> HIDE DEF d
  <2>10. <<r, w>> \in Maybe \X Maybe
    BY <2>5 DEF Maybe
  <2>11. /\ q \in Procs /\ q.pipefd = <<r, w>> /\ q.fds = d
         /\ q.pc = p.pc /\ q.line = p.line /\ q.i = p.i /\ q.infile = p.infile
         /\ q.infd = p.infd
    BY <2>8, <2>9, <2>10 DEF Procs
  <2>12. q.pipefd[1] = r /\ q.pipefd[2] = w /\ q.pipefd # <<>>
    BY <2>11
  <2> QED BY <2>5, <2>6, <2>8, <2>11, <2>12
<1>3. CASE ~two
  <2> DEFINE E == IF p.pipefd = <<>> THEN (Fds \cup {NoFd}) \X (Fds \cup {NoFd})
                  ELSE {p.pipefd}
  <2>1. PICK ends \in E : q = [p EXCEPT !.pipefd = ends]
    BY <1>3 DEF PipeStage
  <2>2. ends \in Maybe \X Maybe
    BY <1>1, <2>1 DEF Maybe
  <2> HIDE DEF E
  <2>3. ends # <<>>
    <3>1. PICK a \in Maybe, b \in Maybe : ends = <<a, b>>
      BY <2>2
    <3>2. <<a, b>> # <<>>
      OBVIOUS
    <3> QED BY <3>1, <3>2
  <2>4. /\ q \in Procs /\ q.pipefd = ends /\ q.fds = p.fds
        /\ q.pc = p.pc /\ q.line = p.line /\ q.i = p.i /\ q.infile = p.infile
        /\ q.infd = p.infd
    BY <2>1, <2>2 DEF Procs
  <2>5. Cardinality(Free(p.fds)) < 2
    <3>1. Cardinality(Free(p.fds)) \in Nat
      BY FreeIsFinite, FS_CardinalityType
    <3> QED BY <1>3, <3>1
  <2> QED BY <2>3, <2>4, <2>5
<1> QED BY <1>2, <1>3

\* One turn of main's loop up to run_command: what it has prepared is fit
\* for the parent, for the child, and for a fork that fails.
SameData(s, q) ==
  /\ s.line = q.line /\ s.i = q.i /\ s.infile = q.infile
  /\ s.infd = q.infd /\ s.pipefd = q.pipefd /\ s.fds = q.fds

LEMMA PreparedIsTyped ==
  ASSUME NEW p \in Procs, ProcOK(p), p.pc = "stage", procs \in Seq(Procs),
         NEW q \in Prepared(p)
  PROVE  q \in Procs
<1> DEFINE a == OpenInfile(p)
<1>1. NoWrites(p)
  BY IdleHasNoWrites DEF Running
<1>2. a \in Procs /\ NoWrites(a)
  BY <1>1, OpenInfileIs
<1>3. q \in (IF IsLast(p) THEN {LastStage(a)} ELSE PipeStage(a))
  BY DEF Prepared
<1> HIDE DEF a
<1>4. CASE IsLast(p)
  BY <1>2, <1>3, <1>4, LastStageIs
<1>5. CASE ~IsLast(p)
  BY <1>2, <1>3, <1>5, PipeStageIs
<1> QED BY <1>4, <1>5

LEMMA PreparedIs ==
  ASSUME NEW p \in Procs, ProcOK(p), p.pc = "stage", HasStage(p),
         NEW q \in Prepared(p), procs \in Seq(Procs),
         \E k \in 1 .. Len(procs) : p = procs[k],
         NEW s \in Procs, SameData(s, q), s.pc \in {"wait", "child", "ran"}
  PROVE  /\ ProcOK(s) /\ s.line = p.line /\ s.i = p.i
         /\ q.fds[0] # p.fds[0] /\ p.fds[0] # Closed =>
              p.infile = "there" \/ (IsLast(p) /\ p.i > 0)
<1> DEFINE a == OpenInfile(p)
           f == Min(Free(p.fds))
<1>1. NoWrites(p)
  BY IdleHasNoWrites DEF Running
<1>2. /\ p.infile \in {"none", p.line.infile}
      /\ p.i = 0 => p.infile = p.line.infile /\ p.infd = 0
  BY DEF ProcOK, InputIsTheLines
<1>3. /\ a \in Procs /\ NoWrites(a) /\ a.infile = "none"
      /\ a.pc = p.pc /\ a.line = p.line /\ a.i = p.i /\ a.pipefd = p.pipefd
      /\ \/ p.infile = "none" /\ a.fds = p.fds /\ a.infd = p.infd
         \/ p.infile # "none" /\ a.fds = p.fds /\ a.infd = NoFd
         \/ /\ p.infile = "there" /\ Free(p.fds) # {} /\ a.infd = f
            /\ \A g \in Fds : a.fds[g] = IF g = f THEN Closed
                                         ELSE IF g = 0 THEN InFile ELSE p.fds[g]
  BY <1>1, OpenInfileIs, Zenon
<1>4. a.fds[0] # p.fds[0] => p.infile = "there"
  BY <1>3
<1>5. IsLast(a) <=> IsLast(p)
  BY <1>3 DEF IsLast
<1>6. q \in (IF IsLast(p) THEN {LastStage(a)} ELSE PipeStage(a))
  BY <1>5 DEF Prepared
<1>7. p.i \in Nat /\ p.infd \in Maybe
  BY FieldsAreTyped
<1> HIDE DEF a, f
<1>8. CASE IsLast(p)
  <2> DEFINE o == Min(Free(a.fds))
             opens == a.line.outfile = "there" /\ Free(a.fds) # {}
             opened == [g \in Fds |-> IF opens /\ g = o THEN OutFile ELSE a.fds[g]]
  <2>1. q = LastStage(a)
    BY <1>6, <1>8
  <2>2. /\ q \in Procs /\ NoWrites(q)
        /\ q.pc = a.pc /\ q.line = a.line /\ q.i = a.i /\ q.infile = a.infile
        /\ q.infd = a.infd /\ q.pipefd = a.pipefd
        /\ \A g \in Fds : q.fds[g] =
             IF g = 0 /\ a.infd \in Fds /\ opened[a.infd] # Closed
             THEN opened[a.infd] ELSE opened[g]
    BY <1>3, <2>1, LastStageIs, Zenon
  <2> HIDE DEF o, opens
  <2>3. \A g \in Fds : opened[g] = IF opens /\ g = o THEN OutFile ELSE a.fds[g]
    OBVIOUS
  <2> HIDE DEF opened
  <2>4. opens => o \in Fds /\ a.fds[o] = Closed /\ \A g \in Fds : a.fds[g] = Closed => o <= g
    BY LowestIsFree DEF o, opens
  <2>5. /\ s.line = p.line /\ s.i = p.i /\ s.infile = "none"
        /\ s.infd = a.infd /\ s.pipefd = p.pipefd /\ s.fds = q.fds
    BY <1>3, <2>2 DEF SameData
  <2>6. IsLast(s)
    BY <1>8, <2>5 DEF IsLast
  <2>7. /\ p.i = 0 /\ p.line.infile = "there" /\ s.infd > 0
        /\ p.line.outfile # "there"
        => q.fds[0] = InFile /\ q.fds[s.infd] = Closed
    <3> SUFFICES ASSUME p.i = 0, p.line.infile = "there", s.infd > 0,
                        p.line.outfile # "there"
                 PROVE  q.fds[0] = InFile /\ q.fds[s.infd] = Closed
      OBVIOUS
    <3>1. /\ Free(p.fds) # {} /\ a.infd = f /\ f > 0
          /\ \A g \in Fds : a.fds[g] = IF g = f THEN Closed
                                       ELSE IF g = 0 THEN InFile ELSE p.fds[g]
      BY <1>2, <1>3, <2>5, FdsAreNumbers DEF NoFd
    <3>2. f \in Fds /\ p.fds[f] = Closed /\ \A g \in Fds : p.fds[g] = Closed => f <= g
      BY <3>1, LowestIsFree DEF f
    <3>3. a.fds[f] = Closed /\ a.fds[0] = InFile
      BY <3>1, <3>2, FdsAreNumbers
    <3>4. ~opens
      BY <1>3 DEF opens
    <3>5. opened[f] = Closed /\ opened[0] = InFile
      BY <2>3, <3>2, <3>3, <3>4, FdsAreNumbers
    <3> QED BY <2>2, <2>5, <3>1, <3>2, <3>5, FdsAreNumbers
  <2>8. q.fds[0] # p.fds[0] /\ p.fds[0] # Closed =>
          p.infile = "there" \/ (IsLast(p) /\ p.i > 0)
    <3> SUFFICES ASSUME p.infile # "there", p.i = 0, p.fds[0] # Closed
                 PROVE  q.fds[0] = p.fds[0]
      BY <1>7, <1>8
    <3>1. a.fds = p.fds /\ a.infd \in {0, NoFd}
      BY <1>2, <1>3
    <3>2. opened[0] = p.fds[0]
      BY <2>3, <2>4, <3>1, FdsAreNumbers
    <3> QED BY <2>2, <3>1, <3>2, FdsAreNumbers
  <2>9. StageRuns(s) /\ InputIsTheLines(s) /\ ClosesPipe(s)
    BY <2>5, <2>6 DEF ProcOK, StageRuns, InputIsTheLines, ClosesPipe, HasStage
  <2>10. GetsFile(s)
    BY <2>5, <2>7 DEF GetsFile
  <2>11. OneWriteEnd(s)
    BY <2>2, <2>5 DEF OneWriteEnd, NoWrites
  <2> QED BY <2>5, <2>8, <2>9, <2>10, <2>11 DEF ProcOK
<1>9. CASE ~IsLast(p)
  <2> DEFINE n == NewPipe
             r == q.pipefd[1]
             w == q.pipefd[2]
  <2>1. q \in PipeStage(a)
    BY <1>6, <1>9
  <2>2. /\ q \in Procs /\ q.pipefd # <<>>
        /\ q.pc = a.pc /\ q.line = a.line /\ q.i = a.i /\ q.infile = a.infile
        /\ q.infd = a.infd
        /\ \/ /\ r \in Fds /\ w \in Fds /\ r < w
              /\ a.fds[r] = Closed /\ a.fds[w] = Closed
              /\ \A g \in Fds : q.fds[g] = IF g = r THEN ReadEnd(n)
                                           ELSE IF g = w THEN WriteEnd(n) ELSE a.fds[g]
           \/ q.fds = a.fds /\ Cardinality(Free(a.fds)) < 2
    BY <1>3, <2>1, PipeStageIs, Zenon
  <2>3. /\ s.line = p.line /\ s.i = p.i /\ s.infile = "none"
        /\ s.infd = a.infd /\ s.pipefd = q.pipefd /\ s.fds = q.fds
    BY <1>3, <2>2 DEF SameData
  <2>4. ~IsLast(s)
    BY <1>9, <2>3 DEF IsLast
  <2>5. q.fds[0] # p.fds[0] /\ p.fds[0] # Closed => p.infile = "there"
    BY <1>3, <1>4, <2>2, FdsAreNumbers
  <2>6. /\ n \in Nat /\ n # 0
        /\ \A g \in Fds : a.fds[g].pipe # n
    <3>1. n \in Nat /\ n # 0 /\ InFile.pipe = 0 /\ Closed.pipe = 0
      BY NewPipeIsNew DEF InFile, Closed
    <3>2. \A g \in Fds : p.fds[g].pipe # n
      BY NewPipeIsNew
    <3> QED BY <1>3, <3>1, <3>2
  <2> HIDE DEF n, r, w
  <2>7. StageRuns(s) /\ InputIsTheLines(s) /\ GetsFile(s)
    BY <2>2, <2>3, <2>4 DEF ProcOK, StageRuns, InputIsTheLines, GetsFile, HasStage
  <2>8. ClosesPipe(s)
    <3>1. w # 0 \/ Cardinality(Free(s.fds)) < 2
      <4>1. r \in Fds /\ w \in Fds /\ r < w => w # 0
        BY FdsAreNumbers
      <4>2. q.fds = a.fds => Free(s.fds) = Free(a.fds)
        BY <2>3
      <4> QED BY <2>2, <4>1, <4>2, Zenon
    <3> QED BY <2>3, <3>1 DEF ClosesPipe, w
  <2>9. OneWriteEnd(s)
    <3> SUFFICES ASSUME NEW g \in Fds, s.fds[g].kind = "write"
                 PROVE  /\ s.pc \in Running /\ ~IsLast(s)
                        /\ s.pipefd[2] = g /\ s.pipefd[1] \in Fds /\ s.pipefd[1] < g
                        /\ \A h \in Fds :
                             s.fds[h] = ReadEnd(s.fds[g].pipe) <=> h = s.pipefd[1]
      BY DEF OneWriteEnd
    <3>1. /\ r \in Fds /\ w \in Fds /\ r < w
          /\ \A h \in Fds : s.fds[h] = IF h = r THEN ReadEnd(n)
                                       ELSE IF h = w THEN WriteEnd(n) ELSE a.fds[h]
      BY <1>3, <2>2, <2>3 DEF NoWrites
    <3>2. g = w
      BY <1>3, <3>1 DEF NoWrites, ReadEnd
    <3>3. s.fds[w].pipe = n /\ WriteEnd(n) # ReadEnd(n) /\ ReadEnd(n).pipe = n
      BY <3>1, FdsAreNumbers DEF WriteEnd, ReadEnd
    <3>4. \A h \in Fds : s.fds[h] = ReadEnd(n) <=> h = r
      BY <2>6, <3>1, <3>3
    <3>5. s.pc \in Running
      BY DEF Running
    <3> QED BY <2>3, <2>4, <3>1, <3>2, <3>3, <3>4, <3>5 DEF r, w
  <2> QED BY <2>3, <2>5, <2>7, <2>8, <2>9 DEF ProcOK
<1> QED BY <1>8, <1>9

\* A child that has found its program: it keeps the write ends it has.
LEMMA ExecIs ==
  ASSUME NEW p \in Procs, ProcOK(p), p.pc = "child"
  PROVE  LET q == IF ByPath(Command(p)) THEN p ELSE MoveStdin(p)
             s == [q EXCEPT !.pc = "program"] IN
           /\ s \in Procs /\ ProcOK(s) /\ s.pc = "program"
           /\ Command(s) = Command(p)
           /\ \A f \in Fds : p.fds[f].kind = "write" => s.fds[f] = p.fds[f]
<1> DEFINE q == IF ByPath(Command(p)) THEN p ELSE MoveStdin(p)
           s == [q EXCEPT !.pc = "program"]
           in == IF IsLast(p) THEN p.infd ELSE p.pipefd[1]
           B == ByPath(Command(p)) \/ in = 0
<1>1. /\ p.fds \in [Fds -> Files] /\ p.i \in Nat
      /\ p.pipefd \in {<<>>} \cup (Maybe \X Maybe) /\ p.infd \in Maybe
  BY FieldsAreTyped
<1>2. HasStage(p) /\ (IsLast(p) \/ p.pipefd # <<>>)
  BY DEF ProcOK, StageRuns, Running
<1>3. q = IF B THEN p ELSE [p EXCEPT !.fds = Redirect(p.fds, in)]
  BY DEF MoveStdin
<1>4. /\ Redirect(p.fds, in) \in [Fds -> Files]
      /\ \A g \in Fds : Redirect(p.fds, in)[g] =
           IF g = in THEN Closed
           ELSE IF g = 0 /\ in \in Fds /\ p.fds[in] # Closed THEN p.fds[in] ELSE p.fds[g]
  BY <1>1, RedirectIs
<1> HIDE DEF in, q
<1>5. /\ q \in Procs /\ q.line = p.line /\ q.i = p.i /\ q.infile = p.infile
      /\ q.infd = p.infd /\ q.pipefd = p.pipefd
      /\ q.fds = IF B THEN p.fds ELSE Redirect(p.fds, in)
  BY <1>3, <1>4 DEF Procs
<1>6. /\ s \in Procs /\ s.pc = "program" /\ s.line = p.line /\ s.i = p.i
      /\ s.infile = p.infile /\ s.infd = p.infd /\ s.pipefd = p.pipefd
      /\ s.fds = q.fds
  <2>1. "program" \in {"prompt", "stage"} \cup Running
    BY DEF Running
  <2> QED BY <1>5, <2>1, PcChanges
<1>7. \A g \in Fds : s.fds[g] =
        IF B THEN p.fds[g]
        ELSE IF g = in THEN Closed
        ELSE IF g = 0 /\ in \in Fds /\ p.fds[in] # Closed THEN p.fds[in] ELSE p.fds[g]
  BY <1>4, <1>5, <1>6
<1> HIDE DEF s, B
<1>8. (IsLast(s) <=> IsLast(p)) /\ Command(s) = Command(p) /\ HasStage(s)
  BY <1>2, <1>6 DEF IsLast, Command, HasStage
<1>9. StageRuns(s) /\ InputIsTheLines(s) /\ ClosesPipe(s)
  BY <1>2, <1>6, <1>8 DEF StageRuns, InputIsTheLines, ClosesPipe, Running, ProcOK
<1>10. GetsFile(s)
  <2> SUFFICES ASSUME s.i = 0, IsLast(s), s.line.infile = "there", s.infd > 0,
                      s.line.outfile # "there"
               PROVE  s.fds[0] = InFile
    BY <1>6 DEF GetsFile
  <2>1. p.fds[0] = InFile /\ p.fds[p.infd] = Closed
    BY <1>6, <1>8 DEF ProcOK, GetsFile
  <2>2. in = p.infd /\ in \in Fds /\ in # 0 /\ 0 \in Fds
    BY <1>1, <1>6, <1>8, FdsAreNumbers DEF in
  <2> QED BY <1>7, <2>1, <2>2
<1>11. \A f \in Fds : s.fds[f].kind = "write" <=> p.fds[f].kind = "write"
  <2> SUFFICES ASSUME NEW f \in Fds
               PROVE  s.fds[f].kind = "write" <=> p.fds[f].kind = "write"
    OBVIOUS
  <2>1. Closed.kind # "write"
    BY DEF Closed
  <2>2. \A g \in Fds : p.fds[g].kind = "write" =>
          /\ ~IsLast(p) /\ p.pipefd[2] = g
          /\ p.pipefd[1] \in Fds /\ p.pipefd[1] < g
    BY DEF ProcOK, OneWriteEnd
  <2>3. in \in Fds => p.fds[in].kind # "write"
    BY <2>2, FdsAreNumbers DEF in
  <2>4. ASSUME p.fds[f].kind = "write" PROVE f # in /\ f # 0
    <3>1. ~IsLast(p) /\ p.pipefd[1] \in Fds /\ p.pipefd[1] < f
      BY <2>2, <2>4
    <3>2. in = p.pipefd[1]
      BY <3>1 DEF in
    <3>3. \A m, n \in Fds : m < n => n # m /\ n # 0
      BY FdsAreNumbers
    <3> QED BY <3>1, <3>2, <3>3, Zenon
  <2> QED BY <1>7, <2>1, <2>3, <2>4
<1>12. \A f \in Fds : p.fds[f].kind = "write" => s.fds[f] = p.fds[f]
  <2> SUFFICES ASSUME NEW f \in Fds, p.fds[f].kind = "write"
               PROVE  s.fds[f] = p.fds[f]
    OBVIOUS
  <2>1. /\ ~IsLast(p) /\ p.pipefd[1] \in Fds /\ p.pipefd[1] < f
    BY DEF ProcOK, OneWriteEnd
  <2>2. in = p.pipefd[1] /\ f # in /\ f # 0
    BY <2>1, FdsAreNumbers DEF in
  <2> QED BY <1>7, <2>2
<1>13. OneWriteEnd(s)
  <2> SUFFICES ASSUME NEW f \in Fds, s.fds[f].kind = "write"
               PROVE  /\ s.pc \in Running /\ ~IsLast(s)
                      /\ s.pipefd[2] = f /\ s.pipefd[1] \in Fds /\ s.pipefd[1] < f
                      /\ ByPath(Command(s)) =>
                           \A g \in Fds :
                             s.fds[g] = ReadEnd(s.fds[f].pipe) <=> g = s.pipefd[1]
    BY <1>6 DEF OneWriteEnd
  <2>1. p.fds[f].kind = "write" /\ s.fds[f] = p.fds[f]
    BY <1>11, <1>12
  <2>2. /\ ~IsLast(p)
        /\ p.pipefd[2] = f /\ p.pipefd[1] \in Fds /\ p.pipefd[1] < f
        /\ \A g \in Fds : p.fds[g] = ReadEnd(p.fds[f].pipe) <=> g = p.pipefd[1]
    BY <2>1 DEF ProcOK, OneWriteEnd
  <2>3. ByPath(Command(s)) => \A g \in Fds : s.fds[g] = p.fds[g]
    BY <1>7, <1>8 DEF B
  <2> QED BY <1>6, <1>8, <2>1, <2>2, <2>3 DEF Running
<1> QED BY <1>6, <1>8, <1>9, <1>10, <1>12, <1>13 DEF s, q, ProcOK

\* The child of a program that is missing is back in main; a process that
\* has waited is, too.
LEMMA BackInMain ==
  ASSUME NEW p \in Procs, ProcOK(p), p.pc \in {"wait", "child"}
  PROVE  LET q == [p EXCEPT !.pc = "ran"] IN
           q \in Procs /\ ProcOK(q) /\ q.pc = "ran" /\ q.fds = p.fds
<1> DEFINE q == [p EXCEPT !.pc = "ran"]
<1>1. "ran" \in {"prompt", "stage"} \cup Running
  BY DEF Running
<1>2. /\ q \in Procs /\ q.pc = "ran" /\ q.line = p.line /\ q.i = p.i
      /\ q.infile = p.infile /\ q.infd = p.infd /\ q.pipefd = p.pipefd
      /\ q.fds = p.fds
  BY <1>1, PcChanges
<1> HIDE DEF q
<1>3. /\ IsLast(q) <=> IsLast(p)
      /\ Command(q) = Command(p) /\ (HasStage(q) <=> HasStage(p))
  BY <1>2 DEF IsLast, Command, HasStage
<1>4. StageRuns(q) /\ InputIsTheLines(q) /\ GetsFile(q)
  BY <1>2, <1>3 DEF ProcOK, StageRuns, InputIsTheLines, GetsFile, Running
<1>5. ClosesPipe(q)
  BY <1>2, <1>3 DEF ProcOK, ClosesPipe, Running
<1>6. OneWriteEnd(q)
  BY <1>2, <1>3 DEF ProcOK, OneWriteEnd, Running
<1> QED BY <1>2, <1>4, <1>5, <1>6 DEF q, ProcOK

\* The end of a stage that is not the last one.
LEMMA AfterStageIs ==
  ASSUME NEW p \in Procs, ProcOK(p), p.pc = "ran", ~IsLast(p)
  PROVE  LET q == AfterStage(p) IN
           /\ q \in Procs /\ ProcOK(q) /\ q.pc = "stage"
           /\ q.fds[0] # p.fds[0] => p.pipefd[2] = 0 /\ Cardinality(Free(p.fds)) < 2
<1> DEFINE q == AfterStage(p)
           d == Close(p.fds, p.pipefd[2])
<1>1. /\ p.fds \in [Fds -> Files] /\ p.i \in Nat
      /\ p.pipefd \in {<<>>} \cup (Maybe \X Maybe)
  BY FieldsAreTyped
<1>2. HasStage(p) /\ p.pipefd # <<>>
  BY DEF ProcOK, StageRuns, Running
<1>3. p.pipefd[1] \in Maybe /\ p.pipefd[2] \in Maybe
  BY <1>1, <1>2
<1>4. p.i + 1 \in Nat /\ p.i + 1 # 0 /\ p.i + 1 <= Len(p.line.stages)
  <2>1. Len(p.line.stages) \in Nat
    BY FieldsAreTyped, StagesAreCounted
  <2> QED BY <1>1, <1>2, <2>1 DEF HasStage
<1>5. /\ d \in [Fds -> Files]
      /\ \A g \in Fds : d[g] = IF g = p.pipefd[2] THEN Closed ELSE p.fds[g]
  BY <1>1, CloseIs
<1>6. q = [p EXCEPT !.pc = "stage", !.fds = d, !.infd = p.pipefd[1], !.i = p.i + 1]
  BY DEF AfterStage
<1> HIDE DEF d, q
<1>7. /\ q \in Procs /\ q.pc = "stage" /\ q.line = p.line /\ q.i = p.i + 1
      /\ q.infile = p.infile /\ q.fds = d
  BY <1>3, <1>4, <1>5, <1>6 DEF Procs
<1>8. NoWrites(q)
  <2>1. \A f \in Fds : p.fds[f].kind = "write" => f = p.pipefd[2]
    BY DEF ProcOK, OneWriteEnd
  <2> QED BY <1>5, <1>7, <2>1 DEF NoWrites, Closed
<1>9. StageRuns(q) /\ InputIsTheLines(q) /\ GetsFile(q) /\ ClosesPipe(q) /\ OneWriteEnd(q)
  BY <1>4, <1>7, <1>8 DEF ProcOK, StageRuns, InputIsTheLines, GetsFile, ClosesPipe,
                          OneWriteEnd, NoWrites, Running
<1>10. p.pipefd[2] # 0 \/ Cardinality(Free(p.fds)) < 2
  BY DEF ProcOK, ClosesPipe, Running
<1>11. q.fds[0] # p.fds[0] => p.pipefd[2] = 0
  BY <1>5, <1>7, FdsAreNumbers
<1> QED BY <1>7, <1>9, <1>10, <1>11 DEF q, ProcOK

-----------------------------------------------------------------------------
(***************************************************************************)
(* The stack of processes                                                  *)
(***************************************************************************)

LEMMA TopIs ==
  ASSUME ShellInv, procs # <<>>
  PROVE  /\ Len(procs) \in Nat /\ Len(procs) > 0 /\ Len(procs) \in 1 .. Len(procs)
         /\ Top = procs[Len(procs)] /\ Top \in Procs /\ ProcOK(Top)
         /\ Top.pc \in {"prompt", "stage", "child", "program", "ran"}
<1>1. /\ Len(procs) \in Nat /\ Len(procs) > 0 /\ Len(procs) \in 1 .. Len(procs)
      /\ procs[Len(procs)] \in Procs
  BY DEF ShellInv
<1>2. Top = procs[Len(procs)]
  BY DEF Top, Last
<1>3. ProcOK(Top) /\ Top.pc # "wait"
  BY <1>1, <1>2 DEF ShellInv
<1>4. Top.pc \in {"prompt", "stage"} \cup Running
  BY <1>1, <1>2, FieldsAreTyped
<1> QED BY <1>1, <1>2, <1>3, <1>4 DEF Running

\* The youngest process goes on as p.  What the one that waits for it has
\* started is this process as before.
LEMMA StepKeepsInv ==
  ASSUME ShellInv, procs # <<>>,
         NEW p \in Procs, ProcOK(p), p.pc # "wait", Step(p),
         p.pc = "program" => ~Missing(Command(p)),
         \/ Top.pc \in {"prompt", "stage", "ran"}
         \/ Missing(Command(Top)) /\ Command(p) = Command(Top)
         \/ /\ p.pc = "program" /\ Command(p) = Command(Top)
            /\ \A f \in Fds : Top.fds[f].kind = "write" => p.fds[f] = Top.fds[f]
  PROVE  ShellInv'
<1> DEFINE n == Len(procs)
<1>1. /\ procs \in Seq(Procs) /\ n \in Nat /\ n > 0 /\ Top = procs[n]
  BY TopIs DEF ShellInv
<1>2. /\ procs' \in Seq(Procs) /\ procs' # <<>> /\ Len(procs') = n /\ Top' = p
      /\ procs'[n] = p /\ \A k \in 1 .. n - 1 : procs'[k] = procs[k]
  BY <1>1, StepShape DEF Step, Top
<1>3. ASSUME NEW k \in 1 .. n - 1 PROVE Started(k)'
  <2>1. procs'[k] = procs[k] /\ k \in 1 .. n /\ k < n
    BY <1>1, <1>2
  <2>2. Started(k)
    BY <2>1 DEF ShellInv
  <2>3. CASE Missing(Command(procs[k]))
    <3>1. Missing(Command(procs'[k]))
      BY <2>1, <2>3
    <3> QED BY <3>1 DEF Started
  <2>4. CASE ~Missing(Command(procs[k]))
    <3>1. /\ k = n - 1 /\ Top.pc \in {"child", "program"}
          /\ Command(Top) = Command(procs[k])
          /\ \A f \in Fds : procs[k].fds[f].kind = "write" => Top.fds[f] = procs[k].fds[f]
      BY <2>2, <2>4 DEF Started
    <3>2. /\ p.pc = "program" /\ Command(p) = Command(Top)
          /\ \A f \in Fds : Top.fds[f].kind = "write" => p.fds[f] = Top.fds[f]
      BY <2>4, <3>1
    <3>3. \A f \in Fds : procs[k].fds[f].kind = "write" => p.fds[f] = procs[k].fds[f]
      BY <3>1, <3>2
    <3>4. /\ k = Len(procs') - 1 /\ Top'.pc \in {"child", "program"}
          /\ Command(Top') = Command(procs'[k])
          /\ \A f \in Fds : procs'[k].fds[f].kind = "write" => Top'.fds[f] = procs'[k].fds[f]
      BY <1>2, <2>1, <3>1, <3>2, <3>3
    <3> QED BY <3>4 DEF Started
  <2> QED BY <2>3, <2>4
<1>4. ASSUME NEW k \in 1 .. n
      PROVE  ProcOK(procs'[k]) /\ (procs'[k].pc = "wait" <=> k < n)
  <2>1. CASE k = n
    BY <1>1, <1>2, <2>1
  <2>2. CASE k # n
    <3>1. k \in 1 .. n - 1 /\ k < n /\ procs'[k] = procs[k]
      BY <1>1, <1>2, <2>2
    <3> QED BY <3>1 DEF ShellInv
  <2> QED BY <2>1, <2>2
<1>5. \A k \in 1 .. n : k < n => k \in 1 .. n - 1
  BY <1>1
<1>6. \A k \in 1 .. Len(procs') :
        /\ ProcOK(procs'[k])
        /\ procs'[k].pc = "wait" <=> k < Len(procs')
        /\ k < Len(procs') => Started(k)'
  <2> HIDE DEF n
  <2> QED BY <1>2, <1>3, <1>4, <1>5
<1>7. Top'.pc = "program" => ~Missing(Command(Top'))
  BY <1>2
<1> QED BY <1>2, <1>6, <1>7, Zenon DEF ShellInv

\* The youngest process ends.
LEMMA ExitKeepsInv ==
  ASSUME ShellInv, procs # <<>>, Exit
  PROVE  ShellInv'
<1> DEFINE n == Len(procs)
           p == [procs[n - 1] EXCEPT !.pc = "ran"]
<1>1. procs \in Seq(Procs) /\ n \in Nat /\ n > 0 /\ Top = procs[n]
  BY TopIs DEF ShellInv
<1>2. CASE n = 1
  <2>1. procs' = <<>>
    BY <1>2 DEF Exit
  <2>2. procs' \in Seq(Procs) /\ Len(procs') = 0
    BY <2>1
  <2>3. 1 .. Len(procs') = {}
    BY <2>2
  <2> QED BY <2>1, <2>2, <2>3 DEF ShellInv
<1>3. CASE n # 1
  <2>1. n > 1 /\ n - 1 \in 1 .. n /\ n - 1 < n
    <3> HIDE DEF n
    <3> QED BY <1>1, <1>3
  <2>2. procs[n - 1] \in Procs /\ ProcOK(procs[n - 1]) /\ procs[n - 1].pc = "wait"
    BY <1>1, <2>1 DEF ShellInv
  <2>3. p \in Procs /\ ProcOK(p) /\ p.pc = "ran"
    BY <2>2, BackInMain
  <2>4. procs' = Append(SubSeq(procs, 1, n - 2), p)
    BY <1>3 DEF Exit
  <2> HIDE DEF p
  <2>5. /\ procs' \in Seq(Procs) /\ procs' # <<>> /\ Len(procs') = n - 1 /\ Top' = p
        /\ procs'[n - 1] = p /\ \A k \in 1 .. n - 2 : procs'[k] = procs[k]
    BY <1>1, <2>1, <2>3, <2>4, ExitShape DEF Top
  <2>6. ASSUME NEW k \in 1 .. n - 2
        PROVE  /\ ProcOK(procs'[k]) /\ procs'[k].pc = "wait" /\ Started(k)'
    <3>1. k \in 1 .. n /\ k < n /\ k # n - 1 /\ procs'[k] = procs[k]
      BY <1>1, <2>5
    <3>2. ProcOK(procs[k]) /\ procs[k].pc = "wait" /\ Started(k)
      BY <3>1 DEF ShellInv
    <3>3. Missing(Command(procs[k]))
      BY <3>1, <3>2 DEF Started
    <3>4. Missing(Command(procs'[k]))
      BY <3>1, <3>3
    <3> QED BY <3>1, <3>2, <3>4 DEF Started
  <2>7. \A k \in 1 .. n - 1 : /\ k < n - 1 => k \in 1 .. n - 2
                              /\ k \notin 1 .. n - 2 => k = n - 1
                              /\ ~(n - 1 < n - 1)
    BY <1>1, <2>1
  <2>8. \A k \in 1 .. Len(procs') :
          /\ ProcOK(procs'[k])
          /\ procs'[k].pc = "wait" <=> k < Len(procs')
          /\ k < Len(procs') => Started(k)'
    <3> SUFFICES ASSUME NEW k \in 1 .. n - 1
                 PROVE  /\ ProcOK(procs'[k])
                        /\ procs'[k].pc = "wait" <=> k < n - 1
                        /\ k < n - 1 => Started(k)'
      BY <2>5, Zenon
    <3>1. CASE k \in 1 .. n - 2
      <4>1. k < n - 1
        BY <1>1, <3>1
      <4> QED BY <2>6, <3>1, <4>1
    <3>2. CASE k = n - 1
      BY <2>3, <2>5, <2>7, <3>2
    <3> QED BY <2>7, <3>1, <3>2
  <2> QED BY <2>3, <2>5, <2>8, Zenon DEF ShellInv
<1> QED BY <1>2, <1>3

\* It forks: p waits, q is the child.
LEMMA ForkKeepsInv ==
  ASSUME ShellInv, procs # <<>>, Top.pc = "stage",
         NEW p \in Procs, ProcOK(p), p.pc = "wait",
         NEW q \in Procs, ProcOK(q), q.pc = "child",
         Command(q) = Command(p), q.fds = p.fds,
         procs' = Front(procs) \o <<p, q>>
  PROVE  ShellInv'
<1> DEFINE n == Len(procs)
<1>1. procs \in Seq(Procs) /\ n \in Nat /\ n > 0 /\ Top = procs[n]
  BY TopIs DEF ShellInv
<1>2. /\ procs' \in Seq(Procs) /\ procs' # <<>> /\ Len(procs') = n + 1 /\ Top' = q
      /\ procs'[n + 1] = q /\ procs'[n] = p
      /\ \A k \in 1 .. n - 1 : procs'[k] = procs[k]
  BY <1>1, ForkShape DEF Top
<1>3. ASSUME NEW k \in 1 .. n - 1
      PROVE  ProcOK(procs'[k]) /\ procs'[k].pc = "wait" /\ Started(k)'
  <2>1. k \in 1 .. n /\ k < n /\ procs'[k] = procs[k]
    BY <1>1, <1>2
  <2>2. ProcOK(procs[k]) /\ procs[k].pc = "wait" /\ Started(k)
    BY <2>1 DEF ShellInv
  <2>3. Missing(Command(procs[k]))
    BY <2>2 DEF Started
  <2>4. Missing(Command(procs'[k]))
    BY <2>1, <2>3
  <2> QED BY <2>1, <2>2, <2>4 DEF Started
<1>4. ASSUME NEW k, k = n PROVE Started(k)'
  <2>1. /\ k = Len(procs') - 1 /\ Top'.pc \in {"child", "program"}
        /\ Command(Top') = Command(procs'[k])
        /\ \A f \in Fds : procs'[k].fds[f].kind = "write" => Top'.fds[f] = procs'[k].fds[f]
    BY <1>1, <1>2, <1>4
  <2> QED BY <2>1 DEF Started
<1>5. \A k \in 1 .. Len(procs') :
        /\ ProcOK(procs'[k])
        /\ procs'[k].pc = "wait" <=> k < Len(procs')
        /\ k < Len(procs') => Started(k)'
  <2> SUFFICES ASSUME NEW k \in 1 .. n + 1
               PROVE  /\ ProcOK(procs'[k])
                      /\ procs'[k].pc = "wait" <=> k < n + 1
                      /\ k < n + 1 => Started(k)'
    BY <1>2, Zenon
  <2>1. CASE k \in 1 .. n - 1
    <3>1. k < n + 1
      BY <1>1, <2>1
    <3> QED BY <1>3, <2>1, <3>1
  <2>2. CASE k = n
    <3>1. k < n + 1
      BY <1>1, <2>2
    <3> QED BY <1>2, <1>4, <2>2, <3>1
  <2>3. CASE k = n + 1
    <3>1. ~(k < n + 1)
      BY <1>1, <2>3
    <3> QED BY <1>2, <2>3, <3>1
  <2>4. k \in 1 .. n - 1 \/ k = n \/ k = n + 1
    BY <1>1
  <2> QED BY <2>1, <2>2, <2>3, <2>4
<1> QED BY <1>2, <1>5, Zenon DEF ShellInv

LEMMA InitHasInv ==
  ASSUME Init
  PROVE  ShellInv
<1> DEFINE d == [f \in Fds |-> IF f <= 2 THEN Terminal ELSE Closed]
           p == AtPrompt([pc |-> "prompt", line |-> <<>>, i |-> 0, infile |-> "none",
                          infd |-> 0, pipefd |-> <<>>, fds |-> d])
           b == [pc |-> "prompt", line |-> BlankLine, i |-> 0, infile |-> "none",
                 infd |-> 0, pipefd |-> <<>>, fds |-> d]
<1>1. procs = <<p>>
  BY DEF Init
<1>2. p = b /\ AtPrompt(b) = b
  <2> DEFINE r == [pc |-> "prompt", line |-> <<>>, i |-> 0, infile |-> "none",
                   infd |-> 0, pipefd |-> <<>>, fds |-> d]
  <2>1. /\ p = [r EXCEPT !.pc = "prompt", !.line = BlankLine, !.i = 0, !.infile = "none"]
        /\ AtPrompt(b) = [b EXCEPT !.pc = "prompt", !.line = BlankLine, !.i = 0,
                                   !.infile = "none"]
    BY Zenon DEF AtPrompt, BlankLine
  <2> HIDE DEF d, p
  <2>2. p = b
    BY <2>1
  <2>3. AtPrompt(b) = b
    BY <2>1
  <2> QED BY <2>2, <2>3
<1>3. d \in [Fds -> Files] /\ \A f \in Fds : d[f].kind # "write"
  BY FilesAreTyped DEF Terminal, Closed
<1> HIDE DEF d, p
<1>4. 0 \in Nat /\ 0 \in Maybe /\ "none" \in Lookup
  BY FdsAreNumbers DEF Maybe, Lookup
<1>5. b \in Procs /\ b.fds = d
  BY <1>3, <1>4 DEF Procs
<1>6. NoWrites(b)
  BY <1>3, <1>5 DEF NoWrites
<1> HIDE DEF b
<1>7. b \in Procs /\ ProcOK(b) /\ b.pc = "prompt"
  BY <1>2, <1>5, <1>6, AtPromptIs
<1>8. procs \in Seq(Procs) /\ Len(procs) = 1 /\ procs[1] = b /\ Top = b
  BY <1>1, <1>2, <1>7 DEF Top, Last
<1>9. \A k \in 1 .. Len(procs) : k = 1 /\ ~(k < Len(procs))
  BY <1>8
<1> QED BY <1>7, <1>8, <1>9 DEF ShellInv

\* The processes of a state that is not empty, for the lemmas on the actions.
LEMMA ReadLineKeepsInv ==
  ASSUME ShellInv, ReadLine
  PROVE  ShellInv'
<1>1. procs # <<>> /\ Top.pc = "prompt"
  BY DEF ReadLine
<1>2. PICK l \in Lines : Step(NewLine(Top, l))
  BY DEF ReadLine
<1>3. Top \in Procs /\ NoWrites(Top)
  BY <1>1, TopIs, IdleHasNoWrites DEF Running
<1>4. /\ NewLine(Top, l) \in Procs /\ ProcOK(NewLine(Top, l))
      /\ NewLine(Top, l).pc = "stage"
  BY <1>3, NewLineIs
<1> QED BY <1>1, <1>2, <1>4, StepKeepsInv

LEMMA EndLineKeepsInv ==
  ASSUME ShellInv, EndLine
  PROVE  ShellInv'
<1>1. procs # <<>> /\ Top.pc = "stage" /\ Step(AtPrompt(Top))
  BY DEF EndLine
<1>2. Top \in Procs /\ NoWrites(Top)
  BY <1>1, TopIs, IdleHasNoWrites DEF Running
<1>3. /\ AtPrompt(Top) \in Procs /\ ProcOK(AtPrompt(Top))
      /\ AtPrompt(Top).pc = "prompt"
  BY <1>2, AtPromptIs
<1> QED BY <1>1, <1>3, StepKeepsInv

LEMMA RunBuiltinKeepsInv ==
  ASSUME ShellInv, RunBuiltin
  PROVE  ShellInv'
<1>1. procs # <<>> /\ Top.pc = "stage" /\ HasStage(Top)
  BY DEF RunBuiltin
<1>2. CASE Step(AfterBuiltin(Top))
  <2>1. /\ AfterBuiltin(Top) \in Procs /\ ProcOK(AfterBuiltin(Top))
        /\ AfterBuiltin(Top).pc = "stage"
    BY <1>1, TopIs, AfterBuiltinIs
  <2> QED BY <1>1, <1>2, <2>1, StepKeepsInv
<1>3. CASE Exit
  BY <1>1, <1>3, ExitKeepsInv
<1> QED BY <1>2, <1>3 DEF RunBuiltin

LEMMA RunStageKeepsInv ==
  ASSUME ShellInv, RunStage
  PROVE  ShellInv'
<1>1. procs # <<>> /\ Top.pc = "stage" /\ HasStage(Top)
  BY DEF RunStage
<1>2. PICK q \in Prepared(Top) :
        \/ procs' = Front(procs) \o <<[q EXCEPT !.pc = "wait"], [q EXCEPT !.pc = "child"]>>
        \/ Step([q EXCEPT !.pc = "ran"])
  BY DEF RunStage
<1>3. /\ Top \in Procs /\ ProcOK(Top) /\ procs \in Seq(Procs)
      /\ \E k \in 1 .. Len(procs) : Top = procs[k]
  BY <1>1, TopIs DEF ShellInv
<1>4. q \in Procs
  BY <1>1, <1>2, <1>3, PreparedIsTyped
<1> DEFINE w == [q EXCEPT !.pc = "wait"]
           h == [q EXCEPT !.pc = "child"]
           r == [q EXCEPT !.pc = "ran"]
<1>5. /\ w \in Procs /\ w.pc = "wait" /\ SameData(w, q)
      /\ h \in Procs /\ h.pc = "child" /\ SameData(h, q)
      /\ r \in Procs /\ r.pc = "ran" /\ SameData(r, q)
  BY <1>4, PcChanges DEF Running, SameData
<1>6. procs' = Front(procs) \o <<w, h>> \/ Step(r)
  BY <1>2
<1> HIDE DEF w, h, r
<1>7. \A s \in {w, h, r} : ProcOK(s) /\ s.line = Top.line /\ s.i = Top.i
  BY <1>1, <1>2, <1>3, <1>5, PreparedIs
<1>8. Command(h) = Command(w) /\ h.fds = w.fds
  BY <1>5, <1>7 DEF Command, SameData
<1>9. CASE procs' = Front(procs) \o <<w, h>>
  BY <1>1, <1>5, <1>7, <1>8, <1>9, ForkKeepsInv
<1>10. CASE Step(r)
  BY <1>1, <1>5, <1>7, <1>10, StepKeepsInv
<1> QED BY <1>6, <1>9, <1>10

LEMMA ExecKeepsInv ==
  ASSUME ShellInv, Exec
  PROVE  ShellInv'
<1> DEFINE s == [IF ByPath(Command(Top)) THEN Top ELSE MoveStdin(Top) EXCEPT !.pc = "program"]
<1>1. procs # <<>> /\ Top.pc = "child" /\ ~Missing(Command(Top)) /\ Step(s)
  BY DEF Exec
<1>2. /\ s \in Procs /\ ProcOK(s) /\ s.pc = "program"
      /\ Command(s) = Command(Top)
      /\ \A f \in Fds : Top.fds[f].kind = "write" => s.fds[f] = Top.fds[f]
  BY <1>1, TopIs, ExecIs
<1> HIDE DEF s
<1> QED BY <1>1, <1>2, StepKeepsInv

LEMMA NotFoundKeepsInv ==
  ASSUME ShellInv, NotFound
  PROVE  ShellInv'
<1> DEFINE s == [Top EXCEPT !.pc = "ran"]
<1>1. procs # <<>> /\ Top.pc = "child" /\ Missing(Command(Top)) /\ Step(s)
  BY DEF NotFound
<1>2. Top \in Procs /\ ProcOK(Top)
  BY <1>1, TopIs
<1>3. s \in Procs /\ ProcOK(s) /\ s.pc = "ran"
  BY <1>1, <1>2, BackInMain
<1>4. Command(s) = Command(Top)
  BY <1>2 DEF Command, Procs
<1> HIDE DEF s
<1> QED BY <1>1, <1>3, <1>4, StepKeepsInv

LEMMA RanKeepsInv ==
  ASSUME ShellInv, Ran
  PROVE  ShellInv'
<1> DEFINE s == IF IsLast(Top) THEN AtPrompt(Top) ELSE AfterStage(Top)
<1>1. procs # <<>> /\ Top.pc = "ran" /\ Step(s)
  BY DEF Ran
<1>2. Top \in Procs /\ ProcOK(Top)
  BY <1>1, TopIs
<1>3. s \in Procs /\ ProcOK(s) /\ s.pc \in {"prompt", "stage"}
  <2>1. CASE IsLast(Top)
    <3>1. NoWrites(Top)
      BY <1>2, <2>1, IdleHasNoWrites
    <3> QED BY <1>2, <2>1, <3>1, AtPromptIs
  <2>2. CASE ~IsLast(Top)
    BY <1>1, <1>2, <2>2, AfterStageIs
  <2> QED BY <2>1, <2>2
<1> HIDE DEF s
<1> QED BY <1>1, <1>3, StepKeepsInv

LEMMA NextKeepsInv ==
  ASSUME ShellInv, [Next]_vars
  PROVE  ShellInv'
<1>1. CASE UNCHANGED vars
  BY <1>1 DEF vars, ShellInv, Started, Top
<1>2. CASE Leave
  BY <1>2, ExitKeepsInv DEF Leave
<1>3. CASE SearchCrashes
  BY <1>3, ExitKeepsInv DEF SearchCrashes
<1>4. CASE ProgramEnds
  BY <1>4, ExitKeepsInv DEF ProgramEnds
<1> QED
  BY <1>1, <1>2, <1>3, <1>4, ReadLineKeepsInv, EndLineKeepsInv, RunBuiltinKeepsInv,
     RunStageKeepsInv, ExecKeepsInv, NotFoundKeepsInv, RanKeepsInv DEF Next, Run

-----------------------------------------------------------------------------
(***************************************************************************)
(* Theorems                                                                *)
(***************************************************************************)

\* The inductive invariant holds.
THEOREM ShellInvHolds == Spec => []ShellInv
<1>1. Init => ShellInv
  BY InitHasInv
<1>2. ShellInv /\ [Next]_vars => ShellInv'
  BY NextKeepsInv
<1> QED BY <1>1, <1>2, PTL DEF Spec

\* Only the youngest process runs, and main looks no further than the empty row
\* behind the stages.
THEOREM TypesHold == Spec => []TypeOK
<1>1. ShellInv => TypeOK
  <2> SUFFICES ASSUME ShellInv, NEW k \in DOMAIN procs, NEW p, p = procs[k]
               PROVE  /\ p.pc \in IF k < Len(procs) THEN {"wait"}
                                  ELSE {"prompt", "stage", "child", "program", "ran"}
                      /\ p.i \in 0 .. Len(p.line.stages)
                      /\ p.pc \in {"wait", "child", "program", "ran"}
                           => p.i < Len(p.line.stages)
                      /\ p.infd \in Fds \cup {NoFd} /\ p.infile \in Lookup
                      /\ p.pipefd = <<>> \/ p.pipefd \in (Fds \cup {NoFd}) \X (Fds \cup {NoFd})
                      /\ \A f \in Fds :
                           p.fds[f].kind \in {"tty", "in", "out", "closed", "read", "write"}
    BY DEF TypeOK
  <2>1. k \in 1 .. Len(procs) /\ p \in Procs
    BY DEF ShellInv
  <2>2. ProcOK(p) /\ (p.pc = "wait" <=> k < Len(procs))
    BY <2>1 DEF ShellInv
  <2>3. /\ p.pc \in {"prompt", "stage"} \cup Running /\ p.i \in Nat
        /\ p.infile \in Lookup /\ p.infd \in Maybe
        /\ p.pipefd \in {<<>>} \cup (Maybe \X Maybe) /\ p.fds \in [Fds -> Files]
    BY <2>1, FieldsAreTyped
  <2>4. p.pc \in IF k < Len(procs) THEN {"wait"}
                 ELSE {"prompt", "stage", "child", "program", "ran"}
    BY <2>2, <2>3 DEF Running
  <2>5. /\ p.i \in 0 .. Len(p.line.stages)
        /\ p.pc \in {"wait", "child", "program", "ran"} => p.i < Len(p.line.stages)
    BY <2>2, <2>3, StagesAreCounted DEF ProcOK, StageRuns, HasStage, Running
  <2>6. \A f \in Fds : p.fds[f].kind \in Kinds
    BY <2>3 DEF Files
  <2> QED BY <2>3, <2>4, <2>5, <2>6 DEF Maybe, Kinds
<1> QED BY <1>1, ShellInvHolds, PTL

\* The program of a line with an input file, and without an output file that
\* could be opened, gets it.
THEOREM InputReaches == Spec => []InputArrives
<1>1. ShellInv => InputArrives
  <2> SUFFICES ASSUME ShellInv, procs # <<>>, Top.pc = "program", Top.i = 0, IsLast(Top),
                      Top.line.infile = "there", Top.infd > 0,
                      Top.line.outfile # "there"
               PROVE  Top.fds[0] = InFile
    BY DEF InputArrives
  <2>1. GetsFile(Top)
    BY TopIs DEF ProcOK
  <2> QED BY <2>1 DEF GetsFile
<1> QED BY <1>1, ShellInvHolds, PTL

\* Of a process whose descriptor 0 is the read end of a pipe: the one that
\* holds the write end makes it hang in one of the two ways.
THEOREM HangsAreTwo == Spec => []HangsOnOwnPipeOrSecondShell
<1>1. ShellInv => HangsOnOwnPipeOrSecondShell
  <2> DEFINE n == Top.fds[0].pipe
             L == Len(procs)
  <2> SUFFICES ASSUME ShellInv, procs # <<>>, Top.pc \in {"prompt", "program"}, Waits(Top)
               PROVE  \/ /\ Top.pc = "program" /\ ~IsLast(Top) /\ Holds(Top, n)
                         /\ ByPath(Command(Top)) => Top.pipefd[1] = 0
                      \/ \E k \in 1 .. L - 1 : Holds(procs[k], n) /\ Missing(Command(procs[k]))
    BY Zenon DEF HangsOnOwnPipeOrSecondShell
  <2>1. /\ L \in Nat /\ L > 0 /\ Top = procs[L] /\ Top \in Procs /\ ProcOK(Top)
    BY TopIs
  <2>2. Top.fds \in [Fds -> Files] /\ Top.fds[0].kind = "read" /\ 0 \in Fds
    BY <2>1, FieldsAreTyped, FdsAreNumbers DEF Waits
  <2>3. Top.fds[0] = ReadEnd(n)
    <3>1. Top.fds[0] \in [kind : Kinds, pipe : Nat]
      BY <2>2 DEF Files
    <3>2. \A x \in [kind : Kinds, pipe : Nat] :
            x.kind = "read" => x = [kind |-> "read", pipe |-> x.pipe]
      OBVIOUS
    <3> QED BY <2>2, <3>1, <3>2 DEF ReadEnd
  <2>4. PICK k \in 1 .. L : Holds(procs[k], n)
    <3>1. DOMAIN procs = 1 .. L
      BY DEF ShellInv
    <3> QED BY <3>1 DEF Waits
  <2>5. /\ procs[k] \in Procs /\ ProcOK(procs[k])
        /\ procs[k].fds \in [Fds -> Files]
    BY <2>4, FieldsAreTyped DEF ShellInv
  <2>6. PICK w \in Fds : procs[k].fds[w] = WriteEnd(n)
    BY <2>4, <2>5 DEF Holds, Range
  <2>7. procs[k].fds[w].kind = "write" /\ procs[k].fds[w].pipe = n
    BY <2>6 DEF WriteEnd
  <2> HIDE DEF n, L
  <2>8. Top.fds[w] = WriteEnd(n) => Top.pc = "program" /\ ~IsLast(Top) /\ Holds(Top, n)
                                      /\ (ByPath(Command(Top)) => Top.pipefd[1] = 0)
    <3> SUFFICES ASSUME Top.fds[w] = WriteEnd(n)
                 PROVE  Top.pc = "program" /\ ~IsLast(Top) /\ Holds(Top, n)
                          /\ (ByPath(Command(Top)) => Top.pipefd[1] = 0)
      OBVIOUS
    <3>1. Top.fds[w].kind = "write" /\ Top.fds[w].pipe = n
      BY DEF WriteEnd
    <3>2. /\ Top.pc \in Running /\ ~IsLast(Top)
          /\ Top.pc # "program" \/ ByPath(Command(Top)) =>
               \A g \in Fds : Top.fds[g] = ReadEnd(n) <=> g = Top.pipefd[1]
      BY <2>1, <3>1 DEF ProcOK, OneWriteEnd
    <3>3. Top.pc = "program"
      BY <3>2 DEF Running
    <3>4. Holds(Top, n)
      BY <2>2 DEF Holds, Range
    <3>5. ByPath(Command(Top)) => Top.pipefd[1] = 0
      BY <2>2, <2>3, <3>2
    <3> QED BY <3>2, <3>3, <3>4, <3>5
  <2>9. CASE k = L
    BY <2>1, <2>6, <2>8, <2>9
  <2>10. CASE k # L
    <3>1. k \in 1 .. L - 1 /\ k < L
      BY <2>1, <2>4, <2>10
    <3>2. Started(k)
      BY <3>1, <2>4 DEF ShellInv, L
    <3>3. CASE Missing(Command(procs[k]))
      BY <2>4, <3>1, <3>3
    <3>4. CASE ~Missing(Command(procs[k]))
      <4>1. Top.fds[w] = WriteEnd(n)
        BY <2>6, <2>7, <3>2, <3>4 DEF Started
      <4> QED BY <2>8, <4>1
    <3> QED BY <3>3, <3>4
  <2> QED BY <2>9, <2>10
<1> QED BY <1>1, ShellInvHolds, PTL

\* The steps in which a process may replace its input.
Replaces(p) ==
  \/ p.pc = "stage" /\ p.infile = "there"
  \/ p.pc = "stage" /\ IsLast(p) /\ p.i > 0
  \/ p.pc = "child"
  \/ /\ p.pc = "ran" /\ ~IsLast(p) /\ p.pipefd[2] = 0
     /\ Cardinality(Free(p.fds)) < 2

MayChange(k) ==
  k \in DOMAIN procs' /\ procs'[k].fds[0] # procs[k].fds[0] /\ procs[k].fds[0] # Closed
  => Replaces(procs[k])

\* Whatever becomes of the youngest process, the others keep their input.
LEMMA StepChanges ==
  ASSUME ShellInv, procs # <<>>, NEW p \in Procs, Step(p),
         p.fds[0] # Top.fds[0] /\ Top.fds[0] # Closed => Replaces(Top)
  PROVE  \A k \in DOMAIN procs : MayChange(k)
<1> DEFINE n == Len(procs)
<1>1. procs \in Seq(Procs) /\ n \in Nat /\ n > 0 /\ Top = procs[n]
  BY TopIs DEF ShellInv
<1>2. procs'[n] = p /\ \A k \in 1 .. n - 1 : procs'[k] = procs[k]
  BY <1>1, StepShape DEF Step
<1>3. \A k \in DOMAIN procs : k = n \/ k \in 1 .. n - 1
  BY <1>1
<1> HIDE DEF n
<1> QED BY <1>1, <1>2, <1>3 DEF MayChange

LEMMA ExitChanges ==
  ASSUME ShellInv, procs # <<>>, Exit
  PROVE  \A k \in DOMAIN procs : MayChange(k)
<1> DEFINE n == Len(procs)
           p == [procs[n - 1] EXCEPT !.pc = "ran"]
<1>1. procs \in Seq(Procs) /\ n \in Nat /\ n > 0 /\ Top = procs[n]
  BY TopIs DEF ShellInv
<1>2. CASE n = 1
  <2>1. procs' = <<>>
    BY <1>2 DEF Exit
  <2>2. DOMAIN procs' = {}
    BY <2>1
  <2> QED BY <2>2 DEF MayChange
<1>3. CASE n # 1
  <2>1. n > 1 /\ n - 1 \in 1 .. n
    <3> HIDE DEF n
    <3> QED BY <1>1, <1>3
  <2>2. procs[n - 1] \in Procs
    BY <1>1, <2>1
  <2>3. p \in Procs /\ p.fds = procs[n - 1].fds
    BY <2>2, PcChanges DEF Running
  <2>4. procs' = Append(SubSeq(procs, 1, n - 2), p)
    BY <1>3 DEF Exit
  <2> HIDE DEF p
  <2>5. /\ procs' \in Seq(Procs) /\ Len(procs') = n - 1
        /\ procs'[n - 1] = p /\ \A k \in 1 .. n - 2 : procs'[k] = procs[k]
    BY <1>1, <2>1, <2>3, <2>4, ExitShape
  <2>6. \A k \in DOMAIN procs' : k = n - 1 \/ k \in 1 .. n - 2
    <3>1. DOMAIN procs' = 1 .. n - 1
      BY <2>5
    <3> HIDE DEF n
    <3> QED BY <1>1, <3>1
  <2> HIDE DEF n
  <2> QED BY <2>3, <2>5, <2>6 DEF MayChange
<1> QED BY <1>2, <1>3

LEMMA RunStageChanges ==
  ASSUME ShellInv, RunStage
  PROVE  \A k \in DOMAIN procs : MayChange(k)
<1>1. procs # <<>> /\ Top.pc = "stage" /\ HasStage(Top)
  BY DEF RunStage
<1>2. PICK q \in Prepared(Top) :
        \/ procs' = Front(procs) \o <<[q EXCEPT !.pc = "wait"], [q EXCEPT !.pc = "child"]>>
        \/ Step([q EXCEPT !.pc = "ran"])
  BY DEF RunStage
<1>3. /\ Top \in Procs /\ ProcOK(Top) /\ procs \in Seq(Procs)
      /\ \E k \in 1 .. Len(procs) : Top = procs[k]
  BY <1>1, TopIs DEF ShellInv
<1>4. q \in Procs
  BY <1>1, <1>2, <1>3, PreparedIsTyped
<1> DEFINE w == [q EXCEPT !.pc = "wait"]
           h == [q EXCEPT !.pc = "child"]
           r == [q EXCEPT !.pc = "ran"]
           n == Len(procs)
<1>5. /\ w \in Procs /\ w.pc = "wait" /\ SameData(w, q) /\ h \in Procs
      /\ r \in Procs /\ r.pc = "ran" /\ SameData(r, q)
  BY <1>4, PcChanges DEF Running, SameData
<1>6. procs' = Front(procs) \o <<w, h>> \/ Step(r)
  BY <1>2
<1> HIDE DEF w, h, r
<1>7. \A s \in {w, r} :
        s.fds[0] # Top.fds[0] /\ Top.fds[0] # Closed => Replaces(Top)
  <2>1. q.fds[0] # Top.fds[0] /\ Top.fds[0] # Closed =>
          Top.infile = "there" \/ (IsLast(Top) /\ Top.i > 0)
    BY <1>1, <1>2, <1>3, <1>5, PreparedIs
  <2> QED BY <1>1, <1>5, <2>1 DEF SameData, Replaces
<1>8. CASE Step(r)
  BY <1>1, <1>5, <1>7, <1>8, StepChanges
<1>9. CASE procs' = Front(procs) \o <<w, h>>
  <2>1. n \in Nat /\ n > 0 /\ Top = procs[n]
    BY <1>1, TopIs
  <2>2. procs'[n] = w /\ \A k \in 1 .. n - 1 : procs'[k] = procs[k]
    BY <1>1, <1>3, <1>5, <1>9, ForkShape
  <2>3. \A k \in DOMAIN procs : k = n \/ k \in 1 .. n - 1
    BY <1>3, <2>1
  <2> HIDE DEF n
  <2> QED BY <1>7, <2>1, <2>2, <2>3 DEF MayChange
<1> QED BY <1>6, <1>8, <1>9

\* A process's open input is replaced only where main opens an input file, at
\* the last stage of a pipeline, in a child before its program, and where main
\* closes an uninitialised pipefd for want of descriptors.
THEOREM InputIsKept == Spec => PlainLinesKeepInput
<1>1. ASSUME ShellInv, [Next]_vars PROVE [\A k \in DOMAIN procs : MayChange(k)]_vars
  <2> SUFFICES ASSUME Next PROVE \A k \in DOMAIN procs : MayChange(k)
    BY <1>1
  <2>1. ASSUME procs # <<>>, NEW p \in Procs, Step(p), p.fds = Top.fds
        PROVE  \A k \in DOMAIN procs : MayChange(k)
    BY <1>1, <2>1, StepChanges
  <2>2. CASE ReadLine
    <3>1. procs # <<>> /\ Top.pc = "prompt"
      BY <2>2 DEF ReadLine
    <3>2. PICK l \in Lines : Step(NewLine(Top, l))
      BY <2>2 DEF ReadLine
    <3>3. Top \in Procs /\ NoWrites(Top)
      BY <1>1, <3>1, TopIs, IdleHasNoWrites DEF Running
    <3>4. NewLine(Top, l) \in Procs /\ NewLine(Top, l).fds = Top.fds
      BY <3>3, NewLineIs
    <3> QED BY <2>1, <3>1, <3>2, <3>4
  <2>3. CASE EndLine
    <3>1. procs # <<>> /\ Top.pc = "stage" /\ Step(AtPrompt(Top))
      BY <2>3 DEF EndLine
    <3>2. Top \in Procs /\ NoWrites(Top)
      BY <1>1, <3>1, TopIs, IdleHasNoWrites DEF Running
    <3>3. AtPrompt(Top) \in Procs /\ AtPrompt(Top).fds = Top.fds
      BY <3>2, AtPromptIs
    <3> QED BY <2>1, <3>1, <3>3
  <2>4. CASE RunBuiltin
    <3>1. procs # <<>> /\ Top.pc = "stage" /\ HasStage(Top)
      BY <2>4 DEF RunBuiltin
    <3>2. AfterBuiltin(Top) \in Procs /\ AfterBuiltin(Top).fds = Top.fds
      BY <1>1, <3>1, TopIs, AfterBuiltinIs
    <3>3. Step(AfterBuiltin(Top)) \/ Exit
      BY <2>4 DEF RunBuiltin
    <3> QED BY <1>1, <2>1, <3>1, <3>2, <3>3, ExitChanges
  <2>5. CASE Exec
    <3> DEFINE s == [IF ByPath(Command(Top)) THEN Top ELSE MoveStdin(Top)
                       EXCEPT !.pc = "program"]
    <3>1. procs # <<>> /\ Top.pc = "child" /\ Step(s)
      BY <2>5 DEF Exec
    <3>2. s \in Procs /\ s.pc = "program"
      BY <1>1, <3>1, TopIs, ExecIs
    <3> HIDE DEF s
    <3> QED BY <1>1, <3>1, <3>2, StepChanges DEF Replaces
  <2>6. CASE NotFound
    <3> DEFINE s == [Top EXCEPT !.pc = "ran"]
    <3>1. procs # <<>> /\ Top.pc = "child" /\ Step(s)
      BY <2>6 DEF NotFound
    <3>2. s \in Procs /\ s.fds = Top.fds
      BY <1>1, <3>1, TopIs, BackInMain
    <3> HIDE DEF s
    <3> QED BY <2>1, <3>1, <3>2
  <2>7. CASE Ran
    <3>1. procs # <<>> /\ Top.pc = "ran"
      BY <2>7 DEF Ran
    <3>2. Top \in Procs /\ ProcOK(Top)
      BY <1>1, <3>1, TopIs
    <3>3. CASE IsLast(Top)
      <4>1. Step(AtPrompt(Top)) /\ NoWrites(Top)
        BY <2>7, <3>2, <3>3, IdleHasNoWrites DEF Ran
      <4>2. AtPrompt(Top) \in Procs /\ AtPrompt(Top).fds = Top.fds
        BY <3>2, <4>1, AtPromptIs
      <4> QED BY <2>1, <3>1, <4>1, <4>2
    <3>4. CASE ~IsLast(Top)
      <4>1. Step(AfterStage(Top))
        BY <2>7, <3>4 DEF Ran
      <4>2. /\ AfterStage(Top) \in Procs
            /\ AfterStage(Top).fds[0] # Top.fds[0] => Replaces(Top)
        BY <3>1, <3>2, <3>4, AfterStageIs DEF Replaces
      <4> QED BY <1>1, <3>1, <4>1, <4>2, StepChanges
    <3> QED BY <3>3, <3>4
  <2>8. CASE Leave \/ SearchCrashes \/ ProgramEnds
    BY <1>1, <2>8, ExitChanges DEF Leave, SearchCrashes, ProgramEnds
  <2> QED
    BY <1>1, <2>2, <2>3, <2>4, <2>5, <2>6, <2>7, <2>8, RunStageChanges DEF Next, Run
<1>2. [\A k \in DOMAIN procs : MayChange(k)]_vars <=>
        [\A k \in DOMAIN procs \cap DOMAIN procs' :
           LET p == procs[k]
           IN  p.fds[0] # Closed /\ procs'[k].fds[0] # p.fds[0] =>
                 \/ p.pc = "stage" /\ p.infile = "there"
                 \/ p.pc = "stage" /\ IsLast(p) /\ p.i > 0
                 \/ p.pc = "child"
                 \/ /\ p.pc = "ran" /\ ~IsLast(p) /\ p.pipefd[2] = 0
                    /\ Cardinality(Free(p.fds)) < 2]_vars
  BY Zenon DEF MayChange, Replaces
<1> QED BY <1>1, <1>2, ShellInvHolds, PTL DEF Spec, PlainLinesKeepInput

=============================================================================
