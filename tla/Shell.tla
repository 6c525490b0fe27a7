-------------------------------- MODULE Shell -------------------------------
(***************************************************************************)
(* The shell's main loop (thsh.c) with run_command (jobs.c): the stages of *)
(* a line, their pipes and redirections, the processes they run in.        *)
(*                                                                         *)
(* run_command forks and waits, so of all processes only the youngest      *)
(* runs: `procs` is the stack of them, oldest first.  A child is a copy of *)
(* its parent; it becomes a program, or, when there is no such program,    *)
(* returns from run_command and goes on as a second shell.                 *)
(*                                                                         *)
(* A descriptor refers to the terminal, to a file or to an end of a pipe.  *)
(* Nothing is ever written to a pipe, as no program's standard output is   *)
(* redirected; a pipe matters because a reader waits for its write ends to *)
(* be closed.                                                              *)
(***************************************************************************)
EXTENDS Integers, SequencesExt, FiniteSetsExt

CONSTANTS
  MAX_PIPELINE, \* rows in main's table of stages, the last one empty
  MAX_ARGS,   \* words of a stage, and the bound of main's loop over the stages
  OpenMax,    \* number of descriptors a process may have
  Lines,      \* the lines that may be typed, as parse_line returns them
  MaxShells   \* shells that read lines, for model checking

\* cd and goheels return, exit does not.  ls, denied and ./ls do not read
\* their input, cat and ./cat read it to the end; denied cannot be executed.
Builtins == {"cd", "exit"}
Commands == Builtins \cup {"ls", "cat", "denied", "nosuch", "./ls", "./cat", "./nosuch"}

ByPath(c)  == c \in {"./ls", "./cat", "./nosuch"}
Missing(c) == c \in {"nosuch", "./nosuch"}
Reads(c)   == c \in {"cat", "./cat"}

\* A redirection's file: not given, can be opened, cannot.
Lookup == {"none", "there", "missing"}

ASSUME MaxArgsPositive == MAX_ARGS \in Nat /\ MAX_ARGS > 0
ASSUME TableHasRows == MAX_PIPELINE \in Nat
ASSUME StandardDescriptors == OpenMax \in Nat /\ OpenMax > 2
ASSUME ParsedLines ==
  \A l \in Lines :
    /\ l.stages # <<>> /\ l.stages \in Seq(Commands) /\ Len(l.stages) < MAX_PIPELINE
    /\ l.words \in Nat /\ l.words >= Len(l.stages)
    /\ l.infile \in Lookup /\ l.outfile \in Lookup

VARIABLE procs

\* Of a process: pc; line, the line it runs; i, the index of the stage; infile,
\* main's variable; infd and pipefd, as in main; fds, its descriptors.
vars == <<procs>>

Fds  == 0 .. OpenMax - 1
NoFd == -1

Terminal == [kind |-> "tty",    pipe |-> 0]
InFile   == [kind |-> "in",     pipe |-> 0]
OutFile  == [kind |-> "out",    pipe |-> 0]
Closed   == [kind |-> "closed", pipe |-> 0]
ReadEnd(n)  == [kind |-> "read",  pipe |-> n]
WriteEnd(n) == [kind |-> "write", pipe |-> n]

Top == Last(procs)
Command(p) == p.line.stages[p.i + 1]

-----------------------------------------------------------------------------
(***************************************************************************)
(* Descriptors                                                             *)
(***************************************************************************)

Free(fds) == {f \in Fds : fds[f] = Closed}

Close(fds, f) == IF f \in Fds THEN [fds EXCEPT ![f] = Closed] ELSE fds

\* dup2(f, 0), which does nothing when f is not open.
Dup(fds, f) ==
  IF f \in Fds /\ fds[f] # Closed THEN [fds EXCEPT ![0] = fds[f]] ELSE fds

NewPipe ==
  Min({n \in 1 .. OpenMax * Len(procs) + 1 :
         \A k \in DOMAIN procs : \A f \in Fds : procs[k].fds[f].pipe # n})

Holds(p, n) == WriteEnd(n) \in Range(p.fds)

\* A read from descriptor 0 by process p waits for ever.
Waits(p) ==
  /\ p.fds[0].kind = "read"
  /\ \E k \in DOMAIN procs : Holds(procs[k], p.fds[0].pipe)

\* It meets the end of the file, or an error.
Ends(p)  == p.fds[0].kind \in {"tty", "in"} \/ (p.fds[0].kind = "read" /\ ~Waits(p))
Fails(p) == p.fds[0].kind \in {"out", "write", "closed"}

\* The prompt can be written.
Prints(p) == p.fds[1].kind \in {"tty", "out", "write"}

-----------------------------------------------------------------------------
(***************************************************************************)
(* The main loop                                                           *)
(***************************************************************************)

Step(p) == procs' = Append(Front(procs), p)

\* The youngest process ends and its parent returns from waitpid.
Exit ==
  procs' = IF Len(procs) = 1 THEN <<>>
           ELSE Append(SubSeq(procs, 1, Len(procs) - 2),
                       [procs[Len(procs) - 1] EXCEPT !.pc = "ran"])

\* Mutated form of NewLine: infd keeps the value it had.
NewLineKeepsInfd(p, l) ==
  [p EXCEPT !.pc = "stage", !.line = l, !.i = 0, !.infile = l.infile]

NewLine(p, l) ==
  [p EXCEPT !.pc = "stage", !.line = l, !.i = 0, !.infile = l.infile, !.infd = 0]

\* A line comes from descriptor 0; one that cannot be read gives what an
\* earlier line has left in the buffer.
ReadLine ==
  /\ procs # <<>> /\ Top.pc = "prompt" /\ Prints(Top)
  /\ Top.fds[0].kind \in {"tty", "in"} \/ Fails(Top)
  /\ Len(procs) <= MaxShells
  /\ \E l \in Lines : Step(NewLine(Top, l))

\* The input is at its end, or the prompt cannot be written.
Leave ==
  /\ procs # <<>> /\ Top.pc = "prompt"
  /\ Ends(Top) \/ ~Prints(Top)
  /\ Exit

\* The loop's condition: the row of the table is not empty, and its index is
\* below MAX_ARGS, although the table has MAX_PIPELINE rows.
HasStage(p) == p.i < Len(p.line.stages) /\ p.i < MAX_ARGS

AtPrompt(p) ==
  [p EXCEPT !.pc = "prompt", !.line = [stages |-> <<>>, words |-> 0,
                                       infile |-> "none", outfile |-> "none"],
            !.i = 0, !.infile = "none"]

\* The loop ends; stages beyond its bound are not run.
EndLine ==
  /\ procs # <<>> /\ Top.pc = "stage" /\ ~HasStage(Top)
  /\ Step(AtPrompt(Top))

\* Mutated forms of AfterBuiltin: the stage is not counted, or twice.
AfterBuiltinAgain(p) == p
AfterBuiltinTwice(p) == [p EXCEPT !.i = @ + 2]

AfterBuiltin(p) == [p EXCEPT !.i = @ + 1]

\* A builtin takes no part in pipes and redirections.
RunBuiltin ==
  /\ procs # <<>> /\ Top.pc = "stage" /\ HasStage(Top)
  /\ \/ Command(Top) = "cd" /\ Step(AfterBuiltin(Top))
     \/ Command(Top) = "exit" /\ Exit

\* The test for the last stage.
IsLast(p) == p.i = p.line.words - 1

OpenFails(p) == p.infile = "missing" \/ Free(p.fds) = {}

\* Mutated form of Redirect: the descriptor is closed before it is copied.
RedirectClosed(fds, f) == Dup(Close(fds, f), f)

\* dup2(f, 0) and close(f).
Redirect(fds, f) == Close(Dup(fds, f), f)

\* The file replaces descriptor 0 of the shell; infd keeps the number of a
\* descriptor that is closed again, or -1.
OpenInfile(p) ==
  LET f == Min(Free(p.fds))
  IN  IF p.infile = "none" THEN p
      ELSE IF OpenFails(p) THEN [p EXCEPT !.infile = "none", !.infd = NoFd]
      ELSE [p EXCEPT !.infile = "none", !.infd = f,
                     !.fds = Redirect([@ EXCEPT ![f] = InFile], f)]

\* The last stage: the output file is opened, which may fail unnoticed, then
\* infd replaces descriptor 0 of the shell.
LastStage(p) ==
  LET opened == IF p.line.outfile = "there" /\ Free(p.fds) # {}
                THEN [p.fds EXCEPT ![Min(Free(p.fds))] = OutFile] ELSE p.fds
  IN  [p EXCEPT !.fds = IF p.infd # 0 THEN Dup(opened, p.infd) ELSE opened]

\* Any other stage: a pipe.  When there is no room for it the variable pipefd
\* has what an earlier pipe left there, or, without one, anything.
PipeStage(p) ==
  LET r == Min(Free(p.fds))
      w == Min(Free(p.fds) \ {r})
  IN  IF Cardinality(Free(p.fds)) >= 2
      THEN {[p EXCEPT !.pipefd = <<r, w>>,
                      !.fds = [@ EXCEPT ![r] = ReadEnd(NewPipe), ![w] = WriteEnd(NewPipe)]]}
      ELSE {[p EXCEPT !.pipefd = ends] :
              ends \in IF p.pipefd = <<>> THEN (Fds \cup {NoFd}) \X (Fds \cup {NoFd})
                       ELSE {p.pipefd}}

Prepared(p) ==
  LET q == OpenInfile(p) IN IF IsLast(p) THEN {LastStage(q)} ELSE PipeStage(q)

\* One turn of the loop up to the fork in run_command, which may fail.
RunStage ==
  /\ procs # <<>> /\ Top.pc = "stage" /\ HasStage(Top)
  /\ Command(Top) \notin Builtins
  /\ \E p \in Prepared(Top) :
       \/ procs' = Front(procs) \o <<[p EXCEPT !.pc = "wait"], [p EXCEPT !.pc = "child"]>>
       \/ Step([p EXCEPT !.pc = "ran"])

-----------------------------------------------------------------------------
(***************************************************************************)
(* The child                                                               *)
(***************************************************************************)

\* run_command's parameter stdin, moved to descriptor 0.
MoveStdin(p) ==
  LET stdin == IF IsLast(p) THEN p.infd ELSE p.pipefd[1]
  IN  IF stdin # 0 THEN [p EXCEPT !.fds = Redirect(@, stdin)] ELSE p

\* A program that is found: one named by its path runs as it is, for one from
\* the path table the input is moved.  If that one cannot be executed after
\* all, the child ends, as if it were a program that does nothing.
Exec ==
  /\ procs # <<>> /\ Top.pc = "child" /\ ~Missing(Command(Top))
  /\ Step([IF ByPath(Command(Top)) THEN Top ELSE MoveStdin(Top) EXCEPT !.pc = "program"])

\* No program is found.  The child returns from run_command.
NotFound ==
  /\ procs # <<>> /\ Top.pc = "child" /\ Missing(Command(Top))
  /\ Step([Top EXCEPT !.pc = "ran"])

\* The search runs over the end of the path table, or of the buffer that a
\* name is put together in.
SearchCrashes ==
  /\ procs # <<>> /\ Top.pc = "child" /\ ~ByPath(Command(Top))
  /\ Exit

\* The program ends, one that reads its input at the end of it.
ProgramEnds ==
  /\ procs # <<>> /\ Top.pc = "program"
  /\ Reads(Command(Top)) => ~Waits(Top)
  /\ Exit

\* Mutated form of AfterStage: the write end stays open.
AfterStageOpen(p) ==
  [p EXCEPT !.pc = "stage", !.infd = p.pipefd[1], !.i = @ + 1]

AfterStage(p) ==
  [p EXCEPT !.pc = "stage", !.fds = Close(@, p.pipefd[2]),
            !.infd = p.pipefd[1], !.i = @ + 1]

\* Back in main, in the parent or in a child that found no program.
Ran ==
  /\ procs # <<>> /\ Top.pc = "ran"
  /\ Step(IF IsLast(Top) THEN AtPrompt(Top) ELSE AfterStage(Top))

-----------------------------------------------------------------------------

Init ==
  procs = << AtPrompt([pc |-> "prompt", line |-> <<>>, i |-> 0, infile |-> "none",
                       infd |-> 0, pipefd |-> <<>>,
                       fds |-> [f \in Fds |-> IF f <= 2 THEN Terminal ELSE Closed]]) >>

Run == EndLine \/ RunBuiltin \/ RunStage \/ Exec \/ NotFound \/ SearchCrashes
         \/ ProgramEnds \/ Ran

Next == ReadLine \/ Leave \/ Run

\* A process that can go on does; nobody has to type a line.
Spec == Init /\ [][Next]_vars /\ WF_vars(Run)

-----------------------------------------------------------------------------
(***************************************************************************)
(* Properties                                                              *)
(***************************************************************************)

\* The youngest process runs, the others wait for their child, and the index
\* of the stage goes at most one past the stages: the row main looks at is one
\* that parse_line has filled, or the empty one behind them (ParsedLines).
TypeOK ==
  \A k \in DOMAIN procs :
    LET p == procs[k] IN
      /\ p.pc \in IF k < Len(procs) THEN {"wait"}
                  ELSE {"prompt", "stage", "child", "program", "ran"}
      /\ p.i \in 0 .. Len(p.line.stages)
      /\ p.pc \in {"wait", "child", "program", "ran"} => p.i < Len(p.line.stages)
      /\ p.infd \in Fds \cup {NoFd} /\ p.infile \in Lookup
      /\ p.pipefd = <<>> \/ p.pipefd \in (Fds \cup {NoFd}) \X (Fds \cup {NoFd})
      /\ \A f \in Fds : p.fds[f].kind \in {"tty", "in", "out", "closed", "read", "write"}

\* Stages run one after the other, each waiting for the one before
\* (thsh.c:187-189), and still a pipeline hangs in two ways only: a program
\* found in the path table waits for the write end of its own stage's pipe,
\* which it holds itself (one executed by its path as well, if descriptor 0
\* was closed and the pipe took its place), or a second shell runs what is left of a pipeline,
\* and the write end is held by the shell that waits for it.  A pipe whose
\* stage has returned always has its end.
HangsOnOwnPipeOrSecondShell ==
  procs # <<>> =>
    LET n == Top.fds[0].pipe IN
      Top.pc \in {"prompt", "program"} /\ Waits(Top) =>
        \/ /\ Top.pc = "program" /\ ~IsLast(Top) /\ Holds(Top, n)
           /\ ByPath(Command(Top)) => Top.pipefd[1] = 0
        \/ \E k \in 1 .. Len(procs) - 1 :
             Holds(procs[k], n) /\ Missing(Command(procs[k]))

\* The program of a line "cmd <in", whose file main could open (infd is then
\* positive, unless descriptor 0 was closed), reads that file, although main
\* has closed infd before it hands its number on (thsh.c:153-172).  The same
\* holds when there is an output file that cannot be opened (thsh.c:161).
\* Nothing is claimed for one that can: it gets the number in infd, and the
\* program reads it in place of the input file.
InputArrives ==
  ( /\ procs # <<>> /\ Top.pc = "program" /\ Top.i = 0 /\ IsLast(Top)
    /\ Top.line.infile = "there" /\ Top.infd > 0 /\ Top.line.outfile # "there" )
  => Top.fds[0] = InFile

\* An open descriptor 0 changes in four steps only: where main opens the
\* line's input file, at the last stage of a pipeline, in a child on its way to
\* its program, and where main, without room for a pipe, closes the number that
\* the uninitialised pipefd happens to hold (thsh.c:186-188).  So stale
\* numbers in infd and pipefd, from earlier lines or stages, do not cost a
\* shell its input under a single command without an input file.
PlainLinesKeepInput ==
  [][\A k \in DOMAIN procs \cap DOMAIN procs' :
       LET p == procs[k]
       IN  p.fds[0] # Closed /\ procs'[k].fds[0] # p.fds[0] =>
             \/ p.pc = "stage" /\ p.infile = "there"
             \/ p.pc = "stage" /\ IsLast(p) /\ p.i > 0
             \/ p.pc = "child"
             \/ /\ p.pc = "ran" /\ ~IsLast(p) /\ p.pipefd[2] = 0
                /\ Cardinality(Free(p.fds)) < 2]_vars

\* "Assume a pipeline will never be longer than 31 stages" (thsh.h:16), and
\* parse_line fills that many rows: main is done with a line's stages only
\* when it has come to the empty row behind them.
EveryStageRuns == [][EndLine => Top.i = Len(Top.line.stages)]_vars

\* Every command is there, main's loop gets to every stage, and only the
\* program that runs as the last stage, or one that is executed by its path,
\* reads its input.
Harmless(l) ==
  /\ Len(l.stages) <= MAX_ARGS
  /\ \A k \in DOMAIN l.stages :
       /\ ~Missing(l.stages[k])
       /\ Reads(l.stages[k]) => k = l.words \/ ByPath(l.stages[k])

Prompted == Len(procs) = 1 /\ Top.pc = "prompt"

\* The first shell comes back from every such line, to prompt or to exit, if
\* it still has an input at all.  Nothing is claimed for lines with a command
\* that does not exist, with a stage that reads and is not taken for the last,
\* or with more than MAX_ARGS stages.
HarmlessLinesEnd ==
  ( /\ Len(procs) = 1 /\ Top.pc = "stage" /\ Harmless(Top.line)
    /\ Top.fds[0] # Closed )
  ~> (Prompted \/ procs = <<>>)

=============================================================================
