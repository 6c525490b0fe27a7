----------------------------- MODULE CommandLine ----------------------------
(***************************************************************************)
(* The front of the shell's main loop: read_one_line fills the buffer cmd  *)
(* one character at a time, parse_line takes the buffer apart.  Running    *)
(* the commands is the subject of Shell; here it is one step, NextLine,    *)
(* which may leave errno set.                                              *)
(***************************************************************************)
EXTENDS Grammar

CONSTANTS
  MAX_INPUT,  \* size of the buffer
  Letters,    \* Letters[n] is the word character typed at position n
  BreakAt     \* positions at which a read may fail, for model checking

ASSUME BufferHasRoom == MAX_INPUT \in Nat /\ MAX_INPUT > 2
ASSUME LettersAreWords ==
  /\ Letters \in Seq(Range(Letters)) /\ Len(Letters) >= MAX_INPUT
  /\ \A n \in DOMAIN Letters : IsWord(Letters[n])

VARIABLES
  pc,      \* "prompt", "read", "parse", "run" or "exit"
  cmd,     \* the characters stored in the buffer
  count,   \* the loop's counter in read_one_line
  length,  \* what read_one_line returned
  errno,   \* 0 or EIO: some call has failed
  parsed   \* what parse_line made of the line

vars == <<pc, cmd, count, length, errno, parsed>>

EIO == 5

Nothing == [stages |-> <<>>, infile |-> <<>>, outfile |-> <<>>, count |-> 0]

\* Mutated form of HasRoom: the place for the terminator is not kept free.
HasRoomForAll(n) == n < MAX_INPUT + 1

\* The test of the loop: room for another character and the terminator.
HasRoom(n) == n < MAX_INPUT - 1

Init ==
  /\ pc = "prompt"
  /\ cmd = <<>>
  /\ count = 0
  /\ length = 0
  /\ errno = 0
  /\ parsed = Nothing

CallRead ==
  /\ pc = "prompt"
  /\ pc' = "read"
  /\ cmd' = <<>>
  /\ count' = 1
  /\ UNCHANGED <<length, errno, parsed>>

\* main leaves its loop unless the length is positive.
Return(n) ==
  /\ length' = n
  /\ pc' = IF n <= 0 THEN "exit" ELSE "parse"

\* One turn of the loop that stores c, and the loop's test afterwards, which
\* counts ahead unless a newline ends it.
Store(c) ==
  /\ cmd' = Append(cmd, c)
  /\ count' = IF c = NL THEN count ELSE count + 1
  /\ IF c # NL /\ HasRoom(count + 1)
     THEN UNCHANGED <<pc, length>>
     ELSE Return(count')

\* read delivers a character: a newline, a letter or a special character;
\* of the latter, each of '<', '>' and '#' comes once in a line.
ReadChar ==
  /\ pc = "read"
  /\ \E c \in {Letters[Len(cmd) + 1], NL, SP, BAR, LT, GT, HASH} :
       /\ c \in {LT, GT, HASH} => At(cmd, {c}) = {}
       /\ Store(c)
  /\ UNCHANGED <<errno, parsed>>

\* read returns 0.  A line that was begun is lost.
ReadEof ==
  /\ pc = "read"
  /\ Return(-errno)
  /\ UNCHANGED <<cmd, count, errno, parsed>>

\* read returns -1, which ends nothing: the character under the cursor, left
\* from an earlier line, is taken for the one that was read, and the next read
\* may succeed again.
ReadFails ==
  /\ pc = "read"
  /\ Len(cmd) \in BreakAt
  /\ errno' = EIO
  /\ \E c \in {Letters[Len(cmd) + 1], NL, NUL} : Store(c)
  /\ UNCHANGED parsed

Parse ==
  /\ pc = "parse"
  /\ parsed' = ParseLine(Upto(cmd, {NUL}))
  /\ pc' = "run"
  /\ UNCHANGED <<cmd, count, length, errno>>

\* The commands run, calls may fail, and main returns to the prompt.
NextLine ==
  /\ pc = "run"
  /\ pc' = "prompt"
  /\ errno' \in {errno, EIO}
  /\ parsed' = Nothing
  /\ cmd' = <<>> /\ count' = 0 /\ length' = 0

Next == CallRead \/ ReadChar \/ ReadEof \/ ReadFails \/ Parse \/ NextLine

Spec == Init /\ [][Next]_vars

-----------------------------------------------------------------------------
(***************************************************************************)
(* Properties                                                              *)
(***************************************************************************)

\* The line as parse_line sees it: a C string.
Line == Upto(cmd, {NUL})

\* The variables have their types, and between any two reads the buffer has
\* room for the next character and for the terminator after it; at end of
\* file, where the cursor has moved past a character that was never read, too.
TypeOK ==
  /\ pc \in {"prompt", "read", "parse", "run", "exit"}
  /\ \A i \in DOMAIN cmd : cmd[i] \in Specials \cup Range(Letters)
  /\ Len(cmd) <= MAX_INPUT - 2
  /\ pc = "read" => count = Len(cmd) + 1 /\ count < MAX_INPUT - 1
  /\ length \in -EIO .. MAX_INPUT - 1
  /\ errno \in {0, EIO}

\* Among the well-formed lines parse_line finds the stages, arguments and
\* files of the handout's grammar on all but the four kinds of lines that
\* Handled excludes, and on those it never does.
FollowsGrammar ==
  pc = "run" =>
    LET meaning == Meaning(Line)
    IN  WellFormed(meaning, Line) =>
          (Handled(Line) <=> /\ parsed.stages = meaning.stages
                             /\ parsed.infile = meaning.infile
                             /\ parsed.outfile = meaning.outfile)

\* "Robust to arbitrary (or no) space" (parse.c:126-129): a well-formed line
\* without a comment is parsed as if it had no spaces but those that keep two
\* words apart, even where an argument is dropped or taken for a stage.  Two
\* kinds of lines are excepted: a '<' after the '>' joins the name of the file
\* when there is no space, and a space alone before the first redirection
\* makes a stage.  What is compared is what main makes of the line: the stages
\* it runs, the files it opens.
SpacingIsIrrelevant ==
  ( /\ pc = "run" /\ At(Line, {HASH}) = {}
    /\ WellFormed(Meaning(Line), Line)
    /\ ~InputAfterOutput(Body(Line)) /\ ~CommandAfterFile(Body(Line)) )
  => LET squeezed == ParseLine(Squeeze(Line))
     IN  /\ Visible(parsed.stages) = Visible(squeezed.stages)
         /\ parsed.infile = squeezed.infile
         /\ parsed.outfile = squeezed.outfile

=============================================================================
