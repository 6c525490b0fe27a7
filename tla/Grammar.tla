------------------------------ MODULE Grammar -------------------------------
(***************************************************************************)
(* The command lines of the handout, as the comment above parse_line       *)
(* (parse.c:79-149) describes them, stated without a parser: every word    *)
(* has a role that follows from the characters around it.  A word after    *)
(* '<' or '>' names a file, any other is an argument of the stage given by *)
(* the number of bars before it.  A comment is no part of the line.        *)
(*                                                                         *)
(* Below it, the four kinds of lines on which parse_line disagrees.        *)
(***************************************************************************)
EXTENDS Parser

\* The line without its comment and newline.
Body(line) == Upto(line, {HASH, NL})

WordStarts(s) == {i \in DOMAIN s : IsWord(s[i]) /\ (i > 1 => ~IsWord(s[i - 1]))}

WordAt(s, i) == Upto(SubSeq(s, i, Len(s)), Specials)

\* Between the character c and position i there are only spaces.
Follows(s, i, c) ==
  \E j \in 1 .. i - 1 : s[j] = c /\ \A k \in j + 1 .. i - 1 : s[k] = SP

NamesFile(s, c) == {i \in WordStarts(s) : Follows(s, i, c)}

Arguments(s) == WordStarts(s) \ (NamesFile(s, LT) \cup NamesFile(s, GT))

StageOf(s, i) == 1 + Cardinality({j \in 1 .. i - 1 : s[j] = BAR})

WordsAt(s, I) ==
  LET order == InOrder(I)
  IN  [k \in DOMAIN order |-> WordAt(s, order[k])]

Meaning(line) ==
  LET s == Body(line)
  IN  [stages  |-> [k \in 1 .. StageOf(s, Len(s) + 1) |->
                      WordsAt(s, {i \in Arguments(s) : StageOf(s, i) = k})],
       infile  |-> WordsAt(s, NamesFile(s, LT)),
       outfile |-> WordsAt(s, NamesFile(s, GT))]

\* Every stage has a command and every redirection a file.
WellFormed(meaning, line) ==
  /\ \A k \in DOMAIN meaning.stages : meaning.stages[k] # <<>>
  /\ Len(meaning.infile) = Cardinality(At(Body(line), {LT}))
  /\ Len(meaning.outfile) = Cardinality(At(Body(line), {GT}))

-----------------------------------------------------------------------------

Redirections(s) == At(s, {LT, GT})

BarBetween(s, j, i) == \E k \in j .. i : s[k] = BAR

\* "a >f <g": the part of the line after '>' is not searched for '<'.
InputAfterOutput(s) == \E i \in At(s, {GT}), j \in At(s, {LT}) : i < j

\* ">f a": the word that should be the command is dropped.
CommandAfterFile(s) ==
  \E j \in Redirections(s) : \A i \in Arguments(s) : j < i

\* "a >f b": the argument is dropped.
ArgumentAfterFile(s) ==
  \E i \in Arguments(s), j \in Redirections(s) : j < i /\ ~BarBetween(s, j, i)

\* "a <f | b c": a word of a later stage is taken for a stage.
LaterStageHasArguments(s) ==
  \E i, m \in Arguments(s), j \in Redirections(s) :
     j < i /\ i < m /\ BarBetween(s, j, i) /\ StageOf(s, i) = StageOf(s, m)

\* "a >f#" and "a >f | b #": the '#' is taken for part of a word.
CommentAfterFile(line) ==
  \E h \in At(line, {HASH}), j \in Redirections(Body(line)) :
     line[h - 1] # SP \/ BarBetween(line, j, h)

Handled(line) ==
  LET s == Body(line)
  IN  /\ ~InputAfterOutput(s)
      /\ ~ArgumentAfterFile(s)
      /\ ~LaterStageHasArguments(s)
      /\ ~CommentAfterFile(line)

-----------------------------------------------------------------------------

\* The line without the spaces that have no meaning.
Squeeze(line) ==
  LET kept  == {i \in DOMAIN line :
                  \/ line[i] # SP
                  \/ /\ i < Len(line) /\ IsWord(line[i + 1])
                     /\ \E j \in 1 .. i - 1 : IsWord(line[j])
                                             /\ \A k \in j + 1 .. i : line[k] = SP}
      order == InOrder(kept)
  IN  [k \in DOMAIN order |-> line[order[k]]]

=============================================================================
