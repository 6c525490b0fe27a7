------------------------------- MODULE Parser -------------------------------
(***************************************************************************)
(* parse_line of the shell.  A line is a sequence of characters, as        *)
(* read_one_line left it in the buffer.  parse_line works by writing       *)
(* string ends into that buffer: strchr and an assignment of \0 split a    *)
(* string at the first occurrence of a character, strtok cuts it into its  *)
(* maximal runs of other characters.  Here these are operators on          *)
(* sequences, and what is left of a string is again a sequence.            *)
(*                                                                         *)
(* As the comment of parse_line allows (parse.c:117), a line has at most   *)
(* one '<' and one '>'; the branches for a '>' in a later string (parse.c: *)
(* 232-255, 280-303, 329-352) are then dead.  Likewise a line fits the     *)
(* table of commands (thsh.h:16-20).                                       *)
(***************************************************************************)
EXTENDS Integers, SequencesExt, FiniteSetsExt

SP   == " "
NL   == "nl"
NUL  == "nul"
BAR  == "|"
LT   == "<"
GT   == ">"
HASH == "#"

\* Every other character, tabs included, is part of a word.
Specials  == {SP, NL, NUL, BAR, LT, GT, HASH}
IsWord(c) == c \notin Specials

At(s, C) == {i \in DOMAIN s : s[i] \in C}

\* The string up to the first character in C, all of it without one.
Upto(s, C) == IF At(s, C) = {} THEN s ELSE SubSeq(s, 1, Min(At(s, C)) - 1)

\* The string after the first character in C, empty without one.
After(s, C) == IF At(s, C) = {} THEN <<>> ELSE SubSeq(s, Min(At(s, C)) + 1, Len(s))

\* The positions in I from left to right.
InOrder(I) ==
  [k \in 1 .. Cardinality(I) |->
     CHOOSE i \in I : Cardinality({j \in I : j < i}) = k - 1]

\* What repeated calls of strtok return: the maximal runs outside C.
Tokens(s, C) ==
  LET firsts == {i \in DOMAIN s : s[i] \notin C /\ (i > 1 => s[i - 1] \in C)}
      from(i) == Upto(SubSeq(s, i, Len(s)), C)
      order  == InOrder(firsts)
  IN  [k \in DOMAIN order |-> from(order[k])]

\* Mutated form of SkipSpaces: no space is skipped.
SkipNothing(s) == s

SkipSpaces(s) ==
  LET others == {i \in DOMAIN s : s[i] # SP}
  IN  IF others = {} THEN <<>> ELSE SubSeq(s, Min(others), Len(s))

\* The newline, or one space, at the end of the string is cut off.
ChopEnd(s) == IF s # <<>> /\ Last(s) \in {NL, SP} THEN Front(s) ELSE s

\* Mutated form of Redirection: the rest of the pipeline is forgotten.
RedirectionDropsRest(s, c) ==
  LET target == ChopEnd(SkipSpaces(After(s, {c})))
  IN  IF At(s, {c}) = {} THEN [file |-> <<>>, rest |-> <<>>]
      ELSE [file |-> <<Upto(target, {BAR, SP})>>, rest |-> <<>>]

\* A redirection with the character c: the file's name (<<>> stands for
\* NULL, <<w>> for a pointer to w) and the pipeline that follows it.
Redirection(s, c) ==
  LET target == ChopEnd(SkipSpaces(After(s, {c})))
  IN  IF At(s, {c}) = {}
      THEN [file |-> <<>>, rest |-> <<>>]
      ELSE [file |-> <<Upto(target, {BAR, SP})>>, rest |-> After(target, {BAR})]

\* The character itself stays, the comment goes.
StripComment(line) ==
  IF At(line, {HASH}) = {} THEN line ELSE Append(Upto(line, {HASH}), HASH)

Words(strings) == [k \in DOMAIN strings |-> Tokens(strings[k], {SP})]

\* The stages before any redirection, divided by bars.
FirstStages(body) ==
  LET lines == Tokens(body, {HASH, NL})
  IN  IF lines = <<>> THEN <<>> ELSE Words(Tokens(lines[1], {BAR}))

\* The stages after a redirection, divided by bars and by spaces.
LaterStages(rest) == Words(Tokens(rest, {BAR, SP}))

\* Mutated form of CountWords: the stages are counted.
CountStages(stages) == Len(stages)

\* What parse_line counts, and returns: the words of all stages.
CountWords(stages) == FoldLeft(LAMBDA n, words : n + Len(words), 0, stages)

ParseLine(line) ==
  LET text   == StripComment(line)
      out    == Redirection(text, GT)
      left   == Upto(text, {GT})
      in     == Redirection(left, LT)
      stages == FirstStages(Upto(left, {LT}))
                  \o LaterStages(in.rest) \o LaterStages(out.rest)
  IN  [stages  |-> stages,
       infile  |-> in.file,
       outfile |-> out.file,
       count   |-> CountWords(stages)]

\* What main runs: the stages up to the first without a command.
Visible(stages) ==
  LET gaps == {k \in DOMAIN stages : stages[k] = <<>>}
  IN  IF gaps = {} THEN stages ELSE SubSeq(stages, 1, Min(gaps) - 1)

=============================================================================
