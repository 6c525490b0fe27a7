-------------------------- MODULE CommandLineProof --------------------------
(***************************************************************************)
(* Proofs about CommandLine, for a buffer of any size: read_one_line never *)
(* writes past its end, and the length it returns is that of the line but  *)
(* for a line that fills the buffer.                                       *)
(***************************************************************************)
EXTENDS CommandLine, TLAPS

Chars == Specials \cup Range(Letters)

\* What is in the buffer while a line is read has no newline yet, and the
\* counter is one ahead of it.
Reading ==
  /\ cmd \in Seq(Chars)
  /\ count \in Nat
  /\ pc = "read" => \A n \in DOMAIN cmd : cmd[n] # NL

\* What read_one_line returns for the line in the buffer.
LengthReturned ==
  pc \in {"parse", "run"} =>
    \/ Last(cmd) = NL /\ length = Len(cmd)
    \/ /\ Last(cmd) # NL /\ Len(cmd) = MAX_INPUT - 2
       /\ length = Len(cmd) + 1

LineInv == TypeOK /\ LengthReturned /\ Reading

LEMMA EmptyBuffer ==
  /\ <<>> \in Seq(Chars) /\ Len(<<>>) = 0 /\ Len(<<>>) <= MAX_INPUT - 2
  /\ DOMAIN <<>> = {}
BY BufferHasRoom

\* The characters that are typed or left in the buffer.
LEMMA NextCharacter ==
  ASSUME LineInv, pc = "read"
  PROVE  /\ Letters[Len(cmd) + 1] \in Range(Letters)
         /\ Letters[Len(cmd) + 1] # NL
<1>1. Len(cmd) + 1 \in DOMAIN Letters
  BY BufferHasRoom, LettersAreWords DEF LineInv, TypeOK, Reading
<1>2. Letters[Len(cmd) + 1] \in Range(Letters)
  BY <1>1 DEF Range
<1>3. IsWord(Letters[Len(cmd) + 1])
  BY <1>1, LettersAreWords
<1> QED BY <1>2, <1>3 DEF IsWord, Specials

\* One turn of the loop, whatever character it stores.
LEMMA StoreKeeps ==
  ASSUME LineInv, pc = "read", NEW c \in Chars, Store(c),
         errno' \in {0, EIO}
  PROVE  LineInv'
<1> DEFINE n == Len(cmd)
<1>1. n \in Nat /\ cmd \in Seq(Chars) /\ count = n + 1 /\ n + 1 < MAX_INPUT - 1
  BY DEF LineInv, TypeOK, Reading
<1>2. /\ cmd' \in Seq(Chars) /\ Len(cmd') = n + 1 /\ cmd'[n + 1] = c
      /\ \A k \in 1 .. n : cmd'[k] = cmd[k]
  BY <1>1 DEF Store
<1>3. Last(cmd') = c
  BY <1>2 DEF Last
<1>4. \A k \in DOMAIN cmd' : cmd'[k] \in Chars
  BY <1>2
<1>5. Len(cmd') <= MAX_INPUT - 2
  BY <1>1, <1>2, BufferHasRoom
<1> HIDE DEF n
<1>6. CASE c = NL
  <2>1. count' = count /\ length' = n + 1 /\ pc' = "parse"
    BY <1>1, <1>6 DEF Store, Return
  <2>2. LengthReturned'
    BY <1>2, <1>3, <1>6, <2>1 DEF LengthReturned
  <2>3. length' \in -EIO .. MAX_INPUT - 1
    BY <1>1, <2>1, BufferHasRoom DEF EIO
  <2>4. TypeOK'
    BY <1>4, <1>5, <2>1, <2>3 DEF TypeOK, Chars
  <2> QED BY <1>1, <1>2, <2>1, <2>2, <2>4 DEF LineInv, Reading
<1>7. CASE c # NL /\ n + 2 < MAX_INPUT - 1
  <2>1. count' = n + 2 /\ pc' = "read" /\ length' = length
    BY <1>1, <1>7 DEF Store, HasRoom
  <2>2. TypeOK'
    BY <1>1, <1>2, <1>4, <1>5, <1>7, <2>1 DEF LineInv, TypeOK, Chars
  <2>3. \A k \in DOMAIN cmd' : cmd'[k] # NL
    BY <1>1, <1>2, <1>7 DEF LineInv, Reading, n
  <2> QED BY <1>1, <1>2, <2>1, <2>2, <2>3 DEF LineInv, LengthReturned, Reading
<1>8. CASE c # NL /\ ~(n + 2 < MAX_INPUT - 1)
  <2>1. n = MAX_INPUT - 3
    BY <1>1, <1>8, BufferHasRoom
  <2>2. count' = MAX_INPUT - 1 /\ length' = count' /\ pc' = "parse"
    BY <1>1, <1>8, <2>1, BufferHasRoom DEF Store, HasRoom, Return
  <2>3. LengthReturned'
    BY <1>2, <1>3, <1>8, <2>1, <2>2, BufferHasRoom DEF LengthReturned
  <2>4. TypeOK'
    BY <1>4, <1>5, <2>2, BufferHasRoom DEF TypeOK, Chars, EIO
  <2> QED BY <1>2, <2>2, <2>3, <2>4, BufferHasRoom DEF LineInv, Reading
<1> QED BY <1>6, <1>7, <1>8

LEMMA LineStep == LineInv /\ [Next]_vars => LineInv'
<1> SUFFICES ASSUME LineInv, [Next]_vars PROVE LineInv'
  OBVIOUS
<1> USE DEF LineInv
<1>1. CASE CallRead
  <2>1. count' = Len(cmd') + 1 /\ count' < MAX_INPUT - 1
    BY <1>1, EmptyBuffer, BufferHasRoom DEF CallRead
  <2>2. TypeOK'
    BY <1>1, <2>1, EmptyBuffer DEF CallRead, TypeOK
  <2> QED BY <1>1, <2>2, EmptyBuffer DEF CallRead, LengthReturned, Reading
<1>2. CASE ReadChar
  <2>1. PICK c \in {Letters[Len(cmd) + 1], NL, SP, BAR, LT, GT, HASH} : Store(c)
    BY <1>2 DEF ReadChar
  <2>2. pc = "read" /\ c \in Chars
    BY <1>2, <2>1, NextCharacter DEF ReadChar, Chars, Specials
  <2>3. errno' \in {0, EIO}
    BY <1>2 DEF ReadChar, TypeOK
  <2> QED BY <2>1, <2>2, <2>3, StoreKeeps
<1>3. CASE ReadEof
  <2>1. length' = -errno /\ pc' = "exit"
    BY <1>3 DEF ReadEof, Return, TypeOK, EIO
  <2>2. length' \in -EIO .. MAX_INPUT - 1
    BY <2>1, BufferHasRoom DEF TypeOK, EIO
  <2>3. TypeOK'
    BY <1>3, <2>1, <2>2 DEF ReadEof, TypeOK
  <2> QED BY <1>3, <2>1, <2>3 DEF ReadEof, LengthReturned, Reading
<1>4. CASE ReadFails
  <2>1. PICK c \in {Letters[Len(cmd) + 1], NL, NUL} : Store(c)
    BY <1>4 DEF ReadFails
  <2>2. pc = "read" /\ c \in Chars
    BY <1>4, <2>1, NextCharacter DEF ReadFails, Chars, Specials
  <2>3. errno' \in {0, EIO}
    BY <1>4 DEF ReadFails
  <2> QED BY <2>1, <2>2, <2>3, StoreKeeps
<1>5. CASE Parse
  BY <1>5 DEF Parse, TypeOK, LengthReturned, Reading
<1>6. CASE NextLine
  <2>1. length' \in -EIO .. MAX_INPUT - 1 /\ errno' \in {0, EIO}
    BY <1>6, BufferHasRoom DEF NextLine, TypeOK, EIO
  <2>2. TypeOK'
    BY <1>6, <2>1, EmptyBuffer DEF NextLine, TypeOK
  <2> QED BY <1>6, <2>2, EmptyBuffer DEF NextLine, LengthReturned, Reading
<1>7. CASE UNCHANGED vars
  BY <1>7 DEF vars, TypeOK, LengthReturned, Reading
<1> QED BY <1>1, <1>2, <1>3, <1>4, <1>5, <1>6, <1>7 DEF Next

LEMMA LineInvariant == Spec => []LineInv
<1>1. Init => LineInv
  <2> SUFFICES ASSUME Init PROVE LineInv
    OBVIOUS
  <2>1. length \in -EIO .. MAX_INPUT - 1
    BY BufferHasRoom DEF Init, EIO
  <2>2. TypeOK
    BY <2>1, EmptyBuffer DEF Init, TypeOK
  <2> QED BY <2>2, EmptyBuffer DEF Init, LineInv, LengthReturned, Reading
<1> QED BY <1>1, LineStep, PTL DEF Spec

\* The buffer is not overrun, whatever is typed and whichever reads fail: at
\* any time there is room for the next character and the terminator.
THEOREM BufferIsNotOverrun == Spec => []TypeOK
<1>1. LineInv => TypeOK
  BY DEF LineInv
<1> QED BY <1>1, LineInvariant, PTL

\* read_one_line returns the number of characters of the line it has stored,
\* the newline counted, except for a line that fills the buffer before its
\* newline has come: of that it returns one more.  parse.c:18 promises the
\* length without the terminator for every line, so this says exactly where
\* the code keeps that promise and by how much it misses it.
THEOREM LengthOffOnlyWhenFull == Spec => []LengthReturned
<1>1. LineInv => LengthReturned
  BY DEF LineInv
<1> QED BY <1>1, LineInvariant, PTL

=============================================================================
