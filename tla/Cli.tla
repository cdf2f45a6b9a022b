-------------------------------- MODULE Cli --------------------------------
(***************************************************************************)
(* The command line client's loop: lines from the terminal collect in a    *)
(* buffer, and every statement that a semicolon completes is sent to the   *)
(* server, which answers it (Server).  Text is a sequence of symbols, as   *)
(* in SqlLexer.                                                            *)
(***************************************************************************)
EXTENDS SqlLexer

CONSTANTS
  Lines,      \* what the user may type, without the newline
  MaxTyped    \* bound: lines typed

ASSUME MaxTypedAssumption == MaxTyped \in Nat

VARIABLES
  cli,        \* "reading", or how repl ended
  buf,        \* repl's buf
  sent,       \* the statements sent so far
  typed,      \* history: all text that went into buf
  count       \* lines read

cliVars == <<cli, buf, sent, typed, count>>

\* The backslash command that ends the loop ("quit" and "exit" are the same).
Quit == "\\q"

RECURSIVE TrimLeft(_), TrimRight(_)
TrimLeft(text) ==
  IF text # <<>> /\ isWhitespace(Head(text)) THEN TrimLeft(Tail(text)) ELSE text
TrimRight(text) ==
  IF text # <<>> /\ isWhitespace(text[Len(text)])
  THEN TrimRight(SubSeq(text, 1, Len(text) - 1)) ELSE text
TrimSpace(text) == TrimRight(TrimLeft(text))

RECURSIVE SplitFrom(_, _, _, _, _)

\* The loop forgets the quotes.
SplitFromBlind(text, i, start, inString, out) ==
  IF i > Len(text) THEN [statements |-> out, rest |-> SubSeq(text, start, Len(text))]
  ELSE IF text[i] = ";"
  THEN SplitFrom(text, i + 1, i + 1, FALSE,
                 Append(out, TrimSpace(SubSeq(text, start, i))))
  ELSE SplitFrom(text, i + 1, start, FALSE, out)

\* The loop of splitStatementsWithRemainder at index i; a statement holds its
\* semicolon, so it is never blank.
SplitFrom(text, i, start, inString, out) ==
  IF i > Len(text) THEN [statements |-> out, rest |-> SubSeq(text, start, Len(text))]
  ELSE IF text[i] = Quote
  THEN IF inString /\ Peek(text, i + 1) = Quote
       THEN SplitFrom(text, i + 2, start, inString, out)
       ELSE SplitFrom(text, i + 1, start, ~inString, out)
  ELSE IF text[i] = ";" /\ ~inString
  THEN SplitFrom(text, i + 1, i + 1, inString,
                 Append(out, TrimSpace(SubSeq(text, start, i))))
  ELSE SplitFrom(text, i + 1, start, inString, out)

splitStatementsWithRemainder(text) == SplitFrom(text, 1, 1, FALSE, <<>>)

CliInit ==
  cli = "reading" /\ buf = <<>> /\ sent = <<>> /\ typed = <<>> /\ count = 0

\* A line that is kept.  Either every statement it completes is sent and
\* answered, or sendQuery fails at one of them and repl returns.
KeepLine(line) ==
  LET text == buf \o line
      split == splitStatementsWithRemainder(text)
  IN
  /\ typed' = typed \o line
  /\ count' = count + 1
  /\ \/ /\ sent' = sent \o split.statements
        /\ buf' = IF split.statements = <<>> THEN text ELSE split.rest
        /\ UNCHANGED cli
     \/ \E n \in 1 .. Len(split.statements) :
          /\ sent' = sent \o SubSeq(split.statements, 1, n)
          /\ cli' = "failed"
          /\ buf' = text

\* repl reads a line.  Commands are looked for only while the buffer is empty.
\* (The help text changes nothing and is left out.)
ReadLine(line) ==
  /\ cli = "reading" /\ count < MaxTyped
  /\ IF buf = <<>> /\ TrimSpace(line) = <<Quit>>
     THEN cli' = "quit" /\ count' = count + 1 /\ UNCHANGED <<buf, sent, typed>>
     ELSE KeepLine(Append(line, "\n"))

\* The end of the terminal's input: what is in the buffer is dropped.
EndOfInput == cli = "reading" /\ cli' = "quit" /\ UNCHANGED <<buf, sent, typed, count>>

CliNext == (\E line \in Lines : ReadLine(line)) \/ EndOfInput

-----------------------------------------------------------------------------
\* Whether position i of a text is outside of string literals, by counting.
Outside(text, i) == Len(SelectSeq(SubSeq(text, 1, i - 1), LAMBDA s : s = Quote)) % 2 = 0

Cuts(text) == {i \in DOMAIN text : text[i] = ";" /\ Outside(text, i)}

(* However the text is broken into lines, the statements sent are the pieces
   between the semicolons outside of string literals, each once and in order,
   and the buffer is what follows the last of them: reading a line, splitting
   and keeping the remainder loses and repeats nothing. *)
TypedIsSent ==
  LET Before(i) == {j \in Cuts(typed) : j < i}
      Start(i) == IF Before(i) = {} THEN 1
                  ELSE 1 + CHOOSE j \in Before(i) : \A k \in Before(i) : k <= j
      Piece(i) == TrimSpace(SubSeq(typed, Start(i), i))
  IN
  cli = "reading" =>
    /\ \A i \in Cuts(typed) :
         LET n == 1 + Len(SelectSeq([j \in 1 .. i - 1 |-> j],
                                    LAMBDA j : j \in Cuts(typed)))
         IN  n \in DOMAIN sent /\ sent[n] = Piece(i)
    /\ \A n \in DOMAIN sent : \E i \in Cuts(typed) : sent[n] = Piece(i)
    /\ buf = SubSeq(typed, Start(Len(typed) + 1), Len(typed))

(* What the client takes for one statement the server's lexer takes for one
   statement: it is never cut inside of a string literal, and its only
   SEMICOLON token is its last token. *)
SentIsWhole ==
  \A n \in DOMAIN sent :
    LET lexed == Tokenize(sent[n]) IN
    IF lexed.ok
    THEN \A k \in DOMAIN lexed.tokens :
           lexed.tokens[k].type = "SEMICOLON" <=> k = Len(lexed.tokens) - 1
    ELSE lexed.message # "unterminated"

(* Lines become statements: what the user types is sent once, in order and
   cut where the server's lexer ends a statement too. *)
LinesBecomeStatements == TypedIsSent /\ SentIsWhole
=============================================================================
