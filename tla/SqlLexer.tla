------------------------------ MODULE SqlLexer ------------------------------
(***************************************************************************)
(* The lexer, on text made of symbols.  A symbol is a character, or a whole *)
(* keyword: keywords are spelled with identifier characters, so a run of    *)
(* such symbols is a keyword only if it is that one symbol.                 *)
(***************************************************************************)
EXTENDS Integers, Sequences

Keywords == {"CREATE", "TABLE", "INDEX", "ON", "USING", "HASH", "BTREE", "INSERT",
             "INTO", "VALUES", "SELECT", "FROM", "WHERE", "AND", "OR", "EXPLAIN",
             "INT64", "VARCHAR"}

Quote == "'"

isWhitespace(char) == char \in {" ", "\n"}
isDigit(char) == char \in {"0", "1", "7", "8", "9"}
isIdentStart(char) == char \in Keywords \cup {"a", "b", "t", "INT"}
isIdentPart(char) == isIdentStart(char) \/ isDigit(char)

\* peek: the symbol at p, or the zero rune at the end.
Peek(text, p) == IF p > Len(text) THEN "EOF" ELSE text[p]

Token(type, value, start, stop) ==
  [type |-> type, text |-> value, start |-> start, stop |-> stop]

Lexed(tokens) == [ok |-> TRUE, tokens |-> tokens]
LexError(message, p) == [ok |-> FALSE, message |-> message, pos |-> p]

\* The symbols the handlers turn into one token each.
Single == [s \in {"(", ")", ",", ";", "*", "="} |->
             CASE s = "(" -> "LPAREN" [] s = ")" -> "RPAREN" [] s = "," -> "COMMA"
               [] s = ";" -> "SEMICOLON" [] s = "*" -> "ASTERISK" [] s = "=" -> "EQ"]

\* handleLT, handleGT and handleBang: an operator of two symbols wins.
Pairs == [s \in {<<"<", "=">>, <<"<", ">">>, <<">", "=">>, <<"!", "=">>} |->
            CASE s = <<"<", "=">> -> "LE" [] s = <<">", "=">> -> "GE" [] OTHER -> "NE"]

RECURSIVE IdentStop(_, _), NumberStop(_, _), StringStop(_, _), StringValue(_, _)

\* The first position after the run of identifier symbols, or digits, at p.
IdentStop(text, p) ==
  IF isIdentPart(Peek(text, p)) THEN IdentStop(text, p + 1) ELSE p

NumberStop(text, p) ==
  IF isDigit(Peek(text, p)) THEN NumberStop(text, p + 1) ELSE p

readIdentOrKeyword(text, p) ==
  LET stop == IdentStop(text, p)
      word == SubSeq(text, p, stop - 1)
  IN  Token(IF Len(word) = 1 /\ text[p] \in Keywords THEN text[p] ELSE "IDENT",
            word, p, stop)

readNumber(text, p) ==
  LET stop == NumberStop(text, IF text[p] = "-" THEN p + 1 ELSE p)
  IN  Token("NUMBER", SubSeq(text, p, stop - 1), p, stop)

\* The closing quote of a string whose body goes on at p, beyond the end if
\* there is none; two quotes in a row stand for one.
StringStopNoEscape(text, p) ==
  IF p > Len(text) \/ text[p] = Quote THEN p ELSE StringStop(text, p + 1)

StringStop(text, p) ==
  IF p > Len(text) THEN p
  ELSE IF text[p] # Quote THEN StringStop(text, p + 1)
  ELSE IF Peek(text, p + 1) = Quote THEN StringStop(text, p + 2)
  ELSE p

\* What readString's builder holds when the body goes on at p.
StringValue(text, p) ==
  IF p >= StringStop(text, p) THEN <<>>
  ELSE <<text[p]>> \o StringValue(text, IF text[p] = Quote THEN p + 2 ELSE p + 1)

readString(text, p) ==
  Token("STRING", StringValue(text, p + 1), p, StringStop(text, p + 1) + 1)

RECURSIVE TokenizeFrom(_, _, _)

TokenizeFrom(text, p, out) ==
  LET char == Peek(text, p)
      next == Peek(text, p + 1)
      Go(token) == TokenizeFrom(text, token.stop, Append(out, token))
  IN
  CASE p > Len(text) -> Lexed(Append(out, Token("EOF", <<>>, p, p)))
    [] isWhitespace(char) -> TokenizeFrom(text, p + 1, out)
    [] isIdentStart(char) -> Go(readIdentOrKeyword(text, p))
    [] isDigit(char) \/ (char = "-" /\ isDigit(next)) -> Go(readNumber(text, p))
    [] char = Quote -> IF StringStop(text, p + 1) > Len(text)
                       THEN LexError("unterminated", p)
                       ELSE Go(readString(text, p))
    [] char \in DOMAIN Single -> Go(Token(Single[char], <<char>>, p, p + 1))
    [] <<char, next>> \in DOMAIN Pairs ->
         Go(Token(Pairs[<<char, next>>], <<char, next>>, p, p + 2))
    [] char = "<" -> Go(Token("LT", <<char>>, p, p + 1))
    [] char = ">" -> Go(Token("GT", <<char>>, p, p + 1))
    [] OTHER -> LexError("unexpected", p)

Tokenize(sql) == TokenizeFrom(sql, 1, <<>>)
=============================================================================
