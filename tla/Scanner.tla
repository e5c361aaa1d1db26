------------------------------ MODULE Scanner ------------------------------
(***************************************************************************)
(* The scanner (lexer.c): from a place in the text of an input to the next *)
(* token.  The text is a C string; its characters are members of a small   *)
(* set, and a keyword is one of them: what matters of a word is which of   *)
(* its characters are letters, digits, or make it a keyword.  Reading past *)
(* the NUL that ends the text is undefined behaviour (Overrun).            *)
(***************************************************************************)
EXTENDS Integers, SequencesExt, FiniteSetsExt

VARIABLE text   \* the characters of the input

-----------------------------------------------------------------------------
(* Characters.                                                             *)

Keywords == {"fn", "return", "true", "false", "let", "if", "else", "while", "nil",
             "match", "extern", "struct", "type", "import"}
Digits == {"0", "1"}
Letters == {"x", "y", "z", "n", "_"} \cup Keywords
Blanks == {" "}
Quote == "\""
Comma == ","
OpenBrace == "{"
CloseBrace == "}"

Symbol(lexeme, type) == [lexeme |-> lexeme, type |-> type]

Punctuation == <<
  Symbol(<<":">>, "COLON"), Symbol(<<"?">>, "QUESTION"),
  Symbol(<<"(">>, "LP"), Symbol(<<")">>, "RP"),
  Symbol(<<OpenBrace>>, "LEFT_BRACE"), Symbol(<<CloseBrace>>, "RIGHT_BRACE"),
  Symbol(<<"[">>, "LEFT_SQ"), Symbol(<<"]">>, "RIGHT_SQ"), Symbol(<<Comma>>, "COMMA"),
  Symbol(<<".", ".", ".">>, "TRIPLE_DOT"), Symbol(<<".">>, "DOT") >>

Operators == <<
  Symbol(<<"=", "=">>, "EQUALITY"),
  Symbol(<<"<", "=">>, "LTE"), Symbol(<<"<">>, "LT"),
  Symbol(<<">", "=">>, "GTE"), Symbol(<<">">>, "GT"),
  Symbol(<<"=">>, "ASSIGNMENT"), Symbol(<<"-", ">">>, "PIPE"), Symbol(<<"-">>, "MINUS"),
  Symbol(<<"!", "=">>, "NOT_EQUAL"), Symbol(<<"!">>, "BANG"), Symbol(<<"%">>, "MODULO"),
  Symbol(<<"+">>, "PLUS"), Symbol(<<"/">>, "SLASH"), Symbol(<<"*">>, "STAR") >>

\* All symbols, in the order in which the matchers try them.
Symbols == Punctuation \o Operators \o <<
  Symbol(<<"\n">>, "NL"), Symbol(<<"|">>, "BAR"),
  Symbol(<<"&", "&">>, "LOGICAL_AND"), Symbol(<<"&">>, "AMPERSAND") >>

End == Len(text) + 1   \* where the NUL is

-----------------------------------------------------------------------------
(* Matchers.                                                               *)

IsAt(lexeme, i) ==
  i + Len(lexeme) <= End /\ SubSeq(text, i, i + Len(lexeme) - 1) = lexeme

\* The first place from i on that does not satisfy In: the NUL at the latest.
PastRun(In(_), i) ==
  CHOOSE j \in i .. End : (j = End \/ ~In(text[j])) /\ \A k \in i .. j - 1 : In(text[k])

\* seek_char: the next c after i, or 0 when the search leaves the text.
seek_char(c, i) ==
  LET places == {j \in i + 1 .. Len(text) : text[j] = c}
  IN  IF places = {} THEN 0 ELSE Min(places)

PastWord(i) == PastRun(LAMBDA c : c \in Letters \cup Digits, i)
PastNumber(i) == PastRun(LAMBDA c : c \in Digits \cup {"."}, i)
Dots(i, j) == Cardinality({k \in i .. j - 1 : text[k] = "."})

Token(type, from, next, word) == [type |-> type, from |-> from, next |-> next, word |-> word]

\* The bytes of a string literal: \n becomes one byte, and leaves the byte after it
\* as malloc returned it.
StringBytes(chars) ==
  [i \in DOMAIN chars |->
     IF chars[i] = "\\" /\ i < Len(chars) /\ chars[i + 1] = "n" THEN "\n"
     ELSE IF chars[i] = "n" /\ i > 1 /\ chars[i - 1] = "\\" THEN "uninitialised"
     ELSE chars[i]]

\* One character, of which nothing is known.
ErrorToken(i) == Token("ERROR", i, i + 1, <<>>)

\* A search that left the text.
Overrun(i) == Token("ERROR", i, 0, <<>>)

\* (Faulty form, for the mutation runs: the closing quote is left to the next token.)
ScanStringToQuote(i) ==
  LET close == seek_char(Quote, i)
  IN  IF close = 0 THEN Overrun(i)
      ELSE Token("STRING", i, close, StringBytes(SubSeq(text, i + 1, close - 1)))

ScanString(i) ==
  LET close == seek_char(Quote, i)
  IN  IF close = 0 THEN Overrun(i)
      ELSE Token("STRING", i, close + 1, StringBytes(SubSeq(text, i + 1, close - 1)))

\* parse_num: with two dots it is no number.
ScanNumber(i) ==
  LET next == PastNumber(i)
  IN  IF Dots(i, next) > 1 THEN ErrorToken(i)
      ELSE Token(IF Dots(i, next) = 0 THEN "INTEGER" ELSE "NUMBER", i, next,
                 SubSeq(text, i, next - 1))

\* create_identifier: a word is a keyword only as a whole.
ScanWord(i) ==
  LET word == SubSeq(text, i, PastWord(i) - 1)
  IN  Token(IF Len(word) = 1 /\ word[1] \in Keywords THEN word[1] ELSE "IDENTIFIER",
            i, PastWord(i), word)

\* (Faulty form, for the mutation runs: the shortest of the symbols there.)
ScanSymbolShort(i) ==
  LET fits == {k \in DOMAIN Symbols : IsAt(Symbols[k].lexeme, i)}
      s == Symbols[Max(fits)]
  IN  Token(s.type, i, i + Len(s.lexeme), <<>>)

ScanSymbol(i) ==
  LET fits == {k \in DOMAIN Symbols : IsAt(Symbols[k].lexeme, i)}
      s == Symbols[Min(fits)]
  IN  Token(s.type, i, i + Len(s.lexeme), <<>>)

\* The matchers, tried at i.  No symbol starts as a string, a number or a word does.
MatchAt(i) ==
  IF i = End THEN ErrorToken(i)
  ELSE IF text[i] = Quote THEN ScanString(i)
  ELSE IF text[i] \in Digits THEN ScanNumber(i)
  ELSE IF text[i] \in Letters THEN ScanWord(i)
  ELSE IF \E k \in DOMAIN Symbols : IsAt(Symbols[k].lexeme, i) THEN ScanSymbol(i)
  ELSE ErrorToken(i)

\* (Faulty form, for the mutation runs: a comment takes its newline with it.)
scan_token_past_line(i) ==
  LET start == PastRun(LAMBDA c : c \in Blanks, i)
      comment == start < End /\ text[start] = "#"
      line == IF comment THEN seek_char("\n", start) ELSE start
  IN  IF i = End THEN Token("EOF", i, i, <<>>)
      ELSE IF i > End \/ line = 0 THEN Overrun(i)
      ELSE MatchAt(IF comment THEN line + 1 ELSE line)

\* scan_token from i: blanks, then one comment, which ends before its newline, are
\* skipped.  At the NUL after blanks nothing matches, and the scanner steps over it.
scan_token(i) ==
  LET start == PastRun(LAMBDA c : c \in Blanks, i)
      comment == start < End /\ text[start] = "#"
      body == IF comment THEN seek_char("\n", start) ELSE start
  IN  IF i = End THEN Token("EOF", i, i, <<>>)
      ELSE IF i > End \/ body = 0 THEN Overrun(i)
      ELSE MatchAt(body)

=============================================================================
