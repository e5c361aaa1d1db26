---------------------------- MODULE ParserProofs ----------------------------
(***************************************************************************)
(* The tokens of every text: nothing is passed over, every token is as     *)
(* long as it can be, and the text is left only where a string, a comment  *)
(* or blanks are open at its end.  The calls of the parser: what each      *)
(* gives and takes, and what leads to undefined behaviour.                 *)
(***************************************************************************)
EXTENDS Parser, DataLemmas, TLAPS

-----------------------------------------------------------------------------
(* The symbols: what the order of the matchers has to do with them.        *)

\* The last symbols that are tried.
LastSymbols == <<
  Symbol(<<"\n">>, "NL"), Symbol(<<"|">>, "BAR"),
  Symbol(<<"&", "&">>, "LOGICAL_AND"), Symbol(<<"&">>, "AMPERSAND") >>

\* The symbols by their places in the order in which they are tried.
LEMMA SymbolTable ==
  /\ DOMAIN Symbols = 1 .. 29
  /\ Symbols[1] = Symbol(<<":">>, "COLON") /\ Symbols[2] = Symbol(<<"?">>, "QUESTION")
  /\ Symbols[3] = Symbol(<<"(">>, "LP") /\ Symbols[4] = Symbol(<<")">>, "RP")
  /\ Symbols[5] = Symbol(<<OpenBrace>>, "LEFT_BRACE")
  /\ Symbols[6] = Symbol(<<CloseBrace>>, "RIGHT_BRACE")
  /\ Symbols[7] = Symbol(<<"[">>, "LEFT_SQ") /\ Symbols[8] = Symbol(<<"]">>, "RIGHT_SQ")
  /\ Symbols[9] = Symbol(<<Comma>>, "COMMA")
  /\ Symbols[10] = Symbol(<<".", ".", ".">>, "TRIPLE_DOT")
  /\ Symbols[11] = Symbol(<<".">>, "DOT") /\ Symbols[12] = Symbol(<<"=", "=">>, "EQUALITY")
  /\ Symbols[13] = Symbol(<<"<", "=">>, "LTE") /\ Symbols[14] = Symbol(<<"<">>, "LT")
  /\ Symbols[15] = Symbol(<<">", "=">>, "GTE") /\ Symbols[16] = Symbol(<<">">>, "GT")
  /\ Symbols[17] = Symbol(<<"=">>, "ASSIGNMENT")
  /\ Symbols[18] = Symbol(<<"-", ">">>, "PIPE") /\ Symbols[19] = Symbol(<<"-">>, "MINUS")
  /\ Symbols[20] = Symbol(<<"!", "=">>, "NOT_EQUAL")
  /\ Symbols[21] = Symbol(<<"!">>, "BANG") /\ Symbols[22] = Symbol(<<"%">>, "MODULO")
  /\ Symbols[23] = Symbol(<<"+">>, "PLUS") /\ Symbols[24] = Symbol(<<"/">>, "SLASH")
  /\ Symbols[25] = Symbol(<<"*">>, "STAR") /\ Symbols[26] = Symbol(<<"\n">>, "NL")
  /\ Symbols[27] = Symbol(<<"|">>, "BAR")
  /\ Symbols[28] = Symbol(<<"&", "&">>, "LOGICAL_AND")
  /\ Symbols[29] = Symbol(<<"&">>, "AMPERSAND")
<1> DEFINE X == Range(Punctuation) \cup Range(Operators) \cup Range(LastSymbols)
<1>1. /\ Len(Punctuation) = 11
      /\ Punctuation[1] = Symbol(<<":">>, "COLON")
      /\ Punctuation[2] = Symbol(<<"?">>, "QUESTION")
      /\ Punctuation[3] = Symbol(<<"(">>, "LP") /\ Punctuation[4] = Symbol(<<")">>, "RP")
      /\ Punctuation[5] = Symbol(<<OpenBrace>>, "LEFT_BRACE")
      /\ Punctuation[6] = Symbol(<<CloseBrace>>, "RIGHT_BRACE")
      /\ Punctuation[7] = Symbol(<<"[">>, "LEFT_SQ")
      /\ Punctuation[8] = Symbol(<<"]">>, "RIGHT_SQ")
      /\ Punctuation[9] = Symbol(<<Comma>>, "COMMA")
      /\ Punctuation[10] = Symbol(<<".", ".", ".">>, "TRIPLE_DOT")
      /\ Punctuation[11] = Symbol(<<".">>, "DOT")
  BY DEF Punctuation
<1>2. /\ Len(Operators) = 14
      /\ Operators[1] = Symbol(<<"=", "=">>, "EQUALITY")
      /\ Operators[2] = Symbol(<<"<", "=">>, "LTE") /\ Operators[3] = Symbol(<<"<">>, "LT")
      /\ Operators[4] = Symbol(<<">", "=">>, "GTE") /\ Operators[5] = Symbol(<<">">>, "GT")
      /\ Operators[6] = Symbol(<<"=">>, "ASSIGNMENT")
      /\ Operators[7] = Symbol(<<"-", ">">>, "PIPE")
      /\ Operators[8] = Symbol(<<"-">>, "MINUS")
      /\ Operators[9] = Symbol(<<"!", "=">>, "NOT_EQUAL")
      /\ Operators[10] = Symbol(<<"!">>, "BANG")
      /\ Operators[11] = Symbol(<<"%">>, "MODULO")
      /\ Operators[12] = Symbol(<<"+">>, "PLUS") /\ Operators[13] = Symbol(<<"/">>, "SLASH")
      /\ Operators[14] = Symbol(<<"*">>, "STAR")
  BY DEF Operators
<1>3. /\ Len(LastSymbols) = 4
      /\ LastSymbols[1] = Symbol(<<"\n">>, "NL") /\ LastSymbols[2] = Symbol(<<"|">>, "BAR")
      /\ LastSymbols[3] = Symbol(<<"&", "&">>, "LOGICAL_AND")
      /\ LastSymbols[4] = Symbol(<<"&">>, "AMPERSAND")
  BY DEF LastSymbols
<1>4. /\ Punctuation \in Seq(Range(Punctuation)) /\ Operators \in Seq(Range(Operators))
      /\ LastSymbols \in Seq(Range(LastSymbols))
  BY DEF Punctuation, Operators, LastSymbols, Range
<1>5. Punctuation \in Seq(X) /\ Operators \in Seq(X) /\ LastSymbols \in Seq(X)
  <2>1. /\ Seq(Range(Punctuation)) \subseteq Seq(X) /\ Seq(Range(Operators)) \subseteq Seq(X)
        /\ Seq(Range(LastSymbols)) \subseteq Seq(X)
    BY SeqMonotonic
  <2>2. QED
    BY <1>4, <2>1
<1> HIDE DEF X
<1>6. Symbols = Punctuation \o Operators \o LastSymbols
  BY DEF Symbols, LastSymbols
<1>7. /\ Symbols \in Seq(X) /\ Len(Symbols) = 29
      /\ \A i \in 1 .. 11 : Symbols[i] = Punctuation[i]
      /\ \A i \in 1 .. 14 : Symbols[11 + i] = Operators[i]
      /\ \A i \in 1 .. 4 : Symbols[25 + i] = LastSymbols[i]
  <2>1. Len(Punctuation) = 11 /\ Len(Operators) = 14 /\ Len(LastSymbols) = 4
    BY <1>1, <1>2, <1>3
  <2>2. /\ Symbols \in Seq(X) /\ Len(Symbols) = Len(Punctuation) + Len(Operators) + Len(LastSymbols)
        /\ \A i \in 1 .. Len(Punctuation) : Symbols[i] = Punctuation[i]
        /\ \A i \in 1 .. Len(Operators) : Symbols[Len(Punctuation) + i] = Operators[i]
        /\ \A i \in 1 .. Len(LastSymbols) :
             Symbols[Len(Punctuation) + Len(Operators) + i] = LastSymbols[i]
    BY <1>5, <1>6, JoinedThree
  <2>3. QED
    BY <2>1, <2>2
<1>8. /\ Symbols[1] = Punctuation[1] /\ Symbols[2] = Punctuation[2]
      /\ Symbols[3] = Punctuation[3] /\ Symbols[4] = Punctuation[4]
      /\ Symbols[5] = Punctuation[5] /\ Symbols[6] = Punctuation[6]
      /\ Symbols[7] = Punctuation[7] /\ Symbols[8] = Punctuation[8]
      /\ Symbols[9] = Punctuation[9] /\ Symbols[10] = Punctuation[10]
      /\ Symbols[11] = Punctuation[11] /\ Symbols[12] = Operators[1]
      /\ Symbols[13] = Operators[2] /\ Symbols[14] = Operators[3]
      /\ Symbols[15] = Operators[4] /\ Symbols[16] = Operators[5]
      /\ Symbols[17] = Operators[6] /\ Symbols[18] = Operators[7]
      /\ Symbols[19] = Operators[8] /\ Symbols[20] = Operators[9]
      /\ Symbols[21] = Operators[10] /\ Symbols[22] = Operators[11]
      /\ Symbols[23] = Operators[12] /\ Symbols[24] = Operators[13]
      /\ Symbols[25] = Operators[14] /\ Symbols[26] = LastSymbols[1]
      /\ Symbols[27] = LastSymbols[2] /\ Symbols[28] = LastSymbols[3]
      /\ Symbols[29] = LastSymbols[4]
  BY <1>7
<1>9. QED
  BY <1>1, <1>2, <1>3, <1>7, <1>8

LEMMA SymbolPlaces ==
  /\ DOMAIN Symbols = 1 .. 29
  /\ \A k \in 1 .. 29 :
       \/ k = 1 \/ k = 2 \/ k = 3 \/ k = 4 \/ k = 5 \/ k = 6 \/ k = 7 \/ k = 8 \/ k = 9
       \/ k = 10 \/ k = 11 \/ k = 12 \/ k = 13 \/ k = 14 \/ k = 15 \/ k = 16 \/ k = 17
       \/ k = 18 \/ k = 19 \/ k = 20 \/ k = 21 \/ k = 22 \/ k = 23 \/ k = 24 \/ k = 25
       \/ k = 26 \/ k = 27 \/ k = 28 \/ k = 29
<1>1. DOMAIN Symbols = 1 .. 29
  BY SymbolTable
<1>2. QED
  BY <1>1

LEMMA SymbolTypes ==
  \A k \in DOMAIN Symbols :
    Symbols[k].type \notin Keywords \cup {"IDENTIFIER", "INTEGER", "NUMBER", "EOF"}
<1>1. /\ Symbols[1].type = "COLON" /\ Symbols[2].type = "QUESTION" /\ Symbols[3].type = "LP"
      /\ Symbols[4].type = "RP" /\ Symbols[5].type = "LEFT_BRACE"
      /\ Symbols[6].type = "RIGHT_BRACE" /\ Symbols[7].type = "LEFT_SQ"
      /\ Symbols[8].type = "RIGHT_SQ" /\ Symbols[9].type = "COMMA"
      /\ Symbols[10].type = "TRIPLE_DOT" /\ Symbols[11].type = "DOT"
      /\ Symbols[12].type = "EQUALITY" /\ Symbols[13].type = "LTE"
      /\ Symbols[14].type = "LT" /\ Symbols[15].type = "GTE" /\ Symbols[16].type = "GT"
      /\ Symbols[17].type = "ASSIGNMENT" /\ Symbols[18].type = "PIPE"
      /\ Symbols[19].type = "MINUS" /\ Symbols[20].type = "NOT_EQUAL"
      /\ Symbols[21].type = "BANG" /\ Symbols[22].type = "MODULO"
      /\ Symbols[23].type = "PLUS" /\ Symbols[24].type = "SLASH"
      /\ Symbols[25].type = "STAR" /\ Symbols[26].type = "NL" /\ Symbols[27].type = "BAR"
      /\ Symbols[28].type = "LOGICAL_AND" /\ Symbols[29].type = "AMPERSAND"
  BY SymbolTable DEF Symbol
<1>2. QED
  BY <1>1, SymbolPlaces DEF Keywords

LEMMA SymbolLengths ==
  \A k \in DOMAIN Symbols :
    Len(Symbols[k].lexeme) = IF k = 10 THEN 3 ELSE IF k \in {12, 13, 15, 18, 20, 28} THEN 2 ELSE 1
<1>1. /\ Len(Symbols[1].lexeme) = 1 /\ Len(Symbols[2].lexeme) = 1
      /\ Len(Symbols[3].lexeme) = 1 /\ Len(Symbols[4].lexeme) = 1
      /\ Len(Symbols[5].lexeme) = 1 /\ Len(Symbols[6].lexeme) = 1
      /\ Len(Symbols[7].lexeme) = 1 /\ Len(Symbols[8].lexeme) = 1
      /\ Len(Symbols[9].lexeme) = 1 /\ Len(Symbols[10].lexeme) = 3
      /\ Len(Symbols[11].lexeme) = 1 /\ Len(Symbols[12].lexeme) = 2
      /\ Len(Symbols[13].lexeme) = 2 /\ Len(Symbols[14].lexeme) = 1
      /\ Len(Symbols[15].lexeme) = 2 /\ Len(Symbols[16].lexeme) = 1
      /\ Len(Symbols[17].lexeme) = 1 /\ Len(Symbols[18].lexeme) = 2
      /\ Len(Symbols[19].lexeme) = 1 /\ Len(Symbols[20].lexeme) = 2
      /\ Len(Symbols[21].lexeme) = 1 /\ Len(Symbols[22].lexeme) = 1
      /\ Len(Symbols[23].lexeme) = 1 /\ Len(Symbols[24].lexeme) = 1
      /\ Len(Symbols[25].lexeme) = 1 /\ Len(Symbols[26].lexeme) = 1
      /\ Len(Symbols[27].lexeme) = 1 /\ Len(Symbols[28].lexeme) = 2
      /\ Len(Symbols[29].lexeme) = 1
  BY SymbolTable DEF Symbol
<1>2. QED
  BY <1>1, SymbolPlaces

\* The characters symbols start with.
Starts == {":", "?", "(", ")", "[", "]", ".", "=", "<", ">", "-", "!", "%", "+", "/", "*", "\n",
           "|", "&", Comma, OpenBrace, CloseBrace}

LEMMA FirstCharacters ==
  /\ Symbols[1].lexeme[1] = ":" /\ Symbols[2].lexeme[1] = "?" /\ Symbols[3].lexeme[1] = "("
  /\ Symbols[4].lexeme[1] = ")" /\ Symbols[5].lexeme[1] = OpenBrace
  /\ Symbols[6].lexeme[1] = CloseBrace /\ Symbols[7].lexeme[1] = "["
  /\ Symbols[8].lexeme[1] = "]" /\ Symbols[9].lexeme[1] = Comma
  /\ Symbols[10].lexeme[1] = "." /\ Symbols[11].lexeme[1] = "."
  /\ Symbols[12].lexeme[1] = "=" /\ Symbols[13].lexeme[1] = "<"
  /\ Symbols[14].lexeme[1] = "<" /\ Symbols[15].lexeme[1] = ">"
  /\ Symbols[16].lexeme[1] = ">" /\ Symbols[17].lexeme[1] = "="
  /\ Symbols[18].lexeme[1] = "-" /\ Symbols[19].lexeme[1] = "-"
  /\ Symbols[20].lexeme[1] = "!" /\ Symbols[21].lexeme[1] = "!"
  /\ Symbols[22].lexeme[1] = "%" /\ Symbols[23].lexeme[1] = "+"
  /\ Symbols[24].lexeme[1] = "/" /\ Symbols[25].lexeme[1] = "*"
  /\ Symbols[26].lexeme[1] = "\n" /\ Symbols[27].lexeme[1] = "|"
  /\ Symbols[28].lexeme[1] = "&" /\ Symbols[29].lexeme[1] = "&"
BY SymbolTable DEF Symbol

\* No symbol starts as a word or a number does.
LEMMA SymbolStarts == \A k \in DOMAIN Symbols : Symbols[k].lexeme[1] \notin Letters \cup Digits
<1>1. \A c \in Starts : c \notin Letters \cup Digits
  BY Zenon DEF Starts, Comma, OpenBrace, CloseBrace, Letters, Digits, Keywords
<1>2. \A k \in 1 .. 29 : Symbols[k].lexeme[1] \in Starts
  BY FirstCharacters, SymbolPlaces DEF Starts
<1>3. QED
  BY <1>1, <1>2, SymbolPlaces

\* Where the first symbol with a first character shared by a longer one is.
LEMMA FirstPlaces ==
  ASSUME NEW m \in 1 .. 29
  PROVE  /\ m < 10 => Symbols[m].lexeme[1] # "."
         /\ m < 12 => Symbols[m].lexeme[1] # "="
         /\ m < 13 => Symbols[m].lexeme[1] # "<"
         /\ m < 15 => Symbols[m].lexeme[1] # ">"
         /\ m < 18 => Symbols[m].lexeme[1] # "-"
         /\ m < 20 => Symbols[m].lexeme[1] # "!"
         /\ m < 28 => Symbols[m].lexeme[1] # "&"
<1>1. \A c \in {Comma, OpenBrace, CloseBrace} :
        c # "=" /\ c # "<" /\ c # ">" /\ c # "-" /\ c # "!" /\ c # "&" /\ c # "."
  BY Zenon DEF Comma, OpenBrace, CloseBrace
<1>2. m < 10 => Symbols[m].lexeme[1] # "."
  <2>1. m < 10 => m = 1 \/ m = 2 \/ m = 3 \/ m = 4 \/ m = 5 \/ m = 6 \/ m = 7 \/ m = 8 \/ m =
                    9
    OBVIOUS
  <2>2. QED
    BY <1>1, <2>1, FirstCharacters
<1>3. m < 12 => Symbols[m].lexeme[1] # "="
  <2>1. m < 12 => m = 1 \/ m = 2 \/ m = 3 \/ m = 4 \/ m = 5 \/ m = 6 \/ m = 7 \/ m = 8 \/ m =
                    9 \/ m = 10 \/ m = 11
    OBVIOUS
  <2>2. QED
    BY <1>1, <2>1, FirstCharacters
<1>4. m < 13 => Symbols[m].lexeme[1] # "<"
  <2>1. m < 13 => m = 1 \/ m = 2 \/ m = 3 \/ m = 4 \/ m = 5 \/ m = 6 \/ m = 7 \/ m = 8 \/ m =
                    9 \/ m = 10 \/ m = 11 \/ m = 12
    OBVIOUS
  <2>2. QED
    BY <1>1, <2>1, FirstCharacters
<1>5. m < 15 => Symbols[m].lexeme[1] # ">"
  <2>1. m < 15 => m = 1 \/ m = 2 \/ m = 3 \/ m = 4 \/ m = 5 \/ m = 6 \/ m = 7 \/ m = 8 \/ m =
                    9 \/ m = 10 \/ m = 11 \/ m = 12 \/ m = 13 \/ m = 14
    OBVIOUS
  <2>2. QED
    BY <1>1, <2>1, FirstCharacters
<1>6. m < 18 => Symbols[m].lexeme[1] # "-"
  <2>1. m < 18 => m = 1 \/ m = 2 \/ m = 3 \/ m = 4 \/ m = 5 \/ m = 6 \/ m = 7 \/ m = 8 \/ m =
                    9 \/ m = 10 \/ m = 11 \/ m = 12 \/ m = 13 \/ m = 14 \/ m = 15 \/ m = 16 \/
                    m = 17
    OBVIOUS
  <2>2. QED
    BY <1>1, <2>1, FirstCharacters
<1>7. m < 20 => Symbols[m].lexeme[1] # "!"
  <2>1. m < 20 => m = 1 \/ m = 2 \/ m = 3 \/ m = 4 \/ m = 5 \/ m = 6 \/ m = 7 \/ m = 8 \/ m =
                    9 \/ m = 10 \/ m = 11 \/ m = 12 \/ m = 13 \/ m = 14 \/ m = 15 \/ m = 16 \/
                    m = 17 \/ m = 18 \/ m = 19
    OBVIOUS
  <2>2. QED
    BY <1>1, <2>1, FirstCharacters
<1>8. m < 28 => Symbols[m].lexeme[1] # "&"
  <2>1. m < 28 => m = 1 \/ m = 2 \/ m = 3 \/ m = 4 \/ m = 5 \/ m = 6 \/ m = 7 \/ m = 8 \/ m =
                    9 \/ m = 10 \/ m = 11 \/ m = 12 \/ m = 13 \/ m = 14 \/ m = 15 \/ m = 16 \/
                    m = 17 \/ m = 18 \/ m = 19 \/ m = 20 \/ m = 21 \/ m = 22 \/ m = 23 \/ m =
                    24 \/ m = 25 \/ m = 26 \/ m = 27
    OBVIOUS
  <2>2. QED
    BY <1>1, <2>1, FirstCharacters
<1>9. QED
  BY <1>2, <1>3, <1>4, <1>5, <1>6, <1>7, <1>8

\* A longer symbol is tried before the ones it starts with: the matchers can take the
\* first that fits.
LEMMA LongerFirst ==
  ASSUME NEW k \in DOMAIN Symbols, NEW j \in DOMAIN Symbols,
         j > k, Len(Symbols[j].lexeme) > Len(Symbols[k].lexeme)
  PROVE  Symbols[j].lexeme[1] # Symbols[k].lexeme[1]
<1>1. k \in 1 .. 29 /\ j \in 1 .. 29 /\ j > k
  BY SymbolPlaces
<1>2. j \in {10, 12, 13, 15, 18, 20, 28}
  <2>1. Len(Symbols[k].lexeme) >= 1
    BY SymbolLengths
  <2>2. QED
    BY <2>1, SymbolLengths
<1>3. CASE j = 10
  BY FirstPlaces, <1>1, <1>3, FirstCharacters
<1>4. CASE j = 12
  BY FirstPlaces, <1>1, <1>4, FirstCharacters
<1>5. CASE j = 13
  BY FirstPlaces, <1>1, <1>5, FirstCharacters
<1>6. CASE j = 15
  BY FirstPlaces, <1>1, <1>6, FirstCharacters
<1>7. CASE j = 18
  BY FirstPlaces, <1>1, <1>7, FirstCharacters
<1>8. CASE j = 20
  BY FirstPlaces, <1>1, <1>8, FirstCharacters
<1>9. CASE j = 28
  BY FirstPlaces, <1>1, <1>9, FirstCharacters
<1>10. QED
  BY <1>2, <1>3, <1>4, <1>5, <1>6, <1>7, <1>8, <1>9

-----------------------------------------------------------------------------
(* Runs and searches.                                                      *)

IsRun(C, i, j) ==
  /\ j \in i .. End
  /\ j = End \/ text[j] \notin C
  /\ \A k \in i .. j - 1 : text[k] \in C

LEMMA EndIsNatural ==
  ASSUME IsSequence(text)
  PROVE  End \in Nat /\ End >= 1 /\ End = Len(text) + 1 /\ DOMAIN text = 1 .. Len(text)
BY DEF End, IsSequence

LEMMA RunEnds ==
  ASSUME IsSequence(text), NEW C, NEW i \in 1 .. End
  PROVE  \E j \in i .. End : IsRun(C, i, j)
<1> DEFINE S == {j \in 1 .. End : j = End \/ text[j] \notin C}
<1>1. End \in i .. End /\ End \in S /\ i \in Int /\ End \in Int
  BY EndIsNatural
<1>2. PICK j \in i .. End : j \in S /\ \A m \in i .. j - 1 : m \notin S
  <2> HIDE DEF S
  <2>1. QED
    BY <1>1, FirstPlace
<1>3. QED
  BY <1>1, <1>2 DEF IsRun

LEMMA Runs ==
  ASSUME IsSequence(text), NEW i \in 1 .. End
  PROVE  /\ IsRun(Letters \cup Digits, i, PastWord(i))
         /\ IsRun(Digits \cup {"."}, i, PastNumber(i))
         /\ IsRun(Blanks, i, PastRun(LAMBDA c : c \in Blanks, i))
<1>1. IsRun(Letters \cup Digits, i, PastWord(i))
  <2> DEFINE C == Letters \cup Digits
  <2> HIDE DEF C
  <2>1. \E j \in i .. End : IsRun(C, i, j)
    BY RunEnds
  <2>2. QED
    BY <2>1 DEF PastWord, PastRun, IsRun, C
<1>2. IsRun(Digits \cup {"."}, i, PastNumber(i))
  <2> DEFINE C == Digits \cup {"."}
  <2> HIDE DEF C
  <2>1. \E j \in i .. End : IsRun(C, i, j)
    BY RunEnds
  <2>2. QED
    BY <2>1 DEF PastNumber, PastRun, IsRun, C
<1>3. IsRun(Blanks, i, PastRun(LAMBDA c : c \in Blanks, i))
  <2>1. \E j \in i .. End : IsRun(Blanks, i, j)
    BY RunEnds
  <2>2. QED
    BY <2>1 DEF PastRun, IsRun
<1>4. QED
  BY <1>1, <1>2, <1>3

LEMMA Found ==
  ASSUME IsSequence(text), NEW c, NEW i \in 1 .. End, seek_char(c, i) # 0
  PROVE  /\ seek_char(c, i) \in i + 1 .. Len(text)
         /\ text[seek_char(c, i)] = c
         /\ \A k \in i + 1 .. seek_char(c, i) - 1 : text[k] # c
<1> DEFINE places == {j \in i + 1 .. Len(text) : text[j] = c}
<1>1. places # {} /\ seek_char(c, i) = Min(places)
  BY DEF seek_char
<1>2. places \in SUBSET Nat
  BY EndIsNatural
<1>3. PICK j \in places : \A k \in places : j <= k
  <2> HIDE DEF places
  <2>1. QED
    BY <1>1, <1>2, LeastNatural
<1>4. Min(places) \in places /\ \A k \in places : Min(places) <= k
  <2> HIDE DEF places
  <2>1. QED
    BY <1>3 DEF Min
<1> DEFINE found == seek_char(c, i)
<1>5. /\ found \in i + 1 .. Len(text) /\ text[found] = c
      /\ \A k \in i + 1 .. Len(text) : text[k] = c => found <= k
  BY <1>1, <1>4
<1> HIDE DEF found
<1>6. found \in Int /\ i \in Int /\ Len(text) \in Int
  BY <1>5, EndIsNatural
<1>7. QED
  BY <1>5, <1>6 DEF found

LEMMA IsAtStart ==
  ASSUME IsSequence(text), NEW k \in DOMAIN Symbols, NEW i \in 1 .. End, IsAt(Symbols[k].lexeme, i)
  PROVE  /\ text[i] = Symbols[k].lexeme[1] /\ i + Len(Symbols[k].lexeme) <= End
         /\ Len(Symbols[k].lexeme) \in Nat \ {0}
<1> DEFINE l == Symbols[k].lexeme
<1>1. Len(l) \in Nat \ {0}
  BY SymbolLengths
<1> HIDE DEF l
<1>2. i + Len(l) <= End /\ SubSeq(text, i, i + Len(l) - 1) = l
  BY DEF IsAt, l
<1>3. SubSeq(text, i, i + Len(l) - 1)[1] = text[i]
  <2>1. text \in Seq(Range(text)) /\ i \in 1 .. Len(text) /\ i + Len(l) - 1 \in i .. Len(text)
    BY <1>1, <1>2, EndIsNatural DEF IsSequence
  <2>2. QED
    BY <2>1, SubSeqProperties
<1>4. QED
  BY <1>1, <1>2, <1>3 DEF l

\* A token: where it starts, where it ends, and that it is as long as it can be.
GoesOn(i, chars) == i < End /\ text[i] \in chars
IsLongest(token) ==
  LET lexeme == SubSeq(text, token.from, token.next - 1)
  IN  /\ \A k \in DOMAIN Symbols :
             Len(Symbols[k].lexeme) > Len(lexeme) => ~IsAt(Symbols[k].lexeme, token.from)
      /\ token.type \in Keywords \cup {"IDENTIFIER"} => ~GoesOn(token.next, Letters \cup Digits)
      /\ token.type \in {"INTEGER", "NUMBER"} => ~GoesOn(token.next, Digits \cup {"."})
      /\ token.type \in Keywords => lexeme = <<token.type>>

IsTokenAt(token, i) ==
  /\ token.from = i /\ token.next \in i + 1 .. End + 1
  /\ token.type \notin {"ERROR", "STRING"} => token.next <= End /\ IsLongest(token)

LEMMA WordTokens ==
  ASSUME IsSequence(text), NEW i \in 1 .. End - 1, text[i] \in Letters
  PROVE  IsTokenAt(ScanWord(i), i)
<1> DEFINE j == PastWord(i)
           word == SubSeq(text, i, j - 1)
           token == ScanWord(i)
<1>1. IsRun(Letters \cup Digits, i, j)
  <2>1. i \in 1 .. End
    BY EndIsNatural
  <2>2. QED
    BY <2>1, Runs
<1>2. j \in i + 1 .. End
  BY <1>1, EndIsNatural DEF IsRun
<1>3. token = [type |-> IF Len(word) = 1 /\ word[1] \in Keywords THEN word[1] ELSE "IDENTIFIER",
               from |-> i, next |-> j, word |-> word]
  BY DEF ScanWord, Token
<1> HIDE DEF j
<1>4. word \in Seq(Range(text))
  BY <1>2, EndIsNatural, SubSeqProperties DEF IsSequence
<1> HIDE DEF token
<1>5. token.from = i /\ token.next = j
  BY <1>3
<1>6. \A k \in DOMAIN Symbols : ~IsAt(Symbols[k].lexeme, i)
  BY IsAtStart, SymbolStarts, EndIsNatural
<1>7. ~GoesOn(j, Letters \cup Digits)
  BY <1>1 DEF IsRun, GoesOn
<1>8. token.type \notin {"INTEGER", "NUMBER"}
  BY <1>3 DEF Keywords
<1>9. ASSUME token.type \in Keywords PROVE word = <<token.type>>
  <2>1. token.type = IF Len(word) = 1 /\ word[1] \in Keywords THEN word[1] ELSE "IDENTIFIER"
    BY <1>3
  <2>2. Len(word) = 1 /\ token.type = word[1]
    BY <1>9, <2>1 DEF Keywords
  <2>3. word = <<word[1]>>
    BY <1>4, <2>2, SingletonSequence
  <2>4. QED
    BY <2>2, <2>3
<1>10. IsLongest(token)
  BY <1>5, <1>6, <1>7, <1>8, <1>9 DEF IsLongest
<1>11. QED
  BY <1>2, <1>5, <1>10, EndIsNatural DEF IsTokenAt, token

LEMMA NumberTokens ==
  ASSUME IsSequence(text), NEW i \in 1 .. End - 1, text[i] \in Digits
  PROVE  IsTokenAt(ScanNumber(i), i)
<1> DEFINE j == PastNumber(i)
           token == ScanNumber(i)
<1>1. IsRun(Digits \cup {"."}, i, j)
  <2>1. i \in 1 .. End
    BY EndIsNatural
  <2>2. QED
    BY <2>1, Runs
<1>2. j \in i + 1 .. End
  BY <1>1, EndIsNatural DEF IsRun
<1>3. \/ token = [type |-> "ERROR", from |-> i, next |-> i + 1, word |-> <<>>]
      \/ /\ token.type \in {"INTEGER", "NUMBER"}
         /\ token.from = i /\ token.next = j
  BY DEF ScanNumber, Token, ErrorToken
<1> HIDE DEF j, token
<1>4. \A k \in DOMAIN Symbols : ~IsAt(Symbols[k].lexeme, i)
  BY IsAtStart, SymbolStarts, EndIsNatural
<1>5. ~GoesOn(j, Digits \cup {"."})
  BY <1>1 DEF IsRun, GoesOn
<1>6. "INTEGER" \notin Keywords /\ "NUMBER" \notin Keywords
  BY DEF Keywords
<1>7. token.type \in {"INTEGER", "NUMBER"} /\ token.from = i /\ token.next = j => IsLongest(token)
  BY <1>4, <1>5, <1>6 DEF IsLongest
<1>8. QED
  BY <1>2, <1>3, <1>7, EndIsNatural DEF IsTokenAt, token

LEMMA SymbolTokens ==
  ASSUME IsSequence(text), NEW i \in 1 .. End - 1,
         NEW k \in DOMAIN Symbols, IsAt(Symbols[k].lexeme, i)
  PROVE  IsTokenAt(ScanSymbol(i), i)
<1> DEFINE fits == {m \in DOMAIN Symbols : IsAt(Symbols[m].lexeme, i)}
           first == Min(fits)
           token == ScanSymbol(i)
           n == Len(Symbols[first].lexeme)
<1>1. first \in fits /\ \A m \in fits : first <= m
  <2>1. fits \in SUBSET Nat /\ fits # {}
    BY SymbolPlaces
  <2> HIDE DEF fits
  <2>2. PICK j \in fits : \A m \in fits : j <= m
    BY <2>1, LeastNatural
  <2>3. QED
    BY <2>2 DEF Min
<1>2. token = [type |-> Symbols[first].type, from |-> i, next |-> i + n, word |-> <<>>]
  BY DEF ScanSymbol, Token
<1>3. first \in DOMAIN Symbols /\ IsAt(Symbols[first].lexeme, i)
  BY <1>1
<1> HIDE DEF first, token
<1>4. text[i] = Symbols[first].lexeme[1] /\ i + n <= End /\ n \in Nat \ {0}
  BY <1>3, IsAtStart, EndIsNatural
<1>5. Len(SubSeq(text, i, i + n - 1)) = n
  <2> HIDE DEF n
  <2>1. text \in Seq(Range(text)) /\ i \in 1 .. Len(text) /\ i + n - 1 \in i .. Len(text)
    BY <1>4, EndIsNatural DEF IsSequence
  <2>2. QED
    BY <1>4, <2>1, SubSeqProperties
<1>6. ASSUME NEW m \in DOMAIN Symbols, Len(Symbols[m].lexeme) > n, IsAt(Symbols[m].lexeme, i)
      PROVE  FALSE
  <2>1. text[i] = Symbols[m].lexeme[1]
    BY <1>6, IsAtStart, EndIsNatural
  <2>2. first <= m /\ first # m
    BY <1>1, <1>4, <1>6
  <2>3. first < m
    BY <1>3, <2>2, SymbolPlaces
  <2>4. QED
    BY <1>3, <1>4, <1>6, <2>1, <2>3, LongerFirst
<1>7. /\ token.type \notin Keywords \cup {"IDENTIFIER", "INTEGER", "NUMBER"}
      /\ token.from = i /\ token.next = i + n
  BY <1>2, <1>3, SymbolTypes
<1> HIDE DEF n
<1>8. IsLongest(token)
  <2>1. Len(SubSeq(text, token.from, token.next - 1)) = n
    BY <1>4, <1>5, <1>7, EndIsNatural
  <2>2. \A m \in DOMAIN Symbols :
          Len(Symbols[m].lexeme) > Len(SubSeq(text, token.from, token.next - 1))
             => ~IsAt(Symbols[m].lexeme, token.from)
    BY <1>6, <1>7, <2>1
  <2>3. QED
    BY <1>7, <2>2 DEF IsLongest
<1>9. QED
  BY <1>4, <1>7, <1>8, EndIsNatural DEF IsTokenAt, token
LEMMA StringTokens ==
  ASSUME IsSequence(text), NEW i \in 1 .. End - 1, ScanString(i).next # 0
  PROVE  IsTokenAt(ScanString(i), i)
<1> DEFINE close == seek_char(Quote, i)
           token == ScanString(i)
<1>1. close # 0
  BY DEF ScanString, Overrun, Token
<1>2. close \in i + 1 .. Len(text)
  <2>1. i \in 1 .. End
    BY EndIsNatural
  <2>2. QED
    BY <1>1, <2>1, Found
<1>3. token.type = "STRING" /\ token.from = i /\ token.next = close + 1
  BY <1>1 DEF ScanString, Token
<1> HIDE DEF close, token
<1>4. QED
  BY <1>2, <1>3, EndIsNatural DEF IsTokenAt, token

LEMMA ErrorTokens ==
  ASSUME IsSequence(text), NEW i \in 1 .. End
  PROVE  IsTokenAt(ErrorToken(i), i)
BY EndIsNatural DEF IsTokenAt, ErrorToken, Token

LEMMA MatchedTokens ==
  ASSUME IsSequence(text), NEW i \in 1 .. End, MatchAt(i).next # 0
  PROVE  IsTokenAt(MatchAt(i), i)
<1>1. MatchAt(i) = ErrorToken(i) => IsTokenAt(MatchAt(i), i)
  BY ErrorTokens
<1>2. i # End => i \in 1 .. End - 1
  BY EndIsNatural
<1>3. CASE i # End /\ text[i] = Quote
  <2>1. MatchAt(i) = ScanString(i)
    BY <1>3 DEF MatchAt
  <2>2. QED
    BY <1>2, <1>3, <2>1, StringTokens
<1>4. CASE i # End /\ text[i] # Quote /\ text[i] \in Digits
  <2>1. MatchAt(i) = ScanNumber(i)
    BY <1>4 DEF MatchAt
  <2>2. QED
    BY <1>2, <1>4, <2>1, NumberTokens
<1>5. CASE i # End /\ text[i] # Quote /\ text[i] \notin Digits /\ text[i] \in Letters
  <2>1. MatchAt(i) = ScanWord(i)
    BY <1>5 DEF MatchAt
  <2>2. QED
    BY <1>2, <1>5, <2>1, WordTokens
<1>6. CASE /\ i # End /\ text[i] # Quote /\ text[i] \notin Digits /\ text[i] \notin Letters
           /\ \E k \in DOMAIN Symbols : IsAt(Symbols[k].lexeme, i)
  <2>1. MatchAt(i) = ScanSymbol(i)
    BY <1>6 DEF MatchAt
  <2>2. QED
    BY <1>2, <1>6, <2>1, SymbolTokens
<1>7. QED
  BY <1>1, <1>3, <1>4, <1>5, <1>6 DEF MatchAt

\* What is passed over between two tokens.
IsGap(i, b) ==
  \E k \in i .. b : /\ \A j \in i .. k - 1 : text[j] \in Blanks
                    /\ k = b \/ (text[k] = "#" /\ \A j \in k .. b - 1 : text[j] # "\n")

LEMMA ScannedTokens ==
  ASSUME IsSequence(text), NEW i \in 1 .. End + 1, scan_token(i).next # 0
  PROVE  \E b \in i .. End :
           /\ IsGap(i, b)
           /\ \/ scan_token(i) = [type |-> "EOF", from |-> b, next |-> b, word |-> <<>>]
              \/ IsTokenAt(scan_token(i), b)
<1> DEFINE start == PastRun(LAMBDA c : c \in Blanks, i)
           comment == start < End /\ text[start] = "#"
           b == IF comment THEN seek_char("\n", start) ELSE start
<1>1. scan_token(i) = IF i = End THEN Token("EOF", i, i, <<>>)
                      ELSE IF i > End \/ b = 0 THEN Overrun(i)
                      ELSE MatchAt(b)
  BY DEF scan_token
<1>2. CASE i = End
  <2>1. i \in i .. End /\ IsGap(i, i)
    BY <1>2, EndIsNatural DEF IsGap
  <2>2. QED
    BY <1>1, <1>2, <2>1 DEF Token
<1>3. CASE i # End
  <2>1. ~(i > End \/ b = 0) /\ scan_token(i) = MatchAt(b)
    BY <1>1, <1>3 DEF Overrun, Token
  <2>2. i \in 1 .. End
    BY <2>1, EndIsNatural
  <2>3. IsRun(Blanks, i, start)
    BY <2>2, Runs
  <2> HIDE DEF start
  <2>4. start \in i .. End /\ \A j \in i .. start - 1 : text[j] \in Blanks
    BY <2>3 DEF IsRun
  <2>5. CASE comment
    <3>1. b = seek_char("\n", start) /\ b # 0
      BY <2>1, <2>5
    <3>2. start \in 1 .. End
      BY <2>2, <2>4, EndIsNatural
    <3>3. b \in start + 1 .. Len(text) /\ \A k \in start + 1 .. b - 1 : text[k] # "\n"
      BY <3>1, <3>2, Found
    <3>4. text[start] # "\n"
      BY <2>5
    <3> HIDE DEF b
    <3>5. b \in i .. End /\ start \in i .. b /\ \A j \in start .. b - 1 : text[j] # "\n"
      BY <2>2, <2>4, <3>3, <3>4, EndIsNatural
    <3>6. IsGap(i, b)
      BY <2>4, <2>5, <3>5 DEF IsGap
    <3>7. QED
      BY <2>1, <2>2, <3>5, <3>6, MatchedTokens, EndIsNatural
  <2>6. CASE ~comment
    <3>1. b = start
      BY <2>6
    <3>2. IsGap(i, b) /\ b \in i .. End
      BY <2>2, <2>4, <3>1, EndIsNatural DEF IsGap
    <3> HIDE DEF b
    <3>3. QED
      BY <2>1, <2>2, <3>2, MatchedTokens, EndIsNatural
  <2>7. QED
    BY <2>5, <2>6
<1>4. QED
  BY <1>2, <1>3

-----------------------------------------------------------------------------
(* The text stays, and with it what is scanned from a place.               *)

LEMMA EndStays ==
  ASSUME UNCHANGED text
  PROVE  End' = End
BY DEF End

LEMMA IsAtStays ==
  ASSUME UNCHANGED text, NEW l, NEW i
  PROVE  IsAt(l, i)' <=> IsAt(l, i)
BY EndStays DEF IsAt

LEMMA SeekStays ==
  ASSUME UNCHANGED text, NEW c, NEW i
  PROVE  seek_char(c, i)' = seek_char(c, i)
BY EndStays DEF seek_char

LEMMA PastStays ==
  ASSUME UNCHANGED text, NEW i
  PROVE  PastWord(i)' = PastWord(i) /\ PastNumber(i)' = PastNumber(i)
BY EndStays DEF PastWord, PastRun, PastNumber

LEMMA DotsStay ==
  ASSUME UNCHANGED text, NEW i, NEW j
  PROVE  Dots(i, j)' = Dots(i, j)
BY EndStays DEF Dots

LEMMA StringStays ==
  ASSUME UNCHANGED text, NEW i
  PROVE  ScanString(i)' = ScanString(i)
BY EndStays, SeekStays DEF ScanString

LEMMA NumberStays ==
  ASSUME UNCHANGED text, NEW i
  PROVE  ScanNumber(i)' = ScanNumber(i)
BY PastStays, DotsStay DEF ScanNumber

LEMMA WordStays ==
  ASSUME UNCHANGED text, NEW i
  PROVE  ScanWord(i)' = ScanWord(i)
<1> DEFINE word == SubSeq(text, i, PastWord(i) - 1)
           type == IF Len(word) = 1 /\ word[1] \in Keywords THEN word[1] ELSE "IDENTIFIER"
<1>1. PastWord(i)' = PastWord(i)
  BY PastStays
<1>2. word' = word
  BY <1>1
<1> HIDE DEF word
<1>3. Token(type, i, PastWord(i), word)' = Token(type, i, PastWord(i), word)
  BY <1>1, <1>2 DEF Token
<1>4. QED
  BY <1>3 DEF ScanWord, word, type

LEMMA SymbolStays ==
  ASSUME UNCHANGED text, NEW i
  PROVE  ScanSymbol(i)' = ScanSymbol(i)
BY EndStays DEF ScanSymbol, IsAt

LEMMA MatchStays ==
  ASSUME UNCHANGED text, NEW i
  PROVE  MatchAt(i)' = MatchAt(i)
BY EndStays, IsAtStays, StringStays, NumberStays, WordStays, SymbolStays DEF MatchAt

LEMMA ScanStays ==
  ASSUME UNCHANGED text, NEW i
  PROVE  scan_token(i)' = scan_token(i)
BY EndStays, SeekStays, MatchStays DEF scan_token, PastRun

-----------------------------------------------------------------------------
(* Steps: each scans at most one token, and only while the parser runs.    *)

Kept == UNCHANGED <<text, at, previous, current, tokens>>
Scans ==
  /\ phase = "parse" /\ phase' \in Phases
  /\ Advance \/ (Kept /\ phase' # "overrun" /\ (phase' = "done" => Is("EOF")))
  /\ body' = body \/ (value # NULL /\ body' = Append(body, value))

LEMMA AdvanceScans == phase = "parse" /\ Advance => Scans
BY DEF Scans, Advance, Phases

LEMMA StayScans == phase = "parse" /\ Stay => Scans
BY DEF Scans, Stay, Kept, Phases

LEMMA UndefinedScans == phase = "parse" /\ Undefined => Scans
BY DEF Scans, Undefined, Kept, Phases

LEMMA AdvanceIfScans ==
  ASSUME NEW c, phase = "parse", AdvanceIf(c)
  PROVE  Scans
BY AdvanceScans, StayScans DEF AdvanceIf

LEMMA ExpressionScans ==
  ASSUME EnterPrecedence \/ NoPrefix \/ Literal \/ parse_unary \/ Infix \/ NoInfix \/ EnterBinary
         \/ Operator \/ Member \/ Assign
  PROVE  Scans
BY AdvanceScans, StayScans, UndefinedScans, AdvanceIfScans
DEF EnterPrecedence, NoPrefix, Literal, parse_unary, Infix, NoInfix, EnterBinary, Operator,
    Member, Assign, Running, Prefix, Binary

LEMMA ListScans ==
  ASSUME NextMember \/ EndMember \/ AfterMember \/ parse_grouping \/ parse_array \/ parse_call \/
         parse_index_access \/ NextInBlock \/ Push \/ EndBlock \/ parse_scoped_block \/
         parse_fn_body
  PROVE  Scans
BY AdvanceScans, StayScans, UndefinedScans, AdvanceIfScans
DEF NextMember, EndMember, AfterMember, parse_grouping, parse_array, parse_call,
    parse_index_access, NextInBlock, Push, EndBlock, parse_scoped_block, parse_fn_body,
    Running, Prefix, Binary

LEMMA ConditionalScans ==
  ASSUME if_expression \/ parse_ternary \/ EnterMatch \/ NextArm \/ EndArm
  PROVE  Scans
BY AdvanceScans, StayScans, UndefinedScans, AdvanceIfScans
DEF if_expression, parse_ternary, EnterMatch, NextArm, EndArm, Running, Prefix, Binary

LEMMA FunctionScans ==
  ASSUME EnterPrototype \/ NextParameter \/ VariableArguments \/ EndParameter \/ ResultType \/
         parse_function \/ parse_named_function \/ parse_extern_function \/ parse_struct
  PROVE  Scans
BY AdvanceScans, StayScans, UndefinedScans, AdvanceIfScans
DEF EnterPrototype, NextParameter, VariableArguments, EndParameter, ResultType,
    parse_function, parse_named_function, parse_extern_function, parse_struct, Running,
    Prefix, Binary

LEMMA StatementScans ==
  ASSUME Statement \/ let_statement \/ assignment_statement \/ type_declaration \/ import_module
         \/ EnterMain \/ NextStatement \/ PushStatement
  PROVE  Scans
BY AdvanceScans, StayScans, UndefinedScans, AdvanceIfScans
DEF Statement, let_statement, assignment_statement, type_declaration, import_module,
    EnterMain, NextStatement, PushStatement, Running, Prefix, Binary, Scans, Kept, Phases

LEMMA StepScans == Next => Scans
BY ExpressionScans, ListScans, ConditionalScans, FunctionScans, StatementScans
DEF Next, ParseExpression, ParseStatement

\* Where the scanner was when the last token was scanned.
Before == IF Len(tokens) = 1 THEN 1 ELSE tokens[Len(tokens) - 1].next

ScanInv ==
  /\ IsSequence(text)
  /\ IsSequence(tokens) /\ tokens # <<>>
  /\ current = tokens[Len(tokens)]
  /\ at = current.next
  /\ at # 0 => at \in 1 .. End + 1
  /\ phase = "parse" => at # 0
  /\ \E i \in 1 .. End + 1 : i = Before /\ current = scan_token(i)

LEMMA NextPlace ==
  ASSUME IsSequence(text), NEW i \in 1 .. End + 1, scan_token(i).next # 0
  PROVE  scan_token(i).next \in 1 .. End + 1
<1>1. PICK b \in i .. End :
        \/ scan_token(i) = [type |-> "EOF", from |-> b, next |-> b, word |-> <<>>]
        \/ IsTokenAt(scan_token(i), b)
  BY ScannedTokens
<1>2. QED
  BY <1>1, EndIsNatural DEF IsTokenAt

\* ScanInv holds: Advance scans from where the scanner is, and nothing else scans.
THEOREM ScanInvHolds == Spec => []ScanInv
<1>1. Init => ScanInv
  <2> SUFFICES ASSUME Init PROVE ScanInv
    OBVIOUS
  <2>1. IsSequence(text)
    BY InputsAssumption DEF Init, IsSequence
  <2>2. /\ current = scan_token(1) /\ at = current.next /\ tokens = <<current>>
        /\ phase = "parse" => at # 0
    BY DEF Init
  <2>3. IsSequence(tokens) /\ tokens # <<>> /\ Len(tokens) = 1 /\ tokens[1] = current
    <3>1. <<current>> \in Seq({current})
      OBVIOUS
    <3>2. QED
      BY <2>2, <3>1, SequenceOf
  <2>4. 1 \in 1 .. End + 1
    BY <2>1, EndIsNatural
  <2>5. QED
    BY <2>1, <2>2, <2>3, <2>4, NextPlace DEF ScanInv, Before
<1>2. ScanInv /\ [Next]_vars => ScanInv'
  <2> SUFFICES ASSUME ScanInv, [Next]_vars PROVE ScanInv'
    OBVIOUS
  <2>1. CASE phase = "parse" /\ Advance
    <3>1. /\ current' = scan_token(at) /\ at' = current'.next /\ tokens' = Append(tokens, current')
          /\ text' = text /\ phase' = IF at' = 0 THEN "overrun" ELSE phase
      BY <2>1 DEF Advance
    <3>2. IsSequence(text) /\ at \in 1 .. End + 1
      BY <2>1 DEF ScanInv
    <3>3. IsSequence(tokens) /\ tokens # <<>> /\ current = tokens[Len(tokens)]
      BY DEF ScanInv
    <3>4. Len(tokens) \in Nat \ {0} /\ DOMAIN tokens = 1 .. Len(tokens)
      BY <3>3 DEF IsSequence
    <3>5. IsSequence(tokens') /\ Len(tokens') = Len(tokens) + 1
      BY <3>1, <3>3, AppendIsSequence
    <3>6. tokens'[Len(tokens')] = current' /\ tokens'[Len(tokens)] = current
      <4>1. tokens'[Len(tokens) + 1] = current'
        BY <3>1, <3>3, AppendIsSequence
      <4>2. tokens'[Len(tokens)] = tokens[Len(tokens)]
        <5>1. Len(tokens) \in DOMAIN tokens
          BY <3>4
        <5>2. QED
          BY <3>1, <3>3, <5>1, AppendIsSequence
      <4>3. QED
        BY <3>3, <3>5, <4>1, <4>2
    <3>7. tokens' # <<>> /\ Before' = at
      BY <3>4, <3>5, <3>6 DEF Before, ScanInv
    <3>8. End' = End /\ IsSequence(text')
      BY <3>1, <3>2 DEF End
    <3>9. PICK i \in 1 .. End + 1 : i = at
      BY <3>2
    <3>10. scan_token(i)' = scan_token(i)
      BY <3>1, ScanStays
    <3>11. at' # 0 => at' \in 1 .. End + 1
      BY <3>1, <3>2, NextPlace
    <3>12. QED
      BY <3>1, <3>5, <3>6, <3>7, <3>8, <3>9, <3>10, <3>11 DEF ScanInv
  <2>2. CASE Kept /\ phase = "parse"
    <3>1. UNCHANGED <<text, at, current, tokens>> /\ at # 0
      BY <2>2 DEF Kept, ScanInv
    <3>2. End' = End /\ Before' = Before
      BY <3>1 DEF End, Before
    <3>3. QED
      BY <3>1, <3>2, ScanStays DEF ScanInv
  <2>3. CASE UNCHANGED vars
    <3>1. UNCHANGED <<text, at, current, tokens, phase>>
      BY <2>3 DEF vars
    <3>2. End' = End /\ Before' = Before
      BY <3>1 DEF End, Before
    <3>3. QED
      BY <3>1, <3>2, ScanStays DEF ScanInv
  <2>4. QED
    BY <2>1, <2>2, <2>3, StepScans DEF Scans
<1>3. QED
  BY <1>1, <1>2, PTL DEF Spec

-----------------------------------------------------------------------------
(* What the runs check of the scanner.                                     *)

\* A gap, as the property has it: the part of the text it is.
LEMMA GapRead ==
  ASSUME IsSequence(text), NEW i \in 1 .. End + 1, NEW b \in i .. End, IsGap(i, b)
  PROVE  LET gap == SkipTo(i, b)
         IN  \E k \in 0 .. Len(gap) :
               /\ \A j \in 1 .. k : gap[j] \in Blanks
               /\ k = Len(gap) \/ IsComment(SubSeq(gap, k + 1, Len(gap)))
<1> DEFINE gap == SkipTo(i, b)
<1>1. i \in Int /\ b \in Int /\ i >= 1 /\ i <= b /\ b <= End /\ End \in Int
  BY EndIsNatural
<1>2. \A j \in i .. b - 1 : text[j] \in Range(text)
  BY <1>1, EndIsNatural DEF Range
<1>3. /\ gap \in Seq(Range(text)) /\ Len(gap) = b - i
      /\ \A j \in 1 .. b - i : gap[j] = text[i + j - 1]
  <2>1. b - 1 \in Int /\ (b - 1) - i + 1 = b - i
    BY <1>1
  <2>2. /\ SubSeq(text, i, b - 1) \in Seq(Range(text))
        /\ Len(SubSeq(text, i, b - 1)) = IF i <= b - 1 THEN (b - 1) - i + 1 ELSE 0
        /\ \A j \in 1 .. (b - 1) - i + 1 : SubSeq(text, i, b - 1)[j] = text[i + j - 1]
    BY <1>1, <1>2, <2>1, SubSeqProperties
  <2>3. QED
    BY <1>1, <2>1, <2>2 DEF SkipTo
<1> HIDE DEF gap
<1>4. PICK k \in i .. b : /\ \A j \in i .. k - 1 : text[j] \in Blanks
                          /\ k = b \/ (text[k] = "#" /\ \A j \in k .. b - 1 : text[j] # "\n")
  BY DEF IsGap
<1>5. k - i \in 0 .. Len(gap)
  BY <1>1, <1>3
<1>6. \A j \in 1 .. k - i : gap[j] \in Blanks
  <2> TAKE j \in 1 .. k - i
  <2>1. i + j - 1 \in i .. k - 1 /\ j \in 1 .. b - i
    BY <1>1
  <2>2. QED
    BY <1>3, <1>4, <2>1
<1>7. k - i = Len(gap) \/ IsComment(SubSeq(gap, k - i + 1, Len(gap)))
  <2> SUFFICES ASSUME k # b PROVE IsComment(SubSeq(gap, k - i + 1, b - i))
    BY <1>3
  <2> DEFINE rest == SubSeq(gap, k - i + 1, b - i)
  <2>1. k - i + 1 \in Int /\ b - i \in Int /\ k - i + 1 <= b - i /\ k - i + 1 >= 1
    BY <1>1
  <2>2. \A j \in k - i + 1 .. b - i : gap[j] = text[i + j - 1] /\ i + j - 1 \in k .. b - 1
    BY <1>1, <1>3
  <2>3. \A j \in k - i + 1 .. b - i : gap[j] \in Range(text)
    BY <1>1, <1>2, <2>2
  <2>4. /\ rest \in Seq(Range(text)) /\ Len(rest) = b - k
        /\ \A j \in 1 .. b - k : rest[j] = gap[k - i + j]
    <3>1. (b - i) - (k - i + 1) + 1 = b - k /\ \A j \in Int : k - i + 1 + j - 1 = k - i + j
      BY <1>1
    <3>2. /\ rest \in Seq(Range(text))
          /\ Len(rest) = IF k - i + 1 <= b - i THEN (b - i) - (k - i + 1) + 1 ELSE 0
          /\ \A j \in 1 .. (b - i) - (k - i + 1) + 1 : rest[j] = gap[k - i + 1 + j - 1]
      BY <2>1, <2>3, SubSeqProperties
    <3>3. QED
      BY <2>1, <3>1, <3>2
  <2> HIDE DEF rest
  <2>5. \A j \in 1 .. b - k : rest[j] = text[k + j - 1] /\ k + j - 1 \in k .. b - 1
    <3> TAKE j \in 1 .. b - k
    <3>1. k - i + j \in k - i + 1 .. b - i /\ i + (k - i + j) - 1 = k + j - 1
      BY <1>1
    <3>2. QED
      BY <2>2, <2>4, <3>1
  <2>6. rest # <<>> /\ rest[1] = "#"
    <3>1. 1 \in 1 .. b - k /\ k + 1 - 1 = k
      BY <1>1
    <3>2. QED
      BY <1>4, <2>4, <2>5, <3>1
  <2>7. "\n" \notin Range(rest)
    <3>1. DOMAIN rest = 1 .. b - k
      BY <2>4
    <3>2. \A j \in 1 .. b - k : rest[j] # "\n"
      BY <1>4, <2>5
    <3>3. QED
      BY <3>1, <3>2 DEF Range
  <2>8. QED
    BY <2>6, <2>7 DEF rest, IsComment
<1>8. QED
  BY <1>5, <1>6, <1>7 DEF gap

\* Between two tokens there are only blanks and a comment (the steps of scan_token).
THEOREM TokensTile == Spec => []TokensTileTheText
<1>1. ScanInv => TokensTileTheText
  <2> SUFFICES ASSUME ScanInv, Len(tokens) > 1, at # 0 PROVE TokensTileTheText
    BY DEF TokensTileTheText
  <2>1. IsSequence(text) /\ at = current.next
    BY DEF ScanInv
  <2>2. PICK i \in 1 .. End + 1 : i = tokens[Len(tokens) - 1].next /\ current = scan_token(i)
    BY DEF ScanInv, Before
  <2>3. PICK b \in i .. End :
          /\ IsGap(i, b)
          /\ \/ current = [type |-> "EOF", from |-> b, next |-> b, word |-> <<>>]
             \/ IsTokenAt(current, b)
    BY <2>1, <2>2, ScannedTokens
  <2>4. current.from = b /\ i <= b /\ (current.type # "EOF" => b < at)
    BY <2>1, <2>3, EndIsNatural DEF IsTokenAt
  <2>5. QED
    BY <2>1, <2>2, <2>3, <2>4, GapRead DEF TokensTileTheText
<1>2. QED
  BY <1>1, ScanInvHolds, PTL

\* A token is as long as it can be (the order of the matchers, and where they stop).
THEOREM TokensLongest == Spec => []TokensAreLongest
<1>1. ScanInv => TokensAreLongest
  <2> SUFFICES ASSUME ScanInv, at # 0, current.type \notin {"EOF", "ERROR", "STRING"}
               PROVE  TokensAreLongest
    BY DEF TokensAreLongest
  <2>1. IsSequence(text) /\ at = current.next
    BY DEF ScanInv
  <2>2. PICK i \in 1 .. End + 1 : current = scan_token(i)
    BY DEF ScanInv
  <2>3. PICK b \in i .. End : IsTokenAt(current, b)
    BY <2>1, <2>2, ScannedTokens
  <2>4. IsLongest(current)
    BY <2>3 DEF IsTokenAt
  <2>5. QED
    BY <2>1, <2>4 DEF TokensAreLongest, IsLongest, GoesOn, SkipTo
<1>2. QED
  BY <1>1, ScanInvHolds, PTL

-----------------------------------------------------------------------------
(* Where the text ends.                                                    *)

Modes == {"code", "blank", "string", "comment"}
IsReading(f) ==
  f = [i \in 0 .. Len(text) |-> IF i = 0 THEN "code" ELSE ModeAfter(f[i - 1], text[i])]

LEMMA ReadingExists == ASSUME IsSequence(text) PROVE \E f : IsReading(f)
<1> DEFINE M == Len(text)
           D == 0 .. M
           measure == [i \in D |-> i]
           next == [i \in D |-> IF i = 0 THEN 0 ELSE i - 1]
           V == D \X Modes
           base == [i \in D |-> <<i, "code">>]
           after(v) == IF v[1] = M THEN v ELSE <<v[1] + 1, ModeAfter(v[2], text[v[1] + 1])>>
           g == [p \in D \X V |-> after(p[2])]
<1>1. M \in Nat
  BY EndIsNatural
<1>2. \A mode \in Modes : \A c : ModeAfter(mode, c) \in Modes
  BY DEF Modes, ModeAfter
<1>3. ASSUME NEW v \in V PROVE after(v) \in V
  <2>1. PICK k \in D, mode \in Modes : v = <<k, mode>>
    OBVIOUS
  <2>2. k # M => k + 1 \in D
    BY <1>1
  <2>3. QED
    BY <1>2, <2>1, <2>2
<1>4. /\ measure \in [D -> 0 .. M] /\ next \in [D -> D] /\ base \in [D -> V]
      /\ {0} \in SUBSET D /\ V # {}
      /\ \A i \in D : i \notin {0} => measure[next[i]] < measure[i]
  <2>1. \A i \in D : i \in 0 .. M /\ <<i, "code">> \in V
    BY DEF Modes
  <2>2. \A i \in D : i # 0 => i - 1 \in D /\ i - 1 < i
    BY <1>1
  <2>3. 0 \in D /\ <<0, "code">> \in V
    BY <1>1, <2>1
  <2> HIDE DEF V, D
  <2>4. measure \in [D -> 0 .. M] /\ next \in [D -> D] /\ base \in [D -> V]
    BY <2>1, <2>2, <2>3
  <2>5. \A i \in D : i \notin {0} => measure[next[i]] < measure[i]
    BY <2>2
  <2>6. QED
    BY <2>3, <2>4, <2>5
<1>5. g \in [D \X V -> V]
  <2> HIDE DEF after
  <2>1. QED
    BY <1>3
<1>6. PICK f : IsRecursion(f, D, V, {0}, base, next, g)
  <2> HIDE DEF D, V, base, next, g, measure
  <2>1. QED
    BY <1>1, <1>4, <1>5, Recurses
<1>7. f \in [D -> V] /\ \A i \in D : f[i] = IF i = 0 THEN <<0, "code">> ELSE after(f[i - 1])
  <2>1. f \in [D -> V] /\ \A i \in D : f[i] = IF i \in {0} THEN base[i] ELSE g[<<i, f[next[i]]>>]
    BY <1>6 DEF IsRecursion
  <2>2. ASSUME NEW i \in D, i # 0 PROVE f[i] = after(f[i - 1])
    <3>1. i - 1 \in D /\ next[i] = i - 1
      BY <1>1, <2>2
    <3>2. f[i - 1] \in V
      BY <2>1, <3>1
    <3>3. g[<<i, f[i - 1]>>] = after(f[i - 1])
      BY <3>2
    <3> HIDE DEF g, after
    <3>4. QED
      BY <2>1, <2>2, <3>1, <3>3
  <2>3. f[0] = <<0, "code">>
    <3>1. 0 \in D /\ base[0] = <<0, "code">>
      BY <1>1
    <3> HIDE DEF base, g
    <3>2. QED
      BY <2>1, <3>1
  <2> HIDE DEF g, after
  <2>4. QED
    BY <2>1, <2>2, <2>3
<1> DEFINE S == {i \in D : f[i][1] = i}
<1>8. \A i \in D : i \in S
  <2>1. 0 \in S
    BY <1>1, <1>7
  <2>2. ASSUME NEW i \in 1 .. M, i - 1 \in S PROVE i \in S
    <3>1. i \in D /\ i # 0 /\ f[i - 1][1] = i - 1 /\ i - 1 # M
      BY <1>1, <2>2
    <3>2. QED
      BY <1>1, <1>7, <3>1
  <2> HIDE DEF S
  <2>3. QED
    BY <1>1, <2>1, <2>2, Inductive
<1> DEFINE h == [i \in D |-> f[i][2]]
<1>9. ASSUME NEW i \in D
      PROVE  h[i] = IF i = 0 THEN "code" ELSE ModeAfter(h[i - 1], text[i])
  <2>1. CASE i = 0
    BY <1>7, <2>1
  <2>2. CASE i # 0
    <3>1. i - 1 \in D /\ i - 1 # M /\ (i - 1) + 1 = i
      BY <1>1, <2>2
    <3>2. f[i - 1][1] = i - 1
      BY <1>8, <3>1
    <3>3. f[i] = <<i, ModeAfter(f[i - 1][2], text[i])>>
      BY <1>7, <2>2, <3>1, <3>2
    <3>4. QED
      BY <2>2, <3>1, <3>3
  <2>3. QED
    BY <2>1, <2>2
<1>10. IsReading(h)
  <2>1. h = [i \in D |-> h[i]]
    OBVIOUS
  <2>2. h = [i \in D |-> IF i = 0 THEN "code" ELSE ModeAfter(h[i - 1], text[i])]
    <3> HIDE DEF h
    <3>1. QED
      BY <1>9, <2>1
  <2>3. QED
    BY <2>2 DEF IsReading
<1>11. QED
  BY <1>10

\* What each character is part of.
Mode == CHOOSE f : IsReading(f)

LEMMA ModeSteps ==
  ASSUME IsSequence(text)
  PROVE  /\ Mode[0] = "code"
         /\ \A i \in 1 .. Len(text) : Mode[i] = ModeAfter(Mode[i - 1], text[i])
         /\ ModeAtEnd = Mode[Len(text)]
<1>1. IsReading(Mode)
  BY ReadingExists DEF Mode
<1>2. ModeAtEnd = Mode[Len(text)]
  BY DEF ModeAtEnd, Mode, IsReading
<1>3. Mode = [i \in 0 .. Len(text) |-> IF i = 0 THEN "code" ELSE ModeAfter(Mode[i - 1], text[i])]
  BY <1>1 DEF IsReading
<1> HIDE DEF Mode
<1>4. Len(text) \in Nat
  BY EndIsNatural
<1>5. QED
  BY <1>2, <1>3, <1>4

\* What holds before a part of the text and is kept by its characters holds at its end.
LEMMA Along ==
  ASSUME NEW i \in Nat, NEW j \in Nat, i <= j, NEW S, i \in S,
         \A k \in i + 1 .. j : k - 1 \in S => k \in S
  PROVE  j \in S
<1> DEFINE T == {n \in 0 .. j - i : i + n \in S}
<1>1. j - i \in Nat /\ 0 \in T
  OBVIOUS
<1>2. ASSUME NEW n \in 1 .. j - i, n - 1 \in T PROVE n \in T
  <2>1. i + n \in i + 1 .. j /\ (i + n) - 1 = i + (n - 1)
    OBVIOUS
  <2>2. QED
    BY <1>2, <2>1
<1>3. \A n \in 0 .. j - i : n \in T
  <2> HIDE DEF T
  <2>1. QED
    BY <1>1, <1>2, Inductive
<1>4. j - i \in T
  BY <1>1, <1>3
<1>5. QED
  BY <1>4

\* Characters of code go on with code; those of a string, a comment or blanks with those.
Plain(c) == c \notin {Quote, "#"} \cup Blanks

LEMMA CodeRun ==
  ASSUME IsSequence(text), NEW i \in 1 .. Len(text), Mode[i] = "code", NEW j \in i + 1 .. End,
         \A k \in i + 1 .. j - 1 : Plain(text[k])
  PROVE  Mode[j - 1] = "code"
<1> DEFINE S == {k \in Nat : Mode[k] = "code"}
<1>1. i \in S /\ i \in Nat /\ j - 1 \in Nat /\ i <= j - 1 /\ j - 1 <= Len(text)
  BY EndIsNatural
<1>2. ASSUME NEW k \in i + 1 .. j - 1, k - 1 \in S PROVE k \in S
  <2>1. k \in 1 .. Len(text) /\ Mode[k - 1] = "code" /\ k \in Nat
    BY <1>1, <1>2, EndIsNatural
  <2>2. QED
    BY <2>1, ModeSteps DEF ModeAfter, Plain
<1>3. j - 1 \in S
  <2> HIDE DEF S
  <2>1. QED
    BY <1>1, <1>2, Along
<1>4. QED
  BY <1>3

LEMMA BlankRun ==
  ASSUME IsSequence(text), NEW i \in 1 .. End, Mode[i - 1] = "code", NEW j \in i .. End,
         \A k \in i .. j - 1 : text[k] \in Blanks
  PROVE  Mode[j - 1] = IF j = i THEN "code" ELSE "blank"
<1> DEFINE S == {k \in Nat : k = i - 1 \/ (k > i - 1 /\ Mode[k] = "blank")}
<1>1. i - 1 \in S /\ i - 1 \in Nat /\ j - 1 \in Nat /\ i - 1 <= j - 1 /\ j - 1 <= Len(text)
  BY EndIsNatural
<1>2. ASSUME NEW k \in (i - 1) + 1 .. j - 1, k - 1 \in S PROVE k \in S
  <2>1. /\ k \in 1 .. Len(text) /\ Mode[k - 1] \in {"code", "blank"} /\ k \in Nat /\ k > i - 1
        /\ text[k] \in Blanks
    BY <1>1, <1>2, EndIsNatural
  <2>2. QED
    BY <2>1, ModeSteps DEF ModeAfter, Blanks, Quote
<1>3. j - 1 \in S
  <2> HIDE DEF S
  <2>1. QED
    BY <1>1, <1>2, Along
<1>4. QED
  BY <1>1, <1>3

LEMMA StringRun ==
  ASSUME IsSequence(text), NEW i \in 1 .. Len(text), Mode[i] = "string", NEW j \in i .. Len(text),
         \A k \in i + 1 .. j : text[k] # Quote
  PROVE  Mode[j] = "string"
<1> DEFINE S == {k \in Nat : Mode[k] = "string"}
<1>1. i \in S /\ i \in Nat /\ j \in Nat /\ i <= j
  BY EndIsNatural
<1>2. ASSUME NEW k \in i + 1 .. j, k - 1 \in S PROVE k \in S
  <2>1. k \in 1 .. Len(text) /\ Mode[k - 1] = "string" /\ k \in Nat
    BY <1>1, <1>2, EndIsNatural
  <2>2. QED
    BY <2>1, ModeSteps DEF ModeAfter
<1>3. j \in S
  <2> HIDE DEF S
  <2>1. QED
    BY <1>1, <1>2, Along
<1>4. QED
  BY <1>3

LEMMA CommentRun ==
  ASSUME IsSequence(text), NEW i \in 1 .. Len(text), Mode[i] = "comment",
         NEW j \in i .. Len(text), \A k \in i + 1 .. j : text[k] # "\n"
  PROVE  Mode[j] = "comment"
<1> DEFINE S == {k \in Nat : Mode[k] = "comment"}
<1>1. i \in S /\ i \in Nat /\ j \in Nat /\ i <= j
  BY EndIsNatural
<1>2. ASSUME NEW k \in i + 1 .. j, k - 1 \in S PROVE k \in S
  <2>1. k \in 1 .. Len(text) /\ Mode[k - 1] = "comment" /\ k \in Nat
    BY <1>1, <1>2, EndIsNatural
  <2>2. QED
    BY <2>1, ModeSteps DEF ModeAfter
<1>3. j \in S
  <2> HIDE DEF S
  <2>1. QED
    BY <1>1, <1>2, Along
<1>4. QED
  BY <1>3

LEMMA NotFound ==
  ASSUME IsSequence(text), NEW c, NEW i \in 1 .. End, seek_char(c, i) = 0
  PROVE  \A k \in i + 1 .. Len(text) : text[k] # c
<1> DEFINE places == {j \in i + 1 .. Len(text) : text[j] = c}
<1>1. SUFFICES ASSUME places # {} PROVE FALSE
  OBVIOUS
<1>2. places \in SUBSET Nat /\ 0 \notin places
  BY EndIsNatural
<1>3. Min(places) = 0
  BY <1>1 DEF seek_char
<1>4. PICK j \in places : \A k \in places : j <= k
  <2> HIDE DEF places
  <2>1. QED
    BY <1>1, <1>2, LeastNatural
<1>5. Min(places) \in places
  <2> HIDE DEF places
  <2>1. QED
    BY <1>4 DEF Min
<1>6. QED
  BY <1>2, <1>3, <1>5

\* Words, numbers and symbols have no quote, comment sign or blank in them.
LEMMA PlainCharacters == \A c \in Letters \cup Digits \cup {"."} : Plain(c)
BY Zenon DEF Plain, Letters, Digits, Keywords, Quote, Blanks

LEMMA SymbolCharacters ==
  \A k \in DOMAIN Symbols : \A m \in 1 .. Len(Symbols[k].lexeme) : Plain(Symbols[k].lexeme[m])
<1>1. \A c \in Starts : Plain(c)
  BY Zenon DEF Starts, Comma, OpenBrace, CloseBrace, Plain, Quote, Blanks
<1>2. \A k \in DOMAIN Symbols : Symbols[k].lexeme[1] \in Starts
  BY FirstCharacters, SymbolPlaces DEF Starts
<1>3. /\ Symbols[10].lexeme[2] = "." /\ Symbols[10].lexeme[3] = "."
      /\ Symbols[12].lexeme[2] = "=" /\ Symbols[13].lexeme[2] = "="
      /\ Symbols[15].lexeme[2] = "=" /\ Symbols[18].lexeme[2] = ">"
      /\ Symbols[20].lexeme[2] = "=" /\ Symbols[28].lexeme[2] = "&"
  BY SymbolTable DEF Symbol
<1>4. {".", "=", ">", "&"} \subseteq Starts
  BY DEF Starts
<1>5. ASSUME NEW k \in DOMAIN Symbols, NEW m \in 1 .. Len(Symbols[k].lexeme)
      PROVE  Symbols[k].lexeme[m] \in Starts
  <2>1. Len(Symbols[k].lexeme) =
          IF k = 10 THEN 3 ELSE IF k \in {12, 13, 15, 18, 20, 28} THEN 2 ELSE 1
    BY SymbolLengths
  <2>2. CASE m = 1
    BY <1>2, <2>2
  <2>3. CASE m # 1
    <3>1. (k = 10 /\ m \in {2, 3}) \/ (k \in {12, 13, 15, 18, 20, 28} /\ m = 2)
      BY <2>1, <2>3
    <3>2. Symbols[k].lexeme[m] \in {".", "=", ">", "&"}
      BY <1>3, <3>1
    <3>3. QED
      BY <1>4, <3>2
  <2>4. QED
    BY <2>2, <2>3
<1>6. QED
  BY <1>1, <1>5

LEMMA SymbolRun ==
  ASSUME IsSequence(text), NEW i \in 1 .. End - 1,
         NEW m \in DOMAIN Symbols, IsAt(Symbols[m].lexeme, i)
  PROVE  \E k \in DOMAIN Symbols :
           /\ ScanSymbol(i).type = Symbols[k].type
           /\ ScanSymbol(i).next \in i + 1 .. End
           /\ \A j \in i .. ScanSymbol(i).next - 1 : Plain(text[j])
<1> DEFINE fits == {k \in DOMAIN Symbols : IsAt(Symbols[k].lexeme, i)}
           first == Min(fits)
           l == Symbols[first].lexeme
           n == Len(l)
<1>1. first \in fits
  <2>1. fits \in SUBSET Nat /\ fits # {}
    BY SymbolPlaces
  <2> HIDE DEF fits
  <2>2. PICK j \in fits : \A k \in fits : j <= k
    BY <2>1, LeastNatural
  <2>3. QED
    BY <2>2 DEF Min
<1>2. ScanSymbol(i).type = Symbols[first].type /\ ScanSymbol(i).next = i + n
  BY DEF ScanSymbol, Token
<1>3. first \in DOMAIN Symbols /\ IsAt(l, i)
  BY <1>1
<1> HIDE DEF first
<1>4. n \in Nat \ {0} /\ i + n <= End
  BY <1>3, IsAtStart, EndIsNatural
<1>5. ASSUME NEW j \in i .. i + n - 1 PROVE Plain(text[j])
  <2>1. SubSeq(text, i, i + n - 1) = l
    BY <1>3 DEF IsAt
  <2>2. j - i + 1 \in 1 .. n
    BY <1>4
  <2>3. SubSeq(text, i, i + n - 1)[j - i + 1] = text[j]
    <3> HIDE DEF n
    <3>1. /\ text \in Seq(Range(text)) /\ i \in 1 .. Len(text)
          /\ i + n - 1 \in i .. Len(text) /\ j - i + 1 \in 1 .. (i + n - 1) - i + 1
      BY <1>4, <2>2, EndIsNatural DEF IsSequence
    <3>2. SubSeq(text, i, i + n - 1)[j - i + 1] = text[i + (j - i + 1) - 1]
      BY <3>1, SubSeqProperties
    <3>3. i + (j - i + 1) - 1 = j
      BY <3>1
    <3>4. QED
      BY <3>2, <3>3
  <2>4. Plain(l[j - i + 1])
    BY <1>3, <2>2, SymbolCharacters
  <2>5. QED
    BY <2>1, <2>3, <2>4
<1>6. QED
  BY <1>2, <1>3, <1>4, <1>5, EndIsNatural

\* What a token leaves behind it is code; a search that left the text was in a string.
LEMMA MatchModes ==
  ASSUME IsSequence(text), NEW i \in 1 .. Len(text),
         text[i] = Quote => Mode[i] = "string", text[i] # Quote => Mode[i] = "code"
  PROVE  /\ MatchAt(i).next = 0 => ModeAtEnd = "string"
         /\ MatchAt(i).next # 0 => /\ MatchAt(i).next \in 1 .. End
                                   /\ Mode[MatchAt(i).next - 1] = "code"
         /\ MatchAt(i).type # "EOF"
<1>1. i \in 1 .. End - 1 /\ i \in 1 .. End /\ i # End /\ End = Len(text) + 1 /\ End \in Nat
  BY EndIsNatural
<1>2. CASE text[i] = Quote
  <2> DEFINE close == seek_char(Quote, i)
  <2>1. MatchAt(i) = ScanString(i)
    BY <1>1, <1>2 DEF MatchAt
  <2>2. Mode[i] = "string"
    BY <1>2
  <2>3. CASE close = 0
    <3>1. MatchAt(i).next = 0 /\ MatchAt(i).type = "ERROR"
      BY <2>1, <2>3 DEF ScanString, Overrun, Token
    <3>2. \A k \in i + 1 .. Len(text) : text[k] # Quote
      BY <1>1, <2>3, NotFound
    <3>3. Mode[Len(text)] = "string"
      BY <1>1, <2>2, <3>2, StringRun
    <3>4. QED
      BY <3>1, <3>3, ModeSteps
  <2>4. CASE close # 0
    <3>1. MatchAt(i).next = close + 1 /\ MatchAt(i).type = "STRING"
      BY <2>1, <2>4 DEF ScanString, Token
    <3>2. /\ close \in i + 1 .. Len(text) /\ text[close] = Quote
          /\ \A k \in i + 1 .. close - 1 : text[k] # Quote
      BY <1>1, <2>4, Found
    <3> HIDE DEF close
    <3>3. Mode[close - 1] = "string"
      BY <1>1, <2>2, <3>2, StringRun
    <3>4. Mode[close] = "code"
      BY <1>1, <3>2, <3>3, ModeSteps DEF ModeAfter
    <3>5. QED
      BY <1>1, <3>1, <3>2, <3>4
  <2>5. QED
    BY <2>3, <2>4
<1>3. ASSUME text[i] # Quote, NEW j \in i + 1 .. End, \A k \in i .. j - 1 : Plain(text[k])
      PROVE  j # 0 /\ j \in 1 .. End /\ Mode[j - 1] = "code"
  BY <1>1, <1>3, CodeRun
<1>4. MatchAt(i) = ErrorToken(i) /\ text[i] # Quote
        => MatchAt(i).next = i + 1 /\ MatchAt(i).type # "EOF" /\ Mode[i] = "code"
  BY DEF ErrorToken, Token
<1>5. CASE text[i] # Quote /\ text[i] \in Digits
  <2>1. MatchAt(i) = ScanNumber(i)
    BY <1>1, <1>5 DEF MatchAt
  <2>2. \/ MatchAt(i) = ErrorToken(i)
        \/ MatchAt(i).next = PastNumber(i) /\ MatchAt(i).type \in {"INTEGER", "NUMBER"}
    BY <2>1 DEF ScanNumber, Token
  <2>3. IsRun(Digits \cup {"."}, i, PastNumber(i))
    BY <1>1, Runs
  <2>4. PastNumber(i) \in i + 1 .. End /\ \A k \in i .. PastNumber(i) - 1 : Plain(text[k])
    BY <1>1, <1>5, <2>3, PlainCharacters DEF IsRun
  <2>5. QED
    BY <1>1, <1>3, <1>4, <1>5, <2>2, <2>4
<1>6. CASE text[i] # Quote /\ text[i] \notin Digits /\ text[i] \in Letters
  <2>1. MatchAt(i) = ScanWord(i)
    BY <1>1, <1>6 DEF MatchAt
  <2>2. MatchAt(i).next = PastWord(i) /\ MatchAt(i).type \in Keywords \cup {"IDENTIFIER"}
    <3> DEFINE word == SubSeq(text, i, PastWord(i) - 1)
               type == IF Len(word) = 1 /\ word[1] \in Keywords THEN word[1] ELSE "IDENTIFIER"
    <3>1. ScanWord(i) = Token(type, i, PastWord(i), word)
      BY DEF ScanWord
    <3>2. type \in Keywords \cup {"IDENTIFIER"}
      <4> HIDE DEF word
      <4>1. QED
        OBVIOUS
    <3> HIDE DEF type, word
    <3>3. QED
      BY <2>1, <3>1, <3>2 DEF Token
  <2>3. MatchAt(i).type # "EOF"
    BY <2>2 DEF Keywords
  <2>4. IsRun(Letters \cup Digits, i, PastWord(i))
    BY <1>1, Runs
  <2>5. PastWord(i) \in i + 1 .. End /\ \A k \in i .. PastWord(i) - 1 : Plain(text[k])
    BY <1>1, <1>6, <2>4, PlainCharacters DEF IsRun
  <2>6. QED
    BY <1>3, <1>6, <2>2, <2>3, <2>5
<1>7. CASE /\ text[i] # Quote /\ text[i] \notin Digits /\ text[i] \notin Letters
           /\ \E k \in DOMAIN Symbols : IsAt(Symbols[k].lexeme, i)
  <2>1. MatchAt(i) = ScanSymbol(i)
    BY <1>1, <1>7 DEF MatchAt
  <2>2. PICK k \in DOMAIN Symbols :
          /\ MatchAt(i).type = Symbols[k].type
          /\ MatchAt(i).next \in i + 1 .. End
          /\ \A j \in i .. MatchAt(i).next - 1 : Plain(text[j])
    BY <1>1, <1>7, <2>1, SymbolRun
  <2>3. Symbols[k].type # "EOF"
    BY SymbolTypes
  <2>4. QED
    BY <1>3, <1>7, <2>2, <2>3
<1>8. CASE /\ text[i] # Quote /\ text[i] \notin Digits /\ text[i] \notin Letters
           /\ ~\E k \in DOMAIN Symbols : IsAt(Symbols[k].lexeme, i)
  <2>1. MatchAt(i) = ErrorToken(i)
    BY <1>1, <1>8 DEF MatchAt
  <2>2. QED
    BY <1>1, <1>4, <1>8, <2>1
<1>9. QED
  BY <1>2, <1>5, <1>6, <1>7, <1>8

\* Where the scanner is, the text is code; past the NUL, it ended in blanks.
IsInCode(i) ==
  /\ i \in 1 .. End => Mode[i - 1] = "code"
  /\ i = End + 1 => ModeAtEnd = "blank"
  /\ i = 0 => ModeAtEnd \in {"blank", "comment", "string"}

LEMMA ScannedModes ==
  ASSUME IsSequence(text), NEW i \in 1 .. End + 1, IsInCode(i)
  PROVE  /\ IsInCode(scan_token(i).next)
         /\ scan_token(i).type = "EOF" => ModeAtEnd = "code" /\ scan_token(i).next = End
<1> DEFINE start == PastRun(LAMBDA c : c \in Blanks, i)
           comment == start < End /\ text[start] = "#"
           b == IF comment THEN seek_char("\n", start) ELSE start
<1>1. scan_token(i) = IF i = End THEN Token("EOF", i, i, <<>>)
                      ELSE IF i > End \/ b = 0 THEN Overrun(i)
                      ELSE MatchAt(b)
  BY DEF scan_token
<1>2. End = Len(text) + 1 /\ Len(text) \in Nat
  BY EndIsNatural
<1>3. CASE i = End
  <2>1. Mode[Len(text)] = "code"
    BY <1>2, <1>3 DEF IsInCode
  <2>2. scan_token(i).next = i
    BY <1>1, <1>3 DEF Token
  <2>3. QED
    BY <1>3, <2>1, <2>2, ModeSteps
<1>4. CASE i = End + 1
  <2>1. scan_token(i).next = 0 /\ scan_token(i).type = "ERROR"
    BY <1>1, <1>2, <1>4 DEF Overrun, Token
  <2>2. QED
    BY <1>2, <1>4, <2>1 DEF IsInCode
<1>5. CASE i \in 1 .. Len(text)
  <2>1. i \in 1 .. End /\ i # End /\ ~(i > End) /\ Mode[i - 1] = "code"
    BY <1>2, <1>5 DEF IsInCode
  <2>2. IsRun(Blanks, i, start)
    BY <2>1, Runs
  <2>3. scan_token(i) = IF b = 0 THEN Overrun(i) ELSE MatchAt(b)
    BY <1>1, <2>1
  <2> HIDE DEF start
  <2>4. /\ start \in i .. End /\ (start = End \/ text[start] \notin Blanks)
        /\ \A k \in i .. start - 1 : text[k] \in Blanks
    BY <2>2 DEF IsRun
  <2>5. Mode[start - 1] = IF start = i THEN "code" ELSE "blank"
    BY <2>1, <2>4, BlankRun
  <2>6. CASE start = End
    <3>1. scan_token(i) = ErrorToken(End)
      BY <1>2, <2>3, <2>6 DEF MatchAt
    <3>2. scan_token(i).next = End + 1 /\ scan_token(i).type = "ERROR"
      BY <3>1 DEF ErrorToken, Token
    <3>3. Mode[Len(text)] = "blank"
      BY <1>2, <2>1, <2>5, <2>6
    <3>4. QED
      BY <1>2, <3>2, <3>3, ModeSteps DEF IsInCode
  <2>7. CASE start # End /\ text[start] = "#"
    <3>1. start \in 1 .. Len(text) /\ start \in 1 .. End /\ comment
      BY <1>2, <1>5, <2>4, <2>7
    <3>2. Mode[start] = ModeAfter(Mode[start - 1], "#")
      BY <2>7, <3>1, ModeSteps
    <3>3. Mode[start] = "comment"
      BY <2>5, <3>2 DEF ModeAfter, Quote
    <3>4. b = seek_char("\n", start)
      BY <3>1
    <3>5. CASE b = 0
      <4>1. scan_token(i).next = 0 /\ scan_token(i).type = "ERROR"
        BY <2>3, <3>5 DEF Overrun, Token
      <4>2. \A k \in start + 1 .. Len(text) : text[k] # "\n"
        BY <3>1, <3>4, <3>5, NotFound
      <4>3. Mode[Len(text)] = "comment"
        BY <1>2, <3>1, <3>3, <4>2, CommentRun
      <4>4. QED
        BY <1>2, <4>1, <4>3, ModeSteps DEF IsInCode
    <3>6. CASE b # 0
      <4>1. /\ b \in start + 1 .. Len(text) /\ text[b] = "\n"
            /\ \A k \in start + 1 .. b - 1 : text[k] # "\n"
        BY <3>1, <3>4, <3>6, Found
      <4> HIDE DEF b
      <4>2. Mode[b - 1] = "comment" /\ b \in 1 .. Len(text)
        BY <1>2, <3>1, <3>3, <4>1, CommentRun
      <4>3. Mode[b] = "code" /\ text[b] # Quote
        BY <4>1, <4>2, ModeSteps DEF ModeAfter, Quote
      <4>4. QED
        BY <1>2, <2>3, <3>6, <4>2, <4>3, MatchModes DEF IsInCode
    <3>7. QED
      BY <3>5, <3>6
  <2>8. CASE start # End /\ text[start] # "#"
    <3>1. start \in 1 .. Len(text) /\ b = start /\ b # 0
      BY <1>2, <1>5, <2>4, <2>8
    <3>2. Mode[start] = ModeAfter(Mode[start - 1], text[start])
      BY <3>1, ModeSteps
    <3>3. Mode[start] = IF text[start] = Quote THEN "string" ELSE "code"
      BY <2>4, <2>5, <2>8, <3>2 DEF ModeAfter
    <3>4. scan_token(i) = MatchAt(start)
      BY <2>3, <3>1
    <3>5. QED
      BY <1>2, <3>1, <3>3, <3>4, MatchModes DEF IsInCode
  <2>9. QED
    BY <2>6, <2>7, <2>8
<1>6. QED
  BY <1>2, <1>3, <1>4, <1>5

\* With ScanInv: where the scanner is, and where the parser ends.
EndInv ==
  /\ IsInCode(at)
  /\ current.type = "EOF" => ModeAtEnd = "code" /\ at = End
  /\ phase = "overrun" => at = 0
  /\ phase = "done" => current.type = "EOF"

LEMMA EndInvHolds == Spec => []EndInv
<1>1. Init /\ ScanInv => EndInv
  <2> SUFFICES ASSUME Init, ScanInv PROVE EndInv
    OBVIOUS
  <2>1. IsSequence(text) /\ 1 \in 1 .. End + 1 /\ 1 \in 1 .. End /\ End + 1 # 1
    BY EndIsNatural DEF ScanInv
  <2>2. IsInCode(1)
    BY <2>1, ModeSteps DEF IsInCode
  <2>3. /\ current = scan_token(1) /\ at = current.next
        /\ phase = "overrun" => at = 0
        /\ phase # "done"
    BY DEF Init
  <2>4. QED
    BY <2>1, <2>2, <2>3, ScannedModes DEF EndInv
<1>2. ScanInv /\ EndInv /\ [Next]_vars => EndInv'
  <2> SUFFICES ASSUME ScanInv, EndInv, [Next]_vars PROVE EndInv'
    OBVIOUS
  <2>1. ASSUME UNCHANGED text
        PROVE  /\ \A i : IsInCode(i)' <=> IsInCode(i)
               /\ ModeAtEnd' = ModeAtEnd /\ End' = End
    BY <2>1, EndStays DEF IsInCode, Mode, IsReading, ModeAtEnd
  <2>2. CASE phase = "parse" /\ Advance
    <3>1. /\ current' = scan_token(at) /\ at' = current'.next /\ text' = text
          /\ phase' = IF at' = 0 THEN "overrun" ELSE phase
      BY <2>2 DEF Advance
    <3>2. IsSequence(text) /\ at \in 1 .. End + 1 /\ IsInCode(at)
      BY <2>2 DEF ScanInv, EndInv
    <3>3. IsInCode(at') /\ (current'.type = "EOF" => ModeAtEnd = "code" /\ at' = End)
      BY <3>1, <3>2, ScannedModes
    <3>4. PICK n : n = at'
      OBVIOUS
    <3>5. IsInCode(n)'
      BY <2>1, <3>1, <3>3, <3>4
    <3>6. IsInCode(at)'
      BY <3>4, <3>5 DEF IsInCode
    <3>7. QED
      BY <2>1, <2>2, <3>1, <3>3, <3>6 DEF EndInv
  <2>3. CASE Next /\ Kept /\ phase' # "overrun" /\ (phase' = "done" => Is("EOF"))
    <3>1. UNCHANGED <<text, at, current>>
      BY <2>3 DEF Kept
    <3>2. QED
      BY <2>1, <2>3, <3>1 DEF EndInv, Is
  <2>4. CASE UNCHANGED vars
    <3>1. UNCHANGED <<text, at, current, phase>>
      BY <2>4 DEF vars
    <3>2. QED
      BY <2>1, <3>1 DEF EndInv
  <2>5. QED
    BY <2>2, <2>3, <2>4, StepScans DEF Scans
<1>3. QED
  BY <1>1, <1>2, ScanInvHolds, PTL DEF Spec

\* The scanner leaves only texts that end in a string, in a comment or in blanks
\* (seek_char, and the step over the NUL).
THEOREM OverrunsCaused == Spec => []OverrunsHaveCause
<1>1. EndInv => OverrunsHaveCause
  BY DEF EndInv, IsInCode, OverrunsHaveCause
<1>2. QED
  BY <1>1, EndInvHolds, PTL

-----------------------------------------------------------------------------
(* Messages and lapses: what was remarked is not forgotten.                *)

Lapses == {"target", "unclosed", "swallowed", "single arm"}
Remarks ==
  /\ complained' \in {complained, TRUE}
  /\ lapses \subseteq lapses' /\ lapses' \subseteq lapses \cup Lapses

LEMMA SilentRemarks == Silent => Remarks
BY DEF Silent, Remarks

LEMMA ComplainRemarks == Complain => Remarks
BY DEF Complain, Remarks

LEMMA UndefinedRemarks == Undefined => Remarks
BY DEF Undefined, Remarks

LEMMA LapseRemarks ==
  ASSUME NEW what \in Lapses, Lapse(what)
  PROVE  Remarks
BY DEF Lapse, Remarks

LEMMA LapseIfRemarks ==
  ASSUME NEW what \in Lapses, NEW c, LapseIf(c, what)
  PROVE  Remarks
BY SilentRemarks, LapseRemarks DEF LapseIf

LEMMA ExpressionRemarks ==
  ASSUME EnterPrecedence \/ NoPrefix \/ Literal \/ parse_unary \/ Infix \/ NoInfix \/ EnterBinary
         \/ Operator \/ Member \/ Assign
  PROVE  Remarks
BY SilentRemarks, ComplainRemarks, UndefinedRemarks, LapseRemarks, LapseIfRemarks
DEF EnterPrecedence, NoPrefix, Literal, parse_unary, Infix, NoInfix, EnterBinary, Operator,
    Member, Assign, Lapses

LEMMA ListRemarks ==
  ASSUME NextMember \/ EndMember \/ AfterMember \/ parse_grouping \/ parse_array \/ parse_call \/
         parse_index_access \/ NextInBlock \/ Push \/ EndBlock \/ parse_scoped_block \/
         parse_fn_body
  PROVE  Remarks
BY SilentRemarks, ComplainRemarks, UndefinedRemarks, LapseRemarks, LapseIfRemarks
DEF NextMember, EndMember, AfterMember, parse_grouping, parse_array, parse_call,
    parse_index_access, NextInBlock, Push, EndBlock, parse_scoped_block, parse_fn_body, Lapses

LEMMA ConditionalRemarks ==
  ASSUME if_expression \/ parse_ternary \/ EnterMatch \/ NextArm \/ EndArm
  PROVE  Remarks
BY SilentRemarks, ComplainRemarks, UndefinedRemarks, LapseRemarks, LapseIfRemarks
DEF if_expression, parse_ternary, EnterMatch, NextArm, EndArm, Lapses

LEMMA FunctionRemarks ==
  ASSUME EnterPrototype \/ NextParameter \/ VariableArguments \/ EndParameter \/ ResultType \/
         parse_function \/ parse_named_function \/ parse_extern_function \/ parse_struct
  PROVE  Remarks
BY SilentRemarks, ComplainRemarks, UndefinedRemarks, LapseRemarks, LapseIfRemarks
DEF EnterPrototype, NextParameter, VariableArguments, EndParameter, ResultType,
    parse_function, parse_named_function, parse_extern_function, parse_struct, Lapses

LEMMA StatementRemarks ==
  ASSUME Statement \/ let_statement \/ assignment_statement \/ type_declaration \/ import_module
         \/ EnterMain \/ NextStatement \/ PushStatement
  PROVE  Remarks
BY SilentRemarks, ComplainRemarks, UndefinedRemarks, LapseRemarks, LapseIfRemarks
DEF Statement, let_statement, assignment_statement, type_declaration, import_module,
    EnterMain, NextStatement, PushStatement, Lapses, Remarks

LEMMA StepRemarks == Next => Remarks
BY ExpressionRemarks, ListRemarks, ConditionalRemarks, FunctionRemarks, StatementRemarks
DEF Next, ParseExpression, ParseStatement

-----------------------------------------------------------------------------
(* Calls: the statements of the input are at the bottom of the stack, and  *)
(* no call under way returns past them.                                    *)

Bottoms == {"main", "program", "program_push"}
IsInner(f) == "go" \in DOMAIN f /\ f.go \in Places /\ f.go \notin Bottoms
IsBottom(f) == "go" \in DOMAIN f /\ f.go \in Bottoms
Stacked(s) ==
  /\ IsSequence(s) /\ s # <<>>
  /\ \A i \in DOMAIN s : IF i = Len(s) THEN IsBottom(s[i]) ELSE IsInner(s[i])

LEMMA StackedRest ==
  ASSUME NEW s, Stacked(s), IsInner(Head(s))
  PROVE  Stacked(Tail(s))
<1>1. /\ s \in Seq(Range(s)) /\ s # <<>>
      /\ Len(s) \in Nat \ {0} /\ DOMAIN s = 1 .. Len(s)
      /\ Head(s) = s[1]
  BY DEF Stacked, IsSequence
<1>2. Len(s) # 1
  BY <1>1 DEF Stacked, IsInner, IsBottom
<1>3. /\ Tail(s) \in Seq(Range(s)) /\ Len(Tail(s)) = Len(s) - 1
      /\ DOMAIN Tail(s) = 1 .. Len(s) - 1
      /\ \A i \in 1 .. Len(s) - 1 : Tail(s)[i] = s[i + 1]
  BY <1>1
<1>4. IsSequence(Tail(s))
  BY <1>3, SequenceOf
<1>5. Tail(s) # <<>>
  <2>1. Len(s) - 1 # 0
    BY <1>1, <1>2
  <2> HIDE DEF Stacked
  <2>2. QED
    BY <1>3, <2>1
<1>6. ASSUME NEW i \in 1 .. Len(s) - 1
      PROVE  IF i = Len(Tail(s)) THEN IsBottom(Tail(s)[i]) ELSE IsInner(Tail(s)[i])
  <2>1. i + 1 \in DOMAIN s /\ Tail(s)[i] = s[i + 1] /\ (i + 1 = Len(s) <=> i = Len(Tail(s)))
    BY <1>1, <1>3
  <2>2. IF i + 1 = Len(s) THEN IsBottom(s[i + 1]) ELSE IsInner(s[i + 1])
    BY <2>1 DEF Stacked
  <2>3. QED
    BY <2>1, <2>2
<1>7. QED
  BY <1>3, <1>4, <1>5, <1>6 DEF Stacked

LEMMA OneMore ==
  ASSUME NEW s, Stacked(s), NEW f, IsInner(f)
  PROVE  Stacked(<<f>> \o s)
<1> DEFINE X == Range(s) \cup {f}
           t == <<f>> \o s
<1>1. s \in Seq(X) /\ f \in X
  BY SeqMonotonic DEF Stacked, IsSequence
<1> HIDE DEF X
<1>2. /\ t \in Seq(X) /\ Len(t) = Len(s) + 1 /\ Len(s) \in Nat
      /\ DOMAIN s = 1 .. Len(s) /\ DOMAIN t = 1 .. Len(s) + 1
      /\ t[1] = f /\ \A i \in 1 .. Len(s) : t[i + 1] = s[i]
  BY <1>1
<1> HIDE DEF t
<1>3. IsSequence(t)
  BY <1>2, SequenceOf
<1>4. Len(s) # 0 /\ t # <<>>
  BY <1>2, <1>1 DEF Stacked
<1>5. ASSUME NEW i \in 1 .. Len(s) + 1
      PROVE  IF i = Len(t) THEN IsBottom(t[i]) ELSE IsInner(t[i])
  <2>1. CASE i = 1
    BY <1>2, <1>4, <2>1
  <2>2. CASE i # 1
    <3>1. i - 1 \in 1 .. Len(s) /\ (i - 1) + 1 = i /\ (i = Len(t) <=> i - 1 = Len(s))
      BY <1>2, <2>2
    <3>2. t[i] = s[i - 1] /\ i - 1 \in DOMAIN s
      BY <1>2, <3>1
    <3>3. QED
      BY <3>1, <3>2 DEF Stacked
  <2>3. QED
    BY <2>1, <2>2
<1>6. QED
  BY <1>2, <1>3, <1>4, <1>5 DEF t, Stacked

LEMMA TwoMore ==
  ASSUME NEW s, Stacked(s), NEW f, IsInner(f), NEW g, IsInner(g)
  PROVE  Stacked(<<f, g>> \o s)
<1> DEFINE t == <<g>> \o s
<1>1. Stacked(t)
  BY OneMore
<1>2. <<f, g>> \o s = <<f>> \o t
  BY DEF Stacked, IsSequence
<1> HIDE DEF t
<1>3. QED
  BY <1>1, <1>2, OneMore

LEMMA ThreeMore ==
  ASSUME NEW s, Stacked(s), NEW f, IsInner(f), NEW g, IsInner(g), NEW h, IsInner(h)
  PROVE  Stacked(<<f, g, h>> \o s)
<1> DEFINE t == <<g, h>> \o s
<1>1. Stacked(t)
  BY TwoMore
<1>2. <<f, g, h>> \o s = <<f>> \o t
  BY DEF Stacked, IsSequence
<1> HIDE DEF t
<1>3. QED
  BY <1>1, <1>2, OneMore

\* What a call does to the stack: nothing, or it goes on with up to three calls.
Calls ==
  IsInner(Frame) =>
    \/ calls' = calls
    \/ calls' = Tail(calls)
    \/ \E f : IsInner(f) /\ calls' = <<f>> \o Tail(calls)
    \/ \E f, g : IsInner(f) /\ IsInner(g) /\ calls' = <<f, g>> \o Tail(calls)
    \/ \E f, g, h : IsInner(f) /\ IsInner(g) /\ IsInner(h) /\ calls' = <<f, g, h>> \o Tail(calls)

LEMMA CallsKeep ==
  ASSUME Stacked(calls), IsInner(Frame), Calls
  PROVE  Stacked(calls)'
BY StackedRest, OneMore, TwoMore, ThreeMore DEF Calls, Frame

LEMMA DoOne ==
  ASSUME NEW f, IsInner(Frame) => IsInner(f), Do(<<f>>)
  PROVE  Calls
BY DEF Do, Calls

LEMMA DoTwo ==
  ASSUME NEW f, NEW g, IsInner(Frame) => IsInner(f) /\ IsInner(g), Do(<<f, g>>)
  PROVE  Calls
BY DEF Do, Calls

LEMMA DoThree ==
  ASSUME NEW f, NEW g, NEW h, Do(<<f, g, h>>),
         IsInner(Frame) => IsInner(f) /\ IsInner(g) /\ IsInner(h)
  PROVE  Calls
BY DEF Do, Calls

LEMMA GiveOne ==
  ASSUME NEW t, NEW f, IsInner(Frame) => IsInner(f), Give(t, f)
  PROVE  Calls
BY DEF Give, Calls

LEMMA ReturnOne ==
  ASSUME NEW t, Return(t)
  PROVE  Calls
BY DEF Return, Calls

LEMMA UndefinedCalls == Undefined => Calls
BY DEF Undefined, Calls

LEMMA Changed ==
  ASSUME NEW p, p \in Places, p \notin Bottoms, IsInner(Frame)
  PROVE  IsInner([Frame EXCEPT !.go = p])
BY DEF IsInner

LEMMA ChangedWith ==
  ASSUME NEW items, NEW p, p \in Places, p \notin Bottoms, IsInner(Frame)
  PROVE  IsInner(With(items, p))
BY DEF IsInner, With

LEMMA ExpressionCalls == ParseExpression => Calls
<1>1. EnterPrecedence => Calls
  BY DoOne, ReturnOne, Changed DEF EnterPrecedence, IsInner, Places, Bottoms
<1>2. NoPrefix => Calls
  BY ReturnOne DEF NoPrefix
<1>3. Literal => Calls
  BY GiveOne DEF Literal, Loop, IsInner, Places, Bottoms
<1>4. parse_unary => Calls
  BY DoThree, ReturnOne DEF parse_unary, Loop, Precedence, IsInner, Places, Bottoms
<1>5. Infix => Calls
  BY DoTwo, ReturnOne DEF Infix, IsInner, Places, Bottoms
<1>6. NoInfix => Calls
  BY UndefinedCalls DEF NoInfix
<1>7. EnterBinary => Calls
  BY DoTwo DEF EnterBinary, Precedence, IsInner, Places, Bottoms
<1>8. Operator => Calls
  BY ReturnOne DEF Operator
<1>9. Member => Calls
  BY ReturnOne, UndefinedCalls DEF Member
<1>10. Assign => Calls
  BY ReturnOne, UndefinedCalls DEF Assign
<1>11. NextMember => Calls
  BY DoTwo, ReturnOne, Changed DEF NextMember, Expression, Precedence, IsInner, Places,
    Bottoms
<1>12. EndMember => Calls
  BY DoOne, ChangedWith DEF EndMember, IsInner, Places, Bottoms
<1>13. AfterMember => Calls
  BY DoOne, Changed DEF AfterMember, IsInner, Places, Bottoms
<1>14. parse_grouping => Calls
  BY DoThree, ReturnOne DEF parse_grouping, Loop, Members, Go, IsInner, Places, Bottoms
<1>15. parse_array => Calls
  BY DoThree, ReturnOne DEF parse_array, Loop, Members, Go, IsInner, Places, Bottoms
<1>16. parse_call => Calls
  BY DoTwo, ReturnOne, Changed DEF parse_call, Members, IsInner, Places, Bottoms
<1>17. parse_index_access => Calls
  BY DoTwo, ReturnOne, Changed DEF parse_index_access, Members, IsInner, Places, Bottoms
<1>18. NextInBlock => Calls
  BY DoOne, DoTwo, ReturnOne, Changed DEF NextInBlock, Go, IsInner, Places, Bottoms
<1>19. Push => Calls
  BY DoOne, ChangedWith DEF Push, IsInner, Places, Bottoms
<1>20. EndBlock => Calls
  BY ReturnOne DEF EndBlock
<1>21. parse_scoped_block => Calls
  BY DoTwo DEF parse_scoped_block, Block, Loop, IsInner, Places, Bottoms
<1>22. parse_fn_body => Calls
  BY DoOne, ReturnOne DEF parse_fn_body, Block, IsInner, Places, Bottoms
<1>23. if_expression => Calls
  BY DoThree, DoTwo, GiveOne, ReturnOne DEF if_expression, Expression, Loop, Go, Precedence,
    IsInner, Places, Bottoms
<1>24. parse_ternary => Calls
  BY DoTwo, ReturnOne, Changed DEF parse_ternary, Expression, Precedence, IsInner, Places,
    Bottoms
<1>25. EnterMatch => Calls
  BY DoThree, DoOne, UndefinedCalls DEF EnterMatch, Expression, Loop, Go, Precedence, IsInner,
    Places, Bottoms
<1>26. NextArm => Calls
  <2>1. Is("BAR") /\ NextArm => Calls
    <3>1. Is("BAR") /\ NextArm => Do(<<Expression, [Frame EXCEPT !.go = "arm"]>>)
      BY DEF NextArm
    <3>2. QED
      BY <3>1, DoTwo, Changed DEF Expression, Precedence, IsInner, Places, Bottoms
  <2>2. ~Is("BAR") /\ NextArm => Calls
    BY ReturnOne DEF NextArm
  <2>3. QED
    BY <2>1, <2>2
<1>27. EndArm => Calls
  BY DoOne, ChangedWith DEF EndArm, IsInner, Places, Bottoms
<1>28. QED
  BY <1>1, <1>2, <1>3, <1>4, <1>5, <1>6, <1>7, <1>8, <1>9, <1>10, <1>11, <1>12, <1>13, <1>14,
     <1>15, <1>16, <1>17, <1>18, <1>19, <1>20, <1>21, <1>22, <1>23, <1>24, <1>25, <1>26, <1>27
     DEF ParseExpression

LEMMA StatementCalls == ParseStatement /\ IsInner(Frame) => Calls
<1>1. EnterPrototype => Calls
  BY DoOne, ReturnOne DEF EnterPrototype, IsInner, Places, Bottoms
<1>2. NextParameter => Calls
  BY DoOne, DoTwo, Changed DEF NextParameter, Go, IsInner, Places, Bottoms
<1>3. VariableArguments => Calls
  BY GiveOne, ReturnOne, Changed DEF VariableArguments, IsInner, Places, Bottoms
<1>4. EndParameter => Calls
  BY DoOne, ChangedWith DEF EndParameter, IsInner, Places, Bottoms
<1>5. ResultType => Calls
  BY DoTwo, ReturnOne, Changed DEF ResultType, Expression, Precedence, IsInner, Places,
    Bottoms
<1>6. parse_function => Calls
  BY DoThree, DoTwo, ReturnOne DEF parse_function, Block, Loop, Prototype, Go, IsInner,
    Places, Bottoms
<1>7. parse_named_function => Calls
  BY ReturnOne, UndefinedCalls DEF parse_named_function
<1>8. parse_extern_function => Calls
  BY DoTwo, ReturnOne, Changed DEF parse_extern_function, Prototype, Go, IsInner, Places,
    Bottoms
<1>9. parse_struct => Calls
  BY DoTwo, DoOne, GiveOne, ReturnOne, Changed, ChangedWith DEF parse_struct, Loop, Go,
    IsInner, Places, Bottoms
<1>10. Statement => Calls
  BY DoOne, ReturnOne DEF Statement, Expression, Go, Precedence, IsInner, Places, Bottoms
<1>11. let_statement => Calls
  BY DoTwo, DoOne, ReturnOne, UndefinedCalls, Changed DEF let_statement, Expression, Go,
    Precedence, IsInner, Places, Bottoms
<1>12. assignment_statement => Calls
  BY DoOne, DoThree, DoTwo, ReturnOne, Changed DEF assignment_statement, Expression,
    Prototype, Go, Precedence, IsInner, Places, Bottoms
<1>13. type_declaration => Calls
  BY DoOne, DoTwo, ReturnOne, Changed DEF type_declaration, Expression, Prototype, Precedence,
    Go, IsInner, Places, Bottoms
<1>14. import_module => Calls
  BY DoOne, ReturnOne DEF import_module, IsInner, Places, Bottoms
<1>15. IsInner(Frame) => ~EnterMain /\ ~NextStatement /\ ~PushStatement
  BY DEF EnterMain, NextStatement, PushStatement, Running, IsInner, Bottoms
<1>16. QED
  BY <1>1, <1>2, <1>3, <1>4, <1>5, <1>6, <1>7, <1>8, <1>9,
     <1>10, <1>11, <1>12, <1>13, <1>14, <1>15 DEF ParseStatement

\* The calls of the bottom are not the others.
LEMMA ExpressionIsInner ==
  ASSUME EnterPrecedence \/ NoPrefix \/ Literal \/ parse_unary \/ Infix \/ NoInfix \/ EnterBinary
         \/ Operator \/ Member \/ Assign
  PROVE  Frame.go \notin Bottoms
BY DEF EnterPrecedence, NoPrefix, Literal, parse_unary, Infix, NoInfix, EnterBinary, Operator,
    Member, Assign, Running, Prefix, Binary, Bottoms

LEMMA ListIsInner ==
  ASSUME NextMember \/ EndMember \/ AfterMember \/ parse_grouping \/ parse_array \/ parse_call \/
         parse_index_access \/ NextInBlock \/ Push \/ EndBlock \/ parse_scoped_block \/
         parse_fn_body
  PROVE  Frame.go \notin Bottoms
BY DEF NextMember, EndMember, AfterMember, parse_grouping, parse_array, parse_call,
    parse_index_access, NextInBlock, Push, EndBlock, parse_scoped_block, parse_fn_body,
    Running, Prefix, Binary, Bottoms

LEMMA ConditionalIsInner ==
  ASSUME if_expression \/ parse_ternary \/ EnterMatch \/ NextArm \/ EndArm
  PROVE  Frame.go \notin Bottoms
BY DEF if_expression, parse_ternary, EnterMatch, NextArm, EndArm, Running, Prefix, Binary,
    Bottoms

LEMMA FunctionIsInner ==
  ASSUME EnterPrototype \/ NextParameter \/ VariableArguments \/ EndParameter \/ ResultType \/
         parse_function \/ parse_named_function \/ parse_extern_function \/ parse_struct
  PROVE  Frame.go \notin Bottoms
BY DEF EnterPrototype, NextParameter, VariableArguments, EndParameter, ResultType,
    parse_function, parse_named_function, parse_extern_function, parse_struct, Running,
    Prefix, Binary, Bottoms

LEMMA StatementIsInner ==
  ASSUME Statement \/ let_statement \/ assignment_statement \/ type_declaration \/ import_module
  PROVE  Frame.go \notin Bottoms
BY DEF Statement, let_statement, assignment_statement, type_declaration, import_module, Running,
    Prefix, Binary, Bottoms

LEMMA StatementsStay ==
  ASSUME Stacked(calls), IsBottom(Frame), EnterMain \/ NextStatement \/ PushStatement
  PROVE  Stacked(calls')
<1>1. IsSequence(calls) /\ Len(calls) = 1 /\ Tail(calls) = <<>>
  <2>1. IsSequence(calls) /\ calls # <<>> /\ Len(calls) \in Nat /\ DOMAIN calls = 1 .. Len(calls)
    BY DEF Stacked, IsSequence
  <2>2. Frame = calls[1] /\ 1 \in DOMAIN calls
    BY <2>1 DEF Frame, IsSequence
  <2>3. Len(calls) = 1
    BY <2>1, <2>2 DEF Stacked, IsInner, IsBottom
  <2>4. calls = <<calls[1]>>
    BY <2>1, <2>3, SingletonSequence DEF IsSequence
  <2>5. \A x : Tail(<<x>>) = <<>>
    OBVIOUS
  <2>6. Tail(calls) = <<>>
    BY <2>4, <2>5
  <2>7. QED
    BY <2>1, <2>3, <2>6
<1>2. \/ calls' = calls
      \/ calls' = <<Go("program")>> \o Tail(calls)
      \/ calls' = <<Go("statement"), Go("program_push")>> \o Tail(calls)
  BY DEF EnterMain, NextStatement, PushStatement, Do
<1>3. Stacked(<<Go("program")>>)
  <2>1. /\ <<Go("program")>> \in Seq({Go("program")}) /\ Len(<<Go("program")>>) = 1
        /\ DOMAIN <<Go("program")>> = {1} /\ <<Go("program")>>[1] = Go("program")
    OBVIOUS
  <2>2. IsBottom(Go("program"))
    BY DEF IsBottom, Bottoms, Go
  <2>3. QED
    BY <2>1, <2>2, SequenceOf DEF Stacked
<1>4. Stacked(<<Go("statement"), Go("program_push")>>)
  <2> DEFINE s == <<Go("program_push")>>
  <2>1. /\ s \in Seq({Go("program_push")}) /\ Len(s) = 1
        /\ DOMAIN s = {1} /\ s[1] = Go("program_push")
    OBVIOUS
  <2>2. IsBottom(Go("program_push")) /\ IsInner(Go("statement"))
    BY DEF IsBottom, IsInner, Bottoms, Places, Go
  <2>3. Stacked(s)
    BY <2>1, <2>2, SequenceOf DEF Stacked
  <2>4. <<Go("statement"), Go("program_push")>> = <<Go("statement")>> \o s
    OBVIOUS
  <2> HIDE DEF s
  <2>5. QED
    BY <2>2, <2>3, <2>4, OneMore
<1>5. /\ <<Go("program")>> \o <<>> = <<Go("program")>>
      /\ <<Go("statement"), Go("program_push")>> \o <<>> = <<Go("statement"), Go("program_push")>>
  OBVIOUS
<1>6. QED
  BY <1>1, <1>2, <1>3, <1>4, <1>5

\* The calls of an input: a step keeps the stack as it must be.
LEMMA StackStays == Stacked(calls) /\ Next => Stacked(calls')
<1> SUFFICES ASSUME Stacked(calls), Next PROVE Stacked(calls')
  OBVIOUS
<1>1. IsInner(Frame) \/ IsBottom(Frame)
  <2>1. Frame = calls[1] /\ 1 \in DOMAIN calls
    BY DEF Stacked, IsSequence, Frame
  <2>2. QED
    BY <2>1 DEF Stacked
<1>2. CASE EnterMain \/ NextStatement \/ PushStatement
  <2>1. Frame.go \in Bottoms
    BY <1>2 DEF EnterMain, NextStatement, PushStatement, Running, Bottoms
  <2>2. QED
    BY <1>1, <1>2, <2>1, StatementsStay DEF IsInner
<1>3. CASE ~(EnterMain \/ NextStatement \/ PushStatement)
  <2>1. Frame.go \notin Bottoms
    BY <1>3, ExpressionIsInner, ListIsInner, ConditionalIsInner, FunctionIsInner, StatementIsInner
    DEF Next, ParseExpression, ParseStatement
  <2>2. IsInner(Frame)
    BY <1>1, <2>1 DEF IsBottom
  <2>3. Calls
    BY <1>3, <2>2, ExpressionCalls, StatementCalls DEF Next
  <2>4. QED
    BY <2>2, <2>3, CallsKeep
<1>4. QED
  BY <1>2, <1>3

\* With it: no call returns past the statements of the input, and the values of TypeOK.
TypeInv ==
  /\ Stacked(calls)
  /\ phase \in Phases
  /\ IsSequence(body) /\ NULL \notin Range(body)
  /\ complained \in BOOLEAN
  /\ lapses \subseteq Lapses

LEMMA TypeInvHolds == Spec => []TypeInv
<1>1. Init => TypeInv
  <2> SUFFICES ASSUME Init PROVE TypeInv
    OBVIOUS
  <2>1. Stacked(calls)
    <3>1. /\ calls \in Seq({Go("main")}) /\ Len(calls) = 1
          /\ DOMAIN calls = {1} /\ calls[1] = Go("main")
      BY DEF Init
    <3>2. IsBottom(Go("main"))
      BY DEF IsBottom, Bottoms, Go
    <3>3. QED
      BY <3>1, <3>2, SequenceOf DEF Stacked
  <2>2. IsSequence(body) /\ NULL \notin Range(body)
    BY EmptyIsSequence DEF Init, Range
  <2>3. phase \in Phases /\ complained \in BOOLEAN /\ lapses \subseteq Lapses
    BY DEF Init, Phases
  <2>4. QED
    BY <2>1, <2>2, <2>3 DEF TypeInv
<1>2. TypeInv /\ [Next]_vars => TypeInv'
  <2> SUFFICES ASSUME TypeInv, [Next]_vars PROVE TypeInv'
    OBVIOUS
  <2>1. CASE Next
    <3>1. Stacked(calls')
      BY <2>1, StackStays DEF TypeInv
    <3>2. phase' \in Phases
      BY <2>1, StepScans DEF Scans
    <3>3. IsSequence(body') /\ NULL \notin Range(body')
      <4>1. body' = body \/ (value # NULL /\ body' = Append(body, value))
        BY <2>1, StepScans DEF Scans
      <4>2. IsSequence(body) /\ NULL \notin Range(body)
        BY DEF TypeInv
      <4>3. CASE value # NULL /\ body' = Append(body, value)
        <5>1. IsSequence(body') /\ Range(body') = Range(body) \cup {value}
          BY <4>2, <4>3, AppendIsSequence
        <5>2. QED
          BY <4>2, <4>3, <5>1
      <4>4. QED
        BY <4>1, <4>2, <4>3
    <3>4. complained' \in BOOLEAN /\ lapses' \subseteq Lapses
      BY <2>1, StepRemarks DEF Remarks, TypeInv
    <3>5. QED
      BY <3>1, <3>2, <3>3, <3>4 DEF TypeInv, Stacked
  <2>2. CASE UNCHANGED vars
    BY <2>2 DEF vars, TypeInv, Stacked
  <2>3. QED
    BY <2>1, <2>2
<1>3. QED
  BY <1>1, <1>2, PTL DEF Spec

\* The values of the variables, and the calls that may be under way (every step).
THEOREM ParserTypes == Spec => []TypeOK
<1>1. ScanInv /\ TypeInv => TypeOK
  <2> SUFFICES ASSUME ScanInv, TypeInv PROVE TypeOK
    OBVIOUS
  <2>1. at \in 0 .. End + 1
    <3>1. End \in Nat
      BY EndIsNatural DEF ScanInv
    <3>2. QED
      BY <3>1 DEF ScanInv
  <2>2. \A i \in DOMAIN calls : calls[i].go \in Places
    BY DEF TypeInv, Stacked, IsInner, IsBottom, Places, Bottoms
  <2>3. current = Last(tokens)
    BY DEF ScanInv, Last
  <2>4. QED
    BY <2>1, <2>2, <2>3 DEF TypeInv, TypeOK, Lapses
<1>2. QED
  BY <1>1, ScanInvHolds, TypeInvHolds, PTL

-----------------------------------------------------------------------------
(* What is read: undefined behaviour has a cause.  A call gives a kind of  *)
(* value, and the call below it takes one; of the text, only the last      *)
(* three tokens matter, and whether a match arm has begun.                 *)

\* The type of the k-th token; of the one that is read now, and of the two before it.
TypeIn(toks, k) == IF k \in DOMAIN toks THEN toks[k].type ELSE "START"
Now(toks) == TypeIn(toks, Len(toks))
Last1(toks) == TypeIn(toks, Len(toks) - 1)
Last2(toks) == TypeIn(toks, Len(toks) - 2)
HasBar(toks) == \E k \in DOMAIN toks : toks[k].type = "BAR"

\* An expression has ended before the token that is read now.
Ended(toks) ==
  \/ Last1(toks) \in OperandEnds
  \/ Last2(toks) = "RIGHT_BRACE"
  \/ Last1(toks) = "NL" /\ HasBar(toks)

\* A token that cannot follow the ones before it.
IsStray(toks, k) ==
  \/ /\ TypeIn(toks, k) = "IDENTIFIER"
     /\ \/ TypeIn(toks, k - 1) \in OperandEnds
        \/ TypeIn(toks, k - 2) = "RIGHT_BRACE"
        \/ TypeIn(toks, k - 1) = "NL" /\ \E j \in 1 .. k : TypeIn(toks, j) = "BAR"
  \/ TypeIn(toks, k - 1) = "LEFT_BRACE" /\ TypeIn(toks, k) \in {"NL", "RIGHT_BRACE"}
  \/ TypeIn(toks, k - 1) = "DOT" /\ TypeIn(toks, k) # "IDENTIFIER"

\* What excuses undefined behaviour, once a text has it.
Excused ==
  \/ complained \/ lapses # {} \/ Is("EOF")
  \/ \E k \in DOMAIN tokens : IsStray(tokens, k)

\* What a call gives, and what the call below it takes.
StatementPlaces ==
  {"statement", "let", "let_type", "let_name", "let_value", "assignment", "assigned", "extern",
   "extern_end", "named", "type", "type_name", "type_value", "type_is", "import", "import_end"}
PrototypePlaces == {"prototype", "parameters", "dots", "parameter", "result_type", "result_is"}
ClimbingPlaces == {"precedence", "skip", "prefix", "infix"}
ListPlaces == {"members", "member", "after_member"}
BlockPlaces == {"block", "push", "block_end"}

Gives(f) ==
  IF f.go \in ClimbingPlaces /\ f.prec = 11 THEN "name"
  ELSE IF f.go \in ListPlaces THEN "list"
  ELSE IF f.go = "body" THEN "body"
  ELSE IF f.go \in PrototypePlaces THEN "prototype"
  ELSE IF f.go \in StatementPlaces THEN "statement"
  ELSE "expression"

Takes(f) ==
  IF f.go = "binary" THEN IF f.op = "DOT" THEN "name" ELSE "expression"
  ELSE IF f.go = "infix" THEN IF f.prec = 11 THEN "nothing" ELSE "expression"
  ELSE IF f.go \in {"grouping", "array", "call", "index"} THEN "list"
  ELSE IF f.go \in {"otherwise", "conditional"} THEN "body"
  ELSE IF f.go \in {"function", "extern_end"} THEN "prototype"
  ELSE IF f.go = "push" THEN "statement"
  ELSE IF f.go \in {"type_is", "parameter", "field_end", "program_push"} THEN "anything"
  ELSE IF f.go \in {"unary", "member", "condition", "ternary", "candidate", "arm", "result_is",
                    "let_type", "let_value", "assigned", "named", "function_end"}
  THEN "expression"
  ELSE "nothing"

\* A value of one kind is taken as one of the other.
Suits(kind, wanted) ==
  \/ kind = wanted \/ wanted = "anything"
  \/ kind = "expression" /\ wanted \in {"body", "statement"}
Fits(f, g) == Suits(Gives(f), Takes(g))

IsTree(t) == "tag" \in DOMAIN t /\ t.tag # "NULL"
AreTrees(items) == IsSequence(items) /\ \A k \in DOMAIN items : IsTree(items[k])
IsList(t) == t = Tree(t.tag, t.word, t.kids) /\ t.tag \in {"TUPLE", "STRUCT"} /\ AreTrees(t.kids)

\* The value is of that kind.
Holds(kind, v, toks) ==
  /\ kind = "name" => v.tag = "IDENTIFIER" /\ Ended(toks)
  /\ kind = "expression" => IsTree(v) /\ Ended(toks)
  /\ kind = "list" => IsList(v) /\ Ended(toks)
  /\ kind = "body" => Ended(toks)
  /\ kind = "prototype" => IsTree(v)
  /\ kind = "statement" => IsTree(v) \/ (v = NULL /\ Now(toks) = "return")

\* What else is known where a call begins or goes on.
Begins(f, v, toks) ==
  /\ f.go \in ClimbingPlaces /\ f.prec = 11 =>
       /\ f.go # "skip"
       /\ f.go = "precedence" => Now(toks) = "IDENTIFIER"
       /\ f.go = "prefix" => Last1(toks) = "IDENTIFIER"
       /\ f.go = "infix" => Holds("name", v, toks)
  /\ f.go = "infix_rule" => Last1(toks) # "IDENTIFIER"
  /\ f.go = "block" /\ f.items = <<>> => Now(toks) \notin {"NL", "RIGHT_BRACE"}
  /\ f.go = "block_end" => Last1(toks) = "RIGHT_BRACE"
  /\ f.go = "arms" /\ f.items # <<>> => Ended(toks)
  /\ f.go = "body" => Ended(toks)

\* The locals of a call.
IsCall(f, toks) ==
  /\ f.go \in ClimbingPlaces => "prec" \in DOMAIN f /\ f.prec \in 1 .. 11
  /\ f.go \in {"infix_rule", "binary"} => "left" \in DOMAIN f /\ IsTree(f.left)
  /\ f.go \in ListPlaces \cup BlockPlaces => "items" \in DOMAIN f /\ AreTrees(f.items)
  /\ f.go \in ListPlaces => f.closer \in {"RP", "RIGHT_SQ"}
  /\ f.go = "block_end" => f.items # <<>>
  /\ f.go \in {"arms", "arm"} => "items" \in DOMAIN f
  /\ f.go = "arm" => HasBar(toks)
  /\ f.go = "arms" /\ f.items # <<>> => HasBar(toks)

\* Of all calls; of the call that goes on, with the value the last one returned.
Fitting(s, toks) ==
  /\ \A i \in DOMAIN s : IsCall(s[i], toks)
  /\ \A i \in DOMAIN s : i + 1 \in DOMAIN s => Fits(s[i], s[i + 1])
IsReady(s, v, toks) ==
  /\ Holds(Takes(Head(s)), v, toks)
  /\ Begins(Head(s), v, toks)
  /\ Head(s).go = "statement" /\ Head(Tail(s)).go = "push" => Now(toks) # "NL"
Sound(s, v, toks) == Fitting(s, toks) /\ IsReady(s, v, toks)

\* While nothing excuses it, every call gives what the one below takes, and the one that
\* goes on has it.
ReadInv ==
  /\ previous.type = Last1(tokens)
  /\ phase = "parse" => Excused \/ Sound(calls, value, tokens)
  /\ phase = "undefined" => Excused

-----------------------------------------------------------------------------
(* Tokens.                                                                 *)

LEMMA TokenAdded ==
  ASSUME NEW toks, IsSequence(toks), toks # <<>>, NEW t
  PROVE  LET more == Append(toks, t)
         IN  /\ \A k \in DOMAIN toks : k \in DOMAIN more
             /\ \A k \in Int : k <= Len(toks) => TypeIn(more, k) = TypeIn(toks, k)
             /\ Now(more) = t.type /\ Last1(more) = Now(toks) /\ Last2(more) = Last1(toks)
             /\ HasBar(toks) \/ t.type = "BAR" => HasBar(more)
             /\ \A k \in DOMAIN toks : IsStray(toks, k) => IsStray(more, k)
<1> DEFINE more == Append(toks, t)
<1>1. /\ IsSequence(more) /\ Len(toks) \in Nat \ {0} /\ Len(more) = Len(toks) + 1
      /\ more[Len(toks) + 1] = t /\ \A i \in DOMAIN toks : more[i] = toks[i]
      /\ DOMAIN toks = 1 .. Len(toks)
  BY AppendIsSequence DEF IsSequence
<1>2. DOMAIN more = 1 .. Len(toks) + 1
  BY <1>1 DEF IsSequence
<1> HIDE DEF more
<1>3. \A k \in Int : k <= Len(toks) => TypeIn(more, k) = TypeIn(toks, k)
  BY <1>1, <1>2 DEF TypeIn
<1>4. /\ Now(more) = t.type /\ Last1(more) = Now(toks) /\ Last2(more) = Last1(toks)
  <2>1. Now(more) = t.type
    BY <1>1, <1>2 DEF Now, TypeIn
  <2>2. Last1(more) = TypeIn(more, Len(toks)) /\ Last2(more) = TypeIn(more, Len(toks) - 1)
    BY <1>1 DEF Last1, Last2
  <2>3. QED
    BY <1>1, <1>3, <2>1, <2>2 DEF Now, Last1
<1>5. HasBar(toks) \/ t.type = "BAR" => HasBar(more)
  BY <1>1, <1>2 DEF HasBar
<1>6. ASSUME NEW k \in DOMAIN toks, IsStray(toks, k) PROVE IsStray(more, k)
  <2>1. /\ TypeIn(more, k) = TypeIn(toks, k) /\ TypeIn(more, k - 1) = TypeIn(toks, k - 1)
        /\ TypeIn(more, k - 2) = TypeIn(toks, k - 2)
        /\ \A j \in 1 .. k : TypeIn(more, j) = TypeIn(toks, j)
    BY <1>1, <1>3
  <2>2. QED
    BY <1>6, <2>1 DEF IsStray
<1>7. QED
  BY <1>1, <1>2, <1>3, <1>4, <1>5, <1>6 DEF more

\* What is known of the last tokens, when none is stray.
IsClear(toks) ==
  /\ Now(toks) # "EOF"
  /\ Ended(toks) => Now(toks) # "IDENTIFIER"
  /\ Last1(toks) = "DOT" => Now(toks) = "IDENTIFIER"
  /\ Last1(toks) = "LEFT_BRACE" => Now(toks) \notin {"NL", "RIGHT_BRACE"}
  /\ Now(toks) = "BAR" => HasBar(toks)

LEMMA LastIsClear ==
  ASSUME NEW toks, IsSequence(toks), toks # <<>>, Now(toks) # "EOF",
         \A k \in DOMAIN toks : ~IsStray(toks, k)
  PROVE  IsClear(toks)
<1>1. Len(toks) \in Nat \ {0} /\ DOMAIN toks = 1 .. Len(toks)
  BY DEF IsSequence
<1>2. ~IsStray(toks, Len(toks))
  BY <1>1
<1>3. HasBar(toks) => \E j \in 1 .. Len(toks) : TypeIn(toks, j) = "BAR"
  BY <1>1 DEF HasBar, TypeIn
<1>4. Now(toks) = "BAR" => HasBar(toks)
  BY <1>1 DEF HasBar, Now, TypeIn
<1>5. QED
  BY <1>2, <1>3, <1>4 DEF IsStray, IsClear, Ended, Now, Last1, Last2

-----------------------------------------------------------------------------
(* The stack.                                                              *)

\* A call goes on where another was.
Replaces(f, g) ==
  \/ Gives(f) = Gives(g)
  \/ Gives(f) = "expression" /\ Gives(g) \in {"body", "statement"}

LEMMA FitsReplaced ==
  ASSUME NEW f, NEW g, NEW h, Replaces(f, g), Fits(g, h)
  PROVE  Fits(f, h)
BY DEF Replaces, Fits, Suits, Gives, Takes

LEMMA KindsGiven ==
  ASSUME NEW f
  PROVE  Gives(f) \in {"name", "list", "body", "prototype", "statement", "expression"}
BY DEF Gives

\* Nothing more has to be known where a call goes on with a value.
LEMMA Resumed ==
  ASSUME NEW f, NEW g, Fits(f, g), NEW v, NEW toks, Holds(Gives(f), v, toks)
  PROVE  Holds(Takes(g), v, toks) /\ Begins(g, v, toks) /\ g.go # "statement"
<1>1. Takes(g) # "nothing"
  BY KindsGiven DEF Fits, Suits
<1>2. Begins(g, v, toks) /\ g.go # "statement"
  BY <1>1 DEF Takes, Begins, ClimbingPlaces
<1>3. Holds(Takes(g), v, toks)
  <2>1. Takes(g) = "anything" => Holds(Takes(g), v, toks)
    BY DEF Holds
  <2>2. Gives(f) = "expression" /\ Takes(g) \in {"body", "statement"} => Holds(Takes(g), v, toks)
    BY DEF Holds
  <2>3. QED
    BY <2>1, <2>2 DEF Fits, Suits
<1>4. QED
  BY <1>2, <1>3

LEMMA RestFits ==
  ASSUME NEW s, Stacked(s), IsInner(Head(s)), NEW toks, Fitting(s, toks),
         NEW more, HasBar(toks) => HasBar(more)
  PROVE  /\ Stacked(Tail(s)) /\ Fitting(Tail(s), more)
         /\ Fits(Head(s), Head(Tail(s)))
<1>1. Stacked(Tail(s))
  BY StackedRest
<1>2. /\ s \in Seq(Range(s)) /\ s # <<>> /\ Tail(s) \in Seq(Range(s)) /\ Tail(s) # <<>>
      /\ DOMAIN s = 1 .. Len(s) /\ Len(s) \in Nat \ {0} /\ Head(s) = s[1]
      /\ Len(Tail(s)) = Len(s) - 1 /\ DOMAIN Tail(s) = 1 .. Len(s) - 1
      /\ \A i \in 1 .. Len(s) - 1 : Tail(s)[i] = s[i + 1]
  BY <1>1 DEF Stacked, IsSequence
<1>3. Head(Tail(s)) = s[2] /\ 2 \in DOMAIN s
  <2>1. Head(Tail(s)) = Tail(s)[1]
    BY <1>1 DEF Stacked, IsSequence
  <2>2. Len(Tail(s)) # 0
    BY <1>1 DEF Stacked, IsSequence
  <2>3. QED
    BY <1>2, <2>1, <2>2
<1>4. Fits(Head(s), Head(Tail(s)))
  <2>1. 1 \in DOMAIN s /\ 1 + 1 \in DOMAIN s /\ s[1 + 1] = Head(Tail(s)) /\ s[1] = Head(s)
    BY <1>2, <1>3
  <2>2. Fits(s[1], s[1 + 1])
    BY <2>1 DEF Fitting
  <2>3. QED
    BY <2>1, <2>2
<1>5. \A f : IsCall(f, toks) => IsCall(f, more)
  BY DEF IsCall
<1>6. \A i \in DOMAIN Tail(s) : IsCall(Tail(s)[i], more)
  BY <1>2, <1>5 DEF Fitting
<1>7. ASSUME NEW i \in DOMAIN Tail(s), i + 1 \in DOMAIN Tail(s)
      PROVE  Fits(Tail(s)[i], Tail(s)[i + 1])
  <2>1. i + 1 \in DOMAIN s /\ (i + 1) + 1 \in DOMAIN s
    BY <1>2, <1>7
  <2>2. Tail(s)[i] = s[i + 1] /\ Tail(s)[i + 1] = s[(i + 1) + 1]
    BY <1>2, <1>7
  <2>3. QED
    BY <2>1, <2>2 DEF Fitting
<1>8. QED
  BY <1>1, <1>4, <1>6, <1>7 DEF Fitting

LEMMA OneMoreFits ==
  ASSUME NEW s, Stacked(s), NEW toks, Fitting(s, toks), NEW f, IsCall(f, toks), Fits(f, Head(s))
  PROVE  /\ Fitting(<<f>> \o s, toks)
         /\ Head(<<f>> \o s) = f /\ Tail(<<f>> \o s) = s
<1> DEFINE X == Range(s) \cup {f}
           t == <<f>> \o s
<1>1. s \in Seq(X) /\ f \in X /\ s # <<>>
  BY SeqMonotonic DEF Stacked, IsSequence
<1> HIDE DEF X
<1>2. /\ t \in Seq(X) /\ Len(t) = Len(s) + 1 /\ Len(s) \in Nat \ {0}
      /\ DOMAIN s = 1 .. Len(s) /\ DOMAIN t = 1 .. Len(s) + 1
      /\ t[1] = f /\ \A i \in 1 .. Len(s) : t[i + 1] = s[i]
      /\ Head(s) = s[1]
  BY <1>1
<1>3. Head(t) = f /\ Tail(t) = s
  BY <1>1
<1> HIDE DEF t
<1>4. ASSUME NEW i \in DOMAIN t PROVE IsCall(t[i], toks)
  <2>1. CASE i = 1
    BY <1>2, <2>1
  <2>2. CASE i # 1
    <3>1. i - 1 \in 1 .. Len(s) /\ (i - 1) + 1 = i
      BY <1>2, <2>2
    <3>2. t[i] = s[i - 1] /\ i - 1 \in DOMAIN s
      BY <1>2, <3>1
    <3>3. QED
      BY <3>2 DEF Fitting
  <2>3. QED
    BY <2>1, <2>2
<1>5. ASSUME NEW i \in DOMAIN t, i + 1 \in DOMAIN t PROVE Fits(t[i], t[i + 1])
  <2>1. CASE i = 1
    <3>1. t[i] = f /\ t[i + 1] = s[1]
      BY <1>2, <2>1
    <3>2. QED
      BY <1>2, <3>1
  <2>2. CASE i # 1
    <3>1. i - 1 \in 1 .. Len(s) /\ (i - 1) + 1 = i /\ i \in 1 .. Len(s)
      BY <1>2, <1>5, <2>2
    <3>2. t[i] = s[i - 1] /\ t[i + 1] = s[i] /\ i - 1 \in DOMAIN s /\ (i - 1) + 1 \in DOMAIN s
      BY <1>2, <3>1
    <3>3. Fits(s[i - 1], s[(i - 1) + 1])
      BY <3>2 DEF Fitting
    <3>4. QED
      BY <3>1, <3>2, <3>3
  <2>3. QED
    BY <2>1, <2>2
<1>6. Fitting(t, toks)
  BY <1>4, <1>5 DEF Fitting
<1>7. QED
  BY <1>3, <1>6 DEF t

\* What is known when a call takes a step: of the stack, and of the last tokens.
Under ==
  /\ Stacked(calls) /\ IsInner(Frame) /\ Fitting(calls, tokens)
  /\ HasBar(tokens) => HasBar(tokens')

LEMMA Returned ==
  ASSUME Under, NEW v, Return(v), Holds(Gives(Frame), v, tokens')
  PROVE  Sound(calls', value', tokens')
<1>1. /\ Fitting(Tail(calls), tokens') /\ Fits(Frame, Head(Tail(calls)))
  BY RestFits DEF Under, Frame
<1>2. calls' = Tail(calls) /\ value' = v
  BY DEF Return
<1>3. Holds(Takes(Head(calls')), v, tokens') /\ Begins(Head(calls'), v, tokens')
      /\ Head(calls').go # "statement"
  BY <1>1, <1>2, Resumed
<1>4. QED
  BY <1>1, <1>2, <1>3 DEF Sound, IsReady

LEMMA Replaced ==
  ASSUME Under, NEW f, IsInner(f), IsCall(f, tokens'), Replaces(f, Frame)
  PROVE  LET s == <<f>> \o Tail(calls)
         IN  Stacked(s) /\ Fitting(s, tokens') /\ Head(s) = f
<1>1. /\ Stacked(Tail(calls)) /\ Fitting(Tail(calls), tokens')
      /\ Fits(Frame, Head(Tail(calls)))
  BY RestFits DEF Under, Frame
<1>2. Fits(f, Head(Tail(calls)))
  BY <1>1, FitsReplaced
<1>3. QED
  BY <1>1, <1>2, OneMore, OneMoreFits

LEMMA PairFlat ==
  ASSUME NEW f, NEW g, NEW s, IsSequence(s)
  PROVE  <<f, g>> \o s = <<f>> \o (<<g>> \o s)
<1> DEFINE X == Range(s) \cup {f, g}
<1>1. s \in Seq(X) /\ f \in X /\ g \in X
  BY SeqMonotonic DEF IsSequence
<1> HIDE DEF X
<1>2. <<f>> \in Seq(X) /\ <<g>> \in Seq(X)
  BY <1>1
<1>3. <<f, g>> = <<f>> \o <<g>>
  <2> DEFINE t == <<f>> \o <<g>>
  <2>1. /\ t \in Seq(X) /\ Len(t) = 2 /\ t[1] = f /\ t[2] = g
    BY <1>2
  <2> HIDE DEF t
  <2>2. t = <<f, g>>
    BY <2>1
  <2>3. QED
    BY <2>2 DEF t
<1>4. QED
  BY <1>1, <1>2, <1>3, ConcatAssociative

LEMMA TripleFlat ==
  ASSUME NEW f, NEW g, NEW h, NEW s, IsSequence(s)
  PROVE  <<f, g, h>> \o s = <<f>> \o (<<g, h>> \o s)
<1> DEFINE X == Range(s) \cup {f, g, h}
<1>1. s \in Seq(X) /\ f \in X /\ g \in X /\ h \in X
  BY SeqMonotonic DEF IsSequence
<1> HIDE DEF X
<1>2. <<f>> \in Seq(X) /\ <<g, h>> \in Seq(X) /\ <<f, g, h>> = <<f>> \o <<g, h>>
  BY <1>1
<1>3. QED
  BY <1>1, <1>2, ConcatAssociative

LEMMA WentOn ==
  ASSUME Under, NEW v, NEW f, Give(v, f), f.go # "statement", IsInner(f), IsCall(f, tokens'),
         Replaces(f, Frame), Holds(Takes(f), v, tokens'), Begins(f, v, tokens')
  PROVE  Sound(calls', value', tokens')
<1>1. Fitting(calls', tokens') /\ Head(calls') = f /\ value' = v
  BY Replaced DEF Give
<1>2. QED
  BY <1>1 DEF Sound, IsReady

LEMMA Did ==
  ASSUME Under, NEW f, Do(<<f>>), f.go # "statement", IsInner(f), IsCall(f, tokens'),
         Replaces(f, Frame), Holds(Takes(f), value, tokens'), Begins(f, value, tokens')
  PROVE  Sound(calls', value', tokens')
<1>1. Fitting(calls', tokens') /\ Head(calls') = f /\ value' = value
  BY Replaced DEF Do
<1>2. QED
  BY <1>1 DEF Sound, IsReady

\* A call that begins takes no value.
LEMMA DidTwo ==
  ASSUME Under, NEW f, NEW g, Do(<<f, g>>), IsInner(f), IsInner(g), IsCall(f, tokens'),
         IsCall(g, tokens'), Fits(f, g), Replaces(g, Frame), Takes(f) = "nothing",
         Begins(f, value, tokens'), f.go = "statement" /\ g.go = "push" => Now(tokens') # "NL"
  PROVE  Sound(calls', value', tokens')
<1> DEFINE s == <<g>> \o Tail(calls)
<1>1. Stacked(s) /\ Fitting(s, tokens') /\ Head(s) = g
  BY Replaced
<1>2. Stacked(Tail(calls))
  BY RestFits DEF Under, Frame
<1>3. calls' = <<f>> \o s /\ value' = value
  BY <1>2, PairFlat DEF Do, Stacked
<1> HIDE DEF s
<1>4. Fitting(calls', tokens') /\ Head(calls') = f /\ Head(Tail(calls')) = g
  BY <1>1, <1>3, OneMoreFits
<1>5. Holds("nothing", value, tokens')
  BY DEF Holds
<1>6. QED
  BY <1>3, <1>4, <1>5 DEF Sound, IsReady

LEMMA DidThree ==
  ASSUME Under, NEW f, NEW g, NEW h, Do(<<f, g, h>>), IsInner(f), IsInner(g), IsInner(h),
         IsCall(f, tokens'), IsCall(g, tokens'), IsCall(h, tokens'), Fits(f, g), Fits(g, h),
         Replaces(h, Frame), Takes(f) = "nothing", Begins(f, value, tokens'),
         f.go # "statement"
  PROVE  Sound(calls', value', tokens')
<1> DEFINE s == <<h>> \o Tail(calls)
           t == <<g>> \o s
<1>1. Stacked(s) /\ Fitting(s, tokens') /\ Head(s) = h
  BY Replaced
<1>2. Stacked(Tail(calls))
  BY RestFits DEF Under, Frame
<1>3. <<g, h>> \o Tail(calls) = t /\ <<f, g, h>> \o Tail(calls) = <<f>> \o t
  <2>1. IsSequence(Tail(calls))
    BY <1>2 DEF Stacked
  <2>2. <<g, h>> \o Tail(calls) = <<g>> \o (<<h>> \o Tail(calls))
    BY <2>1, PairFlat
  <2>3. <<f, g, h>> \o Tail(calls) = <<f>> \o (<<g, h>> \o Tail(calls))
    BY <2>1, TripleFlat
  <2>4. QED
    BY <2>2, <2>3
<1>4. calls' = <<f>> \o t /\ value' = value
  BY <1>3 DEF Do
<1> HIDE DEF s
<1>5. Stacked(t) /\ Fitting(t, tokens') /\ Head(t) = g
  BY <1>1, OneMore, OneMoreFits
<1> HIDE DEF t
<1>6. Fitting(calls', tokens') /\ Head(calls') = f
  BY <1>4, <1>5, OneMoreFits
<1>7. Holds("nothing", value, tokens')
  BY DEF Holds
<1>8. QED
  BY <1>4, <1>6, <1>7 DEF Sound, IsReady

-----------------------------------------------------------------------------
(* Steps: what is known of a step of a call, when nothing excuses it.      *)

Reads ==
  /\ Under
  /\ IsCall(Frame, tokens) /\ Holds(Takes(Frame), value, tokens) /\ Begins(Frame, value, tokens)
  /\ Frame.go = "statement" /\ Head(Tail(calls)).go = "push" => Now(tokens) # "NL"
  /\ current.type = Now(tokens) /\ previous.type = Last1(tokens)
  /\ IsClear(tokens) /\ IsClear(tokens')
  /\ ~complained' /\ lapses' = {}
  /\ Advance => Last1(tokens') = Now(tokens) /\ Last2(tokens') = Last1(tokens)
SoundAfter == Sound(calls', value', tokens')

LEMMA ExpressionBegins ==
  ASSUME NEW n \in 1 .. 10, NEW v, NEW toks
  PROVE  /\ IsInner(Precedence(n)) /\ IsCall(Precedence(n), toks)
         /\ Gives(Precedence(n)) = "expression" /\ Takes(Precedence(n)) = "nothing"
         /\ Begins(Precedence(n), v, toks)
BY DEF Precedence, IsInner, Places, Bottoms, IsCall, Gives, Takes, Begins, ClimbingPlaces,
  ListPlaces, BlockPlaces, PrototypePlaces, StatementPlaces

LEMMA Looped ==
  ASSUME Reads, NEW types, Prefix(types), "IDENTIFIER" \notin types
  PROVE  /\ IsInner(Loop) /\ IsCall(Loop, tokens') /\ Loop.go # "statement"
         /\ Gives(Loop) = "expression" /\ Takes(Loop) = "expression" /\ Gives(Frame) = "expression"
         /\ \A v : Begins(Loop, v, tokens')
<1>1. Frame.go = "prefix" /\ Last1(tokens) # "IDENTIFIER"
  BY DEF Prefix, Running, Reads
<1>2. Frame.prec \in 1 .. 10
  BY <1>1 DEF Reads, IsCall, Begins, ClimbingPlaces
<1>3. QED
  BY <1>1, <1>2 DEF Loop, IsInner, Places, Bottoms, IsCall, Gives, Takes, Begins,
    ClimbingPlaces, ListPlaces, BlockPlaces, PrototypePlaces, StatementPlaces

LEMMA Moved ==
  ASSUME IsInner(Frame), NEW p, p \in Places, p \notin Bottoms
  PROVE  LET f == [Frame EXCEPT !.go = p]
         IN  /\ IsInner(f) /\ f.go = p /\ DOMAIN f = DOMAIN Frame
             /\ f.prec = Frame.prec /\ f.items = Frame.items /\ f.closer = Frame.closer
             /\ f.left = Frame.left /\ f.op = Frame.op
BY DEF IsInner

LEMMA Began ==
  ASSUME Under, NEW f, Do(<<f>>), f.go # "statement", IsInner(f), IsCall(f, tokens'),
         Replaces(f, Frame), Takes(f) = "nothing", Begins(f, value, tokens')
  PROVE  SoundAfter
<1>1. Holds("nothing", value, tokens')
  BY DEF Holds
<1>2. QED
  BY <1>1, Did DEF SoundAfter

\* The kinds, place by place.
ExpressionPlaces ==
  {"infix_rule", "binary", "unary", "grouping", "array", "call", "index", "block", "push",
   "block_end", "condition", "otherwise", "conditional", "ternary", "candidate", "arms", "arm",
   "function", "function_end", "fields", "field", "field_end"}
FreshPlaces ==
  {"precedence", "skip", "prefix", "infix_rule", "members", "after_member", "block", "block_end",
   "body", "arms", "prototype", "parameters", "dots", "result_type", "fields", "field",
   "statement", "let", "let_name", "assignment", "extern", "type", "type_name", "type_value",
   "import", "import_end"}
TakingPlaces ==
  {"unary", "member", "condition", "ternary", "candidate", "arm", "result_is", "let_type",
   "let_value", "assigned", "named", "function_end"}

LEMMA Given ==
  ASSUME NEW f
  PROVE  /\ f.go \in ExpressionPlaces => Gives(f) = "expression"
         /\ f.go \in ListPlaces => Gives(f) = "list"
         /\ f.go \in PrototypePlaces => Gives(f) = "prototype"
         /\ f.go \in StatementPlaces => Gives(f) = "statement"
BY DEF Gives, ExpressionPlaces, ClimbingPlaces, ListPlaces, PrototypePlaces, StatementPlaces

LEMMA Taken ==
  ASSUME NEW f
  PROVE  /\ f.go \in FreshPlaces => Takes(f) = "nothing"
         /\ f.go \in TakingPlaces => Takes(f) = "expression"
         /\ f.go \in {"grouping", "array", "call", "index"} => Takes(f) = "list"
         /\ f.go \in {"otherwise", "conditional"} => Takes(f) = "body"
         /\ f.go \in {"function", "extern_end"} => Takes(f) = "prototype"
         /\ f.go = "push" => Takes(f) = "statement"
         /\ f.go \in {"type_is", "parameter", "field_end", "program_push"} => Takes(f) = "anything"
BY DEF Takes, FreshPlaces, TakingPlaces

LEMMA TreesMade ==
  ASSUME NEW tag, NEW word, NEW kids, tag # "NULL"
  PROVE  IsTree(Tree(tag, word, kids))
BY DEF IsTree, Tree

\* An expression has ended, and its tree is given.
LEMMA ExpressionEnds ==
  ASSUME Reads, Takes(Frame) \in {"name", "expression", "list", "body"},
         Gives(Frame) = "expression", NEW t, IsTree(t), Return(t), Stay
  PROVE  SoundAfter
<1>1. Ended(tokens) /\ tokens' = tokens /\ Under
  BY DEF Reads, Holds, Stay
<1>2. QED
  BY <1>1, Returned DEF Holds, SoundAfter

LEMMA EnterPrecedenceReads == ASSUME Reads, EnterPrecedence PROVE SoundAfter
<1>1. ~Is("EOF")
  BY DEF Reads, IsClear, Is
<1>2. IsCall(Frame, tokens) /\ Frame.go \in {"precedence", "skip"} /\ Under /\ IsInner(Frame)
  BY DEF Reads, EnterPrecedence, Under
<1>3. ASSUME NEW p \in {"skip", "prefix"}
      PROVE  LET f == [Frame EXCEPT !.go = p]
             IN  /\ IsInner(f) /\ IsCall(f, tokens') /\ f.go # "statement" /\ f.go = p
                 /\ Replaces(f, Frame) /\ Takes(f) = "nothing" /\ f.prec = Frame.prec
  <2> DEFINE f == [Frame EXCEPT !.go = p]
  <2>1. IsInner(f) /\ f.go = p /\ DOMAIN f = DOMAIN Frame /\ f.prec = Frame.prec
    BY <1>2, Moved DEF Places, Bottoms
  <2> HIDE DEF f
  <2>2. IsCall(f, tokens') /\ Replaces(f, Frame) /\ Takes(f) = "nothing"
    BY <1>2, <2>1 DEF IsCall, Replaces, Gives, Takes, ClimbingPlaces, ListPlaces, BlockPlaces,
      PrototypePlaces, StatementPlaces
  <2>3. QED
    BY <2>1, <2>2 DEF f
<1>4. CASE Is("NL")
  <2> DEFINE f == [Frame EXCEPT !.go = "skip"]
  <2>1. Do(<<f>>) /\ Frame.prec # 11
    BY <1>1, <1>2, <1>4 DEF EnterPrecedence, Reads, Begins, ClimbingPlaces, Is
  <2>2. IsInner(f) /\ IsCall(f, tokens') /\ f.go # "statement" /\ f.go = "skip"
        /\ Replaces(f, Frame) /\ Takes(f) = "nothing" /\ f.prec = Frame.prec
    BY <1>3
  <2> HIDE DEF f
  <2>3. Begins(f, value, tokens')
    BY <2>1, <2>2 DEF Begins
  <2>4. QED
    BY <1>2, <2>1, <2>2, <2>3, Began
<1>5. CASE ~Is("NL")
  <2> DEFINE f == [Frame EXCEPT !.go = "prefix"]
  <2>1. Do(<<f>>) /\ Advance
    BY <1>1, <1>5 DEF EnterPrecedence
  <2>2. Frame.prec = 11 => Last1(tokens') = "IDENTIFIER"
    BY <2>1, <1>2 DEF Reads, Begins, ClimbingPlaces
  <2>3. IsInner(f) /\ IsCall(f, tokens') /\ f.go # "statement" /\ f.go = "prefix"
        /\ Replaces(f, Frame) /\ Takes(f) = "nothing" /\ f.prec = Frame.prec
    BY <1>3
  <2> HIDE DEF f
  <2>4. Begins(f, value, tokens')
    BY <2>2, <2>3 DEF Begins
  <2>5. QED
    BY <1>2, <2>1, <2>3, <2>4, Began
<1>6. QED
  BY <1>4, <1>5

LEMMA LiteralReads == ASSUME Reads, Literal PROVE SoundAfter
<1>1. /\ Frame.go = "prefix" /\ previous.type \in DOMAIN LiteralTags /\ Under /\ tokens' = tokens
      /\ IsCall(Frame, tokens) /\ Give(Leaf(previous), Loop)
  BY DEF Literal, Prefix, Running, Reads, Stay
<1>2. /\ Loop.go = "infix" /\ Loop.prec = Frame.prec /\ Frame.prec \in 1 .. 11 /\ IsInner(Loop)
      /\ IsCall(Loop, tokens') /\ Replaces(Loop, Frame)
  <2>1. /\ Loop.go = "infix" /\ Loop.prec = Frame.prec /\ Frame.prec \in 1 .. 11 /\ IsInner(Loop)
        /\ "prec" \in DOMAIN Loop
    BY <1>1 DEF Loop, IsInner, Places, Bottoms, IsCall, ClimbingPlaces
  <2>2. IsCall(Loop, tokens')
    BY <2>1 DEF IsCall, ListPlaces, BlockPlaces
  <2>3. Replaces(Loop, Frame)
    BY <1>1, <2>1 DEF Replaces, Gives, ClimbingPlaces, ListPlaces, PrototypePlaces,
      StatementPlaces
  <2>4. QED
    BY <2>1, <2>2, <2>3
<1>3. Ended(tokens')
  BY <1>1 DEF Reads, Ended, OperandEnds
<1>4. IsTree(Leaf(previous)) /\ (previous.type = "IDENTIFIER" => Leaf(previous).tag = "IDENTIFIER")
  BY <1>1 DEF Leaf, Tree, IsTree, LiteralTags
<1>5. Frame.prec = 11 => previous.type = "IDENTIFIER"
  BY <1>1 DEF Reads, Begins, ClimbingPlaces
<1>6. Holds(Takes(Loop), Leaf(previous), tokens') /\ Begins(Loop, Leaf(previous), tokens')
  BY <1>2, <1>3, <1>4, <1>5 DEF Takes, Holds, Begins
<1>7. QED
  BY <1>1, <1>2, <1>6, WentOn DEF SoundAfter

LEMMA UnaryReads == ASSUME Reads, parse_unary PROVE SoundAfter
<1>1. CASE Frame.go = "prefix"
  <2> DEFINE g == [go |-> "unary", op |-> previous.type]
  <2>1. Prefix({"MINUS", "BANG", "AMPERSAND"}) /\ Do(<<Precedence(9), g, Loop>>) /\ Under
    BY <1>1 DEF parse_unary, Running, Unary, Reads
  <2>2. /\ IsInner(Loop) /\ IsCall(Loop, tokens') /\ Gives(Loop) = "expression"
        /\ Takes(Loop) = "expression" /\ Gives(Frame) = "expression"
    BY <2>1, Looped
  <2>3. /\ IsInner(g) /\ IsCall(g, tokens') /\ Gives(g) = "expression" /\ Takes(g) = "expression"
    BY DEF IsInner, Places, Bottoms, IsCall, Gives, Takes, ClimbingPlaces, ListPlaces,
      BlockPlaces, PrototypePlaces, StatementPlaces
  <2>4. Precedence(9).go # "statement"
    BY DEF Precedence
  <2> HIDE DEF g
  <2>5. Fits(Precedence(9), g) /\ Fits(g, Loop) /\ Replaces(Loop, Frame)
    BY <2>2, <2>3, ExpressionBegins DEF Fits, Suits, Replaces
  <2>6. QED
    BY <2>1, <2>2, <2>3, <2>4, <2>5, ExpressionBegins, DidThree DEF SoundAfter
<1>2. CASE Frame.go # "prefix"
  <2> DEFINE t == Tree("UNOP", <<Frame.op>>, <<value>>)
  <2>1. Frame.go = "unary" /\ Return(t) /\ Stay
    BY <1>2 DEF parse_unary, Prefix, Running
  <2>2. Takes(Frame) = "expression" /\ Gives(Frame) = "expression"
    BY <2>1, Taken, Given DEF TakingPlaces, ExpressionPlaces
  <2>3. QED
    BY <2>1, <2>2, TreesMade, ExpressionEnds
<1>3. QED
  BY <1>1, <1>2

LEMMA InfixReads == ASSUME Reads, Infix PROVE SoundAfter
<1>1. Frame.go = "infix" /\ Under /\ IsCall(Frame, tokens) /\ Frame.prec \in 1 .. 11
  BY DEF Reads, Infix, Running, IsCall, ClimbingPlaces
<1>2. CASE Frame.prec <= Rule(current.type)
  <2> DEFINE f == [go |-> "infix_rule", left |-> value]
  <2>1. Do(<<f, Frame>>) /\ Advance
    BY <1>2 DEF Infix
  <2>2. Frame.prec # 11
    BY <1>1, <1>2 DEF Rule
  <2>3. IsTree(value) /\ Ended(tokens) /\ Takes(Frame) = "expression"
    BY <1>1, <2>2 DEF Reads, Takes, Holds
  <2>4. Last1(tokens') # "IDENTIFIER"
    BY <2>1, <2>3 DEF Reads, IsClear
  <2>5. f.go = "infix_rule" /\ f.left = value /\ IsInner(f) /\ "left" \in DOMAIN f
    BY DEF IsInner, Places, Bottoms
  <2> HIDE DEF f
  <2>6. Gives(f) = "expression" /\ Takes(f) = "nothing"
    BY <2>5, Taken, Given DEF FreshPlaces, ExpressionPlaces
  <2>7. IsCall(f, tokens') /\ Begins(f, value, tokens')
    BY <2>3, <2>4, <2>5 DEF IsCall, Begins, ClimbingPlaces, ListPlaces, BlockPlaces
  <2>8. IsCall(Frame, tokens') /\ IsInner(Frame) /\ Replaces(Frame, Frame)
    BY <1>1 DEF IsCall, Under, Replaces
  <2>9. QED
    BY <1>1, <2>1, <2>3, <2>5, <2>6, <2>7, <2>8, DidTwo DEF Fits, Suits, SoundAfter
<1>3. CASE ~(Frame.prec <= Rule(current.type))
  <2>1. Return(value) /\ tokens' = tokens
    BY <1>3 DEF Infix, Stay
  <2>2. CASE Frame.prec = 11
    <3>1. Gives(Frame) = "name" /\ Holds("name", value, tokens)
      BY <1>1, <2>2 DEF Gives, ClimbingPlaces, Reads, Begins
    <3>2. QED
      BY <1>1, <2>1, <3>1, Returned DEF SoundAfter
  <2>3. CASE Frame.prec # 11
    <3>1. Gives(Frame) = "expression" /\ Takes(Frame) = "expression"
      BY <1>1, <2>3 DEF Gives, Takes, ListPlaces, PrototypePlaces, StatementPlaces
    <3>2. QED
      BY <1>1, <2>1, <3>1, Returned DEF Reads, SoundAfter
  <2>4. QED
    BY <2>2, <2>3
<1>4. QED
  BY <1>2, <1>3

LEMMA NoInfixReads == Reads => ~NoInfix
BY DEF Reads, NoInfix, Running, Begins

LEMMA EnterBinaryReads == ASSUME Reads, EnterBinary PROVE SoundAfter
<1> DEFINE f == Precedence(Rule(previous.type) + 1)
           g == [go |-> "binary", op |-> previous.type, left |-> Frame.left]
<1>1. /\ Frame.go = "infix_rule" /\ previous.type \in BinaryOperators /\ Do(<<f, g>>)
      /\ tokens' = tokens /\ Under /\ IsTree(Frame.left)
  BY DEF Reads, EnterBinary, Running, Stay, IsCall
<1>2. /\ Rule(previous.type) + 1 \in 1 .. 11
      /\ Rule(previous.type) + 1 = 11 <=> previous.type = "DOT"
  BY <1>1 DEF Rule, BinaryOperators
<1>3. f.go = "precedence" /\ f.prec = Rule(previous.type) + 1 /\ IsInner(f) /\ "prec" \in DOMAIN f
  BY DEF Precedence, IsInner, Places, Bottoms
<1>4. g.go = "binary" /\ g.left = Frame.left /\ g.op = previous.type /\ IsInner(g)
      /\ "left" \in DOMAIN g
  BY DEF IsInner, Places, Bottoms
<1> HIDE DEF f, g
<1>5. IsCall(f, tokens') /\ IsCall(g, tokens')
  BY <1>1, <1>2, <1>3, <1>4 DEF IsCall, ClimbingPlaces, ListPlaces, BlockPlaces
<1>6. previous.type = "DOT" => Now(tokens') = "IDENTIFIER"
  BY <1>1 DEF Reads, IsClear
<1>7. Begins(f, value, tokens')
  BY <1>2, <1>3, <1>6 DEF Begins
<1>8. Takes(f) = "nothing" /\ Replaces(g, Frame)
  BY <1>1, <1>3, <1>4, Taken, Given DEF Replaces, FreshPlaces, ExpressionPlaces
<1>9. Fits(f, g)
  BY <1>2, <1>3, <1>4 DEF Fits, Suits, Gives, Takes, ClimbingPlaces, ListPlaces,
    PrototypePlaces, StatementPlaces
<1>10. QED
  BY <1>1, <1>3, <1>4, <1>5, <1>7, <1>8, <1>9, DidTwo DEF SoundAfter

LEMMA OperatorReads == ASSUME Reads, Operator PROVE SoundAfter
<1> DEFINE t == Tree("BINOP", <<Frame.op>>, <<Frame.left, value>>)
<1>1. Frame.go = "binary" /\ Frame.op # "DOT" /\ Return(t) /\ Stay
  BY DEF Operator, Binary, Running
<1>2. Takes(Frame) = "expression" /\ Gives(Frame) = "expression"
  BY <1>1, Given DEF Takes, ExpressionPlaces
<1>3. QED
  BY <1>1, <1>2, TreesMade, ExpressionEnds

LEMMA MemberReads == ASSUME Reads, Member PROVE SoundAfter
<1>1. Frame.go = "binary" /\ Frame.op = "DOT" /\ Takes(Frame) = "name" /\ Gives(Frame) = "expression"
  <2>1. Frame.go = "binary" /\ Frame.op = "DOT"
    BY DEF Member, Binary, Running
  <2>2. QED
    BY <2>1, Given DEF Takes, ExpressionPlaces
<1>2. value.tag = "IDENTIFIER" /\ CanBeCopied(value)
  BY <1>1 DEF Reads, Holds, CanBeCopied, NamedTags
<1>3. Return(Tree("MEMBER_ACCESS", NameIn(value), <<Frame.left>>)) /\ Stay
  BY <1>2 DEF Member
<1>4. QED
  BY <1>1, <1>3, TreesMade, ExpressionEnds

LEMMA AssignReads == ASSUME Reads, Assign PROVE SoundAfter
<1>1. Frame.go = "binary" /\ Takes(Frame) = "expression" /\ Gives(Frame) = "expression"
  <2>1. Frame.go = "binary" /\ Frame.op = "ASSIGNMENT"
    BY DEF Assign, Binary, Running
  <2>2. QED
    BY <2>1, Given DEF Takes, ExpressionPlaces
<1>2. Frame.left # NULL
  BY <1>1 DEF Reads, IsCall, IsTree, NULL, Tree
<1>3. PICK t : IsTree(t) /\ Return(t)
  BY <1>2, TreesMade DEF Assign
<1>4. Stay
  BY <1>2 DEF Assign
<1>5. QED
  BY <1>1, <1>3, <1>4, ExpressionEnds

\* A list: its calls, and what it gives.
LEMMA TreesAdded ==
  ASSUME NEW items, AreTrees(items), NEW t, IsTree(t)
  PROVE  AreTrees(Append(items, t)) /\ Append(items, t) # <<>>
<1>1. /\ IsSequence(Append(items, t)) /\ Len(items) \in Nat
      /\ Len(Append(items, t)) = Len(items) + 1
      /\ Append(items, t)[Len(items) + 1] = t
      /\ \A i \in DOMAIN items : Append(items, t)[i] = items[i]
      /\ DOMAIN items = 1 .. Len(items)
  BY AppendIsSequence DEF AreTrees, IsSequence
<1>2. DOMAIN Append(items, t) = 1 .. Len(items) + 1
  BY <1>1 DEF IsSequence
<1>3. \A k \in DOMAIN Append(items, t) : IsTree(Append(items, t)[k])
  BY <1>1, <1>2 DEF AreTrees
<1>4. Len(<<>>) = 0
  OBVIOUS
<1>5. QED
  BY <1>1, <1>3, <1>4 DEF AreTrees

LEMMA TreeIsNotNull == ASSUME NEW t, IsTree(t) PROVE t # NULL
BY DEF IsTree, NULL, Tree

LEMMA SingleOfList ==
  ASSUME NEW t, t.tag # "NULL", "tag" \in DOMAIN t, AreTrees(t.kids)
  PROVE  IsTree(Single(t))
<1>1. CASE Len(t.kids) = 1
  <2>1. 1 \in DOMAIN t.kids
    BY <1>1 DEF AreTrees, IsSequence
  <2>2. QED
    BY <1>1, <2>1 DEF Single, AreTrees
<1>2. CASE Len(t.kids) # 1
  BY <1>2 DEF Single, IsTree
<1>3. QED
  BY <1>1, <1>2

LEMMA AListIsATree ==
  ASSUME NEW t, IsList(t)
  PROVE  IsTree(t) /\ AreTrees(t.kids) /\ IsTree(Single(t))
<1>1. "tag" \in DOMAIN t /\ t.tag # "NULL" /\ AreTrees(t.kids)
  BY DEF IsList, Tree
<1>2. QED
  BY <1>1, SingleOfList DEF IsTree

LEMMA MembersBegin ==
  ASSUME NEW closer \in {"RP", "RIGHT_SQ"}, NEW lines, NEW v, NEW toks
  PROVE  LET f == Members(closer, lines)
         IN  /\ IsInner(f) /\ IsCall(f, toks) /\ Gives(f) = "list" /\ Takes(f) = "nothing"
             /\ Begins(f, v, toks) /\ f.go # "statement"
<1> DEFINE f == Members(closer, lines)
<1>1. f.go = "members" /\ f.items = <<>> /\ f.closer = closer
      /\ DOMAIN f = {"go", "closer", "lines", "items"}
  BY DEF Members
<1>2. AreTrees(<<>>)
  BY EmptyIsSequence DEF AreTrees
<1> HIDE DEF f
<1>3. IsInner(f) /\ IsCall(f, toks)
  BY <1>1, <1>2 DEF IsInner, Places, Bottoms, IsCall, ClimbingPlaces, ListPlaces, BlockPlaces
<1>4. Gives(f) = "list" /\ Takes(f) = "nothing" /\ Begins(f, v, toks)
  BY <1>1, Given, Taken DEF Begins, ClimbingPlaces, ListPlaces, FreshPlaces
<1>5. QED
  BY <1>1, <1>3, <1>4 DEF f

\* A member call goes on at another place of the list.
LEMMA ListGoesOn ==
  ASSUME Reads, Frame.go \in ListPlaces, NEW f, f.go \in ListPlaces, "go" \in DOMAIN f,
         "items" \in DOMAIN f, AreTrees(f.items), f.closer = Frame.closer
  PROVE  IsInner(f) /\ IsCall(f, tokens') /\ Gives(f) = "list" /\ Replaces(f, Frame)
<1>1. f.closer \in {"RP", "RIGHT_SQ"}
  BY DEF Reads, IsCall
<1>2. IsInner(f) /\ IsCall(f, tokens')
  BY <1>1 DEF IsInner, Places, Bottoms, IsCall, ClimbingPlaces, ListPlaces, BlockPlaces
<1>3. QED
  BY <1>2, Given DEF Replaces

LEMMA NextMemberReads == ASSUME Reads, NextMember PROVE SoundAfter
<1>1. /\ Frame.go = "members" /\ Under /\ IsInner(Frame) /\ "items" \in DOMAIN Frame
      /\ AreTrees(Frame.items) /\ Frame.closer \in {"RP", "RIGHT_SQ"}
  BY DEF Reads, NextMember, Running, IsCall, ListPlaces, Under
<1>2. CASE Is(Frame.closer)
  <2> DEFINE t == Listed(Frame.closer, Frame.items)
  <2>1. Return(t) /\ Advance
    BY <1>2 DEF NextMember
  <2>2. IsList(t)
    BY <1>1 DEF IsList, Listed, Tree
  <2>3. Ended(tokens')
    BY <1>1, <1>2, <2>1 DEF Reads, Ended, OperandEnds, Is
  <2> HIDE DEF t
  <2>4. Gives(Frame) = "list"
    BY <1>1, Given DEF ListPlaces
  <2>5. QED
    BY <1>1, <2>1, <2>2, <2>3, <2>4, Returned DEF Holds, SoundAfter
<1>3. CASE ~Is(Frame.closer)
  <2> DEFINE g == [Frame EXCEPT !.go = "member"]
  <2>1. Do(<<Precedence(1), g>>)
    BY <1>3 DEF NextMember, Expression
  <2>2. IsInner(g) /\ g.go = "member" /\ "items" \in DOMAIN g /\ g.items = Frame.items
        /\ g.closer = Frame.closer
    BY <1>1, Moved DEF Places, Bottoms
  <2> HIDE DEF g
  <2>3. IsCall(g, tokens') /\ Replaces(g, Frame)
    BY <1>1, <2>2, ListGoesOn DEF ListPlaces, IsInner
  <2>4. Fits(Precedence(1), g) /\ Precedence(1).go # "statement"
    BY <2>2, ExpressionBegins, Taken DEF Fits, Suits, TakingPlaces, Precedence
  <2>5. QED
    BY <1>1, <2>1, <2>2, <2>3, <2>4, ExpressionBegins, DidTwo DEF SoundAfter
<1>4. QED
  BY <1>2, <1>3

LEMMA EndMemberReads == ASSUME Reads, EndMember PROVE SoundAfter
<1> DEFINE f == With(Collected, "after_member")
<1>1. /\ Frame.go = "member" /\ Under /\ IsInner(Frame) /\ "items" \in DOMAIN Frame
      /\ AreTrees(Frame.items) /\ Do(<<f>>)
  BY DEF Reads, EndMember, Running, IsCall, ListPlaces, Under
<1>2. IsTree(value)
  BY <1>1, Taken DEF Reads, Holds, TakingPlaces
<1>3. AreTrees(Collected)
  BY <1>1, <1>2, TreesAdded, TreeIsNotNull DEF Collected
<1>4. /\ f.go = "after_member" /\ f.items = Collected /\ f.closer = Frame.closer
      /\ DOMAIN f = DOMAIN Frame
  BY <1>1 DEF With, IsInner
<1> HIDE DEF f
<1>5. IsInner(f) /\ IsCall(f, tokens') /\ Replaces(f, Frame)
  BY <1>1, <1>3, <1>4, ListGoesOn DEF ListPlaces, IsInner
<1>6. Takes(f) = "nothing" /\ Begins(f, value, tokens')
  BY <1>4, Taken DEF FreshPlaces, Begins, ClimbingPlaces
<1>7. QED
  BY <1>1, <1>4, <1>5, <1>6, Began

LEMMA AfterMemberReads == ASSUME Reads, AfterMember PROVE SoundAfter
<1> DEFINE f == [Frame EXCEPT !.go = "members"]
<1>1. /\ Frame.go = "after_member" /\ Under /\ IsInner(Frame) /\ "items" \in DOMAIN Frame
      /\ AreTrees(Frame.items) /\ Do(<<f>>)
  BY DEF Reads, AfterMember, Running, IsCall, ListPlaces, Under
<1>2. IsInner(f) /\ f.go = "members" /\ DOMAIN f = DOMAIN Frame /\ f.items = Frame.items
      /\ f.closer = Frame.closer
  BY <1>1, Moved DEF Places, Bottoms
<1> HIDE DEF f
<1>3. IsInner(f) /\ IsCall(f, tokens') /\ Replaces(f, Frame)
  BY <1>1, <1>2, ListGoesOn DEF ListPlaces, IsInner
<1>4. Takes(f) = "nothing" /\ Begins(f, value, tokens')
  BY <1>2, Taken DEF FreshPlaces, Begins, ClimbingPlaces
<1>5. QED
  BY <1>1, <1>2, <1>3, <1>4, Began

\* Of a call without locals that matter.
LEMMA PlainCall ==
  ASSUME NEW f, NEW toks, "go" \in DOMAIN f, f.go \in Places \ Bottoms,
         f.go \notin ClimbingPlaces \cup ListPlaces \cup BlockPlaces
           \cup {"infix_rule", "binary", "arms", "arm"}
  PROVE  IsInner(f) /\ IsCall(f, toks)
BY DEF IsInner, IsCall, BlockPlaces

\* The bracket that opens a list as an operand: its members, the operand, the loop.
LEMMA ListOpens ==
  ASSUME Reads, NEW types, Prefix(types), "IDENTIFIER" \notin types,
         NEW closer \in {"RP", "RIGHT_SQ"}, NEW p \in {"grouping", "array"},
         Do(<<Members(closer, TRUE), Go(p), Loop>>)
  PROVE  SoundAfter
<1>1. Go(p).go = p /\ "go" \in DOMAIN Go(p)
  BY DEF Go
<1>2. IsInner(Go(p)) /\ IsCall(Go(p), tokens')
  BY <1>1, PlainCall DEF Places, Bottoms, ClimbingPlaces, ListPlaces, BlockPlaces
<1>3. Gives(Go(p)) = "expression" /\ Takes(Go(p)) = "list"
  BY <1>1, Given, Taken DEF ExpressionPlaces
<1>4. /\ IsInner(Loop) /\ IsCall(Loop, tokens') /\ Gives(Loop) = "expression"
      /\ Takes(Loop) = "expression" /\ Gives(Frame) = "expression" /\ Under
  BY Looped DEF Reads
<1>5. Fits(Members(closer, TRUE), Go(p)) /\ Fits(Go(p), Loop) /\ Replaces(Loop, Frame)
  BY <1>3, <1>4, MembersBegin DEF Fits, Suits, Replaces
<1>6. QED
  BY <1>2, <1>4, <1>5, MembersBegin, DidThree DEF SoundAfter

LEMMA GroupingReads == ASSUME Reads, parse_grouping PROVE SoundAfter
<1>1. CASE Frame.go = "prefix"
  <2>1. Prefix({"LP"}) /\ Do(<<Members("RP", TRUE), Go("grouping"), Loop>>)
    BY <1>1 DEF parse_grouping, Running
  <2>2. QED
    BY <2>1, ListOpens
<1>2. CASE Frame.go # "prefix"
  <2>1. Frame.go = "grouping" /\ Return(Single(value)) /\ Stay
    BY <1>2 DEF parse_grouping, Prefix, Running
  <2>2. Takes(Frame) = "list" /\ Gives(Frame) = "expression"
    BY <2>1, Taken, Given DEF ExpressionPlaces
  <2>3. IsTree(Single(value))
    BY <2>2, AListIsATree DEF Reads, Holds
  <2>4. QED
    BY <2>1, <2>2, <2>3, ExpressionEnds
<1>3. QED
  BY <1>1, <1>2

LEMMA ArrayReads == ASSUME Reads, parse_array PROVE SoundAfter
<1>1. CASE Frame.go = "prefix"
  <2>1. Prefix({"LEFT_SQ"}) /\ Do(<<Members("RIGHT_SQ", TRUE), Go("array"), Loop>>)
    BY <1>1 DEF parse_array, Running
  <2>2. QED
    BY <2>1, ListOpens
<1>2. CASE Frame.go # "prefix"
  <2>1. Frame.go = "array" /\ Return([value EXCEPT !.tag = "ARRAY"]) /\ Stay
    BY <1>2 DEF parse_array, Prefix, Running
  <2>2. Takes(Frame) = "list" /\ Gives(Frame) = "expression"
    BY <2>1, Taken, Given DEF ExpressionPlaces
  <2>3. IsTree([value EXCEPT !.tag = "ARRAY"])
    <3>1. IsTree(value)
      BY <2>2, AListIsATree DEF Reads, Holds
    <3>2. QED
      BY <3>1 DEF IsTree
  <2>4. QED
    BY <2>1, <2>2, <2>3, ExpressionEnds
<1>3. QED
  BY <1>1, <1>2

\* A list after an operand: its members, then the call or the access.
LEMMA OperandGoesOn ==
  ASSUME Reads, Frame.go = "infix_rule", NEW closer \in {"RP", "RIGHT_SQ"}, NEW lines,
         NEW p \in {"call", "index"}, Do(<<Members(closer, lines), [Frame EXCEPT !.go = p]>>)
  PROVE  SoundAfter
<1> DEFINE g == [Frame EXCEPT !.go = p]
<1>1. Under /\ IsInner(Frame)
  BY DEF Reads, Under
<1>2. IsInner(g) /\ g.go = p
  BY <1>1, Moved DEF Places, Bottoms
<1> HIDE DEF g
<1>3. IsCall(g, tokens') /\ Gives(g) = "expression" /\ Takes(g) = "list" /\ Gives(Frame) = "expression"
  BY <1>2, PlainCall, Given, Taken
  DEF IsInner, ClimbingPlaces, ListPlaces, BlockPlaces, ExpressionPlaces
<1>4. Fits(Members(closer, lines), g) /\ Replaces(g, Frame) /\ Do(<<Members(closer, lines), g>>)
  BY <1>3, MembersBegin DEF Fits, Suits, Replaces, g
<1>5. QED
  BY <1>1, <1>2, <1>3, <1>4, MembersBegin, DidTwo DEF SoundAfter

LEMMA CallReads == ASSUME Reads, parse_call PROVE SoundAfter
<1>1. CASE Frame.go = "infix_rule"
  BY <1>1, OperandGoesOn DEF parse_call, Running
<1>2. CASE Frame.go # "infix_rule"
  <2>1. Frame.go = "call" /\ Return(Tree("CALL", <<>>, <<Frame.left, value>>)) /\ Stay
    BY <1>2 DEF parse_call, Running
  <2>2. Takes(Frame) = "list" /\ Gives(Frame) = "expression"
    BY <2>1, Taken, Given DEF ExpressionPlaces
  <2>3. QED
    BY <2>1, <2>2, TreesMade, ExpressionEnds
<1>3. QED
  BY <1>1, <1>2

LEMMA IndexReads == ASSUME Reads, parse_index_access PROVE SoundAfter
<1>1. CASE Frame.go = "infix_rule"
  BY <1>1, OperandGoesOn DEF parse_index_access, Running
<1>2. CASE Frame.go # "infix_rule"
  <2>1. Frame.go = "index" /\ Stay
        /\ Return(Tree("INDEX_ACCESS", <<>>, <<Frame.left, Single(value)>>))
    BY <1>2 DEF parse_index_access, Running
  <2>2. Takes(Frame) = "list" /\ Gives(Frame) = "expression"
    BY <2>1, Taken, Given DEF ExpressionPlaces
  <2>3. QED
    BY <2>1, <2>2, TreesMade, ExpressionEnds
<1>3. QED
  BY <1>1, <1>2

\* A block begins right after its brace.
LEMMA BlockBegins ==
  ASSUME NEW v, NEW toks, IsClear(toks), Last1(toks) = "LEFT_BRACE"
  PROVE  /\ IsInner(Block) /\ IsCall(Block, toks) /\ Gives(Block) = "expression"
         /\ Takes(Block) = "nothing" /\ Begins(Block, v, toks) /\ Block.go # "statement"
<1>1. Block.go = "block" /\ Block.items = <<>> /\ DOMAIN Block = {"go", "items"}
  BY DEF Block
<1>2. AreTrees(<<>>)
  BY EmptyIsSequence DEF AreTrees
<1>3. IsInner(Block) /\ IsCall(Block, toks)
  BY <1>1, <1>2 DEF IsInner, Places, Bottoms, IsCall, ClimbingPlaces, ListPlaces, BlockPlaces
<1>4. Gives(Block) = "expression" /\ Takes(Block) = "nothing"
  BY <1>1, Given, Taken DEF ExpressionPlaces, FreshPlaces
<1>5. Begins(Block, v, toks)
  BY <1>1 DEF Begins, ClimbingPlaces, IsClear
<1>6. QED
  BY <1>1, <1>3, <1>4, <1>5

\* Another place of a block.
LEMMA BlockGoesOn ==
  ASSUME Reads, Frame.go \in BlockPlaces, NEW f, f.go \in BlockPlaces, "go" \in DOMAIN f,
         "items" \in DOMAIN f, AreTrees(f.items), f.go = "block_end" => f.items # <<>>
  PROVE  IsInner(f) /\ IsCall(f, tokens') /\ Gives(f) = "expression" /\ Replaces(f, Frame)
<1>1. IsInner(f) /\ IsCall(f, tokens')
  BY DEF IsInner, Places, Bottoms, IsCall, ClimbingPlaces, ListPlaces, BlockPlaces
<1>2. Gives(f) = "expression" /\ Gives(Frame) = "expression"
  BY Given DEF ExpressionPlaces, BlockPlaces
<1>3. QED
  BY <1>1, <1>2 DEF Replaces

LEMMA NextInBlockReads == ASSUME Reads, NextInBlock PROVE SoundAfter
<1>1. /\ Frame.go = "block" /\ Under /\ IsInner(Frame) /\ "items" \in DOMAIN Frame
      /\ AreTrees(Frame.items) /\ "go" \in DOMAIN Frame
      /\ Frame.items = <<>> => Now(tokens) \notin {"NL", "RIGHT_BRACE"}
  BY DEF Reads, NextInBlock, Running, IsCall, BlockPlaces, Under, IsInner, Begins
<1>2. ~Is("EOF") /\ current.type = Now(tokens)
  BY DEF Reads, IsClear, Is
<1>3. CASE Is("RIGHT_BRACE")
  <2> DEFINE f == [Frame EXCEPT !.go = "block_end"]
  <2>1. Do(<<f>>) /\ Advance
    BY <1>3 DEF NextInBlock, Is
  <2>2. f.go = "block_end" /\ f.items = Frame.items /\ DOMAIN f = DOMAIN Frame
    BY <1>1, Moved DEF Places, Bottoms
  <2> HIDE DEF f
  <2>3. Frame.items # <<>> /\ Last1(tokens') = "RIGHT_BRACE"
    BY <1>1, <1>2, <1>3, <2>1 DEF Is, Reads
  <2>4. IsInner(f) /\ IsCall(f, tokens') /\ Replaces(f, Frame)
    BY <1>1, <2>2, <2>3, BlockGoesOn DEF BlockPlaces
  <2>5. Takes(f) = "nothing" /\ Begins(f, value, tokens')
    BY <2>2, <2>3, Taken DEF FreshPlaces, Begins, ClimbingPlaces
  <2>6. QED
    BY <1>1, <2>1, <2>2, <2>4, <2>5, Began
<1>4. CASE Is("NL")
  <2>1. Do(<<Frame>>)
    BY <1>4 DEF NextInBlock, Is
  <2>2. Frame.items # <<>>
    BY <1>1, <1>2, <1>4 DEF Is
  <2>3. IsCall(Frame, tokens') /\ Replaces(Frame, Frame)
    BY <1>1, BlockGoesOn DEF BlockPlaces
  <2>4. Takes(Frame) = "nothing" /\ Begins(Frame, value, tokens')
    BY <1>1, <2>2, Taken DEF FreshPlaces, Begins, ClimbingPlaces
  <2>5. QED
    BY <1>1, <2>1, <2>3, <2>4, Began
<1>5. CASE ~Is("RIGHT_BRACE") /\ ~Is("NL")
  <2> DEFINE g == [Frame EXCEPT !.go = "push"]
             f == Go("statement")
  <2>1. Do(<<f, g>>) /\ tokens' = tokens
    BY <1>2, <1>5 DEF NextInBlock, Stay
  <2>2. g.go = "push" /\ g.items = Frame.items /\ DOMAIN g = DOMAIN Frame
    BY <1>1, Moved DEF Places, Bottoms
  <2>3. f.go = "statement" /\ "go" \in DOMAIN f
    BY DEF Go
  <2> HIDE DEF f, g
  <2>4. IsInner(g) /\ IsCall(g, tokens') /\ Replaces(g, Frame)
    BY <1>1, <2>2, BlockGoesOn DEF BlockPlaces
  <2>5. IsInner(f) /\ IsCall(f, tokens')
    BY <2>3, PlainCall DEF Places, Bottoms, ClimbingPlaces, ListPlaces, BlockPlaces
  <2>6. Takes(f) = "nothing" /\ Begins(f, value, tokens') /\ Fits(f, g)
    BY <2>2, <2>3, Taken, Given DEF FreshPlaces, Begins, ClimbingPlaces, StatementPlaces, Fits,
      Suits
  <2>7. Now(tokens') # "NL"
    BY <1>2, <1>5, <2>1 DEF Is
  <2>8. QED
    BY <1>1, <2>1, <2>4, <2>5, <2>6, <2>7, DidTwo DEF SoundAfter
<1>6. QED
  BY <1>3, <1>4, <1>5

LEMMA PushReads == ASSUME Reads, Push PROVE SoundAfter
<1> DEFINE f == With(Collected, "block")
<1>1. /\ Frame.go = "push" /\ Under /\ IsInner(Frame) /\ "items" \in DOMAIN Frame
      /\ AreTrees(Frame.items) /\ "go" \in DOMAIN Frame /\ Do(<<f>>) /\ tokens' = tokens
  BY DEF Reads, Push, Running, IsCall, BlockPlaces, Under, IsInner, Stay
<1>2. IsTree(value) \/ (value = NULL /\ Now(tokens) = "return")
  BY <1>1, Taken DEF Reads, Holds
<1>3. AreTrees(Collected) /\ (Collected = <<>> => Now(tokens) = "return")
  BY <1>1, <1>2, TreesAdded, TreeIsNotNull DEF Collected
<1>4. f.go = "block" /\ f.items = Collected /\ DOMAIN f = DOMAIN Frame
  BY <1>1 DEF With
<1> HIDE DEF f
<1>5. IsInner(f) /\ IsCall(f, tokens') /\ Replaces(f, Frame)
  BY <1>1, <1>3, <1>4, BlockGoesOn DEF BlockPlaces
<1>6. Takes(f) = "nothing" /\ Begins(f, value, tokens')
  BY <1>1, <1>3, <1>4, Taken DEF FreshPlaces, Begins, ClimbingPlaces
<1>7. QED
  BY <1>1, <1>4, <1>5, <1>6, Began

LEMMA EndBlockReads == ASSUME Reads, EndBlock PROVE SoundAfter
<1>1. /\ Frame.go = "block_end" /\ Under /\ Frame.items # <<>> /\ AreTrees(Frame.items)
      /\ Last1(tokens) = "RIGHT_BRACE" /\ Gives(Frame) = "expression"
  BY Given DEF Reads, EndBlock, Running, IsCall, BlockPlaces, Begins, ExpressionPlaces
<1> DEFINE t == Tree("STATEMENT_LIST", <<>>, Frame.items)
<1>2. Return(Single(t)) /\ Advance
  BY <1>1 DEF EndBlock
<1>3. IsTree(Single(t))
  <2>1. t.tag # "NULL" /\ "tag" \in DOMAIN t /\ t.kids = Frame.items
    BY DEF Tree
  <2> HIDE DEF t
  <2>2. QED
    BY <1>1, <2>1, SingleOfList
<1>4. Ended(tokens')
  BY <1>1, <1>2 DEF Reads, Ended
<1> HIDE DEF t
<1>5. QED
  BY <1>1, <1>2, <1>3, <1>4, Returned DEF Holds, SoundAfter

LEMMA ScopedBlockReads == ASSUME Reads, parse_scoped_block PROVE SoundAfter
<1>1. /\ Prefix({"LEFT_BRACE"}) /\ Do(<<Block, Loop>>) /\ tokens' = tokens /\ Under
      /\ IsClear(tokens')
  BY DEF parse_scoped_block, Stay, Reads
<1>2. Last1(tokens') = "LEFT_BRACE"
  BY <1>1 DEF Reads, Prefix
<1>3. /\ IsInner(Loop) /\ IsCall(Loop, tokens') /\ Gives(Loop) = "expression"
      /\ Takes(Loop) = "expression" /\ Gives(Frame) = "expression"
  BY <1>1, Looped
<1>4. Fits(Block, Loop) /\ Replaces(Loop, Frame)
  BY <1>1, <1>2, <1>3, BlockBegins DEF Fits, Suits, Replaces
<1>5. QED
  BY <1>1, <1>2, <1>3, <1>4, BlockBegins, DidTwo DEF SoundAfter

LEMMA FnBodyReads == ASSUME Reads, parse_fn_body PROVE SoundAfter
<1>1. Frame.go = "body" /\ Under /\ Gives(Frame) = "body" /\ IsClear(tokens')
  <2>1. Frame.go = "body" /\ Under /\ IsClear(tokens')
    BY DEF Reads, parse_fn_body, Running
  <2>2. QED
    BY <2>1 DEF Gives, ClimbingPlaces, ListPlaces
<1>2. CASE Is("LEFT_BRACE")
  <2>1. Do(<<Block>>) /\ Advance
    BY <1>2 DEF parse_fn_body
  <2>2. Last1(tokens') = "LEFT_BRACE"
    BY <1>2, <2>1 DEF Reads, Is
  <2>3. Replaces(Block, Frame)
    BY <1>1, <2>2, BlockBegins DEF Replaces
  <2>4. QED
    BY <1>1, <2>1, <2>2, <2>3, BlockBegins, Began
<1>3. CASE ~Is("LEFT_BRACE")
  <2>1. Return(NULL) /\ tokens' = tokens
    BY <1>3 DEF parse_fn_body, Stay
  <2>2. Holds("body", NULL, tokens')
    BY <1>1, <2>1 DEF Reads, Begins, Holds
  <2>3. QED
    BY <1>1, <2>1, <2>2, Returned DEF SoundAfter
<1>4. QED
  BY <1>2, <1>3

\* Whoever complains or lets something pass is excused.
LEMMA NoRemark ==
  ASSUME Reads
  PROVE  ~Complain /\ \A what : ~Lapse(what)
BY DEF Reads, Complain, Lapse

\* What goes on with a value, and has no locals that matter.
LEMMA PlainFrame ==
  ASSUME NEW f, NEW v, NEW toks, "go" \in DOMAIN f,
         f.go \in {"unary", "grouping", "array", "call", "index", "condition", "otherwise",
                  "conditional", "ternary", "candidate", "function", "function_end", "fields",
                  "field", "field_end"}
  PROVE  /\ IsInner(f) /\ IsCall(f, toks) /\ Gives(f) = "expression" /\ Begins(f, v, toks)
         /\ f.go # "statement"
<1>1. IsInner(f) /\ IsCall(f, toks)
  BY PlainCall DEF Places, Bottoms, ClimbingPlaces, ListPlaces, BlockPlaces
<1>2. Gives(f) = "expression"
  BY Given DEF ExpressionPlaces
<1>3. Begins(f, v, toks)
  BY DEF Begins, ClimbingPlaces
<1>4. QED
  BY <1>1, <1>2, <1>3

\* The body of a function or of a conditional.
LEMMA BodyBegins ==
  ASSUME NEW v, NEW toks, Ended(toks)
  PROVE  /\ IsInner(Go("body")) /\ IsCall(Go("body"), toks) /\ Gives(Go("body")) = "body"
         /\ Takes(Go("body")) = "nothing" /\ Begins(Go("body"), v, toks)
         /\ Go("body").go # "statement"
<1>1. Go("body").go = "body" /\ "go" \in DOMAIN Go("body")
  BY DEF Go
<1>2. IsInner(Go("body")) /\ IsCall(Go("body"), toks)
  BY <1>1, PlainCall DEF Places, Bottoms, ClimbingPlaces, ListPlaces, BlockPlaces
<1>3. Gives(Go("body")) = "body" /\ Begins(Go("body"), v, toks) /\ Takes(Go("body")) = "nothing"
  BY <1>1, Taken DEF Gives, Begins, ClimbingPlaces, ListPlaces, FreshPlaces
<1>4. QED
  BY <1>1, <1>2, <1>3

LEMMA IfReads == ASSUME Reads, if_expression PROVE SoundAfter
<1>1. Frame.go \in {"prefix", "condition", "otherwise", "conditional"} /\ Under
  BY DEF if_expression, Prefix, Running, Reads
<1>2. CASE Frame.go = "prefix"
  <2> DEFINE g == Go("condition")
  <2>1. Prefix({"if"}) /\ Do(<<Precedence(1), g, Loop>>)
    BY <1>2, NoRemark DEF if_expression, Running, Expression
  <2>2. g.go = "condition" /\ "go" \in DOMAIN g
    BY DEF Go
  <2> HIDE DEF g
  <2>3. IsInner(g) /\ IsCall(g, tokens') /\ Gives(g) = "expression" /\ Takes(g) = "expression"
    BY <2>2, PlainFrame, Taken DEF TakingPlaces
  <2>4. /\ IsInner(Loop) /\ IsCall(Loop, tokens') /\ Gives(Loop) = "expression"
        /\ Takes(Loop) = "expression" /\ Gives(Frame) = "expression"
    BY <2>1, Looped
  <2>5. Fits(Precedence(1), g) /\ Fits(g, Loop) /\ Replaces(Loop, Frame)
        /\ Precedence(1).go # "statement"
    BY <2>3, <2>4, ExpressionBegins DEF Fits, Suits, Replaces, Precedence
  <2>6. QED
    BY <1>1, <2>1, <2>3, <2>4, <2>5, ExpressionBegins, DidThree DEF SoundAfter
<1>3. CASE Frame.go = "condition"
  <2> DEFINE f == Go("body")
             g == [go |-> "otherwise", left |-> value]
  <2>1. Do(<<f, g>>) /\ Advance /\ Is("RP")
    BY <1>3, NoRemark DEF if_expression, Prefix, Running
  <2>2. Ended(tokens')
    BY <2>1 DEF Reads, Ended, OperandEnds, Is
  <2>3. g.go = "otherwise" /\ "go" \in DOMAIN g
    OBVIOUS
  <2> HIDE DEF g
  <2>4. IsInner(g) /\ IsCall(g, tokens') /\ Gives(g) = "expression" /\ Takes(g) = "body"
    BY <2>3, PlainFrame, Taken
  <2>5. Replaces(g, Frame) /\ Fits(f, g)
    BY <1>3, <2>2, <2>4, Given, BodyBegins DEF Replaces, Fits, Suits, ExpressionPlaces
  <2> HIDE DEF f
  <2>6. IsInner(f) /\ IsCall(f, tokens') /\ Takes(f) = "nothing" /\ Begins(f, value, tokens')
        /\ f.go # "statement"
    BY <2>2, BodyBegins DEF f
  <2>7. QED
    BY <1>1, <2>1, <2>4, <2>5, <2>6, DidTwo DEF SoundAfter
<1>4. CASE Frame.go = "otherwise"
  <2> DEFINE f == Go("body")
             g == [go |-> "conditional", left |-> Frame.left, then |-> value]
  <2>1. Do(<<f, g>>) /\ tokens' = tokens
    BY <1>4 DEF if_expression, Prefix, Running, Stay
  <2>2. Ended(tokens')
    BY <1>4, <2>1, Taken DEF Reads, Holds
  <2>3. g.go = "conditional" /\ "go" \in DOMAIN g
    OBVIOUS
  <2> HIDE DEF g
  <2>4. IsInner(g) /\ IsCall(g, tokens') /\ Gives(g) = "expression" /\ Takes(g) = "body"
    BY <2>3, PlainFrame, Taken
  <2>5. Replaces(g, Frame) /\ Fits(f, g)
    BY <1>4, <2>2, <2>4, Given, BodyBegins DEF Replaces, Fits, Suits, ExpressionPlaces
  <2> HIDE DEF f
  <2>6. IsInner(f) /\ IsCall(f, tokens') /\ Takes(f) = "nothing" /\ Begins(f, value, tokens')
        /\ f.go # "statement"
    BY <2>2, BodyBegins DEF f
  <2>7. QED
    BY <1>1, <2>1, <2>4, <2>5, <2>6, DidTwo DEF SoundAfter
<1>5. CASE Frame.go = "conditional"
  <2>1. Return(Tree("IF_ELSE", <<>>, <<Frame.left, Frame.then, value>>)) /\ Stay
    BY <1>5 DEF if_expression, Prefix, Running
  <2>2. Takes(Frame) = "body" /\ Gives(Frame) = "expression"
    BY <1>5, Taken, Given DEF ExpressionPlaces
  <2>3. QED
    BY <2>1, <2>2, TreesMade, ExpressionEnds
<1>6. QED
  BY <1>1, <1>2, <1>3, <1>4, <1>5

LEMMA TernaryReads == ASSUME Reads, parse_ternary PROVE SoundAfter
<1>1. Frame.go \in {"infix_rule", "ternary"} /\ Under /\ IsInner(Frame)
  BY DEF parse_ternary, Running, Reads, Under
<1>2. Gives(Frame) = "expression" /\ Precedence(1).go # "statement"
  BY <1>1, Given DEF ExpressionPlaces, Precedence
<1>3. CASE Frame.go = "infix_rule"
  <2> DEFINE g == [Frame EXCEPT !.go = "ternary"]
  <2>1. Do(<<Precedence(1), g>>)
    BY <1>3 DEF parse_ternary, Running, Expression
  <2>2. g.go = "ternary" /\ "go" \in DOMAIN g
    BY <1>1, Moved DEF Places, Bottoms, IsInner
  <2> HIDE DEF g
  <2>3. IsInner(g) /\ IsCall(g, tokens') /\ Gives(g) = "expression" /\ Takes(g) = "expression"
    BY <2>2, PlainFrame, Taken DEF TakingPlaces
  <2>4. Fits(Precedence(1), g) /\ Replaces(g, Frame)
    BY <1>2, <2>3, ExpressionBegins DEF Fits, Suits, Replaces
  <2>5. QED
    BY <1>1, <1>2, <2>1, <2>3, <2>4, ExpressionBegins, DidTwo DEF SoundAfter
<1>4. CASE Frame.go = "ternary"
  <2> DEFINE g == [go |-> "conditional", left |-> Frame.left, then |-> value]
  <2>1. Do(<<Precedence(1), g>>)
    BY <1>4, NoRemark DEF parse_ternary, Running, Expression
  <2>2. g.go = "conditional" /\ "go" \in DOMAIN g
    OBVIOUS
  <2> HIDE DEF g
  <2>3. IsInner(g) /\ IsCall(g, tokens') /\ Gives(g) = "expression" /\ Takes(g) = "body"
    BY <2>2, PlainFrame, Taken
  <2>4. Fits(Precedence(1), g) /\ Replaces(g, Frame)
    BY <1>2, <2>3, ExpressionBegins DEF Fits, Suits, Replaces
  <2>5. QED
    BY <1>1, <1>2, <2>1, <2>3, <2>4, ExpressionBegins, DidTwo DEF SoundAfter
<1>5. QED
  BY <1>1, <1>3, <1>4

LEMMA ArmsGoOn ==
  ASSUME NEW f, NEW toks, "go" \in DOMAIN f, f.go \in {"arms", "arm"}, "items" \in DOMAIN f,
         f.go = "arm" \/ f.items # <<>> => HasBar(toks)
  PROVE  IsInner(f) /\ IsCall(f, toks) /\ Gives(f) = "expression"
<1>1. IsInner(f) /\ IsCall(f, toks)
  BY DEF IsInner, Places, Bottoms, IsCall, ClimbingPlaces, ListPlaces, BlockPlaces
<1>2. QED
  BY <1>1, Given DEF ExpressionPlaces

LEMMA EnterMatchReads == ASSUME Reads, EnterMatch PROVE SoundAfter
<1>1. Frame.go \in {"prefix", "candidate"} /\ Under
  BY DEF EnterMatch, Prefix, Running, Reads
<1>2. CASE Frame.go = "prefix"
  <2> DEFINE g == Go("candidate")
  <2>1. Prefix({"match"}) /\ Do(<<Precedence(1), g, Loop>>)
    BY <1>2 DEF EnterMatch, Running, Expression
  <2>2. g.go = "candidate" /\ "go" \in DOMAIN g
    BY DEF Go
  <2> HIDE DEF g
  <2>3. IsInner(g) /\ IsCall(g, tokens') /\ Gives(g) = "expression" /\ Takes(g) = "expression"
    BY <2>2, PlainFrame, Taken DEF TakingPlaces
  <2>4. /\ IsInner(Loop) /\ IsCall(Loop, tokens') /\ Gives(Loop) = "expression"
        /\ Takes(Loop) = "expression" /\ Gives(Frame) = "expression"
    BY <2>1, Looped
  <2>5. Fits(Precedence(1), g) /\ Fits(g, Loop) /\ Replaces(Loop, Frame)
        /\ Precedence(1).go # "statement"
    BY <2>3, <2>4, ExpressionBegins DEF Fits, Suits, Replaces, Precedence
  <2>6. QED
    BY <1>1, <2>1, <2>3, <2>4, <2>5, ExpressionBegins, DidThree DEF SoundAfter
<1>3. CASE Frame.go = "candidate"
  <2>1. value # NULL /\ Gives(Frame) = "expression"
    BY <1>3, Taken, Given, TreeIsNotNull DEF Reads, Holds, TakingPlaces, ExpressionPlaces
  <2> DEFINE f == [go |-> "arms", items |-> <<>>, last |-> NULL,
                   head |-> IF IsPipe(value) THEN value.kids ELSE <<value, NULL>>]
  <2>2. Do(<<f>>)
    BY <1>3, <2>1 DEF EnterMatch, Prefix, Running
  <2>3. f.go = "arms" /\ f.items = <<>> /\ "go" \in DOMAIN f /\ "items" \in DOMAIN f
    OBVIOUS
  <2> HIDE DEF f
  <2>4. IsInner(f) /\ IsCall(f, tokens') /\ Replaces(f, Frame)
    BY <2>1, <2>3, ArmsGoOn DEF Replaces
  <2>5. Takes(f) = "nothing" /\ Begins(f, value, tokens')
    BY <2>3, Taken DEF FreshPlaces, Begins, ClimbingPlaces
  <2>6. QED
    BY <1>1, <2>2, <2>3, <2>4, <2>5, Began
<1>4. QED
  BY <1>1, <1>2, <1>3

LEMMA NextArmReads == ASSUME Reads, NextArm PROVE SoundAfter
<1>1. /\ Frame.go = "arms" /\ Under /\ IsInner(Frame) /\ "items" \in DOMAIN Frame
      /\ "go" \in DOMAIN Frame /\ Gives(Frame) = "expression"
      /\ Frame.items # <<>> => Ended(tokens)
  <2>1. /\ Frame.go = "arms" /\ Under /\ IsInner(Frame) /\ "items" \in DOMAIN Frame
        /\ Frame.items # <<>> => Ended(tokens)
    BY DEF Reads, NextArm, Running, IsCall, Under, Begins
  <2>2. QED
    BY <2>1, Given DEF ExpressionPlaces, IsInner
<1>2. CASE Is("BAR")
  <2> DEFINE g == [Frame EXCEPT !.go = "arm"]
  <2>1. Do(<<Precedence(1), g>>)
    BY <1>2 DEF NextArm, Expression
  <2>2. HasBar(tokens')
    BY <1>2 DEF Reads, Under, IsClear, Is
  <2>3. g.go = "arm" /\ DOMAIN g = DOMAIN Frame
    BY <1>1, Moved DEF Places, Bottoms
  <2> HIDE DEF g
  <2>4. IsInner(g) /\ IsCall(g, tokens') /\ Gives(g) = "expression"
    BY <1>1, <2>2, <2>3, ArmsGoOn
  <2>5. Takes(g) = "expression" /\ Precedence(1).go # "statement"
    BY <2>3, Taken DEF TakingPlaces, Precedence
  <2>6. Fits(Precedence(1), g) /\ Replaces(g, Frame)
    BY <1>1, <2>4, <2>5, ExpressionBegins DEF Fits, Suits, Replaces
  <2>7. QED
    BY <1>1, <2>1, <2>4, <2>5, <2>6, ExpressionBegins, DidTwo DEF SoundAfter
<1>3. CASE ~Is("BAR")
  <2>1. /\ Len(Frame.items) > 1 /\ tokens' = tokens
        /\ Return(Tree("MATCH", <<>>, Frame.head \o Frame.items))
    BY <1>3, NoRemark DEF NextArm, Stay
  <2>2. Frame.items # <<>>
    <3>1. ~(Len(<<>>) > 1)
      OBVIOUS
    <3>2. QED
      BY <2>1, <3>1
  <2>3. Ended(tokens') /\ IsTree(Tree("MATCH", <<>>, Frame.head \o Frame.items))
    BY <1>1, <2>1, <2>2, TreesMade
  <2>4. QED
    BY <1>1, <2>1, <2>3, Returned DEF Holds, SoundAfter
<1>4. QED
  BY <1>2, <1>3

LEMMA EndArmReads == ASSUME Reads, EndArm PROVE SoundAfter
<1> DEFINE f == [With(Collected, "arms") EXCEPT !.last = value]
<1>1. /\ Frame.go = "arm" /\ Under /\ IsInner(Frame) /\ "items" \in DOMAIN Frame
      /\ "go" \in DOMAIN Frame /\ Do(<<f>>) /\ AdvanceIf(Is("NL")) /\ HasBar(tokens')
  BY DEF Reads, EndArm, Running, IsCall, Under, IsInner
<1>2. Ended(tokens')
  <2>1. Ended(tokens)
    BY <1>1, Taken DEF Reads, Holds, TakingPlaces
  <2>2. CASE Is("NL")
    <3>1. Advance
      BY <1>1, <2>2 DEF AdvanceIf
    <3>2. Last1(tokens') = "NL"
      BY <2>2, <3>1 DEF Reads, Is
    <3>3. QED
      BY <1>1, <3>2 DEF Ended
  <2>3. CASE ~Is("NL")
    BY <1>1, <2>1, <2>3 DEF AdvanceIf, Stay
  <2>4. QED
    BY <2>2, <2>3
<1>3. f.go = "arms" /\ DOMAIN f = DOMAIN Frame
  BY <1>1 DEF With
<1> HIDE DEF f
<1>4. IsInner(f) /\ IsCall(f, tokens') /\ Gives(f) = "expression"
  BY <1>1, <1>3, ArmsGoOn
<1>5. Replaces(f, Frame) /\ Takes(f) = "nothing" /\ Begins(f, value, tokens')
  BY <1>1, <1>2, <1>3, <1>4, Given, Taken DEF Replaces, FreshPlaces, ExpressionPlaces, Begins,
    ClimbingPlaces
<1>6. QED
  BY <1>1, <1>3, <1>4, <1>5, Began

\* A prototype is read where one was asked for; so is a statement.
LEMMA PrototypeFrame ==
  ASSUME NEW f, NEW v, NEW toks, "go" \in DOMAIN f, f.go \in PrototypePlaces
  PROVE  /\ IsInner(f) /\ IsCall(f, toks) /\ Gives(f) = "prototype" /\ Begins(f, v, toks)
         /\ f.go # "statement"
<1>1. IsInner(f) /\ IsCall(f, toks)
  BY PlainCall DEF Places, Bottoms, ClimbingPlaces, ListPlaces, BlockPlaces, PrototypePlaces
<1>2. Begins(f, v, toks) /\ f.go # "statement"
  BY DEF Begins, ClimbingPlaces, PrototypePlaces
<1>3. QED
  BY <1>1, <1>2, Given

LEMMA StatementFrame ==
  ASSUME NEW f, NEW v, NEW toks, "go" \in DOMAIN f, f.go \in StatementPlaces
  PROVE  /\ IsInner(f) /\ IsCall(f, toks) /\ Gives(f) = "statement" /\ Begins(f, v, toks)
<1>1. IsInner(f) /\ IsCall(f, toks)
  BY PlainCall DEF Places, Bottoms, ClimbingPlaces, ListPlaces, BlockPlaces, StatementPlaces
<1>2. Begins(f, v, toks)
  BY DEF Begins, ClimbingPlaces, StatementPlaces
<1>3. QED
  BY <1>1, <1>2, Given

\* A call goes on at a place of the same kind that takes nothing; it goes on there after an
\* expression; it returns a tree.
LEMMA PrototypeMoves ==
  ASSUME Reads, Frame.go \in PrototypePlaces, NEW f, "go" \in DOMAIN f,
         f.go \in PrototypePlaces \cap FreshPlaces, Do(<<f>>)
  PROVE  SoundAfter
BY PrototypeFrame, Taken, Given, Began DEF Replaces, Reads

LEMMA StatementMoves ==
  ASSUME Reads, Frame.go \in StatementPlaces, NEW f, "go" \in DOMAIN f,
         f.go \in StatementPlaces \cap FreshPlaces, f.go # "statement", Do(<<f>>)
  PROVE  SoundAfter
BY StatementFrame, Taken, Given, Began DEF Replaces, Reads

LEMMA PrototypeReturns ==
  ASSUME Reads, Frame.go \in PrototypePlaces, NEW t, IsTree(t), Return(t)
  PROVE  SoundAfter
BY Given, Returned DEF Holds, Reads, SoundAfter

LEMMA StatementReturns ==
  ASSUME Reads, Frame.go \in StatementPlaces, NEW t, IsTree(t), Return(t)
  PROVE  SoundAfter
BY Given, Returned DEF Holds, Reads, SoundAfter

LEMMA StatementAsks ==
  ASSUME Reads, Frame.go \in StatementPlaces, NEW g, "go" \in DOMAIN g,
         g.go \in {"let_type", "let_value", "assigned", "type_is"},
         Do(<<Precedence(1), g>>) \/ Do(<<Precedence(2), g>>)
  PROVE  SoundAfter
<1> SUFFICES ASSUME NEW n \in {1, 2}, Do(<<Precedence(n), g>>) PROVE SoundAfter
  OBVIOUS
<1>1. IsInner(g) /\ IsCall(g, tokens') /\ Gives(g) = "statement" /\ Gives(Frame) = "statement"
  BY StatementFrame, Given DEF StatementPlaces
<1>2. Takes(g) \in {"expression", "anything"} /\ Precedence(n).go # "statement"
  BY Taken DEF TakingPlaces, Precedence
<1>3. Fits(Precedence(n), g) /\ Replaces(g, Frame)
  BY <1>1, <1>2, ExpressionBegins DEF Fits, Suits, Replaces
<1>4. IsInner(Precedence(n)) /\ IsCall(Precedence(n), tokens') /\ Takes(Precedence(n)) = "nothing"
      /\ Begins(Precedence(n), value, tokens')
  BY ExpressionBegins
<1>5. QED
  BY <1>1, <1>2, <1>3, <1>4, DidTwo DEF SoundAfter, Reads

LEMMA EnterPrototypeReads == ASSUME Reads, EnterPrototype PROVE SoundAfter
<1> DEFINE f == [go |-> "parameters", items |-> <<>>]
<1>1. Frame.go = "prototype" /\ Do(<<f>>)
  BY NoRemark DEF EnterPrototype, Running
<1>2. f.go = "parameters" /\ "go" \in DOMAIN f
  OBVIOUS
<1> HIDE DEF f
<1>3. QED
  BY <1>1, <1>2, PrototypeMoves DEF PrototypePlaces, FreshPlaces

LEMMA NextParameterReads == ASSUME Reads, NextParameter PROVE SoundAfter
<1>1. Frame.go = "parameters" /\ Under /\ IsInner(Frame)
  BY DEF NextParameter, Running, Reads, Under
<1>2. ASSUME NEW p \in {"result_type", "dots"}, Do(<<[Frame EXCEPT !.go = p]>>) PROVE SoundAfter
  <2> DEFINE f == [Frame EXCEPT !.go = p]
  <2>1. f.go = p /\ "go" \in DOMAIN f /\ Do(<<f>>)
    BY <1>1, <1>2, Moved DEF Places, Bottoms, IsInner
  <2> HIDE DEF f
  <2>2. QED
    BY <1>1, <2>1, PrototypeMoves DEF PrototypePlaces, FreshPlaces
<1>3. CASE Is("RP") \/ Is("TRIPLE_DOT")
  BY <1>2, <1>3 DEF NextParameter
<1>4. CASE ~Is("RP") /\ ~Is("TRIPLE_DOT")
  <2> DEFINE f == Go("let")
             g == [Frame EXCEPT !.go = "parameter"]
  <2>1. Do(<<f, g>>)
    BY <1>4 DEF NextParameter
  <2>2. g.go = "parameter" /\ "go" \in DOMAIN g
    BY <1>1, Moved DEF Places, Bottoms, IsInner
  <2>3. f.go = "let" /\ "go" \in DOMAIN f
    BY DEF Go
  <2> HIDE DEF f, g
  <2>4. IsInner(g) /\ IsCall(g, tokens') /\ Replaces(g, Frame)
    BY <1>1, <2>2, PrototypeFrame, Given DEF PrototypePlaces, Replaces
  <2>5. IsInner(f) /\ IsCall(f, tokens') /\ Begins(f, value, tokens') /\ Takes(f) = "nothing"
    BY <2>3, StatementFrame, Taken DEF StatementPlaces, FreshPlaces
  <2>6. Fits(f, g)
    BY <2>2, Taken DEF Fits, Suits
  <2>7. QED
    BY <1>1, <2>1, <2>2, <2>3, <2>4, <2>5, <2>6, DidTwo DEF SoundAfter
<1>5. QED
  BY <1>3, <1>4

LEMMA VariableArgumentsReads == ASSUME Reads, VariableArguments PROVE SoundAfter
<1> DEFINE f == [Frame EXCEPT !.go = "parameter"]
           t == Tree("VAR_ARG", <<>>, <<>>)
<1>1. Frame.go = "dots" /\ Give(t, f) /\ Under /\ IsInner(Frame)
  BY NoRemark DEF VariableArguments, Running, Reads, Under
<1>2. f.go = "parameter" /\ "go" \in DOMAIN f
  BY <1>1, Moved DEF Places, Bottoms, IsInner
<1> HIDE DEF f, t
<1>3. IsInner(f) /\ IsCall(f, tokens') /\ Begins(f, t, tokens') /\ Replaces(f, Frame)
      /\ f.go # "statement"
  BY <1>1, <1>2, PrototypeFrame, Given DEF PrototypePlaces, Replaces
<1>4. Holds(Takes(f), t, tokens')
  BY <1>2, Taken DEF Holds
<1>5. QED
  BY <1>1, <1>3, <1>4, WentOn DEF SoundAfter

LEMMA EndParameterReads == ASSUME Reads, EndParameter PROVE SoundAfter
<1> DEFINE f == With(Collected, "parameters")
<1>1. Frame.go = "parameter" /\ Do(<<f>>) /\ IsInner(Frame)
  BY DEF EndParameter, Running, Reads, Under
<1>2. f.go = "parameters" /\ "go" \in DOMAIN f
  BY <1>1 DEF With, IsInner
<1> HIDE DEF f
<1>3. QED
  BY <1>1, <1>2, PrototypeMoves DEF PrototypePlaces, FreshPlaces

LEMMA ResultTypeReads == ASSUME Reads, ResultType PROVE SoundAfter
<1>1. Frame.go \in {"result_type", "result_is"} /\ Frame.go \in PrototypePlaces /\ Under
      /\ IsInner(Frame)
  BY DEF ResultType, Running, Reads, Under, PrototypePlaces
<1>2. CASE Frame.go = "result_type" /\ Is("AMPERSAND")
  <2> DEFINE g == [Frame EXCEPT !.go = "result_is"]
  <2>1. Do(<<Precedence(1), g>>)
    BY <1>2 DEF ResultType, Running, Expression
  <2>2. g.go = "result_is" /\ "go" \in DOMAIN g
    BY <1>1, Moved DEF Places, Bottoms, IsInner
  <2> HIDE DEF g
  <2>3. IsInner(g) /\ IsCall(g, tokens') /\ Replaces(g, Frame)
    BY <1>1, <2>2, PrototypeFrame, Given DEF PrototypePlaces, Replaces
  <2>4. Takes(g) = "expression" /\ Precedence(1).go # "statement"
    BY <2>2, Taken DEF TakingPlaces, Precedence
  <2>5. Fits(Precedence(1), g)
    BY <2>4, ExpressionBegins DEF Fits, Suits
  <2>6. QED
    BY <1>1, <2>1, <2>3, <2>4, <2>5, ExpressionBegins, DidTwo DEF SoundAfter
<1>3. CASE ~(Frame.go = "result_type" /\ Is("AMPERSAND"))
  <2>1. \E r, items : Return(Proto(r, items))
    BY <1>3 DEF ResultType, Running
  <2>2. \A r, items : IsTree(Proto(r, items))
    BY TreesMade DEF Proto
  <2>3. QED
    BY <1>1, <2>1, <2>2, PrototypeReturns
<1>4. QED
  BY <1>2, <1>3

LEMMA FunctionReads == ASSUME Reads, parse_function PROVE SoundAfter
<1>1. Frame.go \in {"prefix", "function", "function_end"} /\ Under
  BY DEF parse_function, Prefix, Running, Reads
<1>2. CASE Frame.go = "prefix"
  <2> DEFINE f == Go("prototype")
             g == Go("function")
  <2>1. Prefix({"fn"}) /\ Do(<<f, g, Loop>>)
    BY <1>2 DEF parse_function, Running, Prototype
  <2>2. f.go = "prototype" /\ "go" \in DOMAIN f /\ g.go = "function" /\ "go" \in DOMAIN g
    BY DEF Go
  <2> HIDE DEF f, g
  <2>3. IsInner(g) /\ IsCall(g, tokens') /\ Gives(g) = "expression" /\ Takes(g) = "prototype"
    BY <2>2, PlainFrame, Taken
  <2>4. /\ IsInner(f) /\ IsCall(f, tokens') /\ Gives(f) = "prototype" /\ Takes(f) = "nothing"
        /\ Begins(f, value, tokens') /\ f.go # "statement"
    BY <2>2, PrototypeFrame, Taken DEF PrototypePlaces, FreshPlaces
  <2>5. /\ IsInner(Loop) /\ IsCall(Loop, tokens') /\ Gives(Loop) = "expression"
        /\ Takes(Loop) = "expression" /\ Gives(Frame) = "expression"
    BY <2>1, Looped
  <2>6. Fits(f, g) /\ Fits(g, Loop) /\ Replaces(Loop, Frame)
    BY <2>3, <2>4, <2>5 DEF Fits, Suits, Replaces
  <2>7. QED
    BY <1>1, <2>1, <2>3, <2>4, <2>5, <2>6, DidThree DEF SoundAfter
<1>3. CASE Frame.go = "function"
  <2>1. value # NULL /\ Gives(Frame) = "expression"
    BY <1>3, Taken, Given, TreeIsNotNull DEF Reads, Holds, ExpressionPlaces
  <2> DEFINE g == [go |-> "function_end", proto |-> value]
  <2>2. Is("LEFT_BRACE") /\ Do(<<Block, g>>) /\ Advance /\ IsClear(tokens')
    BY <1>3, <2>1, NoRemark DEF parse_function, Prefix, Running, Reads
  <2>3. Last1(tokens') = "LEFT_BRACE"
    BY <2>2 DEF Reads, Is
  <2>4. g.go = "function_end" /\ "go" \in DOMAIN g
    OBVIOUS
  <2> HIDE DEF g
  <2>5. IsInner(g) /\ IsCall(g, tokens') /\ Gives(g) = "expression" /\ Takes(g) = "expression"
    BY <2>4, PlainFrame, Taken DEF TakingPlaces
  <2>6. Fits(Block, g) /\ Replaces(g, Frame)
    BY <2>1, <2>2, <2>3, <2>5, BlockBegins DEF Fits, Suits, Replaces
  <2>7. QED
    BY <1>1, <2>2, <2>3, <2>5, <2>6, BlockBegins, DidTwo DEF SoundAfter
<1>4. CASE Frame.go = "function_end"
  <2>1. Return(Tree("FN_DECLARATION", <<>>, <<Frame.proto, value>>)) /\ Stay
    BY <1>4 DEF parse_function, Prefix, Running
  <2>2. Takes(Frame) = "expression" /\ Gives(Frame) = "expression"
    BY <1>4, Taken, Given DEF ExpressionPlaces, TakingPlaces
  <2>3. QED
    BY <2>1, <2>2, TreesMade, ExpressionEnds
<1>5. QED
  BY <1>1, <1>2, <1>3, <1>4

LEMMA NamedFunctionReads == ASSUME Reads, parse_named_function PROVE SoundAfter
<1>1. Frame.go = "named"
  BY DEF parse_named_function, Running
<1>2. IsTree(value)
  BY <1>1, Taken DEF Reads, Holds, TakingPlaces
<1>3. Return([value EXCEPT !.word = Frame.name])
  BY <1>2, TreeIsNotNull DEF parse_named_function
<1>4. IsTree([value EXCEPT !.word = Frame.name])
  BY <1>2 DEF IsTree
<1>5. QED
  BY <1>1, <1>3, <1>4, StatementReturns DEF StatementPlaces

LEMMA ExternReads == ASSUME Reads, parse_extern_function PROVE SoundAfter
<1>1. Frame.go \in {"extern", "extern_end"} /\ Frame.go \in StatementPlaces /\ Under
      /\ IsInner(Frame)
  BY DEF parse_extern_function, Running, Reads, Under, StatementPlaces
<1>2. CASE Frame.go = "extern"
  <2> DEFINE f == Go("prototype")
             g == [Frame EXCEPT !.go = "extern_end"]
  <2>1. Do(<<f, g>>)
    BY <1>2 DEF parse_extern_function, Running, Prototype
  <2>2. f.go = "prototype" /\ "go" \in DOMAIN f
    BY DEF Go
  <2>3. g.go = "extern_end" /\ "go" \in DOMAIN g
    BY <1>1, Moved DEF Places, Bottoms, IsInner
  <2> HIDE DEF f, g
  <2>4. /\ IsInner(f) /\ IsCall(f, tokens') /\ Gives(f) = "prototype" /\ Takes(f) = "nothing"
        /\ Begins(f, value, tokens') /\ f.go # "statement"
    BY <2>2, PrototypeFrame, Taken DEF PrototypePlaces, FreshPlaces
  <2>5. IsInner(g) /\ IsCall(g, tokens') /\ Replaces(g, Frame)
    BY <1>1, <2>3, StatementFrame, Given DEF StatementPlaces, Replaces
  <2>6. Fits(f, g)
    BY <2>3, <2>4, Taken DEF Fits, Suits
  <2>7. QED
    BY <1>1, <2>1, <2>4, <2>5, <2>6, DidTwo DEF SoundAfter
<1>3. CASE Frame.go = "extern_end"
  <2>1. Return(Tree("FN_DECLARATION", Frame.name, <<value>>))
    BY <1>3 DEF parse_extern_function, Running
  <2>2. QED
    BY <1>1, <2>1, TreesMade, StatementReturns
<1>4. QED
  BY <1>1, <1>2, <1>3

\* A field is a statement, of which nothing is asked.
LEMMA StructReads == ASSUME Reads, parse_struct PROVE SoundAfter
<1>1. Frame.go \in {"prefix", "fields", "field", "field_end"} /\ Under /\ IsInner(Frame)
  BY DEF parse_struct, Prefix, Running, Reads, Under
<1>2. Gives(Frame) = "expression" \/ Frame.go = "prefix"
  BY <1>1, Given DEF ExpressionPlaces
<1>3. CASE Frame.go = "prefix"
  <2> DEFINE f == [go |-> "fields", items |-> <<>>]
  <2>1. Prefix({"struct"}) /\ Do(<<f, Loop>>)
    BY <1>3, NoRemark DEF parse_struct, Running
  <2>2. f.go = "fields" /\ "go" \in DOMAIN f
    OBVIOUS
  <2> HIDE DEF f
  <2>3. /\ IsInner(f) /\ IsCall(f, tokens') /\ Gives(f) = "expression" /\ Takes(f) = "nothing"
        /\ Begins(f, value, tokens') /\ f.go # "statement"
    BY <2>2, PlainFrame, Taken DEF FreshPlaces
  <2>4. /\ IsInner(Loop) /\ IsCall(Loop, tokens') /\ Gives(Loop) = "expression"
        /\ Takes(Loop) = "expression" /\ Gives(Frame) = "expression"
    BY <2>1, Looped
  <2>5. Fits(f, Loop) /\ Replaces(Loop, Frame)
    BY <2>3, <2>4 DEF Fits, Suits, Replaces
  <2>6. QED
    BY <1>1, <2>1, <2>3, <2>4, <2>5, DidTwo DEF SoundAfter
<1>4. ASSUME NEW f, "go" \in DOMAIN f, f.go \in {"fields", "field"}, Do(<<f>>),
             Frame.go # "prefix"
      PROVE  SoundAfter
  <2>1. /\ IsInner(f) /\ IsCall(f, tokens') /\ Gives(f) = "expression" /\ Takes(f) = "nothing"
        /\ Begins(f, value, tokens') /\ f.go # "statement"
    BY <1>4, PlainFrame, Taken DEF FreshPlaces
  <2>2. Replaces(f, Frame)
    BY <1>2, <1>4, <2>1 DEF Replaces
  <2>3. QED
    BY <1>1, <1>4, <2>1, <2>2, Began
<1>5. CASE Frame.go \in {"fields", "field"} /\ Is("RP")
  <2>1. Return(Tree("STRUCT", <<>>, Frame.items)) /\ Advance
    BY <1>5 DEF parse_struct, Prefix, Running, Is
  <2>2. Ended(tokens')
    BY <1>5, <2>1 DEF Reads, Ended, OperandEnds, Is
  <2>3. IsTree(Tree("STRUCT", <<>>, Frame.items)) /\ Gives(Frame) = "expression"
    BY <1>2, <1>5, TreesMade
  <2>4. QED
    BY <1>1, <2>1, <2>2, <2>3, Returned DEF Holds, SoundAfter
<1>6. CASE Frame.go = "fields" /\ Is("NL")
  <2> DEFINE f == [Frame EXCEPT !.go = "field"]
  <2>1. Do(<<f>>)
    BY <1>6 DEF parse_struct, Prefix, Running, Is
  <2>2. f.go = "field" /\ "go" \in DOMAIN f
    BY <1>1, Moved DEF Places, Bottoms, IsInner
  <2> HIDE DEF f
  <2>3. QED
    BY <1>4, <1>6, <2>1, <2>2
<1>7. CASE Frame.go \in {"fields", "field"} /\ ~Is("RP") /\ ~(Frame.go = "fields" /\ Is("NL"))
  <2> DEFINE f == Go("let")
             g == [Frame EXCEPT !.go = "field_end"]
  <2>1. Do(<<f, g>>)
    BY <1>7 DEF parse_struct, Prefix, Running
  <2>2. g.go = "field_end" /\ "go" \in DOMAIN g
    BY <1>1, Moved DEF Places, Bottoms, IsInner
  <2>3. f.go = "let" /\ "go" \in DOMAIN f
    BY DEF Go
  <2> HIDE DEF f, g
  <2>4. IsInner(g) /\ IsCall(g, tokens') /\ Replaces(g, Frame)
    BY <1>2, <1>7, <2>2, PlainFrame DEF Replaces
  <2>5. IsInner(f) /\ IsCall(f, tokens') /\ Begins(f, value, tokens') /\ Takes(f) = "nothing"
    BY <2>3, StatementFrame, Taken DEF StatementPlaces, FreshPlaces
  <2>6. Fits(f, g)
    BY <2>2, Taken DEF Fits, Suits
  <2>7. QED
    BY <1>1, <2>1, <2>2, <2>3, <2>4, <2>5, <2>6, DidTwo DEF SoundAfter
<1>8. CASE Frame.go = "field_end"
  <2> DEFINE f == With(Collected, "fields")
  <2>1. Do(<<f>>)
    BY <1>8 DEF parse_struct, Prefix, Running
  <2>2. f.go = "fields" /\ "go" \in DOMAIN f
    BY <1>1 DEF With, IsInner
  <2> HIDE DEF f
  <2>3. QED
    BY <1>4, <1>8, <2>1, <2>2
<1>9. QED
  BY <1>1, <1>3, <1>5, <1>6, <1>7, <1>8

LEMMA StatementReads == ASSUME Reads, Statement PROVE SoundAfter
<1>1. /\ Frame.go = "statement" /\ Frame.go \in StatementPlaces /\ Under
      /\ Gives(Frame) = "statement"
  <2>1. Frame.go = "statement" /\ Under
    BY DEF Statement, Running, Reads
  <2>2. QED
    BY <2>1, Given DEF StatementPlaces
\* A blank line is no statement; a block is not asked for one there.
<1>2. CASE Is("NL")
  <2> DEFINE g == Head(Tail(calls))
  <2>1. Return(NULL)
    BY <1>2 DEF Statement, Is
  <2>2. Fitting(Tail(calls), tokens') /\ Fits(Frame, g)
    BY RestFits DEF Reads, Under, Frame
  <2>3. g.go # "push"
    BY <1>1, <1>2 DEF Reads, Is
  <2> HIDE DEF g
  <2>4. Takes(g) = "anything"
    BY <1>1, <2>2, <2>3 DEF Fits, Suits, Takes
  <2>5. Holds(Takes(g), NULL, tokens')
    BY <2>4 DEF Holds
  <2>6. Begins(g, NULL, tokens') /\ g.go # "statement"
    BY <2>4 DEF Takes, Begins, ClimbingPlaces
  <2>7. calls' = Tail(calls) /\ value' = NULL
    BY <2>1 DEF Return
  <2>8. QED
    BY <2>2, <2>5, <2>6, <2>7 DEF SoundAfter, Sound, IsReady, g
<1>3. CASE Is("return")
  <2>1. Return(NULL) /\ tokens' = tokens
    BY <1>3 DEF Statement, Is, Stay
  <2>2. Holds("statement", NULL, tokens')
    BY <1>3, <2>1 DEF Reads, Holds, Is
  <2>3. QED
    BY <1>1, <2>1, <2>2, Returned DEF SoundAfter
<1>4. ASSUME NEW keyword \in {"let", "type", "import"}, Is(keyword) PROVE SoundAfter
  <2>1. Do(<<Go(keyword)>>)
    BY <1>4 DEF Statement, Is
  <2>2. Go(keyword).go = keyword /\ "go" \in DOMAIN Go(keyword)
    BY DEF Go
  <2>3. QED
    BY <1>1, <2>1, <2>2, StatementMoves DEF StatementPlaces, FreshPlaces
<1>5. CASE current.type \notin {"NL", "return", "let", "type", "import"}
  <2>1. Do(<<Precedence(1)>>)
    BY <1>5 DEF Statement, Is, Expression
  <2>2. Precedence(1).go # "statement" /\ Replaces(Precedence(1), Frame)
    BY <1>1, ExpressionBegins DEF Replaces, Precedence
  <2>3. QED
    BY <1>1, <2>1, <2>2, ExpressionBegins, Began
<1>6. QED
  BY <1>2, <1>3, <1>4, <1>5 DEF Is

LEMMA LetReads == ASSUME Reads, let_statement PROVE SoundAfter
<1>1. Frame.go \in {"let", "let_type", "let_name", "let_value"} /\ Frame.go \in StatementPlaces
      /\ IsInner(Frame)
  BY DEF let_statement, Running, Reads, Under, StatementPlaces
<1>2. CASE Frame.go = "let"
  <2> DEFINE g == Go("let_type")
  <2>1. Do(<<Precedence(2), g>>)
    BY <1>2 DEF let_statement, Running, Or
  <2>2. g.go = "let_type" /\ "go" \in DOMAIN g
    BY DEF Go
  <2> HIDE DEF g
  <2>3. QED
    BY <1>1, <2>1, <2>2, StatementAsks
<1>3. CASE Frame.go = "let_type"
  <2>1. value # NULL
    BY <1>3, Taken, TreeIsNotNull DEF Reads, Holds, TakingPlaces
  <2> DEFINE f == [go |-> "assignment", name |-> value.word]
             g == [go |-> "let_name", name |-> current.word, type |-> value]
             t == Tree("SYMBOL_DECLARATION", NameIn(value), <<NULL>>)
  <2>2. Do(<<f>>) \/ Do(<<g>>) \/ Return(t)
    BY <1>3, <2>1 DEF let_statement, Running
  <2>3. f.go = "assignment" /\ "go" \in DOMAIN f /\ g.go = "let_name" /\ "go" \in DOMAIN g
    OBVIOUS
  <2> HIDE DEF f, g
  <2>4. Do(<<f>>) => SoundAfter
    BY <1>1, <2>3, StatementMoves DEF StatementPlaces, FreshPlaces
  <2>5. Do(<<g>>) => SoundAfter
    BY <1>1, <2>3, StatementMoves DEF StatementPlaces, FreshPlaces
  <2>6. Return(t) => SoundAfter
    BY <1>1, TreesMade, StatementReturns
  <2>7. QED
    BY <2>2, <2>4, <2>5, <2>6
<1>4. CASE Frame.go = "let_name"
  <2> DEFINE g == [Frame EXCEPT !.go = "let_value"]
             t == Tree("SYMBOL_DECLARATION", Frame.name, <<Frame.type>>)
  <2>1. Do(<<Precedence(1), g>>) \/ Return(t)
    BY <1>4 DEF let_statement, Running, Expression
  <2>2. g.go = "let_value" /\ "go" \in DOMAIN g
    BY <1>1, Moved DEF Places, Bottoms, IsInner
  <2> HIDE DEF g
  <2>3. Do(<<Precedence(1), g>>) => SoundAfter
    BY <1>1, <2>2, StatementAsks
  <2>4. Return(t) => SoundAfter
    BY <1>1, TreesMade, StatementReturns
  <2>5. QED
    BY <2>1, <2>3, <2>4
<1>5. CASE Frame.go = "let_value"
  <2>1. Return(Tree("ASSIGNMENT", Frame.name, <<Frame.type, value>>))
    BY <1>5 DEF let_statement, Running
  <2>2. QED
    BY <1>1, <2>1, TreesMade, StatementReturns
<1>6. QED
  BY <1>1, <1>2, <1>3, <1>4, <1>5

LEMMA AssignmentReads == ASSUME Reads, assignment_statement PROVE SoundAfter
<1>1. Frame.go \in {"assignment", "assigned"} /\ Frame.go \in StatementPlaces /\ Under
      /\ IsInner(Frame) /\ Gives(Frame) = "statement"
  <2>1. Frame.go \in {"assignment", "assigned"} /\ Frame.go \in StatementPlaces
    BY DEF assignment_statement, Running, StatementPlaces
  <2>2. QED
    BY <2>1, Given DEF Reads, Under
<1>2. CASE Frame.go = "assignment" /\ Is("extern")
  <2> DEFINE f == [Frame EXCEPT !.go = "extern"]
  <2>1. Do(<<f>>)
    BY <1>2 DEF assignment_statement, Running, Is
  <2>2. f.go = "extern" /\ "go" \in DOMAIN f
    BY <1>1, Moved DEF Places, Bottoms, IsInner
  <2> HIDE DEF f
  <2>3. QED
    BY <1>1, <2>1, <2>2, StatementMoves DEF StatementPlaces, FreshPlaces
<1>3. CASE Frame.go = "assignment" /\ Is("fn")
  <2> DEFINE f == Go("prototype")
             g == Go("function")
             h == [Frame EXCEPT !.go = "named"]
  <2>1. Do(<<f, g, h>>)
    BY <1>3 DEF assignment_statement, Running, Is, Prototype
  <2>2. f.go = "prototype" /\ "go" \in DOMAIN f /\ g.go = "function" /\ "go" \in DOMAIN g
    BY DEF Go
  <2>3. h.go = "named" /\ "go" \in DOMAIN h
    BY <1>1, Moved DEF Places, Bottoms, IsInner
  <2> HIDE DEF f, g, h
  <2>4. /\ IsInner(f) /\ IsCall(f, tokens') /\ Gives(f) = "prototype" /\ Takes(f) = "nothing"
        /\ Begins(f, value, tokens') /\ f.go # "statement"
    BY <2>2, PrototypeFrame, Taken DEF PrototypePlaces, FreshPlaces
  <2>5. IsInner(g) /\ IsCall(g, tokens') /\ Gives(g) = "expression" /\ Takes(g) = "prototype"
    BY <2>2, PlainFrame, Taken
  <2>6. IsInner(h) /\ IsCall(h, tokens') /\ Gives(h) = "statement" /\ Takes(h) = "expression"
    BY <2>3, StatementFrame, Taken DEF StatementPlaces, TakingPlaces
  <2>7. Fits(f, g) /\ Fits(g, h) /\ Replaces(h, Frame)
    BY <1>1, <2>4, <2>5, <2>6 DEF Fits, Suits, Replaces
  <2>8. QED
    BY <1>1, <2>1, <2>4, <2>5, <2>6, <2>7, DidThree DEF SoundAfter
<1>4. CASE Frame.go = "assignment" /\ ~Is("extern") /\ ~Is("fn")
  <2> DEFINE g == [Frame EXCEPT !.go = "assigned"]
  <2>1. Do(<<Precedence(1), g>>)
    BY <1>4 DEF assignment_statement, Running, Expression
  <2>2. g.go = "assigned" /\ "go" \in DOMAIN g
    BY <1>1, Moved DEF Places, Bottoms, IsInner
  <2> HIDE DEF g
  <2>3. QED
    BY <1>1, <2>1, <2>2, StatementAsks
<1>5. CASE Frame.go = "assigned"
  <2>1. Return(Tree("ASSIGNMENT", Frame.name, <<NULL, value>>))
    BY <1>5 DEF assignment_statement, Running
  <2>2. QED
    BY <1>1, <2>1, TreesMade, StatementReturns
<1>6. QED
  BY <1>1, <1>2, <1>3, <1>4, <1>5

LEMMA TypeReads == ASSUME Reads, type_declaration PROVE SoundAfter
<1>1. Frame.go \in {"type", "type_name", "type_value", "type_is"} /\ Frame.go \in StatementPlaces
      /\ Under /\ IsInner(Frame) /\ Gives(Frame) = "statement"
  <2>1. Frame.go \in {"type", "type_name", "type_value", "type_is"}
        /\ Frame.go \in StatementPlaces
    BY DEF type_declaration, Running, StatementPlaces
  <2>2. QED
    BY <2>1, Given DEF Reads, Under
<1>2. CASE Frame.go = "type"
  <2> DEFINE f == [go |-> "type_name", name |-> current.word]
  <2>1. Do(<<f>>)
    BY <1>2, NoRemark DEF type_declaration, Running
  <2>2. f.go = "type_name" /\ "go" \in DOMAIN f
    OBVIOUS
  <2> HIDE DEF f
  <2>3. QED
    BY <1>1, <2>1, <2>2, StatementMoves DEF StatementPlaces, FreshPlaces
<1>3. CASE Frame.go = "type_name"
  <2> DEFINE f == [Frame EXCEPT !.go = "type_value"]
  <2>1. Do(<<f>>)
    BY <1>3, NoRemark DEF type_declaration, Running
  <2>2. f.go = "type_value" /\ "go" \in DOMAIN f
    BY <1>1, Moved DEF Places, Bottoms, IsInner
  <2> HIDE DEF f
  <2>3. QED
    BY <1>1, <2>1, <2>2, StatementMoves DEF StatementPlaces, FreshPlaces
<1>4. CASE Frame.go = "type_value"
  <2> DEFINE f == Go("prototype")
             g == [Frame EXCEPT !.go = "type_is"]
  <2>1. Do(<<f, g>>) \/ Do(<<Precedence(1), g>>)
    BY <1>4 DEF type_declaration, Running, Expression, Prototype
  <2>2. f.go = "prototype" /\ "go" \in DOMAIN f
    BY DEF Go
  <2>3. g.go = "type_is" /\ "go" \in DOMAIN g
    BY <1>1, Moved DEF Places, Bottoms, IsInner
  <2> HIDE DEF f, g
  <2>4. Do(<<Precedence(1), g>>) => SoundAfter
    BY <1>1, <2>3, StatementAsks
  <2>5. /\ IsInner(f) /\ IsCall(f, tokens') /\ Takes(f) = "nothing"
        /\ Begins(f, value, tokens') /\ f.go # "statement"
    BY <2>2, PrototypeFrame, Taken DEF PrototypePlaces, FreshPlaces
  <2>6. IsInner(g) /\ IsCall(g, tokens') /\ Gives(g) = "statement" /\ Takes(g) = "anything"
    BY <2>3, StatementFrame, Taken DEF StatementPlaces
  <2>7. Fits(f, g) /\ Replaces(g, Frame)
    BY <1>1, <2>6 DEF Fits, Suits, Replaces
  <2>8. Do(<<f, g>>) => SoundAfter
    BY <1>1, <2>5, <2>6, <2>7, DidTwo DEF SoundAfter
  <2>9. QED
    BY <2>1, <2>4, <2>8
<1>5. CASE Frame.go = "type_is"
  <2>1. Return(Tree("TYPE_DECLARATION", Frame.name, <<value>>))
    BY <1>5 DEF type_declaration, Running
  <2>2. QED
    BY <1>1, <2>1, TreesMade, StatementReturns
<1>6. QED
  BY <1>1, <1>2, <1>3, <1>4, <1>5

LEMMA ImportReads == ASSUME Reads, import_module PROVE SoundAfter
<1>1. Frame.go \in {"import", "import_end"} /\ Frame.go \in StatementPlaces
  BY DEF import_module, Running, StatementPlaces
<1>2. CASE Frame.go = "import"
  <2> DEFINE f == [go |-> "import_end", name |-> current.word]
  <2>1. Do(<<f>>)
    BY <1>2, NoRemark DEF import_module, Running
  <2>2. f.go = "import_end" /\ "go" \in DOMAIN f
    OBVIOUS
  <2> HIDE DEF f
  <2>3. QED
    BY <1>1, <2>1, <2>2, StatementMoves DEF StatementPlaces, FreshPlaces
<1>3. CASE Frame.go = "import_end"
  <2>1. \E tag \in {"IMPORT_LIB", "IMPORT"} : Return(Tree(tag, Frame.name, <<>>))
    BY <1>3 DEF import_module, Running
  <2>2. QED
    BY <1>1, <2>1, TreesMade, StatementReturns
<1>4. QED
  BY <1>1, <1>2, <1>3

\* The calls at the bottom.
LEMMA FirstFits ==
  ASSUME NEW f, "go" \in DOMAIN f, f.go \in Bottoms, NEW toks
  PROVE  Fitting(<<f>>, toks) /\ Stacked(<<f>>) /\ Head(<<f>>) = f
<1>1. /\ <<f>> \in Seq({f}) /\ DOMAIN <<f>> = {1} /\ <<f>>[1] = f /\ Len(<<f>>) = 1
      /\ Head(<<f>>) = f
  OBVIOUS
<1>2. IsCall(f, toks)
  BY DEF IsCall, Bottoms, ClimbingPlaces, ListPlaces, BlockPlaces
<1>3. Fitting(<<f>>, toks)
  BY <1>1, <1>2 DEF Fitting
<1>4. Stacked(<<f>>)
  BY <1>1, SequenceOf DEF Stacked, IsBottom
<1>5. QED
  BY <1>1, <1>3, <1>4

LEMMA FirstIsReady ==
  ASSUME NEW p \in {"main", "program"}, NEW v, NEW toks
  PROVE  Sound(<<Go(p)>>, v, toks)
<1>1. Go(p).go = p /\ "go" \in DOMAIN Go(p)
  BY DEF Go
<1>2. Fitting(<<Go(p)>>, toks) /\ Head(<<Go(p)>>) = Go(p)
  BY <1>1, FirstFits DEF Bottoms
<1>3. Takes(Go(p)) = "nothing" /\ Begins(Go(p), v, toks) /\ Go(p).go # "statement"
  BY <1>1 DEF Takes, Begins, ClimbingPlaces
<1>4. QED
  BY <1>2, <1>3 DEF Sound, IsReady, Holds

LEMMA BottomReads ==
  ASSUME Stacked(calls), IsBottom(Frame), EnterMain \/ NextStatement \/ PushStatement,
         Sound(calls, value, tokens)
  PROVE  SoundAfter
<1>1. Tail(calls) = <<>> /\ tokens' = tokens
  <2>1. IsSequence(calls) /\ calls # <<>> /\ Len(calls) \in Nat /\ DOMAIN calls = 1 .. Len(calls)
    BY DEF Stacked, IsSequence
  <2>2. Frame = calls[1] /\ 1 \in DOMAIN calls
    BY <2>1 DEF Frame, IsSequence
  <2>3. Len(calls) = 1
    BY <2>1, <2>2 DEF Stacked, IsInner, IsBottom
  <2>4. calls = <<calls[1]>>
    BY <2>1, <2>3, SingletonSequence DEF IsSequence
  <2>5. \A x : Tail(<<x>>) = <<>>
    OBVIOUS
  <2>6. Tail(calls) = <<>>
    BY <2>4, <2>5
  <2>7. tokens' = tokens
    BY DEF EnterMain, NextStatement, PushStatement, Stay
  <2>8. QED
    BY <2>6, <2>7
<1>2. CASE calls' = calls /\ value' = value
  BY <1>1, <1>2 DEF SoundAfter
<1>3. CASE Do(<<Go("program")>>)
  <2>1. <<Go("program")>> \o <<>> = <<Go("program")>>
    OBVIOUS
  <2>2. calls' = <<Go("program")>>
    BY <1>1, <1>3, <2>1 DEF Do
  <2>3. QED
    BY <2>2, FirstIsReady DEF SoundAfter
<1>4. CASE Do(<<Go("statement"), Go("program_push")>>)
  <2> DEFINE f == Go("statement")
             g == Go("program_push")
  <2>1. <<f, g>> \o <<>> = <<f>> \o <<g>>
    OBVIOUS
  <2>2. calls' = <<f>> \o <<g>>
    BY <1>1, <1>4, <2>1 DEF Do
  <2>3. f.go = "statement" /\ "go" \in DOMAIN f /\ g.go = "program_push" /\ "go" \in DOMAIN g
    BY DEF Go
  <2> HIDE DEF f, g
  <2>4. Fitting(<<g>>, tokens') /\ Stacked(<<g>>) /\ Head(<<g>>) = g
    BY <2>3, FirstFits DEF Bottoms
  <2>5. IsCall(f, tokens') /\ Begins(f, value', tokens') /\ Takes(f) = "nothing" /\ Fits(f, g)
    BY <2>3, StatementFrame, Taken DEF StatementPlaces, FreshPlaces, Fits, Suits
  <2>6. /\ Fitting(<<f>> \o <<g>>, tokens')
        /\ Head(<<f>> \o <<g>>) = f /\ Tail(<<f>> \o <<g>>) = <<g>>
    BY <2>4, <2>5, OneMoreFits
  <2>7. Holds(Takes(f), value', tokens')
    BY <2>5 DEF Holds
  <2>8. QED
    BY <2>2, <2>3, <2>4, <2>5, <2>6, <2>7 DEF SoundAfter, Sound, IsReady
<1>5. QED
  BY <1>2, <1>3, <1>4 DEF EnterMain, NextStatement, PushStatement

LEMMA ExpressionStepReads == ASSUME Reads, ParseExpression PROVE SoundAfter
BY EnterPrecedenceReads, NoRemark, LiteralReads, UnaryReads, InfixReads, NoInfixReads,
   EnterBinaryReads, OperatorReads, MemberReads, AssignReads, NextMemberReads, EndMemberReads,
   AfterMemberReads, GroupingReads, ArrayReads, CallReads, IndexReads, NextInBlockReads,
   PushReads, EndBlockReads, ScopedBlockReads, FnBodyReads, IfReads, TernaryReads,
   EnterMatchReads, NextArmReads, EndArmReads
DEF ParseExpression, NoPrefix

LEMMA StatementStepReads ==
  ASSUME Reads, ParseStatement, ~EnterMain, ~NextStatement, ~PushStatement
  PROVE  SoundAfter
BY EnterPrototypeReads, NextParameterReads, VariableArgumentsReads, EndParameterReads,
   ResultTypeReads, FunctionReads, NamedFunctionReads, ExternReads, StructReads, StatementReads,
   LetReads, AssignmentReads, TypeReads, ImportReads
DEF ParseStatement

-----------------------------------------------------------------------------
(* Undefined behaviour has a cause.                                        *)

\* A step that goes on scans a token or none.
Proceeds == Advance \/ Stay

LEMMA AdvanceIfProceeds == ASSUME NEW c, AdvanceIf(c) PROVE Proceeds
BY DEF AdvanceIf, Proceeds

LEMMA ExpressionProceeds ==
  ASSUME Reads, ParseExpression
  PROVE  Proceeds
<1>1. ASSUME EnterPrecedence \/ NoPrefix \/ Literal \/ parse_unary \/ Infix \/ EnterBinary
             \/ Operator
      PROVE  Proceeds
  BY <1>1 DEF EnterPrecedence, NoPrefix, Literal, parse_unary, Infix, EnterBinary, Operator, Proceeds
<1>2. ASSUME NextMember \/ EndMember \/ AfterMember \/ parse_grouping \/ parse_array
             \/ parse_call \/ parse_index_access \/ NextInBlock \/ Push \/ EndBlock
             \/ parse_scoped_block \/ parse_fn_body
      PROVE  Proceeds
  BY <1>2, AdvanceIfProceeds DEF NextMember, EndMember, AfterMember, parse_grouping, parse_array,
    parse_call, parse_index_access, NextInBlock, Push, EndBlock, parse_scoped_block,
    parse_fn_body, Proceeds
<1>3. ASSUME if_expression \/ parse_ternary \/ NextArm \/ EndArm PROVE Proceeds
  BY <1>3, AdvanceIfProceeds DEF if_expression, parse_ternary, NextArm, EndArm, Proceeds
<1>4. ~NoInfix
  BY NoInfixReads
<1>5. ASSUME Member PROVE Proceeds
  <2>1. value.tag = "IDENTIFIER"
    BY <1>5 DEF Member, Binary, Running, Reads, Takes, Holds
  <2>2. QED
    BY <1>5, <2>1 DEF Member, CanBeCopied, NamedTags, Proceeds
<1>6. ASSUME Assign PROVE Proceeds
  <2>1. Frame.left # NULL
    BY <1>6, TreeIsNotNull DEF Assign, Binary, Running, Reads, IsCall
  <2>2. QED
    BY <1>6, <2>1 DEF Assign, Proceeds
<1>7. ASSUME EnterMatch PROVE Proceeds
  <2>1. Running("candidate") => value # NULL
    BY Taken, TreeIsNotNull DEF Running, Reads, Holds, TakingPlaces
  <2>2. QED
    BY <1>7, <2>1, AdvanceIfProceeds DEF EnterMatch, Proceeds
<1>8. QED
  BY <1>1, <1>2, <1>3, <1>4, <1>5, <1>6, <1>7 DEF ParseExpression

LEMMA StatementProceeds ==
  ASSUME Reads, ParseStatement, ~EnterMain, ~NextStatement, ~PushStatement
  PROVE  Proceeds
<1>1. ASSUME EnterPrototype \/ NextParameter \/ VariableArguments \/ EndParameter \/ ResultType
             \/ parse_function \/ parse_extern_function \/ parse_struct
      PROVE  Proceeds
  BY <1>1, AdvanceIfProceeds DEF EnterPrototype, NextParameter, VariableArguments, EndParameter,
    ResultType, parse_function, parse_extern_function, parse_struct, Proceeds
<1>2. ASSUME Statement \/ assignment_statement \/ type_declaration \/ import_module PROVE Proceeds
  BY <1>2, AdvanceIfProceeds DEF Statement, assignment_statement, type_declaration, import_module,
    Proceeds
<1>3. ASSUME parse_named_function PROVE Proceeds
  <2>1. value # NULL
    BY <1>3, Taken, TreeIsNotNull DEF parse_named_function, Running, Reads, Holds, TakingPlaces
  <2>2. QED
    BY <1>3, <2>1 DEF parse_named_function, Proceeds
<1>4. ASSUME let_statement PROVE Proceeds
  <2>1. Running("let_type") => value # NULL
    BY Taken, TreeIsNotNull DEF Running, Reads, Holds, TakingPlaces
  <2>2. QED
    BY <1>4, <2>1 DEF let_statement, Proceeds
<1>5. QED
  BY <1>1, <1>2, <1>3, <1>4 DEF ParseStatement

\* What excuses undefined behaviour goes on to excuse it.
LEMMA ExcuseStays ==
  ASSUME ScanInv, EndInv, TypeInv, Next, Excused
  PROVE  Excused'
<1>1. IsSequence(tokens) /\ tokens # <<>>
  BY DEF ScanInv
<1>2. CASE complained \/ lapses # {}
  BY <1>2, StepRemarks DEF Remarks, Excused, TypeInv
<1>3. CASE Is("EOF")
  <2>1. at = End
    BY <1>3 DEF EndInv, Is
  <2>2. scan_token(End) = Token("EOF", End, End, <<>>)
    BY DEF scan_token
  <2>3. Advance => current'.type = "EOF"
    BY <2>1, <2>2 DEF Advance, Token
  <2>4. Kept => current'.type = "EOF"
    BY <1>3 DEF Kept, Is
  <2>5. QED
    BY <2>3, <2>4, StepScans DEF Scans, Excused, Is
<1>4. CASE \E k \in DOMAIN tokens : IsStray(tokens, k)
  <2>1. PICK k \in DOMAIN tokens : IsStray(tokens, k)
    BY <1>4
  <2>2. k \in DOMAIN tokens' /\ IsStray(tokens', k)
    <3>1. CASE Advance
      <4>1. tokens' = Append(tokens, scan_token(at))
        BY <3>1 DEF Advance
      <4>2. QED
        BY <1>1, <2>1, <4>1, TokenAdded
    <3>2. CASE Kept
      BY <2>1, <3>2 DEF Kept
    <3>3. QED
      BY <3>1, <3>2, StepScans DEF Scans
  <2>3. QED
    BY <2>2 DEF Excused
<1>5. QED
  BY <1>2, <1>3, <1>4 DEF Excused

\* The token that is read now, and the ones of the next step.
LEMMA NowIsCurrent == ScanInv => current.type = Now(tokens)
<1> SUFFICES ASSUME ScanInv PROVE current.type = Now(tokens)
  OBVIOUS
<1>1. Len(tokens) \in DOMAIN tokens /\ current = tokens[Len(tokens)]
  BY DEF ScanInv, IsSequence
<1>2. QED
  BY <1>1 DEF Now, TypeIn

LEMMA TokensProceed ==
  ASSUME ScanInv, Next
  PROVE  /\ HasBar(tokens) => HasBar(tokens')
         /\ Advance => Last1(tokens') = Now(tokens) /\ Last2(tokens') = Last1(tokens)
         /\ previous.type = Last1(tokens) => previous'.type = Last1(tokens')
<1>1. IsSequence(tokens) /\ tokens # <<>> /\ current.type = Now(tokens)
  BY NowIsCurrent DEF ScanInv
<1>2. CASE Advance
  <2>1. tokens' = Append(tokens, scan_token(at)) /\ previous' = current
    BY <1>2 DEF Advance
  <2>2. QED
    BY <1>1, <2>1, TokenAdded
<1>3. CASE Kept /\ ~Advance
  BY <1>3 DEF Kept
<1>4. QED
  BY <1>2, <1>3, StepScans DEF Scans

\* A step without an excuse is one of the lemmas above.
LEMMA ReadsNext ==
  ASSUME ScanInv, ScanInv', TypeInv, ReadInv, Next, ~Excused, ~Excused'
  PROVE  phase' # "undefined" /\ SoundAfter
<1>1. phase = "parse" /\ Sound(calls, value, tokens) /\ Stacked(calls)
  BY StepScans DEF Scans, ReadInv, TypeInv
<1>2. IsInner(Frame) \/ IsBottom(Frame)
  <2>1. Frame = calls[1] /\ 1 \in DOMAIN calls
    BY <1>1 DEF Stacked, IsSequence, Frame
  <2>2. QED
    BY <1>1, <2>1 DEF Stacked
<1>3. CASE EnterMain \/ NextStatement \/ PushStatement
  <2>1. Frame.go \in Bottoms
    BY <1>3 DEF EnterMain, NextStatement, PushStatement, Running, Bottoms
  <2>2. phase' # "undefined"
    BY <1>1, <1>3 DEF EnterMain, NextStatement, PushStatement, Stay
  <2>3. QED
    BY <1>1, <1>2, <1>3, <2>1, <2>2, BottomReads DEF IsInner
<1>4. CASE ~EnterMain /\ ~NextStatement /\ ~PushStatement
  <2>1. Frame.go \notin Bottoms
    BY <1>4, ExpressionIsInner, ListIsInner, ConditionalIsInner, FunctionIsInner, StatementIsInner
    DEF Next, ParseExpression, ParseStatement
  <2>2. Under
    BY <1>1, <1>2, <2>1, TokensProceed DEF IsBottom, Under, Sound
  <2>3. IsClear(tokens)
    BY LastIsClear, NowIsCurrent DEF ScanInv, Excused, Is
  <2>4. IsClear(tokens')
    <3>1. IsSequence(tokens') /\ tokens' # <<>> /\ current' = tokens'[Len(tokens')]
      BY DEF ScanInv
    <3>2. Now(tokens') = current'.type
      BY <3>1 DEF IsSequence, Now, TypeIn
    <3>3. current'.type # "EOF" /\ \A k \in DOMAIN tokens' : ~IsStray(tokens', k)
      BY DEF Excused, Is
    <3>4. QED
      BY <3>1, <3>2, <3>3, LastIsClear
  <2>5. ~complained' /\ lapses' = {}
    BY DEF Excused
  <2>6. /\ IsCall(Frame, tokens) /\ Holds(Takes(Frame), value, tokens)
        /\ Begins(Frame, value, tokens)
        /\ Frame.go = "statement" /\ Head(Tail(calls)).go = "push" => Now(tokens) # "NL"
    <3>1. Frame = calls[1] /\ 1 \in DOMAIN calls
      BY <1>1 DEF Stacked, IsSequence, Frame
    <3>2. QED
      BY <1>1, <3>1 DEF Sound, Fitting, IsReady, Frame
  <2>7. Reads
    BY <2>2, <2>3, <2>4, <2>5, <2>6, TokensProceed, NowIsCurrent DEF Reads, ReadInv
  <2>8. SoundAfter
    BY <1>4, <2>7, ExpressionStepReads, StatementStepReads DEF Next
  <2>9. Proceeds
    BY <1>4, <2>7, ExpressionProceeds, StatementProceeds DEF Next
  <2>10. QED
    BY <1>1, <2>8, <2>9 DEF Proceeds, Advance, Stay
<1>5. QED
  BY <1>3, <1>4

LEMMA ReadInvHolds == Spec => []ReadInv
<1>1. Init /\ ScanInv => ReadInv
  <2> SUFFICES ASSUME Init, ScanInv PROVE ReadInv
    OBVIOUS
  <2>1. /\ tokens = <<current>> /\ previous.type = "START" /\ calls = <<Go("main")>>
        /\ phase # "undefined"
    BY DEF Init, Token
  <2>2. Len(<<current>>) = 1 /\ DOMAIN <<current>> = {1}
    OBVIOUS
  <2>3. previous.type = Last1(tokens)
    BY <2>1, <2>2 DEF Last1, TypeIn
  <2>4. Sound(calls, value, tokens)
    BY <2>1, FirstIsReady
  <2>5. QED
    BY <2>1, <2>3, <2>4 DEF ReadInv
<1>2. ScanInv /\ ScanInv' /\ EndInv /\ TypeInv /\ ReadInv /\ [Next]_vars => ReadInv'
  <2> SUFFICES ASSUME ScanInv, ScanInv', EndInv, TypeInv, ReadInv, [Next]_vars PROVE ReadInv'
    OBVIOUS
  <2>1. CASE Next
    <3>1. previous'.type = Last1(tokens')
      BY <2>1, TokensProceed DEF ReadInv
    <3>2. Excused' \/ (phase' # "undefined" /\ SoundAfter)
      BY <2>1, ExcuseStays, ReadsNext
    <3>3. QED
      BY <3>1, <3>2 DEF ReadInv, SoundAfter
  <2>2. CASE UNCHANGED vars
    BY <2>2 DEF vars, ReadInv, Excused, Is
  <2>3. QED
    BY <2>1, <2>2
<1>3. QED
  BY <1>1, <1>2, ScanInvHolds, EndInvHolds, TypeInvHolds, PTL DEF Spec

\* The parser reads NULL, or calls a rule that is not there, only after a message or a
\* lapse, when the text ends too early, after a block that is empty, at a name after an
\* operand, or at a member that is no name (parse_precedence, let_statement, and whoever
\* takes a value that may be NULL).
THEOREM UndefinedCaused == Spec => []UndefinedHasCause
<1>1. ScanInv /\ ReadInv => UndefinedHasCause
  <2> SUFFICES ASSUME ScanInv, ReadInv, phase = "undefined",
                      ~complained, lapses = {}, ~Is("EOF")
               PROVE  \E k \in DOMAIN tokens :
                        \/ NameAfterOperand(k)
                        \/ Type(k) = "LEFT_BRACE" /\ Type(k + 1) \in {"NL", "RIGHT_BRACE"}
                        \/ Type(k) = "DOT" /\ Type(k + 1) # "IDENTIFIER"
    BY DEF UndefinedHasCause
  <2>1. PICK k \in DOMAIN tokens : IsStray(tokens, k)
    BY DEF ReadInv, Excused
  <2>2. \A j : Type(j) = TypeIn(tokens, j)
    BY DEF Type, TypeIn
  <2>3. k \in Int /\ (k - 1) + 1 = k
    BY DEF ScanInv, IsSequence
  <2>4. CASE TypeIn(tokens, k - 1) \in {"LEFT_BRACE", "DOT"}
    <3>1. k - 1 \in DOMAIN tokens
      BY <2>4 DEF TypeIn
    <3>2. QED
      BY <2>1, <2>2, <2>3, <2>4, <3>1 DEF IsStray, NameAfterOperand
  <2>5. CASE TypeIn(tokens, k - 1) \notin {"LEFT_BRACE", "DOT"}
    BY <2>1, <2>2, <2>5 DEF IsStray, NameAfterOperand
  <2>6. QED
    BY <2>4, <2>5
<1>2. QED
  BY <1>1, ScanInvHolds, ReadInvHolds, PTL

=============================================================================
