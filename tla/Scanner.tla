------------------------------ MODULE Scanner -------------------------------
(***************************************************************************)
(* scan.c: from characters to tokens.                                      *)
(*                                                                         *)
(* A text is a sequence of characters, where a whole keyword may stand for *)
(* its letters.  A character that is put back is read again: the scanner   *)
(* is at a place in the text, and the place does not move.  Left out are   *)
(* the lines of the preprocessor, string literals, the positions of        *)
(* tokens, the limit on the length of identifiers, and what the later      *)
(* phases have no code for: constants with a point or an exponent, ".",    *)
(* brackets, and the keywords of other constructs.                         *)
(***************************************************************************)
EXTENDS Expressions, TLC

CONSTANTS
  Letters,   \* isalpha
  Digits     \* a function from digits to their values

Blanks   == {" ", "\n"}
Keywords ==
  {"int", "long", "signed", "unsigned", "static", "extern", "if", "else", "while", "do",
   "for", "return", "goto", "break", "continue", "case", "default", "switch"}

Letter(c) == c \in Letters \cup Keywords
Digit(c)  == c \in DOMAIN Digits
InWord(c) == Letter(c) \/ Digit(c)

\* next_char at a place
At(s, i) == IF i > Len(s) THEN "EOF" ELSE s[i]

Token(k, v) == [k |-> k, v |-> v]

-----------------------------------------------------------------------------

\* the first place from i on where a comment of a kind ends, 0 without one
After(s, i, End(_)) ==
  LET ends == {k \in i .. Len(s) : End(k)}
  IN  IF ends = {} THEN 0 ELSE 1 + CHOOSE k \in ends : \A m \in ends : k <= m

\* bug: the star that opens a comment may close it
AfterCommentSlash(s, i) == After(s, i, LAMBDA k : s[k - 1] = "*" /\ s[k] = "/")

\* the star in front of the slash belongs to the comment
AfterComment(s, i) == After(s, i + 1, LAMBDA k : s[k - 1] = "*" /\ s[k] = "/")

AfterLine(s, i) ==
  LET k == After(s, i, LAMBDA m : s[m] = "\n") IN IF k = 0 THEN Len(s) + 1 ELSE k

\* skip_whitespaces: where the next token begins, 0 in an open comment
RECURSIVE Skip(_, _)
Skip(s, i) ==
  CASE At(s, i) \in Blanks -> Skip(s, i + 1)
    [] At(s, i) = "/" /\ At(s, i + 1) = "/" -> Skip(s, AfterLine(s, i + 2))
    [] At(s, i) = "/" /\ At(s, i + 1) = "*" ->
         IF AfterComment(s, i + 2) = 0 THEN 0 ELSE Skip(s, AfterComment(s, i + 2))
    [] OTHER -> i

-----------------------------------------------------------------------------

\* the characters that double_tok and triple_tok look for
Goes ==
  [c \in {"+", "-", "&", "|"} |-> {"=", c}] @@ [c \in {"*", "/", "%", "^", "!", "="} |-> {"="}]

Singles == {"~", "?", ":", ";", "{", "}", "(", ")", ","}

\* where the punctuator at i ends, i itself if there is none
PunctEnd(s, i) ==
  LET c == At(s, i)
  IN  CASE c \in Singles -> i + 1
        [] c \in DOMAIN Goes -> IF At(s, i + 1) \in Goes[c] THEN i + 2 ELSE i + 1
        [] c \in {"<", ">"} ->
             IF At(s, i + 1) = "=" THEN i + 2
             ELSE IF At(s, i + 1) # c THEN i + 1
             ELSE IF At(s, i + 2) = "=" THEN i + 3 ELSE i + 2
        [] OTHER -> i

\* the first place from i on whose character is not one of a kind
EndOf(s, i, Kind(_)) ==
  CHOOSE k \in i .. Len(s) + 1 : ~Kind(At(s, k)) /\ \A m \in i .. k - 1 : Kind(s[m])

RECURSIVE Spelling(_, _, _), Decimal(_, _, _)
Spelling(s, i, end) == IF i = end THEN "" ELSE s[i] \o Spelling(s, i + 1, end)

\* ival, a uint64_t: it wraps, and nothing tells that it did
Decimal(s, i, end) ==
  IF i = end THEN 0 ELSE Low(10 * Decimal(s, i, end - 1) + Digits[s[end - 1]], "quad")

\* scan_ident and is_keyword
Word(s, i, end) ==
  LET w == Spelling(s, i, end)
  IN  IF w \in Keywords THEN Token(w, 0) ELSE Token("ident", w)

\* convert_int_suff
SuffixKinds ==
  ("" :> "NONE") @@ ("u" :> "U") @@ ("l" :> "L") @@ ("ul" :> "UL") @@ ("lu" :> "UL") @@ ("ll" :> "LL")

Refused == [ok |-> FALSE, toks |-> << >>]

\* next, up to the end of the text; scan_const is the case of a digit
RECURSIVE Tokens(_, _)
Tokens(s, from) ==
  LET i      == Skip(s, from)
      digits == EndOf(s, i, Digit)
      suff   == EndOf(s, digits, LAMBDA c : c \in {"u", "l"})
      word   == EndOf(s, i, InWord)
      Scanned(t, end) ==
        LET more == Tokens(s, end)
        IN  IF more.ok THEN [more EXCEPT !.toks = <<t>> \o @] ELSE Refused
  IN  CASE i = 0 -> Refused
        [] i # 0 /\ At(s, i) = "EOF" -> [ok |-> TRUE, toks |-> <<Token("EOF", 0)>>]
        [] Letter(At(s, i)) -> Scanned(Word(s, i, word), word)
        [] Digit(At(s, i)) ->
             IF Spelling(s, digits, suff) \in DOMAIN SuffixKinds /\ ~Letter(At(s, suff))
             THEN Scanned(Token("const", [v |-> Decimal(s, i, digits),
                                          suff |-> SuffixKinds[Spelling(s, digits, suff)]]), suff)
             ELSE Refused
        [] OTHER ->
             IF PunctEnd(s, i) = i
             THEN Refused
             ELSE Scanned(Token(Spelling(s, i, PunctEnd(s, i)), 0), PunctEnd(s, i))

\* the whole text
Scan(s) == Tokens(s, 1)

=============================================================================
