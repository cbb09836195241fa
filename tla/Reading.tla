------------------------------ MODULE Reading -------------------------------
(***************************************************************************)
(* The text of a statement from its characters to its tree: the scanner    *)
(* (Scanner) finds the tokens, the parser (Parser) the structure.  A text  *)
(* either of them refuses ends the compiler.  Grammar says what a text is. *)
(***************************************************************************)
EXTENDS Grammar

CONSTANTS
  Texts      \* the texts

VARIABLES
  stage,     \* "text", "tokens", "tree" or "refused"
  text,      \* the characters
  toks,      \* their tokens
  tree       \* the statement, or None

vars == <<stage, text, toks, tree>>

Init ==
  /\ stage = "text"
  /\ text \in Texts
  /\ toks = << >>
  /\ tree = None

\* next, called for every token
ScanText ==
  /\ stage = "text"
  /\ LET r == Scan(text)
     IN  /\ toks' = r.toks
         /\ stage' = IF r.ok THEN "tokens" ELSE "refused"
  /\ UNCHANGED <<text, tree>>

\* parse_stmt, and nothing behind the statement
ParseTokens ==
  /\ stage = "tokens"
  /\ \E p \in {ParseStmt(Parsing(toks))} :
       /\ tree' = IF p.ok /\ Next1(p) = "EOF" THEN p.node ELSE None
       /\ stage' = IF tree' = None THEN "refused" ELSE "tree"
  /\ UNCHANGED <<text, toks>>

Next == ScanText \/ ParseTokens

Spec == Init /\ [][Next]_vars

-----------------------------------------------------------------------------

\* tokens of the scanner for the tokens of C; of a constant that no type holds
\* only the kind and the suffix are kept
Scans(ts) ==
  /\ Len(toks) = Len(ts)
  /\ \A n \in DOMAIN ts :
       \/ toks[n] = ts[n]
       \/ TooLarge(ts[n]) /\ toks[n].k = "const" /\ toks[n].v.suff = ts[n].v.suff

\* A text that has tokens in C is scanned into these: each the longest there
\* is, comments and blanks wherever they stand only separate them, keywords
\* are no identifiers, and constants keep their suffix, and their value if
\* some type holds it (scan_const adds up in a uint64_t and reports no more).
TokensMunched ==
  stage = "tokens" => \A ts \in Lexemes(text, 1) : Scans(ts)

\* some constant of the text is larger than every type
Overflows == \E ts \in Lexemes(text, 1) : \E n \in DOMAIN ts : TooLarge(ts[n])

\* Whatever the compiler refuses, in whichever phase, is no statement of C,
\* and a text it accepts is one, unless a constant in it is larger than every
\* type: it has the one tree the grammar gives it, operators bind as the
\* levels say, an assignment has an lvalue on its left, else belongs to the
\* nearest if.
TreeOfGrammar ==
  /\ stage = "tree" /\ ~Overflows => Trees(text) = {tree}
  /\ stage = "refused" => Trees(text) = {}

=============================================================================
