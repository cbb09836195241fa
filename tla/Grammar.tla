------------------------------ MODULE Grammar -------------------------------
(***************************************************************************)
(* What C says a text is (C99 6.4, 6.5 and 6.8), as sets of derivations:   *)
(* a token is the longest one there is, a tree is any that the grammar     *)
(* derives.  The subset is that of docs/ast.md: a case has a constant, a   *)
(* constant of type long long is none.                                     *)
(***************************************************************************)
EXTENDS Scanner, Parser, FiniteSetsExt

Punctuators ==
  {"+", "-", "*", "/", "%", "&", "|", "^", "~", "!", "=", "<", ">", "?", ":", ";", "{", "}",
   "(", ")", ",", "++", "--", "&&", "||", "<<", ">>", "==", "!=", "<=", ">=",
   "+=", "-=", "*=", "/=", "%=", "&=", "|=", "^=", "<<=", ">>="}

Part(s, i, j) == SubSeq(s, i, j)

\* the text between two places as one string
Text(s, i, j) == Spelling(s, i, j + 1)

\* a comment is as good as a blank; ends are the places where one may end
CommentEnds(s, i) ==
  CASE Text(s, i, i + 1) = "/*" ->
         {k \in i + 3 .. Len(s) : s[k - 1] = "*" /\ s[k] = "/"}
    [] Text(s, i, i + 1) = "//" -> {k \in i + 2 .. Len(s) : s[k] = "\n"} \cup {Len(s)}
    [] OTHER -> {}

IsName(s, i, j) == Letter(s[i]) /\ \A k \in i .. j : InWord(s[k])

\* what begins like a number goes on as long as letters and digits do
IsNumber(s, i, j) == Digit(s[i]) /\ \A k \in i .. j : InWord(s[k])

\* the number some digits stand for, however large
RECURSIVE NumberOf(_, _, _)
NumberOf(s, i, j) == IF j < i THEN 0 ELSE 10 * NumberOf(s, i, j - 1) + Digits[s[j]]

\* the value and the suffix of a constant, or none
Constants(s, i, j) ==
  {Token("const", [v |-> NumberOf(s, i, k), suff |-> SuffixKinds[Text(s, k + 1, j)]]) :
     k \in {m \in i .. j : /\ \A n \in i .. m : Digit(s[n])
                           /\ Text(s, m + 1, j) \in DOMAIN SuffixKinds}}

IsToken(s, i, j) ==
  IsName(s, i, j) \/ IsNumber(s, i, j) \/ Text(s, i, j) \in Punctuators

\* the tokens from place i on: a set with at most one sequence
RECURSIVE Lexemes(_, _)
Lexemes(s, i) ==
  LET ends == {j \in i .. Len(s) : IsToken(s, i, j)}
      j    == Max(ends)
      Then(ts) == {<<t>> \o more : t \in ts, more \in Lexemes(s, j + 1)}
  IN  CASE i > Len(s) -> {<<Token("EOF", 0)>>}
        [] i <= Len(s) /\ s[i] \in Blanks -> Lexemes(s, i + 1)
        [] i < Len(s) /\ Text(s, i, i + 1) \in {"/*", "//"} ->
             IF CommentEnds(s, i) = {} THEN {} ELSE Lexemes(s, Min(CommentEnds(s, i)) + 1)
        [] OTHER ->
             CASE ends = {} -> {}
               [] ends # {} /\ Digit(s[i]) -> Then(Constants(s, i, j))
               [] ends # {} /\ Letter(s[i]) ->
                    Then({IF Text(s, i, j) \in Keywords
                          THEN Token(Text(s, i, j), 0) ELSE Token("ident", Text(s, i, j))})
               [] OTHER -> Then({Token(Text(s, i, j), 0)})

\* a constant that no type holds
TooLarge(t) == t.k = "const" /\ t.v.v >= 2^QuadBits

-----------------------------------------------------------------------------

\* the places of tokens of some kinds in s, with tokens on both sides
Splits(s, kinds) == {k \in 2 .. Len(s) - 1 : s[k].k \in kinds}

Before(s, k) == Part(s, 1, k - 1)
Behind(s, k) == Part(s, k + 1, Len(s))
Inside(s) == Part(s, 2, Len(s) - 1)
Bracketed(s) == Len(s) > 2 /\ s[1].k = "(" /\ s[Len(s)].k = ")"

\* the operators of the levels of C99 6.5.5 to 6.5.14, from the loosest on
Levels ==
  <<{"||"}, {"&&"}, {"|"}, {"^"}, {"&"}, {"==", "!="}, {"<", ">", "<=", ">="},
    {"<<", ">>"}, {"+", "-"}, {"*", "/", "%"}>>

\* type names: words in any order, long with int, with one sign
TypeOfWords(words) ==
  LET unsigned == "unsigned" \in words
      size     == IF "long" \in words THEN "long" ELSE "int"
  IN  IF ~unsigned THEN size ELSE IF size = "long" THEN "ulong" ELSE "uint"

TypeNames(s) ==
  LET words == {s[k].k : k \in DOMAIN s}
  IN  IF /\ words # {} /\ words \subseteq TypeWords /\ Cardinality(words) = Len(s)
         /\ Cardinality(words \cap {"signed", "unsigned"}) < 2
      THEN {TypeOfWords(words)} ELSE {}

\* the type of a constant is the first one that it fits
Candidates(suff) ==
  CASE suff = "NONE" -> <<"int", "long">>
    [] suff = "L"    -> <<"long">>
    [] suff = "U"    -> <<"uint", "ulong">>
    [] suff = "UL"   -> <<"ulong">>
    [] OTHER         -> << >>

MaxOf(t) ==
  CASE t = "int" -> 2^(LongBits - 1) - 1 [] t = "uint" -> 2^LongBits - 1
    [] t = "long" -> 2^(QuadBits - 1) - 1 [] t = "ulong" -> 2^QuadBits - 1

ConstantTrees(tok) ==
  LET ts   == Candidates(tok.v.suff)
      fits == {n \in DOMAIN ts : tok.v.v <= MaxOf(ts[n])}
  IN  IF fits = {} THEN {} ELSE {Const(tok.v.v, ts[Min(fits)])}

RECURSIVE Exprs(_), Conditionals(_), Level(_, _), Casts(_), Unaries(_), Postfixes(_), ArgLists(_)

\* assignment-expression, whose left operand is an lvalue
Exprs(s) ==
  Conditionals(s) \cup
  UNION {{Assign(AssignOps[s[k].k], l, r) :
            l \in {x \in Unaries(Before(s, k)) : x.k = "var"}, r \in Exprs(Behind(s, k))} :
         k \in Splits(s, DOMAIN AssignOps)}

Conditionals(s) ==
  Level(1, s) \cup
  UNION {UNION {{Ternary(c, l, r) :
                   c \in Level(1, Before(s, k)), l \in Exprs(Part(s, k + 1, m - 1)),
                   r \in Conditionals(Behind(s, m))} :
                m \in {n \in Splits(s, {":"}) : n > k + 1}} :
         k \in Splits(s, {"?"})}

Level(n, s) ==
  IF n > Len(Levels)
  THEN Casts(s)
  ELSE Level(n + 1, s) \cup
       UNION {{Binary(BinaryOps[s[k].k], l, r) :
                 l \in Level(n, Before(s, k)), r \in Level(n + 1, Behind(s, k))} :
              k \in Splits(s, Levels[n])}

Casts(s) ==
  Unaries(s) \cup
  UNION {{Cast(x, t) : t \in TypeNames(Part(s, 2, k - 1)), x \in Casts(Behind(s, k))} :
         k \in {m \in Splits(s, {")"}) : s[1].k = "("}}

Unaries(s) ==
  Postfixes(s) \cup
  (IF Len(s) > 1 /\ s[1].k \in {"-", "~", "!"}
   THEN {Unary(PrefixOps[s[1].k], x) : x \in Casts(Behind(s, 1))} ELSE {}) \cup
  (IF Len(s) > 1 /\ s[1].k \in {"++", "--"}
   THEN {Unary(PrefixOps[s[1].k], x) : x \in {y \in Unaries(Behind(s, 1)) : y.k = "var"}}
   ELSE {})

\* postfix-expression and primary-expression
Postfixes(s) ==
  CASE Len(s) = 1 /\ s[1].k = "ident" -> {Var(s[1].v, "")}
    [] Len(s) = 1 /\ s[1].k = "const" -> ConstantTrees(s[1])
    [] Len(s) > 1 /\ s[Len(s)].k \in DOMAIN PostfixOps ->
         {Unary(PostfixOps[s[Len(s)].k], x) :
            x \in {y \in Postfixes(Before(s, Len(s))) : y.k = "var"}}
    [] Bracketed(s) -> Exprs(Inside(s))
    [] Len(s) > 2 /\ s[1].k = "ident" /\ s[2].k = "(" /\ s[Len(s)].k = ")" ->
         {Call(s[1].v, args, "") :
            args \in IF Len(s) = 3 THEN {<< >>} ELSE ArgLists(Part(s, 3, Len(s) - 1))}
    [] OTHER -> {}

ArgLists(s) ==
  {<<x>> : x \in Exprs(s)} \cup
  UNION {{<<x>> \o more : x \in Exprs(Before(s, k)), more \in ArgLists(Behind(s, k))} :
         k \in Splits(s, {","})}

-----------------------------------------------------------------------------

\* a statement whose last part is an if without else
RECURSIVE Open(_)
Open(t) ==
  CASE t.k = "if" -> Len(t.body) = 1 \/ Open(t.body[2])
    [] t.k \in {"while", "for", "switch", "label", "case", "default"} -> Open(t.body[1])
    [] OTHER -> FALSE

OptionalExprs(s) == IF s = << >> THEN {None} ELSE Exprs(s)

\* s begins with the kinds
Starts(s, kinds) == Len(s) >= Len(kinds) /\ \A k \in DOMAIN kinds : s[k].k = kinds[k]

\* the places in s, from the n-th on, of tokens of a kind
Places(s, n, kind) == {k \in n .. Len(s) : s[k].k = kind}

RECURSIVE Stmts(_), ItemLists(_)

\* statements of the form: a keyword, a condition in parentheses, a statement
HeadedStmts(s) ==
  UNION {{Stmt(s[1].k, e, NoExprs, <<b>>) :
            e \in Exprs(Part(s, 3, k - 1)), b \in Stmts(Behind(s, k))} :
         k \in Places(s, 4, ")")}

\* an else belongs to the nearest if that may have it
IfElses(s) ==
  UNION {UNION {{Stmt("if", e, NoExprs, <<b, c>>) :
                   e \in Exprs(Part(s, 3, k - 1)),
                   b \in {t \in Stmts(Part(s, k + 1, m - 1)) : ~Open(t)},
                   c \in Stmts(Behind(s, m))} :
                m \in {n \in Places(s, 4, "else") : n > k}} :
         k \in Places(s, 4, ")")}

DoWhiles(s) ==
  UNION {{Stmt("do", e, NoExprs, <<b>>) :
            b \in Stmts(Part(s, 2, k - 1)), e \in Exprs(Part(s, k + 2, Len(s) - 2))} :
         k \in {m \in Places(s, 2, "while") : Starts(Behind(s, m), <<"(">>)
                                              /\ s[Len(s) - 1].k = ")" /\ s[Len(s)].k = ";"}}

Fors(s) ==
  UNION {{Stmt("for", c, <<i, p>>, <<b>>) :
            i \in OptionalExprs(Part(s, 3, at[1] - 1)),
            c \in OptionalExprs(Part(s, at[1] + 1, at[2] - 1)),
            p \in OptionalExprs(Part(s, at[2] + 1, at[3] - 1)),
            b \in Stmts(Behind(s, at[3]))} :
         at \in {t \in Places(s, 3, ";") \X Places(s, 3, ";") \X Places(s, 3, ")") :
                   t[1] < t[2] /\ t[2] < t[3]}}

Ends(s) == Len(s) > 1 /\ s[Len(s)].k = ";"

Stmts(s) ==
  LET body == Before(s, Len(s))
      Simple(k, es) == {Stmt(k, e, NoExprs, << >>) : e \in es}
      After1(k, e, n) == {Stmt(k, e, NoExprs, <<b>>) : b \in Stmts(Part(s, n, Len(s)))}
  IN  CASE s = << >> -> {}
        [] Starts(s, <<"{">>) /\ s[Len(s)].k = "}" ->
             {Stmt("block", None, NoExprs, items) : items \in ItemLists(Inside(s))}
        [] s # << >> /\ s[1].k \in {"while", "switch"} /\ Starts(Behind(s, 1), <<"(">>) ->
             HeadedStmts(s)
        [] Starts(s, <<"if", "(">>) -> HeadedStmts(s) \cup IfElses(s)
        [] Starts(s, <<"do">>) -> DoWhiles(s)
        [] Starts(s, <<"for", "(">>) -> Fors(s)
        [] Starts(s, <<"ident", ":">>) -> After1("label", Var(s[1].v, ""), 3)
        [] Starts(s, <<"default", ":">>) -> After1("default", None, 3)
        [] Starts(s, <<"case", "const", ":">>) ->
             UNION {After1("case", e, 4) : e \in ConstantTrees(s[2])}
        [] Starts(s, <<"case", "(">>) ->
             UNION {UNION {After1("case", e, k + 1) :
                             e \in {x \in Exprs(Part(s, 2, k - 1)) : x.k = "const"}} :
                    k \in Places(s, 3, ":")}
        [] Starts(s, <<"goto", "ident", ";">>) /\ Len(s) = 3 ->
             Simple("goto", {Var(s[2].v, "")})
        [] s # << >> /\ s[1].k \in {"break", "continue"} /\ Starts(Behind(s, 1), <<";">>)
             /\ Len(s) = 2 -> Simple(s[1].k, {None})
        [] Starts(s, <<"return">>) /\ Ends(s) -> Simple("return", Exprs(Behind(body, 1)))
        [] Starts(s, <<";">>) /\ Len(s) = 1 -> Simple("null", {None})
        [] OTHER -> IF Ends(s) THEN Simple("expr", Exprs(body)) ELSE {}

ItemLists(s) ==
  IF s = << >>
  THEN {<< >>}
  ELSE UNION {{<<t>> \o more : t \in Stmts(Part(s, 1, k)), more \in ItemLists(Behind(s, k))} :
              k \in 1 .. Len(s)}

\* the trees of a text: one, or none if it is no statement of C
Trees(s) ==
  UNION {Stmts(Before(ts, Len(ts))) : ts \in Lexemes(s, 1)}

=============================================================================
