------------------------------- MODULE Parser -------------------------------
(***************************************************************************)
(* parser.c: from tokens to expressions and statements, by recursive       *)
(* descent, and by precedence climbing in expressions.                     *)
(*                                                                         *)
(* A parser has the tokens ahead, of which the code keeps two and the      *)
(* scanner the others, and in node what it has made last.  An exit(1)      *)
(* leaves ok at FALSE: whatever follows it does not matter.  Declarations  *)
(* and names are left out: for them see Resolve.                           *)
(***************************************************************************)
EXTENDS Expressions, TLC

Parsing(toks) == [ok |-> TRUE, rest |-> toks, node |-> None]

\* p->next.token and p->after_next.token
Next1(p) == p.rest[1].k
Next2(p) == p.rest[2].k

Value(p) == p.rest[1].v

Stop(p) == [p EXCEPT !.ok = FALSE]
Advance(p) == [p EXCEPT !.rest = Tail(@)]
Expect(p, k) == IF p.ok /\ Next1(p) = k THEN Advance(p) ELSE Stop(p)
Made(p, x) == [p EXCEPT !.node = x]

-----------------------------------------------------------------------------

TypeWords == {"int", "long", "signed", "unsigned"}

\* is_decl
StartsDecl(k) == k \in TypeWords \cup {"static", "extern"}

\* convert_type on the words of parse_type
ConvertType(words) ==
  CASE "unsigned" \in words /\ "long" \in words -> "ulong"
    [] "unsigned" \in words /\ "long" \notin words -> "uint"
    [] "unsigned" \notin words /\ "long" \in words -> "long"
    [] OTHER -> "int"

RECURSIVE TypeName(_, _)
TypeName(p, words) ==
  IF Next1(p) \notin TypeWords
  THEN IF words = {} \/ {"signed", "unsigned"} \subseteq words
       THEN Stop(p)
       ELSE Made(p, Cast(None, ConvertType(words)))
  ELSE IF Next1(p) \in words THEN Stop(p) ELSE TypeName(Advance(p), words \cup {Next1(p)})

\* parse_int_const_expr: the type of a constant, "none" for goto overflow.  Its
\* check against ULONG_MAX stops nothing, as a token holds no larger value; the
\* other literals stop the compiler.
ConstType(v, suff) ==
  LET long  == IF v < 2^(QuadBits - 1) THEN "long" ELSE "none"
  IN  CASE suff = "NONE" -> IF v < 2^(LongBits - 1) THEN "int" ELSE long
        [] suff = "L"    -> long
        [] suff = "U"    -> IF v < 2^LongBits THEN "uint" ELSE "ulong"
        [] suff = "UL"   -> "ulong"
        [] OTHER         -> "none"

IntConst(p) ==
  LET v  == Value(p).v
      tp == ConstType(v, Value(p).suff)
  IN  IF tp = "none" THEN Stop(p) ELSE Made(Advance(p), Const(v, tp))

-----------------------------------------------------------------------------

PrefixOps  == [t \in {"-", "~", "!", "++", "--"} |->
                 CASE t = "-" -> "NEGATE" [] t = "~" -> "COMPLEMENT" [] t = "!" -> "NOT"
                   [] t = "++" -> "INC" [] t = "--" -> "DEC"]
PostfixOps == ("++" :> "POSTINC") @@ ("--" :> "POSTDEC")

\* get_bin_op
BinaryOps ==
  ("+" :> "ADD") @@ ("-" :> "SUB") @@ ("*" :> "MUL") @@ ("/" :> "DIV") @@ ("%" :> "MOD")
    @@ ("&" :> "AND") @@ ("|" :> "OR") @@ ("^" :> "XOR") @@ ("<<" :> "LSHIFT") @@ (">>" :> "RSHIFT")
    @@ ("&&" :> "LAND") @@ ("||" :> "LOR") @@ ("==" :> "EQ") @@ ("!=" :> "NE")
    @@ ("<" :> "LT") @@ (">" :> "GT") @@ ("<=" :> "LE") @@ (">=" :> "GE")

\* get_assignment_op
AssignOps ==
  ("=" :> "ASSIGN") @@ ("+=" :> "ADD") @@ ("-=" :> "SUB") @@ ("*=" :> "MUL") @@ ("/=" :> "DIV")
    @@ ("%=" :> "MOD") @@ ("<<=" :> "LSHIFT") @@ (">>=" :> "RSHIFT")
    @@ ("&=" :> "AND") @@ ("|=" :> "OR") @@ ("^=" :> "XOR")

\* bug: relations and equalities have one level
PrecedenceFlat(t) ==
  CASE t \in DOMAIN AssignOps -> 6
    [] t = "?" -> 7
    [] t = "||" -> 8
    [] t = "&&" -> 9
    [] t = "|" -> 10
    [] t = "^" -> 11
    [] t = "&" -> 12
    [] t \in {"==", "!=", "<", ">", "<=", ">="} -> 14
    [] t \in {"<<", ">>"} -> 15
    [] t \in {"+", "-"} -> 16
    [] t \in {"*", "/", "%"} -> 17
    [] OTHER -> 0

\* binary_op
Precedence(t) ==
  CASE t \in DOMAIN AssignOps -> 6
    [] t = "?" -> 7
    [] t = "||" -> 8
    [] t = "&&" -> 9
    [] t = "|" -> 10
    [] t = "^" -> 11
    [] t = "&" -> 12
    [] t \in {"==", "!="} -> 13
    [] t \in {"<", ">", "<=", ">="} -> 14
    [] t \in {"<<", ">>"} -> 15
    [] t \in {"+", "-"} -> 16
    [] t \in {"*", "/", "%"} -> 17
    [] OTHER -> 0

\* what resolve_expr asks of an expression apart from names
RECURSIVE LvaluesOk(_)
LvaluesOk(x) ==
  /\ x.k = "assign" \/ x.op \in {"INC", "DEC", "POSTINC", "POSTDEC"} => x.a[1].k = "var"
  /\ x.k # "call" => \A n \in DOMAIN x.a : LvaluesOk(x.a[n])

RECURSIVE Factor(_), Climb(_, _), Args(_, _, _), CastOrParens(_)

\* resolve_expr at the end of an expression
Checked(e) == IF e.ok /\ LvaluesOk(e.node) THEN e ELSE Stop(e)

ParseExpr(p) == Checked(Climb(Factor(p), 1))

\* parse_postfix
Postfix(p) ==
  IF p.ok /\ Next1(p) \in DOMAIN PostfixOps
  THEN Made(Advance(p), Unary(PostfixOps[Next1(p)], p.node))
  ELSE p

Prefix(p) ==
  LET e == Factor(Advance(p)) IN Made(e, Unary(PrefixOps[Next1(p)], e.node))

\* the arguments of a call, up to the parenthesis
Args(p, name, args) ==
  LET more == ParseExpr(IF args = << >> THEN p ELSE Expect(p, ","))
  IN  CASE ~p.ok -> p
        [] p.ok /\ Next1(p) = ")" -> Made(Advance(p), Call(name, args, ""))
        [] OTHER -> Args(more, name, Append(args, more.node))

CastOrParens(p) ==
  LET tp    == TypeName(p, {})
      inner == Factor(Expect(tp, ")"))
  IN  IF StartsDecl(Next1(p))
      THEN Made(inner, Cast(inner.node, tp.node.tp))
      ELSE Expect(ParseExpr(p), ")")

\* parse_factor
Factor(p) ==
  CASE ~p.ok -> p
    [] p.ok /\ Next1(p) = "const" -> Postfix(IntConst(p))
    [] p.ok /\ Next1(p) \in DOMAIN PrefixOps -> Postfix(Prefix(p))
    [] p.ok /\ Next1(p) = "(" -> Postfix(CastOrParens(Advance(p)))
    [] p.ok /\ Next1(p) = "ident" ->
         Postfix(IF Next2(p) = "("
                 THEN Args(Advance(Advance(p)), Value(p), << >>)
                 ELSE Made(Advance(p), Var(Value(p), "")))
    [] OTHER -> Stop(p)

\* a node made of the one before and the one parsed since
Joined(p, kind, op, q) == Made(q, Expr(kind, op, <<p.node, q.node>>, ""))

\* the rest of a conditional, whose middle part has been parsed
Conditional(p, mid, prec) ==
  LET elze == Climb(Factor(Expect(mid, ":")), prec)
  IN  Made(elze, Ternary(p.node, mid.node, elze.node))

\* one round of the loop of _parse_expr, with its left operand in node
Extended(p, op, prec) ==
  CASE op \in DOMAIN BinaryOps ->
         Joined(p, "binary", BinaryOps[op], Climb(Factor(Advance(p)), prec + 1))
    [] op \in DOMAIN AssignOps ->
         Joined(p, "assign", AssignOps[op], Climb(Factor(Advance(p)), prec))
    [] OTHER -> Conditional(p, ParseExpr(Advance(p)), prec)

\* the loop; min is at least 1, so that what is no operator ends it
Climb(p, min) ==
  IF p.ok /\ Precedence(Next1(p)) >= min
  THEN Climb(Extended(p, Next1(p), Precedence(Next1(p))), min)
  ELSE p

\* parse_constant_expr, with check_for_constant_expr
ConstantOnly(e) == IF e.ok /\ e.node.k = "const" THEN e ELSE Stop(e)
ConstantExpr(p) == ConstantOnly(Climb(Factor(p), 1))

-----------------------------------------------------------------------------

NoExprs == <<None, None>>

RECURSIVE ParseStmt(_), Items(_, _)

InParens(p) == Expect(ParseExpr(Expect(p, "(")), ")")

\* an expression that may be missing in front of k
Optional(p, k) == IF p.ok /\ Next1(p) # k THEN ParseExpr(p) ELSE Made(p, None)

\* a statement with a condition in front of its body
Headed(p, kind) ==
  LET cond == InParens(Advance(p))
      body == ParseStmt(cond)
  IN  Made(body, Stmt(kind, cond.node, NoExprs, <<body.node>>))

\* an expression and its semicolon
Ended(p, kind) ==
  LET e == ParseExpr(p) IN Made(Expect(e, ";"), Stmt(kind, e.node, NoExprs, << >>))

If(p) ==
  LET cond == InParens(Advance(p))
      then == ParseStmt(cond)
      elze == ParseStmt(Advance(then))
  IN  IF then.ok /\ Next1(then) = "else"
      THEN Made(elze, Stmt("if", cond.node, NoExprs, <<then.node, elze.node>>))
      ELSE Made(then, Stmt("if", cond.node, NoExprs, <<then.node>>))

DoWhile(p) ==
  LET body == ParseStmt(Advance(p))
      cond == InParens(Expect(body, "while"))
  IN  Made(Expect(cond, ";"), Stmt("do", cond.node, NoExprs, <<body.node>>))

\* parse_for_stmt without a declaration
For(p) ==
  LET init == Optional(Expect(Advance(p), "("), ";")
      cond == Optional(Expect(init, ";"), ";")
      post == Optional(Expect(cond, ";"), ")")
      body == ParseStmt(Expect(post, ")"))
  IN  Made(body, Stmt("for", cond.node, <<init.node, post.node>>, <<body.node>>))

\* label, case and default: what is in front of the colon is in e
Marked(p, kind) ==
  LET colon == Expect(p, ":")
      body  == ParseStmt(colon)
  IN  Made(body, Stmt(kind, p.node, NoExprs, <<body.node>>))

Items(p, items) ==
  LET item == ParseStmt(p)
  IN  CASE ~p.ok -> p
        [] p.ok /\ Next1(p) = "}" -> Made(Advance(p), Stmt("block", None, NoExprs, items))
        [] OTHER -> Items(item, Append(items, item.node))

Goto(p) ==
  LET name == Expect(Advance(p), "ident")
      end  == Expect(name, ";")
  IN  IF end.ok THEN Made(end, Stmt("goto", Var(Value(Advance(p)), ""), NoExprs, << >>)) ELSE end

\* parse_stmt
ParseStmt(p) ==
  LET k == Next1(p)
  IN  CASE ~p.ok -> p
        [] p.ok /\ k = "{" -> Items(Advance(p), << >>)
        [] p.ok /\ k = "return" -> Ended(Advance(p), "return")
        [] p.ok /\ k = ";" -> Made(Advance(p), Stmt("null", None, NoExprs, << >>))
        [] p.ok /\ k = "if" -> If(p)
        [] p.ok /\ k = "ident" /\ Next2(p) = ":" ->
             Marked(Made(Advance(p), Var(Value(p), "")), "label")
        [] p.ok /\ k = "goto" -> Goto(p)
        [] p.ok /\ k \in {"while", "switch"} -> Headed(p, k)
        [] p.ok /\ k = "do" -> DoWhile(p)
        [] p.ok /\ k = "for" -> For(p)
        [] p.ok /\ k \in {"break", "continue"} ->
             Made(Expect(Advance(p), ";"), Stmt(k, None, NoExprs, << >>))
        [] p.ok /\ k = "case" -> Marked(ConstantExpr(Advance(p)), "case")
        [] p.ok /\ k = "default" -> Marked(Made(Advance(p), None), "default")
        [] OTHER -> Ended(p, "expr")

=============================================================================
