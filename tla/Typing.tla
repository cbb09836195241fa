------------------------------- MODULE Typing -------------------------------
(***************************************************************************)
(* The types of expressions: typecheck_expr of typecheck.c gives every     *)
(* node a type and makes conversions explicit as casts.                    *)
(***************************************************************************)
EXTENDS Expressions

\* get_common_type
CommonType(t, u) ==
  IF Rank(t) = Rank(u)
  THEN IF IsSigned(t) THEN u ELSE t
  ELSE IF Rank(t) > Rank(u) THEN t ELSE u

\* convert_to
ConvertTo(x, t) == IF x.tp = t THEN x ELSE Cast(x, t)

\* the type of a binary operator on checked operands
TypedBinary(op, l, r) ==
  LET common == CommonType(l.tp, r.tp)
      both   == <<ConvertTo(l, common), ConvertTo(r, common)>>
  IN  CASE op \in Logic       -> Expr("binary", op, <<l, r>>, "int")
        [] op \in Shifts      -> Expr("binary", op, <<l, r>>, l.tp)
        [] op \in Comparisons -> Expr("binary", op, both, "int")
        [] OTHER              -> Expr("binary", op, both, common)

\* a compound assignment of operands with different types becomes an
\* assignment of a binary operator
TypedAssign(op, l, r) ==
  LET common == IF op \in Shifts THEN l.tp ELSE CommonType(l.tp, r.tp)
      b == Expr("binary", op, <<ConvertTo(l, common), ConvertTo(r, common)>>, common)
  IN  IF op = "ASSIGN" \/ l.tp = r.tp
      THEN Expr("assign", op, <<l, ConvertTo(r, l.tp)>>, l.tp)
      ELSE Expr("assign", "ASSIGN", <<l, ConvertTo(b, l.tp)>>, l.tp)

TypedTernary(c, l, r) ==
  LET common == CommonType(l.tp, r.tp)
  IN  Expr("ternary", "", <<c, ConvertTo(l, common), ConvertTo(r, common)>>, common)

\* typecheck_expr; names are bound, so variables come with their types, and
\* calls with their type and arguments of the types of the parameters
RECURSIVE Typed(_)
Typed(x) ==
  LET a == [k \in DOMAIN x.a |-> Typed(x.a[k])]
  IN  CASE x.k = "unary" ->
             [x EXCEPT !.a = a, !.tp = IF x.op = "NOT" THEN "int" ELSE a[1].tp]
        [] x.k = "binary"  -> TypedBinary(x.op, a[1], a[2])
        [] x.k = "assign"  -> TypedAssign(x.op, a[1], a[2])
        [] x.k = "ternary" -> TypedTernary(a[1], a[2], a[3])
        [] OTHER           -> [x EXCEPT !.a = a]

=============================================================================
