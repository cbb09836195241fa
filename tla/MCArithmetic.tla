---------------------------- MODULE MCArithmetic ----------------------------
(* Arithmetic with bytes of 3, longwords of 4 and quadwords of 6 bits, on    *)
(* the values where widths and signs matter.                                 *)
EXTENDS Arithmetic, Bitwise

MCSample(t) ==
  CASE t = "int"   -> {-8, -3, -1, 0, 1, 2, 7}
    [] t = "uint"  -> {0, 1, 2, 7, 8, 13, 15}
    [] t = "long"  -> {-32, -8, -3, -1, 0, 1, 5, 8, 16, 31}
    [] t = "ulong" -> {0, 1, 3, 8, 15, 16, 32, 61, 63}

\* constants of every type, also ones that no immediate operand holds
MCConst(t) ==
  CASE t = "int"   -> {0, 1, 7}
    [] t = "uint"  -> {2, 15}
    [] t = "long"  -> {3, 8, 31}
    [] t = "ulong" -> {1, 8, 60}

MCNames == STRING

MCAnd(x, y) == x & y
MCOr(x, y)  == x | y
MCXor(x, y) == x ^^ y

MCDataNames == {"s", "u"}

Consts == UNION {{Const(v, t) : v \in MCConst(t)} : t \in Types}
Objects(names) == {Var(n, t) : n \in names, t \in Types}

Program(k, x, c, tp) == [k |-> k, e |-> x, c |-> c, tp |-> tp]
Plain(exprs) == {Program("expr", x, 0, "") : x \in exprs}

BinaryOps == {"ADD", "SUB", "MUL", "DIV", "MOD", "AND", "OR", "XOR"}
               \cup Shifts \cup Comparisons
AssignableOps == BinaryOps \ Comparisons
UnaryOps == {"NEGATE", "COMPLEMENT", "NOT"}
StepOps  == {"INC", "DEC", "POSTINC", "POSTDEC"}

BinaryExprs ==
  {Binary(op, l, r) : op \in BinaryOps, l \in Objects({"x"}), r \in Objects({"y"}) \cup Consts}
  \cup {Binary(op, l, r) : op \in BinaryOps, l \in Consts, r \in Objects({"s"})}

UnaryExprs ==
  {Unary(op, x) : op \in UnaryOps, x \in Objects({"x", "s"}) \cup Consts}
  \cup {Unary(op, x) : op \in StepOps, x \in Objects({"x", "s"})}
  \cup {Cast(x, t) : t \in Types, x \in Objects({"x", "s"}) \cup Consts}

\* compound division only of what the code handles: int by int, or operands
\* of different types
Supported(op, l, r) == op \in {"DIV", "MOD"} => l.tp # r.tp \/ l.tp = "int"

Assignments ==
  {Assign("ASSIGN", l, r) : l \in Objects({"x", "s"}), r \in Objects({"y", "u"}) \cup Consts}
  \cup UNION {{Assign(op, l, r) : op \in {o \in AssignableOps : Supported(o, l, r)}} :
                l \in Objects({"s"}), r \in Objects({"u"}) \cup Consts}

\* two operators, the inner one in a temporary
Nested ==
  {Binary(op, Binary(inner, Var("x", t), Var("y", u)), Var("s", v)) :
     op \in {"SUB", "DIV", "LT", "RSHIFT"}, inner \in {"SUB", "DIV", "LT", "RSHIFT"},
     t \in {"int", "ulong"}, u \in {"uint", "long"}, v \in {"int", "uint"}}
  \cup {Assign(op, Var("s", v), Binary("ADD", Var("x", t), Var("y", u))) :
     op \in {"ASSIGN", "SUB", "AND", "LSHIFT"},
     t \in {"int", "ulong"}, u \in {"uint", "long"}, v \in Types}

Conditions ==
  {Program("if", x, 0, "") : x \in Objects({"x", "s"}) \cup Consts}
  \cup {Program("switch", x, c, "") :
          x \in Objects({"x", "s"}) \cup Consts, c \in {0, 1, 8, 15, 31, 63}}
  \cup {Program("return", x, 0, t) : x \in Objects({"x", "s"}) \cup Consts, t \in Types}

MCPrograms == Plain(BinaryExprs) \cup Plain(UnaryExprs) \cup Plain(Assignments)
                \cup Plain(Nested) \cup Conditions

=============================================================================
