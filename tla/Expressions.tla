---------------------------- MODULE Expressions -----------------------------
(***************************************************************************)
(* The expressions and statements of parser.h, the integer types of type.h *)
(* with their widths, and the conversion of constants of convert_intc.c.   *)
(*                                                                         *)
(* Operators have the names they have in the intermediate code, without    *)
(* the prefix TAC_: "ADD", "LSHIFT", "NEGATE".  A compound assignment has  *)
(* the name of its operator, plain assignment is "ASSIGN".  Constants are  *)
(* the uint64_t the compiler keeps them in.  Types are the integer types:  *)
(* the code after the type checker has no doubles.                         *)
(***************************************************************************)
EXTENDS Integers, Sequences

CONSTANTS
  ByteBits, LongBits, QuadBits  \* the widths of the operands of instructions

ASSUME WidthAssumption ==
  /\ {ByteBits, LongBits, QuadBits} \subseteq Nat \ {0}
  /\ ByteBits < LongBits
  /\ LongBits < QuadBits

Types == {"int", "long", "uint", "ulong"}

Bits(width) ==
  CASE width = "byte" -> ByteBits
    [] width = "long" -> LongBits
    [] width = "quad" -> QuadBits

\* the width of a type
Width(t) == IF t \in {"int", "uint"} THEN "long" ELSE "quad"

\* 2^n, in the form a proof can unfold
PowerOf2[n \in Nat] == IF n = 0 THEN 1 ELSE 2 * PowerOf2[n - 1]

\* how many values there are of a width
Size == [width \in {"byte", "long", "quad"} |-> PowerOf2[Bits(width)]]

\* the low bits of v, and the number they stand for in two's complement
Low(v, width) == v % Size[width]

Signed(v, width) ==
  IF 2 * Low(v, width) < Size[width]
  THEN Low(v, width)
  ELSE Low(v, width) - Size[width]

-----------------------------------------------------------------------------

\* expr: v is the value of a constant, name that of a variable or function,
\* a are the operands
Expr(k, op, a, tp) ==
  [k |-> k, op |-> op, v |-> 0, name |-> "", a |-> a, tp |-> tp]

None == Expr("none", "", << >>, "")
Const(v, tp)      == [Expr("const", "", << >>, tp) EXCEPT !.v = v]
Var(x, tp)        == [Expr("var", "", << >>, tp) EXCEPT !.name = x]
Unary(op, x)      == Expr("unary", op, <<x>>, "")
Binary(op, l, r)  == Expr("binary", op, <<l, r>>, "")
Assign(op, l, r)  == Expr("assign", op, <<l, r>>, "")
Ternary(c, l, r)  == Expr("ternary", "", <<c, l, r>>, "")
Call(f, args, tp) == [Expr("call", "", args, tp) EXCEPT !.name = f]
Cast(x, tp)       == Expr("cast", "", <<x>>, tp)

\* stmt: e is its expression, x the other expressions of for (init and post)
\* or the variable of a declaration, body the statements in it; cases has the
\* constants of a switch with the labels of their statements, dflt the label
\* of its default or 0
Stmt(k, e, x, body) ==
  [k |-> k, e |-> e, x |-> x, body |-> body, idx |-> 0, brk |-> 0, cont |-> 0,
   cases |-> {}, dflt |-> 0]

Shifts      == {"LSHIFT", "RSHIFT"}
Comparisons == {"EQ", "NE", "LT", "LE", "GT", "GE"}
Logic       == {"LAND", "LOR"}

-----------------------------------------------------------------------------

\* type_rank and type_signed
Rank(t) == IF t \in {"int", "uint"} THEN 4 ELSE 5
IsSigned(t) == t \in {"int", "long"}

\* convert_const_to_int
ConvertConst(v, t) ==
  CASE t = "int"  -> Low(Signed(v, "long"), "quad")
    [] t = "uint" -> Low(v, "long")
    [] OTHER      -> v

=============================================================================
