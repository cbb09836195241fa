-------------------------------- MODULE Tac ---------------------------------
(***************************************************************************)
(* tac.c: the translation of expressions and statements into three-address *)
(* code.  A tacgen is the code emitted so far, the counters for            *)
(* temporaries and labels, and in v the value of the last expression.      *)
(*                                                                         *)
(* Statements have the labels the label walk gave them: idx for goto,      *)
(* label, break, continue, case and default, brk and cont for loops and    *)
(* switches.  The symbol table is in the types of the operands.            *)
(***************************************************************************)
EXTENDS Expressions, TLC

Instr(op, dst, src1, src2) ==
  [op |-> op, dst |-> dst, src1 |-> src1, src2 |-> src2, label |-> 0,
   name |-> "", args |-> << >>]

Jump(op, label, src1, src2) ==
  [Instr(op, None, src1, src2) EXCEPT !.label = label]

CallInstr(f, args, dst) ==
  [Instr("CALL", dst, None, None) EXCEPT !.name = f, !.args = args]

\* insert_taci
Emit(g, i) == [g EXCEPT !.code = Append(@, i)]

Goto(g, label)   == Emit(g, Jump("JMP", label, None, None))
MarkAt(g, label) == Emit(g, Jump("LABEL", label, None, None))

\* new_tmp and new_label; the result is in v and in labels
NewTmp(g, tp) ==
  [g EXCEPT !.tmps = @ + 1, !.v = Var("t_" \o ToString(g.tmps + 1), tp)]

NewLabel(g) == [g EXCEPT !.labels = @ + 1]

Copy(g, dst, src) == [Emit(g, Instr("CPY", dst, src, None)) EXCEPT !.v = dst]

-----------------------------------------------------------------------------

RECURSIVE Gen(_, _), GenArgs(_, _, _)

\* gen_inc_dec_prefix gives the variable itself, gen_inc_dec_postfix a copy
GenUnary(g, x) ==
  LET inner == Gen(g, x.a[1])
      t     == NewTmp(inner, x.tp)
      Step(h, op) == Emit(h, Instr(op, None, inner.v, None))
  IN  CASE x.op \in {"INC", "DEC"} -> Step(inner, x.op)
        [] x.op = "POSTINC" -> Step(Copy(t, t.v, inner.v), "INC")
        [] x.op = "POSTDEC" -> Step(Copy(t, t.v, inner.v), "DEC")
        [] OTHER -> Emit(t, Instr(x.op, t.v, inner.v, None))

\* gen_tac_from_OR_binary and gen_tac_from_AND_binary: long is the value if
\* neither operand jumps
GenLogic(g, x) ==
  LET jump  == IF x.op = "LOR" THEN "JNZ" ELSE "JZ"
      long  == Const(IF x.op = "LOR" THEN 0 ELSE 1, "int")
      short == Const(IF x.op = "LOR" THEN 1 ELSE 0, "int")
      res   == NewTmp(g, x.tp)
      left  == Gen(res, x.a[1])
      there == NewLabel(left)
      right == Gen(Emit(there, Jump(jump, there.labels, left.v, None)), x.a[2])
      value == Copy(Emit(right, Jump(jump, there.labels, right.v, None)), res.v, long)
      end   == NewLabel(value)
      other == Copy(MarkAt(Goto(end, end.labels), there.labels), res.v, short)
  IN  MarkAt(other, end.labels)

GenBinary(g, x) ==
  LET left  == Gen(g, x.a[1])
      right == Gen(left, x.a[2])
      t     == NewTmp(right, x.tp)
  IN  IF x.op \in Logic
      THEN GenLogic(g, x)
      ELSE Emit(t, Instr(x.op, t.v, left.v, right.v))

\* the value is the variable, not a copy of it
GenAssign(g, x) ==
  LET left  == Gen(g, x.a[1])
      right == Gen(left, x.a[2])
      op    == IF x.op = "ASSIGN" THEN "CPY" ELSE "AS" \o x.op
  IN  [Emit(right, Instr(op, left.v, right.v, None)) EXCEPT !.v = left.v]

GenTernary(g, x) ==
  LET dst   == NewTmp(g, x.tp)
      cond  == Gen(dst, x.a[1])
      elze  == NewLabel(cond)
      then  == Gen(Emit(elze, Jump("JZ", elze.labels, cond.v, None)), x.a[2])
      end   == NewLabel(Copy(then, dst.v, then.v))
      other == Gen(MarkAt(Goto(end, end.labels), elze.labels), x.a[3])
  IN  MarkAt(Copy(other, dst.v, other.v), end.labels)

\* the operands of a call, in order, then the call
GenArgs(g, x, args) ==
  LET k   == Len(args) + 1
      arg == Gen(g, x.a[k])
      dst == NewTmp(g, x.tp)
  IN  IF k > Len(x.a)
      THEN Emit(dst, CallInstr(x.name, args, dst.v))
      ELSE GenArgs(arg, x, Append(args, arg.v))

CastOp(from, to) ==
  CASE Rank(to) = Rank(from) -> "CPY"
    [] Rank(to) < Rank(from) -> "TRUNCATE"
    [] OTHER -> IF IsSigned(from) THEN "SIGN_EXTEND" ELSE "ZERO_EXTEND"

GenCast(g, x) ==
  LET inner == Gen(g, x.a[1])
      dst   == NewTmp(inner, x.tp)
  IN  Emit(dst, Instr(CastOp(x.a[1].tp, x.tp), dst.v, inner.v, None))

\* gen_tac_from_expr
Gen(g, x) ==
  CASE x.k = "unary"   -> GenUnary(g, x)
    [] x.k = "binary"  -> GenBinary(g, x)
    [] x.k = "assign"  -> GenAssign(g, x)
    [] x.k = "ternary" -> GenTernary(g, x)
    [] x.k = "call"    -> GenArgs(g, x, << >>)
    [] x.k = "cast"    -> GenCast(g, x)
    [] OTHER           -> [g EXCEPT !.v = x]

-----------------------------------------------------------------------------

RECURSIVE GenStmt(_, _), GenBlock(_, _), GenCases(_, _, _)

GenReturn(g, s) ==
  LET e == Gen(g, s.e) IN Emit(e, Instr("RET", None, e.v, None))

\* both labels are there also without else
GenIf(g, s) ==
  LET cond == Gen(g, s.e)
      elze == NewLabel(cond)
      then == GenStmt(Emit(elze, Jump("JZ", elze.labels, cond.v, None)), s.body[1])
      end  == NewLabel(then)
      mark == MarkAt(Goto(end, end.labels), elze.labels)
  IN  MarkAt(IF Len(s.body) = 2 THEN GenStmt(mark, s.body[2]) ELSE mark, end.labels)

GenWhile(g, s) ==
  LET cond == Gen(MarkAt(g, s.cont), s.e)
      body == GenStmt(Emit(cond, Jump("JZ", s.brk, cond.v, None)), s.body[1])
  IN  MarkAt(Goto(body, s.cont), s.brk)

\* bug: continue starts the body again without the condition
GenDowhileContinue(g, s) ==
  LET body == GenStmt(MarkAt(g, s.cont), s.body[1])
      cond == Gen(body, s.e)
  IN  MarkAt(Emit(cond, Jump("JNZ", s.cont, cond.v, None)), s.brk)

GenDowhile(g, s) ==
  LET start == NewLabel(g)
      body  == GenStmt(MarkAt(start, start.labels), s.body[1])
      cond  == Gen(MarkAt(body, s.cont), s.e)
  IN  MarkAt(Emit(cond, Jump("JNZ", start.labels, cond.v, None)), s.brk)

\* bug: a missing condition is false
GenForNever(g, s) ==
  LET start == NewLabel(Gen(g, s.x[1]))
      cond  == Gen(MarkAt(start, start.labels), IF s.e = None THEN Const(0, "int") ELSE s.e)
      body  == GenStmt(Emit(cond, Jump("JZ", s.brk, cond.v, None)), s.body[1])
      post  == Gen(MarkAt(body, s.cont), s.x[2])
  IN  MarkAt(Goto(post, start.labels), s.brk)

GenFor(g, s) ==
  LET start == NewLabel(Gen(g, s.x[1]))
      cond  == Gen(MarkAt(start, start.labels), IF s.e = None THEN Const(1, "int") ELSE s.e)
      body  == GenStmt(Emit(cond, Jump("JZ", s.brk, cond.v, None)), s.body[1])
      post  == Gen(MarkAt(body, s.cont), s.x[2])
  IN  MarkAt(Goto(post, start.labels), s.brk)

\* one JE for each case, in any order: the constants differ
GenCases(g, v, cases) ==
  IF cases = {}
  THEN g
  ELSE LET c == CHOOSE c \in cases : TRUE
       IN  GenCases(Emit(g, Jump("JE", c.label, v, Const(c.value, v.tp))), v, cases \ {c})

GenSwitch(g, s) ==
  LET cond  == Gen(g, s.e)
      cases == GenCases(cond, cond.v, s.cases)
      jump  == Goto(cases, IF s.dflt # 0 THEN s.dflt ELSE s.brk)
  IN  MarkAt(GenStmt(jump, s.body[1]), s.brk)

\* a local variable with an initialiser
GenDecl(g, s) ==
  LET init == Gen(g, s.e) IN Copy(init, s.x[1], init.v)

GenBlock(g, items) ==
  IF items = << >> THEN g ELSE GenBlock(GenStmt(g, Head(items)), Tail(items))

\* gen_tac_from_stmt
GenStmt(g, s) ==
  CASE s.k = "return" -> GenReturn(g, s)
    [] s.k = "block"  -> GenBlock(g, s.body)
    [] s.k = "expr"   -> Gen(g, s.e)
    [] s.k = "if"     -> GenIf(g, s)
    [] s.k \in {"goto", "break", "continue"} -> Goto(g, s.idx)
    [] s.k \in {"label", "case", "default"} -> GenStmt(MarkAt(g, s.idx), s.body[1])
    [] s.k = "while"  -> GenWhile(g, s)
    [] s.k = "do"     -> GenDowhile(g, s)
    [] s.k = "for"    -> GenFor(g, s)
    [] s.k = "switch" -> GenSwitch(g, s)
    [] s.k = "decl"   -> GenDecl(g, s)
    [] OTHER          -> g  \* the null statement

\* gen_tac_from_func_decl
GenFunc(g, items) ==
  Emit(GenBlock(g, items), Instr("RET", None, Const(0, "int"), None))

=============================================================================
