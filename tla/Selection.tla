----------------------------- MODULE Selection ------------------------------
(***************************************************************************)
(* x86.c: the instructions chosen for every instruction of the             *)
(* intermediate code but TAC_CALL, for which see CallConv.  Objects are    *)
(* pseudo operands.                                                        *)
(***************************************************************************)
EXTENDS Expressions, X86

\* get_x86_asm_type; the zeroed operand of an instruction that does not set
\* it reads as a constant of type int
AsmType(v) == IF v.tp \in {"long", "ulong"} THEN "quad" ELSE "long"

\* operand_from_tac_val
Operand(v) == IF v.k = "const" THEN Imm(v.v) ELSE Pseudo(v.name)

Zero == Imm(0)

-----------------------------------------------------------------------------

SelectRet(i) ==
  <<Mov(AsmType(i.src1), Operand(i.src1), Reg("AX")),
    X("RET", "quad", NoOp, NoOp)>>

SelectUnary(i) ==
  <<Mov(AsmType(i.dst), Operand(i.src1), Operand(i.dst)),
    X(IF i.op = "NEGATE" THEN "NEG" ELSE "NOT", AsmType(i.dst), Operand(i.dst), NoOp)>>

\* bug: the dividend of an unsigned division is extended with its sign
SelectDivCdq(i) ==
  LET type   == AsmType(i.src1)
      signed == IsSigned(i.src1.tp)
  IN  <<Mov(type, Operand(i.src1), Reg("AX")),
        X("CDQ", type, NoOp, NoOp),
        X(IF signed THEN "IDIV" ELSE "DIV", type, Operand(i.src2), NoOp),
        Mov(type, Reg(IF i.op = "DIV" THEN "AX" ELSE "DX"), Operand(i.dst))>>

SelectDiv(i) ==
  LET type   == AsmType(i.src1)
      signed == IsSigned(i.src1.tp)
  IN  <<Mov(type, Operand(i.src1), Reg("AX")),
        IF signed THEN X("CDQ", type, NoOp, NoOp) ELSE Mov(type, Zero, Reg("DX")),
        X(IF signed THEN "IDIV" ELSE "DIV", type, Operand(i.src2), NoOp),
        Mov(type, Reg(IF i.op = "DIV" THEN "AX" ELSE "DX"), Operand(i.dst))>>

\* the machine operator; left is the operand whose sign shifts look at
MachineOp(op, left) ==
  CASE op = "MUL"    -> "MULT"
    [] op = "LSHIFT" -> "SHL"
    [] op = "RSHIFT" -> IF IsSigned(left.tp) THEN "SAR" ELSE "SHR"
    [] OTHER         -> op

SelectBinary(i) ==
  <<Mov(AsmType(i.dst), Operand(i.src1), Operand(i.dst)),
    X(MachineOp(i.op, i.src1), AsmType(i.dst), Operand(i.src2), Operand(i.dst))>>

\* the three instructions that make the outcome of cmp a number
Flagged(cmp, cc, dst) ==
  <<cmp,
    Mov(AsmType(dst), Zero, Operand(dst)),
    [X("SETCC", "byte", NoOp, Operand(dst)) EXCEPT !.cc = cc]>>

SelectNot(i) ==
  Flagged(X("CMP", AsmType(i.src1), Zero, Operand(i.src1)), "E", i.dst)

SelectCpy(i) == <<Mov(AsmType(i.dst), Operand(i.src1), Operand(i.dst))>>

ConditionCode(op, signed) ==
  CASE op = "EQ" -> "E"
    [] op = "NE" -> "NE"
    [] op = "LT" -> IF signed THEN "L" ELSE "B"
    [] op = "LE" -> IF signed THEN "LE" ELSE "BE"
    [] op = "GT" -> IF signed THEN "G" ELSE "A"
    [] op = "GE" -> IF signed THEN "GE" ELSE "AE"

SelectComparing(i) ==
  Flagged(X("CMP", AsmType(i.src1), Operand(i.src2), Operand(i.src1)),
          ConditionCode(i.op, IsSigned(i.src1.tp)), i.dst)

SelectJump(i) ==
  IF i.op = "JMP"
  THEN <<[X("JMP", "quad", NoOp, NoOp) EXCEPT !.label = i.label]>>
  ELSE <<X("CMP", AsmType(i.src1),
           IF i.op = "JE" THEN Operand(i.src2) ELSE Zero, Operand(i.src1)),
         [X("JMPCC", "quad", NoOp, NoOp) EXCEPT
            !.cc = IF i.op \in {"JZ", "JE"} THEN "E" ELSE "NE", !.label = i.label]>>

SelectLabel(i) == <<[X("LABEL", "quad", NoOp, NoOp) EXCEPT !.label = i.label]>>

SelectIncDec(i) == <<X(i.op, AsmType(i.src1), Operand(i.src1), NoOp)>>

\* gen_asm_from_assign for /= and %=: always signed, and the divisor has the
\* type of src2, which is not set
SelectAssignDiv(i) ==
  <<Mov(AsmType(i.src1), Operand(i.dst), Reg("AX")),
    X("CDQ", AsmType(i.dst), NoOp, NoOp),
    X("IDIV", AsmType(i.src2), Operand(i.src1), NoOp),
    Mov(AsmType(i.dst), Reg(IF i.op = "ASDIV" THEN "AX" ELSE "DX"), Operand(i.dst))>>

AssignOps ==
  [ASADD |-> "ADD", ASSUB |-> "SUB", ASMUL |-> "MUL", ASAND |-> "AND", ASOR |-> "OR",
   ASXOR |-> "XOR", ASLSHIFT |-> "LSHIFT", ASRSHIFT |-> "RSHIFT"]

\* for the others; the sign a shift looks at is that of the right operand
SelectAssign(i) ==
  <<X(MachineOp(AssignOps[i.op], i.src1), AsmType(i.dst), Operand(i.src1), Operand(i.dst))>>

SelectSextend(i) == <<X("MOVSX", "quad", Operand(i.src1), Operand(i.dst))>>

SelectZextend(i) == <<X("MOVZEXT", "quad", Operand(i.src1), Operand(i.dst))>>

\* bug: as many bytes are moved as the source has
SelectTruncateAll(i) == <<Mov(AsmType(i.src1), Operand(i.src1), Operand(i.dst))>>

SelectTruncate(i) == <<Mov("long", Operand(i.src1), Operand(i.dst))>>

\* gen_asm_from_instr
Select(i) ==
  CASE i.op = "RET" -> SelectRet(i)
    [] i.op \in {"NEGATE", "COMPLEMENT"} -> SelectUnary(i)
    [] i.op = "NOT" -> SelectNot(i)
    [] i.op = "CPY" -> SelectCpy(i)
    [] i.op \in {"DIV", "MOD"} -> SelectDiv(i)
    [] i.op \in Comparisons -> SelectComparing(i)
    [] i.op \in {"JMP", "JZ", "JNZ", "JE"} -> SelectJump(i)
    [] i.op = "LABEL" -> SelectLabel(i)
    [] i.op \in {"INC", "DEC"} -> SelectIncDec(i)
    [] i.op \in {"ASDIV", "ASMOD"} -> SelectAssignDiv(i)
    [] i.op \in DOMAIN AssignOps -> SelectAssign(i)
    [] i.op = "SIGN_EXTEND" -> SelectSextend(i)
    [] i.op = "ZERO_EXTEND" -> SelectZextend(i)
    [] i.op = "TRUNCATE" -> SelectTruncate(i)
    [] OTHER -> SelectBinary(i)

=============================================================================
