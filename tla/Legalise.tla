------------------------------ MODULE Legalise ------------------------------
(***************************************************************************)
(* x86_fix_instrs.c: instructions whose operands the machine does not have *)
(* are given operands in scratch registers, by moves before and after      *)
(* them.  Fixed is what becomes of one instruction; the pass does the same *)
(* for each, and does not change the moves it has put after one.           *)
(***************************************************************************)
EXTENDS X86

CONSTANTS
  Names   \* the names of operations, operands, types and conditions

\* the names this pass gives are among them
ASSUME NamesAssumption ==
  {"", "R10", "R11", "CX", "MOV", "long", "quad"} \subseteq Names

R10 == Reg("R10")
R11 == Reg("R11")
CX  == Reg("CX")

\* imm & 0xffffffff is imm % LongSize
LongSize == 2 * (INT32_MAX + 1)

TooBig(o) == o.t = "imm" /\ o.v > INT32_MAX

\* an instruction with the moves around it
Among(before, i, after) == [before |-> before, i |-> i, after |-> after]
Alone(i) == Among(<< >>, i, << >>)
Flat(r)  == r.before \o <<r.i>> \o r.after

-----------------------------------------------------------------------------

MovMasked(i) ==
  IF TooBig(i.src) /\ i.type = "long" THEN [i EXCEPT !.src.v = @ % LongSize] ELSE i

\* bug: an immediate of 64 bits is moved to memory in one instruction
MovBigAnywhere(i) == Alone(i)

\* the move of the immediate is not looked at again, it was fixed before it
\* had operands
MovBig(i) ==
  IF TooBig(i.src) /\ i.dst.t # "reg"
  THEN Among(<<Mov(i.type, i.src, R10)>>, [i EXCEPT !.src = R10], << >>)
  ELSE Alone(i)

\* fix_mov
FixMov(i) ==
  IF IsMem(i.dst) /\ IsMem(i.src)
  THEN Among(<<Mov(i.type, i.src, R10)>>, [i EXCEPT !.src = R10], << >>)
  ELSE MovBig(MovMasked(i))

\* insert_before_x86_instr, which fixes the move it inserts
InsertBefore(r, mov) == Among(r.before \o Flat(FixMov(mov)), r.i, r.after)

WithSrc(r, o) == Among(r.before, [r.i EXCEPT !.src = o], r.after)
WithDst(r, o) == Among(r.before, [r.i EXCEPT !.dst = o], r.after)

\* a move inserted before it has operands, so that nothing fixes it
MoveBefore(r, mov) == Among(Append(r.before, mov), r.i, r.after)

InsertAfter(r, mov) == Among(r.before, r.i, <<mov>>)

\* the source of an instruction is moved into r10
SourceInR10(r) ==
  WithSrc(InsertBefore(r, Mov(r.i.type, r.i.src, R10)), R10)

\* fix_unary_too_big_const, fix_binary_too_big_const and fix_both_ops_mem
FixTooBig(r)  == IF TooBig(r.i.src) THEN SourceInR10(r) ELSE r
FixBothMem(r) == IF IsMem(r.i.dst) /\ IsMem(r.i.src) THEN SourceInR10(r) ELSE r

FixDiv(r) ==
  IF r.i.src.t = "imm"
  THEN WithSrc(InsertBefore(r, Mov(r.i.type, r.i.src, R11)), R11)
  ELSE r

FixMult(r) ==
  FixTooBig(
    IF IsMem(r.i.dst)
    THEN WithDst(InsertAfter(InsertBefore(r, Mov(r.i.type, r.i.dst, R11)),
                             Mov(r.i.type, R11, r.i.dst)), R11)
    ELSE r)

FixShifts(r) ==
  IF r.i.src.t # "imm" /\ r.i.src # CX
  THEN WithSrc(InsertBefore(r, Mov(r.i.type, r.i.src, CX)), CX)
  ELSE r

\* the move of the destination is inserted before it has operands
FixCmp(i) ==
  LET r == FixBothMem(FixTooBig(Alone(i)))
  IN  IF r.i.dst.t = "imm"
      THEN WithDst(MoveBefore(r, Mov(i.type, i.dst, R11)), R11)
      ELSE r

\* the destination is r11, which is stored after the instruction
ThroughR11(r) ==
  IF IsMem(r.i.dst)
  THEN WithDst(InsertAfter(r, Mov("quad", R11, r.i.dst)), R11)
  ELSE r

FixMovsx(r) ==
  ThroughR11(
    IF r.i.src.t = "imm"
    THEN WithSrc(MoveBefore(r, Mov("long", r.i.src, R10)), R10)
    ELSE r)

FixMovzext(i) == ThroughR11(Alone([i EXCEPT !.op = "MOV", !.type = "long"]))

FixAddSub(r) == FixTooBig(FixBothMem(r))

\* fix_instr
Fix(i) ==
  CASE i.op = "PUSH" -> FixTooBig(Alone(i))
    [] i.op \in {"ADD", "SUB", "AND", "OR", "XOR"} -> FixAddSub(Alone(i))
    [] i.op = "MOV" -> FixMov(i)
    [] i.op \in {"IDIV", "DIV"} -> FixDiv(Alone(i))
    [] i.op = "MULT" -> FixMult(Alone(i))
    [] i.op \in {"SHL", "SAR", "SHR"} -> FixShifts(Alone(i))
    [] i.op = "CMP" -> FixCmp(i)
    [] i.op = "MOVSX" -> FixMovsx(Alone(i))
    [] i.op = "MOVZEXT" -> FixMovzext(i)
    [] OTHER -> Alone(i)

Fixed(i) == Flat(Fix(i))

-----------------------------------------------------------------------------

Located(o) == o.t = "reg" \/ IsMem(o)

\* The operands the machine has instructions for: at most one of them in
\* memory, a constant only as source and, but for a move of a quadword into a
\* register, only one that fits; products in registers, shift counts in cl or
\* constants of a byte, divisors not constant.
Encodable(i) ==
  i.src.t = "imm" =>
    \/ i.src.v <= INT32_MAX
    \/ i.type = "long" /\ i.src.v < LongSize
    \/ i.op = "MOV" /\ i.type = "quad" /\ i.dst.t = "reg"

Legal(i) ==
  CASE i.op \in {"MOV", "ADD", "SUB", "AND", "OR", "XOR", "CMP"} ->
         /\ Located(i.dst)
         /\ ~(IsMem(i.dst) /\ IsMem(i.src))
         /\ Encodable(i)
    [] i.op = "MULT" -> i.dst.t = "reg" /\ Encodable(i)
    [] i.op \in {"SHL", "SAR", "SHR"} ->
         /\ i.src = CX \/ (i.src.t = "imm" /\ i.src.v <= UINT8_MAX)
         /\ Located(i.dst)
    [] i.op = "PUSH" -> i.src.t = "imm" => i.src.v <= INT32_MAX
    [] i.op \in {"IDIV", "DIV", "NOT", "NEG", "INC", "DEC"} ->
         Located(i.src)
    [] i.op = "MOVSX" -> i.dst.t = "reg" /\ Located(i.src)
    [] i.op = "MOVZEXT" -> FALSE
    [] OTHER -> TRUE

\* A shift that only its constant count, which a byte does not hold, keeps from
\* being legal: FixShifts leaves every constant where it is.
TooFar(i) ==
  /\ i.op \in {"SHL", "SAR", "SHR"} /\ i.src.t = "imm"
  /\ i.src.v > UINT8_MAX
  /\ Located(i.dst)

Operands == [t : {"imm", "reg", "stack", "data", "none"}, v : Nat, name : Names]

Instructions ==
  [op : Names, type : Names, src : Operands, dst : Operands, cc : Names, label : Nat]

\* What the selection leaves after pseudo operands are placed: a constant is
\* the destination of a comparison at most, and a constant that is moved
\* unseen, from where a comparison or an extension has it, fits a longword.
Produced(i) ==
  /\ i.op # "SETCC" => i.type \in {"long", "quad"}
  /\ i.op \in {"MOV", "ADD", "SUB", "AND", "OR", "XOR", "MULT", "SHL", "SAR", "SHR",
              "MOVSX", "MOVZEXT"} => i.src.t # "none" /\ Located(i.dst)
  /\ i.op \in {"NOT", "NEG", "INC", "DEC"} => Located(i.src)
  /\ i.op \in {"IDIV", "DIV", "PUSH"} => i.src.t # "none"
  /\ i.op = "CMP" =>
       /\ i.src.t # "none" /\ i.dst.t # "none"
       /\ i.dst.t = "imm" /\ i.type = "long" => i.dst.v < LongSize
  /\ i.op \in {"MOVSX", "MOVZEXT"} /\ i.src.t = "imm" => i.src.v < LongSize

=============================================================================
