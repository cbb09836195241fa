------------------------------ MODULE Machine -------------------------------
(***************************************************************************)
(* The processor, as far as emit_x86_instr of x86_emit.c uses it: what the *)
(* lines printed for an instruction do.                                    *)
(*                                                                         *)
(* A machine has registers, objects in memory with the values of their     *)
(* bytes and their widths, the operands last compared, whether the last    *)
(* conditional jump was taken, and what went wrong: a trap of a division,  *)
(* a condition nobody computed, a write past the end of an object.         *)
(***************************************************************************)
EXTENDS Expressions, X86

CONSTANTS
  AndOf(_, _), OrOf(_, _), XorOf(_, _)   \* the bitwise operators on numbers

Registers == {"AX", "CX", "DX", "R10", "R11"}

NoFlags == <<"none", 0, 0>>

PowerOn(mem, size) ==
  [reg |-> [r \in Registers |-> 1], mem |-> mem, size |-> size, flags |-> NoFlags,
   taken |-> FALSE, trapped |-> FALSE, smashed |-> FALSE, done |-> FALSE]

Wider(v, w) == Bits(v) > Bits(w)

\* reading past the end of an object finds the bits of another one, here ones
Read(m, o, width) ==
  CASE o.t = "imm" -> Low(o.v, width)
    [] o.t = "reg" -> Low(m.reg[o.name], width)
    [] OTHER ->
         IF Wider(width, m.size[o.name])
         THEN 2^Bits(width) - 2^Bits(m.size[o.name]) + m.mem[o.name]
         ELSE Low(m.mem[o.name], width)

\* the bits of old above the width stay
Merge(old, v, width) == old - Low(old, width) + Low(v, width)

\* a longword clears the upper half of a register, a byte does not
Write(m, o, width, v) ==
  CASE o.t = "reg" ->
         [m EXCEPT !.reg[o.name] =
            IF width = "byte" THEN Merge(@, v, width) ELSE Low(v, width)]
    [] IsMem(o) ->
         IF Wider(width, m.size[o.name])
         THEN [m EXCEPT !.smashed = TRUE]
         ELSE [m EXCEPT !.mem[o.name] = Merge(@, v, width)]

Clobber(m) == [m EXCEPT !.flags = NoFlags]

-----------------------------------------------------------------------------

\* the result of a binary operator on operands of a width
Alu(op, d, s, width) ==
  CASE op = "ADD"  -> d + s
    [] op = "SUB"  -> d - s
    [] op = "MULT" -> Low(d, width) * Low(s, width)
    [] op = "AND"  -> AndOf(d, s)
    [] op = "OR"   -> OrOf(d, s)
    [] op = "XOR"  -> XorOf(d, s)

\* the count is cl or an immediate byte
Shifted(op, d, count, width) ==
  CASE op = "SHL" -> d * 2^count
    [] op = "SHR" -> d \div 2^count
    [] op = "SAR" -> Signed(d, width) \div 2^count

Binary2(m, i) ==
  Clobber(Write(m, i.dst, i.type,
    Alu(i.op, Read(m, i.dst, i.type), Read(m, i.src, i.type), i.type)))

Shift(m, i) ==
  Clobber(Write(m, i.dst, i.type,
    Shifted(i.op, Read(m, i.dst, i.type), Read(m, i.src, "byte"), i.type)))

Unary1(m, i) ==
  LET v == Read(m, i.src, i.type)
  IN  Write(IF i.op = "NOT" THEN m ELSE Clobber(m), i.src, i.type,
        CASE i.op = "NEG" -> -v
          [] i.op = "NOT" -> -v - 1
          [] i.op = "INC" -> v + 1
          [] i.op = "DEC" -> v - 1)

\* cdq or cqo
Extend(m, i) ==
  Write(m, Reg("DX"), i.type, IF Signed(Read(m, Reg("AX"), i.type), i.type) < 0 THEN -1 ELSE 0)

\* quotients are rounded towards zero
Quotient(n, d) ==
  LET Abs(v) == IF v < 0 THEN -v ELSE v
      q      == Abs(n) \div Abs(d)
  IN  IF (n < 0) = (d < 0) THEN q ELSE -q

Fits(v, width, signed) ==
  IF signed
  THEN -(2^(Bits(width) - 1)) <= v /\ v < 2^(Bits(width) - 1)
  ELSE 0 <= v /\ v < 2^Bits(width)

\* dx:ax is divided by the operand
Divide(m, i) ==
  LET signed == i.op = "IDIV"
      high   == Read(m, Reg("DX"), i.type)
      n == (IF signed THEN Signed(high, i.type) ELSE high) * 2^Bits(i.type)
             + Read(m, Reg("AX"), i.type)
      s == Read(m, i.src, i.type)
      d == IF signed THEN Signed(s, i.type) ELSE s
  IN  IF d = 0 \/ ~Fits(Quotient(n, d), i.type, signed)
      THEN [m EXCEPT !.trapped = TRUE]
      ELSE Clobber(Write(Write(m, Reg("AX"), i.type, Quotient(n, d)),
                         Reg("DX"), i.type, n - d * Quotient(n, d)))

Compare(m, i) ==
  [m EXCEPT !.flags = <<i.type, Read(m, i.dst, i.type), Read(m, i.src, i.type)>>]

\* a condition code after cmp of a and b
Holds(cc, flags) ==
  LET a == flags[2]
      b == flags[3]
      s == Signed(a, flags[1])
      t == Signed(b, flags[1])
  IN  CASE cc = "E" -> a = b [] cc = "NE" -> a # b
        [] cc = "L" -> s < t [] cc = "LE" -> s <= t
        [] cc = "G" -> s > t [] cc = "GE" -> s >= t
        [] cc = "B" -> a < b [] cc = "BE" -> a <= b
        [] cc = "A" -> a > b [] cc = "AE" -> a >= b

Conditional(m, i) ==
  IF m.flags = NoFlags THEN [m EXCEPT !.trapped = TRUE]
  ELSE IF i.op = "SETCC" THEN Write(m, i.dst, "byte", IF Holds(i.cc, m.flags) THEN 1 ELSE 0)
  ELSE [m EXCEPT !.taken = Holds(i.cc, m.flags)]

\* what the line printed for an instruction does; movslq reads a longword
Exec(m, i) ==
  CASE i.op = "MOV" -> Write(m, i.dst, i.type, Read(m, i.src, i.type))
    [] i.op \in {"ADD", "SUB", "MULT", "AND", "OR", "XOR"} -> Binary2(m, i)
    [] i.op \in {"SHL", "SHR", "SAR"} -> Shift(m, i)
    [] i.op \in {"NEG", "NOT", "INC", "DEC"} -> Unary1(m, i)
    [] i.op = "CDQ" -> Extend(m, i)
    [] i.op \in {"IDIV", "DIV"} -> Divide(m, i)
    [] i.op = "CMP" -> Compare(m, i)
    [] i.op \in {"SETCC", "JMPCC"} -> Conditional(m, i)
    [] i.op = "MOVSX" -> Write(m, i.dst, "quad", Signed(Read(m, i.src, "long"), "long"))
    [] i.op = "RET" -> [m EXCEPT !.done = TRUE]

\* the instruction after the others, unless they have ended the run
Continue(m, i) == IF m.trapped \/ m.done THEN m ELSE Exec(m, i)

Run(m, instrs) ==
  LET after[k \in 0 .. Len(instrs)] ==
        IF k = 0 THEN m ELSE Continue(after[k - 1], instrs[k])
  IN  after[Len(instrs)]

=============================================================================
