-------------------------------- MODULE X86 ---------------------------------
(***************************************************************************)
(* The instructions of x86.h and their operands, with fields an            *)
(* instruction does not have left at None.  An operand in memory is known  *)
(* by the name of the object it belongs to.                                *)
(***************************************************************************)
EXTENDS Integers, Sequences

CONSTANTS
  INT32_MAX,  \* the largest immediate operand of a quadword instruction
  UINT8_MAX   \* the largest immediate operand of a shift

ASSUME ImmediateAssumption == INT32_MAX \in Nat /\ UINT8_MAX \in Nat

Imm(v)    == [t |-> "imm", v |-> v, name |-> ""]
Reg(r)    == [t |-> "reg", v |-> 0, name |-> r]
Pseudo(x) == [t |-> "pseudo", v |-> 0, name |-> x]
NoOp      == [t |-> "none", v |-> 0, name |-> ""]

IsMem(o) == o.t \in {"stack", "data"}

\* x86_instr: unary instructions have their operand in src
X(op, type, src, dst) ==
  [op |-> op, type |-> type, src |-> src, dst |-> dst, cc |-> "", label |-> 0]

Mov(type, src, dst) == X("MOV", type, src, dst)

=============================================================================
