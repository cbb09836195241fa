---------------------------- MODULE FrameLayout ----------------------------
(***************************************************************************)
(* x86_fix_pseudo.c: every pseudo operand (a variable or a temporary) of a *)
(* function gets its final home, either the static object of the same name *)
(* or a slot below %rbp, and the function gets the size of its frame.      *)
(*                                                                         *)
(* The three statics of the file (offset, max_offset, offset_table) are    *)
(* the record lay.  An instruction is what the switch of                   *)
(* fix_pseudo_for_instr tells apart: the operands it hands to              *)
(* fix_pseudo_op, in order; instructions without operands change nothing.  *)
(* Instead of the rewritten list the model keeps homes, the set of pairs   *)
(* <<pseudo, operand it became>> of the current function.                  *)
(***************************************************************************)
EXTENDS Integers

CONSTANTS
  Vars,       \* names with an object entry in the backend symbol table
  Statics,    \* those whose entry has is_static
  Quads       \* those of type X86_QUADWORD; the others are X86_LONGWORD

ASSUME VarsAssumption == Statics \subseteq Vars /\ Quads \subseteq Vars

VARIABLES
  phase,      \* "body" inside the loop of fix_pseudo_for_func, else "idle"
  lay,        \* [offset, maxOffset, table]: the statics of the file
  homes,      \* what each pseudo operand met so far was rewritten to
  frame       \* the last value fix_pseudo_for_func returned

vars == <<phase, lay, homes, frame>>

-----------------------------------------------------------------------------

\* sizes and rounding

SlotBytes(n) == IF n \in Quads THEN 8 ELSE 4

\* (x + by - 1) & ~(by - 1)
RoundUp(x, by) == ((x + by - 1) \div by) * by

\* bug: every slot is a longword
BumpLongword(off, n) == off + 4

\* the offset of the next new slot
BumpOffset(off, n) ==
  IF n \in Quads THEN RoundUp(off + 8, 8) ELSE off + 4

IntMax(a, b) == IF a >= b THEN a ELSE b

EmptyLayout == [offset |-> 0, maxOffset |-> 0, table |-> [n \in {} |-> 0]]

\* a slot below everything placed so far
NewSlot(l, n) ==
  LET off == BumpOffset(l.offset, n)
  IN  [offset    |-> off,
       maxOffset |-> IntMax(l.maxOffset, off),
       table     |-> [m \in DOMAIN l.table \cup {n} |->
                        IF m = n THEN off ELSE l.table[m]]]

\* bug: a static is given a slot
PlaceStatic(l, n) == IF n \in DOMAIN l.table THEN l ELSE NewSlot(l, n)

\* bug: the offset table is not looked up
PlaceAgain(l, n) == IF n \in Statics THEN l ELSE NewSlot(l, n)

\* fix_pseudo_op on the pseudo operand n: the statics afterwards
PlaceVar(l, n) ==
  IF n \in Statics THEN l
  ELSE IF n \in DOMAIN l.table
       THEN [l EXCEPT !.maxOffset = IntMax(@, l.table[n])]
       ELSE NewSlot(l, n)

\* ... and the operand n became
Home(l, n) ==
  IF n \in Statics THEN [t |-> "data", v |-> n]
                   ELSE [t |-> "stack", v |-> l.table[n]]

-----------------------------------------------------------------------------

Init ==
  /\ phase = "idle"
  /\ lay = EmptyLayout
  /\ homes = {}
  /\ frame = 0

\* fix_pseudo_for_func starts on the next function of the program
Enter ==
  /\ phase = "idle"
  /\ phase' = "body"
  /\ lay' = EmptyLayout
  /\ homes' = {}
  /\ UNCHANGED frame

\* an instruction one of whose operands is a pseudo: unary.src, setcc.op, or
\* a binary instruction whose other operand is a register or an immediate
FixOne(n) ==
  /\ phase = "body"
  /\ lay' = PlaceVar(lay, n)
  /\ homes' = homes \cup {<<n, Home(lay', n)>>}
  /\ UNCHANGED <<phase, frame>>

\* a binary instruction with two pseudos: src is placed before dst
FixTwo(src, dst) ==
  /\ phase = "body"
  /\ LET l1 == PlaceVar(lay, src)
     IN  /\ lay' = PlaceVar(l1, dst)
         /\ homes' = homes \cup {<<src, Home(l1, src)>>, <<dst, Home(lay', dst)>>}
  /\ UNCHANGED <<phase, frame>>

\* bug: the frame is rounded down
LeaveShort ==
  /\ phase = "body"
  /\ phase' = "idle"
  /\ frame' = (lay.maxOffset \div 16) * 16
  /\ UNCHANGED <<lay, homes>>

\* the end of the instruction list: the frame size goes back to gen_asm
Leave ==
  /\ phase = "body"
  /\ phase' = "idle"
  /\ frame' = RoundUp(lay.maxOffset, 16)
  /\ UNCHANGED <<lay, homes>>

Next ==
  \/ Enter
  \/ \E n \in Vars : FixOne(n)
  \/ \E src, dst \in Vars : FixTwo(src, dst)
  \/ Leave

Spec == Init /\ [][Next]_vars

-----------------------------------------------------------------------------

HomeSet == [t : {"data"}, v : Vars] \cup [t : {"stack"}, v : Nat]

\* The statics hold offsets for non-static names only.
TypeOK ==
  /\ phase \in {"idle", "body"}
  /\ lay.offset \in Nat
  /\ lay.maxOffset \in Nat
  /\ lay.table \in [DOMAIN lay.table -> Nat]
  /\ DOMAIN lay.table \subseteq Vars \ Statics
  /\ homes \subseteq Vars \X HomeSet
  /\ frame \in Nat

\* the bytes below %rbp an operand reads or writes when it stands for n
Bytes(n, op) == (op.v - SlotBytes(n) + 1) .. op.v

\* Every mention of a variable in a function was rewritten to the same
\* operand: the offset table outlives the instruction that filled it.
OneHome == \A p, q \in homes : p[1] = q[1] => p[2] = q[2]

\* Two different variables of a function never share a byte of the frame,
\* whatever the order of their first uses and the mix of widths.
NoOverlap ==
  \A p, q \in homes :
    /\ p[1] # q[1]
    /\ p[2].t = "stack"
    /\ q[2].t = "stack"
    => Bytes(p[1], p[2]) \cap Bytes(q[1], q[2]) = {}

\* %rbp is a multiple of 8, so a slot is naturally aligned when its offset
\* is a multiple of its size; a quadword after an odd number of longwords
\* is where this could fail.
SlotsAligned ==
  \A p \in homes : p[2].t = "stack" => p[2].v % SlotBytes(p[1]) = 0

\* What fix_pseudo_for_func returns keeps the stack pointer aligned to 16 and
\* covers every byte the function was given, saved %rbp and caller excluded.
FrameCovers ==
  phase = "idle" =>
    /\ frame % 16 = 0
    /\ \A p \in homes :
         p[2].t = "stack" => Bytes(p[1], p[2]) \subseteq 1 .. frame

=============================================================================
