------------------------------ MODULE CallConv ------------------------------
(***************************************************************************)
(* The code x86.c and x86_emit.c generate around a function call, executed *)
(* on a stack of eight-byte words: where the caller puts the operands      *)
(* (gen_asm_from_call), where the callee looks for its parameters          *)
(* (gen_asm_from_func), the frame prologue and the RET epilogue.           *)
(*                                                                         *)
(* A function is known by its number of parameters.  Its parameters are    *)
(* the first variables its code mentions, so FrameLayout gives parameter i *)
(* the i-th slot; the slot after them stands for the temporary that        *)
(* receives the result of a call it makes.  All objects are quadwords      *)
(* here.  Registers %r10, %r11 and %rax, which the generated code uses as  *)
(* scratch, never hold an operand.                                         *)
(***************************************************************************)
EXTENDS Integers, Sequences

CONSTANTS
  Arities,      \* the numbers of parameters of the functions called
  MaxParams,    \* bound on them
  MaxDepth,     \* bound on the nesting of calls
  MaxCalls      \* bound on the number of calls made

ASSUME CallAssumption ==
  /\ MaxParams \in Nat
  /\ Arities \subseteq 0 .. MaxParams
  /\ MaxDepth \in Nat
  /\ MaxCalls \in Nat

VARIABLES
  pc,           \* "entry" of a function, in its "body", or at its "call"
  rsp, rbp,
  regs,         \* arg_regs[0] .. arg_regs[5]
  mem,          \* the stack, word by word
  active,       \* the number of parameters of each active function
  args,         \* the operands of the call being made
  calls         \* the number of calls made so far

vars == <<pc, rsp, rbp, regs, mem, active, args, calls>>

-----------------------------------------------------------------------------

\* values: an operand, a result, a saved address or anything else

Arg(c, j) == [kind |-> "arg", call |-> c, index |-> j]
Result(c) == [kind |-> "result", call |-> c]
Saved(a)  == [kind |-> "saved", addr |-> a]
Junk      == [kind |-> "junk"]

ArgRegs == 0 .. 5

Least(a, b) == IF a <= b THEN a ELSE b
Most(a, b)  == IF a >= b THEN a ELSE b

\* the stack operands of a call with n operands
StackArgs(n) == Most(n - 6, 0)

\* bug: the test of the parity is the wrong way round
PaddingOfEven(n) == IF n % 2 = 0 THEN 8 ELSE 0

\* what the caller subtracts from %rsp before it places the operands
Padding(n) == IF n % 2 = 1 THEN 8 ELSE 0

\* bug: the padding stays
ReleaseArgsOnly(n) == 8 * StackArgs(n)

\* what the caller adds to %rsp after the call
Release(n) == Padding(n) + 8 * StackArgs(n)

\* the bytes of a function with n parameters, fix_pseudo_for_func's result
FrameBytes(n) == ((8 * (n + 1) + 15) \div 16) * 16

\* the slots of the parameters and of the result of a call made
ParamSlot(base, i) == base - 8 * (i + 1)
ResultSlot(base, n) == base - 8 * (n + 1)

\* bug: the return address is forgotten
StackParamTooLow(base, i) == base + 8 + 8 * (i - 6)

\* where gen_asm_from_func looks for a parameter past the sixth: the stack
\* offset (i - 5) * -8 - 8, which is subtracted from %rbp
StackParam(base, i) == base - ((i - 5) * (0 - 8) - 8)

\* the word operand j of a call with n operands is pushed to, %rsp being sp
\* before the pushes: operand n - 1 first
PushedAt(sp, n, j) == sp - 8 * (n - j)

\* memory m after the words of the function new are stored
Store(m, new) == [a \in DOMAIN m |-> IF a \in DOMAIN new THEN new[a] ELSE m[a]]

Arity == active[Len(active)]

-----------------------------------------------------------------------------

\* the deepest word the program can use under the bounds
StackEnd == (MaxDepth + 1) * (24 + FrameBytes(MaxParams) + Release(MaxParams) + 8)

Words == {0 - 8 * k : k \in 0 .. (StackEnd \div 8)}

\* the runtime has called main
Init ==
  /\ pc = "entry"
  /\ rsp = 0 - 8
  /\ rbp = 0
  /\ regs = [r \in ArgRegs |-> Junk]
  /\ mem = [a \in Words |-> Junk]
  /\ active = <<0>>
  /\ args = << >>
  /\ calls = 0

\* pushq %rbp; movq %rsp, %rbp; subq $frame, %rsp; then the moves of the
\* parameters to their slots, first those in registers
Enter ==
  /\ pc = "entry"
  /\ pc' = "body"
  /\ rbp' = rsp - 8
  /\ rsp' = rbp' - FrameBytes(Arity)
  /\ LET slots  == {ParamSlot(rbp', i) : i \in 0 .. Arity - 1}
         Source(i) == IF i \in ArgRegs THEN regs[i] ELSE mem[StackParam(rbp', i)]
         copied == [a \in slots |->
                      Source(CHOOSE i \in 0 .. Arity - 1 : ParamSlot(rbp', i) = a)]
         pushed == [a \in {rbp'} |-> Saved(rbp)]
     IN  mem' = Store(Store(mem, pushed), copied)
  /\ args' = << >>
  /\ UNCHANGED <<regs, active, calls>>

\* gen_asm_from_call up to the call instruction: padding, the moves to the
\* argument registers, the pushes
Place(n) ==
  /\ pc = "body"
  /\ Len(active) < MaxDepth
  /\ calls < MaxCalls
  /\ pc' = "call"
  /\ calls' = calls + 1
  /\ args' = [k \in 1 .. n |-> Arg(calls', k - 1)]
  /\ regs' = [r \in ArgRegs |-> IF r < n THEN args'[r + 1] ELSE Junk]
  /\ LET sp     == rsp - Padding(n)
         places == {PushedAt(sp, n, j) : j \in 6 .. n - 1}
         pushed == [a \in places |->
                      args'[1 + CHOOSE j \in 6 .. n - 1 : PushedAt(sp, n, j) = a]]
     IN  /\ mem' = Store(mem, pushed)
         /\ rsp' = sp - 8 * StackArgs(n)
  /\ UNCHANGED <<rbp, active>>

\* the call instruction pushes the return address
Call ==
  /\ pc = "call"
  /\ pc' = "entry"
  /\ rsp' = rsp - 8
  /\ mem' = [mem EXCEPT ![rsp - 8] = Saved(0)]
  /\ active' = Append(active, Len(args))
  /\ UNCHANGED <<rbp, regs, args, calls>>

\* RET (movq %rbp, %rsp; popq %rbp; ret) with the result in %rax, then what
\* follows the call instruction in the caller: the operands and the padding
\* are released and the result moves to its object.  By then the callee has
\* used the argument registers for its own purposes.
Return ==
  /\ pc = "body"
  /\ Len(active) > 1
  /\ rbp' = mem[rbp].addr
  /\ rsp' = rbp + 16 + Release(Arity)
  /\ regs' = [r \in ArgRegs |-> Junk]
  /\ active' = SubSeq(active, 1, Len(active) - 1)
  /\ mem' = [mem EXCEPT ![ResultSlot(rbp', active[Len(active) - 1])] = Result(calls)]
  /\ UNCHANGED <<pc, args, calls>>

Next ==
  \/ Enter
  \/ \E n \in Arities : Place(n)
  \/ Call
  \/ Return

Spec == Init /\ [][Next]_vars

-----------------------------------------------------------------------------

Value == {Arg(c, j) : c \in 0 .. MaxCalls, j \in 0 .. MaxParams}
           \cup {Result(c) : c \in 0 .. MaxCalls}
           \cup {Saved(a) : a \in Words} \cup {Junk}

\* Whenever a function's own code runs, %rsp is where its prologue left it:
\* every call released exactly what it took.  RET restores %rsp from %rbp,
\* so a program would not show a leak here until the stack is exhausted.
StackBalanced == pc = "body" => rsp = rbp - FrameBytes(Arity)

\* the number of operands is even, or there are operands on the stack; of one,
\* three or five operands, for which gen_asm_from_call pads as well, nothing is
\* said
EvenOrPushed(n) == n % 2 = 0 \/ n > 6

\* Every call instruction finds the stack pointer at a multiple of 16, as the
\* convention asks for, if that call and those it is nested in have an even
\* number of operands or some of them on the stack: the frames, the padding, the
\* operands pushed and the two words of each call add up.
CallAlignment ==
  /\ pc = "call"
  /\ EvenOrPushed(Len(args))
  /\ \A k \in DOMAIN active : EvenOrPushed(active[k])
  => rsp % 16 = 0

\* The generated code implements the calls of the language.  The activations
\* are found by following the saved frame pointers in memory.
Depth == IF pc = "entry" THEN Len(active) - 1 ELSE Len(active)

Base[k \in 1 .. Depth] ==
  IF k = Depth THEN rbp ELSE mem[Base[k + 1]].addr

ActsInMemory ==
  [k \in 1 .. Depth |->
     [params |-> [i \in 1 .. active[k] |-> mem[ParamSlot(Base[k], i - 1)]],
      result |-> mem[ResultSlot(Base[k], active[k])]]]

Language == INSTANCE Activations
              WITH acts <- ActsInMemory, operands <- args, resumed <- pc = "body"

ImplementsCalls == Language!Spec

=============================================================================
