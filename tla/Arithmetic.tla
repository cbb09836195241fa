----------------------------- MODULE Arithmetic -----------------------------
(***************************************************************************)
(* One expression from its source to its result: the phases of the         *)
(* compiler that give expressions types (Typing), translate them (Tac)     *)
(* and make instructions of the code and run them (Backend).  The stages   *)
(* before Backend's are "parsed" and "typed".                              *)
(*                                                                         *)
(* A program is an expression used as a statement, as the condition of if, *)
(* as the condition of a switch with a case c, or as the operand of return *)
(* in a function of type tp.                                               *)
(***************************************************************************)
EXTENDS Typing, Tac, Backend, Meaning

CONSTANTS
  Programs,    \* the programs
  Sample(_)    \* the values objects of a type may have

ASSUME WidthsAgree ==
  INT32_MAX = 2^(LongBits - 1) - 1 /\ UINT8_MAX = 2^ByteBits - 1

VARIABLES
  source,   \* the program
  prog,     \* the program with types
  result    \* the operand that has the value of the expression

vars == <<stage, source, prog, code, result, objects, start, machine>>

Init ==
  /\ stage = "parsed"
  /\ source \in Programs
  /\ prog = source
  /\ code = << >>
  /\ result = None
  /\ objects = {}
  /\ start = << >>
  /\ machine = PowerOn(<< >>, << >>)

-----------------------------------------------------------------------------

\* typecheck_stmt on the statement, and the conversion of the case by the
\* label walk
Typecheck ==
  /\ stage = "parsed"
  /\ LET x == Typed(prog.e)
         y == IF prog.k = "return" THEN ConvertTo(x, prog.tp) ELSE x
     IN  prog' = [prog EXCEPT !.e = y, !.c = ConvertConst(@, y.tp)]
  /\ stage' = "typed"
  /\ UNCHANGED <<source, code, result, objects, start, machine>>

\* the code of the statement up to the place its value is used
Statement(g) ==
  CASE prog.k = "expr"   -> g
    [] prog.k = "if"     -> Emit(g, Jump("JZ", 1, g.v, None))
    [] prog.k = "switch" -> Emit(g, Jump("JE", 1, g.v, Const(prog.c, g.v.tp)))
    [] prog.k = "return" -> Emit(g, Instr("RET", None, g.v, None))

Tacgen == [code |-> << >>, tmps |-> 0, labels |-> 1, v |-> None]

RECURSIVE Reads(_)
Reads(x) == (IF x.k = "var" THEN {x} ELSE {}) \cup UNION {Reads(y) : y \in Range(x.a)}

Variables == Reads(source.e)

\* gen_tac on the body
GenTac ==
  /\ stage = "typed"
  /\ LET g == Statement(Gen(Tacgen, prog.e))
     IN  /\ code' = g.code
         /\ result' = g.v
         /\ objects' = Variables \cup {v \in {g.v} : v.k = "var"}
                         \cup UNION {Mentioned(i) : i \in Range(g.code)}
  /\ stage' = "tac"
  /\ UNCHANGED <<source, prog, start, machine>>

GenAsm == SelectAll /\ UNCHANGED <<source, prog, result, objects, start, machine>>

FixPseudo == PlaceAll /\ UNCHANGED <<source, prog, result, objects, start, machine>>

FixInstructions == LegaliseAll /\ UNCHANGED <<source, prog, result, objects, start, machine>>

-----------------------------------------------------------------------------

\* the program runs
RunProgram ==
  /\ Execute({f \in [{v.name : v \in Variables} -> UNION {Sample(t) : t \in Types}] :
                \A v \in Variables : f[v.name] \in Sample(v.tp)})
  /\ UNCHANGED <<source, prog, result>>

Next ==
  \/ Typecheck
  \/ GenTac
  \/ GenAsm
  \/ FixPseudo
  \/ FixInstructions
  \/ RunProgram

Spec == Init /\ [][Next]_vars

-----------------------------------------------------------------------------

Wanted == Evaluate(source.e, start)

\* the value operand o of the intermediate code has in the end
Value(o) == Converted(IF o.k = "const" THEN o.v ELSE machine.mem[o.name], o.tp)

\* What a program does is what C says it does, when C says anything: its
\* value reaches its destination, a jump is taken for the right values, all
\* variables have their new values, and the processor does not trap.  The
\* types, forms and places of the operands do not matter.
Means ==
  stage = "ran" /\ Wanted.ok =>
    /\ ~machine.trapped
    /\ \A v \in Variables : Converted(machine.mem[v.name], v.tp) = Wanted.env[v.name]
    /\ CASE source.k = "expr"   -> Value(result) = Wanted.v
         [] source.k = "return" ->
              Converted(machine.reg["AX"], source.tp) = Converted(Wanted.v, source.tp)
         [] source.k = "if"     -> machine.taken <=> Wanted.v = 0
         [] source.k = "switch" -> machine.taken <=> Wanted.v = Converted(source.c, Wanted.tp)

=============================================================================
