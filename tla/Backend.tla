------------------------------ MODULE Backend -------------------------------
(***************************************************************************)
(* The passes of the compiler over the instructions of a function, from    *)
(* the intermediate code to what is written to the assembler file:         *)
(* gen_asm_from_func chooses instructions (Selection), x86_fix_pseudo.c    *)
(* puts objects into memory (where, is the matter of FrameLayout) and      *)
(* x86_fix_instrs.c gives instructions legal operands (Legalise).          *)
(*                                                                         *)
(* Then a run of the code on the processor (Machine), which the stage      *)
(* after the last pass, "ran", stands for.  Code that is run is without    *)
(* jumps but conditional ones, of which only is recorded whether the last  *)
(* was taken.                                                              *)
(***************************************************************************)
EXTENDS Selection, Legalise, Machine, SequencesExt

CONSTANTS
  DataNames    \* the names of objects of static duration

\* the names the passes give are among the names
ASSUME OpNamesAssumption ==
  {"AX", "DX", "RET", "NEG", "NOT", "CDQ", "IDIV", "DIV", "ADD", "SUB", "MULT",
   "AND", "OR", "XOR", "SHL", "SHR", "SAR", "SETCC", "CMP", "JMP", "JMPCC", "LABEL",
   "INC", "DEC", "MOVSX", "MOVZEXT", "byte", "E", "NE", "L", "LE", "G", "GE", "B",
   "BE", "A", "AE"} \subseteq Names

VARIABLES
  stage,    \* the pass that is done
  code,     \* the intermediate code, then the instructions
  objects,  \* the objects of the code, temporaries included
  start,    \* the values the variables start with
  machine   \* the processor at the end

backVars == <<stage, code>>
execVars == <<backVars, objects, start, machine>>

-----------------------------------------------------------------------------

\* the instructions of the intermediate code by the operands they have; calls
\* are not among them
Binaries ==
  {"ADD", "SUB", "MUL", "AND", "OR", "XOR", "LSHIFT", "RSHIFT", "DIV", "MOD"} \cup Comparisons
Assigning ==
  {"ASADD", "ASSUB", "ASMUL", "ASDIV", "ASMOD", "ASAND", "ASOR", "ASXOR",
   "ASLSHIFT", "ASRSHIFT", "CPY"}
Unaries  == {"NEGATE", "COMPLEMENT", "NOT", "TRUNCATE"}
Extensions == {"SIGN_EXTEND", "ZERO_EXTEND"}
Stepping == {"INC", "DEC"}
OnlyRead == {"RET", "JZ", "JNZ", "JE"}
Bare     == {"JMP", "LABEL"}

TacOps == Binaries \cup Assigning \cup Unaries \cup Extensions \cup Stepping \cup OnlyRead \cup Bare

TacValues ==
  [k : {"var", "const"}, op : {""}, v : Nat, name : Names, a : {<< >>}, tp : Types]

\* What tac.c makes of checked expressions: results go to variables, all
\* operands of an operator are there, only what is narrower is extended, a
\* quotient is as wide as what is divided, and a constant of a narrow type that
\* is compared, tested or extended is one the scanner has found room for in its
\* type.
TacInstrs ==
  {i \in [op : TacOps, dst : TacValues \cup {None}, src1 : TacValues \cup {None},
          src2 : TacValues \cup {None}, label : Nat, name : {""}, args : {<< >>}] :
     /\ i.op \in Binaries \cup Assigning \cup Unaries \cup Extensions => i.dst.k = "var"
     /\ i.op \notin Bare => i.src1 # None
     /\ i.op \in Binaries \cup {"JE"} => i.src2 # None
     /\ i.op \in Stepping => i.src1.k = "var"
     /\ i.op \in Extensions => i.src1.tp \in {"int", "uint"} /\ i.dst.tp \in {"long", "ulong"}
     /\ i.op \in {"DIV", "MOD"} => Width(i.src1.tp) = Width(i.dst.tp)
     /\ i.src1.k = "const" /\ i.src1.tp \in {"int", "uint"} => i.src1.v < LongSize}

BackInit ==
  /\ stage = "tac"
  /\ code \in Seq(TacInstrs)

-----------------------------------------------------------------------------

\* gen_asm_from_func
SelectAll ==
  /\ stage = "tac"
  /\ code' = FlattenSeq([k \in DOMAIN code |-> Select(code[k])])
  /\ stage' = "selected"

\* fix_pseudo_op
Placed(o) ==
  IF o.t = "pseudo"
  THEN [o EXCEPT !.t = IF o.name \in DataNames THEN "data" ELSE "stack"]
  ELSE o

PlaceAll ==
  /\ stage = "selected"
  /\ code' = [k \in DOMAIN code |-> [code[k] EXCEPT !.src = Placed(@), !.dst = Placed(@)]]
  /\ stage' = "placed"

\* fix_instructions_for_func
LegaliseAll ==
  /\ stage = "placed"
  /\ code' = FlattenSeq([k \in DOMAIN code |-> Fixed(code[k])])
  /\ stage' = "legal"

BackNext == SelectAll \/ PlaceAll \/ LegaliseAll

BackSpec == BackInit /\ [][BackNext]_backVars

-----------------------------------------------------------------------------

TypeOf(name) == (CHOOSE v \in objects : v.name = name).tp

Rooms == [n \in {v.name : v \in objects} |-> Width(TypeOf(n))]

-----------------------------------------------------------------------------

\* the operands of an instruction that are objects
Mentioned(i) == {v \in {i.dst, i.src1, i.src2} : v.k = "var"}

\* Code the translation of an expression gives: every object is mentioned with
\* the one type it has.
ExpressionCode ==
  /\ code \in Seq({i \in TacInstrs : i.op \notin Bare})
  /\ \A v, w \in objects : v.name = w.name => v.tp = w.tp
  /\ \A i \in Range(code) : Mentioned(i) \subseteq objects

ExecInit ==
  /\ BackInit
  /\ objects \in SUBSET {v \in TacValues : v.k = "var"}
  /\ ExpressionCode
  /\ start = << >>
  /\ machine = PowerOn(<< >>, << >>)

\* objects may start with what inits gives them; temporaries hold anything at
\* first, here zero
Execute(inits) ==
  /\ stage = "legal"
  /\ start' \in inits
  /\ LET mem == [n \in DOMAIN Rooms |->
                   IF n \in DOMAIN start' THEN Low(start'[n], Rooms[n]) ELSE 0]
     IN  machine' = Run(PowerOn(mem, Rooms), code)
  /\ stage' = "ran"
  /\ UNCHANGED <<code, objects>>

ExecNext ==
  \/ BackNext /\ UNCHANGED <<objects, start, machine>>
  \/ \E names \in SUBSET Names : Execute([names -> Int])

ExecSpec == ExecInit /\ [][ExecNext]_execVars

-----------------------------------------------------------------------------

\* The selection is given instructions it has an answer to, it gives the last
\* pass instructions that one can make legal, and after it the assembler refuses
\* no instruction but a shift whose constant count is more than a byte holds (of
\* which C99 6.5.7 says nothing).
LegalForms ==
  /\ stage = "tac" => \A i \in Range(code) : i \in TacInstrs
  /\ stage = "placed" => \A i \in Range(code) : i \in Instructions /\ Produced(i)
  /\ stage = "legal" => \A i \in Range(code) : Legal(i) \/ TooFar(i)

\* No instruction writes more bytes than the object it writes to has, also
\* where the behaviour of the program is undefined; the code is made of
\* objects with the one type they have.
WritesInside ==
  /\ stage = "tac" => ExpressionCode
  /\ ~machine.smashed

=============================================================================
