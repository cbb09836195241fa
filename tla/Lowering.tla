------------------------------ MODULE Lowering ------------------------------
(***************************************************************************)
(* A function body from its statements to its behaviour: the label walk of *)
(* loop_labeling.c (LoopLabels) meets the statements one by one, tac.c     *)
(* translates the labelled body (Tac), and the intermediate code runs next *)
(* to the body itself (Statements).                                        *)
(*                                                                         *)
(* blocks are the constructs the walk is in, from the outside inwards,     *)
(* with the part of the tree that is complete.  The code and the body run  *)
(* independently up to their next event, a call or the return; the world   *)
(* answers a call when both have come to one.                              *)
(***************************************************************************)
EXTENDS LoopLabels, Statements, SequencesExt

CONSTANTS
  Conds(_),       \* conditions of the n-th statement
  Exprs(_),       \* expressions of the n-th statement
  Weight(_),      \* statements an expression counts for
  Answers(_),     \* what calls of a type may return
  MaxStmts        \* bound on the statements of a body

VARIABLES
  blocks,      \* the constructs being walked
  size,        \* the number of statements met
  stage,       \* "parsed", "labelled", then "running" and "returned", or
               \* "unlinked" for code gcc refuses
  code,        \* the intermediate code
  cpu,         \* its next instruction and the values of variables
  src          \* the body as C runs it

runVars   == <<stage, code, cpu, src>>
lowerVars == <<vars, blocks, size, runVars>>

-----------------------------------------------------------------------------

Opened(s) == [s |-> s, items |-> << >>, parts |-> << >>]
Inner == blocks[Len(blocks)]
Outer == SubSeq(blocks, 1, Len(blocks) - 1)

With(bs, s) == [bs EXCEPT ![Len(bs)].items = Append(@, s)]

Block(items) == Stmt("block", None, <<None, None>>, items)

\* the construct that ends here
Closed == [Inner.s EXCEPT !.body = Append(Inner.parts, Block(Inner.items))]

\* the last statement the walk has labelled
Labelled == nodes'[Len(nodes')]

Leaf(k, e) == Stmt(k, e, <<None, None>>, <<NullStmt>>)

\* bound: statements and operators count up to MaxStmts, by the weights the
\* actions give; a label counts for two, the first break or continue for none
Fits(weight) ==
  /\ stage = "parsed" /\ blocks # << >> /\ status = "walking"
  /\ size + weight <= MaxStmts
  /\ size' = size + weight

\* bound: nothing follows a jump but case, default and a label, since it could
\* not be reached
Jumped ==
  /\ blocks # << >> /\ Inner.items # << >>
  /\ Last(Inner.items).k \in {"break", "continue", "goto", "return"}

\* all statements of a kind anywhere in the constructs
RECURSIVE In(_, _)
In(s, k) == s.k = k \/ \E n \in DOMAIN s.body : In(s.body[n], k)

Met(k) == \E b \in Range(blocks) : \E s \in Range(b.items) \cup Range(b.parts) : In(s, k)

-----------------------------------------------------------------------------

LowerInit ==
  /\ Init
  /\ blocks = << >>
  /\ size = 0
  /\ stage = "parsed"
  /\ code = << >>
  /\ cpu = [pc |-> 1, vals |-> << >>]
  /\ src = Entered(NullStmt, << >>)

OpenFunc ==
  /\ stage = "parsed" /\ blocks = << >>
  /\ EnterFunc
  /\ blocks' = <<Opened(Block(<< >>))>>
  /\ UNCHANGED <<size, runVars>>

OpenLoop(kind, e, post) ==
  /\ Fits(Weight(e) + 1) /\ ~Jumped
  /\ EnterLoop
  /\ blocks' = Append(blocks,
       Opened([Stmt(kind, e, <<None, post>>, << >>) EXCEPT
                 !.brk = Labelled.brk, !.cont = Labelled.cont]))
  /\ UNCHANGED runVars

CloseLoop ==
  /\ Len(blocks) > 1 /\ Inner.s.k \in {"while", "do", "for"}
  /\ ExitLoop
  /\ blocks' = With(Outer, Closed)
  /\ UNCHANGED <<size, runVars>>

OpenSwitch(e) ==
  /\ Fits(Weight(e) + 1) /\ ~Jumped
  /\ EnterSwitch(e.tp)
  /\ blocks' = Append(blocks,
       Opened([Stmt("switch", e, <<None, None>>, << >>) EXCEPT !.brk = Labelled.brk]))
  /\ UNCHANGED runVars

\* the cases are those the walk gives the node
CloseSwitch ==
  /\ Len(blocks) > 1 /\ Inner.s.k = "switch"
  /\ LET n == stack[Len(stack)].s
     IN  /\ ExitSwitch
         /\ blocks' = With(Outer,
              [Closed EXCEPT
                 !.cases = {[value |-> nodes[c].value, label |-> nodes[c].idx] :
                              c \in nodes'[n].cases},
                 !.dflt = IF nodes'[n].dflt = NoNode THEN 0 ELSE nodes[nodes'[n].dflt].idx])
  /\ UNCHANGED <<size, runVars>>

\* the walk just goes on into the branches
OpenIf(e) ==
  /\ Fits(Weight(e) + 1) /\ ~Jumped
  /\ blocks' = Append(blocks, Opened(Stmt("if", e, <<None, None>>, << >>)))
  /\ UNCHANGED <<vars, runVars>>

OpenElse ==
  /\ Len(blocks) > 1 /\ Inner.s.k = "if" /\ Inner.parts = << >>
  /\ blocks' = Append(Outer, [Inner EXCEPT !.items = << >>, !.parts = <<Block(Inner.items)>>])
  /\ UNCHANGED <<vars, size, runVars>>

CloseIf ==
  /\ Len(blocks) > 1 /\ Inner.s.k = "if" /\ status = "walking"
  /\ blocks' = With(Outer, Closed)
  /\ UNCHANGED <<vars, size, runVars>>

JumpWeight == IF Met("break") \/ Met("continue") THEN 1 ELSE 0

\* break, continue, case and default: labelled, or the program is refused
AddLabelled(k, e) ==
  /\ blocks' = IF status' = "error" THEN blocks
               ELSE With(blocks, [Leaf(k, e) EXCEPT !.idx = Labelled.idx])
  /\ UNCHANGED runVars

MeetBreak    == Fits(JumpWeight) /\ ~Jumped /\ Break /\ AddLabelled("break", None)
MeetContinue == Fits(JumpWeight) /\ ~Jumped /\ Continue /\ AddLabelled("continue", None)
MeetDefault  == Fits(1) /\ Default /\ AddLabelled("default", None)
MeetCase(v)  == Fits(1) /\ Case(v) /\ AddLabelled("case", Const(v, "int"))

\* statements the walk passes
Add(s, weight) ==
  /\ Fits(weight)
  /\ blocks' = With(blocks, s)
  /\ UNCHANGED <<vars, runVars>>

Plain ==
  /\ ~Jumped
  /\ \E e \in Exprs(size) :
       \/ Add(Leaf("expr", e), Weight(e))
       \/ size = 0 /\ Add(Stmt("decl", e, <<Var("x", "int"), None>>, << >>), Weight(e))
       \/ Add(Leaf("return", e), Weight(e) + 1)

\* bound: one label, which resolve.c has given the index Resolved; it accepts
\* a body with the label its gotos name, see CloseFunc and Resolve
Label == ~Met("label") /\ Add([Leaf("label", None) EXCEPT !.idx = Resolved], 2)

\* a tree whose gotos have the index they were made with
RECURSIVE Unbound(_)
Unbound(s) ==
  IF s.k = "goto" THEN [s EXCEPT !.idx = 0]
  ELSE [s EXCEPT !.body = [n \in DOMAIN s.body |-> Unbound(s.body[n])]]

AllUnbound(ss) == [n \in DOMAIN ss |-> Unbound(ss[n])]

\* resolve_goto_stmt: the goto takes the place of the one before it in
\* gotos_to_check_ht, and only those there get the index of the label when the
\* body ends
GotoStmt ==
  /\ Fits(1) /\ ~Jumped
  /\ LET others == [b \in DOMAIN blocks |->
                     [blocks[b] EXCEPT !.items = AllUnbound(@), !.parts = AllUnbound(@)]]
     IN  blocks' = With(others, [Leaf("goto", None) EXCEPT !.idx = Resolved])
  /\ UNCHANGED <<vars, runVars>>

CloseFunc ==
  /\ stage = "parsed" /\ Len(blocks) = 1 /\ size > 0
  /\ Met("goto") <=> Met("label")
  /\ LeaveFunc
  /\ stage' = "labelled"
  /\ UNCHANGED <<blocks, size, code, cpu, src>>

-----------------------------------------------------------------------------

JumpOps == {"JMP", "JZ", "JNZ", "JE"}

\* the jumps of some code to no label of it
Lost(c) ==
  {k \in DOMAIN c : c[k].op \in JumpOps
                    /\ \A j \in DOMAIN c : ~(c[j].op = "LABEL" /\ c[j].label = c[k].label)}

\* gen_tac on the function; what main has gcc make of code with a jump to no
\* label is nothing
GenTac ==
  /\ stage = "labelled"
  /\ LET g == GenFunc([code |-> << >>, tmps |-> 0, labels |-> counter, v |-> None],
                      Inner.items)
         names == {"x"} \cup {"t_" \o ToString(k) : k \in 1 .. g.tmps}
     IN  /\ code' = g.code
         /\ cpu' = [pc |-> 1, vals |-> [n \in names |-> 0]]
  /\ src' = Entered(Block(Inner.items), [n \in {"x"} |-> 0])
  /\ stage' = IF Lost(code') = {} THEN "running" ELSE "unlinked"
  /\ UNCHANGED <<vars, blocks, size>>

Value(v) == IF v.k = "const" THEN v.v ELSE cpu.vals[v.name]

\* the place a label of the code marks
Marked(l) == CHOOSE k \in DOMAIN code : code[k].op = "LABEL" /\ code[k].label = l

Current == code[cpu.pc]

AtCodeEvent == Current.op \in {"CALL", "RET"}

CodeEvent ==
  IF Current.op = "RET"
  THEN Return(Value(Current.src1))
  ELSE [name |-> Current.name, args |-> [k \in DOMAIN Current.args |-> Value(Current.args[k])]]

Taken(i) ==
  \/ i.op = "JMP"
  \/ i.op = "JZ" /\ Value(i.src1) = 0
  \/ i.op = "JNZ" /\ Value(i.src1) # 0
  \/ i.op = "JE" /\ Value(i.src1) = Value(i.src2)

\* an instruction of the intermediate code
Stepped ==
  CASE Current.op = "CPY" ->
         [pc |-> cpu.pc + 1,
          vals |-> [cpu.vals EXCEPT ![Current.dst.name] = Value(Current.src1)]]
    [] Current.op # "CPY" /\ Taken(Current) -> [cpu EXCEPT !.pc = Marked(Current.label)]
    [] OTHER -> [cpu EXCEPT !.pc = @ + 1]

BothAtEvent == stage = "running" /\ AtCodeEvent /\ AtSourceEvent(src)

\* neither sees the other, so they may as well take their steps together; the
\* one that comes to an event first waits
Step ==
  /\ stage = "running" /\ ~BothAtEvent
  /\ cpu' = IF AtCodeEvent THEN cpu ELSE Stepped
  /\ src' = IF AtSourceEvent(src) THEN src ELSE Proceed(src)
  /\ UNCHANGED <<vars, blocks, size, stage, code>>

\* both have made a call, the same one, and it returns
Answer ==
  /\ BothAtEvent /\ Current.op = "CALL"
  /\ CodeEvent = SourceEvent(src)
  /\ \E v \in Answers(Current.dst.tp) :
       /\ cpu' = [pc |-> cpu.pc + 1, vals |-> [cpu.vals EXCEPT ![Current.dst.name] = v]]
       /\ src' = Resumed(src, v)
  /\ UNCHANGED <<vars, blocks, size, stage, code>>

Returned ==
  /\ BothAtEvent /\ Current.op = "RET"
  /\ stage' = "returned"
  /\ UNCHANGED <<vars, blocks, size, code, cpu, src>>

LowerNext ==
  \/ OpenFunc
  \/ \E e \in Conds(size) :
       \/ OpenLoop("while", e, None)
       \/ OpenLoop("do", e, None)
       \/ OpenLoop("for", e, Call("post", << >>, "int"))
       \/ OpenIf(e)
  \/ OpenLoop("for", None, None)
  \/ CloseLoop
  \/ \E tp \in SwitchTypes : OpenSwitch(Call("s", << >>, tp))
  \/ CloseSwitch
  \/ OpenElse
  \/ CloseIf
  \/ MeetBreak
  \/ MeetContinue
  \/ MeetDefault
  \/ \E v \in Constants : MeetCase(v)
  \/ Plain
  \/ Label
  \/ GotoStmt
  \/ CloseFunc
  \/ GenTac
  \/ Step
  \/ Answer
  \/ Returned

\* The processor goes on with the code, and C with the body, until a call; no
\* call has to return.
LowerSpec == LowerInit /\ [][LowerNext]_lowerVars /\ WF_lowerVars(Step)

-----------------------------------------------------------------------------

RECURSIVE GotosIn(_)
GotosIn(s) ==
  IF s.k = "goto" THEN 1 ELSE FoldLeft(LAMBDA n, t : n + GotosIn(t), 0, s.body)

\* Resolver, walk and translation give out a label of the file once, and every
\* jump of the code has its label (new_label, enter_loop, label_idx_counter),
\* apart from gotos that are not the only one to their label, which are lost
\* but for one at most.  The code stays as it is before its first instruction.
LabelsMatch ==
  cpu.pc = 1 =>
    /\ \A k \in DOMAIN code : code[k].op = "LABEL" =>
         /\ code[k].label > 0
         /\ \A j \in DOMAIN code : code[j].op = "LABEL" /\ code[j].label = code[k].label => j = k
    /\ Lost(code) # {} =>
         /\ \A k \in Lost(code) : code[k].op = "JMP"
         /\ Cardinality(Lost(code)) < GotosIn(Block(Inner.items))

\* Translated code that links calls what the body calls, with the same operands
\* and in the same order, whatever the calls return, and returns the same value.
SameEvents == BothAtEvent => CodeEvent = SourceEvent(src)

\* When one of them comes to a call or returns so does the other: no loop of
\* the body is lost or made endless by the translation.
Progress ==
  stage = "running" /\ (AtCodeEvent \/ AtSourceEvent(src)) ~> BothAtEvent

====
