----------------------------- MODULE LoopLabels -----------------------------
(***************************************************************************)
(* loop_labeling.c: one walk over every function body gives each loop and  *)
(* switch its labels, ties break, continue, case and default to the        *)
(* construct they belong to, and collects the cases of every switch.       *)
(*                                                                         *)
(* The walk is modelled by the statements it meets, in source order: the   *)
(* recursion enters and leaves loops and switches, every other statement   *)
(* leaves the stack alone.  nodes are the statements labelled so far, with *)
(* the fields the walk writes and, in within, the loops and switches they  *)
(* stand in, which the walk itself never sees as a whole.                  *)
(***************************************************************************)
EXTENDS Expressions

CONSTANTS
  Constants,        \* the values case expressions are written with
  SwitchTypes,      \* the types of the conditions of switch statements
  Resolved,         \* the labels given out before the walk, by resolve.c
  MaxNodes          \* bound on the statements of a program

\* the numbers are those of C, and labels are counted from 0
ASSUME NumbersAssumption == Constants \subseteq Nat /\ Resolved \in Nat

VARIABLES
  status,           \* "outside" functions, "walking" a body, or "error"
  stack,            \* stack_loop_resolve_info
  counter,          \* label_idx_counter
  nodes             \* the statements labelled so far

vars == <<status, stack, counter, nodes>>

-----------------------------------------------------------------------------

NoNode == 0

\* the statement node about to be labelled; fields that its kind lacks are 0
Node(kind, idx, brk, cont) ==
  [kind |-> kind, within |-> [k \in DOMAIN stack |-> stack[k].s],
   idx |-> idx, brk |-> brk, cont |-> cont, value |-> 0, type |-> "none",
   cases |-> {}, dflt |-> NoNode]

\* loop_resolve_info
Loop(s, brk, cont) == [t |-> "loop", s |-> s, brk |-> brk, cont |-> cont]

Switch(s, brk, type) ==
  [t |-> "switch", s |-> s, brk |-> brk, type |-> type,
   cases |-> {}, dflt |-> NoNode]

New == Len(nodes) + 1
Room == Len(nodes) < MaxNodes
Top == stack[Len(stack)]

Open(t) == {k \in DOMAIN stack : stack[k].t = t}

Latest(S) == CHOOSE k \in S : \A m \in S : m <= k

\* find_last_switch and find_last_loop
LastOf(t) == Latest(Open(t))

Fail ==
  /\ status' = "error"
  /\ UNCHANGED <<stack, counter, nodes>>

-----------------------------------------------------------------------------

Init ==
  /\ status = "outside"
  /\ stack = << >>
  /\ counter = Resolved
  /\ nodes = << >>

\* loop_resolve_decl on a function with a body: vec_init ... vec_free
EnterFunc ==
  /\ status = "outside"
  /\ status' = "walking"
  /\ stack' = << >>
  /\ UNCHANGED <<counter, nodes>>

LeaveFunc ==
  /\ status = "walking"
  /\ stack = << >>
  /\ status' = "outside"
  /\ UNCHANGED <<stack, counter, nodes>>

\* bug: the counter is advanced by one for two labels
EnterLoopShort ==
  /\ status = "walking"
  /\ Room
  /\ counter' = counter + 1
  /\ stack' = Append(stack, Loop(New, counter + 1, counter + 2))
  /\ nodes' = Append(nodes, Node("loop", 0, counter + 1, counter + 2))
  /\ UNCHANGED status

\* enter_loop, for while, do and for, and the copy of its labels to the node
EnterLoop ==
  /\ status = "walking"
  /\ Room
  /\ counter' = counter + 2
  /\ stack' = Append(stack, Loop(New, counter + 1, counter + 2))
  /\ nodes' = Append(nodes, Node("loop", 0, counter + 1, counter + 2))
  /\ UNCHANGED status

ExitLoop ==
  /\ status = "walking"
  /\ stack # << >>
  /\ Top.t = "loop"
  /\ stack' = SubSeq(stack, 1, Len(stack) - 1)
  /\ UNCHANGED <<status, counter, nodes>>

\* loop_resolve_switch_stmt up to the walk of its body ...
EnterSwitch(type) ==
  /\ status = "walking"
  /\ Room
  /\ counter' = counter + 1
  /\ stack' = Append(stack, Switch(New, counter', type))
  /\ nodes' = Append(nodes, [Node("switch", 0, counter', 0) EXCEPT !.type = type])
  /\ UNCHANGED status

\* ... and after it: the cases and the default go to the node
ExitSwitch ==
  /\ status = "walking"
  /\ stack # << >>
  /\ Top.t = "switch"
  /\ nodes' = [nodes EXCEPT ![Top.s].cases = Top.cases, ![Top.s].dflt = Top.dflt]
  /\ stack' = SubSeq(stack, 1, Len(stack) - 1)
  /\ UNCHANGED <<status, counter>>

Break ==
  /\ status = "walking"
  /\ Room
  /\ IF stack = << >>
     THEN Fail
     ELSE /\ nodes' = Append(nodes, Node("break", Top.brk, 0, 0))
          /\ UNCHANGED <<status, stack, counter>>

Continue ==
  /\ status = "walking"
  /\ Room
  /\ IF Open("loop") = {}
     THEN Fail
     ELSE /\ nodes' = Append(nodes, Node("continue", stack[LastOf("loop")].cont, 0, 0))
          /\ UNCHANGED <<status, stack, counter>>

Default ==
  /\ status = "walking"
  /\ Room
  /\ IF Open("switch") = {} \/ stack[LastOf("switch")].dflt # NoNode
     THEN Fail
     ELSE /\ counter' = counter + 1
          /\ stack' = [stack EXCEPT ![LastOf("switch")].dflt = New]
          /\ nodes' = Append(nodes, Node("default", counter', 0, 0))
          /\ UNCHANGED status

\* bug: the case is compared with the others as it was written
CaseUnconverted(v) ==
  /\ status = "walking"
  /\ Room
  /\ IF \/ Open("switch") = {}
        \/ \E n \in stack[LastOf("switch")].cases : nodes[n].value = v
     THEN Fail
     ELSE /\ counter' = counter + 1
          /\ stack' = [stack EXCEPT ![LastOf("switch")].cases = @ \cup {New}]
          /\ nodes' = Append(nodes,
               [Node("case", counter', 0, 0) EXCEPT !.value = v])
          /\ UNCHANGED status

\* loop_resolve_case_stmt: the constant is converted to the type of the
\* condition before it is looked up
Case(v) ==
  /\ status = "walking"
  /\ Room
  /\ IF Open("switch") = {}
     THEN Fail
     ELSE LET sw == stack[LastOf("switch")]
              c  == ConvertConst(v, sw.type)
          IN  IF \E n \in sw.cases : nodes[n].value = c
              THEN Fail
              ELSE /\ counter' = counter + 1
                   /\ stack' = [stack EXCEPT ![LastOf("switch")].cases = @ \cup {New}]
                   /\ nodes' = Append(nodes,
                        [Node("case", counter', 0, 0) EXCEPT !.value = c])
                   /\ UNCHANGED status

\* the walk over the functions of a file, for programs of any shape
Next ==
  \/ EnterFunc
  \/ LeaveFunc
  \/ EnterLoop
  \/ ExitLoop
  \/ \E type \in SwitchTypes : EnterSwitch(type)
  \/ ExitSwitch
  \/ Break
  \/ Continue
  \/ Default
  \/ \E v \in Constants : Case(v)

Spec == Init /\ [][Next]_vars

-----------------------------------------------------------------------------

\* the innermost construct of a kind in kinds around node n, or NoNode
Around(n, kinds) ==
  LET w  == nodes[n].within
      at == {k \in DOMAIN w : nodes[w[k]].kind \in kinds}
  IN  IF at = {} THEN NoNode ELSE w[Latest(at)]

OfKind(kind) == {n \in DOMAIN nodes : nodes[n].kind = kind}

\* A finished switch dispatches to exactly the cases and the default whose
\* innermost switch it is, however deep in loops they stand, and no two of
\* its cases are the same value of the type it switches on.
CasesCollected ==
  \A n \in OfKind("switch") :
    (\A k \in DOMAIN stack : stack[k].s # n) /\ status # "error" =>
      /\ nodes[n].cases = {m \in OfKind("case") : Around(m, {"switch"}) = n}
      /\ \A p, q \in nodes[n].cases :
           ConvertConst(nodes[p].value, nodes[n].type) = ConvertConst(nodes[q].value, nodes[n].type)
             => p = q
      /\ {m \in OfKind("default") : Around(m, {"switch"}) = n}
           = {nodes[n].dflt} \ {NoNode}

=============================================================================
