------------------------------ MODULE Resolve ------------------------------
(***************************************************************************)
(* resolve.c, driven by the recursive descent of parser.c.  While the      *)
(* parser reads the file, every declaration enters the hash table of the   *)
(* innermost scope, every identifier of an expression is replaced by the   *)
(* name found there, and the labels and gotos of a function meet when its  *)
(* body ends.  Later phases know an object by this name alone.             *)
(*                                                                         *)
(* The recursion of the parser is the sequence kinds of constructs it is   *)
(* in.  Functions are defined at file scope only, as in C: the parser also *)
(* accepts a body inside a body, and then labels_ht and gotos_to_check_ht  *)
(* of the outer one are lost.                                              *)
(***************************************************************************)
EXTENDS Integers, Sequences

CONSTANTS
  Idents,           \* the identifiers of the program
  Labels,           \* its labels
  Suffixed(_, _),   \* string_sprintf("%s_%d", ident, n)
  MaxScope,         \* bound on the nesting of scopes
  MaxNames,         \* bound on var_name_idx_counter
  MaxLabels,        \* bound on label_idx_counter
  MaxGotos          \* bound on the gotos of a function

\* The number ends the name, so it and the identifier can be read off it.
ASSUME SuffixAssumption ==
  \A i, j \in Idents : \A m, n \in 1 .. MaxNames :
    Suffixed(i, m) = Suffixed(j, n) => i = j /\ m = n

ASSUME BoundsAssumption ==
  /\ MaxScope \in Nat
  /\ MaxNames \in Nat
  /\ MaxLabels \in Nat
  /\ MaxGotos \in Nat

\* no identifier of the program is spelled like a name made from one
PlainIdents == \A i \in Idents, n \in 1 .. MaxNames : Suffixed(i, n) \notin Idents

VARIABLES
  status,           \* "error" after an exit(1)
  kinds,            \* "params", "body" and "block": what the parser is in
  scope,            \* the static counter
  tables,           \* ident_ht_list_head and its next tables, innermost first
  nameIdx,          \* var_name_idx_counter
  objects,          \* the names of the objects without linkage, in order
  used,             \* what the last resolve_expr stored in its node
  labelIdx,         \* label_idx_counter
  labelsHt,         \* labels_ht: label to index; NoTable outside bodies
  gotosHt,          \* gotos_to_check_ht: label to goto node
  gotoNodes,        \* the goto nodes of the function: [label, idx]
  labelNodes        \* the label nodes of the function: label to label_idx

scopeVars == <<scope, tables, nameIdx, objects>>
gotoVars  == <<labelIdx, labelsHt, gotosHt, gotoNodes, labelNodes>>
vars == <<status, kinds, scopeVars, used, gotoVars>>

-----------------------------------------------------------------------------

Empty == [k \in {} |-> 0]
NoTable == [k \in {} |-> 1]

\* ht_set
Put(t, k, v) == [x \in DOMAIN t \cup {k} |-> IF x = k THEN v ELSE t[x]]

Entry(name, linkage) == [name |-> name, linkage |-> linkage, scope |-> scope]

NoUse == [undeclared |-> TRUE]

Kind == Head(kinds)
InBody == Kind \in {"body", "block"}

\* the innermost table, the only one declarations look at
Innermost == Head(tables)

WithInnermost(t) == <<t>> \o Tail(tables)

\* bug: the search runs from the file scope inwards
FindOutermost(i) ==
  tables[CHOOSE k \in DOMAIN tables :
           /\ i \in DOMAIN tables[k]
           /\ \A m \in k + 1 .. Len(tables) : i \notin DOMAIN tables[m]][i]

\* find_entry, for an identifier that some table has
FindEntry(i) ==
  tables[CHOOSE k \in DOMAIN tables :
           /\ i \in DOMAIN tables[k]
           /\ \A m \in 1 .. k - 1 : i \notin DOMAIN tables[m]][i]

Declared(i) == \E k \in DOMAIN tables : i \in DOMAIN tables[k]

Fail ==
  /\ status' = "error"
  /\ UNCHANGED <<kinds, scopeVars, used, gotoVars>>

\* enter_scope after table t was put in place of the innermost one
EnterScopeWith(t) ==
  /\ scope < MaxScope
  /\ scope' = scope + 1
  /\ tables' = <<Empty>> \o WithInnermost(t)

\* bug: the counter keeps its value
ExitScopeUncounted ==
  /\ scope' = scope
  /\ tables' = Tail(tables)

ExitScope ==
  /\ scope' = scope - 1
  /\ tables' = Tail(tables)

SetInnermost(t) == tables' = WithInnermost(t)

\* bug: the number of a name is that of its scope
ScopeName == scope

\* get_name
GetName == nameIdx + 1

\* an object without linkage: new_symt_entry and create_symt_entry
NewObject(i) ==
  /\ nameIdx < MaxNames
  /\ nameIdx' = GetName
  /\ LET name == Suffixed(i, nameIdx')
     IN  /\ SetInnermost(Put(Innermost, i, Entry(name, FALSE)))
         /\ objects' = Append(objects, name)
  /\ UNCHANGED scope

-----------------------------------------------------------------------------

Init ==
  /\ status = "parsing"
  /\ kinds = <<"file">>
  /\ scope = 0
  /\ tables = <<Empty>>
  /\ nameIdx = 0
  /\ objects = << >>
  /\ used = NoUse
  /\ labelIdx = 0
  /\ labelsHt = NoTable
  /\ gotosHt = NoTable
  /\ gotoNodes = << >>
  /\ labelNodes = Empty

\* resolve_filescope_var_decl: the entry is replaced, linkage is left to the
\* type checker
FilescopeVar(i) ==
  /\ Kind = "file"
  /\ SetInnermost(Put(Innermost, i, Entry(i, TRUE)))
  /\ UNCHANGED <<status, kinds, scope, nameIdx, objects, used, gotoVars>>

\* enter_func: the parser has read the name of a function
EnterFunc(i) ==
  /\ Kind = "file" \/ InBody
  /\ IF i \in DOMAIN Innermost /\ ~Innermost[i].linkage
     THEN Fail
     ELSE /\ EnterScopeWith(IF i \in DOMAIN Innermost
                            THEN Innermost
                            ELSE Put(Innermost, i, Entry(i, TRUE)))
          /\ kinds' = <<"params">> \o kinds
          /\ UNCHANGED <<status, nameIdx, objects, used, gotoVars>>

\* resolve_param
Param(i) ==
  /\ Kind = "params"
  /\ IF i \in DOMAIN Innermost
     THEN Fail
     ELSE /\ NewObject(i)
          /\ UNCHANGED <<status, kinds, used, gotoVars>>

\* exit_func: the declaration was a prototype
ExitFunc ==
  /\ Kind = "params"
  /\ ExitScope
  /\ kinds' = Tail(kinds)
  /\ UNCHANGED <<status, nameIdx, objects, used, gotoVars>>

\* enter_body_of_func
EnterBody ==
  /\ kinds = <<"params", "file">>
  /\ kinds' = <<"body", "file">>
  /\ labelsHt' = Empty
  /\ gotosHt' = Empty
  /\ gotoNodes' = << >>
  /\ labelNodes' = Empty
  /\ UNCHANGED <<status, scopeVars, used, labelIdx>>

\* resolve_local_var_decl
LocalVar(i, sc) ==
  /\ InBody
  /\ IF i \in DOMAIN Innermost /\ ~(Innermost[i].linkage /\ sc = "extern")
     THEN Fail
     ELSE /\ IF sc = "extern"
             THEN /\ SetInnermost(Put(Innermost, i, Entry(i, TRUE)))
                  /\ UNCHANGED <<scope, nameIdx, objects>>
             ELSE NewObject(i)
          /\ UNCHANGED <<status, kinds, used, gotoVars>>

\* a block, or a for loop whose first clause is a declaration
EnterBlock ==
  /\ InBody
  /\ EnterScopeWith(Innermost)
  /\ kinds' = <<"block">> \o kinds
  /\ UNCHANGED <<status, nameIdx, objects, used, gotoVars>>

ExitBlock ==
  /\ Kind = "block"
  /\ ExitScope
  /\ kinds' = Tail(kinds)
  /\ UNCHANGED <<status, nameIdx, objects, used, gotoVars>>

\* resolve_expr on a variable, resolve_func_call_expr on a call
Use(i) ==
  /\ Kind # "params"
  /\ IF Declared(i)
     THEN /\ used' = [name |-> FindEntry(i).name]
          /\ UNCHANGED <<status, kinds, scopeVars, gotoVars>>
     ELSE Fail

\* resolve_label_stmt, after the statement the label stands before
Label(l) ==
  /\ InBody
  /\ IF l \in DOMAIN labelsHt
     THEN Fail
     ELSE /\ labelIdx < MaxLabels
          /\ labelIdx' = labelIdx + 1
          /\ labelsHt' = Put(labelsHt, l, labelIdx')
          /\ labelNodes' = Put(labelNodes, l, labelIdx')
          /\ UNCHANGED <<status, kinds, scopeVars, used, gotosHt, gotoNodes>>

\* resolve_goto_stmt: the node is new and its label_idx still 0
Goto(l) ==
  /\ InBody
  /\ Len(gotoNodes) < MaxGotos
  /\ gotoNodes' = Append(gotoNodes, [label |-> l, idx |-> 0])
  /\ gotosHt' = Put(gotosHt, l, Len(gotoNodes'))
  /\ UNCHANGED <<status, kinds, scopeVars, used, labelIdx, labelsHt, labelNodes>>

\* bug: a goto to an unknown label is not reported
ExitBodyUnchecked ==
  /\ Kind = "body"
  /\ gotoNodes' = [n \in DOMAIN gotoNodes |->
                     IF n = gotosHt[gotoNodes[n].label] /\ gotoNodes[n].label \in DOMAIN labelsHt
                     THEN [gotoNodes[n] EXCEPT !.idx = labelsHt[@.label]]
                     ELSE gotoNodes[n]]
  /\ ExitScope
  /\ kinds' = Tail(kinds)
  /\ labelsHt' = NoTable
  /\ gotosHt' = NoTable
  /\ UNCHANGED <<status, nameIdx, objects, used, labelIdx, labelNodes>>

\* exit_func_with_body: the nodes in gotos_to_check_ht get their index
ExitBody ==
  /\ Kind = "body"
  /\ IF ~(DOMAIN gotosHt \subseteq DOMAIN labelsHt)
     THEN Fail
     ELSE /\ gotoNodes' = [n \in DOMAIN gotoNodes |->
                             LET l == gotoNodes[n].label
                             IN  IF gotosHt[l] = n
                                 THEN [label |-> l, idx |-> labelsHt[l]]
                                 ELSE gotoNodes[n]]
          /\ ExitScope
          /\ kinds' = Tail(kinds)
          /\ labelsHt' = NoTable
          /\ gotosHt' = NoTable
          /\ UNCHANGED <<status, nameIdx, objects, used, labelIdx, labelNodes>>

Next ==
  /\ status = "parsing"
  /\ \/ \E i \in Idents :
          \/ FilescopeVar(i)
          \/ EnterFunc(i)
          \/ Param(i)
          \/ \E sc \in {"none", "static", "extern"} : LocalVar(i, sc)
          \/ Use(i)
     \/ ExitFunc
     \/ EnterBody
     \/ EnterBlock
     \/ ExitBlock
     \/ \E l \in Labels : Label(l) \/ Goto(l)
     \/ ExitBody

Spec == Init /\ [][Next]_vars

-----------------------------------------------------------------------------

Name == Idents \cup {Suffixed(i, n) : i \in Idents, n \in 1 .. MaxNames}

EntryType == [name : Name, linkage : BOOLEAN, scope : 0 .. MaxScope]

\* The static counter scope and the list of tables are stepped together by
\* enter_scope and exit_scope, and the list has one table per construct the
\* parser is in.
TypeOK ==
  /\ status \in {"parsing", "error"}
  /\ \A k \in DOMAIN kinds : kinds[k] \in {"file", "params", "body", "block"}
  /\ scope \in 0 .. MaxScope
  /\ scope = Len(tables) - 1
  /\ Len(kinds) = Len(tables)
  /\ \A k \in DOMAIN tables : tables[k] \in [DOMAIN tables[k] -> EntryType]
  /\ nameIdx \in 0 .. MaxNames
  /\ labelIdx \in 0 .. MaxLabels
  /\ \A n \in DOMAIN gotoNodes : gotoNodes[n].label \in Labels

\* Later phases tell objects apart by name: no two objects without linkage
\* have the same name, although names are spelled with identifiers that may
\* end in a number themselves.  The n-th object only has the name of an entity
\* with linkage declared around it if the program spells that entity like an
\* identifier with the number n.
NamesUnique ==
  /\ \A m, n \in DOMAIN objects : m # n => objects[m] # objects[n]
  /\ \A k \in DOMAIN tables, n \in DOMAIN objects :
       \A i \in DOMAIN tables[k] :
         tables[k][i].linkage /\ tables[k][i].name = objects[n]
           => \E j \in Idents : i = Suffixed(j, n)

\* When a function has been parsed without an error, every goto names a label
\* of that function, whether it came before or after the label, and the last
\* goto to a label has the label's index.
GotosResolved ==
  Kind = "file" =>
    \A n \in DOMAIN gotoNodes :
      LET l == gotoNodes[n].label
      IN  /\ l \in DOMAIN labelNodes
          /\ (\A m \in n + 1 .. Len(gotoNodes) : gotoNodes[m].label # l)
               => gotoNodes[n].idx = labelNodes[l]

\* gotos_to_check_ht stores the pointer to the goto node (resolve.c:18) so
\* that the end of the body can give it the index of its label: every goto of
\* a parsed function jumps to its label.
EveryGotoBound ==
  Kind = "file" =>
    \A n \in DOMAIN gotoNodes :
      gotoNodes[n].idx = labelNodes[gotoNodes[n].label]

\* The names stored in the syntax tree denote what the scopes of C say.  The
\* entity a name stands for is found by name, as the later phases do.
EntityOf(name) ==
  IF \E n \in DOMAIN objects : objects[n] = name
  THEN [object |-> CHOOSE n \in DOMAIN objects : objects[n] = name]
  ELSE [ident |-> name]

DeclsInTables ==
  UNION {{[ident  |-> i,
           depth  |-> tables[k][i].scope,
           entity |-> EntityOf(tables[k][i].name)] : i \in DOMAIN tables[k]} :
         k \in DOMAIN tables}

Bound == IF used = NoUse THEN [none |-> TRUE] ELSE EntityOf(used.name)

C == INSTANCE Scoping
       WITH decls   <- DeclsInTables,
            depth   <- scope,
            objects <- Len(objects),
            bound   <- Bound

ImplementsScoping == C!Spec

=============================================================================
