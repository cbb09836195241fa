----------------------------- MODULE TacSymbols -----------------------------
(***************************************************************************)
(* gen_tac of tac.c and its use of the symbol table, after the             *)
(* declarations of SymTable: the functions with a body are translated in   *)
(* source order, every temporary they need gets a name and an entry, and   *)
(* then the table is walked for the objects of static duration.  out is    *)
(* the list of top-level items, from which the symbols of the assembler    *)
(* file are made.                                                          *)
(*                                                                         *)
(* The instructions are left out: a function may ask for any number of     *)
(* temporaries and call the functions its body can name.  The walk visits  *)
(* the entries in the order of their hashes, which is any order.           *)
(***************************************************************************)
EXTENDS SymTable

CONSTANTS
  TmpName(_),   \* sprintf("t_%d", n)
  MaxTmps       \* bound on tmp_var_counter

\* Numbers are told apart in names, and the counter gets past all names.
ASSUME TmpAssumption ==
  /\ MaxTmps \in Nat
  /\ \A m, n \in 1 .. MaxTmps : TmpName(m) = TmpName(n) => m = n

VARIABLES
  phase,      \* "typecheck", "functions", "statics", "done", or "crash"
  next,       \* the position of d in the walk over the declarations
  varMap,     \* the names in var_map
  tmpCounter, \* tmp_var_counter
  temps,      \* the temporaries made, in order
  visited,    \* the entries the iterator has passed
  out         \* the list from head to tail

tacVars == <<phase, next, varMap, tmpCounter, temps, visited, out>>
allVars == <<vars, tacVars>>

-----------------------------------------------------------------------------

FuncItem(n, global)      == [isFunc |-> TRUE, name |-> n, global |-> global]
StaticItem(n, global, i) == [isFunc |-> FALSE, name |-> n, global |-> global, init |-> i]

FileScope == {k \in DOMAIN decls : decls[k].scope = 0}

\* bug: var_map has the variables only
FileNamesVars == {decls[k].name : k \in {m \in FileScope : decls[m].kind = "var"}}

\* what gen_tac writes into var_map
FileNames == {decls[k].name : k \in FileScope}

\* bug: the names of the program are not looked at
NextTmpBlind == tmpCounter + 1

\* the number new_tmp ends its loop with
NextTmp ==
  CHOOSE n \in tmpCounter + 1 .. MaxTmps :
    /\ TmpName(n) \notin varMap
    /\ \A m \in tmpCounter + 1 .. n - 1 : TmpName(m) \in varMap

\* the bodies, in source order
Bodies == {k \in DOMAIN decls : decls[k].kind = "func" /\ decls[k].defines}

-----------------------------------------------------------------------------

TacInit ==
  /\ Init
  /\ phase = "typecheck"
  /\ next = 1
  /\ varMap = {}
  /\ tmpCounter = 0
  /\ temps = << >>
  /\ visited = {}
  /\ out = << >>

Typecheck ==
  /\ phase = "typecheck"
  /\ Next
  /\ UNCHANGED tacVars

\* init_tacgen and the loop that fills var_map
StartTac ==
  /\ phase = "typecheck"
  /\ status = "checking"
  /\ currFunc = None
  /\ phase' = "functions"
  /\ status' = "checked"
  /\ varMap' = FileNames
  /\ UNCHANGED <<st, currFunc, decls, rejected, next, tmpCounter, temps, visited, out>>

\* new_tmp, in the body at next
TakeTmp ==
  /\ phase = "functions"
  /\ status = "checked"
  /\ next \in Bodies
  /\ \E n \in tmpCounter + 1 .. MaxTmps : TmpName(n) \notin varMap
  /\ tmpCounter' = NextTmp
  /\ temps' = Append(temps, TmpName(tmpCounter'))
  /\ \E t \in VarTypes :
       st' = Added(st, TmpName(tmpCounter'), EntryNoRef(t))
  /\ UNCHANGED <<currFunc, decls, phase, next, varMap, visited, out>>

NewTmp == TakeTmp /\ UNCHANGED <<status, rejected>>

\* The type checker has found a function of the name in the table, at a call
\* in the body at next: it was declared before the body and nothing of the
\* body had taken its entry, or it was declared in the body.
Callable(k) ==
  /\ decls[k].kind = "func"
  /\ IF k <= next
     THEN decls[k].scope = 0 /\ \A m \in k .. next : decls[k].name \notin ObjectsOf(decls[m])
     ELSE \A m \in next + 1 .. k : decls[m].scope # 0

\* a call: the temporary of its value is made before the function is looked up
Call ==
  /\ TakeTmp
  /\ \E k \in DOMAIN decls :
       /\ Callable(k)
       /\ IF st'[decls[k].name].attrs.t = "FUNC"
          THEN UNCHANGED <<status, rejected>>
          ELSE status' = "abort" /\ rejected' = decls[k]

\* bug: linkage is that of the declaration at hand
EndDeclOwnLinkage ==
  /\ phase = "functions"
  /\ status = "checked"
  /\ next \in DOMAIN decls
  /\ next' = next + 1
  /\ out' = IF next \in Bodies
            THEN Append(out, FuncItem(decls[next].name, decls[next].sc # "static"))
            ELSE out
  /\ UNCHANGED <<vars, phase, varMap, tmpCounter, temps, visited>>

\* the end of gen_tac_from_func_decl, or a declaration without code; the
\* declarations of a body are not in the list of the program and emit nothing
EndDecl ==
  /\ phase = "functions"
  /\ status = "checked"
  /\ next \in DOMAIN decls
  /\ IF next \in Bodies
     THEN LET n == decls[next].name
          IN  IF st[n].attrs.t = "FUNC"
              THEN /\ out' = Append(out, FuncItem(n, st[n].attrs.global))
                   /\ next' = next + 1
                   /\ UNCHANGED vars
              ELSE Abort(decls[next]) /\ UNCHANGED <<next, out>>
     ELSE next' = next + 1 /\ UNCHANGED <<vars, out>>
  /\ UNCHANGED <<phase, varMap, tmpCounter, temps, visited>>

StartStatics ==
  /\ phase = "functions"
  /\ status = "checked"
  /\ next = Len(decls) + 1
  /\ phase' = "statics"
  /\ UNCHANGED <<vars, next, varMap, tmpCounter, temps, visited, out>>

Emits(n) == st[n].attrs.t = "STATIC" /\ st[n].attrs.init # "NOINIT"

\* the walk visits n; for a tentative object tail->next is written whether or
\* not there is a tail
VisitEntry(n) ==
  /\ phase = "statics"
  /\ n \notin visited
  /\ visited' = visited \cup {n}
  /\ IF Emits(n) /\ st[n].attrs.init = "TENTATIVE" /\ out = << >>
     THEN phase' = "crash" /\ out' = out
     ELSE /\ phase' = phase
          /\ out' = IF Emits(n)
                    THEN Append(out, StaticItem(n, st[n].attrs.global, st[n].attrs.init))
                    ELSE out
  /\ UNCHANGED <<vars, next, varMap, tmpCounter, temps>>

Finish ==
  /\ phase = "statics"
  /\ visited = DOMAIN st
  /\ phase' = "done"
  /\ UNCHANGED <<vars, next, varMap, tmpCounter, temps, visited, out>>

TacNext ==
  \/ Typecheck
  \/ StartTac
  \/ NewTmp
  \/ Call
  \/ EndDecl
  \/ StartStatics
  \/ \E n \in DOMAIN st : VisitEntry(n)
  \/ Finish

TacSpec == TacInit /\ [][TacNext]_allVars

-----------------------------------------------------------------------------

FileDecls == {decls[k].name : k \in {m \in DOMAIN decls : decls[m].scope = 0}}

\* The walk never runs past the declarations and var_map is complete before
\* the first temporary is made.
TacTypeOK ==
  /\ phase \in {"typecheck", "functions", "statics", "done", "crash"}
  /\ next \in 1 .. Len(decls) + 1
  /\ tmpCounter \in 0 .. MaxTmps
  /\ \A k \in DOMAIN temps : temps[k] \in {TmpName(n) : n \in 1 .. tmpCounter}
  /\ visited \subseteq DOMAIN st
  /\ phase # "typecheck" => FileDecls \subseteq varMap

\* The symbols of the assembler file are those the declarations define, each
\* once and with the linkage of its first declaration: functions with a body,
\* variables of file scope with an initialiser or a tentative definition, and
\* static objects of a body.  A static object whose name a temporary takes may
\* have none; of a name with linkage that is an object's too nothing is said.
Temps == {temps[k] : k \in DOMAIN temps}
Items(n) == {k \in DOMAIN out : out[k].name = n}

HasStorage(n) ==
  \/ n \in Objects /\ First(n).sc = "static"
  \/ n \in Linked /\ (Defined(n) \/ (First(n).kind = "var" /\ Tentative(n)))

SymbolsAreDefinitions ==
  phase = "done" =>
    \A n \in {decls[k].name : k \in DOMAIN decls} \ Clashing :
      /\ Items(n) # {} => HasStorage(n)
      /\ HasStorage(n) /\ n \notin Temps => Items(n) # {}
      /\ \A j, k \in Items(n) : j = k
      /\ \A k \in Items(n) : out[k].global = (First(n).sc # "static")

\* The assertions of typecheck.c and tac.c on the kind of an entry hold, and no
\* message needs a declaration there is none of, unless the name has become
\* that of an object without linkage or of a temporary: no order of
\* declarations alone reaches them.
AbortsOnlyOnClash == status = "abort" => rejected.name \in Objects \cup Temps

\* A temporary never takes the name of another one, nor one declared at file
\* scope, although the program may use names of that form.
TempsSpareFileScope ==
  /\ \A k \in DOMAIN temps : temps[k] \notin FileDecls
  /\ \A j, k \in DOMAIN temps : temps[j] = temps[k] => j = k

\* new_tmp knows from var_map whether a variable name is already used
\* (tac.c:17): a temporary takes none of them.
TempsFresh ==
  \A k \in DOMAIN temps : temps[k] \notin {decls[m].name : m \in DOMAIN decls}

=============================================================================
