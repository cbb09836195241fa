------------------------------ MODULE SymTable ------------------------------
(***************************************************************************)
(* typecheck.c: how the declarations of a name are merged into one entry   *)
(* of the symbol table.  Every later phase reads linkage, initial value    *)
(* and definedness there, never from the declarations.                     *)
(*                                                                         *)
(* resolve.c has run: a name with linkage is the identifier itself, an     *)
(* object without linkage has a name no other object has.  Nothing keeps a *)
(* program from spelling an identifier with linkage like such a name: the  *)
(* object x of a body is x_1, and so may be a variable of the file.        *)
(* Bodies are at file scope only.  Expressions are left out, apart from    *)
(* whether an initialiser is a constant; a type is what types_eq tells     *)
(* apart.                                                                  *)
(***************************************************************************)
EXTENDS Integers, Sequences

CONSTANTS
  Names,      \* identifiers declared with linkage
  Locals,     \* names made by the resolver
  VarTypes, FnTypes,
  ParamCount(_), ParamType(_),  \* of a function type
  MaxDecls    \* bound on the declarations of a program

ASSUME SymTableAssumption ==
  /\ VarTypes \cap FnTypes = {}
  /\ MaxDecls \in Nat

VARIABLES
  status,     \* "checking", "checked" at the end, "error" after an exit(1),
              \* "abort" after an assert or a NULL pointer
  st,         \* c->st: name to [type, attrs]
  currFunc,   \* c->curr_func: the name, or None at file scope
  decls,      \* the declarations accepted so far, in order
  rejected    \* the declaration that ended the program, or None

vars == <<status, st, currFunc, decls, rejected>>

-----------------------------------------------------------------------------

None == [none |-> TRUE]
Empty == [n \in {} |-> None]

\* declarations; scope is 0, 1 in a body, or 2 in the first clause of a for
Func(n, t, sc, scope, body, params) ==
  [kind |-> "func", name |-> n, type |-> t, sc |-> sc, scope |-> scope,
   defines |-> body, params |-> params]
Var(n, t, sc, scope, init) ==
  [kind |-> "var", name |-> n, type |-> t, sc |-> sc, scope |-> scope,
   defines |-> init # "none", init |-> init]

\* attrs
FuncAttrs(defined, global) == [t |-> "FUNC", defined |-> defined, global |-> global]
StaticAttrs(global, init)  == [t |-> "STATIC", global |-> global, init |-> init]
LocalAttrs                 == [t |-> "LOCAL"]

\* ref is FALSE where it is NULL: for the entries of parameters, which come
\* without a declaration, and of temporaries
Entry(type, attrs) == [type |-> type, attrs |-> attrs, ref |-> TRUE]
EntryNoRef(type)   == [type |-> type, attrs |-> LocalAttrs, ref |-> FALSE]

\* add_to_symtable
Added(t, n, e) == [m \in DOMAIN t \cup {n} |-> IF m = n THEN e ELSE t[m]]

Known(n) == n \in DOMAIN st

Scope == IF currFunc = None THEN 0 ELSE 1

Accept(d) == decls' = Append(decls, d) /\ UNCHANGED <<status, rejected>>

Reject(d) ==
  /\ status' = "error"
  /\ rejected' = d
  /\ UNCHANGED <<st, currFunc, decls>>

Abort(d) ==
  /\ status' = "abort"
  /\ rejected' = d
  /\ UNCHANGED <<st, currFunc, decls>>

\* the message names the place of the older declaration, through its ref
RefuseFor(d, old) == IF old.ref THEN Reject(d) ELSE Abort(d)

-----------------------------------------------------------------------------

\* typecheck_func_decl

\* bug: a body is only looked for in the declaration at hand
FuncClashesForgetful(old, d) ==
  \/ old.type # d.type
  \/ old.attrs.global /\ d.sc = "static"

\* bug: the type is only compared with that of functions
FuncClashesUntyped(old, d) ==
  /\ old.type \in FnTypes
  /\ \/ old.type # d.type
     \/ old.attrs.defined /\ d.defines
     \/ old.attrs.global /\ d.sc = "static"

\* the exits on an entry that exists
FuncClashes(old, d) ==
  \/ old.type # d.type
  \/ old.attrs.defined /\ d.defines
  \/ old.attrs.global /\ d.sc = "static"

\* bug: a prototype after the definition takes it back
MergedFuncLatest(d) ==
  FuncAttrs(d.defines, IF Known(d.name) THEN st[d.name].attrs.global ELSE d.sc # "static")

MergedFunc(d) ==
  IF Known(d.name)
  THEN FuncAttrs(st[d.name].attrs.defined \/ d.defines, st[d.name].attrs.global)
  ELSE FuncAttrs(d.defines, d.sc # "static")

\* the parameters of a body get entries too, after that of the function
FuncDecl(d) ==
  IF d.sc = "static" /\ d.scope # 0
  THEN Reject(d)
  ELSE IF Known(d.name) /\ FuncClashes(st[d.name], d)
  THEN RefuseFor(d, st[d.name])
  ELSE IF Known(d.name) /\ st[d.name].attrs.t # "FUNC"
  THEN Abort(d)
  ELSE LET st1 == Added(st, d.name, Entry(d.type, MergedFunc(d)))
       IN  /\ st' = [n \in DOMAIN st1 \cup d.params |->
                       IF n \in d.params THEN EntryNoRef(ParamType(d.type)) ELSE st1[n]]
           /\ currFunc' = IF d.defines THEN d.name ELSE currFunc
           /\ Accept(d)

\* the end of the body
LeaveBody ==
  /\ currFunc # None
  /\ currFunc' = None
  /\ UNCHANGED <<status, st, decls, rejected>>

-----------------------------------------------------------------------------

\* typecheck_filescope_var_decl

OwnInit(d) ==
  IF d.defines THEN "INITIAL" ELSE IF d.sc = "extern" THEN "NOINIT" ELSE "TENTATIVE"

MergedInit(d) ==
  LET old == st[d.name].attrs.init
  IN  IF ~Known(d.name) THEN OwnInit(d)
      ELSE IF old = "INITIAL" THEN "INITIAL"
      ELSE IF OwnInit(d) # "INITIAL" /\ old = "TENTATIVE" THEN "TENTATIVE"
      ELSE OwnInit(d)

\* bug: extern always means external linkage
MergedLinkageExtern(d) == d.sc # "static"

MergedLinkage(d) ==
  IF Known(d.name) /\ d.sc = "extern" THEN st[d.name].attrs.global ELSE d.sc # "static"

\* bug: extern does not take over internal linkage
VarClashesStrict(old, d) ==
  \/ old.global # (d.sc # "static")
  \/ old.init = "INITIAL" /\ d.defines

\* the exits after the assertion
VarClashes(old, d) ==
  \/ d.sc # "extern" /\ old.global # (d.sc # "static")
  \/ old.init = "INITIAL" /\ d.defines

FilescopeVar(d) ==
  IF d.init = "expr"
  THEN Reject(d)
  ELSE IF Known(d.name) /\ st[d.name].type # d.type
  THEN RefuseFor(d, st[d.name])
  ELSE IF Known(d.name) /\ st[d.name].attrs.t # "STATIC"
  THEN Abort(d)
  ELSE IF Known(d.name) /\ VarClashes(st[d.name].attrs, d)
  THEN Reject(d)
  ELSE /\ st' = Added(st, d.name,
                      Entry(d.type, StaticAttrs(MergedLinkage(d), MergedInit(d))))
       /\ Accept(d)
       /\ UNCHANGED currFunc

-----------------------------------------------------------------------------

\* typecheck_local_var_decl

\* an entry that exists is left as it is
LocalExtern(d) ==
  IF d.defines
  THEN Reject(d)
  ELSE IF Known(d.name) /\ st[d.name].type # d.type
  THEN RefuseFor(d, st[d.name])
  ELSE /\ st' = IF Known(d.name) THEN st
                ELSE Added(st, d.name, Entry(d.type, StaticAttrs(TRUE, "NOINIT")))
       /\ Accept(d)
       /\ UNCHANGED currFunc

LocalStatic(d) ==
  IF d.init = "expr"
  THEN Reject(d)
  ELSE /\ st' = Added(st, d.name, Entry(d.type, StaticAttrs(FALSE, "INITIAL")))
       /\ Accept(d)
       /\ UNCHANGED currFunc

LocalAuto(d) ==
  /\ st' = Added(st, d.name, Entry(d.type, LocalAttrs))
  /\ Accept(d)
  /\ UNCHANGED currFunc

\* the declaration of a for loop has no storage class
ForInit(d) == IF d.sc # "none" THEN Reject(d) ELSE LocalAuto(d)

-----------------------------------------------------------------------------

Init ==
  /\ status = "checking"
  /\ st = Empty
  /\ currFunc = None
  /\ decls = << >>
  /\ rejected = None

\* the objects without linkage, parameters among them
IsObject(d) == d.kind = "var" /\ d.scope # 0 /\ d.sc # "extern"
ObjectsOf(d) ==
  IF d.kind = "func" THEN d.params ELSE IF IsObject(d) THEN {d.name} ELSE {}

Objects == UNION {ObjectsOf(decls[k]) : k \in DOMAIN decls}

\* the resolver makes every name once
Fresh == Locals \ Objects
Inits == {"none", "const", "expr"}

\* function types have at most one parameter
DeclareFunc ==
  \E n \in Names, t \in FnTypes, sc \in {"none", "static", "extern"} :
    \/ FuncDecl(Func(n, t, sc, Scope, FALSE, {}))
    \/ /\ Scope = 0
       /\ IF ParamCount(t) = 0
          THEN FuncDecl(Func(n, t, sc, 0, TRUE, {}))
          ELSE \E p \in Fresh : FuncDecl(Func(n, t, sc, 0, TRUE, {p}))

DeclareVar ==
  \E t \in VarTypes, init \in Inits :
    \/ /\ Scope = 0
       /\ \E n \in Names, sc \in {"none", "static", "extern"} :
            FilescopeVar(Var(n, t, sc, 0, init))
    \/ /\ Scope = 1
       /\ \/ \E n \in Names : LocalExtern(Var(n, t, "extern", 1, init))
          \/ \E n \in Fresh : \/ LocalStatic(Var(n, t, "static", 1, init))
                              \/ LocalAuto(Var(n, t, "none", 1, init))

DeclareInFor ==
  /\ Scope = 1
  /\ \E t \in VarTypes :
       \/ \E n \in Fresh, sc \in {"none", "static"} : ForInit(Var(n, t, sc, 2, "none"))
       \/ \E n \in Names : ForInit(Var(n, t, "extern", 2, "none"))

Next ==
  /\ status = "checking"
  /\ \/ /\ Len(decls) < MaxDecls
        /\ DeclareFunc \/ DeclareVar \/ DeclareInFor
     \/ LeaveBody

-----------------------------------------------------------------------------

\* the accepted declarations of a name, by position, and the first of them
DeclsOf(n) == {k \in DOMAIN decls : decls[k].name = n}
First(n) == decls[CHOOSE k \in DeclsOf(n) : \A m \in DeclsOf(n) : k <= m]

Defined(n) == \E k \in DeclsOf(n) : decls[k].defines
Tentative(n) == \E k \in DeclsOf(n) : decls[k].scope = 0 /\ decls[k].sc # "extern"

\* A name that is both that of an object without linkage and one declared with
\* linkage: the two share an entry.
Linked == {decls[k].name : k \in {m \in DOMAIN decls : ~IsObject(decls[m])}}
Clashing == Linked \cap Objects

\* The entry of a name that is not also that of an object sums up all its
\* declarations, in whatever order and at whatever scopes they came: the
\* linkage is internal iff the first one said static, a function is defined
\* iff one had a body, a variable has an initial value iff one gave it, else
\* is tentative iff one of file scope was not extern.
EntrySumsUp ==
  status \in {"checking", "error"} => \A n \in DOMAIN st \ Objects :
    LET a == st[n].attrs
    IN  /\ \A k \in DeclsOf(n) : decls[k].type = st[n].type
        /\ a.global = (First(n).sc # "static")
        /\ a.t = "FUNC" => a.defined = Defined(n)
        /\ a.t = "STATIC" =>
             a.init = IF Defined(n) THEN "INITIAL"
                      ELSE IF Tentative(n) THEN "TENTATIVE" ELSE "NOINIT"

\* No name is defined twice in a program that was accepted, unless one of the
\* definitions is that of an object of a body with such a name.
OneDefinition ==
  \A n \in Names \ Objects : \A j, k \in DeclsOf(n) :
    decls[j].defines /\ decls[k].defines => j = k

\* Declarations are only refused for a reason the language knows: the type or
\* the linkage differs from an earlier one, there is a definition already, the
\* initialiser is no constant or not allowed, or the storage class is not.  A
\* name that an object has taken is another one: int x_1 after an object x.
Unacceptable(d) ==
  LET same == DeclsOf(d.name)
  IN  \/ \E k \in same : decls[k].type # d.type
      \/ \E k \in same : decls[k].defines /\ d.defines
      \/ same # {} /\ d.sc = "static" /\ First(d.name).sc # "static"
      \/ same # {} /\ d.kind = "var" /\ d.sc = "none" /\ First(d.name).sc = "static"
      \/ d.kind = "var" /\ d.init = "expr" /\ (d.scope = 0 \/ d.sc # "none")
      \/ d.scope = 2 /\ d.sc # "none"
      \/ d.scope = 1 /\ d.sc = "extern" /\ d.kind = "var" /\ d.defines
      \/ d.scope = 1 /\ d.sc = "static" /\ d.kind = "func"

RefusedForReason ==
  status = "error" => Unacceptable(rejected) \/ rejected.name \in Objects

\* An entry that is not shared never loses what it knows: type and linkage
\* stay, a definition stays a definition, a tentative one is never forgotten.
Rank(a) ==
  CASE a.t = "LOCAL" \/ (a.t = "FUNC" /\ ~a.defined) \/ (a.t = "STATIC" /\ a.init = "NOINIT") -> 0
    [] a.t = "STATIC" /\ a.init = "TENTATIVE" -> 1
    [] OTHER -> 2

EntriesOnlyGrow ==
  [][status # "checked" => \A n \in DOMAIN st :
       /\ n \in DOMAIN st'
       /\ n \notin Clashing' =>
            /\ st'[n].type = st[n].type
            /\ st'[n].attrs.t = st[n].attrs.t
            /\ n \notin Objects => st'[n].attrs.global = st[n].attrs.global
            /\ Rank(st'[n].attrs) >= Rank(st[n].attrs)]_vars

=============================================================================
