------------------------- MODULE TacSymbols_proofs -------------------------
(***************************************************************************)
(* The symbol table of typecheck.c and the symbols tac.c makes from it,    *)
(* for programs of any length over any names, those included that an       *)
(* identifier with linkage shares with an object of a body.                *)
(*                                                                         *)
(* While declarations are checked, the entry of a name that no object has  *)
(* sums up what was declared under it so far; a declaration is refused or  *)
(* merged by looking at the entry alone, so everything else follows from   *)
(* that.  Which names are shared only grows, so what is said of the other  *)
(* ones is never lost.  When code is generated their entries are still     *)
(* there, except where a temporary takes the name.                         *)
(***************************************************************************)
EXTENDS TacSymbols, WellFoundedInduction, TLAPS

-----------------------------------------------------------------------------

StorageClasses == {"none", "static", "extern"}

Decl ==
  [kind : {"func"}, name : Names, type : FnTypes, sc : StorageClasses, scope : 0 .. 1,
   defines : BOOLEAN, params : SUBSET Locals]
  \cup
  [kind : {"var"}, name : Names \cup Locals, type : VarTypes, sc : StorageClasses,
   scope : 0 .. 2, defines : BOOLEAN, init : Inits]

\* What is true of every declaration that was accepted.
GoodDecl(d) ==
  /\ d.kind = "func" => (d.defines \/ d.sc = "static" => d.scope = 0)
  /\ d.kind = "var" => IF IsObject(d) THEN d.name \in Locals
                       ELSE d.name \in Names /\ (d.scope # 0 => ~d.defines)

\* the declarations of n in a list of them, and the first one
DeclsIn(ds, n) == {k \in DOMAIN ds : ds[k].name = n}
FirstIn(ds, n) == ds[CHOOSE k \in DeclsIn(ds, n) : \A m \in DeclsIn(ds, n) : k <= m]

\* EntrySumsUp, of one name and with the kind of its entry
SumsUp(n) ==
  /\ n \in DOMAIN st
  /\ st[n].ref = TRUE
  /\ \A k \in DeclsOf(n) : decls[k].type = st[n].type
  /\ st[n].attrs.global = (First(n).sc # "static")
  /\ \/ /\ st[n].attrs.t = "FUNC"
        /\ st[n].type \in FnTypes
        /\ st[n].attrs.defined = Defined(n)
     \/ /\ st[n].attrs.t = "STATIC"
        /\ st[n].type \in VarTypes
        /\ st[n].attrs.init = IF Defined(n) THEN "INITIAL"
                              ELSE IF Tentative(n) THEN "TENTATIVE" ELSE "NOINIT"

GoodDecls ==
  /\ decls \in Seq(Decl)
  /\ \A k \in 1 .. Len(decls) : GoodDecl(decls[k])

\* The table has the names declared, parameters among them.
TableNames == DOMAIN st = Linked \cup Objects

\* As long as declarations are checked
AllSumUp == \A n \in Linked \ Objects : SumsUp(n)

\* Objects without linkage: declared once, and their entry is never merged;
\* parameters have an entry only
ObjectsInv ==
  \A n \in Objects \ Linked :
    /\ DeclsOf(n) = {} => st[n].attrs = LocalAttrs
    /\ \A k \in DeclsOf(n) :
         /\ DeclsOf(n) = {k}
         /\ st[n].attrs = IF decls[k].sc = "static" THEN StaticAttrs(FALSE, "INITIAL")
                          ELSE LocalAttrs

\* AbortsOnlyOnClash, before there are temporaries
AbortsOnObject == status = "abort" => rejected.name \in Objects

SymInv ==
  /\ GoodDecls
  /\ TableNames
  /\ AllSumUp
  /\ ObjectsInv
  /\ OneDefinition
  /\ RefusedForReason
  /\ AbortsOnObject

-----------------------------------------------------------------------------

\* The prefix of a search: a nonempty set of numbers has a least one.
LEMMA Least ==
  ASSUME NEW T, T \subseteq Nat, T # {}
  PROVE  \E x \in T : \A y \in T : x <= y
<1> DEFINE R == {p \in Nat \X Nat : p[1] < p[2]}
<1>1. OpToRel(<, Nat) = R
  BY DEF OpToRel
<1>2. IsWellFoundedOn(R, Nat)
  BY <1>1, NatLessThanWellFounded
<1>3. \A a, b \in Nat : a < b => <<a, b>> \in R
  OBVIOUS
<1> HIDE DEF R
<1>4. PICK x \in T : \A y \in T : ~(<<y, x>> \in R)
  BY <1>2, WFMin
<1>5. ASSUME NEW y \in T
      PROVE  x <= y
  <2>1. x \in Nat /\ y \in Nat
    OBVIOUS
  <2>2. ~(y < x)
    BY <1>3, <1>4, <2>1
  <2> QED
    BY <2>1, <2>2
<1> QED
  BY <1>5

\* A sequence over S has its elements in S.
LEMMA Elements ==
  ASSUME NEW S, NEW s \in Seq(S)
  PROVE  /\ Len(s) \in Nat /\ DOMAIN s = 1 .. Len(s)
         /\ \A n \in 1 .. Len(s) : s[n] \in S
  OBVIOUS

\* Appending leaves what was there and adds one element at the end.
LEMMA AppendedTo ==
  ASSUME NEW S, NEW s \in Seq(S), NEW x \in S
  PROVE  /\ Append(s, x) \in Seq(S)
         /\ Len(Append(s, x)) = Len(s) + 1
         /\ Append(s, x)[Len(s) + 1] = x
         /\ \A n \in 1 .. Len(s) : Append(s, x)[n] = s[n]
         /\ DOMAIN Append(s, x) = 1 .. Len(s) + 1
  OBVIOUS

\* The first declaration of a name is the one with the least position.
LEMMA FirstIs ==
  ASSUME NEW ds \in Seq(Decl), NEW n, DeclsIn(ds, n) # {}
  PROVE  \E k \in DeclsIn(ds, n) : /\ FirstIn(ds, n) = ds[k]
                                   /\ \A m \in DeclsIn(ds, n) : k <= m
<1>1. DeclsIn(ds, n) \subseteq Nat
  BY Elements DEF DeclsIn
<1>2. \E k \in DeclsIn(ds, n) : \A m \in DeclsIn(ds, n) : k <= m
  BY <1>1, Least
<1> DEFINE c == CHOOSE k \in DeclsIn(ds, n) : \A m \in DeclsIn(ds, n) : k <= m
<1>3. c \in DeclsIn(ds, n) /\ \A m \in DeclsIn(ds, n) : c <= m
  BY <1>2
<1>4. FirstIn(ds, n) = ds[c]
  BY DEF FirstIn
<1> HIDE DEF c
<1> QED
  BY <1>3, <1>4

\* The first declaration of a name stays the first.
LEMMA FirstStays ==
  ASSUME NEW ds \in Seq(Decl), NEW d \in Decl, NEW n
  PROVE  /\ DeclsIn(ds, n) \subseteq 1 .. Len(ds)
         /\ DeclsIn(Append(ds, d), n)
              = IF n = d.name THEN DeclsIn(ds, n) \cup {Len(ds) + 1} ELSE DeclsIn(ds, n)
         /\ DeclsIn(ds, n) # {} => FirstIn(Append(ds, d), n) = FirstIn(ds, n)
         /\ DeclsIn(ds, n) = {} /\ n = d.name => FirstIn(Append(ds, d), n) = d
<1> DEFINE es == Append(ds, d)
<1>1. /\ es \in Seq(Decl) /\ Len(es) = Len(ds) + 1 /\ es[Len(ds) + 1] = d
      /\ \A k \in 1 .. Len(ds) : es[k] = ds[k]
      /\ DOMAIN es = 1 .. Len(ds) + 1 /\ DOMAIN ds = 1 .. Len(ds) /\ Len(ds) \in Nat
  BY AppendedTo, Elements
<1> HIDE DEF es
<1>2. DeclsIn(ds, n) \subseteq 1 .. Len(ds)
  BY <1>1 DEF DeclsIn
<1>3. DeclsIn(es, n) = IF n = d.name THEN DeclsIn(ds, n) \cup {Len(ds) + 1} ELSE DeclsIn(ds, n)
  <2>1. \A k : k \in 1 .. Len(ds) + 1 <=> k \in 1 .. Len(ds) \/ k = Len(ds) + 1
    BY <1>1
  <2> QED
    BY <1>1, <2>1 DEF DeclsIn
<1>4. ASSUME DeclsIn(ds, n) # {}
      PROVE  FirstIn(es, n) = FirstIn(ds, n)
  <2>1. PICK k \in DeclsIn(ds, n) : FirstIn(ds, n) = ds[k] /\ \A m \in DeclsIn(ds, n) : k <= m
    BY <1>4, FirstIs
  <2>2. PICK j \in DeclsIn(es, n) : FirstIn(es, n) = es[j] /\ \A m \in DeclsIn(es, n) : j <= m
    BY <1>1, <1>3, <1>4, FirstIs
  <2>3. k \in 1 .. Len(ds) /\ k \in DeclsIn(es, n)
    BY <1>2, <1>3
  <2>4. j <= k
    BY <2>2, <2>3
  <2>5. j \in DeclsIn(ds, n)
    BY <1>1, <1>3, <2>3, <2>4
  <2>6. k <= j /\ j \in 1 .. Len(ds)
    BY <1>2, <2>1, <2>5
  <2>7. j = k
    BY <2>3, <2>4, <2>6
  <2> QED
    BY <1>1, <2>1, <2>2, <2>6, <2>7
<1>5. ASSUME DeclsIn(ds, n) = {}, n = d.name
      PROVE  FirstIn(es, n) = d
  <2>1. DeclsIn(es, n) = {Len(ds) + 1}
    BY <1>3, <1>5
  <2>2. PICK j \in DeclsIn(es, n) : FirstIn(es, n) = es[j]
    BY <1>1, <2>1, FirstIs
  <2> QED
    BY <1>1, <2>1, <2>2
<1> QED
  BY <1>2, <1>3, <1>4, <1>5 DEF es

\* What appending a declaration does to all that is said of a name.
LEMMA Declared ==
  ASSUME decls \in Seq(Decl), NEW d \in Decl, decls' = Append(decls, d)
  PROVE  /\ decls' \in Seq(Decl) /\ Len(decls') = Len(decls) + 1 /\ Len(decls) \in Nat
         /\ decls'[Len(decls) + 1] = d
         /\ \A k \in 1 .. Len(decls) : decls'[k] = decls[k]
         /\ \A n : /\ DeclsOf(n) \subseteq 1 .. Len(decls)
                   /\ DeclsOf(n)' = IF n = d.name THEN DeclsOf(n) \cup {Len(decls) + 1}
                                                  ELSE DeclsOf(n)
                   /\ DeclsOf(n) # {} => First(n)' = First(n)
                   /\ DeclsOf(n) = {} /\ n = d.name => First(n)' = d
                   /\ Defined(n)' <=> Defined(n) \/ (n = d.name /\ d.defines)
                   /\ Tentative(n)' <=> \/ Tentative(n)
                                        \/ n = d.name /\ d.scope = 0 /\ d.sc # "extern"
         /\ Objects' = Objects \cup ObjectsOf(d)
         /\ Linked' = Linked \cup (IF IsObject(d) THEN {} ELSE {d.name})
<1>1. /\ decls' \in Seq(Decl) /\ Len(decls') = Len(decls) + 1 /\ Len(decls) \in Nat
      /\ decls'[Len(decls) + 1] = d
      /\ \A k \in 1 .. Len(decls) : decls'[k] = decls[k]
  BY AppendedTo, Elements
<1>2. \A n : /\ DeclsOf(n) = DeclsIn(decls, n) /\ DeclsOf(n)' = DeclsIn(decls', n)
             /\ First(n) = FirstIn(decls, n) /\ First(n)' = FirstIn(decls', n)
  BY DEF DeclsOf, DeclsIn, First, FirstIn
<1>3. ASSUME NEW n
      PROVE  /\ DeclsOf(n) \subseteq 1 .. Len(decls)
             /\ DeclsOf(n)' = IF n = d.name THEN DeclsOf(n) \cup {Len(decls) + 1} ELSE DeclsOf(n)
             /\ DeclsOf(n) # {} => First(n)' = First(n)
             /\ DeclsOf(n) = {} /\ n = d.name => First(n)' = d
  BY <1>2, FirstStays
<1>4. ASSUME NEW n
      PROVE  /\ Defined(n)' <=> Defined(n) \/ (n = d.name /\ d.defines)
             /\ Tentative(n)' <=> \/ Tentative(n)
                                  \/ n = d.name /\ d.scope = 0 /\ d.sc # "extern"
  BY <1>1, <1>3 DEF Defined, Tentative
<1>5. /\ DOMAIN decls = 1 .. Len(decls) /\ DOMAIN decls' = 1 .. Len(decls) + 1
      /\ \A k : k \in 1 .. Len(decls) + 1 <=> k \in 1 .. Len(decls) \/ k = Len(decls) + 1
  BY <1>1, Elements
<1>6. Objects' = Objects \cup ObjectsOf(d)
  <2>1. Objects' = UNION {ObjectsOf(decls'[k]) : k \in DOMAIN decls'}
    BY DEF Objects, ObjectsOf, IsObject
  <2>2. \A x : x \in Objects' <=> \E k \in 1 .. Len(decls) + 1 : x \in ObjectsOf(decls'[k])
    BY <1>5, <2>1
  <2>3. \A x : x \in Objects <=> \E k \in 1 .. Len(decls) : x \in ObjectsOf(decls[k])
    BY <1>5 DEF Objects
  <2> QED
    BY <1>1, <1>5, <2>2, <2>3
<1>7. Linked' = Linked \cup (IF IsObject(d) THEN {} ELSE {d.name})
  <2>1. Linked' = {decls'[k].name : k \in {m \in DOMAIN decls' : ~IsObject(decls'[m])}}
    BY DEF Linked, IsObject
  <2>2. \A x : x \in Linked' <=> \E k \in 1 .. Len(decls) + 1 :
                                   ~IsObject(decls'[k]) /\ x = decls'[k].name
    BY <1>5, <2>1
  <2>3. \A x : x \in Linked <=> \E k \in 1 .. Len(decls) :
                                   ~IsObject(decls[k]) /\ x = decls[k].name
    BY <1>5 DEF Linked
  <2> QED
    BY <1>1, <1>5, <2>2, <2>3
<1> QED
  BY <1>1, <1>3, <1>4, <1>6, <1>7

-----------------------------------------------------------------------------

\* What is said of declarations does not change while there are no new ones.
LEMMA SameDecls ==
  ASSUME UNCHANGED decls
  PROVE  /\ \A n : /\ DeclsOf(n)' = DeclsOf(n)
                   /\ First(n)' = First(n)
                   /\ Defined(n)' = Defined(n)
                   /\ Tentative(n)' = Tentative(n)
         /\ Objects' = Objects /\ Linked' = Linked /\ Clashing' = Clashing
<1>1. \A n : DeclsOf(n)' = DeclsOf(n)
  BY DEF DeclsOf
<1>2. \A n : /\ First(n)' = First(n)
             /\ Defined(n)' = Defined(n) /\ Tentative(n)' = Tentative(n)
  BY <1>1 DEF First, Defined, Tentative
<1>3. Objects' = Objects /\ Linked' = Linked
  BY DEF Objects, ObjectsOf, Linked, IsObject
<1> QED
  BY <1>1, <1>2, <1>3 DEF Clashing

\* A name that is declared is that of an object or has linkage.
LEMMA NamesOf ==
  ASSUME GoodDecls, NEW n
  PROVE  /\ n \in Linked => DeclsOf(n) # {} /\ n \in Names
         /\ n \in Objects => n \in Locals
         /\ DeclsOf(n) # {} => n \in Linked \cup Objects
<1>1. /\ DOMAIN decls = 1 .. Len(decls)
      /\ \A k \in 1 .. Len(decls) : decls[k] \in Decl /\ GoodDecl(decls[k])
  BY Elements DEF GoodDecls
<1>2. ASSUME n \in Linked
      PROVE  DeclsOf(n) # {} /\ n \in Names
  <2>1. PICK k \in DOMAIN decls : ~IsObject(decls[k]) /\ n = decls[k].name
    BY <1>2 DEF Linked
  <2>2. decls[k] \in Decl /\ GoodDecl(decls[k])
    BY <1>1
  <2>3. n \in Names
    BY <2>1, <2>2 DEF GoodDecl, Decl
  <2> QED
    BY <2>1, <2>3 DEF DeclsOf
<1>3. ASSUME n \in Objects
      PROVE  n \in Locals
  <2>1. PICK k \in DOMAIN decls : n \in ObjectsOf(decls[k])
    BY <1>3 DEF Objects
  <2>2. decls[k] \in Decl /\ GoodDecl(decls[k])
    BY <1>1
  <2>3. CASE decls[k].kind = "func"
    <3>1. n \in decls[k].params
      BY <2>1, <2>3 DEF ObjectsOf
    <3>2. decls[k].params \subseteq Locals
      BY <2>2, <2>3 DEF Decl
    <3> QED
      BY <3>1, <3>2
  <2>4. CASE decls[k].kind = "var"
    BY <2>1, <2>2, <2>4 DEF ObjectsOf, GoodDecl
  <2> QED
    BY <2>2, <2>3, <2>4 DEF Decl
<1>4. ASSUME NEW k \in DeclsOf(n)
      PROVE  n \in Linked \cup Objects
  <2>1. k \in DOMAIN decls /\ decls[k].name = n
    BY DEF DeclsOf
  <2>2. CASE IsObject(decls[k])
    <3>1. n \in ObjectsOf(decls[k])
      BY <2>1, <2>2 DEF ObjectsOf, IsObject
    <3> QED
      BY <2>1, <3>1 DEF Objects
  <2>3. CASE ~IsObject(decls[k])
    BY <2>1, <2>3 DEF Linked
  <2> QED
    BY <2>2, <2>3
<1> QED
  BY <1>2, <1>3, <1>4

\* While declarations are checked an entry means there was one.
LEMMA KnownIs ==
  ASSUME SymInv, NEW n, n \notin Objects
  PROVE  /\ Known(n) <=> DeclsOf(n) # {}
         /\ Known(n) <=> n \in Linked
         /\ Known(n) => SumsUp(n)
<1>1. Known(n) <=> n \in Linked
  BY DEF SymInv, TableNames, Known
<1>2. n \in Linked <=> DeclsOf(n) # {}
  BY NamesOf DEF SymInv
<1> QED
  BY <1>1, <1>2 DEF SymInv, AllSumUp

\* EntriesOnlyGrow, of one entry and of one step
EntryGrows(n) ==
  /\ st'[n].type = st[n].type
  /\ st'[n].attrs.t = st[n].attrs.t
  /\ n \notin Objects => st'[n].attrs.global = st[n].attrs.global
  /\ Rank(st'[n].attrs) >= Rank(st[n].attrs)

Grown == \A n \in DOMAIN st : n \in DOMAIN st' /\ (n \notin Clashing' => EntryGrows(n))

\* The rank of an entry, by its kind.
LEMMA RankIs ==
  ASSUME NEW a
  PROVE  /\ Rank(a) \in 0 .. 2
         /\ a.t = "FUNC" => Rank(a) = IF a.defined THEN 2 ELSE 0
         /\ a.t = "STATIC" =>
              Rank(a) = IF a.init = "NOINIT" THEN 0 ELSE IF a.init = "TENTATIVE" THEN 1 ELSE 2
         /\ a.t = "LOCAL" => Rank(a) = 0
  BY DEF Rank

\* An entry that does not change has not shrunk.
LEMMA EntrySame ==
  ASSUME NEW n, st'[n] = st[n]
  PROVE  EntryGrows(n)
<1>1. Rank(st[n].attrs) >= Rank(st[n].attrs)
  BY RankIs
<1> QED
  BY <1>1 DEF EntryGrows

\* A table that does not change has not shrunk.
LEMMA GrownSame ==
  ASSUME UNCHANGED st
  PROVE  Grown
  BY EntrySame DEF Grown

\* A declaration is accepted: only its own entry is to be looked at, and that
\* only if no object has its name.
LEMMA Accepted ==
  ASSUME SymInv, status = "checking", NEW d \in Decl, GoodDecl(d), Accept(d),
         ObjectsOf(d) \subseteq Fresh,
         DOMAIN st' = DOMAIN st \cup {d.name} \cup ObjectsOf(d),
         \A n \in DOMAIN st : n # d.name /\ n \notin ObjectsOf(d) => st'[n] = st[n],
         \A n \in ObjectsOf(d) :
           st'[n].attrs = IF d.kind = "var" /\ d.sc = "static" THEN StaticAttrs(FALSE, "INITIAL")
                          ELSE LocalAttrs,
         ~IsObject(d) /\ d.name \notin Objects \cup ObjectsOf(d) =>
           /\ SumsUp(d.name)'
           /\ Defined(d.name) => ~d.defines
           /\ d.name \in DOMAIN st => EntryGrows(d.name)
  PROVE  SymInv' /\ status' = "checking" /\ Grown
<1>1. decls \in Seq(Decl) /\ decls' = Append(decls, d) /\ UNCHANGED <<status, rejected>>
  BY DEF SymInv, GoodDecls, Accept
<1>2. /\ decls' \in Seq(Decl) /\ Len(decls') = Len(decls) + 1 /\ Len(decls) \in Nat
      /\ decls'[Len(decls) + 1] = d
      /\ \A k \in 1 .. Len(decls) : decls'[k] = decls[k]
      /\ \A n : /\ DeclsOf(n) \subseteq 1 .. Len(decls)
                /\ DeclsOf(n)' = IF n = d.name THEN DeclsOf(n) \cup {Len(decls) + 1}
                                               ELSE DeclsOf(n)
                /\ DeclsOf(n) # {} => First(n)' = First(n)
                /\ DeclsOf(n) = {} /\ n = d.name => First(n)' = d
                /\ Defined(n)' <=> Defined(n) \/ (n = d.name /\ d.defines)
                /\ Tentative(n)' <=> \/ Tentative(n)
                                     \/ n = d.name /\ d.scope = 0 /\ d.sc # "extern"
      /\ Objects' = Objects \cup ObjectsOf(d)
      /\ Linked' = Linked \cup (IF IsObject(d) THEN {} ELSE {d.name})
  BY <1>1, Declared
<1>3. GoodDecls'
  <2>1. \A k : k \in 1 .. Len(decls') <=> k \in 1 .. Len(decls) \/ k = Len(decls) + 1
    BY <1>2
  <2>2. \A k \in 1 .. Len(decls) : GoodDecl(decls[k])
    BY DEF SymInv, GoodDecls
  <2>3. \A k \in 1 .. Len(decls') : GoodDecl(decls'[k])
    BY <1>2, <2>1, <2>2
  <2> QED
    BY <1>2, <2>3 DEF GoodDecls, GoodDecl, IsObject
<1>4. IsObject(d) => ObjectsOf(d) = {d.name}
  BY DEF IsObject, ObjectsOf
<1>5. /\ DOMAIN st = Linked \cup Objects
      /\ \A n \in Linked \ Objects : SumsUp(n)
      /\ \A n \in Objects \ Linked :
           /\ DeclsOf(n) = {} => st[n].attrs = LocalAttrs
           /\ \A k \in DeclsOf(n) :
                /\ DeclsOf(n) = {k}
                /\ st[n].attrs = IF decls[k].sc = "static" THEN StaticAttrs(FALSE, "INITIAL")
                                 ELSE LocalAttrs
      /\ \A n : n \notin Linked \cup Objects => DeclsOf(n) = {}
  BY NamesOf DEF SymInv, TableNames, AllSumUp, ObjectsInv
<1>6. TableNames'
  BY <1>2, <1>4, <1>5 DEF TableNames
<1>7. ASSUME NEW n, n # d.name
      PROVE  /\ DeclsOf(n)' = DeclsOf(n) /\ \A k \in DeclsOf(n) : decls'[k] = decls[k]
             /\ Defined(n)' = Defined(n) /\ Tentative(n)' = Tentative(n)
             /\ DeclsOf(n) # {} => First(n)' = First(n)
  <2>1. (Defined(n)' <=> Defined(n)) /\ (Tentative(n)' <=> Tentative(n))
    BY <1>2, <1>7
  <2>2. Defined(n)' = Defined(n) /\ Tentative(n)' = Tentative(n)
    BY <2>1 DEF Defined, Tentative
  <2> QED
    BY <1>2, <1>7, <2>2
<1>8. ASSUME NEW n \in Linked' \ Objects'
      PROVE  SumsUp(n)'
  <2>1. CASE n = d.name
    BY <1>2, <1>4, <2>1
  <2>2. CASE n # d.name
    <3>1. n \in Linked \ Objects /\ n \notin ObjectsOf(d)
      BY <1>2, <2>2
    <3>2. SumsUp(n) /\ DeclsOf(n) # {}
      BY <1>5, <3>1, NamesOf DEF SymInv
    <3>3. n \in DOMAIN st' /\ st'[n] = st[n]
      BY <2>2, <3>1, <3>2 DEF SumsUp
    <3> QED
      BY <1>7, <2>2, <3>2, <3>3 DEF SumsUp
  <2> QED
    BY <2>1, <2>2
<1>9. ASSUME NEW n \in Objects' \ Linked'
      PROVE  /\ DeclsOf(n)' = {} => st'[n].attrs = LocalAttrs
             /\ \A k \in DeclsOf(n)' :
                  /\ DeclsOf(n)' = {k}
                  /\ st'[n].attrs = IF decls'[k].sc = "static" THEN StaticAttrs(FALSE, "INITIAL")
                                    ELSE LocalAttrs
  <2>1. CASE n \in Objects
    <3>1. n \notin ObjectsOf(d) /\ n # d.name /\ n \notin Linked
      BY <1>2, <1>4, <2>1 DEF Fresh
    <3>2. st'[n] = st[n]
      BY <1>5, <2>1, <3>1
    <3> QED
      <4>1. DeclsOf(n)' = DeclsOf(n) /\ \A k \in DeclsOf(n) : decls'[k] = decls[k]
        BY <1>7, <3>1
      <4>2. /\ DeclsOf(n) = {} => st[n].attrs = LocalAttrs
            /\ \A k \in DeclsOf(n) :
                 /\ DeclsOf(n) = {k}
                 /\ st[n].attrs = IF decls[k].sc = "static" THEN StaticAttrs(FALSE, "INITIAL")
                                  ELSE LocalAttrs
        BY <1>5, <2>1, <3>1
      <4> QED
        BY <3>2, <4>1, <4>2
  <2>2. CASE n \notin Objects
    <3>1. n \in ObjectsOf(d) /\ DeclsOf(n) = {}
      BY <1>2, <1>5, <2>2
    <3>2. CASE n = d.name
      <4>1. DeclsOf(n)' = {Len(decls) + 1}
        BY <1>2, <3>1, <3>2
      <4>2. d.kind = "var"
        BY <1>2, <3>2 DEF IsObject
      <4> QED
        BY <1>2, <3>1, <4>1, <4>2
    <3>3. CASE n # d.name
      <4>1. d.kind = "func"
        BY <3>1, <3>3 DEF ObjectsOf
      <4> QED
        BY <1>2, <3>1, <3>3, <4>1
    <3> QED
      BY <3>2, <3>3
  <2> QED
    BY <2>1, <2>2
<1>10. OneDefinition'
  <2> SUFFICES ASSUME NEW n \in Names \ Objects', NEW j \in DeclsOf(n)', NEW k \in DeclsOf(n)',
                      decls'[j].defines, decls'[k].defines
               PROVE  j = k
    BY DEF OneDefinition
  <2>1. n \notin Objects /\ n \notin ObjectsOf(d)
    BY <1>2
  <2>2. CASE j \in DeclsOf(n) /\ k \in DeclsOf(n)
    BY <1>2, <2>1, <2>2 DEF SymInv, OneDefinition
  <2>3. CASE ~(j \in DeclsOf(n) /\ k \in DeclsOf(n))
    <3>1. n = d.name /\ d.defines
      BY <1>2, <2>3
    <3>2. ~Defined(n)
      BY <1>4, <2>1, <3>1
    <3>3. j \notin DeclsOf(n) /\ k \notin DeclsOf(n)
      BY <1>2, <3>2 DEF Defined
    <3> QED
      BY <1>2, <3>3
  <2> QED
    BY <2>2, <2>3
<1>11. RefusedForReason' /\ AbortsOnObject' /\ status' = "checking"
  BY <1>1 DEF RefusedForReason, AbortsOnObject
<1>12. ASSUME NEW n \in DOMAIN st, n \notin Clashing'
       PROVE  EntryGrows(n)
  <2>1. CASE n # d.name /\ n \notin ObjectsOf(d)
    BY <2>1, EntrySame
  <2>2. CASE n \in ObjectsOf(d)
    <3>1. n \in Linked
      BY <1>5, <2>2 DEF Fresh
    <3> QED
      BY <1>2, <1>12, <2>2, <3>1 DEF Clashing
  <2>3. CASE n = d.name /\ n \notin ObjectsOf(d)
    <3>1. ~IsObject(d) /\ n \in Linked'
      BY <1>2, <1>4, <2>3
    <3>2. n \notin Objects
      BY <1>2, <1>12, <3>1 DEF Clashing
    <3> QED
      BY <2>3, <3>1, <3>2
  <2> QED
    BY <2>1, <2>2, <2>3
<1>13. Grown
  BY <1>12 DEF Grown
<1>14. AllSumUp' /\ ObjectsInv'
  BY <1>8, <1>9 DEF AllSumUp, ObjectsInv
<1> QED
  BY <1>3, <1>6, <1>10, <1>11, <1>13, <1>14 DEF SymInv

\* A declaration that ends the program leaves table and declarations alone.
LEMMA Kept ==
  ASSUME SymInv, UNCHANGED <<st, decls>>
  PROVE  /\ GoodDecls' /\ TableNames' /\ AllSumUp' /\ ObjectsInv' /\ OneDefinition'
         /\ Objects' = Objects /\ Grown
         /\ \A d : Unacceptable(d) => Unacceptable(d)'
<1>1. /\ \A n : /\ DeclsOf(n)' = DeclsOf(n) /\ First(n)' = First(n)
                /\ Defined(n)' = Defined(n) /\ Tentative(n)' = Tentative(n)
      /\ Objects' = Objects /\ Linked' = Linked /\ Clashing' = Clashing
  BY SameDecls
<1>2. GoodDecls' /\ TableNames' /\ OneDefinition'
  BY <1>1 DEF SymInv, GoodDecls, TableNames, OneDefinition
<1>3. \A n : SumsUp(n) => SumsUp(n)'
  BY <1>1 DEF SumsUp
<1>4. AllSumUp' /\ ObjectsInv'
  BY <1>1, <1>3 DEF SymInv, AllSumUp, ObjectsInv
<1>5. \A d : Unacceptable(d) => Unacceptable(d)'
  BY <1>1 DEF Unacceptable
<1> QED
  BY <1>1, <1>2, <1>4, <1>5, GrownSame

\* A declaration is refused, for a reason.
LEMMA Rejected ==
  ASSUME SymInv, NEW d, Unacceptable(d) \/ d.name \in Objects, Reject(d)
  PROVE  SymInv' /\ status' = "error" /\ Grown
<1>1. UNCHANGED <<st, decls>> /\ rejected' = d /\ status' = "error"
  BY DEF Reject
<1>2. RefusedForReason' /\ AbortsOnObject'
  BY <1>1, Kept DEF RefusedForReason, AbortsOnObject
<1> QED
  BY <1>1, <1>2, Kept DEF SymInv

\* An assertion fails, or there is no place to name, for an object's entry.
LEMMA Aborted ==
  ASSUME SymInv, NEW d, d.name \in Objects, Abort(d)
  PROVE  SymInv' /\ status' = "abort" /\ Grown
<1>1. UNCHANGED <<st, decls>> /\ rejected' = d /\ status' = "abort"
  BY DEF Abort
<1>2. RefusedForReason' /\ AbortsOnObject'
  BY <1>1, Kept DEF RefusedForReason, AbortsOnObject
<1> QED
  BY <1>1, <1>2, Kept DEF SymInv

\* A declaration is refused for the entry it found.
LEMMA RefusedFor ==
  ASSUME SymInv, NEW d, Known(d.name), RefuseFor(d, st[d.name]),
         d.name \notin Objects => Unacceptable(d)
  PROVE  SymInv' /\ status' \in {"checking", "error", "abort"} /\ Grown
<1>1. CASE d.name \in Objects
  BY <1>1, Rejected, Aborted DEF RefuseFor
<1>2. CASE d.name \notin Objects
  <2>1. st[d.name].ref = TRUE
    BY <1>2, KnownIs DEF SumsUp
  <2> QED
    BY <1>2, <2>1, Rejected DEF RefuseFor
<1> QED
  BY <1>1, <1>2
\* The entry a declaration of a function writes.
LEMMA FuncEntry ==
  ASSUME NEW t, NEW x, NEW g
  PROVE  /\ Entry(t, FuncAttrs(x, g)).type = t
         /\ Entry(t, FuncAttrs(x, g)).attrs.t = "FUNC"
         /\ Entry(t, FuncAttrs(x, g)).attrs.defined = x
         /\ Entry(t, FuncAttrs(x, g)).attrs.global = g
  BY DEF Entry, FuncAttrs

\* The entry a declaration of a static object writes.
LEMMA StaticEntry ==
  ASSUME NEW t, NEW g, NEW i
  PROVE  /\ Entry(t, StaticAttrs(g, i)).type = t
         /\ Entry(t, StaticAttrs(g, i)).attrs.t = "STATIC"
         /\ Entry(t, StaticAttrs(g, i)).attrs.global = g
         /\ Entry(t, StaticAttrs(g, i)).attrs.init = i
  BY DEF Entry, StaticAttrs


\* typecheck_func_decl
LEMMA FuncStep ==
  ASSUME SymInv, status = "checking", NEW d \in Decl, d.kind = "func",
         d.defines => d.scope = 0, d.params \subseteq Fresh, FuncDecl(d)
  PROVE  SymInv' /\ status' \in {"checking", "error", "abort"} /\ Grown
<1> DEFINE n == d.name
<1>1. /\ n \in Names /\ d.type \in FnTypes /\ d.sc \in StorageClasses /\ d.scope \in 0 .. 1
      /\ d.defines \in BOOLEAN
      /\ ~IsObject(d) /\ ObjectsOf(d) = d.params
  BY DEF Decl, IsObject, ObjectsOf
<1>2. decls \in Seq(Decl)
  BY DEF SymInv, GoodDecls
<1>3. CASE d.sc = "static" /\ d.scope # 0
  <2>1. Reject(d) /\ Unacceptable(d)
    BY <1>1, <1>3 DEF FuncDecl, Unacceptable
  <2> QED
    BY <2>1, Rejected
<1>4. CASE ~(d.sc = "static" /\ d.scope # 0) /\ Known(n) /\ FuncClashes(st[n], d)
  <2>1. ASSUME n \notin Objects
        PROVE  Unacceptable(d)
    <3>1. SumsUp(n) /\ DeclsOf(n) # {}
      BY <1>4, <2>1, KnownIs
    <3>2. CASE st[n].type # d.type
      BY <3>1, <3>2 DEF SumsUp, Unacceptable
    <3>3. CASE st[n].type = d.type
      <4>1. st[n].attrs.defined = Defined(n)
        BY <1>1, <3>1, <3>3, SymTableAssumption DEF SumsUp
      <4>2. CASE st[n].attrs.defined /\ d.defines
        BY <4>1, <4>2 DEF Unacceptable, Defined
      <4>3. CASE st[n].attrs.global /\ d.sc = "static"
        BY <3>1, <4>3 DEF Unacceptable, SumsUp
      <4> QED
        BY <1>4, <3>3, <4>2, <4>3 DEF FuncClashes
    <3> QED
      BY <3>2, <3>3
  <2>2. RefuseFor(d, st[n])
    BY <1>4 DEF FuncDecl
  <2> QED
    BY <1>4, <2>1, <2>2, RefusedFor
<1>5. CASE /\ ~(d.sc = "static" /\ d.scope # 0) /\ ~(Known(n) /\ FuncClashes(st[n], d))
           /\ Known(n) /\ st[n].attrs.t # "FUNC"
  <2>1. Abort(d)
    BY <1>5 DEF FuncDecl
  <2>2. n \in Objects
    BY <1>1, <1>5, KnownIs, SymTableAssumption DEF FuncClashes, SumsUp
  <2> QED
    BY <2>1, <2>2, Aborted
<1>6. CASE /\ ~(d.sc = "static" /\ d.scope # 0) /\ ~(Known(n) /\ FuncClashes(st[n], d))
           /\ ~(Known(n) /\ st[n].attrs.t # "FUNC")
  <2> DEFINE st1 == Added(st, n, Entry(d.type, MergedFunc(d)))
  <2>1. /\ st' = [m \in DOMAIN st1 \cup d.params |->
                    IF m \in d.params THEN EntryNoRef(ParamType(d.type)) ELSE st1[m]]
        /\ Accept(d)
    BY <1>6 DEF FuncDecl
  <2>2. /\ DOMAIN st' = DOMAIN st \cup {n} \cup d.params
        /\ \A m \in DOMAIN st : m # n /\ m \notin d.params => st'[m] = st[m]
        /\ n \notin d.params => st'[n] = Entry(d.type, MergedFunc(d))
        /\ \A m \in d.params : st'[m].attrs = LocalAttrs
    BY <2>1 DEF Added, EntryNoRef
  <2>3. GoodDecl(d) /\ decls' = Append(decls, d)
    BY <1>6, <2>1 DEF GoodDecl, Accept
  <2>4. ASSUME n \notin Objects \cup d.params
        PROVE  /\ SumsUp(n)'
               /\ Defined(n) => ~d.defines
               /\ n \in DOMAIN st => EntryGrows(n)
    <3>1. Known(n) => /\ SumsUp(n) /\ DeclsOf(n) # {}
                      /\ st[n].type = d.type
                      /\ st[n].attrs.t = "FUNC"
                      /\ st[n].attrs.defined = Defined(n)
                      /\ ~(Defined(n) /\ d.defines)
      BY <1>1, <1>6, <2>4, KnownIs, SymTableAssumption DEF FuncClashes, SumsUp
    <3>2. ~Known(n) => DeclsOf(n) = {} /\ ~Defined(n)
      BY <2>4, KnownIs DEF Defined
    <3>3. /\ decls'[Len(decls) + 1] = d
          /\ \A k \in 1 .. Len(decls) : decls'[k] = decls[k]
          /\ DeclsOf(n) \subseteq 1 .. Len(decls)
          /\ DeclsOf(n)' = DeclsOf(n) \cup {Len(decls) + 1}
          /\ DeclsOf(n) # {} => First(n)' = First(n)
          /\ DeclsOf(n) = {} => First(n)' = d
          /\ Defined(n)' <=> Defined(n) \/ d.defines
      BY <1>2, <2>3, Declared
    <3>4. /\ st'[n].type = d.type
          /\ st'[n].ref = TRUE
          /\ st'[n].attrs.t = "FUNC"
          /\ st'[n].attrs.defined = (Defined(n) \/ d.defines)
          /\ Known(n) => st'[n].attrs.global = st[n].attrs.global
          /\ ~Known(n) => st'[n].attrs.global = (d.sc # "static")
      <4>1. Known(n) => MergedFunc(d) = FuncAttrs(st[n].attrs.defined \/ d.defines, st[n].attrs.global)
        BY DEF MergedFunc
      <4>2. ~Known(n) => MergedFunc(d) = FuncAttrs(d.defines, d.sc # "static")
        BY DEF MergedFunc
      <4>3. st'[n].ref = TRUE
        BY <2>2, <2>4 DEF Entry
      <4>4. CASE Known(n)
        <5>1. /\ st'[n].type = d.type /\ st'[n].attrs.t = "FUNC"
              /\ st'[n].attrs.global = st[n].attrs.global
              /\ st'[n].attrs.defined = (st[n].attrs.defined \/ d.defines)
          BY <2>2, <2>4, <4>1, <4>4, FuncEntry
        <5>2. st'[n].attrs.defined = (Defined(n) \/ d.defines)
          BY <3>1, <4>4, <5>1
        <5> QED
          BY <4>3, <4>4, <5>1, <5>2
      <4>5. CASE ~Known(n)
        <5>1. /\ st'[n].type = d.type /\ st'[n].attrs.t = "FUNC"
              /\ st'[n].attrs.global = (d.sc # "static")
              /\ st'[n].attrs.defined = d.defines
          BY <2>2, <2>4, <4>2, <4>5, FuncEntry
        <5>2. st'[n].attrs.defined = (Defined(n) \/ d.defines)
          BY <1>1, <3>2, <4>5, <5>1
        <5> QED
          BY <4>3, <4>5, <5>1, <5>2
      <4> QED
        BY <4>4, <4>5
    <3>5. SumsUp(n)'
      <4>1. \A k \in DeclsOf(n)' : decls'[k].type = d.type
        BY <3>1, <3>2, <3>3 DEF SumsUp
      <4>2. st'[n].attrs.global = (First(n)'.sc # "static")
        BY <3>1, <3>2, <3>3, <3>4 DEF SumsUp
      <4>3. st'[n].attrs.defined = Defined(n)'
        <5>1. (Defined(n) \/ d.defines) \in BOOLEAN /\ Defined(n)' \in BOOLEAN
          BY DEF Defined
        <5>2. Defined(n)' = (Defined(n) \/ d.defines)
          BY <3>3, <5>1
        <5> QED
          BY <3>4, <5>2
      <4>4. n \in DOMAIN st'
        BY <2>2
      <4> QED
        BY <1>1, <3>4, <4>1, <4>2, <4>3, <4>4 DEF SumsUp
    <3>6. ASSUME n \in DOMAIN st
          PROVE  EntryGrows(n)
      <4>1. Known(n)
        BY <3>6 DEF Known
      <4>2. st[n].attrs.defined => st'[n].attrs.defined
        BY <3>1, <3>3, <3>4, <4>1
      <4>3. Rank(st'[n].attrs) >= Rank(st[n].attrs)
        BY <3>1, <3>4, <4>1, <4>2, RankIs
      <4> QED
        BY <3>1, <3>4, <4>1, <4>3 DEF EntryGrows
    <3> QED
      BY <3>1, <3>2, <3>5, <3>6
  <2> QED
    BY <1>1, <2>1, <2>2, <2>3, <2>4, Accepted
<1> QED
  BY <1>3, <1>4, <1>5, <1>6

\* typecheck_filescope_var_decl
LEMMA FilescopeVarStep ==
  ASSUME SymInv, status = "checking", NEW d \in Decl, d.kind = "var", d.scope = 0,
         d.name \in Names, FilescopeVar(d)
  PROVE  SymInv' /\ status' \in {"checking", "error", "abort"} /\ Grown
<1> DEFINE n == d.name
<1>1. /\ n \in Names /\ d.type \in VarTypes /\ d.sc \in StorageClasses
      /\ d.defines \in BOOLEAN /\ d.type \notin FnTypes
      /\ ~IsObject(d) /\ ObjectsOf(d) = {}
  BY SymTableAssumption DEF Decl, IsObject, ObjectsOf
<1>2. decls \in Seq(Decl)
  BY DEF SymInv, GoodDecls
<1>3. n \notin Objects /\ Known(n) => SumsUp(n) /\ DeclsOf(n) # {}
  BY KnownIs
<1>4. CASE d.init = "expr"
  <2>1. Reject(d) /\ Unacceptable(d)
    BY <1>4 DEF FilescopeVar, Unacceptable
  <2> QED
    BY <2>1, Rejected
<1>5. CASE d.init # "expr" /\ Known(n) /\ st[n].type # d.type
  <2>1. RefuseFor(d, st[n])
    BY <1>5 DEF FilescopeVar
  <2>2. n \notin Objects => Unacceptable(d)
    BY <1>3, <1>5 DEF SumsUp, Unacceptable
  <2> QED
    BY <1>5, <2>1, <2>2, RefusedFor
<1>6. CASE /\ d.init # "expr" /\ ~(Known(n) /\ st[n].type # d.type)
           /\ Known(n) /\ st[n].attrs.t # "STATIC"
  <2>1. Abort(d)
    BY <1>6 DEF FilescopeVar
  <2>2. n \in Objects
    BY <1>1, <1>3, <1>6 DEF SumsUp
  <2> QED
    BY <2>1, <2>2, Aborted
<1>7. CASE /\ d.init # "expr" /\ ~(Known(n) /\ st[n].type # d.type)
           /\ ~(Known(n) /\ st[n].attrs.t # "STATIC")
  <2>1. Known(n) /\ n \notin Objects =>
          /\ st[n].attrs.t = "STATIC" /\ st[n].type = d.type
          /\ st[n].attrs.global = (First(n).sc # "static")
          /\ st[n].attrs.init = IF Defined(n) THEN "INITIAL"
                                ELSE IF Tentative(n) THEN "TENTATIVE" ELSE "NOINIT"
    BY <1>1, <1>3, <1>7 DEF SumsUp
  <2>2. CASE Known(n) /\ VarClashes(st[n].attrs, d)
    <3>1. Reject(d)
      BY <1>7, <2>2 DEF FilescopeVar
    <3>2. ASSUME n \notin Objects
          PROVE  Unacceptable(d)
      <4>1. CASE d.sc # "extern" /\ st[n].attrs.global # (d.sc # "static")
        <5>1. CASE d.sc = "static"
          <6>1. First(n).sc # "static"
            BY <2>1, <2>2, <3>2, <4>1, <5>1
          <6> QED
            BY <1>3, <2>2, <3>2, <5>1, <6>1 DEF Unacceptable
        <5>2. CASE d.sc # "static"
          <6>1. First(n).sc = "static"
            BY <2>1, <2>2, <3>2, <4>1, <5>2
          <6>2. d.sc = "none"
            BY <1>1, <4>1, <5>2 DEF StorageClasses
          <6> QED
            BY <1>3, <2>2, <3>2, <6>1, <6>2 DEF Unacceptable
        <5> QED
          BY <5>1, <5>2
      <4>2. CASE st[n].attrs.init = "INITIAL" /\ d.defines
        <5>1. Defined(n)
          BY <2>1, <2>2, <3>2, <4>2
        <5> QED
          BY <4>2, <5>1 DEF Unacceptable, Defined
      <4> QED
        BY <2>2, <4>1, <4>2 DEF VarClashes
    <3> QED
      BY <3>1, <3>2, Rejected
  <2>3. CASE ~(Known(n) /\ VarClashes(st[n].attrs, d))
    <3> DEFINE e == Entry(d.type, StaticAttrs(MergedLinkage(d), MergedInit(d)))
    <3>1. st' = Added(st, n, e) /\ Accept(d)
      BY <1>7, <2>3 DEF FilescopeVar
    <3>2. /\ DOMAIN st' = DOMAIN st \cup {n} /\ st'[n] = e
          /\ \A m \in DOMAIN st : m # n => st'[m] = st[m]
      BY <3>1 DEF Added
    <3>3. /\ st'[n].type = d.type /\ st'[n].attrs.t = "STATIC"
          /\ st'[n].attrs.global = MergedLinkage(d)
          /\ st'[n].attrs.init = MergedInit(d)
          /\ st'[n].ref = TRUE
      BY <3>2, StaticEntry DEF Entry
    <3>4. GoodDecl(d) /\ decls' = Append(decls, d)
      BY <1>1, <3>1 DEF GoodDecl, Accept
    <3>5. /\ decls'[Len(decls) + 1] = d
          /\ \A k \in 1 .. Len(decls) : decls'[k] = decls[k]
          /\ DeclsOf(n) \subseteq 1 .. Len(decls)
          /\ DeclsOf(n)' = DeclsOf(n) \cup {Len(decls) + 1}
          /\ DeclsOf(n) # {} => First(n)' = First(n)
          /\ DeclsOf(n) = {} => First(n)' = d
          /\ Defined(n)' <=> Defined(n) \/ d.defines
          /\ Tentative(n)' <=> Tentative(n) \/ d.sc # "extern"
      BY <1>2, <3>4, Declared
    <3>6. ASSUME n \notin Objects
          PROVE  /\ SumsUp(n)'
                 /\ Defined(n) => ~d.defines
                 /\ n \in DOMAIN st => EntryGrows(n)
      <4>1. ~Known(n) => DeclsOf(n) = {} /\ ~Defined(n) /\ ~Tentative(n)
        BY <3>6, KnownIs DEF Defined, Tentative
      <4>2. Defined(n) => ~d.defines
        BY <2>1, <2>3, <3>6, <4>1 DEF VarClashes
      <4>3. MergedLinkage(d) = (First(n)'.sc # "static")
        <5>1. CASE ~Known(n)
          BY <3>5, <4>1, <5>1 DEF MergedLinkage
        <5>2. CASE Known(n) /\ d.sc = "extern"
          BY <1>3, <2>1, <3>5, <3>6, <5>2 DEF MergedLinkage
        <5>3. CASE Known(n) /\ d.sc # "extern"
          <6>1. MergedLinkage(d) = (d.sc # "static")
            BY <5>3 DEF MergedLinkage
          <6>2. st[n].attrs.global = (d.sc # "static")
            BY <2>3, <5>3 DEF VarClashes
          <6> QED
            BY <1>3, <2>1, <3>5, <3>6, <5>3, <6>1, <6>2
        <5> QED
          BY <5>1, <5>2, <5>3
      <4>4. MergedInit(d) = IF Defined(n)' THEN "INITIAL"
                            ELSE IF Tentative(n)' THEN "TENTATIVE" ELSE "NOINIT"
        <5>1. CASE ~Known(n)
          BY <3>5, <4>1, <5>1 DEF MergedInit, OwnInit
        <5>2. CASE Known(n)
          BY <2>1, <3>5, <3>6, <5>2 DEF MergedInit, OwnInit
        <5> QED
          BY <5>1, <5>2
      <4>5. SumsUp(n)'
        <5>1. \A k \in DeclsOf(n) : decls[k].type = d.type
          BY <1>3, <2>1, <3>6, <4>1 DEF SumsUp
        <5>2. \A k \in DeclsOf(n)' : decls'[k].type = d.type
          BY <3>5, <5>1
        <5> QED
          BY <1>1, <3>2, <3>3, <4>3, <4>4, <5>2 DEF SumsUp
      <4>6. ASSUME Known(n)
            PROVE  EntryGrows(n)
        <5>1. Rank(st'[n].attrs) >= Rank(st[n].attrs)
          BY <2>1, <3>3, <3>5, <3>6, <4>4, <4>6, RankIs
        <5>2. st'[n].attrs.global = st[n].attrs.global
          BY <1>3, <2>1, <3>3, <3>5, <3>6, <4>3, <4>6
        <5> QED
          BY <2>1, <3>3, <3>6, <4>6, <5>1, <5>2 DEF EntryGrows
      <4> QED
        BY <4>2, <4>5, <4>6 DEF Known
    <3> QED
      BY <1>1, <3>1, <3>2, <3>4, <3>6, Accepted
  <2> QED
    BY <2>2, <2>3
<1> QED
  BY <1>4, <1>5, <1>6, <1>7

\* typecheck_local_var_decl, of an extern declaration
LEMMA LocalExternStep ==
  ASSUME SymInv, status = "checking", NEW d \in Decl, d.kind = "var", d.scope = 1,
         d.sc = "extern", d.name \in Names, LocalExtern(d)
  PROVE  SymInv' /\ status' \in {"checking", "error", "abort"} /\ Grown
<1> DEFINE n == d.name
<1>1. /\ n \in Names /\ d.type \in VarTypes /\ d.type \notin FnTypes /\ d.defines \in BOOLEAN
      /\ ~IsObject(d) /\ ObjectsOf(d) = {}
  BY SymTableAssumption DEF Decl, IsObject, ObjectsOf
<1>2. decls \in Seq(Decl)
  BY DEF SymInv, GoodDecls
<1>3. n \notin Objects /\ Known(n) => SumsUp(n) /\ DeclsOf(n) # {}
  BY KnownIs
<1>4. CASE d.defines
  <2>1. Reject(d) /\ Unacceptable(d)
    BY <1>4 DEF LocalExtern, Unacceptable
  <2> QED
    BY <2>1, Rejected
<1>5. CASE ~d.defines /\ Known(n) /\ st[n].type # d.type
  <2>1. RefuseFor(d, st[n])
    BY <1>5 DEF LocalExtern
  <2>2. n \notin Objects => Unacceptable(d)
    BY <1>3, <1>5 DEF SumsUp, Unacceptable
  <2> QED
    BY <1>5, <2>1, <2>2, RefusedFor
<1>6. CASE ~d.defines /\ ~(Known(n) /\ st[n].type # d.type)
  <2>1. /\ st' = IF Known(n) THEN st ELSE Added(st, n, Entry(d.type, StaticAttrs(TRUE, "NOINIT")))
        /\ Accept(d)
    BY <1>6 DEF LocalExtern
  <2>2. /\ DOMAIN st' = DOMAIN st \cup {n}
        /\ Known(n) => st' = st
        /\ ~Known(n) => st'[n] = Entry(d.type, StaticAttrs(TRUE, "NOINIT"))
        /\ \A m \in DOMAIN st : st'[m] = st[m]
    BY <2>1 DEF Added, Known
  <2>3. GoodDecl(d) /\ decls' = Append(decls, d)
    BY <1>1, <1>6, <2>1 DEF GoodDecl, Accept
  <2>4. /\ decls'[Len(decls) + 1] = d
        /\ \A k \in 1 .. Len(decls) : decls'[k] = decls[k]
        /\ DeclsOf(n) \subseteq 1 .. Len(decls)
        /\ DeclsOf(n)' = DeclsOf(n) \cup {Len(decls) + 1}
        /\ DeclsOf(n) # {} => First(n)' = First(n)
        /\ DeclsOf(n) = {} => First(n)' = d
        /\ Defined(n)' <=> Defined(n)
        /\ Tentative(n)' <=> Tentative(n)
    BY <1>2, <1>6, <2>3, Declared
  <2>5. ASSUME n \notin Objects
        PROVE  SumsUp(n)'
    <3>1. CASE Known(n)
      <4>1. /\ SumsUp(n) /\ st' = st /\ st[n].type = d.type /\ First(n)' = First(n)
        BY <1>3, <1>6, <2>2, <2>4, <2>5, <3>1
      <4>2. \A k \in DeclsOf(n)' : decls'[k].type = st'[n].type
        BY <2>4, <4>1 DEF SumsUp
      <4>3. /\ st'[n].attrs.t = "STATIC" /\ st'[n].type \in VarTypes
            /\ st'[n].attrs.init = IF Defined(n)' THEN "INITIAL"
                                   ELSE IF Tentative(n)' THEN "TENTATIVE" ELSE "NOINIT"
        BY <1>1, <2>4, <4>1 DEF SumsUp
      <4>4. st'[n].attrs.global = (First(n)'.sc # "static") /\ st'[n].ref = TRUE
        BY <4>1 DEF SumsUp
      <4> QED
        BY <2>2, <4>2, <4>3, <4>4 DEF SumsUp
    <3>2. CASE ~Known(n)
      <4>1. DeclsOf(n) = {} /\ ~Defined(n) /\ ~Tentative(n)
        BY <2>5, <3>2, KnownIs DEF Defined, Tentative
      <4>2. /\ st'[n].type = d.type /\ st'[n].attrs.t = "STATIC" /\ st'[n].ref = TRUE
            /\ st'[n].attrs.global = TRUE /\ st'[n].attrs.init = "NOINIT"
        BY <2>2, <3>2 DEF Entry, StaticAttrs
      <4>3. \A k \in DeclsOf(n)' : decls'[k].type = st'[n].type
        BY <2>4, <4>1, <4>2
      <4> QED
        BY <1>1, <2>2, <2>4, <4>1, <4>2, <4>3 DEF SumsUp
    <3> QED
      BY <3>1, <3>2
  <2>6. n \in DOMAIN st => EntryGrows(n)
    BY <2>2, EntrySame
  <2> QED
    BY <1>1, <1>6, <2>1, <2>2, <2>3, <2>5, <2>6, Accepted
<1> QED
  BY <1>4, <1>5, <1>6

\* typecheck_local_var_decl, of an object without linkage, and the
\* declaration of a for loop
LEMMA LocalStep ==
  ASSUME SymInv, status = "checking", NEW d \in Decl, d.kind = "var", d.scope # 0,
         \/ LocalStatic(d) /\ d.sc = "static" /\ d.name \in Fresh
         \/ LocalAuto(d) /\ d.sc = "none" /\ d.name \in Fresh
         \/ ForInit(d) /\ d.scope = 2 /\ (d.sc = "none" => d.name \in Fresh)
  PROVE  SymInv' /\ status' \in {"checking", "error", "abort"} /\ Grown
<1> DEFINE n == d.name
<1>1. CASE Reject(d) /\ Unacceptable(d)
  BY <1>1, Rejected
<1>2. ASSUME NEW e, st' = Added(st, n, e), Accept(d), n \in Fresh,
             d.sc \in {"none", "static"},
             e.attrs = IF d.sc = "static" THEN StaticAttrs(FALSE, "INITIAL") ELSE LocalAttrs
      PROVE  SymInv' /\ status' \in {"checking", "error", "abort"} /\ Grown
  <2>1. IsObject(d) /\ ObjectsOf(d) = {n} /\ n \in Locals
    BY <1>2 DEF IsObject, ObjectsOf, Fresh
  <2>2. /\ DOMAIN st' = DOMAIN st \cup {n} /\ st'[n] = e
        /\ \A m \in DOMAIN st : m # n => st'[m] = st[m]
    BY <1>2 DEF Added
  <2>3. GoodDecl(d)
    BY <2>1 DEF GoodDecl
  <2> QED
    BY <1>2, <2>1, <2>2, <2>3, Accepted
<1>3. CASE LocalStatic(d) /\ d.sc = "static" /\ n \in Fresh
  <2>1. CASE d.init = "expr"
    BY <1>1, <1>3, <2>1 DEF LocalStatic, Unacceptable
  <2>2. CASE d.init # "expr"
    <3>1. st' = Added(st, n, Entry(d.type, StaticAttrs(FALSE, "INITIAL"))) /\ Accept(d)
      BY <1>3, <2>2 DEF LocalStatic
    <3>2. Entry(d.type, StaticAttrs(FALSE, "INITIAL")).attrs = StaticAttrs(FALSE, "INITIAL")
      BY DEF Entry
    <3> QED
      BY <1>2, <1>3, <3>1, <3>2
  <2> QED
    BY <2>1, <2>2
<1>4. CASE LocalAuto(d) /\ d.sc = "none" /\ n \in Fresh
  <2>1. Entry(d.type, LocalAttrs).attrs = LocalAttrs
    BY DEF Entry
  <2> QED
    BY <1>2, <1>4, <2>1 DEF LocalAuto
<1>5. CASE ForInit(d) /\ d.scope = 2 /\ (d.sc = "none" => n \in Fresh)
  <2>1. CASE d.sc # "none"
    BY <1>1, <1>5, <2>1 DEF ForInit, Unacceptable
  <2>2. CASE d.sc = "none"
    BY <1>4, <1>5, <2>2 DEF ForInit
  <2> QED
    BY <2>1, <2>2
<1> QED
  BY <1>3, <1>4, <1>5

\* One step of the type checker.
LEMMA NextStep ==
  ASSUME SymInv, Next
  PROVE  SymInv' /\ status' \in {"checking", "error", "abort"} /\ Grown
<1> DEFINE Goal == SymInv' /\ status' \in {"checking", "error", "abort"} /\ Grown
<1>1. status = "checking"
  BY DEF Next
<1>2. Scope \in 0 .. 1
  BY DEF Scope
<1>3. ASSUME NEW n \in Names, NEW t \in FnTypes, NEW sc \in StorageClasses, NEW s \in 0 .. 1,
             FuncDecl(Func(n, t, sc, s, FALSE, {}))
      PROVE  Goal
  <2> DEFINE d == Func(n, t, sc, s, FALSE, {})
  <2>1. /\ d \in Decl /\ d.kind = "func" /\ (d.defines => d.scope = 0)
        /\ d.params \subseteq Fresh
    BY DEF Func, Decl
  <2>2. FuncDecl(d)
    BY <1>3
  <2> HIDE DEF d
  <2> QED
    BY <1>1, <2>1, <2>2, FuncStep
<1>4. ASSUME NEW n \in Names, NEW t \in FnTypes, NEW sc \in StorageClasses,
             NEW params, params \subseteq Fresh, FuncDecl(Func(n, t, sc, 0, TRUE, params))
      PROVE  Goal
  <2> DEFINE d == Func(n, t, sc, 0, TRUE, params)
  <2>1. d \in Decl /\ d.kind = "func" /\ d.scope = 0 /\ d.params \subseteq Fresh
    BY <1>4 DEF Func, Decl, Fresh
  <2>2. FuncDecl(d)
    BY <1>4
  <2> HIDE DEF d
  <2> QED
    BY <1>1, <2>1, <2>2, FuncStep
<1>5. CASE DeclareFunc
  <2>1. PICK n \in Names, t \in FnTypes, sc \in StorageClasses :
          \/ FuncDecl(Func(n, t, sc, Scope, FALSE, {}))
          \/ \E params : params \subseteq Fresh /\ FuncDecl(Func(n, t, sc, 0, TRUE, params))
    BY <1>5 DEF DeclareFunc, StorageClasses
  <2>2. CASE FuncDecl(Func(n, t, sc, Scope, FALSE, {}))
    <3>1. PICK s \in 0 .. 1 : s = Scope
      BY <1>2
    <3> QED
      BY <1>3, <2>2, <3>1
  <2> QED
    BY <1>4, <2>1, <2>2
<1>6. CASE DeclareVar
  <2>1. PICK t \in VarTypes, init \in Inits :
          \/ \E n \in Names, sc \in StorageClasses : FilescopeVar(Var(n, t, sc, 0, init))
          \/ \E n \in Names : LocalExtern(Var(n, t, "extern", 1, init))
          \/ \E n \in Fresh : \/ LocalStatic(Var(n, t, "static", 1, init))
                              \/ LocalAuto(Var(n, t, "none", 1, init))
    BY <1>6 DEF DeclareVar, StorageClasses
  <2>2. ASSUME NEW n \in Names, NEW sc \in StorageClasses, FilescopeVar(Var(n, t, sc, 0, init))
        PROVE  Goal
    <3> DEFINE d == Var(n, t, sc, 0, init)
    <3>1. d \in Decl /\ d.kind = "var" /\ d.scope = 0 /\ d.name \in Names
      BY DEF Var, Decl
    <3> HIDE DEF d
    <3> QED
      BY <1>1, <2>2, <3>1, FilescopeVarStep DEF d
  <2>3. ASSUME NEW n \in Names, LocalExtern(Var(n, t, "extern", 1, init))
        PROVE  Goal
    <3> DEFINE d == Var(n, t, "extern", 1, init)
    <3>1. d \in Decl /\ d.kind = "var" /\ d.scope = 1 /\ d.sc = "extern" /\ d.name \in Names
      BY DEF Var, Decl, StorageClasses
    <3> HIDE DEF d
    <3> QED
      BY <1>1, <2>3, <3>1, LocalExternStep DEF d
  <2>4. ASSUME NEW n \in Fresh, LocalStatic(Var(n, t, "static", 1, init))
        PROVE  Goal
    <3> DEFINE d == Var(n, t, "static", 1, init)
    <3>1. /\ d \in Decl /\ d.kind = "var" /\ d.scope = 1 /\ d.sc = "static"
          /\ d.name \in Fresh
      BY DEF Var, Decl, StorageClasses, Fresh
    <3> HIDE DEF d
    <3> QED
      BY <1>1, <2>4, <3>1, LocalStep DEF d
  <2>5. ASSUME NEW n \in Fresh, LocalAuto(Var(n, t, "none", 1, init))
        PROVE  Goal
    <3> DEFINE d == Var(n, t, "none", 1, init)
    <3>1. /\ d \in Decl /\ d.kind = "var" /\ d.scope = 1 /\ d.sc = "none"
          /\ d.name \in Fresh
      BY DEF Var, Decl, StorageClasses, Fresh
    <3> HIDE DEF d
    <3> QED
      BY <1>1, <2>5, <3>1, LocalStep DEF d
  <2> QED
    BY <2>1, <2>2, <2>3, <2>4, <2>5
<1>7. CASE DeclareInFor
  <2>1. PICK t \in VarTypes :
          \/ \E n \in Fresh, sc \in {"none", "static"} : ForInit(Var(n, t, sc, 2, "none"))
          \/ \E n \in Names : ForInit(Var(n, t, "extern", 2, "none"))
    BY <1>7 DEF DeclareInFor
  <2>2. ASSUME NEW n \in Names \cup Locals, NEW sc \in StorageClasses,
               sc = "none" => n \in Fresh, ForInit(Var(n, t, sc, 2, "none"))
        PROVE  Goal
    <3> DEFINE d == Var(n, t, sc, 2, "none")
    <3>1. /\ d \in Decl /\ d.kind = "var" /\ d.scope = 2
          /\ d.sc = "none" => d.name \in Fresh
      BY <2>2 DEF Var, Decl, Fresh, Inits
    <3> HIDE DEF d
    <3> QED
      BY <1>1, <2>2, <3>1, LocalStep DEF d
  <2> QED
    BY <2>1, <2>2 DEF StorageClasses, Fresh
<1>8. CASE LeaveBody
  <2>1. UNCHANGED <<status, st, decls, rejected>>
    BY <1>8 DEF LeaveBody
  <2>2. SymInv'
    <3>1. RefusedForReason' /\ AbortsOnObject'
      BY <1>1, <2>1 DEF RefusedForReason, AbortsOnObject
    <3> QED
      BY <2>1, <3>1, Kept DEF SymInv
  <2> QED
    BY <1>1, <2>1, <2>2, GrownSame
<1> QED
  BY <1>5, <1>6, <1>7, <1>8 DEF Next
-----------------------------------------------------------------------------

\* Temporaries have names of their own, none of file scope.
TempsInv ==
  /\ tmpCounter \in 0 .. MaxTmps
  /\ temps \in Seq({TmpName(m) : m \in 1 .. tmpCounter} \ varMap)
  /\ \A j, k \in 1 .. Len(temps) : temps[j] = temps[k] => j = k

\* As long as declarations are checked, and afterwards: then the declarations
\* are fixed, and with them the entries of names that neither an object nor a
\* temporary has.
TacInv ==
  \/ /\ phase = "typecheck" /\ status \in {"checking", "error", "abort"}
     /\ SymInv
     /\ next = 1 /\ varMap = {} /\ tmpCounter = 0 /\ temps = << >>
     /\ visited = {} /\ out = << >>
  \/ /\ phase \in {"functions", "statics", "done", "crash"} /\ status \in {"checked", "abort"}
     /\ AbortsOnlyOnClash
     /\ GoodDecls /\ OneDefinition
     /\ next \in 1 .. Len(decls) + 1
     /\ varMap = FileNames
     /\ \A n \in Linked \ (Objects \cup Temps) : SumsUp(n)
     /\ visited \subseteq DOMAIN st
     /\ TempsInv

\* The empty table and the empty program are in order.
LEMMA InitInv == TacInit => TacInv
<1> SUFFICES ASSUME TacInit PROVE TacInv
  OBVIOUS
<1>1. decls = << >> /\ DOMAIN st = {} /\ status = "checking"
  BY DEF TacInit, Init, Empty
<1>2. (\A n : DeclsOf(n) = {}) /\ Objects = {} /\ Linked = {}
  BY <1>1 DEF DeclsOf, Objects, Linked
<1>3. SymInv
  <2>1. decls \in Seq(Decl) /\ Len(decls) = 0
    BY <1>1
  <2>2. GoodDecls
    BY <2>1 DEF GoodDecls
  <2>3. TableNames /\ AllSumUp /\ ObjectsInv /\ OneDefinition
    BY <1>1, <1>2 DEF TableNames, AllSumUp, ObjectsInv, OneDefinition
  <2>4. RefusedForReason /\ AbortsOnObject
    BY <1>1 DEF RefusedForReason, AbortsOnObject
  <2> QED
    BY <2>2, <2>3, <2>4 DEF SymInv
<1> QED
  BY <1>1, <1>3 DEF TacInit, TacInv

\* What is said of the declarations and the entries only depends on them.
LEMMA SameTable ==
  ASSUME UNCHANGED <<decls, st>>
  PROVE  /\ GoodDecls' = GoodDecls /\ OneDefinition' = OneDefinition
         /\ FileNames' = FileNames /\ Bodies' = Bodies
         /\ Objects' = Objects /\ Linked' = Linked
         /\ \A n : SumsUp(n)' = SumsUp(n)
<1>1. /\ \A n : /\ DeclsOf(n)' = DeclsOf(n) /\ First(n)' = First(n)
                /\ Defined(n)' = Defined(n) /\ Tentative(n)' = Tentative(n)
      /\ Objects' = Objects /\ Linked' = Linked
  BY SameDecls
<1>2. FileNames' = FileNames /\ Bodies' = Bodies
  BY DEF FileNames, FileScope, Bodies
<1>3. OneDefinition' = OneDefinition /\ GoodDecls' = GoodDecls
  BY <1>1 DEF OneDefinition, GoodDecls
<1>4. \A n : SumsUp(n)' = SumsUp(n)
  BY <1>1 DEF SumsUp
<1> QED
  BY <1>1, <1>2, <1>3, <1>4

\* Names of file scope have linkage, and no temporary has them.
LEMMA FileNamesAre ==
  /\ FileNames \subseteq Linked
  /\ TempsInv => Temps \cap varMap = {}
<1>1. FileNames \subseteq Linked
  BY DEF FileNames, FileScope, Linked, IsObject
<1>2. ASSUME TempsInv
      PROVE  Temps \cap varMap = {}
  <2> DEFINE S == {TmpName(m) : m \in 1 .. tmpCounter} \ varMap
  <2>1. temps \in Seq(S)
    BY <1>2 DEF TempsInv
  <2>2. S \cap varMap = {}
    OBVIOUS
  <2> HIDE DEF S
  <2>3. \A k \in DOMAIN temps : temps[k] \in S
    BY <2>1, Elements
  <2> QED
    BY <2>2, <2>3 DEF Temps
<1> QED
  BY <1>1, <1>2

\* The number new_tmp ends with is the first one whose name is free.
LEMMA NextTmpIs ==
  ASSUME tmpCounter \in Nat, \E n \in tmpCounter + 1 .. MaxTmps : TmpName(n) \notin varMap
  PROVE  NextTmp \in tmpCounter + 1 .. MaxTmps /\ TmpName(NextTmp) \notin varMap
<1> DEFINE T == {n \in tmpCounter + 1 .. MaxTmps : TmpName(n) \notin varMap}
<1>1. T \subseteq Nat /\ T # {}
  BY TmpAssumption
<1>2. PICK n \in T : \A m \in T : n <= m
  BY <1>1, Least
<1>3. \A m \in tmpCounter + 1 .. n - 1 : TmpName(m) \in varMap
  BY <1>2, TmpAssumption
<1> QED
  BY <1>2, <1>3 DEF NextTmp

\* A function whose name neither an object nor a temporary has is found.
LEMMA FuncIs ==
  ASSUME GoodDecls, \A n \in Linked \ (Objects \cup Temps) : SumsUp(n),
         NEW k \in DOMAIN decls, decls[k].kind = "func"
  PROVE  /\ decls[k].name \in Linked
         /\ \/ decls[k].name \in Objects \cup Temps
            \/ st[decls[k].name].attrs.t = "FUNC" /\ SumsUp(decls[k].name)
<1>1. k \in 1 .. Len(decls) /\ decls[k] \in Decl
  BY Elements DEF GoodDecls
<1>2. decls[k].type \in FnTypes /\ ~IsObject(decls[k])
  BY <1>1 DEF Decl, IsObject
<1>3. decls[k].name \in Linked /\ k \in DeclsOf(decls[k].name)
  BY <1>2 DEF Linked, DeclsOf
<1>4. ASSUME decls[k].name \notin Objects \cup Temps
      PROVE  st[decls[k].name].attrs.t = "FUNC" /\ SumsUp(decls[k].name)
  <2>1. SumsUp(decls[k].name)
    BY <1>3, <1>4
  <2>2. st[decls[k].name].type \in FnTypes
    BY <1>2, <1>3, <2>1 DEF SumsUp
  <2> QED
    BY <2>1, <2>2, SymTableAssumption DEF SumsUp
<1> QED
  BY <1>3, <1>4

\* A body is that of a function of the file.
LEMMA BodyIs ==
  ASSUME GoodDecls, TempsInv, varMap = FileNames, NEW k \in Bodies
  PROVE  /\ decls[k].name \in FileNames /\ decls[k].name \notin Temps
         /\ decls[k].kind = "func" /\ decls[k].defines
         /\ k \in DOMAIN decls /\ k \in 1 .. Len(decls) /\ decls[k].name \in Names
<1>1. k \in 1 .. Len(decls) /\ decls[k] \in Decl /\ GoodDecl(decls[k]) /\ k \in DOMAIN decls
  BY Elements DEF GoodDecls, Bodies
<1>2. decls[k].scope = 0 /\ decls[k].kind = "func" /\ decls[k].defines
  BY <1>1 DEF Bodies, GoodDecl
<1>3. decls[k].name \in FileNames
  BY <1>1, <1>2 DEF FileNames, FileScope
<1>4. decls[k].name \in Names
  BY <1>1, <1>2 DEF Decl
<1> QED
  BY <1>1, <1>2, <1>3, <1>4, FileNamesAre

\* A temporary is entered under a name that no name of the file has.
LEMMA TakeTmpStep ==
  ASSUME TacInv, TakeTmp
  PROVE  /\ phase' = "functions" /\ status = "checked"
         /\ GoodDecls' /\ OneDefinition'
         /\ next' \in 1 .. Len(decls') + 1
         /\ varMap' = FileNames'
         /\ \A n \in Linked' \ (Objects' \cup Temps') : SumsUp(n)'
         /\ visited' \subseteq DOMAIN st'
         /\ TempsInv'
         /\ Temps' = Temps \cup {TmpName(tmpCounter')}
<1>1. /\ phase = "functions" /\ status = "checked" /\ GoodDecls /\ OneDefinition
      /\ next \in 1 .. Len(decls) + 1 /\ varMap = FileNames
      /\ \A n \in Linked \ (Objects \cup Temps) : SumsUp(n)
      /\ visited \subseteq DOMAIN st /\ TempsInv
  BY DEF TacInv, TakeTmp
<1>2. /\ UNCHANGED <<currFunc, decls, phase, next, varMap, visited, out>>
      /\ tmpCounter' = NextTmp /\ temps' = Append(temps, TmpName(tmpCounter'))
      /\ \E n \in tmpCounter + 1 .. MaxTmps : TmpName(n) \notin varMap
  BY DEF TakeTmp
<1>3. PICK e : st' = Added(st, TmpName(tmpCounter'), e)
  BY DEF TakeTmp
<1> DEFINE c == tmpCounter'
<1>4. c \in tmpCounter + 1 .. MaxTmps /\ TmpName(c) \notin varMap /\ tmpCounter \in Nat
  BY <1>1, <1>2, NextTmpIs, TmpAssumption DEF TempsInv
<1>5. \A n \in DOMAIN st : n # TmpName(c) => n \in DOMAIN st' /\ st'[n] = st[n]
  BY <1>3 DEF Added
<1>6. DOMAIN st \subseteq DOMAIN st'
  BY <1>3 DEF Added
<1>7. /\ \A n : /\ DeclsOf(n)' = DeclsOf(n) /\ First(n)' = First(n)
                /\ Defined(n)' = Defined(n) /\ Tentative(n)' = Tentative(n)
      /\ Objects' = Objects /\ Linked' = Linked
  BY <1>2, SameDecls
<1>8. FileNames' = FileNames /\ GoodDecls' /\ OneDefinition'
  BY <1>1, <1>2, <1>7 DEF FileNames, FileScope, GoodDecls, OneDefinition
<1>9. TempsInv'
  <2> DEFINE S == {TmpName(m) : m \in 1 .. tmpCounter} \ varMap
             S1 == {TmpName(m) : m \in 1 .. c} \ varMap
  <2>1. S \subseteq S1 /\ TmpName(c) \in S1 /\ TmpName(c) \notin S
    BY <1>4, TmpAssumption
  <2>2. temps \in Seq(S1) /\ \A k \in 1 .. Len(temps) : temps[k] \in S
    BY <1>1, <2>1 DEF TempsInv
  <2> HIDE DEF S, S1
  <2>3. /\ temps' \in Seq(S1) /\ Len(temps') = Len(temps) + 1 /\ Len(temps) \in Nat
        /\ temps'[Len(temps) + 1] = TmpName(c)
        /\ \A k \in 1 .. Len(temps) : temps'[k] = temps[k]
    BY <1>2, <2>1, <2>2, AppendedTo
  <2>4. ASSUME NEW j \in 1 .. Len(temps'), NEW k \in 1 .. Len(temps'), temps'[j] = temps'[k]
        PROVE  j = k
    <3>1. /\ j \in 1 .. Len(temps) \/ j = Len(temps) + 1
          /\ k \in 1 .. Len(temps) \/ k = Len(temps) + 1
      BY <2>3
    <3>2. CASE j \in 1 .. Len(temps) /\ k \in 1 .. Len(temps)
      BY <1>1, <2>3, <2>4, <3>2 DEF TempsInv
    <3>3. CASE j \in 1 .. Len(temps) /\ k = Len(temps) + 1
      BY <2>1, <2>2, <2>3, <2>4, <3>3
    <3>4. CASE j = Len(temps) + 1 /\ k \in 1 .. Len(temps)
      BY <2>1, <2>2, <2>3, <2>4, <3>4
    <3> QED
      BY <3>1, <3>2, <3>3, <3>4
  <2>5. S1 = ({TmpName(m) : m \in 1 .. tmpCounter} \ varMap)'
    BY <1>2 DEF S1
  <2> QED
    BY <1>4, <2>3, <2>4, <2>5 DEF TempsInv
<1>10. Temps' = Temps \cup {TmpName(c)}
  <2> DEFINE S == {TmpName(m) : m \in 1 .. tmpCounter} \ varMap
  <2>1. temps \in Seq(S \cup {TmpName(c)}) /\ temps \in Seq(S)
    BY <1>1 DEF TempsInv
  <2> HIDE DEF S
  <2>2. /\ Len(temps) \in Nat /\ DOMAIN temps = 1 .. Len(temps)
        /\ DOMAIN temps' = 1 .. Len(temps) + 1
        /\ temps'[Len(temps) + 1] = TmpName(c)
        /\ \A k \in 1 .. Len(temps) : temps'[k] = temps[k]
    BY <1>2, <2>1, AppendedTo, Elements
  <2>3. Temps' = {temps'[k] : k \in DOMAIN temps'}
    BY DEF Temps
  <2>4. \A k : k \in 1 .. Len(temps) + 1 <=> k \in 1 .. Len(temps) \/ k = Len(temps) + 1
    BY <2>2
  <2> QED
    BY <2>2, <2>3, <2>4 DEF Temps
<1>11. ASSUME NEW n \in Linked' \ (Objects' \cup Temps')
       PROVE  SumsUp(n)'
  <2>1. n \in Linked \ (Objects \cup Temps) /\ n # TmpName(c)
    BY <1>7, <1>10
  <2>2. SumsUp(n) /\ n \in DOMAIN st' /\ st'[n] = st[n]
    BY <1>1, <1>5, <2>1 DEF SumsUp
  <2> QED
    BY <1>2, <1>7, <2>2 DEF SumsUp
<1> QED
  BY <1>1, <1>2, <1>6, <1>8, <1>9, <1>10, <1>11

\* A call finds the entry of a function, if no object and no temporary has
\* its name.
LEMMA NewTmpStep ==
  ASSUME TacInv, NewTmp \/ Call
  PROVE  TacInv'
<1>1. TakeTmp
  BY DEF NewTmp, Call
<1>2. AbortsOnlyOnClash' /\ status' \in {"checked", "abort"}
  <2>1. CASE UNCHANGED <<status, rejected>>
    BY <1>1, <2>1, TakeTmpStep DEF AbortsOnlyOnClash
  <2>2. ASSUME NEW k \in DOMAIN decls, Callable(k), st'[decls[k].name].attrs.t # "FUNC",
               status' = "abort" /\ rejected' = decls[k]
        PROVE  AbortsOnlyOnClash' /\ status' \in {"checked", "abort"}
    <3>1. decls' = decls
      BY <1>1 DEF TakeTmp
    <3>2. k \in DOMAIN decls' /\ decls'[k].kind = "func"
      BY <2>2, <3>1 DEF Callable
    <3>3. PICK n : n = decls[k].name
      OBVIOUS
    <3>4. n \in Objects' \cup Temps'
      <4>1. n \in Linked' /\ k \in DeclsOf(n)'
        <5>1. n \in Linked /\ k \in DeclsOf(n)
          BY <2>2, <3>3 DEF Callable, Linked, IsObject, DeclsOf
        <5> QED
          BY <3>1, <5>1, SameDecls
      <4>2. decls'[k].type \in FnTypes
        BY <1>1, <3>2, TakeTmpStep, Elements DEF GoodDecls, Decl
      <4>3. ASSUME SumsUp(n)'
            PROVE  FALSE
        <5>1. st'[n].type \in FnTypes
          BY <4>1, <4>2, <4>3 DEF SumsUp
        <5> QED
          BY <2>2, <3>3, <4>3, <5>1, SymTableAssumption DEF SumsUp
      <4> QED
        BY <1>1, <4>1, <4>3, TakeTmpStep
    <3> QED
      BY <2>2, <3>1, <3>3, <3>4 DEF AbortsOnlyOnClash
  <2> QED
    BY <2>1, <2>2 DEF NewTmp, Call
<1> QED
  BY <1>1, <1>2, TakeTmpStep DEF TacInv

\* Every step keeps table and temporaries in order.
LEMMA TacStep ==
  ASSUME TacInv, [TacNext]_allVars
  PROVE  TacInv'
<1>1. CASE Typecheck
  BY <1>1, NextStep DEF Typecheck, tacVars, TacInv
<1>2. CASE StartTac
  <2>1. SymInv /\ next = 1 /\ tmpCounter = 0 /\ temps = << >> /\ visited = {}
    BY <1>2 DEF StartTac, TacInv
  <2>2. /\ phase' = "functions" /\ status' = "checked" /\ varMap' = FileNames
        /\ UNCHANGED <<st, currFunc, decls, rejected, next, tmpCounter, temps, visited, out>>
    BY <1>2 DEF StartTac
  <2>3. /\ GoodDecls' = GoodDecls /\ OneDefinition' = OneDefinition
        /\ FileNames' = FileNames /\ Objects' = Objects /\ Linked' = Linked
        /\ \A n : SumsUp(n)' = SumsUp(n)
    BY <2>2, SameTable
  <2>4. \A n \in Linked \ Objects : SumsUp(n)
    BY <2>1 DEF SymInv, AllSumUp
  <2>5. next' \in 1 .. Len(decls') + 1
    BY <2>1, <2>2, Elements DEF SymInv, GoodDecls
  <2>6. TempsInv'
    BY <2>1, <2>2, TmpAssumption DEF TempsInv
  <2> QED
    BY <2>1, <2>2, <2>3, <2>4, <2>5, <2>6 DEF TacInv, SymInv, AbortsOnlyOnClash
<1>3. CASE NewTmp \/ Call
  BY <1>3, NewTmpStep
<1>4. ASSUME /\ GoodDecls /\ OneDefinition
             /\ varMap = FileNames
             /\ \A n \in Linked \ (Objects \cup Temps) : SumsUp(n)
             /\ TempsInv,
             UNCHANGED <<st, decls, varMap, tmpCounter, temps>>,
             status' \in {"checked", "abort"}, AbortsOnlyOnClash',
             phase' \in {"functions", "statics", "done", "crash"},
             next' \in 1 .. Len(decls) + 1, visited' \subseteq DOMAIN st
      PROVE  TacInv'
  <2>1. TempsInv' /\ Temps' = Temps
    BY <1>4 DEF TempsInv, Temps
  <2> QED
    BY <1>4, <2>1, SameTable DEF TacInv
<1>10. ASSUME UNCHANGED <<vars, temps>>, AbortsOnlyOnClash
       PROVE  AbortsOnlyOnClash'
  <2>1. UNCHANGED <<status, rejected, decls, temps>>
    BY <1>10 DEF vars
  <2> QED
    BY <1>10, <2>1, SameDecls DEF AbortsOnlyOnClash, Temps
<1>5. CASE EndDecl
  <2>1. /\ phase = "functions" /\ status = "checked" /\ GoodDecls /\ OneDefinition
        /\ varMap = FileNames
        /\ \A n \in Linked \ (Objects \cup Temps) : SumsUp(n)
        /\ TempsInv /\ visited \subseteq DOMAIN st /\ AbortsOnlyOnClash
        /\ next \in DOMAIN decls /\ DOMAIN decls = 1 .. Len(decls) /\ Len(decls) \in Nat
    BY <1>5, Elements DEF EndDecl, TacInv, GoodDecls
  <2>2. UNCHANGED <<phase, varMap, tmpCounter, temps, visited>>
    BY <1>5 DEF EndDecl
  <2>3. CASE next' = next + 1 /\ UNCHANGED vars
    <3>1. UNCHANGED <<st, decls, status>>
      BY <2>3 DEF vars
    <3> QED
      BY <1>4, <1>10, <2>1, <2>2, <2>3, <3>1
  <2>4. CASE /\ next \in Bodies /\ st[decls[next].name].attrs.t # "FUNC"
             /\ Abort(decls[next]) /\ UNCHANGED next
    <3>1. UNCHANGED <<st, decls>> /\ status' = "abort" /\ rejected' = decls[next]
      BY <2>4 DEF Abort
    <3>2. decls[next].name \in Objects
      BY <2>1, <2>4, BodyIs, FuncIs
    <3>3. Objects' = Objects
      BY <3>1, SameDecls
    <3>4. AbortsOnlyOnClash'
      BY <3>1, <3>2, <3>3 DEF AbortsOnlyOnClash
    <3> QED
      BY <1>4, <2>1, <2>2, <2>4, <3>1, <3>4
  <2> QED
    BY <1>5, <2>3, <2>4 DEF EndDecl
<1>6. CASE StartStatics
  BY <1>4, <1>6, <1>10 DEF StartStatics, TacInv, vars
<1>7. ASSUME NEW n \in DOMAIN st, VisitEntry(n) PROVE TacInv'
  BY <1>4, <1>7, <1>10 DEF VisitEntry, TacInv, vars
<1>8. CASE Finish
  BY <1>4, <1>8, <1>10 DEF Finish, TacInv, vars
<1>9. CASE UNCHANGED allVars
  <2>1. /\ UNCHANGED <<status, st, currFunc, decls, rejected>>
        /\ UNCHANGED <<phase, next, varMap, tmpCounter, temps, visited, out>>
    BY <1>9 DEF allVars, vars, tacVars
  <2>2. CASE phase = "typecheck"
    <3>1. SymInv
      BY <2>2 DEF TacInv
    <3>2. RefusedForReason' /\ AbortsOnObject'
      BY <2>1, <3>1, Kept DEF SymInv, RefusedForReason, AbortsOnObject
    <3>3. SymInv'
      BY <2>1, <3>1, <3>2, Kept DEF SymInv
    <3> QED
      BY <2>1, <2>2, <3>3 DEF TacInv
  <2>3. CASE phase # "typecheck"
    BY <1>4, <1>10, <2>1, <2>3 DEF TacInv, vars
  <2> QED
    BY <2>2, <2>3
<1> QED
  BY <1>1, <1>2, <1>3, <1>5, <1>6, <1>7, <1>8, <1>9 DEF TacNext

\* They are in order in every reachable state.
LEMMA TacAlways == TacSpec => []TacInv
<1>1. TacInv /\ [TacNext]_allVars => TacInv'
  BY TacStep
<1> QED
  BY InitInv, <1>1, PTL DEF TacSpec

-----------------------------------------------------------------------------

\* Whatever is declared under a name that no object has, in whatever order and
\* at whatever scopes, its entry sums it up (typecheck_func_decl,
\* typecheck_filescope_var_decl, typecheck_local_var_decl).
THEOREM EntriesSumUp == TacSpec => []EntrySumsUp
<1>1. TacInv => EntrySumsUp
  <2> SUFFICES ASSUME TacInv, status \in {"checking", "error"}, NEW n \in DOMAIN st \ Objects
               PROVE  /\ \A k \in DeclsOf(n) : decls[k].type = st[n].type
                      /\ st[n].attrs.global = (First(n).sc # "static")
                      /\ st[n].attrs.t = "FUNC" => st[n].attrs.defined = Defined(n)
                      /\ st[n].attrs.t = "STATIC" =>
                           st[n].attrs.init = IF Defined(n) THEN "INITIAL"
                                              ELSE IF Tentative(n) THEN "TENTATIVE" ELSE "NOINIT"
    BY DEF EntrySumsUp
  <2>1. SumsUp(n)
    BY KnownIs DEF TacInv, Known
  <2> QED
    BY <2>1 DEF SumsUp
<1> QED
  BY <1>1, TacAlways, PTL

\* No name is defined twice in a program that was accepted: the exits of
\* typecheck.c on a second body and a second initialiser see every definition.
THEOREM DefinedOnce == TacSpec => []OneDefinition
<1>1. TacInv => OneDefinition
  BY DEF TacInv, SymInv
<1> QED
  BY <1>1, TacAlways, PTL

\* A declaration is only refused for a reason the language knows, although
\* typecheck.c looks at the merged entry and not at the declarations.
THEOREM OnlyRefusedForReason == TacSpec => []RefusedForReason
<1>1. TacInv => RefusedForReason
  BY DEF TacInv, SymInv, RefusedForReason
<1> QED
  BY <1>1, TacAlways, PTL

\* The assertions on the kind of an entry, of typecheck.c, of tac.c at a body
\* and of tac.c at a call, hold and every message has a declaration to name,
\* except where the name has become that of an object or of a temporary.
THEOREM NoOtherAbort == TacSpec => []AbortsOnlyOnClash
<1>1. ASSUME TacInv
      PROVE  AbortsOnlyOnClash
  <2>1. CASE phase = "typecheck"
    BY <1>1, <2>1 DEF TacInv, SymInv, AbortsOnObject, AbortsOnlyOnClash
  <2>2. CASE phase # "typecheck"
    BY <1>1, <2>2 DEF TacInv
  <2> QED
    BY <2>1, <2>2
<1> QED
  BY <1>1, TacAlways, PTL

\* While declarations are checked an entry never loses what it knows.
THEOREM OnlyGrow == TacSpec => EntriesOnlyGrow
<1>1. TacInv /\ [TacNext]_allVars => [status # "checked" => Grown]_vars
  <2> SUFFICES ASSUME TacInv, [TacNext]_allVars, status # "checked", ~UNCHANGED vars
               PROVE  Grown
    OBVIOUS
  <2>1. phase = "typecheck" => SymInv
    BY DEF TacInv
  <2>2. CASE Typecheck
    BY <2>1, <2>2, NextStep DEF Typecheck
  <2>3. CASE StartTac
    BY <2>3, GrownSame DEF StartTac
  <2>4. ~NewTmp /\ ~Call /\ ~EndDecl
    BY DEF NewTmp, Call, TakeTmp, EndDecl
  <2>5. ~StartStatics /\ ~Finish /\ \A n : ~VisitEntry(n)
    BY DEF StartStatics, Finish, VisitEntry
  <2>6. ~UNCHANGED allVars
    BY DEF allVars
  <2> QED
    BY <2>2, <2>3, <2>4, <2>5, <2>6 DEF TacNext
<1>2. [status # "checked" => Grown]_vars =>
        [status # "checked" => \A n \in DOMAIN st :
           /\ n \in DOMAIN st'
           /\ n \notin Clashing' =>
                /\ st'[n].type = st[n].type
                /\ st'[n].attrs.t = st[n].attrs.t
                /\ n \notin Objects => st'[n].attrs.global = st[n].attrs.global
                /\ Rank(st'[n].attrs) >= Rank(st[n].attrs)]_vars
  BY DEF Grown, EntryGrows
<1> QED
  BY <1>1, <1>2, TacAlways, PTL DEF TacSpec, EntriesOnlyGrow

\* The walk over the declarations stays inside them and var_map is complete
\* before new_tmp first looks at it.
THEOREM TacTypeCorrect == TacSpec => []TacTypeOK
<1>1. TacInv => TacTypeOK
  <2> SUFFICES ASSUME TacInv PROVE TacTypeOK
    OBVIOUS
  <2>1. FileDecls = FileNames
    BY DEF FileDecls, FileNames, FileScope
  <2>2. CASE phase = "typecheck"
    <3>1. Len(decls) \in Nat /\ MaxTmps \in Nat
      BY <2>2, TmpAssumption, Elements DEF TacInv, SymInv, GoodDecls
    <3> QED
      BY <2>2, <3>1 DEF TacInv, TacTypeOK
  <2>3. CASE phase # "typecheck"
    <3>1. TempsInv /\ varMap = FileNames
      BY <2>3 DEF TacInv
    <3>2. \A k \in DOMAIN temps : temps[k] \in {TmpName(n) : n \in 1 .. tmpCounter}
      BY <3>1, Elements DEF TempsInv
    <3> QED
      BY <2>1, <2>3, <3>1, <3>2 DEF TacInv, TacTypeOK, TempsInv
  <2> QED
    BY <2>2, <2>3
<1> QED
  BY <1>1, TacAlways, PTL

\* A temporary takes neither the name of another one nor one of file scope:
\* new_tmp goes on counting until the name is free.
THEOREM TempsSpare == TacSpec => []TempsSpareFileScope
<1>1. TacInv => TempsSpareFileScope
  <2> SUFFICES ASSUME TacInv PROVE TempsSpareFileScope
    OBVIOUS
  <2>1. FileDecls = FileNames
    BY DEF FileDecls, FileNames, FileScope
  <2>2. CASE phase = "typecheck"
    BY <2>2 DEF TacInv, TempsSpareFileScope
  <2>3. CASE phase # "typecheck"
    <3>1. TempsInv /\ varMap = FileNames
      BY <2>3 DEF TacInv
    <3> DEFINE S == {TmpName(n) : n \in 1 .. tmpCounter} \ varMap
    <3>2. temps \in Seq(S)
      BY <3>1 DEF TempsInv
    <3>3. DOMAIN temps = 1 .. Len(temps) /\ \A k \in 1 .. Len(temps) : temps[k] \in S
      BY <3>2, Elements
    <3> QED
      BY <2>1, <3>1, <3>3 DEF TempsSpareFileScope, TempsInv
  <2> QED
    BY <2>2, <2>3
<1> QED
  BY <1>1, TacAlways, PTL

-----------------------------------------------------------------------------

\* the declarations of a name with linkage have one type
TypesAgree ==
  \A n \in Linked \ Objects : \A j, k \in DeclsOf(n) : decls[j].type = decls[k].type

\* the objects of static duration that have storage in the program
Object(n) ==
  /\ DeclsOf(n) # {}
  /\ \/ n \in Linked /\ First(n).kind = "var" /\ (Defined(n) \/ Tentative(n))
     \/ n \in Objects /\ First(n).sc = "static"

\* The entries the walk emits are those of the objects, except that temporaries
\* may have taken some of them.
ObjectEntries ==
  /\ \A n : Object(n) /\ n \notin Clashing \cup Temps => n \in DOMAIN st /\ Emits(n)
  /\ \A n \in DOMAIN st \ Clashing :
       Emits(n) => Object(n) /\ st[n].attrs.global = (First(n).sc # "static")

\* The list holds the functions the walk over the declarations has passed and
\* the objects the walk over the table has passed.
ItemsInv ==
  /\ \E S : out \in Seq(S)
  /\ \A k \in 1 .. Len(out) :
       /\ out[k].isFunc \in BOOLEAN
       /\ out[k].isFunc = TRUE => \E j \in Bodies : j < next /\ decls[j].name = out[k].name
       /\ out[k].isFunc = FALSE => out[k].name \in visited
       /\ out[k].name \notin Clashing =>
            /\ out[k].global = (First(out[k].name).sc # "static")
            /\ out[k].isFunc = FALSE => Object(out[k].name)
  /\ \A j \in Bodies : j < next =>
       \E k \in 1 .. Len(out) : out[k].isFunc = TRUE /\ out[k].name = decls[j].name
  /\ phase # "crash" => \A n \in visited : Object(n) /\ n \notin Clashing \cup Temps =>
       \E k \in 1 .. Len(out) : out[k].isFunc = FALSE /\ out[k].name = n
  /\ \A j, k \in 1 .. Len(out) :
       out[j].name = out[k].name /\ out[j].name \notin Clashing => j = k

Progress ==
  /\ phase = "functions" => visited = {}
  /\ phase \in {"statics", "done"} => next = Len(decls) + 1
  /\ phase = "done" => visited = DOMAIN st

OutInv ==
  phase # "typecheck" => TypesAgree /\ ObjectEntries /\ ItemsInv /\ Progress

-----------------------------------------------------------------------------

\* The first declaration of a name is one of it, of the kind its type tells.
LEMMA FirstOf ==
  ASSUME GoodDecls, NEW n, DeclsOf(n) # {}
  PROVE  \E k \in DeclsOf(n) : /\ First(n) = decls[k] /\ decls[k] \in Decl
                               /\ k \in 1 .. Len(decls) /\ GoodDecl(decls[k])
<1>1. DeclsOf(n) = DeclsIn(decls, n) /\ First(n) = FirstIn(decls, n)
  BY DEF DeclsOf, DeclsIn, First, FirstIn
<1>2. PICK k \in DeclsOf(n) : First(n) = decls[k]
  BY <1>1, FirstIs DEF GoodDecls
<1>3. k \in 1 .. Len(decls) /\ decls[k] \in Decl
  BY <1>1, FirstStays, Elements DEF GoodDecls, DeclsOf
<1> QED
  BY <1>2, <1>3 DEF GoodDecls

\* The type of a declaration tells a function from a variable.
LEMMA KindOf ==
  ASSUME NEW d \in Decl
  PROVE  /\ d.kind = "func" <=> d.type \in FnTypes
         /\ d.kind = "var" <=> d.type \in VarTypes
         /\ d.kind = "func" \/ d.kind = "var"
  BY SymTableAssumption DEF Decl

\* When the type checker is through, the table tells which objects there are.
LEMMA CheckedEntries ==
  ASSUME SymInv
  PROVE  TypesAgree /\ ObjectEntries
<1>1. GoodDecls /\ AllSumUp /\ ObjectsInv /\ DOMAIN st = Linked \cup Objects
  BY DEF SymInv, TableNames
<1>2. TypesAgree
  BY <1>1 DEF TypesAgree, AllSumUp, SumsUp
<1>3. ASSUME NEW n \in Linked \ Objects
      PROVE  /\ Emits(n) <=> Object(n)
             /\ Emits(n) => st[n].attrs.global = (First(n).sc # "static")
  <2>1. SumsUp(n) /\ DeclsOf(n) # {}
    BY <1>1, NamesOf DEF AllSumUp
  <2>2. PICK k \in DeclsOf(n) : First(n) = decls[k] /\ decls[k] \in Decl
    BY <1>1, <2>1, FirstOf
  <2>3. decls[k].type = st[n].type
    BY <2>1 DEF SumsUp
  <2>4. CASE st[n].attrs.t = "FUNC" /\ st[n].type \in FnTypes
    <3>1. First(n).kind # "var"
      BY <2>2, <2>3, <2>4, KindOf, SymTableAssumption
    <3>2. ~Emits(n) /\ ~Object(n)
      BY <2>4, <3>1 DEF Emits, Object
    <3> QED
      BY <3>2
  <2>5. CASE /\ st[n].attrs.t = "STATIC" /\ st[n].type \in VarTypes
             /\ st[n].attrs.init = IF Defined(n) THEN "INITIAL"
                                   ELSE IF Tentative(n) THEN "TENTATIVE" ELSE "NOINIT"
    <3>1. First(n).kind = "var"
      BY <2>2, <2>3, <2>5, KindOf
    <3>2. Emits(n) <=> Defined(n) \/ Tentative(n)
      BY <2>5 DEF Emits
    <3>3. Object(n) <=> Defined(n) \/ Tentative(n)
      BY <2>1, <3>1 DEF Object
    <3> QED
      BY <2>1, <3>2, <3>3 DEF SumsUp
  <2> QED
    BY <2>1, <2>4, <2>5 DEF SumsUp
<1>4. ASSUME NEW n \in Objects \ Linked
      PROVE  /\ Emits(n) <=> Object(n)
             /\ Emits(n) => st[n].attrs.global = (First(n).sc # "static")
  <2>2. CASE DeclsOf(n) = {}
    <3>1. ~Object(n)
      BY <2>2 DEF Object
    <3>2. st[n].attrs = LocalAttrs
      BY <1>1, <2>2 DEF ObjectsInv
    <3>3. ~Emits(n)
      BY <3>2 DEF LocalAttrs, Emits
    <3> QED
      BY <3>1, <3>3
  <2>3. CASE DeclsOf(n) # {}
    <3>1. PICK k \in DeclsOf(n) : First(n) = decls[k]
      BY <1>1, <2>3, FirstOf
    <3>2. st[n].attrs = IF decls[k].sc = "static" THEN StaticAttrs(FALSE, "INITIAL")
                        ELSE LocalAttrs
      BY <1>1, <2>3 DEF ObjectsInv
    <3>3. Object(n) <=> decls[k].sc = "static"
      BY <2>3, <3>1 DEF Object
    <3>4. CASE decls[k].sc = "static"
      <4>1. st[n].attrs = StaticAttrs(FALSE, "INITIAL")
        BY <3>2, <3>4
      <4>2. /\ st[n].attrs.t = "STATIC" /\ st[n].attrs.init = "INITIAL"
            /\ st[n].attrs.global = FALSE
        BY <4>1 DEF StaticAttrs
      <4> QED
        BY <3>1, <3>3, <3>4, <4>2 DEF Emits
    <3>5. CASE decls[k].sc # "static"
      BY <3>2, <3>3, <3>5 DEF Emits, LocalAttrs
    <3> QED
      BY <3>4, <3>5
  <2> QED
    BY <2>2, <2>3
<1>5. ObjectEntries
  <2>1. ASSUME NEW n, Object(n), n \notin Clashing
        PROVE  n \in Linked \ Objects \/ n \in Objects \ Linked
    BY <2>1 DEF Object, Clashing
  <2>2. ASSUME NEW n \in DOMAIN st \ Clashing
        PROVE  n \in Linked \ Objects \/ n \in Objects \ Linked
    BY <1>1, <2>2 DEF Clashing
  <2> QED
    BY <1>1, <1>3, <1>4, <2>1, <2>2 DEF ObjectEntries
<1> QED
  BY <1>2, <1>5

\* What is said of objects and of bodies only depends on the declarations.
LEMMA SameObjects ==
  ASSUME UNCHANGED decls
  PROVE  /\ \A n : Object(n)' = Object(n) /\ First(n)' = First(n)
         /\ TypesAgree' = TypesAgree /\ Bodies' = Bodies /\ Clashing' = Clashing
<1>1. /\ \A n : /\ DeclsOf(n)' = DeclsOf(n) /\ First(n)' = First(n)
                /\ Defined(n)' = Defined(n) /\ Tentative(n)' = Tentative(n)
      /\ Objects' = Objects /\ Linked' = Linked /\ Clashing' = Clashing
  BY SameDecls
<1>2. \A n : Object(n)' = Object(n)
  BY <1>1 DEF Object
<1> QED
  BY <1>1, <1>2 DEF TypesAgree, Bodies

\* A step that appends no item and looks at no entry keeps the items in order.
LEMMA SameItems ==
  ASSUME ItemsInv, UNCHANGED <<decls, next, out, visited>>, phase' # "crash", phase # "crash",
         Temps \subseteq Temps'
  PROVE  ItemsInv'
<1>1. /\ \A n : Object(n)' = Object(n) /\ First(n)' = First(n)
      /\ Bodies' = Bodies /\ Clashing' = Clashing
  BY SameObjects
<1> QED
  BY <1>1 DEF ItemsInv

\* A step that leaves table, declarations and temporaries alone.
LEMMA SameEntries ==
  ASSUME UNCHANGED <<decls, st, temps>>
  PROVE  /\ ObjectEntries' = ObjectEntries /\ TypesAgree' = TypesAgree
         /\ Temps' = Temps
<1>1. /\ TypesAgree' = TypesAgree /\ Clashing' = Clashing
      /\ \A n : Object(n)' = Object(n) /\ First(n)' = First(n)
  BY SameObjects
<1>2. (\A n : Emits(n)' = Emits(n)) /\ Temps' = Temps
  BY DEF Emits, Temps
<1> QED
  BY <1>1, <1>2 DEF ObjectEntries

\* The entry of a temporary emits nothing.
LEMMA OutNewTmp ==
  ASSUME TacInv, OutInv, TakeTmp
  PROVE  OutInv'
<1>1. /\ phase = "functions" /\ TypesAgree /\ ObjectEntries /\ ItemsInv /\ Progress
  BY DEF TacInv, OutInv, TakeTmp
<1>2. UNCHANGED <<currFunc, decls, phase, next, varMap, visited, out>>
  BY DEF TakeTmp
<1> DEFINE x == TmpName(tmpCounter')
<1>3. PICK t : st' = Added(st, x, EntryNoRef(t))
  BY DEF TakeTmp
<1>4. Temps' = Temps \cup {x}
  BY TakeTmpStep
<1>6. /\ x \in DOMAIN st' /\ st'[x].attrs = LocalAttrs
      /\ \A n \in DOMAIN st : n # x => n \in DOMAIN st' /\ st'[n] = st[n]
      /\ \A n \in DOMAIN st' : n = x \/ n \in DOMAIN st
  BY <1>3 DEF Added, EntryNoRef
<1>7. /\ \A n : Object(n)' = Object(n) /\ First(n)' = First(n)
      /\ TypesAgree' = TypesAgree /\ Clashing' = Clashing
  BY <1>2, SameObjects
<1>5. ASSUME NEW n \in DOMAIN st, n # x
      PROVE  Emits(n)' = Emits(n)
  BY <1>5, <1>6 DEF Emits
<1>8. ObjectEntries'
  <2>1. ASSUME NEW n, Object(n)', n \notin Clashing' \cup Temps'
        PROVE  n \in DOMAIN st' /\ Emits(n)'
    <3>1. Object(n) /\ n \in DOMAIN st /\ n # x /\ Emits(n)
      BY <1>1, <1>4, <1>7, <2>1 DEF ObjectEntries
    <3> QED
      BY <1>5, <1>6, <3>1
  <2>2. ASSUME NEW n \in DOMAIN st' \ Clashing', Emits(n)'
        PROVE  Object(n)' /\ st'[n].attrs.global = (First(n)'.sc # "static")
    <3>1. n # x
      BY <1>6, <2>2 DEF Emits, LocalAttrs
    <3>2. n \in DOMAIN st /\ st'[n] = st[n] /\ Emits(n)
      BY <1>5, <1>6, <2>2, <3>1
    <3> QED
      BY <1>1, <1>7, <2>2, <3>2 DEF ObjectEntries
  <2> QED
    BY <2>1, <2>2 DEF ObjectEntries
<1>9. ItemsInv' /\ Progress'
  BY <1>1, <1>2, <1>4, SameItems DEF Progress
<1> QED
  BY <1>1, <1>7, <1>8, <1>9 DEF OutInv

\* The item of a body comes with it.
LEMMA OutEndDecl ==
  ASSUME TacInv, OutInv, EndDecl
  PROVE  OutInv'
<1>1. /\ phase = "functions" /\ TypesAgree /\ ObjectEntries /\ ItemsInv /\ Progress
      /\ GoodDecls /\ OneDefinition /\ TempsInv /\ varMap = FileNames
      /\ \A n \in Linked \ (Objects \cup Temps) : SumsUp(n)
      /\ next \in DOMAIN decls /\ DOMAIN decls = 1 .. Len(decls) /\ Len(decls) \in Nat
  BY Elements DEF TacInv, OutInv, EndDecl, GoodDecls
<1>2. UNCHANGED <<st, decls, phase, varMap, tmpCounter, temps, visited>>
  BY DEF EndDecl, Abort, vars
<1>3. \/ /\ next' = next + 1
         /\ out' = IF next \in Bodies
                   THEN Append(out, FuncItem(decls[next].name, st[decls[next].name].attrs.global))
                   ELSE out
      \/ UNCHANGED <<next, out>>
  BY DEF EndDecl
<1>5. /\ \A n : Object(n)' = Object(n) /\ First(n)' = First(n)
      /\ Bodies' = Bodies /\ TypesAgree' /\ ObjectEntries' /\ Clashing' = Clashing
      /\ Temps' = Temps
  BY <1>1, <1>2, SameObjects, SameEntries
<1>4. CASE UNCHANGED <<next, out>>
  <2>1. ItemsInv'
    BY <1>1, <1>2, <1>4, <1>5, SameItems
  <2> QED
    BY <1>1, <1>2, <1>5, <2>1 DEF OutInv, Progress
<1>6. Bodies \subseteq 1 .. Len(decls)
  BY <1>1 DEF Bodies
<1>7. CASE next' = next + 1 /\ out' = out /\ next \notin Bodies
  <2>1. \A j \in Bodies : j < next' <=> j < next
    BY <1>1, <1>6, <1>7
  <2> QED
    <3>1. out' = out /\ visited' = visited /\ phase' = phase
      BY <1>2, <1>7
    <3>2. ItemsInv'
      BY <1>1, <1>2, <1>5, <2>1, <3>1 DEF ItemsInv
    <3>3. Progress'
      BY <1>1, <3>1 DEF Progress
    <3> QED
      BY <1>5, <3>2, <3>3 DEF OutInv
<1>8. CASE /\ next \in Bodies /\ next' = next + 1
           /\ out' = Append(out, FuncItem(decls[next].name, st[decls[next].name].attrs.global))
  <2> DEFINE n == decls[next].name
             x == FuncItem(n, st[n].attrs.global)
             e == Len(out) + 1
  <2>1. /\ n \in Names /\ decls[next].defines /\ n \notin Temps
        /\ n \in Linked /\ (n \notin Clashing => SumsUp(n) /\ n \notin Objects)
    BY <1>1, <1>8, BodyIs, FuncIs DEF Clashing
  <2>2. n \notin Clashing => st[n].attrs.global = (First(n).sc # "static")
    BY <2>1 DEF SumsUp
  <2>3. /\ x.isFunc = TRUE /\ x.name = n
        /\ n \notin Clashing => x.global = (First(n).sc # "static")
    BY <2>2 DEF FuncItem
  <2>4. /\ \E S : out' \in Seq(S)
        /\ Len(out') = e /\ Len(out) \in Nat /\ out'[e] = x
        /\ \A k \in 1 .. Len(out) : out'[k] = out[k]
    <3>1. PICK S : out \in Seq(S)
      BY <1>1 DEF ItemsInv
    <3>2. out \in Seq(S \cup {x}) /\ x \in S \cup {x}
      BY <3>1
    <3>3. /\ Append(out, x) \in Seq(S \cup {x})
          /\ Len(Append(out, x)) = Len(out) + 1
          /\ Append(out, x)[Len(out) + 1] = x
          /\ \A k \in 1 .. Len(out) : Append(out, x)[k] = out[k]
      BY <3>2, AppendedTo
    <3> QED
      BY <1>8, <3>1, <3>3, Elements
  <2> HIDE DEF x
  <2>5. \A k : k \in 1 .. Len(out') <=> k \in 1 .. Len(out) \/ k = e
    BY <2>4
  <2>6. \A j \in Bodies : j < next' <=> j < next \/ j = next
    BY <1>1, <1>6, <1>8
  <2>7. ASSUME NEW k \in 1 .. Len(out')
        PROVE  /\ out'[k].isFunc \in BOOLEAN
               /\ out'[k].isFunc = TRUE => \E j \in Bodies : j < next' /\ decls[j].name = out'[k].name
               /\ out'[k].isFunc = FALSE => out'[k].name \in visited
               /\ out'[k].name \notin Clashing =>
                    /\ out'[k].global = (First(out'[k].name).sc # "static")
                    /\ out'[k].isFunc = FALSE => Object(out'[k].name)
    <3>1. CASE k \in 1 .. Len(out)
      <4>1. out'[k] = out[k]
        BY <2>4, <3>1
      <4>2. /\ out[k].isFunc \in BOOLEAN
            /\ out[k].isFunc = TRUE => \E j \in Bodies : j < next /\ decls[j].name = out[k].name
            /\ out[k].isFunc = FALSE => out[k].name \in visited
            /\ out[k].name \notin Clashing =>
                 /\ out[k].global = (First(out[k].name).sc # "static")
                 /\ out[k].isFunc = FALSE => Object(out[k].name)
        BY <1>1, <3>1 DEF ItemsInv
      <4> QED
        BY <2>6, <4>1, <4>2
    <3>2. CASE k = e
      <4>1. out'[k] = x
        BY <2>4, <3>2
      <4>2. \E j \in Bodies : j < next' /\ decls[j].name = n
        BY <1>8, <2>6
      <4> QED
        BY <2>3, <4>1, <4>2
    <3> QED
      BY <2>5, <3>1, <3>2
  <2>8. ASSUME NEW j \in Bodies, j < next'
        PROVE  \E k \in 1 .. Len(out') : out'[k].isFunc = TRUE /\ out'[k].name = decls[j].name
    <3>1. CASE j < next
      <4>1. PICK k \in 1 .. Len(out) : out[k].isFunc = TRUE /\ out[k].name = decls[j].name
        BY <1>1, <3>1 DEF ItemsInv
      <4> QED
        BY <2>4, <2>5, <4>1
    <3>2. CASE j = next
      <4>1. e \in 1 .. Len(out')
        BY <2>5
      <4> QED
        BY <2>3, <2>4, <3>2, <4>1
    <3> QED
      BY <2>6, <2>8, <3>1, <3>2
  <2>9. n \notin Clashing => \A k \in 1 .. Len(out) : out[k].name # n
    <3> SUFFICES ASSUME n \notin Clashing, NEW k \in 1 .. Len(out), out[k].name = n PROVE FALSE
      OBVIOUS
    <3>1. out[k].isFunc \in BOOLEAN
      BY <1>1 DEF ItemsInv
    <3>2. CASE out[k].isFunc = TRUE
      <4>1. PICK j \in Bodies : j < next /\ decls[j].name = n
        BY <1>1, <3>2 DEF ItemsInv
      <4>2. j \in DeclsOf(n) /\ next \in DeclsOf(n) /\ decls[j].defines
        BY <1>1, <4>1 DEF Bodies, DeclsOf
      <4>3. j = next
        BY <1>1, <2>1, <4>2 DEF OneDefinition
      <4> QED
        BY <1>1, <4>1, <4>3
    <3>3. CASE out[k].isFunc = FALSE
      BY <1>1, <3>3 DEF ItemsInv, Progress
    <3> QED
      BY <3>1, <3>2, <3>3
  <2>10. ASSUME NEW j \in 1 .. Len(out'), NEW k \in 1 .. Len(out'), out'[j].name = out'[k].name,
                out'[j].name \notin Clashing
         PROVE  j = k
    <3>1. CASE j \in 1 .. Len(out) /\ k \in 1 .. Len(out)
      <4>1. out'[j] = out[j] /\ out'[k] = out[k]
        BY <2>4, <3>1
      <4> QED
        BY <1>1, <2>10, <3>1, <4>1 DEF ItemsInv
    <3>2. CASE j \in 1 .. Len(out) /\ k = e
      BY <2>3, <2>4, <2>9, <2>10, <3>2
    <3>3. CASE j = e /\ k \in 1 .. Len(out)
      BY <2>3, <2>4, <2>9, <2>10, <3>3
    <3> QED
      BY <2>5, <3>1, <3>2, <3>3
  <2>11. ItemsInv'
    <3>1. visited' = visited /\ visited = {} /\ phase' = phase /\ decls' = decls
      BY <1>1, <1>2 DEF Progress
    <3> QED
      BY <1>5, <2>4, <2>7, <2>8, <2>10, <3>1 DEF ItemsInv
  <2> QED
    BY <1>1, <1>2, <1>5, <2>11 DEF OutInv, Progress
<1> QED
  BY <1>3, <1>4, <1>7, <1>8

\* The item of an object comes with its entry.
LEMMA OutVisit ==
  ASSUME TacInv, OutInv, NEW n \in DOMAIN st, VisitEntry(n)
  PROVE  OutInv'
<1>1. /\ phase = "statics" /\ TypesAgree /\ ObjectEntries /\ ItemsInv /\ Progress
      /\ GoodDecls /\ TempsInv /\ varMap = FileNames /\ n \notin visited
      /\ \A m \in Linked \ (Objects \cup Temps) : SumsUp(m)
  BY DEF TacInv, OutInv, VisitEntry
<1>2. /\ UNCHANGED <<vars, next, varMap, tmpCounter, temps>>
      /\ visited' = visited \cup {n}
      /\ phase' \in {"statics", "crash"}
  BY <1>1 DEF VisitEntry
<1>3. UNCHANGED <<st, decls>>
  BY <1>2 DEF vars
<1>4. /\ \A m : Object(m)' = Object(m) /\ First(m)' = First(m)
      /\ Bodies' = Bodies /\ Clashing' = Clashing /\ Temps' = Temps
      /\ TypesAgree' /\ ObjectEntries'
  BY <1>1, <1>2, <1>3, SameObjects, SameEntries
<1>5. Progress'
  BY <1>1, <1>2, <1>3 DEF Progress
<1>6. CASE phase' = "crash"
  <2>1. out' = out
    BY <1>1, <1>6 DEF VisitEntry
  <2>2. ItemsInv'
    BY <1>1, <1>2, <1>3, <1>4, <1>6, <2>1 DEF ItemsInv
  <2> QED
    BY <1>4, <1>5, <2>2 DEF OutInv
<1>7. CASE phase' # "crash" /\ ~Emits(n)
  <2>1. out' = out /\ (n \notin Clashing \cup Temps => ~Object(n))
    BY <1>1, <1>7 DEF VisitEntry, ObjectEntries
  <2>2. ItemsInv'
    BY <1>1, <1>2, <1>3, <1>4, <1>7, <2>1 DEF ItemsInv
  <2> QED
    BY <1>4, <1>5, <2>2 DEF OutInv
<1>8. CASE phase' # "crash" /\ Emits(n)
  <2> DEFINE x == StaticItem(n, st[n].attrs.global, st[n].attrs.init)
             e == Len(out) + 1
  <2>1. /\ st[n].attrs.t = "STATIC"
        /\ n \notin Clashing => Object(n) /\ st[n].attrs.global = (First(n).sc # "static")
    BY <1>1, <1>8 DEF ObjectEntries, Emits
  <2>2. out' = Append(out, x)
    BY <1>8 DEF VisitEntry
  <2>3. /\ x.isFunc = FALSE /\ x.name = n
        /\ n \notin Clashing => x.global = (First(n).sc # "static")
    BY <2>1 DEF StaticItem
  <2> HIDE DEF x
  <2>4. /\ \E S : out' \in Seq(S)
        /\ Len(out') = e /\ Len(out) \in Nat /\ out'[e] = x
        /\ \A k \in 1 .. Len(out) : out'[k] = out[k]
    <3>1. PICK S : out \in Seq(S)
      BY <1>1 DEF ItemsInv
    <3>2. out \in Seq(S \cup {x}) /\ x \in S \cup {x}
      BY <3>1
    <3>3. /\ Append(out, x) \in Seq(S \cup {x})
          /\ Len(Append(out, x)) = Len(out) + 1
          /\ Append(out, x)[Len(out) + 1] = x
          /\ \A k \in 1 .. Len(out) : Append(out, x)[k] = out[k]
      BY <3>2, AppendedTo
    <3> QED
      BY <2>2, <3>1, <3>3, Elements
  <2>5. \A k : k \in 1 .. Len(out') <=> k \in 1 .. Len(out) \/ k = e
    BY <2>4
  <2>6. ASSUME NEW k \in 1 .. Len(out')
        PROVE  /\ out'[k].isFunc \in BOOLEAN
               /\ out'[k].isFunc = TRUE => \E j \in Bodies : j < next /\ decls[j].name = out'[k].name
               /\ out'[k].isFunc = FALSE => out'[k].name \in visited'
               /\ out'[k].name \notin Clashing =>
                    /\ out'[k].global = (First(out'[k].name).sc # "static")
                    /\ out'[k].isFunc = FALSE => Object(out'[k].name)
    <3>1. CASE k \in 1 .. Len(out)
      <4>1. out'[k] = out[k]
        BY <2>4, <3>1
      <4>2. /\ out[k].isFunc \in BOOLEAN
            /\ out[k].isFunc = TRUE => \E j \in Bodies : j < next /\ decls[j].name = out[k].name
            /\ out[k].isFunc = FALSE => out[k].name \in visited
            /\ out[k].name \notin Clashing =>
                 /\ out[k].global = (First(out[k].name).sc # "static")
                 /\ out[k].isFunc = FALSE => Object(out[k].name)
        BY <1>1, <3>1 DEF ItemsInv
      <4> QED
        BY <1>2, <4>1, <4>2
    <3>2. CASE k = e
      BY <1>2, <2>1, <2>3, <2>4, <3>2
    <3> QED
      BY <2>5, <3>1, <3>2
  <2>7. ASSUME NEW j \in Bodies, j < next
        PROVE  \E k \in 1 .. Len(out') : out'[k].isFunc = TRUE /\ out'[k].name = decls[j].name
    <3>1. PICK k \in 1 .. Len(out) : out[k].isFunc = TRUE /\ out[k].name = decls[j].name
      BY <1>1, <2>7 DEF ItemsInv
    <3> QED
      BY <2>4, <2>5, <3>1
  <2>8. ASSUME NEW m \in visited', Object(m), m \notin Clashing \cup Temps
        PROVE  \E k \in 1 .. Len(out') : out'[k].isFunc = FALSE /\ out'[k].name = m
    <3>1. CASE m = n
      <4>1. e \in 1 .. Len(out')
        BY <2>5
      <4> QED
        BY <2>3, <2>4, <3>1, <4>1
    <3>2. CASE m \in visited
      <4>1. PICK k \in 1 .. Len(out) : out[k].isFunc = FALSE /\ out[k].name = m
        BY <1>1, <2>8, <3>2 DEF ItemsInv
      <4> QED
        BY <2>4, <2>5, <4>1
    <3> QED
      BY <1>2, <2>8, <3>1, <3>2
  <2>9. n \notin Clashing => \A k \in 1 .. Len(out) : out[k].name # n
    <3> SUFFICES ASSUME n \notin Clashing, NEW k \in 1 .. Len(out), out[k].name = n PROVE FALSE
      OBVIOUS
    <3>1. out[k].isFunc \in BOOLEAN
      BY <1>1 DEF ItemsInv
    <3>2. CASE out[k].isFunc = TRUE
      <4>1. PICK j \in Bodies : decls[j].name = n
        BY <1>1, <3>2 DEF ItemsInv
      <4>2. j \in DOMAIN decls /\ decls[j].kind = "func" /\ n \notin Temps
        BY <1>1, <4>1, BodyIs
      <4>3. n \in Linked /\ (n \in Objects \/ st[n].attrs.t = "FUNC")
        BY <1>1, <4>1, <4>2, FuncIs
      <4> QED
        BY <2>1, <4>3 DEF Clashing
    <3>3. CASE out[k].isFunc = FALSE
      BY <1>1, <3>3 DEF ItemsInv
    <3> QED
      BY <3>1, <3>2, <3>3
  <2>10. ASSUME NEW j \in 1 .. Len(out'), NEW k \in 1 .. Len(out'), out'[j].name = out'[k].name,
                out'[j].name \notin Clashing
         PROVE  j = k
    <3>1. CASE j \in 1 .. Len(out) /\ k \in 1 .. Len(out)
      <4>1. out'[j] = out[j] /\ out'[k] = out[k]
        BY <2>4, <3>1
      <4> QED
        BY <1>1, <2>10, <3>1, <4>1 DEF ItemsInv
    <3>2. CASE j \in 1 .. Len(out) /\ k = e
      BY <2>3, <2>4, <2>9, <2>10, <3>2
    <3>3. CASE j = e /\ k \in 1 .. Len(out)
      BY <2>3, <2>4, <2>9, <2>10, <3>3
    <3> QED
      BY <2>5, <3>1, <3>2, <3>3
  <2>11. ItemsInv'
    BY <1>2, <1>3, <1>4, <2>4, <2>6, <2>7, <2>8, <2>10 DEF ItemsInv
  <2> QED
    BY <1>4, <1>5, <2>11 DEF OutInv
<1> QED
  BY <1>6, <1>7, <1>8

\* Every step keeps the items in order.
LEMMA OutStep ==
  ASSUME TacInv, OutInv, [TacNext]_allVars
  PROVE  OutInv'
<1>1. CASE Typecheck
  BY <1>1 DEF Typecheck, tacVars, OutInv
<1>2. CASE StartTac
  <2>1. /\ SymInv /\ next = 1 /\ visited = {} /\ out = << >>
        /\ UNCHANGED <<st, decls, next, temps, visited, out>> /\ phase' = "functions"
    BY <1>2 DEF StartTac, TacInv
  <2>2. TypesAgree' /\ ObjectEntries'
    BY <2>1, CheckedEntries, SameEntries
  <2>3. Bodies' = Bodies /\ Bodies \subseteq 1 .. Len(decls)
    BY <2>1, SameObjects, Elements DEF Bodies, SymInv, GoodDecls
  <2>4. ItemsInv'
    <3>1. out' \in Seq({}) /\ Len(out') = 0
      BY <2>1
    <3>2. \A j \in Bodies : ~(j < next)
      BY <2>1, <2>3
    <3> QED
      BY <2>1, <2>3, <3>1, <3>2 DEF ItemsInv
  <2> QED
    BY <2>1, <2>2, <2>4 DEF OutInv, Progress
<1>3. CASE NewTmp \/ Call
  BY <1>3, OutNewTmp DEF NewTmp, Call
<1>4. CASE EndDecl
  BY <1>4, OutEndDecl
<1>5. CASE StartStatics
  BY <1>5, SameItems, SameEntries DEF StartStatics, OutInv, Progress, vars
<1>6. ASSUME NEW n \in DOMAIN st, VisitEntry(n) PROVE OutInv'
  BY <1>6, OutVisit
<1>7. CASE Finish
  BY <1>7, SameItems, SameEntries DEF Finish, OutInv, Progress, vars
<1>8. CASE UNCHANGED allVars
  <2>1. UNCHANGED <<st, decls, phase, next, temps, visited, out>>
    BY <1>8 DEF allVars, vars, tacVars
  <2>2. /\ ObjectEntries' = ObjectEntries /\ TypesAgree' = TypesAgree
        /\ \A n : Object(n)' = Object(n) /\ First(n)' = First(n)
        /\ Bodies' = Bodies /\ Clashing' = Clashing /\ Temps' = Temps
    BY <2>1, SameObjects, SameEntries
  <2> QED
    BY <2>1, <2>2 DEF OutInv, ItemsInv, Progress
<1> QED
  BY <1>1, <1>2, <1>3, <1>4, <1>5, <1>6, <1>7, <1>8 DEF TacNext

\* When the list is complete it has one item for every object and every body.
LEMMA OutMeans ==
  ASSUME TacInv, OutInv
  PROVE  SymbolsAreDefinitions
<1> SUFFICES ASSUME phase = "done", NEW n \in {decls[k].name : k \in DOMAIN decls} \ Clashing
             PROVE  /\ Items(n) # {} => HasStorage(n)
                    /\ HasStorage(n) /\ n \notin Temps => Items(n) # {}
                    /\ \A j, k \in Items(n) : j = k
                    /\ \A k \in Items(n) : out[k].global = (First(n).sc # "static")
  BY DEF SymbolsAreDefinitions
<1>1. /\ GoodDecls /\ TypesAgree /\ ObjectEntries /\ ItemsInv
      /\ TempsInv /\ varMap = FileNames
      /\ next = Len(decls) + 1 /\ visited = DOMAIN st
      /\ \A m \in Linked \ (Objects \cup Temps) : SumsUp(m)
  BY DEF TacInv, OutInv, Progress
<1>2. \A k \in Items(n) : k \in 1 .. Len(out) /\ out[k].name = n /\ out[k].isFunc \in BOOLEAN
  BY <1>1, Elements DEF ItemsInv, Items
<1>3. DOMAIN out = 1 .. Len(out)
  BY <1>1, Elements DEF ItemsInv
<1>4. DeclsOf(n) # {}
  BY DEF DeclsOf
<1>5. ASSUME NEW k \in Items(n)
      PROVE  HasStorage(n)
  <2>1. CASE out[k].isFunc = TRUE
    <3>1. PICK j \in Bodies : decls[j].name = n
      BY <1>1, <1>2, <2>1 DEF ItemsInv
    <3>2. j \in DOMAIN decls /\ decls[j].kind = "func" /\ decls[j].defines
      BY <1>1, <3>1, BodyIs
    <3>3. n \in Linked /\ j \in DeclsOf(n)
      BY <1>1, <3>1, <3>2, FuncIs DEF DeclsOf
    <3> QED
      BY <3>2, <3>3 DEF HasStorage, Defined
  <2>2. CASE out[k].isFunc = FALSE
    <3>1. Object(n)
      BY <1>1, <1>2, <2>2 DEF ItemsInv
    <3> QED
      BY <3>1 DEF Object, HasStorage
  <2> QED
    BY <1>2, <2>1, <2>2
<1>6. ASSUME HasStorage(n), n \notin Temps
      PROVE  \E k \in 1 .. Len(out) : out[k].name = n
  <2>1. CASE Object(n)
    BY <1>1, <1>6, <2>1 DEF ObjectEntries, ItemsInv
  <2>2. CASE ~Object(n)
    <3>1. n \in Linked \ Objects /\ Defined(n) /\ First(n).kind # "var"
      BY <1>4, <1>6, <2>2 DEF HasStorage, Object, Clashing
    <3>2. PICK f \in DeclsOf(n) : First(n) = decls[f] /\ decls[f] \in Decl
      BY <1>1, <1>4, FirstOf
    <3>3. PICK j \in DeclsOf(n) : decls[j].defines
      BY <3>1 DEF Defined
    <3>4. /\ j \in DOMAIN decls /\ j \in 1 .. Len(decls) /\ decls[j] \in Decl
          /\ decls[j].name = n /\ Len(decls) \in Nat
      BY <1>1, Elements DEF DeclsOf, GoodDecls
    <3>5. decls[j].type = decls[f].type
      BY <1>1, <3>1 DEF TypesAgree
    <3>6. decls[j].kind = "func"
      BY <3>1, <3>2, <3>4, <3>5, KindOf
    <3>7. j \in Bodies /\ j < next
      BY <1>1, <3>3, <3>4, <3>6 DEF Bodies
    <3> QED
      BY <1>1, <3>4, <3>7 DEF ItemsInv
  <2> QED
    BY <2>1, <2>2
<1>7. HasStorage(n) /\ n \notin Temps => Items(n) # {}
  BY <1>3, <1>6 DEF Items
<1>8. /\ \A j, k \in Items(n) : j = k
      /\ \A k \in Items(n) : out[k].global = (First(n).sc # "static")
  BY <1>1, <1>2 DEF ItemsInv
<1> QED
  BY <1>5, <1>7, <1>8

\* The symbols of the assembler file are those the declarations define, each
\* once and with the linkage of its first declaration.  Names with linkage that
\* an object of a body has too are left out, and a static object may have none
\* if a temporary took its name.
THEOREM SymbolsDefined == TacSpec => []SymbolsAreDefinitions
<1>1. TacInit => OutInv
  BY DEF TacInit, OutInv
<1>2. TacInv /\ OutInv /\ [TacNext]_allVars => OutInv'
  BY OutStep
<1>3. TacInv /\ OutInv => SymbolsAreDefinitions
  BY OutMeans
<1> QED
  BY <1>1, <1>2, <1>3, TacAlways, PTL DEF TacSpec

=============================================================================
