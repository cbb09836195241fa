--------------------------- MODULE Resolve_proofs ---------------------------
(***************************************************************************)
(* Name resolution of resolve.c implements the scopes of C, for programs   *)
(* of any size.                                                            *)
(*                                                                         *)
(* The invariant is about values, not about the variables: a table is good *)
(* for a depth and a list of objects when each of its entries has that     *)
(* depth and names its identifier or one of the objects.  What actions do  *)
(* to the list of tables is to push, pop or replace the first one; one     *)
(* lemma for each says that the tables stay good, another what becomes of  *)
(* the declarations that Scoping sees in them.                             *)
(***************************************************************************)
EXTENDS Resolve, WellFoundedInduction, TLAPS

-----------------------------------------------------------------------------

Table == UNION {[D -> EntryType] : D \in SUBSET Idents}

\* What holds of the entry of i in a table of depth d.
GoodEntry(e, i, d, objs) ==
  /\ e.scope = d
  /\ d = 0 => e.linkage
  /\ e.linkage => e.name = i
  /\ ~e.linkage => \E n \in DOMAIN objs : e.name = objs[n]

GoodTable(t, d, objs) ==
  /\ t \in Table
  /\ \A i \in DOMAIN t : GoodEntry(t[i], i, d, objs)

\* The list has one table for each depth, the file scope last.
GoodTables(ts, objs) ==
  /\ ts \in Seq(Table)
  /\ ts # << >>
  /\ \A k \in 1 .. Len(ts) : GoodTable(ts[k], Len(ts) - k, objs)

\* The n-th object without linkage has the number n in its name.
GoodObjects(objs) ==
  /\ objs \in Seq(Name)
  /\ Len(objs) <= MaxNames
  /\ \A n \in 1 .. Len(objs) : \E i \in Idents : objs[n] = Suffixed(i, n)

\* The constructs the parser is in: the file around everything, parameters
\* only innermost, and inside the file the parameters or the body of a
\* function.
GoodKinds(ks) ==
  /\ ks \in Seq({"file", "params", "body", "block"})
  /\ \A k \in 1 .. Len(ks) :
       /\ ks[k] = "file" <=> k = Len(ks)
       /\ ks[k] = "params" => k = 1
       /\ ks[k] = "body" => k = Len(ks) - 1
       /\ k = Len(ks) - 1 => ks[k] \in {"params", "body"}

\* The last name stored in the tree is an identifier or an object's.
GoodUse ==
  \/ used = NoUse
  \/ \E name : /\ used = [name |-> name]
               /\ name \in Idents \/ \E n \in DOMAIN objects : name = objects[n]

ScopesInv ==
  /\ status \in {"parsing", "error"}
  /\ GoodKinds(kinds)
  /\ GoodTables(tables, objects)
  /\ Len(kinds) = Len(tables)
  /\ scope = Len(tables) - 1
  /\ scope <= MaxScope
  /\ GoodObjects(objects)
  /\ nameIdx = Len(objects)
  /\ GoodUse

-----------------------------------------------------------------------------

\* A sequence over S has its elements in S.
LEMMA SeqElement ==
  ASSUME NEW S, NEW s \in Seq(S)
  PROVE  /\ Len(s) \in Nat /\ DOMAIN s = 1 .. Len(s)
         /\ \A n \in 1 .. Len(s) : s[n] \in S
  OBVIOUS

\* What push does to the list of tables or of kinds.
LEMMA PushedSeq ==
  ASSUME NEW S, NEW s \in Seq(S), NEW x \in S
  PROVE  /\ <<x>> \o s \in Seq(S)
         /\ <<x>> \o s # << >>
         /\ Len(<<x>> \o s) = Len(s) + 1
         /\ (<<x>> \o s)[1] = x
         /\ \A k \in 1 .. Len(s) : (<<x>> \o s)[k + 1] = s[k]
  OBVIOUS

\* What pop does to such a list.
LEMMA PoppedSeq ==
  ASSUME NEW S, NEW s \in Seq(S), s # << >>
  PROVE  /\ Len(s) \in Nat \ {0}
         /\ Tail(s) \in Seq(S)
         /\ Len(Tail(s)) = Len(s) - 1
         /\ \A k \in 1 .. Len(s) - 1 : Tail(s)[k] = s[k + 1]
         /\ Head(s) = s[1]
         /\ Head(s) \in S
  OBVIOUS

\* What a change of the innermost table does to the list.
LEMMA ReplacedSeq ==
  ASSUME NEW S, NEW s \in Seq(S), s # << >>, NEW x \in S
  PROVE  /\ <<x>> \o Tail(s) \in Seq(S)
         /\ <<x>> \o Tail(s) # << >>
         /\ Len(<<x>> \o Tail(s)) = Len(s)
         /\ (<<x>> \o Tail(s))[1] = x
         /\ \A k \in 2 .. Len(s) : (<<x>> \o Tail(s))[k] = s[k]
  OBVIOUS

-----------------------------------------------------------------------------

\* A table maps some identifiers to entries.
LEMMA TableIs ==
  ASSUME NEW t
  PROVE  t \in Table <=> DOMAIN t \subseteq Idents /\ t \in [DOMAIN t -> EntryType]
  BY DEF Table

\* A new table is empty.
LEMMA EmptyTable ==
  /\ Empty \in Table
  /\ DOMAIN Empty = {}
  BY TableIs DEF Empty

\* ht_set adds or replaces one entry.
LEMMA PutTable ==
  ASSUME NEW t \in Table, NEW i \in Idents, NEW e \in EntryType
  PROVE  /\ Put(t, i, e) \in Table
         /\ DOMAIN Put(t, i, e) = DOMAIN t \cup {i}
         /\ Put(t, i, e)[i] = e
         /\ \A j \in DOMAIN t : j # i => Put(t, i, e)[j] = t[j]
  BY TableIs, TableIs DEF Put

\* Setting an entry in order keeps a table in order.
LEMMA GoodPut ==
  ASSUME NEW t, NEW d, NEW objs, GoodTable(t, d, objs),
         NEW i \in Idents, NEW e \in EntryType, GoodEntry(e, i, d, objs)
  PROVE  GoodTable(Put(t, i, e), d, objs)
<1>1. /\ Put(t, i, e) \in Table
      /\ DOMAIN Put(t, i, e) = DOMAIN t \cup {i}
      /\ Put(t, i, e)[i] = e
      /\ \A j \in DOMAIN t : j # i => Put(t, i, e)[j] = t[j]
  BY PutTable DEF GoodTable
<1> QED
  BY <1>1 DEF GoodTable

\* Entries stay good when another object is declared.
LEMMA GoodGrown ==
  ASSUME NEW ts, NEW objs \in Seq(Name), GoodTables(ts, objs), NEW x \in Name
  PROVE  GoodTables(ts, Append(objs, x))
<1>1. \A n \in DOMAIN objs : n \in DOMAIN Append(objs, x) /\ Append(objs, x)[n] = objs[n]
  OBVIOUS
<1> QED
  BY <1>1 DEF GoodTables, GoodTable, GoodEntry

\* Entering a scope keeps all tables in order.
LEMMA GoodPushed ==
  ASSUME NEW ts, NEW objs, GoodTables(ts, objs)
  PROVE  GoodTables(<<Empty>> \o ts, objs)
<1> DEFINE us == <<Empty>> \o ts
<1>1. /\ us \in Seq(Table) /\ us # << >>
      /\ Len(us) = Len(ts) + 1
      /\ us[1] = Empty
      /\ \A k \in 1 .. Len(ts) : us[k + 1] = ts[k]
  BY PushedSeq, EmptyTable DEF GoodTables
<1> HIDE DEF us
<1>2. GoodTable(us[1], Len(us) - 1, objs)
  BY <1>1, EmptyTable DEF GoodTable
<1>3. ASSUME NEW k \in 2 .. Len(us)
      PROVE  GoodTable(us[k], Len(us) - k, objs)
  <2>1. /\ k - 1 \in 1 .. Len(ts)
        /\ us[k] = ts[k - 1]
        /\ Len(us) - k = Len(ts) - (k - 1)
    BY <1>1, <1>3
  <2> QED
    BY <2>1 DEF GoodTables
<1>4. GoodTables(us, objs)
  BY <1>1, <1>2, <1>3 DEF GoodTables
<1> QED
  BY <1>4 DEF us

\* Leaving a scope keeps the others in order.
LEMMA GoodPopped ==
  ASSUME NEW ts, NEW objs, GoodTables(ts, objs), Len(ts) # 1
  PROVE  GoodTables(Tail(ts), objs)
<1>1. /\ Len(ts) \in Nat \ {0}
      /\ Tail(ts) \in Seq(Table)
      /\ Len(Tail(ts)) = Len(ts) - 1
      /\ \A k \in 1 .. Len(ts) - 1 : Tail(ts)[k] = ts[k + 1]
  BY PoppedSeq DEF GoodTables
<1>2. ASSUME NEW k \in 1 .. Len(ts) - 1
      PROVE  GoodTable(Tail(ts)[k], Len(ts) - 1 - k, objs)
  <2>1. k + 1 \in 1 .. Len(ts) /\ Len(ts) - (k + 1) = Len(ts) - 1 - k
    BY <1>1
  <2> QED
    BY <1>1, <2>1 DEF GoodTables
<1>3. Tail(ts) # << >>
  BY <1>1
<1> QED
  BY <1>1, <1>2, <1>3 DEF GoodTables

\* So does a change of the innermost one.
LEMMA GoodReplaced ==
  ASSUME NEW ts, NEW objs, GoodTables(ts, objs),
         NEW t, GoodTable(t, Len(ts) - 1, objs)
  PROVE  GoodTables(<<t>> \o Tail(ts), objs)
<1> DEFINE us == <<t>> \o Tail(ts)
<1>1. /\ us \in Seq(Table) /\ us # << >>
      /\ Len(us) = Len(ts)
      /\ us[1] = t
      /\ \A k \in 2 .. Len(ts) : us[k] = ts[k]
  BY ReplacedSeq DEF GoodTables, GoodTable
<1> HIDE DEF us
<1>2. GoodTables(us, objs)
  BY <1>1 DEF GoodTables
<1> QED
  BY <1>2 DEF us

-----------------------------------------------------------------------------

\* The innermost table is in order at the current depth.
LEMMA GoodInnermost ==
  ASSUME ScopesInv
  PROVE  /\ GoodTable(Innermost, scope, objects)
         /\ scope \in Nat
         /\ scope = 0 <=> Kind = "file"
<1>1. Head(tables) = tables[1] /\ Len(tables) \in Nat \ {0} /\ Head(kinds) = kinds[1]
  BY PoppedSeq DEF ScopesInv, GoodTables, GoodKinds
<1> QED
  BY <1>1 DEF ScopesInv, GoodTables, GoodKinds, Innermost, Kind

\* The entry of a name with linkage is in order.
LEMMA GoodNewEntry ==
  ASSUME ScopesInv, NEW i \in Idents
  PROVE  /\ Entry(i, TRUE) \in EntryType
         /\ GoodEntry(Entry(i, TRUE), i, scope, objects)
  BY GoodInnermost, BoundsAssumption DEF ScopesInv, Entry, EntryType, GoodEntry, Name

\* A declaration with linkage enters the innermost table.
LEMMA GoodLinked ==
  ASSUME ScopesInv, NEW i \in Idents
  PROVE  GoodTables(WithInnermost(Put(Innermost, i, Entry(i, TRUE))), objects)
<1>1. GoodTable(Put(Innermost, i, Entry(i, TRUE)), scope, objects)
  BY GoodNewEntry, GoodInnermost, GoodPut
<1> QED
  BY <1>1, GoodReplaced DEF ScopesInv, WithInnermost

\* An object without linkage does, and gets a name of its own.
LEMMA GoodObject ==
  ASSUME ScopesInv, Kind # "file", NEW i \in Idents, NewObject(i)
  PROVE  /\ GoodTables(tables', objects')
         /\ Len(tables') = Len(tables)
         /\ GoodObjects(objects')
         /\ nameIdx' = Len(objects')
<1> DEFINE name == Suffixed(i, nameIdx')
           e == Entry(name, FALSE)
<1>1. /\ nameIdx' = Len(objects) + 1
      /\ nameIdx' \in 1 .. MaxNames
      /\ objects' = Append(objects, name)
      /\ tables' = WithInnermost(Put(Innermost, i, e))
  BY BoundsAssumption DEF ScopesInv, GoodObjects, NewObject, GetName, SetInnermost
<1>2. name \in Name
  BY <1>1 DEF Name
<1>3. GoodTables(tables, objects')
  BY <1>1, <1>2, GoodGrown DEF ScopesInv, GoodObjects
<1>4. GoodTable(Innermost, scope, objects')
  BY <1>3, PoppedSeq DEF ScopesInv, Innermost, GoodTables
<1>5. e \in EntryType /\ GoodEntry(e, i, scope, objects')
  <2>1. scope \in 0 .. MaxScope /\ scope # 0
    BY GoodInnermost DEF ScopesInv
  <2>2. Len(objects) + 1 \in DOMAIN objects' /\ objects'[Len(objects) + 1] = name
    BY <1>1 DEF ScopesInv, GoodObjects
  <2> QED
    BY <1>2, <2>1, <2>2 DEF Entry, EntryType, GoodEntry
<1>6. GoodTable(Put(Innermost, i, e), scope, objects')
  BY <1>4, <1>5, GoodPut
<1>7. GoodTables(tables', objects')
  BY <1>1, <1>3, <1>6, GoodReplaced DEF ScopesInv, WithInnermost
<1>8. Len(tables') = Len(tables)
  BY <1>1, <1>6, ReplacedSeq DEF ScopesInv, WithInnermost, GoodTable, GoodTables
<1>9. GoodObjects(objects')
  BY <1>1, <1>2 DEF ScopesInv, GoodObjects
<1>10. Len(objects') = Len(objects) + 1
  BY <1>1 DEF ScopesInv, GoodObjects
<1> QED
  BY <1>1, <1>10, <1>7, <1>8, <1>9

-----------------------------------------------------------------------------

\* Scopes open in the order of the grammar.
LEMMA KindsPushed ==
  ASSUME NEW ks, GoodKinds(ks), NEW x,
         \/ x = "params" /\ ks # << >> /\ ks[1] \in {"file", "body", "block"}
         \/ x = "block" /\ ks # << >> /\ ks[1] \in {"body", "block"}
  PROVE  GoodKinds(<<x>> \o ks)
<1> DEFINE us == <<x>> \o ks
<1>1. /\ us \in Seq({"file", "params", "body", "block"})
      /\ Len(us) = Len(ks) + 1
      /\ us[1] = x
      /\ \A k \in 1 .. Len(ks) : us[k + 1] = ks[k]
  BY PushedSeq DEF GoodKinds
<1> HIDE DEF us
<1>2. ASSUME NEW k \in 2 .. Len(us)
      PROVE  k - 1 \in 1 .. Len(ks) /\ us[k] = ks[k - 1]
  BY <1>1, <1>2
<1>3. GoodKinds(us)
  BY <1>1, <1>2 DEF GoodKinds
<1> QED
  BY <1>3 DEF us

\* Scopes close in that order.
LEMMA KindsPopped ==
  ASSUME NEW ks, GoodKinds(ks), ks # << >>, ks[1] # "file"
  PROVE  GoodKinds(Tail(ks))
<1> DEFINE us == Tail(ks)
<1>1. /\ Len(ks) \in Nat \ {0}
      /\ us \in Seq({"file", "params", "body", "block"})
      /\ Len(us) = Len(ks) - 1
      /\ \A k \in 1 .. Len(ks) - 1 : us[k] = ks[k + 1]
  BY PoppedSeq DEF GoodKinds
<1> HIDE DEF us
<1>2. ASSUME NEW k \in 1 .. Len(us)
      PROVE  k + 1 \in 1 .. Len(ks) /\ us[k] = ks[k + 1]
  BY <1>1
<1>3. GoodKinds(us)
  BY <1>1, <1>2 DEF GoodKinds
<1> QED
  BY <1>3 DEF us

\* File scope is in order.
LEMMA ScopesInit == Init => ScopesInv
<1> SUFFICES ASSUME Init PROVE ScopesInv
  OBVIOUS
<1>1. <<Empty>> \in Seq(Table) /\ <<Empty>> # << >> /\ Len(<<Empty>>) = 1 /\ <<Empty>>[1] = Empty
  BY EmptyTable
<1>2. GoodTables(tables, objects)
  BY <1>1, EmptyTable DEF Init, GoodTables, GoodTable
<1>3. GoodKinds(kinds) /\ Len(kinds) = 1
  BY DEF Init, GoodKinds
<1>4. GoodObjects(objects) /\ Len(objects) = 0
  BY BoundsAssumption DEF Init, GoodObjects
<1> QED
  BY <1>1, <1>2, <1>3, <1>4, BoundsAssumption DEF Init, ScopesInv, GoodUse

\* Nothing but the exit of a scope or of the parser.
LEMMA ScopesExit ==
  ASSUME ScopesInv, ExitScope, Kind # "file", kinds' = Tail(kinds),
         UNCHANGED <<status, nameIdx, objects, used>>
  PROVE  ScopesInv'
<1>1. Len(kinds) \in Nat \ {0} /\ Kind = kinds[1] /\ kinds # << >>
  BY PoppedSeq DEF ScopesInv, GoodKinds, Kind, GoodTables
<1>2. Len(tables) # 1
  BY <1>1 DEF ScopesInv, GoodKinds
<1>3. GoodTables(tables', objects') /\ Len(tables') = Len(tables) - 1
  BY <1>2, GoodPopped, PoppedSeq DEF ScopesInv, ExitScope, GoodTables
<1>4. GoodKinds(kinds') /\ Len(kinds') = Len(kinds) - 1
  BY <1>1, KindsPopped, PoppedSeq DEF ScopesInv, GoodKinds
<1>5. scope' = Len(tables') - 1 /\ scope' <= MaxScope
  BY <1>1, <1>3, BoundsAssumption DEF ScopesInv, ExitScope
<1> QED
  BY <1>3, <1>4, <1>5 DEF ScopesInv, GoodUse

\* enter_scope, with an innermost table t that is as good.
LEMMA ScopesEnter ==
  ASSUME ScopesInv, NEW t, GoodTable(t, scope, objects), EnterScopeWith(t),
         NEW x, kinds' = <<x>> \o kinds,
         \/ x = "params" /\ (Kind = "file" \/ InBody)
         \/ x = "block" /\ InBody,
         UNCHANGED <<status, nameIdx, objects, used>>
  PROVE  ScopesInv'
<1>1. Len(kinds) \in Nat \ {0} /\ Kind = kinds[1] /\ kinds # << >>
  BY PoppedSeq DEF ScopesInv, GoodKinds, Kind, GoodTables
<1>2. GoodKinds(kinds')
  BY <1>1, KindsPushed DEF ScopesInv, InBody
<1>3. Len(kinds') = Len(kinds) + 1
  BY <1>1, PushedSeq DEF ScopesInv, GoodKinds
<1>4. GoodTables(WithInnermost(t), objects) /\ Len(WithInnermost(t)) = Len(tables)
  BY GoodReplaced, ReplacedSeq DEF ScopesInv, WithInnermost, GoodTables, GoodTable
<1>5. GoodTables(tables', objects')
  BY <1>4, GoodPushed DEF EnterScopeWith
<1>6. Len(tables') = Len(tables) + 1
  BY <1>4, PushedSeq, EmptyTable DEF EnterScopeWith, GoodTables
<1>7. scope' = Len(tables') - 1 /\ scope' <= MaxScope
  BY <1>1, <1>6, BoundsAssumption DEF ScopesInv, EnterScopeWith
<1> QED
  BY <1>2, <1>3, <1>5, <1>6, <1>7 DEF ScopesInv, GoodUse

\* A step that touches no table keeps them in order.
LEMMA ScopesUnchanged ==
  ASSUME ScopesInv, UNCHANGED <<kinds, scopeVars, used>>, status' \in {"parsing", "error"}
  PROVE  ScopesInv'
  BY DEF ScopesInv, GoodUse, scopeVars

\* A declaration in the current scope.
LEMMA ScopesDeclare ==
  ASSUME ScopesInv, GoodTables(tables', objects'), Len(tables') = Len(tables),
         GoodObjects(objects'), nameIdx' = Len(objects'),
         \/ objects' = objects
         \/ \E x \in Name : objects' = Append(objects, x),
         UNCHANGED <<status, kinds, scope, used>>
  PROVE  ScopesInv'
<1>1. \A n \in DOMAIN objects : n \in DOMAIN objects' /\ objects'[n] = objects[n]
  BY DEF ScopesInv, GoodObjects
<1>2. GoodUse'
  BY <1>1 DEF ScopesInv, GoodUse
<1> QED
  BY <1>2 DEF ScopesInv

\* Declaring a name with linkage keeps them in order.
LEMMA ScopesLinked ==
  ASSUME ScopesInv, NEW i \in Idents,
         SetInnermost(Put(Innermost, i, Entry(i, TRUE))),
         UNCHANGED <<status, kinds, scope, nameIdx, objects, used>>
  PROVE  ScopesInv'
<1>1. GoodTables(tables', objects')
  BY GoodLinked DEF SetInnermost
<1>2. Len(tables') = Len(tables)
  <2>1. Put(Innermost, i, Entry(i, TRUE)) \in Table
    BY PutTable, GoodNewEntry, GoodInnermost DEF GoodTable
  <2> QED
    BY <2>1, ReplacedSeq DEF ScopesInv, GoodTables, SetInnermost, WithInnermost
<1> QED
  BY <1>1, <1>2, ScopesDeclare DEF ScopesInv

\* Declaring an object of a function does, the new name being fresh.
LEMMA ScopesObject ==
  ASSUME ScopesInv, Kind # "file", NEW i \in Idents, NewObject(i),
         UNCHANGED <<status, kinds, used>>
  PROVE  ScopesInv'
<1>1. \E x \in Name : objects' = Append(objects, x)
  BY BoundsAssumption DEF NewObject, GetName, ScopesInv, GoodObjects, Name
<1>2. scope' = scope
  BY DEF NewObject
<1> QED
  BY <1>1, <1>2, GoodObject, ScopesDeclare

-----------------------------------------------------------------------------

\* What induction is for here: a search has a first hit.
LEMMA Least ==
  ASSUME NEW T, T \subseteq Nat, T # {}
  PROVE  \E x \in T : \A y \in T : x <= y
<1> DEFINE R == {p \in Nat \X Nat : p[1] < p[2]}
<1>1. OpToRel(<, Nat) = R
  BY DEF OpToRel
<1>2. IsWellFoundedOn(R, Nat)
  BY <1>1, NatLessThanWellFounded
<1>3. \A a, b \in Nat : a < b => <<a, b>> \in R
  OBVIOUS
<1> HIDE DEF R
<1>4. PICK x \in T : \A y \in T : ~(<<y, x>> \in R)
  BY <1>2, WFMin
<1>5. ASSUME NEW y \in T
      PROVE  x <= y
  <2>1. x \in Nat /\ y \in Nat
    OBVIOUS
  <2>2. ~(y < x)
    BY <1>3, <1>4, <2>1
  <2> QED
    BY <2>1, <2>2
<1> QED
  BY <1>5

\* find_entry returns the entry of the innermost table that has the identifier.
LEMMA FoundEntry ==
  ASSUME ScopesInv, NEW i, Declared(i)
  PROVE  \E k \in 1 .. Len(tables) :
           /\ i \in DOMAIN tables[k]
           /\ \A m \in 1 .. k - 1 : i \notin DOMAIN tables[m]
           /\ FindEntry(i) = tables[k][i]
<1> DEFINE T == {k \in 1 .. Len(tables) : i \in DOMAIN tables[k]}
           Hit(k) == /\ i \in DOMAIN tables[k]
                     /\ \A m \in 1 .. k - 1 : i \notin DOMAIN tables[m]
<1>1. Len(tables) \in Nat /\ DOMAIN tables = 1 .. Len(tables)
  BY DEF ScopesInv, GoodTables
<1>2. T \subseteq Nat /\ T # {}
  BY <1>1 DEF Declared
<1>3. PICK k \in T : \A m \in T : k <= m
  BY <1>2, Least
<1>4. k \in DOMAIN tables /\ Hit(k)
  BY <1>1, <1>3
<1>5. \E c \in DOMAIN tables : c = (CHOOSE j \in DOMAIN tables : Hit(j)) /\ Hit(c)
  BY <1>4
<1>6. FindEntry(i) = tables[CHOOSE c \in DOMAIN tables : Hit(c)][i]
  BY DEF FindEntry
<1> HIDE DEF Hit
<1>7. PICK c \in DOMAIN tables : FindEntry(i) = tables[c][i] /\ Hit(c)
  BY <1>5, <1>6
<1> QED
  BY <1>1, <1>7 DEF Hit

\* An entry names its identifier or an object.
LEMMA EntryNames ==
  ASSUME ScopesInv, NEW k \in 1 .. Len(tables), NEW i \in DOMAIN tables[k]
  PROVE  /\ i \in Idents
         /\ tables[k][i] \in EntryType
         /\ \/ tables[k][i].linkage /\ tables[k][i].name = i
            \/ ~tables[k][i].linkage /\ \E n \in DOMAIN objects : tables[k][i].name = objects[n]
<1>1. GoodTable(tables[k], Len(tables) - k, objects)
  BY DEF ScopesInv, GoodTables
<1>2. DOMAIN tables[k] \subseteq Idents /\ tables[k] \in [DOMAIN tables[k] -> EntryType]
  BY <1>1, TableIs DEF GoodTable
<1> QED
  BY <1>1, <1>2 DEF GoodTable, GoodEntry, EntryType

\* Using a name changes no table.
LEMMA ScopesUse ==
  ASSUME ScopesInv, NEW i \in Idents, Use(i)
  PROVE  ScopesInv'
<1>1. CASE ~Declared(i)
  BY <1>1, ScopesUnchanged DEF Use, Fail
<1>2. CASE Declared(i)
  <2>1. PICK k \in 1 .. Len(tables) : i \in DOMAIN tables[k] /\ FindEntry(i) = tables[k][i]
    BY <1>2, FoundEntry
  <2>2. used' = [name |-> tables[k][i].name]
    BY <1>2, <2>1 DEF Use
  <2>3. objects' = objects
    BY <1>2 DEF Use, scopeVars
  <2>4. \E name : /\ used' = [name |-> name]
                  /\ name \in Idents \/ \E n \in DOMAIN objects' : name = objects'[n]
    <3> DEFINE name == tables[k][i].name
    <3>1. name \in Idents \/ \E n \in DOMAIN objects' : name = objects'[n]
      BY <2>1, <2>3, EntryNames
    <3> HIDE DEF name
    <3>2. used' = [name |-> name]
      BY <2>2 DEF name
    <3> QED
      BY <3>1, <3>2
  <2>5. GoodUse'
    BY <2>4 DEF GoodUse
  <2> QED
    BY <1>2, <2>5 DEF Use, ScopesInv, scopeVars
<1> QED
  BY <1>1, <1>2

\* Every step keeps the tables in order.
LEMMA ScopesNext == ScopesInv /\ [Next]_vars => ScopesInv'
<1> SUFFICES ASSUME ScopesInv, [Next]_vars PROVE ScopesInv'
  OBVIOUS
<1>1. ASSUME NEW i \in Idents, FilescopeVar(i) PROVE ScopesInv'
  BY <1>1, ScopesLinked DEF FilescopeVar
<1>2. ASSUME NEW i \in Idents, EnterFunc(i) PROVE ScopesInv'
  <2>1. CASE i \in DOMAIN Innermost /\ ~Innermost[i].linkage
    BY <1>2, <2>1, ScopesUnchanged DEF EnterFunc, Fail
  <2>2. CASE i \in DOMAIN Innermost /\ Innermost[i].linkage
    BY <1>2, <2>2, GoodInnermost, ScopesEnter DEF EnterFunc
  <2>3. CASE i \notin DOMAIN Innermost
    <3>1. GoodTable(Put(Innermost, i, Entry(i, TRUE)), scope, objects)
      BY GoodInnermost, GoodNewEntry, GoodPut
    <3> QED
      BY <1>2, <2>3, <3>1, ScopesEnter DEF EnterFunc
  <2> QED
    BY <2>1, <2>2, <2>3
<1>3. ASSUME NEW i \in Idents, Param(i) PROVE ScopesInv'
  BY <1>3, ScopesUnchanged, ScopesObject DEF Param, Fail
<1>4. ASSUME NEW i \in Idents, NEW sc, LocalVar(i, sc) PROVE ScopesInv'
  BY <1>4, ScopesUnchanged, ScopesLinked, ScopesObject DEF LocalVar, Fail, InBody
<1>5. CASE ExitFunc
  BY <1>5, ScopesExit DEF ExitFunc
<1>6. CASE EnterBody
  <2>1. GoodKinds(kinds') /\ Len(kinds') = 2 /\ Len(kinds) = 2
    BY <1>6 DEF EnterBody, GoodKinds
  <2> QED
    BY <1>6, <2>1 DEF EnterBody, ScopesInv, GoodUse, scopeVars
<1>7. CASE EnterBlock
  BY <1>7, GoodInnermost, ScopesEnter DEF EnterBlock
<1>8. CASE ExitBlock
  BY <1>8, ScopesExit DEF ExitBlock
<1>9. ASSUME NEW l, Label(l) \/ Goto(l) PROVE ScopesInv'
  BY <1>9, ScopesUnchanged DEF Label, Goto, Fail, ScopesInv
<1>10. CASE ExitBody
  BY <1>10, ScopesUnchanged, ScopesExit DEF ExitBody, Fail
<1>11. CASE UNCHANGED vars
  BY <1>11, ScopesUnchanged DEF vars, ScopesInv
<1> QED
  BY <1>1, <1>2, <1>3, <1>4, <1>5, <1>6, <1>7, <1>8, <1>9, <1>10, <1>11, ScopesUse DEF Next

\* ScopesInv is an invariant.
LEMMA ScopesAlways == Spec => []ScopesInv
  BY ScopesInit, ScopesNext, PTL DEF Spec

-----------------------------------------------------------------------------

\* The scopes' part of the type invariant follows; the rest is of labels.
GoodGotos ==
  /\ labelIdx \in 0 .. MaxLabels
  /\ gotoNodes \in Seq([label : Labels, idx : Nat])

\* Inside a body labels_ht has the labels seen so far and gotos_to_check_ht
\* the last goto to each label that has one.
Collected ==
  /\ labelsHt = labelNodes
  /\ \A l : l \in DOMAIN gotosHt <=> \E n \in 1 .. Len(gotoNodes) : gotoNodes[n].label = l
  /\ \A l \in DOMAIN gotosHt :
       /\ gotosHt[l] \in 1 .. Len(gotoNodes)
       /\ gotoNodes[gotosHt[l]].label = l
       /\ \A m \in gotosHt[l] + 1 .. Len(gotoNodes) : gotoNodes[m].label # l

\* Outside, the nodes of the last function are as GotosResolved says.
Resolved ==
  \A n \in 1 .. Len(gotoNodes) :
    /\ gotoNodes[n].label \in DOMAIN labelNodes
    /\ (\A m \in n + 1 .. Len(gotoNodes) : gotoNodes[m].label # gotoNodes[n].label)
         => gotoNodes[n].idx = labelNodes[gotoNodes[n].label]

InFunction(ks) == \E k \in 1 .. Len(ks) : ks[k] = "body"

GotosInv ==
  /\ GoodGotos
  /\ labelNodes \in [DOMAIN labelNodes -> Nat]
  /\ IF InFunction(kinds) THEN Collected ELSE Resolved

\* A scope opened inside a function is inside it.
LEMMA InFunctionPushed ==
  ASSUME NEW ks, GoodKinds(ks), NEW x \in {"params", "block"}
  PROVE  InFunction(<<x>> \o ks) <=> InFunction(ks)
<1> DEFINE us == <<x>> \o ks
<1>1. /\ Len(us) = Len(ks) + 1
      /\ us[1] = x
      /\ \A k \in 1 .. Len(ks) : us[k + 1] = ks[k]
  BY PushedSeq DEF GoodKinds
<1> HIDE DEF us
<1>2. Len(ks) \in Nat
  BY DEF GoodKinds
<1>3. InFunction(us) => InFunction(ks)
  <2>1. ASSUME NEW k \in 1 .. Len(us), us[k] = "body"
        PROVE  InFunction(ks)
    <3>1. k - 1 \in 1 .. Len(ks) /\ us[k - 1 + 1] = ks[k - 1]
      BY <1>1, <1>2, <2>1
    <3> QED
      BY <2>1, <3>1 DEF InFunction
  <2> QED
    BY <2>1 DEF InFunction
<1>4. InFunction(ks) => InFunction(us)
  <2>1. ASSUME NEW k \in 1 .. Len(ks), ks[k] = "body"
        PROVE  InFunction(us)
    <3>1. k + 1 \in 1 .. Len(us) /\ us[k + 1] = ks[k]
      BY <1>1, <1>2
    <3> QED
      BY <2>1, <3>1 DEF InFunction
  <2> QED
    BY <2>1 DEF InFunction
<1> QED
  BY <1>3, <1>4 DEF us

\* Closing an inner scope does not leave the function.
LEMMA InFunctionPopped ==
  ASSUME NEW ks, GoodKinds(ks), ks # << >>, ks[1] # "body"
  PROVE  InFunction(Tail(ks)) <=> InFunction(ks)
<1>1. /\ Len(ks) \in Nat \ {0}
      /\ Len(Tail(ks)) = Len(ks) - 1
      /\ \A k \in 1 .. Len(ks) - 1 : Tail(ks)[k] = ks[k + 1]
  BY PoppedSeq DEF GoodKinds
<1>2. InFunction(Tail(ks)) => InFunction(ks)
  <2>1. ASSUME NEW k \in 1 .. Len(Tail(ks)), Tail(ks)[k] = "body"
        PROVE  InFunction(ks)
    <3>1. k + 1 \in 1 .. Len(ks) /\ ks[k + 1] = "body"
      BY <1>1, <2>1
    <3> QED
      BY <3>1 DEF InFunction
  <2> QED
    BY <2>1 DEF InFunction
<1>3. InFunction(ks) => InFunction(Tail(ks))
  <2>1. ASSUME NEW k \in 1 .. Len(ks), ks[k] = "body"
        PROVE  InFunction(Tail(ks))
    <3>1. k # 1 /\ k - 1 \in 1 .. Len(Tail(ks))
      BY <1>1, <2>1
    <3>2. Tail(ks)[k - 1] = ks[k - 1 + 1]
      BY <1>1, <3>1
    <3> QED
      BY <2>1, <3>1, <3>2 DEF InFunction
  <2> QED
    BY <2>1 DEF InFunction
<1> QED
  BY <1>2, <1>3

\* Where the parser is says whether there is a function around it.
LEMMA WhereInFunction ==
  ASSUME ScopesInv
  PROVE  /\ Kind = "file" => ~InFunction(kinds)
         /\ InBody => InFunction(kinds)
         /\ kinds # << >> /\ Kind = kinds[1]
         /\ Kind = "body" => Len(kinds) = 2 /\ Tail(kinds)[1] = "file"
<1>1. /\ Len(kinds) \in Nat \ {0} /\ Kind = kinds[1] /\ kinds # << >>
      /\ \A k \in 1 .. Len(kinds) - 1 : Tail(kinds)[k] = kinds[k + 1]
  BY PoppedSeq DEF ScopesInv, GoodKinds, Kind, GoodTables
<1>a. \A k \in 1 .. Len(kinds) :
        /\ kinds[k] = "file" <=> k = Len(kinds)
        /\ kinds[k] = "params" => k = 1
        /\ kinds[k] = "body" => k = Len(kinds) - 1
        /\ k = Len(kinds) - 1 => kinds[k] \in {"params", "body"}
  BY DEF ScopesInv, GoodKinds
<1>b. 1 \in 1 .. Len(kinds)
  BY <1>1
<1>2. ASSUME Kind = "body" PROVE Len(kinds) = 2 /\ Tail(kinds)[1] = "file"
  <2>1. Len(kinds) = 2
    <3>1. kinds[1] = "body" => 1 = Len(kinds) - 1
      BY <1>a, <1>b
    <3>2. 1 = Len(kinds) - 1
      BY <1>1, <1>2, <3>1
    <3> QED
      BY <1>1, <3>2
  <2>2. kinds[2] = "file"
    BY <1>a, <2>1
  <2> QED
    BY <1>1, <2>1, <2>2
<1>3. ASSUME Kind = "file" PROVE ~InFunction(kinds)
  <2>1. Len(kinds) = 1
    BY <1>1, <1>3, <1>a, <1>b
  <2>2. \A k \in 1 .. Len(kinds) : k = 1
    BY <2>1
  <2>3. kinds[1] # "body"
    BY <1>1, <1>3
  <2> QED
    BY <2>2, <2>3 DEF InFunction
<1>4. Kind = "block" => InFunction(kinds)
  <2> SUFFICES ASSUME Kind = "block" PROVE InFunction(kinds)
    OBVIOUS
  <2>1. Len(kinds) # 1 /\ Len(kinds) - 1 # 1
    BY <1>1 DEF ScopesInv, GoodKinds
  <2>2. Len(kinds) - 1 \in 1 .. Len(kinds) /\ kinds[Len(kinds) - 1] = "body"
    BY <1>1, <2>1 DEF ScopesInv, GoodKinds
  <2> QED
    BY <2>2 DEF InFunction
<1>5. Kind = "body" => InFunction(kinds)
  BY <1>1, <1>b DEF InFunction
<1> QED
  BY <1>1, <1>2, <1>3, <1>4, <1>5 DEF InBody

-----------------------------------------------------------------------------

\* There are no labels and gotos at first.
LEMMA GotosInit == Init => GotosInv
  BY BoundsAssumption
     DEF Init, GotosInv, GoodGotos, Collected, Resolved, InFunction, Empty, NoTable

\* Nothing happens to labels and gotos as long as the function is the same.
LEMMA GotosUnchanged ==
  ASSUME GotosInv, UNCHANGED gotoVars, InFunction(kinds') <=> InFunction(kinds)
  PROVE  GotosInv'
  BY DEF GotosInv, GoodGotos, Collected, Resolved, gotoVars

\* A label is entered under its name.
LEMMA GotosLabel ==
  ASSUME ScopesInv, GotosInv, NEW l \in Labels, Label(l)
  PROVE  GotosInv'
<1>1. CASE l \in DOMAIN labelsHt
  BY <1>1, GotosUnchanged DEF Label, Fail
<1>2. CASE l \notin DOMAIN labelsHt
  <2>1. Collected /\ InFunction(kinds')
    BY <1>2, WhereInFunction DEF Label, GotosInv
  <2>2. labelIdx' \in 0 .. MaxLabels /\ GoodGotos'
    BY <1>2, BoundsAssumption DEF Label, GotosInv, GoodGotos
  <2>3. labelNodes' \in [DOMAIN labelNodes' -> Nat]
    BY <1>2, <2>2, BoundsAssumption DEF Label, GotosInv, Put
  <2>4. Collected'
    BY <1>2, <2>1 DEF Label, Collected
  <2> QED
    BY <2>1, <2>2, <2>3, <2>4 DEF GotosInv
<1> QED
  BY <1>1, <1>2

\* A goto is entered to be checked at the end of the body.
LEMMA GotosGoto ==
  ASSUME ScopesInv, GotosInv, NEW l \in Labels, Goto(l)
  PROVE  GotosInv'
<1> DEFINE node == [label |-> l, idx |-> 0]
<1>1. Collected /\ InFunction(kinds')
  BY WhereInFunction DEF Goto, GotosInv
<1>2. gotoNodes \in Seq([label : Labels, idx : Nat]) /\ Len(gotoNodes) \in Nat
  BY DEF GotosInv, GoodGotos
<1>3. /\ gotoNodes' \in Seq([label : Labels, idx : Nat])
      /\ Len(gotoNodes') = Len(gotoNodes) + 1
      /\ gotoNodes'[Len(gotoNodes) + 1] = node
      /\ \A n \in 1 .. Len(gotoNodes) : gotoNodes'[n] = gotoNodes[n]
  BY <1>2 DEF Goto
<1>4. /\ \A k : k \in DOMAIN gotosHt' <=> k \in DOMAIN gotosHt \/ k = l
      /\ gotosHt'[l] = Len(gotoNodes) + 1
      /\ \A k \in DOMAIN gotosHt : k # l => gotosHt'[k] = gotosHt[k]
  BY <1>3 DEF Goto, Put
<1>5. labelsHt' = labelNodes' /\ UNCHANGED <<labelNodes, labelIdx>>
  BY <1>1 DEF Goto, Collected
<1>6. ASSUME NEW k
      PROVE  k \in DOMAIN gotosHt' <=> \E n \in 1 .. Len(gotoNodes') : gotoNodes'[n].label = k
  <2>1. (\E n \in 1 .. Len(gotoNodes') : gotoNodes'[n].label = k)
          <=> (\E n \in 1 .. Len(gotoNodes) : gotoNodes[n].label = k) \/ k = l
    <3>1. gotoNodes'[Len(gotoNodes) + 1].label = l
      BY <1>3
    <3>2. /\ \A n \in 1 .. Len(gotoNodes') : n \in 1 .. Len(gotoNodes) \/ n = Len(gotoNodes) + 1
          /\ \A n \in 1 .. Len(gotoNodes) : n \in 1 .. Len(gotoNodes')
          /\ Len(gotoNodes) + 1 \in 1 .. Len(gotoNodes')
      BY <1>2, <1>3
    <3> QED
      BY <1>3, <3>1, <3>2, Zenon
  <2> QED
    BY <1>1, <1>4, <2>1 DEF Collected
<1>7. ASSUME NEW k \in DOMAIN gotosHt'
      PROVE  /\ gotosHt'[k] \in 1 .. Len(gotoNodes')
             /\ gotoNodes'[gotosHt'[k]].label = k
             /\ \A m \in gotosHt'[k] + 1 .. Len(gotoNodes') : gotoNodes'[m].label # k
  <2>1. CASE k = l
    BY <1>2, <1>3, <1>4, <2>1
  <2>2. CASE k # l
    <3>1. /\ gotosHt'[k] = gotosHt[k]
          /\ gotosHt[k] \in 1 .. Len(gotoNodes)
          /\ gotoNodes[gotosHt[k]].label = k
          /\ \A m \in gotosHt[k] + 1 .. Len(gotoNodes) : gotoNodes[m].label # k
      BY <1>1, <1>4, <1>7, <2>2 DEF Collected
    <3>2. \A m \in gotosHt[k] + 1 .. Len(gotoNodes') :
            m \in gotosHt[k] + 1 .. Len(gotoNodes) \/ m = Len(gotoNodes) + 1
      BY <1>2, <1>3, <3>1
    <3>3. \A m \in gotosHt[k] + 1 .. Len(gotoNodes) : m \in 1 .. Len(gotoNodes)
      BY <1>2, <3>1
    <3>a. gotoNodes'[Len(gotoNodes) + 1].label = l
      BY <1>3
    <3>4. \A m \in gotosHt[k] + 1 .. Len(gotoNodes') : gotoNodes'[m].label # k
      <4>1. ASSUME NEW m \in gotosHt[k] + 1 .. Len(gotoNodes')
            PROVE  gotoNodes'[m].label # k
        <5>1. CASE m = Len(gotoNodes) + 1
          BY <2>2, <3>a, <5>1
        <5>2. CASE m \in gotosHt[k] + 1 .. Len(gotoNodes)
          <6>1. gotoNodes'[m] = gotoNodes[m]
            BY <1>3, <3>3, <5>2
          <6> QED
            BY <3>1, <5>2, <6>1
        <5> QED
          BY <3>2, <5>1, <5>2
      <4> QED
        BY <4>1
    <3>5. gotosHt[k] \in 1 .. Len(gotoNodes') /\ gotoNodes'[gotosHt[k]] = gotoNodes[gotosHt[k]]
      BY <1>2, <1>3, <3>1
    <3> QED
      BY <3>1, <3>4, <3>5, Zenon
  <2> QED
    BY <2>1, <2>2
<1>8. Collected'
  BY <1>5, <1>6, <1>7 DEF Collected
<1> QED
  BY <1>1, <1>3, <1>5, <1>8 DEF GotosInv, GoodGotos

\* exit_func_with_body gives its index to the last goto of each label.
LEMMA GotosExitBody ==
  ASSUME ScopesInv, GotosInv, ExitBody
  PROVE  GotosInv'
<1>1. CASE ~(DOMAIN gotosHt \subseteq DOMAIN labelsHt)
  BY <1>1, GotosUnchanged DEF ExitBody, Fail
<1>2. CASE DOMAIN gotosHt \subseteq DOMAIN labelsHt
  <2>1. Collected /\ Kind = "body"
    BY WhereInFunction DEF ExitBody, GotosInv, InBody
  <2>2. ~InFunction(kinds')
    <3>0. kinds' = Tail(kinds)
      BY <1>2 DEF ExitBody
    <3>1. Tail(kinds)[1] = "file" /\ Len(Tail(kinds)) = 1
      <4>1. Len(kinds) = 2 /\ Tail(kinds)[1] = "file"
        BY <2>1, WhereInFunction
      <4>2. kinds \in Seq({"file", "params", "body", "block"}) /\ kinds # << >>
        BY WhereInFunction DEF ScopesInv, GoodKinds
      <4>3. Len(Tail(kinds)) = Len(kinds) - 1
        BY <4>2, PoppedSeq
      <4> QED
        BY <4>1, <4>3
    <3> QED
      BY <3>0, <3>1 DEF InFunction
  <2>3. gotoNodes \in Seq([label : Labels, idx : Nat]) /\ Len(gotoNodes) \in Nat
        /\ DOMAIN gotoNodes = 1 .. Len(gotoNodes)
    BY SeqElement DEF GotosInv, GoodGotos
  <2> DEFINE Node(n) == IF gotosHt[gotoNodes[n].label] = n
                        THEN [label |-> gotoNodes[n].label, idx |-> labelsHt[gotoNodes[n].label]]
                        ELSE gotoNodes[n]
  <2>4. gotoNodes' = [n \in 1 .. Len(gotoNodes) |-> Node(n)]
    BY <1>2, <2>3 DEF ExitBody
  <2>5. ASSUME NEW n \in 1 .. Len(gotoNodes)
        PROVE  /\ Node(n) \in [label : Labels, idx : Nat]
               /\ Node(n).label = gotoNodes[n].label
               /\ gotoNodes[n].label \in DOMAIN labelNodes
    <3>1. gotoNodes[n].label \in DOMAIN gotosHt /\ gotoNodes[n].label \in DOMAIN labelNodes
      BY <1>2, <2>1 DEF Collected
    <3>2. labelsHt[gotoNodes[n].label] \in Nat
      BY <2>1, <3>1 DEF Collected, GotosInv
    <3>3. gotoNodes[n] \in [label : Labels, idx : Nat]
      BY <2>3, SeqElement
    <3>4. gotoNodes[n].label \in Labels
      BY <3>3
    <3> QED
      BY <3>1, <3>2, <3>3, <3>4
  <2>6. labelNodes' = labelNodes /\ labelIdx' = labelIdx
    BY <1>2 DEF ExitBody
  <2> HIDE DEF Node
  <2>7. gotoNodes' \in Seq([label : Labels, idx : Nat]) /\ Len(gotoNodes') = Len(gotoNodes)
    BY <2>3, <2>4, <2>5
  <2>8. \A n \in 1 .. Len(gotoNodes) : gotoNodes'[n] = Node(n)
    BY <2>4
  <2>9. ASSUME NEW n \in 1 .. Len(gotoNodes),
               \A m \in n + 1 .. Len(gotoNodes) : gotoNodes'[m].label # gotoNodes'[n].label
        PROVE  gotoNodes'[n].idx = labelNodes[gotoNodes[n].label]
    <3> DEFINE l == gotoNodes[n].label
    <3>1. \A m \in n + 1 .. Len(gotoNodes) : gotoNodes[m].label # l
      <4>1. \A m \in n + 1 .. Len(gotoNodes) : m \in 1 .. Len(gotoNodes)
        BY <2>3
      <4> QED
        BY <2>5, <2>8, <2>9, <4>1
    <3>2. /\ gotosHt[l] \in 1 .. Len(gotoNodes)
          /\ gotoNodes[gotosHt[l]].label = l
          /\ \A m \in gotosHt[l] + 1 .. Len(gotoNodes) : gotoNodes[m].label # l
      BY <2>1 DEF Collected
    <3>3. gotosHt[l] = n
      BY <2>3, <3>1, <3>2
    <3>4. labelsHt = labelNodes
      BY <2>1 DEF Collected
    <3>5. Node(n) = [label |-> gotoNodes[n].label, idx |-> labelNodes[gotoNodes[n].label]]
      BY <3>3, <3>4 DEF Node
    <3> QED
      BY <2>8, <3>5
  <2>10. Resolved'
    BY <2>5, <2>6, <2>7, <2>8, <2>9 DEF Resolved
  <2> QED
    BY <2>2, <2>6, <2>7, <2>10 DEF GotosInv, GoodGotos
<1> QED
  BY <1>1, <1>2

\* Every step keeps labels and gotos in step with the tables of the body.
LEMMA GotosNext == ScopesInv /\ GotosInv /\ [Next]_vars => GotosInv'
<1> SUFFICES ASSUME ScopesInv, GotosInv, [Next]_vars PROVE GotosInv'
  OBVIOUS
<1>a. GoodKinds(kinds) /\ kinds # << >> /\ Kind = kinds[1]
  BY WhereInFunction DEF ScopesInv
<1>1. ASSUME NEW i \in Idents, FilescopeVar(i) \/ Param(i) \/ Use(i) PROVE GotosInv'
  BY <1>1, GotosUnchanged DEF FilescopeVar, Param, Use, Fail
<1>2. ASSUME NEW i \in Idents, EnterFunc(i) PROVE GotosInv'
  BY <1>a, <1>2, GotosUnchanged, InFunctionPushed DEF EnterFunc, Fail
<1>3. ASSUME NEW i \in Idents, NEW sc, LocalVar(i, sc) PROVE GotosInv'
  BY <1>3, GotosUnchanged DEF LocalVar, Fail
<1>4. CASE ExitFunc \/ ExitBlock
  BY <1>a, <1>4, GotosUnchanged, InFunctionPopped DEF ExitFunc, ExitBlock
<1>5. CASE EnterBody
  <2>1. InFunction(kinds')
    BY <1>5 DEF EnterBody, InFunction
  <2>2. GoodGotos' /\ labelNodes' \in [DOMAIN labelNodes' -> Nat]
    BY <1>5 DEF EnterBody, GotosInv, GoodGotos, Empty
  <2>3. Collected'
    BY <1>5 DEF EnterBody, Collected, Empty
  <2> QED
    BY <2>1, <2>2, <2>3 DEF GotosInv
<1>6. CASE EnterBlock
  BY <1>a, <1>6, GotosUnchanged, InFunctionPushed DEF EnterBlock
<1>7. CASE UNCHANGED vars
  BY <1>7, GotosUnchanged DEF vars
<1> QED
  BY <1>1, <1>2, <1>3, <1>4, <1>5, <1>6, <1>7, GotosLabel, GotosGoto, GotosExitBody DEF Next

-----------------------------------------------------------------------------

\* Both invariants hold in every reachable state.
LEMMA ResolveAlways == Spec => [](ScopesInv /\ GotosInv)
<1>1. Init => ScopesInv /\ GotosInv
  BY ScopesInit, GotosInit
<1>2. ScopesInv /\ GotosInv /\ [Next]_vars => (ScopesInv /\ GotosInv)'
  BY ScopesNext, GotosNext
<1> QED
  BY <1>1, <1>2, PTL DEF Spec

\* The static counter, the list of tables and the constructs the parser is in
\* stay in step, and every entry is of the scope of its table.
THEOREM ResolveTypeCorrect == Spec => []TypeOK
<1>1. ScopesInv /\ GotosInv => TypeOK
  <2> SUFFICES ASSUME ScopesInv, GotosInv PROVE TypeOK
    OBVIOUS
  <2>1. DOMAIN tables = 1 .. Len(tables) /\ Len(tables) \in Nat \ {0}
    BY PoppedSeq DEF ScopesInv, GoodTables
  <2>2. \A k \in DOMAIN tables : tables[k] \in [DOMAIN tables[k] -> EntryType]
    BY <2>1, TableIs DEF ScopesInv, GoodTables
  <2>3. \A k \in DOMAIN kinds : kinds[k] \in {"file", "params", "body", "block"}
    BY DEF ScopesInv, GoodKinds
  <2>4. nameIdx \in 0 .. MaxNames
    BY BoundsAssumption DEF ScopesInv, GoodObjects
  <2>5. scope \in 0 .. MaxScope
    BY <2>1, BoundsAssumption DEF ScopesInv
  <2>6. \A n \in DOMAIN gotoNodes : gotoNodes[n].label \in Labels
    <3>1. \A n \in DOMAIN gotoNodes : gotoNodes[n] \in [label : Labels, idx : Nat]
      BY SeqElement DEF GotosInv, GoodGotos
    <3> QED
      BY <3>1
  <2> QED
    BY <2>2, <2>3, <2>4, <2>5, <2>6 DEF TypeOK, ScopesInv, GotosInv, GoodGotos
<1> QED
  BY <1>1, ResolveAlways, PTL

\* After a function every goto of it names one of its labels, and the last
\* goto to a label has its index.
THEOREM GotosAreResolved == Spec => []GotosResolved
<1>1. ScopesInv /\ GotosInv => GotosResolved
  BY WhereInFunction DEF GotosInv, GoodGotos, Resolved, GotosResolved
<1> QED
  BY <1>1, ResolveAlways, PTL

-----------------------------------------------------------------------------

\* A name is one object's at most: it ends in the number of the object.
LEMMA ObjectNames ==
  ASSUME NEW objs, GoodObjects(objs), NEW n \in DOMAIN objs
  PROVE  /\ \E i \in Idents : objs[n] = Suffixed(i, n)
         /\ \A m \in DOMAIN objs : objs[m] = objs[n] => m = n
<1>1. /\ DOMAIN objs = 1 .. Len(objs)
      /\ \A m \in DOMAIN objs : m \in 1 .. MaxNames
      /\ \A m \in DOMAIN objs : \E i \in Idents : objs[m] = Suffixed(i, m)
  BY SeqElement, BoundsAssumption DEF GoodObjects
<1>2. ASSUME NEW m \in DOMAIN objs, objs[m] = objs[n]
      PROVE  m = n
  BY <1>1, <1>2, SuffixAssumption
<1> QED
  BY <1>1, <1>2

\* It is no identifier's, if the program has none like it.
LEMMA ObjectNamesPlain ==
  ASSUME PlainIdents, NEW objs, GoodObjects(objs), NEW n \in DOMAIN objs
  PROVE  objs[n] \notin Idents
<1>1. n \in 1 .. MaxNames
  BY SeqElement, BoundsAssumption DEF GoodObjects
<1> QED
  BY <1>1, ObjectNames DEF PlainIdents

\* Later phases can tell objects apart by name whatever the identifiers of the
\* program are, and an object from what has linkage around it unless this is
\* spelled like the object's identifier with the object's own number.
THEOREM NamesAreUnique == Spec => []NamesUnique
<1>1. ScopesInv => NamesUnique
  <2> SUFFICES ASSUME ScopesInv PROVE NamesUnique
    OBVIOUS
  <2>1. \A m, n \in DOMAIN objects : m # n => objects[m] # objects[n]
    BY ObjectNames DEF ScopesInv
  <2>2. ASSUME NEW k \in DOMAIN tables, NEW n \in DOMAIN objects,
               NEW i \in DOMAIN tables[k], tables[k][i].linkage,
               tables[k][i].name = objects[n]
        PROVE  \E j \in Idents : i = Suffixed(j, n)
    <3>1. k \in 1 .. Len(tables)
      BY SeqElement DEF ScopesInv, GoodTables
    <3>2. tables[k][i].name = i
      BY <2>2, <3>1, EntryNames
    <3>3. \E j \in Idents : objects[n] = Suffixed(j, n)
      BY ObjectNames DEF ScopesInv
    <3> QED
      BY <2>2, <3>2, <3>3
  <2> QED
    BY <2>1, <2>2 DEF NamesUnique
<1> QED
  BY <1>1, ScopesAlways, PTL

-----------------------------------------------------------------------------

\* The refinement, again on values.
EntIn(objs, name) ==
  IF \E n \in DOMAIN objs : objs[n] = name
  THEN [object |-> CHOOSE n \in DOMAIN objs : objs[n] = name]
  ELSE [ident |-> name]

DeclIn(t, i, objs) == [ident |-> i, depth |-> t[i].scope, entity |-> EntIn(objs, t[i].name)]

DeclsIn(ts, objs) == UNION {{DeclIn(ts[k], i, objs) : i \in DOMAIN ts[k]} : k \in DOMAIN ts}

\* The declarations in force, before and after a step.
LEMMA DeclsAre ==
  /\ DeclsInTables = DeclsIn(tables, objects)
  /\ DeclsInTables' = DeclsIn(tables', objects')
  BY DEF DeclsInTables, DeclsIn, DeclIn, EntityOf, EntIn

\* The entity used, before and after a step.
LEMMA BoundIs ==
  /\ Bound = IF used = NoUse THEN [none |-> TRUE] ELSE EntIn(objects, used.name)
  /\ Bound' = IF used' = NoUse THEN [none |-> TRUE] ELSE EntIn(objects', used'.name)
  BY DEF Bound, EntityOf, EntIn, NoUse

\* A declaration is in force if one of the tables has it.
LEMMA InDecls ==
  ASSUME NEW ts, GoodTables(ts, objects) \/ ts \in Seq(Table), NEW objs, NEW d
  PROVE  d \in DeclsIn(ts, objs)
           <=> \E k \in 1 .. Len(ts) : \E i \in DOMAIN ts[k] : d = DeclIn(ts[k], i, objs)
<1>1. DOMAIN ts = 1 .. Len(ts)
  BY SeqElement DEF GoodTables
<1> QED
  BY <1>1 DEF DeclsIn

\* What a name stands for: an identifier what is linked under it, an object's
\* name the object.
LEMMA EntOfIdent ==
  ASSUME PlainIdents, NEW objs, GoodObjects(objs), NEW i \in Idents
  PROVE  EntIn(objs, i) = [ident |-> i]
  BY ObjectNamesPlain DEF EntIn

\* The name of an object denotes this object and nothing else.
LEMMA EntOfObject ==
  ASSUME PlainIdents, NEW objs, GoodObjects(objs), NEW n \in DOMAIN objs
  PROVE  EntIn(objs, objs[n]) = [object |-> n]
<1>1. \A m \in DOMAIN objs : objs[m] = objs[n] => m = n
  BY ObjectNames
<1>2. (CHOOSE m \in DOMAIN objs : objs[m] = objs[n]) = n
  BY <1>1
<1> QED
  BY <1>2 DEF EntIn

\* Declaring another object changes neither.
LEMMA EntGrown ==
  ASSUME PlainIdents, NEW objs, NEW more, GoodObjects(objs), GoodObjects(more),
         \A n \in DOMAIN objs : n \in DOMAIN more /\ more[n] = objs[n],
         NEW name, name \in Idents \/ \E n \in DOMAIN objs : name = objs[n]
  PROVE  EntIn(more, name) = EntIn(objs, name)
<1>1. CASE name \in Idents
  BY <1>1, EntOfIdent
<1>2. ASSUME NEW n \in DOMAIN objs, name = objs[n]
      PROVE  EntIn(more, name) = EntIn(objs, name)
  BY <1>2, EntOfObject
<1> QED
  BY <1>1, <1>2

\* The entry of i in the k-th table declares i at the depth of the table.
LEMMA DeclOfEntry ==
  ASSUME PlainIdents, ScopesInv, NEW k \in 1 .. Len(tables), NEW i \in DOMAIN tables[k]
  PROVE  /\ DeclIn(tables[k], i, objects).ident = i
         /\ DeclIn(tables[k], i, objects).depth = Len(tables) - k
         /\ tables[k][i].linkage => DeclIn(tables[k], i, objects).entity = [ident |-> i]
<1>1. tables[k][i].scope = Len(tables) - k
  BY DEF ScopesInv, GoodTables, GoodTable, GoodEntry
<1>2. tables[k][i].linkage => EntIn(objects, tables[k][i].name) = [ident |-> i]
  BY EntryNames, EntOfIdent DEF ScopesInv
<1> QED
  BY <1>1, <1>2 DEF DeclIn

-----------------------------------------------------------------------------

\* A new scope declares nothing.
LEMMA DeclsPushed ==
  ASSUME NEW ts \in Seq(Table), NEW objs
  PROVE  DeclsIn(<<Empty>> \o ts, objs) = DeclsIn(ts, objs)
<1> DEFINE us == <<Empty>> \o ts
<1>1. /\ us \in Seq(Table) /\ Len(us) = Len(ts) + 1
      /\ us[1] = Empty
      /\ \A k \in 1 .. Len(ts) : us[k + 1] = ts[k]
  BY PushedSeq, EmptyTable
<1> HIDE DEF us
<1>2. Len(ts) \in Nat
  OBVIOUS
<1>3. ASSUME NEW d \in DeclsIn(us, objs)
      PROVE  d \in DeclsIn(ts, objs)
  <2>1. PICK k \in 1 .. Len(us) : \E i \in DOMAIN us[k] : d = DeclIn(us[k], i, objs)
    BY <1>1, InDecls
  <2>2. k # 1
    BY <1>1, <2>1, EmptyTable
  <2>3. k - 1 \in 1 .. Len(ts) /\ us[k - 1 + 1] = us[k]
    BY <1>1, <1>2, <2>2
  <2>4. ts[k - 1] = us[k]
    BY <1>1, <2>3
  <2> QED
    BY <2>1, <2>3, <2>4, InDecls
<1>4. ASSUME NEW d \in DeclsIn(ts, objs)
      PROVE  d \in DeclsIn(us, objs)
  <2>1. PICK k \in 1 .. Len(ts) : \E i \in DOMAIN ts[k] : d = DeclIn(ts[k], i, objs)
    BY InDecls
  <2>2. k + 1 \in 1 .. Len(us) /\ us[k + 1] = ts[k]
    BY <1>1, <1>2
  <2> QED
    BY <1>1, <2>1, <2>2, InDecls
<1> QED
  BY <1>3, <1>4 DEF us

\* Replacing the entry of i by one that declares the same, or adding one.
LEMMA DeclsReplaced ==
  ASSUME NEW ts \in Seq(Table), ts # << >>, NEW objs, NEW i \in Idents, NEW e \in EntryType,
         i \in DOMAIN ts[1] => DeclIn(ts[1], i, objs) = DeclIn(Put(ts[1], i, e), i, objs)
  PROVE  DeclsIn(<<Put(ts[1], i, e)>> \o Tail(ts), objs)
           = DeclsIn(ts, objs) \cup {DeclIn(Put(ts[1], i, e), i, objs)}
<1> DEFINE t == Put(ts[1], i, e)
           us == <<t>> \o Tail(ts)
<1>1. Len(ts) \in Nat \ {0} /\ ts[1] \in Table
  BY SeqElement
<1>2. /\ t \in Table
      /\ DOMAIN t = DOMAIN ts[1] \cup {i}
      /\ \A j \in DOMAIN ts[1] : j # i => t[j] = ts[1][j]
  BY <1>1, PutTable
<1>3. /\ us \in Seq(Table) /\ Len(us) = Len(ts)
      /\ us[1] = t
      /\ \A k \in 2 .. Len(ts) : us[k] = ts[k]
  BY <1>2, ReplacedSeq
<1> HIDE DEF t, us
<1>4. \A j \in DOMAIN ts[1] : j # i => DeclIn(t, j, objs) = DeclIn(ts[1], j, objs)
  BY <1>2 DEF DeclIn
<1>5. ASSUME NEW d \in DeclsIn(us, objs)
      PROVE  d \in DeclsIn(ts, objs) \/ d = DeclIn(t, i, objs)
  <2>1. PICK k \in 1 .. Len(us) : \E j \in DOMAIN us[k] : d = DeclIn(us[k], j, objs)
    BY <1>3, InDecls
  <2>2. PICK j \in DOMAIN us[k] : d = DeclIn(us[k], j, objs)
    BY <2>1
  <2>3. CASE k = 1
    <3>1. CASE j = i
      BY <1>3, <2>2, <2>3, <3>1
    <3>2. CASE j # i
      <4>1. j \in DOMAIN ts[1] /\ d = DeclIn(ts[1], j, objs) /\ 1 \in 1 .. Len(ts)
        BY <1>1, <1>2, <1>3, <1>4, <2>2, <2>3, <3>2
      <4> QED
        BY <4>1, InDecls
    <3> QED
      BY <3>1, <3>2
  <2>4. CASE k # 1
    <3>1. k \in 1 .. Len(ts) /\ us[k] = ts[k]
      BY <1>1, <1>3, <2>4
    <3> QED
      BY <2>2, <3>1, InDecls
  <2> QED
    BY <2>3, <2>4
<1>6. ASSUME NEW d, d \in DeclsIn(ts, objs) \/ d = DeclIn(t, i, objs)
      PROVE  d \in DeclsIn(us, objs)
  <2>1. CASE d = DeclIn(t, i, objs)
    <3>1. 1 \in 1 .. Len(us) /\ i \in DOMAIN us[1] /\ d = DeclIn(us[1], i, objs)
      BY <1>1, <1>2, <1>3, <2>1
    <3> QED
      BY <1>3, <3>1, InDecls
  <2>2. CASE d \in DeclsIn(ts, objs)
    <3>1. PICK k \in 1 .. Len(ts) : \E j \in DOMAIN ts[k] : d = DeclIn(ts[k], j, objs)
      BY <2>2, InDecls
    <3>2. PICK j \in DOMAIN ts[k] : d = DeclIn(ts[k], j, objs)
      BY <3>1
    <3>3. CASE k = 1 /\ j = i
      BY <2>1, <3>2, <3>3 DEF t
    <3>4. CASE k = 1 /\ j # i
      <4>1. j \in DOMAIN us[1] /\ d = DeclIn(us[1], j, objs) /\ 1 \in 1 .. Len(us)
        BY <1>1, <1>2, <1>3, <1>4, <3>2, <3>4
      <4> QED
        BY <1>3, <4>1, InDecls
    <3>5. CASE k # 1
      <4>1. k \in 1 .. Len(us) /\ us[k] = ts[k]
        BY <1>1, <1>3, <3>5
      <4> QED
        BY <1>3, <3>2, <4>1, InDecls
    <3> QED
      BY <3>3, <3>4, <3>5
  <2> QED
    BY <1>6, <2>1, <2>2
<1>7. DeclsIn(us, objs) = DeclsIn(ts, objs) \cup {DeclIn(t, i, objs)}
  BY <1>5, <1>6
<1> QED
  BY <1>7 DEF t, us

\* Leaving a scope ends exactly the declarations of its depth.
LEMMA DeclsPopped ==
  ASSUME PlainIdents, ScopesInv, Len(tables) # 1
  PROVE  DeclsIn(Tail(tables), objects) = {d \in DeclsIn(tables, objects) : d.depth < scope}
<1> DEFINE us == Tail(tables)
<1>0. tables \in Seq(Table) /\ tables # << >> /\ scope = Len(tables) - 1
  BY DEF ScopesInv, GoodTables
<1>1. /\ Len(tables) \in Nat \ {0}
      /\ us \in Seq(Table) /\ Len(us) = Len(tables) - 1
      /\ \A k \in 1 .. Len(tables) - 1 : us[k] = tables[k + 1]
  BY <1>0, PoppedSeq
<1> HIDE DEF us
<1>2. ASSUME NEW d \in DeclsIn(us, objects)
      PROVE  d \in DeclsIn(tables, objects) /\ d.depth < scope
  <2>1. PICK k \in 1 .. Len(us) : \E i \in DOMAIN us[k] : d = DeclIn(us[k], i, objects)
    BY <1>1, InDecls
  <2>2. k + 1 \in 1 .. Len(tables) /\ us[k] = tables[k + 1] /\ k \in Nat /\ k > 0
    BY <1>1
  <2>3. PICK i \in DOMAIN tables[k + 1] : d = DeclIn(tables[k + 1], i, objects)
    BY <2>1, <2>2
  <2>4. d.depth = Len(tables) - (k + 1)
    BY <2>2, <2>3, DeclOfEntry
  <2>5. d.depth < scope
    BY <1>0, <1>1, <2>2, <2>4
  <2> QED
    BY <1>0, <2>2, <2>3, <2>5, InDecls
<1>3. ASSUME NEW d \in DeclsIn(tables, objects), d.depth < scope
      PROVE  d \in DeclsIn(us, objects)
  <2>1. PICK k \in 1 .. Len(tables) : \E i \in DOMAIN tables[k] : d = DeclIn(tables[k], i, objects)
    BY <1>0, InDecls
  <2>2. PICK i \in DOMAIN tables[k] : d = DeclIn(tables[k], i, objects)
    BY <2>1
  <2>3. d.depth = Len(tables) - k
    BY <2>2, DeclOfEntry
  <2>4. k # 1
    BY <1>0, <1>1, <1>3, <2>3
  <2>5. k - 1 \in 1 .. Len(us)
    BY <1>1, <2>4
  <2>6. us[k - 1] = tables[k]
    <3>1. us[k - 1] = tables[k - 1 + 1]
      BY <1>1, <2>5
    <3> QED
      BY <1>1, <3>1
  <2> QED
    BY <1>1, <2>2, <2>5, <2>6, InDecls
<1>4. us = Tail(tables)
  BY DEF us
<1> QED
  BY <1>2, <1>3, <1>4

\* New objects do not change what the old names denote.
LEMMA DeclsGrown ==
  ASSUME PlainIdents, ScopesInv, NEW more, GoodObjects(more),
         \A n \in DOMAIN objects : n \in DOMAIN more /\ more[n] = objects[n]
  PROVE  DeclsIn(tables, more) = DeclsIn(tables, objects)
<1>1. tables \in Seq(Table)
  BY DEF ScopesInv, GoodTables
<1>2. ASSUME NEW k \in 1 .. Len(tables), NEW i \in DOMAIN tables[k]
      PROVE  DeclIn(tables[k], i, more) = DeclIn(tables[k], i, objects)
  <2>1. EntIn(more, tables[k][i].name) = EntIn(objects, tables[k][i].name)
    <3>1. tables[k][i].name \in Idents \/ \E n \in DOMAIN objects : tables[k][i].name = objects[n]
      BY EntryNames
    <3> QED
      BY <3>1, EntGrown DEF ScopesInv
  <2> QED
    BY <2>1 DEF DeclIn
<1>3. ASSUME NEW d
      PROVE  d \in DeclsIn(tables, more) <=> d \in DeclsIn(tables, objects)
  BY <1>1, <1>2, InDecls
<1> QED
  BY <1>3

-----------------------------------------------------------------------------

\* The declarations in force in the current scope are the innermost table.
LEMMA DeclsHere ==
  ASSUME PlainIdents, ScopesInv, NEW i, NEW d \in C!Here(i)
  PROVE  /\ i \in DOMAIN Innermost
         /\ Innermost[i].linkage => d.entity = [ident |-> i]
<1>1. /\ tables \in Seq(Table) /\ scope = Len(tables) - 1
      /\ Innermost = tables[1] /\ Len(tables) \in Nat \ {0}
  BY PoppedSeq DEF ScopesInv, GoodTables, Innermost
<1>2. d \in DeclsIn(tables, objects) /\ d.ident = i /\ d.depth = scope
  BY DeclsAre DEF C!Here
<1>3. PICK k \in 1 .. Len(tables) : \E j \in DOMAIN tables[k] : d = DeclIn(tables[k], j, objects)
  BY <1>1, <1>2, InDecls
<1>4. PICK j \in DOMAIN tables[k] : d = DeclIn(tables[k], j, objects)
  BY <1>3
<1>5. j = i /\ Len(tables) - k = scope
  BY <1>2, <1>4, DeclOfEntry
<1>6. k = 1
  BY <1>1, <1>5
<1> QED
  BY <1>1, <1>4, <1>5, <1>6, DeclOfEntry

\* ht_set of an entry with linkage, where there was none or one with linkage.
LEMMA LinkedStep ==
  ASSUME PlainIdents, ScopesInv, NEW i \in Idents,
         i \in DOMAIN Innermost => Innermost[i].linkage
  PROVE  /\ \A d \in C!Here(i) : d.entity = [ident |-> i]
         /\ DeclsIn(WithInnermost(Put(Innermost, i, Entry(i, TRUE))), objects)
              = DeclsInTables \cup {[ident |-> i, depth |-> scope, entity |-> [ident |-> i]]}
<1> DEFINE e == Entry(i, TRUE)
           new == [ident |-> i, depth |-> scope, entity |-> [ident |-> i]]
<1>1. /\ tables \in Seq(Table) /\ tables # << >> /\ scope = Len(tables) - 1
      /\ Innermost = tables[1] /\ Len(tables) \in Nat \ {0}
  BY PoppedSeq DEF ScopesInv, GoodTables, Innermost
<1>2. e \in EntryType
  BY GoodNewEntry
<1>3. Put(Innermost, i, e)[i] = e
  BY <1>2, PutTable, GoodInnermost DEF GoodTable
<1>4. DeclIn(Put(Innermost, i, e), i, objects) = new
  <2>1. EntIn(objects, i) = [ident |-> i]
    BY EntOfIdent DEF ScopesInv
  <2> QED
    BY <1>3, <2>1 DEF DeclIn, Entry
<1>5. ASSUME i \in DOMAIN tables[1]
      PROVE  DeclIn(tables[1], i, objects) = new
  <2>1. /\ tables[1][i].linkage /\ 1 \in 1 .. Len(tables)
        /\ tables[1][i].name = i
    BY <1>1, <1>5, EntryNames
  <2>2. tables[1][i].scope = Len(tables) - 1
    BY <1>5, <2>1 DEF ScopesInv, GoodTables, GoodTable, GoodEntry
  <2>3. EntIn(objects, i) = [ident |-> i]
    BY EntOfIdent DEF ScopesInv
  <2> QED
    BY <1>1, <2>1, <2>2, <2>3 DEF DeclIn
<1> HIDE DEF e, new
<1>6. DeclsIn(<<Put(Innermost, i, e)>> \o Tail(tables), objects) = DeclsInTables \cup {new}
  BY <1>1, <1>2, <1>4, <1>5, DeclsReplaced, DeclsAre
<1>7. \A d \in C!Here(i) : d.entity = [ident |-> i]
  BY DeclsHere
<1> QED
  BY <1>6, <1>7 DEF WithInnermost, e, new

\* What the last use denotes stays the same.
LEMMA BoundUnchanged ==
  ASSUME PlainIdents, ScopesInv, used' = used, GoodObjects(objects'),
         \A n \in DOMAIN objects : n \in DOMAIN objects' /\ objects'[n] = objects[n]
  PROVE  Bound' = Bound
<1>1. CASE used = NoUse
  BY <1>1, BoundIs
<1>2. ASSUME NEW name, used = [name |-> name],
             name \in Idents \/ \E n \in DOMAIN objects : name = objects[n]
      PROVE  Bound' = Bound
  <2>1. EntIn(objects', name) = EntIn(objects, name)
    BY <1>2, EntGrown DEF ScopesInv
  <2> QED
    BY <1>2, <2>1, BoundIs
<1> QED
  BY <1>1, <1>2 DEF ScopesInv, GoodUse

\* A new object declares its identifier in the current scope.
LEMMA ObjectStep ==
  ASSUME PlainIdents, ScopesInv, ScopesInv', NEW i \in Idents, NewObject(i), used' = used,
         Kind # "file", i \notin DOMAIN Innermost
  PROVE  C!DeclareObject(i)
<1> DEFINE e == Entry(Suffixed(i, nameIdx'), FALSE)
           n == Len(objects) + 1
           new == [ident |-> i, depth |-> scope, entity |-> [object |-> n]]
<1>1. /\ tables \in Seq(Table) /\ tables # << >>
      /\ Innermost = tables[1] /\ Len(tables) \in Nat \ {0}
  BY PoppedSeq DEF ScopesInv, GoodTables, Innermost
<1>2. /\ objects' = Append(objects, Suffixed(i, nameIdx'))
      /\ tables' = <<Put(tables[1], i, e)>> \o Tail(tables)
      /\ nameIdx' \in 1 .. MaxNames /\ scope' = scope
  BY <1>1, BoundsAssumption DEF NewObject, GetName, SetInnermost, WithInnermost, ScopesInv, GoodObjects
<1>3. /\ Len(objects') = n /\ n \in DOMAIN objects' /\ objects'[n] = Suffixed(i, nameIdx')
      /\ \A m \in DOMAIN objects : m \in DOMAIN objects' /\ objects'[m] = objects[m]
  BY <1>2 DEF ScopesInv, GoodObjects
<1>4. GoodObjects(objects')
  BY DEF ScopesInv
<1>5. e \in EntryType
  BY <1>2, <1>1, BoundsAssumption DEF Entry, EntryType, Name, ScopesInv
<1>6. Put(tables[1], i, e)[i] = e
  <2>1. tables[1] \in Table
    BY <1>1, SeqElement
  <2> QED
    BY <1>5, <2>1, PutTable
<1>7. DeclIn(Put(tables[1], i, e), i, objects') = new
  <2>1. EntIn(objects', Suffixed(i, nameIdx')) = [object |-> n]
    BY <1>3, <1>4, EntOfObject
  <2> QED
    BY <1>6, <2>1 DEF DeclIn, Entry
<1> HIDE DEF e
<1>8. DeclsIn(tables', objects') = DeclsIn(tables, objects') \cup {DeclIn(Put(tables[1], i, e), i, objects')}
  BY <1>1, <1>2, <1>5, DeclsReplaced
<1>9. DeclsIn(tables, objects') = DeclsIn(tables, objects)
  BY <1>3, <1>4, DeclsGrown
<1>10. DeclsInTables' = DeclsInTables \cup {new}
  BY <1>7, <1>8, <1>9, DeclsAre
<1>11. Bound' = Bound
  BY <1>3, <1>4, BoundUnchanged
<1>12. C!Here(i) = {}
  BY DeclsHere
<1>13. scope > 0
  BY GoodInnermost
<1> QED
  BY <1>2, <1>3, <1>10, <1>11, <1>12, <1>13 DEF C!DeclareObject, C!Object

\* Leaving a scope closes one.
LEMMA ExitStep ==
  ASSUME PlainIdents, ScopesInv, ExitScope, Kind # "file", UNCHANGED <<objects, used>>
  PROVE  C!Close
<1>1. scope \in Nat /\ scope # 0 /\ Len(tables) # 1
  BY GoodInnermost DEF ScopesInv
<1>2. DeclsInTables' = {d \in DeclsInTables : d.depth < scope}
  BY <1>1, DeclsPopped, DeclsAre DEF ExitScope
<1>3. Bound' = Bound
  BY DEF Bound, EntityOf
<1> QED
  BY <1>1, <1>2, <1>3 DEF ExitScope, C!Close

\* A step that fails, or is about labels and gotos only.
LEMMA StutterStep ==
  ASSUME UNCHANGED <<scopeVars, used>>
  PROVE  UNCHANGED C!vars
  BY DEF scopeVars, C!vars, DeclsInTables, Bound, EntityOf

\* find_entry finds the declaration that is in force.
LEMMA UseStep ==
  ASSUME PlainIdents, ScopesInv, NEW i \in Idents, Declared(i), Use(i)
  PROVE  C!Use(i)
<1>1. PICK k \in 1 .. Len(tables) : /\ i \in DOMAIN tables[k]
                                    /\ \A m \in 1 .. k - 1 : i \notin DOMAIN tables[m]
                                    /\ FindEntry(i) = tables[k][i]
  BY FoundEntry
<1>2. used' = [name |-> tables[k][i].name] /\ UNCHANGED scopeVars
  BY <1>1 DEF Use
<1> DEFINE d == DeclIn(tables[k], i, objects)
<1>3. tables \in Seq(Table) /\ Len(tables) \in Nat
  BY DEF ScopesInv, GoodTables
<1>4. d \in DeclsInTables
  BY <1>1, <1>3, InDecls, DeclsAre
<1>5. d.ident = i /\ d.depth = Len(tables) - k
  BY <1>1, DeclOfEntry
<1>6. ASSUME NEW f \in DeclsInTables, f.ident = i
      PROVE  f.depth <= d.depth
  <2>1. PICK m \in 1 .. Len(tables) : \E j \in DOMAIN tables[m] : f = DeclIn(tables[m], j, objects)
    BY <1>3, InDecls, DeclsAre
  <2>2. PICK j \in DOMAIN tables[m] : f = DeclIn(tables[m], j, objects)
    BY <2>1
  <2>3. j = i /\ f.depth = Len(tables) - m
    BY <1>6, <2>2, DeclOfEntry
  <2>4. m \notin 1 .. k - 1
    BY <1>1, <2>3
  <2> QED
    BY <1>3, <1>5, <2>3, <2>4
<1>7. Bound' = d.entity
  <2>1. used' # NoUse
    <3>1. DOMAIN used' = {"name"} /\ DOMAIN NoUse = {"undeclared"}
      BY <1>2 DEF NoUse
    <3> QED
      BY <3>1
  <2>2. used'.name = tables[k][i].name /\ objects' = objects
    BY <1>2 DEF scopeVars
  <2> QED
    BY <2>1, <2>2, BoundIs DEF DeclIn
<1>8. DeclsInTables' = DeclsInTables
  BY <1>2 DEF scopeVars, DeclsInTables, EntityOf
<1> HIDE DEF d
<1> QED
  BY <1>2, <1>4, <1>5, <1>6, <1>7, <1>8 DEF C!Use, scopeVars

\* Entering a function declares its name and opens the scope of its parameters.
LEMMA EnterStep ==
  ASSUME PlainIdents, ScopesInv, ScopesInv', NEW i \in Idents, EnterFunc(i)
  PROVE  C!DeclareFunction(i) \/ C!DeclareLinked(i) \/ C!Open \/ UNCHANGED C!vars
<1>1. CASE i \in DOMAIN Innermost /\ ~Innermost[i].linkage
  BY <1>1, StutterStep DEF EnterFunc, Fail
<1>2. CASE ~(i \in DOMAIN Innermost /\ ~Innermost[i].linkage)
  <2> DEFINE t == IF i \in DOMAIN Innermost THEN Innermost ELSE Put(Innermost, i, Entry(i, TRUE))
             new == [ident |-> i, depth |-> scope, entity |-> [ident |-> i]]
  <2>1. /\ tables' = <<Empty>> \o WithInnermost(t)
        /\ scope' = scope + 1
        /\ UNCHANGED <<objects, used>>
    BY <1>2 DEF EnterFunc, EnterScopeWith
  <2>2. GoodTable(t, scope, objects)
    <3>1. GoodTable(Put(Innermost, i, Entry(i, TRUE)), scope, objects)
      BY GoodInnermost, GoodNewEntry, GoodPut
    <3> QED
      BY <3>1, GoodInnermost
  <2>3. tables \in Seq(Table) /\ tables # << >> /\ Innermost = tables[1] /\ Len(tables) \in Nat \ {0}
    BY PoppedSeq DEF ScopesInv, GoodTables, Innermost
  <2>4. WithInnermost(t) \in Seq(Table)
    BY <2>2, <2>3, ReplacedSeq DEF WithInnermost, GoodTable
  <2>5. DeclsInTables' = DeclsIn(WithInnermost(t), objects)
    BY <2>1, <2>4, DeclsPushed, DeclsAre
  <2>6. /\ \A d \in C!Here(i) : d.entity = [ident |-> i]
        /\ DeclsIn(WithInnermost(Put(Innermost, i, Entry(i, TRUE))), objects)
             = DeclsInTables \cup {new}
    BY <1>2, LinkedStep
  <2>7. Bound' = Bound
    BY <2>1 DEF Bound, EntityOf
  <2>8. CASE i \notin DOMAIN Innermost
    BY <2>1, <2>5, <2>6, <2>7, <2>8 DEF C!DeclareFunction, C!Linked
  <2>9. CASE i \in DOMAIN Innermost
    <3>1. WithInnermost(t) = tables
      BY <2>3, <2>9 DEF WithInnermost
    <3>2. DeclsInTables' = DeclsInTables
      BY <2>5, <3>1, DeclsAre
    <3> QED
      BY <2>1, <2>7, <3>2 DEF C!Open
  <2> QED
    BY <2>8, <2>9
<1> QED
  BY <1>1, <1>2

\* Every step of the parser and of resolve.c is one of Scoping or none.
LEMMA ScopingStep ==
  ASSUME PlainIdents, ScopesInv, ScopesInv', [Next]_vars
  PROVE  [C!Next]_C!vars
<1>1. ASSUME NEW i \in Idents, SetInnermost(Put(Innermost, i, Entry(i, TRUE))),
             i \in DOMAIN Innermost => Innermost[i].linkage,
             UNCHANGED <<scope, objects, used>>
      PROVE  C!DeclareLinked(i)
  <2>1. DeclsInTables' = DeclsIn(WithInnermost(Put(Innermost, i, Entry(i, TRUE))), objects)
    BY <1>1, DeclsAre DEF SetInnermost
  <2>2. Bound' = Bound
    BY <1>1 DEF Bound, EntityOf
  <2> QED
    BY <1>1, <2>1, <2>2, LinkedStep DEF C!DeclareLinked, C!Linked
<1>2. ASSUME NEW i \in Idents, FilescopeVar(i)
      PROVE  C!DeclareLinked(i)
  <2>1. i \in DOMAIN Innermost => Innermost[i].linkage
    BY <1>2, GoodInnermost DEF FilescopeVar, GoodTable, GoodEntry
  <2> QED
    BY <1>1, <1>2, <2>1 DEF FilescopeVar
<1>3. ASSUME NEW i \in Idents, Param(i)
      PROVE  C!DeclareObject(i) \/ UNCHANGED C!vars
  BY <1>3, StutterStep, ObjectStep DEF Param, Fail
<1>4. ASSUME NEW i \in Idents, NEW sc, LocalVar(i, sc)
      PROVE  C!DeclareLinked(i) \/ C!DeclareObject(i) \/ UNCHANGED C!vars
  <2>1. CASE i \in DOMAIN Innermost /\ ~(Innermost[i].linkage /\ sc = "extern")
    BY <1>4, <2>1, StutterStep DEF LocalVar, Fail
  <2>2. CASE ~(i \in DOMAIN Innermost /\ ~(Innermost[i].linkage /\ sc = "extern")) /\ sc = "extern"
    BY <1>1, <1>4, <2>2 DEF LocalVar
  <2>3. CASE i \notin DOMAIN Innermost /\ sc # "extern"
    BY <1>4, <2>3, ObjectStep DEF LocalVar, InBody
  <2> QED
    BY <2>1, <2>2, <2>3
<1>5. CASE ExitFunc
  BY <1>5, ExitStep DEF ExitFunc, C!Next
<1>6. CASE EnterBlock
  <2>1. /\ tables \in Seq(Table) /\ tables # << >> /\ Innermost = tables[1]
    BY PoppedSeq DEF ScopesInv, GoodTables, Innermost
  <2>2. WithInnermost(Innermost) = tables
    BY <2>1 DEF WithInnermost
  <2>3. DeclsInTables' = DeclsInTables
    BY <1>6, <2>1, <2>2, DeclsPushed, DeclsAre DEF EnterBlock, EnterScopeWith
  <2>4. Bound' = Bound
    BY <1>6 DEF EnterBlock, Bound, EntityOf
  <2>5. C!Open
    BY <1>6, <2>3, <2>4 DEF EnterBlock, EnterScopeWith, C!Open
  <2> QED
    BY <2>5 DEF C!Next
<1>7. CASE ExitBlock
  BY <1>7, ExitStep DEF ExitBlock, C!Next
<1>8. ASSUME NEW i \in Idents, Use(i)
      PROVE  C!Use(i) \/ UNCHANGED C!vars
  BY <1>8, UseStep, StutterStep DEF Use, Fail
<1>9. CASE EnterBody
  BY <1>9, StutterStep DEF EnterBody
<1>10. ASSUME NEW l, Label(l) \/ Goto(l)
       PROVE  UNCHANGED C!vars
  BY <1>10, StutterStep DEF Label, Goto, Fail
<1>11. CASE ExitBody
  BY <1>11, StutterStep, ExitStep DEF ExitBody, Fail, C!Next
<1>12. CASE UNCHANGED vars
  BY <1>12, StutterStep DEF vars
<1>13. ASSUME NEW i \in Idents, FilescopeVar(i) \/ EnterFunc(i) \/ Param(i) \/ Use(i)
               \/ \E sc \in {"none", "static", "extern"} : LocalVar(i, sc)
       PROVE  [C!Next]_C!vars
  BY <1>2, <1>3, <1>4, <1>8, <1>13, EnterStep DEF C!Next
<1>14. CASE Next
  BY <1>5, <1>6, <1>7, <1>9, <1>10, <1>11, <1>13, <1>14 DEF Next, C!Next
<1> QED
  BY <1>12, <1>14

\* The names stored in the tree denote what the scopes of C say.
THEOREM ResolveImplementsScoping ==
  ASSUME PlainIdents
  PROVE  Spec => ImplementsScoping
<1>1. Init => C!Init
  <2> SUFFICES ASSUME Init PROVE C!Init
    OBVIOUS
  <2>1. DeclsInTables = {}
    BY DEF Init, DeclsInTables, Empty
  <2> QED
    BY <2>1 DEF Init, C!Init, C!Nothing, Bound
<1>2. ScopesInv /\ ScopesInv' /\ [Next]_vars => [C!Next]_C!vars
  BY ScopingStep
<1> QED
  BY <1>1, <1>2, ScopesAlways, PTL DEF Spec, ImplementsScoping, C!Spec

=============================================================================
