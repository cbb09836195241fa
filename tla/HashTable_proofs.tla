-------------------------- MODULE HashTable_proofs --------------------------
(***************************************************************************)
(* The hash table of table.c is a map, for any keys, hashes and capacity.  *)
(*                                                                         *)
(* A probe finds a key because no slot between the hash of a key and the   *)
(* slot that holds it is free (Chained), and it ends because some slot is. *)
(* The table only ever fills a slot where a probe for that very key ends,  *)
(* which keeps both; enlarging it does the same again, entry by entry.     *)
(***************************************************************************)
EXTENDS HashTable, FiniteSetTheorems, WellFoundedInduction, TLAPS

-----------------------------------------------------------------------------

Taken == [key : Keys, val : Values]

\* an array of n slots
Arrays(n) == [0 .. n - 1 -> {Free} \cup Taken]

\* Every slot on the way from the hash of a key to the key is in use.
Chained(es) ==
  \A i \in Used(es) : \E d \in 0 .. Cap(es) - 1 :
    /\ ProbeAt(es, es[i].key, d) = i
    /\ \A e \in 0 .. d - 1 : ProbeAt(es, es[i].key, e) \in Used(es)

OneSlotEach(es) == \A i, j \in Used(es) : es[i].key = es[j].key => i = j

Table(es, n) ==
  /\ n \in Nat \ {0}
  /\ es \in Arrays(n)
  /\ Chained(es)
  /\ OneSlotEach(es)

\* k is in the table, with v
Holds(es, k, v) == \E i \in DOMAIN es : es[i] = Entry(k, v)
Has(es, k) == \E i \in Used(es) : es[i].key = k

-----------------------------------------------------------------------------

\* A nonempty set of numbers has a least one.
LEMMA Least ==
  ASSUME NEW T, T \subseteq Nat, T # {}
  PROVE  \E x \in T : \A y \in T : x <= y
<1> DEFINE R == {p \in Nat \X Nat : p[1] < p[2]}
<1>1. OpToRel(<, Nat) = R
  BY DEF OpToRel
<1>2. IsWellFoundedOn(R, Nat)
  BY <1>1, NatLessThanWellFounded
<1>3. \A a, b \in Nat : a < b => <<a, b>> \in R
  OBVIOUS
<1> HIDE DEF R
<1>4. PICK x \in T : \A y \in T : ~(<<y, x>> \in R)
  BY <1>2, WFMin
<1>5. ASSUME NEW y \in T
      PROVE  x <= y
  <2>1. x \in Nat /\ y \in Nat
    OBVIOUS
  <2>2. ~(y < x)
    BY <1>3, <1>4, <2>1
  <2> QED
    BY <2>1, <2>2
<1> QED
  BY <1>5

\* Induction up to n, for a set of numbers.
LEMMA UpTo ==
  ASSUME NEW n \in Nat, NEW T, 0 \in T, \A i \in 0 .. n - 1 : i \in T => i + 1 \in T
  PROVE  0 .. n \subseteq T
<1> SUFFICES ASSUME ~(0 .. n \subseteq T) PROVE FALSE
  OBVIOUS
<1> DEFINE R == (0 .. n) \ T
<1>1. R \subseteq Nat /\ R # {}
  OBVIOUS
<1>2. PICK x \in R : \A y \in R : x <= y
  BY <1>1, Least
<1>3. x # 0 /\ x - 1 \in 0 .. n - 1
  BY <1>2
<1>4. x - 1 \in T
  BY <1>2, <1>3
<1> QED
  BY <1>2, <1>3, <1>4

\* The probe gets to every slot.
LEMMA Around ==
  ASSUME NEW n \in Nat \ {0}, NEW a \in Nat, NEW i \in 0 .. n - 1
  PROVE  \E d \in 0 .. n - 1 : (a + d) % n = i
<1> DEFINE q == a \div n
           r == a % n
<1>1. q \in Nat /\ r \in 0 .. n - 1 /\ a = n * q + r
  OBVIOUS
<1>2. \A p \in Nat : (n * p + i) % n = i
  OBVIOUS
<1> HIDE DEF q, r
<1>3. CASE i >= r
  <2>1. a + (i - r) = n * q + i /\ i - r \in 0 .. n - 1
    BY <1>1, <1>3
  <2> QED
    BY <1>1, <1>2, <2>1
<1>4. CASE i < r
  <2>1. n * (q + 1) = n * q + n
    BY <1>1
  <2>2. a + (i - r + n) = n * (q + 1) + i /\ i - r + n \in 0 .. n - 1 /\ q + 1 \in Nat
    BY <1>1, <1>4, <2>1
  <2> QED
    BY <1>2, <2>2
<1> QED
  BY <1>1, <1>3, <1>4

\* A remainder is a slot of the array.
LEMMA InRange ==
  ASSUME NEW n \in Nat \ {0}, NEW a \in Nat
  PROVE  a % n \in 0 .. n - 1
  OBVIOUS

\* An array of n slots has capacity n.
LEMMA CapIs ==
  ASSUME NEW n \in Nat, NEW es, DOMAIN es = 0 .. n - 1
  PROVE  Cap(es) = n
<1>1. Cardinality(0 .. n - 1) = n
  BY FS_Interval
<1> QED
  BY <1>1 DEF Cap

\* A slot is free or it holds a key.
LEMMA SlotsAre ==
  ASSUME NEW n \in Nat, NEW es \in Arrays(n)
  PROVE  /\ Cap(es) = n /\ DOMAIN es = 0 .. n - 1
         /\ Used(es) \subseteq 0 .. n - 1
         /\ \A i \in (0 .. n - 1) \ Used(es) : es[i] = Free /\ es[i].key = NULL
         /\ \A i \in Used(es) :
              /\ es[i] = Entry(es[i].key, es[i].val)
              /\ es[i].key \in Keys /\ es[i].val \in Values /\ es[i].key # NULL
<1>1. DOMAIN es = 0 .. n - 1 /\ Cap(es) = n
  BY CapIs DEF Arrays
<1>2. ASSUME NEW i \in 0 .. n - 1
      PROVE  IF i \in Used(es)
             THEN /\ es[i] = Entry(es[i].key, es[i].val)
                  /\ es[i].key \in Keys /\ es[i].val \in Values /\ es[i].key # NULL
             ELSE es[i] = Free /\ es[i].key = NULL
  <2>1. es[i] = Free \/ es[i] \in Taken
    BY DEF Arrays
  <2>2. CASE es[i] = Free
    BY <2>2 DEF Free, Used
  <2>3. CASE es[i] \in Taken
    BY <1>1, <2>3, TableAssumption DEF Taken, Used, Entry
  <2> QED
    BY <2>1, <2>2, <2>3
<1>3. Used(es) \subseteq 0 .. n - 1
  BY <1>1 DEF Used
<1> QED
  BY <1>1, <1>2, <1>3

\* A probe stays inside the array.
LEMMA ProbeIn ==
  ASSUME NEW n \in Nat \ {0}, NEW es \in Arrays(n), NEW k \in Keys, NEW d \in Nat
  PROVE  ProbeAt(es, k, d) \in 0 .. n - 1 /\ ProbeAt(es, k, d) = (Hash[k] + d) % n
<1>1. Cap(es) = n /\ Hash[k] + d \in Nat
  BY SlotsAre, TableAssumption
<1> QED
  BY <1>1, InRange DEF ProbeAt

\* A probe ends: at the key, or at a free slot if there is one.
LEMMA SlotIs ==
  ASSUME NEW n, NEW es, Table(es, n), NEW k \in Keys, NEW f \in 0 .. n - 1, f \notin Used(es)
  PROVE  \E d \in 0 .. n - 1 :
           /\ Slot(es, k) = ProbeAt(es, k, d)
           /\ Stops(es, k, Slot(es, k))
           /\ \A e \in 0 .. d - 1 : ~Stops(es, k, ProbeAt(es, k, e))
<1>1. n \in Nat \ {0} /\ es \in Arrays(n) /\ Cap(es) = n
  BY SlotsAre DEF Table
<1> DEFINE T == {d \in 0 .. n - 1 : Stops(es, k, ProbeAt(es, k, d))}
<1>2. T # {}
  <2> DEFINE h == Hash[k]
  <2>0. h \in Nat
    BY TableAssumption
  <2> HIDE DEF h
  <2>1. PICK d \in 0 .. n - 1 : (h + d) % n = f
    BY <1>1, <2>0, Around
  <2>2. ProbeAt(es, k, d) = f
    BY <1>1, <2>1, ProbeIn DEF h
  <2>3. es[f].key = NULL
    BY <1>1, SlotsAre
  <2> QED
    BY <2>2, <2>3 DEF Stops
<1>3. PICK d \in T : \A e \in T : d <= e
  <2>1. T \subseteq Nat
    BY <1>1
  <2> HIDE DEF T
  <2> QED
    BY <1>2, <2>1, Least
<1>4. \A e \in 0 .. d - 1 : ~Stops(es, k, ProbeAt(es, k, e))
  BY <1>1, <1>3
<1> DEFINE P(c) == /\ Stops(es, k, ProbeAt(es, k, c))
                   /\ \A e \in 0 .. c - 1 : ~Stops(es, k, ProbeAt(es, k, e))
           c == CHOOSE c \in 0 .. n - 1 : P(c)
<1>5. c \in 0 .. n - 1 /\ P(c)
  BY <1>3, <1>4
<1>6. Slot(es, k) = ProbeAt(es, k, c)
  BY <1>1 DEF Slot
<1> QED
  BY <1>5, <1>6

\* Where it ends tells whether the key is in the table.
LEMMA SlotTells ==
  ASSUME NEW n, NEW es, Table(es, n), NEW k \in Keys, NEW f \in 0 .. n - 1, f \notin Used(es)
  PROVE  /\ Slot(es, k) \in 0 .. n - 1
         /\ \A i \in Used(es) : es[i].key = k => i = Slot(es, k)
         /\ es[Slot(es, k)].key = NULL => ~Has(es, k)
         /\ es[Slot(es, k)].key # NULL => es[Slot(es, k)].key = k /\ Slot(es, k) \in Used(es)
<1>1. /\ n \in Nat \ {0} /\ es \in Arrays(n) /\ Cap(es) = n
      /\ Chained(es) /\ OneSlotEach(es)
  BY SlotsAre DEF Table
<1>2. PICK d \in 0 .. n - 1 :
           /\ Slot(es, k) = ProbeAt(es, k, d)
           /\ Stops(es, k, Slot(es, k))
           /\ \A e \in 0 .. d - 1 : ~Stops(es, k, ProbeAt(es, k, e))
  BY SlotIs
<1>3. Slot(es, k) \in 0 .. n - 1
  BY <1>1, <1>2, ProbeIn
<1>4. es[Slot(es, k)].key = k \/ es[Slot(es, k)].key = NULL
  BY <1>2 DEF Stops
<1>5. ASSUME NEW i \in Used(es), es[i].key = k
      PROVE  i = Slot(es, k)
  <2>1. PICK c \in 0 .. n - 1 : /\ ProbeAt(es, k, c) = i
                                /\ \A e \in 0 .. c - 1 : ProbeAt(es, k, e) \in Used(es)
    BY <1>1, <1>5 DEF Chained
  <2>2. ~(c < d)
    <3>1. Stops(es, k, ProbeAt(es, k, c))
      BY <1>5, <2>1 DEF Stops
    <3> QED
      BY <1>2, <3>1
  <2>3. CASE d = c
    BY <1>2, <2>1, <2>3
  <2>4. CASE d < c
    <3>1. Slot(es, k) \in Used(es)
      BY <1>2, <2>1, <2>4
    <3>2. es[Slot(es, k)].key = k
      BY <1>4, <3>1 DEF Used
    <3> QED
      BY <1>1, <1>5, <3>1, <3>2 DEF OneSlotEach
  <2> QED
    BY <2>2, <2>3, <2>4
<1>6. es[Slot(es, k)].key = NULL => ~Has(es, k)
  <2>1. es[Slot(es, k)].key = NULL => Slot(es, k) \notin Used(es)
    BY DEF Used
  <2> QED
    BY <1>5, <2>1 DEF Has
<1>7. es[Slot(es, k)].key # NULL => Slot(es, k) \in Used(es)
  BY <1>1, <1>3, SlotsAre
<1> QED
  BY <1>3, <1>4, <1>5, <1>6, <1>7

\* An array with fewer entries than slots has a free slot.
LEMMA UsedFinite ==
  ASSUME NEW n \in Nat, NEW es \in Arrays(n)
  PROVE  /\ IsFiniteSet(Used(es)) /\ Cardinality(Used(es)) \in 0 .. n
         /\ Cardinality(Used(es)) < n => \E f \in 0 .. n - 1 : f \notin Used(es)
<1>1. IsFiniteSet(0 .. n - 1) /\ Cardinality(0 .. n - 1) = n
  BY FS_Interval
<1>2. Used(es) \subseteq 0 .. n - 1
  BY SlotsAre
<1>3. /\ IsFiniteSet(Used(es)) /\ Cardinality(Used(es)) \in Nat
      /\ Cardinality(Used(es)) <= n
      /\ Cardinality(Used(es)) = n => Used(es) = 0 .. n - 1
  BY <1>1, <1>2, FS_Subset, FS_CardinalityType
<1>4. Cardinality(Used(es)) < n => Used(es) # 0 .. n - 1
  BY <1>1
<1>5. Used(es) # 0 .. n - 1 => \E f \in 0 .. n - 1 : f \notin Used(es)
  BY <1>2
<1>6. Cardinality(Used(es)) \in 0 .. n
  BY <1>3
<1> QED
  BY <1>3, <1>4, <1>5, <1>6

\* What ht_set_entry does to a table with room.
LEMMA SetIs ==
  ASSUME NEW n, NEW es, Table(es, n), NEW k \in Keys, NEW v \in Values,
         NEW f \in 0 .. n - 1, f \notin Used(es)
  PROVE  /\ Table(SetEntry(es, k, v), n)
         /\ Slot(es, k) \in 0 .. n - 1
         /\ Used(SetEntry(es, k, v)) = Used(es) \cup {Slot(es, k)}
         /\ Has(es, k) <=> Slot(es, k) \in Used(es)
         /\ es[Slot(es, k)].key = NULL <=> Slot(es, k) \notin Used(es)
         /\ \A x \in Keys : \A w :
              Holds(SetEntry(es, k, v), x, w) <=>
                IF x = k THEN w = v ELSE Holds(es, x, w)
<1> DEFINE s  == Slot(es, k)
           fs == SetEntry(es, k, v)
<1>1. /\ n \in Nat \ {0} /\ es \in Arrays(n) /\ Cap(es) = n /\ DOMAIN es = 0 .. n - 1
      /\ Chained(es) /\ OneSlotEach(es) /\ Used(es) \subseteq 0 .. n - 1
  BY SlotsAre DEF Table
<1>2. /\ s \in 0 .. n - 1
      /\ \A i \in Used(es) : es[i].key = k => i = s
      /\ es[s].key = NULL => ~Has(es, k)
      /\ es[s].key # NULL => es[s].key = k /\ s \in Used(es)
  BY SlotTells
<1>3. PICK d \in 0 .. n - 1 : /\ s = ProbeAt(es, k, d)
                              /\ \A e \in 0 .. d - 1 : ~Stops(es, k, ProbeAt(es, k, e))
  BY SlotIs
<1>4. Has(es, k) <=> s \in Used(es)
  BY <1>2 DEF Has, Used
<1>5. es[s].key = NULL <=> s \notin Used(es)
  BY <1>1, <1>2 DEF Used
<1>6. fs = [es EXCEPT ![s] = Entry(k, v)]
  BY DEF SetEntry
<1> HIDE DEF s, fs
<1>7. Entry(k, v) \in Taken /\ Entry(k, v).key = k /\ Entry(k, v).key # NULL
  BY TableAssumption DEF Entry, Taken
<1>8. /\ fs \in Arrays(n) /\ DOMAIN fs = 0 .. n - 1 /\ fs[s] = Entry(k, v)
      /\ \A i \in 0 .. n - 1 : i # s => fs[i] = es[i]
  BY <1>1, <1>2, <1>6, <1>7 DEF Arrays
<1>9. Cap(fs) = n
  BY <1>1, <1>8, SlotsAre
<1>10. Used(fs) = Used(es) \cup {s}
  BY <1>1, <1>2, <1>7, <1>8 DEF Used
<1>11. \A i \in Used(es) : fs[i].key = es[i].key
  BY <1>1, <1>2, <1>5, <1>7, <1>8
<1>12. \A x, e : ProbeAt(fs, x, e) = ProbeAt(es, x, e)
  BY <1>1, <1>9 DEF ProbeAt
<1>13. Chained(fs)
  <2> SUFFICES ASSUME NEW i \in Used(fs)
               PROVE  \E c \in 0 .. n - 1 :
                        /\ ProbeAt(es, fs[i].key, c) = i
                        /\ \A e \in 0 .. c - 1 : ProbeAt(es, fs[i].key, e) \in Used(fs)
    BY <1>9, <1>12 DEF Chained
  <2>1. CASE i \in Used(es)
    <3>1. PICK c \in 0 .. n - 1 :
             /\ ProbeAt(es, es[i].key, c) = i
             /\ \A e \in 0 .. c - 1 : ProbeAt(es, es[i].key, e) \in Used(es)
      BY <1>1, <2>1 DEF Chained
    <3> QED
      BY <1>10, <1>11, <2>1, <3>1
  <2>2. CASE i \notin Used(es)
    <3>1. i = s /\ fs[i].key = k
      BY <1>7, <1>8, <1>10, <2>2
    <3>2. ASSUME NEW e \in 0 .. d - 1
          PROVE  ProbeAt(es, k, e) \in Used(es)
      <4>1. ProbeAt(es, k, e) \in 0 .. n - 1
        BY <1>1, ProbeIn
      <4>2. es[ProbeAt(es, k, e)].key # NULL
        BY <1>3 DEF Stops
      <4> QED
        BY <1>1, <4>1, <4>2 DEF Used
    <3> QED
      BY <1>3, <1>10, <3>1, <3>2
  <2> QED
    BY <2>1, <2>2
<1>14. OneSlotEach(fs)
  <2> SUFFICES ASSUME NEW i \in Used(fs), NEW j \in Used(fs), fs[i].key = fs[j].key
               PROVE  i = j
    BY DEF OneSlotEach
  <2>1. CASE i \in Used(es) /\ j \in Used(es)
    BY <1>1, <1>11, <2>1 DEF OneSlotEach
  <2>2. CASE i = s
    BY <1>2, <1>7, <1>8, <1>10, <1>11, <2>2
  <2>3. CASE j = s
    BY <1>2, <1>7, <1>8, <1>10, <1>11, <2>3
  <2> QED
    BY <1>10, <2>1, <2>2, <2>3
<1>15. ASSUME NEW x \in Keys, NEW w
       PROVE  Holds(fs, x, w) <=> IF x = k THEN w = v ELSE Holds(es, x, w)
  <2>1. \A y \in Keys : Entry(x, w) = Entry(y, v) => x = y /\ w = v
    <3>1. \A y : Entry(y, v).key = y /\ Entry(y, v).val = v
      BY DEF Entry
    <3>2. Entry(x, w).key = x /\ Entry(x, w).val = w
      BY DEF Entry
    <3> QED
      BY <3>1, <3>2
  <2>2. Entry(x, w).key = x
    BY DEF Entry
  <2>3. CASE x = k
    <3>1. ASSUME NEW i \in 0 .. n - 1, fs[i] = Entry(x, w) PROVE i = s
      <4>1. CASE i # s
        <5>1. es[i] = Entry(x, w) /\ i \in Used(es)
          BY <1>1, <1>8, <2>2, <3>1, <4>1, TableAssumption DEF Used
        <5> QED
          BY <1>2, <2>2, <2>3, <5>1
      <4> QED
        BY <4>1
    <3> QED
      BY <1>2, <1>8, <2>1, <2>3, <3>1 DEF Holds
  <2>4. CASE x # k
    <3>1. fs[s] # Entry(x, w)
      BY <1>8, <2>1, <2>4
    <3>2. es[s] # Entry(x, w)
      BY <1>2, <2>2, <2>4, TableAssumption
    <3> QED
      BY <1>1, <1>8, <2>4, <3>1, <3>2 DEF Holds
  <2> QED
    BY <2>3, <2>4
<1> QED
  BY <1>1, <1>2, <1>4, <1>5, <1>8, <1>10, <1>13, <1>14, <1>15 DEF Table, s, fs

\* A new array is an empty table.
LEMMA BlankIs ==
  ASSUME NEW n \in Nat \ {0}
  PROVE  /\ Table(Blank(n), n) /\ Used(Blank(n)) = {}
         /\ \A x \in Keys : \A w : ~Holds(Blank(n), x, w)
<1>1. Blank(n) \in Arrays(n) /\ DOMAIN Blank(n) = 0 .. n - 1
      /\ \A i \in 0 .. n - 1 : Blank(n)[i] = Free
  BY DEF Blank, Arrays
<1>2. Used(Blank(n)) = {}
  BY <1>1 DEF Used, Free
<1>3. \A x \in Keys : \A w : Entry(x, w) # Free
  <2>1. Free.key = NULL /\ \A x, w : Entry(x, w).key = x
    BY DEF Free, Entry
  <2> QED
    BY <2>1, TableAssumption
<1> QED
  BY <1>1, <1>2, <1>3 DEF Table, Chained, OneSlotEach, Holds

\* In a table a key is held with one value.
LEMMA HoldsOne ==
  ASSUME NEW n, NEW es, Table(es, n), NEW k \in Keys
  PROVE  /\ Has(es, k) <=> \E w : Holds(es, k, w)
         /\ \A i \in Used(es) : es[i].key = k => Holds(es, k, es[i].val)
         /\ \A i \in Used(es) : \A w : es[i].key = k /\ Holds(es, k, w) => w = es[i].val
<1>1. /\ DOMAIN es = 0 .. n - 1 /\ Used(es) \subseteq DOMAIN es /\ OneSlotEach(es)
      /\ \A i \in Used(es) : es[i] = Entry(es[i].key, es[i].val)
  BY SlotsAre DEF Table
<1>2. \A w : Entry(k, w).key = k /\ Entry(k, w).val = w
  BY DEF Entry
<1>3. \A i \in DOMAIN es : \A w : es[i] = Entry(k, w) => i \in Used(es) /\ es[i].key = k /\ es[i].val = w
  BY <1>2, TableAssumption DEF Used
<1>4. \A i \in Used(es) : es[i].key = k => Holds(es, k, es[i].val)
  BY <1>1 DEF Holds
<1>5. \A i \in Used(es) : \A w : es[i].key = k /\ Holds(es, k, w) => w = es[i].val
  BY <1>1, <1>3 DEF Holds, OneSlotEach
<1> QED
  BY <1>3, <1>4, <1>5 DEF Has, Holds

\* Enlarging it keeps the contents of a table.
LEMMA ExpandIs ==
  ASSUME NEW n, NEW es, Table(es, n)
  PROVE  /\ Table(Expand(es), 2 * n)
         /\ Cardinality(Used(Expand(es))) = Cardinality(Used(es))
         /\ \A x \in Keys : \A w : Holds(Expand(es), x, w) <=> Holds(es, x, w)
<1>1. /\ n \in Nat \ {0} /\ es \in Arrays(n) /\ Cap(es) = n /\ DOMAIN es = 0 .. n - 1
      /\ OneSlotEach(es) /\ Used(es) \subseteq 0 .. n - 1
      /\ \A i \in Used(es) :
           /\ es[i] = Entry(es[i].key, es[i].val)
           /\ es[i].key \in Keys /\ es[i].val \in Values /\ es[i].key # NULL
  BY SlotsAre DEF Table
<1> DEFINE B == Blank(2 * n)
           After(t, i) == IF es[i - 1].key = NULL THEN t
                          ELSE SetEntry(t, es[i - 1].key, es[i - 1].val)
           IsMoved(m, i) == m = [j \in 0 .. i |-> IF j = 0 THEN B ELSE After(m[j - 1], j)]
           moved == CHOOSE m : IsMoved(m, n)
<1>2. Expand(es) = moved[n]
  BY <1>1 DEF Expand
<1>3. \E m : IsMoved(m, n)
  <2> DEFINE T == {i \in 0 .. n : \E m : IsMoved(m, i)}
  <2>1. 0 \in T
    <3>1. IsMoved([j \in 0 .. 0 |-> B], 0)
      <4>1. \A j \in 0 .. 0 : j = 0
        OBVIOUS
      <4> QED
        BY <4>1
    <3>2. 0 \in 0 .. n
      BY <1>1
    <3> HIDE DEF IsMoved
    <3> QED
      BY <3>1, <3>2
  <2>2. ASSUME NEW i \in 0 .. n - 1, i \in T
        PROVE  i + 1 \in T
    <3>1. PICK m : IsMoved(m, i)
      BY <2>2
    <3> DEFINE m1 == [j \in 0 .. i + 1 |-> IF j <= i THEN m[j] ELSE After(m[i], i + 1)]
    <3> HIDE DEF B, After
    <3>2. ASSUME NEW j \in 0 .. i + 1
          PROVE  m1[j] = IF j = 0 THEN B ELSE After(m1[j - 1], j)
      <4>1. CASE j = 0
        BY <3>1, <4>1
      <4>2. CASE j \in 1 .. i
        <5>1. m1[j] = m[j] /\ m1[j - 1] = m[j - 1] /\ j # 0
          BY <4>2
        <5>2. m[j] = After(m[j - 1], j)
          BY <3>1, <4>2
        <5> QED
          BY <5>1, <5>2
      <4>3. CASE j = i + 1
        <5>1. m1[j] = After(m[i], i + 1) /\ m1[j - 1] = m[i] /\ j # 0
          BY <4>3
        <5> QED
          BY <4>3, <5>1
      <4> QED
        BY <4>1, <4>2, <4>3
    <3>3. IsMoved(m1, i + 1)
      BY <3>2
    <3>4. i + 1 \in 0 .. n
      BY <1>1
    <3> HIDE DEF IsMoved, m1
    <3> QED
      BY <3>3, <3>4
  <2> HIDE DEF T
  <2>3. n \in T
    BY <1>1, <2>1, <2>2, UpTo
  <2> QED
    BY <2>3 DEF T
<1>4. IsMoved(moved, n)
  BY <1>3
<1> HIDE DEF moved
<1>5. moved[0] = B /\ \A i \in 0 .. n - 1 : moved[i + 1] = After(moved[i], i + 1)
  <2> HIDE DEF B, After
  <2> QED
    BY <1>1, <1>4
<1>6. \A i \in 0 .. n - 1 : moved[i + 1] = IF es[i].key = NULL THEN moved[i]
                                          ELSE SetEntry(moved[i], es[i].key, es[i].val)
  BY <1>5
<1> HIDE DEF After, IsMoved
<1> DEFINE Before(i) == {j \in Used(es) : j < i}
           Good(i) ==
             /\ Table(moved[i], 2 * n)
             /\ Cardinality(Used(moved[i])) = Cardinality(Before(i))
             /\ \A x \in Keys : \A w :
                  Holds(moved[i], x, w) <=> \E j \in Before(i) : es[j] = Entry(x, w)
           G == {i \in 0 .. n : Good(i)}
<1>7. \A i \in 0 .. n : IsFiniteSet(Before(i)) /\ Cardinality(Before(i)) \in 0 .. n
  <2> TAKE i \in 0 .. n
  <2>1. IsFiniteSet(Used(es)) /\ Cardinality(Used(es)) \in 0 .. n
    BY <1>1, UsedFinite
  <2>2. Before(i) \subseteq Used(es)
    OBVIOUS
  <2>3. /\ IsFiniteSet(Before(i)) /\ Cardinality(Before(i)) \in Nat
        /\ Cardinality(Before(i)) <= Cardinality(Used(es))
    BY <2>1, <2>2, FS_Subset, FS_CardinalityType
  <2> QED
    BY <1>1, <2>1, <2>3
<1>8. 0 \in G
  <2>1. Before(0) = {}
    BY <1>1
  <2>2. 2 * n \in Nat \ {0}
    BY <1>1
  <2>3. Good(0)
    BY <1>5, <2>1, <2>2, BlankIs
  <2> QED
    BY <1>1, <2>3
<1>9. ASSUME NEW i \in 0 .. n - 1, i \in G
      PROVE  i + 1 \in G
  <2>1. Good(i) /\ i \in 0 .. n /\ i + 1 \in 0 .. n
    BY <1>1, <1>9
  <2>2. CASE es[i].key = NULL
    <3>1. i \notin Used(es)
      BY <2>2 DEF Used
    <3>2. Before(i + 1) = Before(i)
      BY <1>1, <3>1
    <3>3. moved[i + 1] = moved[i]
      BY <1>6, <2>2
    <3> QED
      BY <2>1, <3>2, <3>3
  <2>3. CASE es[i].key # NULL
    <3> DEFINE t == moved[i]
               k == es[i].key
               v == es[i].val
    <3>1. /\ i \in Used(es) /\ es[i] = Entry(k, v) /\ k \in Keys /\ v \in Values
      BY <1>1, <2>3 DEF Used
    <3>2. Before(i + 1) = Before(i) \cup {i} /\ i \notin Before(i)
      BY <1>1, <3>1
    <3>3. moved[i + 1] = SetEntry(t, k, v)
      BY <1>6, <2>3
    <3>4. /\ Table(t, 2 * n) /\ 2 * n \in Nat \ {0} /\ t \in Arrays(2 * n)
          /\ Cardinality(Used(t)) = Cardinality(Before(i))
          /\ \A x \in Keys : \A w : Holds(t, x, w) <=> \E j \in Before(i) : es[j] = Entry(x, w)
      BY <1>1, <2>1 DEF Table
    <3> HIDE DEF t, k, v
    <3>5. Cardinality(Used(t)) < 2 * n
      <4>1. Cardinality(Before(i)) \in 0 .. n
        BY <1>7, <2>1
      <4> HIDE DEF Before
      <4> QED
        BY <1>1, <3>4, <4>1
    <3>6. PICK f \in 0 .. 2 * n - 1 : f \notin Used(t)
      BY <3>4, <3>5, UsedFinite
    <3>7. /\ Table(SetEntry(t, k, v), 2 * n)
          /\ Used(SetEntry(t, k, v)) = Used(t) \cup {Slot(t, k)}
          /\ Has(t, k) <=> Slot(t, k) \in Used(t)
          /\ \A x \in Keys : \A w :
               Holds(SetEntry(t, k, v), x, w) <=> IF x = k THEN w = v ELSE Holds(t, x, w)
      BY <3>1, <3>4, <3>6, SetIs
    <3>8. \A x \in Keys : \A w : Entry(x, w).key = x /\ Entry(x, w).val = w
      BY DEF Entry
    <3>9. \A j \in Before(i) : \A w : es[j] # Entry(k, w)
      <4> SUFFICES ASSUME NEW j \in Before(i), NEW w, es[j] = Entry(k, w) PROVE FALSE
        OBVIOUS
      <4>1. es[j].key = es[i].key /\ j \in Used(es) /\ j # i
        BY <1>1, <3>1, <3>8
      <4> QED
        BY <1>1, <3>1, <4>1 DEF OneSlotEach
    <3>10. Slot(t, k) \notin Used(t)
      BY <3>1, <3>4, <3>7, <3>9, HoldsOne
    <3>11. Cardinality(Used(moved[i + 1])) = Cardinality(Before(i + 1))
      <4>1. IsFiniteSet(Used(t)) /\ IsFiniteSet(Before(i))
        BY <1>7, <2>1, <3>4, UsedFinite
      <4>2. Cardinality(Used(t) \cup {Slot(t, k)}) = Cardinality(Used(t)) + 1
        BY <3>10, <4>1, FS_AddElement
      <4>3. Cardinality(Before(i) \cup {i}) = Cardinality(Before(i)) + 1
        BY <3>2, <4>1, FS_AddElement
      <4> QED
        BY <3>2, <3>3, <3>4, <3>7, <4>2, <4>3
    <3>12. ASSUME NEW x \in Keys, NEW w
           PROVE  Holds(moved[i + 1], x, w) <=> \E j \in Before(i + 1) : es[j] = Entry(x, w)
      <4>1. CASE x = k
        BY <3>1, <3>2, <3>3, <3>7, <3>8, <3>9, <4>1
      <4>2. CASE x # k
        <5>1. es[i] # Entry(x, w)
          BY <3>1, <3>8, <4>2
        <5> QED
          BY <3>2, <3>3, <3>4, <3>7, <4>2, <5>1
      <4> QED
        BY <4>1, <4>2
    <3>13. Good(i + 1)
      BY <3>3, <3>7, <3>11, <3>12
    <3> QED
      BY <2>1, <3>13
  <2> QED
    BY <2>2, <2>3
<1>10. Good(n)
  <2> HIDE DEF Good
  <2>1. n \in G
    <3> HIDE DEF G
    <3> QED
      BY <1>1, <1>8, <1>9, UpTo
  <2> QED
    BY <2>1
<1>11. Before(n) = Used(es)
  BY <1>1
<1>12. ASSUME NEW x \in Keys, NEW w
       PROVE  (\E j \in Used(es) : es[j] = Entry(x, w)) <=> Holds(es, x, w)
  <2>1. Entry(x, w).key = x
    BY DEF Entry
  <2> QED
    BY <1>1, <2>1, TableAssumption DEF Holds, Used
<1> QED
  BY <1>2, <1>10, <1>11, <1>12

-----------------------------------------------------------------------------

\* The array is a table, size tells how much of it is in use, at most half.
HInv ==
  /\ Table(entries, Cap(entries))
  /\ Cap(entries) >= 2
  /\ size = Cardinality(Used(entries))
  /\ 2 * size <= Cap(entries)
  /\ got \in Values \cup {NULL}
  /\ index = NULL \/ index \in 0 .. Cap(entries)

\* the map in an array
StoredIn(es) == {es[i].key : i \in Used(es)}
ContentsOf(es) == [k \in StoredIn(es) |-> CHOOSE i \in Used(es) : es[i].key = k]
MapIn(es) == [k \in StoredIn(es) |-> es[ContentsOf(es)[k]].val]

\* What an array in order holds is a map: each key in it has one slot and
\* one value.
LEMMA MapIs ==
  ASSUME NEW n, NEW es, Table(es, n)
  PROVE  /\ DOMAIN MapIn(es) = StoredIn(es) /\ StoredIn(es) \subseteq Keys
         /\ \A k \in Keys : k \in StoredIn(es) <=> \E w : Holds(es, k, w)
         /\ \A k \in StoredIn(es) : Holds(es, k, MapIn(es)[k])
         /\ \A k \in Keys : \A w : Holds(es, k, w) => MapIn(es)[k] = w
         /\ \A i \in Used(es) : /\ es[i].key \in StoredIn(es) /\ ContentsOf(es)[es[i].key] = i
                               /\ MapIn(es)[es[i].key] = es[i].val
         /\ \A k \in StoredIn(es) : ContentsOf(es)[k] \in Used(es) /\ es[ContentsOf(es)[k]].key = k
<1>1. /\ OneSlotEach(es) /\ \A i \in Used(es) : es[i].key \in Keys
  BY SlotsAre DEF Table
<1>2. ASSUME NEW k \in StoredIn(es)
      PROVE  ContentsOf(es)[k] \in Used(es) /\ es[ContentsOf(es)[k]].key = k
  BY DEF ContentsOf, StoredIn
<1>3. ASSUME NEW i \in Used(es)
      PROVE  /\ es[i].key \in StoredIn(es) /\ ContentsOf(es)[es[i].key] = i
             /\ MapIn(es)[es[i].key] = es[i].val
  <2>1. es[i].key \in StoredIn(es)
    BY DEF StoredIn
  <2>2. ContentsOf(es)[es[i].key] = i
    BY <1>1, <1>2, <2>1 DEF OneSlotEach
  <2> QED
    BY <2>1, <2>2 DEF MapIn
<1>4. StoredIn(es) \subseteq Keys
  BY <1>1 DEF StoredIn
<1>5. \A k \in Keys : k \in StoredIn(es) <=> \E w : Holds(es, k, w)
  BY HoldsOne DEF StoredIn, Has
<1>6. ASSUME NEW k \in StoredIn(es)
      PROVE  Holds(es, k, MapIn(es)[k])
  <2>1. PICK i \in Used(es) : es[i].key = k
    BY DEF StoredIn
  <2>2. MapIn(es)[k] = es[i].val
    BY <1>3, <2>1
  <2> QED
    BY <1>4, <2>1, <2>2, HoldsOne
<1>7. ASSUME NEW k \in Keys, NEW w, Holds(es, k, w)
      PROVE  MapIn(es)[k] = w
  <2>1. k \in StoredIn(es)
    BY <1>5, <1>7
  <2>2. PICK i \in Used(es) : es[i].key = k
    BY <2>1 DEF StoredIn
  <2>3. MapIn(es)[k] = es[i].val
    BY <1>3, <2>2
  <2> QED
    BY <1>7, <2>2, <2>3, HoldsOne
<1>8. DOMAIN MapIn(es) = StoredIn(es)
  BY DEF MapIn
<1> QED
  BY <1>2, <1>3, <1>4, <1>5, <1>6, <1>7, <1>8

\* The variable map of Map, before and after a step.
LEMMA MappedIs ==
  /\ Stored = StoredIn(entries) /\ Contents = ContentsOf(entries) /\ Mapped = MapIn(entries)
  /\ Stored' = StoredIn(entries') /\ Contents' = ContentsOf(entries') /\ Mapped' = MapIn(entries')
  BY DEF Stored, Contents, Mapped, StoredIn, ContentsOf, MapIn

-----------------------------------------------------------------------------

\* The table ht_init makes is in order.
LEMMA InitInv == Init => HInv
<1> SUFFICES ASSUME Init PROVE HInv
  OBVIOUS
<1> DEFINE n == HT_INITIAL_CAPACITY
<1>1. n \in Nat \ {0} /\ n >= 2 /\ entries = Blank(n)
  BY TableAssumption DEF Init
<1>2. Table(entries, n) /\ Used(entries) = {}
  BY <1>1, BlankIs
<1>3. Cap(entries) = n
  BY <1>1, <1>2, SlotsAre DEF Table
<1>4. Cardinality(Used(entries)) = 0
  BY <1>2, FS_EmptySet
<1> QED
  BY <1>1, <1>2, <1>3, <1>4 DEF Init, HInv

\* The table ht_set works on has room and the same contents.
LEMMA RoomyIs ==
  ASSUME HInv
  PROVE  \E n : /\ Table(Roomy(entries), n) /\ n \in Nat /\ 2 * size + 2 <= n
                /\ Cardinality(Used(Roomy(entries))) = size
                /\ \A x \in Keys : \A w : Holds(Roomy(entries), x, w) <=> Holds(entries, x, w)
<1> DEFINE n == Cap(entries)
<1>1. /\ Table(entries, n) /\ n \in Nat /\ n >= 2 /\ size = Cardinality(Used(entries))
      /\ 2 * size <= n /\ size \in Nat
  <2>1. Table(entries, n) /\ n \in Nat /\ entries \in Arrays(n)
    BY DEF HInv, Table
  <2> QED
    BY <2>1, UsedFinite DEF HInv
<1> HIDE DEF n
<1>2. CASE Crowded(entries)
  <2>1. Roomy(entries) = Expand(entries)
    BY <1>2 DEF Roomy
  <2>2. 2 * n \in Nat /\ 2 * size + 2 <= 2 * n
    BY <1>1
  <2> QED
    BY <1>1, <2>1, <2>2, ExpandIs
<1>3. CASE ~Crowded(entries)
  <2>1. Roomy(entries) = entries
    BY <1>3 DEF Roomy
  <2>2. ~(size >= n \div 2)
    BY <1>3 DEF Crowded, n
  <2>3. 2 * size + 2 <= n
    BY <1>1, <2>2
  <2> QED
    BY <1>1, <2>1, <2>3
<1> QED
  BY <1>2, <1>3

\* ht_set
LEMMA SetStep ==
  ASSUME HInv, NEW k \in Keys, NEW v \in Values, Set(k, v)
  PROVE  HInv' /\ M!Set(k, v)
<1> DEFINE es == Roomy(entries)
           s  == Slot(es, k)
<1>1. PICK n : /\ Table(es, n) /\ n \in Nat /\ 2 * size + 2 <= n
               /\ Cardinality(Used(es)) = size
               /\ \A x \in Keys : \A w : Holds(es, x, w) <=> Holds(entries, x, w)
  BY RoomyIs
<1>2. n \in Nat \ {0} /\ es \in Arrays(n)
  BY <1>1 DEF Table
<1>3. size \in Nat /\ IsFiniteSet(Used(es))
  BY <1>1, <1>2, UsedFinite
<1>4. /\ entries' = SetEntry(es, k, v)
      /\ size' = IF es[s].key = NULL THEN size + 1 ELSE size
      /\ index' = NULL /\ visited' = NULL /\ got' = got
  BY DEF Set
<1> HIDE DEF es
<1>5. PICK f \in 0 .. n - 1 : f \notin Used(es)
  BY <1>1, <1>2, <1>3, UsedFinite
<1>6. /\ Table(entries', n)
      /\ Used(entries') = Used(es) \cup {s}
      /\ es[s].key = NULL <=> s \notin Used(es)
      /\ \A x \in Keys : \A w : Holds(entries', x, w) <=> IF x = k THEN w = v ELSE Holds(es, x, w)
  BY <1>1, <1>4, <1>5, SetIs
<1> HIDE DEF s
<1>7. Cap(entries') = n
  BY <1>6, SlotsAre DEF Table
<1>8. size' = Cardinality(Used(entries')) /\ 2 * size' <= n
  <2>1. CASE s \in Used(es)
    <3>1. Used(entries') = Used(es)
      BY <1>6, <2>1
    <3> QED
      BY <1>1, <1>3, <1>4, <1>6, <2>1, <3>1
  <2>2. CASE s \notin Used(es)
    <3>1. Cardinality(Used(es) \cup {s}) = Cardinality(Used(es)) + 1
      BY <1>3, <2>2, FS_AddElement
    <3> QED
      BY <1>1, <1>3, <1>4, <1>6, <2>2, <3>1
  <2> QED
    BY <2>1, <2>2
<1>9. HInv'
  <2>1. n >= 2
    BY <1>1, <1>3
  <2> QED
    BY <1>4, <1>6, <1>7, <1>8, <2>1 DEF HInv
<1>10. Mapped' = [x \in DOMAIN Mapped \cup {k} |-> IF x = k THEN v ELSE Mapped[x]]
  <2>1. Table(entries, Cap(entries))
    BY DEF HInv
  <2>2. /\ \A x \in Keys : x \in StoredIn(entries) <=> \E w : Holds(entries, x, w)
        /\ \A x \in StoredIn(entries) : Holds(entries, x, MapIn(entries)[x])
        /\ DOMAIN MapIn(entries) = StoredIn(entries) /\ StoredIn(entries) \subseteq Keys
    BY <2>1, MapIs
  <2>3. /\ \A x \in Keys : x \in StoredIn(entries') <=> \E w : Holds(entries', x, w)
        /\ \A x \in Keys : \A w : Holds(entries', x, w) => MapIn(entries')[x] = w
        /\ DOMAIN MapIn(entries') = StoredIn(entries') /\ StoredIn(entries') \subseteq Keys
    BY <1>6, MapIs
  <2>4. \A x \in Keys : \A w : Holds(entries', x, w) <=> IF x = k THEN w = v ELSE Holds(entries, x, w)
    BY <1>1, <1>6
  <2>5. DOMAIN MapIn(entries') = DOMAIN MapIn(entries) \cup {k}
    <3>1. \A x \in Keys : x \in StoredIn(entries') <=> x \in StoredIn(entries) \/ x = k
      BY <2>2, <2>3, <2>4
    <3> QED
      BY <2>2, <2>3, <3>1
  <2>6. \A x \in DOMAIN MapIn(entries') : MapIn(entries')[x] = IF x = k THEN v ELSE MapIn(entries)[x]
    BY <2>2, <2>3, <2>4, <2>5
  <2>7. MapIn(entries') = [x \in DOMAIN MapIn(entries') |-> MapIn(entries')[x]]
    BY DEF MapIn
  <2>8. MapIn(entries')
          = [x \in DOMAIN MapIn(entries) \cup {k} |-> IF x = k THEN v ELSE MapIn(entries)[x]]
    BY <2>5, <2>6, <2>7
  <2> QED
    BY <2>8, MappedIs
<1>11. Todo' = {}
  BY <1>4 DEF Todo
<1> QED
  BY <1>4, <1>9, <1>10, <1>11 DEF M!Set

\* ht_get
LEMMA GetStep ==
  ASSUME HInv, NEW k \in Keys, Get(k)
  PROVE  HInv' /\ M!Get(k)
<1> DEFINE n == Cap(entries)
           s == Slot(entries, k)
<1>1. /\ Table(entries, n) /\ n \in Nat \ {0} /\ entries \in Arrays(n)
      /\ size = Cardinality(Used(entries)) /\ 2 * size <= n
  BY DEF HInv, Table
<1>2. PICK f \in 0 .. n - 1 : f \notin Used(entries)
  BY <1>1, UsedFinite
<1>3. /\ UNCHANGED <<entries, size, index, visited>>
      /\ got' = IF entries[s].key = NULL THEN NULL ELSE entries[s].val
  BY DEF Get
<1>4. UNCHANGED <<Mapped, Todo>>
  BY <1>3, MappedIs DEF Todo
<1>5. /\ entries[s].key = NULL => ~Has(entries, k)
      /\ entries[s].key # NULL => entries[s].key = k /\ s \in Used(entries)
  BY <1>1, <1>2, SlotTells
<1> HIDE DEF s
<1>6. CASE entries[s].key = NULL
  <2>1. k \notin DOMAIN MapIn(entries)
    BY <1>1, <1>5, <1>6, MapIs, HoldsOne
  <2>2. got' = NULL
    BY <1>3, <1>6
  <2> QED
    BY <1>3, <1>4, <2>1, <2>2, MappedIs DEF HInv, M!Get
<1>7. CASE entries[s].key # NULL
  <2>1. k \in DOMAIN MapIn(entries) /\ MapIn(entries)[k] = entries[s].val
    BY <1>1, <1>5, <1>7, MapIs
  <2>2. got' = entries[s].val /\ entries[s].val \in Values
    BY <1>1, <1>3, <1>5, <1>7, SlotsAre
  <2> QED
    BY <1>3, <1>4, <2>1, <2>2, MappedIs DEF HInv, M!Get
<1> QED
  BY <1>6, <1>7

\* ht_iterator and ht_next
LEMMA IterStep ==
  ASSUME HInv
  PROVE  /\ Iterate => HInv' /\ M!Iterate
         /\ \A i \in DOMAIN entries : Visit(i) => HInv' /\ M!Visit
         /\ Finish => HInv' /\ M!Finish
<1> DEFINE n == Cap(entries)
<1>1. /\ Table(entries, n) /\ n \in Nat \ {0} /\ entries \in Arrays(n)
      /\ Used(entries) \subseteq 0 .. n - 1 /\ DOMAIN entries = 0 .. n - 1
  BY SlotsAre DEF HInv, Table
<1>2. /\ Stored = DOMAIN Mapped
      /\ \A i \in Used(entries) : /\ entries[i].key \in Stored
                                 /\ Contents[entries[i].key] = i
                                 /\ Mapped[entries[i].key] = entries[i].val
      /\ \A k \in Stored : Contents[k] \in Used(entries) /\ entries[Contents[k]].key = k
  BY <1>1, MapIs, MappedIs
<1>3. entries' = entries => Mapped' = Mapped /\ Stored' = Stored /\ Contents' = Contents
  BY MappedIs
<1> HIDE DEF n
<1>4. ASSUME Iterate
      PROVE  HInv' /\ M!Iterate
  <2>1. index' = 0 /\ visited' = NULL /\ UNCHANGED <<entries, size, got>>
    BY <1>4 DEF Iterate
  <2>2. HInv'
    BY <1>1, <2>1 DEF HInv, n
  <2>3. Todo' = {k \in Stored : Contents[k] >= 0}
    BY <1>3, <2>1, TableAssumption DEF Todo
  <2>4. Todo' = DOMAIN Mapped
    <3>1. \A k \in Stored : Contents[k] >= 0
      BY <1>1, <1>2
    <3> QED
      BY <1>2, <2>3, <3>1
  <2> QED
    BY <1>3, <2>1, <2>2, <2>4 DEF M!Iterate
<1>5. ASSUME NEW i \in DOMAIN entries, Visit(i)
      PROVE  HInv' /\ M!Visit
  <2> DEFINE k == entries[i].key
  <2>1. /\ index # NULL /\ i \in Used(entries) /\ i >= index
        /\ \A j \in index .. i - 1 : j \notin Used(entries)
        /\ index' = i + 1
        /\ visited' = [key |-> k, value |-> entries[i].val]
        /\ UNCHANGED <<entries, size, got>>
    BY <1>5 DEF Visit
  <2>2. index \in Nat /\ i \in 0 .. n - 1 /\ index' # NULL /\ index' \in 0 .. n
    BY <1>1, <2>1, TableAssumption DEF HInv, n
  <2>3. HInv'
    BY <2>1, <2>2 DEF HInv, n
  <2>4. Todo = {x \in Stored : Contents[x] >= index} /\ Todo' = {x \in Stored : Contents[x] >= i + 1}
    BY <1>3, <2>1, <2>2 DEF Todo
  <2>5. k \in Todo /\ Mapped[k] = entries[i].val
    BY <1>2, <2>1, <2>4
  <2>6. \A x \in Stored : Contents[x] >= i + 1 <=> Contents[x] >= index /\ x # k
    <3> TAKE x \in Stored
    <3>1. Contents[x] \in Used(entries) /\ Contents[x] \in Nat /\ entries[Contents[x]].key = x
      BY <1>1, <1>2
    <3>2. Contents[x] = i => x = k
      BY <3>1
    <3>3. x = k => Contents[x] = i
      BY <1>2, <2>1
    <3>4. ~(Contents[x] \in index .. i - 1)
      BY <2>1, <3>1
    <3> QED
      BY <2>1, <2>2, <3>1, <3>2, <3>3, <3>4
  <2>7. Todo' = Todo \ {k}
    BY <2>4, <2>6
  <2> QED
    BY <1>3, <2>1, <2>3, <2>5, <2>7 DEF M!Visit
<1>6. ASSUME Finish
      PROVE  HInv' /\ M!Finish
  <2>1. /\ index # NULL /\ \A j \in Used(entries) : j < index
        /\ index' = n /\ visited' = NULL /\ UNCHANGED <<entries, size, got>>
    BY <1>6 DEF Finish, n
  <2>2. index \in Nat /\ index' # NULL
    BY <1>1, <2>1, TableAssumption DEF HInv, n
  <2>3. HInv'
    BY <1>1, <2>1 DEF HInv, n
  <2>4. Todo = {x \in Stored : Contents[x] >= index} /\ Todo' = {x \in Stored : Contents[x] >= n}
    BY <1>3, <2>1, <2>2 DEF Todo
  <2>5. \A x \in Stored : Contents[x] < index /\ Contents[x] < n /\ Contents[x] \in Nat
    BY <1>1, <1>2, <2>1
  <2>6. Todo = {} /\ Todo' = {}
    BY <1>1, <2>2, <2>4, <2>5
  <2> QED
    BY <1>3, <2>1, <2>3, <2>6 DEF M!Finish
<1> QED
  BY <1>4, <1>5, <1>6

\* Every call keeps the table in order and is a call on the map.
LEMMA Step ==
  ASSUME HInv, [Next]_vars
  PROVE  HInv' /\ [M!Next]_M!vars
<1>1. ASSUME NEW k \in Keys, Get(k)
      PROVE  HInv' /\ M!Next
  BY <1>1, GetStep DEF M!Next
<1>2. ASSUME NEW k \in Keys, NEW v \in Values, Set(k, v)
      PROVE  HInv' /\ M!Next
  BY <1>2, SetStep DEF M!Next
<1>3. CASE Iterate
  BY <1>3, IterStep DEF M!Next
<1>4. ASSUME NEW i \in DOMAIN entries, Visit(i)
      PROVE  HInv' /\ M!Next
  BY <1>4, IterStep DEF M!Next
<1>5. CASE Finish
  BY <1>5, IterStep DEF M!Next
<1>6. CASE UNCHANGED vars
  <2>1. UNCHANGED <<entries, size, got, index, visited>>
    BY <1>6 DEF vars
  <2>2. UNCHANGED <<Mapped, Todo>>
    BY <2>1, MappedIs DEF Todo
  <2> QED
    BY <2>1, <2>2 DEF HInv, M!vars
<1> QED
  BY <1>1, <1>2, <1>3, <1>4, <1>5, <1>6 DEF Next

\* The table is always in order.
LEMMA Always == Spec => []HInv
<1>1. HInv /\ [Next]_vars => HInv'
  BY Step
<1> QED
  BY InitInv, <1>1, PTL DEF Spec

-----------------------------------------------------------------------------

\* The array has the capacity's slots, each free or holding a key and a value.
THEOREM TableTypeCorrect == Spec => []TypeOK
<1>1. HInv => TypeOK
  <2> SUFFICES ASSUME HInv PROVE TypeOK
    OBVIOUS
  <2>1. entries \in Arrays(Cap(entries)) /\ Cap(entries) \in Nat
    BY DEF HInv, Table
  <2>2. \A i \in DOMAIN entries : entries[i] = Free \/ entries[i] \in [key : Keys, val : Values]
    BY <2>1 DEF Arrays, Taken
  <2>3. DOMAIN entries = 0 .. Cap(entries) - 1
    BY <2>1 DEF Arrays
  <2>4. size \in Nat
    BY <2>1, UsedFinite DEF HInv
  <2> QED
    BY <2>2, <2>3, <2>4 DEF TypeOK, HInv
<1> QED
  BY <1>1, Always, PTL

\* Every probe of ht_get and ht_set ends: a slot is free, since size counts
\* the used ones and ht_expand is called in time.
THEOREM AlwaysSlotFree == Spec => []SlotFree
<1>1. HInv => SlotFree
  <2> SUFFICES ASSUME HInv PROVE SlotFree
    OBVIOUS
  <2>1. entries \in Arrays(Cap(entries)) /\ Cap(entries) \in Nat
    BY DEF HInv, Table
  <2>2. size \in Nat
    BY <2>1, UsedFinite DEF HInv
  <2> QED
    BY <2>1, <2>2 DEF SlotFree, HInv
<1> QED
  BY <1>1, Always, PTL

\* The table is the map its users take it for, collisions, wrapping probes
\* and enlargements included: ht_set, ht_get and the iterator do to it what
\* they do to a map.
THEOREM TableImplementsMap == Spec => ImplementsMap
<1>1. Init => M!Init
  <2> SUFFICES ASSUME Init PROVE M!Init
    OBVIOUS
  <2>1. Used(entries) = {}
    BY BlankIs, TableAssumption DEF Init
  <2>2. Stored = {} /\ Todo = {}
    BY <2>1 DEF Stored, Todo, Init
  <2>3. Mapped = [k \in {} |-> NULL]
    BY <2>2 DEF Mapped
  <2> QED
    BY <2>2, <2>3 DEF Init, M!Init
<1>2. HInv /\ [Next]_vars => [M!Next]_M!vars
  BY Step
<1> QED
  BY <1>1, <1>2, Always, PTL DEF Spec, ImplementsMap, M!Spec

=============================================================================
