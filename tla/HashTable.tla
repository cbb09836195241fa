----------------------------- MODULE HashTable -----------------------------
(***************************************************************************)
(* table.c: open addressing with linear probing, doubled when half full.   *)
(* Every symbol, label, goto, stack slot and case constant of the compiler *)
(* is found through it.                                                    *)
(*                                                                         *)
(* The tables with string keys are modelled, the only ones the program     *)
(* creates.  hash_key is an arbitrary function, and the initial capacity   *)
(* a parameter.  A call is one step: the compiler has one thread.          *)
(***************************************************************************)
EXTENDS Integers, FiniteSets

CONSTANTS
  Keys,
  Values,
  NULL,
  Hash,                 \* hash_key
  HT_INITIAL_CAPACITY,
  MaxCap                \* bound on the capacity

ASSUME TableAssumption ==
  /\ Hash \in [Keys -> Nat]
  /\ HT_INITIAL_CAPACITY \in Nat
  /\ HT_INITIAL_CAPACITY >= 2
  /\ MaxCap \in Nat
  /\ NULL \notin Keys \cup Values \cup Nat

VARIABLES
  entries,    \* t->entries; its domain is 0 .. t->cap - 1
  size,       \* t->size
  got,        \* the answer of the last ht_get
  index,      \* _index of the iterator, or NULL when none is in use
  visited     \* what the last ht_next stored, or NULL when it returned false

vars == <<entries, size, got, index, visited>>

-----------------------------------------------------------------------------

Free == [key |-> NULL]

\* bug: key and value are exchanged
EntrySwapped(k, v) == [key |-> v, val |-> k]

Entry(k, v) == [key |-> k, val |-> v]

Cap(es) == Cardinality(DOMAIN es)

Blank(cap) == [i \in 0 .. cap - 1 |-> Free]

\* the d-th slot the loop looks at, from hash & (cap - 1) and round the end
ProbeAt(es, k, d) == (Hash[k] + d) % Cap(es)

\* bug: a slot taken by another key is used all the same
StopsAtOnce(es, k, i) == TRUE

\* where the loop ends: at the key, or at the first free slot
Stops(es, k, i) == es[i].key \in {k, NULL}

Slot(es, k) ==
  ProbeAt(es, k, CHOOSE d \in 0 .. Cap(es) - 1 :
                   /\ Stops(es, k, ProbeAt(es, k, d))
                   /\ \A e \in 0 .. d - 1 : ~Stops(es, k, ProbeAt(es, k, e)))

\* ht_set_entry: the entries afterwards
SetEntry(es, k, v) == [es EXCEPT ![Slot(es, k)] = Entry(k, v)]

\* ht_expand: the entries are set again, in array order, in twice the room
Expand(es) ==
  LET moved[i \in 0 .. Cap(es)] ==
        IF i = 0 THEN Blank(2 * Cap(es))
        ELSE IF es[i - 1].key = NULL THEN moved[i - 1]
        ELSE SetEntry(moved[i - 1], es[i - 1].key, es[i - 1].val)
  IN  moved[Cap(es)]

\* bug: the table is only enlarged when it is full
CrowdedWhenFull(es) == size >= Cap(es)

Crowded(es) == size >= Cap(es) \div 2

\* the table ht_set works on
Roomy(es) == IF Crowded(es) THEN Expand(es) ELSE es

Used(es) == {i \in DOMAIN es : es[i].key # NULL}

-----------------------------------------------------------------------------

\* ht_create
Init ==
  /\ entries = Blank(HT_INITIAL_CAPACITY)
  /\ size = 0
  /\ got = NULL
  /\ index = NULL
  /\ visited = NULL

\* ht_set; callers must not use an iterator across it
Set(k, v) ==
  /\ Crowded(entries) => 2 * Cap(entries) <= MaxCap
  /\ LET es == Roomy(entries)
     IN  /\ entries' = SetEntry(es, k, v)
         /\ size' = IF es[Slot(es, k)].key = NULL THEN size + 1 ELSE size
  /\ index' = NULL
  /\ visited' = NULL
  /\ UNCHANGED got

\* ht_get
Get(k) ==
  /\ LET e == entries[Slot(entries, k)]
     IN  got' = IF e.key = NULL THEN NULL ELSE e.val
  /\ UNCHANGED <<entries, size, index, visited>>

\* ht_iterator
Iterate ==
  /\ index' = 0
  /\ visited' = NULL
  /\ UNCHANGED <<entries, size, got>>

\* ht_next: on to the next used slot, past it, ...
Visit(i) ==
  /\ index # NULL
  /\ i \in Used(entries)
  /\ i >= index
  /\ \A j \in index .. i - 1 : j \notin Used(entries)
  /\ index' = i + 1
  /\ visited' = [key |-> entries[i].key, value |-> entries[i].val]
  /\ UNCHANGED <<entries, size, got>>

\* ... or there is none
Finish ==
  /\ index # NULL
  /\ \A j \in Used(entries) : j < index
  /\ index' = Cap(entries)
  /\ visited' = NULL
  /\ UNCHANGED <<entries, size, got>>

Next ==
  \/ \E k \in Keys : Get(k) \/ \E v \in Values : Set(k, v)
  \/ Iterate
  \/ \E i \in DOMAIN entries : Visit(i)
  \/ Finish

Spec == Init /\ [][Next]_vars

-----------------------------------------------------------------------------

\* The array has the capacity's slots, each free or holding a key and value.
TypeOK ==
  /\ DOMAIN entries = 0 .. Cap(entries) - 1
  /\ \A i \in DOMAIN entries :
       entries[i] = Free \/ entries[i] \in [key : Keys, val : Values]
  /\ size \in Nat
  /\ got \in Values \cup {NULL}

\* No lookup runs round the array for ever: there is always a free slot,
\* because size counts the used ones and the table grows before it is full.
SlotFree == size = Cardinality(Used(entries)) /\ size < Cap(entries)

\* The table behaves as the map its users take it for.
Stored == {entries[i].key : i \in Used(entries)}

Contents == [k \in Stored |->
               (CHOOSE i \in Used(entries) : entries[i].key = k)]

Mapped == [k \in Stored |-> entries[Contents[k]].val]

Todo == IF index = NULL THEN {} ELSE {k \in Stored : Contents[k] >= index}

M == INSTANCE Map WITH map <- Mapped, todo <- Todo

ImplementsMap == M!Spec

=============================================================================
