-------------------------------- MODULE Map --------------------------------
(***************************************************************************)
(* What the users of table.h rely on: a finite map from keys to pointers,  *)
(* with an iterator that visits every key once, in some order, as long as  *)
(* nothing is set.                                                         *)
(***************************************************************************)
CONSTANTS Keys, Values, NULL

VARIABLES
  map,      \* the keys set so far and their values
  got,      \* the answer of the last ht_get
  todo,     \* the keys the running iteration has still to visit
  visited   \* what the last ht_next gave: [key, value], or NULL at the end

vars == <<map, got, todo, visited>>

Init ==
  /\ map = [k \in {} |-> NULL]
  /\ got = NULL
  /\ todo = {}
  /\ visited = NULL

\* it ends an iteration
Set(k, v) ==
  /\ map' = [x \in DOMAIN map \cup {k} |-> IF x = k THEN v ELSE map[x]]
  /\ todo' = {}
  /\ visited' = NULL
  /\ UNCHANGED got

Get(k) ==
  /\ got' = IF k \in DOMAIN map THEN map[k] ELSE NULL
  /\ UNCHANGED <<map, todo, visited>>

Iterate ==
  /\ todo' = DOMAIN map
  /\ visited' = NULL
  /\ UNCHANGED <<map, got>>

Visit ==
  /\ \E k \in todo :
       /\ visited' = [key |-> k, value |-> map[k]]
       /\ todo' = todo \ {k}
  /\ UNCHANGED <<map, got>>

Finish ==
  /\ todo = {}
  /\ visited' = NULL
  /\ UNCHANGED <<map, got, todo>>

Next ==
  \/ \E k \in Keys : Get(k) \/ \E v \in Values : Set(k, v)
  \/ Iterate
  \/ Visit
  \/ Finish

Spec == Init /\ [][Next]_vars

=============================================================================
