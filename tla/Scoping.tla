------------------------------ MODULE Scoping ------------------------------
(***************************************************************************)
(* Scopes and linkage of ordinary identifiers in C: an identifier denotes  *)
(* what its declaration in the innermost enclosing scope declares.  All    *)
(* declarations with linkage of an identifier denote one entity, every     *)
(* declaration without linkage denotes an object of its own.               *)
(***************************************************************************)
EXTENDS Integers

CONSTANT Idents

VARIABLES
  decls,    \* the declarations in force: [ident, depth, entity]
  depth,    \* of the current scope; the file scope has depth 0
  objects,  \* the number of objects without linkage declared so far
  bound     \* the entity the last identifier used denotes

vars == <<decls, depth, objects, bound>>

Linked(i) == [ident |-> i]
Object(n) == [object |-> n]
Nothing   == [none |-> TRUE]

Here(i) == {d \in decls : d.ident = i /\ d.depth = depth}

Init ==
  /\ decls = {}
  /\ depth = 0
  /\ objects = 0
  /\ bound = Nothing

Open ==
  /\ depth' = depth + 1
  /\ UNCHANGED <<decls, objects, bound>>

Close ==
  /\ depth > 0
  /\ depth' = depth - 1
  /\ decls' = {d \in decls : d.depth < depth}
  /\ UNCHANGED <<objects, bound>>

\* a function, a variable of file scope or an extern one
DeclareLinked(i) ==
  /\ \A d \in Here(i) : d.entity = Linked(i)
  /\ decls' = decls \cup {[ident |-> i, depth |-> depth, entity |-> Linked(i)]}
  /\ UNCHANGED <<depth, objects, bound>>

\* ... that opens the scope of its parameters
DeclareFunction(i) ==
  /\ \A d \in Here(i) : d.entity = Linked(i)
  /\ decls' = decls \cup {[ident |-> i, depth |-> depth, entity |-> Linked(i)]}
  /\ depth' = depth + 1
  /\ UNCHANGED <<objects, bound>>

\* a parameter or a local variable
DeclareObject(i) ==
  /\ depth > 0
  /\ Here(i) = {}
  /\ objects' = objects + 1
  /\ decls' = decls \cup {[ident |-> i, depth |-> depth, entity |-> Object(objects')]}
  /\ UNCHANGED <<depth, bound>>

\* an identifier in an expression
Use(i) ==
  /\ \E d \in decls :
       /\ d.ident = i
       /\ \A e \in decls : e.ident = i => e.depth <= d.depth
       /\ bound' = d.entity
  /\ UNCHANGED <<decls, depth, objects>>

Next ==
  \/ Open
  \/ Close
  \/ \E i \in Idents :
       DeclareLinked(i) \/ DeclareFunction(i) \/ DeclareObject(i) \/ Use(i)

Spec == Init /\ [][Next]_vars

=============================================================================
