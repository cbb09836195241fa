----------------------------- MODULE MCLowering -----------------------------
(* Lowering with longwords of 4 and quadwords of 6 bits, so that the cases 1 *)
(* and 17 are the same in a switch on int only.  Every statement has a call  *)
(* of its own; the first one may have a composite expression instead.        *)
EXTENDS Lowering

Calls(prefix, n) == Call(prefix \o ToString(n), << >>, "int")
Logical(op, l, r) == [Binary(op, l, r) EXCEPT !.tp = "int"]

Composite ==
  LET f == Call("f", << >>, "int")
      g == Call("g", << >>, "int")
      h == Call("h", << >>, "int")
      x == Var("x", "int")
      first == {Logical(op, f, g) : op \in {"LAND", "LOR"}}
  IN  first
      \cup {Logical(op, l, h) : op \in {"LAND", "LOR"}, l \in first}
      \cup {Logical(op, h, l) : op \in {"LAND", "LOR"}, l \in first}
      \cup {[Ternary(f, g, h) EXCEPT !.tp = "int"],
            Call("f", <<g>>, "int"),
            [Assign("ASSIGN", x, f) EXCEPT !.tp = "int"],
            Logical("LAND", [Assign("ASSIGN", x, f) EXCEPT !.tp = "int"], Call("g", <<x>>, "int"))}

MCConds(n) == {Calls("c", n)} \cup IF n = 0 THEN Composite ELSE {}
MCExprs(n) == {Call("g" \o ToString(n), <<Var("x", "int")>>, "int")}
                \cup IF n = 0 THEN Composite ELSE {}

MCWeight(e) == IF e \in Composite THEN MaxStmts - 1 ELSE 1
MCAnswers(tp) == IF tp = "int" THEN {0, 1} ELSE {0, 1, 17}
MCConstants == {1, 17}
MCSwitchTypes == {"int", "long"}

=============================================================================
