--------------------------- MODULE MCTacSymbols ---------------------------
(* Programs of up to four declarations: of functions and variables with    *)
(* linkage and of an object of a body; their bodies need up to two         *)
(* temporaries.  tmp1, t_1, is both an identifier of the program and what  *)
(* the resolver calls its first local variable t.                          *)
EXTENDS TacSymbols

CONSTANTS x, tmp1, tmp2, tmp3

MCNames == {x, tmp1}
MCLocals == {tmp1}
MCVarTypes == {"int", "long"}
MCFnTypes == {"int()", "int(int)"}
MCParamCount(t) == IF t = "int()" THEN 0 ELSE 1
MCParamType(t) == "int"
MCTmpName(n) == IF n = 1 THEN tmp1 ELSE IF n = 2 THEN tmp2 ELSE tmp3

\* of the other run
MCNamesX == {x}

=============================================================================
