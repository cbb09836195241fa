----------------------------- MODULE MCResolve -----------------------------
(* Resolve on two identifiers and two labels.  Names made from an          *)
(* identifier and a number are pairs: no identifier of the program is      *)
(* spelled like one of them.                                               *)
EXTENDS Resolve

CONSTANTS x, y, here, there

MCIdents == {x, y}
MCLabels == {here, there}

MCSuffixed(i, n) == <<i, n>>

ASSUME PlainAssumption == PlainIdents

=============================================================================
