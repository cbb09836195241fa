----------------------------- MODULE MCCallConv -----------------------------
(* Calls of no, one, five, six, seven and eight operands: all in           *)
(* registers, the last register, and one or two on the stack.              *)
EXTENDS CallConv

MCArities == {0, 1, 5, 6, 7, 8}

=============================================================================
