--------------------------- MODULE MCFrameLayout ---------------------------
(* FrameLayout on five names: two longwords, two quadwords and a static    *)
(* quadword.                                                               *)
EXTENDS FrameLayout

CONSTANTS i, j, l, m, g

MCVars == {i, j, l, m, g}
MCStatics == {g}
MCQuads == {l, m, g}

=============================================================================
