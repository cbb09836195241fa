----------------------------- MODULE MCPipeline -----------------------------
(* All command lines of up to five arguments: the stages, -o, two          *)
(* libraries, two files of which one has no extension, and bad arguments.  *)
EXTENDS Pipeline

CONSTANTS source, plain, m, pthread

MCFiles == {source, plain}
MCNoDot == {plain}
MCLibs == {m, pthread}

=============================================================================
