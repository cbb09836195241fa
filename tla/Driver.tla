------------------------------- MODULE Driver -------------------------------
(***************************************************************************)
(* parse_driver_options of driver.c: one pass over the command line that   *)
(* collects the stage to stop after, the input, the output and the         *)
(* libraries.  An argument is what the switch on its first characters      *)
(* makes of it.                                                            *)
(***************************************************************************)
EXTENDS Integers, Sequences, FiniteSets

CONSTANTS
  Files,      \* arguments without a dash, of two characters or more
  Libs,       \* what follows -l
  NULL,
  MaxArgs     \* bound on argc - 1

ASSUME DriverAssumption == NULL \notin Files /\ MaxArgs \in Nat

VARIABLES
  pc,             \* "options", "preprocess" ..., or one of the ends:
                  \* "exit" (with exitCode), "usage", "noinput", "abort"
  args,           \* the arguments read so far
  nextArgIsOut,
  dof, output, input, lArgs

optionVars == <<args, nextArgIsOut, dof, output, input, lArgs>>

-----------------------------------------------------------------------------

Stages == {"LEX", "PARSE", "VALIDATE", "TAC", "CODEGEN", "S", "C"}

Stage(s) == [t |-> "stage", dof |-> s]
Out      == [t |-> "out"]
Lib(l)   == [t |-> "lib", name |-> l]
Word(f)  == [t |-> "word", file |-> f]
BadFlag  == [t |-> "flag"]     \* no flag of the switch
Short    == [t |-> "short"]    \* a single character, or none

Arguments ==
  {Stage(s) : s \in Stages} \cup {Lib(l) : l \in Libs}
    \cup {Word(f) : f \in Files} \cup {Out, BadFlag, Short}

End(how) == pc' = how /\ UNCHANGED <<nextArgIsOut, dof, output, input, lArgs>>

SetStage(s) ==
  IF dof # "INVALID" THEN End("usage")
  ELSE dof' = s /\ UNCHANGED <<pc, nextArgIsOut, output, input, lArgs>>

\* bug: a second -o is taken
SetOutputAgain ==
  nextArgIsOut' = TRUE /\ UNCHANGED <<pc, dof, output, input, lArgs>>

\* SET_OUTPUT_FLAG
SetOutput ==
  IF output # NULL \/ nextArgIsOut THEN End("usage")
  ELSE nextArgIsOut' = TRUE /\ UNCHANGED <<pc, dof, output, input, lArgs>>

\* bug: nextArgIsOut stays set
AddWordSticky(f) ==
  IF nextArgIsOut
  THEN output' = f /\ UNCHANGED <<pc, nextArgIsOut, dof, input, lArgs>>
  ELSE IF input # NULL THEN End("usage")
  ELSE input' = f /\ UNCHANGED <<pc, nextArgIsOut, dof, output, lArgs>>

AddWord(f) ==
  IF nextArgIsOut
  THEN IF output # NULL THEN End("usage")
       ELSE /\ nextArgIsOut' = FALSE
            /\ output' = f
            /\ UNCHANGED <<pc, dof, input, lArgs>>
  ELSE IF input # NULL THEN End("usage")
  ELSE input' = f /\ UNCHANGED <<pc, nextArgIsOut, dof, output, lArgs>>

Flag(a) ==
  IF nextArgIsOut THEN End("usage")
  ELSE CASE a.t = "stage" -> SetStage(a.dof)
         [] a.t = "out"   -> SetOutput
         [] a.t = "lib"   -> /\ lArgs' = Append(lArgs, a.name)
                             /\ UNCHANGED <<pc, nextArgIsOut, dof, output, input>>
         [] OTHER         -> End("usage")

DriverInit ==
  /\ pc = "options"
  /\ args = << >>
  /\ nextArgIsOut = FALSE
  /\ dof = "INVALID"
  /\ output = NULL
  /\ input = NULL
  /\ lArgs = << >>

\* one round of the loop over argv
ReadArg(a) ==
  /\ pc = "options"
  /\ Len(args) < MaxArgs
  /\ args' = Append(args, a)
  /\ CASE a.t = "short" -> End("abort")
       [] a.t = "word"  -> AddWord(a.file)
       [] OTHER         -> Flag(a)

\* bug: a missing input is not noticed
EndOptionsUnchecked ==
  /\ pc = "options"
  /\ dof' = IF dof = "INVALID" THEN "ALL" ELSE dof
  /\ pc' = "main"
  /\ UNCHANGED <<args, nextArgIsOut, output, input, lArgs>>

\* after the loop; an output that is still expected is not missed
EndOptions ==
  /\ pc = "options"
  /\ dof' = IF dof = "INVALID" THEN "ALL" ELSE dof
  /\ pc' = IF input = NULL THEN "noinput" ELSE "main"
  /\ UNCHANGED <<args, nextArgIsOut, output, input, lArgs>>

-----------------------------------------------------------------------------

\* What a command line says, read as a whole.
Is(t)   == {k \in DOMAIN args : args[k].t = t}
Named   == {k + 1 : k \in Is("out")} \cap DOMAIN args
Inputs  == Is("word") \ Named

\* the number of the library at k among the libraries
LibNumber(k) == Cardinality({j \in Is("lib") : j <= k})

Consistent ==
  /\ Cardinality(Is("stage")) <= 1
  /\ Cardinality(Is("out")) <= 1
  /\ Cardinality(Inputs) <= 1
  /\ Named \subseteq Is("word")
  /\ Is("flag") \cup Is("short") = {}

\* A command line that is accepted is consistent, and the options are what it
\* says, in whatever order its parts stand: the one stage, the word after -o,
\* the other word, and all libraries in order.
OptionsMeaning ==
  pc \notin {"options", "usage", "noinput", "abort"} =>
    /\ Consistent
    /\ \A k \in Is("stage") : dof = args[k].dof
    /\ Is("stage") = {} => dof = "ALL"
    /\ \A k \in Named : output = args[k].file
    /\ Named = {} => output = NULL
    /\ Inputs = {k \in Inputs : input = args[k].file} /\ Inputs # {}
    /\ Len(lArgs) = Cardinality(Is("lib"))
    /\ \A k \in Is("lib") : lArgs[LibNumber(k)] = args[k].name

\* The loop only gives up at an argument that contradicts what stands before.
RefusedForReason == pc = "usage" => ~Consistent

=============================================================================
