------------------------------ MODULE Pipeline ------------------------------
(***************************************************************************)
(* main.c: the stages in their order, the arenas and tables each of them   *)
(* makes, reads and releases, the files in the directory of the input, and *)
(* the calls of gcc.  A stage ends the process with exit(1) for a program  *)
(* it refuses.                                                             *)
(*                                                                         *)
(* A region is an arena or a hash table.  misuse collects the regions that *)
(* were read or released when they were not there.                         *)
(***************************************************************************)
EXTENDS Driver

CONSTANT
  NoDot       \* the files without an extension

ASSUME NoDotAssumption == NoDot \subseteq Files

VARIABLES
  live,       \* the regions that exist
  misuse,
  files,      \* those written: "i", "s", "o" and "exe" by extension
  exitCode    \* of the process: 0, or 1 for any other code

stageVars == <<live, misuse, files, exitCode>>
vars == <<pc, optionVars, stageVars>>

-----------------------------------------------------------------------------

\* the regions of each result
AST   == {"decl_arena", "expr_arena", "stmt_arena", "bi_arena"}
ST    == {"syme_arena"}
TAC   == {"tac_top_level_arena", "taci_arena", "tacv_arena"}
X86   == {"instr_arena", "top_level_arena", "be_syme_arena", "be_st"}
Texts == {"str_arena", "ptr_arena"}
Types == {"types_arena"}

\* the parser's own: the entries of identifiers and the tables with them, one
\* for every scope that is open, which is that of the file in the end
Idents == {"ident_entry_arena", "ident_ht_list"}

Regions == AST \cup ST \cup TAC \cup X86 \cup Texts \cup Types \cup Idents \cup {"l_args"}

\* makes regions, then reads some, then frees some, then reads others
UsesLate(makes, reads, frees, late) ==
  /\ live' = (live \cup makes) \ frees
  /\ misuse' = misuse \cup ((reads \cup frees) \ (live \cup makes)) \cup (late \ live')

Uses(makes, reads, frees) == UsesLate(makes, reads, frees, {})

Exit(code) == pc' = "exit" /\ exitCode' = code

Goto(l) == pc' = l /\ UNCHANGED exitCode

\* exit(1) in a stage
Refuse == Exit(1) /\ UNCHANGED <<live, misuse, files>>

\* system(): gcc ends well, with another code, or by a signal
Gcc(made, removed, next) ==
  \/ files' = (files \cup made) \ removed /\ next
  \/ files' = files /\ Exit(1)

-----------------------------------------------------------------------------

Init ==
  /\ DriverInit
  /\ live = Texts \cup {"l_args"}
  /\ misuse = {}
  /\ files = {}
  /\ exitCode = 0

Options ==
  /\ \/ \E a \in Arguments : ReadArg(a)
     \/ EndOptions
  /\ UNCHANGED stageVars

\* to the names of the files; replace_ext asserts a dot in the input
Start ==
  /\ pc = "main"
  /\ Uses({}, {}, IF dof # "ALL" THEN {"l_args"} ELSE {})
  /\ IF input \in NoDot THEN pc' = "abort" ELSE pc' = "preprocess"
  /\ UNCHANGED <<optionVars, files, exitCode>>

Preprocess ==
  /\ pc = "preprocess"
  /\ Gcc({"i"}, {}, Goto("read"))
  /\ UNCHANGED <<optionVars, live, misuse>>

\* next and print_token to the end of the file
Lex ==
  /\ pc = "read"
  /\ dof = "LEX"
  /\ \/ Refuse
     \/ /\ Uses({}, {"str_arena"}, {})
        /\ Exit(0)
        /\ UNCHANGED files
  /\ UNCHANGED optionVars

\* bug: the preprocessed file is only removed by the stages that end there
ParseKeeping ==
  /\ pc = "read"
  /\ dof # "LEX"
  /\ UsesLate(AST \cup Types \cup Idents, Texts, Idents, {"ident_ht_list"})
  /\ files' = IF dof = "ALL" THEN files ELSE files \ {"i"}
  /\ Goto("parsed")
  /\ UNCHANGED optionVars

\* parse, free_parser and remove; free_parser asks a table it has destroyed for
\* the next one
Parse ==
  /\ pc = "read"
  /\ dof # "LEX"
  /\ \/ Refuse
     \/ /\ UsesLate(AST \cup Types \cup Idents, Texts, Idents, {"ident_ht_list"})
        /\ files' = files \ {"i"}
        /\ Goto("parsed")
  /\ UNCHANGED optionVars

PrintParsed ==
  /\ pc = "parsed"
  /\ dof = "PARSE"
  /\ Uses({}, AST \cup Texts \cup Types, AST)
  /\ Exit(0)
  /\ UNCHANGED <<optionVars, files>>

Typecheck ==
  /\ pc = "parsed"
  /\ dof # "PARSE"
  /\ \/ Refuse
     \/ /\ Uses(ST, AST \cup Texts \cup Types, {})
        /\ Goto("checked")
        /\ UNCHANGED files
  /\ UNCHANGED optionVars

LabelLoop ==
  /\ pc = "checked"
  /\ \/ Refuse
     \/ /\ Uses({}, AST \cup {"ptr_arena"} \cup Types, {})
        /\ Goto("labelled")
        /\ UNCHANGED files
  /\ UNCHANGED optionVars

\* print_sym_table reads the position of the declaration in each entry
PrintValidated ==
  /\ pc = "labelled"
  /\ dof = "VALIDATE"
  /\ Uses({}, AST \cup ST \cup Texts \cup Types, AST \cup ST)
  /\ Exit(0)
  /\ UNCHANGED <<optionVars, files>>

GenTac ==
  /\ pc = "labelled"
  /\ dof # "VALIDATE"
  /\ \/ Refuse
     \/ /\ Uses(TAC, AST \cup ST \cup Texts \cup Types, {})
        /\ Goto("tac")
        /\ UNCHANGED files
  /\ UNCHANGED optionVars

PrintTac ==
  /\ pc = "tac"
  /\ dof = "TAC"
  /\ Uses({}, TAC \cup ST \cup AST \cup Texts \cup Types, ST \cup TAC)
  /\ Exit(0)
  /\ UNCHANGED <<optionVars, files>>

\* bug: the instructions of the translated program are released with it
GenAsmEager ==
  /\ pc = "tac"
  /\ dof # "TAC"
  /\ Uses(X86, TAC \cup ST \cup Texts \cup Types, ST \cup AST \cup TAC)
  /\ Goto("asm")
  /\ UNCHANGED <<optionVars, files>>

\* gen_asm, which exits for a double, and the release of table and tree
GenAsm ==
  /\ pc = "tac"
  /\ dof # "TAC"
  /\ \/ Refuse
     \/ /\ Uses(X86, TAC \cup ST \cup Texts \cup Types, ST \cup AST)
        /\ Goto("asm")
        /\ UNCHANGED files
  /\ UNCHANGED optionVars

PrintCodegen ==
  /\ pc = "asm"
  /\ dof = "CODEGEN"
  /\ Uses({}, {"be_st", "be_syme_arena"}, TAC \cup X86)
  /\ Exit(0)
  /\ UNCHANGED <<optionVars, files>>

\* emit_x86 prints the instruction each line comes from
Emit ==
  /\ pc = "asm"
  /\ dof # "CODEGEN"
  /\ Uses({}, X86 \cup TAC \cup Texts, TAC \cup X86 \cup Types \cup {"ptr_arena"})
  /\ files' = files \cup {"s"}
  /\ IF dof = "S" THEN Exit(0) ELSE Goto("emitted")
  /\ UNCHANGED optionVars

\* -c; str_arena is released after the file is removed
Assemble ==
  /\ pc = "emitted"
  /\ dof = "C"
  /\ \/ /\ files' = (files \cup {"o"}) \ {"s"}
        /\ Uses({}, {}, {"str_arena"})
        /\ Exit(0)
     \/ Refuse
  /\ UNCHANGED optionVars

\* bug: a gcc that fails is not told apart
LinkUnchecked ==
  /\ pc = "emitted"
  /\ dof = "ALL"
  /\ Uses({}, {"l_args", "str_arena"}, {"l_args", "str_arena"})
  /\ Exit(0)
  /\ \/ files' = (files \cup {"exe"}) \ {"s"}
     \/ files' = files \ {"s"}
  /\ UNCHANGED optionVars

\* the names of the libraries are in str_arena, released before the call
Link ==
  /\ pc = "emitted"
  /\ dof = "ALL"
  /\ Uses({}, {"l_args", "str_arena"}, {"l_args", "str_arena"})
  /\ Gcc({"exe"}, {"s"}, Exit(0))
  /\ UNCHANGED optionVars

Next ==
  \/ Options
  \/ Start
  \/ Preprocess
  \/ Lex
  \/ Parse
  \/ PrintParsed
  \/ Typecheck
  \/ LabelLoop
  \/ PrintValidated
  \/ GenTac
  \/ PrintTac
  \/ GenAsm
  \/ PrintCodegen
  \/ Emit
  \/ Assemble
  \/ Link

Spec == Init /\ [][Next]_vars

-----------------------------------------------------------------------------

\* The options are typed, and a stage is only reached with a full set of them.
TypeOK ==
  /\ dof \in Stages \cup {"INVALID", "ALL"}
  /\ output \in Files \cup {NULL}
  /\ input \in Files \cup {NULL}
  /\ \A k \in DOMAIN lArgs : lArgs[k] \in Libs
  /\ live \subseteq Regions
  /\ files \subseteq {"i", "s", "o", "exe"}
  /\ exitCode \in {0, 1}
  /\ pc \notin {"options", "usage", "noinput", "abort"} => input # NULL /\ dof # "INVALID"

\* No stage reads or releases an arena or a table that is gone or was never
\* made, whichever stage the compiler is told to stop after, but free_parser,
\* which reads the tables of identifiers it has destroyed: the entries of the
\* symbol table point into the tree, the instructions of the assembler text
\* into the intermediate code, the libraries into str_arena.
NoMisuse == misuse \subseteq {"ident_ht_list"}

\* What a stage option asks for
Wanted == CASE dof = "S"   -> {"s"}
            [] dof = "C"   -> {"o"}
            [] dof = "ALL" -> {"exe"}
            [] OTHER       -> {}

\* The exit code is 0 iff what was asked for was made, however gcc ends.
ExitMeansDone ==
  pc = "exit" => (exitCode = 0 => Wanted \subseteq files)
                   /\ (exitCode # 0 => files \cap {"o", "exe"} = {})

\* After success no other file is left, apart from the preprocessed one that
\* --lex keeps; after an error at most one intermediate file is.
Tidy ==
  pc = "exit" =>
    IF exitCode = 0
    THEN files = Wanted \cup (IF dof = "LEX" THEN {"i"} ELSE {})
    ELSE files \in {{}, {"i"}, {"s"}}

=============================================================================
