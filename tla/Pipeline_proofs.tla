-------------------------- MODULE Pipeline_proofs --------------------------
(***************************************************************************)
(* The driver options and the stages of main.c, for command lines of any   *)
(* length and any files and libraries.                                     *)
(*                                                                         *)
(* Of the stages the invariant says what exists at each of them: which     *)
(* regions the later stages rely on and which files are there.  Of the     *)
(* options it says what the loop of parse_driver_options knows after the   *)
(* arguments read so far.                                                  *)
(***************************************************************************)
EXTENDS Pipeline, FiniteSetTheorems, TLAPS

-----------------------------------------------------------------------------

\* The libraries are kept for the linker only.
KeptArgs == IF dof = "ALL" THEN {"l_args"} ELSE {}

\* What the stages from here on rely on
Alive ==
  /\ pc \in {"options", "main"} => Texts \cup {"l_args"} \subseteq live
  /\ pc \in {"preprocess", "read"} => Texts \cup KeptArgs \subseteq live
  /\ pc = "parsed" => Texts \cup KeptArgs \cup AST \cup Types \subseteq live
  /\ pc \in {"checked", "labelled"} =>
       Texts \cup KeptArgs \cup AST \cup Types \cup ST \subseteq live
  /\ pc = "tac" => Texts \cup KeptArgs \cup AST \cup Types \cup ST \cup TAC \subseteq live
  /\ pc = "asm" => Texts \cup KeptArgs \cup Types \cup TAC \cup X86 \subseteq live
  /\ pc = "emitted" => {"str_arena"} \cup KeptArgs \subseteq live

FilesThen ==
  /\ pc = "read" => files = {"i"}
  /\ pc = "emitted" => files = {"s"}
  /\ pc \notin {"read", "emitted", "exit"} => files = {}

StagesInv ==
  /\ Alive
  /\ FilesThen
  /\ misuse \subseteq {"ident_ht_list"}
  /\ live \subseteq Regions
  /\ exitCode \in {0, 1}
  /\ ExitMeansDone
  /\ Tidy

\* The regions are different, and so are those of different results.
LEMMA AliveInit == Init => StagesInv
  BY DEF Init, DriverInit, StagesInv, Alive, FilesThen, ExitMeansDone, Tidy, Regions, Texts, KeptArgs, Idents

\* The regions each stage reads and releases exist when it begins.
LEMMA StagesNext == StagesInv /\ [Next]_vars => StagesInv'
<1> SUFFICES ASSUME StagesInv, [Next]_vars PROVE StagesInv'
  OBVIOUS
<1> USE DEF StagesInv, Alive, FilesThen, ExitMeansDone, Tidy, KeptArgs, Wanted,
            Exit, Goto, Refuse, Uses, UsesLate, Gcc, optionVars,
            AST, ST, TAC, X86, Texts, Types, Idents, Regions
<1>1. CASE Options
  <2>1. pc = "options" /\ pc' \in {"options", "usage", "abort", "noinput", "main"}
    BY <1>1 DEF Options, ReadArg, EndOptions, End, AddWord, Flag, SetStage, SetOutput
  <2>2. UNCHANGED stageVars
    BY <1>1 DEF Options
  <2> QED
    BY <2>1, <2>2 DEF stageVars
<1>2. CASE Start
  BY <1>2 DEF Start
<1>3. CASE Preprocess
  BY <1>3 DEF Preprocess
<1>4. CASE Lex
  BY <1>4 DEF Lex
<1>5. CASE Parse
  BY <1>5 DEF Parse
<1>6. CASE PrintParsed
  BY <1>6 DEF PrintParsed
<1>7. CASE Typecheck
  BY <1>7 DEF Typecheck
<1>8. CASE LabelLoop
  BY <1>8 DEF LabelLoop
<1>9. CASE PrintValidated
  BY <1>9 DEF PrintValidated
<1>10. CASE GenTac
  BY <1>10 DEF GenTac
<1>11. CASE PrintTac
  BY <1>11 DEF PrintTac
<1>12. CASE GenAsm
  BY <1>12 DEF GenAsm
<1>13. CASE PrintCodegen
  BY <1>13 DEF PrintCodegen
<1>14. CASE Emit
  BY <1>14 DEF Emit
<1>15. CASE Assemble
  BY <1>15 DEF Assemble
<1>16. CASE Link
  BY <1>16 DEF Link
<1>17. CASE UNCHANGED vars
  BY <1>17 DEF vars, stageVars
<1> QED
  BY <1>1, <1>2, <1>3, <1>4, <1>5, <1>6, <1>7, <1>8, <1>9, <1>10, <1>11, <1>12,
     <1>13, <1>14, <1>15, <1>16, <1>17 DEF Next

-----------------------------------------------------------------------------

OptionTypes ==
  /\ args \in Seq(Arguments)
  /\ nextArgIsOut \in BOOLEAN
  /\ dof \in Stages \cup {"INVALID", "ALL"}
  /\ output \in Files \cup {NULL}
  /\ input \in Files \cup {NULL}
  /\ lArgs \in Seq(Libs)

AtMostOne(S) == \A j, k \in S : j = k

\* the stage
StageRead ==
  /\ AtMostOne(Is("stage"))
  /\ \A k \in Is("stage") : dof = args[k].dof
  /\ Is("stage") = {} => dof = IF pc = "options" THEN "INVALID" ELSE "ALL"

\* -o and the word after it, which may be still to come
OutputRead ==
  /\ AtMostOne(Is("out"))
  /\ nextArgIsOut <=> Len(args) \in Is("out")
  /\ Named \subseteq Is("word")
  /\ \A k \in Named : output = args[k].file
  /\ Named = {} => output = NULL

InputRead ==
  /\ AtMostOne(Inputs)
  /\ \A k \in Inputs : input = args[k].file
  /\ Inputs = {} => input = NULL

LibsRead ==
  /\ Len(lArgs) = Cardinality(Is("lib"))
  /\ \A k \in Is("lib") : lArgs[LibNumber(k)] = args[k].name

\* What the loop knows after the arguments read so far, unless it gave up.
OptionsRead ==
  /\ StageRead
  /\ OutputRead
  /\ InputRead
  /\ LibsRead
  /\ Is("flag") \cup Is("short") = {}

OptionsInv ==
  /\ OptionTypes
  /\ pc \notin {"usage", "abort"} => OptionsRead
  /\ pc \notin {"options", "usage", "noinput", "abort"} => input # NULL
  /\ pc = "usage" => ~Consistent

-----------------------------------------------------------------------------

\* An argument has the fields of its kind.
LEMMA ArgumentKinds ==
  ASSUME NEW a \in Arguments
  PROVE  /\ a.t \in {"stage", "out", "lib", "word", "flag", "short"}
         /\ a.t = "stage" => a.dof \in Stages
         /\ a.t = "lib" => a.name \in Libs
         /\ a.t = "word" => a.file \in Files
  BY DEF Arguments, Stage, Out, Lib, Word, BadFlag, Short

\* The positions of a sequence are 1 to its length.
LEMMA DomainIs ==
  ASSUME NEW S, NEW s \in Seq(S)
  PROVE  DOMAIN s = 1 .. Len(s) /\ Len(s) \in Nat
  OBVIOUS

\* Sets of positions are finite.
LEMMA Positions ==
  ASSUME NEW as \in Seq(Arguments), NEW S, S \subseteq DOMAIN as
  PROVE  /\ DOMAIN as = 1 .. Len(as) /\ Len(as) \in Nat
         /\ IsFiniteSet(S)
         /\ Cardinality(S) \in Nat
         /\ Cardinality(S) <= 1 <=> AtMostOne(S)
<1>1. DOMAIN as = 1 .. Len(as) /\ Len(as) \in Nat
  BY DomainIs
<1>2. IsFiniteSet(S) /\ Cardinality(S) \in Nat
  <2>1. IsFiniteSet(1 .. Len(as))
    <3>1. 1 \in Int /\ Len(as) \in Int
      BY <1>1
    <3> QED
      BY <3>1, FS_Interval, Zenon
  <2>2. S \in SUBSET (1 .. Len(as))
    BY <1>1
  <2>3. IsFiniteSet(S)
    BY <2>1, <2>2, FS_Subset
  <2> QED
    BY <2>3, FS_CardinalityType
<1>3. ASSUME AtMostOne(S) PROVE Cardinality(S) <= 1
  <2>1. CASE S = {}
    BY <2>1, FS_EmptySet
  <2>2. ASSUME NEW x \in S PROVE Cardinality(S) <= 1
    <3>1. S = {x}
      BY <1>3, <2>2 DEF AtMostOne
    <3>2. Cardinality({x}) = 1
      BY FS_Singleton
    <3> QED
      BY <3>1, <3>2
  <2> QED
    BY <2>1, <2>2
<1>4. ASSUME Cardinality(S) <= 1 PROVE AtMostOne(S)
  <2>1. Cardinality(S) = 0 \/ Cardinality(S) = 1
    BY <1>2, <1>4
  <2>2. S = {} \/ \E x : S = {x}
    BY <1>2, <2>1, FS_EmptySet, FS_Singleton
  <2> QED
    BY <2>2 DEF AtMostOne
<1> QED
  BY <1>1, <1>2, <1>3, <1>4

\* An argument is appended: what becomes of the positions of each kind.
LEMMA Appended ==
  ASSUME OptionTypes, NEW a \in Arguments, args' = Append(args, a)
  PROVE  /\ args' \in Seq(Arguments)
         /\ Len(args') = Len(args) + 1 /\ Len(args) \in Nat
         /\ args'[Len(args) + 1] = a
         /\ \A k \in 1 .. Len(args) : args'[k] = args[k]
         /\ \A t : Is(t) \subseteq 1 .. Len(args)
         /\ \A t : Is(t)' = IF a.t = t THEN Is(t) \cup {Len(args) + 1} ELSE Is(t)
<1>1. /\ args' \in Seq(Arguments)
      /\ Len(args') = Len(args) + 1 /\ Len(args) \in Nat
      /\ DOMAIN args = 1 .. Len(args) /\ DOMAIN args' = 1 .. Len(args) + 1
      /\ args'[Len(args) + 1] = a
      /\ \A k \in 1 .. Len(args) : args'[k] = args[k]
  BY DEF OptionTypes
<1>2. \A t : Is(t) \subseteq 1 .. Len(args)
  BY <1>1 DEF Is
<1>3. ASSUME NEW t
      PROVE  {k \in DOMAIN args' : args'[k].t = t}
               = IF a.t = t THEN Is(t) \cup {Len(args) + 1} ELSE Is(t)
  <2>1. \A k : k \in 1 .. Len(args) + 1 <=> k \in 1 .. Len(args) \/ k = Len(args) + 1
    BY <1>1
  <2> QED
    BY <1>1, <2>1 DEF Is
<1> QED
  BY <1>1, <1>2, <1>3 DEF Is

\* The words after -o and the others follow from nextArgIsOut.
LEMMA WordsAppended ==
  ASSUME OptionTypes, OutputRead, NEW a \in Arguments, args' = Append(args, a)
  PROVE  /\ Named \subseteq 1 .. Len(args)
         /\ Named' = IF nextArgIsOut THEN Named \cup {Len(args) + 1} ELSE Named
         /\ Inputs \subseteq 1 .. Len(args)
         /\ Inputs' = IF a.t = "word" /\ ~nextArgIsOut THEN Inputs \cup {Len(args) + 1} ELSE Inputs
<1> DEFINE n == Len(args) + 1
<1>1. /\ Len(args') = n /\ Len(args) \in Nat
      /\ DOMAIN args = 1 .. Len(args) /\ DOMAIN args' = 1 .. n
      /\ \A t : Is(t) \subseteq 1 .. Len(args)
      /\ \A t : Is(t)' = IF a.t = t THEN Is(t) \cup {n} ELSE Is(t)
  <2>1. args' \in Seq(Arguments) /\ args \in Seq(Arguments)
    BY Appended DEF OptionTypes
  <2> QED
    BY <2>1, Appended
<1>2. Named = {k \in 1 .. Len(args) : k - 1 \in Is("out")}
  BY <1>1 DEF Named
<1>3. Named' = {k \in 1 .. n : k - 1 \in Is("out")'}
  BY <1>1 DEF Named
<1>4. n \notin Is("out") /\ (nextArgIsOut <=> Len(args) \in Is("out"))
  BY <1>1 DEF OutputRead
<1>5. ASSUME NEW k \in 1 .. n
      PROVE  k - 1 \in Is("out")' <=> k - 1 \in Is("out")
  BY <1>1, <1>4
<1>6. Named' = IF nextArgIsOut THEN Named \cup {n} ELSE Named
  <2>1. \A k : k \in 1 .. n <=> k \in 1 .. Len(args) \/ k = n
    BY <1>1
  <2>2. n - 1 = Len(args)
    BY <1>1
  <2> QED
    BY <1>2, <1>3, <1>4, <1>5, <2>1, <2>2
<1>7. n \notin Named /\ n \notin Is("word") /\ Named \subseteq 1 .. Len(args)
  BY <1>1, <1>2
<1>8. Inputs' = IF a.t = "word" /\ ~nextArgIsOut THEN Inputs \cup {n} ELSE Inputs
  <2>1. Inputs' = Is("word")' \ Named'
    BY DEF Inputs
  <2>2. Is("word")' = IF a.t = "word" THEN Is("word") \cup {n} ELSE Is("word")
    BY <1>1
  <2> QED
    BY <1>6, <1>7, <2>1, <2>2 DEF Inputs
<1> QED
  BY <1>1, <1>6, <1>7, <1>8 DEF Inputs

\* Two positions of a kind contradict each other.
LEMMA Twice ==
  ASSUME OptionTypes', NEW j, NEW k, j # k,
         \/ j \in Is("stage")' /\ k \in Is("stage")'
         \/ j \in Is("out")' /\ k \in Is("out")'
         \/ j \in Inputs' /\ k \in Inputs'
  PROVE  ~Consistent'
<1>1. ASSUME NEW S, S \subseteq DOMAIN args', j \in S, k \in S
      PROVE  ~(Cardinality(S) <= 1)
  BY <1>1, Positions DEF AtMostOne, OptionTypes
<1> QED
  BY <1>1 DEF Consistent, Inputs, Is

-----------------------------------------------------------------------------

\* What is known stays known after an argument of another kind.
LEMMA StageKept ==
  ASSUME OptionTypes, StageRead, NEW a \in Arguments, args' = Append(args, a),
         a.t # "stage", UNCHANGED <<pc, dof>>
  PROVE  StageRead'
<1>1. Is("stage")' = Is("stage") /\ \A k \in Is("stage") : args'[k] = args[k]
  BY Appended
<1> QED
  BY <1>1 DEF StageRead, AtMostOne

\* An argument that has nothing to do with -o leaves the output as it was.
LEMMA OutputKept ==
  ASSUME OptionTypes, OutputRead, NEW a \in Arguments, args' = Append(args, a),
         a.t # "out", ~nextArgIsOut, UNCHANGED <<nextArgIsOut, output>>
  PROVE  OutputRead'
<1>1. /\ Is("out")' = Is("out") /\ Len(args') \notin Is("out")
      /\ Is("word") \subseteq Is("word")'
      /\ \A k \in 1 .. Len(args) : args'[k] = args[k]
  <2>1. \A t : Is(t)' = IF a.t = t THEN Is(t) \cup {Len(args) + 1} ELSE Is(t)
    BY Appended
  <2>2. Len(args') \notin Is("out")
    BY Appended
  <2> QED
    BY <2>1, <2>2, Appended
<1>2. Named' = Named /\ Named \subseteq 1 .. Len(args)
  BY WordsAppended
<1> QED
  BY <1>1, <1>2 DEF OutputRead, AtMostOne

\* An argument that is no file name, or is the one of -o, leaves the input.
LEMMA InputKept ==
  ASSUME OptionTypes, OutputRead, InputRead, NEW a \in Arguments, args' = Append(args, a),
         a.t # "word" \/ nextArgIsOut, UNCHANGED input
  PROVE  InputRead'
<1>1. Inputs' = Inputs /\ \A k \in Inputs : args'[k] = args[k]
  BY Appended, WordsAppended
<1> QED
  BY <1>1 DEF InputRead, AtMostOne

\* An argument other than -l leaves the libraries.
LEMMA LibsKept ==
  ASSUME OptionTypes, LibsRead, NEW a \in Arguments, args' = Append(args, a),
         a.t # "lib", UNCHANGED lArgs
  PROVE  LibsRead'
<1>1. Is("lib")' = Is("lib") /\ \A k \in Is("lib") : args'[k] = args[k]
  BY Appended
<1> QED
  BY <1>1 DEF LibsRead, LibNumber

\* An argument of a known form adds no unknown one.
LEMMA NoneBad ==
  ASSUME OptionTypes, Is("flag") \cup Is("short") = {}, NEW a \in Arguments,
         args' = Append(args, a), a.t \notin {"flag", "short"}
  PROVE  (Is("flag") \cup Is("short") = {})'
  BY Appended

\* Another library comes last.
LEMMA LibsGrown ==
  ASSUME OptionTypes, LibsRead, NEW a \in Arguments, args' = Append(args, a),
         a.t = "lib", lArgs' = Append(lArgs, a.name)
  PROVE  LibsRead'
<1> DEFINE c == Cardinality(Is("lib"))
<1>n. PICK n : n = Len(args) + 1
  OBVIOUS
<1>1. /\ Len(args) \in Nat /\ n = Len(args) + 1 /\ args'[n] = a
      /\ \A k \in 1 .. Len(args) : args'[k] = args[k]
      /\ Is("lib") \subseteq 1 .. Len(args)
      /\ Is("lib")' = Is("lib") \cup {n}
  BY <1>n, Appended
<1>2. IsFiniteSet(Is("lib")) /\ c \in Nat
  BY Positions DEF OptionTypes, Is
<1>3. Cardinality(Is("lib")') = c + 1
  <2>1. n \notin Is("lib")
    BY <1>1
  <2>2. Cardinality(Is("lib") \cup {n}) = c + 1
    BY <1>2, <2>1, FS_AddElement
  <2> QED
    BY <1>1, <2>2
<1>4. lArgs \in Seq(Libs) /\ a.name \in Libs /\ Len(lArgs) = c
  BY ArgumentKinds DEF OptionTypes, LibsRead
<1>5. /\ Len(lArgs') = c + 1
      /\ lArgs'[c + 1] = a.name
      /\ \A m \in 1 .. c : lArgs'[m] = lArgs[m]
  BY <1>2, <1>4
<1>6. ASSUME NEW k \in Is("lib")
      PROVE  lArgs'[LibNumber(k)'] = args'[k].name
  <2>1. {j \in Is("lib")' : j <= k} = {j \in Is("lib") : j <= k}
    BY <1>1
  <2>2. LibNumber(k)' = LibNumber(k)
    BY <2>1 DEF LibNumber
  <2>3. LibNumber(k) \in 1 .. c
    <3> DEFINE below == {j \in Is("lib") : j <= k}
    <3>1. IsFiniteSet(below) /\ Cardinality(below) <= c /\ Cardinality(below) \in Nat
      BY <1>2, FS_Subset, FS_CardinalityType
    <3>2. k \in below
      BY <1>1
    <3>3. Cardinality(below) # 0
      BY <3>1, <3>2, FS_EmptySet
    <3> QED
      BY <1>2, <3>1, <3>3 DEF LibNumber
  <2> QED
    BY <1>1, <1>5, <2>2, <2>3 DEF LibsRead
<1>7. lArgs'[LibNumber(n)'] = args'[n].name
  <2>1. {j \in Is("lib")' : j <= n} = Is("lib")'
    BY <1>1
  <2>2. LibNumber(n)' = c + 1
    BY <1>3, <2>1 DEF LibNumber
  <2> QED
    BY <1>1, <1>5, <2>2
<1>8. \A k \in Is("lib")' : lArgs'[LibNumber(k)'] = args'[k].name
  BY <1>1, <1>6, <1>7
<1> QED
  BY <1>3, <1>5, <1>8 DEF LibsRead

-----------------------------------------------------------------------------

\* The word that -o asks for is not there.
LEMMA MissingOutput ==
  ASSUME OptionTypes, OptionsRead, nextArgIsOut, NEW a \in Arguments, a.t # "word",
         args' = Append(args, a)
  PROVE  ~Consistent'
<1>1. Len(args) + 1 \in Named'
  BY WordsAppended DEF OptionsRead
<1>2. Len(args) + 1 \notin Is("word") /\ Is("word")' = Is("word")
  BY Appended
<1> QED
  BY <1>1, <1>2 DEF Consistent

\* One round of the loop, by the kind of the argument.
LEMMA ReadStage ==
  ASSUME OptionTypes, OptionsRead, pc = "options", NEW a \in Arguments, ReadArg(a), a.t = "stage"
  PROVE  OptionsInv'
<1> DEFINE n == Len(args) + 1
<1>1. /\ args' \in Seq(Arguments) /\ Len(args') = n /\ Len(args) \in Nat
      /\ args'[n] = a
      /\ \A k \in 1 .. Len(args) : args'[k] = args[k]
      /\ \A t : Is(t) \subseteq 1 .. Len(args)
      /\ \A t : Is(t)' = IF a.t = t THEN Is(t) \cup {n} ELSE Is(t)
  BY Appended DEF ReadArg
<1>2. OptionTypes'
  BY <1>1, ArgumentKinds DEF OptionTypes, ReadArg, Flag, SetStage, End
<1>3. CASE nextArgIsOut
  <2>1. ~Consistent'
    BY <1>3, MissingOutput DEF ReadArg
  <2> QED
    BY <1>2, <1>3, <2>1 DEF OptionsInv, ReadArg, Flag, End
<1>4. CASE ~nextArgIsOut /\ dof # "INVALID"
  <2>1. Is("stage") # {}
    BY <1>4 DEF OptionsRead, StageRead
  <2>2. PICK k \in Is("stage") : TRUE
    BY <2>1
  <2>3. k # n /\ k \in Is("stage")' /\ n \in Is("stage")'
    BY <1>1, <2>2
  <2>4. ~Consistent'
    BY <1>2, <2>3, Twice
  <2> QED
    BY <1>2, <1>4, <2>4 DEF OptionsInv, ReadArg, Flag, SetStage, End
<1>5. CASE ~nextArgIsOut /\ dof = "INVALID"
  <2>1. /\ dof' = a.dof
        /\ UNCHANGED <<pc, nextArgIsOut, output, input, lArgs>>
    BY <1>5 DEF ReadArg, Flag, SetStage
  <2>2. Is("stage") = {}
    <3>1. \A k \in Is("stage") : args[k] \in Arguments /\ args[k].t = "stage"
      BY DEF Is, OptionTypes
    <3>2. \A k \in Is("stage") : args[k].dof \in Stages
      BY <3>1, ArgumentKinds
    <3> QED
      BY <1>5, <3>2 DEF OptionsRead, StageRead, Stages
  <2>3. StageRead'
    BY <1>1, <2>1, <2>2 DEF StageRead, AtMostOne
  <2>4. OutputRead' /\ InputRead' /\ LibsRead' /\ (Is("flag") \cup Is("short") = {})'
    BY <1>5, <2>1, OutputKept, InputKept, LibsKept, NoneBad DEF OptionsRead, ReadArg
  <2> QED
    BY <1>2, <2>1, <2>3, <2>4 DEF OptionsInv, OptionsRead
<1> QED
  BY <1>3, <1>4, <1>5

\* -o is read as meant.
LEMMA ReadOut ==
  ASSUME OptionTypes, OptionsRead, pc = "options", NEW a \in Arguments, ReadArg(a), a.t = "out"
  PROVE  OptionsInv'
<1> DEFINE n == Len(args) + 1
<1>1. /\ args' \in Seq(Arguments) /\ Len(args') = n /\ Len(args) \in Nat
      /\ \A t : Is(t) \subseteq 1 .. Len(args)
      /\ \A t : Is(t)' = IF a.t = t THEN Is(t) \cup {n} ELSE Is(t)
  BY Appended DEF ReadArg
<1>2. OptionTypes'
  BY <1>1 DEF OptionTypes, ReadArg, Flag, SetOutput, End
<1>3. CASE nextArgIsOut
  <2>1. ~Consistent'
    BY <1>3, MissingOutput DEF ReadArg
  <2> QED
    BY <1>2, <1>3, <2>1 DEF OptionsInv, ReadArg, Flag, End
<1>4. CASE ~nextArgIsOut /\ output # NULL
  <2>1. Named # {}
    BY <1>4 DEF OptionsRead, OutputRead
  <2>2. PICK k \in Is("out") : TRUE
    BY <2>1 DEF Named
  <2>3. k # n /\ k \in Is("out")' /\ n \in Is("out")'
    BY <1>1, <2>2
  <2>4. ~Consistent'
    BY <1>2, <2>3, Twice
  <2> QED
    BY <1>2, <1>4, <2>4 DEF OptionsInv, ReadArg, Flag, SetOutput, End
<1>5. CASE ~nextArgIsOut /\ output = NULL
  <2>1. nextArgIsOut' /\ UNCHANGED <<pc, dof, output, input, lArgs>>
    BY <1>5 DEF ReadArg, Flag, SetOutput
  <2>2. Named = {}
    <3>1. \A k \in Named : args[k] \in Arguments /\ args[k].t = "word"
      BY DEF Is, OptionTypes, OptionsRead, OutputRead
    <3>2. \A k \in Named : args[k].file \in Files
      BY <3>1, ArgumentKinds
    <3> QED
      BY <1>5, <3>2, DriverAssumption DEF OptionsRead, OutputRead
  <2>3. Is("out") = {}
    <3>1. ASSUME NEW j \in Is("out") PROVE FALSE
      <4>1. j \in 1 .. Len(args) /\ j # Len(args)
        BY <1>1, <1>5, <3>1 DEF OptionsRead, OutputRead
      <4>2. j + 1 \in 1 .. Len(args) /\ DOMAIN args = 1 .. Len(args)
        BY <1>1, <4>1, DomainIs DEF OptionTypes
      <4>3. j + 1 \in Named
        BY <3>1, <4>2 DEF Named
      <4> QED
        BY <2>2, <4>3
    <3> QED
      BY <3>1
  <2>4. Named' = {}
    BY <1>5, <2>2, WordsAppended DEF OptionsRead, ReadArg
  <2>5. OutputRead'
    BY <1>1, <1>5, <2>1, <2>3, <2>4 DEF OutputRead, AtMostOne
  <2>6. StageRead' /\ InputRead' /\ LibsRead' /\ (Is("flag") \cup Is("short") = {})'
    BY <2>1, StageKept, InputKept, LibsKept, NoneBad DEF OptionsRead, ReadArg
  <2> QED
    BY <1>2, <2>1, <2>5, <2>6 DEF OptionsInv, OptionsRead
<1> QED
  BY <1>3, <1>4, <1>5

\* -l is read as meant.
LEMMA ReadLib ==
  ASSUME OptionTypes, OptionsRead, pc = "options", NEW a \in Arguments, ReadArg(a), a.t = "lib"
  PROVE  OptionsInv'
<1>1. args' \in Seq(Arguments) /\ a.name \in Libs
  BY Appended, ArgumentKinds DEF ReadArg
<1>2. OptionTypes'
  <2>1. lArgs' = lArgs \/ lArgs' = Append(lArgs, a.name)
    BY DEF ReadArg, Flag, End
  <2>2. lArgs' \in Seq(Libs)
    BY <1>1, <2>1 DEF OptionTypes
  <2> QED
    BY <1>1, <2>2 DEF OptionTypes, ReadArg, Flag, End
<1>3. CASE nextArgIsOut
  <2>1. ~Consistent'
    BY <1>3, MissingOutput DEF ReadArg
  <2> QED
    BY <1>2, <1>3, <2>1 DEF OptionsInv, ReadArg, Flag, End
<1>4. CASE ~nextArgIsOut
  <2>1. lArgs' = Append(lArgs, a.name) /\ UNCHANGED <<pc, nextArgIsOut, dof, output, input>>
    BY <1>4 DEF ReadArg, Flag
  <2>2. StageRead' /\ OutputRead' /\ InputRead' /\ LibsRead' /\ (Is("flag") \cup Is("short") = {})'
    BY <1>4, <2>1, StageKept, OutputKept, InputKept, LibsGrown, NoneBad DEF OptionsRead, ReadArg
  <2> QED
    BY <1>2, <2>1, <2>2 DEF OptionsInv, OptionsRead
<1> QED
  BY <1>3, <1>4

\* A file name is read as meant: as the input, or as that of -o.
LEMMA ReadWord ==
  ASSUME OptionTypes, OptionsRead, pc = "options", NEW a \in Arguments, ReadArg(a), a.t = "word"
  PROVE  OptionsInv'
<1> DEFINE n == Len(args) + 1
<1>1. /\ args' \in Seq(Arguments) /\ Len(args') = n /\ Len(args) \in Nat
      /\ args'[n] = a
      /\ \A k \in 1 .. Len(args) : args'[k] = args[k]
      /\ \A t : Is(t) \subseteq 1 .. Len(args)
      /\ \A t : Is(t)' = IF a.t = t THEN Is(t) \cup {n} ELSE Is(t)
  BY Appended DEF ReadArg
<1>2. a.file \in Files /\ AddWord(a.file)
  BY ArgumentKinds DEF ReadArg
<1>3. OptionTypes'
  BY <1>1, <1>2 DEF OptionTypes, AddWord, End
<1>4. DOMAIN args = 1 .. Len(args)
  BY DomainIs DEF OptionTypes
<1>5. \/ StageRead' /\ LibsRead' /\ (Is("flag") \cup Is("short") = {})'
      \/ pc' = "usage"
  BY <1>2, StageKept, LibsKept, NoneBad DEF OptionsRead, ReadArg, AddWord, End
<1>6. CASE nextArgIsOut
  <2>1. Named = {}
    <3>1. ASSUME NEW k \in Named PROVE FALSE
      <4>1. k - 1 \in Is("out") /\ k \in 1 .. Len(args)
        BY <1>1, <1>4 DEF Named
      <4>2. Len(args) \in Is("out")
        BY <1>6 DEF OptionsRead, OutputRead
      <4>3. k - 1 = Len(args)
        BY <4>1, <4>2 DEF OptionsRead, OutputRead, AtMostOne
      <4> QED
        BY <1>1, <4>1, <4>3
    <3> QED
      BY <3>1
  <2>2. output = NULL
    BY <2>1 DEF OptionsRead, OutputRead
  <2>3. nextArgIsOut' = FALSE /\ output' = a.file /\ UNCHANGED <<pc, dof, input, lArgs>>
    BY <1>2, <1>6, <2>2 DEF AddWord
  <2>4. Named' = {n} /\ n \in Is("word")' /\ Is("out")' = Is("out")
    BY <1>1, <1>6, <2>1, WordsAppended DEF OptionsRead, ReadArg
  <2>5. n \notin Is("out")
    BY <1>1
  <2>6. OutputRead'
    BY <1>1, <2>3, <2>4, <2>5 DEF OptionsRead, OutputRead, AtMostOne
  <2>7. InputRead'
    BY <1>6, <2>3, InputKept DEF OptionsRead, ReadArg
  <2> QED
    BY <1>3, <1>5, <2>3, <2>6, <2>7 DEF OptionsInv, OptionsRead
<1>7. CASE ~nextArgIsOut /\ input # NULL
  <2>1. PICK k \in Inputs : TRUE
    BY <1>7 DEF OptionsRead, InputRead
  <2>2. /\ Inputs \subseteq 1 .. Len(args)
        /\ Inputs' = Inputs \cup {n}
    BY <1>7, WordsAppended DEF OptionsRead, ReadArg
  <2>3. k # n /\ k \in Inputs' /\ n \in Inputs'
    BY <1>1, <2>1, <2>2
  <2>4. ~Consistent'
    BY <1>3, <2>3, Twice
  <2> QED
    BY <1>2, <1>3, <1>7, <2>4 DEF OptionsInv, AddWord, End
<1>8. CASE ~nextArgIsOut /\ input = NULL
  <2>1. input' = a.file /\ UNCHANGED <<pc, nextArgIsOut, dof, output, lArgs>>
    BY <1>2, <1>8 DEF AddWord
  <2>2. Inputs = {}
    <3>1. \A k \in Inputs : args[k] \in Arguments /\ args[k].t = "word"
      BY DEF Inputs, Is, OptionTypes
    <3>2. \A k \in Inputs : args[k].file \in Files
      BY <3>1, ArgumentKinds
    <3> QED
      BY <1>8, <3>2, DriverAssumption DEF OptionsRead, InputRead
  <2>3. Inputs' = {n}
    BY <1>8, <2>2, WordsAppended DEF OptionsRead, ReadArg
  <2>4. InputRead'
    BY <1>1, <2>1, <2>3 DEF InputRead, AtMostOne
  <2>5. OutputRead'
    BY <1>8, <2>1, OutputKept DEF OptionsRead, ReadArg
  <2> QED
    BY <1>3, <1>5, <2>1, <2>4, <2>5 DEF OptionsInv, OptionsRead
<1> QED
  BY <1>6, <1>7, <1>8

\* No flag of the switch, or one character.
LEMMA ReadBad ==
  ASSUME OptionTypes, OptionsRead, pc = "options", NEW a \in Arguments, ReadArg(a),
         a.t \in {"flag", "short"}
  PROVE  OptionsInv'
<1>1. args' \in Seq(Arguments)
  BY Appended DEF ReadArg
<1>2. OptionTypes'
  BY <1>1 DEF OptionTypes, ReadArg, Flag, End
<1>3. CASE a.t = "flag"
  <2>1. Len(args) + 1 \in Is("flag")'
    BY <1>3, Appended DEF ReadArg
  <2>2. ~Consistent'
    BY <2>1 DEF Consistent
  <2> QED
    BY <1>2, <1>3, <2>2 DEF OptionsInv, ReadArg, Flag, End
<1>4. CASE a.t = "short"
  BY <1>2, <1>4 DEF OptionsInv, ReadArg, End
<1> QED
  BY <1>3, <1>4

\* The rest of the run does not touch the options.
LEMMA SameArguments ==
  ASSUME UNCHANGED args
  PROVE  /\ \A t : Is(t)' = Is(t)
         /\ Named' = Named
         /\ Inputs' = Inputs
         /\ \A k : LibNumber(k)' = LibNumber(k)
         /\ Consistent' = Consistent
<1>1. \A t : Is(t)' = Is(t)
  BY DEF Is
<1>2. Named' = Named /\ Inputs' = Inputs
  BY <1>1 DEF Named, Inputs
<1>3. \A k : LibNumber(k)' = LibNumber(k)
  BY <1>1 DEF LibNumber
<1> QED
  BY <1>1, <1>2, <1>3 DEF Consistent

\* Nothing has been read.
LEMMA OptionsInit == Init => OptionsInv
<1> SUFFICES ASSUME Init PROVE OptionsInv
  OBVIOUS
<1>1. \A t : Is(t) = {}
  BY DEF Init, DriverInit, Is
<1>2. Named = {} /\ Inputs = {}
  BY <1>1 DEF Named, Inputs
<1>3. Cardinality({}) = 0
  BY FS_EmptySet
<1>4. OptionTypes
  <2>1. << >> \in Seq(Arguments) /\ << >> \in Seq(Libs)
    OBVIOUS
  <2> QED
    BY <2>1 DEF Init, DriverInit, OptionTypes
<1>5. OptionsRead
  BY <1>1, <1>2, <1>3 DEF Init, DriverInit, OptionsRead, StageRead, OutputRead, InputRead,
                          LibsRead, AtMostOne
<1> QED
  BY <1>4, <1>5 DEF Init, DriverInit, OptionsInv

\* Reading an argument keeps options and arguments in step; stages do not
\* touch them.
LEMMA OptionsNext == OptionsInv /\ [Next]_vars => OptionsInv'
<1> SUFFICES ASSUME OptionsInv, [Next]_vars PROVE OptionsInv'
  OBVIOUS
<1>1. ASSUME NEW a \in Arguments, ReadArg(a)
      PROVE  OptionsInv'
  <2>1. pc = "options" /\ OptionTypes /\ OptionsRead
    BY <1>1 DEF ReadArg, OptionsInv
  <2> QED
    BY <1>1, <2>1, ArgumentKinds, ReadStage, ReadOut, ReadLib, ReadWord, ReadBad
<1>2. CASE EndOptions
  <2>1. /\ OptionTypes /\ OptionsRead /\ pc = "options"
        /\ pc' \in {"noinput", "main"} /\ (pc' = "main" => input # NULL)
        /\ UNCHANGED <<args, nextArgIsOut, output, input, lArgs>>
    BY <1>2 DEF EndOptions, OptionsInv
  <2>2. OptionTypes'
    BY <1>2, <2>1 DEF EndOptions, OptionTypes
  <2>3. StageRead'
    <3>1. ASSUME NEW k \in Is("stage") PROVE dof' = args[k].dof
      <4>1. args[k].dof \in Stages /\ dof = args[k].dof
        BY <2>1, ArgumentKinds DEF OptionTypes, Is, OptionsRead, StageRead
      <4> QED
        BY <1>2, <4>1 DEF EndOptions, Stages
    <3> QED
      BY <1>2, <2>1, <3>1 DEF EndOptions, OptionsRead, StageRead, AtMostOne, Is
  <2>4. OutputRead' /\ InputRead' /\ LibsRead' /\ (Is("flag") \cup Is("short") = {})'
    BY <2>1, SameArguments DEF OptionsRead, OutputRead, InputRead, LibsRead, AtMostOne
  <2> QED
    BY <2>1, <2>2, <2>3, <2>4 DEF OptionsInv, OptionsRead
<1>3. ASSUME UNCHANGED optionVars, pc # "options", pc' # "options", pc' # "usage",
             pc \notin {"usage", "noinput", "abort"}
      PROVE  OptionsInv'
  <2>1. OptionTypes' /\ OptionsRead /\ input' # NULL
    BY <1>3 DEF OptionsInv, OptionTypes, optionVars
  <2>2. OptionsRead'
    BY <1>3, <2>1, SameArguments
       DEF OptionsRead, StageRead, OutputRead, InputRead, LibsRead, AtMostOne, optionVars
  <2> QED
    BY <1>3, <2>1, <2>2 DEF OptionsInv
<1>4. CASE UNCHANGED vars
  <2>1. UNCHANGED optionVars /\ UNCHANGED pc /\ UNCHANGED args
    BY <1>4 DEF vars, optionVars
  <2>2. OptionTypes'
    BY <2>1 DEF OptionsInv, OptionTypes, optionVars
  <2>3. OptionsRead => OptionsRead'
    BY <2>1, SameArguments
       DEF OptionsRead, StageRead, OutputRead, InputRead, LibsRead, AtMostOne, optionVars
  <2> QED
    BY <2>1, <2>2, <2>3, SameArguments DEF OptionsInv, optionVars
<1> USE DEF Exit, Goto, Refuse, Gcc
<1>5. CASE Start
  BY <1>3, <1>5 DEF Start
<1>6. CASE Preprocess \/ Lex \/ Parse \/ PrintParsed
  BY <1>3, <1>6 DEF Preprocess, Lex, Parse, PrintParsed
<1>7. CASE Typecheck \/ LabelLoop \/ PrintValidated \/ GenTac \/ PrintTac
  BY <1>3, <1>7 DEF Typecheck, LabelLoop, PrintValidated, GenTac, PrintTac
<1>8. CASE GenAsm \/ PrintCodegen \/ Emit \/ Assemble \/ Link
  BY <1>3, <1>8 DEF GenAsm, PrintCodegen, Emit, Assemble, Link
<1> QED
  BY <1>1, <1>2, <1>4, <1>5, <1>6, <1>7, <1>8 DEF Next, Options

-----------------------------------------------------------------------------

\* Both invariants hold in every reachable state.
LEMMA PipelineAlways == Spec => [](StagesInv /\ OptionsInv)
<1>1. Init => StagesInv /\ OptionsInv
  BY AliveInit, OptionsInit
<1>2. StagesInv /\ OptionsInv /\ [Next]_vars => (StagesInv /\ OptionsInv)'
  BY StagesNext, OptionsNext
<1> QED
  BY <1>1, <1>2, PTL DEF Spec

\* A stage is only reached with an input and a stage to stop after.
THEOREM PipelineTypeCorrect == Spec => []TypeOK
<1>1. StagesInv /\ OptionsInv => TypeOK
  <2> SUFFICES ASSUME StagesInv, OptionsInv PROVE TypeOK
    OBVIOUS
  <2>1. \A k \in DOMAIN lArgs : lArgs[k] \in Libs
    BY DEF OptionsInv, OptionTypes
  <2>2. files \subseteq {"i", "s", "o", "exe"}
    BY DEF StagesInv, FilesThen, Tidy, Wanted
  <2>3. ASSUME pc \notin {"options", "usage", "noinput", "abort"}
        PROVE  dof # "INVALID"
    <3>1. \A k \in Is("stage") : args[k].dof \in Stages
      BY ArgumentKinds DEF OptionsInv, OptionTypes, Is
    <3> QED
      BY <2>3, <3>1 DEF OptionsInv, OptionsRead, StageRead, Stages
  <2> QED
    BY <2>1, <2>2, <2>3 DEF TypeOK, StagesInv, OptionsInv, OptionTypes
<1> QED
  BY <1>1, PipelineAlways, PTL

\* No stage uses a region that is gone, whatever the options and failures; only
\* free_parser does, the tables of identifiers (parser.c:81).
THEOREM NothingMisused == Spec => []NoMisuse
<1>1. StagesInv => NoMisuse
  BY DEF StagesInv, NoMisuse
<1> QED
  BY <1>1, PipelineAlways, PTL

\* main returns 0 only when what the options ask for was made, and leaves no
\* object or executable otherwise.
THEOREM ExitCodeTells == Spec => []ExitMeansDone
<1>1. StagesInv => ExitMeansDone
  BY DEF StagesInv
<1> QED
  BY <1>1, PipelineAlways, PTL

\* main removes the preprocessed file and the assembler text it made on its
\* way, but for --lex and for the file in work when a stage failed.
THEOREM FilesTidy == Spec => []Tidy
<1>1. StagesInv => Tidy
  BY DEF StagesInv
<1> QED
  BY <1>1, PipelineAlways, PTL

\* What parse_driver_options accepts means what it says as a whole: the one
\* stage, the one output, the one input, the libraries in order.
THEOREM OptionsMean == Spec => []OptionsMeaning
<1>1. OptionsInv => OptionsMeaning
  <2> SUFFICES ASSUME OptionsInv, pc \notin {"options", "usage", "noinput", "abort"}
               PROVE  OptionsMeaning
    BY DEF OptionsMeaning
  <2>1. OptionTypes /\ OptionsRead /\ input # NULL
    BY DEF OptionsInv
  <2>2. args \in Seq(Arguments)
    BY <2>1 DEF OptionTypes
  <2>3. Is("stage") \subseteq DOMAIN args /\ Is("out") \subseteq DOMAIN args /\ Inputs \subseteq DOMAIN args
    BY DEF Is, Inputs
  <2>4. Consistent
    BY <2>1, <2>2, <2>3, Positions DEF Consistent, OptionsRead, StageRead, OutputRead, InputRead
  <2> QED
    BY <2>1, <2>4 DEF OptionsMeaning, OptionsRead, StageRead, OutputRead, InputRead, LibsRead
<1> QED
  BY <1>1, PipelineAlways, PTL

\* parse_driver_options refuses no command line but one that contradicts
\* itself.
THEOREM OnlyContradictionsRefused == Spec => []RefusedForReason
<1>1. OptionsInv => RefusedForReason
  BY DEF OptionsInv, RefusedForReason
<1> QED
  BY <1>1, PipelineAlways, PTL

=============================================================================
