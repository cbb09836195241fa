# A verification project for ascc

`ascc` (sources in `src/`) compiles a part of C to x86-64 assembler. It is one
sequential process without threads: no step of it runs concurrently with
another. What is hard in it is not interleaving but *agreement*: nearly every
phase decides something (a name, a label, a slot, an entry, an offset) that a
later phase reads without asking again, over programs whose declarations,
scopes, jumps and calls come in every order. The models take those orders as
their nondeterminism: one step per declaration, statement, operand, call or
stage.

Contents: 1 inventory, 2 modules, 3 runs and bounds, 4 disagreements found,
5 proofs, 6 what is left out, 7 plan.

## 1. Inventory

The pipeline of `main.c`: `gcc -E` → scanner → parser, which calls name
resolution as it goes → type checker → loop labelling → three-address code
(TAC) → x86 (selection, then `fix_pseudo`, then `fix_instrs`) → assembler text
→ `gcc`.

| Component | Source | State it keeps | Operations | Correct when |
|---|---|---|---|---|
| Arenas | `arena.c`, `arena.h` | chunks, fill index of each, current chunk | `init_arena`, `arena_alloc`, `arena_alloc_arr`, `clear_arena`, `free_arena` | blocks are disjoint, aligned, inside their page |
| Vectors | `vec.h` | data, size, capacity | push, pop, foreach, `vec_move_into_arena` | the items survive the move to an arena |
| Strings | `strings.c` | none (text in `str_arena`) | copy, format | – |
| Hash table | `table.c` | entries, size, link to another table | get, set, expand, iterate | it is a map; every probe ends |
| Scanner | `scan.c` | line, position, one character put back | `next` | tokens and positions are those of the text |
| Parser | `parser.c` | two tokens of look-ahead, tables of the open scopes | one function per production | the tree is the one of the grammar |
| Name resolution | `resolve.c` | scope counter, list of tables, name and label counters, labels and gotos of the function | one call per declaration, use, label, goto | a name denotes what C says; names and labels are unique |
| Declarations | `typecheck.c` | symbol table, current function | one check per kind of declaration | the entry sums up all declarations of the name |
| Expressions | `typecheck.c`, `convert_intc.c` | types in the tree | common type, conversions, constants | types and constants are those of C |
| Loop labelling | `loop_labeling.c` | stack of loops and switches, label counter | one call per statement | a jump belongs to its innermost construct, cases to their switch |
| TAC | `tac.c` | temporaries, names of the file, list of items | one function per statement and operator | same meaning as the tree; fresh temporaries |
| x86 selection | `x86.c` | list of instructions | one function per TAC instruction | same meaning as the TAC; operands of calls arrive |
| Frame layout | `x86_fix_pseudo.c` | offset, deepest offset, offset of each name | `fix_pseudo_for_func` | every variable keeps one slot of its own in the frame |
| Legalisation | `x86_fix_instrs.c` | list of instructions | one case per instruction | operands the machine has, same meaning |
| Emission | `x86_emit.c` | last origin printed | printing | – |
| Options | `driver.c` | options so far, `-o` pending | one round per argument | options mean what the command line says |
| Pipeline | `main.c` | which arenas and tables exist, files written | one step per stage | nothing is used after its release; the exit code tells the result |
| Printers | `print_ast.c`, `scan_print.c`, `tac_print.c` | none | printing | – |

How they interact:

- by **name**: the resolver gives every object a name; type checker, TAC, frame
  layout and assembler find the object by this name in tables of their own.
- by **label number**: resolver, loop labelling and TAC draw from one counter.
- by **pointer into arenas**: entries of the symbol table point into the tree,
  x86 instructions into the TAC, everything into `str_arena` and `ptr_arena`;
  `main.c` releases them in an order that depends on the stage option.
- by **offset**: caller and callee compute where operands are independently,
  and the frame layout computes slots that both ignore.
- by **files** and **exit codes** with `gcc`.

The hard behaviours are listed with their lines and the properties that cover
them under `hazards` in `PROJECT.json`.

## 2. Modules

| Module | Models | Correspondence |
|---|---|---|
| `Scanner` | `scan.c` | A text is a sequence of characters, the scanner a place in it; `Skip` is `skip_whitespaces`, `Tokens` is `next` up to the end. |
| `Parser` | expressions and statements of `parser.c` | one operator per function of the descent; `Climb` is the loop of `_parse_expr`; a parser is the tokens ahead and the node made last |
| `Grammar` | – | what C says a text is: longest tokens, and the set of trees the grammar derives |
| `Reading` | – | `Scanner`, then `Parser`, next to `Grammar` |
| `Resolve` | `resolve.c` and the calls of `parser.c` | `tables` is the linked list of hash tables, `kinds` the recursion of the parser, `labelsHt` and `gotosHt` the tables of a body, `gotoNodes` the nodes of the tree |
| `Scoping` | – | scopes and linkage of C: an identifier denotes what the innermost declaration declares |
| `SymTable` | declarations in `typecheck.c` | `st` is the table, `decls` the history of accepted declarations the properties compare it with |
| `Expressions` | the tree, the widths of types, `convert_intc.c` | widths are constants; `Low` and `Signed` are the two readings of the bits of a number |
| `Typing` | expressions in `typecheck.c` | `Typed` is `typecheck_expr`: it sets types and inserts casts |
| `LoopLabels` | `loop_labeling.c` | `stack` is the vector of loops and switches; `nodes` are the statements with the fields the walk writes and, as history, the constructs around them |
| `Tac` | expressions and statements in `tac.c` | one operator per `gen_tac_from_...`, from a generator to the generator after it |
| `Statements` | – | statements of C as a machine that stops at calls and at the return |
| `Lowering` | – | `LoopLabels` walks a body while it is written, `Tac` translates it, both run |
| `TacSymbols` | items and names of temporaries in `tac.c`; extends `SymTable` | `out` is the list of top-level items; the functions are translated in order, the table is walked in any order |
| `X86` | `x86.h` | instructions and operands |
| `Selection` | `x86.c` without calls | one operator per `gen_asm_from_...` |
| `CallConv` | calls in `x86.c`, prologue and epilogue in `x86_emit.c` | the generated code is executed on registers and a stack of words |
| `Activations` | – | calls of the language: operands become the parameters of a new activation, a result comes back |
| `FrameLayout` | `x86_fix_pseudo.c` | `lay` is the three statics of the file, `homes` what each operand was rewritten to |
| `Legalise` | `x86_fix_instrs.c` | `Fix` is `fix_instr`: an instruction with the moves put before and after it |
| `Backend` | the three passes in `x86.c`, `x86_fix_pseudo.c`, `x86_fix_instrs.c` | `code` is the list of instructions of a function; one action per pass over all of it, and one for a run of the result on `Machine` |
| `Machine` | the processor, as `emit_x86_instr` uses it | what the printed lines do to registers, memory and flags. The bitwise operators on numbers are constants (`AndOf`, `OrOf`, `XorOf`) |
| `Meaning` | – | what C says an integer expression does, and when it says nothing |
| `Arithmetic` | – | one expression through `Typing`, `Tac` and the passes of `Backend`, and run, next to `Meaning` |
| `Arena` | `arena.c`, `vec_move_into_arena` | `chunks`, `curr` are the list and `a->curr`; `blocks` is history. `AllocNothing`, `AllocFrom`, `AllocExpand` are the three ways through `_arena_alloc`. `Regions` lets the system refuse a page. |
| `HashTable` | `table.c` | `entries`, `size`; `Set` is `ht_set` with `ht_expand`, `Visit`/`Finish` are `ht_next`. A hash is a constant function, so that all collisions can be had. |
| `Map` | – | what a hash table promises: a map, and an iteration that shows every pair once |
| `Driver` | `driver.c` | one action per argument |
| `Pipeline` | `main.c`; extends `Driver` | one action per stage, with the regions it makes, reads and releases |
| `Arena_proofs`, `CallConv_proofs`, `Resolve_proofs`, `HashTable_proofs`, `TacSymbols_proofs`, `Pipeline_proofs`, `LoopLabels_proofs` | – | proofs about the module each is named after, and about the modules it extends (`SymTable`, `Driver`) |
| `X86_proofs` | – | proofs about the passes over instructions: `FrameLayout`, `Legalise`, `Selection` and `Backend` |
| `MC...` | – | instances for TLC |

`SymTable` is run as part of `TacSymbols`, `LoopLabels` as part of `Lowering`,
`Backend` as part of `Arithmetic`.
`Typing`, `Tac`, `Selection`, `Legalise`, `Scanner` and `Parser` are pure
phases: operators without variables, from the output of the phase before.
`Lowering`, `Arithmetic` and `Reading` are the state machines that call them.

Three modules are abstract specifications that detailed ones are shown to
implement, by refinement mappings evaluated in every state:

- `HashTable` implements `Map` (`ImplementsMap`): the map is read off the
  array; growth stutters.
- `Resolve` implements `Scoping` (`ImplementsScoping`): declarations in force
  are read off all tables; the entity of a name is found *by name*, as later
  phases do, so that two objects of one name would not implement it.
- `CallConv` implements `Activations` (`ImplementsCalls`): the activations are
  read off memory by following the saved frame pointers; pushing, padding and
  releasing stutter.

Three others are reference definitions that results are compared with:
`Grammar` (a set of derivations, against a recursive descent that never looks
back), `Meaning` (numbers, against instructions on bits) and `Statements` (the
tree, walked with a stack of what is left to do, against jumps).

Operators marked `bug:` are not part of the specifications. Each is a wrong form
of the definition after it, as one slip in the code would make it; with it in
place TLC finds the property listed with it in `PROJECT.json` violated, which
shows that the property depends on that piece of the code.

## 3. Runs and bounds

| Run | Question | Bounds, and why they are enough |
|---|---|---|
| `reading` | Are texts scanned into the longest tokens, and statements parsed into their one tree? | All texts of up to 4 to 6 characters over five small alphabets (operators; calls and parentheses; comments; constants with suffixes; a keyword and names); every pair of the 29 infix operators in one statement, bare and with parentheses on either side; every operator in each place of one or two conditionals; statements nested to depth three with `else` after them; every row of up to four type words. Precedence and associativity are relations of two operators, so pairs show all of them. `int` has 4 bits and `long` 6, so that constants of two digits need every type. |
| `resolve` | Do names denote what C says, and do gotos have labels? | Two identifiers, file scope, parameters and one nested block, two objects, two labels, two gotos: hiding on every level, sibling blocks, `extern` inside, two functions with labels of the same name, two gotos to one label. A third level of nesting repeats the same step. |
| `lowering` | Does the code of a body do what the body does? | Bodies of up to five statements and operators: a loop in a switch in a loop with a jump, two cases of one switch with a loop between, an `if` with both branches in a loop. The first `break` or `continue` is free, each further one counts as a statement. The first expression may be a composite one (`&&` and `||` nested either way, `?:`, an argument that is a call, an assignment used as an operand), in every kind of statement. One label with its gotos, anywhere. Calls return 0 or 1, and in a switch on `long` also 17, which is 1 as an `int` of 4 bits. |
| `tac_symbols` | Does the entry of a name sum up its declarations, and are the symbols of the assembler file those the program defines? | Four declarations of two names (two types of variables, two of functions); an object or parameter of a body, whose name is also one of the two and that of the first temporary; two temporaries, with calls. So three things share a name in every order. An entry depends on the previous entry and one declaration, so three of one name reach every combination of linkage and initial value followed by each declaration. |
| `arithmetic` | Do the instructions of an expression compute what C says? | All 16 binary operators on every pair of types, with variables in the frame or of static duration or constants, large ones included, on either side; all unary operators and casts; all assignments; two operators one inside the other; expressions as condition, as operand of `return`, as condition of a `switch`. Bytes have 3, longwords 4 and quadwords 6 bits: the properties of the code depend on which of two widths is the wider and on signs, not on the numbers; the sample values are the limits of each type and of the narrower one, their neighbours, and a few between. |
| `call_conv` | Do operands and results arrive, and is the stack given back? | 0, 1, 5, 6, 7, 8 operands: no operand, the last register, one and two on the stack, both parities. Three nested calls and three calls in all: caller, callee and a call after a return. `MaxParams` only bounds the size of the memory. The theorems cover all numbers and depths. |
| `frame_layout` | Does every order of uses give stable, disjoint slots in the frame? | Two longwords, two quadwords, a static: slots of both widths before and after each other and the static in between. The theorems cover all sets of names. |
| `arena` | Are blocks disjoint, aligned, inside? | Pages of 12 bytes, elements of 3 bytes aligned to 2, up to 5 elements (more than a page), 4 pages, any of which may be refused: padding, exact fit, full page, rewinding over several pages. |
| `hash_table` | Is it a map and does every probe end? | Five keys that collide in each capacity and wrap round the end, two values, capacities 4, 8, 16: two expansions. |
| `pipeline` | Do options mean what they say, and does each way through `main` use only what exists? | All command lines of up to five arguments: a stage, `-o` with its file, the input and a library in every order, or one argument too many. Each stage and `gcc` may fail. |

Two runs end in a violation, see section 4: `resolve_two_gotos`,
`tac_local_temp`.

Deadlock is checked where the system cannot stop (`frame_layout`, where another
function may always come, and `hash_table`). The other runs say
`CHECK_DEADLOCK FALSE`: a program ends, is refused, or meets its bound.

**Fairness.** `lowering` assumes `WF_lowerVars(Step)`: a processor goes on with the
next instruction, and C with the body, as long as neither has come to a call or
the return. Nothing is assumed of calls: `Answer` may never happen. This is
the least that makes `Progress` a statement about the translation. The
compiler itself is one process that the operating system runs to its end; each
loop of it is over a finite list or ends by an argument about its data. Where
that argument is not obvious, it is a safety property and needs no fairness:
the probe loops of the hash table end because a slot is free (`SlotFree`), the
counter of `new_tmp` passes all names (`TempsSpareFileScope`).

What the less obvious properties say:

- `TokensMunched`: if C has a way to cut the text into tokens, the scanner finds
  this one. A keyword stands in the text as one character, which the scanner
  treats as its letters; comments are one of the alphabets.
  The value of a constant is that of its digits if it fits in 64 bits; larger
  ones wrap, in the scanner as in `scan.c:228`.
- `TreeOfGrammar`: what the compiler refuses is no statement of C, and what it
  accepts is one, with the one tree `Grammar` derives, unless a constant of the
  text is larger than every type (`Overflows`): those are accepted with what is
  left of their value, see section 4. That the set never has
  two members shows, by the way, that the rule for `else` and the levels of
  operators leave no ambiguity.
- `SameEvents`: body and code are compared at calls and at the return, with
  operands and value. What a body does to its own variables is seen through the
  operands of its calls, each of which has `x` among them.
- `Progress` (liveness): when the body calls or returns so does the code, and
  the other way round. It fails when a loop is endless in one of them only,
  which no comparison of events would show.
- `LabelsMatch`: labels of three phases in one function, each marked once. The
  only jumps without a label are gotos that are not the only one to their label
  (section 4), and one of them is left. Such code does not link and is not run,
  so `SameEvents` and `Progress` are about bodies without a lost goto.
- `CasesCollected`: a switch has the cases and the default that stand in it but
  in no inner switch, and no value twice *after* conversion.
- `Means`: value, side effects, jumps, and no trap, for every program whose
  behaviour C defines. Types and forms on the way are not compared, so a wrong
  conversion that another one undoes is no error. Right shifts of negative
  numbers and conversions to signed types are those of the implementation.
- `LegalForms`: the translation gives the selection instructions it has an
  answer to (`TacInstrs`), the selection leaves what the last pass can make legal
  (`Produced`), and the pass leaves what the assembler accepts (`Legal`), but for a
  shift by a constant of more than a byte, which stays as it is (`TooFar`).
- `WritesInside`: no instruction writes more bytes than the object it writes to
  has, also where `Means` says nothing. Its other half, that the code mentions
  every object with one type (`ExpressionCode`), is what this depends on.
- `EntriesOnlyGrow` (action property): no order of declarations makes an entry
  forget a definition, its linkage or its type.
- `RefusedForReason` (`SymTable`, `Driver`): the converse of checking; a valid
  program or command line is not refused.
- `AbortsOnlyOnClash`: no order of declarations, types, storage classes and
  bodies reaches an assertion of `typecheck.c` or `tac.c` on the kind of an
  entry, or a message that needs the place of a declaration there is none of. What
  does is a name that has become that of two things (section 4): the name of the
  declaration or call that ends the compiler is then that of an object of a
  body, of a parameter or of a temporary. The names of objects (`Locals`) and
  identifiers (`Names`) overlap in `MCTacSymbols`, as they may in a program.
- `EntrySumsUp`, `OneDefinition`, `RefusedForReason`, `EntriesOnlyGrow` and
  `SymbolsAreDefinitions` except the names two things share, one name at a time:
  those of objects that something with linkage has too (`Clashing`), or of all
  objects (`Objects`) where the entry cannot tell. All other names of the same
  program are held to what they say. `SymbolsAreDefinitions` also says that a
  temporary can only cost the symbol of a static object of a body whose name it
  takes.
- `CallAlignment`: every call is made with the stack pointer at a multiple of 16,
  which takes frame sizes (`x86_fix_pseudo.c:186`), saved words, pushed operands
  and padding of the whole chain of calls together. `gen_asm_from_call` pads by
  the parity of *all* operands although the first six are not pushed, so calls
  with one, three or five operands are 8 bytes off, and everything called from
  them (section 4): they are excepted (`EvenOrPushed`).
- `GotosResolved` says of the last goto to a label what `EveryGotoBound` would
  say of all.
- `NamesUnique`: objects differ in their names whatever the identifiers are. An
  object `x` gets the name `x_1`, and nothing keeps a program from declaring an
  `x_1` with linkage: the property says that this spelling, with the object's own
  number, is the only way to share its name. In the instance `MCResolve` there is
  no such identifier, which `ImplementsScoping` needs; the theorem is about all.
- `OptionsMeaning` says what a consistent command line means as a whole,
  independent of order. A `-o` that comes last is accepted and means nothing.
- `NoMisuse`: `print_sym_table` reads positions in the tree, the emission reads
  the TAC, the link command reads libraries out of `str_arena`. The tables of
  identifiers that `free_parser` reads after it has destroyed them (section 4)
  are excepted, being the one misuse there is.
- `Tidy`: `--lex` keeps the preprocessed file; after an error the file that was
  being worked on stays.

## 4. Disagreements found

Each is a run that checks one property, taken from a comment, that the code does
not have.

- `resolve_two_gotos`, `EveryGotoBound`: of two gotos to one label only the last
  is in `gotos_to_check_ht` when the body ends; the other keeps index 0.
- `tac_local_temp`, `TempsFresh`: the first local variable `t` is named `t_1`,
  and so is the first temporary, which then takes over its entry and slot.

Others are in the models but not the object of a run:

- `free_parser` (`parser.c:81-83`) destroys a table and then asks it for the next
  one, for every program parsed. `Parse` has it (`UsesLate`).
- A call with one, three or five operands is made with the stack 8 bytes off
  (`x86.c:436`): `Padding`.
- A lost goto keeps index 0 and its jump has no label to go to, so
  `goto L; L: ; goto L;` is accepted and does not link: `GotoStmt` and the stage
  `unlinked` of `Lowering`.
- A constant larger than 64 bits wraps silently (`scan.c:228`). The test for that
  (`parser.c:118`) compares a 64-bit number with the largest there is and cannot
  fire. Of the constants too large for their suffix only those from 2^63 without
  one, or with `l`, are refused, by the comparison after it: `Decimal`,
  `ConstType`.
- `x << 300` leaves `shl` with a constant the assembler has no room for, since
  `fix_shifts` (`x86_fix_instrs.c:133`) only rewrites counts that are not
  constants: `Legal`, `TooFar`.
- `int f(void) { int x; return 0; } int x_1;` finds the entry of the object `x`,
  named `x_1`, with the same type, and the assertion at `typecheck.c:664` fails;
  had `x` been a parameter `long x`, the message about the types would read the
  NULL it has for a declaration (`typecheck.c:652`). `int t_1(void);` inside a body
  that calls it loses its entry to the first temporary, and the assertion at
  `tac.c:377` fails: `Abort`, `RefuseFor`, `Call`, `EndDecl`. A static object
  `t` of a body, `t_1`, may lose its symbol the same way.
- The first tentative variable of a file without function bodies is appended to
  a list without a tail (`tac.c:771`): `VisitEntry` ends in the phase `crash`.
- `/=` and `%=` take the width of the divisor from a field they have not set and
  always divide signed (`x86.c:370`): `SelectAssignDiv` does the same.
  `MCArithmetic` (`Supported`) leaves out the operand types that go wrong by
  it, those of one type other than `int`; operands of different types were
  rewritten by the type checker and are checked.
- A vector of more than a page is copied to NULL (`MoveVec`).
- An arena gives out addresses in a page it did not get (`Give`).
- With `--validate` the tree is released before the symbol table although
  `main.c:160` says it can't be (harmless: nothing is read in between,
  `NoMisuse`).
- The type of `>>=` on operands of one type is that of its right operand
  (`SelectAssign`), which is the same there.

## 5. Proofs

TLAPS checks the following for all values of the constants.

`X86_proofs` is about the passes over instructions, in three parts.

*Where objects are.* It proves `TypeOK`, `OneHome`, `NoOverlap`, and `FrameCovers`
together with `SlotsAligned`, from `VarsAssumption` (statics and quadwords are
variables). The properties speak of operands already rewritten, whose set says
nothing about the next slot, so none of them is inductive. The invariant is
about the three statics instead: `Packed`, that the slots in the table are
disjoint, aligned, and not deeper than the running offset, which is a multiple
of four and at most the deepest; and `Told`, that each rewritten operand is what
the table would give again. The one fact about data is that a new slot begins
past the offset (`BumpLemma`); placing a variable keeps `Packed` and moves no
slot.

*What the assembler accepts.* `FixedLegal`: for every instruction `i` with
`Produced(i)` that is not `TooFar`, a shift by a constant of more than
`UINT8_MAX`, all instructions of `Fixed(i)` are `Legal`, whatever the
constants in it and whatever `INT32_MAX` and `UINT8_MAX` are, from `ImmediateAssumption` and
`NamesAssumption`. The pass is a chain of small rewritings, and what has to
hold between two of them is `Around`: the moves put around the instruction so
far are legal, and the instruction still is one. Each helper keeps `Around`
(`InsertBeforeAround`, `WithSrcAround`, ...) and says what it has done to the
operands; the moves themselves are legal because `insert_before_x86_instr`
fixes what it inserts (`FixMovLegal`) or because their operand is known to fit.
One lemma per case of `fix_instr` combines them. `LegalFormsAlways` puts the
passes together (`BackSpec => []LegalForms`, with `OpNamesAssumption`):
`SelectChosen` shows for each instruction of the intermediate code that what is
selected for it is `Chosen`, that is `Produced` once its operands have places,
and a pass over a sequence does to each instruction what it does to one
(`FlatIs`). What it assumes of the intermediate code is `TacInstrs`; that
expressions are translated into such code is the first part of `LegalForms`,
which the run `arithmetic` checks.

*What a run writes.* `WritesInsideAlways` (`ExecSpec => []WritesInside`), for
code of any length, over any objects with any starting values. The code is
straight: of a conditional jump only whether it is taken is recorded, and there
are no others. The instructions a machine meets are not those selected: the
passes between may put moves of another width around them. `Inside` says of one
instruction that its destination has at least the bytes written, where the
object's room is the width of its type (`Rooms`). Selection makes `Inside`
instructions when each object is mentioned with one type (`SelectInside`),
since `get_x86_asm_type` asks the same entry of the symbol table each time;
every helper of `fix_instr` keeps it (`Kept`, `FixedInside`), which is where
the scratch register a result goes through, and the moves back, come in; and a
machine that executes only `Inside` instructions never writes past an object
(`Whole`, `ExecWhole`), by the least instruction at which it would
(`RunWhole`). `ExecInv` is these facts by stage. Two clauses of `TacInstrs`
were found by attempting this proof: an extension is always from a narrow to a
wide type, and a quotient as wide as what is divided. The half of
`WritesInside` about `stage = "tac"` is what `ExecSpec` starts with; the run
`arithmetic` checks it of the translation.

`LoopLabels_proofs` proves `CasesCollected`, and `LabelsOnce` and
`JumpsInnermost` with it, for bodies of any size and nesting, from
`NumbersAssumption`. The walk keeps a stack and never sees where a statement
stands; the properties say where statements stand and nothing of the stack. The
invariant `Good` ties the two together: the stack is the list of constructs
around the next statement (`Stacked`), an open switch has on the stack what has
stood in it so far, and a closed one in its node what it will ever have
(`Collects`); every label lies below the counter, and labels of different
owners differ (`GivenOnce`); `break` and `continue` have the labels of the
innermost construct (`Jumps`). A new statement stands in what is on the stack
and changes none of the earlier ones (`Earlier`), so each action has to be
looked at for the top of the stack only. `Lowering` extends
the module, and each of its steps is a step of the walk or leaves the variables
of the walk alone, so that its run checks the same `CasesCollected`.

`Arena_proofs` proves `TypeOK`, `NoOverlap`, `BlocksInside`,
from `ArenaAssumption` (sizes are positive, the alignment is a power of two up
to 16). `NoOverlap` alone is not inductive: the invariant adds that each block
ends at or before the index of its chunk and that no block is past the current
chunk; a new one begins at or after the index (`AlignLemma`), so it is disjoint
from all. Refused pages change nothing in the argument.

`CallConv_proofs` proves `StackBalanced`, `CallAlignment` and the refinement
`ImplementsCalls`, from `CallAssumption` (the bounds are numbers). What the
properties leave out is everything about functions that are not running. The
invariant `CInv` says that there is a sequence `b` of frame pointers, one for
each active function: neighbours are as far apart as the frame, the operands and
the two saved words between them (`Placed`), the words saved in memory are `b`
read backwards (`Linked`), the registers are where `b` has them (`Pointers`), and
the operands of a call under way are in their registers and words (`Passed`).
A step then gives a new `b`: a call appends to it, a return drops the last. The
frames do not overlap, so a write below a frame, or to the object of a result,
changes no other activation (`Kept`). The chain of frame pointers that
`ImplementsCalls` follows through memory is a recursive function; that it
computes `b` (`ChainIs`) is shown by the least number at which it would not.
`RoomForCall` shows that the words written are memory within the bounds.

`Resolve_proofs` proves `TypeOK`, `GotosResolved`, `NamesUnique` and the
refinement `ImplementsScoping`. `ScopesInv`: each table holds entries in order
for its depth, an object's entry has a name of its own, counter and list agree
with the constructs the parser is in. `GotosInv`: inside a function the table of
gotos has the last goto of each label; outside, every goto has been checked.
`NamesUnique` has no hypothesis about identifiers: names end in their number, so
they can be read apart (`SuffixAssumption`). The refinement has the hypothesis
`PlainIdents`: no identifier
is spelled like a name the resolver makes. It cannot be dropped, since with an
`x_1` of the program the two names are one; `MCResolve` has it as an assumption.

`HashTable_proofs` proves `TypeOK`, `SlotFree` and the refinement
`ImplementsMap`, from `TableAssumption` (NULL is neither key, value nor number).
The invariant `HInv`: between the hash of a key and the slot that holds it no slot is free
(`Chained`), no key has two slots (`OneSlotEach`), `size` counts the slots in use
and is at most half of them. A probe ends at the key or at the first free slot;
filling the slot where a probe for that key ended keeps all of it. `ht_expand`
inserts the entries one by one, a recursive function in the model: that the array
after `n` of them holds just these is an induction, carried out by the least
number for which it would fail (`Least`, `UpTo`).

`TacSymbols_proofs` proves all eight properties of the run `tac_symbols`, for
programs of any length, without a condition on names: identifiers, objects and
temporaries may be spelled alike. `SymInv` is about the table while declarations
are checked: every declaration is well formed, the table has just the names
declared (`TableNames`), the entry of a name that no object has is what its
declarations add up to (`AllSumUp`), that of an object whose name nothing else has
is the object's (`ObjectsInv`), and no name without an object is defined twice.
Which names are shared only grows with the declarations, so a step never has to
restore what was said of a name. `TacInv` is the same afterwards, when
temporaries take entries: they differ from each other and from the names of the
file, with numbers up to the counter, and entries of names that neither an object
nor a temporary has stay. That gives `AbortsOnlyOnClash` at a body and at a call
(`FuncIs`). `OutInv` is about the items: the bodies passed so far and the objects
visited so far are in the list, each once and with the linkage of its first
declaration, and an entry that emits an item is that of an object
(`ObjectEntries`). `EntriesOnlyGrow` is an action property and follows
from the three checks of a declaration, each of which merges.

`Pipeline_proofs` proves all six properties of the run `pipeline`, for command
lines of any length. `StagesInv` says for each stage which regions are alive and
which files exist, given the stage option, and that nothing but the tables of
`free_parser` has been used out of its life; it is inductive by itself. `OptionsInv` says after each argument
what the arguments so far mean; the position of an argument among those of its
kind needs cardinalities (`LibNumber`).

Only model-checked:

- `TokensMunched` and `TreeOfGrammar`: `Scanner`, `Parser` and `Grammar` are
  recursive operators, and the theorems would be inductions over texts.
- `SameEvents`, and `LabelsMatch` where it goes beyond `LabelsOnce` and
  `JumpsInnermost`, that is, after the translation: `Tac` and `Statements`
  recurse over the tree.
- `Means`: the expression is a tree of any depth, and the operators on bits are
  recursive too.
- The parts of `LegalForms` and `WritesInside` that say what `Tac` gives the
  later passes (`TacInstrs`, `ExpressionCode`), for the same reason.
- `Progress`, a liveness property under fairness.

`Expressions` and `Machine` are written so that the proofs above can use them:
`PowerOf2` and `Run` are recursive functions, with lemmas of their own, and the
bitwise operators are constants, to which `MCArithmetic` gives the operators of
the community module.

## 6. What is left out, and where the models stand back from the code

- Doubles: scanned and typed by the code, but selection, layout and emission
  have nothing for them. A conversion from double also reads an uninitialised
  operator (`tac.c:402`).
- `Scanner`: the lines the preprocessor leaves and the positions they set,
  string literals, numbers with a point or exponent, tokens no production uses,
  the limit on the length of identifiers.
- `Parser`: the trees of declarations and parameters, positions, and names,
  which `Resolve` has.
- `Typing`: the check of arguments against parameters; initial values of
  objects of static duration.
- `Lowering`: expressions of type `int` whose operands are calls and one
  variable, since `Arithmetic` has the operators; declarations in `for`.
- Function bodies at file scope only. The parser accepts a body inside a body,
  and the tables of labels of the outer one are then lost.
- `FrameLayout` has no overflow of the 32-bit offset. `CallConv` has quadwords
  only.
- `Lowering` has one label, so of several gotos one at most is bound; code with a
  lost goto is not run.
- `Pipeline` has classes of files, not names: that `-S -o` leaves the assembler
  text under its own name, or that a file named by `-o` may be the one that is
  removed as an intermediate one (`main.c:279`), is not seen.
- `TacSymbols` knows of an expression that it asks for temporaries and calls
  functions. Uses of variables find whatever entry the name has then, and are
  left to `tac_local_temp`.
- `Machine` takes an object of static duration and one of the frame alike, by
  name; that their places are disjoint is `NoOverlap`.
- The arenas of the compiler have element sizes that are multiples of their
  alignment, so they never pad, and are never cleared. `Arena` models the
  interface, which allows both. `copy_arena` has no caller; `expand_arena` no
  body.
- Tables with integer keys have no caller. Iteration while setting is undefined
  by `table.h:55`; the model ends the iteration.
- The debug build is modelled, the default of the Makefile. The release build
  removes assertions and with them an assignment (`driver.c:49`).
- Text: the commands given to `gcc`, printing, the layout of the assembler file
  and its data sections, the copies of strings.

## 7. Plan

Written in this order: `FrameLayout`, `CallConv`, `Resolve`, `Arena`,
`HashTable`, `LoopLabels`, `SymTable`, `TacSymbols`, `Driver`, `Pipeline`; then
`Expressions`, `Tac`, `Statements`, `Lowering`; `X86`, `Selection`, `Legalise`,
`Machine`, `Meaning`, `Arithmetic`; `Scanner`, `Parser`, `Grammar`, `Reading`.

Then the theorems about `FrameLayout`, `Arena` and `Legalise`; those about
`CallConv`, `Resolve`, `HashTable`, `TacSymbols` and `Pipeline`; and, with
`Typing` and `Backend` taken out of the modules around them, those
about `LoopLabels`, the passes of the back end and a run of their code.

Next, theorems: `WritesInside` for code with loops, which needs a machine with a
place in the code; that the instructions selected for one
TAC instruction have its meaning, for every width, one operator at a time.

Next, models: the trees of declarations and parameters in `parser.c`; initial
values of objects of static duration through `convert_intc.c` and the data
section; vectors that grow.
