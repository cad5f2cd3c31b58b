# A verification of the BASIC compiler

The compiler reads a BASIC source file, parses it line by line, sorts the lines by
number, and writes an x86-64 assembly file that `as` and `ld` turn into a program. This
directory holds TLA+ models of its parts, the TLC configurations that check them on small
instances, and proofs that TLAPS checks. Paths below are relative to the repository;
`gen.c` stands for `src/gen.c`, and so on.

## The system

| Part | Code | State | Operations | Modelled in |
|---|---|---|---|---|
| Driver | `main.c`, `sortAST` in `hash.c`, `bsearch_statements` in `parse.c`, `start` in `gen.c` | `statements[50]`, `goto_s`, `isGotoLabel` | read and parse a line; sort; resolve jumps; emit | `StatementOrder`, `StatementOrder_proofs`, `StatementOrder_refinement` |
| Lexer | `LineToTokens` in `token.c` | `tokens[20]`, `tokInd`, `tokLen` | one line of the file to tokens | `Lexer`, `Lexer_proofs` |
| NFA recogniser | `createNFA`, `DEPTH_FIRST`, `recognizes_nfa` in `token.c` | six automata, `marked`, `markedLen` | classify a token | `Recognizer` |
| Stacks | `init_stack`, `push_s`, `pop_s` in `token.c` | `last`, `arrlen`, `arr` | push, pop, clear | `StatementOrder` and `Recognizer`, each up to the push that goes wrong |
| Statement parser | `parse_AST` and one function per statement in `parse.c` | the token cursor, `goto_s` | tokens to an AST | `StatementParser` |
| Expression parser | `iter_parse_exp`, `recursive_parse_exp`, `parse_leaf` in `parse.c` | `ParenthesisLvl`, the token cursor | tokens to a binary tree | `ExprTree` |
| Three-address code | `ASTtoTAC`, `FillTac`, `FillLiveArr` in `parse.c` | `TacArr`, `LiveInterval[15]` | tree to code with temporaries | `ExprTac` |
| Expression code | `put_tac`, `requestReg`, `handle_cmp_op`, `handle_one_arg_op` in `gen.c` | `LocalRegOccup`, `RegIsNotCleared` | code to instructions | `ExprCode` |
| Statement code | `handle_statements` and its handlers in `gen.c` | `stackpos`, `frameArr`, `whileArr`, `if_ind`, `counterAddr` | AST to instructions and labels | `Statements`, `Execution_proofs` |
| The compiled program | what those instructions do | `%rip`, `%rsp`, the machine stack | one action an instruction | `Execution` |
| Symbol table | `hash.c`, and its readers in `parse.c` and `gen.c` | `S_TABLE`, `min_available_id` | look up, add, slot of a variable, walk, free | `SymbolTable`, `SymbolTable_proofs` |
| Runtime | `funcs.inc` | the buffers `digitspace`, `stringspace` | `itoa`, `atoi`, `ftoa`, PRINT and INPUT around them | `Runtime`, `Runtime_proofs` |
| Command line, `as`, `ld`, `rm` | `main.c`, `make_target_src` and `compile` in `gen.c` | the text, object and output files | write, assemble, link, remove | `Builds`, `Builds_proofs` |
| `printAST`, `--test-hash`, `--test-regex` | `parse.c`, `hash.c`, `token.c` | none | output only | not modelled |

How the parts interact. `main` calls the lexer and the parser once a line. The parser
leaves three things behind for others: the AST in `statements[]`, the targets of jumps in
`goto_s`, and symbols in `S_TABLE`. `main` sorts the first and resolves the second. The
code generator walks `statements[]` in line-number order, so it meets the symbols in an
order the parser did not, and it writes slots into the same table. The program it writes
runs on one machine stack that holds slots, loop cells and return addresses together.

What makes the code hard. The compiler is one thread in one process: there are no messages
to lose and nothing waits. Only its files are shared, with `as` and `ld` and with other
runs of the compiler. What goes wrong goes wrong because state outlives the call that
wrote it and another part reads it under another assumption:

- fixed arrays whose bound nobody tests (`statements`, `goto_s`, `inds`, `LiveInterval`,
  `whileArr`, `frameArr`), so the array is left after a long legal sequence of calls;
- four different walks over the same bucket chains (`getId`, `rodata_section`,
  `getIndexBySymbol` with the head of the chain, `free_s_table`);
- globals that are read after somebody else moved them: `if_ind` and `counterAddr` in
  nested statements, `ParenthesisLvl` in later lines, `RegIsNotCleared` in later expressions;
- one union for the text of a name and a number (`Atom`), told apart by the bytes;
- two notions of where the stack ends: `stackpos` moves with the text of the program,
  `%rsp` with its execution;
- memory that is used as the last user left it: `marked` when it grows, the first byte of
  `digitspace`, `stringspace` between two reads, `%r9`;
- a token cursor that some functions leave on their last token and others behind it;
- one text file, `/tmp/XXX08080.s`, for all runs of the compiler, and exit codes of `as`
  and `ld` that nobody looks at.

What is right, per part:

- driver: the text is the program by line number, every jump has one label, and a run of
  the compiler ends; it dies only for a reason visible in the program;
- lexer: a line's tokens are its runs of one class of characters, strings whole, and
  lines are the lines of the file;
- recogniser: an automaton accepts the texts its pattern describes and no others;
- statement parser: a statement is read as it is written, and an error is reported when
  something is dropped;
- symbol table: one symbol a name, one slot a variable, whatever collides;
- expressions: nothing is lost or turned round by the parser, temporaries live as long as
  they are used, registers are not taken from a value still needed;
- statements: labels are unique and defined, a subroutine returns to its caller, a
  variable is what was last assigned, a loop counts what it says, a part of an IF is
  executed when its test says so;
- runtime: PRINT shows the number, INPUT stores the next line, and every call returns;
- files: the output file is what the source says, or is not there.

## The modules

### Programs, Listing, StatementOrder: the driver

`Programs` says what the rest of the compiler knows of a line after `parse_AST`: its key,
whether it is numbered, whether there is a statement, the targets it pushed. `WellFormed`
is the domain the driver silently assumes.

`StatementOrder` has one action per loop iteration or call of the code: `ReadLine`,
`EndOfFile` (the loop of `main`), `Partition`, `ScanI`, `ScanJ`, `Swap`, `Crossed`, `Split`
(`sortAST`; the two recursive calls of `Split` become a stack `pending` of segments, left
to do in the order of the code), `PopGoto`, `Probe` (`bsearch_statements`), `Emit`,
`Finish` (`start`). An access outside an array, a NULL dereferenced and a failed `assert`
are actions that end in `pc = "fault"` with the cause: `ReadOverflow`, `PivotIsNull`,
`ScanNull`, `ProbeAsserts`, `TargetMissing`, `EmitBare`, `EmitOverflow`. A line without a
number has the key that the union cell holds, its `enum statement`.

`Listing` is the promise without the arrays and searches: the lines are put in some order
by number, every target gets one marked line, and only a program that is not well formed
may fail. `StatementOrder` implements it under the mapping at its end
(`ImplementsListing`): the whole quicksort is one step of `Listing`.

### SymbolTable

The table as it is: `list[b]` is the chain of a bucket, newest node first, `inds[id]` the
bucket of a symbol. The parser's phase is in file order (`VarFound`, `VarAdded`,
`StringAdded`, `LookupFails`, `TableFull`), then the walk of
`rodata_section` (`RodataFound`, `RodataWalk`), then the generator's phase in any order
(`ReuseSlot`, `NewSlot`, `Bump`, `PrintText`, `PrintGarbled`, `For`, `End`, `FrameLost`), then `free_s_table` (`FreeChain`, `FreeSkip`, `FreeTwice`, `FreePastEnd`).
A statement is how it touches the table. `Hash` and `StrName` are constants, so a
configuration chooses what collides.

### ExprTree, ExprTac, ExprCode, Expressions

Pure operators, one module per pass, and a state machine over them. `ExprTree` is the
parser with its cursor and the global `ParenthesisLvl`; its precedence is that of the code,
1 for every operator. `err` is set where the code calls `parse_error`, for
`StatementParser`. `ExprTac` is the tree's code in entries with temporaries, and the
tests on the bytes of an `Atom`: an atom is a number or a name, and `isTempVar`,
`isSymbolVar` and `isFloatVar` look at the bytes of either. `ExprCode` is `put_tac` with
its allocation and freeing of registers, and a machine with registers and a flag that
executes what is emitted on symbolic terms. `Expressions` parses the expressions of a program one after the
other and then generates them, because two globals survive from one to the next.

### Statements, Execution

`Statements` has one action for each statement of `handle_common_statements`,
`handle_one_word_statements`, `handle_for_statement` and `handle_if_statement`; an IF is
three actions around its parts, since the parts run in between and may be IFs that move
`if_ind`. Its state is the generator's (`slot`, `used`, `ends` for `frameInt`, `whileArr`,
`whileInt`, `if_ind`, `counterAddr`) and the instructions emitted, each with its line and
the outcomes of tests under which it should be executed. `Assemble` says what `as` and
`ld` make of the labels. The programs are any sequences of statements with IFs two deep
whose jumps go to their lines (`ProgramsAssumption`), which is what the driver hands over.

`Execution` extends it by the machine: word k of the stack is at -4k(%rbp), `%rsp` is at
word `dep`, a call writes a return address in the two words below `%rsp`. That of a
runtime routine stays behind in memory when it returns. `env`, `calls` and `tests` are
shadow state: what the BASIC program means. No instruction reads them and the properties
compare them with the machine.

Left out there: the values of expressions (a word is junk, assigned at a line, a counter,
or half of a return address), STEP, which NEXT ignores in the code too, and `counterInt`,
which NEXT counts down from 0 and uses as an index: what it reads is outside
`counterArr`, zero in the layout the build has, and only names a scratch register.

### StatementParser

`parse_AST` and the function of every statement, on top of the cursor of `ExprTree`. IF and
the line number are the only places that wait for `parse_AST` to return; `frames` holds
them, innermost first, and is the C stack. The other statements return in one step
(`OneWordStatement`, `NameStatement`, `PrintStatement`, `LetStatement`, `GotoStatement`,
`ForStatement`, ...). `parse_AST` switches on `hash` of the token, which is only the sum of
its characters (`b` stays below 65521, so `b>>16` is 0): `Taken` is the set of keywords with
the token's sum, and a name such as `DNE`, `AN` or `ROF`, or the number 1029 after THEN, is
dispatched as the keyword is. After a THEN part `parse_IfStatementExp` takes one step over whatever
is there (`AfterThen`): a statement that ends on its last token, PRINT of a string say,
needs it, and one that ends behind it loses the ELSE. `Text` is the reference: it writes a
tree down again, so that reading can be compared with writing.

`ExprTree` classifies a token by what its pattern means; `Recognizer` says when the automata
answer otherwise. So the cells that turn `)`, `*` or an empty token into a name are taken
to be clear there, and constants of ten or more digits, which overrun the recogniser, are
not told from shorter ones. The lexer stops a line at `#`, so `#` is never a token.

### Lexer

`LineToTokens`, one action a character (`Take`) and one for each way a call ends
(`NewLine`, `StopReading`, `EndOfFile`) or leaves one of the two arrays (`TokenOverflow`,
`WordOverflow`). A quote is a class of characters and a mode, and ending a token ends the
mode. The reference `Splits` cuts a line where the class changes, strings in one piece,
without modes or lookahead.

### Recognizer

`createNFA` is a recursive function that builds the graph of empty edges of each of the six
patterns with its three stacks; `DEPTH_FIRST` is one with its stack of states. A behaviour
is a few calls of `recognizes_nfa` with any automaton and text, one action a character
(`ReadChar`). `markedLen` survives a call, and what the cells hold that `realloc` adds is
chosen freely in `Garbage`: they are used before they are cleared. `Language` is what the
patterns mean, without automata.

### Runtime

`itoa`, `ftoa` and `atoi` of `funcs.inc`, an action for each pass of a loop, and the code
that `gen.c` puts around the calls. `mem` is `digitspace` with `stringspace` behind it.
`Input` lets the system call deliver any part of the file that it may: a line from a
terminal, any number of bytes from a pipe. The 32 bits of a word are `Modulus`, a floating
point number is counted in parts of `1/Scale`, a power of two, so that what `ftoa` computes
is exact. Its whole part is cut to a word where `itoa` takes it from `%edi`.

### Builds

The runs of the compiler as processes that share the file system: `Open` and `Flush`
(`make_target_src`), `AsReads`, `AsWrites`, `Ld`, `Rm` (`compile`), `Refuse`, the `exit` of
`check_stack`, which has stdio write the part of a block it holds, and `Stop`, which is a
missing target, a failed assertion or a kill and undoes nothing. A block written over
another replaces all of it, also where it is shorter. `as`, `ld` and `rm` are
external; that `as` leaves no object file when it refuses a text, and `ld` no output file
when it fails, is how GNU binutils behave. Each of them reads or writes a file in one
step; a text that is not one run's may get any verdict.

## What the runs check

| Run | Module | Checks |
|---|---|---|
| `order` | `MCStatementOrder` | `FaultsExplained`, `WellFormedNeverFaults`, `TextIsTheProgram`, `SortedByNumber`, `IInv`, `Halts`, `ImplementsListing` |
| `symbols` | `MCSymbolTable` | `TableSound`, `SlotPerVariable`, `PrintsAreRight`, `BumpsAddressSlots`, `RodataEnds`, `FaultsExplained` |
| `expressions` | `MCExpressions` | `WrittenOrder`, `UnbalancedWarns`, `GroupsKept`, `SumsAndProducts`, `FirstComparison`, `FaultsExplained` |
| `expr_precedence`, `expr_freed`, `expr_index` | `MCExpressions` | one disagreement each, see below |
| `control_flow` | `MCExecution` | `CompileStops`, `LabelsExplained`, `ReadsAreCurrent`, `ReturnsHome`, `LoopsCount`, `BranchesAreTaken` |
| `runtime` | `MCRuntime` | `PrintedText`, `InputsRead`, `Returns` |
| `lexer` | `MCLexer` | `TokensAreRuns`, `LinesAreLines`, `FaultsExplained` |
| `recognizer` | `MCRecognizer` | `Recognizes`, `TokensClassified`, `FaultsExplained` |
| `statement_parser` | `MCStatementParser` | `ReadAsWritten`, `SameSum`, `ComplaintsExplained`, `ReadInOrder`, `JumpsPushed` |
| `builds` | `MCBuilds` | `ExecutablesExplained` |

Each module has a type invariant `TypeOK`. It is a conjunct of one of the properties
above (of `IInv`, `TableSound`, `ReadsAreCurrent`, `InputsRead`, `JumpsPushed`,
`ExecutablesExplained`, elsewhere of `FaultsExplained`).

Many properties have the form "right, except when ..." because the code has limits that it
never tests. The exception is part of the property. `CompileStops`, `LabelsExplained`, `GroupsKept`, `SumsAndProducts`,
`UnbalancedWarns` state it as an equivalence: the code fails there and nowhere else.
`ReadsAreCurrent`, `ReturnsHome` and `LoopsCount` hold for `Disciplined` programs: each LET
and FOR is passed once, in the order of the lines, before the first line a jump can reach;
a variable's first mention is its LET; a counter is no other variable, is within a byte of
`%rbp`, and loops do not overlap; an IF's parts allocate nothing. Without any one of these
clauses TLC finds a program that reads a destroyed variable, returns into data, or counts
the wrong loop.

`BranchesAreTaken` has two exceptions: a line whose THEN part is an IF with an ELSE part,
and the test of a WEND or NEXT inside a part, to which the WHILE or FOR of an earlier line
jumps without asking the IF (`WHILE` and then `IF ... THEN WEND`, in the programs).

What the later modules show:

- `PrintedText`: PRINT shows the number, and before a positive one the `0` or `-` of the
  last number printed before it that was not positive. `InputsRead`: on a terminal the
  k-th INPUT gets the k-th line, and after the end of the file what the INPUT before it
  got; from a pipe, what is in the buffer up to the first newline.
- `TokensAreRuns`, `LinesAreLines`: right for lines whose strings begin after a space and
  are closed; a string that begins behind anything else is never whole.
- `Recognizes`: no text of a pattern is ever turned down. With a fresh array nothing else
  is accepted; with an array that grew a token is taken for what it is not only if it is
  empty or `*`, or if it is `)` and taken for a name (`TokensClassified`), which `PRINT ()`
  asks of it.
- `FaultsExplained` of `Recognizer`: a `.` of a pattern matches digits too, so a number can
  be read in many ways, each of them puts its states in `pc`, and nobody measures `pc`. The
  last automaton of `isFLOAT` never answers for a number of ten digits, `isCOMMON_FLOAT`
  for one of fourteen, whatever the cells hold. `parse_AssignExp` asks `isINT(t) | isFLOAT(t)`,
  so all of them, of any constant.
- `ReadAsWritten`, `ComplaintsExplained`: in lines where no statement begins with a name, or
  a number, that has the sum of a keyword it is not, an ELSE is lost exactly if the THEN part
  leaves the cursor past its end, and an error is reported of a line read as it is written
  exactly if such a THEN part has no ELSE. The parser dies exactly at an assignment whose
  value does not begin with a number, which `parse_AssignExp` asserts.
- `SameSum`: an assignment without LET to a name with such a sum is always read as the
  keyword's statement: as END, REM, INPUT and the like without an error, as LET, FOR or a
  jump with one, and as IF, WHILE or PRINT the parser dies of it. `ReadInOrder` allows for
  these words wherever they stand.
- `ExecutablesExplained`: a build that nobody disturbs leaves what its source deserves,
  and only a run with the same text file or output name, under way at the same time,
  disturbs it.

### Bounds, and why they are enough

- `order`: `Capacity` 6 stands for 50, `GotoCap` 8 for the 50 of `goto_s`. Programs
  have up to four lines with repeated, absent and bare numbers, jumps forward, backward,
  to a repeated number and to none, two jumps a line, and all arrangements of up to five
  numbers; three programs fill or overrun the two arrays. Four lines let a partition
  split, recurse on both sides and cross by two. The proofs make the bounds immaterial for
  the properties listed under Theorems.
- `symbols`: five buckets for 64 and hash values that collide as the character sums do.
  All programs of up to four statements, and those of up to six with which a chain gets
  a third node (the walk that never ends) and the table its last symbol.
- `expressions`: every text of up to five tokens, since two parentheses around an operand
  and an operator already meet the early return; all sums and products of up to four
  operators, in two notations; pairs and triples, for the globals; and constants whose
  bytes look like names. `HeapPointer` is the low half of the address of a tree node in
  one run of the build: it is what the code reads as the number of a signed operand, whose
  union cell holds a pointer.
- `control_flow`: up to three statements of most kinds and longer programs of loops, WHILE,
  nested IF, and GOSUB with LET, each ended by END and a subroutine. `WhileSize` 2 stands
  for 50 and `CounterRange` 4 words for 64, so both are exceeded. `MaxWords` 10 bounds the
  machine stack (three nested calls above two variables) and `MaxCount` 3 the counters;
  the action `Bounded` stops a behaviour there.
- `runtime`: a word of seven bits, 6 and 4 bytes for the 16 and more of the buffers, and a
  precision of 2. Three calls in every order leave something behind, meet it, and have
  what they left met. The numbers are 0, both signs, one and two digits, and the smallest
  one; whole parts have the sign bit set, or a bit above it that `itoa` does not see;
  fractions end within the precision, exceed it, or overrun the buffer.
- `lexer`: tokens of three characters and four tokens a line for 20 and 20; all files of
  four characters of every class, and of five or six of the classes a property turns on.
- `recognizer`: the patterns are the code's own and so is `DEFAULT_STACK_SIZE`. The texts
  are all short ones over a character of each kind that a pattern tells apart, parentheses
  included, and longer ones up to the 19 characters of the longest token. Two calls
  suffice for a larger automaton after a smaller one, since a call leaves nothing but the
  length of the array.
- `statement_parser`: every statement, in every part of an IF, IF in IF once more, two
  lines in a row for what survives a line (`ParenthesisLvl`, `goto_s`), and all lines of up
  to five further words over nine vocabularies, most of which say nothing; and names with
  the sum of each keyword, or of none, in an assignment with and without LET, in an
  expression, after INPUT and FOR, and in both parts of an IF.
- `builds`: two runs in all combinations and three with one text file; a text of two
  blocks can be cut, mixed and have a hole. A third run is another that meets both.

### Fairness

`Halts`, `RodataEnds` and `Returns` need one: `WF_vars(Next)`. The compiler, and the
compiled program in a routine of the runtime, is one process that runs until it exits, so
a step that can be taken is taken. The compiled program as a whole has no liveness
property: a BASIC program may loop for ever. `Builds` has no fairness, as a run may stop
anywhere.

### Where the code disagrees with what is said of it

- `expr_precedence`: `get_predecense` (`parse.c`:593) gives every operator precedence 1, so
  `5 + 5*8`, the first test of `test.sh`, is read as `(5+5)*8`; the test expects 45.
- `expr_freed`: `put_tac` (`gen.c`:316) frees the register with the number of a temporary;
  the comment above says it frees one that is not being used. In `(1+2+3)*4` it is `%rax`
  while it holds the left operand.
- `expr_index`: `requestReg` (`gen.c`:187) computes the index of a temporary from the bytes
  of a constant: `PRINT 383` fails its assert.

## Theorems

`StatementOrder_proofs` proves, for programs of any length and for every value of the
constants:

| Theorem | States |
|---|---|
| `Invariant` | `Spec => []IInv` |
| `TypeCorrect` | `Spec => []TypeOK`, the first conjunct of `IInv` |
| `SortCorrect` | `Spec => []SortedByNumber`: `sortAST` sorts |
| `NothingLost` | `Spec => []EveryLineOnce`: its swaps lose and double no line, at any moment (a part of `IInv`, in the run `order`) |
| `FaultCauses` | `Spec => []FaultsExplained`: whenever the driver dies, the program shows why |
| `WellFormedRuns` | `Spec => []WellFormedNeverFaults`: it does not die on a well-formed program |

The assumptions are those of `Programs` and `StatementOrder`: `Capacity` is positive,
`GotoCap` and `MaxGotos` are naturals, and the sources are sequences of lines.

None of these properties is inductive by itself. `IInv` is `TypeOK`, `CellsInv`, `SortInv`,
`SearchInv`, `SortedByNumber` and `FaultsExplained`:

- `CellsInv` says which cells hold lines, and that each line is in one of them. Without it
  nothing follows from a NULL met by a scan or a probe.
- `SortInv` is the argument for the quicksort. Two cells are in order unless a segment
  still to sort holds both (`Unsorted`); the segments are disjoint, and the next one to
  the left of the others (`PendingInv`); in a partition the cells passed are on the right
  side of the pivot (`PassedInv`), and ahead of each scan is a cell that stops it
  (`ScanInv`), which is why neither cursor leaves the segment. When no segment is left,
  `SortedByNumber` follows.
- `SearchInv`: a line with the target's number is where the search still looks. It holds
  since the array is sorted, and so a search that fails means a target without a line.

There is one lemma per action. `SwapEffect` and `PushedInFront` carry the two hard ones:
what a swap does to every cell, and what `Split` does to the pending segments.

`StatementOrder_refinement` proves that the driver keeps the promise of `Listing`:

| Theorem | States |
|---|---|
| `ListingInvariant` | `Spec => []ListingInv` |
| `TextIsRight` | `Spec => []TextIsTheProgram`: the text is the program by line number, with one label for each target of a jump and no other, before a line with its number |
| `Refinement` | `Spec => ImplementsListing`: every step is a step of `Listing` or a stutter |

`ListingInv` adds five parts to `IInv`. `FilledInv`: the cells beyond the lines read are
empty. `TargetsInv`: the targets still on the stack are those the program pushed.
`NamedInv`: no line is marked but for a target. `TextInv`: the text is a prefix of the
sorted program. `MarksInv` is the hard one. `Listing`
chooses one line for a target, and the code may search for the same number several times;
with a repeated number the searches must all end at the same line. A binary search has no
memory, so the segment it is in after any number of steps is one of those the first
segment leads to; `MarksInv` says so with sets of segments closed under a step (`Closed`,
`LeadsTo`), and `SameHit` and `FindsOnce` conclude that two searches for a number find one
line. TLC checked the other four before they were proved; `MarksInv` ranges over all sets
of segments.

`SymbolTable_proofs` proves, for any number of buckets, any hash function, any programs and
any order of the statements generated:

| Theorem | States |
|---|---|
| `SymbolTableInvariant` | `Spec => []SymbolTableInv` |
| `TheTableIsSound` | `Spec => []TableSound`: each symbol in one chain, once; no name has two |
| `NoSlotIsShared` | `Spec => []SlotPerVariable`: two statements share a cell only if they name one variable, and no slot moves |
| `PrintsHaveLabels` | `Spec => []PrintsAreRight`: the label of a printed string is emitted, and its text printed unless it shares a bucket |
| `FaultsHaveCauses` | `Spec => []FaultsExplained` |
| `OnlyEarlyBumpsMiss` | `Spec => BumpsAddressSlots`: an action property, only an INC or DEC before its variable has a slot addresses the saved base pointer |

The assumptions are those of `SymbolTable`: positive sizes, a hash within the buckets, and
names of strings apart from names of variables. `SymbolTableInv` is `TypeOK` and named parts for what
each phase leaves for the next: the chains and names (`ChainInv`, `NameInv`), which symbol
each statement parsed has (`SymbolInv`), which buckets and nodes the walk of
`rodata_section` is past (`PhaseInv`), what has been generated (`OutInv`), and which cells
have been given out (`CellInv`, `SlotInv`). No slot is shared because every cell given
out is within `Offset`, the distance from the base pointer to the last one, and the next
one is beyond it: `Offset` grows with `stackpos`, and an END, which pops a frame, moves
both of the terms that it is the difference of.

`Execution_proofs` proves, for every set of programs and every size of `whileArr`:

| Theorem | States |
|---|---|
| `StopsAreExplained` | `Spec => []CompileStops`: the compiler stops at a statement if and only if the text so far has one of the three reasons |
| `LabelsAreExplained` | `Spec => []LabelsExplained`: the code can be assembled and linked if and only if the text has its FORs and NEXTs in pairs, closes each WHILE before the next, and no ELSE part is an IF |

`CompileStops` looks at the text, a recursive function of the program; the generator at its
tables. `GenInv` relates the two in the middle of a line: the text begun is some text `D`
that has been handled and what the work on the line still owes (`Left`), and the tables
say of `D` what `Handled` lists: `ends` and `whileInt` count its ENDs and WENDs, the cell
at `whileInt` is in use just if a WHILE of `D` is open, a variable has a slot just if `D`
mentions it. `Text` is unfolded by `TextGrows`, an induction made with the set of the
numbers for which a fact holds (`InductiveSet`). `Nested` bounds the work: the parts of an
IF are simpler than the IF. Each statement adds itself to `D` (`Taken`) and must leave the
tables right for the longer text; the guard of its action is what keeps a reason to stop
out of the text (`GoesOn`), and the opposite guard is the reason (`StopKept`).

`LabelsExplained` compares the code with the text only at the end, so `LabelInv` counts, for
each label there can be, how often the code so far has it and whether a jump names it, and
says by what of the generator's state both are known (`Coded`). A line's label: by the line
reached and the targets (`LinesMarked`). A FOR's two: by the FORs and NEXTs of `D`
(`LoopsMarked`). A WHILE's two: by `whileId` and the cells of `whileArr` below `whileInt`,
where a number is missing just if a WHILE of `D` came before the WEND of the one before it
(`WhilesMarked`). An IF's two: by `if_ind` and what is left to do of the line
(`IfsMarked`). That holds until a second ELSE part is met within a first; then a label is
there twice, and stays so (`Doubled`), and the text has an ELSE part that is an IF. A label
is counted with `Cardinality`; `Adding` says what appending instructions with at most one
label does to each count, `AddsSame` that the other labels keep theirs, and `AssemblesMatched`
draws the conclusion when the program has been read.

`Lexer_proofs` proves, for every alphabet and every source file:

| Theorem | States |
|---|---|
| `LexerInvariant` | `Spec => []IInv` |
| `TokensFound` | `Spec => []TokensAreRuns`: tokens are the runs of a class if strings begin behind spaces or quotes, and only then if the last one is closed |
| `LinesFound` | `Spec => []LinesAreLines`: the source's lines come back, one by one, blank ones marked |
| `FaultsFound` | `Spec => []FaultsExplained`: only a run or a line that is too long leaves the arrays |

The assumptions are those of `Lexer`: positive sizes, no quote, space, newline, zero or end
of the file among the characters of a class, small letters that become capital ones, and
files made of characters. `IInv` says of each line returned how its tokens and its text
agree (`LineOK`), and of the line begun where the reading is, in terms of `Splits`, the runs
of each prefix of the text. As long as the quotes read so far are where they may be, the
tokens are the runs before the open one and the word is the open one (`Tracks`). That a
misplaced quote is never made good, the second half of `TokensAreRuns`, is the hard part.
Storing the token in front of the quote turns the mode off, so the code is one quote behind
the text (`Behind`). The two still agree on the tokens while only quotes follow. At the first
other character one of them ends its token and the other does not: the code goes on with a
token whose run has ended, or stores one whose run goes on. A run already there never gets
shorter, and one that has ended not longer (`LaterRuns`), so this token and its run have
different lengths however the line continues (`Differ`). If the line ends before that, its
string is not closed. TLC checked `IInv` on all the files of `lexer`.

`Runtime_proofs` proves, for words, buffers and precisions of any size, and any set of
sequences of calls, files and ways in which `read` delivers them:

| Theorem | States |
|---|---|
| `RuntimeTypes` | `Spec => []TypeOK`: registers hold words, and every address is within the buffers |
| `RoutinesAreRight` | `Spec => []PrintInv` |
| `PrintedTextIsRight` | `Spec => []PrintedText`: PRINT shows the number, in front of a positive one what the last number that was not has left |
| `ReadsAreRight` | `Spec => []RuntimeInv` |
| `InputsAreRead` | `Spec => []InputsRead`: INPUT gets the value of the first line in the buffer, unless a number has run into it |

The assumptions are those of `Runtime`: positive sizes, an even number of values of a word,
scripts made of calls and bytes, and `TextsFit`: the longest text fits in the two buffers
together, and that of an integer in `digitspace`. In the code a word has up to 10 digits
and a fraction up to 10, for 16 and 32 bytes.

`PrintedText` looks at a text when it has been written. `ItoaInv` says how it got there: in
the first loop `eax` is the number divided by the power of ten that `ecx` has reached, so
the loop ends at the number's length (`Length`); in the second it is the number divided by
the power that is left to go, and the cells behind `ecx` hold the last digits of `Decimal`.
Powers of ten are a recursive function, `TenTo`, of which the proofs need that it grows and
that dividing by ten again and again is dividing by it (`TenToGrows`, `NextQuotient`).
`TextInv` does the same for `ftoa`: `frac` is the fraction times the power of ten, without
its whole part (`Behind`), and the text the front and the digits so far. `MarkInv` is why a
number depends on earlier ones: nothing but `itoa` writes the first byte of `digitspace`,
and only for a number that is not positive. `PrintedText` allows a zero byte on either side
of the text, and `Written` in the invariant says which.

`ReadInv` has the invariant of `atoi`, whose value is that of the digits it is past
(`AtoiInv`), and `StoredInv`: `stringspace` is the overlay of the chunks read. The latter
needs of every PRINT that its text ends in `digitspace` (`TooLong` is the exception), so
it is proved from `PrintInv`. `LinesInv` follows the file: on a terminal whose lines fit,
the k-th chunk is the k-th line with its newline, and `rest` is `Unread`. From these
`LineStored` concludes that the line is the first one in the buffer, whatever older chunks
have left behind it, and that a read at the end of the file leaves the buffer as it was.

`Induction` holds the facts from which these proofs and those of `Execution_proofs` make
their inductions: a set of numbers has a least one, and is `Nat` if it has 0 and the
successor of each of its numbers; and `RecursiveFunction`: a function that starts with a
value and goes on by a step exists, by which `TenTo`, `Value` and `Unread` are unfolded.

`Builds_proofs` proves, for any number of runs, programs of any size and runs stopped
anywhere:

| Theorem | States |
|---|---|
| `BuildsInvariant` | `Spec => []BuildsInv` |
| `BuildsAreExplained` | `Spec => []ExecutablesExplained`: an output file is what the program of the run that linked last deserves, unless it met a run that clashes with it |

The one assumption is `OrdersAssumption`, what an order is. `ExecutablesExplained` looks
only at the end, so `BuildsInv` says what is true on the way there. `MetInv`: of two runs
under way each has met the other, unless it only removes; so a run that writes what `q`
still needs is in `Clash(q)` (lemma `Meeting`), and a run without a clash finds at each
step what it left itself (`OwnInv`). `FromInv` follows the blocks: those in a run's text
are of runs that it met with the same text file, and those in its object file may be of
an assembler with the same output name, hence of the runs that this one met. `LinkedInv`
is the property with the fact that a run that has linked meets nobody any more, without
which a run that begins later could join its clashes. There is one lemma per action;
`Open`, the only one that changes who has met whom, is the longest.

What is only model-checked, and why:

- `Halts`, `RodataEnds` and `Returns`: liveness is out of reach of the prover.
- `ReadsAreCurrent`, `ReturnsHome`, `LoopsCount`, `BranchesAreTaken`: they hold because of
  where the jumps of a whole program can go, and need an invariant over its paths.
- `Expressions`, its parts, and `StatementParser`: `RECURSIVE` operators over trees put a
  module out of the provers' reach, and the inductions over lengths of texts that
  `Lexer_proofs` and `Execution_proofs` make would have to become inductions over trees.
- `Recognizer`: what it accepts depends on the graphs `createNFA` builds from the six
  patterns, which TLC computes.

## What is not modelled

- Floating point constants in expressions and the SIMD code, `float_inits` and the stack
  of strings it is, and strings anywhere but after PRINT: other registers, same
  allocator. `FaultsExplained` of `Expressions` does have the constants that are taken for
  floating point ones, and `Runtime` what becomes of a floating point number printed.
- The arithmetic on machine words: the registers of `ExprCode` hold terms, which are
  compared with the tree the parser made. That a slot holds 32 bits and is read with 64 is
  in the model (`Wide`); the overflow of sums and products is not.
- `counterInt`, an unsigned char counted down from 0 and used as an index: what NEXT reads
  is outside `counterArr`, and only names a scratch register. The pointers of an IF
  without ELSE and a FOR without STEP, which nobody writes: `malloc` hands out the nodes
  from memory not used before, where they are NULL, and the models have no node there.
- `printAST` and the options that print (`--test-hash`, `--test-regex`), the names of files
  beyond the 50 bytes kept for them, and `test.sh`, which prints the values
  expected after those of the program and looks at exit codes only.
- The modules meet in data, not in one state machine: a line of `StatementOrder` is what
  `StatementParser` returns (the targets it pushed, whether there is a statement), and a
  program of `Statements` is the sorted, linked one. Their product adds no interleaving,
  as the phases of the compiler follow one another.

## Plan

Written in this order, the most important behaviour first: the driver, since everything
goes through it; the symbol table; expressions; statements and their execution; the
runtime; the lexer and the recogniser; the statement parser; the builds; and the proofs in
that order as far as they go. What is left are proofs about `Execution`: `BranchesAreTaken`
and, with an invariant over the paths of a program, `ReadsAreCurrent`, `ReturnsHome` and
`LoopsCount`.
