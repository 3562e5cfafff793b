# A TLA+ model of the Bon compiler

bonc compiles the Bon language to an SSA-like IR.  It is a single-threaded C program: it maps one
input file, parses it, makes three semantic passes over the AST and translates that to the IR.  The
hard part is not concurrency but state that is shared between the passes: AST nodes, symbol table
entries and IR functions point at each other, are filled in by one pass and read by a later one, and
each pass trusts what the earlier ones left.  These modules model that state and every step that
changes it.

Paths below are those of the repository: `src/parser.c`, `include/ast.h`.

## Inventory

| part | state | operations | what makes it correct |
|---|---|---|---|
| memory pool (`helper.c:85-129`) | `base`, `size`, `alloc`; pages made accessible so far | `mempool_init`, `mempool_alloc` | blocks disjoint, inside the mapping, accessible; gives up only when nearly full |
| vectors (`helper.c:131-199`) | `items`, `alloc`, `data` in a pool | init, push, alloc, idx, insert, remove; grow by moving to a new block | a sequence; pointers to items die when it grows |
| symbol table (`symtable.c`) | scopes with 32 chains each, entries with type, register, IR function | `scope_init`, `scope_insert`, `scope_find` | behaves as nested environments: a name is declared once per scope and found in the innermost |
| lexer (`lexer.c`) | position, line, previous token, one token of lookahead | `lexer_next`, `lexer_peek` | a token stream, with newlines where a statement can end |
| parser (`parser.c`) | recursive descent | `parse_ast` | builds an AST that follows the grammar or gives a diagnostic |
| AST (`ast.c`, `ast.h`) | functions, statements, expressions, and what the passes fill in | | after the passes every name has an entry and every expression a type |
| names (`sem_names.c`) | `entry`, `var`, `fn` pointers | `resolve_names` | lexical scoping; a name used is declared |
| types (`sem_types.c`) | `type` of expressions, lets and entries | `resolve_types` | every expression has the type of its parts; inference |
| returns (`sem_returns.c`) | none | `check_returns` | a function that promises a value returns one |
| IR generation (`ir_gen.c`) | registers of entries, instructions | `translate_ast` | the IR computes what the program means, in single-assignment form |
| IR (`ssa.c`, `ssa.h`) | functions, registers, a block of instructions | new register, append, insert, remove, replace, dump | operands exist and fit |
| diagnostics (`error.c`, `gen_diags.py`) | a list, printed at once | `log_*`, `errors_output` | the first diagnostic ends the process |
| driver, options, platforms (`bonc.c`, `args.c`) | options with what was given for them; constant tables | `main`, `parse_args` | wrong words are diagnosed before anything happens; passes run in order; what was asked for is printed, in order and as far as the compiler gets |

How they interact: the parser pulls tokens from the lexer and allocates the AST in a pool; names are
slices of the mapped file.  `resolve_names` makes scopes and entries and stores pointers to entries
in the AST; `resolve_types` reads and writes types *through* those entries; `check_returns` reads the
types of the returned expressions; `translate_ast` stores a pointer to each IR function in the
function's entry, hands out registers on the first use of an entry, and follows both when it
translates uses.  Every diagnostic calls `errors_output`, which exits; `log_internal_err` exits too.

What is hard, without threads or messages: the order of passes and of visits within a pass (a let is
visible in its own value; a call is typed before its callee's body); values read through pointers
that another step has moved or not yet filled in (vector growth, inference, NULL entries); failure in
the middle (a NULL result that is stored, an unset out-parameter, a failing `mprotect`); limits and
boundaries (the pool's last byte, the 33rd function, names that are prefixes of one another).

## Modules

| module | models | |
|---|---|---|
| `MemPool` | `helper.c:85-129` | implements `Arena` |
| `Arena` | abstract: disjoint blocks that never move | |
| `Vectors` | `helper.c:131-199`: several vectors, byte by byte in one pool | EXTENDS `MemPool`, implements `Lists` |
| `Lists` | abstract: sequences that change one at a time | |
| `SymTable` | `symtable.c`: the operators the passes use | EXTENDS `Identifiers` |
| `SymTableScopes` | any order of calls of `symtable.h` | implements `LexicalScopes` |
| `LexicalScopes` | abstract: a tree of environments | |
| `Lexer` | `lexer.c` | implements `TokenReader` |
| `TokenReader` | abstract: the tokens of a text, one after the other | |
| `Identifiers`, `Syntax` | names; the AST as parsed, and `Parsed`, what is well formed | between parser and passes |
| `Parser` | `parser.c` on token sequences | EXTENDS `Syntax`, implements `Grammar` |
| `Grammar` | abstract: phrases by the tokens they span | |
| `Ast` | the AST with what the passes fill in, the walk over it and the loops over functions | EXTENDS `Syntax`, `SymTable` |
| `SemNames`, `SemTypes`, `SemReturns` | the three semantic passes | EXTEND `Ast` |
| `IrGen` | `ir_gen.c` with the parts of `ssa.c` it calls | EXTENDS `Ast` |
| `Compiler` | the passes in main's order; the properties | implements `Bon` |
| `Bon` | abstract: which verdict a program deserves and what its functions mean | |
| `CompilerClaims` | statements of the documents and comments that the code does not keep | |
| `Args` | `args.c`, and `main` around the passes | implements `CommandLine` |
| `CommandLine` | abstract: each word of a command line by itself | |
| `Memory_proofs`, `SymTable_proofs`, `Lexer_proofs`, `Parser_proofs`, `Args_proofs` | theorems about the pool and the vectors, the table, the lexer, the parser, the command line | |
| `Compiler_proofs`, `Verdicts_proofs`, `Meaning_proofs` | theorems about the passes; each rests on the one before | |
| `MCMemPool`, `MCSymTable`, `MCLexer`, `MCParser`, `MCCompiler`, `MCClaims`, `MCArgs` | instances for TLC | |

The modules meet where the code's components do.  `TokenReader` says what the parser gets from the
lexer, which the lexer is shown to implement for any order of calls.  `Parsed` says what the passes
get from the parser: it is the assumption of `Ast` on the programs, and the theorem `AcceptedIsParsed`
about the parser; so do `Separate` and `Unshared`, hypotheses of the theorems about registers, sizes and
annotations, and `AcceptedIsSeparate`.  `Arena` and `Lists` say what the allocator and the vectors are for all others.

### State and actions against the code

* A pointer is a position: a `ScopeEntry *` is an index into `entries`, a `Scope *` one into `scopes`,
  an `Expr *` one into `prog.exprs`; NULL is 0.  Objects live in pools that are never freed before
  the end, so nothing is removed.  The one kind of pointer that C code can leave behind, to an item of
  a vector that grows later, is `<<buffer, index>>`, and `Deref` says what it reads.
* `Scope.up` is written as the list of scopes one meets by following the pointer, which makes
  `scope_find` a search over a sequence.
* `prog` is the parser's output and is constant.  The annotations the passes write into the AST are
  variables of their own (`exprType`, `exprVar`, `stmtVar`, ...).
* The C recursion over expressions is the stack `todo` of calls and continuations, and the loops over
  functions, parameters and statements are `f`, `p` and `s`.  A step is what the code does at one node,
  from one recursive call to the next, so that each state between two nodes can be looked at.
* `phase` is the loop over the functions that is running; `main` calls the passes in this order and
  two of the passes have two loops.
* A text is a sequence of characters and a token a slice of it, with its kind, line and suffix.  A
  loop over characters is the offset where it stops.  `out` and `ret` are the history of the parser's
  calls, which come in any order: `Lexer` knows nothing of the grammar.  `lex.start` equals `lex.end`
  between two calls and is left out.
* In `Parser`, `at` is the place in `parse_ast`, `parse_fn`, `parse_block` or `parse_let` that looks at
  the next token; the recursion of `parse_expr` is the stack `todo` of calls and continuations, with
  `node` for what a call returns.  `pos` counts the calls of `lexer_next`; `lexer_peek` only looks.
  The AST is built from below, so a node is an index into `exprs` and its operands are smaller.
* In `Vectors`, memory is a function from offsets in the pool to bytes, the k-th byte of the item x being
  `<<x, k>>`.  An operation that touches a byte no `mprotect` has opened sets `fault` (`Finish`).
* In `Args` a word is a record of its dashes, name and value, and one word is read per step.  Names are cut into
  pieces where two flags part, so that a prefix of a flag is a prefix of a sequence.  `main` goes on
  from there, with every system call failing at any time.  The passes are one step here, and so is each dump: it
  ends in any of the ways its part of `main` can, among them the crashes that `Compiler` has (`ir_gen.c:28`,
  `sem_returns.c:60`), the failing exits of `mempool_init`, and a crash of `type_dump` in the middle of the
  dump.  `out` is what `printf` was given, diagnostics and the stray line of `ir_gen.c:13` included.
* A diagnostic sets `outcome` and nothing moves after it.  `"segv"` is a read through NULL,
  `"internal_err"` is `log_internal_err`.
* `check_returns` reads variables that were never set: that is a choice between the diagnostic and a
  crash, the only nondeterminism besides the choice of the input and of the outcome of system calls.
* Names are sequences of bytes because `memcmp` over the shorter length is part of what the table
  does; the sum that `hash_str` computes is the parameter `hash_str`, given `byte_sum` in the
  instances, so that the definitions that use it need no recursion.

## Runs

| run | instance | shows |
|---|---|---|
| mempool | 6 chunks of 4 bytes shared by two vectors of 3-byte items and blocks of 7 bytes | the bounds of the pool, accessibility, alignment, that refusals are justified; vectors stay in their blocks, and are `Lists`; `Arena` |
| symtable | 2 buckets, up to 3 scopes and 3 entries, 4 names of which 2 and 2 collide | chains are sound, and the table is indistinguishable from lexical scopes |
| lexer | all texts of up to 4 of 8 characters; the prefixes of 3 longer ones | tokens tile the text, statements on different lines are kept apart, and `TokenReader` |
| parser | all short token sequences as expression, block, parameters and file; one program with every one-token removal, insertion and replacement | exactly the grammar's programs are accepted, with the tree the grammar has; diagnostics point at the first wrong token |
| compiler | one statement of every shape with another function; bodies of up to three statements out of 13, or of expressions before a `return` without a value; functions of all kinds with up to two parameters; 32 functions | verdicts, meaning, sizes, registers, live callees |
| args | all command lines of up to three words out of 21, and of four out of 8 | what is diagnosed, printed and compiled is what the words mean taken each for itself, printed as far as the compiler gets in whichever way it ends; and every command line comes to its end |

`ImplementsBon` is the central property: for each program the compiler gives exactly one verdict,
and `Bon!Verdicts` is defined on the program's text by name, without a symbol table, annotations or
an order of visits.  It includes that the compiler terminates.  `MeaningPreserved` compares the
symbolic evaluation of the emitted instructions with the meaning of the source, again by name:
calls made, their order and arguments, the value returned, with size and signedness.  Register 0, which
a statement without a value reads, is never set, so that what an earlier expression left is not returned.
`SingleAssignment`, `OperandSizes`, `CalleeLive` and `FilledInOnce` are about the intermediate
states and the IR itself.

`ImplementsCommandLine` takes a command line for what its words mean one by one.  A dump that was asked for is
there in full once a later place of `main` is reached, and at most in part when the process crashes in it; a
flag nobody gave adds nothing.  What comes unasked is named: the diagnostic that ends an analysis, and `here`.

Bounds.  The passes treat functions, statements and nodes one at a time, and what one step leaves for
another goes through an entry of the symbol table, the type of a node or a register.  Two functions
give every order of caller and callee; three statements give a declaration, a use that changes
something (infers, gives a register) and a use that sees it; expressions of depth two have a parent
and a child of each kind.  The limit of vectors (32) and the number of buckets (32) are the code's own
in all runs of the compiler.  In the symbol table's run two buckets and four names make every pair of
chain lengths up to three entries, in one scope or along a path.

In the pool's run a request can fit in the current chunk, end at its last byte or one before, and
need one or more new chunks, and the pool can be exhausted in several ways.  Six chunks let a vector double twice
while another one, or a block of someone else, lies behind it.  Items have three bytes so that a full vector
can end one byte before the open memory does, which is where `vector_remove` reads a closed page.

In the parser's run four tokens between fixed ends are enough for an operator with its operands, a
parenthesis or a call with two arguments.  The chains of three operators of all levels show how they
group, and the edits of a long program put every wrong token at every place.  The run compares trees, so `Phrases` of
`Grammar` would show an ambiguity as two trees for one text.  In the run of the command line, four words are two flags with values or
three flags and a file; the words include each way a word can be wrong.

In the lexer's run four characters are enough for a token, what ends it, a line break and the token
behind it, with a token of one or two characters in each place; the longer texts have the keywords,
the suffixes of all lengths and the file's end at each of their characters.  `EofsRead` lets the parser
read the end of the file twice, as `parse_block` makes it do.

Fairness.  `WF_vars(Next)` in `Compiler`, `Parser` and `Args`: the process is one thread that waits for
nothing, so it takes its next step as long as it has one.  The verdict owed for each program and text is part of
`Bon` and `Grammar`; that the process comes to its end on each command line is `Terminates`.  Pool, vectors, symbol
table and lexer only answer calls and have none.  The runs do not check for deadlock since the process ends.

### Where the code and its documents disagree

Each of these runs must fail; the module `CompilerClaims` and the finding in `PROJECT.json` quote the
statement.

| run | statement | program |
|---|---|---|
| many_functions | an entry's `fn` points to its SSA_Fn (`include/symtable.h:14`) | 33 functions |
| prefix_names | `scope_insert` returns NULL if the name is already found (`include/symtable.h:34`) | `x` and `xa_` in a scope |
| repeated_param | the AST is valid after the passes (`internals/ast.md:5`) | `m(x u8, x u8) {}` |
| own_value | each expression gets a type (`internals/ast.md:96`) | `let x = x` |
| literal_overflow | a literal that overflows is diagnosed (`scripts/diag_table.txt:9`) | `256u8` and the like |
| bare_return | `first_wrong_stmt` is set (`sem_returns.c:10`) | `return;` in a `u8` function |

Three more disagreements have no run.  `TokenReader` gives `!=` the kind `TOK_NOT`, which
`include/lexer.h:23-24` lists under "unary ops", and `!` the kind `TOK_NEQ`, the binary operator the parser
expects: the two are swapped at `lexer.c:265`, and `x != y` does not parse.  The other two are part of
`Bon`: only the first return of a function is
checked, although the type pass should "ensure that assignments and returns are sound type wise"
(`internals/ast.md:96`), and comparisons, which `docs/language.md:52` lists, are accepted by the passes
and end in an internal error.  `Bon!Verdicts` has all these as they are in the code, so that the passing runs show that there are no
others within their bounds.

What else was met while modelling and is in the models as it is: a short flag followed by any word is an error, so that
the file cannot follow one although `--help` prints `[OPTION]... [FILE]`; a `--platform` that is not known is ignored;
`--` and `--dump-` stand for the first long option they abbreviate; `parse_block` takes any token for its
`{`; `vector_remove` moves one item more than there are (`helper.c:169`), which reads past the end of a full
vector; `type_sz` prints the line `here` for every 16-bit size, whatever the flags (`ir_gen.c:13`); the dump of the
AST reads through the NULL type of `let x = x` and past the end of `type_to_str` for a let of a function type
(`ast.c:72`); a failed `mprotect` goes unnoticed until something touches the memory (`helper.c:123`), which
`BlocksAccessible` does not forbid: it counts such ranges as opened; and a `return` without a value goes on with
the next line, since `needs_newline` does not list it (`lexer.c:69`), a rule `TokenReader` has as the code has it.

## Proofs

Everything here is proved for every value of the constants that the named assumptions allow.

`Memory_proofs` first proves the pool's properties for every chunk size of at least two bytes, every pool
size and every set of requests.  The inductive invariant strengthens "every byte of a block was
opened" to "every byte below `pool->alloc` was", since blocks are cut from there, and the bound on
waste to hold before a refusal.  `PoolIsArena` maps `size` to the place of the next block.
Then it shows that the vectors take only steps of the pool (`VectorsUsePool`), which
makes the pool's theorems available, and from its invariant, `VInv`, that a vector's room is a block of
its own.  The products of sizes in `vector_resize` are left to small lemmas about
multiplication.  From it follow `VectorsStayApart`, `OverrunsOnlyInRemove` and the refinement
`VectorsAreLists`: the slots of two vectors never meet, so that a write into one leaves the items of all
others as they are, memory no block was handed out of was never written (`MemFresh`), and each operation comes to
copies of bytes within one block or from an old block to a fresh one.

`SymTable_proofs` proves that chains are sound (`TableInv`: an entry hangs in exactly one scope, in the
chain of its bucket, newest first), and then `TableIsScopes`, the refinement itself: `scope_insert`
and `scope_find` are those of a tree of environments.  It needs `NamesApart`, that `memcmp` over the
shorter length tells the names of one bucket apart; the run `prefix_names` is what happens without it.
A chain holds each name once (`ScopesInv`), so that the chain is the map the abstract scope
has, and `FindLooksUp` takes the search over scopes to the innermost declaration.

`Lexer_proofs` proves, for every text and every division of the characters into letters, digits and
others, that the tokens tile the text (`TokensTile`) and that the cursor stays in it.  The invariant is
about the tokens read and the one looked ahead together (`Fetched`), since only they are a tiling at
every moment.  `PastStops` and `SkipStops` say where the loops over characters stop, and one lemma for
each kind of token that it continues the tiling.  `NewlinesSeparate` rests on what `lexer_next` keeps of
the token before (`LastKept`).  `ReadsTokens` is the refinement: `LexemeBegins` says by the first character
which lexemes can begin at a place and how far they can go, so that what `make_int`, `make_symbol` and the
switch over characters make there is the longest (`MadeLongest`); `lex.line` counts the newlines before the
cursor (`LineCounts`); and the token looked ahead stays the one that comes next until it is read (`RInv`).
`LexerAssumption` says what the proofs need of the characters: letters, digits, blanks, `_` and the
punctuation differ, and keywords are spelled with letters and digits.

`Parser_proofs` proves, for every set of token sequences, that the parser keeps its invariant `IInv`,
that what it accepts is `Parsed` (`AcceptedIsParsed`) and that the end of the file is read at most
twice (`StopsAtEof`).  `IInv` says what the stack of continuations may hold and which nodes it may name
(`TodoOK`), and what the last function and statement may still lack at each place (`FnsOK`).
`AcceptedIsParsed` discharges `ProgramsAssumption` of `Ast` for programs that come from the parser.
`OneHome` says that each node made so far is in one place: an operand, the value of a statement, what a
call just returned, or in the stack, and there once.  From it follow `EachNodeOwned` and
`AcceptedIsSeparate`, which gives the hypotheses of the theorems below.

`Compiler_proofs` proves, for every set of programs `parse_ast` can build (`Parsed`), every set of
names, every hash and every number of buckets, that the passes stay within `IInv`.  `TypeOK`
alone is not inductive.  `IInv` adds `WalkOK`, which says where the recursion over an expression is:
pending calls are on nodes of the program, they belong to a statement of the current function, and a
call whose arguments are being typed has a callee whose type is a function type, so that
`type.ret` can be read when they are done.  It also adds `LoopsOK`, the length of each list that later
loops index: `paramEntry[g]` has one entry per parameter once name resolution is past `g`, and
`prog->fns` one item per function once translation begins.  The proof has one lemma per action.  Those
on the symbol table (`FindIn`, `ScopeFind`, `ScopeInsert`) rest on `LeastNat`, that a `CHOOSE` of
the first hit finds one; those on the walk on `ContinueOK`, that pending calls stay right when a call
is replaced by the calls it leads to.  The assumptions are the named ones of `SymTable`, `Ast` and `IrGen`.

It then proves `CalleeLive` for every program of at most `VEC_INIT_ALLOC` functions, which is
the exact bound: `many_functions` refutes it for one more.  The invariant, `Live`, says that `prog->fns`
is in its first buffer, that every `info.fn` of an entry and every `callfn.fn` points into that buffer,
and that the functions translated so far have their names.  The passes before translation are shown
not to touch any of it (`Quiet`), so that one argument covers all their actions.

It goes on to `SingleAssignment`, for every program whose functions share no node
(`Separate`): a node translated for two functions
would carry a register of one of them into the other.  The invariant, `Tracked`, gives each entry a
function and a slot (the function itself, a parameter or a let) and says that entries are where they
belong (`Placed`), that the chains a name is searched in, and the names already bound, lead to a
function or to entries of the function at hand (`ChainsOwned`, `Bound`), and that the entry of a
function has a type without a size and never gets a register (`FnsTyped`).  During translation it adds
that two entries of a function have two registers (`Registers`, `Fit`), and that nothing has set the
register of a parameter or let not yet reached (`Waiting`), even when a use of it came first.

Last comes `OperandSizes`, for the same programs.  An instruction takes
its size from the type of one node and its operands' from that of others, so the first half is about the
type pass: `TypeInv` says of each node already typed that its type is that of its operands, its entry or its
callee's `ret`, and of each call and let passed that what was compared was equal; and no later step changes
any of these types.  The second half, `SizeInv`, follows the registers: that of an entry or of a node has the
size of its type from the step that makes it on.

`Verdicts_proofs` begins with `FilledInOnce`, for the same programs.  It rests on what was just said of the types,
and on the walk over the names never coming to a node twice, for which no node may be in two places (`Unshared`):
what is still pending (`Open`) is not bound yet (`Unbound`).  That a let keeps its type is `NextLetTypes`: only `Infer`
writes one, and only where there is none.

The rest of it proves the safety of `ImplementsBon` (`VerdictsDeserved`): on every program of the same
kind, with any hash and any number of buckets, the process keeps the program and ends at most once, with a
verdict that `Bon!Verdicts` has for the program.  On the programs it ends with at all it therefore keeps the
whole of `ImplementsBon` (`BonImplemented`); that it ends is left to TLC.  Like `TableIsScopes` it
needs `NamesApart`.  `Bon` goes by name and by recursion over the text, the passes by pointers and
annotations in the order of the walk, and `VerdictInv` relates the two, one part per pass:

* `NamesInv`: the global scope holds exactly the functions declared so far and the current scope exactly the
  parameters and lets so far (`InScopes`), none of them twice (`NoRepeats`); so a lookup finds what
  `Bon!Binding` binds the name to (`LookupFound`, `LookupNone`), and each name whose node is done
  is connected to the entry of that declaration (`AllResolved`).
* `TypesInv`: the type a node, a let or an entry was given is that of `Bon!TypeIn` (`NodeRight`, `LetRight`),
  the values of the statements passed are typed (`RootRight`), and whatever a pending task needs is done
  or comes before it in `todo` (`FirstDone`).
* `ReturnsInv`: the functions checked so far have no return defect.
* `IrInv`: every function has its `SSA_Fn` when it is called (`FnsAlloced`), and what was translated has a
  type with a size (`ParamsSized`, `NodesSized`).

Each pass then has two lemmas: a step that stops the process does so at a defect of that kind (`NamesStep`,
`TypesStep`, `ReturnsStep`, `TranslateRight`), and when the pass is over there is none left (`NamesRight`,
`TypesRight`, `ReturnsRight`, `IrRight`).  `StageDecides` puts them in the order of `Bon!Verdicts`.  The
definitions of `Bon` are recursive functions; what they compute is proved by induction in the form of a
least counterexample (`NatStrong` from `LeastNat`): nodes are numbered above their operands
(`NodesAre`), and the pair of a statement and a node, by which `TypeIn` recurs, comes after the pairs it
reads (`AllTyped`, `TypeDef`).  That there is such a function at all is part of it.

`Meaning_proofs` proves `MeaningPreserved` (`MeaningsKept`) for the programs of `VerdictsDeserved` with at
most `VEC_INIT_ALLOC` functions, where a call can be followed (`CalleeLive`): the IR of an accepted program
makes the calls its text makes, with the same arguments in the same order, and returns the same value.
`MeaningInv` says it of the functions translated so far, and for the current one relates the machine
of `Run` (here `Machine`, which goes by the callees' names) to the statements passed (`BodyInv`).  Until a
return was translated:

* the registers of parameters, and of the lets passed, hold what `Bon!TermIn` gives them (`ParamsKnown`,
  `LetsKnown`), and so do the `result`s of the nodes that a pending task reads and no task before it makes
  (`Known`, `ComeFirst`);
* the calls made and those still in `todo` are together the calls of the text up to the statement
  (`CallsRight`), so a walk that is cut into tasks keeps their order;
* every register with a value was set by a parameter or an instruction (`MachineGood`), so that the
  register of a let that was not reached holds none, even when a use of it came first (`NotSetYet`).  That the next
  instruction overwrites nothing is `Single` and `Fit` of `SingleAssignment` again.

After it the machine no longer moves (`ExecAfter`), and what it did is what the function means, whatever
unreachable code follows (`ReturnedOn`).  Each action of a body has a lemma (`StmtBody` to `ReturnEnds`).  They
rest on the recursive functions of both sides: `Run` after one more instruction (`MachineNext`), `TermIn` and
`CallsIn` of a node from its operands' (`TermDef`, `CallsDef`), and `FlattenSeq` of appended lists
(`FlatMore`, `FlatCat`).  That the types and entries the instructions are made from are those `Bon` goes by is
`VerdictInv`.

`Args_proofs` proves, for every command line of any length, that the process ends only with what its words
mean taken each for itself.  `ArgsInv` says that what `parse_args` has filled in is what the words read so
far say, that none of them was wrong, and at each later place of `main` what it has found out and printed by then
(`Printed`, `PrintedFirst`); a place that ends the process, in whichever way, does so with an `Ending` of
`CommandLine` (`PlaceEnds`).

Only model-checked: liveness (`Terminates`, that every program and text gets a verdict, and so the last
conjunct of `ImplementsBon`), which needs ENABLED and which the provers cannot do; and `ImplementsGrammar` and
`DiagnosticsTrue`, which speak of the derivations of a recursive grammar.  The library's induction theorems
cannot be instantiated by the provers, so each recursive definition costs a construction like those of
`TypeIn` and `TermIn` above, which was not made for the grammar.

## Not modelled

What the dumps print (that they print, in which order and with which crash, is in `Args`), the texts of diagnostics
and their generator change no state that another step reads; `mut` and source
positions are written by the parser and read by no pass.  Of `ssa.c`, `bblock_insert_inst`, `bblock_remove_inst` and
`bblock_replace_reg` have no caller, and of `args.c`, `parse_long` and the branch for `ARG_REQUIRED` serve
kinds of options `main` does not have.  `parse_ast` calls `ast_init` twice in
a row, which leaves one pool mapped until the process ends.  The platform tables are constant data that no pass
reads.  `munmap` of the file runs when everything is over.  Sizes and counters of C type `size_t` are
natural numbers: they count objects in a pool far smaller than 2^64.

## Plan

Done: `MemPool` and `Vectors`, `SymTable`, `Lexer`, `Parser`, the passes, `IrGen`, `Args`, each against
its abstract specification; the theorems above.

Left: the editing functions of `ssa.c` once something calls them; a proof of `ImplementsGrammar` and
`DiagnosticsTrue` from the invariant of the parser.
