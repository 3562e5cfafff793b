------------------------------ MODULE Parser ------------------------------
(***************************************************************************)
(* The recursive descent of parser.c.  It takes tokens as TokenReader.tla  *)
(* gives them: lexer_next is the next one, lexer_peek only shows it, and   *)
(* TOK_EOF comes for ever behind the last.                                 *)
(*                                                                         *)
(* at is the place in parse_ast, parse_fn, parse_block or parse_let where  *)
(* the next token is looked at.  The recursion of parse_expr is the stack  *)
(* todo of calls and continuations; what a call returns is node.           *)
(***************************************************************************)
EXTENDS Syntax, SequencesExt

CONSTANT Texts  \* the token sequences of the files, without the TOK_EOF behind them

(* A token is a record [t, name, digits, type]: its kind, a TOK_SYM's name, *)
(* a TOK_INT's digits and the type its suffix stands for.  Where the lexer  *)
(* would give a diagnostic instead of a token, the text has "unlexable".    *)
Token(t) == [t |-> t, name |-> << >>, digits |-> << >>, type |-> NoType]
EOF == Token("TOK_EOF")

TextOK(w) ==
  /\ w \in Seq([t : STRING, name : Names \cup {<< >>}, digits : Seq(0 .. 9),
                type : Builtins \cup {NoType}])
  /\ \A i \in 1 .. Len(w) :
       /\ w[i].t = "TOK_SYM" => w[i].name \in Names
       /\ w[i].t = "TOK_INT" => w[i].digits # << >> /\ w[i].type \in {Type(t) : t \in IntTypes}

ASSUME TextsAssumption == \A w \in Texts : TextOK(w)

VARIABLES
  text,     \* the tokens of the file
  pos,      \* how many of them lexer_next has returned
  at, todo, node,
  fns,      \* ret.fns
  exprs,    \* every Expr made, in order
  outcome   \* "running", "ok", or the diagnostic the process ended with

vars == <<text, pos, at, todo, node, fns, exprs, outcome>>

prog == [fns |-> fns, exprs |-> exprs]

Coming == IF pos < Len(text) THEN text[pos + 1] ELSE EOF
Next_is(t) == Coming.t = t

lexer_next == pos' = pos + 1 /\ UNCHANGED <<text, outcome>>
lexer_peek == UNCHANGED <<text, pos, outcome>>

(* errors_log prints the diagnostic and exits.                             *)
Fail(diagnostic) ==
  outcome' = diagnostic /\ UNCHANGED <<text, pos, at, todo, node, fns, exprs>>

Running == outcome = "running" /\ ~Next_is("unlexable")
At(place) == Running /\ todo = << >> /\ at = place
LexerFails == outcome = "running" /\ Next_is("unlexable") /\ Fail("unexpected_char")

-----------------------------------------------------------------------------
(* Expressions.  A level is a binary parse function: 1 is parse_factor,    *)
(* 2 parse_term, 3 parse_comp.  Each calls the one below it, then loops    *)
(* over its own operators.                                                 *)
Operators ==
  << [TOK_MUL |-> "*", TOK_DIV |-> "/"],
     [TOK_ADD |-> "+", TOK_SUB |-> "-"],
     [TOK_DEQ |-> "==", TOK_NEQ |-> "!=", TOK_GR |-> ">", TOK_LE |-> "<",
      TOK_GREQ |-> ">=", TOK_LEEQ |-> "<="] >>

Task(k, level, op, name, args) == [k |-> k, level |-> level, op |-> op, name |-> name, args |-> args]
Primary == Task("primary", 0, NoOp, << >>, << >>)
Loop(level) == Task("loop", level, NoOp, << >>, << >>)
Right(level, op, left) == Task("right", level, op, << >>, <<left>>)
Name(name) == Task("name", 0, NoOp, name, << >>)
Arguments(name, args) == Task("args", 0, NoOp, name, args)
Argument(name, args) == Task("arg", 0, NoOp, name, args)
Close == Task("close", 0, NoOp, << >>, << >>)

(* The calls from a level down to parse_primary.                           *)
Descend(level) == <<Primary>> \o [l \in 1 .. level |-> Loop(l)]
parse_expr == Descend(3)

(* The innermost call or continuation, and those that take its place.      *)
Doing(k) == Running /\ todo # << >> /\ Head(todo).k = k
Task1 == Head(todo)
Continue(tasks) == todo' = tasks \o Tail(todo) /\ UNCHANGED <<at, fns>>
Call(tasks) == Continue(tasks) /\ UNCHANGED <<node, exprs>>

(* Mutant: the node returned is the one made before.                       *)
make_expr_previous(t, name, op, type, val, args) ==
  /\ exprs' = Append(exprs, [t |-> t, name |-> name, op |-> op, type |-> type,
                             val |-> val, args |-> args])
  /\ node' = Len(exprs)

make_expr(t, name, op, type, val, args) ==
  /\ exprs' = Append(exprs, [t |-> t, name |-> name, op |-> op, type |-> type,
                             val |-> val, args |-> args])
  /\ node' = Len(exprs) + 1

(* The digits are added up to the first addition that does NOT overflow,   *)
(* to a value that is zero, as all memory is that no one has written.      *)
pos_to_num(digits) == Head(digits)

make_intlit_expr(tok) == make_expr("int", << >>, NoOp, tok.type, pos_to_num(tok.digits), << >>)

parse_primary ==
  /\ Doing("primary")
  /\ \/ Next_is("TOK_INT") /\ lexer_next /\ make_intlit_expr(Coming) /\ Continue(<< >>)
     \/ Next_is("TOK_SYM") /\ lexer_next /\ Call(<<Name(Coming.name)>>)
     \/ Next_is("TOK_LPAREN") /\ lexer_next /\ Call(parse_expr \o <<Close>>)
     \/ Coming.t \notin {"TOK_INT", "TOK_SYM", "TOK_LPAREN"} /\ Fail("expected_expression")

(* A name was read: of a variable, or of a function if a '(' follows.      *)
parse_name ==
  /\ Doing("name")
  /\ \/ Next_is("TOK_LPAREN") /\ lexer_next /\ Call(<<Arguments(Task1.name, << >>)>>)
     \/ /\ ~Next_is("TOK_LPAREN") /\ lexer_peek
        /\ make_expr("var", Task1.name, NoOp, NoType, 0, << >>) /\ Continue(<< >>)

(* Mutant: another diagnostic.                                             *)
ParenClosed_misnamed ==
  /\ Doing("close")
  /\ IF Next_is("TOK_RPAREN") THEN lexer_next /\ Call(<< >>) ELSE Fail("expected_expression")

ParenClosed ==
  /\ Doing("close")
  /\ IF Next_is("TOK_RPAREN") THEN lexer_next /\ Call(<< >>) ELSE Fail("expected_closing_paren")

EndCall(args) ==
  IF Next_is("TOK_RPAREN")
  THEN lexer_next /\ make_expr("funcall", Task1.name, NoOp, NoType, 0, args) /\ Continue(<< >>)
  ELSE Fail("expected_closing_paren")

(* Mutant: the last argument is lost.                                      *)
parse_funcall_drops ==
  \/ /\ Doing("args") /\ ~Next_is("TOK_RPAREN")
     /\ lexer_peek /\ Call(parse_expr \o <<Argument(Task1.name, Task1.args)>>)
  \/ Doing("args") /\ Next_is("TOK_RPAREN") /\ EndCall(Task1.args)
  \/ /\ Doing("arg") /\ Next_is("TOK_COMMA")
     /\ lexer_next /\ Call(<<Arguments(Task1.name, Append(Task1.args, node))>>)
  \/ Doing("arg") /\ ~Next_is("TOK_COMMA") /\ EndCall(Task1.args)

(* The head of parse_funcall's loop, and its rest behind each argument.    *)
parse_funcall ==
  \/ /\ Doing("args") /\ ~Next_is("TOK_RPAREN")
     /\ lexer_peek /\ Call(parse_expr \o <<Argument(Task1.name, Task1.args)>>)
  \/ Doing("args") /\ Next_is("TOK_RPAREN") /\ EndCall(Task1.args)
  \/ /\ Doing("arg") /\ Next_is("TOK_COMMA")
     /\ lexer_next /\ Call(<<Arguments(Task1.name, Append(Task1.args, node))>>)
  \/ Doing("arg") /\ ~Next_is("TOK_COMMA") /\ EndCall(Append(Task1.args, node))

(* Mutant: the right operand takes the operators of its own level.         *)
parse_binop_rightwards ==
  /\ Doing("loop") /\ Coming.t \in DOMAIN Operators[Task1.level]
  /\ lexer_next
  /\ Call(Descend(Task1.level)
          \o <<Right(Task1.level, Operators[Task1.level][Coming.t], node)>>)

(* The loop of a binary level, with its left operand in node, and the      *)
(* expression made of both once the right one is there.                    *)
parse_binop ==
  /\ Doing("loop") /\ Coming.t \in DOMAIN Operators[Task1.level]
  /\ lexer_next
  /\ Call(Descend(Task1.level - 1)
          \o <<Right(Task1.level, Operators[Task1.level][Coming.t], node)>>)

EndLoop ==
  /\ Doing("loop") /\ Coming.t \notin DOMAIN Operators[Task1.level]
  /\ lexer_peek /\ Call(<< >>)

MakeBinop ==
  /\ Doing("right") /\ lexer_peek
  /\ make_expr("binop", << >>, Task1.op, NoType, 0, Append(Task1.args, node))
  /\ Continue(<<Loop(Task1.level)>>)

parse_expr_Next ==
  parse_primary \/ parse_name \/ ParenClosed \/ parse_funcall \/ parse_binop \/ EndLoop \/ MakeBinop

-----------------------------------------------------------------------------
(* Functions and statements; the last ones are those being parsed.         *)
Written_as ==
  [TOK_U8 |-> "u8", TOK_U16 |-> "u16", TOK_U32 |-> "u32", TOK_U64 |-> "u64",
   TOK_I8 |-> "i8", TOK_I16 |-> "i16", TOK_I32 |-> "i32", TOK_I64 |-> "i64",
   TOK_BOOL |-> "bool"]
IsType == Coming.t \in DOMAIN Written_as
parse_type == Type(Written_as[Coming.t])

f == Len(fns)
p == Len(fns[f].params)
s == Len(fns[f].stmts)
NewStmt(t) == fns' = [fns EXCEPT ![f].stmts =
  Append(@, [t |-> t, name |-> << >>, type |-> NoType, value |-> NULL])]

Go(place) == at' = place /\ UNCHANGED <<todo, node, exprs>>
GoParse == at' = "newline" /\ todo' = parse_expr /\ UNCHANGED <<node, exprs>>

parse_ast ==
  /\ At("fns")
  /\ \/ Next_is("TOK_EOF") /\ outcome' = "ok"
        /\ UNCHANGED <<text, pos, at, todo, node, fns, exprs>>
     \/ /\ ~Next_is("TOK_EOF") /\ lexer_peek /\ Go("name")
        /\ fns' = Append(fns, [name |-> << >>, params |-> << >>, ret |-> Type("void"), stmts |-> << >>])

FnName ==
  /\ At("name")
  /\ IF Next_is("TOK_SYM")
     THEN lexer_next /\ Go("lparen") /\ fns' = [fns EXCEPT ![f].name = Coming.name]
     ELSE Fail("expected_name")

FnOpens ==
  /\ At("lparen")
  /\ IF Next_is("TOK_LPAREN") THEN lexer_next /\ Go("params") /\ UNCHANGED fns
     ELSE Fail("expected_opening_paren")

ParamName ==
  /\ At("params")
  /\ \/ Next_is("TOK_RPAREN") /\ lexer_next /\ Go("ret") /\ UNCHANGED fns
     \/ /\ Next_is("TOK_SYM") /\ lexer_next /\ Go("param_type")
        /\ fns' = [fns EXCEPT ![f].params = Append(@, [name |-> Coming.name, type |-> NoType])]
     \/ Coming.t \notin {"TOK_RPAREN", "TOK_SYM"} /\ Fail("expected_name")

ParamType ==
  /\ At("param_type")
  /\ IF IsType
     THEN lexer_next /\ Go("comma") /\ fns' = [fns EXCEPT ![f].params[p].type = parse_type]
     ELSE Fail("expected_type")

ParamComma ==
  /\ At("comma")
  /\ (IF Next_is("TOK_COMMA") THEN lexer_next ELSE lexer_peek) /\ Go("params") /\ UNCHANGED fns

RetType ==
  /\ At("ret")
  /\ \/ Next_is("TOK_LCURLY") /\ lexer_peek /\ Go("block") /\ UNCHANGED fns
     \/ ~Next_is("TOK_LCURLY") /\ IsType /\ lexer_next /\ Go("block")
        /\ fns' = [fns EXCEPT ![f].ret = parse_type]
     \/ ~Next_is("TOK_LCURLY") /\ ~IsType /\ Fail("expected_type")

(* Whatever the token is.                                                  *)
BlockOpens == At("block") /\ lexer_next /\ Go("stmt") /\ UNCHANGED fns

(* Mutant: a block may end with the file.                                  *)
parse_block_to_eof ==
  /\ At("stmt")
  /\ \/ Coming.t \in {"TOK_LET", "TOK_MUT"} /\ lexer_next /\ Go("let_name") /\ NewStmt("let")
     \/ Next_is("TOK_RETURN") /\ lexer_next /\ Go("return") /\ NewStmt("return")
     \/ Coming.t \in {"TOK_RCURLY", "TOK_EOF"} /\ lexer_next /\ Go("fns") /\ UNCHANGED fns
     \/ /\ Coming.t \notin {"TOK_LET", "TOK_MUT", "TOK_RETURN", "TOK_RCURLY", "TOK_EOF"}
        /\ lexer_peek /\ GoParse /\ NewStmt("expr")

parse_block ==
  /\ At("stmt")
  /\ \/ Coming.t \in {"TOK_LET", "TOK_MUT"} /\ lexer_next /\ Go("let_name") /\ NewStmt("let")
     \/ Next_is("TOK_RETURN") /\ lexer_next /\ Go("return") /\ NewStmt("return")
     \/ Next_is("TOK_RCURLY") /\ lexer_next /\ Go("fns") /\ UNCHANGED fns
     \/ /\ Coming.t \notin {"TOK_LET", "TOK_MUT", "TOK_RETURN", "TOK_RCURLY"}
        /\ lexer_peek /\ GoParse /\ NewStmt("expr")

LetName ==
  /\ At("let_name")
  /\ IF Next_is("TOK_SYM")
     THEN lexer_next /\ Go("let_middle") /\ fns' = [fns EXCEPT ![f].stmts[s].name = Coming.name]
     ELSE Fail("expected_name")

LetMiddle ==
  /\ At("let_middle")
  /\ \/ Next_is("TOK_EQ") /\ lexer_next /\ GoParse /\ UNCHANGED fns
     \/ Next_is("TOK_COLON") /\ lexer_next /\ Go("let_type") /\ UNCHANGED fns
     \/ Coming.t \notin {"TOK_EQ", "TOK_COLON"} /\ Fail("expected_equals")

LetType ==
  /\ At("let_type")
  /\ IF IsType
     THEN lexer_next /\ Go("let_equal") /\ fns' = [fns EXCEPT ![f].stmts[s].type = parse_type]
     ELSE Fail("expected_type")

LetEqual ==
  /\ At("let_equal")
  /\ \/ Next_is("TOK_EQ") /\ lexer_next /\ GoParse /\ UNCHANGED fns
     \/ Next_is("TOK_NEWLINE") /\ lexer_next /\ Go("stmt") /\ UNCHANGED fns
     \/ Coming.t \notin {"TOK_EQ", "TOK_NEWLINE"} /\ Fail("expected_equals")

parse_return ==
  /\ At("return")
  /\ \/ Next_is("TOK_NEWLINE") /\ lexer_next /\ Go("stmt") /\ UNCHANGED fns
     \/ ~Next_is("TOK_NEWLINE") /\ lexer_peek /\ GoParse /\ UNCHANGED fns

(* Mutant: the value is not stored.                                        *)
EndStmt_unset ==
  /\ At("newline")
  /\ IF Next_is("TOK_NEWLINE") THEN lexer_next /\ Go("stmt") /\ UNCHANGED fns
     ELSE Fail("expected_newline")

(* parse_expr has returned to parse_let, parse_return or parse_expr_stmt.  *)
EndStmt ==
  /\ At("newline")
  /\ IF Next_is("TOK_NEWLINE")
     THEN lexer_next /\ Go("stmt") /\ fns' = [fns EXCEPT ![f].stmts[s].value = node]
     ELSE Fail("expected_newline")

-----------------------------------------------------------------------------
Init ==
  /\ text \in Texts
  /\ pos = 0 /\ at = "fns" /\ todo = << >> /\ node = NULL
  /\ fns = << >> /\ exprs = << >> /\ outcome = "running"

parse_fn_Next == FnName \/ FnOpens \/ ParamName \/ ParamType \/ ParamComma \/ RetType
parse_block_Next ==
  BlockOpens \/ parse_block \/ LetName \/ LetMiddle \/ LetType \/ LetEqual \/ parse_return \/ EndStmt

Next == parse_ast \/ parse_fn_Next \/ parse_block_Next \/ parse_expr_Next \/ LexerFails

(* The parser waits for nothing: it takes its next step.                   *)
Spec == Init /\ [][Next]_vars /\ WF_vars(Next)
-----------------------------------------------------------------------------
(* What is built at any time, which makes AcceptsParsed inductive.         *)
InLet == {"let_middle", "let_type", "let_equal"}
InStmt == InLet \cup {"let_name", "return", "newline"}
Places == InStmt \cup {"fns", "name", "lparen", "params", "param_type", "comma", "ret", "block", "stmt"}

ExprsOK == exprs \in Seq(Exprs) /\ \A n \in 1 .. Len(exprs) : ParsedExpr(exprs[n], n)

(* A pending call has the operands it needs.  Only the innermost may be    *)
(* one that was not called yet, the others wait for a node.                *)
Waiting == {"loop", "right", "arg", "close"}
Tasks == [k : Waiting \cup {"primary", "name", "args"}, level : 0 .. 3, op : OpNames,
          name : Names \cup {<< >>}, args : Seq(Nat)]
TaskOK(t, nodes) ==
  /\ t.k \in {"loop", "right"} => t.level # 0
  /\ t.k = "right" => t.op \in BinopKinds /\ Len(t.args) = 1
  /\ t.k \in {"name", "args", "arg"} => t.name \in Names
  /\ \A j \in 1 .. Len(t.args) : t.args[j] \in 1 .. nodes
TasksOK(tasks, nodes) ==
  /\ tasks \in Seq(Tasks)
  /\ \A i \in 1 .. Len(tasks) : TaskOK(tasks[i], nodes) /\ (i > 1 => tasks[i].k \in Waiting)
TodoOK ==
  /\ TasksOK(todo, Len(exprs)) /\ node \in 0 .. Len(exprs)
  /\ todo # << >> => at = "newline"
  /\ at = "newline" /\ (todo = << >> \/ todo[1].k \in Waiting) => node # NULL

(* The last parameter and the last statement of the function being parsed  *)
(* may lack what is read next.                                             *)
OpenFns ==
  [name : Names \cup {<< >>}, params : Seq([name : Names, type : Written \cup {NoType}]),
   ret : Builtins, stmts : Seq(Stmts(Nat))]
Typed(fn, n) == \A i \in 1 .. n : fn.params[i].type # NoType
Done(fn, n) == \A i \in 1 .. n : ParsedStmt(fn.stmts[i])

FnDone(fn) == fn.name \in Names /\ Typed(fn, Len(fn.params)) /\ Done(fn, Len(fn.stmts))

OpenStmtOK(st, place) ==
  /\ place \in InLet \cup {"let_name"} => st.t = "let"
  /\ place \in InLet \/ (place = "newline" /\ st.t = "let") => st.name \in Names
  /\ place = "let_equal" => st.type # NoType
  /\ place = "return" => st.t = "return"
OpenFnOK(fn, place) ==
  /\ place # "name" => fn.name \in Names
  /\ IF place = "param_type" THEN fn.params # << >> /\ Typed(fn, Len(fn.params) - 1)
     ELSE Typed(fn, Len(fn.params))
  /\ IF place \in InStmt
     THEN /\ fn.stmts # << >> /\ Done(fn, Len(fn.stmts) - 1)
          /\ OpenStmtOK(fn.stmts[Len(fn.stmts)], place)
     ELSE Done(fn, Len(fn.stmts))

Values(fn, nodes) == \A i \in 1 .. Len(fn.stmts) : fn.stmts[i].value \in 0 .. nodes
FnOK(fn, place) == IF place = "fns" THEN FnDone(fn) ELSE OpenFnOK(fn, place)
FnsOK ==
  /\ fns \in Seq(OpenFns)
  /\ \A g \in 1 .. Len(fns) : Values(fns[g], Len(exprs)) /\ (g < Len(fns) => FnDone(fns[g]))
  /\ fns # << >> => FnOK(fns[Len(fns)], at)
  /\ at # "fns" => fns # << >>

(* The end of the file is read only as a block's '{', and then it is the   *)
(* primary expression of the first statement.                              *)
EofOK ==
  /\ pos <= Len(text) + 1
  /\ pos = Len(text) + 1 =>
       (at = "stmt" /\ todo = << >>) \/ (at = "newline" /\ todo = parse_expr)

Outcomes ==
  {"running", "ok", "unexpected_char", "expected_closing_paren", "expected_opening_paren",
   "expected_expression", "expected_type", "expected_name", "expected_newline", "expected_equals"}

IInv ==
  /\ TextOK(text) /\ pos \in Nat /\ at \in Places /\ outcome \in Outcomes
  /\ outcome = "ok" => at = "fns"
  /\ ExprsOK /\ TodoOK /\ FnsOK /\ EofOK

-----------------------------------------------------------------------------
(* The trees of the program built so far.                                  *)
Trees ==
  LET tree[n \in DOMAIN exprs] ==
        LET e == exprs[n] IN
        [t |-> e.t, name |-> IF e.t = "int" THEN <<e.val>> ELSE e.name,
         op |-> IF e.t = "int" THEN e.type.t ELSE e.op,
         parts |-> [k \in DOMAIN e.args |-> tree[e.args[k]]]]
      stmt(st) == [st EXCEPT !.value = IF @ = NULL THEN << >> ELSE <<tree[@]>>]
  IN  [g \in DOMAIN fns |->
         [fns[g] EXCEPT !.stmts = [i \in DOMAIN @ |-> stmt(@[i])]]]

(* Every text gets a verdict, and the right one: it is accepted exactly    *)
(* if it is a program of the grammar, with the only tree the grammar has   *)
(* for it: precedence, grouping, arguments and statements in their order.  *)
G == INSTANCE Grammar WITH tree <- IF outcome = "ok" THEN Trees ELSE << >>
ImplementsGrammar == G!Spec

(* What the semantic passes take for granted (ProgramsAssumption of Ast):  *)
(* operands are there and older than the node that has them, names are     *)
(* names, no statement lacks what its kind needs.                          *)
AcceptsParsed == outcome = "ok" => Parsed(prog)

(* No expression belongs to two others or two statements, and none made on *)
(* the way is lost: the passes annotate each node once, for its one place. *)
NodesOwned ==
  LET asOperand(n) == UNION {{<<m, k>> : k \in {k \in DOMAIN exprs[m].args : exprs[m].args[k] = n}} :
                               m \in DOMAIN exprs}
      asValue(n) == UNION {{<<g, i>> : i \in {i \in DOMAIN fns[g].stmts : fns[g].stmts[i].value = n}} :
                             g \in DOMAIN fns}
  IN  outcome = "ok" =>
        \A n \in DOMAIN exprs : Cardinality(asOperand(n)) + Cardinality(asValue(n)) = 1

(* The parser reads the end of the file at most twice, the second time to  *)
(* give a diagnostic: what the lexer is asked for is bounded, and a loop   *)
(* that waits for a token that never comes ends there.                     *)
EofConsumedOnce == pos <= Len(text) + 1

(* A diagnostic is about the first token that is wrong, and names one that *)
(* would not be: what precedes it, that token and what is still missing    *)
(* then make a program.  The exception is the end of a file that was taken  *)
(* for a block's '{'.                                                      *)
Name_ == [Token("TOK_SYM") EXCEPT !.name = CHOOSE name \in Names : TRUE]
Wanted ==
  [expected_name |-> Name_, expected_expression |-> Name_,
   expected_opening_paren |-> Token("TOK_LPAREN"), expected_closing_paren |-> Token("TOK_RPAREN"),
   expected_type |-> Token("TOK_U8"), expected_newline |-> Token("TOK_NEWLINE"),
   expected_equals |-> Token("TOK_EQ")]

Missing ==
  LET kinds(ts) == [i \in DOMAIN ts |-> IF ts[i] = "TOK_SYM" THEN Name_ ELSE Token(ts[i])]
      block == <<"TOK_LCURLY", "TOK_RCURLY">>
      value == <<"TOK_SYM", "TOK_NEWLINE", "TOK_RCURLY">>
      closing == SelectSeq(Tail(todo), LAMBDA t : t.k \in {"close", "arg"})
  IN  IF todo # << >>
      THEN kinds([i \in DOMAIN closing |-> "TOK_RPAREN"] \o <<"TOK_NEWLINE", "TOK_RCURLY">>)
      ELSE kinds(
        CASE at = "name" -> <<"TOK_LPAREN", "TOK_RPAREN">> \o block
          [] at = "params" -> <<"TOK_U8", "TOK_RPAREN">> \o block
          [] at \in {"lparen", "param_type"} -> <<"TOK_RPAREN">> \o block
          [] at = "ret" -> block
          [] at = "let_name" -> <<"TOK_EQ">> \o value
          [] at = "let_type" -> <<"TOK_EQ">> \o value
          [] at \in {"let_middle", "let_equal"} -> value
          [] at = "newline" -> <<"TOK_RCURLY">>)

DiagnosticsTrue ==
  outcome \in DOMAIN Wanted /\ pos <= Len(text) =>
    G!Programs(SubSeq(text, 1, pos) \o <<Wanted[outcome]>> \o Missing) # {}

(* diag_table.txt:9: a literal that does not fit its type is diagnosed     *)
(* ("will overflow"): what is accepted has none.  Only of the types whose  *)
(* bounds TLC can count to.                                                *)
Largest == [u8 |-> 255, i8 |-> 127, u16 |-> 65535, i16 |-> 32767]
Number(digits) == FoldLeft(LAMBDA n, digit : 10 * n + digit, 0, digits)
OverflowDiagnosed ==
  outcome = "ok" =>
    \A i \in 1 .. Len(text) :
      text[i].t = "TOK_INT" /\ text[i].type.t \in DOMAIN Largest =>
        Number(text[i].digits) <= Largest[text[i].type.t]
=============================================================================
