----------------------------- MODULE SemTypes -----------------------------
(***************************************************************************)
(* sem_types.c: gives every function its type, then every expression its   *)
(* type, bottom up, and every let without a type that of its value.        *)
(***************************************************************************)
EXTENDS Ast

(* let.type is at first what the source says, or NULL.                     *)
InitTypes ==
  /\ stmtType = [g \in 1 .. Len(prog.fns) |->
                   [i \in 1 .. Len(prog.fns[g].stmts) |-> prog.fns[g].stmts[i].type]]
  /\ exprType = [n \in 1 .. Len(prog.exprs) |-> NoType]

(* coerce_type reads left->t and right->t, and compares nothing else.      *)
coerce_reads_null(left, right) == left = NoType \/ right = NoType
(* Mutant: the sides are not compared.                                     *)
coerce_type_lax(op, left, right) == IF op \in Comparisons THEN Type("bool") ELSE left
coerce_type(op, left, right) ==
  CASE left.t # right.t -> NoType
    [] left.t = right.t /\ op \in Comparisons -> Type("bool")
    [] OTHER -> left

(* First loop of resolve_types.                                            *)
BuildFnType ==
  /\ InFn("signatures")
  /\ entries' = [entries EXCEPT ![fnEntry[f]].type =
       FnType(Fn.ret, [i \in 1 .. Len(Fn.params) |-> Fn.params[i].type])]
  /\ NextFn
  /\ UNCHANGED <<prog, scopes, annotations>>

(* The parameters need no type: the walk begins at the statements.         *)
Types_EnterFn ==
  /\ InFn("types") /\ p = 0
  /\ p' = Len(Fn.params) + 1
  /\ UNCHANGED <<prog, phase, outcome, f, s, todo, scopes, entries, annotations>>

(* Mutant: a statement without an expression is walked like any other.     *)
Types_Stmt_always ==
  /\ AtStmt("types")
  /\ Walk(<<Enter(Stmt.value), EndStmt>>)
  /\ UNCHANGED <<prog, scopes, entries, annotations>>

Types_Stmt ==
  /\ AtStmt("types")
  /\ IF Stmt.value = NULL THEN SkipStmt ELSE Walk(<<Enter(Stmt.value), EndStmt>>)
  /\ UNCHANGED <<prog, scopes, entries, annotations>>

SetType(type) ==
  /\ exprType' = [exprType EXCEPT ![Node] = type]
  /\ UNCHANGED <<prog, scopes, entries, fnEntry, paramEntry, stmtVar, stmtType, exprVar>>

TypeInt ==
  /\ At("types", "enter", "int")
  /\ SetType(Expr(Node).type)
  /\ Continue(<< >>)

EnterBinop ==
  /\ At("types", "enter", "binop")
  /\ Continue(EnterAll(Expr(Node).args) \o <<Leave(Node)>>)
  /\ UNCHANGED <<prog, scopes, entries, annotations>>

TypeBinop ==
  /\ At("types", "leave", "binop")
  /\ LET left == exprType[Expr(Node).args[1]]
         right == exprType[Expr(Node).args[2]]
         type == coerce_type(Expr(Node).op, left, right)
     IN  \/ coerce_reads_null(left, right) /\ Stop("segv")
         \/ ~coerce_reads_null(left, right) /\ type = NoType /\ Stop("incorrect_type_binop")
         \/ /\ ~coerce_reads_null(left, right) /\ type # NoType
            /\ SetType(type) /\ Continue(<< >>)

(* A variable takes the type of its entry; a call reads through that type. *)
(* Its arguments are typed one by one, each compared before the next.      *)
name_reads_null ==
  \/ exprVar[Node] = NULL
  \/ Expr(Node).t = "funcall" /\ entries[exprVar[Node]].type = NoType

TypeName ==
  /\ \E t \in {"var", "funcall"} : At("types", "enter", t)
  /\ LET type == entries[exprVar[Node]].type
         args == Expr(Node).args
         call == ~name_reads_null /\ Expr(Node).t = "funcall"
         each(i) == IF i % 2 = 1 THEN Enter(args[(i + 1) \div 2]) ELSE AfterArg(Node, i \div 2)
     IN  \/ name_reads_null /\ Stop("segv")
         \/ /\ ~name_reads_null /\ Expr(Node).t = "var"
            /\ SetType(type)
            /\ Continue(<< >>)
         \/ call /\ type.t # "fn" /\ Stop("incorrect_type_funcall")
         \/ /\ call /\ type.t = "fn" /\ Len(type.args) # Len(args)
            /\ Stop("wrong_param_count")
         \/ /\ call /\ type.t = "fn" /\ Len(type.args) = Len(args)
            /\ Continue([i \in 1 .. 2 * Len(args) |-> each(i)] \o <<Leave(Node)>>)
            /\ UNCHANGED <<prog, scopes, entries, annotations>>

(* Mutant: arguments are typed and not compared.                           *)
CheckArg_never ==
  /\ At("types", "arg", "funcall")
  /\ Continue(<< >>)
  /\ UNCHANGED <<prog, scopes, entries, annotations>>

CheckArg ==
  /\ At("types", "arg", "funcall")
  /\ LET i == Head(todo).i
         expected == entries[exprVar[Node]].type.args[i]
         given == exprType[Expr(Node).args[i]]
     IN  \/ coerce_reads_null(expected, given) /\ Stop("segv")
         \/ /\ ~coerce_reads_null(expected, given)
            /\ coerce_type("=", expected, given) = NoType
            /\ Stop("incorrect_type_param")
         \/ /\ ~coerce_reads_null(expected, given)
            /\ coerce_type("=", expected, given) # NoType
            /\ Continue(<< >>)
            /\ UNCHANGED <<prog, scopes, entries, annotations>>

TypeCall ==
  /\ At("types", "leave", "funcall")
  /\ SetType(entries[exprVar[Node]].type.ret)
  /\ Continue(<< >>)

(* A let without a type takes its value's, even when that is still NULL.   *)
Infer ==
  /\ stmtType' = [stmtType EXCEPT ![f][s] = exprType[Stmt.value]]
  /\ entries' = [entries EXCEPT ![stmtVar[f][s]].type = exprType[Stmt.value]]
  /\ NextStmt /\ todo' = << >>
  /\ UNCHANGED <<prog, scopes, fnEntry, paramEntry, stmtVar, exprVar, exprType>>

Types_EndStmt ==
  /\ At("types", "stmt", "")
  /\ LET value == exprType[Stmt.value]
         declared == stmtType[f][s]
         checked == Stmt.t = "let" /\ declared # NoType
     IN  \/ Stmt.t = "let" /\ declared = NoType /\ Infer
         \/ checked /\ coerce_reads_null(value, declared) /\ Stop("segv")
         \/ /\ checked /\ ~coerce_reads_null(value, declared)
            /\ coerce_type("=", value, declared) = NoType
            /\ Stop("incorrect_type_assign")
         \/ /\ checked => /\ ~coerce_reads_null(value, declared)
                          /\ coerce_type("=", value, declared) # NoType
            /\ Stmt.t = "let" => checked
            /\ NextStmt /\ todo' = << >>
            /\ UNCHANGED <<prog, scopes, entries, annotations>>

Types_LeaveFn ==
  /\ LeaveFn("types")
  /\ UNCHANGED <<prog, scopes, entries, annotations>>

Types_Next ==
  \/ BuildFnType \/ Types_EnterFn \/ Types_Stmt \/ TypeInt \/ EnterBinop
  \/ TypeBinop \/ TypeName \/ CheckArg \/ TypeCall \/ Types_EndStmt \/ Types_LeaveFn
===========================================================================
