-------------------------------- MODULE Ast --------------------------------
(***************************************************************************)
(* The annotated AST (ast.h) that the semantic passes share, and the walk  *)
(* they all make over it: functions in order, their statements in order,   *)
(* and each expression by recursion.                                       *)
(*                                                                         *)
(* prog is what the parser built (Syntax.tla) and no pass changes.         *)
(* What the passes fill in is kept beside it, in the variables below.      *)
(*                                                                         *)
(* The C recursion over an expression is the stack todo of calls and       *)
(* continuations.  It makes a pass stoppable between any two nodes.        *)
(***************************************************************************)
EXTENDS SymTable, Syntax

CONSTANT Programs  \* the parsed programs to start from

ASSUME ProgramsAssumption == \A P \in Programs : Parsed(P)

VARIABLES
  prog,
  phase,       \* the loop the compiler is in, one of Phases
  outcome,     \* "running", or how the process ended
  f, p, s,     \* current function; its parameter (0 before the prologue); statement
  todo,        \* what is left of the walk over the current statement
  fnEntry,     \* Function.entry, by function
  paramEntry,  \* Param.entry, by function and parameter
  stmtVar,     \* let.var, by function and statement
  stmtType,    \* let.type, by function and statement
  exprVar,     \* data.var or data.funcall.fn, by node
  exprType     \* Expr.type, by node

control == <<phase, outcome, f, p, s, todo>>
annotations == <<fnEntry, paramEntry, stmtVar, stmtType, exprVar, exprType>>
astVars == <<prog, control, scopes, entries, annotations>>

-----------------------------------------------------------------------------
(* What main and the passes loop over ast->fns for, in order.              *)
NextPhase ==
  [declare |-> "names", names |-> "signatures", signatures |-> "types", types |-> "returns",
   returns |-> "alloc_fns", alloc_fns |-> "translate", translate |-> "done"]
Phases == DOMAIN NextPhase \cup {"done"}

(* The diagnostics of the semantic passes (diag_table.txt); errors_log     *)
(* prints the first one and exits, so each of them ends the process.       *)
Diagnostics ==
  {"name_not_in_scope", "name_redeclaration", "never_returns", "incorrect_return",
   "incorrect_type_assign", "incorrect_type_binop", "incorrect_type_param",
   "incorrect_type_funcall", "wrong_param_count"}

(* Ends that are not meant to be seen: log_internal_err, a NULL read.      *)
Abnormal == {"internal_err", "segv"}

Fn == prog.fns[f]
Stmt == Fn.stmts[s]
Expr(n) == prog.exprs[n]

In(ph) == outcome = "running" /\ phase = ph
InFn(ph) == In(ph) /\ f <= Len(prog.fns)
AtParam(ph) == InFn(ph) /\ p \in 1 .. Len(Fn.params)
BetweenStmts(ph) == InFn(ph) /\ p > Len(Fn.params) /\ todo = << >>
AtStmt(ph) == BetweenStmts(ph) /\ s <= Len(Fn.stmts)

(* The process ends here.                                                  *)
Stop(how) ==
  /\ outcome' = how
  /\ UNCHANGED <<prog, phase, f, p, s, todo, scopes, entries, annotations>>

(* The next function, in the loops that do one thing per function.         *)
NextFn == f' = f + 1 /\ p' = 0 /\ s' = 1 /\ UNCHANGED <<phase, outcome, todo>>

LeaveFn(ph) ==
  /\ BetweenStmts(ph) /\ s > Len(Fn.stmts)
  /\ NextFn

(* The end of one loop over ast->fns and the beginning of the next.        *)
EndPhase ==
  /\ outcome = "running" /\ phase # "done"
  /\ f > Len(prog.fns)
  /\ phase' = NextPhase[phase]
  /\ outcome' = IF phase = "translate" THEN "ok" ELSE outcome
  /\ f' = 1 /\ p' = 0 /\ s' = 1
  /\ UNCHANGED <<prog, todo, scopes, entries, annotations>>

-----------------------------------------------------------------------------
(* Pending calls and continuations of a walk over an expression.           *)
Task(k, n, i) == [k |-> k, n |-> n, i |-> i]
Enter(n) == Task("enter", n, 0)          \* the recursive call on node n
AfterArg(n, i) == Task("arg", n, i)      \* back in node n after argument i
Leave(n) == Task("leave", n, 0)          \* back in node n after the last one
EndStmt == Task("stmt", 0, 0)            \* back in the statement

EnterAll(ns) == [i \in 1 .. Len(ns) |-> Enter(ns[i])]

(* The walk is at this task, in this pass.                                 *)
At(ph, k, t) ==
  /\ In(ph) /\ todo # << >>
  /\ Head(todo).k = k
  /\ Head(todo).n # 0 => Expr(Head(todo).n).t = t

Node == Head(todo).n

(* The current task is done and leads to these others first.               *)
Continue(tasks) ==
  todo' = tasks \o Tail(todo) /\ UNCHANGED <<phase, outcome, f, p, s>>

(* The walk over the current statement starts, or there is nothing in it.  *)
Walk(tasks) == todo' = tasks /\ UNCHANGED <<phase, outcome, f, p, s>>
NextStmt == s' = s + 1 /\ UNCHANGED <<phase, outcome, f, p>>
SkipStmt == NextStmt /\ UNCHANGED todo
===========================================================================
