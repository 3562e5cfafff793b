----------------------------- MODULE SemNames -----------------------------
(***************************************************************************)
(* sem_names.c: declares every function in the global scope, then gives    *)
(* each function a scope of its own, declares parameters and lets in it    *)
(* and connects every name used to a ScopeEntry.                           *)
(***************************************************************************)
EXTENDS Ast

global == 1  \* ast->global, made at the start of resolve_names

(* The scope resolve_fn made last, the one of the current function.        *)
scope == Len(scopes)

InitNames ==
  /\ scopes = <<Scope(<< >>)>>
  /\ entries = << >>
  /\ fnEntry = << >>
  /\ paramEntry = [g \in 1 .. Len(prog.fns) |-> << >>]
  /\ stmtVar = [g \in 1 .. Len(prog.fns) |-> [i \in 1 .. Len(prog.fns[g].stmts) |-> NULL]]
  /\ exprVar = [n \in 1 .. Len(prog.exprs) |-> NULL]

Redeclared(sc, name) == scope_insert_result(sc, name) = NULL

(* Mutant: the result of the insertion is not looked at.                   *)
DeclareFn_unchecked ==
  /\ InFn("declare")
  /\ scope_insert(global, Fn.name, NoType)
  /\ fnEntry' = Append(fnEntry, scope_insert_result(global, Fn.name))
  /\ NextFn
  /\ UNCHANGED <<prog, paramEntry, stmtVar, stmtType, exprVar, exprType>>

(* First loop of resolve_names.                                            *)
DeclareFn ==
  /\ InFn("declare")
  /\ \/ Redeclared(global, Fn.name) /\ Stop("name_redeclaration")
     \/ /\ ~Redeclared(global, Fn.name)
        /\ scope_insert(global, Fn.name, NoType)
        /\ fnEntry' = Append(fnEntry, scope_insert_result(global, Fn.name))
        /\ NextFn
        /\ UNCHANGED <<prog, paramEntry, stmtVar, stmtType, exprVar, exprType>>

Names_EnterFn ==
  /\ InFn("names") /\ p = 0
  /\ scope_init(global)
  /\ p' = 1
  /\ UNCHANGED <<prog, phase, outcome, f, s, todo, annotations>>

(* The result is stored without a look: NULL for a repeated parameter.     *)
InsertParam ==
  /\ AtParam("names")
  /\ scope_insert(scope, Fn.params[p].name, Fn.params[p].type)
  /\ paramEntry' = [paramEntry EXCEPT ![f] =
                      Append(@, scope_insert_result(scope, Fn.params[p].name))]
  /\ p' = p + 1
  /\ UNCHANGED <<prog, phase, outcome, f, s, todo>>
  /\ UNCHANGED <<fnEntry, stmtVar, stmtType, exprVar, exprType>>

(* The walk over the statement's expression, if it has one.                *)
ResolveValue ==
  /\ todo' = (IF Stmt.value # NULL THEN <<Enter(Stmt.value)>> ELSE << >>)
  /\ NextStmt

(* A let's name is in scope in its own value.                              *)
ResolveLet ==
  /\ AtStmt("names") /\ Stmt.t = "let"
  /\ \/ Redeclared(scope, Stmt.name) /\ Stop("name_redeclaration")
     \/ /\ ~Redeclared(scope, Stmt.name)
        /\ scope_insert(scope, Stmt.name, Stmt.type)
        /\ stmtVar' = [stmtVar EXCEPT ![f][s] = scope_insert_result(scope, Stmt.name)]
        /\ ResolveValue
        /\ UNCHANGED <<prog, fnEntry, paramEntry, stmtType, exprVar, exprType>>

ResolveStmt ==
  /\ AtStmt("names") /\ Stmt.t \in {"expr", "return"}
  /\ ResolveValue
  /\ UNCHANGED <<prog, scopes, entries, annotations>>

(* A variable, or the name of a call, whose arguments come after it.       *)
ResolveName(t) ==
  /\ At("names", "enter", t)
  /\ LET entry == scope_find(scope, Expr(Node).name) IN
     \/ entry = NULL /\ Stop("name_not_in_scope")
     \/ /\ entry # NULL
        /\ exprVar' = [exprVar EXCEPT ![Node] = entry]
        /\ Continue(EnterAll(Expr(Node).args))
        /\ UNCHANGED <<prog, scopes, entries>>
        /\ UNCHANGED <<fnEntry, paramEntry, stmtVar, stmtType, exprType>>

ResolveOperands(t) ==
  /\ At("names", "enter", t)
  /\ Continue(EnterAll(Expr(Node).args))
  /\ UNCHANGED <<prog, scopes, entries, annotations>>

Names_LeaveFn ==
  /\ LeaveFn("names")
  /\ UNCHANGED <<prog, scopes, entries, annotations>>

Names_Next ==
  \/ DeclareFn \/ Names_EnterFn \/ InsertParam \/ ResolveLet \/ ResolveStmt
  \/ \E t \in {"var", "funcall"} : ResolveName(t)
  \/ \E t \in {"int", "binop"} : ResolveOperands(t)
  \/ Names_LeaveFn
===========================================================================
