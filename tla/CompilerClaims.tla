-------------------------- MODULE CompilerClaims --------------------------
(***************************************************************************)
(* What the documents and comments of the repository say of the passes and *)
(* the code does not keep: each of these is refuted by a program of        *)
(* MCClaims.                                                               *)
(***************************************************************************)
EXTENDS Compiler

Accepted == phase \in {"alloc_fns", "translate", "done"}

(* internals/ast.md:5: after the semantic passes "the AST should be 100%   *)
(* valid (this is assumed during intermediate code generation)".  A valid  *)
(* AST has the symbol table entry of every parameter.                      *)
ParamsDeclared ==
  Accepted => \A g \in DOMAIN paramEntry : NULL \notin Range(paramEntry[g])

(* internals/ast.md:96: type resolution "gives each expression a type".    *)
ExpressionsTyped == Accepted => NoType \notin Range(exprType)

(* sem_returns.c:10: "first_wrong_stmt, and first_wrong_type are set if    *)
(* the function returns incorrectly".                                      *)
WrongStmtSet == InFn("returns") => check_fn # "unset"
===========================================================================
