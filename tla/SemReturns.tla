---------------------------- MODULE SemReturns ----------------------------
(***************************************************************************)
(* sem_returns.c: every function that promises a value has a return, and   *)
(* its first return gives a value of the promised type.                    *)
(***************************************************************************)
EXTENDS SemTypes

Returns == {i \in 1 .. Len(Fn.stmts) : Fn.stmts[i].t = "return"}
FirstReturn == CHOOSE i \in Returns : \A j \in Returns : i <= j

(* Mutant: any return is right.                                            *)
check_fn_any == IF Returns = {} /\ Fn.ret # Type("void") THEN "never" ELSE "right"

(* check_fn: RETURN_RIGHT, RETURN_NEVER or RETURN_WRONG, the last one with *)
(* wrong_stmt and wrong_type set ("wrong") or not ("unset"), and "null"    *)
(* where coerce_type reads through a NULL type.                            *)
check_fn ==
  LET value == Fn.stmts[FirstReturn].value
      void == Fn.ret = Type("void")
  IN  CASE Returns = {} -> IF void THEN "right" ELSE "never"
        [] Returns # {} /\ value = NULL -> IF void THEN "right" ELSE "unset"
        [] Returns # {} /\ value # NULL /\ coerce_reads_null(Fn.ret, exprType[value]) -> "null"
        [] OTHER -> IF coerce_type("=", Fn.ret, exprType[value]) # NoType
                    THEN "right" ELSE "wrong"

(* check_returns reads wrong_stmt->pos and wrong_type->t before it prints: *)
(* when they are unset, whatever the stack held decides how that ends.     *)
Returns_End == [never |-> {"never_returns"},
                wrong |-> {"incorrect_return"},
                unset |-> {"incorrect_return", "segv"},
                null  |-> {"segv"}]

CheckReturns ==
  /\ InFn("returns")
  /\ \/ /\ check_fn = "right"
        /\ NextFn
        /\ UNCHANGED <<prog, scopes, entries, annotations>>
     \/ check_fn # "right" /\ \E how \in Returns_End[check_fn] : Stop(how)
===========================================================================
