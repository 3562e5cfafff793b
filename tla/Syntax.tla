------------------------------ MODULE Syntax ------------------------------
(***************************************************************************)
(* The AST as the parser leaves it (ast.h): what parse_ast builds and the  *)
(* semantic passes start from.  A program is a record P:                   *)
(*   P.fns     functions [name, params, ret, stmts]                        *)
(*     params  [name, type]                                                *)
(*     stmts   [t, name, type, value], t in "let", "expr", "return";       *)
(*             value is the node of let.value, expr or ret, 0 for NULL     *)
(*   P.exprs   nodes [t, name, op, type, val, args], t in "int", "var",    *)
(*             "binop", "funcall"; args are the operands or arguments;     *)
(*             type is an integer literal's                                *)
(***************************************************************************)
EXTENDS Identifiers, Naturals, Sequences

-----------------------------------------------------------------------------
(* Types: statically allocated ones, function types, the NULL pointer.     *)
IntTypes == {"u8", "u16", "u32", "u64", "i8", "i16", "i32", "i64"}
BuiltinTypes == IntTypes \cup {"bool", "void"}
Type(t) == [t |-> t]
FnType(ret, args) == [t |-> "fn", ret |-> ret, args |-> args]
NoType == Type("null")

Comparisons == {"==", "!=", "<", ">", "<=", ">="}
BinopKinds == {"+", "-", "*", "/"} \cup Comparisons
NoOp == ""
OpNames == {NoOp} \cup BinopKinds

-----------------------------------------------------------------------------
Builtins == {Type(t) : t \in BuiltinTypes}
Written == Builtins \ {Type("void")}  \* what parse_type knows
FnTypes == [t : {"fn"}, ret : Builtins, args : Seq(Builtins)]
Types == Builtins \cup FnTypes \cup {NoType}

-----------------------------------------------------------------------------
(* The programs parse_ast can build.                                       *)
Params == [name : Names, type : Written]
Stmts(nodes) == [t : {"let", "expr", "return"}, name : Names \cup {<< >>},
                 type : Written \cup {NoType}, value : {NULL} \cup nodes]
Functions(nodes) ==
  [name : Names, params : Seq(Params), ret : Builtins, stmts : Seq(Stmts(nodes))]
Exprs == [t : {"int", "var", "binop", "funcall"}, name : Names \cup {<< >>},
          op : OpNames, type : Builtins \cup {NoType},
          val : Nat, args : Seq(Nat)]

ParsedStmt(st) ==
  /\ st.t = "let" => st.name \in Names /\ (st.type = NoType => st.value # NULL)
  /\ st.t = "expr" => st.value # NULL

(* Operands and arguments are made before the node that has them, which is *)
(* an operator or a call.                                                  *)
ParsedExpr(e, n) ==
  /\ \A k \in 1 .. Len(e.args) : e.args[k] \in 1 .. n - 1
  /\ e.t \in {"int", "var"} => e.args = << >>
  /\ e.t = "int" => e.type \in {Type(t) : t \in IntTypes}
  /\ e.t \in {"var", "funcall"} => e.name \in Names
  /\ e.t = "binop" => e.op \in BinopKinds /\ Len(e.args) = 2

Parsed(P) ==
  /\ P.fns \in Seq(Functions(1 .. Len(P.exprs)))
  /\ P.exprs \in Seq(Exprs)
  /\ \A g \in 1 .. Len(P.fns) : \A i \in 1 .. Len(P.fns[g].stmts) : ParsedStmt(P.fns[g].stmts[i])
  /\ \A n \in 1 .. Len(P.exprs) : ParsedExpr(P.exprs[n], n)

(* No two functions share a node: own gives each node its function.        *)
OwnedBy(P, own) ==
  /\ \A g \in 1 .. Len(P.fns) : \A i \in 1 .. Len(P.fns[g].stmts) :
       P.fns[g].stmts[i].value # NULL => own[P.fns[g].stmts[i].value] = g
  /\ \A n \in 1 .. Len(P.exprs) : \A k \in 1 .. Len(P.exprs[n].args) :
       own[P.exprs[n].args[k]] = own[n]
Separate(P) == \E own \in [1 .. Len(P.exprs) -> 1 .. Len(P.fns)] : OwnedBy(P, own)

(* No node is in two places.                                               *)
Unshared(P) ==
  /\ \A m, n \in 1 .. Len(P.exprs) :
       \A k \in 1 .. Len(P.exprs[m].args), l \in 1 .. Len(P.exprs[n].args) :
         P.exprs[m].args[k] = P.exprs[n].args[l] => m = n /\ k = l
  /\ \A g, h \in 1 .. Len(P.fns) :
       \A i \in 1 .. Len(P.fns[g].stmts), j \in 1 .. Len(P.fns[h].stmts) :
         P.fns[g].stmts[i].value = P.fns[h].stmts[j].value /\ P.fns[g].stmts[i].value # NULL =>
           g = h /\ i = j
  /\ \A n \in 1 .. Len(P.exprs), g \in 1 .. Len(P.fns) :
       \A k \in 1 .. Len(P.exprs[n].args), i \in 1 .. Len(P.fns[g].stmts) :
         P.exprs[n].args[k] # P.fns[g].stmts[i].value
===========================================================================
