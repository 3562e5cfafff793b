------------------------------- MODULE IrGen -------------------------------
(***************************************************************************)
(* ir_gen.c: translates the annotated AST to the IR of ssa.h.  A function  *)
(* is one block of instructions over registers numbered from 1; register 0 *)
(* is none.                                                                *)
(*                                                                         *)
(* The functions are the items of a vector, prog->fns, and a pointer to    *)
(* one is <<buffer, index>>: vector_resize moves the items to a new buffer *)
(* of twice the size, and leaves the old one as it was.  A buffer is known *)
(* by its size.                                                            *)
(***************************************************************************)
EXTENDS Ast

CONSTANT
  VEC_INIT_ALLOC  \* items a vector has room for before it is first resized

ASSUME VectorAssumption == VEC_INIT_ALLOC \in Nat \ {0}

VARIABLES
  ssaFns,    \* the items of prog->fns
  fnsAlloc,  \* the items prog->fns has room for (alloc), and so which buffer it is in
  result     \* what translate_expr returned, by node

irVars == <<ssaFns, fnsAlloc, result>>

SSA_Fn == [params |-> << >>, regs |-> << >>, insts |-> << >>, name |-> << >>]

(* args stands for data.operands or data.callfn.args.                      *)
Inst(t, sz, res, args) ==
  [t |-> t, sz |-> sz, result |-> res, args |-> args, fn |-> << >>, imm |-> 0]

Sizes == {0, 8, 16, 32, 64}
FnPointers == {<< >>} \cup (Nat \X (Nat \ {0}))
Insts == [t : {"add", "sub", "imul", "umul", "idiv", "udiv", "copy", "ret", "imm", "callfn"},
          sz : Sizes, result : Nat, args : Seq(Nat), fn : FnPointers, imm : Nat]
SSA_Fns == [params : Seq(Nat), regs : Seq(Sizes), insts : Seq(Insts), name : Names \cup {<< >>}]

InitIr ==
  /\ ssaFns = << >> /\ fnsAlloc = VEC_INIT_ALLOC
  /\ result = [n \in 1 .. Len(prog.exprs) |-> 0]

-----------------------------------------------------------------------------
(* Mutant: the vector is resized one item early.                           *)
AllocFn_early ==
  /\ InFn("alloc_fns")
  /\ fnsAlloc' = IF Len(ssaFns) + 1 >= fnsAlloc THEN fnsAlloc * 2 ELSE fnsAlloc
  /\ ssaFns' = Append(ssaFns, SSA_Fn)
  /\ entries' = [entries EXCEPT ![fnEntry[f]].fn = <<fnsAlloc', Len(ssaFns) + 1>>]
  /\ NextFn
  /\ UNCHANGED <<prog, scopes, annotations, result>>

(* vector_alloc of the prog->fns vector, which doubles when it is full.    *)
AllocFn ==
  /\ InFn("alloc_fns")
  /\ fnsAlloc' = IF Len(ssaFns) + 1 > fnsAlloc THEN fnsAlloc * 2 ELSE fnsAlloc
  /\ ssaFns' = Append(ssaFns, SSA_Fn)
  /\ entries' = [entries EXCEPT ![fnEntry[f]].fn = <<fnsAlloc', Len(ssaFns) + 1>>]
  /\ NextFn
  /\ UNCHANGED <<prog, scopes, annotations, result>>

(* What a pointer to an SSA_Fn reads: the buffers that were left behind    *)
(* were copied before any function was translated, and are still zero.     *)
Deref(ptr) == IF ptr[1] = fnsAlloc THEN ssaFns[ptr[2]] ELSE SSA_Fn

-----------------------------------------------------------------------------
(* Mutant: sizes in bytes.                                                 *)
type_sz_bytes(type) ==
  CASE type.t \in {"i8", "u8"} -> 1
    [] type.t \in {"i16", "u16"} -> 2
    [] type.t \in {"i32", "u32"} -> 4
    [] type.t \in {"i64", "u64"} -> 8

type_sz(type) ==
  CASE type.t \in {"i8", "u8"} -> 8
    [] type.t \in {"i16", "u16"} -> 16
    [] type.t \in {"i32", "u32"} -> 32
    [] type.t \in {"i64", "u64"} -> 64

(* How type_sz(type->t) ends when it gives no size.                        *)
size_fails(type, how) ==
  \/ type = NoType /\ how = "segv"
  \/ type # NoType /\ type.t \notin IntTypes /\ how = "internal_err"

is_unsigned(type) == type.t \in {"u8", "u16", "u32", "u64"}

translate_binop(type, op) ==
  CASE op = "+" -> "add"
    [] op = "-" -> "sub"
    [] op = "*" -> IF is_unsigned(type) THEN "umul" ELSE "imul"
    [] op = "/" -> IF is_unsigned(type) THEN "udiv" ELSE "idiv"

ssa_new_reg == Len(ssaFns[f].regs) + 1

(* sym_table_reg: an entry gets a register the first time it is asked for. *)
reg_fails(entry, how) ==
  \/ entry = NULL /\ how = "segv"
  \/ entry # NULL /\ entries[entry].id = 0 /\ size_fails(entries[entry].type, how)
(* Mutant: what an entry already has is not looked at.                     *)
sym_table_reg_anew(entry) == ssa_new_reg
sym_table_reg(entry) ==
  IF entries[entry].id = 0 THEN ssa_new_reg ELSE entries[entry].id
(* Mutant: a variable's register is numbered and not made.                 *)
new_regs_none(entry) == << >>
new_regs(entry) ==
  IF entries[entry].id = 0 THEN <<type_sz(entries[entry].type)>> ELSE << >>
(* Mutant: the entry moves to the next register with every use.            *)
set_id_anew(entry) == entries' = [entries EXCEPT ![entry].id = ssa_new_reg]
set_id(entry) == entries' = [entries EXCEPT ![entry].id = sym_table_reg(entry)]

(* The current function grows by these registers and instructions.         *)
Emit(regs, insts) ==
  ssaFns' = [ssaFns EXCEPT ![f].regs = @ \o regs, ![f].insts = @ \o insts]

Fails(how) == Stop(how) /\ UNCHANGED irVars

-----------------------------------------------------------------------------
(* translate_function *)
Ir_EnterFn ==
  /\ InFn("translate") /\ p = 0
  /\ p' = 1
  /\ UNCHANGED <<prog, phase, outcome, f, s, todo, scopes, entries, annotations, irVars>>

TranslateParam ==
  /\ AtParam("translate")
  /\ LET entry == paramEntry[f][p] IN
     \/ \E how \in Abnormal : reg_fails(entry, how) /\ Fails(how)
     \/ /\ \A how \in Abnormal : ~reg_fails(entry, how)
        /\ set_id(entry)
        /\ ssaFns' = [ssaFns EXCEPT ![f].regs = @ \o new_regs(entry),
                                    ![f].params = Append(@, sym_table_reg(entry))]
        /\ p' = p + 1
        /\ UNCHANGED <<prog, phase, outcome, f, s, todo, scopes, annotations, fnsAlloc, result>>

TranslateStmt ==
  /\ AtStmt("translate")
  /\ IF Stmt.t = "let" /\ Stmt.value = NULL THEN SkipStmt
     ELSE Walk((IF Stmt.value = NULL THEN << >> ELSE <<Enter(Stmt.value)>>) \o <<EndStmt>>)
  /\ UNCHANGED <<prog, scopes, entries, annotations, irVars>>

Ir_LeaveFn ==
  /\ LeaveFn("translate")
  /\ ssaFns' = [ssaFns EXCEPT ![f].name = Fn.name]
  /\ UNCHANGED <<prog, scopes, entries, annotations, fnsAlloc, result>>

-----------------------------------------------------------------------------
(* translate_expr: an instruction and the new register it sets.            *)
NewInst(t, args) == Inst(t, type_sz(exprType[Node]), ssa_new_reg, args)
EmitResult(inst) ==
  /\ Emit(<<inst.sz>>, <<inst>>)
  /\ result' = [result EXCEPT ![Node] = ssa_new_reg]
  /\ Continue(<< >>)
  /\ UNCHANGED <<prog, scopes, entries, annotations, fnsAlloc>>

(* Mutant: operands and arguments in the reverse order.                    *)
ArgRegs_reversed == Reverse([i \in DOMAIN Expr(Node).args |-> result[Expr(Node).args[i]]])
ArgRegs == [i \in DOMAIN Expr(Node).args |-> result[Expr(Node).args[i]]]

(* The size of the node's type is looked up for every new register.        *)
EmitSized(inst) ==
  \/ \E how \in Abnormal : size_fails(exprType[Node], how) /\ Fails(how)
  \/ exprType[Node].t \in IntTypes /\ EmitResult(inst)

TranslateInt ==
  /\ At("translate", "enter", "int")
  /\ EmitSized([NewInst("imm", << >>) EXCEPT !.imm = Expr(Node).val])

TranslateVar ==
  /\ At("translate", "enter", "var")
  /\ LET entry == exprVar[Node] IN
     \/ \E how \in Abnormal : reg_fails(entry, how) /\ Fails(how)
     \/ /\ \A how \in Abnormal : ~reg_fails(entry, how)
        /\ set_id(entry)
        /\ Emit(new_regs(entry), << >>)
        /\ result' = [result EXCEPT ![Node] = sym_table_reg(entry)]
        /\ Continue(<< >>)
        /\ UNCHANGED <<prog, scopes, annotations, fnsAlloc>>

(* The operands of an operator and the arguments of a call come first.     *)
TranslateArgs(t) ==
  /\ At("translate", "enter", t)
  /\ Continue(EnterAll(Expr(Node).args) \o <<Leave(Node)>>)
  /\ UNCHANGED <<prog, scopes, entries, annotations, irVars>>

TranslateBinop ==
  /\ At("translate", "leave", "binop")
  /\ IF exprType[Node].t \in IntTypes /\ Expr(Node).op \in Comparisons
     THEN Fails("internal_err")
     ELSE EmitSized(NewInst(translate_binop(exprType[Node], Expr(Node).op), ArgRegs))

TranslateCall ==
  /\ At("translate", "leave", "funcall")
  /\ LET fn == entries[exprVar[Node]].fn
         why == IF exprVar[Node] = NULL THEN "segv" ELSE "internal_err"
     IN  IF exprType[Node].t \in IntTypes /\ (exprVar[Node] = NULL \/ fn = << >>)
         THEN Fails(why)
         ELSE EmitSized([NewInst("callfn", ArgRegs) EXCEPT !.fn = fn])

-----------------------------------------------------------------------------
(* translate_stmt, after the expression.                                   *)
EndLet ==
  /\ At("translate", "stmt", "") /\ Stmt.t = "let"
  /\ LET entry == stmtVar[f][s]
         fails(how) == size_fails(exprType[Stmt.value], how) \/ reg_fails(entry, how)
     IN  \/ \E how \in Abnormal : fails(how) /\ Fails(how)
         \/ /\ \A how \in Abnormal : ~fails(how)
            /\ set_id(entry)
            /\ Emit(new_regs(entry),
                    <<Inst("copy", type_sz(exprType[Stmt.value]), sym_table_reg(entry),
                           <<result[Stmt.value]>>)>>)
            /\ NextStmt /\ todo' = << >>
            /\ UNCHANGED <<prog, scopes, annotations, fnsAlloc, result>>

EndExpr ==
  /\ At("translate", "stmt", "") /\ Stmt.t = "expr"
  /\ \/ \E how \in Abnormal : size_fails(exprType[Stmt.value], how) /\ Fails(how)
     \/ /\ exprType[Stmt.value].t \in IntTypes
        /\ Emit(<< >>, <<Inst("copy", type_sz(exprType[Stmt.value]), 0, <<result[Stmt.value]>>)>>)
        /\ NextStmt /\ todo' = << >>
        /\ UNCHANGED <<prog, scopes, entries, annotations, fnsAlloc, result>>

(* The size is always 0, and so is the result: the code tests let.value,   *)
(* which no return statement sets.                                         *)
EndReturn ==
  /\ At("translate", "stmt", "") /\ Stmt.t = "return"
  /\ LET op == IF Stmt.value = NULL THEN 0 ELSE result[Stmt.value] IN
     Emit(<< >>, <<Inst("ret", 0, 0, <<op>>)>>)
  /\ NextStmt /\ todo' = << >>
  /\ UNCHANGED <<prog, scopes, entries, annotations, fnsAlloc, result>>

Ir_Next ==
  \/ AllocFn \/ Ir_EnterFn \/ TranslateParam \/ TranslateStmt \/ Ir_LeaveFn
  \/ TranslateInt \/ TranslateVar \/ \E t \in {"binop", "funcall"} : TranslateArgs(t)
  \/ TranslateBinop \/ TranslateCall
  \/ EndLet \/ EndExpr \/ EndReturn
============================================================================
