----------------------------- MODULE Compiler -----------------------------
(***************************************************************************)
(* The passes of the compiler from the parsed program to the IR, in the    *)
(* order main (bonc.c) runs them.  The process is single-threaded and ends *)
(* at the first diagnostic, so a state has at most one step, except where  *)
(* the code reads what it never wrote.                                     *)
(***************************************************************************)
EXTENDS SemNames, SemReturns, IrGen

vars == <<prog, phase, outcome, f, p, s, todo, scopes, entries, fnEntry, paramEntry,
          stmtVar, stmtType, exprVar, exprType, ssaFns, fnsAlloc, result>>

Init ==
  /\ prog \in Programs
  /\ phase = "declare" /\ outcome = "running"
  /\ f = 1 /\ p = 0 /\ s = 1 /\ todo = << >>
  /\ InitNames /\ InitTypes /\ InitIr

Semantics == (Names_Next \/ Types_Next \/ CheckReturns \/ EndPhase) /\ UNCHANGED irVars

Next == Semantics \/ Ir_Next

(* Nothing else runs in the process: it takes its next step.               *)
Spec == Init /\ [][Next]_vars /\ WF_vars(Next)

-----------------------------------------------------------------------------
(* Every pointer of the AST and the symbol table is NULL or leads to       *)
(* something that was made, and every list holds what its comment says.    *)
ControlOK ==
  /\ phase \in Phases
  /\ outcome \in {"running", "ok"} \cup Diagnostics \cup Abnormal
  /\ f \in 1 .. Len(prog.fns) + 1 /\ p \in Nat /\ s \in Nat \ {0}
  /\ todo \in Seq([k : {"enter", "arg", "leave", "stmt"}, n : 0 .. Len(prog.exprs), i : Nat])

TableOK ==
  /\ entries \in Seq([pos : Names, type : Types, id : Nat, fn : FnPointers])
  /\ scopes \in Seq([up : Seq(1 .. Len(scopes)),
                     buckets : [0 .. INIT_BUCKETS - 1 -> Seq(1 .. Len(entries))]])
  /\ scopes # << >>

AnnotationsOK ==
  /\ fnEntry \in Seq(1 .. Len(entries))
  /\ paramEntry \in [1 .. Len(prog.fns) -> Seq(0 .. Len(entries))]
  /\ DOMAIN stmtVar = 1 .. Len(prog.fns) /\ DOMAIN stmtType = 1 .. Len(prog.fns)
  /\ \A g \in 1 .. Len(prog.fns) :
       /\ stmtVar[g] \in [1 .. Len(prog.fns[g].stmts) -> 0 .. Len(entries)]
       /\ stmtType[g] \in [1 .. Len(prog.fns[g].stmts) -> Types]
  /\ exprVar \in [1 .. Len(prog.exprs) -> 0 .. Len(entries)]
  /\ exprType \in [1 .. Len(prog.exprs) -> Types]

IrOK ==
  /\ ssaFns \in Seq(SSA_Fns) /\ fnsAlloc \in Nat
  /\ result \in [1 .. Len(prog.exprs) -> Nat]

TypeOK == ControlOK /\ TableOK /\ AnnotationsOK /\ IrOK

(* How far the loops are, which makes TypeOK inductive: what is pending in *)
(* an expression belongs to the current statement, a call whose arguments  *)
(* are being typed was seen to be one, and the lists that are indexed by   *)
(* function or parameter are as long as the loop that fills them went.     *)
WalkOK ==
  /\ todo # << >> => f <= Len(prog.fns) /\ phase \in {"names", "types", "translate"}
  /\ todo # << >> /\ phase # "names" =>
       /\ s <= Len(Fn.stmts)
       /\ Stmt.value = NULL => phase = "translate" /\ Stmt.t = "return"
  /\ \A i \in 1 .. Len(todo) :
       /\ todo[i].k # "stmt" => todo[i].n # 0
       /\ phase = "types" /\ todo[i].k = "leave" /\ Expr(todo[i].n).t = "funcall" =>
            exprVar[todo[i].n] # NULL /\ entries[exprVar[todo[i].n]].type \in FnTypes

LoopsOK ==
  /\ \A g \in 1 .. Len(prog.fns) :
       Len(paramEntry[g]) = CASE phase = "declare" -> 0
                              [] phase = "names" /\ g > f -> 0
                              [] phase = "names" /\ g = f -> IF p = 0 THEN 0 ELSE p - 1
                              [] OTHER -> Len(prog.fns[g].params)
  /\ phase = "names" /\ f <= Len(prog.fns) => p <= Len(Fn.params) + 1
  /\ Len(ssaFns) = CASE phase = "alloc_fns" -> f - 1
                      [] phase \in {"translate", "done"} -> Len(prog.fns)
                      [] OTHER -> 0

IInv == TypeOK /\ WalkOK /\ LoopsOK

(* The compiler delivers one verdict on every program, and one that the    *)
(* program deserves: it is accepted only if its names, types and first     *)
(* returns are right, a diagnostic is only given for a defect of that kind *)
(* in the earliest stage that has one, and it crashes only on the programs *)
(* Bon.tla attributes to it.                                               *)
B == INSTANCE Bon
ImplementsBon == B!Spec

(* What the instructions of a function compute, run by a machine with a    *)
(* register file, the calls made so far and what was returned (<<"end">>   *)
(* while nothing was).  A register that was never set, as register 0 never *)
(* is, holds no value, <<"none">>, like that of a let without one.         *)
IrMeaning ==
  [add |-> <<"+", "either">>, sub |-> <<"-", "either">>,
   imul |-> <<"*", "signed">>, umul |-> <<"*", "unsigned">>,
   idiv |-> <<"/", "signed">>, udiv |-> <<"/", "unsigned">>]

Read(regs, r) == IF r \in DOMAIN regs THEN regs[r] ELSE <<"none">>

(* name is that of the function called, if inst is a call.                 *)
Value(regs, inst, name) ==
  LET args == [k \in 1 .. Len(inst.args) |-> Read(regs, inst.args[k])]
      op == IrMeaning[inst.t]
  IN  CASE inst.t = "imm" -> <<"int", inst.sz, inst.imm>>
        [] inst.t = "callfn" -> <<"call", name, args>>
        [] inst.t \in {"copy", "ret"} -> args[1]
        [] inst.t \in DOMAIN IrMeaning -> <<op[1], op[2], inst.sz, args>>

Exec(m, inst, name) ==
  LET value == Value(m.regs, inst, name) IN
  CASE m.ret # <<"end">> -> m
    [] m.ret = <<"end">> /\ inst.t = "ret" -> [m EXCEPT !.ret = value]
    [] OTHER ->
         [m EXCEPT !.regs = IF inst.result = 0 THEN @
                            ELSE [r \in DOMAIN @ \cup {inst.result} |->
                                    IF r = inst.result THEN value ELSE @[r]],
                   !.calls = IF inst.t = "callfn" THEN Append(@, value) ELSE @]

Start(fn) ==
  [regs |-> [r \in Range(fn.params) |->
               <<"param", CHOOSE k \in DOMAIN fn.params : fn.params[k] = r>>],
   calls |-> << >>, ret |-> <<"end">>]

(* The machine after each instruction of fn, where called names the        *)
(* functions that its calls lead to.                                       *)
Run(fn, called) ==
  LET run[i \in 0 .. Len(fn.insts)] ==
        IF i = 0 THEN Start(fn) ELSE Exec(run[i - 1], fn.insts[i], called[i])
  IN  run

Called(insts) ==
  [i \in DOMAIN insts |-> IF insts[i].t = "callfn" THEN Deref(insts[i].fn).name ELSE << >>]

Compiled(g) ==
  LET fn == ssaFns[g]
      end == Run(fn, Called(fn.insts))[Len(fn.insts)]
  IN  [calls |-> end.calls, ret |-> end.ret]

(* The translation keeps the meaning of every accepted program: each       *)
(* function makes the same calls with the same arguments in the same order *)
(* and returns the same value, of the same size and signedness, whichever  *)
(* registers and symbol table entries that went through.                   *)
MeaningPreserved ==
  outcome = "ok" => \A g \in 1 .. Len(prog.fns) : Compiled(g) = B!Meaning(g)

(* The register file of a function in single-assignment form: at any time, *)
(* no register is the result of two instructions, or of one and a          *)
(* parameter, and every register read or set is one the function has.      *)
SingleAssignment ==
  \A g \in DOMAIN ssaFns :
    LET fn == ssaFns[g]
        set(r) == Cardinality({i \in DOMAIN fn.insts : fn.insts[i].result = r})
                + Cardinality({k \in DOMAIN fn.params : fn.params[k] = r})
    IN  /\ \A r \in DOMAIN fn.regs : set(r) <= 1
        /\ \A i \in DOMAIN fn.insts :
             Range(fn.insts[i].args) \cup {fn.insts[i].result} \subseteq 0 .. Len(fn.regs)

(* internals/ssa.md: operators work on two bit vectors of the same size.   *)
(* So do copies, and calls with the callee's parameters: an instruction    *)
(* never mixes sizes, although sizes come from literals, declarations,     *)
(* inference and signatures.                                               *)
OperandSizes ==
  \A g \in DOMAIN ssaFns :
    LET fn == ssaFns[g] IN
    \A inst \in Range(fn.insts) :
      /\ inst.result # 0 => fn.regs[inst.result] = inst.sz
      /\ inst.t \in {"copy", "add", "sub", "imul", "umul", "idiv", "udiv"} =>
           \A r \in Range(inst.args) : fn.regs[r] = inst.sz
      /\ inst.t = "callfn" =>
           LET callee == prog.fns[inst.fn[2]] IN
           /\ Len(inst.args) = Len(callee.params)
           /\ \A k \in DOMAIN inst.args :
                fn.regs[inst.args[k]] = type_sz(callee.params[k].type)

(* A call can be followed to the function it names: once every function is *)
(* translated, what callfn.fn points to is the live SSA_Fn of the callee.  *)
CalleeLive ==
  outcome = "ok" =>
    \A g \in DOMAIN ssaFns : \A inst \in Range(ssaFns[g].insts) :
      inst.t = "callfn" =>
        /\ Deref(inst.fn) = ssaFns[inst.fn[2]]
        /\ Deref(inst.fn).name = prog.fns[inst.fn[2]].name

(* A step that leaves alone what has a value.                              *)
KeepsFilledIn ==
  /\ \A n \in DOMAIN exprVar : exprVar[n] # NULL => exprVar'[n] = exprVar[n]
  /\ \A n \in DOMAIN exprType : exprType[n] # NoType => exprType'[n] = exprType[n]
  /\ \A g \in DOMAIN stmtType : \A i \in DOMAIN stmtType[g] :
       stmtType[g][i] # NoType => stmtType'[g][i] = stmtType[g][i]
  /\ \A e \in DOMAIN entries :
       /\ entries[e].type # NoType => entries'[e].type = entries[e].type
       /\ entries[e].id # 0 => entries'[e].id = entries[e].id
  /\ \A g \in DOMAIN ssaFns :
       /\ IsPrefix(ssaFns[g].insts, ssaFns'[g].insts)
       /\ g # f => ssaFns'[g] = ssaFns[g]

(* What a pass filled in stays: no later visit rebinds a name, retypes an  *)
(* expression, a let or a symbol table entry, moves a variable to another  *)
(* register, or touches an instruction already emitted.                    *)
FilledInOnce == [][KeepsFilledIn]_vars
===========================================================================
