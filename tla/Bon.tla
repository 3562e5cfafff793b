-------------------------------- MODULE Bon --------------------------------
(***************************************************************************)
(* What the compiler promises for a program, without its passes: whether   *)
(* it is accepted or which diagnostics it can be rejected with, and what   *)
(* its functions compute.  Everything is defined on the program text, by   *)
(* name; there is no symbol table, no annotation and no order of visits.   *)
(*                                                                         *)
(* The operators Verdicts is made of are the language's static semantics   *)
(* as the compiler has it, with the ends that are no diagnostics           *)
(* ("segv", "internal_err") attributed to the programs that cause them.    *)
(***************************************************************************)
EXTENDS Naturals, SequencesExt

VARIABLES prog, outcome

Type(t) == [t |-> t]
NoType == Type("null")
FnType(ret, args) == [t |-> "fn", ret |-> ret, args |-> args]

(* Of an expression with an error in it: not another error.                *)
IllTyped == Type("ill-typed")

IntTypes == {"u8", "u16", "u32", "u64", "i8", "i16", "i32", "i64"}
Unsigned == {"u8", "u16", "u32", "u64"}
Comparisons == {"==", "!=", "<", ">", "<=", ">="}

Functions == 1 .. Len(prog.fns)
Stmts(g) == prog.fns[g].stmts
StmtsOf(g, t) == {i \in 1 .. Len(Stmts(g)) : Stmts(g)[i].t = t}
Params(g) == prog.fns[g].params
Node(n) == prog.exprs[n]

(* The nodes of the expression with this root.                             *)
Nodes(root) ==
  LET sub[n \in 0 .. Len(prog.exprs)] ==
        IF n = 0 THEN {}
        ELSE {n} \cup UNION {sub[Node(n).args[i]] : i \in 1 .. Len(Node(n).args)}
  IN  sub[root]

(* Every <<function, statement, node>> of the program.                     *)
Occurrences ==
  UNION {UNION {{<<g, i, n>> : n \in Nodes(Stmts(g)[i].value)} : i \in 1 .. Len(Stmts(g))} :
           g \in Functions}

-----------------------------------------------------------------------------
(* The declaration a name in statement i of function g refers to: a let up *)
(* to that statement, its own included, else a parameter, else a function. *)
LetsNamed(name, g, i) == {j \in StmtsOf(g, "let") : j <= i /\ Stmts(g)[j].name = name}
ParamsNamed(name, g) == {k \in 1 .. Len(Params(g)) : Params(g)[k].name = name}
FunctionsNamed(name) == {h \in Functions : prog.fns[h].name = name}
First(S) == CHOOSE i \in S : \A j \in S : i <= j

Binding(name, g, i) ==
  CASE LetsNamed(name, g, i) # {} -> [kind |-> "let", at |-> First(LetsNamed(name, g, i))]
    [] LetsNamed(name, g, i) = {} /\ ParamsNamed(name, g) # {} ->
         [kind |-> "param", at |-> First(ParamsNamed(name, g))]
    [] LetsNamed(name, g, i) = {} /\ ParamsNamed(name, g) = {} /\ FunctionsNamed(name) # {} ->
         [kind |-> "fn", at |-> First(FunctionsNamed(name))]
    [] OTHER -> [kind |-> "none", at |-> 0]

Named(o) == Node(o[3]).t \in {"var", "funcall"}

NameDefects ==
  {"name_redeclaration" : d \in
     {h \in Functions : \E g \in FunctionsNamed(prog.fns[h].name) : g < h} \cup
     {g \in Functions : \E i \in StmtsOf(g, "let") :
        \/ LetsNamed(Stmts(g)[i].name, g, i) # {i}
        \/ ParamsNamed(Stmts(g)[i].name, g) # {}}}
  \cup
  {"name_not_in_scope" : o \in
     {o \in Occurrences : Named(o) /\ Binding(Node(o[3]).name, o[1], o[2]).kind = "none"}}

-----------------------------------------------------------------------------
Signature(g) == FnType(prog.fns[g].ret, [k \in 1 .. Len(Params(g)) |-> Params(g)[k].type])

(* What a name stands for in statement i of g, given the types of nodes by *)
(* statement: a let without a type takes its value's, and has none yet     *)
(* inside that value.                                                      *)
TypeOfName(type, name, g, i) ==
  LET binding == Binding(name, g, i)
      let == Stmts(g)[binding.at]
  IN  CASE binding.kind = "fn" -> Signature(binding.at)
        [] binding.kind = "param" -> Params(g)[binding.at].type
        [] binding.kind = "let" -> IF let.type # NoType \/ binding.at = i THEN let.type
                                   ELSE type[<<binding.at, let.value>>]
        [] binding.kind = "none" -> IllTyped

(* The type of node n in statement i of function g.                        *)
TypeIn(g) ==
  LET type[o \in (1 .. Len(Stmts(g))) \X (1 .. Len(prog.exprs))] ==
        LET i == o[1]
            n == o[2]
            arg(k) == type[<<i, Node(n).args[k]>>]
            named == TypeOfName(type, Node(n).name, g, i)
        IN  CASE Node(n).t = "int" -> Node(n).type
              [] Node(n).t = "var" -> named
              [] Node(n).t = "funcall" -> IF named.t = "fn" THEN named.ret ELSE IllTyped
              [] Node(n).t = "binop" ->
                   CASE arg(1).t # arg(2).t \/ arg(1) = NoType -> IllTyped
                     [] arg(1).t = arg(2).t /\ arg(1) # NoType ->
                          IF Node(n).op \in Comparisons THEN Type("bool") ELSE arg(1)
  IN  type

(* How the comparison of two types goes wrong.                             *)
Mismatch(expected, given, diagnostic) ==
  CASE IllTyped \in {expected, given} -> {}
    [] IllTyped \notin {expected, given} /\ NoType \in {expected, given} -> {"segv"}
    [] OTHER -> IF expected.t = given.t THEN {} ELSE {diagnostic}

CallDefects(callee, args) ==
  CASE callee.t = "ill-typed" -> {}
    [] callee.t = "null" -> {"segv"}
    [] callee.t = "fn" ->
         IF Len(callee.args) # Len(args) THEN {"wrong_param_count"}
         ELSE UNION {Mismatch(callee.args[k], args[k], "incorrect_type_param") :
                       k \in 1 .. Len(args)}
    [] OTHER -> {"incorrect_type_funcall"}

ExprDefects(type, g, i, n) ==
  LET args == [k \in 1 .. Len(Node(n).args) |-> type[<<i, Node(n).args[k]>>]] IN
  CASE Node(n).t = "binop" -> Mismatch(args[1], args[2], "incorrect_type_binop")
    [] Node(n).t = "funcall" -> CallDefects(TypeOfName(type, Node(n).name, g, i), args)
    [] OTHER -> {}

TypeDefects ==
  (UNION {ExprDefects(TypeIn(o[1]), o[1], o[2], o[3]) : o \in Occurrences})
  \cup
  (UNION {UNION {Mismatch(TypeIn(g)[<<i, Stmts(g)[i].value>>], Stmts(g)[i].type,
                          "incorrect_type_assign") :
            i \in {i \in StmtsOf(g, "let") : Stmts(g)[i].value # 0 /\ Stmts(g)[i].type # NoType}} :
            g \in Functions})

-----------------------------------------------------------------------------
(* Only a function's first return counts; one without a value where one is *)
(* promised ends in the diagnostic or in a crash.                          *)
ReturnDefects ==
  LET void(g) == prog.fns[g].ret = Type("void")
      first(g) == First(StmtsOf(g, "return"))
      given(g) == TypeIn(g)[<<first(g), Stmts(g)[first(g)].value>>]
  IN  UNION {
        CASE StmtsOf(g, "return") = {} -> IF void(g) THEN {} ELSE {"never_returns"}
          [] StmtsOf(g, "return") # {} /\ Stmts(g)[first(g)].value = 0 ->
               IF void(g) THEN {} ELSE {"incorrect_return", "segv"}
          [] OTHER -> Mismatch(prog.fns[g].ret, given(g), "incorrect_return") :
        g \in Functions}

(* The IR has registers for integers only, and none for a second parameter *)
(* of the same name or for a let that is its own value.                    *)
IrDefects ==
  LET unsized(type) == CASE type = NoType -> {"segv"}
                         [] type # NoType /\ type.t \in IntTypes -> {}
                         [] OTHER -> {"internal_err"}
      param(g, k) == IF First(ParamsNamed(Params(g)[k].name, g)) = k
                     THEN unsized(Params(g)[k].type) ELSE {"segv"}
  IN  (UNION {UNION {param(g, k) : k \in 1 .. Len(Params(g))} : g \in Functions})
      \cup (UNION {unsized(TypeIn(o[1])[<<o[2], o[3]>>]) : o \in Occurrences})

(* The passes look for one kind of defect after the other.                 *)
Verdicts ==
  LET stages == <<NameDefects, TypeDefects, ReturnDefects, IrDefects>>
      found == {k \in 1 .. Len(stages) : stages[k] # {}}
  IN  IF found = {} THEN {"ok"} ELSE stages[First(found)]

-----------------------------------------------------------------------------
(* What function g computes, as terms over its parameters: the calls it    *)
(* makes, in order, and what it returns (<<"end">> if it does not).        *)
Bits(type) == CASE type.t \in {"u8", "i8"} -> 8
                [] type.t \in {"u16", "i16"} -> 16
                [] type.t \in {"u32", "i32"} -> 32
                [] type.t \in {"u64", "i64"} -> 64

Sign(op, type) == CASE op \in {"+", "-"} -> "either"
                    [] op \in {"*", "/"} -> IF type.t \in Unsigned THEN "unsigned" ELSE "signed"

(* The value of node n in statement i of function g.  The 0 of a statement *)
(* without an expression, and a let inside its own value, have none.       *)
TermIn(g) ==
  LET type == TypeIn(g)
      term[o \in (1 .. Len(Stmts(g))) \X (0 .. Len(prog.exprs))] ==
        LET i == o[1]
            n == o[2]
            binding == Binding(Node(n).name, g, i)
            args == [k \in 1 .. Len(Node(n).args) |-> term[<<i, Node(n).args[k]>>]]
        IN  CASE n # 0 /\ Node(n).t = "int" -> <<"int", Bits(Node(n).type), Node(n).val>>
              [] n # 0 /\ Node(n).t = "binop" ->
                   <<Node(n).op, Sign(Node(n).op, type[<<i, n>>]), Bits(type[<<i, n>>]), args>>
              [] n # 0 /\ Node(n).t = "funcall" -> <<"call", Node(n).name, args>>
              [] n # 0 /\ Node(n).t = "var" /\ binding.kind = "param" -> <<"param", binding.at>>
              [] n # 0 /\ Node(n).t = "var" /\ binding.kind = "let" /\ binding.at # i ->
                   term[<<binding.at, Stmts(g)[binding.at].value>>]
              [] OTHER -> <<"none">>
  IN  term

(* The calls made for each node in statement i, its arguments' first.      *)
CallsIn(term, i) ==
  LET calls[n \in 0 .. Len(prog.exprs)] ==
        IF n = 0 THEN << >>
        ELSE FlattenSeq([k \in 1 .. Len(Node(n).args) |-> calls[Node(n).args[k]]])
             \o (IF Node(n).t = "funcall" THEN <<term[<<i, n>>]>> ELSE << >>)
  IN  calls

LastStmt(g) ==
  IF StmtsOf(g, "return") = {} THEN Len(Stmts(g)) ELSE First(StmtsOf(g, "return"))

Meaning(g) ==
  LET term == TermIn(g)
      value(i) == Stmts(g)[i].value
  IN  [calls |-> FlattenSeq([i \in 1 .. LastStmt(g) |-> CallsIn(term, i)[value(i)]]),
       ret   |-> IF StmtsOf(g, "return") = {} THEN <<"end">>
                 ELSE term[<<LastStmt(g), value(LastStmt(g))>>]]

-----------------------------------------------------------------------------
(* The promise, for any program: one verdict, of those it deserves.        *)
Init == outcome = "running"

Decide ==
  /\ outcome = "running" /\ outcome' # "running"
  /\ outcome' \in Verdicts
  /\ UNCHANGED prog

Spec == Init /\ [][Decide]_<<prog, outcome>> /\ <>(outcome # "running")
=============================================================================
