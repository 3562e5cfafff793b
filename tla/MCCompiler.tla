---------------------------- MODULE MCCompiler ----------------------------
(***************************************************************************)
(* Instances of Compiler: families of small programs.                      *)
(***************************************************************************)
EXTENDS Compiler

(* Expressions as trees, and the node table they are laid out in.          *)
Tree(t, name, op, type, val, args) ==
  [t |-> t, name |-> name, op |-> op, type |-> type, val |-> val, args |-> args]
I(type, val) == Tree("int", << >>, "", Type(type), val, << >>)
V(name) == Tree("var", name, "", NoType, 0, << >>)
Bin(op, l, r) == Tree("binop", << >>, op, NoType, 0, <<l, r>>)
Call(name, args) == Tree("funcall", name, "", NoType, 0, args)

(* Appends the nodes of a tree; its root comes last.                       *)
RECURSIVE Flatten(_, _)
Flatten(nodes, tree) ==
  LET step(acc, arg) == LET more == Flatten(acc.nodes, arg)
                        IN  [nodes |-> more, roots |-> Append(acc.roots, Len(more))]
      below == FoldLeft(step, [nodes |-> nodes, roots |-> << >>], tree.args)
  IN  Append(below.nodes, [tree EXCEPT !.args = below.roots])

Nothing == Tree("", << >>, "", NoType, 0, << >>)
Let(name, type, tree) == [t |-> "let", name |-> name, type |-> type, value |-> tree]
Do(tree) == [t |-> "expr", name |-> << >>, type |-> NoType, value |-> tree]
Return(tree) == [t |-> "return", name |-> << >>, type |-> NoType, value |-> tree]

Function(name, params, ret, stmts) ==
  [name |-> name, params |-> params, ret |-> Type(ret), stmts |-> stmts]
Param(name, type) == [name |-> name, type |-> Type(type)]

Program(fns) ==
  LET stmt(acc, st) ==
        IF st.value = Nothing
        THEN [acc EXCEPT !.stmts = Append(@, [st EXCEPT !.value = 0])]
        ELSE LET more == Flatten(acc.nodes, st.value)
             IN  [nodes |-> more, stmts |-> Append(acc.stmts, [st EXCEPT !.value = Len(more)])]
      fn(acc, g) ==
        LET body == FoldLeft(stmt, [nodes |-> acc.exprs, stmts |-> << >>], g.stmts)
        IN  [exprs |-> body.nodes, fns |-> Append(acc.fns, [g EXCEPT !.stmts = body.stmts])]
  IN  FoldLeft(fn, [exprs |-> << >>, fns |-> << >>], fns)

(* Names, in ASCII.                                                        *)
F == <<102>>
G == <<103>>
M == <<109>>
X == <<120>>
Y == <<121>>
NamesUsed == {F, G, M, X, Y}
ManyNames == {<<c>> : c \in 65 .. 97}  \* A and on, for programs with many functions
AllNames == NamesUsed \cup ManyNames
Hash == [name \in AllNames |-> byte_sum(name)]

-----------------------------------------------------------------------------
(* Wide: one statement of every shape in a function m that is declared     *)
(* before or after the function f it may call.                             *)
Leaves == {I("u8", 1), I("i16", 2), V(X), V(Y), V(F)}
Binops == {Bin(op, l, r) : op \in {"/", "=="}, l \in Leaves, r \in Leaves}
Calls == {Call(F, args) : args \in {<< >>} \cup {<<a>> : a \in Leaves}}
         \cup {Call(F, <<I("u8", 1), a>>) : a \in Leaves}
         \cup {Call(X, << >>), Call(X, <<V(X)>>), Call(G, << >>)}
Nested == {Bin("*", Call(F, <<a>>), b) : a, b \in {I("u8", 1), V(X)}}
          \cup {Call(F, <<Bin("-", a, b)>>) : a, b \in {I("u8", 1), V(X)}}
WideExprs == Leaves \cup Binops \cup Calls \cup Nested

Stmts1 ==
  {Let(name, NoType, e) : name \in {X, Y}, e \in WideExprs}
  \cup {Let(name, Type("u8"), e) : name \in {X, Y}, e \in Leaves \cup Calls \cup {Nothing}}
  \cup {Do(e) : e \in WideExprs}
  \cup {Return(e) : e \in WideExprs \cup {Nothing}}

Callees ==
  {Function(F, << >>, "void", << >>),
   Function(F, <<Param(X, "u8")>>, "u8", <<Return(V(X))>>),
   Function(F, <<Param(X, "u8"), Param(Y, "i16")>>, "i16", <<Return(V(Y))>>)}

WideMain ==
  {Function(M, params, ret, <<st>>) :
     params \in {<< >>, <<Param(X, "u8")>>}, ret \in {"void", "u8"}, st \in Stmts1}

Wide == WideMain \X Callees

-----------------------------------------------------------------------------
(* Deep: up to three statements, over fewer shapes.                        *)
Stmts3 ==
  {Let(X, NoType, I("i16", 3)), Let(X, Type("i16"), Nothing),
   Let(Y, NoType, V(X)), Let(Y, NoType, V(Y)), Let(Y, NoType, Call(F, <<V(X)>>)),
   Let(Y, NoType, Bin("*", V(X), V(X))), Let(G, Type("i16"), Bin("+", V(X), V(Y))),
   Do(Call(F, <<Call(F, <<V(Y)>>)>>)), Do(V(F)),
   Do(Bin("-", V(X), I("u16", 1))), Return(V(X)), Return(Call(F, <<V(Y)>>)), Return(Bin("/", V(Y), V(X)))}

DeepMain ==
  {Function(M, params, "i16", body) :
     params \in {<< >>, <<Param(X, "i16")>>}, body \in BoundedSeq(Stmts3, 3)}

DeepCallee == Function(F, <<Param(X, "i16")>>, "i16", <<Return(V(X))>>)

(* A return without a value after an expression that left one.             *)
BareMain ==
  {Function(M, << >>, "void", body \o <<Return(Nothing)>>) :
     body \in BoundedSeq({Do(I("i16", 3)), Do(Call(F, <<I("i16", 3)>>)), Return(Nothing)}, 2)}

Deep == {DeepCallee} \X (DeepMain \cup BareMain)

-----------------------------------------------------------------------------
(* Declarations: functions and parameters of every kind, also repeated.    *)
Declared ==
  {Function(name, params, ret, body) :
     name \in {F, X}, ret \in {"void", "u8", "bool"},
     params \in BoundedSeq({Param(X, "u8"), Param(Y, "bool"), Param(F, "u8")}, 2),
     body \in {<< >>, <<Return(I("u8", 1))>>}}

-----------------------------------------------------------------------------
(* Many: n functions, named by their bytes: A calls B, B returns 1, C calls *)
(* A, and the others are empty.  prog->fns has room for 32.                *)
Many(n) ==
  <<Function(<<65>>, << >>, "u8", <<Return(Call(<<66>>, << >>))>>),
    Function(<<66>>, << >>, "u8", <<Return(I("u8", 1))>>),
    Function(<<67>>, << >>, "void", <<Do(Call(<<65>>, << >>))>>)>>
  \o [i \in 1 .. n - 3 |-> Function(<<67 + i>>, << >>, "void", << >>)]

AllPrograms ==
  {Program(fns) : fns \in Wide \cup Deep
                            \cup (Declared \X {d \in Declared : Len(d.params) < 2})
                            \cup BoundedSeq(Declared, 1) \cup {Many(32)}}
===========================================================================
