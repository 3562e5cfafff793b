---------------------------- MODULE Verdicts_proofs ----------------------------
(***************************************************************************)
(* First, that no pass overwrites what another filled in.  Then the safety *)
(* of ImplementsBon: whatever the compiler ends with is a verdict that     *)
(* Bon.tla says the program deserves.                                      *)
(*                                                                         *)
(* Bon defines everything on the program text, by name.  The passes go by  *)
(* symbol table entries and annotations, node by node.  The invariant      *)
(* VerdictInv relates the two, pass by pass:                               *)
(*   NamesInv    what the scopes hold is what is declared so far, and a    *)
(*               name that was resolved is connected to the entry of the   *)
(*               declaration that Bon binds it to;                         *)
(*   TypesInv    a type that was given to an expression, a let or an entry *)
(*               is the one Bon gives to it;                               *)
(*   ReturnsInv  the functions that were checked have no return defect;    *)
(*   IrInv       the parameters and expressions that were translated have  *)
(*               a size.                                                   *)
(* So a pass that is over leaves no defect of its kind, and a pass that    *)
(* stops the process does so at a defect.                                  *)
(***************************************************************************)
EXTENDS Compiler_proofs

-----------------------------------------------------------------------------
(* What a pass filled in stays.  That a type does, the proof of SizesAgree *)
(* has shown.  A name is only bound once because the walk of resolve_names *)
(* never comes to a node twice: the nodes it has not reached are open,     *)
(* those below an open node are open and have no task yet, a task is at an *)
(* open node, no two are at the same, and so with the values of the        *)
(* statements from i0 of function g0 on.                                   *)
Open(open, P, var, list, g0, i0) ==
  /\ open \subseteq 1 .. Len(P.exprs)
  /\ \A n \in open : var[n] = NULL
  /\ \A n \in open : \A k \in 1 .. Len(P.exprs[n].args) :
       /\ P.exprs[n].args[k] \in open
       /\ \A i \in 1 .. Len(list) : list[i].n # P.exprs[n].args[k]
  /\ \A i \in 1 .. Len(list) : list[i].n \in open
  /\ \A i, j \in 1 .. Len(list) : list[i].n = list[j].n => i = j
  /\ \A g \in 1 .. Len(P.fns) : \A i \in 1 .. Len(P.fns[g].stmts) :
       (g > g0 \/ (g = g0 /\ i >= i0)) /\ P.fns[g].stmts[i].value # NULL =>
         /\ P.fns[g].stmts[i].value \in open
         /\ \A j \in 1 .. Len(list) : list[j].n # P.fns[g].stmts[i].value

Unbound ==
  /\ phase = "declare" => \A n \in Nodes : exprVar[n] = NULL
  /\ phase = "names" => \E open : Open(open, prog, exprVar, todo, f, s)

(* The parts of Unshared.                                                  *)
ArgsApart(P) ==
  \A m, n \in 1 .. Len(P.exprs) :
    \A k \in 1 .. Len(P.exprs[m].args), l \in 1 .. Len(P.exprs[n].args) :
      P.exprs[m].args[k] = P.exprs[n].args[l] => m = n /\ k = l
ValuesApart(P) ==
  \A g, h \in 1 .. Len(P.fns) :
    \A i \in 1 .. Len(P.fns[g].stmts), j \in 1 .. Len(P.fns[h].stmts) :
      P.fns[g].stmts[i].value = P.fns[h].stmts[j].value /\ P.fns[g].stmts[i].value # NULL =>
        g = h /\ i = j
ArgNoValue(P) ==
  \A n \in 1 .. Len(P.exprs), g \in 1 .. Len(P.fns) :
    \A k \in 1 .. Len(P.exprs[n].args), i \in 1 .. Len(P.fns[g].stmts) :
      P.exprs[n].args[k] # P.fns[g].stmts[i].value

LEMMA UnsharedParts ==
  ASSUME NEW P, Unshared(P)
  PROVE  ArgsApart(P) /\ ValuesApart(P) /\ ArgNoValue(P)
  BY Zenon DEF Unshared, ArgsApart, ValuesApart, ArgNoValue

(* The first task, at node n, is done, and the m nodes below come first.   *)
Entered(P, n, m, list, len, list2, len2) ==
  /\ len \in Nat /\ len = Len(list) /\ len >= 1 /\ len2 \in Nat /\ len2 = Len(list2)
  /\ n = list[1].n /\ m \in Nat /\ m = Len(P.exprs[n].args)
  /\ \A i \in 1 .. len2 :
       \/ i \in 1 .. m /\ list2[i].n = P.exprs[n].args[i]
       \/ i > m /\ \E j \in 2 .. len : j = i - m + 1 /\ list2[i].n = list[j].n
SameBut(open, n, var, var2) == \A x \in open : x # n => var2[x] = var[x]

LEMMA SameOffset ==
  ASSUME NEW m \in Nat, NEW i \in Nat, NEW j \in Nat, NEW a, a = i - m + 1, a = j - m + 1
  PROVE  i = j
  OBVIOUS

LEMMA OpenBelow ==
  ASSUME NEW P, ArgsApart(P), ArgNoValue(P), NEW open, NEW var, NEW list, NEW g0, NEW i0,
         Open(open, P, var, list, g0, i0), NEW n, NEW m, NEW len, NEW list2, NEW len2,
         Entered(P, n, m, list, len, list2, len2), NEW var2, SameBut(open, n, var, var2)
  PROVE  Open(open \ {n}, P, var2, list2, g0, i0)
<1>n. /\ len \in Nat /\ len = Len(list) /\ len >= 1 /\ len2 \in Nat /\ len2 = Len(list2)
      /\ n = list[1].n /\ m \in Nat /\ m = Len(P.exprs[n].args)
  BY DEF Entered
<1>t. \A i \in 1 .. len2 :
        \/ i \in 1 .. m /\ list2[i].n = P.exprs[n].args[i]
        \/ i > m /\ \E j \in 2 .. len : j = i - m + 1 /\ list2[i].n = list[j].n
  BY DEF Entered
<1>v. \A x \in open : x # n => var2[x] = var[x]
  BY DEF SameBut
<1> USE <1>n
<1> DEFINE old(i) == list[i].n
           new(i) == list2[i].n
           arg(k) == P.exprs[n].args[k]
           value(g, i) == P.fns[g].stmts[i].value
<1>1. 1 \in 1 .. len /\ n = old(1)
  OBVIOUS
<1>2. /\ \A i \in 1 .. len : old(i) \in open
      /\ \A i, j \in 1 .. len : old(i) = old(j) => i = j
      /\ open \subseteq 1 .. Len(P.exprs)
  BY DEF Open
<1>3. n \in open /\ n \in 1 .. Len(P.exprs)
  BY <1>1, <1>2
<1>4. \A k \in 1 .. m : arg(k) \in open /\ \A i \in 1 .. len : old(i) # arg(k)
  BY <1>3 DEF Open
<1>5. \A k, l \in 1 .. m : arg(k) = arg(l) => k = l
  BY <1>3, SMTT(60) DEF ArgsApart
<1>6. \A i \in 1 .. len2 :
        \/ i \in 1 .. m /\ new(i) = arg(i)
        \/ i > m /\ \E j \in 2 .. len : j = i - m + 1 /\ new(i) = old(j)
  BY <1>t
<1>7. ASSUME NEW x \in open \ {n}, NEW k \in 1 .. Len(P.exprs[x].args)
      PROVE  /\ P.exprs[x].args[k] \in open
             /\ \A i \in 1 .. len : old(i) # P.exprs[x].args[k]
             /\ \A i \in 1 .. m : arg(i) # P.exprs[x].args[k]
  <2>1. /\ P.exprs[x].args[k] \in open
        /\ \A i \in 1 .. len : old(i) # P.exprs[x].args[k]
    BY DEF Open
  <2>2. x \in 1 .. Len(P.exprs) /\ x # n
    BY <1>2
  <2> QED BY <1>3, <2>1, <2>2 DEF ArgsApart
<1>8. ASSUME NEW g \in 1 .. Len(P.fns), NEW i \in 1 .. Len(P.fns[g].stmts),
             g > g0 \/ (g = g0 /\ i >= i0), value(g, i) # NULL
      PROVE  /\ value(g, i) \in open
             /\ \A j \in 1 .. len : old(j) # value(g, i)
             /\ \A k \in 1 .. m : arg(k) # value(g, i)
  <2>1. value(g, i) \in open /\ \A j \in 1 .. len : old(j) # value(g, i)
    BY <1>8 DEF Open
  <2>2. \A k \in 1 .. m : arg(k) # value(g, i)
    BY <1>3 DEF ArgNoValue
  <2> QED BY <2>1, <2>2
<1>9. open \ {n} \subseteq 1 .. Len(P.exprs) /\ \A x \in open \ {n} : var2[x] = NULL
  BY <1>v DEF Open
<1> HIDE DEF old, new, arg, value
<1>10. /\ \A i \in 1 .. len2 : i \in 1 .. m \/ i > m
       /\ \A i \in 1 .. len2 : i \in 1 .. m => new(i) = arg(i)
       /\ \A i \in 1 .. len2 : i > m =>
            \E j \in 1 .. len : j # 1 /\ j = i - m + 1 /\ new(i) = old(j)
  <2>1. ASSUME NEW i \in 1 .. len2, i > m
        PROVE  \E j \in 1 .. len : j # 1 /\ j = i - m + 1 /\ new(i) = old(j)
    <3>1. i \notin 1 .. m
      BY <2>1
    <3>2. PICK j \in 2 .. len : j = i - m + 1 /\ new(i) = old(j)
      BY <1>6, <3>1
    <3>3. j \in 1 .. len /\ j # 1
      OBVIOUS
    <3> QED BY <3>2, <3>3
  <2>2. \A i \in 1 .. len2 : i \in 1 .. m => new(i) = arg(i)
    <3>1. \A i \in 1 .. m : ~(i > m)
      OBVIOUS
    <3> QED BY <1>6, <3>1
  <2>3. \A i \in 1 .. len2 : i \in 1 .. m \/ i > m
    BY <1>6
  <2> QED BY <2>1, <2>2, <2>3
<1>11. \A i \in 1 .. len2 : new(i) \in open \ {n}
  <2>1. \A i \in 1 .. len : i # 1 => old(i) \in open \ {n}
    BY <1>1, <1>2
  <2>2. \A k \in 1 .. m : arg(k) \in open \ {n}
    BY <1>1, <1>4
  <2> QED BY <1>10, <2>1, <2>2, Zenon
<1>12. ASSUME NEW i \in 1 .. len2, NEW j \in 1 .. len2, new(i) = new(j)
       PROVE  i = j
  <2>1. CASE i \in 1 .. m /\ j \in 1 .. m
    <3>1. new(i) = arg(i) /\ new(j) = arg(j)
      BY <1>10, <2>1
    <3>2. arg(i) = arg(j)
      BY <1>12, <3>1, Zenon
    <3> QED BY <1>5, <2>1, <3>2, Zenon
  <2>2. CASE i > m /\ j > m
    <3>1. PICK a \in 1 .. len : a = i - m + 1 /\ new(i) = old(a)
      BY <1>10, <2>2
    <3>2. PICK b \in 1 .. len : b = j - m + 1 /\ new(j) = old(b)
      BY <1>10, <2>2
    <3>3. a = b
      <4>1. old(a) = old(b)
        BY <1>12, <3>1, <3>2
      <4> QED BY <1>2, <4>1
    <3>4. a = i - m + 1 /\ a = j - m + 1
      BY <3>1, <3>2, <3>3, Zenon
    <3>5. i \in Nat /\ j \in Nat
      OBVIOUS
    <3> HIDE <1>n
    <3> QED BY <1>n, <3>4, <3>5, SameOffset
  <2>3. ASSUME NEW a \in 1 .. len2, NEW b \in 1 .. len2, a \in 1 .. m, b > m
        PROVE  new(a) # new(b)
    <3>1. new(a) = arg(a)
      BY <1>10, <2>3
    <3>2. PICK c \in 1 .. len : new(b) = old(c)
      BY <1>10, <2>3
    <3> QED BY <1>4, <2>3, <3>1, <3>2
  <2> QED BY <1>10, <1>12, <2>1, <2>2, <2>3
<1>13. ASSUME NEW x, \A i \in 1 .. len : old(i) # x, \A k \in 1 .. m : arg(k) # x
       PROVE  x # n /\ \A i \in 1 .. len2 : new(i) # x
  BY <1>1, <1>6, <1>10, <1>13
<1>14. \A x \in open \ {n} : \A k \in 1 .. Len(P.exprs[x].args) :
         /\ P.exprs[x].args[k] \in open \ {n}
         /\ \A i \in 1 .. len2 : new(i) # P.exprs[x].args[k]
  BY <1>7, <1>13
<1>15. \A g \in 1 .. Len(P.fns) : \A i \in 1 .. Len(P.fns[g].stmts) :
         (g > g0 \/ (g = g0 /\ i >= i0)) /\ value(g, i) # NULL =>
           value(g, i) \in open \ {n} /\ \A j \in 1 .. len2 : new(j) # value(g, i)
  BY <1>8, <1>13
<1>16. /\ \A i \in 1 .. Len(list2) : list2[i].n \in open \ {n}
       /\ \A i, j \in 1 .. Len(list2) : list2[i].n = list2[j].n => i = j
  BY <1>11, <1>12 DEF new
<1>17. \A x \in open \ {n} : \A k \in 1 .. Len(P.exprs[x].args) :
         /\ P.exprs[x].args[k] \in open \ {n}
         /\ \A i \in 1 .. Len(list2) : list2[i].n # P.exprs[x].args[k]
  BY <1>14 DEF new
<1>18. \A g \in 1 .. Len(P.fns) : \A i \in 1 .. Len(P.fns[g].stmts) :
         (g > g0 \/ (g = g0 /\ i >= i0)) /\ P.fns[g].stmts[i].value # NULL =>
           /\ P.fns[g].stmts[i].value \in open \ {n}
           /\ \A j \in 1 .. Len(list2) : list2[j].n # P.fns[g].stmts[i].value
  BY <1>15 DEF new, value
<1> HIDE <1>n
<1> QED BY <1>9, <1>16, <1>17, <1>18, Zenon DEF Open

(* The walk over the value of the next statement, if it has one.           *)
LEMMA OpenValue ==
  ASSUME NEW P, ValuesApart(P), ArgNoValue(P), NEW open, NEW var, NEW list,
         NEW g0 \in 1 .. Len(P.fns), NEW i0, i0 \in 1 .. Len(P.fns[g0].stmts),
         Open(open, P, var, list, g0, i0),
         Len(P.fns) \in Nat, Len(P.fns[g0].stmts) \in Nat,
         NEW list2, \A i \in 1 .. Len(list2) : /\ P.fns[g0].stmts[i0].value # NULL
                                               /\ list2[i].n = P.fns[g0].stmts[i0].value
                                               /\ i = 1
  PROVE  Open(open, P, var, list2, g0, i0 + 1)
<1> DEFINE v == P.fns[g0].stmts[i0].value
<1>1. v # NULL => v \in open
  BY DEF Open
<1>2. \A n \in open : \A k \in 1 .. Len(P.exprs[n].args) : v # NULL => v # P.exprs[n].args[k]
  BY SMTT(60) DEF Open, ArgNoValue
<1>3. ASSUME NEW g \in 1 .. Len(P.fns), NEW i \in 1 .. Len(P.fns[g].stmts),
             g > g0 \/ (g = g0 /\ i >= i0 + 1), P.fns[g].stmts[i].value # NULL
      PROVE  /\ P.fns[g].stmts[i].value \in open
             /\ \A j \in 1 .. Len(list2) : list2[j].n # P.fns[g].stmts[i].value
  <2>1. g > g0 \/ (g = g0 /\ i >= i0)
    BY <1>3
  <2>2. ~(g = g0 /\ i = i0)
    BY <1>3
  <2>3. P.fns[g].stmts[i].value # v
    BY <1>3, <2>2 DEF ValuesApart
  <2> QED BY <1>3, <2>1, <2>3 DEF Open
<1> QED
  BY <1>1, <1>2, <1>3 DEF Open

(* The next function: fewer statements are ahead.                          *)
LEMMA OpenAhead ==
  ASSUME NEW P, NEW open, NEW var, NEW list, NEW g0 \in Nat, NEW i0,
         Open(open, P, var, list, g0, i0)
  PROVE  Open(open, P, var, list, g0 + 1, 1)
<1>1. ASSUME NEW g \in 1 .. Len(P.fns), NEW i \in 1 .. Len(P.fns[g].stmts),
             g > g0 + 1 \/ (g = g0 + 1 /\ i >= 1)
      PROVE  g > g0
  BY <1>1
<1> QED
  BY <1>1 DEF Open

(* The names are about to be resolved, and every node is open.             *)
LEMMA OpenAll ==
  ASSUME Inv, \A n \in Nodes : exprVar[n] = NULL
  PROVE  Open(Nodes, prog, exprVar, << >>, 1, 1)
<1>1. \A n \in Nodes : \A k \in 1 .. Len(prog.exprs[n].args) : prog.exprs[n].args[k] \in Nodes
  BY BelowNode DEF Expr
<1>2. ASSUME NEW g \in Fns, NEW i \in 1 .. Len(prog.fns[g].stmts),
             prog.fns[g].stmts[i].value # NULL
      PROVE  prog.fns[g].stmts[i].value \in Nodes
  <2>1. prog.fns[g].stmts[i] \in Stmts(Nodes)
    BY ProgramShape, ElementOfSeq DEF Inv
  <2> QED BY <1>2, <2>1 DEF Stmts
<1>3. Len(<< >>) = 0
  BY EmptySeq
<1> QED
  BY <1>1, <1>2, <1>3 DEF Open, Nodes, Fns

(* A node that is entered is open until then.                              *)
LEMMA EnteredOpen ==
  ASSUME Inv, Unshared(prog), prog' = prog, NEW open, Open(open, prog, exprVar, todo, f, s),
         todo # << >>, Head(todo).k = "enter", Continue(EnterAll(Expr(Node).args)),
         \A x \in open : x # Node => exprVar'[x] = exprVar[x]
  PROVE  /\ Node \in open
         /\ \E more : Open(more, prog, exprVar, todo, f, s)'
<1>1. PICK n : n = Node
  OBVIOUS
<1>2. n \in Nodes /\ Len(Expr(n).args) \in Nat
  BY <1>1, AtTask
<1>3. PICK tasks : tasks = EnterAll(Expr(n).args)
  OBVIOUS
<1>4. /\ tasks \in Seq(Tasks) /\ Continue(tasks) /\ Len(tasks) = Len(Expr(n).args)
      /\ \A k \in 1 .. Len(tasks) : tasks[k].n = Expr(n).args[k]
  <2>1. tasks \in Seq(Tasks) /\ Continue(tasks)
    BY <1>1, <1>2, <1>3, EnterAllOK
  <2>2. DOMAIN tasks = 1 .. Len(Expr(n).args)
    BY <1>3 DEF EnterAll
  <2>3. Len(tasks) = Len(Expr(n).args)
    BY <1>2, <2>1, <2>2, LenProperties
  <2> QED BY <1>3, <2>1, <2>3 DEF EnterAll, Enter, Task
<1>5. PICK list : list = todo
  OBVIOUS
<1>6. PICK list2 : list2 = todo'
  OBVIOUS
<1>7. PICK var : var = exprVar
  OBVIOUS
<1>8. PICK var2 : var2 = exprVar'
  OBVIOUS
<1>9. PICK m : m = Len(tasks)
  OBVIOUS
<1>10. PICK len : len = Len(list)
  OBVIOUS
<1>11. PICK len2 : len2 = Len(list2)
  OBVIOUS
<1>12. /\ m \in Nat /\ len \in Nat /\ len2 = m + len - 1 /\ n = list[1].n
       /\ \A j \in 1 .. m : list2[j] = tasks[j]
       /\ \A j \in 1 .. len2 : j > m => j - m + 1 \in 2 .. len /\ list2[j] = list[j - m + 1]
  BY <1>1, <1>4, <1>5, <1>6, <1>9, <1>10, <1>11, Shifted DEF Node
<1>13. len >= 1
  BY <1>5, <1>10, <1>12, EmptySeq, InvParts DEF ControlOK
<1>14. \A i \in 1 .. len2 :
         \/ i \in 1 .. m /\ list2[i].n = Expr(n).args[i]
         \/ i > m /\ \E j \in 2 .. len : j = i - m + 1 /\ list2[i].n = list[j].n
  <2>1. ASSUME NEW i \in 1 .. len2, i > m
        PROVE  \E j \in 2 .. len : j = i - m + 1 /\ list2[i].n = list[j].n
    BY <1>12, <2>1
  <2>2. ASSUME NEW i \in 1 .. len2, i \in 1 .. m PROVE list2[i].n = Expr(n).args[i]
    BY <1>4, <1>9, <1>12, <2>2
  <2>3. \A i \in 1 .. len2 : i \in 1 .. m \/ i > m
    BY <1>12
  <2> QED BY <2>1, <2>2, <2>3
<1>15. \A x \in open : x # n => var2[x] = var[x]
  BY <1>1, <1>7, <1>8
<1>16. PICK P : P = prog
  OBVIOUS
<1>17. PICK g0, i0 : g0 = f /\ i0 = s
  OBVIOUS
<1>18. ArgsApart(P) /\ ArgNoValue(P) /\ Open(open, P, var, list, g0, i0) /\ Expr(n) = P.exprs[n]
  BY <1>5, <1>7, <1>16, <1>17, UnsharedParts DEF Expr
<1>19. len2 \in Nat
  BY <1>12, <1>13
<1>20. Open(open \ {n}, P, var2, list2, g0, i0)
  <2>1. m \in Nat /\ len \in Nat /\ n = list[1].n
    BY <1>12
  <2>2. m = Len(P.exprs[n].args)
    <3>1. m = Len(Expr(n).args) /\ Expr(n) = P.exprs[n]
      BY <1>4, <1>9, <1>18
    <3> QED BY <3>1
  <2>3. \A i \in 1 .. len2 :
          \/ i \in 1 .. m /\ list2[i].n = P.exprs[n].args[i]
          \/ i > m /\ \E j \in 2 .. len : j = i - m + 1 /\ list2[i].n = list[j].n
    <3>1. Expr(n) = P.exprs[n]
      BY <1>18
    <3> QED BY <1>14, <3>1
  <2>4. ArgsApart(P) /\ ArgNoValue(P) /\ Open(open, P, var, list, g0, i0)
    BY <1>18
  <2>5. Entered(P, n, m, list, len, list2, len2)
    BY <1>10, <1>11, <1>13, <1>19, <2>1, <2>2, <2>3 DEF Entered
  <2>6. SameBut(open, n, var, var2)
    BY <1>15 DEF SameBut
  <2> QED BY <2>4, <2>5, <2>6, OpenBelow
<1>21. Open(open \ {n}, prog, exprVar, todo, f, s)'
  BY <1>6, <1>8, <1>16, <1>17, <1>20 DEF Continue
<1>22. n \in open
  <2>1. 1 \in 1 .. Len(list)
    BY <1>10, <1>12, <1>13
  <2> QED BY <1>12, <1>18, <2>1 DEF Open
<1> QED
  BY <1>1, <1>21, <1>22

(* The value of a statement becomes the first task.                        *)
LEMMA ValueOpen ==
  ASSUME Inv, Unshared(prog), prog' = prog, exprVar' = exprVar, NEW open,
         Open(open, prog, exprVar, todo, f, s), f <= Len(prog.fns), s <= Len(Fn.stmts), ResolveValue
  PROVE  \E more : Open(more, prog, exprVar, todo, f, s)'
<1>1. f \in 1 .. Len(prog.fns) /\ s \in 1 .. Len(Fn.stmts) /\ Len(prog.fns) \in Nat
      /\ Len(Fn.stmts) \in Nat /\ Fn = prog.fns[f] /\ Stmt = prog.fns[f].stmts[s]
  BY ControlTypes, InsideFn DEF Fns, Fn, Stmt
<1>2. PICK list2 : list2 = todo'
  OBVIOUS
<1>3. \A i \in 1 .. Len(list2) : Stmt.value # NULL /\ list2[i].n = Stmt.value /\ i = 1
  <2>1. CASE Stmt.value # NULL
    <3>1. list2 = <<Enter(Stmt.value)>>
      BY <1>2, <2>1 DEF ResolveValue
    <3>2. Len(list2) = 1 /\ list2[1].n = Stmt.value
      BY <3>1 DEF Enter, Task
    <3> QED BY <2>1, <3>2
  <2>2. CASE Stmt.value = NULL
    <3>1. Len(list2) = 0
      BY <1>2, <2>2, EmptySeq DEF ResolveValue
    <3> QED BY <3>1
  <2> QED BY <2>1, <2>2
<1>4. Open(open, prog, exprVar, list2, f, s + 1)
  BY <1>1, <1>3, UnsharedParts, OpenValue
<1>5. Open(open, prog, exprVar, todo, f, s)'
  BY <1>2, <1>4 DEF ResolveValue, NextStmt
<1> QED
  BY <1>5

BoundStay == \A n \in Nodes : exprVar[n] # NULL => exprVar'[n] = exprVar[n]

LEMMA NamesUnbound ==
  ASSUME Inv, Unshared(prog), Unbound, Names_Next
  PROVE  Unbound' /\ BoundStay
<1>1. ASSUME UNCHANGED <<prog, phase, todo, f, s, exprVar>> PROVE Unbound' /\ BoundStay
  BY <1>1 DEF Unbound, BoundStay, Nodes
<1>2. ASSUME NEW how, Stop(how) PROVE Unbound' /\ BoundStay
  BY <1>1, <1>2 DEF Stop, annotations
<1>3. CASE DeclareFn
  <2>1. CASE phase' = phase /\ phase = "declare" /\ UNCHANGED <<prog, exprVar>>
    BY <2>1 DEF Unbound, BoundStay, Nodes
  <2> QED BY <1>2, <1>3, <2>1 DEF DeclareFn, InFn, In, NextFn
<1>4. CASE Names_EnterFn \/ InsertParam
  BY <1>1, <1>4 DEF Names_EnterFn, InsertParam, annotations
<1>5. ASSUME prog' = prog, exprVar' = exprVar, phase = "names", phase' = "names",
             \A open : Open(open, prog, exprVar, todo, f, s) =>
                         \E more : Open(more, prog, exprVar, todo, f, s)'
      PROVE  Unbound' /\ BoundStay
  BY <1>5 DEF Unbound, BoundStay
<1>6. CASE ResolveLet \/ ResolveStmt
  <2>1. \/ Stop("name_redeclaration")
        \/ /\ prog' = prog /\ exprVar' = exprVar /\ phase = "names" /\ phase' = "names"
           /\ f <= Len(prog.fns) /\ s <= Len(Fn.stmts) /\ ResolveValue
    BY <1>6 DEF ResolveLet, ResolveStmt, AtStmt, BetweenStmts, InFn, In, ResolveValue, NextStmt,
                annotations
  <2> QED BY <1>2, <1>5, <2>1, ValueOpen
<1>7. CASE Names_LeaveFn
  <2>1. /\ prog' = prog /\ exprVar' = exprVar /\ phase = "names" /\ phase' = "names"
        /\ todo' = todo /\ f' = f + 1 /\ s' = 1 /\ f \in Nat
    BY <1>7, ControlTypes DEF Names_LeaveFn, LeaveFn, NextFn, BetweenStmts, InFn, In, annotations
  <2>2. ASSUME NEW open, Open(open, prog, exprVar, todo, f, s)
        PROVE  Open(open, prog, exprVar, todo, f, s)'
    <3>1. Open(open, prog, exprVar, todo, f + 1, 1)
      BY <2>1, <2>2, OpenAhead
    <3> QED BY <2>1, <3>1
  <2> QED BY <1>5, <2>1, <2>2
<1>8. ASSUME prog' = prog, phase = "names", phase' = "names", todo # << >>, Head(todo).k = "enter",
             Continue(EnterAll(Expr(Node).args)), NEW e,
             exprVar' = exprVar \/ exprVar' = [exprVar EXCEPT ![Node] = e]
      PROVE  Unbound' /\ BoundStay
  <2>1. PICK open : Open(open, prog, exprVar, todo, f, s)
    BY <1>8 DEF Unbound
  <2>2. DOMAIN exprVar = Nodes
    BY InvParts DEF AnnotationsOK, Nodes
  <2>3. \A x \in Nodes : x # Node => exprVar'[x] = exprVar[x]
    BY <1>8, <2>2
  <2>4. open \subseteq Nodes /\ \A x \in open : exprVar[x] = NULL
    BY <2>1 DEF Open, Nodes
  <2>5. Node \in open /\ \E more : Open(more, prog, exprVar, todo, f, s)'
    BY <1>8, <2>1, <2>3, <2>4, EnteredOpen
  <2>6. BoundStay
    BY <2>3, <2>4, <2>5 DEF BoundStay
  <2> QED BY <1>8, <2>5, <2>6 DEF Unbound
<1>9. ASSUME NEW t \in {"var", "funcall"}, ResolveName(t) PROVE Unbound' /\ BoundStay
  <2>1. \/ Stop("name_not_in_scope")
        \/ /\ prog' = prog /\ phase = "names" /\ phase' = "names" /\ todo # << >>
           /\ Head(todo).k = "enter" /\ Continue(EnterAll(Expr(Node).args))
           /\ exprVar' = [exprVar EXCEPT ![Node] = scope_find(scope, Expr(Node).name)]
    BY <1>9 DEF ResolveName, At, In, Continue
  <2> QED BY <1>2, <1>8, <2>1
<1>10. ASSUME NEW t \in {"int", "binop"}, ResolveOperands(t) PROVE Unbound' /\ BoundStay
  <2>1. /\ prog' = prog /\ phase = "names" /\ phase' = "names" /\ todo # << >>
        /\ Head(todo).k = "enter" /\ Continue(EnterAll(Expr(Node).args)) /\ exprVar' = exprVar
    BY <1>10 DEF ResolveOperands, At, In, Continue, annotations
  <2> QED BY <1>8, <2>1
<1> QED
  BY <1>3, <1>4, <1>6, <1>7, <1>9, <1>10 DEF Names_Next

LEMMA NextUnbound ==
  ASSUME Inv, Unshared(prog), Unbound, Next
  PROVE  Unbound' /\ BoundStay
<1>1. CASE Names_Next
  BY <1>1, NamesUnbound
<1>2. ASSUME exprVar' = exprVar, phase' \notin {"declare", "names"} PROVE Unbound' /\ BoundStay
  BY <1>2 DEF Unbound, BoundStay
<1>3. ASSUME UNCHANGED <<prog, phase, todo, f, s, exprVar>> PROVE Unbound' /\ BoundStay
  BY <1>3 DEF Unbound, BoundStay, Nodes
<1>4. CASE Types_Next
  <2>1. exprVar' = exprVar /\ phase' = phase /\ phase \in {"signatures", "types", "returns"}
    BY <1>4, TypesKeep, TypesPhase DEF Pointers
  <2> QED BY <1>2, <2>1
<1>5. CASE CheckReturns
  <2>1. exprVar' = exprVar /\ phase' = "returns"
    BY <1>5 DEF CheckReturns, InFn, In, NextFn, Stop, annotations
  <2> QED BY <1>2, <2>1
<1>6. CASE EndPhase
  <2>1. /\ phase \in DOMAIN NextPhase /\ phase' = NextPhase[phase] /\ f > Len(prog.fns)
        /\ f' = 1 /\ s' = 1 /\ prog' = prog /\ exprVar' = exprVar /\ todo' = todo
    BY <1>6, ControlTypes DEF EndPhase, Phases, annotations
  <2>2. CASE phase = "declare"
    <3>1. todo = << >>
      <4>1. f \in Nat /\ Len(prog.fns) \in Nat
        BY ControlTypes
      <4> QED BY <2>1, <4>1, InvParts DEF WalkOK
    <3>2. \A n \in Nodes : exprVar[n] = NULL
      BY <2>2 DEF Unbound
    <3>3. Open(Nodes, prog, exprVar, << >>, 1, 1)
      BY <3>2, OpenAll
    <3>4. PICK open : open = Nodes
      OBVIOUS
    <3>5. Open(open, prog, exprVar, todo, f, s)'
      BY <2>1, <3>1, <3>3, <3>4
    <3>6. phase' = "names"
      BY <2>1, <2>2 DEF NextPhase
    <3> QED BY <2>1, <3>5, <3>6 DEF Unbound, BoundStay
  <2>3. CASE phase # "declare"
    <3>1. phase' \notin {"declare", "names"}
      BY <2>1, <2>3 DEF NextPhase
    <3> QED BY <1>2, <2>1, <3>1
  <2> QED BY <2>2, <2>3
<1>7. CASE Ir_Next
  <2>1. CASE AllocFn
    <3>1. exprVar' = exprVar /\ phase' = "alloc_fns"
      BY <2>1 DEF AllocFn, InFn, In, NextFn, annotations
    <3> QED BY <1>2, <3>1
  <2>2. CASE ~AllocFn
    <3>1. phase = "translate" /\ phase' = phase /\ exprVar' = exprVar
      BY <1>7, <2>2, IrWrites DEF Fails, Stop, annotations
    <3> QED BY <1>2, <3>1
  <2> QED BY <2>1, <2>2
<1> QED
  BY <1>1, <1>4, <1>5, <1>6, <1>7 DEF Next, Semantics

-----------------------------------------------------------------------------
(* The register of a variable.                                             *)
IdsStay == \A e \in 1 .. Len(entries) : entries[e].id # 0 => entries'[e].id = entries[e].id

LEMMA WriteIds ==
  ASSUME Inv, NEW e, NEW r, entries' = [entries EXCEPT ![e] = r],
         (e \in 1 .. Len(entries) /\ entries[e].id # 0) => r.id = entries[e].id
  PROVE  IdsStay
<1>1. \A d \in 1 .. Len(entries) : entries'[d] = IF d = e THEN r ELSE entries[d]
  BY EntryOnly
<1> QED
  BY <1>1 DEF IdsStay

LEMMA InsertIds ==
  ASSUME Inv, NEW sc, NEW pos, NEW type, scope_insert(sc, pos, type)
  PROVE  IdsStay
<1>1. CASE entries' = entries
  BY <1>1 DEF IdsStay
<1>2. CASE entries' = Append(entries, ScopeEntry(pos, type))
  <2>1. entries \in Seq(Entry) /\ Len(entries) \in Nat
    BY InvParts DEF TableOK, Entry
  <2>2. \A e \in 1 .. Len(entries) : entries'[e] = entries[e]
    BY <1>2, <2>1
  <2> QED BY <2>2 DEF IdsStay
<1> QED
  BY <1>1, <1>2 DEF scope_insert

LEMMA SetIdStays == ASSUME Inv, NEW e, set_id(e) PROVE IdsStay
<1>1. PICK id : id = sym_table_reg(e)
  OBVIOUS
<1>2. PICK r : r = [entries[e] EXCEPT !.id = id]
  OBVIOUS
<1>3. entries' = [entries EXCEPT ![e] = r]
  BY <1>1, <1>2 DEF set_id
<1>4. ASSUME e \in 1 .. Len(entries), entries[e].id # 0 PROVE r.id = entries[e].id
  <2>1. entries[e] \in Entry
    BY <1>4, InvParts, EntryParts
  <2> QED BY <1>1, <1>2, <1>4, <2>1 DEF Entry, sym_table_reg
<1> QED
  BY <1>3, <1>4, WriteIds

LEMMA NextIds == ASSUME Inv, Next PROVE IdsStay
<1>1. ASSUME entries' = entries PROVE IdsStay
  BY <1>1 DEF IdsStay
<1>2. ASSUME NEW how, Stop(how) PROVE IdsStay
  BY <1>1, <1>2 DEF Stop
<1>3. CASE DeclareFn \/ InsertParam \/ ResolveLet
  <2>1. (\E how : Stop(how)) \/ \E sc, pos, type : scope_insert(sc, pos, type)
    BY <1>3, Zenon DEF DeclareFn, InsertParam, ResolveLet
  <2> QED BY <1>2, <2>1, InsertIds
<1>4. CASE Names_EnterFn \/ ResolveStmt \/ Names_LeaveFn
  BY <1>1, <1>4 DEF Names_EnterFn, ResolveStmt, Names_LeaveFn, scope_init
<1>5. CASE \/ \E t \in {"var", "funcall"} : ResolveName(t)
           \/ \E t \in {"int", "binop"} : ResolveOperands(t)
  BY <1>1, <1>2, <1>5 DEF ResolveName, ResolveOperands
<1>6. ASSUME NEW e, NEW type, entries' = [entries EXCEPT ![e].type = type] PROVE IdsStay
  <2>1. PICK r : r = [entries[e] EXCEPT !.type = type]
    OBVIOUS
  <2>2. entries' = [entries EXCEPT ![e] = r]
    BY <1>6, <2>1
  <2>3. e \in 1 .. Len(entries) => r.id = entries[e].id
    BY <2>1, InvParts, EntryParts DEF Entry
  <2> QED BY <2>2, <2>3, WriteIds
<1>7. CASE Types_Next
  <2>1. entries' = entries \/ \E e, type : entries' = [entries EXCEPT ![e].type = type]
    BY <1>7, TypesKeep DEF BuildFnType, Infer
  <2> QED BY <1>1, <1>6, <2>1
<1>8. CASE CheckReturns \/ EndPhase
  BY <1>1, <1>2, <1>8 DEF CheckReturns, EndPhase
<1>9. CASE AllocFn
  <2>1. PICK ptr, e : ptr = <<fnsAlloc', Len(ssaFns) + 1>> /\ e = fnEntry[f]
    OBVIOUS
  <2>2. PICK r : r = [entries[e] EXCEPT !.fn = ptr]
    OBVIOUS
  <2>3. entries' = [entries EXCEPT ![e] = r]
    BY <1>9, <2>1, <2>2 DEF AllocFn
  <2>4. e \in 1 .. Len(entries) => r.id = entries[e].id
    BY <2>2, InvParts, EntryParts DEF Entry
  <2> QED BY <2>3, <2>4, WriteIds
<1>10. CASE Ir_Next /\ ~AllocFn
  <2>1. entries' = entries \/ \E e : set_id(e)
    BY <1>10, IrWrites DEF Fails, Stop
  <2> QED BY <1>1, <2>1, SetIdStays
<1> QED
  BY <1>3, <1>4, <1>5, <1>7, <1>8, <1>9, <1>10 DEF Next, Semantics, Names_Next

-----------------------------------------------------------------------------
(* The instructions of a function.                                         *)
LEMMA PrefixConcat ==
  ASSUME NEW S, NEW list \in Seq(S), NEW T, NEW more \in Seq(T)
  PROVE  IsPrefix(list, list) /\ IsPrefix(list, list \o more)
<1>1. list \in Seq(S \cup T) /\ more \in Seq(S \cup T)
  BY SeqMonotonic
<1>2. /\ Len(list) \in Nat /\ Len(more) \in Nat
      /\ Len(list \o more) = Len(list) + Len(more)
  BY <1>1, ConcatProperties, LenProperties
<1>3. SubSeq(list \o more, 1, Len(list)) = SubSeq(list, 1, Len(list))
  BY <1>1, <1>2, SubSeqOfConcat1
<1> QED
  BY <1>2, <1>3 DEF IsPrefix

CodeStays ==
  \A g \in 1 .. Len(ssaFns) : /\ IsPrefix(ssaFns[g].insts, ssaFns'[g].insts)
                              /\ g # f => ssaFns'[g] = ssaFns[g]

LEMMA CodeLists ==
  ASSUME Inv
  PROVE  /\ ssaFns \in Seq(SSA_Fns) /\ Len(ssaFns) \in Nat
         /\ \A g \in 1 .. Len(ssaFns) : ssaFns[g] \in SSA_Fns /\ ssaFns[g].insts \in Seq(Insts)
<1>1. ssaFns \in Seq(SSA_Fns) /\ Len(ssaFns) \in Nat
  BY InvParts, LenProperties DEF IrOK
<1>2. \A g \in 1 .. Len(ssaFns) : ssaFns[g] \in SSA_Fns
  BY <1>1, ElementOfSeq
<1> QED
  BY <1>1, <1>2 DEF SSA_Fns

LEMMA CodeAppended ==
  ASSUME Inv, NEW r, ssaFns' = [ssaFns EXCEPT ![f] = r], NEW T, NEW more \in Seq(T),
         f \in 1 .. Len(ssaFns) => r.insts = ssaFns[f].insts \o more
  PROVE  CodeStays
<1>1. DOMAIN ssaFns = 1 .. Len(ssaFns)
  BY CodeLists, LenProperties
<1>2. \A g \in 1 .. Len(ssaFns) : ssaFns'[g] = IF g = f THEN r ELSE ssaFns[g]
  BY <1>1
<1>3. ASSUME NEW g \in 1 .. Len(ssaFns) PROVE IsPrefix(ssaFns[g].insts, ssaFns'[g].insts)
  <2>1. PICK list \in Seq(Insts) : list = ssaFns[g].insts
    BY CodeLists
  <2>2. IsPrefix(list, list) /\ IsPrefix(list, list \o more)
    BY PrefixConcat
  <2>3. ssaFns'[g].insts = list \/ ssaFns'[g].insts = list \o more
    BY <1>2, <2>1
  <2> QED BY <2>1, <2>2, <2>3
<1> QED
  BY <1>2, <1>3 DEF CodeStays

LEMMA CodeSame == ASSUME Inv, ssaFns' = ssaFns PROVE CodeStays
<1>1. ASSUME NEW g \in 1 .. Len(ssaFns) PROVE IsPrefix(ssaFns[g].insts, ssaFns[g].insts)
  <2>1. ssaFns[g].insts \in Seq(Insts)
    BY CodeLists
  <2> QED BY <2>1, PrefixConcat
<1> QED
  BY <1>1 DEF CodeStays

LEMMA EmitStays ==
  ASSUME Inv, NEW regs, NEW T, NEW insts \in Seq(T), Emit(regs, insts)
  PROVE  CodeStays
<1>1. PICK fn : fn = ssaFns[f]
  OBVIOUS
<1>2. PICK r : r = [fn EXCEPT !.regs = fn.regs \o regs, !.insts = fn.insts \o insts]
  OBVIOUS
<1>3. CASE f \in 1 .. Len(ssaFns)
  <2>1. fn \in SSA_Fns
    BY <1>1, <1>3, CodeLists
  <2>2. r.insts = fn.insts \o insts
    BY <1>2, <2>1 DEF SSA_Fns
  <2>3. ssaFns' = [ssaFns EXCEPT ![f] = r]
    BY <1>1, <1>2, <2>1 DEF Emit, SSA_Fns
  <2> QED BY <1>1, <2>2, <2>3, CodeAppended
<1>4. CASE f \notin 1 .. Len(ssaFns)
  <2>1. DOMAIN ssaFns = 1 .. Len(ssaFns)
    BY CodeLists, LenProperties
  <2>2. ssaFns' = ssaFns
    BY <1>4, <2>1, CodeLists DEF Emit
  <2> QED BY <2>2, CodeSame
<1> QED
  BY <1>3, <1>4

LEMMA NextCode == ASSUME Inv, Next PROVE CodeStays
<1>1. CASE UNCHANGED irVars
  BY <1>1, CodeSame DEF irVars
<1>2. CASE AllocFn
  <2>1. ssaFns' = Append(ssaFns, SSA_Fn)
    BY <1>2 DEF AllocFn
  <2>2. SSA_Fn \in {SSA_Fn} \cup SSA_Fns /\ ssaFns \in Seq({SSA_Fn} \cup SSA_Fns)
    BY CodeLists, SeqMonotonic
  <2>3. \A g \in 1 .. Len(ssaFns) : ssaFns'[g] = ssaFns[g]
    BY <2>1, <2>2, CodeLists, OneMore
  <2>4. ASSUME NEW g \in 1 .. Len(ssaFns) PROVE IsPrefix(ssaFns[g].insts, ssaFns[g].insts)
    <3>1. ssaFns[g].insts \in Seq(Insts)
      BY CodeLists
    <3> QED BY <3>1, PrefixConcat
  <2> QED BY <2>3, <2>4 DEF CodeStays
<1>3. ASSUME NEW r, ssaFns' = [ssaFns EXCEPT ![f] = r],
             f \in 1 .. Len(ssaFns) => r.insts = ssaFns[f].insts
      PROVE  CodeStays
  <2>1. << >> \in Seq(Nat)
    BY EmptySeq
  <2>2. f \in 1 .. Len(ssaFns) => r.insts = ssaFns[f].insts \o << >>
    <3>1. f \in 1 .. Len(ssaFns) => ssaFns[f].insts \in Seq(Insts)
      BY CodeLists
    <3> QED BY <1>3, <3>1, ConcatEmptySeq
  <2> QED BY <1>3, <2>1, <2>2, CodeAppended
<1>4. CASE TranslateParam
  <2>1. PICK fn, regs, reg : /\ fn = ssaFns[f] /\ regs = new_regs(paramEntry[f][p])
                             /\ reg = sym_table_reg(paramEntry[f][p])
    OBVIOUS
  <2>2. PICK r : r = [fn EXCEPT !.regs = fn.regs \o regs, !.params = Append(fn.params, reg)]
    OBVIOUS
  <2>3. CASE f \in 1 .. Len(ssaFns)
    <3>1. fn \in SSA_Fns
      BY <2>1, <2>3, CodeLists
    <3>2. r.insts = fn.insts
      BY <2>2, <3>1 DEF SSA_Fns
    <3>3. UNCHANGED irVars \/ ssaFns' = [ssaFns EXCEPT ![f] = r]
      BY <1>4, <2>1, <2>2, <3>1 DEF TranslateParam, Fails, SSA_Fns
    <3> QED BY <1>1, <1>3, <2>1, <3>2, <3>3
  <2>4. CASE f \notin 1 .. Len(ssaFns)
    <3>1. DOMAIN ssaFns = 1 .. Len(ssaFns)
      BY CodeLists, LenProperties
    <3>2. \/ ssaFns' = ssaFns
          \/ ssaFns' = [ssaFns EXCEPT ![f].regs = @ \o regs, ![f].params = Append(@, reg)]
      BY <1>4, <2>1 DEF TranslateParam, Fails, irVars
    <3>3. ssaFns' = ssaFns
      BY <2>4, <3>1, <3>2, CodeLists
    <3> QED BY <3>3, CodeSame
  <2> QED BY <2>3, <2>4
<1>5. CASE Ir_LeaveFn
  <2>1. PICK fn : fn = ssaFns[f]
    OBVIOUS
  <2>2. PICK r : r = [fn EXCEPT !.name = Fn.name]
    OBVIOUS
  <2>3. ssaFns' = [ssaFns EXCEPT ![f] = r]
    BY <1>5, <2>1, <2>2 DEF Ir_LeaveFn
  <2>4. f \in 1 .. Len(ssaFns) => r.insts = ssaFns[f].insts
    BY <2>1, <2>2, CodeLists DEF SSA_Fns
  <2> QED BY <1>3, <2>3, <2>4
<1>6. ASSUME NEW inst, EmitSized(inst) PROVE CodeStays
  <2>1. <<inst>> \in Seq({inst})
    BY OneElement
  <2>2. UNCHANGED irVars \/ Emit(<<inst.sz>>, <<inst>>)
    BY <1>6 DEF EmitSized, EmitResult, Fails
  <2> QED BY <1>1, <2>1, <2>2, EmitStays
<1>7. CASE TranslateInt \/ TranslateBinop \/ TranslateCall
  <2>1. UNCHANGED irVars \/ \E inst : EmitSized(inst)
    BY <1>7, Zenon DEF TranslateInt, TranslateBinop, TranslateCall, Fails
  <2> QED BY <1>1, <1>6, <2>1
<1>8. CASE TranslateVar \/ EndLet \/ EndExpr \/ EndReturn
  <2>1. \/ UNCHANGED irVars
        \/ \E regs : Emit(regs, << >>)
        \/ \E regs, inst : Emit(regs, <<inst>>)
    BY <1>8, Zenon DEF TranslateVar, EndLet, EndExpr, EndReturn, Fails
  <2>2. << >> \in Seq(Nat) /\ \A inst : <<inst>> \in Seq({inst})
    BY EmptySeq, OneElement
  <2> QED BY <1>1, <2>1, <2>2, EmitStays
<1>9. CASE Ir_EnterFn \/ TranslateStmt \/ \E t \in {"binop", "funcall"} : TranslateArgs(t)
  BY <1>1, <1>9 DEF Ir_EnterFn, TranslateStmt, TranslateArgs
<1> QED
  BY <1>1, <1>2, <1>4, <1>5, <1>7, <1>8, <1>9 DEF Next, Semantics, Ir_Next

(* A let that has a type keeps it: only Infer writes one, and only where   *)
(* there is none.                                                          *)
LetTypesStay ==
  \A g \in DOMAIN stmtType : \A i \in DOMAIN stmtType[g] :
    stmtType[g][i] # NoType => stmtType'[g][i] = stmtType[g][i]

LEMMA NextLetTypes ==
  ASSUME Inv, Next
  PROVE  LetTypesStay
<1>1. CASE UNCHANGED stmtType
  BY <1>1 DEF LetTypesStay
<1>2. CASE Names_Next
  <2>1. UNCHANGED stmtType
    BY <1>2 DEF Names_Next, DeclareFn, Names_EnterFn, InsertParam, ResolveLet, ResolveStmt, ResolveName,
                ResolveOperands, Names_LeaveFn, Stop, annotations
  <2> QED BY <1>1, <2>1
<1>3. CASE Types_EndStmt
  <2>1. (\E how : Stop(how)) \/ UNCHANGED annotations \/ (stmtType[f][s] = NoType /\ Infer)
    BY <1>3, Zenon DEF Types_EndStmt
  <2>2. ASSUME stmtType[f][s] = NoType, Infer PROVE LetTypesStay
    <3>1. stmtType' = [stmtType EXCEPT ![f][s] = exprType[Stmt.value]]
      BY <2>2 DEF Infer
    <3>2. ASSUME NEW g \in DOMAIN stmtType, NEW i \in DOMAIN stmtType[g], stmtType[g][i] # NoType
          PROVE  stmtType'[g][i] = stmtType[g][i]
      BY <2>2, <3>1, <3>2
    <3> QED BY <3>2 DEF LetTypesStay
  <2>3. (\E how : Stop(how)) \/ UNCHANGED annotations => UNCHANGED stmtType
    BY DEF Stop, annotations
  <2> QED BY <1>1, <2>1, <2>2, <2>3
<1>4. CASE Types_Next /\ ~Types_EndStmt
  <2>1. UNCHANGED stmtType
    BY <1>4 DEF Types_Next, BuildFnType, Types_EnterFn, Types_Stmt, TypeInt, EnterBinop, TypeBinop, TypeName,
                CheckArg, TypeCall, Types_LeaveFn, SetType, Stop, annotations
  <2> QED BY <1>1, <2>1
<1>5. CASE CheckReturns \/ EndPhase
  <2>1. UNCHANGED stmtType
    BY <1>5 DEF CheckReturns, EndPhase, Stop, annotations
  <2> QED BY <1>1, <2>1
<1>6. CASE Ir_Next
  <2>1. CASE AllocFn
    BY <1>1, <2>1 DEF AllocFn, annotations
  <2>2. CASE ~AllocFn
    BY <1>1, <1>6, <2>2, IrWrites DEF Fails, Stop, annotations
  <2> QED BY <2>1, <2>2
<1> QED
  BY <1>2, <1>3, <1>4, <1>5, <1>6 DEF Next, Semantics

LEMMA NextKeeps ==
  ASSUME Inv, Unshared(prog), Unbound, TypeInv, NEW own, Owned(own), Sized(own), Next
  PROVE  KeepsFilledIn
<1>1. PICK owner, slot : Tracked(own, owner, slot) /\ SizeInv(own, owner)
  BY DEF Sized
<1>2. Placed(owner, slot)
  BY <1>1 DEF Tracked
<1>3. Grows /\ BoundStay /\ LetTypesStay /\ IdsStay /\ CodeStays
  BY <1>2, NextTyped, NextUnbound, NextLetTypes, NextIds, NextCode
<1>4. DOMAIN exprVar = Nodes /\ DOMAIN exprType = Nodes
  BY InvParts DEF AnnotationsOK, Nodes
<1>5. DOMAIN entries = 1 .. Len(entries) /\ DOMAIN ssaFns = 1 .. Len(ssaFns)
  BY InvParts, CodeLists, LenProperties DEF TableOK
<1>6. /\ \A n \in DOMAIN exprVar : exprVar[n] # NULL => exprVar'[n] = exprVar[n]
      /\ \A n \in DOMAIN exprType : exprType[n] # NoType => exprType'[n] = exprType[n]
  BY <1>3, <1>4 DEF Grows, BoundStay
<1>7. \A e \in DOMAIN entries :
        /\ entries[e].type # NoType => entries'[e].type = entries[e].type
        /\ entries[e].id # 0 => entries'[e].id = entries[e].id
  BY <1>3, <1>5 DEF Grows, IdsStay
<1>8. \A g \in DOMAIN ssaFns :
        /\ IsPrefix(ssaFns[g].insts, ssaFns'[g].insts)
        /\ g # f => ssaFns'[g] = ssaFns[g]
  BY <1>3, <1>5 DEF CodeStays
<1> QED
  BY <1>3, <1>6, <1>7, <1>8 DEF KeepsFilledIn, LetTypesStay

(* What is invariant in such a program, the ownership followed through.    *)
Filled ==
  /\ Inv /\ Separate(prog) /\ Unshared(prog) /\ Unbound
  /\ \A own : Owned(own) => TypeInv /\ Sized(own)

LEMMA InitFilled == Init /\ Separate(prog) /\ Unshared(prog) => Filled
<1>1. Init => Unbound
  BY DEF Init, InitNames, Unbound, Nodes
<1> QED BY <1>1, InitOK, InitSized DEF Filled

LEMMA NextFilled == Filled /\ [Next]_vars => Filled'
<1>1. ASSUME Filled, [Next]_vars PROVE Filled'
  <2>1. Inv' /\ prog' = prog
    BY <1>1, NextOK, ProgKept DEF vars, Filled
  <2>2. ASSUME NEW own, Owned(own)' PROVE TypeInv' /\ Sized(own)'
    <3>1. Owned(own)
      BY <1>1, <2>2, OwnedKept DEF Filled
    <3> QED BY <1>1, <3>1, NextSized DEF Filled
  <2>3. Unbound'
    <3>1. CASE UNCHANGED vars
      BY <1>1, <3>1 DEF vars, Unbound, Nodes, Filled
    <3> QED BY <1>1, <3>1, NextUnbound DEF Filled
  <2> QED BY <1>1, <2>1, <2>2, <2>3 DEF Filled
<1> QED BY <1>1

LEMMA FilledKeeps == ASSUME Filled, Next PROVE KeepsFilledIn
<1>1. \E own : Owned(own)
  BY DEF Separate, Owned, Nodes, Fns, Filled
<1> QED BY <1>1, NextKeeps DEF Filled

(* In every program whose functions share no node and that has no node in  *)
(* two places, as AcceptedIsSeparate proves of all the parser accepts, what *)
(* a pass filled in stays: resolve_expr_names binds a name once, because it *)
(* never comes to a node twice, a type that resolve_types gave is the only  *)
(* one that is right, an entry keeps the register it got first, and         *)
(* translate_ast only appends to the instructions of its current function.  *)
THEOREM FilledIn == Spec /\ Separate(prog) /\ Unshared(prog) => FilledInOnce
<1>1. Filled /\ [Next]_vars => [KeepsFilledIn]_vars
  BY FilledKeeps
<1> QED
  BY <1>1, InitFilled, NextFilled, PTL DEF Spec, FilledInOnce

-----------------------------------------------------------------------------
(* The parts of the program text, and the entries of its declarations.     *)
StmtsIn(g) == 1 .. Len(prog.fns[g].stmts)
StmtAt(g, i) == prog.fns[g].stmts[i]
ParamAt(g, k) == prog.fns[g].params[k]

EntryOf(b, g) ==
  CASE b.kind = "let" -> stmtVar[g][b.at]
    [] b.kind = "param" -> paramEntry[g][b.at]
    [] b.kind = "fn" -> fnEntry[b.at]
    [] b.kind = "none" -> NULL

-----------------------------------------------------------------------------
(* The name pass.                                                          *)
Naming == phase \in {"declare", "names"}

(* An entry has the name of the declaration it was made for.               *)
EntryNames ==
  Naming =>
  /\ \A g \in 1 .. Len(fnEntry) : entries[fnEntry[g]].pos = prog.fns[g].name
  /\ \A g \in Fns : \A k \in 1 .. Len(paramEntry[g]) :
       paramEntry[g][k] # NULL => entries[paramEntry[g][k]].pos = ParamAt(g, k).name
  /\ \A g \in Fns : \A i \in StmtsIn(g) :
       stmtVar[g][i] # NULL => entries[stmtVar[g][i]].pos = StmtAt(g, i).name

(* The statement was reached: its let is declared, its value being looked  *)
(* at or done.                                                             *)
Passed(g, i) == phase # "declare" /\ (phase = "names" => g < f \/ (g = f /\ i < s))

(* Which lets and which parameters have entries: of parameters of the same *)
(* name, the first.                                                        *)
LetsMade ==
  \A g \in Fns : \A i \in StmtsIn(g) :
    stmtVar[g][i] # NULL <=> Passed(g, i) /\ StmtAt(g, i).t = "let"
ParamsMade ==
  \A g \in Fns : \A k \in 1 .. Len(paramEntry[g]) :
    paramEntry[g][k] # NULL <=> \A j \in 1 .. k - 1 : ParamAt(g, j).name # ParamAt(g, k).name

ChainsHashed ==
  Naming => \A sc \in 1 .. Len(scopes) : \A b \in 0 .. INIT_BUCKETS - 1 :
    \A k \in 1 .. Len(scopes[sc].buckets[b]) : bucket_of(entries[scopes[sc].buckets[b][k]].pos) = b

(* The global scope holds the functions, and the scope of the current      *)
(* function its parameters and lets so far.                                *)
InScopes ==
  Naming =>
    /\ \A e \in 1 .. Len(entries) : InChain(global, e) <=> e <= Len(fnEntry)
    /\ phase = "names" /\ p > 0 =>
         /\ f \in Fns
         /\ \A e \in 1 .. Len(entries) :
              InChain(scope, e) <=> \/ \E k \in 1 .. Len(paramEntry[f]) : paramEntry[f][k] = e
                                    \/ \E i \in StmtsIn(f) : stmtVar[f][i] = e

(* What was declared was not declared before.                              *)
NoRepeats ==
  /\ \A g, h \in 1 .. Len(fnEntry) : prog.fns[g].name = prog.fns[h].name => g = h
  /\ \A g \in Fns : \A i \in StmtsIn(g) :
       Passed(g, i) /\ StmtAt(g, i).t = "let" =>
         /\ B!LetsNamed(StmtAt(g, i).name, g, i) = {i}
         /\ B!ParamsNamed(StmtAt(g, i).name, g) = {}

(* A name is connected to the entry of the declaration it refers to.       *)
NamedNode(n) == Expr(n).t \in {"var", "funcall"}
Resolved(n, g, i) ==
  NamedNode(n) => LET b == B!Binding(Expr(n).name, g, i)
                  IN  b.kind # "none" /\ exprVar[n] = EntryOf(b, g)

(* The walk has yet to come to node n.                                     *)
ToResolve(n) == \E j \in 1 .. Len(todo) : n \in B!Nodes(todo[j].n)
NamesWalk ==
  /\ phase = "names" /\ f \in Fns /\ p <= Len(Fn.params) => s = 1
  /\ phase = "names" /\ todo # << >> =>
    /\ f \in Fns /\ s - 1 \in StmtsIn(f) /\ p > Len(Fn.params)
    /\ \A j \in 1 .. Len(todo) : todo[j].n \in B!Nodes(StmtAt(f, s - 1).value)
AllResolved ==
  \A g \in Fns : \A i \in StmtsIn(g) : Passed(g, i) =>
    \A n \in B!Nodes(StmtAt(g, i).value) :
      Resolved(n, g, i) \/ (phase = "names" /\ g = f /\ i = s - 1 /\ ToResolve(n))

NamesInv ==
  /\ EntryNames /\ LetsMade /\ ParamsMade /\ ChainsHashed /\ InScopes /\ NoRepeats
  /\ NamesWalk /\ AllResolved

-----------------------------------------------------------------------------
(* The type pass.                                                          *)
TypeAt(g, i, n) == B!TypeIn(g)[<<i, n>>]

ParamsTyped ==
  \A g \in Fns : \A k \in 1 .. Len(paramEntry[g]) :
    paramEntry[g][k] # NULL => entries[paramEntry[g][k]].type = ParamAt(g, k).type

(* A let has the type that was written or, once it is done, its value's.   *)
LetRight ==
  \A g \in Fns : \A i \in StmtsIn(g) : StmtAt(g, i).t = "let" =>
    stmtType[g][i] = IF StmtAt(g, i).type # NoType \/ ~LetDone(g, i) THEN StmtAt(g, i).type
                     ELSE TypeAt(g, i, StmtAt(g, i).value)

(* A node is done with the right type, which may be none for the name of a *)
(* let in its own value.                                                   *)
DoneT(n, g, i) == exprType[n] = TypeAt(g, i, n) /\ (exprType[n] # NoType \/ Expr(n).t = "var")
NodeRight ==
  \A g \in Fns : \A i \in StmtsIn(g) : \A n \in B!Nodes(StmtAt(g, i).value) :
    exprType[n] # NoType => exprType[n] = TypeAt(g, i, n)
RootRight ==
  \A g \in Fns : \A i \in StmtsIn(g) :
    LetDone(g, i) /\ StmtAt(g, i).value # NULL => DoneT(StmtAt(g, i).value, g, i)

(* The walk stays in the statement, comes back to an argument only of what *)
(* can be called with as many, and has what a task needs done before it.   *)
ArgTask(t) ==
  /\ Expr(t.n).t = "funcall" /\ exprVar[t.n] # NULL /\ CallType(t.n) \in FnTypes
  /\ Len(CallType(t.n).args) = Len(Expr(t.n).args)
  /\ t.i \in 1 .. Len(Expr(t.n).args)
TypesWalk ==
  phase = "types" => \A j \in 1 .. Len(todo) :
    /\ todo[j].k # "stmt" => todo[j].n \in B!Nodes(Stmt.value)
    /\ todo[j].k = "arg" => ArgTask(todo[j])
Needs(t) ==
  {n \in Nodes : \/ t.k = "leave" /\ \E k \in 1 .. Len(Expr(t.n).args) : n = Expr(t.n).args[k]
                 \/ t.k = "arg" /\ n = Expr(t.n).args[t.i]
                 \/ t.k = "stmt" /\ n = Stmt.value}
FirstDone ==
  phase = "types" => \A j \in 1 .. Len(todo) : \A n \in Needs(todo[j]) :
    DoneT(n, f, s) \/ \E l \in 1 .. j - 1 : todo[l].n = n /\ todo[l].k \in {"enter", "leave"}

TypesInv == ParamsTyped /\ LetRight /\ NodeRight /\ RootRight /\ TypesWalk /\ FirstDone

-----------------------------------------------------------------------------
(* The translation.                                                        *)
FnsAlloced ==
  \A g \in Fns : (phase = "alloc_fns" /\ g < f) \/ phase \in {"translate", "done"} =>
    entries[g].fn # << >>

(* Parameters and statements that were translated have sizes.              *)
ParamDone(g, k) == phase = "done" \/ (phase = "translate" /\ (g < f \/ (g = f /\ k < p)))
ParamsSized ==
  \A g \in Fns : \A k \in 1 .. Len(prog.fns[g].params) : ParamDone(g, k) =>
    paramEntry[g][k] # NULL /\ ParamAt(g, k).type.t \in IntTypes
Translated(g, i) == phase = "done" \/ (phase = "translate" /\ (g < f \/ (g = f /\ i < s)))

(* The task translates node n, now or after what it leads to.              *)
Covers(t, n) == (t.k = "enter" /\ n \in B!Nodes(t.n)) \/ (t.k = "leave" /\ n = t.n)
ToTranslate(n) == \E j \in 1 .. Len(todo) : Covers(todo[j], n)
NowTranslating(g, i) == phase = "translate" /\ g = f /\ i = s /\ todo # << >>
NodesSized ==
  \A g \in Fns : \A i \in StmtsIn(g) : Translated(g, i) \/ NowTranslating(g, i) =>
    \A n \in B!Nodes(StmtAt(g, i).value) :
      exprType[n].t \in IntTypes \/ (NowTranslating(g, i) /\ ToTranslate(n))
TranslateWalk ==
  phase = "translate" => \A j \in 1 .. Len(todo) :
    IF todo[j].k = "stmt" THEN j = Len(todo) ELSE todo[j].n \in B!Nodes(Stmt.value)

IrInv == FnsAlloced /\ ParamsSized /\ NodesSized /\ TranslateWalk

-----------------------------------------------------------------------------
(* Induction, and functions defined by recursion.                          *)
LEMMA NatStrong ==
  ASSUME NEW S, \A n \in Nat : (\A m \in Nat : m < n => m \in S) => n \in S
  PROVE  \A n \in Nat : n \in S
<1> DEFINE T == {n \in Nat : n \notin S}
<1>1. CASE T = {}
  BY <1>1
<1>2. CASE T # {}
  <2>1. PICK x \in T : \A y \in T : x <= y
    BY <1>2, LeastNat
  <2>2. \A m \in Nat : m < x => m \in S
    BY <2>1
  <2> QED BY <2>1, <2>2
<1> QED BY <1>1, <1>2

LEMMA NatStep ==
  ASSUME NEW S, 0 \in S, \A n \in Nat : n \in S => n + 1 \in S
  PROVE  \A n \in Nat : n \in S
<1>1. ASSUME NEW n \in Nat, \A m \in Nat : m < n => m \in S PROVE n \in S
  <2>1. CASE n = 0
    BY <2>1
  <2>2. CASE n # 0
    <3>1. n - 1 \in Nat /\ n - 1 < n /\ n = (n - 1) + 1
      BY <2>2
    <3> QED BY <1>1, <3>1
  <2> QED BY <2>1, <2>2
<1> QED BY <1>1, NatStrong

-----------------------------------------------------------------------------
(* The nodes of an expression.                                             *)
Below(sub, n) ==
  IF n = 0 THEN {} ELSE {n} \cup UNION {sub[Expr(n).args[k]] : k \in 1 .. Len(Expr(n).args)}

LEMMA BelowAgrees ==
  ASSUME NEW n, NEW sub, NEW sub2,
         n # 0 => \A k \in 1 .. Len(Expr(n).args) : sub[Expr(n).args[k]] = sub2[Expr(n).args[k]]
  PROVE  Below(sub, n) = Below(sub2, n)
<1>1. CASE n = 0
  BY <1>1 DEF Below
<1>2. CASE n # 0
  <2>1. UNION {sub[Expr(n).args[k]] : k \in 1 .. Len(Expr(n).args)}
          = UNION {sub2[Expr(n).args[k]] : k \in 1 .. Len(Expr(n).args)}
    BY <1>2
  <2> QED BY <1>2, <2>1 DEF Below
<1> QED BY <1>1, <1>2

(* Operands are numbered below the node that has them.                     *)
LEMMA ArgsBelow ==
  ASSUME prog \in Programs, NEW n \in Nodes, NEW k \in 1 .. Len(Expr(n).args)
  PROVE  Expr(n).args[k] \in 1 .. n - 1 /\ Expr(n).args[k] \in Nodes
<1>1. Len(prog.exprs) \in Nat /\ ParsedExpr(Expr(n), n)
  BY ProgramShape DEF Expr
<1> QED BY <1>1 DEF ParsedExpr, Nodes

LEMMA NodesExist ==
  ASSUME prog \in Programs
  PROVE  \E sub : sub = [n \in 0 .. Len(prog.exprs) |-> Below(sub, n)]
<1> DEFINE Ok(m) == \E sub : sub = [n \in 0 .. m |-> Below(sub, n)]
           S == {m \in Nat : m <= Len(prog.exprs) => Ok(m)}
<1>0. Len(prog.exprs) \in Nat
  BY ProgramShape
<1>1. 0 \in S
  <2>1. PICK sub : sub = [n \in 0 .. 0 |-> {}]
    OBVIOUS
  <2>2. \A n \in 0 .. 0 : Below(sub, n) = {}
    BY DEF Below
  <2>3. sub = [n \in 0 .. 0 |-> Below(sub, n)]
    BY <2>1, <2>2
  <2> QED BY <2>3
<1>2. ASSUME NEW m \in Nat, m \in S PROVE m + 1 \in S
  <2> SUFFICES ASSUME m + 1 <= Len(prog.exprs) PROVE Ok(m + 1)
    OBVIOUS
  <2>1. PICK sub : sub = [n \in 0 .. m |-> Below(sub, n)]
    BY <1>0, <1>2
  <2>2. PICK more : more = [n \in 0 .. m + 1 |-> IF n <= m THEN sub[n] ELSE Below(sub, n)]
    OBVIOUS
  <2>3. ASSUME NEW n \in 0 .. m + 1 PROVE Below(more, n) = Below(sub, n)
    <3>1. ASSUME n # 0, NEW k \in 1 .. Len(Expr(n).args)
          PROVE  more[Expr(n).args[k]] = sub[Expr(n).args[k]]
      <4>1. n \in Nodes
        BY <1>0, <3>1, <2>3 DEF Nodes
      <4>2. Expr(n).args[k] \in 1 .. n - 1
        BY <3>1, <4>1, ArgsBelow
      <4>3. Expr(n).args[k] \in 0 .. m
        BY <4>2
      <4> QED BY <2>2, <4>3
    <3> QED BY <3>1, BelowAgrees
  <2>4. more = [n \in 0 .. m + 1 |-> Below(more, n)]
    <3>1. \A n \in 0 .. m + 1 : more[n] = Below(more, n)
      BY <2>1, <2>2, <2>3
    <3> QED BY <2>2, <3>1
  <2> QED BY <2>4
<1> HIDE DEF Ok
<1>3. \A n \in Nat : n \in S
  BY <1>1, <1>2, NatStep
<1>4. Ok(Len(prog.exprs))
  BY <1>0, <1>3
<1> QED BY <1>4 DEF Ok

LEMMA NodesDef ==
  ASSUME prog \in Programs, NEW n \in 0 .. Len(prog.exprs)
  PROVE  B!Nodes(n) = IF n = 0 THEN {}
                      ELSE {n} \cup UNION {B!Nodes(Expr(n).args[k]) : k \in 1 .. Len(Expr(n).args)}
<1> DEFINE sub == CHOOSE sub2 : sub2 = [m \in 0 .. Len(prog.exprs) |->
                    IF m = 0 THEN {}
                    ELSE {m} \cup UNION {sub2[prog.exprs[m].args[i]] : i \in 1 .. Len(prog.exprs[m].args)}]
<1>1. \A root : B!Nodes(root) = sub[root]
  BY Zenon DEF B!Nodes, B!Node
<1>2. sub = [m \in 0 .. Len(prog.exprs) |->
                    IF m = 0 THEN {}
                    ELSE {m} \cup UNION {sub[prog.exprs[m].args[i]] : i \in 1 .. Len(prog.exprs[m].args)}]
  BY Zenon, NodesExist DEF Below, Expr
<1> HIDE DEF sub
<1>3. sub[n] = Below(sub, n)
  BY <1>2 DEF Below, Expr
<1> QED BY <1>1, <1>3 DEF Below

LEMMA NoNodes == ASSUME prog \in Programs PROVE B!Nodes(NULL) = {}
  BY NodesDef, ProgramShape DEF NULL

LEMMA NodesOf ==
  ASSUME prog \in Programs, NEW n \in Nodes
  PROVE  /\ n \in B!Nodes(n)
         /\ \A m : m \in B!Nodes(n) <=>
              m = n \/ \E k \in 1 .. Len(Expr(n).args) : m \in B!Nodes(Expr(n).args[k])
<1>1. n \in 0 .. Len(prog.exprs) /\ n # 0
  BY ProgramShape DEF Nodes
<1> QED BY <1>1, NodesDef

(* A set closed under operands holds all nodes of an expression in it.     *)
LEMMA NodesLeast ==
  ASSUME prog \in Programs, NEW S, NEW n \in Nodes, n \in S,
         \A m \in Nodes : m \in S => \A k \in 1 .. Len(Expr(m).args) : Expr(m).args[k] \in S
  PROVE  \A x \in B!Nodes(n) : x \in S
<1> DEFINE T == {m \in Nat : m \in Nodes /\ m \in S => \A x \in B!Nodes(m) : x \in S}
<1>1. ASSUME NEW m \in Nat, \A j \in Nat : j < m => j \in T PROVE m \in T
  <2> SUFFICES ASSUME m \in Nodes, m \in S, NEW x \in B!Nodes(m) PROVE x \in S
    OBVIOUS
  <2>1. CASE x = m
    BY <2>1
  <2>2. CASE x # m
    <3>1. PICK k \in 1 .. Len(Expr(m).args) : x \in B!Nodes(Expr(m).args[k])
      BY <2>2, NodesOf
    <3>2. Expr(m).args[k] \in 1 .. m - 1 /\ Expr(m).args[k] \in Nodes
      BY ArgsBelow
    <3>3. Expr(m).args[k] \in Nat /\ Expr(m).args[k] < m /\ Expr(m).args[k] \in S
      BY <3>2
    <3> QED BY <1>1, <3>1, <3>2, <3>3
  <2> QED BY <2>1, <2>2
<1>2. \A m \in Nat : m \in T
  BY <1>1, NatStrong
<1>3. n \in Nat
  BY ProgramShape DEF Nodes
<1> QED BY <1>2, <1>3

LEMMA NodesAre ==
  ASSUME prog \in Programs, NEW n \in Nodes
  PROVE  \A x \in B!Nodes(n) : x \in Nodes /\ x <= n
<1>1. \A m \in Nodes : m \in 1 .. n =>
        \A k \in 1 .. Len(Expr(m).args) : Expr(m).args[k] \in Nodes /\ Expr(m).args[k] \in 1 .. n
  <2>1. n \in Nat
    BY ProgramShape DEF Nodes
  <2> QED BY <2>1, ArgsBelow
<1>2. \A m \in Nodes : m \in Nodes \cap 1 .. n =>
        \A k \in 1 .. Len(Expr(m).args) : Expr(m).args[k] \in Nodes \cap 1 .. n
  BY <1>1
<1>3. n \in Nodes \cap 1 .. n
  BY ProgramShape DEF Nodes
<1>4. \A x \in B!Nodes(n) : x \in Nodes \cap 1 .. n
  BY <1>2, <1>3, NodesLeast
<1> QED BY <1>4

LEMMA NodesClosed ==
  ASSUME prog \in Programs, NEW n \in Nodes, NEW m \in B!Nodes(n),
         NEW k \in 1 .. Len(Expr(m).args)
  PROVE  Expr(m).args[k] \in B!Nodes(n)
<1> DEFINE S == {x \in B!Nodes(n) : \A j \in 1 .. Len(Expr(x).args) : Expr(x).args[j] \in B!Nodes(n)}
           T == {r \in Nat : r \in Nodes =>
                   \A x \in B!Nodes(r) : \A j \in 1 .. Len(Expr(x).args) : Expr(x).args[j] \in B!Nodes(r)}
<1>1. ASSUME NEW r \in Nat, \A q \in Nat : q < r => q \in T PROVE r \in T
  <2> SUFFICES ASSUME r \in Nodes, NEW x \in B!Nodes(r), NEW j \in 1 .. Len(Expr(x).args)
               PROVE  Expr(x).args[j] \in B!Nodes(r)
    OBVIOUS
  <2>1. CASE x = r
    <3>1. Expr(x).args[j] \in Nodes
      BY <2>1, ArgsBelow
    <3> QED BY <2>1, <3>1, NodesOf
  <2>2. CASE x # r
    <3>1. PICK i \in 1 .. Len(Expr(r).args) : x \in B!Nodes(Expr(r).args[i])
      BY <2>2, NodesOf
    <3>2. Expr(r).args[i] \in 1 .. r - 1 /\ Expr(r).args[i] \in Nodes
      BY ArgsBelow
    <3>3. Expr(x).args[j] \in B!Nodes(Expr(r).args[i])
      BY <1>1, <3>1, <3>2
    <3> QED BY <3>3, NodesOf
  <2> QED BY <2>1, <2>2
<1>2. \A r \in Nat : r \in T
  BY <1>1, NatStrong
<1>3. n \in Nat
  BY ProgramShape DEF Nodes
<1> QED BY <1>2, <1>3

-----------------------------------------------------------------------------
(* No node is in two statements.                                           *)
LEMMA ParentIn ==
  ASSUME prog \in Programs, NEW n \in Nodes, NEW x \in B!Nodes(n), x # n
  PROVE  \E m \in B!Nodes(n) : \E k \in 1 .. Len(Expr(m).args) : x = Expr(m).args[k]
<1> DEFINE S == {x2 \in B!Nodes(n) :
                   x2 = n \/ \E m \in B!Nodes(n) : \E k \in 1 .. Len(Expr(m).args) : x2 = Expr(m).args[k]}
<1>1. n \in S
  BY NodesOf
<1>2. \A m \in Nodes : m \in S => \A k \in 1 .. Len(Expr(m).args) : Expr(m).args[k] \in S
  BY NodesClosed
<1> HIDE DEF S
<1>3. x \in S
  BY <1>1, <1>2, NodesLeast
<1> QED BY <1>3 DEF S

LEMMA ValueNode ==
  ASSUME prog \in Programs, NEW g \in Fns, NEW i \in StmtsIn(g), StmtAt(g, i).value # NULL
  PROVE  StmtAt(g, i).value \in Nodes
<1>1. StmtAt(g, i) \in Stmts(Nodes)
  BY ProgramShape, ElementOfSeq DEF StmtsIn, StmtAt
<1> QED BY <1>1 DEF Stmts, NULL

LEMMA InStatement ==
  ASSUME prog \in Programs, NEW g \in Fns, NEW i \in StmtsIn(g), NEW n \in B!Nodes(StmtAt(g, i).value)
  PROVE  StmtAt(g, i).value # NULL /\ StmtAt(g, i).value \in Nodes /\ n \in Nodes
<1>1. StmtAt(g, i).value # NULL
  BY NoNodes
<1>2. StmtAt(g, i).value \in Nodes
  BY <1>1, ValueNode
<1> QED BY <1>1, <1>2, NodesAre

LEMMA OneStatement ==
  ASSUME prog \in Programs, Unshared(prog),
         NEW g \in Fns, NEW i \in StmtsIn(g), NEW h \in Fns, NEW j \in StmtsIn(h),
         NEW n \in B!Nodes(StmtAt(g, i).value), n \in B!Nodes(StmtAt(h, j).value)
  PROVE  g = h /\ i = j
<1> DEFINE u == StmtAt(g, i).value
           v == StmtAt(h, j).value
           Both == {x \in Nat : x \in B!Nodes(u) /\ x \in B!Nodes(v)}
           Left == {k \in Nat : Len(prog.exprs) - k \in Both}
<1>0. ArgsApart(prog) /\ ValuesApart(prog) /\ ArgNoValue(prog)
  BY UnsharedParts
<1>1. /\ u \in Nodes /\ v \in Nodes /\ u # NULL
      /\ \A x \in B!Nodes(u) : x \in Nodes /\ x <= u
      /\ \A x \in B!Nodes(v) : x \in Nodes /\ x <= v
  BY InStatement, NodesAre
<1>2. Len(prog.exprs) \in Nat
  BY ProgramShape
<1> HIDE DEF u, v
<1>3. n \in Both /\ n \in Nodes
  BY <1>1, <1>2 DEF Nodes, u, v
<1>4. Len(prog.exprs) - n \in Left
  BY <1>2, <1>3 DEF Nodes
<1>5. PICK k \in Left : \A l \in Left : k <= l
  BY <1>4, LeastNat
<1>6. PICK x \in Both : x = Len(prog.exprs) - k
  BY <1>5
<1>7. \A y \in Both : y <= x
  <2>1. ASSUME NEW y \in Both PROVE y <= x
    <3>1. y \in Nodes
      BY <1>1
    <3>2. Len(prog.exprs) - y \in Nat /\ Len(prog.exprs) - (Len(prog.exprs) - y) = y
      BY <1>2, <3>1 DEF Nodes
    <3>3. Len(prog.exprs) - y \in Left
      BY <3>2
    <3>4. k <= Len(prog.exprs) - y
      BY <1>5, <3>3
    <3>5. k \in Nat /\ y \in Nat
      BY <1>2, <1>5, <3>1 DEF Nodes
    <3> HIDE DEF Both, Left
    <3> QED BY <1>2, <1>6, <3>4, <3>5
  <2> QED BY <2>1
<1>8. x \in B!Nodes(u) /\ x \in B!Nodes(v) /\ x \in Nodes
  BY <1>1
<1> HIDE DEF Both, Left
<1>9. CASE x # u /\ x # v
  <2>1. PICK m \in B!Nodes(u) : \E l \in 1 .. Len(Expr(m).args) : x = Expr(m).args[l]
    BY <1>1, <1>8, <1>9, ParentIn
  <2>2. PICK m2 \in B!Nodes(v) : \E l \in 1 .. Len(Expr(m2).args) : x = Expr(m2).args[l]
    BY <1>1, <1>8, <1>9, ParentIn
  <2>3. m \in Nodes /\ m2 \in Nodes
    BY <1>1, <2>1, <2>2
  <2>4. m = m2
    BY <1>0, <2>1, <2>2, <2>3, ZenonT(60) DEF ArgsApart, Nodes, Expr
  <2>5. m \in Both
    BY <1>2, <2>1, <2>2, <2>3, <2>4 DEF Both, Nodes
  <2>6. x < m
    <3>1. PICK l \in 1 .. Len(Expr(m).args) : x = Expr(m).args[l]
      BY <2>1
    <3>2. x \in 1 .. m - 1 /\ m \in Nat
      BY <1>2, <2>3, <3>1, ArgsBelow DEF Nodes
    <3> QED BY <3>2
  <2>7. m <= x
    BY <1>7, <2>5
  <2>8. m \in Nat /\ x \in Nat
    BY <1>2, <1>8, <2>3 DEF Nodes
  <2> QED BY <2>6, <2>7, <2>8
<1>10. ASSUME NEW m \in Nodes, NEW l \in 1 .. Len(Expr(m).args) PROVE Expr(m).args[l] # u /\ Expr(m).args[l] # v
  BY <1>0 DEF ArgNoValue, Nodes, Fns, Expr, u, v, StmtAt, StmtsIn
<1>11. CASE x = u
  <2>1. x = v
    BY <1>1, <1>8, <1>10, <1>11, ParentIn
  <2> QED BY <1>0, <1>1, <1>11, <2>1, ZenonT(60) DEF ValuesApart, Fns, u, v, StmtAt, StmtsIn
<1>12. CASE x = v
  <2>1. x = u
    BY <1>1, <1>8, <1>10, <1>12, ParentIn
  <2> QED BY <1>11, <2>1
<1> QED BY <1>9, <1>11, <1>12

-----------------------------------------------------------------------------
(* The declaration a name refers to.                                       *)
LEMMA FirstIs ==
  ASSUME NEW S \in SUBSET Nat, S # {}
  PROVE  B!First(S) \in S /\ \A j \in S : B!First(S) <= j
<1>1. \E i \in S : \A j \in S : i <= j
  BY LeastNat
<1> QED BY <1>1, Zenon DEF B!First

LEMMA LetsNamedAre ==
  ASSUME NEW g, NEW i, NEW name, NEW j
  PROVE  j \in B!LetsNamed(name, g, i) <=>
           j \in StmtsIn(g) /\ StmtAt(g, j).t = "let" /\ j <= i /\ StmtAt(g, j).name = name
  BY DEF B!LetsNamed, B!StmtsOf, B!Stmts, StmtsIn, StmtAt

LEMMA ParamsNamedAre ==
  ASSUME NEW g, NEW name, NEW k
  PROVE  k \in B!ParamsNamed(name, g) <=>
           k \in 1 .. Len(prog.fns[g].params) /\ ParamAt(g, k).name = name
  BY DEF B!ParamsNamed, B!Params, ParamAt

LEMMA FunctionsNamedAre ==
  ASSUME NEW name, NEW h
  PROVE  h \in B!FunctionsNamed(name) <=> h \in Fns /\ prog.fns[h].name = name
  BY DEF B!FunctionsNamed, B!Functions, Fns

LEMMA NamedAreNat ==
  ASSUME prog \in Programs, NEW g \in Fns, NEW i, NEW name
  PROVE  /\ B!LetsNamed(name, g, i) \subseteq Nat /\ B!ParamsNamed(name, g) \subseteq Nat
         /\ B!FunctionsNamed(name) \subseteq Nat
<1>1. /\ Len(prog.fns) \in Nat /\ Len(prog.fns[g].stmts) \in Nat /\ Len(prog.fns[g].params) \in Nat
  BY ProgramShape, SMTT(60)
<1> QED BY <1>1, LetsNamedAre, ParamsNamedAre, FunctionsNamedAre DEF StmtsIn, Fns

Kinds == {"let", "param", "fn", "none"}

LEMMA BindingIs ==
  ASSUME NEW name, NEW g, NEW i
  PROVE  LET b == B!Binding(name, g, i)
             lets == B!LetsNamed(name, g, i)
             pars == B!ParamsNamed(name, g)
             fns == B!FunctionsNamed(name)
         IN  /\ lets # {} => b.kind = "let" /\ b.at = B!First(lets)
             /\ lets = {} /\ pars # {} => b.kind = "param" /\ b.at = B!First(pars)
             /\ lets = {} /\ pars = {} /\ fns # {} => b.kind = "fn" /\ b.at = B!First(fns)
             /\ lets = {} /\ pars = {} /\ fns = {} => b.kind = "none"
             /\ b.kind \in Kinds
<1> DEFINE lets == B!LetsNamed(name, g, i)
           pars == B!ParamsNamed(name, g)
           fns == B!FunctionsNamed(name)
<1>1. B!Binding(name, g, i) =
        CASE lets # {} -> [kind |-> "let", at |-> B!First(lets)]
          [] lets = {} /\ pars # {} -> [kind |-> "param", at |-> B!First(pars)]
          [] lets = {} /\ pars = {} /\ fns # {} -> [kind |-> "fn", at |-> B!First(fns)]
          [] OTHER -> [kind |-> "none", at |-> 0]
  BY DEF B!Binding
<1> HIDE DEF lets, pars, fns
<1>2. /\ lets # {} => B!Binding(name, g, i) = [kind |-> "let", at |-> B!First(lets)]
      /\ lets = {} /\ pars # {} => B!Binding(name, g, i) = [kind |-> "param", at |-> B!First(pars)]
      /\ lets = {} /\ pars = {} /\ fns # {} =>
           B!Binding(name, g, i) = [kind |-> "fn", at |-> B!First(fns)]
      /\ lets = {} /\ pars = {} /\ fns = {} => B!Binding(name, g, i) = [kind |-> "none", at |-> 0]
  BY <1>1
<1> QED BY <1>2 DEF Kinds, lets, pars, fns

LEMMA BoundToLet ==
  ASSUME prog \in Programs, NEW name, NEW g \in Fns, NEW i, B!Binding(name, g, i).kind = "let"
  PROVE  LET j == B!Binding(name, g, i).at IN
         /\ j \in StmtsIn(g) /\ j <= i /\ StmtAt(g, j).t = "let" /\ StmtAt(g, j).name = name
         /\ \A l \in B!LetsNamed(name, g, i) : j <= l
<1> DEFINE lets == B!LetsNamed(name, g, i)
           b == B!Binding(name, g, i)
<1>1. lets # {} /\ b.at = B!First(lets)
  BY BindingIs, Zenon
<1>2. b.at \in lets /\ \A l \in lets : b.at <= l
  BY <1>1, NamedAreNat, FirstIs
<1> QED BY <1>2, LetsNamedAre

LEMMA BoundToParam ==
  ASSUME prog \in Programs, NEW name, NEW g \in Fns, NEW i, B!Binding(name, g, i).kind = "param"
  PROVE  LET k == B!Binding(name, g, i).at IN
         /\ B!LetsNamed(name, g, i) = {}
         /\ k \in 1 .. Len(prog.fns[g].params) /\ ParamAt(g, k).name = name
         /\ \A j \in 1 .. k - 1 : ParamAt(g, j).name # name
<1> DEFINE pars == B!ParamsNamed(name, g)
           b == B!Binding(name, g, i)
<1>1. B!LetsNamed(name, g, i) = {} /\ pars # {} /\ b.at = B!First(pars)
  BY BindingIs, Zenon
<1>2. b.at \in pars /\ \A l \in pars : b.at <= l
  BY <1>1, NamedAreNat, FirstIs
<1>3. b.at \in 1 .. Len(prog.fns[g].params) /\ ParamAt(g, b.at).name = name
  BY <1>2, ParamsNamedAre
<1>4. ASSUME NEW k \in 1 .. b.at - 1, ParamAt(g, k).name = name PROVE FALSE
  <2>1. Len(prog.fns[g].params) \in Nat
    BY ProgramShape
  <2>2. k \in 1 .. Len(prog.fns[g].params)
    BY <1>3, <1>4, <2>1
  <2>3. k \in pars
    BY <1>4, <2>2, ParamsNamedAre
  <2> HIDE DEF pars, b
  <2>4. b.at <= k
    BY <1>2, <2>3
  <2> QED BY <1>3, <1>4, <2>1, <2>4
<1> QED BY <1>1, <1>3, <1>4

LEMMA BoundToFn ==
  ASSUME prog \in Programs, NEW name, NEW g \in Fns, NEW i, B!Binding(name, g, i).kind = "fn"
  PROVE  LET h == B!Binding(name, g, i).at IN
         /\ B!LetsNamed(name, g, i) = {} /\ B!ParamsNamed(name, g) = {}
         /\ h \in Fns /\ prog.fns[h].name = name
         /\ \A l \in B!FunctionsNamed(name) : h <= l
<1> DEFINE fns == B!FunctionsNamed(name)
           b == B!Binding(name, g, i)
<1>1. B!LetsNamed(name, g, i) = {} /\ B!ParamsNamed(name, g) = {} /\ fns # {} /\ b.at = B!First(fns)
  BY BindingIs, Zenon
<1>2. b.at \in fns /\ \A l \in fns : b.at <= l
  BY <1>1, NamedAreNat, FirstIs
<1> QED BY <1>1, <1>2, FunctionsNamedAre

LEMMA BoundToNone ==
  ASSUME prog \in Programs, NEW name, NEW g \in Fns, NEW i
  PROVE  B!Binding(name, g, i).kind = "none" <=>
           /\ B!LetsNamed(name, g, i) = {} /\ B!ParamsNamed(name, g) = {}
           /\ B!FunctionsNamed(name) = {}
  BY BindingIs, Zenon

-----------------------------------------------------------------------------
(* The types of the nodes.                                                 *)
TypeBody(type, g, i, n) ==
  LET arg(k) == type[<<i, Expr(n).args[k]>>]
      named == B!TypeOfName(type, Expr(n).name, g, i)
  IN  CASE Expr(n).t = "int" -> Expr(n).type
        [] Expr(n).t = "var" -> named
        [] Expr(n).t = "funcall" -> IF named.t = "fn" THEN named.ret ELSE B!IllTyped
        [] Expr(n).t = "binop" ->
             CASE arg(1).t # arg(2).t \/ arg(1) = NoType -> B!IllTyped
               [] arg(1).t = arg(2).t /\ arg(1) # NoType ->
                    IF Expr(n).op \in Comparisons THEN Type("bool") ELSE arg(1)

LEMMA TypesAre ==
  ASSUME NEW g
  PROVE  B!TypeIn(g) = CHOOSE type : type = [o \in StmtsIn(g) \X Nodes |-> TypeBody(type, g, o[1], o[2])]
  BY Zenon DEF B!TypeIn, TypeBody, StmtsIn, Nodes, B!Stmts, B!Node, Expr, NoType, Type, B!NoType,
               B!Type, Comparisons, B!Comparisons, B!IllTyped

LEMMA NameType ==
  ASSUME NEW type, NEW name, NEW g, NEW i
  PROVE  LET b == B!Binding(name, g, i)
             let == StmtAt(g, b.at)
         IN  B!TypeOfName(type, name, g, i) =
               CASE b.kind = "fn" -> B!Signature(b.at)
                 [] b.kind = "param" -> ParamAt(g, b.at).type
                 [] b.kind = "let" -> IF let.type # NoType \/ b.at = i THEN let.type
                                      ELSE type[<<b.at, let.value>>]
                 [] b.kind = "none" -> B!IllTyped
  BY Zenon DEF B!TypeOfName, B!Params, B!Stmts, ParamAt, StmtAt, NoType, Type, B!NoType, B!Type

LEMMA TypeOfFn ==
  ASSUME NEW type, NEW name, NEW g, NEW i, B!Binding(name, g, i).kind = "fn"
  PROVE  B!TypeOfName(type, name, g, i) = B!Signature(B!Binding(name, g, i).at)
<1> DEFINE b == B!Binding(name, g, i)
<1> HIDE DEF b
<1>1. b.kind = "fn"
  BY DEF b
<1> QED BY <1>1, NameType DEF b

LEMMA TypeOfParam ==
  ASSUME NEW type, NEW name, NEW g, NEW i, B!Binding(name, g, i).kind = "param"
  PROVE  B!TypeOfName(type, name, g, i) = ParamAt(g, B!Binding(name, g, i).at).type
  BY NameType

LEMMA TypeOfNone ==
  ASSUME NEW type, NEW name, NEW g, NEW i, B!Binding(name, g, i).kind = "none"
  PROVE  B!TypeOfName(type, name, g, i) = B!IllTyped
  BY NameType

LEMMA TypeOfLet ==
  ASSUME NEW type, NEW name, NEW g, NEW i, NEW j, B!Binding(name, g, i).kind = "let",
         B!Binding(name, g, i).at = j, StmtAt(g, j).type # NoType \/ j = i
  PROVE  B!TypeOfName(type, name, g, i) = StmtAt(g, j).type
  BY NameType

LEMMA TypeOfValue ==
  ASSUME NEW type, NEW name, NEW g, NEW i, NEW j, B!Binding(name, g, i).kind = "let",
         B!Binding(name, g, i).at = j, StmtAt(g, j).type = NoType, j # i
  PROVE  B!TypeOfName(type, name, g, i) = type[<<j, StmtAt(g, j).value>>]
  BY NameType

LEMMA LetHasValue ==
  ASSUME prog \in Programs, NEW g \in Fns, NEW j \in StmtsIn(g), StmtAt(g, j).t = "let",
         StmtAt(g, j).type = NoType
  PROVE  StmtAt(g, j).value # NULL /\ StmtAt(g, j).value \in Nodes
<1>1. ParsedStmt(StmtAt(g, j))
  BY ProgramShape DEF StmtsIn, StmtAt, Fns
<1> QED BY <1>1, ValueNode DEF ParsedStmt

(* What a type is made of comes before it.                                 *)
LEMMA TypeAgrees ==
  ASSUME prog \in Programs, NEW g \in Fns, NEW i \in StmtsIn(g), NEW n \in Nodes, NEW type, NEW type2,
         \A m \in Nodes : m < n => type[<<i, m>>] = type2[<<i, m>>],
         \A j \in StmtsIn(g), m \in Nodes : j < i => type[<<j, m>>] = type2[<<j, m>>]
  PROVE  TypeBody(type, g, i, n) = TypeBody(type2, g, i, n)
<1> DEFINE arg(ty, k) == ty[<<i, Expr(n).args[k]>>]
           named(ty) == B!TypeOfName(ty, Expr(n).name, g, i)
           b == B!Binding(Expr(n).name, g, i)
<1>0. b.kind \in {"let", "param", "fn", "none"}
  BY BindingIs DEF Kinds
<1>1. named(type) = named(type2)
  <2>1. CASE b.kind = "fn"
    BY <2>1, TypeOfFn
  <2>2. CASE b.kind = "param"
    BY <2>2, TypeOfParam
  <2>3. CASE b.kind = "none"
    BY <2>3, TypeOfNone
  <2>4. CASE b.kind = "let"
    <3>1. b.at \in StmtsIn(g) /\ b.at <= i /\ StmtAt(g, b.at).t = "let"
      BY <2>4, BoundToLet
    <3>2. CASE StmtAt(g, b.at).type # NoType \/ b.at = i
      BY <2>4, <3>2, TypeOfLet
    <3>3. CASE ~(StmtAt(g, b.at).type # NoType \/ b.at = i)
      <4>1. StmtAt(g, b.at).value \in Nodes
        BY <3>1, <3>3, LetHasValue
      <4>2. /\ named(type) = type[<<b.at, StmtAt(g, b.at).value>>]
            /\ named(type2) = type2[<<b.at, StmtAt(g, b.at).value>>]
        BY <2>4, <3>3, TypeOfValue
      <4>3. b.at < i
        <5>1. Len(prog.fns[g].stmts) \in Nat
          BY ProgramShape
        <5> HIDE DEF b
        <5> QED BY <3>1, <3>3, <5>1 DEF StmtsIn
      <4> HIDE DEF b, named
      <4> QED BY <3>1, <4>1, <4>2, <4>3
    <3> QED BY <3>2, <3>3
  <2> QED BY <1>0, <2>1, <2>2, <2>3, <2>4
<1>2. \A k \in 1 .. Len(Expr(n).args) : arg(type, k) = arg(type2, k)
  <2>1. ASSUME NEW k \in 1 .. Len(Expr(n).args) PROVE arg(type, k) = arg(type2, k)
    <3>1. Expr(n).args[k] \in 1 .. n - 1 /\ Expr(n).args[k] \in Nodes
      BY ArgsBelow
    <3>2. Expr(n).args[k] < n
      BY <3>1, ProgramShape DEF Nodes
    <3> QED BY <3>1, <3>2
  <2> QED BY <2>1
<1>3. Expr(n).t = "binop" => Len(Expr(n).args) = 2
  BY ProgramShape DEF Expr, Nodes, ParsedExpr
<1>4. Expr(n).t = "binop" => arg(type, 1) = arg(type2, 1) /\ arg(type, 2) = arg(type2, 2)
  BY <1>2, <1>3
<1>5. Expr(n).t \in {"int", "var", "binop", "funcall"}
  BY ProgramShape, ElementOfSeq DEF Expr, Nodes, Exprs
<1> HIDE DEF arg, named
<1>6. \A ty : TypeBody(ty, g, i, n) =
        CASE Expr(n).t = "int" -> Expr(n).type
          [] Expr(n).t = "var" -> named(ty)
          [] Expr(n).t = "funcall" -> IF named(ty).t = "fn" THEN named(ty).ret ELSE B!IllTyped
          [] Expr(n).t = "binop" ->
               CASE arg(ty, 1).t # arg(ty, 2).t \/ arg(ty, 1) = NoType -> B!IllTyped
                 [] arg(ty, 1).t = arg(ty, 2).t /\ arg(ty, 1) # NoType ->
                      IF Expr(n).op \in Comparisons THEN Type("bool") ELSE arg(ty, 1)
  BY Zenon DEF TypeBody, arg, named
<1>7. CASE Expr(n).t # "binop"
  BY <1>1, <1>5, <1>6, <1>7
<1>8. CASE Expr(n).t = "binop"
  <2>1. arg(type, 1) = arg(type2, 1) /\ arg(type, 2) = arg(type2, 2)
    BY <1>4, <1>8
  <2>2. \A ty : TypeBody(ty, g, i, n) =
               CASE arg(ty, 1).t # arg(ty, 2).t \/ arg(ty, 1) = NoType -> B!IllTyped
                 [] arg(ty, 1).t = arg(ty, 2).t /\ arg(ty, 1) # NoType ->
                      IF Expr(n).op \in Comparisons THEN Type("bool") ELSE arg(ty, 1)
    BY <1>6, <1>8
  <2>3. TypeBody(type, g, i, n) =
               CASE arg(type, 1).t # arg(type, 2).t \/ arg(type, 1) = NoType -> B!IllTyped
                 [] arg(type, 1).t = arg(type, 2).t /\ arg(type, 1) # NoType ->
                      IF Expr(n).op \in Comparisons THEN Type("bool") ELSE arg(type, 1)
    BY <2>2
  <2>4. TypeBody(type2, g, i, n) =
               CASE arg(type2, 1).t # arg(type2, 2).t \/ arg(type2, 1) = NoType -> B!IllTyped
                 [] arg(type2, 1).t = arg(type2, 2).t /\ arg(type2, 1) # NoType ->
                      IF Expr(n).op \in Comparisons THEN Type("bool") ELSE arg(type2, 1)
    BY <2>2
  <2> QED BY ONLY <2>1, <2>3, <2>4, Zenon
<1> QED BY <1>7, <1>8

(* So they can be made one after the other.                                *)
Before(o, i, n) == o[1] < i \/ (o[1] = i /\ o[2] <= n)
TypesTo(g, i, n) ==
  \E type : /\ type = [o \in StmtsIn(g) \X Nodes |-> type[o]]
            /\ \A o \in StmtsIn(g) \X Nodes : Before(o, i, n) => type[o] = TypeBody(type, g, o[1], o[2])

LEMMA NextNodeTyped ==
  ASSUME prog \in Programs, NEW g \in Fns, NEW i \in StmtsIn(g), NEW n \in Nat, n + 1 \in Nodes,
         TypesTo(g, i, n)
  PROVE  TypesTo(g, i, n + 1)
<1>1. PICK type : /\ type = [o \in StmtsIn(g) \X Nodes |-> type[o]]
                  /\ \A o \in StmtsIn(g) \X Nodes :
                       Before(o, i, n) => type[o] = TypeBody(type, g, o[1], o[2])
  BY DEF TypesTo
<1>2. PICK new : new = TypeBody(type, g, i, n + 1)
  OBVIOUS
<1>3. PICK type2 : type2 = [o \in StmtsIn(g) \X Nodes |-> IF o = <<i, n + 1>> THEN new ELSE type[o]]
  OBVIOUS
<1>4. type2 = [o \in StmtsIn(g) \X Nodes |-> type2[o]]
  BY <1>3
<1>5. Len(prog.exprs) \in Nat /\ Len(prog.fns[g].stmts) \in Nat
  BY ProgramShape
<1>6. ASSUME NEW o \in StmtsIn(g) \X Nodes, Before(o, i, n + 1)
      PROVE  type2[o] = TypeBody(type2, g, o[1], o[2])
  <2>1. PICK j \in StmtsIn(g), m \in Nodes : o = <<j, m>>
    OBVIOUS
  <2>2. j < i \/ (j = i /\ m <= n + 1)
    BY <1>6, <2>1 DEF Before
  <2>3. j \in Nat /\ m \in Nat /\ i \in Nat
    BY <1>5 DEF StmtsIn, Nodes
  <2>4. \A l \in Nodes : l < m => type[<<j, l>>] = type2[<<j, l>>]
    <3>1. ASSUME NEW l \in Nodes, l < m PROVE type[<<j, l>>] = type2[<<j, l>>]
      <4>1. l \in Nat
        BY <1>5 DEF Nodes
      <4>2. ~(j = i /\ l = n + 1)
        BY <2>2, <2>3, <3>1, <4>1
      <4>3. <<j, l>> # <<i, n + 1>> /\ <<j, l>> \in StmtsIn(g) \X Nodes
        BY <4>2
      <4> QED BY <1>3, <4>3
    <3> QED BY <3>1
  <2>5. \A j2 \in StmtsIn(g), l \in Nodes : j2 < j => type[<<j2, l>>] = type2[<<j2, l>>]
    <3>1. ASSUME NEW j2 \in StmtsIn(g), NEW l \in Nodes, j2 < j PROVE type[<<j2, l>>] = type2[<<j2, l>>]
      <4>1. j2 \in Nat
        BY <1>5 DEF StmtsIn
      <4>2. j2 # i
        BY <2>2, <2>3, <3>1, <4>1
      <4>3. <<j2, l>> # <<i, n + 1>> /\ <<j2, l>> \in StmtsIn(g) \X Nodes
        BY <4>2
      <4> QED BY <1>3, <4>3
    <3> QED BY <3>1
  <2>6. TypeBody(type, g, j, m) = TypeBody(type2, g, j, m)
    BY <2>4, <2>5, TypeAgrees, ZenonT(60)
  <2>7. CASE j = i /\ m = n + 1
    <3>1. type2[o] = new
      BY <1>3, <2>1, <2>7
    <3> QED BY <1>2, <2>1, <2>6, <2>7, <3>1
  <2>8. CASE ~(j = i /\ m = n + 1)
    <3>1. Before(o, i, n)
      BY <2>1, <2>2, <2>3, <2>8 DEF Before
    <3>2. type[o] = TypeBody(type, g, j, m)
      BY <1>1, <2>1, <3>1
    <3>3. o # <<i, n + 1>>
      BY <2>1, <2>8
    <3>4. type2[o] = type[o]
      BY <1>3, <3>3
    <3> QED BY <2>1, <2>6, <3>2, <3>4
  <2> QED BY <2>7, <2>8
<1> QED BY <1>4, <1>6 DEF TypesTo

LEMMA RowTyped ==
  ASSUME prog \in Programs, NEW g \in Fns, NEW i \in StmtsIn(g), TypesTo(g, i, 0)
  PROVE  TypesTo(g, i, Len(prog.exprs))
<1> DEFINE S == {n \in Nat : n <= Len(prog.exprs) => TypesTo(g, i, n)}
<1>1. Len(prog.exprs) \in Nat
  BY ProgramShape
<1>2. ASSUME NEW n \in Nat, n \in S PROVE n + 1 \in S
  <2> SUFFICES ASSUME n + 1 <= Len(prog.exprs) PROVE TypesTo(g, i, n + 1)
    OBVIOUS
  <2>1. n + 1 \in Nodes /\ TypesTo(g, i, n)
    BY <1>1, <1>2 DEF Nodes
  <2> QED BY <2>1, NextNodeTyped
<1>3. 0 \in S
  OBVIOUS
<1>4. \A n \in Nat : n \in S
  BY <1>2, <1>3, NatStep
<1> QED BY <1>1, <1>4

LEMMA AllTyped ==
  ASSUME prog \in Programs, NEW g \in Fns
  PROVE  \E type : type = [o \in StmtsIn(g) \X Nodes |-> TypeBody(type, g, o[1], o[2])]
<1> DEFINE S == {i \in Nat : i <= Len(prog.fns[g].stmts) => TypesTo(g, i, Len(prog.exprs))}
<1>1. Len(prog.fns[g].stmts) \in Nat /\ Len(prog.exprs) \in Nat
  BY ProgramShape
<1>2. TypesTo(g, 0, Len(prog.exprs))
  <2>1. PICK type : type = [o \in StmtsIn(g) \X Nodes |-> NoType]
    OBVIOUS
  <2>2. type = [o \in StmtsIn(g) \X Nodes |-> type[o]]
    BY <2>1
  <2>3. \A o \in StmtsIn(g) \X Nodes : ~Before(o, 0, Len(prog.exprs))
    BY <1>1 DEF Before, StmtsIn
  <2> QED BY <2>2, <2>3 DEF TypesTo
<1>3. ASSUME NEW i \in Nat, i \in S PROVE i + 1 \in S
  <2> SUFFICES ASSUME i + 1 <= Len(prog.fns[g].stmts) PROVE TypesTo(g, i + 1, Len(prog.exprs))
    OBVIOUS
  <2>1. i + 1 \in StmtsIn(g) /\ TypesTo(g, i, Len(prog.exprs))
    BY <1>1, <1>3 DEF StmtsIn
  <2>2. \A o \in StmtsIn(g) \X Nodes : Before(o, i + 1, 0) => Before(o, i, Len(prog.exprs))
    BY <1>1 DEF Before, StmtsIn, Nodes
  <2>3. TypesTo(g, i + 1, 0)
    BY <2>1, <2>2 DEF TypesTo
  <2> QED BY <2>1, <2>3, RowTyped
<1>4. 0 \in S
  BY <1>2
<1>5. \A i \in Nat : i \in S
  BY <1>3, <1>4, NatStep
<1>6. TypesTo(g, Len(prog.fns[g].stmts), Len(prog.exprs))
  BY <1>1, <1>5
<1>7. \A o \in StmtsIn(g) \X Nodes : Before(o, Len(prog.fns[g].stmts), Len(prog.exprs))
  BY <1>1 DEF Before, StmtsIn, Nodes
<1> QED BY <1>6, <1>7 DEF TypesTo

(* The type of a node of a statement.                                      *)
LEMMA TypeDef ==
  ASSUME prog \in Programs, NEW g \in Fns, NEW i \in StmtsIn(g), NEW n \in Nodes
  PROVE  TypeAt(g, i, n) = TypeBody(B!TypeIn(g), g, i, n)
<1>1. PICK type : type = B!TypeIn(g)
  OBVIOUS
<1>2. type = [o \in StmtsIn(g) \X Nodes |-> TypeBody(type, g, o[1], o[2])]
  BY <1>1, TypesAre, AllTyped, Zenon
<1>3. <<i, n>> \in StmtsIn(g) \X Nodes
  OBVIOUS
<1>4. type[<<i, n>>] = TypeBody(type, g, i, n)
  BY <1>2, <1>3
<1> QED BY <1>1, <1>4 DEF TypeAt

NamedAt(g, i, n) == B!TypeOfName(B!TypeIn(g), Expr(n).name, g, i)

LEMMA IntAt ==
  ASSUME prog \in Programs, NEW g \in Fns, NEW i \in StmtsIn(g), NEW n \in Nodes, Expr(n).t = "int"
  PROVE  TypeAt(g, i, n) = Expr(n).type
  BY TypeDef DEF TypeBody

LEMMA VarAt ==
  ASSUME prog \in Programs, NEW g \in Fns, NEW i \in StmtsIn(g), NEW n \in Nodes, Expr(n).t = "var"
  PROVE  TypeAt(g, i, n) = NamedAt(g, i, n)
  BY TypeDef DEF TypeBody, NamedAt

LEMMA CallAt ==
  ASSUME prog \in Programs, NEW g \in Fns, NEW i \in StmtsIn(g), NEW n \in Nodes, Expr(n).t = "funcall"
  PROVE  TypeAt(g, i, n) = IF NamedAt(g, i, n).t = "fn" THEN NamedAt(g, i, n).ret ELSE B!IllTyped
  BY TypeDef DEF TypeBody, NamedAt

LEMMA BinopAt ==
  ASSUME prog \in Programs, NEW g \in Fns, NEW i \in StmtsIn(g), NEW n \in Nodes, Expr(n).t = "binop"
  PROVE  LET left == TypeAt(g, i, Expr(n).args[1])
             right == TypeAt(g, i, Expr(n).args[2])
             type == TypeAt(g, i, n)
         IN  /\ left.t # right.t \/ left = NoType => type = B!IllTyped
             /\ left.t = right.t /\ left # NoType /\ Expr(n).op \in Comparisons => type = Type("bool")
             /\ left.t = right.t /\ left # NoType /\ Expr(n).op \notin Comparisons => type = left
<1> DEFINE left == TypeAt(g, i, Expr(n).args[1])
           right == TypeAt(g, i, Expr(n).args[2])
           type == TypeAt(g, i, n)
<1>1. type = CASE left.t # right.t \/ left = NoType -> B!IllTyped
               [] left.t = right.t /\ left # NoType ->
                    IF Expr(n).op \in Comparisons THEN Type("bool") ELSE left
  BY TypeDef, Zenon DEF TypeBody, TypeAt
<1> HIDE DEF left, right, type
<1>2. left.t # right.t \/ left = NoType => type = B!IllTyped
  BY <1>1
<1>3. left.t = right.t /\ left # NoType =>
        type = IF Expr(n).op \in Comparisons THEN Type("bool") ELSE left
  BY <1>1
<1> QED BY <1>2, <1>3 DEF left, right, type

-----------------------------------------------------------------------------
(* The symbol table, by name.                                              *)
LEMMA Inserts ==
  ASSUME TableOK, NEW sc \in 1 .. Len(scopes), NEW pos \in Names, NEW type \in Types,
         scope_insert(sc, pos, type), find_in(sc, pos) = NULL
  PROVE  /\ \A t \in 1 .. Len(scopes) : \A e :
              InChain(t, e)' <=> InChain(t, e) \/ (t = sc /\ e = Len(entries) + 1)
         /\ \A t \in 1 .. Len(scopes) : \A b \in 0 .. INIT_BUCKETS - 1 :
              \A k \in 1 .. Len(scopes'[t].buckets[b]) :
                \/ \E j \in 1 .. Len(scopes[t].buckets[b]) :
                     scopes'[t].buckets[b][k] = scopes[t].buckets[b][j]
                \/ b = bucket_of(pos) /\ scopes'[t].buckets[b][k] = Len(entries) + 1
<1> DEFINE new == Len(entries) + 1
           b == bucket_of(pos)
           chain == scopes[sc].buckets[b]
           chains == [scopes[sc].buckets EXCEPT ![b] = <<new>> \o chain]
<1>1. /\ entries \in Seq(Entry) /\ scopes \in Seq(Scopes) /\ Len(entries) \in Nat
      /\ DOMAIN scopes = 1 .. Len(scopes) /\ b \in 0 .. INIT_BUCKETS - 1
  BY BucketRange, LenProperties DEF TableOK, Entry, Scopes, Buckets
<1>2. scopes' = [scopes EXCEPT ![sc] = [scopes[sc] EXCEPT !.buckets = chains]]
  BY DEF scope_insert
<1>3. scopes[sc] \in Scopes
  BY <1>1, ElementOfSeq
<1>4. DOMAIN scopes[sc].buckets = 0 .. INIT_BUCKETS - 1 /\ chain \in Seq(1 .. Len(entries))
  BY <1>1, <1>3 DEF Scopes, Buckets
<1> HIDE DEF chain
<1>5. \A c \in 0 .. INIT_BUCKETS - 1 :
           chains[c] = IF c = b THEN <<new>> \o chain ELSE scopes[sc].buckets[c]
  BY <1>4
<1> HIDE DEF chains
<1>6. /\ scopes'[sc].buckets = chains
      /\ \A t \in 1 .. Len(scopes) : t # sc => scopes'[t] = scopes[t]
  BY <1>1, <1>2, <1>3 DEF Scopes
<1>7. /\ Len(<<new>> \o chain) = Len(chain) + 1 /\ Len(chain) \in Nat
      /\ (<<new>> \o chain)[1] = new
      /\ \A k \in 2 .. Len(chain) + 1 : (<<new>> \o chain)[k] = chain[k - 1]
  <2>1. <<new>> \in Seq(Nat) /\ Len(<<new>>) = 1 /\ <<new>>[1] = new /\ chain \in Seq(Nat)
    <3>1. new \in Nat
      BY <1>1
    <3>2. chain \in Seq(Nat)
      BY <1>4, SeqMonotonic
    <3> QED BY <3>1, <3>2, OneElement
  <2> QED BY <2>1, ConcatProperties, LenProperties
<1> DEFINE long == <<new>> \o chain
<1>14. /\ Len(long) = Len(chain) + 1 /\ Len(chain) \in Nat /\ long[1] = new
       /\ \A k \in 2 .. Len(chain) + 1 : long[k] = chain[k - 1]
  BY <1>7
<1>15. \A c \in 0 .. INIT_BUCKETS - 1 : chains[c] = IF c = b THEN long ELSE scopes[sc].buckets[c]
  BY <1>5
<1> HIDE DEF new, b, long
<1>8. ASSUME NEW t \in 1 .. Len(scopes), NEW c \in 0 .. INIT_BUCKETS - 1
      PROVE  scopes'[t].buckets[c] = IF t = sc /\ c = b THEN long ELSE scopes[t].buckets[c]
  <2>1. CASE t = sc
    BY <1>15, <1>6, <2>1
  <2>2. CASE t # sc
    BY <1>6, <2>2
  <2> QED BY <2>1, <2>2
<1>9. ASSUME NEW k \in 1 .. Len(long)
      PROVE  long[k] = new \/ \E j \in 1 .. Len(chain) : long[k] = chain[j]
  <2>1. CASE k = 1
    BY <1>14, <2>1
  <2>2. CASE k # 1
    <3>1. k - 1 \in 1 .. Len(chain) /\ k \in 2 .. Len(chain) + 1
      BY <1>14, <2>2
    <3> QED BY <1>14, <3>1
  <2> QED BY <2>1, <2>2
<1>10. ASSUME NEW t \in 1 .. Len(scopes), NEW c \in 0 .. INIT_BUCKETS - 1,
              NEW k \in 1 .. Len(scopes'[t].buckets[c])
       PROVE  \/ \E j \in 1 .. Len(scopes[t].buckets[c]) : scopes'[t].buckets[c][k] = scopes[t].buckets[c][j]
              \/ t = sc /\ c = b /\ scopes'[t].buckets[c][k] = new
  <2>1. CASE t = sc /\ c = b
    <3>1. scopes'[t].buckets[c] = long /\ scopes[t].buckets[c] = chain
      BY <1>8, <2>1 DEF chain
    <3> QED BY <1>9, <2>1, <3>1
  <2>2. CASE ~(t = sc /\ c = b)
    BY <1>8, <2>2
  <2> QED BY <2>1, <2>2
<1>11. ASSUME NEW t \in 1 .. Len(scopes), NEW e, InChain(t, e) PROVE InChain(t, e)'
  <2>0. PICK c \in 0 .. INIT_BUCKETS - 1 : \E k \in 1 .. Len(scopes[t].buckets[c]) :
          scopes[t].buckets[c][k] = e
    BY <1>11 DEF InChain
  <2>1. PICK k \in 1 .. Len(scopes[t].buckets[c]) : scopes[t].buckets[c][k] = e
    BY <2>0
  <2>2. CASE t = sc /\ c = b
    <3>1. scopes'[t].buckets[c] = long /\ scopes[t].buckets[c] = chain
      BY <1>8, <2>2 DEF chain
    <3>2. k + 1 \in 2 .. Len(chain) + 1 /\ k + 1 \in 1 .. Len(long) /\ (k + 1) - 1 = k
      BY <1>14, <3>1
    <3>3. long[k + 1] = e
      BY <1>14, <2>1, <3>1, <3>2
    <3> QED BY <3>1, <3>2, <3>3 DEF InChain
  <2>3. CASE ~(t = sc /\ c = b)
    <3>1. scopes'[t].buckets[c] = scopes[t].buckets[c]
      BY <1>8, <2>3
    <3> QED BY <2>1, <3>1 DEF InChain
  <2> QED BY <2>2, <2>3
<1>12. ASSUME NEW e, e = new PROVE InChain(sc, e)'
  <2>1. scopes'[sc].buckets[b] = long /\ 1 \in 1 .. Len(long)
    BY <1>1, <1>14, <1>8
  <2> QED BY <1>1, <1>12, <1>14, <2>1 DEF InChain
<1>13. \A t \in 1 .. Len(scopes) : \A e : InChain(t, e)' => InChain(t, e) \/ (t = sc /\ e = new)
  BY Inserted DEF new
<1>16. \A t \in 1 .. Len(scopes) : \A e : InChain(t, e)' <=> InChain(t, e) \/ (t = sc /\ e = new)
  BY <1>11, <1>12, <1>13
<1> QED
  BY <1>10, <1>16 DEF new, b

LEMMA ChainEntry ==
  ASSUME TableOK, NEW sc \in 1 .. Len(scopes), NEW b \in 0 .. INIT_BUCKETS - 1,
         NEW k \in 1 .. Len(scopes[sc].buckets[b])
  PROVE  /\ scopes[sc].buckets[b][k] \in 1 .. Len(entries)
         /\ entries[scopes[sc].buckets[b][k]].pos \in Names
<1>1. scopes[sc] \in Scopes /\ entries \in Seq(Entry)
  BY ElementOfSeq DEF TableOK, Scopes, Buckets, Entry
<1>2. scopes[sc].buckets[b] \in Seq(1 .. Len(entries))
  BY <1>1 DEF Scopes, Buckets
<1>3. scopes[sc].buckets[b][k] \in 1 .. Len(entries)
  BY <1>2, ElementOfSeq
<1>4. entries[scopes[sc].buckets[b][k]] \in Entry
  BY <1>1, <1>3, ElementOfSeq
<1> QED BY <1>3, <1>4 DEF Entry

(* With names that memcmp keeps apart, find_in goes by the name.           *)
LEMMA FindByName ==
  ASSUME NamesApart, TableOK, ChainsHashed, Naming, NEW sc \in 1 .. Len(scopes), NEW pos \in Names
  PROVE  /\ find_in(sc, pos) = NULL <=> \A e : InChain(sc, e) => entries[e].pos # pos
         /\ find_in(sc, pos) # NULL =>
              InChain(sc, find_in(sc, pos)) /\ entries[find_in(sc, pos)].pos = pos
<1> DEFINE b == bucket_of(pos)
           chain == scopes[sc].buckets[b]
           hit(k) == same_name(pos, entries[chain[k]].pos)
<1>1. b \in 0 .. INIT_BUCKETS - 1
  BY BucketRange
<1>2. ASSUME NEW k \in 1 .. Len(chain) PROVE hit(k) <=> entries[chain[k]].pos = pos
  <2>1. entries[chain[k]].pos \in Names /\ bucket_of(entries[chain[k]].pos) = b
    BY <1>1, ChainEntry DEF ChainsHashed
  <2>2. same_name(pos, pos)
    BY DEF same_name
  <2> QED BY <2>1, <2>2 DEF NamesApart
<1>3. ASSUME find_in(sc, pos) # NULL
      PROVE  \E k \in 1 .. Len(chain) : hit(k) /\ find_in(sc, pos) = chain[k]
  <2>1. find_in(sc, pos) = IF \E k \in 1 .. Len(chain) : hit(k)
          THEN chain[CHOOSE k \in 1 .. Len(chain) : hit(k) /\ \A j \in 1 .. k - 1 : ~hit(j)]
          ELSE NULL
    BY DEF find_in
  <2>2. Len(chain) \in Nat
    <3>1. scopes[sc] \in Scopes
      BY ElementOfSeq DEF TableOK, Scopes, Buckets
    <3>2. chain \in Seq(1 .. Len(entries))
      BY <1>1, <3>1 DEF Scopes, Buckets
    <3> HIDE DEF chain
    <3> QED BY <3>2, LenProperties
  <2> DEFINE hits == {k \in 1 .. Len(chain) : hit(k)}
  <2> HIDE DEF chain, hit
  <2>3. hits \in SUBSET Nat /\ hits # {}
    <3>1. hits \subseteq Nat
      OBVIOUS
    <3>2. hits # {}
      BY <1>3, <2>1
    <3> QED BY <3>1, <3>2
  <2>4. PICK k \in hits : \A j \in hits : k <= j
    BY <2>3, LeastNat
  <2>5. \A j \in 1 .. k - 1 : j \notin hits
    BY <2>2, <2>4
  <2>6. hit(k) /\ \A j \in 1 .. k - 1 : ~hit(j)
    BY <2>2, <2>4, <2>5
  <2> DEFINE first == CHOOSE i \in 1 .. Len(chain) : hit(i) /\ \A j \in 1 .. i - 1 : ~hit(j)
  <2>7. first \in 1 .. Len(chain) /\ hit(first)
    BY <2>4, <2>6
  <2>8. find_in(sc, pos) = chain[first]
    BY <1>3, <2>1
  <2> QED BY <2>7, <2>8
<1>4. find_in(sc, pos) # NULL =>
        InChain(sc, find_in(sc, pos)) /\ entries[find_in(sc, pos)].pos = pos
  <2>1. ASSUME find_in(sc, pos) # NULL
        PROVE  InChain(sc, find_in(sc, pos)) /\ entries[find_in(sc, pos)].pos = pos
    <3>1. PICK k \in 1 .. Len(chain) : hit(k) /\ find_in(sc, pos) = chain[k]
      BY <1>3, <2>1
    <3>2. entries[chain[k]].pos = pos
      BY <1>2, <3>1
    <3> QED BY <1>1, <3>1, <3>2 DEF InChain
  <2> QED BY <2>1
<1>5. ASSUME NEW e, InChain(sc, e), entries[e].pos = pos PROVE find_in(sc, pos) # NULL
  <2>1. PICK c \in 0 .. INIT_BUCKETS - 1 : \E k \in 1 .. Len(scopes[sc].buckets[c]) :
          scopes[sc].buckets[c][k] = e
    BY <1>5 DEF InChain
  <2>2. PICK k \in 1 .. Len(scopes[sc].buckets[c]) : scopes[sc].buckets[c][k] = e
    BY <2>1
  <2>3. c = b
    BY <1>5, <2>2 DEF ChainsHashed
  <2>4. k \in 1 .. Len(chain) /\ hit(k) /\ chain[k] = e
    BY <1>2, <1>5, <2>2, <2>3
  <2>5. find_in(sc, pos) = chain[CHOOSE i \in 1 .. Len(chain) : hit(i) /\ \A j \in 1 .. i - 1 : ~hit(j)]
    BY <2>4 DEF find_in
  <2>6. \E i \in 1 .. Len(chain) : hit(i) /\ \A j \in 1 .. i - 1 : ~hit(j)
    <3>1. Len(chain) \in Nat
      <4>1. scopes[sc] \in Scopes
        BY ElementOfSeq DEF TableOK, Scopes, Buckets
      <4>2. chain \in Seq(1 .. Len(entries))
        BY <1>1, <4>1 DEF Scopes, Buckets
      <4> HIDE DEF chain
      <4> QED BY <4>2, LenProperties
    <3> DEFINE hits == {i \in 1 .. Len(chain) : hit(i)}
    <3> HIDE DEF chain, hit
    <3>2. hits \in SUBSET Nat /\ hits # {}
      BY <2>4, <3>1
    <3>3. PICK i \in hits : \A j \in hits : i <= j
      BY <3>2, LeastNat
    <3>4. \A j \in 1 .. i - 1 : j \notin hits
      BY <3>1, <3>3
    <3> QED BY <3>1, <3>3, <3>4
  <2> HIDE DEF chain, hit
  <2>7. PICK i \in 1 .. Len(chain) : find_in(sc, pos) = chain[i]
    BY <2>5, <2>6
  <2>8. chain[i] \in 1 .. Len(entries)
    BY <1>1, ChainEntry DEF chain, b
  <2> QED BY <2>7, <2>8 DEF NULL
<1>6. ASSUME find_in(sc, pos) = NULL, NEW e, InChain(sc, e) PROVE entries[e].pos # pos
  BY <1>5, <1>6
<1>7. ASSUME find_in(sc, pos) # NULL PROVE \E e : InChain(sc, e) /\ entries[e].pos = pos
  BY <1>4, <1>7
<1> QED BY <1>4, <1>6, <1>7

(* scope_find with the scope of a function inside the global one.          *)
LEMMA FindUp ==
  ASSUME TableOK, NEW sc \in 1 .. Len(scopes), scopes[sc].up = <<global>>, NEW pos
  PROVE  scope_find(sc, pos) =
           IF find_in(sc, pos) # NULL THEN find_in(sc, pos) ELSE find_in(global, pos)
<1> DEFINE path == <<sc>> \o scopes[sc].up
           hits == {k \in 1 .. Len(path) : find_in(path[k], pos) # NULL}
           first == CHOOSE k \in hits : \A j \in hits : k <= j
<1>1. path = <<sc>> \o <<global>>
  OBVIOUS
<1>2. Len(path) = 2 /\ path[1] = sc /\ path[2] = global
  <2>1. <<sc>> \in Seq({sc}) /\ Len(<<sc>>) = 1 /\ <<sc>>[1] = sc
    BY OneElement
  <2>2. <<global>> \in Seq({global}) /\ Len(<<global>>) = 1 /\ <<global>>[1] = global
    BY OneElement
  <2>3. <<sc>> \in Seq({sc, global}) /\ <<global>> \in Seq({sc, global})
    BY <2>1, <2>2, SeqMonotonic
  <2> HIDE DEF path
  <2> QED BY <1>1, <2>1, <2>2, <2>3, ConcatProperties
<1>3. scope_find(sc, pos) = IF hits = {} THEN NULL ELSE find_in(path[first], pos)
  BY DEF scope_find
<1>4. hits = {k \in {1, 2} : find_in(path[k], pos) # NULL}
  BY <1>2
<1> HIDE DEF path
<1>5. CASE find_in(sc, pos) # NULL
  <2>1. 1 \in hits /\ \A j \in hits : 1 <= j
    BY <1>2, <1>4, <1>5
  <2>2. first = 1
    <3>1. first \in hits /\ first <= 1
      BY <2>1
    <3> QED BY <1>4, <3>1
  <2> HIDE DEF hits, first
  <2>3. scope_find(sc, pos) = find_in(path[first], pos)
    BY <1>3, <2>1
  <2> QED BY <1>2, <1>5, <2>2, <2>3
<1>6. CASE find_in(sc, pos) = NULL /\ find_in(global, pos) # NULL
  <2>1. hits = {2}
    BY <1>2, <1>4, <1>6
  <2>2. first = 2
    BY <2>1
  <2> HIDE DEF hits, first
  <2> QED BY <1>2, <1>3, <1>6, <2>1, <2>2
<1>7. CASE find_in(sc, pos) = NULL /\ find_in(global, pos) = NULL
  <2>1. hits = {}
    BY <1>2, <1>4, <1>7
  <2> HIDE DEF hits, first
  <2> QED BY <1>3, <1>7, <2>1
<1> QED BY <1>5, <1>6, <1>7

-----------------------------------------------------------------------------
(* What is said of the program text stays true of it.                      *)
LEMMA NodesSame ==
  ASSUME prog' = prog, NEW n
  PROVE  B!Nodes(n)' = B!Nodes(n)
  BY SMT DEF B!Nodes, B!Node

LEMMA LetsNamedSame ==
  ASSUME prog' = prog, NEW name, NEW g, NEW i
  PROVE  B!LetsNamed(name, g, i)' = B!LetsNamed(name, g, i)
  BY DEF B!LetsNamed, B!StmtsOf, B!Stmts

LEMMA ParamsNamedSame ==
  ASSUME prog' = prog, NEW name, NEW g
  PROVE  B!ParamsNamed(name, g)' = B!ParamsNamed(name, g)
  BY DEF B!ParamsNamed, B!Params

LEMMA BindingSame ==
  ASSUME prog' = prog, NEW name, NEW g, NEW i
  PROVE  B!Binding(name, g, i)' = B!Binding(name, g, i)
  BY SMT DEF B!Binding, B!LetsNamed, B!ParamsNamed, B!FunctionsNamed, B!First, B!StmtsOf, B!Stmts,
             B!Params, B!Functions

LEMMA TypeOfNameSame ==
  ASSUME prog' = prog, NEW type, NEW name, NEW g, NEW i
  PROVE  B!TypeOfName(type, name, g, i)' = B!TypeOfName(type, name, g, i)
<1>1. B!Binding(name, g, i)' = B!Binding(name, g, i)
  BY BindingSame
<1> QED BY <1>1 DEF B!TypeOfName, B!Stmts, B!Params, B!Signature

LEMMA TypeInSame ==
  ASSUME prog' = prog, NEW g
  PROVE  B!TypeIn(g)' = B!TypeIn(g)
<1>1. \A n : Expr(n)' = Expr(n)
  BY DEF Expr
<1>2. \A type, i, n : TypeBody(type, g, i, n)' = TypeBody(type, g, i, n)
  <2>1. ASSUME NEW type, NEW i, NEW n
        PROVE  TypeBody(type, g, i, n)' = TypeBody(type, g, i, n)
    <3>1. \A name : B!TypeOfName(type, name, g, i)' = B!TypeOfName(type, name, g, i)
      BY TypeOfNameSame
    <3>2. B!TypeOfName(type, Expr(n).name, g, i)' = B!TypeOfName(type, Expr(n).name, g, i)
      BY <1>1, <3>1
    <3> QED BY <1>1, <3>2 DEF TypeBody
  <2> QED BY <2>1
<1>3. StmtsIn(g)' = StmtsIn(g) /\ Nodes' = Nodes
  BY DEF StmtsIn, Nodes
<1>4. B!TypeIn(g)' =
        CHOOSE type : type = [o \in StmtsIn(g)' \X Nodes' |-> TypeBody(type, g, o[1], o[2])']
  BY Zenon DEF B!TypeIn, TypeBody, StmtsIn, Nodes, B!Stmts, B!Node, Expr, NoType, Type, B!NoType,
               B!Type, Comparisons, B!Comparisons, B!IllTyped
<1> QED BY <1>2, <1>3, <1>4, TypesAre

LEMMA TextSame ==
  ASSUME prog' = prog
  PROVE  /\ Fns' = Fns /\ \A g : StmtsIn(g)' = StmtsIn(g)
         /\ \A g, i : StmtAt(g, i)' = StmtAt(g, i)
         /\ \A g, k : ParamAt(g, k)' = ParamAt(g, k)
  BY DEF Fns, StmtsIn, StmtAt, ParamAt

-----------------------------------------------------------------------------
(* The defects of the names.                                               *)
LEMMA OccurrencesAre ==
  ASSUME NEW o
  PROVE  o \in B!Occurrences <=>
           \E g \in Fns : \E i \in StmtsIn(g) : \E n \in B!Nodes(StmtAt(g, i).value) : o = <<g, i, n>>
  BY DEF B!Occurrences, B!Functions, B!Stmts, Fns, StmtsIn, StmtAt

LEMMA RedeclaredFn ==
  ASSUME NEW g \in Fns, NEW h \in Fns, g < h, prog.fns[g].name = prog.fns[h].name
  PROVE  "name_redeclaration" \in B!NameDefects
<1>1. g \in B!FunctionsNamed(prog.fns[h].name)
  BY FunctionsNamedAre
<1> QED BY <1>1 DEF B!NameDefects, B!Functions, Fns

LEMMA RedeclaredLet ==
  ASSUME NEW g \in Fns, NEW i \in StmtsIn(g), StmtAt(g, i).t = "let",
         \/ B!LetsNamed(StmtAt(g, i).name, g, i) # {i}
         \/ B!ParamsNamed(StmtAt(g, i).name, g) # {}
  PROVE  "name_redeclaration" \in B!NameDefects
<1>1. i \in B!StmtsOf(g, "let") /\ B!Stmts(g)[i] = StmtAt(g, i) /\ g \in B!Functions
  BY DEF B!StmtsOf, B!Stmts, B!Functions, StmtsIn, StmtAt, Fns
<1> QED BY <1>1 DEF B!NameDefects

LEMMA Unscoped ==
  ASSUME NEW g \in Fns, NEW i \in StmtsIn(g), NEW n \in B!Nodes(StmtAt(g, i).value), NamedNode(n),
         B!Binding(Expr(n).name, g, i).kind = "none"
  PROVE  "name_not_in_scope" \in B!NameDefects
<1>1. <<g, i, n>> \in B!Occurrences
  BY OccurrencesAre
<1>2. B!Named(<<g, i, n>>)
  BY DEF NamedNode, B!Named, B!Node, Expr
<1>3. B!Binding(B!Node(<<g, i, n>>[3]).name, <<g, i, n>>[1], <<g, i, n>>[2]).kind = "none"
  BY DEF B!Node, Expr
<1> QED BY <1>1, <1>2, <1>3 DEF B!NameDefects

LEMMA NoNameDefects ==
  ASSUME prog \in Programs,
         \A g, h \in Fns : prog.fns[g].name = prog.fns[h].name => g = h,
         \A g \in Fns : \A i \in StmtsIn(g) : StmtAt(g, i).t = "let" =>
           /\ B!LetsNamed(StmtAt(g, i).name, g, i) = {i}
           /\ B!ParamsNamed(StmtAt(g, i).name, g) = {},
         \A g \in Fns : \A i \in StmtsIn(g) : \A n \in B!Nodes(StmtAt(g, i).value) :
           NamedNode(n) => B!Binding(Expr(n).name, g, i).kind # "none"
  PROVE  B!NameDefects = {}
<1>1. {h \in B!Functions : \E g \in B!FunctionsNamed(prog.fns[h].name) : g < h} = {}
  <2>1. ASSUME NEW h \in Fns, NEW g \in B!FunctionsNamed(prog.fns[h].name), g < h PROVE FALSE
    <3>1. g \in Fns /\ g = h /\ Len(prog.fns) \in Nat
      BY <2>1, FunctionsNamedAre, ProgramShape
    <3> QED BY <2>1, <3>1 DEF Fns
  <2> QED BY <2>1 DEF B!Functions, Fns
<1>2. {g \in B!Functions : \E i \in B!StmtsOf(g, "let") :
         \/ B!LetsNamed(B!Stmts(g)[i].name, g, i) # {i}
         \/ B!ParamsNamed(B!Stmts(g)[i].name, g) # {}} = {}
  <2>1. ASSUME NEW g \in B!Functions, NEW i \in B!StmtsOf(g, "let") 
        PROVE  /\ B!LetsNamed(B!Stmts(g)[i].name, g, i) = {i}
               /\ B!ParamsNamed(B!Stmts(g)[i].name, g) = {}
    BY DEF B!StmtsOf, B!Stmts, B!Functions, StmtsIn, StmtAt, Fns
  <2> QED BY <2>1
<1>3. {o \in B!Occurrences : B!Named(o) /\ B!Binding(B!Node(o[3]).name, o[1], o[2]).kind = "none"} = {}
  <2>1. ASSUME NEW o \in B!Occurrences, B!Named(o), B!Binding(B!Node(o[3]).name, o[1], o[2]).kind = "none"
        PROVE  FALSE
    <3>1. PICK g \in Fns : \E i \in StmtsIn(g) : \E n \in B!Nodes(StmtAt(g, i).value) : o = <<g, i, n>>
      BY OccurrencesAre
    <3>2. PICK i \in StmtsIn(g) : \E n \in B!Nodes(StmtAt(g, i).value) : o = <<g, i, n>>
      BY <3>1
    <3>3. PICK n \in B!Nodes(StmtAt(g, i).value) : o = <<g, i, n>>
      BY <3>2
    <3>4. o[1] = g /\ o[2] = i /\ o[3] = n
      BY <3>3
    <3>5. NamedNode(n) /\ B!Binding(Expr(n).name, g, i).kind = "none"
      BY <2>1, <3>4 DEF B!Named, B!Node, NamedNode, Expr
    <3> QED BY <3>5
  <2> QED BY <2>1
<1> QED BY <1>1, <1>2, <1>3 DEF B!NameDefects

-----------------------------------------------------------------------------
(* Where the entries of the functions and the scopes are.                  *)
LEMMA Placing ==
  ASSUME Filled
  PROVE  /\ Len(fnEntry) = IF phase = "declare" THEN f - 1 ELSE Len(prog.fns)
         /\ phase = "declare" => Len(entries) = f - 1
         /\ \A g \in 1 .. Len(fnEntry) : fnEntry[g] = g
         /\ phase = "names" /\ p > 0 => scope # global /\ scopes[scope].up = <<global>>
<1>1. PICK own : Owned(own)
  BY DEF Separate, Owned, Nodes, Fns, Filled
<1>2. PICK owner, slot : Tracked(own, owner, slot)
  BY <1>1 DEF Filled, Sized
<1>3. Placed(owner, slot) /\ ChainsOwned(owner)
  BY <1>2 DEF Tracked
<1> QED BY <1>3, PlacedParts DEF ChainsOwned

LEMMA Scoped ==
  ASSUME Inv
  PROVE  Len(scopes) \in Nat /\ scope \in 1 .. Len(scopes) /\ global \in 1 .. Len(scopes)
         /\ Len(entries) \in Nat
  BY InvParts, EmptySeq, LenProperties DEF TableOK, scope, global

-----------------------------------------------------------------------------
(* A step that makes no declaration.                                       *)
Declared == <<prog, phase, scopes, entries, fnEntry, paramEntry, stmtVar>>

LEMMA DeclaredKept ==
  ASSUME NamesInv, UNCHANGED Declared,
         \A g \in Fns : \A i \in StmtsIn(g) : StmtAt(g, i).t = "let" => (Passed(g, i)' <=> Passed(g, i))
  PROVE  EntryNames' /\ LetsMade' /\ ParamsMade' /\ ChainsHashed' /\ NoRepeats'
<1>1. UNCHANGED <<prog, phase, scopes, entries, fnEntry, paramEntry, stmtVar>>
  BY DEF Declared
<1>2. EntryNames'
  BY <1>1 DEF NamesInv, EntryNames, Naming, Fns, StmtsIn, StmtAt, ParamAt
<1>3. LetsMade'
  <2>1. \A g \in Fns : \A i \in StmtsIn(g) :
          stmtVar'[g][i] # NULL <=> Passed(g, i)' /\ StmtAt(g, i).t = "let"
    BY <1>1 DEF NamesInv, LetsMade
  <2> QED BY <1>1, <2>1, TextSame DEF LetsMade
<1>4. ParamsMade'
  BY <1>1 DEF NamesInv, ParamsMade, Fns, ParamAt
<1>5. ChainsHashed'
  BY <1>1 DEF NamesInv, ChainsHashed, Naming, bucket_of
<1>6. NoRepeats'
  <2>1. \A g, h \in 1 .. Len(fnEntry') : prog'.fns[g].name = prog'.fns[h].name => g = h
    BY <1>1 DEF NamesInv, NoRepeats
  <2>2. ASSUME NEW g \in Fns, NEW i \in StmtsIn(g), Passed(g, i)', StmtAt(g, i).t = "let"
        PROVE  /\ B!LetsNamed(StmtAt(g, i).name, g, i) = {i}
               /\ B!ParamsNamed(StmtAt(g, i).name, g) = {}
    BY <2>2 DEF NamesInv, NoRepeats
  <2>3. \A g \in Fns' : \A i \in StmtsIn(g)' : Passed(g, i)' /\ StmtAt(g, i)'.t = "let" =>
          /\ B!LetsNamed(StmtAt(g, i).name, g, i)' = {i}
          /\ B!ParamsNamed(StmtAt(g, i).name, g)' = {}
    BY <1>1, <2>2, TextSame, LetsNamedSame, ParamsNamedSame
  <2> QED BY <1>1, <2>1, <2>3 DEF NoRepeats
<1> QED
  BY <1>2, <1>3, <1>4, <1>5, <1>6

LEMMA ResolvedStays ==
  ASSUME prog \in Programs, prog' = prog, NEW g \in Fns, NEW i \in StmtsIn(g), NEW n, Resolved(n, g, i),
         exprVar'[n] = exprVar[n], fnEntry' = fnEntry, paramEntry'[g] = paramEntry[g],
         \A j \in StmtsIn(g) : j <= i => stmtVar'[g][j] = stmtVar[g][j]
  PROVE  Resolved(n, g, i)'
<1> DEFINE b == B!Binding(Expr(n).name, g, i)
<1>1. NamedNode(n)' <=> NamedNode(n)
  BY DEF NamedNode, Expr
<1>2. B!Binding(Expr(n).name, g, i)' = b
  BY BindingSame DEF Expr
<1>3. ASSUME NamedNode(n) PROVE b.kind # "none" /\ exprVar'[n] = EntryOf(b, g)'
  <2>1. b.kind # "none" /\ exprVar[n] = EntryOf(b, g) /\ b.kind \in Kinds
    BY <1>3, BindingIs DEF Resolved
  <2>2. CASE b.kind = "let"
    <3>1. b.at \in StmtsIn(g) /\ b.at <= i
      BY <2>2, BoundToLet
    <3>2. stmtVar'[g][b.at] = stmtVar[g][b.at]
      BY <3>1
    <3>3. EntryOf(b, g) = stmtVar[g][b.at] /\ EntryOf(b, g)' = stmtVar'[g][b'.at] /\ b' = b
      BY <1>2, <2>2 DEF EntryOf, Expr
    <3> QED BY <2>1, <3>2, <3>3
  <2>3. CASE b.kind = "param"
    <3>1. EntryOf(b, g) = paramEntry[g][b.at] /\ EntryOf(b, g)' = paramEntry'[g][b'.at] /\ b' = b
      BY <1>2, <2>3 DEF EntryOf, Expr
    <3> QED BY <2>1, <3>1
  <2>4. CASE b.kind = "fn"
    <3>1. EntryOf(b, g) = fnEntry[b.at] /\ EntryOf(b, g)' = fnEntry'[b'.at] /\ b' = b
      BY <1>2, <2>4 DEF EntryOf, Expr
    <3> QED BY <2>1, <3>1
  <2> QED BY <2>1, <2>2, <2>3, <2>4 DEF Kinds
<1> QED BY <1>1, <1>2, <1>3 DEF Resolved

LEMMA AllResolvedFrom ==
  ASSUME prog' = prog,
         \A g \in Fns : \A i \in StmtsIn(g) : Passed(g, i)' => \A n \in B!Nodes(StmtAt(g, i).value) :
           Resolved(n, g, i)' \/ (phase' = "names" /\ g = f' /\ i = s' - 1 /\ ToResolve(n)')
  PROVE  AllResolved'
<1>1. \A g \in Fns' : \A i \in StmtsIn(g)' : B!Nodes(StmtAt(g, i).value)' = B!Nodes(StmtAt(g, i).value)
  BY NodesSame, TextSame
<1> QED BY <1>1, TextSame DEF AllResolved

(* Once the names are resolved.                                            *)
LEMMA NamesKept ==
  ASSUME Filled, NamesInv, ~Naming, ~Naming', UNCHANGED <<prog, fnEntry, paramEntry, stmtVar, exprVar>>
  PROVE  NamesInv'
<1>1. phase \notin {"declare", "names"} /\ phase' \notin {"declare", "names"}
  BY DEF Naming
<1>2. \A g, i : Passed(g, i) /\ Passed(g, i)'
  BY <1>1 DEF Passed
<1>3. EntryNames' /\ ChainsHashed' /\ InScopes' /\ NamesWalk'
  BY <1>1 DEF EntryNames, ChainsHashed, InScopes, NamesWalk, Naming
<1>4. LetsMade'
  BY <1>2, TextSame DEF NamesInv, LetsMade
<1>5. ParamsMade'
  BY DEF NamesInv, ParamsMade, Fns, ParamAt
<1>6. NoRepeats'
  <2>1. \A g, h \in 1 .. Len(fnEntry') : prog'.fns[g].name = prog'.fns[h].name => g = h
    BY DEF NamesInv, NoRepeats
  <2>2. ASSUME NEW g \in Fns, NEW i \in StmtsIn(g), StmtAt(g, i).t = "let"
        PROVE  /\ B!LetsNamed(StmtAt(g, i).name, g, i) = {i}
               /\ B!ParamsNamed(StmtAt(g, i).name, g) = {}
    BY <1>2, <2>2 DEF NamesInv, NoRepeats
  <2>3. \A g \in Fns' : \A i \in StmtsIn(g)' : Passed(g, i)' /\ StmtAt(g, i)'.t = "let" =>
          /\ B!LetsNamed(StmtAt(g, i).name, g, i)' = {i}
          /\ B!ParamsNamed(StmtAt(g, i).name, g)' = {}
    BY <2>2, TextSame, LetsNamedSame, ParamsNamedSame
  <2> QED BY <2>1, <2>3 DEF NoRepeats
<1>7. AllResolved'
  <2>1. ASSUME NEW g \in Fns, NEW i \in StmtsIn(g), NEW n \in B!Nodes(StmtAt(g, i).value)
        PROVE  Resolved(n, g, i)'
    <3>1. Resolved(n, g, i)
      BY <1>1, <1>2 DEF NamesInv, AllResolved
    <3> QED BY <3>1, ResolvedStays DEF Filled, Inv
  <2> QED BY <2>1, AllResolvedFrom
<1> QED
  BY <1>3, <1>4, <1>5, <1>6, <1>7 DEF NamesInv

LEMMA ChainsSame ==
  ASSUME scopes' = scopes
  PROVE  \A e : (InChain(global, e)' <=> InChain(global, e)) /\ (InChain(scope, e)' <=> InChain(scope, e))
<1>1. \A e : InChain(global, e)' <=> InChain(global, e)
  BY DEF InChain, global
<1>2. \A e : InChain(scope, e)' <=> InChain(scope, e)
  BY DEF InChain, scope
<1> QED BY <1>1, <1>2

LEMMA InScopesSame ==
  ASSUME InScopes, UNCHANGED <<phase, entries, scopes, fnEntry>>,
         p' > 0 => p > 0 /\ UNCHANGED <<prog, f, paramEntry, stmtVar>>
  PROVE  InScopes'
<1> SUFFICES ASSUME Naming' PROVE InScopes'
  BY DEF InScopes
<1>1. Naming
  BY DEF Naming
<1>2. \A e \in 1 .. Len(entries') : InChain(global, e)' <=> e <= Len(fnEntry')
  BY <1>1, ChainsSame DEF InScopes
<1>3. ASSUME phase' = "names", p' > 0
      PROVE  /\ f' \in Fns'
             /\ \A e \in 1 .. Len(entries') :
                  InChain(scope, e)' <=> \/ \E k \in 1 .. Len(paramEntry'[f']) : paramEntry'[f'][k] = e
                                         \/ \E i \in StmtsIn(f)' : stmtVar'[f'][i] = e
  <2>1. /\ f \in Fns
        /\ \A e \in 1 .. Len(entries) :
             InChain(scope, e) <=> \/ \E k \in 1 .. Len(paramEntry[f]) : paramEntry[f][k] = e
                                   \/ \E i \in StmtsIn(f) : stmtVar[f][i] = e
    BY <1>1, <1>3 DEF InScopes
  <2>2. Fns' = Fns /\ StmtsIn(f)' = StmtsIn(f)
    BY <1>3 DEF Fns, StmtsIn
  <2> QED BY <1>3, <2>1, <2>2, ChainsSame
<1> QED BY <1>2, <1>3 DEF InScopes

LEMMA NamesSame ==
  ASSUME Filled, NamesInv, UNCHANGED <<f, p, s, todo, exprVar>>, UNCHANGED Declared
  PROVE  NamesInv'
<1>0. UNCHANGED <<prog, phase, scopes, entries, fnEntry, paramEntry, stmtVar>>
  BY DEF Declared
<1>1. \A g, i : Passed(g, i)' <=> Passed(g, i)
  BY <1>0 DEF Passed
<1>2. EntryNames' /\ LetsMade' /\ ParamsMade' /\ ChainsHashed' /\ NoRepeats'
  BY <1>1, DeclaredKept
<1>3. InScopes'
  BY <1>0, InScopesSame DEF NamesInv
<1>4. NamesWalk'
  <2>1. /\ Fns' = Fns /\ Fn' = Fn /\ StmtsIn(f)' = StmtsIn(f)
        /\ \A n : n \in B!Nodes(StmtAt(f, s - 1).value)' <=> n \in B!Nodes(StmtAt(f, s - 1).value)
    BY <1>0, NodesSame DEF Fns, Fn, StmtsIn, StmtAt
  <2>2. NamesWalk
    BY DEF NamesInv
  <2> QED BY <1>0, <2>1, <2>2 DEF NamesWalk
<1>5. \A n : ToResolve(n)' <=> ToResolve(n)
  BY <1>0, NodesSame DEF ToResolve
<1>6. AllResolved'
  <2>1. ASSUME NEW g \in Fns, NEW i \in StmtsIn(g), Passed(g, i)', NEW n \in B!Nodes(StmtAt(g, i).value)
        PROVE  Resolved(n, g, i)' \/ (phase' = "names" /\ g = f' /\ i = s' - 1 /\ ToResolve(n)')
    <3>1. Resolved(n, g, i) \/ (phase = "names" /\ g = f /\ i = s - 1 /\ ToResolve(n))
      BY <1>1, <2>1 DEF NamesInv, AllResolved
    <3>2. CASE Resolved(n, g, i)
      BY <1>0, <3>2, ResolvedStays DEF Filled, Inv
    <3> QED BY <1>0, <1>5, <3>1, <3>2
  <2> QED BY <1>0, <2>1, AllResolvedFrom
<1> QED
  BY <1>2, <1>3, <1>4, <1>6 DEF NamesInv

-----------------------------------------------------------------------------
(* The walk over a value, names resolved.                                  *)
LEMMA ArgsEntered ==
  ASSUME Inv, NEW n \in Nodes
  PROVE  /\ EnterAll(Expr(n).args) \in Seq(Tasks) /\ Len(EnterAll(Expr(n).args)) = Len(Expr(n).args)
         /\ \A k \in 1 .. Len(Expr(n).args) : EnterAll(Expr(n).args)[k] = Enter(Expr(n).args[k])
<1>1. Len(Expr(n).args) \in Nat
  BY BelowNode
<1>2. EnterAll(Expr(n).args) \in Seq(Tasks)
  BY EnterAllOK
<1>3. EnterAll(Expr(n).args) = [k \in 1 .. Len(Expr(n).args) |-> Enter(Expr(n).args[k])]
  BY DEF EnterAll
<1>4. Len(EnterAll(Expr(n).args)) = Len(Expr(n).args)
  <2>1. PICK l : l = EnterAll(Expr(n).args)
    OBVIOUS
  <2>2. l \in Seq(Tasks) /\ DOMAIN l = 1 .. Len(Expr(n).args)
    BY <1>2, <1>3, <2>1
  <2>3. DOMAIN l = 1 .. Len(l) /\ Len(l) \in Nat
    BY <2>2, LenProperties
  <2> QED BY <1>1, <2>1, <2>2, <2>3
<1> QED BY <1>2, <1>3, <1>4

LEMMA NamesGoOn ==
  ASSUME Filled, NamesInv, phase = "names", todo # << >>, Node \in Nodes,
         Continue(EnterAll(Expr(Node).args)), UNCHANGED Declared,
         \A n \in Nodes : n # Node => exprVar'[n] = exprVar[n],
         NEW v, v = Node, NEW g0, g0 = f, NEW i0, i0 = s - 1, Resolved(v, g0, i0)'
  PROVE  NamesInv'
<1> DEFINE tasks == EnterAll(Expr(Node).args)
<1>0. /\ UNCHANGED <<prog, phase, scopes, entries, fnEntry, paramEntry, stmtVar>>
      /\ UNCHANGED <<outcome, f, p, s>> /\ Inv /\ prog \in Programs
  BY DEF Declared, Continue, Filled, Inv
<1>1. \A g, i : Passed(g, i)' <=> Passed(g, i)
  BY <1>0 DEF Passed
<1>2. EntryNames' /\ LetsMade' /\ ParamsMade' /\ ChainsHashed' /\ NoRepeats'
  BY <1>1, DeclaredKept
<1>3. InScopes'
  BY <1>0, InScopesSame DEF NamesInv
<1>4. /\ tasks \in Seq(Tasks) /\ Len(tasks) = Len(Expr(Node).args)
      /\ \A k \in 1 .. Len(tasks) : tasks[k] = Enter(Expr(Node).args[k])
  BY <1>0, ArgsEntered
<1>5. /\ Len(tasks) \in Nat /\ Len(todo) \in Nat
      /\ \A j \in 1 .. Len(tasks) : j \in 1 .. Len(todo') /\ todo'[j] = tasks[j]
      /\ \A j \in 2 .. Len(todo) : /\ Len(tasks) + j - 1 \in 1 .. Len(todo')
                                   /\ todo'[Len(tasks) + j - 1] = todo[j]
      /\ \A j \in 1 .. Len(todo') : j > Len(tasks) =>
           /\ j - Len(tasks) + 1 \in 2 .. Len(todo)
           /\ todo'[j] = todo[j - Len(tasks) + 1]
      /\ Head(todo) = todo[1]
  BY <1>0, <1>4, Shifted
<1>6. /\ f \in Fns /\ s - 1 \in StmtsIn(f) /\ p > Len(Fn.params)
      /\ \A j \in 1 .. Len(todo) : todo[j].n \in B!Nodes(StmtAt(f, s - 1).value)
  BY DEF NamesInv, NamesWalk
<1>7. 1 \in 1 .. Len(todo) /\ Node = todo[1].n
  BY <1>0, <1>5, EmptySeq, Pending DEF Node
<1>8. s - 1 \in StmtsIn(f)
  BY <1>6
<1>9. Node \in B!Nodes(StmtAt(f, s - 1).value)
  BY <1>6, <1>7
<1>10. StmtAt(f, s - 1).value \in Nodes
  BY <1>0, <1>6, <1>8, <1>9, InStatement
<1>11. \A j \in 1 .. Len(tasks) : tasks[j].n = Expr(Node).args[j]
  <2>1. ASSUME NEW j \in 1 .. Len(tasks) PROVE tasks[j].n = Expr(Node).args[j]
    <3>1. tasks[j] = Enter(Expr(Node).args[j])
      BY <1>4
    <3> HIDE DEF tasks
    <3> QED BY <3>1 DEF Enter, Task
  <2> QED BY <2>1
<1>12. \A j \in 1 .. Len(todo') : todo'[j].n \in B!Nodes(StmtAt(f, s - 1).value)
  <2>1. ASSUME NEW j \in 1 .. Len(todo') PROVE todo'[j].n \in B!Nodes(StmtAt(f, s - 1).value)
    <3>1. CASE j <= Len(tasks)
      <4>1. j \in 1 .. Len(Expr(Node).args) /\ todo'[j] = tasks[j] /\ tasks[j].n = Expr(Node).args[j]
        BY <1>4, <1>5, <1>11, <3>1
      <4>2. Expr(Node).args[j] \in B!Nodes(StmtAt(f, s - 1).value)
        BY <1>0, <1>9, <1>10, <4>1, NodesClosed
      <4> QED BY <4>1, <4>2
    <3>2. CASE j > Len(tasks)
      <4>1. PICK i \in 2 .. Len(todo) : todo'[j] = todo[i]
        BY <1>5, <3>2
      <4>2. i \in 1 .. Len(todo)
        BY <1>5
      <4> QED BY <1>6, <4>1, <4>2
    <3> QED BY <1>5, <3>1, <3>2
  <2> QED BY <2>1
<1>13. NamesWalk'
  <2>1. Fns' = Fns /\ Fn' = Fn /\ StmtAt(f, s - 1)' = StmtAt(f, s - 1) /\ StmtsIn(f)' = StmtsIn(f)
    BY <1>0 DEF Fns, Fn, StmtAt, StmtsIn
  <2>2. B!Nodes(StmtAt(f, s - 1).value)' = B!Nodes(StmtAt(f, s - 1).value)
    BY <1>0, <2>1, NodesSame
  <2>3. f \in Fns /\ p <= Len(Fn.params) => s = 1
    BY DEF NamesInv, NamesWalk
  <2> QED BY <1>0, <1>6, <1>12, <2>1, <2>2, <2>3 DEF NamesWalk
<1>14. ASSUME NEW n \in Nodes, ToResolve(n), n # Node PROVE ToResolve(n)'
  <2>1. PICK j \in 1 .. Len(todo) : n \in B!Nodes(todo[j].n)
    BY <1>14 DEF ToResolve
  <2>2. \E i \in 1 .. Len(todo') : n \in B!Nodes(todo'[i].n)
    <3>1. CASE j = 1
      <4>1. n \in B!Nodes(Node)
        BY <1>7, <2>1, <3>1
      <4>2. PICK k \in 1 .. Len(Expr(Node).args) : n \in B!Nodes(Expr(Node).args[k])
        BY <1>0, <1>14, <4>1, NodesOf
      <4>3. k \in 1 .. Len(todo') /\ todo'[k].n = Expr(Node).args[k]
        BY <1>4, <1>5, <1>11
      <4> QED BY <4>2, <4>3
    <3>2. CASE j # 1
      <4>1. j \in 2 .. Len(todo)
        BY <1>5, <3>2
      <4> QED BY <1>5, <2>1, <4>1
    <3> QED BY <3>1, <3>2
  <2> QED BY <1>0, <2>2, NodesSame DEF ToResolve
<1>15. AllResolved'
  <2>1. ASSUME NEW g \in Fns, NEW i \in StmtsIn(g), Passed(g, i)', NEW n \in B!Nodes(StmtAt(g, i).value)
        PROVE  Resolved(n, g, i)' \/ (phase' = "names" /\ g = f' /\ i = s' - 1 /\ ToResolve(n)')
    <3>0. n \in Nodes
      BY <1>0, InStatement
    <3>1. Resolved(n, g, i) \/ (phase = "names" /\ g = f /\ i = s - 1 /\ ToResolve(n))
      BY <1>1, <2>1 DEF NamesInv, AllResolved
    <3>2. CASE n = Node
      <4>1. g = f /\ i = s - 1
        BY <1>0, <1>6, <1>8, <1>9, <3>2, OneStatement DEF Filled
      <4>2. n = v /\ g = g0 /\ i = i0
        BY <3>2, <4>1
      <4> QED BY ONLY <4>2, Resolved(v, g0, i0)'
    <3>3. CASE n # Node /\ Resolved(n, g, i)
      <4>1. exprVar'[n] = exprVar[n]
        BY <3>0, <3>3
      <4> QED BY <1>0, <3>3, <4>1, ResolvedStays
    <3>4. CASE n # Node /\ phase = "names" /\ g = f /\ i = s - 1 /\ ToResolve(n)
      BY <1>0, <1>14, <3>0, <3>4
    <3> QED BY <3>1, <3>2, <3>3, <3>4
  <2> QED BY <1>0, <2>1, AllResolvedFrom
<1> QED
  BY <1>2, <1>3, <1>13, <1>15 DEF NamesInv

-----------------------------------------------------------------------------
(* What the scopes hold, in terms of the program.                          *)
LEMMA FnEntriesHere ==
  ASSUME Filled, NEW g \in 1 .. Len(fnEntry)
  PROVE  g \in Fns /\ fnEntry[g] = g /\ g \in 1 .. Len(entries)
<1>1. Inv /\ fnEntry \in Seq(1 .. Len(entries)) /\ fnEntry[g] = g
  BY InvParts, Placing DEF Filled, AnnotationsOK
<1>2. fnEntry[g] \in 1 .. Len(entries)
  BY <1>1, ElementOfSeq
<1>3. Len(fnEntry) <= Len(prog.fns) /\ Len(fnEntry) \in Nat /\ Len(prog.fns) \in Nat
  <2>1. f \in 1 .. Len(prog.fns) + 1 /\ Len(prog.fns) \in Nat
    BY <1>1, InvParts, ControlTypes, ProgramShape DEF ControlOK
  <2>2. Len(fnEntry) = IF phase = "declare" THEN f - 1 ELSE Len(prog.fns)
    BY Placing
  <2>3. Len(fnEntry) \in Nat
    BY <1>1, LenProperties
  <2> QED BY <2>1, <2>2, <2>3
<1> QED BY <1>1, <1>2, <1>3 DEF Fns

LEMMA GlobalNone ==
  ASSUME Filled, NamesApart, NamesInv, Naming, NEW name \in Names, find_in(global, name) = NULL,
         NEW g \in 1 .. Len(fnEntry)
  PROVE  prog.fns[g].name # name
<1>1. TableOK /\ ChainsHashed /\ global \in 1 .. Len(scopes)
  BY InvParts, Scoped DEF Filled, NamesInv
<1>2. \A e : InChain(global, e) => entries[e].pos # name
  BY <1>1, FindByName
<1>3. g \in 1 .. Len(entries) /\ fnEntry[g] = g
  BY FnEntriesHere
<1>4. InChain(global, g)
  <2>1. g <= Len(fnEntry)
    <3>1. Len(fnEntry) \in Nat
      BY InvParts, LenProperties DEF Filled, AnnotationsOK
    <3> QED BY <3>1
  <2> QED BY <1>3, <2>1 DEF NamesInv, InScopes
<1>5. entries[g].pos = prog.fns[g].name
  BY <1>3 DEF NamesInv, EntryNames
<1> QED BY <1>2, <1>4, <1>5

LEMMA GlobalFound ==
  ASSUME Filled, NamesApart, NamesInv, Naming, NEW name \in Names, find_in(global, name) # NULL
  PROVE  find_in(global, name) \in 1 .. Len(fnEntry) /\ prog.fns[find_in(global, name)].name = name
<1> DEFINE e == find_in(global, name)
<1>1. TableOK /\ ChainsHashed /\ global \in 1 .. Len(scopes)
  BY InvParts, Scoped DEF Filled, NamesInv
<1>2. InChain(global, e) /\ entries[e].pos = name
  BY <1>1, FindByName
<1>3. e \in 1 .. Len(entries)
  BY <1>1, <1>2, InChainEntry
<1>4. e <= Len(fnEntry)
  BY <1>2, <1>3 DEF NamesInv, InScopes
<1>5. e \in 1 .. Len(fnEntry)
  <2>1. Len(fnEntry) \in Nat /\ Len(entries) \in Nat
    BY InvParts, Scoped, LenProperties DEF Filled, AnnotationsOK
  <2> HIDE DEF e
  <2> QED BY <1>3, <1>4, <2>1
<1>6. fnEntry[e] = e
  BY <1>5, FnEntriesHere
<1>7. entries[fnEntry[e]].pos = prog.fns[e].name
  BY <1>5 DEF NamesInv, EntryNames
<1> QED BY <1>2, <1>5, <1>6, <1>7

LEMMA EntriesOf ==
  ASSUME Inv, NEW g \in Fns
  PROVE  /\ \A k \in 1 .. Len(paramEntry[g]) : paramEntry[g][k] # NULL => paramEntry[g][k] \in 1 .. Len(entries)
         /\ \A i \in StmtsIn(g) : stmtVar[g][i] # NULL => stmtVar[g][i] \in 1 .. Len(entries)
<1>1. /\ paramEntry[g] \in Seq(0 .. Len(entries)) /\ Len(entries) \in Nat
      /\ stmtVar[g] \in [1 .. Len(prog.fns[g].stmts) -> 0 .. Len(entries)]
  BY InvParts, Scoped DEF AnnotationsOK, Fns
<1>2. \A k \in 1 .. Len(paramEntry[g]) : paramEntry[g][k] \in 0 .. Len(entries)
  BY <1>1, ElementOfSeq
<1>3. \A i \in StmtsIn(g) : stmtVar[g][i] \in 0 .. Len(entries)
  BY <1>1 DEF StmtsIn
<1> QED BY <1>1, <1>2, <1>3 DEF NULL

LEMMA LocalNone ==
  ASSUME Filled, NamesApart, NamesInv, phase = "names", p > 0, f \in Fns, NEW name \in Names,
         find_in(scope, name) = NULL
  PROVE  /\ \A i \in StmtsIn(f) : Passed(f, i) /\ StmtAt(f, i).t = "let" => StmtAt(f, i).name # name
         /\ \A k \in 1 .. Len(paramEntry[f]) : ParamAt(f, k).name # name
<1>1. TableOK /\ ChainsHashed /\ scope \in 1 .. Len(scopes) /\ Naming /\ Inv
  BY InvParts, Scoped DEF Filled, NamesInv, Naming
<1>2. \A e : InChain(scope, e) => entries[e].pos # name
  BY <1>1, FindByName
<1>3. \A e \in 1 .. Len(entries) : InChain(scope, e) <=>
        \/ \E k \in 1 .. Len(paramEntry[f]) : paramEntry[f][k] = e
        \/ \E i \in StmtsIn(f) : stmtVar[f][i] = e
  BY <1>1 DEF NamesInv, InScopes
<1>4. ASSUME NEW i \in StmtsIn(f), Passed(f, i), StmtAt(f, i).t = "let" PROVE StmtAt(f, i).name # name
  <2>1. stmtVar[f][i] # NULL
    BY <1>4 DEF NamesInv, LetsMade
  <2>2. stmtVar[f][i] \in 1 .. Len(entries)
    BY <1>1, <2>1, EntriesOf
  <2>3. InChain(scope, stmtVar[f][i])
    BY <1>3, <2>2
  <2>4. entries[stmtVar[f][i]].pos = StmtAt(f, i).name
    BY <1>1, <2>1 DEF NamesInv, EntryNames
  <2> QED BY <1>2, <2>3, <2>4
<1>5. ASSUME NEW l \in 1 .. Len(paramEntry[f]), ParamAt(f, l).name = name PROVE FALSE
  <2> DEFINE S == {k \in 1 .. Len(paramEntry[f]) : ParamAt(f, k).name = name}
  <2>1. Len(paramEntry[f]) \in Nat
    BY <1>1, InvParts, LenProperties DEF AnnotationsOK, Fns
  <2>2. S \in SUBSET Nat /\ S # {}
    BY <1>5, <2>1
  <2>3. PICK k \in S : \A j \in S : k <= j
    BY <2>2, LeastNat
  <2>4. \A j \in 1 .. k - 1 : ParamAt(f, j).name # ParamAt(f, k).name
    <3>1. ASSUME NEW j \in 1 .. k - 1, ParamAt(f, j).name = name PROVE FALSE
      <4>1. j \in S
        BY <2>1, <2>3, <3>1
      <4> HIDE DEF S
      <4>2. k <= j
        BY <2>3, <4>1
      <4> QED BY <2>1, <2>2, <2>3, <4>2
    <3> QED BY <2>3, <3>1
  <2>5. paramEntry[f][k] # NULL
    BY <2>3, <2>4 DEF NamesInv, ParamsMade
  <2>6. paramEntry[f][k] \in 1 .. Len(entries)
    BY <1>1, <2>3, <2>5, EntriesOf
  <2>7. InChain(scope, paramEntry[f][k])
    BY <1>3, <2>3, <2>6
  <2>8. entries[paramEntry[f][k]].pos = ParamAt(f, k).name
    BY <1>1, <2>3, <2>5 DEF NamesInv, EntryNames
  <2> QED BY <1>2, <2>3, <2>7, <2>8
<1> QED BY <1>4, <1>5

LEMMA LocalFound ==
  ASSUME Filled, NamesApart, NamesInv, phase = "names", p > 0, f \in Fns, NEW name \in Names,
         NEW e, e = find_in(scope, name), e # NULL
  PROVE  \/ \E i \in StmtsIn(f) : /\ e = stmtVar[f][i] /\ Passed(f, i)
                                  /\ StmtAt(f, i).t = "let" /\ StmtAt(f, i).name = name
         \/ \E k \in 1 .. Len(paramEntry[f]) : /\ e = paramEntry[f][k] /\ ParamAt(f, k).name = name
                                               /\ \A j \in 1 .. k - 1 : ParamAt(f, j).name # name
<1>1. TableOK /\ ChainsHashed /\ scope \in 1 .. Len(scopes) /\ Naming /\ Inv
  BY InvParts, Scoped DEF Filled, NamesInv, Naming
<1>2. InChain(scope, e) /\ entries[e].pos = name
  BY <1>1, FindByName
<1>3. e \in 1 .. Len(entries)
  BY <1>1, <1>2, InChainEntry
<1>4. \/ \E k \in 1 .. Len(paramEntry[f]) : paramEntry[f][k] = e
      \/ \E i \in StmtsIn(f) : stmtVar[f][i] = e
  BY <1>1, <1>2, <1>3 DEF NamesInv, InScopes
<1>5. ASSUME NEW i \in StmtsIn(f), stmtVar[f][i] = e
      PROVE  Passed(f, i) /\ StmtAt(f, i).t = "let" /\ StmtAt(f, i).name = name
  <2>1. Passed(f, i) /\ StmtAt(f, i).t = "let"
    BY <1>5 DEF NamesInv, LetsMade
  <2>2. entries[stmtVar[f][i]].pos = StmtAt(f, i).name
    BY <1>1, <1>5 DEF NamesInv, EntryNames
  <2> QED BY <1>2, <1>5, <2>1, <2>2
<1>6. ASSUME NEW k \in 1 .. Len(paramEntry[f]), paramEntry[f][k] = e
      PROVE  ParamAt(f, k).name = name /\ \A j \in 1 .. k - 1 : ParamAt(f, j).name # name
  <2>1. \A j \in 1 .. k - 1 : ParamAt(f, j).name # ParamAt(f, k).name
    BY <1>6 DEF NamesInv, ParamsMade
  <2>2. entries[paramEntry[f][k]].pos = ParamAt(f, k).name
    BY <1>1, <1>6 DEF NamesInv, EntryNames
  <2> QED BY <1>2, <1>6, <2>1, <2>2
<1> QED BY <1>4, <1>5, <1>6

-----------------------------------------------------------------------------
(* The scopes know a name exactly when it is bound, and by its entry.      *)
LEMMA AllParamsMade ==
  ASSUME Filled, phase = "names", f \in Fns, p > Len(Fn.params)
  PROVE  Len(paramEntry[f]) = Len(prog.fns[f].params)
<1>1. /\ Len(paramEntry[f]) = IF p = 0 THEN 0 ELSE p - 1
      /\ p <= Len(Fn.params) + 1
  BY InvParts, InsideFn DEF LoopsOK, Filled, Fns
<1>2. Len(Fn.params) \in Nat /\ p \in Nat /\ Fn = prog.fns[f]
  BY ControlTypes, InsideFn DEF Filled, Fn, Fns
<1> QED BY <1>1, <1>2

LEMMA PassedHere ==
  ASSUME Filled, phase = "names", f \in Fns, NEW j \in StmtsIn(f)
  PROVE  Passed(f, j) <=> j <= s - 1
<1>1. f \in Nat /\ s \in Nat /\ j \in Nat
  BY ControlTypes, InsideFn DEF Filled, StmtsIn, Fns, Fn
<1> QED BY <1>1 DEF Passed

LEMMA LookupNone ==
  ASSUME Filled, NamesApart, NamesInv, phase = "names", f \in Fns, p > Len(Fn.params),
         NEW name \in Names, scope_find(scope, name) = NULL
  PROVE  B!Binding(name, f, s - 1).kind = "none"
<1>0. Naming /\ Inv /\ p > 0 /\ prog \in Programs
  BY InsideFn, ControlTypes DEF Filled, Naming, Fns, Inv
<1>1. scopes[scope].up = <<global>> /\ TableOK /\ scope \in 1 .. Len(scopes)
  BY <1>0, Placing, InvParts, Scoped
<1>2. find_in(scope, name) = NULL /\ find_in(global, name) = NULL
  BY <1>1, FindUp
<1>3. B!LetsNamed(name, f, s - 1) = {}
  <2>1. ASSUME NEW j \in B!LetsNamed(name, f, s - 1) PROVE FALSE
    <3>1. j \in StmtsIn(f) /\ StmtAt(f, j).t = "let" /\ j <= s - 1 /\ StmtAt(f, j).name = name
      BY LetsNamedAre
    <3> QED BY <1>0, <1>2, <3>1, PassedHere, LocalNone
  <2> QED BY <2>1
<1>4. B!ParamsNamed(name, f) = {}
  <2>1. ASSUME NEW k \in B!ParamsNamed(name, f) PROVE FALSE
    <3>1. k \in 1 .. Len(paramEntry[f]) /\ ParamAt(f, k).name = name
      BY ParamsNamedAre, AllParamsMade
    <3> QED BY <1>0, <1>2, <3>1, LocalNone
  <2> QED BY <2>1
<1>5. B!FunctionsNamed(name) = {}
  <2>1. ASSUME NEW h \in B!FunctionsNamed(name) PROVE FALSE
    <3>1. h \in 1 .. Len(fnEntry) /\ prog.fns[h].name = name
      BY FunctionsNamedAre, Placing DEF Fns
    <3> QED BY <1>0, <1>2, <3>1, GlobalNone
  <2> QED BY <2>1
<1> QED BY <1>0, <1>3, <1>4, <1>5, BoundToNone

LEMMA LookupFound ==
  ASSUME Filled, NamesApart, NamesInv, phase = "names", f \in Fns, p > Len(Fn.params),
         NEW name \in Names, NEW e, e = scope_find(scope, name), e # NULL
  PROVE  LET b == B!Binding(name, f, s - 1) IN b.kind # "none" /\ e = EntryOf(b, f)
<1> DEFINE b == B!Binding(name, f, s - 1)
<1>0. Naming /\ Inv /\ p > 0 /\ prog \in Programs
  BY InsideFn, ControlTypes DEF Filled, Naming, Fns, Inv
<1>1. scopes[scope].up = <<global>> /\ TableOK /\ scope \in 1 .. Len(scopes)
  BY <1>0, Placing, InvParts, Scoped
<1>2. e = IF find_in(scope, name) # NULL THEN find_in(scope, name) ELSE find_in(global, name)
  BY <1>1, FindUp
<1>3. ASSUME NEW i \in StmtsIn(f), e = stmtVar[f][i], Passed(f, i), StmtAt(f, i).t = "let",
             StmtAt(f, i).name = name
      PROVE  b.kind # "none" /\ e = EntryOf(b, f)
  <2>1. B!LetsNamed(name, f, i) = {i}
    BY <1>3 DEF NamesInv, NoRepeats
  <2>2. i \in B!LetsNamed(name, f, s - 1)
    BY <1>3, PassedHere, LetsNamedAre
  <2>3. b.kind = "let"
    BY <2>2, BindingIs, Zenon
  <2>4. /\ b.at \in StmtsIn(f) /\ StmtAt(f, b.at).t = "let" /\ StmtAt(f, b.at).name = name
        /\ b.at <= i
    BY <1>0, <2>2, <2>3, BoundToLet
  <2>5. b.at \in B!LetsNamed(name, f, i)
    BY <2>4, LetsNamedAre
  <2>6. b.at = i
    BY <2>1, <2>5
  <2>7. EntryOf(b, f) = stmtVar[f][b.at]
    BY <2>3 DEF EntryOf
  <2> QED BY <1>3, <2>3, <2>6, <2>7
<1>4. ASSUME NEW k \in 1 .. Len(paramEntry[f]), e = paramEntry[f][k], ParamAt(f, k).name = name,
             \A j \in 1 .. k - 1 : ParamAt(f, j).name # name
      PROVE  b.kind # "none" /\ e = EntryOf(b, f)
  <2>1. k \in B!ParamsNamed(name, f)
    BY <1>4, ParamsNamedAre, AllParamsMade
  <2>2. B!LetsNamed(name, f, s - 1) = {}
    <3>1. ASSUME NEW j \in B!LetsNamed(name, f, s - 1) PROVE FALSE
      <4>1. j \in StmtsIn(f) /\ StmtAt(f, j).t = "let" /\ j <= s - 1 /\ StmtAt(f, j).name = name
        BY LetsNamedAre
      <4>2. B!ParamsNamed(name, f) = {}
        BY <4>1, PassedHere DEF NamesInv, NoRepeats
      <4> QED BY <2>1, <4>2
    <3> QED BY <3>1
  <2>3. b.kind = "param"
    BY <2>1, <2>2, BindingIs, Zenon
  <2>4. /\ b.at \in 1 .. Len(prog.fns[f].params) /\ ParamAt(f, b.at).name = name
        /\ \A j \in 1 .. b.at - 1 : ParamAt(f, j).name # name
    BY <1>0, <2>3, BoundToParam
  <2>5. Len(prog.fns[f].params) \in Nat /\ k \in 1 .. Len(prog.fns[f].params)
    BY <1>0, AllParamsMade, ProgramShape
  <2>6. b.at = k
    <3> HIDE DEF b
    <3>1. ~(k < b.at) /\ ~(b.at < k)
      BY <1>4, <2>4, <2>5
    <3> QED BY <2>4, <2>5, <3>1
  <2>7. EntryOf(b, f) = paramEntry[f][b.at]
    BY <2>3 DEF EntryOf
  <2> QED BY <1>4, <2>3, <2>6, <2>7
<1>5. CASE find_in(scope, name) # NULL
  <2>1. e = find_in(scope, name)
    BY <1>2, <1>5
  <2> QED BY <1>0, <1>3, <1>4, <2>1, LocalFound
<1>6. CASE find_in(scope, name) = NULL
  <2>1. e = find_in(global, name) /\ find_in(global, name) # NULL
    BY <1>2, <1>6
  <2>2. e \in 1 .. Len(fnEntry) /\ prog.fns[e].name = name
    BY <1>0, <2>1, GlobalFound
  <2>3. e \in Fns /\ fnEntry[e] = e
    BY <2>2, FnEntriesHere
  <2>4. B!LetsNamed(name, f, s - 1) = {}
    <3>1. ASSUME NEW j \in B!LetsNamed(name, f, s - 1) PROVE FALSE
      <4>1. j \in StmtsIn(f) /\ StmtAt(f, j).t = "let" /\ j <= s - 1 /\ StmtAt(f, j).name = name
        BY LetsNamedAre
      <4> QED BY <1>0, <1>6, <4>1, PassedHere, LocalNone
    <3> QED BY <3>1
  <2>5. B!ParamsNamed(name, f) = {}
    <3>1. ASSUME NEW k \in B!ParamsNamed(name, f) PROVE FALSE
      <4>1. k \in 1 .. Len(paramEntry[f]) /\ ParamAt(f, k).name = name
        BY ParamsNamedAre, AllParamsMade
      <4> QED BY <1>0, <1>6, <4>1, LocalNone
    <3> QED BY <3>1
  <2>6. B!FunctionsNamed(name) # {}
    BY <2>2, <2>3, FunctionsNamedAre
  <2>7. b.kind = "fn"
    BY <2>4, <2>5, <2>6, BindingIs, Zenon
  <2>8. b.at \in Fns /\ prog.fns[b.at].name = name
    BY <1>0, <2>7, BoundToFn
  <2>9. b.at = e
    <3>1. b.at \in 1 .. Len(fnEntry)
      BY <1>0, <2>8, Placing DEF Fns
    <3> QED BY <2>2, <2>8, <3>1 DEF NamesInv, NoRepeats
  <2>10. EntryOf(b, f) = fnEntry[b.at]
    BY <2>7 DEF EntryOf
  <2> QED BY <2>3, <2>7, <2>9, <2>10
<1> QED BY <1>5, <1>6

-----------------------------------------------------------------------------
LEMMA AtNames ==
  ASSUME Filled, NamesInv, NEW t, At("names", "enter", t)
  PROVE  /\ phase = "names" /\ todo # << >> /\ Node \in Nodes /\ Expr(Node).t = t /\ f \in Fns
         /\ s - 1 \in StmtsIn(f) /\ p > Len(Fn.params) /\ Node \in B!Nodes(StmtAt(f, s - 1).value)
         /\ t \in {"var", "funcall"} => Expr(Node).name \in Names
<1>1. phase = "names" /\ todo # << >> /\ Head(todo).k = "enter" /\ (Node # 0 => Expr(Node).t = t) /\ Inv
  BY DEF At, In, Filled, Node
<1>2. Node \in Nodes /\ Node # 0 /\ ParsedExpr(Expr(Node), Node)
  BY <1>1, AtTask
<1>3. Expr(Node).t = t
  BY <1>1, <1>2
<1>4. t \in {"var", "funcall"} => Expr(Node).name \in Names
  BY <1>2, <1>3 DEF ParsedExpr
<1>5. Len(todo) \in Nat /\ 1 \in 1 .. Len(todo) /\ Head(todo) = todo[1]
  BY <1>1, Pending, EmptySeq, HeadTailProperties
<1> QED
  BY <1>1, <1>2, <1>3, <1>4, <1>5 DEF NamesInv, NamesWalk, Node

LEMMA ResolveOperandsNames ==
  ASSUME Filled, NamesInv, NEW t \in {"int", "binop"}, ResolveOperands(t)
  PROVE  NamesInv'
<1>1. At("names", "enter", t) /\ Continue(EnterAll(Expr(Node).args)) /\ UNCHANGED Declared
      /\ exprVar' = exprVar /\ prog' = prog
  BY DEF ResolveOperands, annotations, Declared, Continue
<1>2. phase = "names" /\ todo # << >> /\ Node \in Nodes /\ Expr(Node).t = t
  BY <1>1, AtNames
<1>3. PICK v, g0, i0 : v = Node /\ g0 = f /\ i0 = s - 1
  OBVIOUS
<1>4. ~NamedNode(v)'
  BY <1>1, <1>2, <1>3 DEF NamedNode, Expr
<1>5. Resolved(v, g0, i0)'
  BY <1>4 DEF Resolved
<1> QED BY <1>1, <1>2, <1>3, <1>5, NamesGoOn

LEMMA ResolveNameNames ==
  ASSUME Filled, NamesApart, NamesInv, NEW t \in {"var", "funcall"}, ResolveName(t), outcome' = "running"
  PROVE  NamesInv'
<1>0. At("names", "enter", t) /\ outcome = "running" 
  BY DEF ResolveName, At, In
<1>1. /\ phase = "names" /\ todo # << >> /\ Node \in Nodes /\ Expr(Node).t = t /\ f \in Fns
      /\ s - 1 \in StmtsIn(f) /\ p > Len(Fn.params) /\ Expr(Node).name \in Names
  BY <1>0, AtNames
<1> DEFINE entry == scope_find(scope, Expr(Node).name)
<1>2. /\ entry # NULL /\ exprVar' = [exprVar EXCEPT ![Node] = entry]
      /\ Continue(EnterAll(Expr(Node).args))
      /\ UNCHANGED <<prog, scopes, entries>>
      /\ UNCHANGED <<fnEntry, paramEntry, stmtVar, stmtType, exprType>>
  BY DEF ResolveName, Stop
<1>3. UNCHANGED Declared
  BY <1>2 DEF Declared, Continue
<1>4. DOMAIN exprVar = Nodes
  BY InvParts DEF Filled, AnnotationsOK, Nodes
<1>5. PICK v, g0, i0, e : v = Node /\ g0 = f /\ i0 = s - 1 /\ e = entry
  OBVIOUS
<1>6. exprVar'[v] = e
  BY <1>1, <1>2, <1>4, <1>5
<1> DEFINE b == B!Binding(Expr(v).name, g0, i0)
<1>7. b.kind # "none" /\ e = EntryOf(b, g0)
  BY <1>1, <1>2, <1>5, LookupFound
<1>8. b' = b
  BY <1>2, BindingSame DEF Expr
<1>9. EntryOf(b, g0)' = EntryOf(b, g0)
  BY <1>2, <1>8 DEF EntryOf
<1>10. Resolved(v, g0, i0)'
  <2> HIDE DEF entry
  <2> QED BY <1>6, <1>7, <1>8, <1>9 DEF Resolved
<1>11. \A n \in Nodes : n # Node => exprVar'[n] = exprVar[n]
  BY <1>2, <1>4
<1> QED BY <1>1, <1>2, <1>3, <1>5, <1>10, <1>11, NamesGoOn

LEMMA ResolveNameStops ==
  ASSUME Filled, NamesApart, NamesInv, NEW t \in {"var", "funcall"}, ResolveName(t), outcome' # "running"
  PROVE  outcome' \in B!NameDefects /\ UNCHANGED <<prog, phase, f, p, s, todo, scopes, entries, annotations>>
<1>0. At("names", "enter", t) /\ outcome = "running"
  BY DEF ResolveName, At, In
<1>1. /\ phase = "names" /\ Expr(Node).t = t /\ f \in Fns /\ s - 1 \in StmtsIn(f)
      /\ p > Len(Fn.params) /\ Expr(Node).name \in Names
      /\ Node \in B!Nodes(StmtAt(f, s - 1).value)
  BY <1>0, AtNames
<1>2. scope_find(scope, Expr(Node).name) = NULL /\ Stop("name_not_in_scope")
  BY <1>0 DEF ResolveName, Continue
<1>3. B!Binding(Expr(Node).name, f, s - 1).kind = "none"
  BY <1>1, <1>2, LookupNone
<1>4. "name_not_in_scope" \in B!NameDefects
  BY <1>1, <1>3, Unscoped DEF NamedNode
<1> QED BY <1>2, <1>4 DEF Stop

-----------------------------------------------------------------------------
(* Declarations.                                                           *)
LEMMA InsertHashed ==
  ASSUME TableOK, ChainsHashed, Naming, NEW sc \in 1 .. Len(scopes), NEW pos \in Names, NEW type \in Types,
         scope_insert(sc, pos, type), find_in(sc, pos) = NULL
  PROVE  ChainsHashed'
<1>1. /\ Len(entries) \in Nat /\ Len(entries') = Len(entries) + 1
      /\ \A e \in 1 .. Len(entries) : entries'[e] = entries[e]
      /\ entries'[Len(entries) + 1] = ScopeEntry(pos, type)
      /\ Len(scopes') = Len(scopes)
  BY Inserted
<1>2. \A t \in 1 .. Len(scopes) : \A b \in 0 .. INIT_BUCKETS - 1 :
        \A k \in 1 .. Len(scopes'[t].buckets[b]) :
          \/ \E j \in 1 .. Len(scopes[t].buckets[b]) :
               scopes'[t].buckets[b][k] = scopes[t].buckets[b][j]
          \/ b = bucket_of(pos) /\ scopes'[t].buckets[b][k] = Len(entries) + 1
  BY Inserts
<1>3. ASSUME NEW t \in 1 .. Len(scopes), NEW b \in 0 .. INIT_BUCKETS - 1,
             NEW k \in 1 .. Len(scopes'[t].buckets[b])
      PROVE  bucket_of(entries'[scopes'[t].buckets[b][k]].pos) = b
  <2>1. CASE \E j \in 1 .. Len(scopes[t].buckets[b]) : scopes'[t].buckets[b][k] = scopes[t].buckets[b][j]
    <3>1. PICK j \in 1 .. Len(scopes[t].buckets[b]) : scopes'[t].buckets[b][k] = scopes[t].buckets[b][j]
      BY <2>1
    <3>2. scopes[t].buckets[b][j] \in 1 .. Len(entries)
      BY ChainEntry
    <3>3. bucket_of(entries[scopes[t].buckets[b][j]].pos) = b
      BY DEF ChainsHashed
    <3> QED BY <1>1, <3>1, <3>2, <3>3
  <2>2. CASE b = bucket_of(pos) /\ scopes'[t].buckets[b][k] = Len(entries) + 1
    BY <1>1, <2>2 DEF ScopeEntry
  <2> QED BY <1>2, <2>1, <2>2
<1>4. \A t \in 1 .. Len(scopes') : \A b \in 0 .. INIT_BUCKETS - 1 :
        \A k \in 1 .. Len(scopes'[t].buckets[b]) : bucket_of(entries'[scopes'[t].buckets[b][k]].pos) = b
  BY <1>1, <1>3
<1> QED BY <1>4 DEF ChainsHashed, bucket_of

LEMMA DeclareFnNames ==
  ASSUME Filled, NamesApart, NamesInv, DeclareFn, outcome' = "running"
  PROVE  NamesInv'
<1>1. /\ ~Redeclared(global, Fn.name) /\ scope_insert(global, Fn.name, NoType) /\ NextFn
      /\ fnEntry' = Append(fnEntry, scope_insert_result(global, Fn.name))
      /\ UNCHANGED <<prog, paramEntry, stmtVar, exprVar>>
      /\ phase = "declare" /\ f <= Len(prog.fns)
  BY DEF DeclareFn, InFn, In, Stop
<1>2. /\ find_in(global, Fn.name) = NULL
      /\ scope_insert_result(global, Fn.name) = Len(entries) + 1
  BY <1>1 DEF Redeclared, scope_insert_result, NULL
<1>3. /\ Inv /\ TableOK /\ Naming /\ Fn.name \in Names /\ NoType \in Types /\ global \in 1 .. Len(scopes)
      /\ f \in Fns /\ Fn = prog.fns[f] /\ f' = f + 1 /\ phase' = phase /\ f \in Nat
      /\ Len(prog.fns) \in Nat
  BY <1>1, InsideFn, TypeKinds, Scoped, InvParts, ControlTypes DEF Filled, Naming, Fn, NextFn, Fns
<1>4. /\ Len(entries) \in Nat /\ Len(entries') = Len(entries) + 1
      /\ \A e \in 1 .. Len(entries) : entries'[e] = entries[e]
      /\ entries'[Len(entries) + 1] = ScopeEntry(Fn.name, NoType)
  BY <1>1, <1>2, <1>3, Inserted
<1>5. Len(entries) = f - 1 /\ Len(fnEntry) = f - 1 /\ \A g \in 1 .. Len(fnEntry) : fnEntry[g] = g
  BY <1>1, Placing
<1>6. /\ Len(fnEntry') = f /\ fnEntry'[f] = f
      /\ \A g \in 1 .. Len(fnEntry') : fnEntry'[g] = g
  <2>1. fnEntry \in Seq(Nat) /\ Len(entries) + 1 \in Nat
    <3>1. 1 .. Len(entries) \subseteq Nat
      BY <1>4
    <3> QED BY <1>3, <1>4, <3>1, InvParts, SeqMonotonic DEF AnnotationsOK
  <2>2. /\ Len(fnEntry') = Len(fnEntry) + 1
        /\ \A k \in 1 .. Len(fnEntry) + 1 :
             fnEntry'[k] = IF k <= Len(fnEntry) THEN fnEntry[k] ELSE Len(entries) + 1
    BY <1>1, <1>2, <2>1, OneMore
  <2> QED BY <1>3, <1>5, <2>2
<1>7. \A g \in Fns : Len(paramEntry[g]) = 0
  BY <1>1, <1>3, InvParts DEF LoopsOK, Fns
<1>8. \A g, i : ~Passed(g, i) /\ ~Passed(g, i)'
  BY <1>1, <1>3 DEF Passed
<1>9. \A g \in Fns : \A i \in StmtsIn(g) : stmtVar[g][i] = NULL
  BY <1>8 DEF NamesInv, LetsMade
<1>10. EntryNames'
  <2>1. ASSUME NEW g \in 1 .. Len(fnEntry') PROVE entries'[fnEntry'[g]].pos = prog.fns[g].name
    <3>1. CASE g = f
      BY <1>3, <1>4, <1>5, <1>6, <3>1 DEF ScopeEntry
    <3>2. CASE g # f
      <4>1. g \in 1 .. Len(fnEntry) /\ g \in 1 .. Len(entries)
        BY <1>3, <1>5, <1>6, <3>2
      <4>2. entries[fnEntry[g]].pos = prog.fns[g].name
        BY <1>3, <4>1 DEF NamesInv, EntryNames
      <4> QED BY <1>4, <1>5, <1>6, <4>1, <4>2
    <3> QED BY <3>1, <3>2
  <2>2. \A g \in Fns : \A k \in 1 .. Len(paramEntry[g]) : FALSE
    BY <1>7
  <2>3. \A g \in Fns : \A i \in StmtsIn(g) : stmtVar'[g][i] = NULL
    BY <1>1, <1>9
  <2> QED BY <1>1, <2>1, <2>2, <2>3, TextSame DEF EntryNames
<1>11. LetsMade'
  BY <1>1, <1>8, <1>9, TextSame DEF LetsMade
<1>12. ParamsMade'
  BY <1>1, <1>7, TextSame DEF ParamsMade
<1>13. ChainsHashed'
  BY <1>1, <1>2, <1>3, InsertHashed DEF NamesInv
<1>14. InScopes'
  <2>1. \A e : InChain(global, e)' <=> InChain(global, e) \/ e = Len(entries) + 1
    <3>1. \A t \in 1 .. Len(scopes) : \A e :
              InChain(t, e)' <=> InChain(t, e) \/ (t = global /\ e = Len(entries) + 1)
      BY <1>1, <1>2, <1>3, Inserts
    <3>2. global' = global
      BY DEF global
    <3> QED BY <1>3, <3>1, <3>2
  <2>2. \A e \in 1 .. Len(entries) : InChain(global, e) <=> e <= Len(fnEntry)
    BY <1>3 DEF NamesInv, InScopes
  <2>3. \A e \in 1 .. Len(entries') : InChain(global, e)' <=> e <= Len(fnEntry')
    <3>1. ASSUME NEW e \in 1 .. Len(entries') PROVE InChain(global, e)' <=> e <= Len(fnEntry')
      <4>1. CASE e \in 1 .. Len(entries)
        BY <1>3, <1>4, <1>5, <1>6, <2>1, <2>2, <4>1
      <4>2. CASE e = Len(entries) + 1
        BY <1>3, <1>5, <1>6, <2>1, <4>2
      <4> QED BY <1>4, <4>1, <4>2
    <3> QED BY <3>1
  <2> QED BY <1>1, <1>3, <2>3 DEF InScopes
<1>15. NoRepeats'
  <2>1. ASSUME NEW g \in 1 .. Len(fnEntry'), NEW h \in 1 .. Len(fnEntry'),
               prog.fns[g].name = prog.fns[h].name
        PROVE  g = h
    <3>1. \A k \in 1 .. Len(fnEntry) : prog.fns[k].name # prog.fns[f].name
      BY <1>2, <1>3, GlobalNone
    <3>2. g \in 1 .. Len(fnEntry) \/ g = f
      BY <1>3, <1>5, <1>6
    <3>3. h \in 1 .. Len(fnEntry) \/ h = f
      BY <1>3, <1>5, <1>6
    <3> QED BY <2>1, <3>1, <3>2, <3>3 DEF NamesInv, NoRepeats
  <2> QED BY <1>1, <1>8, <2>1 DEF NoRepeats
<1>16. NamesWalk' /\ AllResolved'
  BY <1>1, <1>3, <1>8 DEF NamesWalk, AllResolved
<1> QED
  BY <1>10, <1>11, <1>12, <1>13, <1>14, <1>15, <1>16 DEF NamesInv

LEMMA DeclareFnStops ==
  ASSUME Filled, NamesApart, NamesInv, DeclareFn, outcome' # "running"
  PROVE  outcome' \in B!NameDefects /\ UNCHANGED <<prog, phase, f, p, s, todo, scopes, entries, annotations>>
<1>1. /\ Redeclared(global, Fn.name) /\ Stop("name_redeclaration")
      /\ phase = "declare" /\ f <= Len(prog.fns)
  BY DEF DeclareFn, InFn, In, NextFn
<1>2. Naming /\ Fn.name \in Names /\ f \in Fns /\ Fn = prog.fns[f]
  BY <1>1, InsideFn DEF Filled, Naming, Fn
<1>3. PICK g : g = find_in(global, Fn.name)
  OBVIOUS
<1>4. g # NULL
  BY <1>1, <1>3 DEF Redeclared, scope_insert_result, NULL
<1>5. g \in 1 .. Len(fnEntry) /\ prog.fns[g].name = Fn.name
  BY <1>2, <1>3, <1>4, GlobalFound
<1>6. g \in Fns /\ Len(fnEntry) = f - 1 /\ f \in Nat
  BY <1>1, <1>5, FnEntriesHere, Placing, ControlTypes DEF Filled
<1>7. g < f
  BY <1>5, <1>6
<1>8. "name_redeclaration" \in B!NameDefects
  BY <1>2, <1>5, <1>6, <1>7, RedeclaredFn
<1> QED BY <1>1, <1>8 DEF Stop

LEMMA NoRepeatsFrom ==
  ASSUME NoRepeats, UNCHANGED <<prog, fnEntry>>,
         \A g \in Fns : \A i \in StmtsIn(g) : Passed(g, i)' /\ StmtAt(g, i).t = "let" =>
           \/ Passed(g, i)
           \/ /\ B!LetsNamed(StmtAt(g, i).name, g, i) = {i}
              /\ B!ParamsNamed(StmtAt(g, i).name, g) = {}
  PROVE  NoRepeats'
<1>1. \A g, h \in 1 .. Len(fnEntry') : prog'.fns[g].name = prog'.fns[h].name => g = h
  BY DEF NoRepeats
<1>2. ASSUME NEW g \in Fns', NEW i \in StmtsIn(g)', Passed(g, i)', StmtAt(g, i)'.t = "let"
      PROVE  /\ B!LetsNamed(StmtAt(g, i).name, g, i)' = {i}
             /\ B!ParamsNamed(StmtAt(g, i).name, g)' = {}
  <2>1. g \in Fns /\ i \in StmtsIn(g) /\ StmtAt(g, i)' = StmtAt(g, i)
    BY <1>2, TextSame
  <2>2. PICK name : name = StmtAt(g, i).name
    OBVIOUS
  <2>3. B!LetsNamed(name, g, i) = {i} /\ B!ParamsNamed(name, g) = {}
    BY <1>2, <2>1, <2>2 DEF NoRepeats
  <2>4. B!LetsNamed(name, g, i)' = {i} /\ B!ParamsNamed(name, g)' = {}
    BY <2>3, LetsNamedSame, ParamsNamedSame
  <2>5. StmtAt(g, i)'.name = name
    BY <2>1, <2>2
  <2> QED BY <2>4, <2>5
<1> QED BY <1>1, <1>2 DEF NoRepeats

LEMMA NamesEnterFnNames ==
  ASSUME Filled, NamesInv, Names_EnterFn
  PROVE  NamesInv'
<1>1. /\ phase = "names" /\ f <= Len(prog.fns) /\ p = 0 /\ p' = 1 /\ scope_init(global)
      /\ UNCHANGED <<prog, phase, outcome, f, s, todo>>
      /\ UNCHANGED <<fnEntry, paramEntry, stmtVar, stmtType, exprVar, exprType>>
  BY DEF Names_EnterFn, InFn, In, annotations
<1>2. entries' = entries /\ scopes' = Append(scopes, Scope(<<global>> \o scopes[global].up))
  BY <1>1 DEF scope_init
<1>3. scopes \in Seq(Scopes) /\ Len(scopes) \in Nat /\ global \in 1 .. Len(scopes) /\ f \in Fns /\ Inv
      /\ Len(Fn.params) \in Nat /\ Len(entries) \in Nat
  BY <1>1, InvParts, Scoped, InsideFn DEF TableOK, Scopes, Buckets, Filled
<1> DEFINE new == Scope(<<global>> \o scopes[global].up)
<1>4. \A b \in 0 .. INIT_BUCKETS - 1 : new.buckets[b] = << >>
  BY DEF Scope
<1> HIDE DEF new
<1>5. /\ Len(scopes') = Len(scopes) + 1
      /\ \A t \in 1 .. Len(scopes) : scopes'[t] = scopes[t]
      /\ scopes'[Len(scopes) + 1] = new
  <2>1. scopes \in Seq(Scopes \cup {new}) /\ new \in Scopes \cup {new}
    BY <1>3, SeqMonotonic
  <2>2. scopes' = Append(scopes, new)
    BY <1>2 DEF new
  <2> QED BY <2>1, <2>2, OneMore
<1>6. \A e : InChain(global, e)' <=> InChain(global, e)
  BY <1>3, <1>5 DEF InChain, global
<1>7. \A e : ~InChain(scope, e)'
  <2>1. scope' = Len(scopes) + 1
    BY <1>5 DEF scope
  <2> QED BY <1>4, <1>5, <2>1, EmptySeq DEF InChain
<1>8. s = 1 /\ todo = << >>
  <2>1. p <= Len(Fn.params)
    BY <1>1, <1>3
  <2>2. ~(p > Len(Fn.params))
    BY <1>1, <1>3
  <2> QED BY <1>1, <1>3, <2>1, <2>2 DEF NamesInv, NamesWalk
<1>9. \A g, i : Passed(g, i)' <=> Passed(g, i)
  BY <1>1 DEF Passed
<1>10. EntryNames'
  BY <1>1, <1>2, TextSame DEF NamesInv, EntryNames, Naming
<1>11. LetsMade'
  BY <1>1, <1>9, TextSame DEF NamesInv, LetsMade
<1>12. ParamsMade'
  BY <1>1, TextSame DEF NamesInv, ParamsMade
<1>13. ChainsHashed'
  <2>1. ASSUME NEW t \in 1 .. Len(scopes'), NEW b \in 0 .. INIT_BUCKETS - 1,
               NEW k \in 1 .. Len(scopes'[t].buckets[b])
        PROVE  bucket_of(entries'[scopes'[t].buckets[b][k]].pos) = b
    <3>1. CASE t \in 1 .. Len(scopes)
      BY <1>1, <1>2, <1>5, <3>1 DEF NamesInv, ChainsHashed, Naming
    <3>2. CASE t = Len(scopes) + 1
      BY <1>4, <1>5, <3>2, EmptySeq
    <3>3. t \in 1 .. Len(scopes) \/ t = Len(scopes) + 1
      BY <1>3, <1>5
    <3> QED BY <3>1, <3>2, <3>3
  <2> QED BY <2>1 DEF ChainsHashed, bucket_of
<1>14. InScopes'
  <2>1. \A e \in 1 .. Len(entries) : InChain(global, e) <=> e <= Len(fnEntry)
    BY <1>1 DEF NamesInv, InScopes, Naming
  <2>2. Len(paramEntry[f]) = 0
    BY <1>1, <1>3, InvParts DEF LoopsOK, Fns
  <2>3. \A i \in StmtsIn(f) : stmtVar[f][i] = NULL
    <3>1. \A i \in StmtsIn(f) : ~Passed(f, i)
      BY <1>1, <1>3, <1>8, ControlTypes, InsideFn DEF Passed, StmtsIn, Fn
    <3> QED BY <1>3, <3>1 DEF NamesInv, LetsMade
  <2>4. \A e \in 1 .. Len(entries) :
          ~(\/ \E k \in 1 .. Len(paramEntry[f]) : paramEntry[f][k] = e
            \/ \E i \in StmtsIn(f) : stmtVar[f][i] = e)
    BY <1>3, <2>2, <2>3 DEF NULL
  <2>5. Fns' = Fns /\ StmtsIn(f)' = StmtsIn(f)
    BY <1>1 DEF Fns, StmtsIn
  <2> QED BY <1>1, <1>2, <1>3, <1>6, <1>7, <2>1, <2>4, <2>5 DEF InScopes
<1>15. NoRepeats'
  BY <1>1, <1>9, NoRepeatsFrom DEF NamesInv
<1>16. NamesWalk'
  BY <1>1, <1>8 DEF NamesWalk
<1>17. AllResolved'
  <2>1. ASSUME NEW g \in Fns, NEW i \in StmtsIn(g), Passed(g, i)', NEW n \in B!Nodes(StmtAt(g, i).value)
        PROVE  Resolved(n, g, i)' \/ (phase' = "names" /\ g = f' /\ i = s' - 1 /\ ToResolve(n)')
    <3>1. Resolved(n, g, i) \/ ToResolve(n)
      BY <1>9, <2>1 DEF NamesInv, AllResolved
    <3>2. ~ToResolve(n)
      BY <1>8, EmptySeq DEF ToResolve
    <3> QED BY <1>1, <3>1, <3>2, ResolvedStays DEF Filled, Inv
  <2> QED BY <1>1, <2>1, AllResolvedFrom
<1> QED
  BY <1>10, <1>11, <1>12, <1>13, <1>14, <1>15, <1>16, <1>17 DEF NamesInv

-----------------------------------------------------------------------------
(* What is declared in the scope of the current function.                  *)
Slot(e) == \/ \E k \in 1 .. Len(paramEntry[f]) : paramEntry[f][k] = e
           \/ \E i \in StmtsIn(f) : stmtVar[f][i] = e

LEMMA InsertedHere ==
  ASSUME Filled, NamesApart, NamesInv, phase = "names", f \in Fns, p > 0, p' > 0,
         NEW name \in Names, NEW type \in Types, scope_insert(scope, name, type),
         find_in(scope, name) = NULL, UNCHANGED <<prog, phase, f, fnEntry>>,
         \A g \in Fns : \A k \in 1 .. Len(paramEntry'[g]) :
           \/ k \in 1 .. Len(paramEntry[g]) /\ paramEntry'[g][k] = paramEntry[g][k]
           \/ paramEntry'[g][k] = Len(entries) + 1 /\ ParamAt(g, k).name = name,
         \A g \in Fns : \A i \in StmtsIn(g) :
           \/ stmtVar'[g][i] = stmtVar[g][i]
           \/ stmtVar'[g][i] = Len(entries) + 1 /\ StmtAt(g, i).name = name,
         \A e : e # NULL => (Slot(e)' <=> Slot(e) \/ e = Len(entries) + 1)
  PROVE  EntryNames' /\ ChainsHashed' /\ InScopes'
<1>1. Naming /\ Inv /\ TableOK /\ scope \in 1 .. Len(scopes) /\ global \in 1 .. Len(scopes) /\ scope # global
  BY InvParts, Scoped, Placing DEF Filled, Naming
<1>2. /\ Len(entries) \in Nat /\ Len(entries') = Len(entries) + 1
      /\ \A e \in 1 .. Len(entries) : entries'[e] = entries[e]
      /\ entries'[Len(entries) + 1] = ScopeEntry(name, type)
      /\ Len(scopes') = Len(scopes)
  BY <1>1, Inserted
<1>3. scope' = scope /\ global' = global /\ Fns' = Fns /\ \A g : StmtsIn(g)' = StmtsIn(g)
  BY <1>2 DEF scope, global, Fns, StmtsIn
<1>4. ScopeEntry(name, type).pos = name
  BY DEF ScopeEntry
<1>5. EntryNames'
  <2>1. ASSUME NEW g \in 1 .. Len(fnEntry') PROVE entries'[fnEntry'[g]].pos = prog.fns[g].name
    <3>1. g \in 1 .. Len(fnEntry) /\ fnEntry[g] = g /\ g \in 1 .. Len(entries)
      BY FnEntriesHere
    <3>2. entries[fnEntry[g]].pos = prog.fns[g].name
      BY <1>1, <3>1 DEF NamesInv, EntryNames
    <3> QED BY <1>2, <3>1, <3>2
  <2>2. ASSUME NEW g \in Fns, NEW k \in 1 .. Len(paramEntry'[g]), paramEntry'[g][k] # NULL
        PROVE  entries'[paramEntry'[g][k]].pos = ParamAt(g, k).name
    <3>1. CASE k \in 1 .. Len(paramEntry[g]) /\ paramEntry'[g][k] = paramEntry[g][k]
      <4>1. entries[paramEntry[g][k]].pos = ParamAt(g, k).name
        BY <1>1, <2>2, <3>1 DEF NamesInv, EntryNames
      <4>2. paramEntry[g][k] \in 1 .. Len(entries)
        BY <1>1, <2>2, <3>1, EntriesOf
      <4> QED BY <1>2, <3>1, <4>1, <4>2
    <3>2. CASE paramEntry'[g][k] = Len(entries) + 1 /\ ParamAt(g, k).name = name
      BY <1>2, <1>4, <3>2
    <3> QED BY <3>1, <3>2
  <2>3. ASSUME NEW g \in Fns, NEW i \in StmtsIn(g), stmtVar'[g][i] # NULL
        PROVE  entries'[stmtVar'[g][i]].pos = StmtAt(g, i).name
    <3>1. CASE stmtVar'[g][i] = stmtVar[g][i]
      <4>1. entries[stmtVar[g][i]].pos = StmtAt(g, i).name
        BY <1>1, <2>3, <3>1 DEF NamesInv, EntryNames
      <4>2. stmtVar[g][i] \in 1 .. Len(entries)
        BY <1>1, <2>3, <3>1, EntriesOf
      <4> QED BY <1>2, <3>1, <4>1, <4>2
    <3>2. CASE stmtVar'[g][i] = Len(entries) + 1 /\ StmtAt(g, i).name = name
      BY <1>2, <1>4, <3>2
    <3> QED BY <3>1, <3>2
  <2> QED BY <2>1, <2>2, <2>3, TextSame DEF EntryNames
<1>6. ChainsHashed'
  BY <1>1, InsertHashed DEF NamesInv
<1>7. InScopes'
  <2>1. \A t \in 1 .. Len(scopes) : \A e :
          InChain(t, e)' <=> InChain(t, e) \/ (t = scope /\ e = Len(entries) + 1)
    BY <1>1, Inserts
  <2>2. /\ \A e \in 1 .. Len(entries) : InChain(global, e) <=> e <= Len(fnEntry)
        /\ \A e \in 1 .. Len(entries) : InChain(scope, e) <=> Slot(e)
    BY <1>1 DEF NamesInv, InScopes, Slot
  <2>3. ~InChain(global, Len(entries) + 1)
    BY <1>1, <1>2, ChainEntry DEF InChain
  <2>4. ~(Len(entries) + 1 <= Len(fnEntry))
    <3>1. fnEntry \in Seq(1 .. Len(entries))
      BY <1>1, InvParts DEF AnnotationsOK
    <3>2. Len(fnEntry) \in Nat
      BY <3>1, LenProperties
    <3>3. Len(entries) + 1 <= Len(fnEntry) => Len(entries) + 1 \in 1 .. Len(fnEntry)
      BY <1>2, <3>2
    <3> QED BY <1>2, <3>3, FnEntriesHere
  <2>5. ASSUME NEW e \in 1 .. Len(entries') PROVE InChain(global, e)' <=> e <= Len(fnEntry')
    <3>0. e \in 1 .. Len(entries) \/ e = Len(entries) + 1
      BY <1>2
    <3>1. InChain(global, e)' <=> InChain(global, e)
      BY <1>1, <1>3, <2>1
    <3> QED BY <2>2, <2>3, <2>4, <3>0, <3>1
  <2>6. ASSUME NEW e \in 1 .. Len(entries') PROVE InChain(scope, e)' <=> Slot(e)'
    <3>0. e \in 1 .. Len(entries) \/ e = Len(entries) + 1
      BY <1>2
    <3>1. InChain(scope, e)' <=> InChain(scope, e) \/ e = Len(entries) + 1
      BY <1>1, <1>3, <2>1
    <3>2. Slot(e)' <=> Slot(e) \/ e = Len(entries) + 1
      <4>1. e # NULL
        BY <1>2 DEF NULL
      <4> QED BY <4>1
    <3> QED BY <2>2, <3>0, <3>1, <3>2
  <2> QED BY <1>3, <2>5, <2>6 DEF InScopes, Slot
<1> QED BY <1>5, <1>6, <1>7

LEMMA ParamStep ==
  ASSUME Filled, NamesInv, InsertParam
  PROVE  /\ phase = "names" /\ f \in Fns /\ Fn = prog.fns[f] /\ p \in 1 .. Len(Fn.params) /\ p \in Nat
         /\ s = 1 /\ todo = << >> /\ Len(paramEntry[f]) = p - 1 /\ Naming /\ Inv
         /\ Fn.params[p] = ParamAt(f, p) /\ ParamAt(f, p).name \in Names /\ ParamAt(f, p).type \in Types
         /\ \A g \in Fns : g # f => paramEntry'[g] = paramEntry[g]
         /\ Len(paramEntry'[f]) = p
         /\ \A k \in 1 .. p : paramEntry'[f][k] =
              IF k <= p - 1 THEN paramEntry[f][k] ELSE scope_insert_result(scope, ParamAt(f, p).name)
<1>1. phase = "names" /\ f \in Fns /\ p \in 1 .. Len(Fn.params) /\ p \in Nat /\ Fn = prog.fns[f] /\ Inv
      /\ Fn.params \in Seq(Params) /\ Len(Fn.params) \in Nat
  BY InsideFn, ControlTypes DEF InsertParam, AtParam, InFn, In, Filled, Fn
<1>2. ~(p > Len(Fn.params)) /\ p <= Len(Fn.params) /\ p > 0
  BY <1>1
<1>3. s = 1 /\ todo = << >>
  BY <1>1, <1>2 DEF NamesInv, NamesWalk
<1>4. Len(paramEntry[f]) = p - 1
  BY <1>1, <1>2, InvParts DEF LoopsOK, Fns
<1>5. Fn.params[p] \in Params /\ Fn.params[p] = ParamAt(f, p)
  BY <1>1, ElementOfSeq DEF ParamAt
<1>6. ParamAt(f, p).name \in Names /\ ParamAt(f, p).type \in Types
  BY <1>5, TypeKinds DEF Params
<1>7. /\ paramEntry \in [Fns -> Seq(0 .. Len(entries))] /\ TableOK
      /\ paramEntry' = [paramEntry EXCEPT ![f] = Append(@, scope_insert_result(scope, ParamAt(f, p).name))]
  BY <1>1, <1>5, InvParts DEF AnnotationsOK, Fns, InsertParam
<1>8. paramEntry[f] \in Seq(0 .. Len(entries)) /\ paramEntry[f] \in Seq(Nat)
  <2>1. Len(entries) \in Nat
    BY <1>1, Scoped
  <2>2. 0 .. Len(entries) \subseteq Nat
    BY <2>1
  <2> QED BY <1>1, <1>7, <2>2, SeqMonotonic
<1>9. scope_insert_result(scope, ParamAt(f, p).name) \in Nat
  BY <1>1, Scoped DEF scope_insert_result, NULL
<1>10. /\ Len(paramEntry'[f]) = p
       /\ \A k \in 1 .. p : paramEntry'[f][k] =
            IF k <= p - 1 THEN paramEntry[f][k] ELSE scope_insert_result(scope, ParamAt(f, p).name)
  <2>1. paramEntry'[f] = Append(paramEntry[f], scope_insert_result(scope, ParamAt(f, p).name))
    BY <1>1, <1>7
  <2>2. /\ Len(paramEntry'[f]) = Len(paramEntry[f]) + 1
        /\ \A k \in 1 .. Len(paramEntry[f]) + 1 : paramEntry'[f][k] =
             IF k <= Len(paramEntry[f]) THEN paramEntry[f][k]
             ELSE scope_insert_result(scope, ParamAt(f, p).name)
    BY <1>8, <1>9, <2>1, OneMore
  <2> QED BY <1>1, <1>4, <2>2
<1>11. \A g \in Fns : g # f => paramEntry'[g] = paramEntry[g]
  BY <1>7
<1> QED BY <1>1, <1>3, <1>4, <1>5, <1>6, <1>10, <1>11 DEF Naming

LEMMA ParamMade ==
  ASSUME Filled, NamesInv, InsertParam, EntryNames', ChainsHashed', InScopes',
         paramEntry'[f][p] # NULL <=> \A j \in 1 .. p - 1 : ParamAt(f, j).name # ParamAt(f, p).name
  PROVE  NamesInv'
<1>1. /\ phase = "names" /\ f \in Fns /\ Fn = prog.fns[f] /\ p \in 1 .. Len(Fn.params) /\ p \in Nat
      /\ s = 1 /\ todo = << >> /\ Len(paramEntry[f]) = p - 1 /\ Inv
      /\ \A g \in Fns : g # f => paramEntry'[g] = paramEntry[g]
      /\ Len(paramEntry'[f]) = p
      /\ \A k \in 1 .. p : k <= p - 1 => paramEntry'[f][k] = paramEntry[f][k]
  BY ParamStep
<1>2. UNCHANGED <<prog, phase, f, s, todo, fnEntry, stmtVar, exprVar>> /\ p' = p + 1
  BY DEF InsertParam
<1>3. \A g, i : Passed(g, i)' <=> Passed(g, i)
  BY <1>2 DEF Passed
<1>4. LetsMade'
  BY <1>2, <1>3, TextSame DEF NamesInv, LetsMade
<1>5. ParamsMade'
  <2>1. ASSUME NEW g \in Fns, NEW k \in 1 .. Len(paramEntry'[g])
        PROVE  paramEntry'[g][k] # NULL <=> \A j \in 1 .. k - 1 : ParamAt(g, j).name # ParamAt(g, k).name
    <3>1. CASE g # f
      BY <1>1, <2>1, <3>1 DEF NamesInv, ParamsMade
    <3>2. CASE g = f /\ k <= p - 1
      <4>1. k \in 1 .. Len(paramEntry[f]) /\ k \in 1 .. p
        BY <1>1, <2>1, <3>2
      <4> QED BY <1>1, <3>2, <4>1 DEF NamesInv, ParamsMade
    <3>3. CASE g = f /\ ~(k <= p - 1)
      <4>1. k = p
        BY <1>1, <2>1, <3>3
      <4> QED BY <3>3, <4>1
    <3> QED BY <3>1, <3>2, <3>3
  <2> QED BY <1>2, <2>1, TextSame DEF ParamsMade
<1>6. NoRepeats'
  BY <1>2, <1>3, NoRepeatsFrom DEF NamesInv
<1>7. NamesWalk'
  BY <1>1, <1>2 DEF NamesWalk
<1>8. AllResolved'
  <2>1. ASSUME NEW g \in Fns, NEW i \in StmtsIn(g), Passed(g, i)', NEW n \in B!Nodes(StmtAt(g, i).value)
        PROVE  Resolved(n, g, i)' \/ (phase' = "names" /\ g = f' /\ i = s' - 1 /\ ToResolve(n)')
    <3>1. Resolved(n, g, i) \/ ToResolve(n)
      BY <1>3, <2>1 DEF NamesInv, AllResolved
    <3>2. ~ToResolve(n)
      BY <1>1, EmptySeq DEF ToResolve
    <3>3. g # f
      <4>1. i \in Nat /\ ~(i < 1)
        BY <1>1, ProgramShape DEF StmtsIn, Inv
      <4>2. ASSUME g = f PROVE FALSE
        <5>1. f \in Nat /\ ~(f < f)
          BY <1>1, ControlTypes
        <5> QED BY <1>1, <1>2, <2>1, <4>1, <4>2, <5>1 DEF Passed
      <4> QED BY <4>2
    <3>4. paramEntry'[g] = paramEntry[g]
      BY <1>1, <3>3
    <3> QED BY <1>2, <3>1, <3>2, <3>4, ResolvedStays DEF Filled, Inv
  <2> QED BY <1>2, <2>1, AllResolvedFrom
<1> QED BY <1>4, <1>5, <1>6, <1>7, <1>8 DEF NamesInv

LEMMA InsertParamNames ==
  ASSUME Filled, NamesApart, NamesInv, InsertParam
  PROVE  NamesInv'
<1> DEFINE name == ParamAt(f, p).name
<1>1. /\ phase = "names" /\ f \in Fns /\ Fn = prog.fns[f] /\ p \in 1 .. Len(Fn.params) /\ p \in Nat
      /\ s = 1 /\ Len(paramEntry[f]) = p - 1 /\ Naming /\ Inv
      /\ Fn.params[p] = ParamAt(f, p) /\ name \in Names /\ ParamAt(f, p).type \in Types
      /\ \A g \in Fns : g # f => paramEntry'[g] = paramEntry[g]
      /\ Len(paramEntry'[f]) = p
      /\ \A k \in 1 .. p : paramEntry'[f][k] =
           IF k <= p - 1 THEN paramEntry[f][k] ELSE scope_insert_result(scope, name)
  BY ParamStep
<1>2. /\ UNCHANGED <<prog, phase, f, s, todo, fnEntry, stmtVar, exprVar>> /\ p' = p + 1
      /\ scope_insert(scope, name, ParamAt(f, p).type)
  BY <1>1 DEF InsertParam
<1>3. p \in 1 .. p /\ ~(p <= p - 1) /\ p > 0 /\ p' > 0
  BY <1>1, <1>2
<1>4. paramEntry'[f][p] = scope_insert_result(scope, name)
  BY <1>1, <1>3
<1>5. Len(entries) \in Nat
  BY <1>1, Scoped
<1>6. CASE find_in(scope, name) = NULL
  <2>1. paramEntry'[f][p] = Len(entries) + 1 /\ paramEntry'[f][p] # NULL
    BY <1>4, <1>5, <1>6 DEF scope_insert_result, NULL
  <2>2. \A k \in 1 .. p - 1 : ParamAt(f, k).name # name
    BY <1>1, <1>3, <1>6, LocalNone
  <2>3. \A g \in Fns : \A k \in 1 .. Len(paramEntry'[g]) :
          \/ k \in 1 .. Len(paramEntry[g]) /\ paramEntry'[g][k] = paramEntry[g][k]
          \/ paramEntry'[g][k] = Len(entries) + 1 /\ ParamAt(g, k).name = name
    <3>1. ASSUME NEW g \in Fns, NEW k \in 1 .. Len(paramEntry'[g])
          PROVE  \/ k \in 1 .. Len(paramEntry[g]) /\ paramEntry'[g][k] = paramEntry[g][k]
                 \/ paramEntry'[g][k] = Len(entries) + 1 /\ ParamAt(g, k).name = name
      <4>1. CASE g # f
        BY <1>1, <3>1, <4>1
      <4>2. CASE g = f
        <5>0. k \in 1 .. p
          BY <1>1, <4>2
        <5>1. CASE k <= p - 1
          BY <1>1, <4>2, <5>0, <5>1
        <5>2. CASE ~(k <= p - 1)
          <6>1. k = p
            BY <1>1, <5>0, <5>2
          <6> QED BY <2>1, <4>2, <6>1
        <5> QED BY <5>1, <5>2
      <4> QED BY <4>1, <4>2
    <3> QED BY <3>1
  <2>4. \A e : e # NULL => (Slot(e)' <=> Slot(e) \/ e = Len(entries) + 1)
    <3>1. \A e : (\E k \in 1 .. Len(paramEntry'[f]) : paramEntry'[f][k] = e) <=>
                   (\E k \in 1 .. Len(paramEntry[f]) : paramEntry[f][k] = e) \/ e = Len(entries) + 1
      <4>1. 1 .. p = (1 .. p - 1) \cup {p}
        BY <1>1
      <4>2. \A k \in 1 .. p - 1 : k <= p - 1 /\ k \in 1 .. p
        BY <1>1
      <4> QED BY <1>1, <2>1, <4>1, <4>2
    <3>2. StmtsIn(f)' = StmtsIn(f)
      BY <1>2 DEF StmtsIn
    <3> QED BY <1>2, <3>1, <3>2 DEF Slot
  <2>5. \A g \in Fns : \A i \in StmtsIn(g) :
          \/ stmtVar'[g][i] = stmtVar[g][i]
          \/ stmtVar'[g][i] = Len(entries) + 1 /\ StmtAt(g, i).name = name
    BY <1>2
  <2>6. EntryNames' /\ ChainsHashed' /\ InScopes'
    <3> HIDE DEF name
    <3>1. UNCHANGED <<prog, phase, f, fnEntry>>
      BY <1>2
    <3> QED BY ONLY <1>1, <1>2, <1>3, <1>6, <2>3, <2>4, <2>5, <3>1, InsertedHere, Filled, NamesApart, NamesInv
  <2> QED BY <2>1, <2>2, <2>6, ParamMade
<1>7. CASE find_in(scope, name) # NULL
  <2>1. UNCHANGED <<scopes, entries>> /\ paramEntry'[f][p] = NULL
    BY <1>2, <1>4, <1>7 DEF scope_insert, scope_insert_result
  <2>2. ~\A j \in 1 .. p - 1 : ParamAt(f, j).name # name
    <3>1. PICK e : e = find_in(scope, name)
      OBVIOUS
    <3>2. \A i \in StmtsIn(f) : ~Passed(f, i)
      BY <1>1, ControlTypes, InsideFn DEF Passed, StmtsIn, Fn, Fns
    <3>3. e # NULL
      BY <1>7, <3>1
    <3>4. \E k \in 1 .. Len(paramEntry[f]) : ParamAt(f, k).name = name
      BY <1>1, <1>3, <3>1, <3>2, <3>3, LocalFound
    <3> QED BY <1>1, <3>4
  <2>3. \A g \in Fns : \A k \in 1 .. Len(paramEntry'[g]) :
          paramEntry'[g][k] = NULL \/ (k \in 1 .. Len(paramEntry[g]) /\ paramEntry'[g][k] = paramEntry[g][k])
    <3>1. ASSUME NEW g \in Fns, NEW k \in 1 .. Len(paramEntry'[g])
          PROVE  paramEntry'[g][k] = NULL \/ (k \in 1 .. Len(paramEntry[g]) /\ paramEntry'[g][k] = paramEntry[g][k])
      <4>1. CASE g # f
        BY <1>1, <3>1, <4>1
      <4>2. CASE g = f
        <5>0. k \in 1 .. p
          BY <1>1, <4>2
        <5>1. CASE k <= p - 1
          BY <1>1, <4>2, <5>0, <5>1
        <5>2. CASE ~(k <= p - 1)
          <6>1. k = p
            BY <1>1, <5>0, <5>2
          <6> QED BY <2>1, <4>2, <6>1
        <5> QED BY <5>1, <5>2
      <4> QED BY <4>1, <4>2
    <3> QED BY <3>1
  <2>4. EntryNames'
    <3>1. \A g \in 1 .. Len(fnEntry') : entries'[fnEntry'[g]].pos = prog.fns[g].name
      BY <1>1, <1>2, <2>1 DEF NamesInv, EntryNames
    <3>2. \A g \in Fns : \A k \in 1 .. Len(paramEntry'[g]) :
            paramEntry'[g][k] # NULL => entries'[paramEntry'[g][k]].pos = ParamAt(g, k).name
      BY <1>1, <2>1, <2>3 DEF NamesInv, EntryNames
    <3>3. \A g \in Fns : \A i \in StmtsIn(g) :
            stmtVar'[g][i] # NULL => entries'[stmtVar'[g][i]].pos = StmtAt(g, i).name
      BY <1>1, <1>2, <2>1 DEF NamesInv, EntryNames
    <3> QED BY <1>2, <3>1, <3>2, <3>3, TextSame DEF EntryNames
  <2>5. ChainsHashed'
    BY <1>2, <2>1 DEF NamesInv, ChainsHashed, Naming, bucket_of
  <2>6. InScopes'
    <3>1. \A e : (InChain(global, e)' <=> InChain(global, e)) /\ (InChain(scope, e)' <=> InChain(scope, e))
      BY <2>1, ChainsSame
    <3>2. /\ \A e \in 1 .. Len(entries) : InChain(global, e) <=> e <= Len(fnEntry)
          /\ \A e \in 1 .. Len(entries) : InChain(scope, e) <=> Slot(e)
      BY <1>1, <1>3 DEF NamesInv, InScopes, Slot
    <3>3. \A e \in 1 .. Len(entries) : Slot(e)' <=> Slot(e)
      <4>1. ASSUME NEW e \in 1 .. Len(entries)
            PROVE  (\E k \in 1 .. Len(paramEntry'[f]) : paramEntry'[f][k] = e) <=>
                   (\E k \in 1 .. Len(paramEntry[f]) : paramEntry[f][k] = e)
        <5>1. e # NULL
          BY <1>5 DEF NULL
        <5>2. \A k \in 1 .. p - 1 : k <= p - 1 /\ k \in 1 .. p
          BY <1>1
        <5>3. \A k \in 1 .. Len(paramEntry[f]) : k \in 1 .. Len(paramEntry'[f]) /\ paramEntry'[f][k] = paramEntry[f][k]
          BY <1>1, <5>2
        <5> QED BY <1>1, <2>3, <5>1, <5>3
      <4>2. StmtsIn(f)' = StmtsIn(f)
        BY <1>2 DEF StmtsIn
      <4> QED BY <1>2, <4>1, <4>2 DEF Slot
    <3>4. \A e \in 1 .. Len(entries') : InChain(global, e)' <=> e <= Len(fnEntry')
      BY <1>2, <2>1, <3>1, <3>2
    <3>5. \A e \in 1 .. Len(entries') : InChain(scope, e)' <=> Slot(e)'
      BY <2>1, <3>1, <3>2, <3>3
    <3>6. (f \in Fns)'
      BY <1>1, <1>2 DEF Fns
    <3> QED BY <3>4, <3>5, <3>6 DEF InScopes, Slot
  <2> QED BY <2>1, <2>2, <2>4, <2>5, <2>6, ParamMade
<1> QED BY <1>6, <1>7

LEMMA ValueEntered ==
  ASSUME Filled, NamesInv, phase = "names", f \in Fns, p > Len(Fn.params), todo = << >>,
         s <= Len(Fn.stmts), ResolveValue, UNCHANGED <<prog, fnEntry, paramEntry, exprVar>>,
         \A g \in Fns : \A j \in StmtsIn(g) : g # f \/ j # s => stmtVar'[g][j] = stmtVar[g][j]
  PROVE  /\ NamesWalk' /\ AllResolved' /\ s \in StmtsIn(f) /\ ~Passed(f, s) /\ Stmt = StmtAt(f, s)
         /\ \A g \in Fns : \A i \in StmtsIn(g) : Passed(g, i)' <=> Passed(g, i) \/ (g = f /\ i = s)
<1>1. /\ todo' = (IF Stmt.value # NULL THEN <<Enter(Stmt.value)>> ELSE << >>)
      /\ s' = s + 1 /\ UNCHANGED <<phase, outcome, f, p>>
  BY DEF ResolveValue, NextStmt
<1>2. /\ f \in Nat /\ s \in Nat \ {0} /\ Fn = prog.fns[f] /\ Len(Fn.stmts) \in Nat /\ Len(Fn.params) \in Nat
      /\ p \in Nat /\ prog \in Programs /\ Inv /\ \A g \in Fns : g \in Nat
  BY ControlTypes, InsideFn, ProgramShape DEF Filled, Fn, Inv, Fns
<1>3. s \in StmtsIn(f) /\ Stmt = StmtAt(f, s)
  BY <1>2 DEF StmtsIn, Stmt, StmtAt
<1>4. ~Passed(f, s)
  BY <1>2 DEF Passed
<1>5. \A g \in Fns : \A i \in StmtsIn(g) : i \in Nat
  BY <1>2, ProgramShape DEF StmtsIn
<1>6. \A g \in Fns : \A i \in StmtsIn(g) : Passed(g, i)' <=> Passed(g, i) \/ (g = f /\ i = s)
  BY <1>1, <1>2, <1>5 DEF Passed
<1>7. Stmt.value # NULL => /\ Len(todo') = 1 /\ todo'[1] = Enter(Stmt.value) /\ todo'[1].n = Stmt.value
                           /\ Stmt.value \in Nodes
  <2>1. Enter(Stmt.value).n = Stmt.value
    BY DEF Enter, Task
  <2>2. Stmt.value # NULL => Stmt.value \in Nodes
    BY <1>2, <1>3, ValueNode
  <2> HIDE DEF NULL
  <2>3. Stmt.value # NULL => todo' = <<Enter(Stmt.value)>>
    BY <1>1
  <2>4. <<Enter(Stmt.value)>>[1] = Enter(Stmt.value) /\ Len(<<Enter(Stmt.value)>>) = 1
    OBVIOUS
  <2> QED BY <2>1, <2>2, <2>3, <2>4
<1>8. Stmt.value = NULL => todo' = << >>
  BY <1>1
<1>9. s' - 1 = s
  BY <1>1, <1>2
<1>10. NamesWalk'
  <2>1. ~(p <= Len(Fn.params)) /\ Fn' = Fn
    BY <1>1, <1>2 DEF Fn
  <2>2. StmtsIn(f)' = StmtsIn(f) /\ StmtAt(f, s - 1)' = StmtAt(f, s)
    BY <1>1, <1>9 DEF StmtsIn, StmtAt
  <2>3. ASSUME todo' # << >>
        PROVE  /\ f' \in Fns' /\ s' - 1 \in StmtsIn(f)' /\ p' > Len(Fn'.params)
               /\ \A j \in 1 .. Len(todo') : todo'[j].n \in B!Nodes(StmtAt(f, s - 1).value)'
    <3>1. Stmt.value # NULL
      BY <1>8, <2>3
    <3>2. Stmt.value \in B!Nodes(Stmt.value)
      BY <1>2, <1>7, <3>1, NodesOf
    <3>3. PICK v : v = Stmt.value
      OBVIOUS
    <3>4. B!Nodes(v)' = B!Nodes(v)
      BY NodesSame
    <3>5. B!Nodes(StmtAt(f, s - 1).value)' = B!Nodes(v)'
      BY <1>3, <2>2, <3>3
    <3> QED BY <1>1, <1>2, <1>3, <1>7, <1>9, <2>1, <2>2, <3>1, <3>2, <3>3, <3>4, <3>5 DEF Fns
  <2> QED BY <1>1, <2>1, <2>3 DEF NamesWalk
<1>11. AllResolved'
  <2>1. ASSUME NEW g \in Fns, NEW i \in StmtsIn(g), Passed(g, i)', NEW n \in B!Nodes(StmtAt(g, i).value)
        PROVE  Resolved(n, g, i)' \/ (phase' = "names" /\ g = f' /\ i = s' - 1 /\ ToResolve(n)')
    <3>1. CASE g = f /\ i = s
      <4>1. Stmt.value # NULL
        BY <1>2, <1>3, <2>1, <3>1, InStatement
      <4>2. PICK v : v = Stmt.value
        OBVIOUS
      <4>3. n \in B!Nodes(v)'
        BY <1>3, <2>1, <3>1, <4>2, NodesSame
      <4>4. ToResolve(n)'
        BY <1>7, <4>1, <4>2, <4>3 DEF ToResolve
      <4> QED BY <1>1, <1>9, <3>1, <4>4
    <3>2. CASE ~(g = f /\ i = s)
      <4>1. Passed(g, i)
        BY <1>6, <2>1, <3>2
      <4>2. ~ToResolve(n)
        BY EmptySeq DEF ToResolve
      <4>3. Resolved(n, g, i)
        BY <2>1, <4>1, <4>2 DEF NamesInv, AllResolved
      <4>4. ASSUME NEW j \in StmtsIn(g), j <= i PROVE stmtVar'[g][j] = stmtVar[g][j]
        <5>1. g = f => i < s
          BY <1>2, <4>1 DEF Passed
        <5>2. g = f => j # s
          BY <1>2, <1>5, <4>4, <5>1
        <5> QED BY <4>4, <5>2
      <4> QED BY <1>2, <4>3, <4>4, ResolvedStays
    <3> QED BY <3>1, <3>2
  <2> QED BY <2>1, AllResolvedFrom
<1> QED BY <1>3, <1>4, <1>6, <1>10, <1>11

LEMMA AtNamesStmt ==
  ASSUME Filled, NamesInv, AtStmt("names")
  PROVE  /\ phase = "names" /\ f \in Fns /\ p > Len(Fn.params) /\ p > 0 /\ todo = << >> /\ s <= Len(Fn.stmts)
         /\ Stmt = StmtAt(f, s) /\ s \in StmtsIn(f) /\ Naming /\ Inv
         /\ Stmt.t = "let" => Stmt.name \in Names /\ Stmt.type \in Types
<1>1. /\ phase = "names" /\ f \in Fns /\ p > Len(Fn.params) /\ todo = << >> /\ s <= Len(Fn.stmts)
      /\ Fn = prog.fns[f] /\ Fn.stmts \in Seq(Stmts(Nodes)) /\ Len(Fn.stmts) \in Nat /\ s \in Nat \ {0}
      /\ p \in Nat /\ Len(Fn.params) \in Nat
      /\ \A i \in 1 .. Len(Fn.stmts) : Fn.stmts[i] \in Stmts(Nodes) /\ ParsedStmt(Fn.stmts[i])
  BY InsideFn, ControlTypes DEF AtStmt, BetweenStmts, InFn, In, Filled, Fn
<1>2. s \in StmtsIn(f) /\ Stmt = StmtAt(f, s) /\ Stmt \in Stmts(Nodes) /\ ParsedStmt(Stmt)
  BY <1>1 DEF StmtsIn, Stmt, StmtAt
<1>3. Stmt.type \in Types
  BY <1>2, TypeKinds DEF Stmts
<1> QED BY <1>1, <1>2, <1>3 DEF ParsedStmt, Naming, Filled

LEMMA ResolveStmtNames ==
  ASSUME Filled, NamesInv, ResolveStmt
  PROVE  NamesInv'
<1>1. /\ phase = "names" /\ f \in Fns /\ p > Len(Fn.params) /\ p > 0 /\ todo = << >> /\ s <= Len(Fn.stmts)
      /\ Stmt = StmtAt(f, s) /\ Stmt.t # "let"
  BY AtNamesStmt DEF ResolveStmt
<1>2. ResolveValue /\ UNCHANGED <<prog, scopes, entries, annotations>>
  BY DEF ResolveStmt
<1>3. UNCHANGED <<prog, phase, f, p, scopes, entries, fnEntry, paramEntry, stmtVar, exprVar>>
  BY <1>2 DEF ResolveValue, NextStmt, annotations
<1>4. /\ NamesWalk' /\ AllResolved'
      /\ \A g \in Fns : \A i \in StmtsIn(g) : Passed(g, i)' <=> Passed(g, i) \/ (g = f /\ i = s)
  BY <1>1, <1>2, <1>3, ValueEntered
<1>5. EntryNames' /\ LetsMade' /\ ParamsMade' /\ ChainsHashed' /\ NoRepeats'
  <2>1. UNCHANGED Declared
    BY <1>3 DEF Declared
  <2>2. \A g \in Fns : \A i \in StmtsIn(g) : StmtAt(g, i).t = "let" => (Passed(g, i)' <=> Passed(g, i))
    BY <1>1, <1>4
  <2> QED BY <2>1, <2>2, DeclaredKept
<1>6. InScopes'
  BY <1>3, InScopesSame DEF NamesInv
<1> QED BY <1>4, <1>5, <1>6 DEF NamesInv

LEMMA ResolveLetNames ==
  ASSUME Filled, NamesApart, NamesInv, ResolveLet, outcome' = "running"
  PROVE  NamesInv'
<1> DEFINE name == StmtAt(f, s).name
<1>1. /\ phase = "names" /\ f \in Fns /\ p > Len(Fn.params) /\ p > 0 /\ todo = << >> /\ s <= Len(Fn.stmts)
      /\ Stmt = StmtAt(f, s) /\ s \in StmtsIn(f) /\ Naming /\ Inv /\ Stmt.t = "let" /\ outcome = "running"
      /\ name \in Names /\ Stmt.type \in Types
  BY AtNamesStmt DEF ResolveLet, AtStmt, BetweenStmts, InFn, In
<1>2. /\ ~Redeclared(scope, name) /\ scope_insert(scope, name, Stmt.type)
      /\ stmtVar' = [stmtVar EXCEPT ![f][s] = scope_insert_result(scope, name)]
      /\ ResolveValue
      /\ UNCHANGED <<prog, fnEntry, paramEntry, stmtType, exprVar, exprType>>
  BY <1>1 DEF ResolveLet, Stop
<1>3. find_in(scope, name) = NULL /\ scope_insert_result(scope, name) = Len(entries) + 1
  BY <1>2 DEF Redeclared, scope_insert_result, NULL
<1>4. UNCHANGED <<prog, phase, f, p>>
  BY <1>2 DEF ResolveValue, NextStmt
<1>5. Len(entries) \in Nat /\ Len(entries) + 1 # NULL
  BY <1>1, Scoped DEF NULL
<1>6. /\ stmtVar'[f][s] = Len(entries) + 1
      /\ \A g \in Fns : \A j \in StmtsIn(g) : g # f \/ j # s => stmtVar'[g][j] = stmtVar[g][j]
  <2>1. f \in DOMAIN stmtVar /\ s \in DOMAIN stmtVar[f]
    BY <1>1, InvParts DEF AnnotationsOK, Fns, StmtsIn
  <2> HIDE DEF name
  <2> QED BY <1>2, <1>3, <2>1
<1>7. /\ NamesWalk' /\ AllResolved' /\ ~Passed(f, s)
      /\ \A g \in Fns : \A i \in StmtsIn(g) : Passed(g, i)' <=> Passed(g, i) \/ (g = f /\ i = s)
  BY <1>1, <1>2, <1>6, ValueEntered
<1>8. \A e : e # NULL => (Slot(e)' <=> Slot(e) \/ e = Len(entries) + 1)
  <2>1. stmtVar[f][s] = NULL
    BY <1>1, <1>7 DEF NamesInv, LetsMade
  <2>2. ASSUME NEW e
        PROVE  (\E i \in StmtsIn(f) : stmtVar'[f][i] = e)
                 <=> (\E i \in StmtsIn(f) : i # s /\ stmtVar[f][i] = e) \/ e = Len(entries) + 1
    BY <1>1, <1>6
  <2>3. StmtsIn(f)' = StmtsIn(f)
    BY <1>4 DEF StmtsIn
  <2> QED BY <1>4, <1>2, <2>1, <2>2, <2>3 DEF Slot
<1>9. EntryNames' /\ ChainsHashed' /\ InScopes'
  <2>1. \A g \in Fns : \A k \in 1 .. Len(paramEntry'[g]) :
           \/ k \in 1 .. Len(paramEntry[g]) /\ paramEntry'[g][k] = paramEntry[g][k]
           \/ paramEntry'[g][k] = Len(entries) + 1 /\ ParamAt(g, k).name = name
    BY <1>2
  <2>2. \A g \in Fns : \A i \in StmtsIn(g) :
           \/ stmtVar'[g][i] = stmtVar[g][i]
           \/ stmtVar'[g][i] = Len(entries) + 1 /\ StmtAt(g, i).name = name
    BY <1>6
  <2>3. UNCHANGED <<prog, phase, f, fnEntry>> /\ p' > 0
    BY <1>1, <1>2, <1>4
  <2> HIDE DEF name
  <2> QED BY ONLY <1>1, <1>2, <1>3, <1>8, <2>1, <2>2, <2>3, InsertedHere, Filled, NamesApart, NamesInv
<1>10. LetsMade'
  <2>1. ASSUME NEW g \in Fns, NEW i \in StmtsIn(g)
        PROVE  stmtVar'[g][i] # NULL <=> Passed(g, i)' /\ StmtAt(g, i).t = "let"
    <3>1. CASE g = f /\ i = s
      BY <1>1, <1>5, <1>6, <1>7, <3>1
    <3>2. CASE ~(g = f /\ i = s)
      BY <1>6, <1>7, <3>2 DEF NamesInv, LetsMade
    <3> QED BY <3>1, <3>2
  <2> QED BY <1>4, <2>1, TextSame DEF LetsMade
<1>11. ParamsMade'
  BY <1>2, TextSame DEF NamesInv, ParamsMade
<1>12. NoRepeats'
  <2>1. /\ \A i \in StmtsIn(f) : Passed(f, i) /\ StmtAt(f, i).t = "let" => StmtAt(f, i).name # name
        /\ \A k \in 1 .. Len(paramEntry[f]) : ParamAt(f, k).name # name
    BY <1>1, <1>3, LocalNone
  <2>2. B!LetsNamed(name, f, s) = {s}
    <3>1. ASSUME NEW j \in B!LetsNamed(name, f, s) PROVE j = s
      <4>1. j \in StmtsIn(f) /\ StmtAt(f, j).t = "let" /\ j <= s /\ StmtAt(f, j).name = name
        BY LetsNamedAre
      <4>2. ~(j <= s - 1)
        BY <1>1, <2>1, <4>1, PassedHere
      <4> QED BY <1>1, <4>1, <4>2, ControlTypes, ProgramShape DEF StmtsIn, Inv
    <3>2. s \in B!LetsNamed(name, f, s)
      <4>1. s <= s
        BY <1>1, ControlTypes
      <4> QED BY <1>1, <4>1, LetsNamedAre
    <3> QED BY <3>1, <3>2
  <2>3. B!ParamsNamed(name, f) = {}
    <3>1. ASSUME NEW k \in B!ParamsNamed(name, f) PROVE FALSE
      <4>1. k \in 1 .. Len(paramEntry[f]) /\ ParamAt(f, k).name = name
        BY <1>1, ParamsNamedAre, AllParamsMade
      <4> QED BY <2>1, <4>1
    <3> QED BY <3>1
  <2>4. \A g \in Fns : \A i \in StmtsIn(g) : Passed(g, i)' /\ StmtAt(g, i).t = "let" =>
           \/ Passed(g, i)
           \/ /\ B!LetsNamed(StmtAt(g, i).name, g, i) = {i}
              /\ B!ParamsNamed(StmtAt(g, i).name, g) = {}
    BY <1>7, <2>2, <2>3
  <2> QED BY <1>2, <2>4, NoRepeatsFrom DEF NamesInv
<1> QED BY <1>7, <1>9, <1>10, <1>11, <1>12 DEF NamesInv

LEMMA ResolveLetStops ==
  ASSUME Filled, NamesApart, NamesInv, ResolveLet, outcome' # "running"
  PROVE  outcome' \in B!NameDefects /\ UNCHANGED <<prog, phase, f, p, s, todo, scopes, entries, annotations>>
<1> DEFINE name == StmtAt(f, s).name
<1>1. /\ phase = "names" /\ f \in Fns /\ p > Len(Fn.params) /\ p > 0
      /\ Stmt = StmtAt(f, s) /\ s \in StmtsIn(f) /\ Inv /\ Stmt.t = "let" /\ outcome = "running"
      /\ name \in Names
  BY AtNamesStmt DEF ResolveLet, AtStmt, BetweenStmts, InFn, In
<1>2. Redeclared(scope, name) /\ Stop("name_redeclaration")
  BY <1>1 DEF ResolveLet, ResolveValue, NextStmt
<1>3. PICK e : e = find_in(scope, name)
  OBVIOUS
<1>4. e # NULL
  BY <1>2, <1>3, <1>1, Scoped DEF Redeclared, scope_insert_result, NULL
<1>5. \/ \E i \in StmtsIn(f) : Passed(f, i) /\ StmtAt(f, i).t = "let" /\ StmtAt(f, i).name = name
      \/ \E k \in 1 .. Len(paramEntry[f]) : ParamAt(f, k).name = name
  BY <1>1, <1>3, <1>4, LocalFound
<1>6. "name_redeclaration" \in B!NameDefects
  <2>1. CASE \E i \in StmtsIn(f) : Passed(f, i) /\ StmtAt(f, i).t = "let" /\ StmtAt(f, i).name = name
    <3>1. PICK i \in StmtsIn(f) : Passed(f, i) /\ StmtAt(f, i).t = "let" /\ StmtAt(f, i).name = name
      BY <2>1
    <3>2. i <= s - 1
      BY <1>1, <3>1, PassedHere
    <3>3. i <= s /\ i # s
      BY <1>1, <3>2, ControlTypes, ProgramShape DEF StmtsIn, Inv
    <3>4. i \in B!LetsNamed(name, f, s)
      BY <3>1, <3>3, LetsNamedAre
    <3>5. B!LetsNamed(name, f, s) # {s}
      BY <3>3, <3>4
    <3> QED BY <1>1, <3>5, RedeclaredLet
  <2>2. CASE \E k \in 1 .. Len(paramEntry[f]) : ParamAt(f, k).name = name
    <3>1. B!ParamsNamed(name, f) # {}
      BY <1>1, <2>2, ParamsNamedAre, AllParamsMade
    <3> QED BY <1>1, <3>1, RedeclaredLet
  <2> QED BY <1>5, <2>1, <2>2
<1> QED BY <1>2, <1>6 DEF Stop

-----------------------------------------------------------------------------
(* The steps of the name pass from one function, or loop, to the next.     *)
LEMMA NamesMoveOn ==
  ASSUME Filled, NamesInv, UNCHANGED <<prog, scopes, entries, annotations>>, Naming' => Naming,
         p' = 0, s' = 1, todo = << >>, todo' = << >>,
         \A g \in Fns : \A i \in StmtsIn(g) : Passed(g, i)' <=> Passed(g, i)
  PROVE  NamesInv'
<1>1. UNCHANGED <<fnEntry, paramEntry, stmtVar, exprVar>>
  BY DEF annotations
<1>2. EntryNames'
  BY <1>1, TextSame DEF NamesInv, EntryNames
<1>3. LetsMade'
  BY <1>1, TextSame DEF NamesInv, LetsMade
<1>4. ParamsMade'
  BY <1>1, TextSame DEF NamesInv, ParamsMade
<1>5. ChainsHashed'
  BY DEF NamesInv, ChainsHashed, bucket_of
<1>6. InScopes'
  <2>1. \A e : InChain(global, e)' <=> InChain(global, e)
    BY ChainsSame
  <2>2. Naming' => \A e \in 1 .. Len(entries') : InChain(global, e)' <=> e <= Len(fnEntry')
    BY <1>1, <2>1 DEF NamesInv, InScopes
  <2>3. ~(p' > 0)
    OBVIOUS
  <2> QED BY <2>2, <2>3 DEF InScopes
<1>7. NoRepeats'
  BY <1>1, NoRepeatsFrom DEF NamesInv
<1>8. NamesWalk'
  BY DEF NamesWalk
<1>9. AllResolved'
  <2>1. ASSUME NEW g \in Fns, NEW i \in StmtsIn(g), Passed(g, i)', NEW n \in B!Nodes(StmtAt(g, i).value)
        PROVE  Resolved(n, g, i)'
    <3>1. Resolved(n, g, i) \/ ToResolve(n)
      BY <2>1 DEF NamesInv, AllResolved
    <3>2. ~ToResolve(n)
      BY EmptySeq DEF ToResolve
    <3> QED BY <1>1, <3>1, <3>2, ResolvedStays DEF Filled, Inv
  <2> QED BY <2>1, AllResolvedFrom
<1> QED
  BY <1>2, <1>3, <1>4, <1>5, <1>6, <1>7, <1>8, <1>9 DEF NamesInv

LEMMA NamesLeaveFnNames ==
  ASSUME Filled, NamesInv, Names_LeaveFn
  PROVE  NamesInv'
<1>1. /\ phase = "names" /\ f \in Fns /\ Fn = prog.fns[f] /\ todo = << >> /\ s > Len(Fn.stmts)
      /\ f' = f + 1 /\ p' = 0 /\ s' = 1 /\ UNCHANGED <<phase, todo>>
      /\ UNCHANGED <<prog, scopes, entries, annotations>>
      /\ Len(Fn.stmts) \in Nat /\ s \in Nat /\ f \in Nat /\ prog \in Programs
  BY InsideFn, ControlTypes
  DEF Names_LeaveFn, LeaveFn, BetweenStmts, InFn, In, NextFn, Filled, Fn, Fns, Inv
<1>2. ASSUME NEW g \in Fns, NEW i \in StmtsIn(g) PROVE Passed(g, i)' <=> Passed(g, i)
  <2>1. g \in Nat /\ i \in Nat /\ i >= 1 /\ (g = f => i < s)
    BY <1>1, ProgramShape DEF StmtsIn, Fns
  <2>2. Passed(g, i) <=> g <= f
    BY <1>1, <2>1 DEF Passed
  <2>3. Passed(g, i)' <=> g <= f
    BY <1>1, <2>1 DEF Passed
  <2> QED BY <2>2, <2>3
<1>3. Naming' => Naming
  BY <1>1 DEF Naming
<1> QED BY <1>1, <1>2, <1>3, NamesMoveOn

LEMMA EndPhaseNames ==
  ASSUME Filled, NamesInv, EndPhase
  PROVE  NamesInv'
<1>1. /\ phase \in DOMAIN NextPhase /\ phase' = NextPhase[phase] /\ f > Len(prog.fns)
      /\ f' = 1 /\ p' = 0 /\ s' = 1 /\ UNCHANGED <<prog, todo, scopes, entries, annotations>>
      /\ f \in Nat /\ Len(prog.fns) \in Nat
  BY ControlTypes DEF EndPhase, Phases, Filled
<1>2. todo = << >> /\ todo' = << >>
  BY <1>1, InvParts DEF WalkOK, Filled
<1>3. /\ phase = "declare" => phase' = "names"
      /\ phase = "names" => phase' = "signatures"
      /\ phase \notin {"declare", "names"} => phase' \notin {"declare", "names"}
  BY <1>1 DEF NextPhase
<1>4. ASSUME NEW g \in Fns, NEW i \in StmtsIn(g) PROVE Passed(g, i)' <=> Passed(g, i)
  <2>1. g \in Nat /\ g < f /\ ~(g < 1) /\ i \in Nat /\ ~(i < 1)
    BY <1>1, ProgramShape DEF Fns, StmtsIn, Filled, Inv
  <2>2. CASE phase = "declare"
    BY <1>1, <1>3, <2>1, <2>2 DEF Passed
  <2>3. CASE phase = "names"
    BY <1>1, <1>3, <2>1, <2>3 DEF Passed
  <2>4. CASE phase \notin {"declare", "names"}
    BY <1>3, <2>4 DEF Passed
  <2> QED BY <2>2, <2>3, <2>4
<1>5. Naming' => Naming
  BY <1>3 DEF Naming
<1> QED BY <1>1, <1>2, <1>4, <1>5, NamesMoveOn

-----------------------------------------------------------------------------
(* The name pass as a whole.                                               *)
LEMMA InitNamesInv == ASSUME Init, Filled PROVE NamesInv
<1>1. /\ phase = "declare" /\ f = 1 /\ p = 0 /\ s = 1 /\ todo = << >> /\ scopes = <<Scope(<< >>)>>
      /\ entries = << >> /\ fnEntry = << >>
      /\ paramEntry = [g \in Fns |-> << >>]
      /\ stmtVar = [g \in Fns |-> [i \in StmtsIn(g) |-> NULL]]
  BY DEF Init, InitNames, Fns, StmtsIn
<1>2. \A g, i : ~Passed(g, i)
  BY <1>1 DEF Passed
<1>3. \A g \in Fns : Len(paramEntry[g]) = 0
  BY <1>1, EmptySeq
<1>4. \A g \in Fns : \A i \in StmtsIn(g) : stmtVar[g][i] = NULL
  BY <1>1
<1>5. Len(fnEntry) = 0 /\ Len(entries) = 0
  BY <1>1, EmptySeq
<1>6. EntryNames /\ LetsMade /\ ParamsMade /\ NoRepeats /\ NamesWalk /\ AllResolved
  BY <1>1, <1>2, <1>3, <1>4, <1>5
  DEF EntryNames, LetsMade, ParamsMade, NoRepeats, NamesWalk, AllResolved
<1>7. \A sc \in 1 .. Len(scopes) : \A b \in 0 .. INIT_BUCKETS - 1 : scopes[sc].buckets[b] = << >>
  <2>1. Len(scopes) = 1 /\ scopes[1] = Scope(<< >>)
    BY <1>1
  <2>2. \A sc \in 1 .. Len(scopes) : sc = 1
    BY <2>1
  <2>3. \A b \in 0 .. INIT_BUCKETS - 1 : Scope(<< >>).buckets[b] = << >>
    BY DEF Scope
  <2> QED BY <2>1, <2>2, <2>3
<1>8. ChainsHashed
  BY <1>7, EmptySeq DEF ChainsHashed
<1>9. InScopes
  BY <1>1, <1>5 DEF InScopes
<1> QED BY <1>6, <1>8, <1>9 DEF NamesInv

LEMMA StopNames ==
  ASSUME Filled, NamesInv,
         UNCHANGED <<prog, phase, f, p, s, todo, scopes, entries, annotations>>
  PROVE  NamesInv'
<1>1. UNCHANGED Declared /\ UNCHANGED <<f, p, s, todo, exprVar>>
  BY DEF Declared, annotations
<1> QED BY <1>1, NamesSame

LEMMA NamesStep ==
  ASSUME Filled, NamesApart, NamesInv, Names_Next
  PROVE  /\ NamesInv'
         /\ outcome' # "running" => outcome' \in B!NameDefects
<1>1. CASE DeclareFn
  BY <1>1, DeclareFnNames, DeclareFnStops, StopNames
<1>2. CASE Names_EnterFn
  BY <1>2, NamesEnterFnNames DEF Names_EnterFn, InFn, In
<1>3. CASE InsertParam
  BY <1>3, InsertParamNames DEF InsertParam, AtParam, InFn, In
<1>4. CASE ResolveLet
  BY <1>4, ResolveLetNames, ResolveLetStops, StopNames
<1>5. CASE ResolveStmt
  BY <1>5, ResolveStmtNames DEF ResolveStmt, AtStmt, BetweenStmts, InFn, In, ResolveValue, NextStmt
<1>6. ASSUME NEW t \in {"var", "funcall"}, ResolveName(t)
      PROVE  NamesInv' /\ (outcome' # "running" => outcome' \in B!NameDefects)
  BY <1>6, ResolveNameNames, ResolveNameStops, StopNames
<1>7. ASSUME NEW t \in {"int", "binop"}, ResolveOperands(t)
      PROVE  NamesInv' /\ (outcome' # "running" => outcome' \in B!NameDefects)
  BY <1>7, ResolveOperandsNames DEF ResolveOperands, At, In, Continue
<1>8. CASE Names_LeaveFn
  BY <1>8, NamesLeaveFnNames DEF Names_LeaveFn, LeaveFn, BetweenStmts, InFn, In, NextFn
<1> QED BY <1>1, <1>2, <1>3, <1>4, <1>5, <1>6, <1>7, <1>8 DEF Names_Next

LEMMA IrPhase ==
  ASSUME Ir_Next
  PROVE  phase \in {"alloc_fns", "translate"} /\ phase' = phase
         /\ UNCHANGED <<prog, fnEntry, paramEntry, stmtVar, exprVar, exprType, stmtType>>
<1>1. CASE AllocFn
  BY <1>1 DEF AllocFn, InFn, In, NextFn, annotations
<1>2. CASE ~AllocFn
  <2>1. /\ phase = "translate"
        /\ (\E how : Fails(how)) \/ UNCHANGED <<prog, phase, annotations>>
    BY <1>2, IrWrites
  <2> QED BY <2>1 DEF Fails, Stop, annotations
<1> QED BY <1>1, <1>2

LEMMA NextNames ==
  ASSUME Filled, NamesApart, NamesInv, Next
  PROVE  NamesInv'
<1>1. CASE Names_Next
  BY <1>1, NamesStep
<1>2. CASE Types_Next \/ CheckReturns
  <2>1. phase \in {"signatures", "types", "returns"} /\ phase' = phase
    BY <1>2, TypesPhase
  <2>2. UNCHANGED <<prog, fnEntry, paramEntry, stmtVar, exprVar>>
    <3>1. CASE Types_Next
      BY <3>1, TypesKeep DEF Pointers
    <3>2. CASE CheckReturns
      BY <3>2 DEF CheckReturns, Stop, annotations
    <3> QED BY <1>2, <3>1, <3>2
  <2> QED BY <2>1, <2>2, NamesKept DEF Naming
<1>3. CASE EndPhase
  BY <1>3, EndPhaseNames
<1>4. CASE Ir_Next
  BY <1>4, IrPhase, NamesKept DEF Naming
<1> QED BY <1>1, <1>2, <1>3, <1>4 DEF Next, Semantics

(* After the pass no name is declared twice or used without a declaration. *)
LEMMA NamesRight ==
  ASSUME Filled, NamesInv, ~Naming
  PROVE  B!NameDefects = {}
<1>1. prog \in Programs /\ Len(fnEntry) = Len(prog.fns)
  BY Placing DEF Filled, Inv, Naming
<1>2. \A g, i : Passed(g, i)
  BY DEF Passed, Naming
<1>3. \A g, h \in Fns : prog.fns[g].name = prog.fns[h].name => g = h
  BY <1>1 DEF NamesInv, NoRepeats, Fns
<1>4. \A g \in Fns : \A i \in StmtsIn(g) : StmtAt(g, i).t = "let" =>
        /\ B!LetsNamed(StmtAt(g, i).name, g, i) = {i}
        /\ B!ParamsNamed(StmtAt(g, i).name, g) = {}
  BY <1>2 DEF NamesInv, NoRepeats
<1>5. \A g \in Fns : \A i \in StmtsIn(g) : \A n \in B!Nodes(StmtAt(g, i).value) :
        NamedNode(n) => B!Binding(Expr(n).name, g, i).kind # "none"
  BY <1>2 DEF NamesInv, AllResolved, Resolved, Naming
<1> QED BY <1>1, <1>3, <1>4, <1>5, NoNameDefects

-----------------------------------------------------------------------------
(* What the type pass has done so far is right.                            *)
LEMMA FilledGrows ==
  ASSUME Filled, Next
  PROVE  Grows /\ TypeInv /\ TypeInv' /\ Inv' /\ prog' = prog
         /\ \E owner, slot : Placed(owner, slot)
<1>1. PICK own : Owned(own)
  BY DEF Separate, Owned, Nodes, Fns, Filled
<1>2. PICK owner, slot : Tracked(own, owner, slot)
  BY <1>1 DEF Filled, Sized
<1>3. Placed(owner, slot) /\ Inv /\ TypeInv
  BY <1>1, <1>2 DEF Tracked, Filled
<1> QED BY <1>3, NextTyped, NextOK, ProgKept

LEMMA TypeAtSame == ASSUME prog' = prog, NEW g, NEW i, NEW n PROVE TypeAt(g, i, n)' = TypeAt(g, i, n)
  BY TypeInSame DEF TypeAt

LEMMA DoneSame ==
  ASSUME prog' = prog, NEW g, NEW i, NEW n, exprType'[n] = exprType[n], DoneT(n, g, i)
  PROVE  DoneT(n, g, i)'
  BY TypeAtSame DEF DoneT, Expr

LEMMA ParamsTypedKept ==
  ASSUME Filled, NamesInv, ParamsTyped, Next
  PROVE  ParamsTyped'
<1>1. Grows /\ Inv /\ prog' = prog /\ prog \in Programs
  BY FilledGrows DEF Filled, Inv
<1>2. ASSUME NEW g \in Fns, NEW k \in 1 .. Len(paramEntry[g]), paramEntry[g][k] # NULL,
             paramEntry'[g][k] = paramEntry[g][k]
      PROVE  entries'[paramEntry'[g][k]].type = ParamAt(g, k).type
  <2>1. paramEntry[g][k] \in 1 .. Len(entries)
    BY <1>1, <1>2, EntriesOf
  <2>2. entries[paramEntry[g][k]].type = ParamAt(g, k).type
    BY <1>2 DEF ParamsTyped
  <2>3. ParamAt(g, k).type # NoType
    <3>1. k \in 1 .. Len(prog.fns[g].params)
      <4>1. Len(paramEntry[g]) \in Nat /\ Len(prog.fns[g].params) \in Nat
        BY <1>1, ProgramShape, InvParts, SMTT(60) DEF AnnotationsOK, Fns
      <4>2. Len(paramEntry[g]) <= Len(prog.fns[g].params)
        <5>1. p <= Len(Fn.params) + 1 \/ phase # "names" \/ g # f
          BY <1>1, InvParts DEF LoopsOK, Fns
        <5>2. p \in Nat
          BY <1>1, ControlTypes
        <5> QED BY <1>1, <4>1, <5>1, <5>2, InvParts DEF LoopsOK, Fns, Fn
      <4> QED BY <4>1, <4>2
    <3>2. prog.fns[g].params \in Seq(Params)
      BY <1>1, ProgramShape
    <3>3. ParamAt(g, k) \in Params
      BY <3>1, <3>2, ElementOfSeq DEF ParamAt
    <3> QED BY <3>3, NotNull DEF Params, Written
  <2> QED BY <1>1, <1>2, <2>1, <2>2, <2>3 DEF Grows
<1>3. CASE paramEntry' = paramEntry
  <2>1. ASSUME NEW g \in Fns, NEW k \in 1 .. Len(paramEntry'[g]), paramEntry'[g][k] # NULL
        PROVE  entries'[paramEntry'[g][k]].type = ParamAt(g, k).type
    BY <1>2, <1>3, <2>1
  <2> QED BY <1>1, <2>1, TextSame DEF ParamsTyped
<1>4. CASE InsertParam
  <2>1. /\ f \in Fns /\ p \in Nat /\ Len(paramEntry[f]) = p - 1 /\ Inv
        /\ ParamAt(f, p).name \in Names /\ ParamAt(f, p).type \in Types /\ Fn.params[p] = ParamAt(f, p)
        /\ \A g \in Fns : g # f => paramEntry'[g] = paramEntry[g]
        /\ Len(paramEntry'[f]) = p
        /\ \A k \in 1 .. p : paramEntry'[f][k] =
             IF k <= p - 1 THEN paramEntry[f][k] ELSE scope_insert_result(scope, ParamAt(f, p).name)
    BY <1>4, ParamStep
  <2>2. ASSUME NEW g \in Fns, NEW k \in 1 .. Len(paramEntry'[g]), paramEntry'[g][k] # NULL
        PROVE  entries'[paramEntry'[g][k]].type = ParamAt(g, k).type
    <3>1. CASE g # f \/ k <= p - 1
      <4>1. k \in 1 .. Len(paramEntry[g]) /\ paramEntry'[g][k] = paramEntry[g][k]
        BY <2>1, <2>2, <3>1
      <4> QED BY <1>2, <2>2, <4>1
    <3>2. CASE g = f /\ ~(k <= p - 1)
      <4>1. k = p /\ k \in 1 .. p
        BY <2>1, <2>2, <3>2
      <4>2. scope_insert_result(scope, ParamAt(f, p).name) # NULL
            /\ paramEntry'[f][p] = scope_insert_result(scope, ParamAt(f, p).name)
        BY <2>1, <2>2, <3>2, <4>1
      <4>3. find_in(scope, ParamAt(f, p).name) = NULL /\ paramEntry'[f][p] = Len(entries) + 1
        BY <4>2 DEF scope_insert_result
      <4>4. scope_insert(scope, ParamAt(f, p).name, ParamAt(f, p).type)
        BY <1>4, <2>1 DEF InsertParam
      <4>5. TableOK /\ scope \in 1 .. Len(scopes)
        BY <2>1, InvParts, Scoped
      <4>6. entries'[Len(entries) + 1] = ScopeEntry(ParamAt(f, p).name, ParamAt(f, p).type)
        BY <2>1, <4>3, <4>4, <4>5, Inserted
      <4> QED BY <3>2, <4>1, <4>3, <4>6 DEF ScopeEntry
    <3> QED BY <3>1, <3>2
  <2> QED BY <1>1, <2>2, TextSame DEF ParamsTyped
<1>5. paramEntry' = paramEntry \/ InsertParam
  <2>1. CASE Names_Next
    BY <2>1 DEF Names_Next, DeclareFn, Names_EnterFn, ResolveLet, ResolveStmt, ResolveName, ResolveOperands,
                Names_LeaveFn, Stop, annotations
  <2>2. CASE Types_Next
    BY <2>2, TypesKeep DEF Pointers
  <2>3. CASE CheckReturns
    BY <2>3 DEF CheckReturns, Stop, annotations
  <2>4. CASE EndPhase
    BY <2>4 DEF EndPhase, annotations
  <2>5. CASE Ir_Next
    BY <2>5, IrPhase
  <2> QED BY <2>1, <2>2, <2>3, <2>4, <2>5 DEF Next, Semantics
<1> QED BY <1>3, <1>4, <1>5

(* Statements that are done stay right.                                    *)
LEMMA RightSame ==
  ASSUME LetRight, NodeRight, RootRight, UNCHANGED <<prog, stmtType, exprType>>,
         \A g \in Fns : \A i \in StmtsIn(g) : LetDone(g, i) => LetDone(g, i)',
         \A g \in Fns : \A i \in StmtsIn(g) : LetDone(g, i)' =>
           \/ LetDone(g, i)
           \/ /\ StmtAt(g, i).t = "let" => StmtAt(g, i).type # NoType
              /\ StmtAt(g, i).value # NULL => DoneT(StmtAt(g, i).value, g, i)
  PROVE  LetRight' /\ NodeRight' /\ RootRight'
<1>1. /\ Fns' = Fns /\ \A g : StmtsIn(g)' = StmtsIn(g)
      /\ \A g, i : StmtAt(g, i)' = StmtAt(g, i)
  BY TextSame
<1>2. \A g, i, n : TypeAt(g, i, n)' = TypeAt(g, i, n)
  BY TypeAtSame
<1>3. ASSUME NEW g \in Fns, NEW i \in StmtsIn(g), StmtAt(g, i).t = "let"
      PROVE  stmtType'[g][i] = IF StmtAt(g, i).type # NoType \/ ~LetDone(g, i)' THEN StmtAt(g, i).type
                               ELSE TypeAt(g, i, StmtAt(g, i).value)
  <2>1. stmtType[g][i] = IF StmtAt(g, i).type # NoType \/ ~LetDone(g, i) THEN StmtAt(g, i).type
                         ELSE TypeAt(g, i, StmtAt(g, i).value)
    BY <1>3 DEF LetRight
  <2>2. StmtAt(g, i).type # NoType \/ (LetDone(g, i)' <=> LetDone(g, i))
    BY <1>3
  <2> QED BY <2>1, <2>2
<1>4. LetRight'
  <2>1. ASSUME NEW g \in Fns', NEW i \in StmtsIn(g)', StmtAt(g, i)'.t = "let"
        PROVE  stmtType'[g][i] = IF StmtAt(g, i)'.type # NoType \/ ~LetDone(g, i)' THEN StmtAt(g, i)'.type
                                 ELSE TypeAt(g, i, StmtAt(g, i).value)'
    <3>1. PICK v : v = StmtAt(g, i).value
      OBVIOUS
    <3>2. TypeAt(g, i, v)' = TypeAt(g, i, v) /\ StmtAt(g, i)' = StmtAt(g, i)
      BY <1>1, <1>2
    <3> QED BY <1>1, <1>3, <2>1, <3>1, <3>2
  <2> QED BY <2>1 DEF LetRight
<1>5. NodeRight'
  <2>1. ASSUME NEW g \in Fns', NEW i \in StmtsIn(g)', NEW n \in B!Nodes(StmtAt(g, i).value)',
               exprType'[n] # NoType
        PROVE  exprType'[n] = TypeAt(g, i, n)'
    <3>1. PICK v : v = StmtAt(g, i).value
      OBVIOUS
    <3>2. B!Nodes(v)' = B!Nodes(v) /\ StmtAt(g, i)' = StmtAt(g, i)
      BY <1>1, NodesSame
    <3>3. n \in B!Nodes(StmtAt(g, i).value)
      BY <2>1, <3>1, <3>2
    <3> QED BY <1>1, <1>2, <2>1, <3>3 DEF NodeRight
  <2> QED BY <2>1 DEF NodeRight
<1>6. RootRight'
  <2>1. ASSUME NEW g \in Fns', NEW i \in StmtsIn(g)', LetDone(g, i)', StmtAt(g, i)'.value # NULL
        PROVE  DoneT(StmtAt(g, i).value, g, i)'
    <3>1. PICK v : v = StmtAt(g, i).value
      OBVIOUS
    <3>2. StmtAt(g, i)' = StmtAt(g, i)
      BY <1>1
    <3>3. DoneT(v, g, i)
      BY <1>1, <2>1, <3>1, <3>2 DEF RootRight
    <3>4. DoneT(v, g, i)'
      BY <3>3, DoneSame
    <3> QED BY <3>1, <3>2, <3>4
  <2> QED BY <2>1 DEF RootRight
<1> QED BY <1>4, <1>5, <1>6

(* Before the walk there is nothing to be right about.                     *)
LEMMA UntypedRight ==
  ASSUME prog' = prog, prog \in Programs, UNCHANGED <<stmtType, exprType>>,
         \A n \in Nodes : exprType[n] = NoType,
         \A g \in Fns : \A i \in StmtsIn(g) : stmtType[g][i] = StmtAt(g, i).type,
         \A g \in Fns : \A i \in StmtsIn(g) : ~LetDone(g, i)',
         phase' = "types" => todo' = << >>
  PROVE  LetRight' /\ NodeRight' /\ RootRight' /\ TypesWalk' /\ FirstDone'
<1>1. /\ Fns' = Fns /\ \A g : StmtsIn(g)' = StmtsIn(g)
      /\ \A g, i : StmtAt(g, i)' = StmtAt(g, i)
  BY TextSame
<1>2. LetRight'
  BY <1>1 DEF LetRight
<1>3. NodeRight'
  <2>1. ASSUME NEW g \in Fns', NEW i \in StmtsIn(g)', NEW n \in B!Nodes(StmtAt(g, i).value)'
        PROVE  exprType'[n] = NoType
    <3>1. PICK v : v = StmtAt(g, i).value
      OBVIOUS
    <3>2. B!Nodes(v)' = B!Nodes(v) /\ StmtAt(g, i)' = StmtAt(g, i)
      BY <1>1, NodesSame
    <3>3. n \in B!Nodes(StmtAt(g, i).value)
      BY <2>1, <3>1, <3>2
    <3>4. n \in Nodes
      BY <1>1, <2>1, <3>3, InStatement
    <3> QED BY <3>4
  <2> QED BY <2>1 DEF NodeRight
<1>4. RootRight'
  BY <1>1 DEF RootRight
<1>5. TypesWalk' /\ FirstDone'
  <2>1. CASE phase' # "types"
    BY <2>1 DEF TypesWalk, FirstDone
  <2>2. CASE todo' = << >>
    <3>1. \A j : j \notin 1 .. Len(todo')
      BY <2>2, EmptySeq
    <3> QED BY <3>1 DEF TypesWalk, FirstDone
  <2> QED BY <2>1, <2>2
<1> QED BY <1>2, <1>3, <1>4, <1>5

LEMMA UntypedIs ==
  ASSUME TypeInv, phase \in {"declare", "names", "signatures"}
  PROVE  /\ \A n \in Nodes : exprType[n] = NoType
         /\ \A g \in Fns : \A i \in StmtsIn(g) : stmtType[g][i] = StmtAt(g, i).type
  BY DEF TypeInv, Untyped, StmtsIn, StmtAt

(* Steps that are not of the walk over the types.                          *)
LEMMA EarlyRight ==
  ASSUME Filled, Next, phase \in {"declare", "names", "signatures"}
  PROVE  LetRight' /\ NodeRight' /\ RootRight' /\ TypesWalk' /\ FirstDone'
<1>1. Inv /\ TypeInv /\ prog \in Programs /\ prog' = prog
  BY FilledGrows DEF Filled, Inv
<1>2. UNCHANGED <<stmtType, exprType>>
  <2>1. CASE Names_Next
    BY <2>1 DEF Names_Next, DeclareFn, Names_EnterFn, InsertParam, ResolveLet, ResolveStmt, ResolveName,
                ResolveOperands, Names_LeaveFn, Stop, annotations
  <2>2. CASE Types_Next
    BY <2>2 DEF Types_Next, BuildFnType, Types_EnterFn, Types_Stmt, TypeInt, EnterBinop, TypeBinop, TypeName,
                CheckArg, TypeCall, Types_EndStmt, Types_LeaveFn, InFn, In, AtStmt, BetweenStmts, At, LeaveFn,
                annotations
  <2>3. CASE CheckReturns
    BY <2>3 DEF CheckReturns, InFn, In
  <2>4. CASE EndPhase
    BY <2>4 DEF EndPhase, annotations
  <2>5. CASE Ir_Next
    BY <2>5, IrPhase
  <2> QED BY <2>1, <2>2, <2>3, <2>4, <2>5 DEF Next, Semantics
<1>3. phase' \in {"declare", "names", "signatures"} \/ (phase' = "types" /\ EndPhase)
  <2>1. CASE Names_Next
    BY <2>1, NamesPhase
  <2>2. CASE Types_Next \/ CheckReturns
    BY <2>2, TypesPhase
  <2>3. CASE EndPhase
    BY <2>3 DEF EndPhase, NextPhase
  <2>4. CASE Ir_Next
    BY <2>4, IrPhase
  <2> QED BY <2>1, <2>2, <2>3, <2>4 DEF Next, Semantics
<1>4. \A g \in Fns : \A i \in StmtsIn(g) : ~LetDone(g, i)'
  <2>1. CASE phase' \in {"declare", "names", "signatures"}
    BY <2>1 DEF LetDone
  <2>2. CASE phase' = "types" /\ EndPhase
    <3>1. f' = 1 /\ s' = 1
      BY <2>2 DEF EndPhase
    <3>2. \A g \in Fns : g \in Nat /\ ~(g < 1) /\ \A i \in StmtsIn(g) : ~(i < 1)
      BY DEF Fns, StmtsIn
    <3> QED BY <2>2, <3>1, <3>2 DEF LetDone
  <2> QED BY <1>3, <2>1, <2>2
<1>5. phase' = "types" => todo' = << >>
  BY <1>1, <1>3, InvParts DEF EndPhase, WalkOK, NextPhase
<1> QED BY <1>1, <1>2, <1>4, <1>5, UntypedIs, UntypedRight

LEMMA LaterRight ==
  ASSUME Filled, TypesInv, Next,
         phase \in {"returns", "alloc_fns", "translate", "done"} \/ (phase = "types" /\ EndPhase)
  PROVE  LetRight' /\ NodeRight' /\ RootRight' /\ TypesWalk' /\ FirstDone'
<1>1. Inv /\ prog \in Programs /\ prog' = prog /\ f \in 1 .. Len(prog.fns) + 1 /\ Len(prog.fns) \in Nat
      /\ phase \in Phases
  BY FilledGrows, ControlTypes DEF Filled, Inv
<1>2. phase' \in {"returns", "alloc_fns", "translate", "done"} /\ UNCHANGED <<stmtType, exprType>>
  <2>1. CASE phase = "types" /\ EndPhase
    BY <2>1 DEF EndPhase, annotations, NextPhase
  <2>2. CASE phase \in {"returns", "alloc_fns", "translate", "done"}
    <3>1. ~Names_Next
      BY <2>2, NamesPhase
    <3>2. ~Types_Next
      BY <1>1, <2>2, QuietTypes
    <3>3. CASE CheckReturns
      BY <3>3 DEF CheckReturns, InFn, In, Stop, NextFn, annotations
    <3>4. CASE EndPhase
      BY <2>2, <3>4 DEF EndPhase, annotations, NextPhase
    <3>5. CASE Ir_Next
      BY <2>2, <3>5, IrPhase
    <3> QED BY <3>1, <3>2, <3>3, <3>4, <3>5 DEF Next, Semantics
  <2> QED BY <2>1, <2>2
<1>3. \A g \in Fns : \A i \in StmtsIn(g) : LetDone(g, i)
  <2>1. CASE phase \in {"returns", "alloc_fns", "translate", "done"}
    BY <2>1 DEF LetDone
  <2>2. CASE EndPhase /\ phase = "types"
    <3>1. f > Len(prog.fns)
      BY <2>2 DEF EndPhase
    <3>2. \A g \in Fns : g < f
      BY <1>1, <3>1 DEF Fns
    <3> QED BY <2>2, <3>2 DEF LetDone
  <2> QED BY <1>1, <2>1, <2>2 DEF Phases, NextPhase
<1>4. \A g \in Fns : \A i \in StmtsIn(g) : LetDone(g, i)'
  BY <1>2 DEF LetDone
<1>5. TypesWalk' /\ FirstDone'
  BY <1>2 DEF TypesWalk, FirstDone
<1> QED BY <1>1, <1>2, <1>3, <1>4, <1>5, RightSame DEF TypesInv

(* A step that only stops, or only moves on.                               *)
LEMMA WalkSame ==
  ASSUME TypesWalk, FirstDone, UNCHANGED <<prog, phase, f, s, todo, entries, exprVar, exprType>>
  PROVE  TypesWalk' /\ FirstDone'
<1>1. \A i, g, n : TypeAt(g, i, n)' = TypeAt(g, i, n)
  BY TypeAtSame
<1>2. Stmt' = Stmt /\ \A n : Expr(n)' = Expr(n)
  BY DEF Stmt, Fn, Expr
<1>3. TypesWalk'
  <2>1. \A n : (n \in B!Nodes(Stmt.value))' <=> n \in B!Nodes(Stmt.value)
    <3>1. PICK v : v = Stmt.value
      OBVIOUS
    <3>2. B!Nodes(v)' = B!Nodes(v)
      BY NodesSame
    <3> QED BY <1>2, <3>1, <3>2
  <2>2. \A t : ArgTask(t)' <=> ArgTask(t)
    BY DEF ArgTask, CallType, Expr
  <2> QED BY <2>1, <2>2 DEF TypesWalk
<1>4. FirstDone'
  <2>1. \A n : DoneT(n, f, s)' <=> DoneT(n, f, s)
    BY <1>1, <1>2 DEF DoneT
  <2>2. \A t : Needs(t)' = Needs(t)
    BY <1>2 DEF Needs, Nodes, Expr
  <2> QED BY <2>1, <2>2 DEF FirstDone
<1> QED BY <1>3, <1>4

-----------------------------------------------------------------------------
(* The walk over the types goes on.                                        *)
LEMMA ArgTaskStays ==
  ASSUME Inv, Grows, UNCHANGED <<prog, exprVar>>, NEW t, t.n \in Nodes, ArgTask(t)
  PROVE  ArgTask(t)'
<1>1. CallType(t.n)' = CallType(t.n)
  BY ArgStays DEF ArgTask
<1> QED BY <1>1 DEF ArgTask, Expr

LEMMA TypesGoOn ==
  ASSUME Filled, TypesInv, phase = "types", todo # << >>, UNCHANGED <<prog, exprVar>>, Grows,
         NEW tasks \in Seq(Tasks), Continue(tasks), NEW v, v = Node,
         \A n \in Nodes : exprType'[n] = exprType[n] \/ DoneT(n, f, s)',
         Head(todo).k \in {"enter", "leave"} =>
           \/ DoneT(v, f, s)'
           \/ \E l \in 1 .. Len(tasks) : tasks[l].n = v /\ tasks[l].k \in {"enter", "leave"},
         \A j \in 1 .. Len(tasks) :
           /\ tasks[j].k # "stmt" /\ tasks[j].n \in B!Nodes(Stmt.value)
           /\ tasks[j].k = "arg" => ArgTask(tasks[j]),
         \A j \in 1 .. Len(tasks) : \A n \in Needs(tasks[j]) :
           \E l \in 1 .. j - 1 : tasks[l].n = n /\ tasks[l].k \in {"enter", "leave"}
  PROVE  TypesWalk' /\ FirstDone'
<1>1. Inv /\ prog \in Programs /\ UNCHANGED <<f, s, phase>> /\ Stmt' = Stmt /\ Nodes' = Nodes
      /\ \A n : Expr(n)' = Expr(n)
  BY DEF Filled, Inv, Continue, Stmt, Fn, Expr, Nodes
<1>2. /\ Len(tasks) \in Nat /\ Len(todo) \in Nat /\ Len(todo') = Len(tasks) + Len(todo) - 1
      /\ \A j \in 1 .. Len(tasks) : j \in 1 .. Len(todo') /\ todo'[j] = tasks[j]
      /\ \A j \in 2 .. Len(todo) : /\ Len(tasks) + j - 1 \in 1 .. Len(todo')
                                   /\ todo'[Len(tasks) + j - 1] = todo[j]
      /\ \A j \in 1 .. Len(todo') : j > Len(tasks) =>
           /\ j - Len(tasks) + 1 \in 2 .. Len(todo)
           /\ todo'[j] = todo[j - Len(tasks) + 1]
      /\ Head(todo) = todo[1]
  BY <1>1, Shifted
<1>3. \A j \in 1 .. Len(todo) : todo[j].k # "stmt" => todo[j].n \in Nodes
  BY <1>1, Pending DEF TaskOK
<1>4. f \in Fns /\ s \in StmtsIn(f) /\ Stmt = StmtAt(f, s)
  BY <1>1, CurrentStmt DEF StmtsIn, StmtAt, Stmt, Fn
<1>5. \A n \in B!Nodes(Stmt.value) : n \in Nodes
  BY <1>1, <1>4, InStatement
<1>6. TypesWalk'
  <2>1. \A n : (n \in B!Nodes(Stmt.value))' <=> n \in B!Nodes(Stmt.value)
    <3>1. PICK root : root = Stmt.value
      OBVIOUS
    <3>2. B!Nodes(root)' = B!Nodes(root)
      BY NodesSame
    <3> QED BY <1>1, <3>1, <3>2
  <2>2. ASSUME NEW j \in 1 .. Len(todo'), NEW t, t = todo'[j]
        PROVE  /\ t.k # "stmt" => t.n \in B!Nodes(Stmt.value)
               /\ t.k = "arg" => ArgTask(t)'
    <3>1. CASE j <= Len(tasks)
      <4>1. j \in 1 .. Len(tasks) /\ t = tasks[j]
        BY <1>2, <2>2, <3>1
      <4>2. t.n \in B!Nodes(Stmt.value) /\ t.n \in Nodes /\ (t.k = "arg" => ArgTask(t))
        BY <1>5, <4>1
      <4> QED BY <1>1, <4>2, ArgTaskStays
    <3>2. CASE j > Len(tasks)
      <4>1. PICK i \in 1 .. Len(todo) : t = todo[i]
        BY <1>2, <2>2, <3>2
      <4>2. (t.k # "stmt" => t.n \in B!Nodes(Stmt.value)) /\ (t.k = "arg" => ArgTask(t))
        BY <4>1 DEF TypesInv, TypesWalk
      <4>3. t.k = "arg" => t.n \in Nodes
        BY <1>3, <4>1
      <4> QED BY <1>1, <4>2, <4>3, ArgTaskStays
    <3> QED BY <1>2, <3>1, <3>2
  <2>3. ASSUME NEW j \in 1 .. Len(todo')
        PROVE  /\ todo'[j].k # "stmt" => (todo[j].n \in B!Nodes(Stmt.value))'
               /\ todo'[j].k = "arg" => ArgTask(todo[j])'
    <3>1. PICK t : t = todo'[j]
      OBVIOUS
    <3>2. (t.k # "stmt" => t.n \in B!Nodes(Stmt.value)) /\ (t.k = "arg" => ArgTask(t)')
      BY <2>2, <3>1
    <3>3. (t.n \in B!Nodes(Stmt.value))' <=> t.n \in B!Nodes(Stmt.value)
      BY <2>1
    <3> QED BY <3>1, <3>2, <3>3
  <2> QED BY <2>3 DEF TypesWalk
<1>7. ASSUME NEW j \in 1 .. Len(todo'), NEW t, t = todo'[j], NEW n \in Needs(t)
      PROVE  DoneT(n, f, s)' \/ \E l \in 1 .. j - 1 : todo'[l].n = n /\ todo'[l].k \in {"enter", "leave"}
  <2>0. n \in Nodes
    BY <1>7 DEF Needs
  <2>1. CASE j <= Len(tasks)
    <3>1. j \in 1 .. Len(tasks) /\ t = tasks[j]
      BY <1>2, <1>7, <2>1
    <3>2. PICK l \in 1 .. j - 1 : tasks[l].n = n /\ tasks[l].k \in {"enter", "leave"}
      BY <1>7, <3>1
    <3>3. l \in 1 .. Len(tasks)
      BY <1>2, <3>1
    <3> QED BY <1>2, <3>2, <3>3
  <2>2. CASE j > Len(tasks)
    <3>1. PICK i \in 2 .. Len(todo) : i = j - Len(tasks) + 1 /\ t = todo[i]
      BY <1>2, <1>7, <2>2
    <3>2. i \in 1 .. Len(todo) /\ i \in Nat
      BY <1>2
    <3>3. DoneT(n, f, s) \/ \E l \in 1 .. i - 1 : todo[l].n = n /\ todo[l].k \in {"enter", "leave"}
      BY <1>7, <3>1, <3>2 DEF TypesInv, FirstDone
    <3>4. CASE DoneT(n, f, s)
      <4>1. exprType'[n] = exprType[n] \/ DoneT(n, f, s)'
        BY <2>0
      <4>2. CASE exprType'[n] = exprType[n]
        <5>1. PICK g, k : g = f /\ k = s
          OBVIOUS
        <5>2. DoneT(n, g, k)'
          BY <3>4, <4>2, <5>1, DoneSame
        <5> QED BY <1>1, <5>1, <5>2
      <4> QED BY <4>1, <4>2
    <3>5. CASE \E l \in 1 .. i - 1 : todo[l].n = n /\ todo[l].k \in {"enter", "leave"}
      <4>1. PICK l \in 1 .. i - 1 : todo[l].n = n /\ todo[l].k \in {"enter", "leave"}
        BY <3>5
      <4>2. CASE l = 1
        <5>1. n = v /\ Head(todo).k \in {"enter", "leave"}
          BY <1>2, <4>1, <4>2 DEF Node
        <5>2. CASE \E m \in 1 .. Len(tasks) : tasks[m].n = v /\ tasks[m].k \in {"enter", "leave"}
          <6>1. PICK m \in 1 .. Len(tasks) : tasks[m].n = v /\ tasks[m].k \in {"enter", "leave"}
            BY <5>2
          <6>2. todo'[m] = tasks[m] /\ m \in 1 .. j - 1
            BY <1>2, <2>2
          <6> QED BY <5>1, <6>1, <6>2
        <5>3. CASE DoneT(v, f, s)'
          BY ONLY <5>1, <5>3
        <5> QED BY <5>1, <5>2, <5>3
      <4>3. CASE l # 1
        <5>1. l \in 2 .. Len(todo) /\ Len(tasks) + l - 1 \in 1 .. j - 1
          BY <1>2, <3>1, <3>2, <4>3
        <5>2. todo'[Len(tasks) + l - 1] = todo[l]
          BY <1>2, <5>1
        <5> QED BY <4>1, <5>1, <5>2
      <4> QED BY <4>2, <4>3
    <3> QED BY <3>3, <3>4, <3>5
  <2> QED BY <1>2, <2>1, <2>2
<1>8. FirstDone'
  <2>1. \A t : Needs(t)' = Needs(t)
    BY <1>1 DEF Needs
  <2>2. \A j \in 1 .. Len(todo') : \A n \in Needs(todo'[j]) :
          DoneT(n, f, s)' \/ \E l \in 1 .. j - 1 : todo'[l].n = n /\ todo'[l].k \in {"enter", "leave"}
    BY <1>7
  <2>3. ASSUME NEW j \in 1 .. Len(todo'), NEW n \in Needs(todo[j])'
        PROVE  DoneT(n, f, s)' \/ \E l \in 1 .. j - 1 : todo'[l].n = n /\ todo'[l].k \in {"enter", "leave"}
    <3>1. PICK t : t = todo'[j]
      OBVIOUS
    <3>2. n \in Needs(t)
      BY <2>1, <2>3, <3>1
    <3> QED BY <1>7, <3>1, <3>2
  <2> QED BY <2>3 DEF FirstDone
<1> QED BY <1>6, <1>8

(* Where the walk is.                                                      *)
LEMMA AtType ==
  ASSUME Filled, TypesInv, phase = "types", todo # << >>
  PROVE  /\ Inv /\ TypeInv /\ prog \in Programs /\ f \in Fns /\ s \in StmtsIn(f) /\ Stmt = StmtAt(f, s)
         /\ Fn = prog.fns[f] /\ Stmt.value # NULL /\ Stmt.value \in Nodes
         /\ Stmt.value \in B!Nodes(Stmt.value) /\ ~LetDone(f, s)
         /\ \A n \in B!Nodes(Stmt.value) : n \in Nodes
         /\ Head(todo) = todo[1] /\ 1 \in 1 .. Len(todo)
         /\ Head(todo).k # "stmt" => /\ Node \in B!Nodes(Stmt.value) /\ Node \in Nodes
                                     /\ \A k \in 1 .. Len(Expr(Node).args) :
                                          Expr(Node).args[k] \in B!Nodes(Stmt.value)
<1>1. Inv /\ prog \in Programs
  BY DEF Filled, Inv
<1>2. TypeInv
  <2>1. PICK own : Owned(own)
    BY DEF Separate, Owned, Nodes, Fns, Filled
  <2> QED BY <2>1 DEF Filled
<1>3. /\ f \in Fns /\ s \in StmtsIn(f) /\ Stmt = StmtAt(f, s) /\ Fn = prog.fns[f]
      /\ Stmt.value # NULL /\ Stmt.value \in Nodes
  BY <1>1, CurrentStmt DEF StmtsIn, StmtAt, Stmt, Fn
<1>4. \A n \in B!Nodes(Stmt.value) : n \in Nodes
  BY <1>1, <1>3, InStatement
<1>5. Stmt.value \in B!Nodes(Stmt.value)
  BY <1>1, <1>3, NodesOf
<1>6. ~LetDone(f, s)
  BY <1>3, ControlTypes DEF LetDone, Fns, StmtsIn
<1>7. Head(todo) = todo[1] /\ 1 \in 1 .. Len(todo)
  BY <1>1, Pending, HeadTailProperties, EmptySeq
<1>8. Head(todo).k # "stmt" => Node \in B!Nodes(Stmt.value)
  BY <1>7 DEF Node, TypesInv, TypesWalk
<1>9. Head(todo).k # "stmt" => \A k \in 1 .. Len(Expr(Node).args) :
                                 Expr(Node).args[k] \in B!Nodes(Stmt.value)
  BY <1>1, <1>3, <1>8, NodesClosed
<1> QED BY <1>1, <1>2, <1>3, <1>4, <1>5, <1>6, <1>7, <1>8, <1>9

LEMMA SetTypeRight ==
  ASSUME Filled, TypesInv, phase = "types", todo # << >>, Head(todo).k \in {"enter", "leave"},
         NEW type, type = TypeAt(f, s, Node), type # NoType \/ Expr(Node).t = "var",
         SetType(type), Continue(<< >>), Grows
  PROVE  LetRight' /\ NodeRight' /\ RootRight' /\ TypesWalk' /\ FirstDone'
<1>1. /\ Inv /\ prog \in Programs /\ f \in Fns /\ s \in StmtsIn(f) /\ Stmt = StmtAt(f, s) /\ ~LetDone(f, s)
      /\ Node \in B!Nodes(Stmt.value) /\ Node \in Nodes
  BY AtType
<1>2. /\ UNCHANGED <<prog, scopes, entries, fnEntry, paramEntry, stmtVar, stmtType, exprVar, phase, f, s>>
      /\ exprType' = [exprType EXCEPT ![Node] = type]
  BY DEF SetType, Continue
<1>3. PICK v, g0, i0 : v = Node /\ g0 = f /\ i0 = s
  OBVIOUS
<1>4. exprType'[v] = type /\ \A n \in Nodes : n # v => exprType'[n] = exprType[n]
  BY <1>1, <1>2, <1>3, InvParts DEF AnnotationsOK, Nodes
<1>5. /\ Fns' = Fns /\ \A g : StmtsIn(g)' = StmtsIn(g)
      /\ \A g, i : StmtAt(g, i)' = StmtAt(g, i)
  BY <1>2, TextSame
<1>6. \A g, i, n : TypeAt(g, i, n)' = TypeAt(g, i, n)
  BY <1>2, TypeAtSame
<1>7. \A n : B!Nodes(n)' = B!Nodes(n)
  BY <1>2, NodesSame
<1>8. \A g, i : LetDone(g, i)' <=> LetDone(g, i)
  BY <1>2 DEF LetDone
<1>9. DoneT(v, g0, i0)'
  BY <1>2, <1>3, <1>4, <1>6 DEF DoneT, Expr
<1>10. LetRight'
  <2>1. ASSUME NEW g \in Fns', NEW i \in StmtsIn(g)', StmtAt(g, i)'.t = "let"
        PROVE  stmtType'[g][i] = IF StmtAt(g, i)'.type # NoType \/ ~LetDone(g, i)' THEN StmtAt(g, i)'.type
                                 ELSE TypeAt(g, i, StmtAt(g, i).value)'
    <3>1. PICK x : x = StmtAt(g, i).value
      OBVIOUS
    <3>2. TypeAt(g, i, x)' = TypeAt(g, i, x) /\ StmtAt(g, i)' = StmtAt(g, i)
      BY <1>5, <1>6
    <3>3. g \in Fns /\ i \in StmtsIn(g) /\ StmtAt(g, i).t = "let"
      BY <1>5, <2>1
    <3> QED BY <1>2, <1>5, <1>8, <3>1, <3>2, <3>3 DEF TypesInv, LetRight
  <2> QED BY <2>1 DEF LetRight
<1>11. NodeRight'
  <2>1. ASSUME NEW g \in Fns', NEW i \in StmtsIn(g)', NEW n \in B!Nodes(StmtAt(g, i).value)',
               exprType'[n] # NoType
        PROVE  exprType'[n] = TypeAt(g, i, n)'
    <3>1. PICK x : x = StmtAt(g, i).value
      OBVIOUS
    <3>2. B!Nodes(x)' = B!Nodes(x) /\ StmtAt(g, i)' = StmtAt(g, i)
      BY <1>5, <1>7
    <3>3. n \in B!Nodes(StmtAt(g, i).value) /\ g \in Fns /\ i \in StmtsIn(g)
      BY <1>5, <2>1, <3>1, <3>2
    <3>4. n \in Nodes
      BY <1>1, <3>3, InStatement
    <3>5. CASE n = v
      <4>1. g = f /\ i = s
        BY <1>1, <1>3, <3>3, <3>5, OneStatement DEF Filled
      <4> QED BY <1>3, <1>4, <1>6, <3>5, <4>1
    <3>6. CASE n # v
      BY <1>4, <1>6, <2>1, <3>3, <3>4, <3>6 DEF TypesInv, NodeRight
    <3> QED BY <3>5, <3>6
  <2> QED BY <2>1 DEF NodeRight
<1>12. RootRight'
  <2>1. ASSUME NEW g \in Fns', NEW i \in StmtsIn(g)', LetDone(g, i)', StmtAt(g, i)'.value # NULL
        PROVE  DoneT(StmtAt(g, i).value, g, i)'
    <3>1. PICK x : x = StmtAt(g, i).value
      OBVIOUS
    <3>2. StmtAt(g, i)' = StmtAt(g, i) /\ g \in Fns /\ i \in StmtsIn(g)
      BY <1>5, <2>1
    <3>3. DoneT(x, g, i) /\ LetDone(g, i)
      BY <1>5, <1>8, <2>1, <3>1, <3>2 DEF TypesInv, RootRight
    <3>4. x \in Nodes /\ x \in B!Nodes(x)
      BY <1>1, <2>1, <3>1, <3>2, ValueNode, NodesOf
    <3>5. x # v
      <4>1. SUFFICES ASSUME x = v PROVE FALSE
        OBVIOUS
      <4>2. x \in B!Nodes(StmtAt(g, i).value) /\ x \in B!Nodes(StmtAt(f, s).value)
        BY <1>1, <1>3, <3>1, <3>4, <4>1
      <4>3. Unshared(prog)
        BY DEF Filled
      <4>4. g = f /\ i = s
        BY <1>1, <3>2, <4>2, <4>3, OneStatement
      <4> QED BY <1>1, <3>3, <4>4
    <3>6. DoneT(x, g, i)'
      BY <1>2, <1>4, <3>3, <3>4, <3>5, DoneSame
    <3> QED BY <3>1, <3>2, <3>6
  <2> QED BY <2>1 DEF RootRight
<1>13. TypesWalk' /\ FirstDone'
  <2>1. << >> \in Seq(Tasks) /\ \A j : j \notin 1 .. Len(<< >>)
    BY EmptySeq
  <2>2. DoneT(v, f, s)'
    <3>1. f' = g0 /\ s' = i0
      BY <1>2, <1>3
    <3> QED BY ONLY <3>1, <1>9
  <2>3. \A n \in Nodes : exprType'[n] = exprType[n] \/ DoneT(n, f, s)'
    BY ONLY <1>4, <2>2
  <2> HIDE DEF DoneT
  <2> QED BY <1>2, <1>3, <2>1, <2>2, <2>3, TypesGoOn
<1> QED BY <1>10, <1>11, <1>12, <1>13

(* Entering more tasks leaves what is done.                                *)
LEMMA WalkRight ==
  ASSUME Filled, TypesInv, phase = "types", UNCHANGED <<prog, phase, f, s, entries, annotations>>
  PROVE  LetRight' /\ NodeRight' /\ RootRight'
<1>1. \A g \in Fns : \A i \in StmtsIn(g) : LetDone(g, i)' <=> LetDone(g, i)
  BY DEF LetDone
<1> QED BY <1>1, RightSame DEF TypesInv, annotations

(* The entry a name is bound to has the type the name stands for.          *)
LEMMA SignatureIs == ASSUME NEW g PROVE B!Signature(g) = FnType(prog.fns[g].ret, ParamTypes(g))
  BY DEF B!Signature, B!FnType, FnType, ParamTypes, B!Params

LEMMA TypeInvOf == ASSUME Filled PROVE TypeInv /\ Inv /\ prog \in Programs
<1>1. PICK own : Owned(own)
  BY DEF Separate, Owned, Nodes, Fns, Filled
<1> QED BY <1>1 DEF Filled, Inv

LEMMA NamedBound ==
  ASSUME Filled, NamesInv, ~Naming, NEW g \in Fns, NEW i \in StmtsIn(g),
         NEW n \in B!Nodes(StmtAt(g, i).value), NamedNode(n)
  PROVE  LET b == B!Binding(Expr(n).name, g, i)
         IN  b.kind \in {"let", "param", "fn"} /\ exprVar[n] = EntryOf(b, g)
<1>1. Passed(g, i) /\ phase # "names"
  BY DEF Passed, Naming
<1>2. Resolved(n, g, i)
  BY <1>1 DEF NamesInv, AllResolved
<1>3. PICK b : b = B!Binding(Expr(n).name, g, i)
  OBVIOUS
<1>4. b.kind # "none" /\ exprVar[n] = EntryOf(b, g)
  BY <1>2, <1>3 DEF Resolved
<1>5. b.kind \in {"let", "param", "fn", "none"}
  BY <1>3, BindingIs DEF Kinds
<1> QED BY <1>3, <1>4, <1>5

LEMMA FnEntryTyped ==
  ASSUME Filled, NEW h \in Fns, phase \notin {"declare", "names", "signatures"}
  PROVE  fnEntry[h] = h /\ h # NULL /\ h \in 1 .. Len(entries) /\ entries[h].type = B!Signature(h)
<1>1. Len(fnEntry) = Len(prog.fns) /\ h \in 1 .. Len(fnEntry)
  BY Placing DEF Fns
<1>2. fnEntry[h] = h /\ h \in 1 .. Len(entries)
  BY <1>1, FnEntriesHere
<1>3. Signed(h)
  BY DEF Signed
<1> QED BY <1>2, <1>3, TypeInvOf, SignatureIs DEF TypeInv, FnEntries, Fns, NULL

LEMMA ParamEntryTyped ==
  ASSUME Filled, NamesInv, ParamsTyped, NEW g \in Fns, NEW k \in 1 .. Len(prog.fns[g].params), ~Naming
  PROVE  /\ k \in 1 .. Len(paramEntry[g])
         /\ paramEntry[g][k] # NULL <=> \A j \in 1 .. k - 1 : ParamAt(g, j).name # ParamAt(g, k).name
         /\ paramEntry[g][k] # NULL => entries[paramEntry[g][k]].type = ParamAt(g, k).type
<1>1. Len(paramEntry[g]) = Len(prog.fns[g].params)
  BY TypeInvOf, InvParts DEF LoopsOK, Naming, Fns
<1> QED BY <1>1 DEF NamesInv, ParamsMade, ParamsTyped

LEMMA LetEntryTyped ==
  ASSUME Filled, NamesInv, ~Naming, NEW g \in Fns, NEW i \in StmtsIn(g), StmtAt(g, i).t = "let"
  PROVE  stmtVar[g][i] # NULL /\ entries[stmtVar[g][i]].type = stmtType[g][i]
<1>1. stmtVar[g][i] # NULL
  BY DEF NamesInv, LetsMade, Passed, Naming
<1> QED BY <1>1, TypeInvOf DEF TypeInv, LetTypes, StmtsIn

LEMMA EntryTyped ==
  ASSUME Filled, NamesInv, TypesInv, phase \notin {"declare", "names", "signatures"},
         NEW g \in Fns, NEW i \in StmtsIn(g), NEW n \in B!Nodes(StmtAt(g, i).value), NamedNode(n),
         \A j \in StmtsIn(g) : j < i => LetDone(g, j),
         B!Binding(Expr(n).name, g, i).kind = "let" /\ B!Binding(Expr(n).name, g, i).at = i =>
           stmtType[g][i] = StmtAt(g, i).type
  PROVE  exprVar[n] # NULL /\ entries[exprVar[n]].type = NamedAt(g, i, n)
<1>1. Inv /\ TypeInv /\ prog \in Programs /\ ~Naming
  BY TypeInvOf DEF Naming
<1>2. PICK name, type : name = Expr(n).name /\ type = B!TypeIn(g)
  OBVIOUS
<1>3. PICK b : b = B!Binding(name, g, i)
  OBVIOUS
<1>4. b.kind \in {"let", "param", "fn"} /\ exprVar[n] = EntryOf(b, g)
  BY <1>1, <1>2, <1>3, NamedBound
<1>5. NamedAt(g, i, n) = B!TypeOfName(type, name, g, i)
  BY <1>2 DEF NamedAt
<1>6. CASE b.kind = "let"
  <2>1. PICK j : j = b.at
    OBVIOUS
  <2>2. j \in StmtsIn(g) /\ j <= i /\ StmtAt(g, j).t = "let"
    BY <1>1, <1>3, <1>6, <2>1, BoundToLet
  <2>3. exprVar[n] = stmtVar[g][j]
    BY <1>4, <1>6, <2>1 DEF EntryOf
  <2>4. stmtVar[g][j] # NULL /\ entries[stmtVar[g][j]].type = stmtType[g][j]
    BY <1>1, <2>2, LetEntryTyped
  <2>5. CASE StmtAt(g, j).type # NoType \/ j = i
    <3>1. NamedAt(g, i, n) = StmtAt(g, j).type
      BY <1>3, <1>5, <1>6, <2>1, <2>5, TypeOfLet
    <3>2. stmtType[g][j] = StmtAt(g, j).type
      <4>1. CASE StmtAt(g, j).type # NoType
        BY <2>2, <4>1 DEF TypesInv, LetRight
      <4>2. CASE j = i
        <5>1. B!Binding(Expr(n).name, g, i) = b
          BY <1>2, <1>3
        <5>2. b.kind = "let" /\ b.at = i
          BY <1>6, <2>1, <4>2
        <5>3. stmtType[g][i] = StmtAt(g, i).type
          BY ONLY <5>1, <5>2, B!Binding(Expr(n).name, g, i).kind = "let" /\ B!Binding(Expr(n).name, g, i).at = i =>
                              stmtType[g][i] = StmtAt(g, i).type
        <5> QED BY <4>2, <5>3
      <4> QED BY <2>5, <4>1, <4>2
    <3> QED BY <2>3, <2>4, <3>1, <3>2
  <2>6. CASE StmtAt(g, j).type = NoType /\ j # i
    <3>1. NamedAt(g, i, n) = type[<<j, StmtAt(g, j).value>>]
      <4>1. B!Binding(name, g, i).kind = "let" /\ B!Binding(name, g, i).at = j
        BY <1>3, <1>6, <2>1
      <4>2. B!TypeOfName(type, name, g, i) = type[<<j, StmtAt(g, j).value>>]
        BY ONLY <2>6, <4>1, TypeOfValue
      <4> QED BY <1>5, <4>2
    <3>2. LetDone(g, j)
      <4>1. j < i
        BY <2>2, <2>6 DEF StmtsIn
      <4> QED BY <2>2, <4>1
    <3>3. stmtType[g][j] = TypeAt(g, j, StmtAt(g, j).value)
      BY <2>2, <2>6, <3>2 DEF TypesInv, LetRight
    <3> QED BY <1>2, <2>3, <2>4, <3>1, <3>3 DEF TypeAt
  <2> QED BY <2>5, <2>6
<1>7. CASE b.kind = "param"
  <2>1. PICK k : k = b.at
    OBVIOUS
  <2>2. /\ k \in 1 .. Len(prog.fns[g].params) /\ ParamAt(g, k).name = name
        /\ \A j \in 1 .. k - 1 : ParamAt(g, j).name # name
    <3>1. B!Binding(name, g, i).kind = "param" /\ k = B!Binding(name, g, i).at
      BY <1>3, <1>7, <2>1
    <3> HIDE DEF NamedNode
    <3> QED BY ONLY <1>1, <3>1, g \in Fns, BoundToParam
  <2>3. exprVar[n] = paramEntry[g][k]
    BY <1>4, <1>7, <2>1 DEF EntryOf
  <2>4. NamedAt(g, i, n) = ParamAt(g, k).type
    BY <1>3, <1>5, <1>7, <2>1, TypeOfParam
  <2> QED BY <1>1, <2>2, <2>3, <2>4, ParamEntryTyped DEF TypesInv
<1>8. CASE b.kind = "fn"
  <2>1. PICK h : h = b.at
    OBVIOUS
  <2>2. h \in Fns
    BY <1>1, <1>3, <1>8, <2>1, BoundToFn
  <2>3. exprVar[n] = fnEntry[h]
    BY <1>4, <1>8, <2>1 DEF EntryOf
  <2>4. NamedAt(g, i, n) = B!Signature(h)
    BY <1>3, <1>5, <1>8, <2>1, TypeOfFn
  <2> QED BY <2>2, <2>3, <2>4, FnEntryTyped
<1> QED BY <1>4, <1>6, <1>7, <1>8

(* In the statement being typed.                                           *)
LEMMA NodeNamed ==
  ASSUME Filled, NamesInv, TypesInv, phase = "types", todo # << >>,
         NEW n \in B!Nodes(Stmt.value), NamedNode(n)
  PROVE  exprVar[n] # NULL /\ entries[exprVar[n]].type = NamedAt(f, s, n)
<1>1. f \in Fns /\ s \in StmtsIn(f) /\ Stmt = StmtAt(f, s) /\ ~LetDone(f, s) /\ Inv /\ prog \in Programs
  BY AtType
<1>2. \A j \in StmtsIn(f) : j < s => LetDone(f, j)
  BY DEF LetDone
<1>3. StmtAt(f, s).t = "let" => stmtType[f][s] = StmtAt(f, s).type
  BY <1>1 DEF TypesInv, LetRight
<1>4. B!Binding(Expr(n).name, f, s).kind = "let" /\ B!Binding(Expr(n).name, f, s).at = s =>
        stmtType[f][s] = StmtAt(f, s).type
  <2>1. PICK name : name = Expr(n).name
    OBVIOUS
  <2>2. B!Binding(name, f, s).kind = "let" => StmtAt(f, B!Binding(name, f, s).at).t = "let"
    BY <1>1, BoundToLet, ZenonT(60)
  <2> QED BY <1>3, <2>1, <2>2
<1> QED BY <1>1, <1>2, <1>4, EntryTyped

-----------------------------------------------------------------------------
(* What is wrong with the types of a program.                              *)
WrittenLets(g) ==
  {j \in B!StmtsOf(g, "let") : B!Stmts(g)[j].value # 0 /\ B!Stmts(g)[j].type # B!NoType}

LetDefectsOf(g) ==
  UNION {B!Mismatch(B!TypeIn(g)[<<i, B!Stmts(g)[i].value>>], B!Stmts(g)[i].type, "incorrect_type_assign") :
           i \in {i \in B!StmtsOf(g, "let") : B!Stmts(g)[i].value # 0 /\ B!Stmts(g)[i].type # B!NoType}}
ExprDefectsOf(o) == B!ExprDefects(B!TypeIn(o[1]), o[1], o[2], o[3])

LEMMA TypeDefectsAre ==
  /\ B!TypeDefects = (UNION {ExprDefectsOf(o) : o \in B!Occurrences}) \cup
                     (UNION {LetDefectsOf(g) : g \in B!Functions})
  /\ \A g, d : d \in LetDefectsOf(g) <=>
       \E i \in WrittenLets(g) :
         d \in B!Mismatch(B!TypeIn(g)[<<i, B!Stmts(g)[i].value>>], B!Stmts(g)[i].type,
                          "incorrect_type_assign")
<1>1. B!TypeDefects = (UNION {ExprDefectsOf(o) : o \in B!Occurrences}) \cup
                     (UNION {LetDefectsOf(g) : g \in B!Functions})
  BY Zenon DEF B!TypeDefects, LetDefectsOf, ExprDefectsOf
<1>2. ASSUME NEW g, NEW d
      PROVE  d \in LetDefectsOf(g) <=>
       \E i \in WrittenLets(g) :
         d \in B!Mismatch(B!TypeIn(g)[<<i, B!Stmts(g)[i].value>>], B!Stmts(g)[i].type,
                          "incorrect_type_assign")
  BY DEF LetDefectsOf, WrittenLets
<1> QED BY <1>1, <1>2

LEMMA ExprDefect ==
  ASSUME NEW g \in Fns, NEW i \in StmtsIn(g), NEW n \in B!Nodes(StmtAt(g, i).value),
         NEW d \in B!ExprDefects(B!TypeIn(g), g, i, n)
  PROVE  d \in B!TypeDefects
<1>1. PICK o : o = <<g, i, n>>
  OBVIOUS
<1>2. o \in B!Occurrences /\ o[1] = g /\ o[2] = i /\ o[3] = n
  BY <1>1, OccurrencesAre
<1>3. d \in B!ExprDefects(B!TypeIn(o[1]), o[1], o[2], o[3])
  BY <1>2
<1> QED BY <1>2, <1>3, Zenon DEF B!TypeDefects

LEMMA LetDefect ==
  ASSUME NEW g \in Fns, NEW i \in StmtsIn(g), StmtAt(g, i).t = "let", StmtAt(g, i).value # NULL,
         StmtAt(g, i).type # NoType,
         NEW d \in B!Mismatch(TypeAt(g, i, StmtAt(g, i).value), StmtAt(g, i).type, "incorrect_type_assign")
  PROVE  d \in B!TypeDefects
<1>1. i \in WrittenLets(g)
  BY DEF WrittenLets, B!StmtsOf, B!Stmts, StmtAt, StmtsIn, NULL, NoType, B!NoType, Type, B!Type
<1>2. d \in B!Mismatch(B!TypeIn(g)[<<i, B!Stmts(g)[i].value>>], B!Stmts(g)[i].type, "incorrect_type_assign")
  BY DEF B!Stmts, StmtAt, TypeAt
<1>3. g \in B!Functions
  BY DEF B!Functions, Fns
<1>4. d \in LetDefectsOf(g)
  BY <1>1, <1>2, TypeDefectsAre
<1> QED BY <1>3, <1>4, TypeDefectsAre

LEMMA NoTypeDefects ==
  ASSUME \A g \in Fns : \A i \in StmtsIn(g) : \A n \in B!Nodes(StmtAt(g, i).value) :
           B!ExprDefects(B!TypeIn(g), g, i, n) = {},
         \A g \in Fns : \A i \in StmtsIn(g) :
           StmtAt(g, i).t = "let" /\ StmtAt(g, i).value # NULL /\ StmtAt(g, i).type # NoType =>
             B!Mismatch(TypeAt(g, i, StmtAt(g, i).value), StmtAt(g, i).type, "incorrect_type_assign") = {}
  PROVE  B!TypeDefects = {}
<1>1. ASSUME NEW o \in B!Occurrences PROVE B!ExprDefects(B!TypeIn(o[1]), o[1], o[2], o[3]) = {}
  <2>1. PICK g, i, n : /\ g \in Fns /\ i \in StmtsIn(g) /\ n \in B!Nodes(StmtAt(g, i).value)
                        /\ o = <<g, i, n>>
    BY <1>1, OccurrencesAre
  <2>2. o[1] = g /\ o[2] = i /\ o[3] = n
    BY <2>1
  <2> QED BY <2>1, <2>2
<1>2. ASSUME NEW g \in B!Functions,
             NEW i, i \in WrittenLets(g)
      PROVE  B!Mismatch(B!TypeIn(g)[<<i, B!Stmts(g)[i].value>>], B!Stmts(g)[i].type,
                        "incorrect_type_assign") = {}
  <2>1. /\ g \in Fns /\ i \in StmtsIn(g) /\ StmtAt(g, i).t = "let" /\ StmtAt(g, i).value # NULL
        /\ StmtAt(g, i).type # NoType
    BY <1>2 DEF WrittenLets, B!Functions, Fns, B!StmtsOf, B!Stmts, StmtAt, StmtsIn, NULL, NoType, B!NoType, Type, B!Type
  <2>2. B!Mismatch(TypeAt(g, i, StmtAt(g, i).value), StmtAt(g, i).type, "incorrect_type_assign") = {}
    BY <2>1
  <2> QED BY <2>2 DEF B!Stmts, StmtAt, TypeAt
<1>3. \A o \in B!Occurrences : ExprDefectsOf(o) = {}
  BY <1>1 DEF ExprDefectsOf
<1>4. \A g \in B!Functions : LetDefectsOf(g) = {}
  BY <1>2, TypeDefectsAre
<1> QED BY <1>3, <1>4, TypeDefectsAre

LEMMA NotIll == \A type \in Types : type # B!IllTyped /\ type.t # "ill-typed"
  BY DEF B!IllTyped, B!Type, Type, Types, Builtins, BuiltinTypes, IntTypes, FnTypes, NoType

LEMMA MismatchOf ==
  ASSUME NEW a \in Types, NEW b \in Types, NEW d
  PROVE  /\ a = NoType \/ b = NoType => B!Mismatch(a, b, d) = {"segv"}
         /\ a # NoType /\ b # NoType /\ a.t = b.t => B!Mismatch(a, b, d) = {}
         /\ a # NoType /\ b # NoType /\ a.t # b.t => B!Mismatch(a, b, d) = {d}
<1>1. B!IllTyped \notin {a, b}
  BY NotIll
<1>2. B!NoType = NoType
  BY DEF B!NoType, B!Type, NoType, Type
<1>3. B!NoType \in {a, b} <=> a = NoType \/ b = NoType
  BY <1>2
<1> QED BY <1>1, <1>3 DEF B!Mismatch

LEMMA CoerceIs ==
  ASSUME NEW op, NEW left \in Types, NEW right \in Types, ~coerce_reads_null(left, right)
  PROVE  /\ left # NoType /\ right # NoType
         /\ coerce_type(op, left, right) = NoType <=> left.t # right.t
         /\ left.t = right.t => coerce_type(op, left, right) =
              IF op \in Comparisons THEN Type("bool") ELSE left
  BY DEF coerce_reads_null, coerce_type, NoType, Type

LEMMA BinopDefects ==
  ASSUME prog \in Programs, Inv, NEW n \in Nodes, Expr(n).t = "binop", NEW g, NEW i
  PROVE  B!ExprDefects(B!TypeIn(g), g, i, n) =
           B!Mismatch(TypeAt(g, i, Expr(n).args[1]), TypeAt(g, i, Expr(n).args[2]), "incorrect_type_binop")
<1>1. Len(Expr(n).args) = 2
  BY BelowNode
<1>2. [k \in 1 .. Len(Expr(n).args) |-> B!TypeIn(g)[<<i, Expr(n).args[k]>>]][1] = TypeAt(g, i, Expr(n).args[1])
  BY <1>1 DEF TypeAt
<1>3. [k \in 1 .. Len(Expr(n).args) |-> B!TypeIn(g)[<<i, Expr(n).args[k]>>]][2] = TypeAt(g, i, Expr(n).args[2])
  BY <1>1 DEF TypeAt
<1> QED BY <1>2, <1>3, Zenon DEF B!ExprDefects, B!Node, Expr

LEMMA CallDefectsOf ==
  ASSUME NEW n \in Nodes, Expr(n).t = "funcall", NEW g, NEW i
  PROVE  B!ExprDefects(B!TypeIn(g), g, i, n) =
           B!CallDefects(NamedAt(g, i, n), [k \in 1 .. Len(Expr(n).args) |-> TypeAt(g, i, Expr(n).args[k])])
  BY Zenon DEF B!ExprDefects, B!Node, Expr, NamedAt, TypeAt

LEMMA OtherDefects ==
  ASSUME NEW n, Expr(n).t \in {"int", "var"}, NEW g, NEW i
  PROVE  B!ExprDefects(B!TypeIn(g), g, i, n) = {}
<1>1. Expr(n).t # "binop" /\ Expr(n).t # "funcall"
  OBVIOUS
<1> QED BY <1>1 DEF B!ExprDefects, B!Node, Expr

LEMMA CallDefectsAre ==
  ASSUME NEW callee \in Types, NEW m \in Nat, NEW args, DOMAIN args = 1 .. m, Len(args) = m
  PROVE  /\ callee = NoType => B!CallDefects(callee, args) = {"segv"}
         /\ callee # NoType /\ callee.t # "fn" => B!CallDefects(callee, args) = {"incorrect_type_funcall"}
         /\ callee.t = "fn" /\ Len(callee.args) # m => B!CallDefects(callee, args) = {"wrong_param_count"}
         /\ callee.t = "fn" /\ Len(callee.args) = m =>
              \A d : d \in B!CallDefects(callee, args) <=>
                \E k \in 1 .. m : d \in B!Mismatch(callee.args[k], args[k], "incorrect_type_param")
<1>1. callee.t # "ill-typed" /\ (callee = NoType <=> callee.t = "null")
  BY NotIll, NotNull
<1>2. CASE callee.t = "null"
  BY <1>1, <1>2 DEF B!CallDefects
<1>3. CASE callee.t = "fn"
  BY <1>1, <1>3 DEF B!CallDefects
<1>4. CASE callee.t \notin {"null", "fn", "ill-typed"}
  BY <1>1, <1>4 DEF B!CallDefects
<1> QED BY <1>1, <1>2, <1>3, <1>4

-----------------------------------------------------------------------------
(* The steps of the walk over the types.                                   *)
LEMMA StopRight ==
  ASSUME Filled, TypesInv, UNCHANGED <<prog, phase, f, p, s, todo, scopes, entries, annotations>>
  PROVE  LetRight' /\ NodeRight' /\ RootRight' /\ TypesWalk' /\ FirstDone'
<1>1. \A g \in Fns : \A i \in StmtsIn(g) : LetDone(g, i)' <=> LetDone(g, i)
  BY DEF LetDone
<1> QED BY <1>1, RightSame, WalkSame DEF TypesInv, annotations

LEMMA NeededDone ==
  ASSUME Filled, TypesInv, phase = "types", todo # << >>
  PROVE  /\ Head(todo).k = "leave" =>
              \A k \in 1 .. Len(Expr(Node).args) : DoneT(Expr(Node).args[k], f, s)
         /\ Head(todo).k = "arg" =>
              /\ ArgTask(Head(todo)) /\ DoneT(Expr(Node).args[Head(todo).i], f, s)
         /\ Head(todo).k = "stmt" => DoneT(Stmt.value, f, s)
<1>1. /\ Inv /\ Stmt.value \in Nodes /\ Head(todo) = todo[1] /\ 1 \in 1 .. Len(todo)
      /\ Head(todo).k # "stmt" => Node \in Nodes
  BY AtType
<1>2. \A n \in Needs(todo[1]) : DoneT(n, f, s)
  <2>1. \A l : l \notin 1 .. 1 - 1
    OBVIOUS
  <2> QED BY <1>1, <2>1 DEF TypesInv, FirstDone
<1>3. ASSUME Head(todo).k = "leave", NEW k \in 1 .. Len(Expr(Node).args)
      PROVE  DoneT(Expr(Node).args[k], f, s)
  <2>1. Expr(Node).args[k] \in Nodes
    BY <1>1, <1>3, BelowNode
  <2>2. Expr(Node).args[k] \in Needs(todo[1])
    BY <1>1, <1>3, <2>1 DEF Needs, Node
  <2> QED BY <1>2, <2>2
<1>4. ASSUME Head(todo).k = "arg"
      PROVE  ArgTask(Head(todo)) /\ DoneT(Expr(Node).args[Head(todo).i], f, s)
  <2>1. ArgTask(Head(todo))
    BY <1>1, <1>4 DEF TypesInv, TypesWalk
  <2>2. Head(todo).i \in 1 .. Len(Expr(Node).args)
    BY <2>1 DEF ArgTask, Node
  <2>3. Expr(Node).args[Head(todo).i] \in Nodes
    BY <1>1, <1>4, <2>2, BelowNode
  <2>4. Expr(Node).args[Head(todo).i] \in Needs(todo[1])
    BY <1>1, <1>4, <2>3 DEF Needs, Node
  <2> QED BY <1>2, <2>1, <2>4
<1>5. ASSUME Head(todo).k = "stmt" PROVE DoneT(Stmt.value, f, s)
  <2>1. Stmt.value \in Needs(todo[1])
    BY <1>1, <1>5 DEF Needs
  <2> QED BY <1>2, <2>1
<1> QED BY <1>3, <1>4, <1>5

LEMMA DoneTyped ==
  ASSUME Inv, NEW n \in Nodes, NEW g, NEW i, DoneT(n, g, i)
  PROVE  TypeAt(g, i, n) = exprType[n] /\ exprType[n] \in Types
  BY InvParts DEF AnnotationsOK, Nodes, DoneT

LEMMA TypeIntRight ==
  ASSUME Filled, TypesInv, TypeInt, Grows
  PROVE  LetRight' /\ NodeRight' /\ RootRight' /\ TypesWalk' /\ FirstDone'
<1>1. phase = "types" /\ todo # << >> /\ Head(todo).k = "enter"
  BY DEF TypeInt, At, In
<1>2. Node \in Nodes /\ Node # 0 /\ Inv /\ prog \in Programs /\ f \in Fns /\ s \in StmtsIn(f)
  BY <1>1, AtType, AtTask
<1>3. Expr(Node).t = "int" /\ SetType(Expr(Node).type) /\ Continue(<< >>)
  BY <1>2 DEF TypeInt, At, Node
<1>4. Expr(Node).type = TypeAt(f, s, Node)
  BY <1>2, <1>3, IntAt
<1>5. Expr(Node).type # NoType
  <2>1. Expr(Node).type \in {Type(t) : t \in IntTypes}
    BY <1>2, <1>3, BelowNode DEF ParsedExpr
  <2> QED BY <2>1 DEF NoType, Type, IntTypes
<1> QED BY <1>1, <1>3, <1>4, <1>5, SetTypeRight

LEMMA TypeBinopRight ==
  ASSUME Filled, TypesInv, TypeBinop, Grows
  PROVE  /\ LetRight' /\ NodeRight' /\ RootRight' /\ TypesWalk' /\ FirstDone'
         /\ outcome' # "running" => outcome' \in B!TypeDefects
<1>1. phase = "types" /\ todo # << >> /\ Head(todo).k = "leave" /\ outcome = "running"
  BY DEF TypeBinop, At, In
<1>2. /\ Node \in Nodes /\ Node # 0 /\ Inv /\ prog \in Programs /\ f \in Fns /\ s \in StmtsIn(f)
      /\ Node \in B!Nodes(StmtAt(f, s).value)
  BY <1>1, AtType, AtTask
<1>3. Expr(Node).t = "binop" /\ Len(Expr(Node).args) = 2
      /\ Expr(Node).args[1] \in Nodes /\ Expr(Node).args[2] \in Nodes
  <2>1. Expr(Node).t = "binop"
    BY <1>2 DEF TypeBinop, At, Node
  <2> QED BY <1>2, <2>1, BelowNode
<1>4. PICK op, left, right : /\ op = Expr(Node).op /\ left = exprType[Expr(Node).args[1]]
                             /\ right = exprType[Expr(Node).args[2]]
  OBVIOUS
<1>5. /\ left = TypeAt(f, s, Expr(Node).args[1]) /\ right = TypeAt(f, s, Expr(Node).args[2])
      /\ left \in Types /\ right \in Types
  <2>1. DoneT(Expr(Node).args[1], f, s) /\ DoneT(Expr(Node).args[2], f, s)
    BY <1>1, <1>3, NeededDone
  <2> QED BY <1>2, <1>3, <1>4, <2>1, DoneTyped
<1>6. B!ExprDefects(B!TypeIn(f), f, s, Node) = B!Mismatch(left, right, "incorrect_type_binop")
  BY <1>2, <1>3, <1>5, BinopDefects
<1>7. \/ coerce_reads_null(left, right) /\ Stop("segv")
      \/ ~coerce_reads_null(left, right) /\ coerce_type(op, left, right) = NoType
         /\ Stop("incorrect_type_binop")
      \/ /\ ~coerce_reads_null(left, right) /\ coerce_type(op, left, right) # NoType
         /\ SetType(coerce_type(op, left, right)) /\ Continue(<< >>)
  BY <1>4 DEF TypeBinop
<1>8. CASE coerce_reads_null(left, right) /\ Stop("segv")
  <2>1. "segv" \in B!ExprDefects(B!TypeIn(f), f, s, Node)
    BY <1>5, <1>6, <1>8, MismatchOf DEF coerce_reads_null
  <2>2. "segv" \in B!TypeDefects
    BY <1>2, <2>1, ExprDefect
  <2> QED BY <1>8, <2>2, StopRight DEF Stop
<1>9. CASE ~coerce_reads_null(left, right) /\ coerce_type(op, left, right) = NoType
           /\ Stop("incorrect_type_binop")
  <2>1. left # NoType /\ right # NoType /\ left.t # right.t
    BY <1>5, <1>9, CoerceIs
  <2>2. "incorrect_type_binop" \in B!ExprDefects(B!TypeIn(f), f, s, Node)
    BY <1>5, <1>6, <2>1, MismatchOf
  <2>3. "incorrect_type_binop" \in B!TypeDefects
    BY <1>2, <2>2, ExprDefect
  <2> QED BY <1>9, <2>3, StopRight DEF Stop
<1>10. CASE /\ ~coerce_reads_null(left, right) /\ coerce_type(op, left, right) # NoType
            /\ SetType(coerce_type(op, left, right)) /\ Continue(<< >>)
  <2>1. PICK type : type = coerce_type(op, left, right)
    OBVIOUS
  <2>2. left # NoType /\ left.t = right.t /\ type = IF op \in Comparisons THEN Type("bool") ELSE left
    BY <1>5, <1>10, <2>1, CoerceIs
  <2>3. type = TypeAt(f, s, Node)
    BY <1>2, <1>3, <1>4, <1>5, <2>2, BinopAt
  <2>4. type # NoType /\ SetType(type) /\ Continue(<< >>)
    BY <1>10, <2>1
  <2>5. outcome' = "running"
    BY <1>1, <2>4 DEF Continue
  <2> QED BY <1>1, <2>3, <2>4, <2>5, SetTypeRight
<1> QED BY <1>7, <1>8, <1>9, <1>10

(* A step that only enters and leaves nodes.                               *)
LEMMA EnterRight ==
  ASSUME Filled, TypesInv, phase = "types", todo # << >>, Head(todo).k = "enter", Grows,
         NEW list \in Seq(Tasks), Continue(list \o <<Leave(Node)>>),
         UNCHANGED <<prog, scopes, entries, annotations>>,
         \A j \in 1 .. Len(list) :
           /\ list[j].k \in {"enter", "arg"} /\ list[j].n \in B!Nodes(Stmt.value)
           /\ list[j].k = "arg" => ArgTask(list[j])
           /\ list[j].k = "arg" => \E l \in 1 .. j - 1 : list[l] = Enter(Expr(list[j].n).args[list[j].i]),
         \A k \in 1 .. Len(Expr(Node).args) : \E l \in 1 .. Len(list) : list[l] = Enter(Expr(Node).args[k])
  PROVE  LetRight' /\ NodeRight' /\ RootRight' /\ TypesWalk' /\ FirstDone'
<1>1. Inv /\ Node \in B!Nodes(Stmt.value) /\ Node \in Nodes
  BY AtType
<1>2. PICK v : v = Node
  OBVIOUS
<1>3. /\ Leave(v) \in Tasks /\ Leave(v).k = "leave" /\ Leave(v).n = v
      /\ \A n : Enter(n).k = "enter" /\ Enter(n).n = n
  BY <1>1, <1>2 DEF Leave, Enter, Task, Tasks, Nodes
<1>4. PICK tasks : tasks = list \o <<Leave(v)>>
  OBVIOUS
<1>5. /\ tasks \in Seq(Tasks) /\ Len(list) \in Nat /\ Len(tasks) = Len(list) + 1
      /\ \A i \in 1 .. Len(list) : tasks[i] = list[i]
      /\ tasks[Len(list) + 1] = Leave(v)
      /\ \A j \in 1 .. Len(tasks) : j \in 1 .. Len(list) \/ j = Len(list) + 1
  BY <1>3, <1>4, ThenOne
<1>6. Continue(tasks) /\ UNCHANGED <<phase, f, s, exprVar, exprType>>
  BY <1>2, <1>4 DEF Continue, annotations
<1>7. \E l \in 1 .. Len(tasks) : tasks[l].n = v /\ tasks[l].k \in {"enter", "leave"}
  <2>1. Len(list) + 1 \in 1 .. Len(tasks)
    BY <1>5
  <2> QED BY <1>3, <1>5, <2>1
<1>8. ASSUME NEW j \in 1 .. Len(tasks)
      PROVE  /\ tasks[j].k # "stmt" /\ tasks[j].n \in B!Nodes(Stmt.value)
             /\ tasks[j].k = "arg" => ArgTask(tasks[j])
  BY <1>1, <1>2, <1>3, <1>5
<1>9. ASSUME NEW j \in 1 .. Len(tasks), NEW n \in Needs(tasks[j])
      PROVE  \E l \in 1 .. j - 1 : tasks[l].n = n /\ tasks[l].k \in {"enter", "leave"}
  <2>1. CASE j \in 1 .. Len(list)
    <3>1. tasks[j] = list[j] /\ list[j].k \in {"enter", "arg"}
      BY <1>5, <2>1
    <3>2. list[j].k = "arg" /\ n = Expr(list[j].n).args[list[j].i]
      BY <1>9, <3>1 DEF Needs
    <3>3. PICK l \in 1 .. j - 1 : list[l] = Enter(n)
      BY <2>1, <3>2
    <3>4. tasks[l] = Enter(n)
      BY <1>5, <2>1, <3>3
    <3> QED BY <1>3, <3>4
  <2>2. CASE j = Len(list) + 1
    <3>1. tasks[j] = Leave(v)
      BY <1>5, <2>2
    <3>2. PICK k \in 1 .. Len(Expr(v).args) : n = Expr(v).args[k]
      BY <1>3, <1>9, <3>1 DEF Needs
    <3>3. PICK l \in 1 .. Len(list) : list[l] = Enter(n)
      BY <1>2, <3>2
    <3>4. l \in 1 .. j - 1 /\ tasks[l] = Enter(n)
      BY <1>5, <2>2, <3>3
    <3> QED BY <1>3, <3>4
  <2> QED BY <1>5, <2>1, <2>2
<1>10. TypesWalk' /\ FirstDone'
  BY <1>2, <1>5, <1>6, <1>7, <1>8, <1>9, TypesGoOn
<1> QED BY <1>6, <1>10, WalkRight

LEMMA EnterBinopRight ==
  ASSUME Filled, TypesInv, EnterBinop, Grows
  PROVE  LetRight' /\ NodeRight' /\ RootRight' /\ TypesWalk' /\ FirstDone'
<1>1. phase = "types" /\ todo # << >> /\ Head(todo).k = "enter"
      /\ Continue(EnterAll(Expr(Node).args) \o <<Leave(Node)>>)
      /\ UNCHANGED <<prog, scopes, entries, annotations>>
  BY DEF EnterBinop, At, In
<1>2. Node \in Nodes /\ Inv
      /\ \A k \in 1 .. Len(Expr(Node).args) : Expr(Node).args[k] \in B!Nodes(Stmt.value)
  BY <1>1, AtType
<1>3. PICK list : list = EnterAll(Expr(Node).args)
  OBVIOUS
<1>4. /\ list \in Seq(Tasks) /\ Len(list) = Len(Expr(Node).args)
      /\ \A k \in 1 .. Len(Expr(Node).args) : list[k] = Enter(Expr(Node).args[k])
  BY <1>2, <1>3, ArgsEntered
<1>5. \A n : Enter(n).k = "enter" /\ Enter(n).n = n
  BY DEF Enter, Task
<1> QED BY <1>1, <1>2, <1>3, <1>4, <1>5, EnterRight

LEMMA Pairs ==
  ASSUME NEW m \in Nat
  PROVE  /\ \A i \in 1 .. 2 * m : i % 2 = 1 => (i + 1) \div 2 \in 1 .. m
         /\ \A i \in 1 .. 2 * m : i % 2 # 1 =>
              /\ i \div 2 \in 1 .. m /\ i - 1 \in 1 .. 2 * m /\ (i - 1) % 2 = 1 /\ ((i - 1) + 1) \div 2 = i \div 2
         /\ \A k \in 1 .. m : 2 * k - 1 \in 1 .. 2 * m /\ (2 * k - 1) % 2 = 1
                              /\ ((2 * k - 1) + 1) \div 2 = k
<1>1. ASSUME NEW i \in 1 .. 2 * m, i % 2 = 1 PROVE (i + 1) \div 2 \in 1 .. m
  BY <1>1
<1>2. ASSUME NEW i \in 1 .. 2 * m, i % 2 # 1
      PROVE /\ i \div 2 \in 1 .. m /\ i - 1 \in 1 .. 2 * m /\ (i - 1) % 2 = 1 /\ ((i - 1) + 1) \div 2 = i \div 2
  <2>1. i % 2 = 0 /\ i = 2 * (i \div 2)
    BY <1>2
  <2>2. i \div 2 \in 1 .. m /\ i - 1 \in 1 .. 2 * m
    BY <2>1
  <2>3. (i - 1) % 2 = 1
    BY <2>1
  <2> QED BY <2>2, <2>3
<1>3. ASSUME NEW k \in 1 .. m
      PROVE  2 * k - 1 \in 1 .. 2 * m /\ (2 * k - 1) % 2 = 1 /\ ((2 * k - 1) + 1) \div 2 = k
  OBVIOUS
<1> QED BY <1>1, <1>2, <1>3

LEMMA CallListIs ==
  ASSUME Inv, NEW n \in Nodes
  PROVE  /\ CallList(n) \in Seq(Tasks) /\ Len(CallList(n)) \in Nat
         /\ \A j \in 1 .. Len(CallList(n)) :
              \/ \E k \in 1 .. Len(Expr(n).args) : CallList(n)[j] = Enter(Expr(n).args[k])
              \/ \E k \in 1 .. Len(Expr(n).args) :
                   /\ CallList(n)[j] = AfterArg(n, k)
                   /\ \E l \in 1 .. j - 1 : CallList(n)[l] = Enter(Expr(n).args[k])
         /\ \A k \in 1 .. Len(Expr(n).args) :
              \E l \in 1 .. Len(CallList(n)) : CallList(n)[l] = Enter(Expr(n).args[k])
<1>1. PICK m, args : m = Len(args) /\ args = Expr(n).args
  OBVIOUS
<1>2. PICK list : list = CallList(n)
  OBVIOUS
<1>3. m \in Nat /\ list \in Seq(Tasks) /\ Len(list) = 2 * m
  BY <1>1, <1>2, BelowNode, CallListOK
<1>4. \A i \in 1 .. 2 * m : list[i] = IF i % 2 = 1 THEN Enter(args[(i + 1) \div 2]) ELSE AfterArg(n, i \div 2)
  BY <1>1, <1>2 DEF CallList
<1>5. ASSUME NEW j \in 1 .. 2 * m
      PROVE  \/ \E k \in 1 .. m : list[j] = Enter(args[k])
             \/ \E k \in 1 .. m : /\ list[j] = AfterArg(n, k)
                                  /\ \E l \in 1 .. j - 1 : list[l] = Enter(args[k])
  <2>1. CASE j % 2 = 1
    <3>1. (j + 1) \div 2 \in 1 .. m /\ list[j] = Enter(args[(j + 1) \div 2])
      BY <1>3, <1>4, <2>1, Pairs
    <3> QED BY <3>1
  <2>2. CASE j % 2 # 1
    <3>1. PICK k : k = j \div 2
      OBVIOUS
    <3>2. k \in 1 .. m /\ j - 1 \in 1 .. 2 * m /\ (j - 1) % 2 = 1 /\ ((j - 1) + 1) \div 2 = k
      BY <1>3, <2>2, <3>1, Pairs
    <3>3. list[j] = AfterArg(n, k)
      BY <1>4, <2>2, <3>1
    <3>4. list[j - 1] = Enter(args[k])
      <4>1. list[j - 1] = Enter(args[((j - 1) + 1) \div 2])
        BY <1>4, <3>2
      <4> QED BY <3>2, <4>1
    <3>5. j - 1 \in 1 .. j - 1
      BY <1>3, <3>2
    <3> QED BY <3>2, <3>3, <3>4, <3>5
  <2> QED BY <2>1, <2>2
<1>6. ASSUME NEW k \in 1 .. m PROVE \E l \in 1 .. 2 * m : list[l] = Enter(args[k])
  <2>1. PICK l : l = 2 * k - 1
    OBVIOUS
  <2>2. l \in 1 .. 2 * m /\ l % 2 = 1 /\ (l + 1) \div 2 = k
    BY <1>3, <2>1, Pairs
  <2> QED BY <1>4, <2>2
<1>7. Len(list) \in Nat
  BY <1>3
<1>8. /\ \A j \in 1 .. Len(list) :
           \/ \E k \in 1 .. Len(args) : list[j] = Enter(args[k])
           \/ \E k \in 1 .. Len(args) : /\ list[j] = AfterArg(n, k)
                                        /\ \E l \in 1 .. j - 1 : list[l] = Enter(args[k])
      /\ \A k \in 1 .. Len(args) : \E l \in 1 .. Len(list) : list[l] = Enter(args[k])
  <2>1. 1 .. Len(list) = 1 .. 2 * m /\ 1 .. Len(args) = 1 .. m
    BY <1>1, <1>3
  <2> QED BY <1>5, <1>6, <2>1, Zenon
<1> QED BY <1>1, <1>2, <1>3, <1>7, <1>8, Zenon

LEMMA EnterCallRight ==
  ASSUME Filled, TypesInv, phase = "types", todo # << >>, Head(todo).k = "enter", Grows,
         Expr(Node).t = "funcall", exprVar[Node] # NULL, CallType(Node) \in FnTypes,
         Len(CallType(Node).args) = Len(Expr(Node).args),
         Continue(CallList(Node) \o <<Leave(Node)>>), UNCHANGED <<prog, scopes, entries, annotations>>
  PROVE  LetRight' /\ NodeRight' /\ RootRight' /\ TypesWalk' /\ FirstDone'
<1>1. Node \in Nodes /\ Inv /\ Node \in B!Nodes(Stmt.value)
      /\ \A k \in 1 .. Len(Expr(Node).args) : Expr(Node).args[k] \in B!Nodes(Stmt.value)
  BY AtType
<1>2. PICK list : list = CallList(Node)
  OBVIOUS
<1>3. /\ list \in Seq(Tasks) /\ Len(list) \in Nat
      /\ \A j \in 1 .. Len(list) :
           \/ \E k \in 1 .. Len(Expr(Node).args) : list[j] = Enter(Expr(Node).args[k])
           \/ \E k \in 1 .. Len(Expr(Node).args) :
                /\ list[j] = AfterArg(Node, k)
                /\ \E l \in 1 .. j - 1 : list[l] = Enter(Expr(Node).args[k])
      /\ \A k \in 1 .. Len(Expr(Node).args) :
           \E l \in 1 .. Len(list) : list[l] = Enter(Expr(Node).args[k])
  BY <1>1, <1>2, CallListIs
<1>4. \A n, i : /\ Enter(n).k = "enter" /\ Enter(n).n = n
                /\ AfterArg(n, i).k = "arg" /\ AfterArg(n, i).n = n /\ AfterArg(n, i).i = i
  BY DEF Enter, AfterArg, Task
<1>5. ASSUME NEW j \in 1 .. Len(list)
      PROVE  /\ list[j].k \in {"enter", "arg"} /\ list[j].n \in B!Nodes(Stmt.value)
             /\ list[j].k = "arg" => ArgTask(list[j])
             /\ list[j].k = "arg" => \E l \in 1 .. j - 1 : list[l] = Enter(Expr(list[j].n).args[list[j].i])
  <2>1. CASE \E k \in 1 .. Len(Expr(Node).args) : list[j] = Enter(Expr(Node).args[k])
    BY <1>1, <1>4, <2>1
  <2>2. CASE \E k \in 1 .. Len(Expr(Node).args) :
                /\ list[j] = AfterArg(Node, k)
                /\ \E l \in 1 .. j - 1 : list[l] = Enter(Expr(Node).args[k])
    <3>1. PICK k \in 1 .. Len(Expr(Node).args) :
                /\ list[j] = AfterArg(Node, k)
                /\ \E l \in 1 .. j - 1 : list[l] = Enter(Expr(Node).args[k])
      BY <2>2
    <3>2. list[j].k = "arg" /\ list[j].n = Node /\ list[j].i = k
      BY <1>4, <3>1
    <3>3. ArgTask(list[j])
      BY <3>2 DEF ArgTask
    <3> QED BY <1>1, <3>1, <3>2, <3>3
  <2> QED BY <1>3, <2>1, <2>2
<1> QED BY <1>2, <1>3, <1>5, EnterRight

LEMMA ListOver ==
  ASSUME NEW n \in Nat, NEW list, DOMAIN list = 1 .. n, list = [k \in 1 .. n |-> list[k]]
  PROVE  Len(list) = n
<1>1. list \in [1 .. n -> {list[k] : k \in 1 .. n}]
  OBVIOUS
<1> QED BY <1>1, FcnIsSeq

(* A name is bound when it is reached; only a call of something without a  *)
(* type fails there.                                                       *)
LEMMA TypeVarRight ==
  ASSUME Filled, NamesInv, TypesInv, TypeName, Expr(Node).t = "var", Grows
  PROVE  /\ LetRight' /\ NodeRight' /\ RootRight' /\ TypesWalk' /\ FirstDone'
         /\ outcome' = "running"
<1>1. phase = "types" /\ todo # << >> /\ Head(todo).k = "enter" /\ outcome = "running"
  BY DEF TypeName, At, In
<1>2. /\ Node \in Nodes /\ prog \in Programs /\ f \in Fns /\ s \in StmtsIn(f)
      /\ Node \in B!Nodes(Stmt.value)
  BY <1>1, AtType
<1>3. NamedNode(Node)
  BY DEF NamedNode
<1>4. exprVar[Node] # NULL /\ entries[exprVar[Node]].type = NamedAt(f, s, Node)
  BY <1>1, <1>2, <1>3, NodeNamed
<1>5. ~name_reads_null
  BY <1>4 DEF name_reads_null
<1>6. SetType(entries[exprVar[Node]].type) /\ Continue(<< >>)
  BY <1>5 DEF TypeName
<1>7. PICK type : type = entries[exprVar[Node]].type
  OBVIOUS
<1>8. type = TypeAt(f, s, Node)
  BY <1>2, <1>4, <1>7, VarAt
<1>9. SetType(type)
  BY <1>6, <1>7
<1>10. outcome' = "running"
  BY <1>1, <1>6 DEF Continue
<1> QED BY <1>1, <1>6, <1>8, <1>9, <1>10, SetTypeRight

LEMMA TypeCallNameRight ==
  ASSUME Filled, NamesInv, TypesInv, TypeName, Expr(Node).t = "funcall", Grows
  PROVE  /\ LetRight' /\ NodeRight' /\ RootRight' /\ TypesWalk' /\ FirstDone'
         /\ outcome' # "running" => outcome' \in B!TypeDefects
<1>1. phase = "types" /\ todo # << >> /\ Head(todo).k = "enter" /\ outcome = "running"
  BY DEF TypeName, At, In
<1>2. /\ Node \in Nodes /\ prog \in Programs /\ f \in Fns /\ s \in StmtsIn(f) /\ Inv
      /\ Node \in B!Nodes(Stmt.value) /\ Stmt = StmtAt(f, s)
  BY <1>1, AtType
<1>3. NamedNode(Node)
  BY DEF NamedNode
<1>4. exprVar[Node] # NULL /\ CallType(Node) = NamedAt(f, s, Node)
  BY <1>1, <1>2, <1>3, NodeNamed DEF CallType
<1>5. PICK callee, args : /\ callee = CallType(Node)
                          /\ args = [k \in 1 .. Len(Expr(Node).args) |-> TypeAt(f, s, Expr(Node).args[k])]
  OBVIOUS
<1>6. Len(Expr(Node).args) \in Nat /\ callee \in Types
  <2>1. exprVar[Node] \in 0 .. Len(entries) /\ Len(entries) \in Nat /\ TableOK
    BY <1>2, InvParts, LenProperties DEF AnnotationsOK, TableOK, Nodes
  <2>2. exprVar[Node] \in 1 .. Len(entries)
    BY <1>4, <2>1 DEF NULL
  <2> QED BY <1>2, <1>5, <2>1, <2>2, BelowNode, EntryParts DEF CallType
<1>7. DOMAIN args = 1 .. Len(Expr(Node).args) /\ Len(args) = Len(Expr(Node).args)
  <2>1. args = [k \in 1 .. Len(Expr(Node).args) |-> args[k]] /\ DOMAIN args = 1 .. Len(Expr(Node).args)
    BY <1>5
  <2> QED BY <1>6, <2>1, ListOver
<1>8. B!ExprDefects(B!TypeIn(f), f, s, Node) = B!CallDefects(callee, args)
  BY <1>2, <1>4, <1>5, CallDefectsOf
<1>9. \A d \in B!CallDefects(callee, args) : d \in B!TypeDefects
  BY <1>2, <1>8, ExprDefect
<1>10. \/ name_reads_null /\ Stop("segv")
       \/ callee.t # "fn" /\ callee # NoType /\ Stop("incorrect_type_funcall")
       \/ /\ callee.t = "fn" /\ Len(callee.args) # Len(Expr(Node).args)
          /\ Stop("wrong_param_count")
       \/ /\ callee.t = "fn" /\ Len(callee.args) = Len(Expr(Node).args)
          /\ Continue(CallList(Node) \o <<Leave(Node)>>)
          /\ UNCHANGED <<prog, scopes, entries, annotations>>
  BY <1>4, <1>5, Zenon DEF TypeName, CallType, CallList, name_reads_null
<1>11. CASE name_reads_null /\ Stop("segv")
  <2>1. callee = NoType
    BY <1>4, <1>5, <1>11 DEF name_reads_null, CallType
  <2>2. "segv" \in B!TypeDefects
    BY <1>6, <1>7, <1>9, <2>1, CallDefectsAre
  <2> QED BY <1>11, <2>2, StopRight DEF Stop
<1>12. CASE callee.t # "fn" /\ callee # NoType /\ Stop("incorrect_type_funcall")
  <2>1. "incorrect_type_funcall" \in B!TypeDefects
    BY <1>6, <1>7, <1>9, <1>12, CallDefectsAre
  <2> QED BY <1>12, <2>1, StopRight DEF Stop
<1>13. CASE callee.t = "fn" /\ Len(callee.args) # Len(Expr(Node).args) /\ Stop("wrong_param_count")
  <2>1. "wrong_param_count" \in B!TypeDefects
    BY <1>6, <1>7, <1>9, <1>13, CallDefectsAre
  <2> QED BY <1>13, <2>1, StopRight DEF Stop
<1>14. CASE /\ callee.t = "fn" /\ Len(callee.args) = Len(Expr(Node).args)
            /\ Continue(CallList(Node) \o <<Leave(Node)>>)
            /\ UNCHANGED <<prog, scopes, entries, annotations>>
  <2>1. CallType(Node) \in FnTypes
    BY <1>5, <1>6, <1>14, TypeKinds
  <2>2. outcome' = "running"
    BY <1>1, <1>14 DEF Continue
  <2> QED BY <1>1, <1>4, <1>5, <1>14, <2>1, <2>2, EnterCallRight
<1> QED BY <1>10, <1>11, <1>12, <1>13, <1>14

LEMMA TypeNameRight ==
  ASSUME Filled, NamesInv, TypesInv, TypeName, Grows
  PROVE  /\ LetRight' /\ NodeRight' /\ RootRight' /\ TypesWalk' /\ FirstDone'
         /\ outcome' # "running" => outcome' \in B!TypeDefects
<1>1. phase = "types" /\ todo # << >> /\ Head(todo).k = "enter"
  BY DEF TypeName, At, In
<1>2. Node # 0
  <2>1. Node \in Nodes
    BY <1>1, AtType
  <2> QED BY <2>1 DEF Nodes
<1>3. Expr(Node).t \in {"var", "funcall"}
  BY <1>2 DEF TypeName, At, Node
<1> QED BY <1>3, TypeVarRight, TypeCallNameRight

(* The argument that was just typed is compared with its parameter.        *)
LEMMA CheckArgRight ==
  ASSUME Filled, NamesInv, TypesInv, CheckArg, Grows
  PROVE  /\ LetRight' /\ NodeRight' /\ RootRight' /\ TypesWalk' /\ FirstDone'
         /\ outcome' # "running" => outcome' \in B!TypeDefects
<1>1. phase = "types" /\ todo # << >> /\ Head(todo).k = "arg" /\ outcome = "running"
  BY DEF CheckArg, At, In
<1>2. /\ Node \in Nodes /\ prog \in Programs /\ f \in Fns /\ s \in StmtsIn(f) /\ Inv
      /\ Node \in B!Nodes(Stmt.value) /\ Stmt = StmtAt(f, s)
  BY <1>1, AtType
<1>3. PICK i, callee : i = Head(todo).i /\ callee = CallType(Node)
  OBVIOUS
<1>4. /\ Expr(Node).t = "funcall" /\ exprVar[Node] # NULL /\ callee \in FnTypes
      /\ Len(callee.args) = Len(Expr(Node).args) /\ i \in 1 .. Len(Expr(Node).args)
      /\ DoneT(Expr(Node).args[i], f, s)
  BY <1>1, <1>3, NeededDone DEF ArgTask, Node
<1>5. callee = NamedAt(f, s, Node)
  <2>1. NamedNode(Node)
    BY <1>4 DEF NamedNode
  <2> QED BY <1>1, <1>2, <1>3, <2>1, NodeNamed DEF CallType
<1>6. PICK args : args = [k \in 1 .. Len(Expr(Node).args) |-> TypeAt(f, s, Expr(Node).args[k])]
  OBVIOUS
<1>7. PICK expected, given : expected = callee.args[i] /\ given = exprType[Expr(Node).args[i]]
  OBVIOUS
<1>8. /\ Len(Expr(Node).args) \in Nat /\ callee \in Types /\ callee.t = "fn"
      /\ expected \in Types /\ given \in Types /\ args[i] = given
  <2>1. callee.args \in Seq(Builtins) /\ callee.t = "fn" /\ callee \in Types
    BY <1>4, TypeKinds
  <2>2. expected \in Types
    BY <1>4, <1>7, <2>1, ElementOfSeq, TypeKinds
  <2>3. Expr(Node).args[i] \in Nodes /\ Len(Expr(Node).args) \in Nat
    BY <1>2, <1>4, BelowNode
  <2> QED BY <1>2, <1>4, <1>6, <1>7, <2>1, <2>2, <2>3, DoneTyped
<1>9. DOMAIN args = 1 .. Len(Expr(Node).args) /\ Len(args) = Len(Expr(Node).args)
  <2>1. args = [k \in 1 .. Len(Expr(Node).args) |-> args[k]] /\ DOMAIN args = 1 .. Len(Expr(Node).args)
    BY <1>6
  <2> QED BY <1>8, <2>1, ListOver
<1>10. \A d \in B!Mismatch(expected, given, "incorrect_type_param") : d \in B!TypeDefects
  <2>1. B!ExprDefects(B!TypeIn(f), f, s, Node) = B!CallDefects(callee, args)
    BY <1>2, <1>4, <1>5, <1>6, CallDefectsOf
  <2>2. ASSUME NEW d \in B!Mismatch(expected, given, "incorrect_type_param")
        PROVE  d \in B!CallDefects(callee, args)
    <3>1. d \in B!Mismatch(callee.args[i], args[i], "incorrect_type_param")
      BY <1>7, <1>8
    <3>2. \E k \in 1 .. Len(Expr(Node).args) :
            d \in B!Mismatch(callee.args[k], args[k], "incorrect_type_param")
      BY <1>4, <3>1
    <3> QED BY <1>4, <1>8, <1>9, <3>2, CallDefectsAre
  <2> QED BY <1>2, <2>1, <2>2, ExprDefect
<1>11. \/ coerce_reads_null(expected, given) /\ Stop("segv")
       \/ /\ ~coerce_reads_null(expected, given) /\ coerce_type("=", expected, given) = NoType
          /\ Stop("incorrect_type_param")
       \/ Continue(<< >>) /\ UNCHANGED <<prog, scopes, entries, annotations>>
  BY <1>3, <1>7, Zenon DEF CheckArg, CallType
<1>12. CASE coerce_reads_null(expected, given) /\ Stop("segv")
  <2>1. "segv" \in B!TypeDefects
    BY <1>8, <1>10, <1>12, MismatchOf DEF coerce_reads_null
  <2> QED BY <1>12, <2>1, StopRight DEF Stop
<1>13. CASE /\ ~coerce_reads_null(expected, given) /\ coerce_type("=", expected, given) = NoType
            /\ Stop("incorrect_type_param")
  <2>1. expected # NoType /\ given # NoType /\ expected.t # given.t
    BY <1>8, <1>13, CoerceIs
  <2>2. "incorrect_type_param" \in B!TypeDefects
    BY <1>8, <1>10, <2>1, MismatchOf
  <2> QED BY <1>13, <2>2, StopRight DEF Stop
<1>14. CASE Continue(<< >>) /\ UNCHANGED <<prog, scopes, entries, annotations>>
  <2>1. outcome' = "running" /\ UNCHANGED <<phase, f, s>>
    BY <1>1, <1>14 DEF Continue
  <2>2. LetRight' /\ NodeRight' /\ RootRight'
    BY <1>1, <1>14, <2>1, WalkRight
  <2>3. << >> \in Seq(Tasks) /\ Len(<< >>) = 0
    BY EmptySeq
  <2>4. \A n \in Nodes : exprType'[n] = exprType[n]
    BY <1>14 DEF annotations
  <2>5. UNCHANGED <<prog, exprVar>>
    BY <1>14 DEF annotations
  <2>6. PICK v : v = Node
    OBVIOUS
  <2>7. PICK tasks : tasks = << >>
    OBVIOUS
  <2>8. tasks \in Seq(Tasks) /\ Continue(tasks) /\ \A j \in 1 .. Len(tasks) : FALSE
    BY <1>14, <2>3, <2>7
  <2>9. Head(todo).k \notin {"enter", "leave"}
    BY <1>1
  <2>10. TypesWalk' /\ FirstDone'
    BY <1>1, <2>4, <2>5, <2>6, <2>8, <2>9, TypesGoOn
  <2> QED BY <2>1, <2>2, <2>10
<1> QED BY <1>11, <1>12, <1>13, <1>14

(* A call has the type its callee returns.                                 *)
LEMMA TypeCallRight ==
  ASSUME Filled, NamesInv, TypesInv, TypeCall, Grows
  PROVE  LetRight' /\ NodeRight' /\ RootRight' /\ TypesWalk' /\ FirstDone'
<1>1. phase = "types" /\ todo # << >> /\ Head(todo).k = "leave"
  BY DEF TypeCall, At, In
<1>2. /\ Node \in Nodes /\ Node # 0 /\ prog \in Programs /\ f \in Fns /\ s \in StmtsIn(f) /\ Inv
      /\ Node \in B!Nodes(Stmt.value)
  BY <1>1, AtType, AtTask
<1>3. Expr(Node).t = "funcall" /\ Continue(<< >>) /\ SetType(CallType(Node).ret)
  BY <1>2 DEF TypeCall, At, Node, CallType
<1>4. NamedNode(Node)
  BY <1>3 DEF NamedNode
<1>5. exprVar[Node] # NULL /\ CallType(Node) = NamedAt(f, s, Node)
  BY <1>1, <1>2, <1>4, NodeNamed DEF CallType
<1>6. CallType(Node) \in FnTypes
  <2>1. WalkOK /\ 1 \in 1 .. Len(todo) /\ Head(todo) = todo[1]
    BY <1>1, <1>2, InvParts, AtType
  <2> QED BY <1>1, <1>3, <2>1 DEF WalkOK, CallType, Node
<1>7. PICK type : type = CallType(Node).ret
  OBVIOUS
<1>8. CallType(Node).t = "fn" /\ type \in Builtins
  BY <1>6, <1>7, TypeKinds
<1>9. type = TypeAt(f, s, Node)
  BY <1>2, <1>3, <1>5, <1>7, <1>8, CallAt
<1>10. type # NoType
  BY <1>8, NotNull
<1>11. SetType(type)
  BY <1>3, <1>7
<1> QED BY <1>1, <1>3, <1>9, <1>10, <1>11, SetTypeRight

(* Statement by statement.                                                 *)
LEMMA RestRight == ASSUME todo' = << >> PROVE TypesWalk' /\ FirstDone'
  BY EmptySeq DEF TypesWalk, FirstDone

LEMMA NextStmtRight ==
  ASSUME Filled, TypesInv, phase = "types", f \in Fns, s \in StmtsIn(f), NextStmt, todo' = << >>,
         UNCHANGED <<prog, stmtType, exprType>>,
         StmtAt(f, s).t = "let" => StmtAt(f, s).type # NoType,
         StmtAt(f, s).value # NULL => DoneT(StmtAt(f, s).value, f, s)
  PROVE  LetRight' /\ NodeRight' /\ RootRight' /\ TypesWalk' /\ FirstDone'
<1>1. s' = s + 1 /\ f' = f /\ phase' = phase
  BY DEF NextStmt
<1>2. s \in Nat /\ f \in Nat
  BY TypeInvOf, ControlTypes DEF Fns
<1>3. \A g \in Fns : \A i \in StmtsIn(g) : LetDone(g, i) => LetDone(g, i)'
  <2>1. ASSUME NEW g \in Fns, NEW i \in StmtsIn(g), LetDone(g, i) PROVE LetDone(g, i)'
    <3>1. i \in Nat
      BY DEF StmtsIn
    <3> QED BY <1>1, <1>2, <2>1, <3>1 DEF LetDone
  <2> QED BY <2>1
<1>4. ASSUME NEW g \in Fns, NEW i \in StmtsIn(g), LetDone(g, i)' PROVE LetDone(g, i) \/ (g = f /\ i = s)
  <2>1. i \in Nat
    BY DEF StmtsIn
  <2>2. g < f' \/ (g = f' /\ i < s')
    BY <1>1, <1>4 DEF LetDone
  <2> QED BY <1>1, <1>2, <2>1, <2>2 DEF LetDone
<1>5. \A g \in Fns : \A i \in StmtsIn(g) : LetDone(g, i)' =>
           \/ LetDone(g, i)
           \/ /\ StmtAt(g, i).t = "let" => StmtAt(g, i).type # NoType
              /\ StmtAt(g, i).value # NULL => DoneT(StmtAt(g, i).value, g, i)
  BY <1>4
<1>6. LetRight' /\ NodeRight' /\ RootRight'
  BY <1>3, <1>5, RightSame DEF TypesInv
<1> QED BY <1>6, RestRight

LEMMA TypesEnterFnRight ==
  ASSUME Filled, TypesInv, Types_EnterFn
  PROVE  LetRight' /\ NodeRight' /\ RootRight' /\ TypesWalk' /\ FirstDone'
<1>1. UNCHANGED <<prog, phase, f, s, todo, entries, annotations>> /\ phase = "types"
  BY DEF Types_EnterFn, InFn, In
<1>2. LetRight' /\ NodeRight' /\ RootRight'
  BY <1>1, WalkRight
<1>3. TypesWalk' /\ FirstDone'
  BY <1>1, WalkSame DEF TypesInv, annotations
<1> QED BY <1>2, <1>3

LEMMA TypesStmtRight ==
  ASSUME Filled, TypesInv, Types_Stmt
  PROVE  LetRight' /\ NodeRight' /\ RootRight' /\ TypesWalk' /\ FirstDone'
<1>1. /\ phase = "types" /\ f \in Fns /\ s \in StmtsIn(f) /\ Stmt = StmtAt(f, s) /\ todo = << >>
      /\ Inv /\ prog \in Programs
  BY TypeInvOf, ControlTypes DEF Types_Stmt, AtStmt, BetweenStmts, InFn, In, Fns, StmtsIn, StmtAt, Stmt, Fn
<1>2. UNCHANGED <<prog, stmtType, exprType>>
  BY DEF Types_Stmt, annotations
<1>3. CASE Stmt.value = NULL
  <2>1. SkipStmt
    BY <1>3 DEF Types_Stmt
  <2>2. NextStmt /\ todo' = << >>
    BY <1>1, <2>1 DEF SkipStmt
  <2>3. StmtAt(f, s).t = "let" => StmtAt(f, s).type # NoType
    BY <1>1, <1>3, LetHasValue
  <2> QED BY <1>1, <1>2, <1>3, <2>2, <2>3, NextStmtRight
<1>4. CASE Stmt.value # NULL
  <2>1. PICK v : v = Stmt.value
    OBVIOUS
  <2>2. todo' = <<Enter(v), EndStmt>> /\ UNCHANGED <<phase, f, s>>
    BY <1>4, <2>1 DEF Types_Stmt, Walk
  <2>3. v \in Nodes /\ v \in B!Nodes(v)
    BY <1>1, <1>4, <2>1, ValueNode, NodesOf
  <2>4. LetRight' /\ NodeRight' /\ RootRight'
    <3>1. UNCHANGED <<prog, phase, f, s, entries, annotations>>
      BY <2>2 DEF Types_Stmt
    <3> QED BY <1>1, <3>1, WalkRight
  <2>5. Stmt' = Stmt /\ B!Nodes(v)' = B!Nodes(v)
    <3>1. B!Nodes(v)' = B!Nodes(v)
      BY <1>2, NodesSame
    <3> QED BY <1>2, <2>2, <3>1 DEF Stmt, Fn
  <2>6. /\ Len(todo') = 2 /\ todo'[1].k = "enter" /\ todo'[1].n = v /\ todo'[2].k = "stmt"
        /\ \A j \in 1 .. Len(todo') : j = 1 \/ j = 2
    BY <2>2 DEF Enter, EndStmt, Task
  <2>7. B!Nodes(Stmt.value)' = B!Nodes(v)
    <3>1. Stmt'.value = v
      BY <2>1, <2>5
    <3>2. B!Nodes(Stmt.value)' = B!Nodes(v)'
      BY <3>1
    <3> QED BY <2>5, <3>2
  <2>8. TypesWalk'
    BY <2>3, <2>6, <2>7 DEF TypesWalk
  <2>9. FirstDone'
    <3>1. ASSUME NEW j \in 1 .. Len(todo'), NEW n \in Needs(todo[j])'
          PROVE  \E l \in 1 .. j - 1 : todo'[l].n = n /\ todo'[l].k \in {"enter", "leave"}
      <4>1. j = 2 /\ n = v
        BY <2>1, <2>5, <2>6, <3>1 DEF Needs
      <4> QED BY <2>6, <4>1
    <3> QED BY <3>1 DEF FirstDone
  <2> QED BY <2>4, <2>8, <2>9
<1> QED BY <1>3, <1>4

(* The value of a let without a type is typed by now.                      *)
LEMMA InferRight ==
  ASSUME Filled, TypesInv, phase = "types", todo # << >>, Head(todo).k = "stmt", Infer,
         Stmt.t = "let", stmtType[f][s] = NoType
  PROVE  LetRight' /\ NodeRight' /\ RootRight' /\ TypesWalk' /\ FirstDone'
<1>1. /\ f \in Fns /\ s \in StmtsIn(f) /\ Stmt = StmtAt(f, s) /\ Inv /\ prog \in Programs /\ ~LetDone(f, s)
      /\ Stmt.value # NULL /\ Stmt.value \in Nodes
  BY AtType
<1>2. PICK g0, i0, v : g0 = f /\ i0 = s /\ v = Stmt.value
  OBVIOUS
<1>3. /\ stmtType' = [stmtType EXCEPT ![g0][i0] = exprType[v]]
      /\ UNCHANGED <<prog, exprType, phase, f>> /\ s' = s + 1 /\ todo' = << >>
  BY <1>2 DEF Infer, NextStmt
<1>4. DoneT(v, g0, i0) /\ StmtAt(g0, i0).value = v
  BY <1>1, <1>2, NeededDone
<1>5. StmtAt(g0, i0).type = NoType
  BY <1>1, <1>2 DEF TypesInv, LetRight
<1>6. \A g \in Fns : \A i \in StmtsIn(g) :
        stmtType'[g][i] = IF g = g0 /\ i = i0 THEN exprType[v] ELSE stmtType[g][i]
  <2>1. DOMAIN stmtType = Fns /\ \A g \in Fns : DOMAIN stmtType[g] = StmtsIn(g)
    BY <1>1, InvParts DEF AnnotationsOK, Fns, StmtsIn
  <2> QED BY <1>1, <1>2, <1>3, <2>1
<1>7. ASSUME NEW g \in Fns, NEW i \in StmtsIn(g)
      PROVE  LetDone(g, i)' <=> LetDone(g, i) \/ (g = g0 /\ i = i0)
  <2>1. i \in Nat /\ g \in Nat /\ s \in Nat /\ f \in Nat
    BY <1>1 DEF StmtsIn, Fns
  <2> QED BY <1>2, <1>3, <2>1 DEF LetDone
<1>8. /\ Fns' = Fns /\ \A g : StmtsIn(g)' = StmtsIn(g)
      /\ \A g, i : StmtAt(g, i)' = StmtAt(g, i)
      /\ \A g, i, n : TypeAt(g, i, n)' = TypeAt(g, i, n)
      /\ \A n : B!Nodes(n)' = B!Nodes(n)
  BY <1>3, TextSame, TypeAtSame, NodesSame
<1>9. LetRight'
  <2>1. ASSUME NEW g \in Fns, NEW i \in StmtsIn(g), StmtAt(g, i).t = "let"
        PROVE  stmtType'[g][i] = IF StmtAt(g, i).type # NoType \/ ~LetDone(g, i)' THEN StmtAt(g, i).type
                                 ELSE TypeAt(g, i, StmtAt(g, i).value)
    <3>1. CASE g = g0 /\ i = i0
      <4>1. LetDone(g, i)'
        BY <1>7, <3>1
      <4>2. stmtType'[g][i] = exprType[v]
        BY <1>6, <3>1
      <4> QED BY <1>4, <1>5, <3>1, <4>1, <4>2 DEF DoneT
    <3>2. CASE ~(g = g0 /\ i = i0)
      <4>1. stmtType[g][i] = IF StmtAt(g, i).type # NoType \/ ~LetDone(g, i) THEN StmtAt(g, i).type
                             ELSE TypeAt(g, i, StmtAt(g, i).value)
        BY <2>1 DEF TypesInv, LetRight
      <4>2. stmtType'[g][i] = stmtType[g][i] /\ (LetDone(g, i)' <=> LetDone(g, i))
        BY <1>6, <1>7, <3>2
      <4> QED BY <4>1, <4>2
    <3> QED BY <3>1, <3>2
  <2>2. ASSUME NEW g \in Fns', NEW i \in StmtsIn(g)', StmtAt(g, i)'.t = "let"
        PROVE  stmtType'[g][i] = IF StmtAt(g, i)'.type # NoType \/ ~LetDone(g, i)' THEN StmtAt(g, i)'.type
                                 ELSE TypeAt(g, i, StmtAt(g, i).value)'
    <3>1. PICK w : w = StmtAt(g, i).value
      OBVIOUS
    <3>2. TypeAt(g, i, w)' = TypeAt(g, i, w) /\ StmtAt(g, i)' = StmtAt(g, i)
      BY <1>8
    <3> QED BY <1>8, <2>1, <2>2, <3>1, <3>2
  <2> QED BY <2>2 DEF LetRight
<1>10. NodeRight'
  <2>1. ASSUME NEW g \in Fns', NEW i \in StmtsIn(g)', NEW n \in B!Nodes(StmtAt(g, i).value)',
               exprType'[n] # NoType
        PROVE  exprType'[n] = TypeAt(g, i, n)'
    <3>1. PICK w : w = StmtAt(g, i).value
      OBVIOUS
    <3>2. B!Nodes(w)' = B!Nodes(w) /\ StmtAt(g, i)' = StmtAt(g, i)
      BY <1>8
    <3>3. n \in B!Nodes(StmtAt(g, i).value)
      BY <2>1, <3>1, <3>2
    <3> QED BY <1>3, <1>8, <2>1, <3>3 DEF TypesInv, NodeRight
  <2> QED BY <2>1 DEF NodeRight
<1>11. RootRight'
  <2>1. ASSUME NEW g \in Fns', NEW i \in StmtsIn(g)', LetDone(g, i)', StmtAt(g, i)'.value # NULL
        PROVE  DoneT(StmtAt(g, i).value, g, i)'
    <3>1. PICK w : w = StmtAt(g, i).value
      OBVIOUS
    <3>2. StmtAt(g, i)' = StmtAt(g, i)
      BY <1>8
    <3>3. DoneT(w, g, i)
      <4>1. CASE g = g0 /\ i = i0
        BY <1>4, <3>1, <4>1
      <4>2. CASE ~(g = g0 /\ i = i0)
        <5>1. LetDone(g, i)
          BY <1>7, <1>8, <2>1, <4>2
        <5> QED BY <1>8, <2>1, <3>1, <3>2, <5>1 DEF TypesInv, RootRight
      <4> QED BY <4>1, <4>2
    <3>4. DoneT(w, g, i)'
      BY <1>3, <3>3, DoneSame
    <3> QED BY <3>1, <3>2, <3>4
  <2> QED BY <2>1 DEF RootRight
<1> QED BY <1>3, <1>9, <1>10, <1>11, RestRight

LEMMA TypesEndStmtRight ==
  ASSUME Filled, TypesInv, Types_EndStmt
  PROVE  /\ LetRight' /\ NodeRight' /\ RootRight' /\ TypesWalk' /\ FirstDone'
         /\ outcome' # "running" => outcome' \in B!TypeDefects
<1>1. phase = "types" /\ todo # << >> /\ Head(todo).k = "stmt" /\ outcome = "running"
  BY DEF Types_EndStmt, At, In
<1>2. /\ f \in Fns /\ s \in StmtsIn(f) /\ Stmt = StmtAt(f, s) /\ Inv /\ ~LetDone(f, s)
      /\ Stmt.value # NULL /\ Stmt.value \in Nodes /\ DoneT(Stmt.value, f, s)
  BY <1>1, AtType, NeededDone
<1>3. PICK value, declared : value = exprType[Stmt.value] /\ declared = stmtType[f][s]
  OBVIOUS
<1>4. value \in Types /\ value = TypeAt(f, s, Stmt.value) /\ declared \in Types
  <2>1. declared \in Types
    BY <1>2, <1>3, InvParts DEF AnnotationsOK, Fns, StmtsIn
  <2> QED BY <1>2, <1>3, <2>1, DoneTyped
<1>5. Stmt.t = "let" => declared = StmtAt(f, s).type
  BY <1>2, <1>3 DEF TypesInv, LetRight
<1>6. \/ Stmt.t = "let" /\ declared = NoType /\ Infer
      \/ Stmt.t = "let" /\ declared # NoType /\ coerce_reads_null(value, declared) /\ Stop("segv")
      \/ /\ Stmt.t = "let" /\ declared # NoType /\ ~coerce_reads_null(value, declared)
         /\ coerce_type("=", value, declared) = NoType
         /\ Stop("incorrect_type_assign")
      \/ /\ Stmt.t = "let" => declared # NoType
         /\ NextStmt /\ todo' = << >>
         /\ UNCHANGED <<prog, scopes, entries, annotations>>
  BY <1>3, Zenon DEF Types_EndStmt
<1>7. ASSUME Stmt.t = "let", declared # NoType
      PROVE  \A d \in B!Mismatch(value, declared, "incorrect_type_assign") : d \in B!TypeDefects
  BY <1>2, <1>4, <1>5, <1>7, LetDefect
<1>8. CASE Stmt.t = "let" /\ declared = NoType /\ Infer
  <2>1. outcome' = "running"
    BY <1>1, <1>8 DEF Infer, NextStmt
  <2> QED BY <1>1, <1>3, <1>8, <2>1, InferRight
<1>9. CASE Stmt.t = "let" /\ declared # NoType /\ coerce_reads_null(value, declared) /\ Stop("segv")
  <2>1. "segv" \in B!TypeDefects
    BY <1>4, <1>7, <1>9, MismatchOf DEF coerce_reads_null
  <2> QED BY <1>9, <2>1, StopRight DEF Stop
<1>10. CASE /\ Stmt.t = "let" /\ declared # NoType /\ ~coerce_reads_null(value, declared)
            /\ coerce_type("=", value, declared) = NoType
            /\ Stop("incorrect_type_assign")
  <2>1. value # NoType /\ declared # NoType /\ value.t # declared.t
    BY <1>4, <1>10, CoerceIs
  <2>2. "incorrect_type_assign" \in B!TypeDefects
    BY <1>4, <1>7, <1>10, <2>1, MismatchOf
  <2> QED BY <1>10, <2>2, StopRight DEF Stop
<1>11. CASE /\ Stmt.t = "let" => declared # NoType
            /\ NextStmt /\ todo' = << >>
            /\ UNCHANGED <<prog, scopes, entries, annotations>>
  <2>1. outcome' = "running"
    BY <1>1, <1>11 DEF NextStmt
  <2>2. UNCHANGED <<prog, stmtType, exprType>>
    BY <1>11 DEF annotations
  <2>3. StmtAt(f, s).t = "let" => StmtAt(f, s).type # NoType
    BY <1>2, <1>5, <1>11
  <2> QED BY <1>1, <1>2, <1>11, <2>1, <2>2, <2>3, NextStmtRight
<1> QED BY <1>6, <1>8, <1>9, <1>10, <1>11

LEMMA TypesLeaveFnRight ==
  ASSUME Filled, TypesInv, Types_LeaveFn
  PROVE  LetRight' /\ NodeRight' /\ RootRight' /\ TypesWalk' /\ FirstDone'
<1>1. /\ phase = "types" /\ f \in Fns /\ todo = << >> /\ s > Len(Fn.stmts) /\ NextFn
      /\ UNCHANGED <<prog, stmtType, exprType>> /\ Inv
  BY TypeInvOf, ControlTypes DEF Types_LeaveFn, LeaveFn, BetweenStmts, InFn, In, Fns, annotations
<1>2. s' = 1 /\ f' = f + 1 /\ phase' = phase /\ todo' = << >>
  BY <1>1 DEF NextFn
<1>3. s \in Nat /\ f \in Nat /\ Len(Fn.stmts) \in Nat
  BY <1>1, ControlTypes, InsideFn DEF Fns
<1>4. ASSUME NEW g \in Fns, NEW i \in StmtsIn(g) PROVE LetDone(g, i)' <=> LetDone(g, i)
  <2>1. g \in Nat /\ i \in Nat /\ i >= 1
    BY DEF Fns, StmtsIn
  <2>2. g = f => i <= Len(Fn.stmts)
    BY DEF StmtsIn, Fn
  <2> QED BY <1>1, <1>2, <1>3, <2>1, <2>2 DEF LetDone
<1>5. LetRight' /\ NodeRight' /\ RootRight'
  BY <1>1, <1>4, RightSame DEF TypesInv
<1> QED BY <1>2, <1>5, RestRight

(* The type pass is right, and stops only where the program is not.        *)
LEMMA TypesStep ==
  ASSUME Filled, NamesInv, TypesInv, Types_Next, Grows, phase = "types"
  PROVE  /\ LetRight' /\ NodeRight' /\ RootRight' /\ TypesWalk' /\ FirstDone'
         /\ outcome' # "running" => outcome' \in B!TypeDefects
<1>1. ~BuildFnType
  BY DEF BuildFnType, InFn, In
<1>2. outcome = "running"
  BY DEF Types_Next, BuildFnType, Types_EnterFn, Types_Stmt, TypeInt, EnterBinop, TypeBinop, TypeName,
         CheckArg, TypeCall, Types_EndStmt, Types_LeaveFn, LeaveFn, At, AtStmt, BetweenStmts, InFn, In
<1>3. CASE Types_EnterFn
  BY <1>2, <1>3, TypesEnterFnRight DEF Types_EnterFn
<1>4. CASE Types_Stmt
  BY <1>2, <1>4, TypesStmtRight DEF Types_Stmt, SkipStmt, NextStmt, Walk
<1>5. CASE TypeInt
  BY <1>2, <1>5, TypeIntRight DEF TypeInt, Continue
<1>6. CASE EnterBinop
  BY <1>2, <1>6, EnterBinopRight DEF EnterBinop, Continue
<1>7. CASE TypeBinop
  BY <1>7, TypeBinopRight
<1>8. CASE TypeName
  BY <1>8, TypeNameRight
<1>9. CASE CheckArg
  BY <1>9, CheckArgRight
<1>10. CASE TypeCall
  BY <1>2, <1>10, TypeCallRight DEF TypeCall, Continue
<1>11. CASE Types_EndStmt
  BY <1>11, TypesEndStmtRight
<1>12. CASE Types_LeaveFn
  BY <1>2, <1>12, TypesLeaveFnRight DEF Types_LeaveFn, LeaveFn, NextFn
<1> QED BY <1>1, <1>3, <1>4, <1>5, <1>6, <1>7, <1>8, <1>9, <1>10, <1>11, <1>12 DEF Types_Next

LEMMA NextTypes ==
  ASSUME Filled, NamesInv, TypesInv, Next
  PROVE  TypesInv'
<1>1. Grows /\ Inv
  BY FilledGrows, TypeInvOf
<1>2. ParamsTyped'
  BY ParamsTypedKept DEF TypesInv
<1>3. CASE phase \in {"declare", "names", "signatures"}
  BY <1>2, <1>3, EarlyRight DEF TypesInv
<1>4. CASE phase \in {"returns", "alloc_fns", "translate", "done"} \/ (phase = "types" /\ EndPhase)
  BY <1>2, <1>4, LaterRight DEF TypesInv
<1>5. CASE phase = "types" /\ ~EndPhase
  <2>1. ~Names_Next
    BY <1>5, NamesPhase
  <2>2. ~CheckReturns
    BY <1>5 DEF CheckReturns, InFn, In
  <2>3. ~Ir_Next
    BY <1>5, IrPhase
  <2>4. Types_Next
    BY <1>5, <2>1, <2>2, <2>3 DEF Next, Semantics
  <2> QED BY <1>1, <1>2, <1>5, <2>4, TypesStep DEF TypesInv
<1>6. phase \in Phases
  BY <1>1, ControlTypes
<1> QED BY <1>3, <1>4, <1>5, <1>6 DEF Phases, NextPhase

LEMMA InitTypesInv == ASSUME Init, Filled PROVE TypesInv
<1>1. /\ phase = "declare" /\ prog \in Programs /\ todo = << >>
      /\ paramEntry = [g \in Fns |-> << >>]
      /\ \A g \in Fns : \A i \in StmtsIn(g) : stmtType[g][i] = StmtAt(g, i).type
      /\ \A n \in Nodes : exprType[n] = NoType
  BY DEF Init, InitNames, InitTypes, Fns, StmtsIn, StmtAt, Nodes
<1>2. ParamsTyped
  BY <1>1 DEF ParamsTyped
<1>3. \A g, i : ~LetDone(g, i)
  BY <1>1 DEF LetDone
<1>4. LetRight /\ RootRight
  BY <1>1, <1>3 DEF LetRight, RootRight
<1>5. NodeRight
  BY <1>1, InStatement DEF NodeRight
<1>6. TypesWalk /\ FirstDone
  BY <1>1 DEF TypesWalk, FirstDone
<1> QED BY <1>2, <1>4, <1>5, <1>6 DEF TypesInv

(* When the type pass is over every node is typed, and the program has no  *)
(* defects of that kind.                                                   *)
AllTypedPhases == {"returns", "alloc_fns", "translate", "done"}

LEMMA NoArgs ==
  ASSUME Inv, NEW n \in Nodes, Expr(n).t \in {"int", "var"}, NEW k \in 1 .. Len(Expr(n).args)
  PROVE  FALSE
<1>1. ParsedExpr(Expr(n), n)
  BY BelowNode
<1>2. Expr(n).args = << >>
  BY <1>1 DEF ParsedExpr
<1>3. Len(Expr(n).args) = 0
  BY <1>2, EmptySeq
<1> QED BY <1>3

(* What a typed operator or call requires of its operands.                 *)
LEMMA ArgsHaveTypes ==
  ASSUME Inv, TypeInv, NEW n \in Nodes, exprType[n] # NoType, NEW k \in 1 .. Len(Expr(n).args)
  PROVE  exprType[Expr(n).args[k]] # NoType
<1>1. NodeTyped(n, exprType[n])
  BY DEF TypeInv, TypedNodes
<1>2. CASE Expr(n).t = "binop"
  <2>1. k \in {1, 2}
    BY <1>2, BelowNode
  <2>2. exprType[Expr(n).args[1]] # NoType /\ exprType[Expr(n).args[2]] # NoType
    BY <1>1, <1>2 DEF NodeTyped, BinopTyped
  <2> QED BY <2>1, <2>2
<1>3. CASE Expr(n).t = "funcall"
  <2>1. CallType(n) \in FnTypes /\ Len(Expr(n).args) = Len(CallType(n).args) /\ ArgTyped(n, k)
    BY <1>1, <1>3 DEF NodeTyped, CallTyped
  <2>2. CallType(n).args[k] \in Builtins
    <3>1. CallType(n).args \in Seq(Builtins)
      BY <2>1, NotNull
    <3> QED BY <2>1, <3>1, ElementOfSeq
  <2>3. exprType[Expr(n).args[k]].t # "null"
    BY <2>1, <2>2, NotNull DEF ArgTyped
  <2> QED BY <2>3, NotNull
<1>4. Expr(n).t \notin {"int", "var"}
  BY NoArgs
<1> QED BY <1>2, <1>3, <1>4, BelowNode

LEMMA AllDone ==
  ASSUME Filled, TypesInv, NEW g \in Fns, NEW i \in StmtsIn(g), LetDone(g, i),
         NEW n \in B!Nodes(StmtAt(g, i).value)
  PROVE  DoneT(n, g, i)
<1>1. Inv /\ TypeInv /\ prog \in Programs
  BY TypeInvOf
<1>2. PICK root : root = StmtAt(g, i).value
  OBVIOUS
<1>3. root # NULL /\ root \in Nodes /\ n \in B!Nodes(root)
  BY <1>1, <1>2, InStatement
<1>4. PICK S : S = {m \in B!Nodes(root) : DoneT(m, g, i)}
  OBVIOUS
<1>5. root \in S
  <2>1. DoneT(root, g, i)
    BY <1>2, <1>3 DEF TypesInv, RootRight
  <2>2. root \in B!Nodes(root)
    BY <1>1, <1>3, NodesOf
  <2> QED BY <1>4, <2>1, <2>2
<1>6. ASSUME NEW m \in Nodes, m \in S, NEW k \in 1 .. Len(Expr(m).args) PROVE Expr(m).args[k] \in S
  <2>1. m \in B!Nodes(root) /\ DoneT(m, g, i)
    BY <1>4, <1>6
  <2>2. Expr(m).args[k] \in B!Nodes(root)
    BY <1>1, <1>3, <2>1, NodesClosed
  <2>3. Expr(m).t # "var"
    BY <1>1, NoArgs
  <2>4. exprType[m] # NoType
    BY <2>1, <2>3 DEF DoneT
  <2>5. exprType[Expr(m).args[k]] # NoType
    BY <1>1, <2>4, ArgsHaveTypes
  <2>6. exprType[Expr(m).args[k]] = TypeAt(g, i, Expr(m).args[k])
    BY <1>2, <2>2, <2>5 DEF TypesInv, NodeRight
  <2> QED BY <1>4, <2>2, <2>5, <2>6 DEF DoneT
<1>7. n \in S
  BY <1>1, <1>3, <1>5, <1>6, NodesLeast
<1> QED BY <1>4, <1>7

(* A name that is called is none of the let it is in the value of.         *)
LEMMA CalleeNamed ==
  ASSUME Filled, NamesInv, TypesInv, phase \in AllTypedPhases, NEW g \in Fns, NEW i \in StmtsIn(g),
         NEW n \in B!Nodes(StmtAt(g, i).value), Expr(n).t = "funcall"
  PROVE  exprVar[n] # NULL /\ CallType(n) = NamedAt(g, i, n) /\ NamedAt(g, i, n).t = "fn"
<1>1. Inv /\ TypeInv /\ prog \in Programs /\ n \in Nodes
  BY TypeInvOf, InStatement
<1>2. \A j \in StmtsIn(g) : LetDone(g, j)
  BY DEF LetDone, AllTypedPhases
<1>3. exprType[n] \in Types /\ exprType[n] = TypeAt(g, i, n)
  BY <1>1, <1>2, AllDone, DoneTyped
<1>4. NamedAt(g, i, n).t = "fn"
  BY <1>1, <1>3, CallAt, NotIll
<1>5. PICK b, name : b = B!Binding(name, g, i) /\ name = Expr(n).name
  OBVIOUS
<1>6. ~(b.kind = "let" /\ b.at = i)
  <2>1. SUFFICES ASSUME b.kind = "let", b.at = i PROVE FALSE
    OBVIOUS
  <2>2. B!TypeOfName(B!TypeIn(g), name, g, i) = StmtAt(g, i).type
    BY <1>5, <2>1, TypeOfLet
  <2>3. NamedAt(g, i, n) = StmtAt(g, i).type
    BY <1>5, <2>2 DEF NamedAt
  <2>4. StmtAt(g, i).type \in Written \cup {NoType}
    <3>1. prog.fns[g].stmts \in Seq(Stmts(Nodes))
      BY <1>1, ProgramShape
    <3>2. StmtAt(g, i) \in Stmts(Nodes)
      BY <3>1, ElementOfSeq DEF StmtAt, StmtsIn
    <3> QED BY <3>2 DEF Stmts
  <2>5. StmtAt(g, i).type.t # "fn"
    BY <2>4 DEF Written, Builtins, BuiltinTypes, IntTypes, NoType, Type
  <2> QED BY <1>4, <2>3, <2>5
<1>7. NamedNode(n)
  BY DEF NamedNode
<1> QED BY <1>1, <1>2, <1>4, <1>5, <1>6, <1>7, EntryTyped DEF AllTypedPhases, CallType

LEMMA NoExprDefects ==
  ASSUME Filled, NamesInv, TypesInv, phase \in AllTypedPhases, NEW g \in Fns, NEW i \in StmtsIn(g),
         NEW n \in B!Nodes(StmtAt(g, i).value)
  PROVE  B!ExprDefects(B!TypeIn(g), g, i, n) = {}
<1>1. Inv /\ TypeInv /\ prog \in Programs /\ n \in Nodes /\ StmtAt(g, i).value \in Nodes
  BY TypeInvOf, InStatement
<1>2. LetDone(g, i)
  BY DEF LetDone, AllTypedPhases
<1>3. DoneT(n, g, i)
  BY <1>2, AllDone
<1>4. \A k \in 1 .. Len(Expr(n).args) :
        /\ Expr(n).args[k] \in Nodes
        /\ TypeAt(g, i, Expr(n).args[k]) = exprType[Expr(n).args[k]]
        /\ exprType[Expr(n).args[k]] \in Types
  <2>1. ASSUME NEW k \in 1 .. Len(Expr(n).args)
        PROVE  Expr(n).args[k] \in Nodes /\ DoneT(Expr(n).args[k], g, i)
    <3>1. Expr(n).args[k] \in B!Nodes(StmtAt(g, i).value)
      BY <1>1, NodesClosed
    <3> QED BY <1>1, <1>2, <3>1, AllDone, BelowNode
  <2> QED BY <1>1, <2>1, DoneTyped
<1>5. CASE Expr(n).t \in {"int", "var"}
  BY <1>5, OtherDefects
<1>6. CASE Expr(n).t = "binop"
  <2>1. exprType[n] # NoType /\ NodeTyped(n, exprType[n])
    BY <1>1, <1>3, <1>6 DEF DoneT, TypeInv, TypedNodes
  <2>2. PICK left, right, op : /\ left = exprType[Expr(n).args[1]] /\ right = exprType[Expr(n).args[2]]
                               /\ op = Expr(n).op
    OBVIOUS
  <2>3. left # NoType /\ right # NoType /\ coerce_type(op, left, right) # NoType
    BY <1>6, <2>1, <2>2 DEF NodeTyped, BinopTyped
  <2>4. /\ left \in Types /\ right \in Types /\ left = TypeAt(g, i, Expr(n).args[1])
        /\ right = TypeAt(g, i, Expr(n).args[2])
    <3>1. 1 \in 1 .. Len(Expr(n).args) /\ 2 \in 1 .. Len(Expr(n).args)
      BY <1>1, <1>6, BelowNode
    <3> QED BY <1>4, <2>2, <3>1
  <2>5. left.t = right.t
    BY <2>3, <2>4, CoerceIs DEF coerce_reads_null
  <2>6. B!Mismatch(left, right, "incorrect_type_binop") = {}
    BY <2>3, <2>4, <2>5, MismatchOf
  <2> QED BY <1>1, <1>6, <2>4, <2>6, BinopDefects
<1>7. CASE Expr(n).t = "funcall"
  <2>1. PICK callee, args : /\ callee = CallType(n)
                            /\ args = [k \in 1 .. Len(Expr(n).args) |-> TypeAt(g, i, Expr(n).args[k])]
    OBVIOUS
  <2>2. callee = NamedAt(g, i, n)
    BY <1>7, <2>1, CalleeNamed
  <2>3. exprType[n] # NoType /\ NodeTyped(n, exprType[n])
    BY <1>1, <1>3, <1>7 DEF DoneT, TypeInv, TypedNodes
  <2>4. /\ callee \in FnTypes /\ Len(callee.args) = Len(Expr(n).args)
        /\ \A k \in 1 .. Len(Expr(n).args) : exprType[Expr(n).args[k]].t = callee.args[k].t
    BY <1>7, <2>1, <2>3, Zenon DEF NodeTyped, CallTyped, ArgTyped
  <2>5. callee \in Types /\ callee.t = "fn" /\ Len(Expr(n).args) \in Nat
        /\ \A k \in 1 .. Len(Expr(n).args) : callee.args[k] \in Builtins
    <3>1. callee.args \in Seq(Builtins) /\ callee \in Types /\ callee.t = "fn"
      BY <2>4, TypeKinds
    <3> QED BY <1>1, <2>4, <3>1, ElementOfSeq, BelowNode
  <2>6. DOMAIN args = 1 .. Len(Expr(n).args) /\ Len(args) = Len(Expr(n).args)
    <3>1. args = [k \in 1 .. Len(Expr(n).args) |-> args[k]] /\ DOMAIN args = 1 .. Len(Expr(n).args)
      BY <2>1
    <3> QED BY <2>5, <3>1, ListOver
  <2>7. \A k \in 1 .. Len(Expr(n).args) :
          B!Mismatch(callee.args[k], args[k], "incorrect_type_param") = {}
    <3>1. ASSUME NEW k \in 1 .. Len(Expr(n).args)
          PROVE  B!Mismatch(callee.args[k], args[k], "incorrect_type_param") = {}
      <4>1. PICK a, b : a = callee.args[k] /\ b = args[k]
        OBVIOUS
      <4>2. b = exprType[Expr(n).args[k]] /\ b \in Types /\ b.t = a.t
        BY <1>4, <2>1, <2>4, <4>1
      <4>3. a \in Builtins
        BY <2>5, <4>1
      <4>4. a \in Types /\ a # NoType /\ b # NoType
        BY <4>2, <4>3, NotNull, TypeKinds
      <4> QED BY <4>1, <4>2, <4>4, MismatchOf
    <3> QED BY <3>1
  <2>8. B!CallDefects(callee, args) = {}
    <3>1. ASSUME NEW d \in B!CallDefects(callee, args) PROVE FALSE
      <4>1. \E k \in 1 .. Len(Expr(n).args) :
              d \in B!Mismatch(callee.args[k], args[k], "incorrect_type_param")
        BY <2>4, <2>5, <2>6, <3>1, CallDefectsAre
      <4> QED BY <2>7, <4>1
    <3> QED BY <3>1
  <2> QED BY <1>1, <1>7, <2>1, <2>2, <2>8, CallDefectsOf
<1> QED BY <1>1, <1>5, <1>6, <1>7, BelowNode

LEMMA NoLetDefects ==
  ASSUME Filled, TypesInv, phase \in AllTypedPhases, NEW g \in Fns, NEW i \in StmtsIn(g),
         StmtAt(g, i).t = "let", StmtAt(g, i).value # NULL, StmtAt(g, i).type # NoType
  PROVE  B!Mismatch(TypeAt(g, i, StmtAt(g, i).value), StmtAt(g, i).type, "incorrect_type_assign") = {}
<1>1. Inv /\ TypeInv /\ prog \in Programs /\ StmtAt(g, i).value \in Nodes
  BY TypeInvOf, ValueNode
<1>2. LetDone(g, i)
  BY DEF LetDone, AllTypedPhases
<1>3. PICK v, type : v = StmtAt(g, i).value /\ type = StmtAt(g, i).type
  OBVIOUS
<1>4. stmtType[g][i] = type
  BY <1>3 DEF TypesInv, LetRight
<1>5. type \in Types /\ type # NoType
  BY <1>1, <1>3, <1>4, InvParts DEF AnnotationsOK, Fns, StmtsIn
<1>6. exprType[v].t = type.t
  BY <1>1, <1>2, <1>3, <1>4, <1>5 DEF TypeInv, LetsChecked, LetChecked, StmtsIn, StmtAt
<1>7. DoneT(v, g, i)
  BY <1>2, <1>3 DEF TypesInv, RootRight
<1>8. TypeAt(g, i, v) = exprType[v] /\ exprType[v] \in Types
  BY <1>1, <1>3, <1>7, DoneTyped
<1>9. exprType[v] # NoType
  BY <1>5, <1>6, NotNull
<1> QED BY <1>3, <1>5, <1>6, <1>8, <1>9, MismatchOf

LEMMA TypesRight ==
  ASSUME Filled, NamesInv, TypesInv, phase \in AllTypedPhases
  PROVE  B!TypeDefects = {}
  BY NoExprDefects, NoLetDefects, NoTypeDefects

-----------------------------------------------------------------------------
(* Returns, function by function.                                          *)
ReturnsIn(g) == {i \in StmtsIn(g) : StmtAt(g, i).t = "return"}
FirstValue(g) == StmtAt(g, B!First(ReturnsIn(g))).value
FnReturnDefects(g) ==
  CASE ReturnsIn(g) = {} -> IF prog.fns[g].ret = Type("void") THEN {} ELSE {"never_returns"}
    [] ReturnsIn(g) # {} /\ FirstValue(g) = NULL ->
         IF prog.fns[g].ret = Type("void") THEN {} ELSE {"incorrect_return", "segv"}
    [] OTHER -> B!Mismatch(prog.fns[g].ret, TypeAt(g, B!First(ReturnsIn(g)), FirstValue(g)), "incorrect_return")

LEMMA ReturnDefectsAre == B!ReturnDefects = UNION {FnReturnDefects(g) : g \in Fns}
  BY Zenon DEF B!ReturnDefects, FnReturnDefects, ReturnsIn, FirstValue, StmtsIn, StmtAt, B!StmtsOf, B!Stmts,
               B!Functions, Fns, TypeAt, Type, B!Type, NULL

RetDone(g) == phase \in {"alloc_fns", "translate", "done"} \/ (phase = "returns" /\ g < f)
ReturnsInv == \A g \in Fns : RetDone(g) => FnReturnDefects(g) = {}

LEMMA ReturnChecked ==
  ASSUME Filled, TypesInv, phase = "returns", f \in Fns
  PROVE  /\ check_fn = "right" => FnReturnDefects(f) = {}
         /\ check_fn # "right" => \A how \in Returns_End[check_fn] : how \in FnReturnDefects(f)
<1>1. Inv /\ prog \in Programs /\ Fn = prog.fns[f]
  BY TypeInvOf DEF Fn
<1>2. Returns = ReturnsIn(f) /\ FirstReturn = B!First(Returns)
  BY Zenon DEF Returns, ReturnsIn, StmtsIn, StmtAt, Fn, FirstReturn, B!First
<1>3. PICK ret, first, value : /\ ret = Fn.ret /\ first = FirstReturn /\ value = Fn.stmts[first].value
  OBVIOUS
<1>4. value = FirstValue(f) /\ first = B!First(ReturnsIn(f)) /\ ret = prog.fns[f].ret
  BY <1>1, <1>2, <1>3 DEF FirstValue, StmtAt
<1>5. CASE Returns = {}
  <2>1. check_fn = IF ret = Type("void") THEN "right" ELSE "never"
    BY <1>3, <1>5 DEF check_fn
  <2>2. FnReturnDefects(f) = IF ret = Type("void") THEN {} ELSE {"never_returns"}
    BY <1>2, <1>4, <1>5 DEF FnReturnDefects
  <2> QED BY <2>1, <2>2 DEF Returns_End
<1>6. CASE Returns # {} /\ value = NULL
  <2>1. check_fn = IF ret = Type("void") THEN "right" ELSE "unset"
    BY <1>3, <1>6 DEF check_fn
  <2>2. FnReturnDefects(f) = IF ret = Type("void") THEN {} ELSE {"incorrect_return", "segv"}
    BY <1>2, <1>4, <1>6 DEF FnReturnDefects
  <2> QED BY <2>1, <2>2 DEF Returns_End
<1>7. CASE Returns # {} /\ value # NULL
  <2>1. first \in StmtsIn(f) /\ value = StmtAt(f, first).value
    <3>1. ReturnsIn(f) \in SUBSET Nat
      BY DEF ReturnsIn, StmtsIn
    <3>2. first \in ReturnsIn(f)
      BY <1>2, <1>4, <1>7, <3>1, FirstIs
    <3> QED BY <1>1, <1>3, <3>2 DEF ReturnsIn, StmtAt
  <2>2. LetDone(f, first)
    BY DEF LetDone
  <2>3. value \in Nodes /\ DoneT(value, f, first)
    BY <1>1, <1>7, <2>1, <2>2, ValueNode DEF TypesInv, RootRight
  <2>4. PICK given : given = exprType[value]
    OBVIOUS
  <2>5. given \in Types /\ given = TypeAt(f, first, value)
    BY <1>1, <2>3, <2>4, DoneTyped
  <2>6. ret \in Types /\ ret # NoType
    BY <1>1, <1>3, InsideFn, TypeKinds, NotNull DEF Fns
  <2>7. FnReturnDefects(f) = B!Mismatch(ret, given, "incorrect_return")
    BY <1>2, <1>4, <1>7, <2>5 DEF FnReturnDefects
  <2>8. CASE coerce_reads_null(ret, given)
    <3>1. check_fn = "null"
      BY <1>3, <1>7, <2>4, <2>8 DEF check_fn
    <3>2. given = NoType
      BY <2>6, <2>8 DEF coerce_reads_null
    <3>3. FnReturnDefects(f) = {"segv"}
      BY <2>5, <2>6, <2>7, <3>2, MismatchOf
    <3> QED BY <3>1, <3>3 DEF Returns_End
  <2>9. CASE ~coerce_reads_null(ret, given)
    <3>1. check_fn = IF coerce_type("=", ret, given) # NoType THEN "right" ELSE "wrong"
      BY <1>3, <1>7, <2>4, <2>9 DEF check_fn
    <3>2. coerce_type("=", ret, given) = NoType <=> ret.t # given.t
      BY <2>5, <2>6, <2>9, CoerceIs
    <3>3. given # NoType
      BY <2>9 DEF coerce_reads_null
    <3>4. FnReturnDefects(f) = IF ret.t = given.t THEN {} ELSE {"incorrect_return"}
      BY <2>5, <2>6, <2>7, <3>3, MismatchOf
    <3> QED BY <3>1, <3>2, <3>4 DEF Returns_End
  <2> QED BY <2>8, <2>9
<1> QED BY <1>5, <1>6, <1>7

LEMMA FnDefectsSame ==
  ASSUME prog' = prog, NEW g
  PROVE  FnReturnDefects(g)' = FnReturnDefects(g)
<1>1. ReturnsIn(g)' = ReturnsIn(g) /\ prog.fns[g].ret' = prog.fns[g].ret
  BY Zenon DEF ReturnsIn, StmtsIn, StmtAt
<1>2. PICK returns, ret, first, value, given :
        /\ returns = ReturnsIn(g) /\ ret = prog.fns[g].ret
        /\ first = B!First(ReturnsIn(g)) /\ value = StmtAt(g, first).value
        /\ given = TypeAt(g, first, value)
  OBVIOUS
<1>3. first = B!First(ReturnsIn(g))'
  BY ONLY <1>1, <1>2 DEF B!First
<1>4. value = StmtAt(g, first).value'
  BY Zenon, <1>2 DEF StmtAt
<1>5. given = TypeAt(g, first, value)'
  BY <1>2, TypeAtSame
<1>6. FnReturnDefects(g) =
        CASE returns = {} -> IF ret = Type("void") THEN {} ELSE {"never_returns"}
          [] returns # {} /\ value = NULL ->
               IF ret = Type("void") THEN {} ELSE {"incorrect_return", "segv"}
          [] OTHER -> B!Mismatch(ret, given, "incorrect_return")
  BY Zenon, <1>2 DEF FnReturnDefects, FirstValue
<1>7. FnReturnDefects(g)' =
        CASE returns = {} -> IF ret = Type("void") THEN {} ELSE {"never_returns"}
          [] returns # {} /\ value = NULL ->
               IF ret = Type("void") THEN {} ELSE {"incorrect_return", "segv"}
          [] OTHER -> B!Mismatch(ret, given, "incorrect_return")
  BY Zenon, <1>1, <1>2, <1>3, <1>4, <1>5 DEF FnReturnDefects, FirstValue
<1> QED BY <1>6, <1>7

LEMMA ReturnsStep ==
  ASSUME Filled, TypesInv, ReturnsInv, CheckReturns
  PROVE  /\ ReturnsInv'
         /\ outcome' # "running" => outcome' \in B!ReturnDefects
<1>1. phase = "returns" /\ f \in Fns /\ Inv /\ outcome = "running" /\ prog' = prog /\ phase' = phase
  BY TypeInvOf, ControlTypes DEF CheckReturns, InFn, In, Fns, NextFn, Stop
<1>2. \A g \in Fns : FnReturnDefects(g)' = FnReturnDefects(g)
  BY <1>1, FnDefectsSame
<1>3. Fns' = Fns
  BY <1>1 DEF Fns
<1>4. CASE check_fn = "right" /\ NextFn
  <2>1. FnReturnDefects(f) = {}
    BY <1>1, <1>4, ReturnChecked
  <2>2. f' = f + 1 /\ outcome' = outcome
    BY <1>4 DEF NextFn
  <2>3. ASSUME NEW g \in Fns, RetDone(g)' PROVE FnReturnDefects(g)' = {}
    <3>1. g \in Nat /\ f \in Nat /\ g < f + 1
      BY <1>1, <2>2, <2>3 DEF Fns, RetDone
    <3>2. g = f \/ g < f
      BY <3>1
    <3> QED BY <1>1, <1>2, <2>1, <3>2 DEF ReturnsInv, RetDone
  <2> QED BY <1>1, <1>3, <2>2, <2>3 DEF ReturnsInv
<1>5. CASE check_fn # "right" /\ \E how \in Returns_End[check_fn] : Stop(how)
  <2>1. f' = f
    BY <1>5 DEF Stop
  <2>2. ReturnsInv'
    BY <1>1, <1>2, <1>3, <2>1 DEF ReturnsInv, RetDone
  <2>3. outcome' \in FnReturnDefects(f)
    BY <1>1, <1>5, ReturnChecked DEF Stop
  <2> QED BY <1>1, <2>2, <2>3, ReturnDefectsAre
<1> QED BY <1>4, <1>5 DEF CheckReturns

LEMMA NextReturns ==
  ASSUME Filled, TypesInv, ReturnsInv, Next
  PROVE  ReturnsInv'
<1>1. Inv /\ prog' = prog
  BY TypeInvOf, ProgKept
<1>2. CASE CheckReturns
  BY <1>2, ReturnsStep
<1>3. CASE ~CheckReturns
  <2>1. ASSUME NEW g \in Fns, RetDone(g)' PROVE RetDone(g)
    <3>1. CASE Names_Next
      BY <2>1, <3>1, NamesPhase DEF RetDone
    <3>2. CASE Types_Next
      BY <1>1, <2>1, <3>2, QuietTypes, TypesPhase DEF RetDone
    <3>3. CASE EndPhase
      <4>1. f > Len(prog.fns) /\ phase' = NextPhase[phase] /\ phase \in DOMAIN NextPhase /\ f' = 1
        BY <1>1, <3>3, ControlTypes DEF EndPhase, Phases
      <4>2. g \in Nat /\ g >= 1 /\ g < f
        BY <1>1, <4>1, ControlTypes DEF Fns
      <4> QED BY <2>1, <4>1, <4>2 DEF RetDone, NextPhase
    <3>4. CASE Ir_Next
      BY <3>4, IrPhase DEF RetDone
    <3> QED BY <1>3, <3>1, <3>2, <3>3, <3>4 DEF Next, Semantics
  <2>2. \A g \in Fns : FnReturnDefects(g)' = FnReturnDefects(g)
    BY <1>1, FnDefectsSame
  <2> QED BY <1>1, <2>1, <2>2 DEF ReturnsInv, Fns
<1> QED BY <1>2, <1>3

LEMMA ReturnsRight ==
  ASSUME ReturnsInv, phase \in {"alloc_fns", "translate", "done"}
  PROVE  B!ReturnDefects = {}
  BY ReturnDefectsAre DEF ReturnsInv, RetDone

LEMMA InitReturns == ASSUME Init PROVE ReturnsInv
  BY DEF Init, ReturnsInv, RetDone

-----------------------------------------------------------------------------
(* What the IR has no register for.                                        *)
Unsized(type) == CASE type = NoType -> {"segv"}
                   [] type # NoType /\ type.t \in IntTypes -> {}
                   [] OTHER -> {"internal_err"}
ParamDefects(g, k) ==
  IF B!First(B!ParamsNamed(ParamAt(g, k).name, g)) = k THEN Unsized(ParamAt(g, k).type) ELSE {"segv"}
NodeDefects(o) == Unsized(B!TypeIn(o[1])[<<o[2], o[3]>>])

LEMMA IrDefectsAre ==
  B!IrDefects = (UNION {UNION {ParamDefects(g, k) : k \in 1 .. Len(prog.fns[g].params)} : g \in Fns})
                \cup (UNION {NodeDefects(o) : o \in B!Occurrences})
  BY Zenon DEF B!IrDefects, ParamDefects, NodeDefects, Unsized, ParamAt, B!Params, B!Functions, Fns,
               NoType, B!NoType, Type, B!Type, IntTypes, B!IntTypes

LEMMA ParamDefect ==
  ASSUME NEW g \in Fns, NEW k \in 1 .. Len(prog.fns[g].params), NEW d \in ParamDefects(g, k)
  PROVE  d \in B!IrDefects
  BY IrDefectsAre

LEMMA NodeDefect ==
  ASSUME NEW g \in Fns, NEW i \in StmtsIn(g), NEW n \in B!Nodes(StmtAt(g, i).value),
         NEW d \in Unsized(TypeAt(g, i, n))
  PROVE  d \in B!IrDefects
<1>1. PICK o : o = <<g, i, n>>
  OBVIOUS
<1>2. o \in B!Occurrences /\ o[1] = g /\ o[2] = i /\ o[3] = n
  BY <1>1, OccurrencesAre
<1>3. d \in NodeDefects(o)
  BY <1>2 DEF NodeDefects, TypeAt
<1> QED BY <1>2, <1>3, IrDefectsAre

LEMMA NoIrDefects ==
  ASSUME \A g \in Fns : \A k \in 1 .. Len(prog.fns[g].params) : ParamDefects(g, k) = {},
         \A g \in Fns : \A i \in StmtsIn(g) : \A n \in B!Nodes(StmtAt(g, i).value) :
           Unsized(TypeAt(g, i, n)) = {}
  PROVE  B!IrDefects = {}
<1>1. ASSUME NEW o \in B!Occurrences PROVE NodeDefects(o) = {}
  <2>1. PICK g, i, n : /\ g \in Fns /\ i \in StmtsIn(g) /\ n \in B!Nodes(StmtAt(g, i).value)
                       /\ o = <<g, i, n>>
    BY <1>1, OccurrencesAre
  <2>2. o[1] = g /\ o[2] = i /\ o[3] = n
    BY <2>1
  <2>3. Unsized(TypeAt(g, i, n)) = {}
    BY <2>1
  <2> QED BY <2>2, <2>3 DEF NodeDefects, TypeAt
<1> QED BY <1>1, IrDefectsAre

(* type_sz ends as that says.                                              *)
LEMMA SizeFails ==
  ASSUME NEW type
  PROVE  /\ \A how : size_fails(type, how) => how \in Unsized(type)
         /\ type.t \in IntTypes => Unsized(type) = {}
         /\ type # NoType /\ type.t \notin IntTypes => Unsized(type) = {"internal_err"}
<1>1. type.t \in IntTypes => type # NoType
  BY DEF IntTypes, NoType, Type
<1> QED BY <1>1 DEF size_fails, Unsized

LEMMA ParamFirst ==
  ASSUME prog \in Programs, NEW g \in Fns, NEW k \in 1 .. Len(prog.fns[g].params)
  PROVE  B!First(B!ParamsNamed(ParamAt(g, k).name, g)) = k <=>
           \A j \in 1 .. k - 1 : ParamAt(g, j).name # ParamAt(g, k).name
<1>1. PICK S, first : S = B!ParamsNamed(ParamAt(g, k).name, g) /\ first = B!First(S)
  OBVIOUS
<1>2. \A j : j \in S <=> j \in 1 .. Len(prog.fns[g].params) /\ ParamAt(g, j).name = ParamAt(g, k).name
  BY <1>1, ParamsNamedAre
<1>3. S \in SUBSET Nat /\ k \in S
  BY <1>2
<1>4. first \in S /\ \A j \in S : first <= j
  BY <1>1, <1>3, FirstIs
<1>5. Len(prog.fns[g].params) \in Nat
  BY ProgramShape, LenProperties
<1>6. ASSUME first = k, NEW j \in 1 .. k - 1 PROVE ParamAt(g, j).name # ParamAt(g, k).name
  <2>1. j \in 1 .. Len(prog.fns[g].params) /\ ~(k <= j)
    BY <1>5
  <2> QED BY <1>2, <1>4, <1>6, <2>1
<1>7. ASSUME \A j \in 1 .. k - 1 : ParamAt(g, j).name # ParamAt(g, k).name PROVE first = k
  <2>1. first <= k /\ first \in 1 .. Len(prog.fns[g].params)
        /\ ParamAt(g, first).name = ParamAt(g, k).name
    BY <1>2, <1>3, <1>4
  <2>2. first \notin 1 .. k - 1
    BY <1>7, <2>1
  <2> QED BY <1>5, <2>1, <2>2
<1> QED BY <1>1, <1>6, <1>7

-----------------------------------------------------------------------------
(* A let without a type that is used in its own value is that value: there *)
(* is no type for either.                                                  *)
LEMMA WrittenTypes ==
  ASSUME prog \in Programs, NEW g \in Fns
  PROVE  /\ \A i \in StmtsIn(g) : StmtAt(g, i).type \in Written \cup {NoType}
         /\ \A k \in 1 .. Len(prog.fns[g].params) : ParamAt(g, k).type \in Written
<1>1. prog.fns[g].stmts \in Seq(Stmts(Nodes)) /\ prog.fns[g].params \in Seq(Params)
  BY ProgramShape
<1>2. \A i \in StmtsIn(g) : StmtAt(g, i) \in Stmts(Nodes)
  BY <1>1, ElementOfSeq DEF StmtAt, StmtsIn
<1>3. \A k \in 1 .. Len(prog.fns[g].params) : ParamAt(g, k) \in Params
  BY <1>1, ElementOfSeq DEF ParamAt
<1> QED BY <1>2, <1>3 DEF Stmts, Params

LEMMA NotFn == \A type \in Written \cup {NoType} : type.t # "fn"
  BY DEF Written, Builtins, BuiltinTypes, IntTypes, NoType, Type

LEMMA LetBound ==
  ASSUME prog \in Programs, NEW name, NEW g \in Fns, NEW i, B!Binding(name, g, i).kind = "let",
         NEW j, B!Binding(name, g, i).at = j
  PROVE  j \in StmtsIn(g) /\ StmtAt(g, j).t = "let"
<1>1. LET k == B!Binding(name, g, i).at IN k \in StmtsIn(g) /\ StmtAt(g, k).t = "let"
  BY BoundToLet
<1> QED BY <1>1

LEMMA OwnLet ==
  ASSUME Filled, NamesInv, TypesInv, phase \in AllTypedPhases, NEW g \in Fns, NEW i \in StmtsIn(g),
         NEW n \in B!Nodes(StmtAt(g, i).value), Expr(n).t = "var",
         B!Binding(Expr(n).name, g, i).kind = "let", B!Binding(Expr(n).name, g, i).at = i
  PROVE  stmtType[g][i] = StmtAt(g, i).type
<1>1. Inv /\ TypeInv /\ prog \in Programs /\ n \in Nodes /\ StmtAt(g, i).value \in Nodes
  BY TypeInvOf, InStatement
<1>2. LetDone(g, i)
  BY DEF LetDone, AllTypedPhases
<1>3. PICK root, type, name : /\ root = StmtAt(g, i).value /\ type = StmtAt(g, i).type
                              /\ name = Expr(n).name
  OBVIOUS
<1>4. StmtAt(g, i).t = "let"
  BY <1>1, LetBound
<1>5. CASE type # NoType
  BY <1>3, <1>4, <1>5 DEF TypesInv, LetRight
<1>6. CASE type = NoType
  <2>1. B!TypeOfName(B!TypeIn(g), name, g, i) = type
    BY <1>3, TypeOfLet
  <2>2. TypeAt(g, i, n) = NoType
    BY <1>1, <1>3, <1>6, <2>1, VarAt DEF NamedAt
  <2>3. exprType[n] = NoType
    BY <1>2, <2>2, AllDone DEF DoneT
  <2>4. n = root
    <3>1. SUFFICES ASSUME n # root PROVE FALSE
      OBVIOUS
    <3>2. PICK m \in B!Nodes(root) : \E k \in 1 .. Len(Expr(m).args) : n = Expr(m).args[k]
      BY <1>1, <1>3, <3>1, ParentIn
    <3>3. PICK k \in 1 .. Len(Expr(m).args) : n = Expr(m).args[k]
      BY <3>2
    <3>4. DoneT(m, g, i) /\ m \in Nodes
      BY <1>1, <1>2, <1>3, AllDone, NodesAre
    <3>5. Expr(m).t # "var"
      BY <1>1, <3>3, <3>4, NoArgs
    <3>6. exprType[m] # NoType
      BY <3>4, <3>5 DEF DoneT
    <3> QED BY <1>1, <2>3, <3>3, <3>4, <3>6, ArgsHaveTypes
  <2>5. stmtType[g][i] = TypeAt(g, i, root)
    BY <1>2, <1>3, <1>4, <1>6 DEF TypesInv, LetRight
  <2> QED BY <1>3, <1>6, <2>2, <2>4, <2>5
<1> QED BY <1>5, <1>6

LEMMA VarRight ==
  ASSUME Filled, NamesInv, TypesInv, phase \in AllTypedPhases, NEW g \in Fns, NEW i \in StmtsIn(g),
         NEW n \in B!Nodes(StmtAt(g, i).value), Expr(n).t = "var"
  PROVE  exprVar[n] # NULL /\ entries[exprVar[n]].type = TypeAt(g, i, n)
<1>1. Inv /\ TypeInv /\ prog \in Programs /\ n \in Nodes
  BY TypeInvOf, InStatement
<1>2. \A j \in StmtsIn(g) : LetDone(g, j)
  BY DEF LetDone, AllTypedPhases
<1>3. NamedNode(n) /\ phase \notin {"declare", "names", "signatures"}
  BY DEF NamedNode, AllTypedPhases
<1>4. B!Binding(Expr(n).name, g, i).kind = "let" /\ B!Binding(Expr(n).name, g, i).at = i =>
        stmtType[g][i] = StmtAt(g, i).type
  BY OwnLet
<1>5. exprVar[n] # NULL /\ entries[exprVar[n]].type = NamedAt(g, i, n)
  BY <1>2, <1>3, <1>4, EntryTyped
<1> QED BY <1>1, <1>5, VarAt

(* What is called is a function, or a let that holds one.                  *)
LEMMA CalleeAlloced ==
  ASSUME Filled, NamesInv, TypesInv, FnsAlloced, phase = "translate", NEW g \in Fns,
         NEW i \in StmtsIn(g), NEW n \in B!Nodes(StmtAt(g, i).value), Expr(n).t = "funcall"
  PROVE  /\ exprVar[n] # NULL
         /\ entries[exprVar[n]].fn = << >> => "internal_err" \in B!IrDefects
<1>1. Inv /\ TypeInv /\ prog \in Programs /\ n \in Nodes /\ phase \in AllTypedPhases /\ ~Naming
  BY TypeInvOf, InStatement DEF AllTypedPhases, Naming
<1>2. PICK b, name, type : /\ b = B!Binding(name, g, i) /\ name = Expr(n).name
                           /\ type = B!TypeOfName(B!TypeIn(g), name, g, i)
  OBVIOUS
<1>3. exprVar[n] # NULL /\ type.t = "fn"
  BY <1>1, <1>2, CalleeNamed DEF NamedAt
<1>4. b.kind \in {"let", "param", "fn"} /\ exprVar[n] = EntryOf(b, g)
  BY <1>1, <1>2, NamedBound DEF NamedNode
<1>5. CASE b.kind = "fn"
  <2>1. b.at \in Fns
    BY <1>1, <1>2, <1>5, BoundToFn
  <2>2. fnEntry[b.at] = b.at
    BY <1>1, <2>1, FnEntryTyped DEF AllTypedPhases
  <2>3. exprVar[n] = b.at
    BY <1>4, <1>5, <2>2 DEF EntryOf
  <2>4. entries[b.at].fn # << >>
    BY <2>1 DEF FnsAlloced
  <2> QED BY <1>3, <2>3, <2>4
<1>6. CASE b.kind = "param"
  <2>1. type = ParamAt(g, b.at).type
    BY <1>2, <1>6, TypeOfParam
  <2>2. b.at \in 1 .. Len(prog.fns[g].params)
    BY <1>1, <1>2, <1>6, BoundToParam
  <2> QED BY <1>1, <1>3, <2>1, <2>2, WrittenTypes, NotFn
<1>7. CASE b.kind = "let"
  <2>1. PICK j : j = b.at
    OBVIOUS
  <2>2. j \in StmtsIn(g) /\ StmtAt(g, j).t = "let"
    BY <1>1, <1>2, <1>7, <2>1, LetBound
  <2>3. CASE StmtAt(g, j).type # NoType \/ j = i
    <3>1. type = StmtAt(g, j).type
      BY <1>2, <1>7, <2>1, <2>3, TypeOfLet
    <3> QED BY <1>1, <1>3, <2>2, <3>1, WrittenTypes, NotFn
  <2>4. CASE StmtAt(g, j).type = NoType /\ j # i
    <3>1. PICK v : v = StmtAt(g, j).value
      OBVIOUS
    <3>2. v \in Nodes /\ v \in B!Nodes(v)
      BY <1>1, <2>2, <2>4, <3>1, LetHasValue, NodesOf
    <3>3. type = TypeAt(g, j, v)
      <4>1. PICK types : types = B!TypeIn(g)
        OBVIOUS
      <4>2. type = types[<<j, v>>]
        BY <1>2, <1>7, <2>1, <2>4, <3>1, <4>1, TypeOfValue
      <4> QED BY <4>1, <4>2 DEF TypeAt
    <3>4. type # NoType /\ type.t \notin IntTypes
      BY <1>3 DEF NoType, Type, IntTypes
    <3>5. "internal_err" \in Unsized(type)
      BY <3>4, SizeFails
    <3> QED BY <1>3, <2>2, <3>1, <3>2, <3>3, <3>5, NodeDefect
  <2> QED BY <2>3, <2>4
<1> QED BY <1>4, <1>5, <1>6, <1>7

-----------------------------------------------------------------------------
(* How the walk of the translation goes on.                                *)
LEMMA CoversSame ==
  ASSUME prog' = prog, NEW n
  PROVE  ToTranslate(n)' <=> \E j \in 1 .. Len(todo') : Covers(todo'[j], n)
<1>1. ASSUME NEW t, NEW j, t = todo'[j] PROVE Covers(todo[j], n)' <=> Covers(t, n)
  <2>1. PICK m : m = t.n
    OBVIOUS
  <2>2. B!Nodes(m)' = B!Nodes(m)
    BY NodesSame
  <2>3. B!Nodes(todo[j].n)' = B!Nodes(m)
    BY <1>1, <2>1, <2>2
  <2> QED BY <1>1, <2>1, <2>3 DEF Covers
<1> QED BY <1>1 DEF ToTranslate

LEMMA SizedFrom ==
  ASSUME UNCHANGED <<prog, exprType>>,
         \A g \in Fns : \A i \in StmtsIn(g) : Translated(g, i)' \/ NowTranslating(g, i)' =>
           \A n \in B!Nodes(StmtAt(g, i).value) :
             \/ exprType[n].t \in IntTypes
             \/ NowTranslating(g, i)' /\ \E j \in 1 .. Len(todo') : Covers(todo'[j], n)
  PROVE  NodesSized'
<1>1. ASSUME NEW g \in Fns, NEW i \in StmtsIn(g), Translated(g, i)' \/ NowTranslating(g, i)',
             NEW n, (n \in B!Nodes(StmtAt(g, i).value))'
      PROVE  exprType'[n].t \in IntTypes \/ (NowTranslating(g, i)' /\ ToTranslate(n)')
  <2>1. PICK v : v = StmtAt(g, i).value
    OBVIOUS
  <2>2. B!Nodes(v)' = B!Nodes(v) /\ v = StmtAt(g, i).value'
    BY <2>1, NodesSame, TextSame
  <2>3. n \in B!Nodes(v)
    BY <1>1, <2>2
  <2> QED BY <1>1, <2>1, <2>3, CoversSame
<1>2. Fns' = Fns /\ \A g : StmtsIn(g)' = StmtsIn(g)
  BY TextSame
<1> QED BY <1>1, <1>2 DEF NodesSized

LEMMA WalkFrom ==
  ASSUME UNCHANGED <<prog, f, s>>,
         phase' = "translate" => \A j \in 1 .. Len(todo') :
           IF todo'[j].k = "stmt" THEN j = Len(todo') ELSE todo'[j].n \in B!Nodes(Stmt.value)
  PROVE  TranslateWalk'
<1>1. PICK v : v = Stmt.value
  OBVIOUS
<1>2. B!Nodes(v)' = B!Nodes(v) /\ v = Stmt.value'
  BY <1>1, NodesSame DEF Stmt, Fn
<1>3. B!Nodes(Stmt.value)' = B!Nodes(v)
  BY <1>2
<1> QED BY <1>1, <1>3 DEF TranslateWalk

LEMMA AtTranslate ==
  ASSUME Filled, TypesInv, IrInv, phase = "translate", todo # << >>
  PROVE  /\ Inv /\ TypeInv /\ prog \in Programs /\ f \in Fns /\ s \in StmtsIn(f) /\ Stmt = StmtAt(f, s)
         /\ Fn = prog.fns[f] /\ LetDone(f, s) /\ NowTranslating(f, s) /\ ~Naming
         /\ \A n \in B!Nodes(Stmt.value) : n \in Nodes /\ DoneT(n, f, s) /\ exprType[n] = TypeAt(f, s, n)
                                           /\ exprType[n] \in Types
         /\ Stmt.value # NULL => Stmt.value \in B!Nodes(Stmt.value)
         /\ Stmt.value = NULL => Stmt.t = "return"
         /\ Head(todo).k = "stmt" => Len(todo) = 1 /\ todo[1].k = "stmt"
         /\ Head(todo).k # "stmt" => /\ Node \in B!Nodes(Stmt.value) /\ Node \in Nodes /\ Node # 0
                                     /\ Stmt.value \in Nodes
                                     /\ \A k \in 1 .. Len(Expr(Node).args) :
                                          Expr(Node).args[k] \in B!Nodes(Stmt.value)
<1>1. Inv /\ TypeInv /\ prog \in Programs
  BY TypeInvOf
<1>2. f \in Fns /\ s \in StmtsIn(f) /\ Stmt = StmtAt(f, s) /\ Fn = prog.fns[f]
      /\ (Stmt.value = NULL => Stmt.t = "return") /\ (Stmt.value # NULL => Stmt.value \in Nodes)
  BY <1>1, CurrentStmt DEF StmtsIn, StmtAt, Stmt, Fn
<1>3. LetDone(f, s) /\ NowTranslating(f, s) /\ ~Naming
  BY DEF LetDone, NowTranslating, Naming
<1>4. \A n \in B!Nodes(Stmt.value) : n \in Nodes /\ DoneT(n, f, s) /\ exprType[n] = TypeAt(f, s, n)
                                     /\ exprType[n] \in Types
  <2>1. ASSUME NEW n \in B!Nodes(Stmt.value) PROVE n \in Nodes /\ DoneT(n, f, s)
    BY <1>1, <1>2, <1>3, AllDone, InStatement
  <2> QED BY <1>1, <2>1, DoneTyped
<1>5. todo # << >> /\ todo \in Seq(Tasks)
  BY <1>1, InvParts DEF ControlOK, Tasks
<1>6. Head(todo) = todo[1] /\ 1 \in 1 .. Len(todo) /\ Len(todo) \in Nat
  BY <1>5
<1>7. IF todo[1].k = "stmt" THEN 1 = Len(todo) ELSE todo[1].n \in B!Nodes(Stmt.value)
  BY <1>6 DEF IrInv, TranslateWalk
<1>8. ASSUME Head(todo).k # "stmt"
      PROVE  /\ Node \in B!Nodes(Stmt.value) /\ Node \in Nodes /\ Node # 0 /\ Stmt.value \in Nodes
             /\ \A k \in 1 .. Len(Expr(Node).args) : Expr(Node).args[k] \in B!Nodes(Stmt.value)
  <2>1. Node \in B!Nodes(Stmt.value)
    BY <1>6, <1>7, <1>8 DEF Node
  <2>2. Stmt.value \in Nodes /\ Node \in Nodes
    BY <1>1, <1>2, <2>1, InStatement
  <2> QED BY <1>1, <2>1, <2>2, NodesClosed DEF Nodes
<1>9. Stmt.value # NULL => Stmt.value \in B!Nodes(Stmt.value)
  BY <1>1, <1>2, NodesOf
<1> QED BY <1>1, <1>2, <1>3, <1>4, <1>6, <1>7, <1>8, <1>9

LEMMA IrGoesOn ==
  ASSUME Filled, TypesInv, IrInv, phase = "translate", todo # << >>, Head(todo).k # "stmt",
         UNCHANGED <<prog, exprType>>, NEW tasks \in Seq(Tasks), Continue(tasks),
         \A j \in 1 .. Len(tasks) : tasks[j].k # "stmt" /\ tasks[j].n \in B!Nodes(Stmt.value),
         \A n \in B!Nodes(Stmt.value) : Covers(Head(todo), n) =>
           exprType[n].t \in IntTypes \/ \E j \in 1 .. Len(tasks) : Covers(tasks[j], n)
  PROVE  NodesSized' /\ TranslateWalk'
<1>1. Inv /\ UNCHANGED <<f, s, p, phase>> /\ f \in Fns /\ s \in StmtsIn(f) /\ Stmt = StmtAt(f, s)
      /\ NowTranslating(f, s)
  BY AtTranslate DEF Continue
<1>2. /\ Len(tasks) \in Nat /\ Len(todo) \in Nat /\ Len(todo') = Len(tasks) + Len(todo) - 1
      /\ \A j \in 1 .. Len(tasks) : j \in 1 .. Len(todo') /\ todo'[j] = tasks[j]
      /\ \A j \in 2 .. Len(todo) : /\ Len(tasks) + j - 1 \in 1 .. Len(todo')
                                   /\ todo'[Len(tasks) + j - 1] = todo[j]
      /\ \A j \in 1 .. Len(todo') : j > Len(tasks) =>
           /\ j - Len(tasks) + 1 \in 2 .. Len(todo)
           /\ todo'[j] = todo[j - Len(tasks) + 1]
      /\ Head(todo) = todo[1]
  BY <1>1, Shifted
<1>3. TranslateWalk'
  <2>1. ASSUME NEW j \in 1 .. Len(todo')
        PROVE  IF todo'[j].k = "stmt" THEN j = Len(todo') ELSE todo'[j].n \in B!Nodes(Stmt.value)
    <3>1. CASE j <= Len(tasks)
      <4>1. j \in 1 .. Len(tasks) /\ todo'[j] = tasks[j]
        BY <1>2, <2>1, <3>1
      <4> QED BY <4>1
    <3>2. CASE j > Len(tasks)
      <4>1. PICK i \in 2 .. Len(todo) : i = j - Len(tasks) + 1 /\ todo'[j] = todo[i]
        BY <1>2, <3>2
      <4>2. i \in 1 .. Len(todo)
        BY <1>2
      <4>3. IF todo[i].k = "stmt" THEN i = Len(todo) ELSE todo[i].n \in B!Nodes(Stmt.value)
        BY <4>2 DEF IrInv, TranslateWalk
      <4>4. i = Len(todo) => j = Len(todo')
        BY <1>2, <4>1
      <4> QED BY <4>1, <4>3, <4>4
    <3> QED BY <1>2, <3>1, <3>2
  <2> QED BY <1>1, <2>1, WalkFrom
<1>4. ASSUME NEW n \in B!Nodes(Stmt.value)
      PROVE  exprType[n].t \in IntTypes \/ \E j \in 1 .. Len(todo') : Covers(todo'[j], n)
  <2>1. exprType[n].t \in IntTypes \/ ToTranslate(n)
    BY <1>1 DEF IrInv, NodesSized
  <2>2. CASE ToTranslate(n)
    <3>1. PICK j \in 1 .. Len(todo) : Covers(todo[j], n)
      BY <2>2 DEF ToTranslate
    <3>2. CASE j = 1
      <4>1. Covers(Head(todo), n)
        BY <1>2, <3>1, <3>2
      <4> QED BY <1>2, <4>1
    <3>3. CASE j # 1
      <4>1. j \in 2 .. Len(todo)
        BY <1>2, <3>3
      <4> QED BY <1>2, <3>1, <4>1
    <3> QED BY <3>2, <3>3
  <2> QED BY <2>1, <2>2

<1>5. ASSUME NEW g \in Fns, NEW i \in StmtsIn(g), Translated(g, i)' \/ NowTranslating(g, i)',
             NEW n \in B!Nodes(StmtAt(g, i).value)
      PROVE  \/ exprType[n].t \in IntTypes
             \/ NowTranslating(g, i)' /\ \E j \in 1 .. Len(todo') : Covers(todo'[j], n)
  <2>1. CASE g = f /\ i = s
    <3>1. ~Translated(g, i)'
      <4>1. g \in Nat /\ i \in Nat
        BY DEF Fns, StmtsIn
      <4> QED BY <1>1, <2>1, <4>1 DEF Translated
    <3>2. n \in B!Nodes(Stmt.value)
      BY <1>1, <1>5, <2>1
    <3> QED BY <1>4, <1>5, <3>1, <3>2
  <2>2. CASE ~(g = f /\ i = s)
    <3>1. Translated(g, i) /\ ~NowTranslating(g, i)
      BY <1>1, <1>5, <2>2 DEF Translated, NowTranslating
    <3> QED BY <1>5, <3>1 DEF IrInv, NodesSized
  <2> QED BY <2>1, <2>2
<1>6. NodesSized'
  BY <1>5, SizedFrom
<1> QED BY <1>3, <1>6

-----------------------------------------------------------------------------
(* The steps of the translation of an expression.                          *)
LEMMA IrStops ==
  ASSUME NodesSized, TranslateWalk, UNCHANGED <<prog, phase, f, s, todo, exprType>>
  PROVE  NodesSized' /\ TranslateWalk'
<1>1. TranslateWalk'
  BY WalkFrom DEF TranslateWalk
<1>2. ASSUME NEW g \in Fns, NEW i \in StmtsIn(g), Translated(g, i)' \/ NowTranslating(g, i)',
             NEW n \in B!Nodes(StmtAt(g, i).value)
      PROVE  \/ exprType[n].t \in IntTypes
             \/ NowTranslating(g, i)' /\ \E j \in 1 .. Len(todo') : Covers(todo'[j], n)
  <2>1. (Translated(g, i)' <=> Translated(g, i)) /\ (NowTranslating(g, i)' <=> NowTranslating(g, i))
    BY DEF Translated, NowTranslating
  <2>2. exprType[n].t \in IntTypes \/ (NowTranslating(g, i) /\ ToTranslate(n))
    BY <1>2, <2>1 DEF NodesSized
  <2> QED BY <2>1, <2>2 DEF ToTranslate
<1> QED BY <1>1, <1>2, SizedFrom

LEMMA FailRight ==
  ASSUME Filled, TypesInv, IrInv, phase = "translate", todo # << >>, NEW how, Fails(how),
         NEW n \in B!Nodes(Stmt.value), size_fails(exprType[n], how)
  PROVE  NodesSized' /\ TranslateWalk' /\ outcome' \in B!IrDefects
<1>1. f \in Fns /\ s \in StmtsIn(f) /\ Stmt = StmtAt(f, s) /\ exprType[n] = TypeAt(f, s, n)
  BY AtTranslate
<1>2. how \in Unsized(TypeAt(f, s, n))
  BY <1>1, SizeFails
<1>3. how \in B!IrDefects
  BY <1>1, <1>2, NodeDefect
<1>4. UNCHANGED <<prog, phase, f, s, todo, exprType>> /\ outcome' = how
  BY DEF Fails, Stop, annotations
<1> QED BY <1>3, <1>4, IrStops DEF IrInv

LEMMA HeadCovers ==
  ASSUME Filled, TypesInv, IrInv, phase = "translate", todo # << >>,
         \/ Head(todo).k = "enter" /\ Expr(Node).t \in {"int", "var"}
         \/ Head(todo).k = "leave"
  PROVE  \A n : Covers(Head(todo), n) => n = Node
<1>1. Head(todo).k # "stmt"
  OBVIOUS
<1>2. Node \in Nodes /\ Inv /\ prog \in Programs
  BY <1>1, AtTranslate
<1>3. ASSUME NEW n, Covers(Head(todo), n), n # Node PROVE FALSE
  <2>1. Head(todo).k = "enter" /\ n \in B!Nodes(Node) /\ Expr(Node).t \in {"int", "var"}
    BY <1>3 DEF Covers, Node
  <2>2. \E k \in 1 .. Len(Expr(Node).args) : n \in B!Nodes(Expr(Node).args[k])
    BY <1>2, <1>3, <2>1, NodesOf
  <2> QED BY <1>2, <2>1, <2>2, NoArgs
<1> QED BY <1>3

LEMMA DoneHere ==
  ASSUME Filled, TypesInv, IrInv, phase = "translate", todo # << >>, Head(todo).k # "stmt",
         \A n : Covers(Head(todo), n) => n = Node, exprType[Node].t \in IntTypes,
         UNCHANGED <<prog, exprType>>, Continue(<< >>)
  PROVE  NodesSized' /\ TranslateWalk'
<1>1. PICK tasks : tasks = << >>
  OBVIOUS
<1>2. tasks \in Seq(Tasks) /\ \A j \in 1 .. Len(tasks) : FALSE
  BY <1>1, EmptySeq
<1>3. Continue(tasks)
  BY <1>1
<1> QED BY <1>2, <1>3, IrGoesOn

LEMMA EmitRight ==
  ASSUME Filled, TypesInv, IrInv, In("translate"), todo # << >>, Head(todo).k # "stmt",
         \A n : Covers(Head(todo), n) => n = Node, NEW inst, EmitSized(inst)
  PROVE  NodesSized' /\ TranslateWalk' /\ (outcome' # "running" => outcome' \in B!IrDefects)
<1>1. phase = "translate" /\ outcome = "running"
  BY DEF In
<1>2. Node \in B!Nodes(Stmt.value)
  BY <1>1, AtTranslate
<1>3. CASE \E how \in Abnormal : size_fails(exprType[Node], how) /\ Fails(how)
  BY <1>1, <1>2, <1>3, FailRight
<1>4. CASE exprType[Node].t \in IntTypes /\ EmitResult(inst)
  <2>1. Continue(<< >>) /\ UNCHANGED <<prog, exprType>> /\ outcome' = "running"
    BY <1>1, <1>4 DEF EmitResult, Continue, annotations
  <2> QED BY <1>1, <1>4, <2>1, DoneHere
<1> QED BY <1>3, <1>4 DEF EmitSized

LEMMA TranslateIntRight ==
  ASSUME Filled, TypesInv, IrInv, TranslateInt
  PROVE  NodesSized' /\ TranslateWalk' /\ (outcome' # "running" => outcome' \in B!IrDefects)
<1>1. /\ In("translate") /\ todo # << >> /\ Head(todo).k = "enter"
      /\ Node # 0 => Expr(Node).t = "int"
  BY DEF TranslateInt, At, Node
<1>2. phase = "translate" /\ Head(todo).k # "stmt"
  BY <1>1 DEF In
<1>3. Node # 0
  BY <1>1, <1>2, AtTranslate
<1>4. \A n : Covers(Head(todo), n) => n = Node
  BY <1>1, <1>2, <1>3, HeadCovers
<1> QED BY <1>1, <1>2, <1>4, EmitRight DEF TranslateInt

LEMMA TranslateBinopRight ==
  ASSUME Filled, TypesInv, IrInv, TranslateBinop
  PROVE  NodesSized' /\ TranslateWalk' /\ (outcome' # "running" => outcome' \in B!IrDefects)
<1>1. /\ In("translate") /\ todo # << >> /\ Head(todo).k = "leave"
      /\ Node # 0 => Expr(Node).t = "binop"
  BY DEF TranslateBinop, At, Node
<1>2. phase = "translate" /\ Head(todo).k # "stmt"
  BY <1>1 DEF In
<1>3. /\ Node # 0 /\ Node \in Nodes /\ f \in Fns /\ s \in StmtsIn(f) /\ prog \in Programs
      /\ exprType[Node] \in Types /\ exprType[Node] = TypeAt(f, s, Node)
  BY <1>1, <1>2, AtTranslate
<1>4. \A n : Covers(Head(todo), n) => n = Node
  BY <1>1, <1>2, <1>3, HeadCovers
<1>5. ~(exprType[Node].t \in IntTypes /\ Expr(Node).op \in Comparisons)
  <2>1. exprType[Node] # B!IllTyped
    BY <1>3, NotIll
  <2>2. Expr(Node).op \in Comparisons => exprType[Node] = Type("bool")
    BY <1>1, <1>3, <2>1, BinopAt
  <2> QED BY <2>2 DEF Type, IntTypes
<1>6. EmitSized(NewInst(translate_binop(exprType[Node], Expr(Node).op), ArgRegs))
  BY <1>5 DEF TranslateBinop
<1> QED BY <1>1, <1>2, <1>4, <1>6, EmitRight

LEMMA TranslateCallRight ==
  ASSUME Filled, NamesInv, TypesInv, IrInv, TranslateCall
  PROVE  NodesSized' /\ TranslateWalk' /\ (outcome' # "running" => outcome' \in B!IrDefects)
<1>1. /\ In("translate") /\ todo # << >> /\ Head(todo).k = "leave"
      /\ Node # 0 => Expr(Node).t = "funcall"
  BY DEF TranslateCall, At, Node
<1>2. phase = "translate" /\ Head(todo).k # "stmt"
  BY <1>1 DEF In
<1>3. /\ Node # 0 /\ f \in Fns /\ s \in StmtsIn(f) /\ Stmt = StmtAt(f, s) /\ Node \in B!Nodes(Stmt.value)
  BY <1>1, <1>2, AtTranslate
<1>4. \A n : Covers(Head(todo), n) => n = Node
  BY <1>1, <1>2, <1>3, HeadCovers
<1>5. exprVar[Node] # NULL /\ (entries[exprVar[Node]].fn = << >> => "internal_err" \in B!IrDefects)
  BY <1>1, <1>2, <1>3, CalleeAlloced DEF IrInv
<1>6. PICK fn : fn = entries[exprVar[Node]].fn
  OBVIOUS
<1>7. IF exprType[Node].t \in IntTypes /\ fn = << >> THEN Fails("internal_err")
      ELSE EmitSized([NewInst("callfn", ArgRegs) EXCEPT !.fn = fn])
  BY <1>5, <1>6 DEF TranslateCall
<1>8. CASE exprType[Node].t \in IntTypes /\ fn = << >>
  <2>1. UNCHANGED <<prog, phase, f, s, todo, exprType>> /\ outcome' = "internal_err"
    BY <1>7, <1>8 DEF Fails, Stop, annotations
  <2> QED BY <1>5, <1>6, <1>8, <2>1, IrStops DEF IrInv
<1>9. CASE ~(exprType[Node].t \in IntTypes /\ fn = << >>)
  BY <1>1, <1>2, <1>4, <1>7, <1>9, EmitRight
<1> QED BY <1>8, <1>9

(* An entry that has a register, or gets one, is of an integer type.       *)
LEMMA RegSized ==
  ASSUME Inv, NEW own, Owned(own), NEW owner, NEW slot, Tracked(own, owner, slot), SizeInv(own, owner),
         phase = "translate", f \in Fns, NEW e \in 1 .. Len(entries), owner[e] \in {0, f},
         \A how \in Abnormal : ~reg_fails(e, how)
  PROVE  entries[e].type.t \in IntTypes
<1>1. owner[e] = f
  BY OwnEntry
<1>2. CASE entries[e].id # 0
  BY <1>1, <1>2 DEF SizeInv, EntrySizes, Mine, Typed
<1>3. CASE entries[e].id = 0
  <2>1. e # NULL
    BY InvParts DEF TableOK, NULL
  <2>2. \A how \in Abnormal : ~size_fails(entries[e].type, how)
    BY <1>3, <2>1 DEF reg_fails
  <2> QED BY <2>2, SizeOK
<1> QED BY <1>2, <1>3

LEMMA FilledOwned ==
  ASSUME Filled
  PROVE  \E own, owner, slot : Owned(own) /\ Tracked(own, owner, slot) /\ SizeInv(own, owner)
<1>1. PICK own : Owned(own)
  BY DEF Separate, Owned, Nodes, Fns, Filled
<1>2. Sized(own)
  BY <1>1 DEF Filled
<1> QED BY <1>1, <1>2 DEF Sized

LEMMA TranslateVarRight ==
  ASSUME Filled, NamesInv, TypesInv, IrInv, TranslateVar
  PROVE  NodesSized' /\ TranslateWalk' /\ (outcome' # "running" => outcome' \in B!IrDefects)
<1>1. /\ outcome = "running" /\ phase = "translate" /\ todo # << >> /\ Head(todo).k = "enter"
      /\ Node # 0 => Expr(Node).t = "var"
  BY DEF TranslateVar, At, Node, In
<1>2. /\ Inv /\ Node # 0 /\ f \in Fns /\ s \in StmtsIn(f) /\ Stmt = StmtAt(f, s)
      /\ Node \in B!Nodes(Stmt.value) /\ Node \in Nodes /\ exprType[Node] = TypeAt(f, s, Node)
  BY <1>1, AtTranslate
<1>3. \A n : Covers(Head(todo), n) => n = Node
  BY <1>1, <1>2, HeadCovers
<1>4. PICK e : e = exprVar[Node]
  OBVIOUS
<1>5. e # NULL /\ entries[e].type = exprType[Node]
  BY <1>1, <1>2, <1>4, VarRight DEF AllTypedPhases
<1>6. CASE \E how \in Abnormal : reg_fails(e, how) /\ Fails(how)
  BY <1>1, <1>2, <1>5, <1>6, FailRight DEF reg_fails
<1>7. CASE /\ \A how \in Abnormal : ~reg_fails(e, how)
           /\ Continue(<< >>) /\ UNCHANGED <<prog, annotations>>
  <2>1. PICK own, owner, slot : Owned(own) /\ Tracked(own, owner, slot) /\ SizeInv(own, owner)
    BY FilledOwned
  <2>2. owner[e] \in {0, own[Node]} /\ own[Node] = f
    BY <1>1, <1>2, <1>4, <1>5, <2>1, NodeOwned DEF Tracked, Bound
  <2>3. e \in 1 .. Len(entries)
    <3>1. e \in 0 .. Len(entries)
      BY <1>2, <1>4, InvParts DEF AnnotationsOK, Nodes
    <3> QED BY <1>5, <3>1 DEF NULL
  <2>4. exprType[Node].t \in IntTypes
    BY <1>1, <1>2, <1>5, <1>7, <2>1, <2>2, <2>3, RegSized
  <2>5. outcome' = "running" /\ UNCHANGED exprType
    BY <1>1, <1>7 DEF Continue, annotations
  <2> QED BY <1>1, <1>3, <1>7, <2>4, <2>5, DoneHere
<1> QED BY <1>4, <1>6, <1>7, Zenon DEF TranslateVar

LEMMA TranslateArgsRight ==
  ASSUME Filled, TypesInv, IrInv, NEW t, TranslateArgs(t)
  PROVE  NodesSized' /\ TranslateWalk' /\ outcome' = "running"
<1>1. /\ outcome = "running" /\ phase = "translate" /\ todo # << >> /\ Head(todo).k = "enter"
      /\ Head(todo).k # "stmt" /\ Continue(EnterAll(Expr(Node).args) \o <<Leave(Node)>>)
      /\ UNCHANGED <<prog, exprType>>
  BY DEF TranslateArgs, At, Node, In, annotations
<1>2. /\ Inv /\ prog \in Programs /\ Node \in B!Nodes(Stmt.value) /\ Node \in Nodes
      /\ \A k \in 1 .. Len(Expr(Node).args) : Expr(Node).args[k] \in B!Nodes(Stmt.value)
  BY <1>1, AtTranslate
<1>3. PICK list, tasks, last : /\ list = EnterAll(Expr(Node).args) /\ last = Leave(Node)
                               /\ tasks = list \o <<last>>
  OBVIOUS
<1>4. /\ list \in Seq(Tasks) /\ Len(list) = Len(Expr(Node).args)
      /\ \A k \in 1 .. Len(Expr(Node).args) : list[k] = Enter(Expr(Node).args[k])
  BY <1>2, <1>3, ArgsEntered
<1>5. last \in Tasks
  BY <1>2, <1>3 DEF Leave, Task, Tasks, Nodes
<1>6. /\ tasks \in Seq(Tasks) /\ Len(tasks) = Len(list) + 1 /\ Len(list) \in Nat
      /\ \A k \in 1 .. Len(list) : tasks[k] = list[k]
      /\ tasks[Len(list) + 1] = last
  <2>1. /\ tasks \in Seq(Tasks) /\ Len(tasks) = Len(list) + 1 /\ Len(list) \in Nat
        /\ \A k \in 1 .. Len(list) + 1 : tasks[k] = IF k <= Len(list) THEN list[k] ELSE last
    BY <1>3, <1>4, <1>5, OneMore
  <2> QED BY <2>1
<1>7. ASSUME NEW j \in 1 .. Len(tasks)
      PROVE  tasks[j].k # "stmt" /\ tasks[j].n \in B!Nodes(Stmt.value)
  <2>1. CASE j \in 1 .. Len(list)
    <3>1. tasks[j] = Enter(Expr(Node).args[j]) /\ j \in 1 .. Len(Expr(Node).args)
      BY <1>4, <1>6, <2>1
    <3> QED BY <1>2, <3>1 DEF Enter, Task
  <2>2. CASE j = Len(list) + 1
    <3>1. tasks[j] = Leave(Node)
      BY <1>3, <1>6, <2>2
    <3> QED BY <1>2, <3>1 DEF Leave, Task
  <2> QED BY <1>6, <2>1, <2>2
<1>8. ASSUME NEW n, Covers(Head(todo), n) PROVE \E j \in 1 .. Len(tasks) : Covers(tasks[j], n)
  <2>1. n \in B!Nodes(Node)
    BY <1>1, <1>8 DEF Covers, Node
  <2>2. CASE n = Node
    <3>1. tasks[Len(list) + 1] = Leave(Node) /\ Len(list) + 1 \in 1 .. Len(tasks)
      BY <1>3, <1>6
    <3>2. Covers(Leave(Node), n)
      BY <2>2 DEF Covers, Leave, Task
    <3> QED BY <3>1, <3>2
  <2>3. CASE n # Node
    <3>1. PICK k \in 1 .. Len(Expr(Node).args) : n \in B!Nodes(Expr(Node).args[k])
      BY <1>2, <2>1, <2>3, NodesOf
    <3>2. tasks[k] = Enter(Expr(Node).args[k]) /\ k \in 1 .. Len(tasks)
      BY <1>4, <1>6
    <3>3. Covers(Enter(Expr(Node).args[k]), n)
      BY <3>1 DEF Covers, Enter, Task
    <3> QED BY <3>2, <3>3
  <2> QED BY <2>2, <2>3
<1>9. Continue(tasks) /\ outcome' = "running"
  BY <1>1, <1>3 DEF Continue
<1> QED BY <1>1, <1>6, <1>7, <1>8, <1>9, IrGoesOn

-----------------------------------------------------------------------------
(* The steps between the statements.                                       *)
LEMMA StmtDone ==
  ASSUME NodesSized, phase = "translate", f \in Fns, s \in StmtsIn(f), NextStmt, todo' = << >>,
         UNCHANGED <<prog, exprType>>,
         \A n \in B!Nodes(StmtAt(f, s).value) : exprType[n].t \in IntTypes
  PROVE  NodesSized' /\ TranslateWalk'
<1>1. UNCHANGED <<f, phase>> /\ s' = s + 1 /\ s \in Nat
  BY DEF NextStmt, StmtsIn
<1>2. TranslateWalk'
  <2>1. \A j \in 1 .. Len(todo') : FALSE
    BY EmptySeq
  <2> QED BY <2>1 DEF TranslateWalk
<1>3. ASSUME NEW g \in Fns, NEW i \in StmtsIn(g), Translated(g, i)' \/ NowTranslating(g, i)',
             NEW n \in B!Nodes(StmtAt(g, i).value)
      PROVE  exprType[n].t \in IntTypes
  <2>1. Translated(g, i)'
    BY <1>3 DEF NowTranslating
  <2>2. i \in Nat
    BY DEF StmtsIn
  <2>3. Translated(g, i) \/ (g = f /\ i = s)
    BY <1>1, <2>1, <2>2 DEF Translated
  <2>4. CASE g = f /\ i = s
    BY <1>3, <2>4
  <2>5. CASE ~(g = f /\ i = s)
    BY <1>3, <2>3, <2>5 DEF NodesSized, NowTranslating
  <2> QED BY <2>4, <2>5
<1> QED BY <1>2, <1>3, SizedFrom

LEMMA StmtSized ==
  ASSUME Filled, TypesInv, IrInv, phase = "translate", todo # << >>, Head(todo).k = "stmt"
  PROVE  \A n \in B!Nodes(StmtAt(f, s).value) : exprType[n].t \in IntTypes
<1>1. /\ f \in Fns /\ s \in StmtsIn(f) /\ NowTranslating(f, s) /\ Len(todo) = 1 /\ todo[1].k = "stmt"
  BY AtTranslate
<1>2. \A n : ~ToTranslate(n)
  BY <1>1 DEF ToTranslate, Covers
<1> QED BY <1>1, <1>2 DEF IrInv, NodesSized

LEMMA TranslateStmtRight ==
  ASSUME Filled, IrInv, TranslateStmt
  PROVE  NodesSized' /\ TranslateWalk' /\ outcome' = "running"
<1>1. /\ outcome = "running" /\ phase = "translate" /\ f <= Len(prog.fns) /\ todo = << >>
      /\ s <= Len(Fn.stmts) /\ UNCHANGED <<prog, exprType>>
  BY DEF TranslateStmt, AtStmt, BetweenStmts, InFn, In, annotations
<1>2. Inv /\ prog \in Programs /\ f \in Fns /\ s \in StmtsIn(f) /\ Stmt = StmtAt(f, s)
  BY <1>1, TypeInvOf, ControlTypes DEF Fns, StmtsIn, StmtAt, Stmt, Fn
<1>3. PICK v : v = Stmt.value
  OBVIOUS
<1>4. v # NULL => v \in Nodes /\ v \in B!Nodes(v)
  BY <1>2, <1>3, ValueNode, NodesOf
<1>5. v = NULL => B!Nodes(v) = {}
  BY <1>2, NoNodes
<1>6. CASE v = NULL /\ SkipStmt
  <2>1. \A n \in B!Nodes(StmtAt(f, s).value) : FALSE
    BY <1>2, <1>3, <1>5, <1>6
  <2>2. NextStmt /\ todo' = << >> /\ outcome' = "running"
    BY <1>1, <1>6 DEF SkipStmt, NextStmt
  <2> QED BY <1>1, <1>2, <2>1, <2>2, StmtDone DEF IrInv
<1>7. CASE Walk((IF v = NULL THEN << >> ELSE <<Enter(v)>>) \o <<EndStmt>>)
  <2>1. PICK first : first = IF v = NULL THEN << >> ELSE <<Enter(v)>>
    OBVIOUS
  <2>2. /\ todo' = first \o <<EndStmt>> /\ UNCHANGED <<phase, f, p, s>> /\ outcome' = "running"
    BY <1>1, <1>7, <2>1 DEF Walk
  <2>3. EndStmt \in Tasks /\ EndStmt.k = "stmt"
    BY <1>2, ProgramShape DEF EndStmt, Task, Tasks
  <2>4. /\ first \in Seq(Tasks) /\ Len(first) = (IF v = NULL THEN 0 ELSE 1)
        /\ v # NULL => first[1] = Enter(v)
    <3>1. CASE v = NULL
      BY <2>1, <3>1, EmptySeq
    <3>2. CASE v # NULL
      <4>1. Enter(v) \in Tasks
        BY <1>4, <3>2 DEF Enter, Task, Tasks, Nodes
      <4> QED BY <2>1, <3>2, <4>1, OneElement
    <3> QED BY <3>1, <3>2
  <2>5. /\ Len(todo') = Len(first) + 1
        /\ \A j \in 1 .. Len(first) + 1 : todo'[j] = IF j <= Len(first) THEN first[j] ELSE EndStmt
    BY <2>2, <2>3, <2>4, OneMore
  <2>6. TranslateWalk'
    <3>1. ASSUME NEW j \in 1 .. Len(todo')
          PROVE  IF todo'[j].k = "stmt" THEN j = Len(todo') ELSE todo'[j].n \in B!Nodes(Stmt.value)
      <4>1. CASE j <= Len(first)
        <5>1. v # NULL /\ todo'[j] = Enter(v)
          BY <2>4, <2>5, <4>1
        <5> QED BY <1>3, <1>4, <5>1 DEF Enter, Task
      <4>2. CASE ~(j <= Len(first))
        <5>1. j = Len(todo') /\ todo'[j] = EndStmt
          BY <2>4, <2>5, <4>2
        <5> QED BY <2>3, <5>1
      <4> QED BY <4>1, <4>2
    <3> QED BY <2>2, <1>1, <3>1, WalkFrom
  <2>7. ASSUME NEW g \in Fns, NEW i \in StmtsIn(g), Translated(g, i)' \/ NowTranslating(g, i)',
               NEW n \in B!Nodes(StmtAt(g, i).value)
        PROVE  \/ exprType[n].t \in IntTypes
               \/ NowTranslating(g, i)' /\ \E j \in 1 .. Len(todo') : Covers(todo'[j], n)
    <3>1. Translated(g, i)' <=> Translated(g, i)
      BY <2>2 DEF Translated
    <3>2. CASE Translated(g, i)
      BY <1>1, <2>7, <3>2 DEF IrInv, NodesSized, NowTranslating
    <3>3. CASE ~Translated(g, i)
      <4>1. NowTranslating(g, i)' /\ g = f /\ i = s
        BY <2>2, <2>7, <3>1, <3>3 DEF NowTranslating
      <4>2. v # NULL /\ n \in B!Nodes(v)
        BY <1>2, <1>3, <1>5, <2>7, <4>1
      <4>3. 1 \in 1 .. Len(todo') /\ todo'[1] = Enter(v)
        BY <2>4, <2>5, <4>2
      <4>4. Covers(Enter(v), n)
        BY <4>2 DEF Covers, Enter, Task
      <4> QED BY <4>1, <4>3, <4>4
    <3> QED BY <3>2, <3>3
  <2> QED BY <1>1, <2>2, <2>6, <2>7, SizedFrom
<1> QED BY <1>3, <1>6, <1>7 DEF TranslateStmt

LEMMA EndExprRight ==
  ASSUME Filled, TypesInv, IrInv, EndExpr
  PROVE  NodesSized' /\ TranslateWalk' /\ (outcome' # "running" => outcome' \in B!IrDefects)
<1>1. /\ outcome = "running" /\ phase = "translate" /\ todo # << >> /\ Head(todo).k = "stmt"
      /\ Stmt.t = "expr"
  BY DEF EndExpr, At, In
<1>2. /\ f \in Fns /\ s \in StmtsIn(f) /\ Stmt.value \in B!Nodes(Stmt.value)
  BY <1>1, AtTranslate
<1>3. CASE \E how \in Abnormal : size_fails(exprType[Stmt.value], how) /\ Fails(how)
  BY <1>1, <1>2, <1>3, FailRight
<1>4. CASE NextStmt /\ todo' = << >> /\ UNCHANGED <<prog, annotations>>
  <2>1. outcome' = "running" /\ UNCHANGED exprType
    BY <1>1, <1>4 DEF NextStmt, annotations
  <2> QED BY <1>1, <1>2, <1>4, <2>1, StmtSized, StmtDone DEF IrInv
<1> QED BY <1>3, <1>4, Zenon DEF EndExpr

LEMMA EndReturnRight ==
  ASSUME Filled, TypesInv, IrInv, EndReturn
  PROVE  NodesSized' /\ TranslateWalk' /\ outcome' = "running"
<1>1. /\ outcome = "running" /\ phase = "translate" /\ todo # << >> /\ Head(todo).k = "stmt"
      /\ NextStmt /\ todo' = << >> /\ UNCHANGED <<prog, exprType>>
  BY DEF EndReturn, At, In, annotations
<1>2. f \in Fns /\ s \in StmtsIn(f) /\ outcome' = "running"
  BY <1>1, AtTranslate DEF NextStmt
<1> QED BY <1>1, <1>2, StmtSized, StmtDone DEF IrInv

LEMMA EndLetRight ==
  ASSUME Filled, NamesInv, TypesInv, IrInv, EndLet
  PROVE  NodesSized' /\ TranslateWalk' /\ (outcome' # "running" => outcome' \in B!IrDefects)
<1>1. /\ outcome = "running" /\ phase = "translate" /\ todo # << >> /\ Head(todo).k = "stmt"
      /\ Stmt.t = "let"
  BY DEF EndLet, At, In
<1>2. PICK v, e, type, given : /\ v = Stmt.value /\ e = stmtVar[f][s] /\ type = stmtType[f][s]
                               /\ given = exprType[v]
  OBVIOUS
<1>3. /\ Inv /\ TypeInv /\ f \in Fns /\ s \in StmtsIn(f) /\ Stmt = StmtAt(f, s) /\ ~Naming /\ LetDone(f, s)
      /\ v \in B!Nodes(v) /\ v # NULL /\ given = TypeAt(f, s, v)
  BY <1>1, <1>2, AtTranslate
<1>4. e # NULL /\ entries[e].type = type
  BY <1>1, <1>2, <1>3, LetEntryTyped
<1>5. ASSUME NEW how, size_fails(type, how) PROVE size_fails(given, how)
  <2>1. CASE StmtAt(f, s).type = NoType
    <3>1. type = TypeAt(f, s, StmtAt(f, s).value)
      BY <1>1, <1>2, <1>3, <2>1 DEF TypesInv, LetRight
    <3> QED BY <1>2, <1>3, <1>5, <3>1
  <2>2. CASE StmtAt(f, s).type # NoType
    <3>1. type # NoType
      BY <1>1, <1>2, <1>3, <2>2 DEF TypesInv, LetRight
    <3>2. given.t = type.t
      BY <1>1, <1>2, <1>3, <3>1 DEF TypeInv, LetsChecked, LetChecked, StmtsIn, StmtAt
    <3>3. type \in Types
      BY <1>2, <1>3, InvParts DEF AnnotationsOK, Fns, StmtsIn
    <3>4. given # NoType
      BY <3>1, <3>2, <3>3, NotNull
    <3> QED BY <1>5, <3>1, <3>2, <3>4 DEF size_fails
  <2> QED BY <2>1, <2>2
<1>6. CASE \E how \in Abnormal : (size_fails(given, how) \/ reg_fails(e, how)) /\ Fails(how)
  <2>1. PICK how \in Abnormal : (size_fails(given, how) \/ reg_fails(e, how)) /\ Fails(how)
    BY <1>6
  <2>2. size_fails(given, how)
    BY <1>4, <1>5, <2>1 DEF reg_fails
  <2> QED BY <1>1, <1>2, <1>3, <2>1, <2>2, FailRight
<1>7. CASE NextStmt /\ todo' = << >> /\ UNCHANGED <<prog, annotations>>
  <2>1. outcome' = "running" /\ UNCHANGED exprType
    BY <1>1, <1>7 DEF NextStmt, annotations
  <2> QED BY <1>1, <1>3, <1>7, <2>1, StmtSized, StmtDone DEF IrInv
<1> QED BY <1>2, <1>6, <1>7, Zenon DEF EndLet

-----------------------------------------------------------------------------
(* The parameters, and the steps from function to function.                *)
LEMMA ParamsFrom ==
  ASSUME ParamsSized, UNCHANGED <<prog, paramEntry>>,
         \A g \in Fns : \A k \in 1 .. Len(prog.fns[g].params) : ParamDone(g, k)' =>
           \/ ParamDone(g, k)
           \/ paramEntry[g][k] # NULL /\ ParamAt(g, k).type.t \in IntTypes
  PROVE  ParamsSized'
<1>1. Fns' = Fns /\ \A g, k : ParamAt(g, k)' = ParamAt(g, k)
  BY TextSame
<1> QED BY <1>1 DEF ParamsSized

LEMMA NodesFrom ==
  ASSUME NodesSized, TranslateWalk, UNCHANGED <<prog, exprType>>, todo = << >>, todo' = << >>,
         \A g \in Fns : \A i \in StmtsIn(g) : Translated(g, i)' => Translated(g, i)
  PROVE  NodesSized' /\ TranslateWalk'
<1>1. \A j \in 1 .. Len(todo') : FALSE
  BY EmptySeq
<1>2. TranslateWalk'
  BY <1>1 DEF TranslateWalk
<1>3. ASSUME NEW g \in Fns, NEW i \in StmtsIn(g), Translated(g, i)' \/ NowTranslating(g, i)',
             NEW n \in B!Nodes(StmtAt(g, i).value)
      PROVE  exprType[n].t \in IntTypes
  <2>1. Translated(g, i) /\ ~NowTranslating(g, i)
    BY <1>3 DEF NowTranslating
  <2> QED BY <1>3, <2>1 DEF NodesSized
<1> QED BY <1>2, <1>3, SizedFrom

LEMMA TranslateParamRight ==
  ASSUME Filled, NamesInv, TypesInv, IrInv, TranslateParam
  PROVE  /\ NodesSized' /\ TranslateWalk' /\ ParamsSized'
         /\ outcome' # "running" => outcome' \in B!IrDefects
<1>1. /\ outcome = "running" /\ phase = "translate" /\ f <= Len(prog.fns) /\ p \in 1 .. Len(Fn.params)
  BY DEF TranslateParam, AtParam, InFn, In
<1>2. Inv /\ TypeInv /\ prog \in Programs /\ f \in Fns /\ Fn = prog.fns[f] /\ ~Naming
  BY <1>1, TypeInvOf, ControlTypes DEF Fns, Fn, Naming
<1>3. PICK e : e = paramEntry[f][p]
  OBVIOUS
<1>4. /\ p \in 1 .. Len(paramEntry[f])
      /\ e # NULL <=> \A j \in 1 .. p - 1 : ParamAt(f, j).name # ParamAt(f, p).name
      /\ e # NULL => entries[e].type = ParamAt(f, p).type
  BY <1>1, <1>2, <1>3, ParamEntryTyped DEF TypesInv
<1>5. e # NULL <=> B!First(B!ParamsNamed(ParamAt(f, p).name, f)) = p
  BY <1>1, <1>2, <1>4, ParamFirst
<1>6. CASE \E how \in Abnormal : reg_fails(e, how) /\ Fails(how)
  <2>1. PICK how \in Abnormal : reg_fails(e, how) /\ Fails(how)
    BY <1>6
  <2>2. how \in ParamDefects(f, p)
    <3>1. CASE e = NULL
      BY <1>5, <2>1, <3>1 DEF reg_fails, ParamDefects
    <3>2. CASE e # NULL
      <4>1. size_fails(ParamAt(f, p).type, how)
        BY <1>4, <2>1, <3>2 DEF reg_fails
      <4> QED BY <1>5, <3>2, <4>1, SizeFails DEF ParamDefects
    <3> QED BY <3>1, <3>2
  <2>3. outcome' = how /\ UNCHANGED <<prog, phase, f, p, s, todo, exprType, paramEntry>>
    BY <2>1 DEF Fails, Stop, annotations
  <2>4. ParamsSized'
    BY <2>3, ParamsFrom DEF IrInv, ParamDone
  <2> QED BY <1>1, <1>2, <2>2, <2>3, <2>4, IrStops, ParamDefect DEF IrInv
<1>7. CASE /\ \A how \in Abnormal : ~reg_fails(e, how)
           /\ p' = p + 1
           /\ UNCHANGED <<prog, phase, outcome, f, s, todo, annotations>>
  <2>1. PICK own, owner, slot : Owned(own) /\ Tracked(own, owner, slot) /\ SizeInv(own, owner)
    BY FilledOwned
  <2>2. e # NULL
    BY <1>7 DEF reg_fails, Abnormal
  <2>3. owner[e] = f
    BY <1>2, <1>3, <1>4, <2>1, <2>2 DEF Tracked, Placed
  <2>4. e \in 1 .. Len(entries)
    BY <1>2, <1>3, <1>4, <2>2, EntriesOf
  <2>5. ParamAt(f, p).type.t \in IntTypes
    BY <1>1, <1>2, <1>4, <1>7, <2>1, <2>2, <2>3, <2>4, RegSized
  <2>6. UNCHANGED <<exprType, paramEntry>>
    BY <1>7 DEF annotations
  <2>7. ParamsSized'
    <3>1. ASSUME NEW g \in Fns, NEW k \in 1 .. Len(prog.fns[g].params), ParamDone(g, k)'
          PROVE  \/ ParamDone(g, k)
                 \/ paramEntry[g][k] # NULL /\ ParamAt(g, k).type.t \in IntTypes
      <4>1. p \in Nat /\ k \in Nat
        BY <1>1
      <4>2. g < f \/ (g = f /\ k < p + 1)
        <5>1. phase' = "translate" /\ f' = f /\ p' = p + 1
          BY <1>1, <1>7
        <5> QED BY <3>1, <5>1 DEF ParamDone
      <4>3. g < f \/ (g = f /\ k < p) \/ (g = f /\ k = p)
        BY <4>1, <4>2
      <4>4. ParamDone(g, k) \/ (g = f /\ k = p)
        BY <1>1, <4>3 DEF ParamDone
      <4> QED BY <1>3, <2>2, <2>5, <4>4
    <3> QED BY <1>7, <2>6, <3>1, ParamsFrom DEF IrInv
  <2> QED BY <1>1, <1>7, <2>6, <2>7, IrStops DEF IrInv
<1> QED BY <1>3, <1>6, <1>7, Zenon DEF TranslateParam

LEMMA IrEnterFnRight ==
  ASSUME Filled, IrInv, Ir_EnterFn
  PROVE  NodesSized' /\ TranslateWalk' /\ ParamsSized' /\ outcome' = "running"
<1>1. /\ outcome' = "running" /\ p' = 1 /\ UNCHANGED <<prog, phase, f, s, todo, exprType, paramEntry>>
  BY DEF Ir_EnterFn, InFn, In, annotations
<1>2. ParamsSized'
  <2>1. ASSUME NEW g \in Fns, NEW k \in 1 .. Len(prog.fns[g].params), ParamDone(g, k)'
        PROVE  ParamDone(g, k)
    BY <1>1, <2>1 DEF ParamDone
  <2> QED BY <1>1, <2>1, ParamsFrom DEF IrInv
<1> QED BY <1>1, <1>2, IrStops DEF IrInv

LEMMA IrLeaveFnRight ==
  ASSUME Filled, IrInv, Ir_LeaveFn
  PROVE  NodesSized' /\ TranslateWalk' /\ ParamsSized' /\ outcome' = "running"
<1>1. /\ outcome' = "running" /\ phase = "translate" /\ f <= Len(prog.fns) /\ p > Len(Fn.params)
      /\ todo = << >> /\ s > Len(Fn.stmts) /\ f' = f + 1 /\ p' = 0 /\ s' = 1
      /\ UNCHANGED <<prog, phase, todo, exprType, paramEntry>>
  BY DEF Ir_LeaveFn, LeaveFn, BetweenStmts, NextFn, InFn, In, annotations
<1>2. /\ prog \in Programs /\ f \in Fns /\ Fn = prog.fns[f] /\ p \in Nat /\ s \in Nat
      /\ Len(prog.fns[f].params) \in Nat /\ Len(prog.fns[f].stmts) \in Nat
  BY <1>1, TypeInvOf, ControlTypes, ProgramShape, LenProperties DEF Fns, Fn
<1>3. ASSUME NEW g \in Fns, g < f + 1 PROVE g < f \/ g = f
  BY <1>2, <1>3 DEF Fns
<1>4. ParamsSized'
  <2>1. ASSUME NEW g \in Fns, NEW k \in 1 .. Len(prog.fns[g].params), ParamDone(g, k)'
        PROVE  ParamDone(g, k)
    <3>1. g < f + 1
      BY <1>1, <2>1 DEF ParamDone
    <3>2. CASE g < f
      BY <1>1, <3>2 DEF ParamDone
    <3>3. CASE g = f
      <4>1. k < p
        BY <1>1, <1>2, <3>3
      <4> QED BY <1>1, <3>3, <4>1 DEF ParamDone
    <3> QED BY <1>3, <3>1, <3>2, <3>3
  <2> QED BY <1>1, <2>1, ParamsFrom DEF IrInv
<1>5. ASSUME NEW g \in Fns, NEW i \in StmtsIn(g), Translated(g, i)' PROVE Translated(g, i)
  <2>1. g < f + 1
    <3>1. ~(i < 1)
      BY DEF StmtsIn
    <3> QED BY <1>1, <1>5, <3>1 DEF Translated
  <2>2. CASE g < f
    BY <1>1, <2>2 DEF Translated
  <2>3. CASE g = f
    <3>1. i < s
      BY <1>1, <1>2, <2>3 DEF StmtsIn
    <3> QED BY <1>1, <2>3, <3>1 DEF Translated
  <2> QED BY <1>3, <2>1, <2>2, <2>3
<1> QED BY <1>1, <1>4, <1>5, NodesFrom DEF IrInv

-----------------------------------------------------------------------------
(* Every step of the translation.                                          *)
LEMMA SamePlace ==
  ASSUME \/ TranslateInt \/ TranslateVar \/ (\E t : TranslateArgs(t)) \/ TranslateBinop
         \/ TranslateCall \/ TranslateStmt \/ EndLet \/ EndExpr \/ EndReturn
  PROVE  UNCHANGED <<prog, phase, f, p, paramEntry>>
<1>1. ASSUME NEW how, Fails(how) PROVE UNCHANGED <<prog, phase, f, p, paramEntry>>
  BY <1>1 DEF Fails, Stop, annotations
<1>2. ASSUME NEW inst, EmitSized(inst) PROVE UNCHANGED <<prog, phase, f, p, paramEntry>>
  BY <1>1, <1>2 DEF EmitSized, EmitResult, Continue, annotations
<1>3. CASE TranslateInt \/ TranslateBinop \/ TranslateCall
  BY <1>1, <1>2, <1>3, Zenon DEF TranslateInt, TranslateBinop, TranslateCall
<1>4. CASE TranslateVar
  <2>1. UNCHANGED <<prog, phase, f, p, annotations>> \/ \E how : Fails(how)
    BY <1>4, Zenon DEF TranslateVar, Continue
  <2> QED BY <1>1, <2>1 DEF annotations
<1>5. CASE \E t : TranslateArgs(t)
  BY <1>5 DEF TranslateArgs, Continue, annotations
<1>6. CASE TranslateStmt
  BY <1>6 DEF TranslateStmt, SkipStmt, NextStmt, Walk, annotations
<1>7. CASE EndLet
  <2>1. UNCHANGED <<prog, phase, f, p, annotations>> \/ \E how : Fails(how)
    BY <1>7, Zenon DEF EndLet, NextStmt
  <2> QED BY <1>1, <2>1 DEF annotations
<1>8. CASE EndExpr \/ EndReturn
  BY <1>1, <1>8 DEF EndExpr, EndReturn, NextStmt, annotations
<1> QED BY <1>3, <1>4, <1>5, <1>6, <1>7, <1>8

LEMMA ParamsSame ==
  ASSUME IrInv, UNCHANGED <<prog, phase, f, p, paramEntry>>
  PROVE  ParamsSized'
<1>1. ASSUME NEW g \in Fns, NEW k \in 1 .. Len(prog.fns[g].params), ParamDone(g, k)'
      PROVE  ParamDone(g, k)
  BY <1>1 DEF ParamDone
<1> QED BY <1>1, ParamsFrom DEF IrInv

LEMMA TranslateRight ==
  ASSUME Filled, NamesInv, TypesInv, IrInv, Ir_Next, ~AllocFn
  PROVE  /\ NodesSized' /\ TranslateWalk' /\ ParamsSized'
         /\ outcome' # "running" => outcome' \in B!IrDefects
<1>1. CASE Ir_EnterFn \/ Ir_LeaveFn \/ TranslateParam
  BY <1>1, IrEnterFnRight, IrLeaveFnRight, TranslateParamRight
<1>2. CASE \/ TranslateInt \/ TranslateVar \/ (\E t : TranslateArgs(t)) \/ TranslateBinop
           \/ TranslateCall \/ TranslateStmt \/ EndLet \/ EndExpr \/ EndReturn
  <2>1. ParamsSized'
    BY <1>2, SamePlace, ParamsSame
  <2>2. CASE TranslateInt \/ TranslateVar \/ TranslateBinop \/ TranslateCall
    BY <2>1, <2>2, TranslateIntRight, TranslateVarRight, TranslateBinopRight, TranslateCallRight
  <2>3. CASE \E t : TranslateArgs(t)
    BY <2>1, <2>3, TranslateArgsRight
  <2>4. CASE TranslateStmt \/ EndLet \/ EndExpr \/ EndReturn
    BY <2>1, <2>4, TranslateStmtRight, EndLetRight, EndExprRight, EndReturnRight
  <2> QED BY <1>2, <2>2, <2>3, <2>4
<1> QED BY <1>1, <1>2 DEF Ir_Next

-----------------------------------------------------------------------------
(* Outside the translation nothing is claimed of it.                       *)
LEMMA BeforeIr ==
  ASSUME phase' \notin {"translate", "done"}
  PROVE  ParamsSized' /\ NodesSized' /\ TranslateWalk'
  BY DEF ParamsSized, ParamDone, NodesSized, Translated, NowTranslating, TranslateWalk

LEMMA EndPhaseIr ==
  ASSUME Filled, IrInv, EndPhase
  PROVE  ParamsSized' /\ NodesSized' /\ TranslateWalk'
<1>1. /\ f > Len(prog.fns) /\ phase' = NextPhase[phase] /\ phase \in DOMAIN NextPhase
      /\ f' = 1 /\ p' = 0 /\ s' = 1 /\ UNCHANGED <<prog, todo, exprType, paramEntry>>
  BY TypeInvOf, ControlTypes DEF EndPhase, Phases, annotations
<1>2. todo = << >> /\ prog \in Programs
  BY <1>1, TypeInvOf, InvParts, ControlTypes DEF WalkOK
<1>3. ASSUME NEW g \in Fns PROVE g < f /\ ~(g < 1)
  BY <1>1, TypeInvOf, ControlTypes DEF Fns
<1>4. CASE phase' \notin {"translate", "done"}
  BY <1>4, BeforeIr
<1>5. CASE phase = "alloc_fns"
  <2>1. phase' = "translate"
    BY <1>1, <1>5 DEF NextPhase
  <2>2. ParamsSized'
    <3>1. ASSUME NEW g \in Fns, NEW k \in 1 .. Len(prog.fns[g].params), ParamDone(g, k)'
          PROVE  FALSE
      <4>1. k < 0
        BY <1>1, <1>3, <2>1, <3>1 DEF ParamDone
      <4> QED BY <4>1
    <3> QED BY <1>1, <3>1, ParamsFrom DEF IrInv
  <2>3. ASSUME NEW g \in Fns, NEW i \in StmtsIn(g), Translated(g, i)' PROVE FALSE
    <3>1. i < 1
      BY <1>1, <1>3, <2>1, <2>3 DEF Translated
    <3> QED BY <3>1 DEF StmtsIn
  <2> QED BY <1>1, <1>2, <2>2, <2>3, NodesFrom DEF IrInv
<1>6. CASE phase = "translate"
  <2>1. \A g \in Fns : \A k : ParamDone(g, k)
    BY <1>3, <1>6 DEF ParamDone
  <2>2. \A g \in Fns : \A i : Translated(g, i)
    BY <1>3, <1>6 DEF Translated
  <2>3. ParamsSized'
    BY <1>1, <2>1, ParamsFrom DEF IrInv
  <2> QED BY <1>1, <1>2, <2>2, <2>3, NodesFrom DEF IrInv
<1>7. phase' \in {"translate", "done"} => phase \in {"alloc_fns", "translate"}
  BY <1>1 DEF NextPhase
<1> QED BY <1>4, <1>5, <1>6, <1>7

LEMMA IrCases ==
  ASSUME Filled, Next, phase' \in {"translate", "done"}
  PROVE  EndPhase \/ (Ir_Next /\ ~AllocFn)
<1>1. CASE Names_Next \/ Types_Next \/ CheckReturns
  BY <1>1, TypeInvOf, NamesPhase, TypesPhase DEF CheckReturns, InFn, In, Stop, NextFn
<1>2. CASE AllocFn
  BY <1>2 DEF AllocFn, InFn, In, NextFn
<1> QED BY <1>1, <1>2 DEF Next, Semantics

-----------------------------------------------------------------------------
(* Every function that was allocated is still found at its entry.          *)
LEMMA FnsFrom ==
  ASSUME FnsAlloced, prog' = prog,
         \A g \in Fns : (phase' = "alloc_fns" /\ g < f') \/ phase' \in {"translate", "done"} =>
           \/ entries'[g].fn # << >>
           \/ /\ (phase = "alloc_fns" /\ g < f) \/ phase \in {"translate", "done"}
              /\ entries'[g].fn = entries[g].fn
  PROVE  FnsAlloced'
<1>1. Fns' = Fns
  BY DEF Fns
<1> QED BY <1>1 DEF FnsAlloced

LEMMA AllocFnFns ==
  ASSUME Filled, FnsAlloced, AllocFn
  PROVE  FnsAlloced'
<1>1. /\ phase = "alloc_fns" /\ f <= Len(prog.fns) /\ phase' = phase /\ prog' = prog /\ f' = f + 1
      /\ entries' = [entries EXCEPT ![fnEntry[f]].fn = <<fnsAlloc', Len(ssaFns) + 1>>]
  BY DEF AllocFn, InFn, In, NextFn
<1>2. f \in Fns /\ f \in Nat
  BY <1>1, TypeInvOf, ControlTypes DEF Fns
<1>3. fnEntry[f] = f /\ f \in 1 .. Len(entries)
  BY <1>1, <1>2, FnEntryTyped
<1>4. entries \in Seq([pos : Names, type : Types, id : Nat, fn : FnPointers])
  BY TypeInvOf, InvParts DEF TableOK
<1>5. entries'[f].fn = <<fnsAlloc', Len(ssaFns) + 1>>
  BY <1>1, <1>3, <1>4
<1>6. entries'[f].fn # << >>
  BY <1>5
<1>7. ASSUME NEW g \in Fns, g < f + 1
      PROVE  entries'[g].fn # << >> \/ (g < f /\ entries'[g].fn = entries[g].fn)
  <2>1. CASE g = f
    BY <1>6, <2>1
  <2>2. CASE g # f
    <3>1. g < f
      BY <1>2, <1>7, <2>2 DEF Fns
    <3>2. g \in 1 .. Len(entries)
      BY <1>1, FnEntryTyped
    <3>3. entries'[g] = entries[g]
      BY <1>1, <1>3, <1>4, <2>2, <3>2
    <3> QED BY <3>1, <3>3
  <2> QED BY <2>1, <2>2
<1> QED BY <1>1, <1>7, FnsFrom

LEMMA TranslateFns ==
  ASSUME Filled, FnsAlloced, Ir_Next, ~AllocFn
  PROVE  FnsAlloced'
<1>1. phase = "translate" /\ prog' = prog /\ phase' = phase
  BY IrWrites, IrPhase
<1>2. entries' = entries \/ \E e : set_id(e)
  BY IrWrites DEF Fails, Stop
<1>3. entries \in Seq([pos : Names, type : Types, id : Nat, fn : FnPointers])
  BY TypeInvOf, InvParts DEF TableOK
<1>4. ASSUME NEW g \in Fns PROVE entries'[g].fn = entries[g].fn
  <2>1. g \in 1 .. Len(entries)
    BY <1>1, FnEntryTyped
  <2>2. CASE \E e : set_id(e)
    <3>1. PICK e : set_id(e)
      BY <2>2
    <3>2. PICK reg : entries' = [entries EXCEPT ![e].id = reg]
      BY <3>1 DEF set_id
    <3> QED BY <1>3, <2>1, <3>2
  <2> QED BY <1>2, <2>2
<1> QED BY <1>1, <1>4, FnsFrom

LEMMA EndPhaseFns ==
  ASSUME Filled, FnsAlloced, EndPhase
  PROVE  FnsAlloced'
<1>1. /\ f > Len(prog.fns) /\ phase' = NextPhase[phase] /\ phase \in DOMAIN NextPhase
      /\ f' = 1 /\ UNCHANGED <<prog, entries>>
  BY TypeInvOf, ControlTypes DEF EndPhase, Phases
<1>2. ASSUME NEW g \in Fns PROVE g < f /\ ~(g < 1)
  BY <1>1, TypeInvOf, ControlTypes DEF Fns
<1>3. phase' \in {"translate", "done"} => phase \in {"alloc_fns", "translate"}
  BY <1>1 DEF NextPhase
<1> QED BY <1>1, <1>2, <1>3, FnsFrom

LEMMA NextFns ==
  ASSUME Filled, FnsAlloced, Next
  PROVE  FnsAlloced'
<1>1. CASE Names_Next \/ Types_Next \/ CheckReturns
  <2>1. phase' \notin {"alloc_fns", "translate", "done"}
    BY <1>1, NamesPhase, TypesPhase
  <2> QED BY <2>1 DEF FnsAlloced
<1> QED BY <1>1, AllocFnFns, TranslateFns, EndPhaseFns DEF Next, Semantics

LEMMA NextIr ==
  ASSUME Filled, NamesInv, TypesInv, IrInv, Next
  PROVE  IrInv'
<1>1. FnsAlloced'
  BY NextFns DEF IrInv
<1>2. CASE phase' \notin {"translate", "done"}
  BY <1>1, <1>2, BeforeIr DEF IrInv
<1>3. CASE phase' \in {"translate", "done"}
  BY <1>1, <1>3, IrCases, EndPhaseIr, TranslateRight DEF IrInv
<1> QED BY <1>2, <1>3

LEMMA InitIrInv == ASSUME Init PROVE IrInv
  BY DEF Init, IrInv, FnsAlloced, ParamsSized, ParamDone, NodesSized, Translated, NowTranslating,
         TranslateWalk

-----------------------------------------------------------------------------
(* After the translation every parameter and every expression has a size.  *)
LEMMA IrRight ==
  ASSUME Filled, NamesInv, TypesInv, IrInv, phase = "translate", f > Len(prog.fns)
  PROVE  B!IrDefects = {}
<1>1. Inv /\ prog \in Programs /\ ~Naming /\ phase \in AllTypedPhases
  BY TypeInvOf DEF Naming, AllTypedPhases
<1>2. ASSUME NEW g \in Fns PROVE g < f /\ g # f
  BY <1>1, <1>2, ControlTypes DEF Fns
<1>3. ASSUME NEW g \in Fns, NEW k \in 1 .. Len(prog.fns[g].params) PROVE ParamDefects(g, k) = {}
  <2>1. ParamDone(g, k)
    BY <1>2 DEF ParamDone
  <2>2. paramEntry[g][k] # NULL /\ ParamAt(g, k).type.t \in IntTypes
    BY <2>1 DEF IrInv, ParamsSized
  <2>3. B!First(B!ParamsNamed(ParamAt(g, k).name, g)) = k
    BY <1>1, <2>2, ParamEntryTyped, ParamFirst DEF TypesInv
  <2> QED BY <2>2, <2>3, SizeFails DEF ParamDefects
<1>4. ASSUME NEW g \in Fns, NEW i \in StmtsIn(g), NEW n \in B!Nodes(StmtAt(g, i).value)
      PROVE  Unsized(TypeAt(g, i, n)) = {}
  <2>1. Translated(g, i) /\ ~NowTranslating(g, i)
    BY <1>2 DEF Translated, NowTranslating
  <2>2. exprType[n].t \in IntTypes
    BY <2>1 DEF IrInv, NodesSized
  <2>3. DoneT(n, g, i)
    BY <1>1, AllDone DEF LetDone, AllTypedPhases
  <2> QED BY <2>2, <2>3, SizeFails DEF DoneT
<1> QED BY <1>3, <1>4, NoIrDefects

-----------------------------------------------------------------------------
(* The stages of a verdict, in order.                                      *)
Stages == <<B!NameDefects, B!TypeDefects, B!ReturnDefects, B!IrDefects>>
Found == {k \in 1 .. Len(Stages) : Stages[k] # {}}

LEMMA VerdictsAre == B!Verdicts = IF Found = {} THEN {"ok"} ELSE Stages[B!First(Found)]
  BY Zenon DEF B!Verdicts, Found, Stages

LEMMA StageIs ==
  /\ DOMAIN Stages = 1 .. 4 /\ Len(Stages) = 4
  /\ Stages[1] = B!NameDefects /\ Stages[2] = B!TypeDefects
  /\ Stages[3] = B!ReturnDefects /\ Stages[4] = B!IrDefects
<1>1. PICK a, b, c, d : a = B!NameDefects /\ b = B!TypeDefects /\ c = B!ReturnDefects /\ d = B!IrDefects
  OBVIOUS
<1>2. Stages = <<a, b, c, d>>
  BY <1>1 DEF Stages
<1> QED BY <1>1, <1>2

(* The earliest stage that has a defect decides.                           *)
LEMMA StageDecides ==
  ASSUME NEW k \in 1 .. 4, \A j \in 1 .. k - 1 : Stages[j] = {}, NEW d \in Stages[k]
  PROVE  d \in B!Verdicts
<1>1. k \in Found /\ \A j \in Found : k <= j
  BY StageIs DEF Found
<1>2. Found # {} /\ B!First(Found) = k
  <2>1. Found \subseteq Nat
    BY StageIs DEF Found
  <2>2. PICK m : m = B!First(Found)
    OBVIOUS
  <2>3. m \in Found /\ m <= k /\ k <= m
    BY <1>1, <2>1, <2>2, FirstIs
  <2>4. m \in Nat /\ k \in Nat
    BY <2>1, <2>3
  <2>5. m = k
    BY <2>3, <2>4
  <2> QED BY <1>1, <2>2, <2>5
<1> QED BY <1>2, VerdictsAre

LEMMA NoDefects ==
  ASSUME B!NameDefects = {}, B!TypeDefects = {}, B!ReturnDefects = {}, B!IrDefects = {}
  PROVE  "ok" \in B!Verdicts
<1>1. \A k \in 1 .. Len(Stages) : Stages[k] = {}
  <2>1. ASSUME NEW k \in 1 .. Len(Stages) PROVE Stages[k] = {}
    <3>1. k = 1 \/ k = 2 \/ k = 3 \/ k = 4
      BY StageIs
    <3> QED BY <3>1, StageIs
  <2> QED BY <2>1
<1>2. Found = {}
  BY <1>1 DEF Found
<1> QED BY <1>2, VerdictsAre

-----------------------------------------------------------------------------
(* What is known of the program at any time.                               *)
VerdictInv == Filled /\ NamesInv /\ TypesInv /\ ReturnsInv /\ IrInv

LEMMA StopVerdict ==
  ASSUME VerdictInv,
         \/ outcome' \in B!NameDefects
         \/ ~Naming /\ outcome' \in B!TypeDefects
         \/ phase \in AllTypedPhases /\ outcome' \in B!ReturnDefects
         \/ phase \in {"alloc_fns", "translate", "done"} /\ outcome' \in B!IrDefects
  PROVE  outcome' \in B!Verdicts
<1>1. ~Naming => Stages[1] = {}
  BY StageIs, NamesRight DEF VerdictInv
<1>2. phase \in AllTypedPhases => Stages[2] = {} /\ ~Naming
  BY StageIs, TypesRight DEF VerdictInv, AllTypedPhases, Naming
<1>3. phase \in {"alloc_fns", "translate", "done"} => Stages[3] = {} /\ phase \in AllTypedPhases
  BY StageIs, ReturnsRight DEF VerdictInv, AllTypedPhases
<1>4. PICK d : d = outcome'
  OBVIOUS
<1>5. CASE d \in B!NameDefects
  <2>1. \A j \in 1 .. 1 - 1 : Stages[j] = {}
    OBVIOUS
  <2> QED BY <1>4, <1>5, <2>1, StageIs, StageDecides
<1>6. CASE ~Naming /\ d \in B!TypeDefects
  <2>1. \A j \in 1 .. 2 - 1 : Stages[j] = {}
    <3>1. \A j \in 1 .. 2 - 1 : j = 1
      OBVIOUS
    <3> QED BY <1>1, <1>6, <3>1
  <2> QED BY <1>4, <1>6, <2>1, StageIs, StageDecides
<1>7. CASE phase \in AllTypedPhases /\ d \in B!ReturnDefects
  <2>1. \A j \in 1 .. 3 - 1 : Stages[j] = {}
    <3>1. \A j \in 1 .. 3 - 1 : j = 1 \/ j = 2
      OBVIOUS
    <3> QED BY <1>1, <1>2, <1>7, <3>1
  <2> QED BY <1>4, <1>7, <2>1, StageIs, StageDecides
<1>8. CASE phase \in {"alloc_fns", "translate", "done"} /\ d \in B!IrDefects
  <2>1. \A j \in 1 .. 4 - 1 : Stages[j] = {}
    <3>1. \A j \in 1 .. 4 - 1 : j = 1 \/ j = 2 \/ j = 3
      OBVIOUS
    <3> QED BY <1>1, <1>2, <1>3, <1>8, <3>1
  <2> QED BY <1>4, <1>8, <2>1, StageIs, StageDecides
<1> QED BY <1>4, <1>5, <1>6, <1>7, <1>8

LEMMA StepRuns == ASSUME Next PROVE outcome = "running"
<1>1. CASE Names_Next
  BY <1>1 DEF Names_Next, DeclareFn, Names_EnterFn, InsertParam, ResolveLet, ResolveStmt, ResolveName,
              ResolveOperands, Names_LeaveFn, LeaveFn, AtParam, AtStmt, BetweenStmts, InFn, At, In
<1>2. CASE Types_Next
  BY <1>2 DEF Types_Next, BuildFnType, Types_EnterFn, Types_Stmt, TypeInt, EnterBinop, TypeBinop,
              TypeName, CheckArg, TypeCall, Types_EndStmt, Types_LeaveFn, LeaveFn, At, AtStmt,
              BetweenStmts, InFn, In
<1>3. CASE CheckReturns \/ EndPhase
  BY <1>3 DEF CheckReturns, EndPhase, InFn, In
<1>4. CASE Ir_Next
  <2> USE DEF LeaveFn, At, AtParam, AtStmt, BetweenStmts, InFn, In
  <2>1. CASE AllocFn \/ Ir_EnterFn \/ Ir_LeaveFn \/ TranslateParam \/ TranslateStmt
    BY <2>1 DEF AllocFn, Ir_EnterFn, Ir_LeaveFn, TranslateParam, TranslateStmt
  <2>2. CASE TranslateInt \/ TranslateVar \/ (\E t : TranslateArgs(t)) \/ TranslateBinop \/ TranslateCall
    BY <2>2 DEF TranslateInt, TranslateVar, TranslateArgs, TranslateBinop, TranslateCall
  <2>3. CASE EndLet \/ EndExpr \/ EndReturn
    BY <2>3 DEF EndLet, EndExpr, EndReturn
  <2> QED BY <1>4, <2>1, <2>2, <2>3 DEF Ir_Next
<1> QED BY <1>1, <1>2, <1>3, <1>4 DEF Next, Semantics

LEMMA NextVerdict ==
  ASSUME VerdictInv, NamesApart, Next
  PROVE  VerdictInv'
  BY NextFilled, NextNames, NextTypes, NextReturns, NextIr DEF VerdictInv

(* A step that ends the process gives a verdict the program deserves.      *)
LEMMA NextDecides ==
  ASSUME VerdictInv, NamesApart, Next, outcome' # "running"
  PROVE  outcome' \in B!Verdicts
<1>1. outcome = "running"
  BY StepRuns
<1>2. CASE Names_Next
  BY <1>2, NamesStep, StopVerdict DEF VerdictInv
<1>3. CASE Types_Next
  <2>1. phase \in {"signatures", "types"} /\ ~Naming
    BY <1>3, TypeInvOf, QuietTypes DEF VerdictInv, Naming
  <2>2. CASE phase = "types"
    <3>1. outcome' \in B!TypeDefects
      BY <1>3, <2>2, TypesStep, FilledGrows DEF VerdictInv
    <3> QED BY <2>1, <3>1, StopVerdict
  <2>3. CASE phase = "signatures"
    <3>1. BuildFnType
      BY <1>3, <2>3, TypesKeep
    <3> QED BY <1>1, <3>1 DEF BuildFnType, NextFn
  <2> QED BY <2>1, <2>2, <2>3
<1>4. CASE CheckReturns
  <2>1. phase \in AllTypedPhases
    BY <1>4 DEF CheckReturns, InFn, In, AllTypedPhases
  <2> QED BY <1>4, <2>1, ReturnsStep, StopVerdict DEF VerdictInv
<1>5. CASE EndPhase
  <2>1. phase = "translate" /\ f > Len(prog.fns) /\ outcome' = "ok"
    BY <1>1, <1>5 DEF EndPhase
  <2>2. ~Naming /\ phase \in AllTypedPhases /\ phase \in {"alloc_fns", "translate", "done"}
    BY <2>1 DEF Naming, AllTypedPhases
  <2> QED BY <2>1, <2>2, NamesRight, TypesRight, ReturnsRight, IrRight, NoDefects DEF VerdictInv
<1>6. CASE Ir_Next
  <2>1. CASE AllocFn
    BY <1>1, <2>1 DEF AllocFn, NextFn
  <2>2. CASE ~AllocFn
    <3>1. phase = "translate" /\ outcome' \in B!IrDefects
      BY <1>6, <2>2, IrWrites, TranslateRight DEF VerdictInv
    <3> QED BY <3>1, StopVerdict
  <2> QED BY <2>1, <2>2
<1> QED BY <1>2, <1>3, <1>4, <1>5, <1>6 DEF Next, Semantics

-----------------------------------------------------------------------------
LEMMA InitVerdict == Init /\ Separate(prog) /\ Unshared(prog) => VerdictInv
  BY InitFilled, InitNamesInv, InitTypesInv, InitReturns, InitIrInv DEF VerdictInv

LEMMA VerdictStays ==
  ASSUME VerdictInv, UNCHANGED vars
  PROVE  VerdictInv'
<1>1. UNCHANGED <<prog, phase, f, p, s, todo, scopes, entries, annotations, ssaFns>>
  BY DEF vars, annotations
<1>2. UNCHANGED <<exprType, paramEntry>>
  BY <1>1 DEF annotations
<1>3. Filled' /\ NamesInv'
  BY <1>1, NextFilled, StopNames DEF VerdictInv
<1>4. Fns' = Fns /\ \A g, k : ParamAt(g, k)' = ParamAt(g, k)
  BY <1>1, TextSame
<1>5. ParamsTyped'
  BY <1>1, <1>2, <1>4 DEF VerdictInv, TypesInv, ParamsTyped
<1>6. TypesInv'
  BY <1>1, <1>5, StopRight DEF VerdictInv, TypesInv
<1>7. ReturnsInv'
  <2>1. \A g : FnReturnDefects(g)' = FnReturnDefects(g)
    BY <1>1, FnDefectsSame
  <2> QED BY <1>1, <1>4, <2>1 DEF VerdictInv, ReturnsInv, RetDone
<1>8. FnsAlloced'
  BY <1>1, FnsFrom DEF VerdictInv, IrInv
<1>9. IrInv'
  BY <1>1, <1>2, <1>8, ParamsSame, IrStops DEF VerdictInv, IrInv
<1> QED BY <1>3, <1>6, <1>7, <1>9 DEF VerdictInv

LEMMA VerdictKept ==
  ASSUME NamesApart
  PROVE  VerdictInv /\ [Next]_vars => VerdictInv'
  BY NextVerdict, VerdictStays

LEMMA NextRefines ==
  ASSUME NamesApart
  PROVE  VerdictInv /\ [Next]_vars => [B!Decide]_<<prog, outcome>>
<1>1. ASSUME VerdictInv, Next PROVE [B!Decide]_<<prog, outcome>>
  <2>1. prog' = prog /\ outcome = "running"
    BY <1>1, TypeInvOf, ProgKept, StepRuns DEF VerdictInv
  <2>2. CASE outcome' = "running"
    BY <2>1, <2>2
  <2>3. CASE outcome' # "running"
    BY <1>1, <2>1, <2>3, NextDecides DEF B!Decide
  <2> QED BY <2>2, <2>3
<1>2. UNCHANGED vars => UNCHANGED <<prog, outcome>>
  BY DEF vars
<1> QED BY <1>1, <1>2

(* The process keeps the program and ends at most once, with a verdict the *)
(* program deserves: it is accepted only if its names, types and first     *)
(* returns are right and everything has a size; a diagnostic, or a crash,  *)
(* is of the earliest kind of defect the program has.                      *)
THEOREM VerdictsDeserved ==
  ASSUME NamesApart
  PROVE  Spec /\ Separate(prog) /\ Unshared(prog) => B!Init /\ [][B!Decide]_<<prog, outcome>>
<1>1. Init => B!Init
  BY DEF Init, B!Init
<1>2. VerdictInv /\ [Next]_vars => VerdictInv'
  BY VerdictKept
<1>3. VerdictInv /\ [Next]_vars => [B!Decide]_<<prog, outcome>>
  BY NextRefines
<1> QED BY <1>1, <1>2, <1>3, InitVerdict, PTL DEF Spec

(* So the compiler keeps the whole promise of Bon on the programs it ends  *)
(* with (resolve_names to generate_ir).                                    *)
THEOREM BonImplemented ==
  ASSUME NamesApart
  PROVE  Spec /\ Separate(prog) /\ Unshared(prog) /\ <>(outcome # "running") => ImplementsBon
  BY VerdictsDeserved, PTL DEF ImplementsBon, B!Spec
===============================================================================
