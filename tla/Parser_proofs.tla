--------------------------- MODULE Parser_proofs ---------------------------
(***************************************************************************)
(* For every set of texts: what the parser accepts is a program the passes *)
(* are made for, with each node in one place, and it stops at the end of   *)
(* the file.                                                               *)
(***************************************************************************)
EXTENDS Parser, SequenceTheorems, FiniteSetTheorems, TLAPS

-----------------------------------------------------------------------------
(* Facts about sequences.                                                  *)
LEMMA OneElement ==
  ASSUME NEW S, NEW e \in S
  PROVE  <<e>> \in Seq(S) /\ Len(<<e>>) = 1 /\ <<e>>[1] = e
  OBVIOUS

LEMMA Rest ==
  ASSUME NEW S, NEW q \in Seq(S), q # << >>
  PROVE  /\ Tail(q) \in Seq(S) /\ Len(Tail(q)) = Len(q) - 1 /\ Len(q) \in Nat \ {0}
         /\ \A i \in 1 .. Len(Tail(q)) : Tail(q)[i] = q[i + 1]
         /\ Head(q) = q[1] /\ q[1] \in S
  BY HeadTailProperties, ElementOfSeq

(* The last element of a sequence replaced.                                *)
LEMMA LastReplaced ==
  ASSUME NEW S, NEW q \in Seq(S), q # << >>, NEW e \in S, NEW r, r = [q EXCEPT ![Len(q)] = e]
  PROVE  /\ r \in Seq(S) /\ Len(q) \in Nat \ {0} /\ Len(r) = Len(q) /\ r[Len(q)] = e
         /\ \A i \in 1 .. Len(q) - 1 : r[i] = q[i]
<1>1. Len(q) \in Nat \ {0} /\ Len(q) \in 1 .. Len(q)
  BY EmptySeq, LenProperties
<1>2. /\ r \in Seq(S) /\ Len(r) = Len(q)
      /\ \A j \in 1 .. Len(q) : r[j] = IF j = Len(q) THEN e ELSE q[j]
  BY <1>1, ExceptSeq
<1>3. r[Len(q)] = e
  BY <1>1, <1>2
<1>4. ASSUME NEW i \in 1 .. Len(q) - 1
      PROVE  r[i] = q[i]
  <2>1. i \in 1 .. Len(q) /\ i # Len(q)
    BY <1>1
  <2> QED
    BY <1>2, <2>1
<1> QED
  BY <1>1, <1>2, <1>3, <1>4

LEMMA Appended ==
  ASSUME NEW S, NEW q \in Seq(S), NEW e \in S
  PROVE  /\ Append(q, e) \in Seq(S) /\ Len(q) \in Nat /\ Len(Append(q, e)) = Len(q) + 1
         /\ Append(q, e)[Len(q) + 1] = e /\ \A i \in 1 .. Len(q) : Append(q, e)[i] = q[i]
         /\ Append(q, e) # << >>
  BY AppendProperties, LenProperties

-----------------------------------------------------------------------------
(* The token that comes.                                                   *)
LEMMA NextToken ==
  ASSUME TextOK(text), pos \in Nat, ~Next_is("TOK_EOF")
  PROVE  /\ pos < Len(text) /\ Len(text) \in Nat
         /\ Next_is("TOK_SYM") => Coming.name \in Names
         /\ Next_is("TOK_INT") =>
              /\ Coming.digits \in Seq(0 .. 9) /\ Coming.digits # << >>
              /\ Coming.type \in {Type(t) : t \in IntTypes}
<1>1. Len(text) \in Nat
  BY DEF TextOK
<1>2. pos < Len(text)
  BY <1>1 DEF Next_is, Coming, EOF, Token
<1>3. Coming = text[pos + 1] /\ pos + 1 \in 1 .. Len(text)
  BY <1>1, <1>2 DEF Coming
<1>4. Coming \in [t : STRING, name : Names \cup {<< >>}, digits : Seq(0 .. 9),
                  type : Builtins \cup {NoType}]
  BY <1>3, ElementOfSeq DEF TextOK
<1> QED
  BY <1>1, <1>2, <1>3, <1>4 DEF TextOK, Next_is

LEMMA TypesRead ==
  ASSUME IsType
  PROVE  parse_type \in Written /\ parse_type # NoType /\ ~Next_is("TOK_EOF")
  BY DEF IsType, parse_type, Written_as, Next_is, Written, Builtins, BuiltinTypes, IntTypes, Type, NoType

LEMMA Operations == BinopKinds \subseteq OpNames
  BY DEF OpNames

LEMMA OperatorsRead ==
  ASSUME NEW level \in 1 .. 3, NEW t, t \in DOMAIN Operators[level]
  PROVE  Operators[level][t] \in BinopKinds /\ t # "TOK_EOF"
<1>1. CASE level = 1
  BY <1>1 DEF Operators, BinopKinds
<1>2. CASE level = 2
  BY <1>2 DEF Operators, BinopKinds
<1>3. CASE level = 3
  BY <1>3 DEF Operators, BinopKinds, Comparisons
<1> QED
  BY <1>1, <1>2, <1>3

-----------------------------------------------------------------------------
(* The stack of pending calls.                                             *)
LEMMA MoreNodes ==
  ASSUME NEW tasks, NEW n \in Nat, NEW m \in Nat, n <= m, TasksOK(tasks, n)
  PROVE  TasksOK(tasks, m)
<1>1. ASSUME NEW i \in 1 .. Len(tasks)
      PROVE  TaskOK(tasks[i], m) /\ (i > 1 => tasks[i].k \in Waiting)
  BY DEF TasksOK, TaskOK
<1> QED
  BY <1>1 DEF TasksOK

LEMMA NoTasks == ASSUME NEW n \in Nat PROVE TasksOK(<< >>, n)
  BY DEF TasksOK

LEMMA OneTask ==
  ASSUME NEW t \in Tasks, NEW n \in Nat, TaskOK(t, n)
  PROVE  TasksOK(<<t>>, n) /\ <<t>> # << >> /\ <<t>>[1] = t
  BY DEF TasksOK

LEMMA Concatenated ==
  ASSUME NEW a, NEW b, NEW n \in Nat, TasksOK(a, n), TasksOK(b, n),
         a # << >> => b = << >> \/ b[1].k \in Waiting
  PROVE  /\ TasksOK(a \o b, n)
         /\ a # << >> => a \o b # << >> /\ (a \o b)[1] = a[1]
         /\ a = << >> => a \o b = b
<1>1. a \in Seq(Tasks) /\ b \in Seq(Tasks) /\ Len(a) \in Nat /\ Len(b) \in Nat
  BY DEF TasksOK
<1>2. /\ a \o b \in Seq(Tasks) /\ Len(a \o b) = Len(a) + Len(b)
      /\ \A i \in 1 .. Len(a) + Len(b) : (a \o b)[i] = IF i <= Len(a) THEN a[i] ELSE b[i - Len(a)]
  BY <1>1, ConcatProperties
<1>3. a # << >> => Len(a) > 0
  BY <1>1, EmptySeq
<1>4. b # << >> => Len(b) > 0
  BY <1>1, EmptySeq
<1>5. ASSUME NEW i \in 1 .. Len(a \o b)
      PROVE  TaskOK((a \o b)[i], n) /\ (i > 1 => (a \o b)[i].k \in Waiting)
  <2>1. CASE i <= Len(a)
    BY <1>1, <1>2, <2>1 DEF TasksOK
  <2>2. CASE i > Len(a)
    <3>1. i - Len(a) \in 1 .. Len(b) /\ (a \o b)[i] = b[i - Len(a)]
      BY <1>1, <1>2, <2>2
    <3>2. TaskOK(b[i - Len(a)], n) /\ (i - Len(a) > 1 => b[i - Len(a)].k \in Waiting)
      BY <3>1 DEF TasksOK
    <3>3. ASSUME i > 1, i - Len(a) = 1
          PROVE  b[1].k \in Waiting
      BY <1>1, <3>1, <3>3, EmptySeq
    <3> QED
      BY <1>1, <3>1, <3>2, <3>3
  <2> QED
    BY <1>1, <2>1, <2>2
<1>6. a # << >> => a \o b # << >> /\ (a \o b)[1] = a[1]
  BY <1>1, <1>2, <1>3
<1>7. a = << >> => a \o b = b
  BY <1>1, ConcatEmptySeq
<1> QED
  BY <1>2, <1>5, <1>6, <1>7 DEF TasksOK

LEMMA TaskIn ==
  ASSUME NEW k \in Waiting \cup {"primary", "name", "args"}, NEW level \in 0 .. 3, NEW op \in OpNames,
         NEW name \in Names \cup {<< >>}, NEW args \in Seq(Nat)
  PROVE  /\ Task(k, level, op, name, args) \in Tasks
         /\ Task(k, level, op, name, args).k = k /\ Task(k, level, op, name, args).level = level
         /\ Task(k, level, op, name, args).op = op /\ Task(k, level, op, name, args).name = name
         /\ Task(k, level, op, name, args).args = args
  BY DEF Task, Tasks

(* The calls made from a level.                                            *)
LEMMA Descends ==
  ASSUME NEW level \in 0 .. 3, NEW n \in Nat
  PROVE  /\ TasksOK(Descend(level), n)
         /\ Descend(level) # << >> /\ Descend(level)[1].k = "primary"
<1> DEFINE loops == [l \in 1 .. level |-> Loop(l)]
<1>0. << >> \in Seq(Nat) /\ Len(<< >>) = 0 /\ NoOp \in OpNames /\ << >> \in Names \cup {<< >>}
  <2>1. << >> \in Seq(Nat) /\ Len(<< >>) = 0
    OBVIOUS
  <2>2. NoOp \in OpNames
    BY DEF OpNames
  <2>3. << >> \in Names \cup {<< >>}
    OBVIOUS
  <2> QED
    BY <2>1, <2>2, <2>3
<1>1. Primary \in Tasks /\ TaskOK(Primary, n) /\ Primary.k = "primary"
  <2>1. Primary \in Tasks
    <3>1. "primary" \in Waiting \cup {"primary", "name", "args"} /\ 0 \in 0 .. 3
      OBVIOUS
    <3> QED
      BY <1>0, <3>1, TaskIn DEF Primary
  <2>2. Primary.k = "primary" /\ Len(Primary.args) = 0
    BY <1>0 DEF Primary, Task
  <2>3. TaskOK(Primary, n)
    BY <2>2 DEF TaskOK
  <2> QED
    BY <2>1, <2>2, <2>3
<1>2. ASSUME NEW l \in 1 .. level
      PROVE  Loop(l) \in Tasks /\ TaskOK(Loop(l), n) /\ Loop(l).k \in Waiting
  <2>1. Loop(l) \in Tasks
    <3>1. "loop" \in Waiting \cup {"primary", "name", "args"} /\ l \in 0 .. 3
      BY DEF Waiting
    <3> QED
      BY <1>0, <3>1, TaskIn DEF Loop
  <2>2. Loop(l).k = "loop" /\ Len(Loop(l).args) = 0 /\ Loop(l).level = l
    BY <1>0 DEF Loop, Task
  <2>3. TaskOK(Loop(l), n)
    BY <2>2 DEF TaskOK
  <2> QED
    BY <2>1, <2>2, <2>3 DEF Waiting
<1>3. loops \in Seq(Tasks) /\ Len(loops) = level
  BY <1>2, SeqDef, LenProperties
<1>4. TasksOK(loops, n) /\ (loops = << >> \/ loops[1].k \in Waiting)
  BY <1>2, <1>3, EmptySeq DEF TasksOK
<1> HIDE DEF loops
<1>5. TasksOK(<<Primary>>, n) /\ <<Primary>> # << >> /\ <<Primary>>[1] = Primary
  BY <1>1, OneTask
<1>6. Descend(level) = <<Primary>> \o loops
  BY DEF Descend, loops
<1> QED
  BY <1>1, <1>4, <1>5, <1>6, Concatenated

-----------------------------------------------------------------------------
(* Steps that end the process, and those of an expression.                 *)
LEMMA FailKeeps ==
  ASSUME IInv, NEW d \in Outcomes \ {"ok"}, Fail(d)
  PROVE  IInv'
  BY DEF IInv, Fail, ExprsOK, TodoOK, FnsOK, EofOK

LEMMA Lengths ==
  ASSUME IInv
  PROVE  Len(exprs) \in Nat /\ Len(todo) \in Nat /\ Len(fns) \in Nat /\ Len(text) \in Nat
  BY DEF IInv, ExprsOK, TodoOK, TasksOK, FnsOK, TextOK

LEMMA Consumes ==
  ASSUME IInv, lexer_next, ~Next_is("TOK_EOF")
  PROVE  pos' \in Nat /\ EofOK'
<1>1. pos < Len(text) /\ Len(text) \in Nat /\ pos \in Nat
  BY NextToken DEF IInv
<1> QED
  BY <1>1 DEF lexer_next, EofOK

LEMMA Peeks ==
  ASSUME IInv, lexer_peek, pos # Len(text) + 1
  PROVE  pos' \in Nat /\ EofOK'
<1>1. Len(text) \in Nat /\ pos \in Nat
  BY Lengths DEF IInv
<1> QED
  BY <1>1 DEF lexer_peek, EofOK, IInv

LEMMA TopTask ==
  ASSUME IInv, todo # << >>
  PROVE  /\ Task1 = todo[1] /\ Task1 \in Tasks /\ TaskOK(Task1, Len(exprs)) /\ at = "newline"
         /\ Task1.k \in Waiting => node \in 1 .. Len(exprs)
         /\ TasksOK(Tail(todo), Len(exprs))
         /\ Tail(todo) = << >> \/ Tail(todo)[1].k \in Waiting
         /\ Task1.k # "primary" => pos # Len(text) + 1
<1>1. /\ TasksOK(todo, Len(exprs)) /\ node \in 0 .. Len(exprs) /\ at = "newline"
      /\ todo[1].k \in Waiting => node # NULL
  BY DEF IInv, TodoOK
<1>2. todo \in Seq(Tasks)
  BY <1>1 DEF TasksOK
<1>3. /\ Tail(todo) \in Seq(Tasks) /\ Len(Tail(todo)) = Len(todo) - 1 /\ Len(todo) \in Nat \ {0}
      /\ \A i \in 1 .. Len(Tail(todo)) : Tail(todo)[i] = todo[i + 1]
      /\ Head(todo) = todo[1] /\ todo[1] \in Tasks
  BY <1>2, Rest
<1>4. TaskOK(todo[1], Len(exprs))
  BY <1>1, <1>3 DEF TasksOK
<1>5. ASSUME NEW i \in 1 .. Len(Tail(todo))
      PROVE  TaskOK(Tail(todo)[i], Len(exprs)) /\ Tail(todo)[i].k \in Waiting
  <2>1. i + 1 \in 1 .. Len(todo) /\ i + 1 > 1 /\ Tail(todo)[i] = todo[i + 1]
    BY <1>3
  <2> QED
    BY <1>1, <2>1 DEF TasksOK
<1>6. TasksOK(Tail(todo), Len(exprs))
  BY <1>3, <1>5 DEF TasksOK
<1>7. Tail(todo) = << >> \/ Tail(todo)[1].k \in Waiting
  BY <1>3, <1>5, EmptySeq
<1>8. ASSUME pos = Len(text) + 1
      PROVE  todo[1].k = "primary"
  <2>1. todo = parse_expr
    BY <1>8 DEF IInv, EofOK
  <2> QED
    BY <2>1, Descends DEF parse_expr
<1>9. Task1.k \in Waiting => node \in 1 .. Len(exprs)
  BY <1>1, <1>3, Lengths DEF Task1, NULL
<1> QED
  BY <1>1, <1>3, <1>4, <1>6, <1>7, <1>8, <1>9 DEF Task1

LEMMA PushKeeps ==
  ASSUME IInv, todo # << >>, NEW tasks, Continue(tasks), TasksOK(tasks, Len(exprs')),
         Len(exprs') \in Nat, Len(exprs) <= Len(exprs'), node' \in 0 .. Len(exprs'),
         tasks = << >> \/ tasks[1].k \in Waiting => node' # NULL
  PROVE  TodoOK'
<1>1. /\ TasksOK(Tail(todo), Len(exprs)) /\ at = "newline"
      /\ Tail(todo) = << >> \/ Tail(todo)[1].k \in Waiting
  BY TopTask
<1>2. TasksOK(Tail(todo), Len(exprs'))
  BY <1>1, Lengths, MoreNodes
<1>3. todo' = tasks \o Tail(todo) /\ at' = at
  BY DEF Continue
<1>4. /\ TasksOK(todo', Len(exprs'))
      /\ tasks # << >> => todo' # << >> /\ todo'[1] = tasks[1]
      /\ tasks = << >> => todo' = Tail(todo)
  BY <1>1, <1>2, <1>3, Concatenated
<1>5. todo' = << >> \/ todo'[1].k \in Waiting => node' # NULL
  BY <1>1, <1>4
<1> QED
  BY <1>1, <1>3, <1>4, <1>5 DEF TodoOK

LEMMA Made ==
  ASSUME IInv, NEW e \in Exprs, ParsedExpr(e, Len(exprs) + 1),
         make_expr(e.t, e.name, e.op, e.type, e.val, e.args)
  PROVE  ExprsOK' /\ Len(exprs') = Len(exprs) + 1 /\ node' = Len(exprs) + 1
<1>1. exprs \in Seq(Exprs) /\ Len(exprs) \in Nat
  BY DEF IInv, ExprsOK
<1>2. e = [t |-> e.t, name |-> e.name, op |-> e.op, type |-> e.type, val |-> e.val, args |-> e.args]
  BY DEF Exprs
<1>3. exprs' = Append(exprs, e) /\ node' = Len(exprs) + 1
  BY <1>2 DEF make_expr
<1>4. /\ exprs' \in Seq(Exprs) /\ Len(exprs') = Len(exprs) + 1
      /\ exprs'[Len(exprs) + 1] = e /\ \A i \in 1 .. Len(exprs) : exprs'[i] = exprs[i]
  BY <1>1, <1>3, Appended
<1>5. ASSUME NEW n \in 1 .. Len(exprs')
      PROVE  ParsedExpr(exprs'[n], n)
  <2>1. CASE n = Len(exprs) + 1
    BY <1>4, <2>1
  <2>2. CASE n # Len(exprs) + 1
    <3>1. n \in 1 .. Len(exprs)
      BY <1>1, <1>4, <2>2
    <3> QED
      BY <1>4, <3>1 DEF IInv, ExprsOK
  <2> QED
    BY <2>1, <2>2
<1> QED
  BY <1>3, <1>4, <1>5 DEF ExprsOK

(* Older statements have older values.                                     *)
LEMMA FnsKept ==
  ASSUME FnsOK, UNCHANGED <<fns, at>>, NEW n \in Nat, n = Len(exprs),
         Len(exprs') \in Nat, n <= Len(exprs')
  PROVE  FnsOK'
<1>1. ASSUME NEW g \in 1 .. Len(fns)
      PROVE  Values(fns[g], Len(exprs'))
  BY DEF FnsOK, Values
<1> QED
  BY <1>1 DEF FnsOK

(* What is left to show of a step of an expression.                        *)
LEMMA ExprStep ==
  ASSUME IInv, UNCHANGED <<text, at, fns, outcome>>, pos' \in Nat, EofOK', TodoOK', ExprsOK',
         Len(exprs') \in Nat, Len(exprs) <= Len(exprs')
  PROVE  IInv'
<1>1. FnsOK'
  BY Lengths, FnsKept DEF IInv
<1> QED
  BY <1>1 DEF IInv

LEMMA CallStep ==
  ASSUME IInv, todo # << >>, NEW tasks, Call(tasks), TasksOK(tasks, Len(exprs)),
         tasks = << >> \/ tasks[1].k \in Waiting => node # NULL,
         UNCHANGED <<text, outcome>>, pos' \in Nat, EofOK'
  PROVE  IInv'
<1>1. UNCHANGED <<at, fns, node, exprs>> /\ Continue(tasks) /\ Len(exprs) \in Nat
  BY Lengths DEF Call, Continue
<1>2. node' \in 0 .. Len(exprs')
  BY <1>1 DEF IInv, TodoOK
<1>3. TodoOK'
  BY <1>1, <1>2, PushKeeps
<1>4. ExprsOK'
  BY <1>1 DEF IInv, ExprsOK
<1> QED
  BY <1>1, <1>3, <1>4, ExprStep

LEMMA MakeStep ==
  ASSUME IInv, todo # << >>, NEW tasks, Continue(tasks), TasksOK(tasks, Len(exprs) + 1),
         NEW e \in Exprs, ParsedExpr(e, Len(exprs) + 1),
         make_expr(e.t, e.name, e.op, e.type, e.val, e.args),
         UNCHANGED <<text, outcome>>, pos' \in Nat, EofOK'
  PROVE  IInv'
<1>1. UNCHANGED <<at, fns>> /\ Len(exprs) \in Nat
  BY Lengths DEF Continue
<1>2. ExprsOK' /\ Len(exprs') = Len(exprs) + 1 /\ node' = Len(exprs) + 1
  BY Made
<1>3. /\ Len(exprs') \in Nat /\ Len(exprs) <= Len(exprs') /\ node' \in 0 .. Len(exprs')
      /\ node' # NULL /\ TasksOK(tasks, Len(exprs'))
  BY <1>1, <1>2 DEF NULL
<1>4. TodoOK'
  BY <1>3, PushKeeps
<1> QED
  BY <1>1, <1>2, <1>3, <1>4, ExprStep

LEMMA Placeholders ==
  /\ << >> \in Seq(Nat) /\ Len(<< >>) = 0 /\ << >> \in Names \cup {<< >>}
  /\ NoOp \in OpNames /\ 0 \in 0 .. 3 /\ \A n : \A j \in 1 .. Len(<< >>) : << >>[j] \in 1 .. n
<1>1. << >> \in Seq(Nat) /\ Len(<< >>) = 0
  OBVIOUS
<1>2. << >> \in Names \cup {<< >>}
  OBVIOUS
<1>3. NoOp \in OpNames /\ 0 \in 0 .. 3
  BY DEF OpNames
<1>4. \A n : \A j \in 1 .. Len(<< >>) : << >>[j] \in 1 .. n
  BY <1>1
<1> QED
  BY <1>1, <1>2, <1>3, <1>4

LEMMA Kinds ==
  /\ Waiting \subseteq Waiting \cup {"primary", "name", "args"}
  /\ "name" \in Waiting \cup {"primary", "name", "args"} /\ "args" \in Waiting \cup {"primary", "name", "args"}
  /\ "loop" \in Waiting /\ "right" \in Waiting /\ "arg" \in Waiting /\ "close" \in Waiting
  /\ "primary" \notin Waiting /\ "name" \notin Waiting /\ "args" \notin Waiting
  BY DEF Waiting

(* Operands with one more.                                                 *)
LEMMA MoreArgs ==
  ASSUME NEW n \in Nat, NEW args \in Seq(Nat), \A j \in 1 .. Len(args) : args[j] \in 1 .. n,
         NEW arg \in 1 .. n
  PROVE  /\ Append(args, arg) \in Seq(Nat) /\ Len(Append(args, arg)) = Len(args) + 1
         /\ \A j \in 1 .. Len(Append(args, arg)) : Append(args, arg)[j] \in 1 .. n
<1>1. /\ Append(args, arg) \in Seq(Nat) /\ Len(args) \in Nat /\ Len(Append(args, arg)) = Len(args) + 1
      /\ Append(args, arg)[Len(args) + 1] = arg
      /\ \A i \in 1 .. Len(args) : Append(args, arg)[i] = args[i]
  BY Appended
<1>2. ASSUME NEW j \in 1 .. Len(Append(args, arg))
      PROVE  Append(args, arg)[j] \in 1 .. n
  <2>1. CASE j = Len(args) + 1
    BY <1>1, <2>1
  <2>2. CASE j # Len(args) + 1
    <3>1. j \in 1 .. Len(args)
      BY <1>1, <2>2
    <3> QED
      BY <1>1, <3>1
  <2> QED
    BY <2>1, <2>2
<1> QED
  BY <1>1, <1>2

(* Each kind of task, alone.                                               *)
LEMMA CloseTask ==
  ASSUME NEW n \in Nat
  PROVE  TasksOK(<<Close>>, n) /\ <<Close>> # << >> /\ <<Close>>[1].k = "close"
<1> DEFINE t == Close
<1>1. t \in Tasks /\ t.k = "close" /\ t.args = << >>
  BY Placeholders, Kinds DEF Close, Task, Tasks
<1> HIDE DEF t
<1>2. TaskOK(t, n)
  BY <1>1, Placeholders DEF TaskOK
<1>3. TasksOK(<<t>>, n) /\ <<t>> # << >> /\ <<t>>[1] = t
  BY <1>1, <1>2, OneTask
<1> QED
  BY <1>1, <1>3 DEF t

LEMMA LoopTask ==
  ASSUME NEW n \in Nat, NEW level \in 1 .. 3
  PROVE  TasksOK(<<Loop(level)>>, n) /\ <<Loop(level)>> # << >> /\ <<Loop(level)>>[1].k = "loop"
<1> DEFINE t == Loop(level)
<1>0. level \in 0 .. 3 /\ level # 0
  OBVIOUS
<1>1. t \in Tasks /\ t.k = "loop" /\ t.args = << >> /\ t.level # 0
  BY <1>0, Placeholders, Kinds DEF Loop, Task, Tasks
<1> HIDE DEF t
<1>2. TaskOK(t, n)
  BY <1>1, Placeholders DEF TaskOK
<1>3. TasksOK(<<t>>, n) /\ <<t>> # << >> /\ <<t>>[1] = t
  BY <1>1, <1>2, OneTask
<1> QED
  BY <1>1, <1>3 DEF t

LEMMA NameTask ==
  ASSUME NEW n \in Nat, NEW name \in Names
  PROVE  TasksOK(<<Name(name)>>, n) /\ <<Name(name)>> # << >> /\ <<Name(name)>>[1].k = "name"
<1> DEFINE t == Name(name)
<1>1. t \in Tasks /\ t.k = "name" /\ t.args = << >> /\ t.name = name
  BY Placeholders, Kinds DEF Name, Task, Tasks
<1> HIDE DEF t
<1>2. TaskOK(t, n)
  BY <1>1, Placeholders DEF TaskOK
<1>3. TasksOK(<<t>>, n) /\ <<t>> # << >> /\ <<t>>[1] = t
  BY <1>1, <1>2, OneTask
<1> QED
  BY <1>1, <1>3 DEF t

LEMMA ArgumentsTask ==
  ASSUME NEW n \in Nat, NEW name \in Names, NEW args \in Seq(Nat),
         \A j \in 1 .. Len(args) : args[j] \in 1 .. n
  PROVE  TasksOK(<<Arguments(name, args)>>, n) /\ <<Arguments(name, args)>> # << >> /\ <<Arguments(name, args)>>[1].k = "args"
<1> DEFINE t == Arguments(name, args)
<1>1. t \in Tasks /\ t.k = "args" /\ t.args = args /\ t.name = name
  BY Placeholders, Kinds DEF Arguments, Task, Tasks
<1> HIDE DEF t
<1>2. TaskOK(t, n)
  BY <1>1, Placeholders DEF TaskOK
<1>3. TasksOK(<<t>>, n) /\ <<t>> # << >> /\ <<t>>[1] = t
  BY <1>1, <1>2, OneTask
<1> QED
  BY <1>1, <1>3 DEF t

LEMMA ArgumentTask ==
  ASSUME NEW n \in Nat, NEW name \in Names, NEW args \in Seq(Nat),
         \A j \in 1 .. Len(args) : args[j] \in 1 .. n
  PROVE  TasksOK(<<Argument(name, args)>>, n) /\ <<Argument(name, args)>> # << >> /\ <<Argument(name, args)>>[1].k = "arg"
<1> DEFINE t == Argument(name, args)
<1>1. t \in Tasks /\ t.k = "arg" /\ t.args = args /\ t.name = name
  BY Placeholders, Kinds DEF Argument, Task, Tasks
<1> HIDE DEF t
<1>2. TaskOK(t, n)
  BY <1>1, Placeholders DEF TaskOK
<1>3. TasksOK(<<t>>, n) /\ <<t>> # << >> /\ <<t>>[1] = t
  BY <1>1, <1>2, OneTask
<1> QED
  BY <1>1, <1>3 DEF t

LEMMA RightTask ==
  ASSUME NEW n \in Nat, NEW level \in 1 .. 3, NEW op \in BinopKinds, NEW left \in 1 .. n
  PROVE  TasksOK(<<Right(level, op, left)>>, n) /\ <<Right(level, op, left)>> # << >> /\ <<Right(level, op, left)>>[1].k = "right"
<1> DEFINE t == Right(level, op, left)
<1>0. /\ level \in 0 .. 3 /\ level # 0
      /\ <<left>> \in Seq(Nat) /\ Len(<<left>>) = 1 /\ \A j \in 1 .. 1 : <<left>>[j] \in 1 .. n
  OBVIOUS
<1>1. t \in Tasks /\ t.k = "right" /\ t.args = <<left>> /\ t.level # 0 /\ t.op = op
  BY <1>0, Placeholders, Kinds, Operations DEF Right, Task, Tasks
<1> HIDE DEF t
<1>2. TaskOK(t, n)
  BY <1>0, <1>1 DEF TaskOK
<1>3. TasksOK(<<t>>, n) /\ <<t>> # << >> /\ <<t>>[1] = t
  BY <1>1, <1>2, OneTask
<1> QED
  BY <1>1, <1>3 DEF t

(* Each kind of expression.                                               *)
LEMMA IntExpr ==
  ASSUME NEW n \in Nat, NEW type \in {Type(i) : i \in IntTypes}, type \in Builtins, NEW val \in Nat,
         NEW e, e = [t |-> "int", name |-> << >>, op |-> NoOp, type |-> type, val |-> val, args |-> << >>]
  PROVE  e \in Exprs /\ ParsedExpr(e, n + 1)
<1>1. e.t = "int" /\ e.type = type /\ e.args = << >>
  OBVIOUS
<1>2. e \in Exprs
  BY Placeholders DEF Exprs
<1>3. n + 1 - 1 = n
  OBVIOUS
<1>4. ParsedExpr(e, n + 1)
  BY <1>1, <1>3, Placeholders DEF ParsedExpr
<1> QED
  BY <1>2, <1>4

LEMMA VarExpr ==
  ASSUME NEW n \in Nat, NEW name \in Names,
         NEW e, e = [t |-> "var", name |-> name, op |-> NoOp, type |-> NoType, val |-> 0, args |-> << >>]
  PROVE  e \in Exprs /\ ParsedExpr(e, n + 1)
<1>1. e.t = "var" /\ e.name = name /\ e.args = << >>
  OBVIOUS
<1>2. e \in Exprs
  BY Placeholders DEF Exprs
<1>3. n + 1 - 1 = n
  OBVIOUS
<1>4. ParsedExpr(e, n + 1)
  BY <1>1, <1>3, Placeholders DEF ParsedExpr
<1> QED
  BY <1>2, <1>4

LEMMA CallExpr ==
  ASSUME NEW n \in Nat, NEW name \in Names, NEW args \in Seq(Nat),
         \A j \in 1 .. Len(args) : args[j] \in 1 .. n,
         NEW e, e = [t |-> "funcall", name |-> name, op |-> NoOp, type |-> NoType, val |-> 0, args |-> args]
  PROVE  e \in Exprs /\ ParsedExpr(e, n + 1)
<1>1. e.t = "funcall" /\ e.name = name /\ e.args = args
  OBVIOUS
<1>2. e \in Exprs
  BY Placeholders DEF Exprs
<1>3. n + 1 - 1 = n
  OBVIOUS
<1>4. ParsedExpr(e, n + 1)
  BY <1>1, <1>3, Placeholders DEF ParsedExpr
<1> QED
  BY <1>2, <1>4

LEMMA BinopExpr ==
  ASSUME NEW n \in Nat, NEW op \in BinopKinds, NEW args \in Seq(Nat),
         \A j \in 1 .. Len(args) : args[j] \in 1 .. n, Len(args) = 2,
         NEW e, e = [t |-> "binop", name |-> << >>, op |-> op, type |-> NoType, val |-> 0, args |-> args]
  PROVE  e \in Exprs /\ ParsedExpr(e, n + 1)
<1>1. e.t = "binop" /\ e.op = op /\ e.args = args
  OBVIOUS
<1>2. e \in Exprs
  BY Placeholders, Operations DEF Exprs
<1>3. n + 1 - 1 = n
  OBVIOUS
<1>4. \A k \in 1 .. Len(e.args) : e.args[k] \in 1 .. n + 1 - 1
  BY <1>1, <1>3
<1>5. e.t # "int" /\ e.t \notin {"var", "funcall"} /\ e.op \in BinopKinds /\ Len(e.args) = 2
  BY <1>1
<1>6. ParsedExpr(e, n + 1)
  BY <1>4, <1>5 DEF ParsedExpr
<1> QED
  BY <1>2, <1>6

-----------------------------------------------------------------------------
(* The actions of parse_expr.                                              *)
LEMMA Diagnoses ==
  ASSUME NEW d \in {"unexpected_char", "expected_closing_paren", "expected_opening_paren",
                    "expected_expression", "expected_type", "expected_name", "expected_newline",
                    "expected_equals"}
  PROVE  d \in Outcomes \ {"ok"}
  BY DEF Outcomes

LEMMA PrimaryKeeps == ASSUME IInv, parse_primary PROVE IInv'
<1> DEFINE n == Len(exprs)
<1>1. todo # << >> /\ n \in Nat /\ TextOK(text) /\ pos \in Nat
  BY Lengths DEF parse_primary, Doing, IInv
<1>2. CASE Next_is("TOK_INT") /\ lexer_next /\ make_intlit_expr(Coming) /\ Continue(<< >>)
  <2> DEFINE val == Head(Coming.digits)
             e == [t |-> "int", name |-> << >>, op |-> NoOp, type |-> Coming.type,
                   val |-> val, args |-> << >>]
  <2>1. ~Next_is("TOK_EOF")
    BY <1>2 DEF Next_is
  <2>2. Coming.digits \in Seq(0 .. 9) /\ Coming.digits # << >> /\ Coming.type \in {Type(i) : i \in IntTypes}
    BY <1>1, <1>2, <2>1, NextToken
  <2>3. val \in Nat
    <3>1. val \in 0 .. 9
      BY <2>2, Rest
    <3> QED
      BY <3>1
  <2>4. Coming.type \in Builtins
    BY <2>2 DEF Builtins, BuiltinTypes
  <2>6. make_expr("int", << >>, NoOp, Coming.type, val, << >>)
    BY <1>2 DEF make_intlit_expr, pos_to_num
  <2> HIDE DEF val
  <2>7. e \in Exprs /\ ParsedExpr(e, n + 1)
    BY <1>1, <2>2, <2>3, <2>4, IntExpr
  <2>8. make_expr(e.t, e.name, e.op, e.type, e.val, e.args)
    BY <2>6
  <2>9. pos' \in Nat /\ EofOK' /\ UNCHANGED <<text, outcome>>
    BY <1>2, <2>1, Consumes DEF lexer_next
  <2>10. TasksOK(<< >>, n + 1)
    BY <1>1, NoTasks
  <2> QED
    BY <1>1, <1>2, <2>7, <2>8, <2>9, <2>10, MakeStep
<1>3. CASE Next_is("TOK_SYM") /\ lexer_next /\ Call(<<Name(Coming.name)>>)
  <2>1. ~Next_is("TOK_EOF")
    BY <1>3 DEF Next_is
  <2>2. Coming.name \in Names
    BY <1>1, <1>3, <2>1, NextToken
  <2>3. pos' \in Nat /\ EofOK' /\ UNCHANGED <<text, outcome>>
    BY <1>3, <2>1, Consumes DEF lexer_next
  <2>4. /\ TasksOK(<<Name(Coming.name)>>, n) /\ <<Name(Coming.name)>> # << >>
        /\ <<Name(Coming.name)>>[1].k = "name"
    BY <1>1, <2>2, NameTask
  <2> QED
    BY <1>1, <1>3, <2>3, <2>4, Kinds, CallStep
<1>4. CASE Next_is("TOK_LPAREN") /\ lexer_next /\ Call(parse_expr \o <<Close>>)
  <2> DEFINE tasks == parse_expr \o <<Close>>
  <2>1. ~Next_is("TOK_EOF")
    BY <1>4 DEF Next_is
  <2>2. pos' \in Nat /\ EofOK' /\ UNCHANGED <<text, outcome>>
    BY <1>4, <2>1, Consumes DEF lexer_next
  <2>3. TasksOK(<<Close>>, n) /\ <<Close>> # << >> /\ <<Close>>[1].k = "close"
    BY <1>1, CloseTask
  <2>4. TasksOK(parse_expr, n) /\ parse_expr # << >> /\ parse_expr[1].k = "primary"
    BY <1>1, Descends DEF parse_expr
  <2>5. TasksOK(tasks, n) /\ tasks # << >> /\ tasks[1].k = "primary"
    BY <1>1, <2>3, <2>4, Kinds, Concatenated
  <2> QED
    BY <1>1, <1>4, <2>2, <2>5, Kinds, CallStep
<1>5. CASE Fail("expected_expression")
  BY <1>5, Diagnoses, FailKeeps
<1> QED
  BY <1>2, <1>3, <1>4, <1>5 DEF parse_primary

LEMMA NameKeeps == ASSUME IInv, parse_name PROVE IInv'
<1> DEFINE n == Len(exprs)
<1>1. todo # << >> /\ n \in Nat /\ Task1.k = "name"
  BY Lengths DEF parse_name, Doing, Task1
<1>2. Task1.name \in Names /\ pos # Len(text) + 1
  BY <1>1, TopTask DEF TaskOK
<1>3. CASE Next_is("TOK_LPAREN") /\ lexer_next /\ Call(<<Arguments(Task1.name, << >>)>>)
  <2> DEFINE tasks == <<Arguments(Task1.name, << >>)>>
  <2>1. pos' \in Nat /\ EofOK' /\ UNCHANGED <<text, outcome>>
    BY <1>3, Consumes DEF lexer_next, Next_is
  <2>2. TasksOK(tasks, n) /\ tasks # << >> /\ tasks[1].k = "args"
    BY <1>1, <1>2, Placeholders, ArgumentsTask
  <2> HIDE DEF tasks
  <2>3. Call(tasks)
    BY <1>3 DEF tasks
  <2> QED
    BY <1>1, <2>1, <2>2, <2>3, Kinds, CallStep
<1>4. CASE /\ lexer_peek
           /\ make_expr("var", Task1.name, NoOp, NoType, 0, << >>) /\ Continue(<< >>)
  <2> DEFINE e == [t |-> "var", name |-> Task1.name, op |-> NoOp, type |-> NoType,
                   val |-> 0, args |-> << >>]
  <2>1. e \in Exprs /\ ParsedExpr(e, n + 1)
    BY <1>1, <1>2, VarExpr
  <2>2. make_expr(e.t, e.name, e.op, e.type, e.val, e.args)
    BY <1>4
  <2> HIDE DEF e
  <2>3. pos' \in Nat /\ EofOK' /\ UNCHANGED <<text, outcome>>
    BY <1>2, <1>4, Peeks DEF lexer_peek
  <2> QED
    BY <1>1, <1>4, <2>1, <2>2, <2>3, NoTasks, MakeStep
<1> QED
  BY <1>3, <1>4 DEF parse_name

LEMMA ParenClosedKeeps == ASSUME IInv, ParenClosed PROVE IInv'
<1>1. todo # << >> /\ Len(exprs) \in Nat /\ Task1.k = "close"
  BY Lengths DEF ParenClosed, Doing, Task1
<1>2. node # NULL
  BY <1>1, TopTask, Kinds DEF NULL
<1>3. CASE Next_is("TOK_RPAREN") /\ lexer_next /\ Call(<< >>)
  <2>1. pos' \in Nat /\ EofOK' /\ UNCHANGED <<text, outcome>>
    BY <1>3, Consumes DEF lexer_next, Next_is
  <2> QED
    BY <1>1, <1>2, <1>3, <2>1, NoTasks, CallStep
<1>4. CASE Fail("expected_closing_paren")
  BY <1>4, Diagnoses, FailKeeps
<1> QED
  BY <1>3, <1>4 DEF ParenClosed

LEMMA EndCallKeeps ==
  ASSUME IInv, todo # << >>, Task1.name \in Names,
         NEW args \in Seq(Nat), \A j \in 1 .. Len(args) : args[j] \in 1 .. Len(exprs), EndCall(args)
  PROVE  IInv'
<1> DEFINE n == Len(exprs)
<1>1. n \in Nat
  BY Lengths
<1>2. CASE /\ Next_is("TOK_RPAREN") /\ lexer_next
           /\ make_expr("funcall", Task1.name, NoOp, NoType, 0, args) /\ Continue(<< >>)
  <2> DEFINE e == [t |-> "funcall", name |-> Task1.name, op |-> NoOp, type |-> NoType,
                   val |-> 0, args |-> args]
  <2>1. e \in Exprs /\ ParsedExpr(e, n + 1)
    BY <1>1, CallExpr
  <2>2. make_expr(e.t, e.name, e.op, e.type, e.val, e.args)
    BY <1>2
  <2> HIDE DEF e
  <2>3. pos' \in Nat /\ EofOK' /\ UNCHANGED <<text, outcome>>
    BY <1>2, Consumes DEF lexer_next, Next_is
  <2> QED
    BY <1>1, <1>2, <2>1, <2>2, <2>3, NoTasks, MakeStep
<1>3. CASE Fail("expected_closing_paren")
  BY <1>3, Diagnoses, FailKeeps
<1> QED
  BY <1>2, <1>3 DEF EndCall

LEMMA FuncallKeeps == ASSUME IInv, parse_funcall PROVE IInv'
<1> DEFINE n == Len(exprs)
           name == Task1.name
           args == Task1.args
<1>1. todo # << >> /\ n \in Nat /\ Task1.k \in {"args", "arg"}
  BY Lengths DEF parse_funcall, Doing, Task1
<1>2. /\ name \in Names /\ args \in Seq(Nat) /\ \A j \in 1 .. Len(args) : args[j] \in 1 .. n
      /\ pos # Len(text) + 1
      /\ Task1.k \in Waiting => node \in 1 .. n
  BY <1>1, TopTask DEF TaskOK, Tasks
<1>3. CASE lexer_peek /\ Call(parse_expr \o <<Argument(Task1.name, Task1.args)>>)
  <2> DEFINE arg == <<Argument(Task1.name, Task1.args)>>
             tasks == parse_expr \o arg
  <2>1. pos' \in Nat /\ EofOK' /\ UNCHANGED <<text, outcome>>
    BY <1>2, <1>3, Peeks DEF lexer_peek
  <2>2. TasksOK(arg, n) /\ arg # << >> /\ arg[1].k = "arg"
    BY <1>1, <1>2, ArgumentTask
  <2>3. TasksOK(parse_expr, n) /\ parse_expr # << >> /\ parse_expr[1].k = "primary"
    BY <1>1, Descends DEF parse_expr
  <2> HIDE DEF arg
  <2>4. TasksOK(tasks, n) /\ tasks # << >> /\ tasks[1].k = "primary"
    BY <1>1, <2>2, <2>3, Kinds, Concatenated
  <2>5. Call(tasks)
    BY <1>3 DEF arg
  <2> QED
    BY <1>1, <2>1, <2>4, <2>5, Kinds, CallStep
<1>4. CASE EndCall(Task1.args)
  BY <1>1, <1>2, <1>4, EndCallKeeps
<1>5. ASSUME Doing("arg")
      PROVE  /\ Append(args, node) \in Seq(Nat)
             /\ \A j \in 1 .. Len(Append(args, node)) : Append(args, node)[j] \in 1 .. n
  <2>1. node \in 1 .. n
    BY <1>2, <1>5, Kinds DEF Doing, Task1
  <2> QED
    BY <1>1, <1>2, <2>1, MoreArgs
<1>6. CASE /\ Doing("arg") /\ Next_is("TOK_COMMA") /\ lexer_next
           /\ Call(<<Arguments(Task1.name, Append(Task1.args, node))>>)
  <2> DEFINE tasks == <<Arguments(Task1.name, Append(Task1.args, node))>>
  <2>1. pos' \in Nat /\ EofOK' /\ UNCHANGED <<text, outcome>>
    BY <1>6, Consumes DEF lexer_next, Next_is
  <2>2. TasksOK(tasks, n) /\ tasks # << >> /\ tasks[1].k = "args"
    BY <1>1, <1>2, <1>5, <1>6, ArgumentsTask
  <2>3. Call(tasks)
    BY <1>6
  <2> HIDE DEF tasks
  <2> QED
    BY <1>1, <2>1, <2>2, <2>3, Kinds, CallStep
<1>7. CASE Doing("arg") /\ EndCall(Append(Task1.args, node))
  BY <1>1, <1>2, <1>5, <1>7, EndCallKeeps
<1> QED
  BY <1>3, <1>4, <1>6, <1>7 DEF parse_funcall

LEMMA BinopKeeps == ASSUME IInv, parse_binop PROVE IInv'
<1> DEFINE n == Len(exprs)
           level == Task1.level
           op == Operators[level][Coming.t]
           right == <<Right(level, op, node)>>
           tasks == Descend(level - 1) \o right
<1>1. /\ todo # << >> /\ n \in Nat /\ Task1.k = "loop"
      /\ Coming.t \in DOMAIN Operators[level] /\ lexer_next /\ Call(tasks)
  BY Lengths DEF parse_binop, Doing, Task1
<1>2. level \in 1 .. 3 /\ level - 1 \in 0 .. 3
  BY <1>1, TopTask DEF TaskOK, Tasks
<1>3. node \in 1 .. n
  BY <1>1, TopTask, Kinds
<1> HIDE DEF level
<1>4. op \in BinopKinds /\ ~Next_is("TOK_EOF")
  BY <1>1, <1>2, OperatorsRead DEF Next_is
<1>5. pos' \in Nat /\ EofOK' /\ UNCHANGED <<text, outcome>>
  BY <1>1, <1>4, Consumes DEF lexer_next
<1> HIDE DEF op
<1>6. TasksOK(right, n) /\ right # << >> /\ right[1].k = "right"
  BY <1>1, <1>2, <1>3, <1>4, RightTask
<1> HIDE DEF right
<1>7. /\ TasksOK(Descend(level - 1), n) /\ Descend(level - 1) # << >>
      /\ Descend(level - 1)[1].k = "primary"
  BY <1>1, <1>2, Descends
<1>8. TasksOK(tasks, n) /\ tasks # << >> /\ tasks[1].k = "primary"
  BY <1>1, <1>6, <1>7, Kinds, Concatenated
<1> QED
  BY <1>1, <1>5, <1>8, Kinds, CallStep

LEMMA EndLoopKeeps == ASSUME IInv, EndLoop PROVE IInv'
<1>1. todo # << >> /\ Len(exprs) \in Nat /\ Task1.k = "loop" /\ lexer_peek /\ Call(<< >>)
  BY Lengths DEF EndLoop, Doing, Task1
<1>2. node # NULL /\ pos # Len(text) + 1
  BY <1>1, TopTask, Kinds DEF NULL
<1>3. pos' \in Nat /\ EofOK' /\ UNCHANGED <<text, outcome>>
  BY <1>1, <1>2, Peeks DEF lexer_peek
<1> QED
  BY <1>1, <1>2, <1>3, NoTasks, CallStep

LEMMA MakeBinopKeeps == ASSUME IInv, MakeBinop PROVE IInv'
<1> DEFINE n == Len(exprs)
           args == Append(Task1.args, node)
           e == [t |-> "binop", name |-> << >>, op |-> Task1.op, type |-> NoType,
                 val |-> 0, args |-> args]
           tasks == <<Loop(Task1.level)>>
<1>1. /\ todo # << >> /\ n \in Nat /\ Task1.k = "right" /\ lexer_peek
      /\ make_expr("binop", << >>, Task1.op, NoType, 0, args) /\ Continue(tasks)
  BY Lengths DEF MakeBinop, Doing, Task1
<1>2. /\ Task1.level \in 1 .. 3 /\ Task1.op \in BinopKinds
      /\ Task1.args \in Seq(Nat) /\ Len(Task1.args) = 1
      /\ \A j \in 1 .. Len(Task1.args) : Task1.args[j] \in 1 .. n
      /\ pos # Len(text) + 1
  BY <1>1, TopTask DEF TaskOK, Tasks
<1>3. node \in 1 .. n
  BY <1>1, TopTask, Kinds
<1>4. args \in Seq(Nat) /\ Len(args) = 2 /\ \A j \in 1 .. Len(args) : args[j] \in 1 .. n
  <2>1. PICK left : left = Task1.args
    OBVIOUS
  <2>2. left \in Seq(Nat) /\ Len(left) = 1 /\ \A j \in 1 .. Len(left) : left[j] \in 1 .. n
    BY <1>2, <2>1
  <2>3. n \in Nat
    BY <1>1
  <2> HIDE DEF n
  <2>4. /\ Append(left, node) \in Seq(Nat) /\ Len(Append(left, node)) = Len(left) + 1
        /\ \A j \in 1 .. Len(Append(left, node)) : Append(left, node)[j] \in 1 .. n
    BY <1>3, <2>2, <2>3, MoreArgs
  <2>5. args = Append(left, node) /\ Len(left) + 1 = 2
    BY <2>1, <2>2
  <2> HIDE DEF args
  <2> QED
    BY <2>4, <2>5
<1> HIDE DEF args
<1>5. e \in Exprs /\ ParsedExpr(e, n + 1)
  BY <1>1, <1>2, <1>4, BinopExpr
<1>6. make_expr(e.t, e.name, e.op, e.type, e.val, e.args)
  BY <1>1
<1> HIDE DEF e
<1>7. TasksOK(tasks, n + 1)
  BY <1>1, <1>2, LoopTask
<1> HIDE DEF tasks
<1>8. pos' \in Nat /\ EofOK' /\ UNCHANGED <<text, outcome>>
  BY <1>1, <1>2, Peeks DEF lexer_peek
<1> QED
  BY <1>1, <1>5, <1>6, <1>7, <1>8, MakeStep

LEMMA ExprKeeps == ASSUME IInv, parse_expr_Next PROVE IInv'
  BY PrimaryKeeps, NameKeeps, ParenClosedKeeps, FuncallKeeps, BinopKeeps, EndLoopKeeps,
     MakeBinopKeeps DEF parse_expr_Next

-----------------------------------------------------------------------------
(* Steps between expressions.                                              *)
LEMMA Placed ==
  ASSUME IInv, NEW place, At(place)
  PROVE  /\ todo = << >> /\ at = place /\ outcome = "running"
         /\ place # "stmt" => pos # Len(text) + 1
         /\ Len(exprs) \in Nat /\ Len(fns) \in Nat /\ Len(text) \in Nat /\ pos \in Nat
<1>1. todo = << >> /\ at = place /\ outcome = "running"
  BY DEF At, Running
<1>2. parse_expr # << >>
  BY Descends DEF parse_expr
<1> QED
  BY <1>1, <1>2, Lengths DEF IInv, EofOK

LEMMA GoStep ==
  ASSUME IInv, todo = << >>, outcome = "running", NEW place \in Places \ {"newline"}, Go(place),
         UNCHANGED <<text, outcome>>, pos' \in Nat, EofOK', FnsOK'
  PROVE  IInv'
<1>1. at' = place /\ UNCHANGED <<todo, node, exprs>>
  BY DEF Go
<1>2. TasksOK(todo, Len(exprs)) /\ node \in 0 .. Len(exprs) /\ ExprsOK
  BY DEF IInv, TodoOK
<1>3. TodoOK'
  BY <1>1, <1>2 DEF TodoOK
<1> QED
  BY <1>1, <1>2, <1>3 DEF IInv, ExprsOK, Outcomes

LEMMA GoParseStep ==
  ASSUME IInv, outcome = "running", GoParse,
         UNCHANGED <<text, outcome>>, pos' \in Nat, EofOK', FnsOK'
  PROVE  IInv'
<1>1. at' = "newline" /\ todo' = parse_expr /\ UNCHANGED <<node, exprs>> /\ Len(exprs) \in Nat
  BY Lengths DEF GoParse
<1>2. node \in 0 .. Len(exprs) /\ ExprsOK
  BY DEF IInv, TodoOK
<1>3. TasksOK(parse_expr, Len(exprs)) /\ parse_expr # << >> /\ parse_expr[1].k = "primary"
  BY <1>1, Descends DEF parse_expr
<1>4. TodoOK'
  BY <1>1, <1>2, <1>3, Kinds DEF TodoOK
<1>5. at' \in Places
  BY <1>1 DEF Places, InStmt
<1> QED
  BY <1>1, <1>2, <1>4, <1>5 DEF IInv, ExprsOK

(* The function being parsed.                                              *)
LEMMA OpenFn ==
  ASSUME IInv, at # "fns"
  PROVE  /\ fns \in Seq(OpenFns) /\ fns # << >> /\ f \in Nat \ {0} /\ f = Len(fns)
         /\ fns[f] \in OpenFns /\ OpenFnOK(fns[f], at) /\ Values(fns[f], Len(exprs))
<1>1. fns \in Seq(OpenFns) /\ fns # << >> /\ FnOK(fns[Len(fns)], at)
  BY DEF IInv, FnsOK
<1>2. Len(fns) \in Nat \ {0} /\ Len(fns) \in 1 .. Len(fns)
  BY <1>1, EmptySeq, LenProperties
<1>3. fns[Len(fns)] \in OpenFns
  BY <1>1, <1>2, ElementOfSeq
<1>4. Values(fns[Len(fns)], Len(exprs))
  BY <1>2 DEF IInv, FnsOK
<1> QED
  BY <1>1, <1>2, <1>3, <1>4 DEF f, FnOK

LEMMA SameFn ==
  ASSUME IInv, at # "fns", UNCHANGED <<fns, exprs>>, FnOK(fns[f], at')
  PROVE  FnsOK'
  BY DEF IInv, FnsOK, f

LEMMA ChangedFn ==
  ASSUME IInv, at # "fns", NEW fn \in OpenFns, fns' = [fns EXCEPT ![f] = fn], UNCHANGED exprs,
         Values(fn, Len(exprs)), FnOK(fn, at')
  PROVE  FnsOK'
<1>1. fns \in Seq(OpenFns) /\ fns # << >> /\ f = Len(fns)
  BY OpenFn
<1>2. /\ fns' \in Seq(OpenFns) /\ Len(fns) \in Nat \ {0} /\ Len(fns') = Len(fns)
      /\ fns'[Len(fns)] = fn /\ \A i \in 1 .. Len(fns) - 1 : fns'[i] = fns[i]
  BY <1>1, LastReplaced
<1>3. ASSUME NEW g \in 1 .. Len(fns')
      PROVE  Values(fns'[g], Len(exprs')) /\ (g < Len(fns') => FnDone(fns'[g]))
  <2>1. CASE g = Len(fns)
    BY <1>2, <2>1
  <2>2. CASE g # Len(fns)
    <3>0. ASSUME NEW m \in Nat, NEW j \in 1 .. m, j # m
          PROVE  j \in 1 .. m - 1 /\ j < m
      BY <3>0
    <3>1. g \in 1 .. Len(fns)
      BY <1>2
    <3>2. g \in 1 .. Len(fns) - 1 /\ g < Len(fns)
      BY <1>2, <2>2, <3>0, <3>1
    <3> QED
      BY <1>2, <3>1, <3>2 DEF IInv, FnsOK
  <2> QED
    BY <2>1, <2>2
<1>4. fns' # << >>
  BY <1>2, EmptySeq
<1> QED
  BY <1>2, <1>3, <1>4 DEF FnsOK

(* The statement being parsed.                                             *)
LEMMA OpenStmt ==
  ASSUME IInv, at \in InStmt
  PROVE  /\ at # "fns" /\ s = Len(fns[f].stmts) /\ s \in Nat \ {0}
         /\ fns[f].stmts \in Seq(Stmts(Nat)) /\ fns[f].stmts[s] \in Stmts(Nat)
         /\ fns[f].stmts[s].value \in 0 .. Len(exprs) /\ OpenStmtOK(fns[f].stmts[s], at)
         /\ fns[f].name \in Names /\ Typed(fns[f], Len(fns[f].params))
         /\ fns[f].stmts # << >> /\ Done(fns[f], Len(fns[f].stmts) - 1)
<1>1. at # "fns" /\ at # "name" /\ at # "param_type"
  BY DEF InStmt, InLet
<1>2. fns[f] \in OpenFns /\ OpenFnOK(fns[f], at) /\ Values(fns[f], Len(exprs))
  BY <1>1, OpenFn
<1>3. /\ fns[f].stmts # << >> /\ Done(fns[f], Len(fns[f].stmts) - 1)
      /\ OpenStmtOK(fns[f].stmts[Len(fns[f].stmts)], at)
      /\ fns[f].name \in Names /\ Typed(fns[f], Len(fns[f].params))
  BY <1>1, <1>2 DEF OpenFnOK
<1>4. fns[f].stmts \in Seq(Stmts(Nat))
  BY <1>2 DEF OpenFns
<1>5. Len(fns[f].stmts) \in Nat \ {0} /\ Len(fns[f].stmts) \in 1 .. Len(fns[f].stmts)
  BY <1>3, <1>4, EmptySeq, LenProperties
<1>6. fns[f].stmts[Len(fns[f].stmts)] \in Stmts(Nat)
  BY <1>4, <1>5, ElementOfSeq
<1>7. fns[f].stmts[Len(fns[f].stmts)].value \in 0 .. Len(exprs)
  BY <1>2, <1>5 DEF Values
<1> QED
  BY <1>1, <1>3, <1>4, <1>5, <1>6, <1>7 DEF s

(* A function with another last statement, or with one more.               *)
LEMMA LastStmt ==
  ASSUME NEW n \in Nat, NEW fn \in OpenFns, Values(fn, n), fn.stmts # << >>,
         Done(fn, Len(fn.stmts) - 1), NEW st \in Stmts(Nat), st.value \in 0 .. n,
         NEW gn, gn = [fn EXCEPT !.stmts = [fn.stmts EXCEPT ![Len(fn.stmts)] = st]]
  PROVE  /\ gn \in OpenFns /\ Values(gn, n) /\ gn.name = fn.name /\ gn.params = fn.params
         /\ gn.stmts # << >> /\ gn.stmts[Len(gn.stmts)] = st /\ Len(gn.stmts) \in Nat \ {0}
         /\ Done(gn, Len(gn.stmts) - 1) /\ (ParsedStmt(st) => Done(gn, Len(gn.stmts)))
<1> DEFINE q == fn.stmts
           r == [q EXCEPT ![Len(q)] = st]
<1>1. q \in Seq(Stmts(Nat))
  BY DEF OpenFns
<1>2. gn.stmts = r /\ gn.name = fn.name /\ gn.params = fn.params /\ gn.ret = fn.ret
      /\ gn = [name |-> fn.name, params |-> fn.params, ret |-> fn.ret, stmts |-> r]
  BY DEF OpenFns
<1>3. q # << >>
  OBVIOUS
<1>4. /\ r \in Seq(Stmts(Nat)) /\ Len(q) \in Nat \ {0} /\ Len(r) = Len(q) /\ r[Len(q)] = st
      /\ \A i \in 1 .. Len(q) - 1 : r[i] = q[i]
  BY <1>1, <1>3, LastReplaced
<1>5. r # << >>
  BY <1>4, EmptySeq
<1>6. /\ \A i \in 1 .. Len(q) : q[i].value \in 0 .. n
      /\ \A i \in 1 .. Len(q) - 1 : ParsedStmt(q[i])
  BY DEF Values, Done
<1> HIDE DEF q, r
<1>7. ASSUME NEW m \in Nat, NEW i \in 1 .. m
      PROVE  i \in 1 .. m - 1 \/ i = m
  OBVIOUS
<1>8. ASSUME NEW i \in 1 .. Len(r)
      PROVE  r[i].value \in 0 .. n
  BY <1>4, <1>6, <1>7
<1>9. ASSUME NEW i \in 1 .. Len(r) - 1
      PROVE  ParsedStmt(r[i])
  BY <1>4, <1>6
<1>10. ASSUME ParsedStmt(st), NEW i \in 1 .. Len(r)
       PROVE  ParsedStmt(r[i])
  BY <1>4, <1>6, <1>7, <1>10
<1>11. gn \in OpenFns
  BY <1>2, <1>4 DEF OpenFns
<1> QED
  BY <1>2, <1>4, <1>5, <1>8, <1>9, <1>10, <1>11 DEF Values, Done

LEMMA MoreStmts ==
  ASSUME NEW n \in Nat, NEW fn \in OpenFns, Values(fn, n), Done(fn, Len(fn.stmts)),
         NEW st \in Stmts(Nat), st.value \in 0 .. n,
         NEW gn, gn = [fn EXCEPT !.stmts = Append(fn.stmts, st)]
  PROVE  /\ gn \in OpenFns /\ Values(gn, n) /\ gn.name = fn.name /\ gn.params = fn.params
         /\ gn.stmts # << >> /\ gn.stmts[Len(gn.stmts)] = st
         /\ Done(gn, Len(gn.stmts) - 1)
<1> DEFINE q == fn.stmts
           r == Append(q, st)
<1>1. q \in Seq(Stmts(Nat))
  BY DEF OpenFns
<1>2. gn.stmts = r /\ gn.name = fn.name /\ gn.params = fn.params /\ gn.ret = fn.ret
      /\ gn = [name |-> fn.name, params |-> fn.params, ret |-> fn.ret, stmts |-> r]
  BY DEF OpenFns
<1>3. /\ r \in Seq(Stmts(Nat)) /\ Len(q) \in Nat /\ Len(r) = Len(q) + 1 /\ r[Len(q) + 1] = st
      /\ r # << >> /\ \A i \in 1 .. Len(q) : r[i] = q[i]
  BY <1>1, Appended
<1>4. /\ \A i \in 1 .. Len(q) : q[i].value \in 0 .. n
      /\ \A i \in 1 .. Len(q) : ParsedStmt(q[i])
  BY DEF Values, Done
<1> HIDE DEF q, r
<1>5. ASSUME NEW m \in Nat, NEW i \in 1 .. m + 1
      PROVE  i \in 1 .. m \/ i = m + 1
  OBVIOUS
<1>6. ASSUME NEW i \in 1 .. Len(r)
      PROVE  r[i].value \in 0 .. n
  BY <1>3, <1>4, <1>5
<1>7. ASSUME NEW i \in 1 .. Len(r) - 1
      PROVE  ParsedStmt(r[i])
  BY <1>3, <1>4
<1>8. gn \in OpenFns
  BY <1>2, <1>3 DEF OpenFns
<1> QED
  BY <1>2, <1>3, <1>6, <1>7, <1>8 DEF Values, Done

LEMMA StmtMoves ==
  ASSUME IInv, at \in InStmt, UNCHANGED <<fns, exprs>>,
         \/ at' \in InStmt /\ OpenStmtOK(fns[f].stmts[s], at')
         \/ at' = "stmt" /\ ParsedStmt(fns[f].stmts[s])
  PROVE  FnsOK'
<1> DEFINE fn == fns[f]
<1>1. /\ at # "fns" /\ s = Len(fn.stmts) /\ s \in Nat \ {0}
      /\ fn.name \in Names /\ Typed(fn, Len(fn.params))
      /\ fn.stmts # << >> /\ Done(fn, Len(fn.stmts) - 1)
  BY OpenStmt
<1> HIDE DEF fn
<1>2. CASE at' \in InStmt /\ OpenStmtOK(fns[f].stmts[s], at')
  <2>1. at' # "fns" /\ at' # "param_type"
    BY <1>2 DEF InStmt, InLet
  <2>2. OpenFnOK(fn, at')
    BY <1>1, <1>2, <2>1 DEF OpenFnOK, fn
  <2> QED
    BY <1>1, <2>1, <2>2, SameFn DEF FnOK, fn
<1>3. CASE at' = "stmt" /\ ParsedStmt(fns[f].stmts[s])
  <2>1. ASSUME NEW i \in 1 .. Len(fn.stmts)
        PROVE  ParsedStmt(fn.stmts[i])
    <3>1. i \in 1 .. Len(fn.stmts) - 1 \/ i = s
      BY <1>1
    <3> QED
      BY <1>1, <1>3, <3>1 DEF Done, fn
  <2>2. at' \notin InStmt /\ at' # "fns" /\ at' # "param_type"
    BY <1>3 DEF InStmt, InLet
  <2>3. OpenFnOK(fn, at')
    BY <1>1, <2>1, <2>2 DEF OpenFnOK, Done
  <2> QED
    BY <1>1, <2>2, <2>3, SameFn DEF FnOK, fn
<1> QED
  BY <1>2, <1>3

LEMMA StmtChanges ==
  ASSUME IInv, at \in InStmt, NEW st \in Stmts(Nat), st.value \in 0 .. Len(exprs),
         fns' = [fns EXCEPT ![f] = [fns[f] EXCEPT !.stmts = [fns[f].stmts EXCEPT ![s] = st]]],
         UNCHANGED exprs,
         \/ at' \in InStmt /\ OpenStmtOK(st, at')
         \/ at' = "stmt" /\ ParsedStmt(st)
  PROVE  FnsOK'
<1> DEFINE fn == fns[f]
           gn == [fn EXCEPT !.stmts = [fn.stmts EXCEPT ![Len(fn.stmts)] = st]]
<1>1. /\ at # "fns" /\ s = Len(fn.stmts)
      /\ fn.name \in Names /\ Typed(fn, Len(fn.params))
      /\ fn.stmts # << >> /\ Done(fn, Len(fn.stmts) - 1)
  BY OpenStmt
<1>2. fn \in OpenFns /\ Values(fn, Len(exprs)) /\ Len(exprs) \in Nat
  BY <1>1, OpenFn, Lengths
<1>3. fns' = [fns EXCEPT ![f] = gn]
  BY <1>1
<1> HIDE DEF fn
<1>4. /\ gn \in OpenFns /\ Values(gn, Len(exprs)) /\ gn.name = fn.name /\ gn.params = fn.params
      /\ gn.stmts # << >> /\ gn.stmts[Len(gn.stmts)] = st /\ Len(gn.stmts) \in Nat \ {0}
      /\ Done(gn, Len(gn.stmts) - 1) /\ (ParsedStmt(st) => Done(gn, Len(gn.stmts)))
  BY <1>1, <1>2, LastStmt
<1> HIDE DEF gn
<1>5. gn.name \in Names /\ Typed(gn, Len(gn.params))
  BY <1>1, <1>4 DEF Typed
<1>6. at' # "fns" /\ at' # "param_type" /\ (at' = "stmt" => at' \notin InStmt)
  BY DEF InStmt, InLet
<1>7. OpenFnOK(gn, at')
  <2>1. CASE at' \in InStmt /\ OpenStmtOK(st, at')
    BY <1>4, <1>5, <1>6, <2>1 DEF OpenFnOK
  <2>2. CASE at' = "stmt" /\ ParsedStmt(st)
    BY <1>4, <1>5, <1>6, <2>2 DEF OpenFnOK
  <2> QED
    BY <2>1, <2>2
<1> QED
  BY <1>1, <1>3, <1>4, <1>6, <1>7, ChangedFn DEF FnOK

(* The places the parser goes to.                                          *)
LEMMA PlacesIn ==
  /\ InStmt \subseteq Places /\ InLet \subseteq InStmt
  /\ {"fns", "name", "lparen", "params", "param_type", "comma", "ret", "block", "stmt"}
       = (Places \ InStmt) \ {"newline"}
  /\ InLet = {"let_middle", "let_type", "let_equal"}
  /\ {"let_name", "return", "newline"} \subseteq InStmt
  /\ "newline" \notin InLet /\ "let_name" \notin InLet /\ "return" \notin InLet
  BY DEF Places, InStmt, InLet

-----------------------------------------------------------------------------
(* The actions of parse_let and parse_return.                              *)
LEMMA LetNameKeeps == ASSUME IInv, LetName PROVE IInv'
<1> DEFINE st == [fns[f].stmts[s] EXCEPT !.name = Coming.name]
<1>1. /\ todo = << >> /\ at = "let_name" /\ outcome = "running" /\ pos \in Nat
  BY Placed DEF LetName
<1>2. CASE /\ Next_is("TOK_SYM") /\ lexer_next /\ Go("let_middle")
           /\ fns' = [fns EXCEPT ![f].stmts[s].name = Coming.name]
  <2>1. ~Next_is("TOK_EOF") /\ TextOK(text)
    BY <1>2 DEF Next_is, IInv
  <2>2. Coming.name \in Names
    BY <1>1, <1>2, <2>1, NextToken
  <2>3. pos' \in Nat /\ EofOK' /\ UNCHANGED <<text, outcome>>
    BY <1>2, <2>1, Consumes DEF lexer_next
  <2>4. fns' = [fns EXCEPT ![f] = [fns[f] EXCEPT !.stmts = [fns[f].stmts EXCEPT ![s] = st]]]
    BY <1>2
  <2>5. /\ fns[f].stmts[s] \in Stmts(Nat) /\ fns[f].stmts[s].value \in 0 .. Len(exprs)
        /\ fns[f].stmts[s].t = "let"
    BY <1>1, OpenStmt, PlacesIn DEF OpenStmtOK
  <2>6. st \in Stmts(Nat) /\ st.value \in 0 .. Len(exprs) /\ st.t = "let" /\ st.name \in Names
    BY <2>2, <2>5 DEF Stmts
  <2> HIDE DEF st
  <2>7. at' = "let_middle" /\ UNCHANGED exprs /\ OpenStmtOK(st, at')
    BY <1>2, <2>6 DEF Go, OpenStmtOK
  <2>8. FnsOK'
    BY <1>1, <2>4, <2>6, <2>7, PlacesIn, StmtChanges
  <2> QED
    BY <1>1, <1>2, <2>3, <2>8, PlacesIn, GoStep
<1>3. CASE Fail("expected_name")
  BY <1>3, Diagnoses, FailKeeps
<1> QED
  BY <1>2, <1>3 DEF LetName

LEMMA LetMiddleKeeps == ASSUME IInv, LetMiddle PROVE IInv'
<1>1. /\ todo = << >> /\ at = "let_middle" /\ outcome = "running"
  BY Placed DEF LetMiddle
<1>2. fns[f].stmts[s].t = "let" /\ fns[f].stmts[s].name \in Names
  BY <1>1, OpenStmt, PlacesIn DEF OpenStmtOK
<1>3. CASE Next_is("TOK_EQ") /\ lexer_next /\ GoParse /\ UNCHANGED fns
  <2>1. pos' \in Nat /\ EofOK' /\ UNCHANGED <<text, outcome>>
    BY <1>3, Consumes DEF lexer_next, Next_is
  <2>2. at' = "newline" /\ UNCHANGED <<fns, exprs>> /\ OpenStmtOK(fns[f].stmts[s], at')
    BY <1>2, <1>3, PlacesIn DEF GoParse, OpenStmtOK
  <2>3. FnsOK'
    BY <1>1, <2>2, PlacesIn, StmtMoves
  <2> QED
    BY <1>1, <1>3, <2>1, <2>3, GoParseStep
<1>4. CASE Next_is("TOK_COLON") /\ lexer_next /\ Go("let_type") /\ UNCHANGED fns
  <2>1. pos' \in Nat /\ EofOK' /\ UNCHANGED <<text, outcome>>
    BY <1>4, Consumes DEF lexer_next, Next_is
  <2>2. at' = "let_type" /\ UNCHANGED <<fns, exprs>> /\ OpenStmtOK(fns[f].stmts[s], at')
    BY <1>2, <1>4 DEF Go, OpenStmtOK
  <2>3. FnsOK'
    BY <1>1, <2>2, PlacesIn, StmtMoves
  <2> QED
    BY <1>1, <1>4, <2>1, <2>3, PlacesIn, GoStep
<1>5. CASE Fail("expected_equals")
  BY <1>5, Diagnoses, FailKeeps
<1> QED
  BY <1>3, <1>4, <1>5 DEF LetMiddle

LEMMA LetTypeKeeps == ASSUME IInv, LetType PROVE IInv'
<1> DEFINE st == [fns[f].stmts[s] EXCEPT !.type = parse_type]
<1>1. /\ todo = << >> /\ at = "let_type" /\ outcome = "running"
  BY Placed DEF LetType
<1>2. CASE /\ IsType /\ lexer_next /\ Go("let_equal")
           /\ fns' = [fns EXCEPT ![f].stmts[s].type = parse_type]
  <2>1. parse_type \in Written /\ parse_type # NoType /\ ~Next_is("TOK_EOF")
    BY <1>2, TypesRead
  <2>2. pos' \in Nat /\ EofOK' /\ UNCHANGED <<text, outcome>>
    BY <1>2, <2>1, Consumes DEF lexer_next
  <2>3. fns' = [fns EXCEPT ![f] = [fns[f] EXCEPT !.stmts = [fns[f].stmts EXCEPT ![s] = st]]]
    BY <1>2
  <2>4. /\ fns[f].stmts[s] \in Stmts(Nat) /\ fns[f].stmts[s].value \in 0 .. Len(exprs)
        /\ fns[f].stmts[s].t = "let" /\ fns[f].stmts[s].name \in Names
    BY <1>1, OpenStmt, PlacesIn DEF OpenStmtOK
  <2>5. /\ st \in Stmts(Nat) /\ st.value \in 0 .. Len(exprs) /\ st.t = "let"
        /\ st.name \in Names /\ st.type # NoType
    BY <2>1, <2>4 DEF Stmts
  <2> HIDE DEF st
  <2>6. at' = "let_equal" /\ UNCHANGED exprs /\ OpenStmtOK(st, at')
    BY <1>2, <2>5 DEF Go, OpenStmtOK
  <2>7. FnsOK'
    BY <1>1, <2>3, <2>5, <2>6, PlacesIn, StmtChanges
  <2> QED
    BY <1>1, <1>2, <2>2, <2>7, PlacesIn, GoStep
<1>3. CASE Fail("expected_type")
  BY <1>3, Diagnoses, FailKeeps
<1> QED
  BY <1>2, <1>3 DEF LetType

LEMMA LetEqualKeeps == ASSUME IInv, LetEqual PROVE IInv'
<1>1. /\ todo = << >> /\ at = "let_equal" /\ outcome = "running"
  BY Placed DEF LetEqual
<1>2. /\ fns[f].stmts[s].t = "let" /\ fns[f].stmts[s].name \in Names
      /\ fns[f].stmts[s].type # NoType
  BY <1>1, OpenStmt, PlacesIn DEF OpenStmtOK
<1>3. CASE Next_is("TOK_EQ") /\ lexer_next /\ GoParse /\ UNCHANGED fns
  <2>1. pos' \in Nat /\ EofOK' /\ UNCHANGED <<text, outcome>>
    BY <1>3, Consumes DEF lexer_next, Next_is
  <2>2. at' = "newline" /\ UNCHANGED <<fns, exprs>> /\ OpenStmtOK(fns[f].stmts[s], at')
    BY <1>2, <1>3, PlacesIn DEF GoParse, OpenStmtOK
  <2>3. FnsOK'
    BY <1>1, <2>2, PlacesIn, StmtMoves
  <2> QED
    BY <1>1, <1>3, <2>1, <2>3, GoParseStep
<1>4. CASE Next_is("TOK_NEWLINE") /\ lexer_next /\ Go("stmt") /\ UNCHANGED fns
  <2>1. pos' \in Nat /\ EofOK' /\ UNCHANGED <<text, outcome>>
    BY <1>4, Consumes DEF lexer_next, Next_is
  <2>2. at' = "stmt" /\ UNCHANGED <<fns, exprs>> /\ ParsedStmt(fns[f].stmts[s])
    BY <1>2, <1>4 DEF Go, ParsedStmt
  <2>3. FnsOK'
    BY <1>1, <2>2, PlacesIn, StmtMoves
  <2> QED
    BY <1>1, <1>4, <2>1, <2>3, PlacesIn, GoStep
<1>5. CASE Fail("expected_equals")
  BY <1>5, Diagnoses, FailKeeps
<1> QED
  BY <1>3, <1>4, <1>5 DEF LetEqual

LEMMA ReturnKeeps == ASSUME IInv, parse_return PROVE IInv'
<1>1. /\ todo = << >> /\ at = "return" /\ outcome = "running" /\ pos # Len(text) + 1
  BY Placed DEF parse_return
<1>2. fns[f].stmts[s].t = "return"
  BY <1>1, OpenStmt, PlacesIn DEF OpenStmtOK
<1>3. CASE Next_is("TOK_NEWLINE") /\ lexer_next /\ Go("stmt") /\ UNCHANGED fns
  <2>1. pos' \in Nat /\ EofOK' /\ UNCHANGED <<text, outcome>>
    BY <1>3, Consumes DEF lexer_next, Next_is
  <2>2. at' = "stmt" /\ UNCHANGED <<fns, exprs>> /\ ParsedStmt(fns[f].stmts[s])
    BY <1>2, <1>3 DEF Go, ParsedStmt
  <2>3. FnsOK'
    BY <1>1, <2>2, PlacesIn, StmtMoves
  <2> QED
    BY <1>1, <1>3, <2>1, <2>3, PlacesIn, GoStep
<1>4. CASE lexer_peek /\ GoParse /\ UNCHANGED fns
  <2>1. pos' \in Nat /\ EofOK' /\ UNCHANGED <<text, outcome>>
    BY <1>1, <1>4, Peeks DEF lexer_peek
  <2>2. at' = "newline" /\ UNCHANGED <<fns, exprs>> /\ OpenStmtOK(fns[f].stmts[s], at')
    BY <1>2, <1>4, PlacesIn DEF GoParse, OpenStmtOK
  <2>3. FnsOK'
    BY <1>1, <2>2, PlacesIn, StmtMoves
  <2> QED
    BY <1>1, <1>4, <2>1, <2>3, GoParseStep
<1> QED
  BY <1>3, <1>4 DEF parse_return

LEMMA EndStmtKeeps == ASSUME IInv, EndStmt PROVE IInv'
<1> DEFINE st == [fns[f].stmts[s] EXCEPT !.value = node]
<1>1. /\ todo = << >> /\ at = "newline" /\ outcome = "running" /\ Len(exprs) \in Nat
  BY Placed DEF EndStmt
<1>2. node \in 1 .. Len(exprs)
  BY <1>1 DEF IInv, TodoOK, NULL
<1>3. CASE /\ Next_is("TOK_NEWLINE") /\ lexer_next /\ Go("stmt")
           /\ fns' = [fns EXCEPT ![f].stmts[s].value = node]
  <2>1. pos' \in Nat /\ EofOK' /\ UNCHANGED <<text, outcome>>
    BY <1>3, Consumes DEF lexer_next, Next_is
  <2>2. fns' = [fns EXCEPT ![f] = [fns[f] EXCEPT !.stmts = [fns[f].stmts EXCEPT ![s] = st]]]
    BY <1>3
  <2>3. /\ fns[f].stmts[s] \in Stmts(Nat)
        /\ fns[f].stmts[s].t = "let" => fns[f].stmts[s].name \in Names
    BY <1>1, OpenStmt, PlacesIn DEF OpenStmtOK
  <2>4. st \in Stmts(Nat) /\ st.value = node /\ (st.t = "let" => st.name \in Names)
    BY <1>1, <1>2, <2>3 DEF Stmts
  <2> HIDE DEF st
  <2>5. st.value \in 0 .. Len(exprs) /\ ParsedStmt(st)
    BY <1>1, <1>2, <2>4 DEF ParsedStmt, NULL
  <2>6. at' = "stmt" /\ UNCHANGED exprs
    BY <1>3 DEF Go
  <2>7. FnsOK'
    BY <1>1, <2>2, <2>4, <2>5, <2>6, PlacesIn, StmtChanges
  <2> QED
    BY <1>1, <1>3, <2>1, <2>7, PlacesIn, GoStep
<1>4. CASE Fail("expected_newline")
  BY <1>4, Diagnoses, FailKeeps
<1> QED
  BY <1>3, <1>4 DEF EndStmt

-----------------------------------------------------------------------------
(* The actions of parse_block.                                             *)
(* Between the parts of a function nothing is missing of those read.       *)
LEMMA Between ==
  ASSUME NEW fn, NEW place \in {"lparen", "params", "comma", "ret", "block", "stmt"}
  PROVE  /\ OpenFnOK(fn, place) <=>
              fn.name \in Names /\ Typed(fn, Len(fn.params)) /\ Done(fn, Len(fn.stmts))
         /\ FnOK(fn, place) <=> OpenFnOK(fn, place)
         /\ place \in Places \ {"newline"}
<1>1. place \notin InStmt /\ place # "name" /\ place # "param_type" /\ place # "fns" /\ place \in Places
  BY DEF InStmt, InLet, Places
<1> QED
  BY <1>1, PlacesIn DEF OpenFnOK, FnOK

LEMMA NewStmtKeeps ==
  ASSUME IInv, at = "stmt", NEW t \in {"let", "expr", "return"}, NewStmt(t), UNCHANGED exprs,
         \/ t = "let" /\ at' = "let_name"
         \/ t = "return" /\ at' = "return"
         \/ t = "expr" /\ at' = "newline"
  PROVE  FnsOK'
<1> DEFINE fn == fns[f]
           st == [t |-> t, name |-> << >>, type |-> NoType, value |-> NULL]
           gn == [fn EXCEPT !.stmts = Append(fn.stmts, st)]
<1>1. at # "fns" /\ fn \in OpenFns /\ Values(fn, Len(exprs)) /\ OpenFnOK(fn, "stmt")
  BY OpenFn
<1>2. /\ fn.name \in Names /\ Typed(fn, Len(fn.params)) /\ Done(fn, Len(fn.stmts))
      /\ Len(exprs) \in Nat
  BY <1>1, Between, Lengths
<1>3. fns' = [fns EXCEPT ![f] = gn]
  BY DEF NewStmt
<1>4. st \in Stmts(Nat) /\ st.value = NULL /\ st.t = t
  BY Placeholders DEF Stmts
<1> HIDE DEF fn, st
<1>5. st.value \in 0 .. Len(exprs)
  BY <1>2, <1>4 DEF NULL
<1>6. /\ gn \in OpenFns /\ Values(gn, Len(exprs)) /\ gn.name = fn.name /\ gn.params = fn.params
      /\ gn.stmts # << >> /\ gn.stmts[Len(gn.stmts)] = st
      /\ Done(gn, Len(gn.stmts) - 1)
  BY <1>1, <1>2, <1>4, <1>5, MoreStmts
<1> HIDE DEF gn
<1>7. gn.name \in Names /\ Typed(gn, Len(gn.params))
  BY <1>2, <1>6 DEF Typed
<1>8. OpenStmtOK(st, at') /\ at' \in InStmt
  BY <1>4, PlacesIn DEF OpenStmtOK
<1>9. at' # "fns" /\ at' # "param_type"
  OBVIOUS
<1>10. OpenFnOK(gn, at')
  BY <1>6, <1>7, <1>8, <1>9 DEF OpenFnOK
<1> QED
  BY <1>1, <1>3, <1>6, <1>9, <1>10, ChangedFn DEF FnOK

LEMMA BlockKeeps == ASSUME IInv, parse_block PROVE IInv'
<1>1. todo = << >> /\ at = "stmt" /\ outcome = "running"
  BY Placed DEF parse_block
<1>2. CASE Coming.t \in {"TOK_LET", "TOK_MUT"} /\ lexer_next /\ Go("let_name") /\ NewStmt("let")
  <2>1. pos' \in Nat /\ EofOK' /\ UNCHANGED <<text, outcome>>
    BY <1>2, Consumes DEF lexer_next, Next_is
  <2>2. at' = "let_name" /\ UNCHANGED exprs
    BY <1>2 DEF Go
  <2>3. FnsOK'
    BY <1>1, <1>2, <2>2, NewStmtKeeps
  <2> QED
    BY <1>1, <1>2, <2>1, <2>3, PlacesIn, GoStep
<1>3. CASE Next_is("TOK_RETURN") /\ lexer_next /\ Go("return") /\ NewStmt("return")
  <2>1. pos' \in Nat /\ EofOK' /\ UNCHANGED <<text, outcome>>
    BY <1>3, Consumes DEF lexer_next, Next_is
  <2>2. at' = "return" /\ UNCHANGED exprs
    BY <1>3 DEF Go
  <2>3. FnsOK'
    BY <1>1, <1>3, <2>2, NewStmtKeeps
  <2> QED
    BY <1>1, <1>3, <2>1, <2>3, PlacesIn, GoStep
<1>4. CASE Next_is("TOK_RCURLY") /\ lexer_next /\ Go("fns") /\ UNCHANGED fns
  <2>1. pos' \in Nat /\ EofOK' /\ UNCHANGED <<text, outcome>>
    BY <1>4, Consumes DEF lexer_next, Next_is
  <2>2. at' = "fns" /\ UNCHANGED <<fns, exprs>>
    BY <1>4 DEF Go
  <2>3. OpenFnOK(fns[f], "stmt") /\ at # "fns"
    BY <1>1, OpenFn
  <2>4. FnOK(fns[f], at')
    BY <2>2, <2>3, Between DEF FnOK, FnDone
  <2>5. FnsOK'
    BY <2>2, <2>3, <2>4, SameFn
  <2> QED
    BY <1>1, <1>4, <2>1, <2>5, PlacesIn, GoStep
<1>5. CASE lexer_peek /\ GoParse /\ NewStmt("expr")
  <2>1. at' = "newline" /\ todo' = parse_expr /\ UNCHANGED <<exprs, text, pos, outcome>>
    BY <1>5 DEF GoParse, lexer_peek
  <2>2. pos' \in Nat /\ EofOK'
    BY <2>1 DEF IInv, EofOK, parse_expr, Descend, Primary, Loop, Task
  <2>3. FnsOK'
    BY <1>1, <1>5, <2>1, NewStmtKeeps
  <2> QED
    BY <1>1, <1>5, <2>1, <2>2, <2>3, GoParseStep
<1> QED
  BY <1>2, <1>3, <1>4, <1>5 DEF parse_block

LEMMA BlockOpensKeeps == ASSUME IInv, BlockOpens PROVE IInv'
<1>1. /\ todo = << >> /\ at = "block" /\ outcome = "running" /\ pos # Len(text) + 1
      /\ Len(text) \in Nat /\ pos \in Nat /\ lexer_next /\ Go("stmt") /\ UNCHANGED fns
  BY Placed DEF BlockOpens
<1>2. at' = "stmt" /\ todo' = << >> /\ UNCHANGED <<text, outcome, exprs>> /\ pos' = pos + 1
  BY <1>1 DEF Go, lexer_next
<1>3. pos <= Len(text) + 1
  BY DEF IInv, EofOK
<1>4. pos' \in Nat /\ EofOK'
  BY <1>1, <1>2, <1>3 DEF EofOK
<1>5. OpenFnOK(fns[f], "block") /\ at # "fns"
  BY <1>1, OpenFn
<1>6. FnOK(fns[f], at')
  BY <1>2, <1>5, Between
<1>7. FnsOK'
  BY <1>1, <1>2, <1>5, <1>6, SameFn
<1> QED
  BY <1>1, <1>2, <1>4, <1>7, Between, GoStep

-----------------------------------------------------------------------------
(* The actions of parse_fn and parse_ast.                                  *)
LEMMA OpensKeeps == ASSUME IInv, FnOpens PROVE IInv'
<1>1. todo = << >> /\ at = "lparen" /\ outcome = "running"
  BY Placed DEF FnOpens
<1>2. OpenFnOK(fns[f], "lparen") /\ at # "fns"
  BY <1>1, OpenFn
<1>3. CASE Next_is("TOK_LPAREN") /\ lexer_next /\ Go("params") /\ UNCHANGED fns
  <2>1. pos' \in Nat /\ EofOK' /\ UNCHANGED <<text, outcome>>
    BY <1>3, Consumes DEF lexer_next, Next_is
  <2>2. FnOK(fns[f], at') /\ UNCHANGED <<fns, exprs>>
    BY <1>2, <1>3, Between DEF Go
  <2>3. FnsOK'
    BY <1>2, <2>2, SameFn
  <2> QED
    BY <1>1, <1>3, <2>1, <2>3, Between, GoStep
<1>4. CASE Fail("expected_opening_paren")
  BY <1>4, Diagnoses, FailKeeps
<1> QED
  BY <1>3, <1>4 DEF FnOpens

LEMMA CommaKeeps == ASSUME IInv, ParamComma PROVE IInv'
<1>1. /\ todo = << >> /\ at = "comma" /\ outcome = "running" /\ pos # Len(text) + 1
      /\ Go("params") /\ UNCHANGED fns
  BY Placed DEF ParamComma
<1>2. OpenFnOK(fns[f], "comma") /\ at # "fns"
  BY <1>1, OpenFn
<1>3. pos' \in Nat /\ EofOK' /\ UNCHANGED <<text, outcome>>
  <2>1. CASE Next_is("TOK_COMMA") /\ lexer_next
    BY <2>1, Consumes DEF lexer_next, Next_is
  <2>2. CASE lexer_peek
    BY <1>1, <2>2, Peeks DEF lexer_peek
  <2> QED
    BY <2>1, <2>2 DEF ParamComma
<1>4. FnOK(fns[f], at') /\ UNCHANGED <<fns, exprs>>
  BY <1>1, <1>2, Between DEF Go
<1>5. FnsOK'
  BY <1>2, <1>4, SameFn
<1> QED
  BY <1>1, <1>3, <1>5, Between, GoStep

LEMMA FnNameKeeps == ASSUME IInv, FnName PROVE IInv'
<1>1. todo = << >> /\ at = "name" /\ outcome = "running"
  BY Placed DEF FnName
<1>2. CASE Next_is("TOK_SYM") /\ lexer_next /\ Go("lparen") /\ fns' = [fns EXCEPT ![f].name = Coming.name]
  <2> DEFINE fn == fns[f]
             gn == [fn EXCEPT !.name = Coming.name]
  <2>1. ~Next_is("TOK_EOF") /\ TextOK(text) /\ pos \in Nat
    BY <1>2 DEF Next_is, IInv
  <2>2. Coming.name \in Names
    BY <1>2, <2>1, NextToken
  <2>3. pos' \in Nat /\ EofOK' /\ UNCHANGED <<text, outcome>>
    BY <1>2, <2>1, Consumes DEF lexer_next
  <2>4. at # "fns" /\ fn \in OpenFns /\ Values(fn, Len(exprs)) /\ OpenFnOK(fn, "name")
    BY <1>1, OpenFn
  <2>5. fns' = [fns EXCEPT ![f] = gn]
    BY <1>2
  <2> HIDE DEF fn
  <2>6. /\ gn \in OpenFns /\ gn.name \in Names
        /\ gn.params = fn.params /\ gn.stmts = fn.stmts
    BY <2>2, <2>4 DEF OpenFns
  <2> HIDE DEF gn
  <2>7. Typed(fn, Len(fn.params)) /\ Done(fn, Len(fn.stmts))
    BY <2>4 DEF OpenFnOK, InStmt, InLet
  <2>8. Values(gn, Len(exprs)) /\ OpenFnOK(gn, "lparen")
    BY <2>4, <2>6, <2>7, Between DEF Values, Typed, Done
  <2>9. FnOK(gn, at') /\ UNCHANGED exprs
    BY <1>2, <2>8, Between DEF Go
  <2>10. FnsOK'
    BY <2>4, <2>5, <2>6, <2>8, <2>9, ChangedFn
  <2> QED
    BY <1>1, <1>2, <2>3, <2>10, Between, GoStep
<1>3. CASE Fail("expected_name")
  BY <1>3, Diagnoses, FailKeeps
<1> QED
  BY <1>2, <1>3 DEF FnName

LEMMA RetTypeKeeps == ASSUME IInv, RetType PROVE IInv'
<1>1. todo = << >> /\ at = "ret" /\ outcome = "running" /\ pos # Len(text) + 1
  BY Placed DEF RetType
<1>2. OpenFnOK(fns[f], "ret") /\ at # "fns"
  BY <1>1, OpenFn
<1>3. CASE lexer_peek /\ Go("block") /\ UNCHANGED fns
  <2>1. pos' \in Nat /\ EofOK' /\ UNCHANGED <<text, outcome>>
    BY <1>1, <1>3, Peeks DEF lexer_peek
  <2>2. FnOK(fns[f], at') /\ UNCHANGED <<fns, exprs>>
    BY <1>2, <1>3, Between DEF Go
  <2>3. FnsOK'
    BY <1>2, <2>2, SameFn
  <2> QED
    BY <1>1, <1>3, <2>1, <2>3, Between, GoStep
<1>4. CASE /\ IsType /\ lexer_next /\ Go("block") /\ fns' = [fns EXCEPT ![f].ret = parse_type]
  <2> DEFINE fn == fns[f]
             gn == [fn EXCEPT !.ret = parse_type]
  <2>1. parse_type \in Builtins /\ ~Next_is("TOK_EOF")
    BY <1>4, TypesRead DEF Written
  <2>2. pos' \in Nat /\ EofOK' /\ UNCHANGED <<text, outcome>>
    BY <1>4, <2>1, Consumes DEF lexer_next
  <2>3. fn \in OpenFns /\ Values(fn, Len(exprs)) /\ OpenFnOK(fn, "ret")
    BY <1>2, OpenFn
  <2>4. fns' = [fns EXCEPT ![f] = gn]
    BY <1>4
  <2> HIDE DEF fn
  <2>5. /\ gn \in OpenFns /\ gn.name = fn.name /\ gn.params = fn.params /\ gn.stmts = fn.stmts
    BY <2>1, <2>3 DEF OpenFns
  <2> HIDE DEF gn
  <2>6. Values(gn, Len(exprs)) /\ OpenFnOK(gn, "block")
    BY <2>3, <2>5, Between DEF Values, Typed, Done
  <2>7. FnOK(gn, at') /\ UNCHANGED exprs
    BY <1>4, <2>6, Between DEF Go
  <2>8. FnsOK'
    BY <1>2, <2>4, <2>5, <2>6, <2>7, ChangedFn
  <2> QED
    BY <1>1, <1>4, <2>2, <2>8, Between, GoStep
<1>5. CASE Fail("expected_type")
  BY <1>5, Diagnoses, FailKeeps
<1> QED
  BY <1>3, <1>4, <1>5 DEF RetType

LEMMA ParamNameKeeps == ASSUME IInv, ParamName PROVE IInv'
<1>1. todo = << >> /\ at = "params" /\ outcome = "running"
  BY Placed DEF ParamName
<1>2. /\ at # "fns" /\ fns[f] \in OpenFns /\ Values(fns[f], Len(exprs))
      /\ OpenFnOK(fns[f], "params")
  BY <1>1, OpenFn
<1>3. CASE Next_is("TOK_RPAREN") /\ lexer_next /\ Go("ret") /\ UNCHANGED fns
  <2>1. pos' \in Nat /\ EofOK' /\ UNCHANGED <<text, outcome>>
    BY <1>3, Consumes DEF lexer_next, Next_is
  <2>2. FnOK(fns[f], at') /\ UNCHANGED <<fns, exprs>>
    BY <1>2, <1>3, Between DEF Go
  <2>3. FnsOK'
    BY <1>2, <2>2, SameFn
  <2> QED
    BY <1>1, <1>3, <2>1, <2>3, Between, GoStep
<1>4. CASE /\ Next_is("TOK_SYM") /\ lexer_next /\ Go("param_type")
           /\ fns' = [fns EXCEPT ![f].params = Append(@, [name |-> Coming.name, type |-> NoType])]
  <2> DEFINE fn == fns[f]
             param == [name |-> Coming.name, type |-> NoType]
             q == fn.params
             r == Append(q, param)
             gn == [fn EXCEPT !.params = r]
  <2>1. ~Next_is("TOK_EOF") /\ TextOK(text) /\ pos \in Nat
    BY <1>4 DEF Next_is, IInv
  <2>2. Coming.name \in Names
    BY <1>4, <2>1, NextToken
  <2>3. pos' \in Nat /\ EofOK' /\ UNCHANGED <<text, outcome>>
    BY <1>4, <2>1, Consumes DEF lexer_next
  <2>4. fns' = [fns EXCEPT ![f] = gn]
    BY <1>4
  <2>5. param \in [name : Names, type : Written \cup {NoType}]
    BY <2>2
  <2>6. q \in Seq([name : Names, type : Written \cup {NoType}])
    BY <1>2 DEF OpenFns
  <2> HIDE DEF param
  <2>7. /\ r \in Seq([name : Names, type : Written \cup {NoType}])
        /\ Len(q) \in Nat /\ Len(r) = Len(q) + 1 /\ r # << >>
        /\ \A i \in 1 .. Len(q) : r[i] = q[i]
    BY <2>5, <2>6, Appended
  <2>8. fn.name \in Names /\ Typed(fn, Len(fn.params)) /\ Done(fn, Len(fn.stmts))
    BY <1>2, Between
  <2> HIDE DEF r
  <2>9. /\ gn \in OpenFns /\ gn.name = fn.name /\ gn.params = r /\ gn.stmts = fn.stmts
    BY <1>2, <2>7 DEF OpenFns
  <2> HIDE DEF gn, fn
  <2>10. Values(gn, Len(exprs)) /\ Done(gn, Len(gn.stmts)) /\ gn.name \in Names
    BY <1>2, <2>8, <2>9 DEF Values, Done, fn
  <2>11. gn.params # << >> /\ Typed(gn, Len(gn.params) - 1)
    BY <2>7, <2>8, <2>9 DEF Typed
  <2>12. at' = "param_type" /\ at' \notin InStmt /\ UNCHANGED exprs
    BY <1>4, PlacesIn DEF Go
  <2>13. FnOK(gn, at')
    BY <2>10, <2>11, <2>12 DEF FnOK, OpenFnOK
  <2>14. FnsOK'
    BY <1>2, <2>4, <2>9, <2>10, <2>12, <2>13, ChangedFn
  <2> QED
    BY <1>1, <1>4, <2>3, <2>14, PlacesIn, GoStep
<1>5. CASE Fail("expected_name")
  BY <1>5, Diagnoses, FailKeeps
<1> QED
  BY <1>3, <1>4, <1>5 DEF ParamName

LEMMA ParamTypeKeeps == ASSUME IInv, ParamType PROVE IInv'
<1>1. todo = << >> /\ at = "param_type" /\ outcome = "running"
  BY Placed DEF ParamType
<1>2. /\ at # "fns" /\ fns[f] \in OpenFns /\ Values(fns[f], Len(exprs))
      /\ OpenFnOK(fns[f], at)
  BY <1>1, OpenFn
<1>3. CASE /\ IsType /\ lexer_next /\ Go("comma")
           /\ fns' = [fns EXCEPT ![f].params[p].type = parse_type]
  <2> DEFINE fn == fns[f]
             q == fn.params
             param == [q[p] EXCEPT !.type = parse_type]
             r == [q EXCEPT ![Len(q)] = param]
             gn == [fn EXCEPT !.params = r]
             S == [name : Names, type : Written \cup {NoType}]
  <2>1. parse_type \in Written /\ parse_type # NoType /\ ~Next_is("TOK_EOF")
    BY <1>3, TypesRead
  <2>2. pos' \in Nat /\ EofOK' /\ UNCHANGED <<text, outcome>>
    BY <1>3, <2>1, Consumes DEF lexer_next
  <2>3. p = Len(q)
    BY DEF p
  <2>4. fns' = [fns EXCEPT ![f] = gn]
    BY <1>3, <2>3
  <2>5. /\ fn.name \in Names /\ q # << >> /\ Typed(fn, Len(q) - 1)
        /\ Done(fn, Len(fn.stmts))
    BY <1>1, <1>2, PlacesIn DEF OpenFnOK
  <2>6. q \in Seq(S)
    BY <1>2 DEF OpenFns
  <2>7. Len(q) \in Nat \ {0} /\ Len(q) \in 1 .. Len(q)
    BY <2>5, <2>6, EmptySeq, LenProperties
  <2>8. q[p] \in S
    BY <2>3, <2>6, <2>7, ElementOfSeq
  <2>9. param \in S /\ param.type # NoType
    BY <2>1, <2>8
  <2>10. \A i \in 1 .. Len(q) - 1 : q[i].type # NoType
    BY <2>5 DEF Typed
  <2> HIDE DEF param, q, S
  <2>11. /\ r \in Seq(S) /\ Len(r) = Len(q) /\ r[Len(q)] = param
         /\ \A i \in 1 .. Len(q) - 1 : r[i] = q[i]
    BY <2>5, <2>6, <2>9, LastReplaced DEF q
  <2> HIDE DEF r, fn
  <2>12. /\ gn \in OpenFns /\ gn.name = fn.name /\ gn.params = r /\ gn.stmts = fn.stmts
    BY <1>2, <2>11 DEF OpenFns, fn, S
  <2> HIDE DEF gn
  <2>13. Values(gn, Len(exprs))
    BY <1>2, <2>12 DEF Values, fn
  <2>14. Typed(gn, Len(gn.params))
    <3>1. ASSUME NEW i \in 1 .. Len(r)
          PROVE  r[i].type # NoType
      <4>1. i \in 1 .. Len(q) - 1 \/ i = Len(q)
        BY <2>7, <2>11
      <4> QED
        BY <2>9, <2>10, <2>11, <4>1
    <3> QED
      BY <2>12, <3>1 DEF Typed
  <2>15. OpenFnOK(gn, "comma")
    BY <2>5, <2>12, <2>14, Between DEF Done
  <2>16. FnOK(gn, at') /\ UNCHANGED exprs
    BY <1>3, <2>15, Between DEF Go
  <2>17. FnsOK'
    BY <1>2, <2>4, <2>12, <2>13, <2>16, ChangedFn
  <2> QED
    BY <1>1, <1>3, <2>2, <2>17, Between, GoStep
<1>4. CASE Fail("expected_type")
  BY <1>4, Diagnoses, FailKeeps
<1> QED
  BY <1>3, <1>4 DEF ParamType

LEMMA AstKeeps == ASSUME IInv, parse_ast PROVE IInv'
<1>1. /\ todo = << >> /\ at = "fns" /\ outcome = "running" /\ pos # Len(text) + 1
      /\ Len(exprs) \in Nat /\ Len(fns) \in Nat
  BY Placed DEF parse_ast
<1>2. CASE outcome' = "ok" /\ UNCHANGED <<text, pos, at, todo, node, fns, exprs>>
  BY <1>1, <1>2 DEF IInv, ExprsOK, TodoOK, FnsOK, EofOK, Outcomes
<1>3. CASE /\ lexer_peek /\ Go("name")
           /\ fns' = Append(fns, [name |-> << >>, params |-> << >>, ret |-> Type("void"), stmts |-> << >>])
  <2> DEFINE fn == [name |-> << >>, params |-> << >>, ret |-> Type("void"), stmts |-> << >>]
  <2>1. pos' \in Nat /\ EofOK' /\ UNCHANGED <<text, outcome>>
    BY <1>1, <1>3, Peeks DEF lexer_peek
  <2>2. fns' = Append(fns, fn)
    BY <1>3
  <2>3. Type("void") \in Builtins
    BY DEF Builtins, BuiltinTypes
  <2>4. fn \in OpenFns /\ fn.params = << >> /\ fn.stmts = << >>
    BY <2>3, Placeholders DEF OpenFns
  <2> HIDE DEF fn
  <2>5. Values(fn, Len(exprs)) /\ Typed(fn, Len(fn.params)) /\ Done(fn, Len(fn.stmts))
    BY <2>4 DEF Values, Typed, Done
  <2>6. OpenFnOK(fn, "name") /\ "name" \in Places \ {"newline"}
    BY <2>5, PlacesIn DEF OpenFnOK, InStmt, InLet
  <2>7. fns \in Seq(OpenFns)
    BY DEF IInv, FnsOK
  <2>8. /\ fns' \in Seq(OpenFns) /\ Len(fns') = Len(fns) + 1 /\ fns'[Len(fns) + 1] = fn
        /\ fns' # << >> /\ \A i \in 1 .. Len(fns) : fns'[i] = fns[i]
    BY <2>2, <2>4, <2>7, Appended
  <2>9. ASSUME NEW g \in 1 .. Len(fns)
        PROVE  Values(fns[g], Len(exprs)) /\ FnDone(fns[g])
    <3>1. g < Len(fns) \/ g = Len(fns)
      BY <1>1
    <3>2. fns # << >> /\ FnOK(fns[Len(fns)], at)
      BY <1>1 DEF IInv, FnsOK
    <3> QED
      BY <1>1, <3>1, <3>2 DEF IInv, FnsOK, FnOK
  <2>10. ASSUME NEW g \in 1 .. Len(fns')
         PROVE  Values(fns'[g], Len(exprs)) /\ (g < Len(fns') => FnDone(fns'[g]))
    <3>1. g \in 1 .. Len(fns) \/ g = Len(fns) + 1
      BY <1>1, <2>8
    <3> QED
      BY <1>1, <2>5, <2>8, <2>9, <3>1
  <2>11. at' = "name" /\ UNCHANGED exprs
    BY <1>3 DEF Go
  <2>12. FnOK(fns'[Len(fns')], at')
    BY <2>6, <2>8, <2>11 DEF FnOK
  <2>13. FnsOK'
    BY <2>8, <2>10, <2>11, <2>12 DEF FnsOK
  <2> QED
    BY <1>1, <1>3, <2>1, <2>6, <2>13, GoStep
<1> QED
  BY <1>2, <1>3 DEF parse_ast

LEMMA NextKeeps == ASSUME IInv, [Next]_vars PROVE IInv'
<1>1. CASE parse_ast
  BY <1>1, AstKeeps
<1>2. CASE parse_fn_Next
  BY <1>2, FnNameKeeps, OpensKeeps, ParamNameKeeps, ParamTypeKeeps, CommaKeeps, RetTypeKeeps
     DEF parse_fn_Next
<1>3. CASE parse_block_Next
  BY <1>3, BlockOpensKeeps, BlockKeeps, LetNameKeeps, LetMiddleKeeps, LetTypeKeeps, LetEqualKeeps,
     ReturnKeeps, EndStmtKeeps DEF parse_block_Next
<1>4. CASE parse_expr_Next
  BY <1>4, ExprKeeps
<1>5. CASE LexerFails
  BY <1>5, Diagnoses, FailKeeps DEF LexerFails
<1>6. CASE UNCHANGED vars
  BY <1>6 DEF vars, IInv, ExprsOK, TodoOK, FnsOK, EofOK
<1> QED
  BY <1>1, <1>2, <1>3, <1>4, <1>5, <1>6 DEF Next

LEMMA InitHolds == ASSUME Init PROVE IInv
<1>1. /\ TextOK(text) /\ pos = 0 /\ at = "fns" /\ todo = << >> /\ node = 0
      /\ fns = << >> /\ exprs = << >> /\ outcome = "running"
  BY TextsAssumption DEF Init, NULL
<1>2. Len(text) \in Nat
  BY <1>1 DEF TextOK
<1>3. ExprsOK /\ EofOK
  BY <1>1, <1>2 DEF ExprsOK, EofOK
<1>4. TodoOK
  BY <1>1, NoTasks DEF TodoOK
<1>5. FnsOK
  BY <1>1 DEF FnsOK
<1> QED
  BY <1>1, <1>3, <1>4, <1>5 DEF IInv, Places, Outcomes

(* The fields of what is being built are there when the next step needs    *)
(* them, at every place of the parser and with every stack of calls.       *)
THEOREM WellFormed == Spec => []IInv
<1>1. Init => IInv
  BY InitHolds
<1>2. IInv /\ [Next]_vars => IInv'
  BY NextKeeps
<1> QED
  BY <1>1, <1>2, PTL DEF Spec

LEMMA DoneIsParsed ==
  ASSUME NEW n \in Nat, NEW fn \in OpenFns, FnDone(fn), Values(fn, n)
  PROVE  /\ fn \in Functions(1 .. n)
         /\ \A i \in 1 .. Len(fn.stmts) : ParsedStmt(fn.stmts[i])
<1>1. /\ fn.name \in Names /\ fn.ret \in Builtins
      /\ fn.params \in Seq([name : Names, type : Written \cup {NoType}])
      /\ fn.stmts \in Seq(Stmts(Nat))
      /\ fn = [name |-> fn.name, params |-> fn.params, ret |-> fn.ret, stmts |-> fn.stmts]
  BY DEF FnDone, OpenFns
<1>2. /\ \A i \in 1 .. Len(fn.params) : fn.params[i].type # NoType
      /\ \A i \in 1 .. Len(fn.stmts) : ParsedStmt(fn.stmts[i])
      /\ \A i \in 1 .. Len(fn.stmts) : fn.stmts[i].value \in 0 .. n
  BY DEF FnDone, Typed, Done, Values
<1>3. ASSUME NEW i \in 1 .. Len(fn.params)
      PROVE  fn.params[i] \in Params
  <2>1. fn.params[i] \in [name : Names, type : Written \cup {NoType}]
    BY <1>1, ElementOfSeq
  <2> QED
    BY <1>2, <2>1 DEF Params
<1>4. ASSUME NEW i \in 1 .. Len(fn.stmts)
      PROVE  fn.stmts[i] \in Stmts(1 .. n)
  <2>1. fn.stmts[i] \in Stmts(Nat)
    BY <1>1, ElementOfSeq
  <2>2. fn.stmts[i].value \in {NULL} \cup 1 .. n
    BY <1>2 DEF NULL
  <2> QED
    BY <2>1, <2>2 DEF Stmts
<1>5. fn.params \in Seq(Params) /\ fn.stmts \in Seq(Stmts(1 .. n))
  <2>1. ASSUME NEW A, NEW B, NEW q \in Seq(A), \A i \in 1 .. Len(q) : q[i] \in B
        PROVE  q \in Seq(B)
    BY <2>1
  <2> QED
    BY <1>1, <1>3, <1>4, <2>1
<1> QED
  BY <1>1, <1>2, <1>5 DEF Functions

(* Whatever file the parser accepts is a program the semantic passes and   *)
(* the IR generator are made for: they take this for granted.              *)
THEOREM AcceptedIsParsed == Spec => []AcceptsParsed
<1>1. ASSUME IInv, outcome = "ok"
      PROVE  Parsed(prog)
  <2>1. at = "fns" /\ ExprsOK /\ fns \in Seq(OpenFns) /\ Len(fns) \in Nat /\ Len(exprs) \in Nat
    BY <1>1, Lengths DEF IInv, FnsOK
  <2>2. ASSUME NEW g \in 1 .. Len(fns)
        PROVE  /\ fns[g] \in OpenFns /\ FnDone(fns[g]) /\ Values(fns[g], Len(exprs))
    <3>1. g < Len(fns) \/ g = Len(fns)
      BY <2>1
    <3>2. fns # << >> /\ FnOK(fns[Len(fns)], at)
      BY <1>1, <2>1 DEF IInv, FnsOK
    <3>3. fns[g] \in OpenFns
      BY <2>1, ElementOfSeq
    <3> QED
      BY <1>1, <2>1, <3>1, <3>2, <3>3 DEF IInv, FnsOK, FnOK
  <2>3. ASSUME NEW g \in 1 .. Len(fns)
        PROVE  /\ fns[g] \in Functions(1 .. Len(exprs))
               /\ \A i \in 1 .. Len(fns[g].stmts) : ParsedStmt(fns[g].stmts[i])
    BY <2>1, <2>2, DoneIsParsed
  <2>4. fns \in Seq(Functions(1 .. Len(exprs)))
    BY <2>1, <2>3
  <2>5. prog.fns = fns /\ prog.exprs = exprs
    BY DEF prog
  <2> QED
    BY <2>1, <2>3, <2>4, <2>5 DEF Parsed, ExprsOK
<1>2. IInv => AcceptsParsed
  BY <1>1 DEF AcceptsParsed
<1> QED
  BY <1>2, WellFormed, PTL

(* The lexer is never asked for anything behind the second end of file.    *)
THEOREM StopsAtEof == Spec => []EofConsumedOnce
<1>1. IInv => EofConsumedOnce
  BY DEF IInv, EofOK, EofConsumedOnce
<1> QED
  BY <1>1, WellFormed, PTL

-----------------------------------------------------------------------------
(* Where a node is: an operand of another, a statement's value, held by a  *)
(* pending call, counted from the outermost, or just returned.             *)
InExpr(m, k, n) == m \in 1 .. Len(exprs) /\ k \in 1 .. Len(exprs[m].args) /\ exprs[m].args[k] = n
InFns(g, i, n) ==
  g \in 1 .. Len(fns) /\ i \in 1 .. Len(fns[g].stmts) /\ fns[g].stmts[i].value = n
InTask(q, k, n) ==
  \E j \in 1 .. Len(todo) :
    q = Len(todo) - j /\ k \in 1 .. Len(todo[j].args) /\ todo[j].args[k] = n
Returned(n) == at = "newline" /\ (todo = << >> \/ todo[1].k \in Waiting) /\ node = n

Is(place, t, a, b) == place.t = t /\ place.a = a /\ place.b = b
At_(t, a, b) == [t |-> t, a |-> a, b |-> b]

(* home gives the one place of each node, own the function it was made in. *)
Home(home, n) ==
  /\ home[n].t \in {"operand", "value", "task", "node"}
  /\ \A a, b : InExpr(a, b, n) <=> Is(home[n], "operand", a, b)
  /\ \A a, b : InFns(a, b, n) <=> Is(home[n], "value", a, b)
  /\ \A a, b : InTask(a, b, n) <=> Is(home[n], "task", a, b)
  /\ Returned(n) <=> home[n].t = "node"
Own(own, n) ==
  /\ own[n] \in 1 .. Len(fns)
  /\ \A a, b : InExpr(a, b, n) => own[a] = own[n]
  /\ \A a, b : InFns(a, b, n) => own[n] = a
  /\ \A a, b : InTask(a, b, n) => own[n] = Len(fns)
  /\ Returned(n) => own[n] = Len(fns)

Bare == {"primary", "loop", "close", "name"}  \* tasks that hold no node
OneHome ==
  /\ \E home, own : \A n \in 1 .. Len(exprs) : Home(home, n) /\ Own(own, n)
  /\ \A j \in 1 .. Len(todo) : todo[j].k \in Bare => todo[j].args = << >>
  /\ at \in InStmt => fns[f].stmts[s].value = NULL

(* When a step moves the nodes of a list b, those the innermost call held  *)
(* and, if used, the one returned, to a new call in its place ...          *)
Lists_(b, used) ==
  \A n \in 1 .. Len(exprs) : \A k :
    k \in 1 .. Len(b) /\ b[k] = n <=>
      InTask(Len(todo) - 1, k, n) \/ (used /\ Returned(n) /\ k = Len(b))

LEMMA MovedToTask ==
  ASSUME NEW home, NEW own, NEW b, NEW used \in BOOLEAN, Lists_(b, used), Len(exprs) \in Nat,
         used => \A k, n : ~(InTask(Len(todo) - 1, k, n) /\ k = Len(b)),
         UNCHANGED <<exprs, fns>>,
         \A n \in 1 .. Len(exprs) : Home(home, n) /\ Own(own, n),
         \A a, k, n : InTask(a, k, n)' <=>
           IF a = Len(todo) - 1 THEN k \in 1 .. Len(b) /\ b[k] = n ELSE InTask(a, k, n),
         \A n \in 1 .. Len(exprs) : Returned(n)' <=> Returned(n) /\ ~used
  PROVE  \E home2, own2 : \A n \in 1 .. Len(exprs') : Home(home2, n)' /\ Own(own2, n)'
<1> DEFINE top == Len(todo) - 1
           moves(n) == used /\ home[n].t = "node"
<1>0. PICK home2 :
        home2 = [n \in 1 .. Len(exprs) |-> IF moves(n) THEN At_("task", top, Len(b)) ELSE home[n]]
  OBVIOUS
<1>1. /\ \A a, c, n : InExpr(a, c, n)' <=> InExpr(a, c, n)
      /\ \A a, c, n : InFns(a, c, n)' <=> InFns(a, c, n)
  BY DEF InExpr, InFns
<1>2. ASSUME NEW n \in 1 .. Len(exprs)
      PROVE  Home(home2, n)' /\ Own(own, n)'
  <2> DEFINE h == home2[n]
  <2>0. Home(home, n) /\ Own(own, n)
    OBVIOUS
  <2>1. \A a, k : InTask(a, k, n)' <=>
           \/ InTask(a, k, n)
           \/ a = top /\ k = Len(b) /\ used /\ Returned(n)
    BY DEF Lists_
  <2>2. CASE moves(n)
    <3>1. h = At_("task", top, Len(b)) /\ Returned(n) /\ used /\ home[n].t = "node"
      BY <1>0, <2>0, <2>2 DEF Home
    <3>2. h.t = "task" /\ h.a = top /\ h.b = Len(b)
      BY <3>1 DEF At_
    <3>3. \A a, k : ~InTask(a, k, n) /\ ~InExpr(a, k, n) /\ ~InFns(a, k, n)
      BY <2>0, <3>1 DEF Home, Is
    <3>4. ~Returned(n)'
      BY <3>1
    <3>5. \A a, k : InTask(a, k, n)' <=> a = top /\ k = Len(b)
      BY <2>1, <3>1, <3>3
    <3>6. \A a, k : Is(h, "operand", a, k) = FALSE /\ Is(h, "value", a, k) = FALSE
      BY <3>2 DEF Is
    <3>7. \A a, k : Is(h, "task", a, k) <=> a = top /\ k = Len(b)
      BY <3>2 DEF Is
    <3>8. Home(home2, n)'
      BY <1>1, <3>2, <3>3, <3>4, <3>5, <3>6, <3>7 DEF Home
    <3>9. Own(own, n)'
      BY <1>1, <2>0, <3>1, <3>3, <3>4, <3>5 DEF Own
    <3> QED BY <3>8, <3>9
  <2>3. CASE ~moves(n)
    <3>1. h = home[n] /\ ~(used /\ Returned(n))
      BY <1>0, <2>0, <2>3 DEF Home
    <3>2. \A a, k : InTask(a, k, n)' <=> InTask(a, k, n)
      BY <2>1, <3>1
    <3>3. Returned(n)' <=> Returned(n)
      BY <3>1
    <3>4. Home(home2, n)'
      BY <1>1, <2>0, <3>1, <3>2, <3>3 DEF Home
    <3>5. Own(own, n)'
      BY <1>1, <2>0, <3>2, <3>3 DEF Own
    <3> QED BY <3>4, <3>5
  <2> QED BY <2>2, <2>3
<1> QED
  BY <1>2

(* ... or to a new node.                                                   *)
LEMMA MovedToOperand ==
  ASSUME NEW home, NEW own, NEW b, NEW used \in BOOLEAN, Lists_(b, used),
         Len(exprs) \in Nat, Len(fns) \in Nat \ {0}, Len(exprs') = Len(exprs) + 1,
         \A a, k, n : InExpr(a, k, n)' <=>
           IF a = Len(exprs) + 1 THEN k \in 1 .. Len(b) /\ b[k] = n ELSE InExpr(a, k, n),
         UNCHANGED fns,
         \A n \in 1 .. Len(exprs) : Home(home, n) /\ Own(own, n),
         \A a, k, n : InTask(a, k, n)' <=> a # Len(todo) - 1 /\ InTask(a, k, n),
         \A n : Returned(n)' <=> n = Len(exprs) + 1,
         \A n \in 1 .. Len(exprs) : Returned(n) => used,
         \A a, k, n : InExpr(a, k, n) => a \in 1 .. Len(exprs) /\ n \in 1 .. Len(exprs),
         \A a, k, n : InTask(a, k, n) => n \in 1 .. Len(exprs),
         \A a, k : ~InFns(a, k, Len(exprs) + 1),
         \A k \in 1 .. Len(b) : b[k] \in 1 .. Len(exprs)
  PROVE  \E home2, own2 : \A n \in 1 .. Len(exprs') : Home(home2, n)' /\ Own(own2, n)'
<1>n. PICK N : N = Len(exprs) + 1
  OBVIOUS
<1> DEFINE top == Len(todo) - 1
           place(n) ==
             IF n = N THEN At_("node", 0, 0)
             ELSE IF home[n].t = "task" /\ home[n].a = top THEN At_("operand", N, home[n].b)
             ELSE IF home[n].t = "node" THEN At_("operand", N, Len(b)) ELSE home[n]
<1>0. PICK home2, own2 : /\ home2 = [n \in 1 .. N |-> place(n)]
                         /\ own2 = [n \in 1 .. N |-> IF n = N THEN Len(fns) ELSE own[n]]
  OBVIOUS
<1>1. \A a, c, n : InFns(a, c, n)' <=> InFns(a, c, n)
  BY DEF InFns
<1>2. N \notin 1 .. Len(exprs) /\ 1 .. Len(exprs') = 1 .. N /\ N \in 1 .. N
  BY <1>n
<1>3. Home(home2, N)' /\ Own(own2, N)'
  <2>1. home2[N] = At_("node", 0, 0) /\ own2[N] = Len(fns)
    BY <1>0, <1>2
  <2>2. home2[N].t = "node"
    BY <2>1 DEF At_
  <2>3. /\ \A a, k : ~InExpr(a, k, N)' /\ ~InTask(a, k, N)' /\ ~InFns(a, k, N)'
        /\ Returned(N)'
    BY <1>n, <1>1, <1>2
  <2>4. \A a, k : /\ Is(home2[N], "operand", a, k) = FALSE
                  /\ Is(home2[N], "value", a, k) = FALSE
                  /\ Is(home2[N], "task", a, k) = FALSE
    BY <2>2 DEF Is
  <2>5. Home(home2, N)'
    BY <2>2, <2>3, <2>4 DEF Home
  <2>6. Own(own2, N)'
    BY <2>1, <2>3 DEF Own
  <2> QED BY <2>5, <2>6
<1>4. ASSUME NEW n \in 1 .. Len(exprs)
      PROVE  Home(home2, n)' /\ Own(own2, n)'
  <2> DEFINE h == home2[n]
  <2>0. /\ Home(home, n) /\ Own(own, n) /\ n \in 1 .. N /\ n # N
        /\ h = place(n) /\ own2[n] = own[n]
    BY <1>n, <1>0
  <2>1. /\ \A k : k \in 1 .. Len(b) /\ b[k] = n <=>
                    InTask(top, k, n) \/ (used /\ Returned(n) /\ k = Len(b))
        /\ ~Returned(n)'
    BY <2>0, <1>n DEF Lists_
  <2>2. ASSUME NEW a, NEW k, InExpr(a, k, n)'
        PROVE  own2[a] = own2[n]
    <3>1. CASE a = N
      <4>1. InTask(top, k, n) \/ Returned(n)
        BY <1>n, <2>1, <2>2, <3>1
      <4> QED
        BY <1>0, <1>2, <2>0, <3>1, <4>1 DEF Own
    <3>2. CASE a # N
      <4>1. InExpr(a, k, n) /\ a \in 1 .. Len(exprs)
        BY <1>n, <2>2, <3>2
      <4> QED
        BY <1>0, <1>2, <2>0, <3>2, <4>1 DEF Own
    <3> QED BY <3>1, <3>2
  <2>3. Own(own2, n)'
    BY <1>1, <2>0, <2>1, <2>2 DEF Own
  <2>4. CASE home[n].t = "task" /\ home[n].a = top
    <3>1. h = At_("operand", N, home[n].b)
      BY <2>0, <2>4
    <3>2. h.t = "operand" /\ h.a = N /\ h.b = home[n].b
      BY <3>1 DEF At_
    <3>3. /\ \A a, k : ~InExpr(a, k, n) /\ ~InFns(a, k, n)
          /\ ~Returned(n) /\ \A a, k : InTask(a, k, n) <=> a = top /\ k = home[n].b
      BY <2>0, <2>4 DEF Home, Is
    <3>4. \A a, k : InTask(a, k, n)' = FALSE
      BY <3>3
    <3>5. \A a, k : InExpr(a, k, n)' <=> a = N /\ k = home[n].b
      BY <1>n, <2>1, <3>3
    <3>6. \A a, k : Is(h, "task", a, k) = FALSE /\ Is(h, "value", a, k) = FALSE
      BY <3>2 DEF Is
    <3>7. \A a, k : Is(h, "operand", a, k) <=> a = N /\ k = home[n].b
      BY <3>2 DEF Is
    <3> QED
      BY <1>1, <2>1, <2>3, <3>2, <3>3, <3>4, <3>5, <3>6, <3>7 DEF Home
  <2>5. CASE home[n].t = "node"
    <3>1. h = At_("operand", N, Len(b))
      BY <2>0, <2>5
    <3>2. h.t = "operand" /\ h.a = N /\ h.b = Len(b)
      BY <3>1 DEF At_
    <3>3. /\ \A a, k : ~InExpr(a, k, n) /\ ~InFns(a, k, n) /\ ~InTask(a, k, n)
          /\ Returned(n) /\ used
      BY <2>0, <2>5 DEF Home, Is
    <3>4. \A a, k : InTask(a, k, n)' = FALSE
      BY <3>3
    <3>5. \A a, k : InExpr(a, k, n)' <=> a = N /\ k = Len(b)
      BY <1>n, <2>1, <3>3
    <3>6. \A a, k : Is(h, "task", a, k) = FALSE /\ Is(h, "value", a, k) = FALSE
      BY <3>2 DEF Is
    <3>7. \A a, k : Is(h, "operand", a, k) <=> a = N /\ k = Len(b)
      BY <3>2 DEF Is
    <3> QED
      BY <1>1, <2>1, <2>3, <3>2, <3>3, <3>4, <3>5, <3>6, <3>7 DEF Home
  <2>6. CASE ~(home[n].t = "task" /\ home[n].a = top) /\ home[n].t # "node"
    <3>1. h = home[n]
      BY <2>0, <2>6
    <3>2. ~Returned(n) /\ \A k : ~InTask(top, k, n)
      BY <2>0, <2>6 DEF Home, Is
    <3>3. \A a, k : InTask(a, k, n)' <=> InTask(a, k, n)
      BY <3>2
    <3>4. \A k : ~InExpr(N, k, n)
      BY <1>2
    <3>5. \A a, k : InExpr(a, k, n)' <=> InExpr(a, k, n)
      BY <1>n, <2>1, <3>2, <3>4
    <3> QED
      BY <1>1, <2>0, <2>1, <2>3, <3>1, <3>2, <3>3, <3>5 DEF Home
  <2> QED BY <2>4, <2>5, <2>6
<1>5. \A n \in 1 .. Len(exprs') : Home(home2, n)' /\ Own(own2, n)'
  BY <1>2, <1>3, <1>4
<1> QED
  BY <1>5

(* The nodes of the tasks that take the place of the innermost one.        *)
LEMMA PushedTasks ==
  ASSUME todo \in Seq(Tasks), todo # << >>, NEW tasks \in Seq(Tasks), Continue(tasks), NEW b,
         IF tasks = << >> THEN b = << >> ELSE b = tasks[Len(tasks)].args,
         \A j \in 1 .. Len(tasks) - 1 : tasks[j].args = << >>
  PROVE  \A a, k, n : InTask(a, k, n)' <=>
           IF a = Len(todo) - 1 THEN k \in 1 .. Len(b) /\ b[k] = n ELSE InTask(a, k, n)
<1>1. /\ todo' = tasks \o Tail(todo) /\ Len(tasks) \in Nat /\ Len(todo) \in Nat \ {0}
      /\ Tail(todo) \in Seq(Tasks) /\ Len(Tail(todo)) = Len(todo) - 1
      /\ \A i \in 1 .. Len(Tail(todo)) : Tail(todo)[i] = todo[i + 1]
  BY Rest DEF Continue
<1>0. PICK T, L : T = Len(tasks) /\ L = Len(todo)
  OBVIOUS
<1>2. /\ Len(todo') = T + L - 1
      /\ \A i \in 1 .. Len(todo') : todo'[i] = IF i <= T THEN tasks[i] ELSE Tail(todo)[i - T]
  BY <1>0, <1>1, ConcatProperties
<1>3. tasks = << >> <=> T = 0
  BY <1>0, <1>1, EmptySeq
<1>4. \A i \in T + 1 .. Len(todo') : todo'[i] = todo[i - T + 1]
  BY <1>0, <1>1, <1>2
<1>5. T \in Nat /\ L \in Nat \ {0}
  BY <1>0, <1>1
<1>6. ASSUME NEW a, NEW k, NEW n, a # L - 1, InTask(a, k, n)'
      PROVE  InTask(a, k, n)
  <2>1. PICK j \in 1 .. Len(todo') :
          a = Len(todo') - j /\ k \in 1 .. Len(todo'[j].args) /\ todo'[j].args[k] = n
    BY <1>6 DEF InTask
  <2>2. CASE j <= T
    <3>1. j # T
      BY <1>2, <1>5, <1>6, <2>1, <2>2
    <3>2. j \in 1 .. T - 1 /\ todo'[j] = tasks[j]
      BY <1>2, <1>5, <2>1, <2>2, <3>1
    <3>3. Len(todo'[j].args) = 0
      BY <1>0, <3>2
    <3> QED
      BY <2>1, <3>3
  <2>3. CASE j > T
    <3>1. j \in T + 1 .. Len(todo') /\ j - T + 1 \in 1 .. L /\ a = L - (j - T + 1)
      BY <1>2, <1>5, <2>1, <2>3
    <3>2. todo'[j] = todo[j - T + 1]
      BY <1>4, <3>1
    <3> QED
      BY <1>0, <2>1, <3>1, <3>2 DEF InTask
  <2> QED
    BY <1>2, <1>5, <2>1, <2>2, <2>3
<1>7. ASSUME NEW a, NEW k, NEW n, a # L - 1, InTask(a, k, n)
      PROVE  InTask(a, k, n)'
  <2>1. PICK j \in 1 .. L : a = L - j /\ k \in 1 .. Len(todo[j].args) /\ todo[j].args[k] = n
    BY <1>0, <1>7 DEF InTask
  <2>2. j \in 2 .. L
    BY <1>5, <1>7, <2>1
  <2>3. /\ j + T - 1 \in T + 1 .. Len(todo') /\ a = Len(todo') - (j + T - 1)
        /\ (j + T - 1) - T + 1 = j /\ j + T - 1 \in 1 .. Len(todo')
    BY <1>2, <1>5, <2>1, <2>2
  <2>4. todo'[j + T - 1] = todo[j]
    BY <1>4, <2>3
  <2> QED
    BY <2>1, <2>3, <2>4 DEF InTask
<1>8. ASSUME NEW k, NEW n
      PROVE  InTask(L - 1, k, n)' <=> k \in 1 .. Len(b) /\ b[k] = n
  <2>1. CASE T = 0
    <3>1. Len(b) = 0
      BY <1>3, <2>1
    <3>2. \A j \in 1 .. Len(todo') : L - 1 # Len(todo') - j
      BY <1>2, <1>5, <2>1
    <3> QED
      BY <3>1, <3>2 DEF InTask
  <2>2. CASE T # 0
    <3>1. T \in 1 .. Len(todo') /\ L - 1 = Len(todo') - T
      BY <1>2, <1>5, <2>2
    <3>2. todo'[T] = tasks[T]
      BY <1>2, <1>5, <2>2, <3>1
    <3>3. todo'[T].args = b
      BY <1>0, <1>3, <2>2, <3>2
    <3>4. \A j \in 1 .. Len(todo') : L - 1 = Len(todo') - j => j = T
      BY <1>2, <1>5
    <3> QED
      BY <3>1, <3>3, <3>4 DEF InTask
  <2> QED
    BY <2>1, <2>2
<1> QED
  BY <1>0, <1>6, <1>7, <1>8

(* The steps of an expression.                                             *)
BareTasks(tasks) == \A j \in 1 .. Len(tasks) : tasks[j].k \in Bare => tasks[j].args = << >>

LEMMA PushedBare ==
  ASSUME todo \in Seq(Tasks), todo # << >>, BareTasks(todo), NEW tasks \in Seq(Tasks),
         Continue(tasks), BareTasks(tasks)
  PROVE  BareTasks(todo')
<1>1. /\ todo' = tasks \o Tail(todo) /\ Len(tasks) \in Nat /\ Len(todo) \in Nat \ {0}
      /\ Tail(todo) \in Seq(Tasks) /\ Len(Tail(todo)) = Len(todo) - 1
      /\ \A i \in 1 .. Len(Tail(todo)) : Tail(todo)[i] = todo[i + 1]
  BY Rest DEF Continue
<1>2. /\ Len(todo') = Len(tasks) + Len(todo) - 1
      /\ \A i \in 1 .. Len(todo') :
           todo'[i] = IF i <= Len(tasks) THEN tasks[i] ELSE Tail(todo)[i - Len(tasks)]
  BY <1>1, ConcatProperties
<1>3. ASSUME NEW j \in 1 .. Len(todo')
      PROVE  todo'[j].k \in Bare => todo'[j].args = << >>
  <2>1. CASE j <= Len(tasks)
    BY <1>1, <1>2, <2>1 DEF BareTasks
  <2>2. CASE j > Len(tasks)
    <3>1. j - Len(tasks) \in 1 .. Len(Tail(todo)) /\ j - Len(tasks) + 1 \in 1 .. Len(todo)
      BY <1>1, <1>2, <2>2
    <3>2. todo'[j] = todo[j - Len(tasks) + 1]
      BY <1>1, <1>2, <2>2, <3>1
    <3> QED
      BY <3>1, <3>2 DEF BareTasks
  <2> QED
    BY <1>1, <1>2, <2>1, <2>2
<1> QED
  BY <1>3 DEF BareTasks

LEMMA TopArgs ==
  ASSUME IInv, todo # << >>
  PROVE  /\ todo \in Seq(Tasks) /\ Len(todo) \in Nat \ {0} /\ Task1 = todo[1] /\ at = "newline"
         /\ \A k, n : InTask(Len(todo) - 1, k, n) <=>
                        k \in 1 .. Len(Task1.args) /\ Task1.args[k] = n
         /\ \A n : Returned(n) <=> Task1.k \in Waiting /\ node = n
<1>1. todo \in Seq(Tasks)
  BY DEF IInv, TodoOK, TasksOK
<1>2. Len(todo) \in Nat \ {0}
  BY <1>1, Rest
<1>3. Task1 = todo[1] /\ at = "newline"
  BY TopTask
<1>4. \A j \in 1 .. Len(todo) : Len(todo) - 1 = Len(todo) - j => j = 1
  BY <1>2
<1>5. 1 \in 1 .. Len(todo) /\ Len(todo) - 1 = Len(todo) - 1
  BY <1>2
<1>6. \A k, n : InTask(Len(todo) - 1, k, n) <=>
                  k \in 1 .. Len(Task1.args) /\ Task1.args[k] = n
  BY <1>3, <1>4, <1>5 DEF InTask
<1>7. \A n : Returned(n) <=> Task1.k \in Waiting /\ node = n
  BY <1>3 DEF Returned
<1> QED
  BY <1>1, <1>2, <1>3, <1>6, <1>7

LEMMA OneHomeBare == OneHome => BareTasks(todo)
  BY DEF OneHome, BareTasks

(* b is what the innermost call held, with the returned node if that is used. *)
Holds(b, used) == b = IF used THEN Append(Task1.args, node) ELSE Task1.args

LEMMA HoldsLists ==
  ASSUME IInv, todo # << >>, NEW b, NEW used \in BOOLEAN, Holds(b, used), used => Task1.k \in Waiting
  PROVE  /\ Lists_(b, used) /\ b \in Seq(Nat)
         /\ \A k \in 1 .. Len(b) : b[k] \in 1 .. Len(exprs)
         /\ used => \A k, n : ~(InTask(Len(todo) - 1, k, n) /\ k = Len(b))
<1> DEFINE args == Task1.args
<1>1. /\ \A k, n : InTask(Len(todo) - 1, k, n) <=> k \in 1 .. Len(args) /\ args[k] = n
      /\ \A n : Returned(n) <=> Task1.k \in Waiting /\ node = n
  BY TopArgs
<1>2. /\ Task1 \in Tasks /\ TaskOK(Task1, Len(exprs)) /\ (used => node \in 1 .. Len(exprs))
      /\ Len(exprs) \in Nat
  BY TopTask, Lengths
<1>3. args \in Seq(Nat) /\ \A j \in 1 .. Len(args) : args[j] \in 1 .. Len(exprs)
  BY <1>2 DEF Tasks, TaskOK
<1> HIDE DEF args
<1>4. CASE ~used
  <2>1. b = args
    BY <1>4 DEF Holds, args
  <2> QED
    BY <1>1, <1>3, <1>4, <2>1 DEF Lists_
<1>5. CASE used
  <2>1. b = Append(args, node) /\ node \in 1 .. Len(exprs) /\ node \in Nat
    BY <1>2, <1>5 DEF Holds, args
  <2>2. /\ b \in Seq(Nat) /\ Len(args) \in Nat /\ Len(b) = Len(args) + 1
        /\ b[Len(args) + 1] = node /\ \A i \in 1 .. Len(args) : b[i] = args[i]
    BY <1>3, <2>1, Appended
  <2>3. \A k : k \in 1 .. Len(b) <=> k \in 1 .. Len(args) \/ k = Len(b)
    BY <2>2
  <2>4. Len(b) \notin 1 .. Len(args)
    BY <2>2
  <2>5. \A k \in 1 .. Len(b) : b[k] \in 1 .. Len(exprs)
    BY <1>3, <2>1, <2>2, <2>3
  <2>6. \A n : Returned(n) <=> node = n
    BY <1>1, <1>5
  <2>7. \A n, k : k \in 1 .. Len(b) /\ b[k] = n <=>
           InTask(Len(todo) - 1, k, n) \/ (Returned(n) /\ k = Len(b))
    BY <1>1, <2>2, <2>3, <2>4, <2>6
  <2>8. Lists_(b, used)
    BY <1>5, <2>7 DEF Lists_
  <2> QED
    BY <1>1, <2>2, <2>4, <2>5, <2>8
<1> QED
  BY <1>4, <1>5

(* A call or a continuation takes the place of the innermost one.          *)
LEMMA CallMoves ==
  ASSUME IInv, OneHome, todo # << >>, NEW tasks \in Seq(Tasks), Call(tasks), NEW b,
         NEW used \in BOOLEAN, Holds(b, used),
         IF tasks = << >> THEN b = << >> ELSE b = tasks[Len(tasks)].args,
         \A j \in 1 .. Len(tasks) - 1 : tasks[j].args = << >>, BareTasks(tasks),
         used => Task1.k \in Waiting /\ tasks # << >> /\ tasks[1].k \notin Waiting,
         ~used => (Task1.k \in Waiting <=> tasks = << >> \/ tasks[1].k \in Waiting)
  PROVE  OneHome'
<1>1. UNCHANGED <<exprs, fns, node, at>> /\ Continue(tasks) /\ Len(exprs) \in Nat
  BY Lengths DEF Call, Continue
<1>2. /\ todo \in Seq(Tasks) /\ at = "newline"
      /\ \A n : Returned(n) <=> Task1.k \in Waiting /\ node = n
  BY TopArgs
<1>3. \A a, k, n : InTask(a, k, n)' <=>
        IF a = Len(todo) - 1 THEN k \in 1 .. Len(b) /\ b[k] = n ELSE InTask(a, k, n)
  BY <1>1, <1>2, PushedTasks
<1>4. Lists_(b, used) /\ (used => \A k, n : ~(InTask(Len(todo) - 1, k, n) /\ k = Len(b)))
  BY HoldsLists
<1>5. /\ tasks # << >> => todo' # << >> /\ todo'[1] = tasks[1]
      /\ tasks = << >> => todo' = Tail(todo)
      /\ Tail(todo) = << >> \/ Tail(todo)[1].k \in Waiting
  <2>1. todo' = tasks \o Tail(todo) /\ Tail(todo) \in Seq(Tasks)
    BY <1>1, <1>2, Rest DEF Continue
  <2>2. Len(tasks) \in Nat /\ (tasks = << >> <=> Len(tasks) = 0)
    BY EmptySeq
  <2>3. /\ todo' \in Seq(Tasks) /\ Len(todo') = Len(tasks) + Len(Tail(todo))
        /\ Len(tasks) > 0 => todo'[1] = tasks[1]
    BY <2>1, <2>2, ConcatProperties
  <2>4. tasks = << >> => todo' = Tail(todo)
    BY <2>1, ConcatEmptySeq
  <2>5. tasks # << >> => todo' # << >>
    BY <2>1, <2>2, <2>3, EmptySeq
  <2> QED
    BY <2>2, <2>3, <2>4, <2>5, TopTask
<1>6. \A n : Returned(n)' <=> (tasks = << >> \/ tasks[1].k \in Waiting) /\ node = n
  BY <1>1, <1>2, <1>5 DEF Returned
<1>7. \A n : Returned(n)' <=> Returned(n) /\ ~used
  BY <1>2, <1>6
<1>8. \E home2, own2 : \A n \in 1 .. Len(exprs') : Home(home2, n)' /\ Own(own2, n)'
  <2>1. PICK home, own : \A n \in 1 .. Len(exprs) : Home(home, n) /\ Own(own, n)
    BY DEF OneHome
  <2> QED
    BY <1>1, <1>3, <1>4, <1>7, <2>1, MovedToTask
<1>9. BareTasks(todo')
  BY <1>1, <1>2, OneHomeBare, PushedBare
<1>10. at' \in InStmt => fns'[f'].stmts[s'].value = NULL
  BY <1>1 DEF OneHome, f, s
<1> QED
  BY <1>8, <1>9, <1>10 DEF OneHome, BareTasks

(* A node is made of what the innermost call held.                         *)
LEMMA Indexed ==
  ASSUME IInv
  PROVE  /\ \A a, k, n : InExpr(a, k, n) => a \in 1 .. Len(exprs) /\ n \in 1 .. Len(exprs)
         /\ \A a, k, n : InTask(a, k, n) => n \in 1 .. Len(exprs)
         /\ \A a, k : ~InFns(a, k, Len(exprs) + 1)
         /\ Len(exprs) \in Nat
<1>0. Len(exprs) \in Nat /\ Len(fns) \in Nat
  BY Lengths
<1>1. ASSUME NEW a, NEW k, NEW n, InExpr(a, k, n)
      PROVE  a \in 1 .. Len(exprs) /\ n \in 1 .. Len(exprs)
  <2>1. a \in 1 .. Len(exprs) /\ k \in 1 .. Len(exprs[a].args) /\ exprs[a].args[k] = n
    BY <1>1 DEF InExpr
  <2>2. ParsedExpr(exprs[a], a)
    BY <2>1 DEF IInv, ExprsOK
  <2>3. n \in 1 .. a - 1
    BY <2>1, <2>2 DEF ParsedExpr
  <2> QED
    BY <1>0, <2>1, <2>3
<1>2. ASSUME NEW a, NEW k, NEW n, InTask(a, k, n)
      PROVE  n \in 1 .. Len(exprs)
  <2>1. PICK j \in 1 .. Len(todo) : k \in 1 .. Len(todo[j].args) /\ todo[j].args[k] = n
    BY <1>2 DEF InTask
  <2>2. TaskOK(todo[j], Len(exprs))
    BY <2>1 DEF IInv, TodoOK, TasksOK
  <2> QED
    BY <2>1, <2>2 DEF TaskOK
<1>3. ASSUME NEW a, NEW k, NEW n, InFns(a, k, n)
      PROVE  n \in 0 .. Len(exprs)
  <2>1. a \in 1 .. Len(fns) /\ k \in 1 .. Len(fns[a].stmts) /\ fns[a].stmts[k].value = n
    BY <1>3 DEF InFns
  <2>2. Values(fns[a], Len(exprs))
    BY <2>1 DEF IInv, FnsOK
  <2> QED
    BY <2>1, <2>2 DEF Values
<1>4. Len(exprs) + 1 \notin 0 .. Len(exprs)
  BY <1>0
<1> QED
  BY <1>0, <1>1, <1>2, <1>3, <1>4

LEMMA MakeMoves ==
  ASSUME IInv, OneHome, todo # << >>, NEW tasks \in Seq(Tasks), Continue(tasks),
         BareTasks(tasks), tasks = << >> \/ (Len(tasks) = 1 /\ tasks[1].args = << >>),
         tasks # << >> => tasks[1].k \in Waiting,
         NEW b, NEW used \in BOOLEAN, Holds(b, used), used <=> Task1.k \in Waiting,
         NEW t, NEW name, NEW op, NEW type, NEW val, make_expr(t, name, op, type, val, b)
  PROVE  OneHome'
<1> DEFINE N == Len(exprs) + 1
           e == [t |-> t, name |-> name, op |-> op, type |-> type, val |-> val, args |-> b]
<1>1. /\ exprs' = Append(exprs, e) /\ node' = N /\ UNCHANGED <<at, fns>>
      /\ exprs \in Seq(Exprs) /\ Len(exprs) \in Nat
  BY Lengths DEF make_expr, Continue, IInv, ExprsOK
<1>2. e.args = b
  OBVIOUS
<1> HIDE DEF e
<1>3. /\ Len(exprs') = N /\ exprs'[N] = e /\ \A i \in 1 .. Len(exprs) : exprs'[i] = exprs[i]
  BY <1>1
<1>4. /\ todo \in Seq(Tasks) /\ at = "newline"
      /\ \A n : Returned(n) <=> Task1.k \in Waiting /\ node = n
  BY TopArgs
<1>5. \A a, k, n : InTask(a, k, n)' <=> a # Len(todo) - 1 /\ InTask(a, k, n)
  <2>1. \A a, k, n : InTask(a, k, n)' <=>
          IF a = Len(todo) - 1 THEN k \in 1 .. Len(<< >>) /\ << >>[k] = n ELSE InTask(a, k, n)
    <3>1. \A j \in 1 .. Len(tasks) - 1 : tasks[j].args = << >>
      <4>1. tasks = << >> => Len(tasks) = 0
        OBVIOUS
      <4> QED
        BY <4>1
    <3>2. IF tasks = << >> THEN << >> = << >> ELSE << >> = tasks[Len(tasks)].args
      OBVIOUS
    <3> QED
      BY <1>4, <3>1, <3>2, PushedTasks
  <2>2. \A k : k \notin 1 .. Len(<< >>)
    OBVIOUS
  <2> QED
    BY <2>1, <2>2
<1>6. /\ Lists_(b, used) /\ \A k \in 1 .. Len(b) : b[k] \in 1 .. Len(exprs)
  BY HoldsLists
<1>7. todo' = << >> \/ todo'[1].k \in Waiting
  <2>1. todo' = tasks \o Tail(todo) /\ Tail(todo) \in Seq(Tasks)
    BY <1>4, Rest DEF Continue
  <2>2. tasks = << >> => todo' = Tail(todo)
    BY <2>1, ConcatEmptySeq
  <2>3. tasks # << >> => todo'[1] = tasks[1]
    BY <2>1, ConcatProperties
  <2> QED
    BY <2>2, <2>3, TopTask
<1>8. \A n : Returned(n)' <=> n = N
  BY <1>1, <1>4, <1>7 DEF Returned
<1>9. \A n : Returned(n) => used
  BY <1>4
<1>10. \A a, k, n : InExpr(a, k, n)' <=>
         IF a = N THEN k \in 1 .. Len(b) /\ b[k] = n ELSE InExpr(a, k, n)
  <2>1. 1 .. Len(exprs') = 1 .. Len(exprs) \cup {N}
    BY <1>1, <1>3
  <2>2. N \notin 1 .. Len(exprs)
    BY <1>1
  <2> QED
    BY <1>2, <1>3, <2>1, <2>2 DEF InExpr
<1>11. /\ \A a, k, n : InExpr(a, k, n) => a \in 1 .. Len(exprs) /\ n \in 1 .. Len(exprs)
       /\ \A a, k, n : InTask(a, k, n) => n \in 1 .. Len(exprs)
       /\ \A a, k : ~InFns(a, k, N)
  BY Indexed
<1>12. Len(fns) \in Nat \ {0}
  BY <1>4, Lengths, EmptySeq DEF IInv, FnsOK
<1>13. \E home2, own2 : \A n \in 1 .. Len(exprs') : Home(home2, n)' /\ Own(own2, n)'
  <2>1. PICK home, own : \A n \in 1 .. Len(exprs) : Home(home, n) /\ Own(own, n)
    BY DEF OneHome
  <2> QED
    BY <1>1, <1>3, <1>5, <1>6, <1>8, <1>9, <1>10, <1>11, <1>12, <2>1, MovedToOperand
<1>14. BareTasks(todo')
  BY <1>4, OneHomeBare, PushedBare
<1>15. at' \in InStmt => fns'[f'].stmts[s'].value = NULL
  BY <1>1 DEF OneHome, f, s
<1> QED
  BY <1>13, <1>14, <1>15 DEF OneHome, BareTasks

LEMMA Empty ==
  /\ << >> \in Seq(Tasks) /\ BareTasks(<< >>) /\ \A j \in 1 .. Len(<< >>) - 1 : << >>[j].args = << >>
  /\ \A j \in 1 .. Len(<< >>) : << >>[j].args = << >>
  BY DEF BareTasks

LEMMA Single ==
  ASSUME NEW n \in Nat, NEW t, TasksOK(<<t>>, n), t.k \in Bare => t.args = << >>
  PROVE  /\ <<t>> \in Seq(Tasks) /\ <<t>> # << >> /\ <<t>>[1] = t /\ Len(<<t>>) = 1
         /\ BareTasks(<<t>>) /\ \A j \in 1 .. Len(<<t>>) - 1 : <<t>>[j].args = << >>
  BY DEF BareTasks, TasksOK

LEMMA DescendBare ==
  ASSUME NEW level \in 0 .. 3, NEW j \in 1 .. Len(Descend(level))
  PROVE  Descend(level)[j].args = << >>
<1>0. PICK down, loops, S : /\ down = Descend(level) /\ loops = [l \in 1 .. level |-> Loop(l)]
                            /\ S = {Primary} \cup {Loop(l) : l \in 1 .. level}
  OBVIOUS
<1>1. \A l \in 1 .. level : Loop(l).args = << >>
  BY DEF Loop, Task
<1>2. loops \in Seq(S) /\ Len(loops) = level
  <2>1. \A l \in 1 .. level : loops[l] \in S
    BY <1>0
  <2>2. loops \in [1 .. level -> S] /\ level \in Nat /\ DOMAIN loops = 1 .. level
    BY <1>0, <2>1
  <2>3. loops \in Seq(S)
    BY <2>2, SeqDef
  <2> QED
    BY <2>2, <2>3, LenProperties
<1>3. <<Primary>> \in Seq(S) /\ Len(<<Primary>>) = 1
  <2>1. Primary \in S
    BY <1>0
  <2> QED
    BY <2>1
<1>4. down = <<Primary>> \o loops
  BY <1>0 DEF Descend
<1>5. \A i \in 1 .. level : loops[i] = Loop(i)
  BY <1>0
<1>6. /\ Len(down) = 1 + level
      /\ \A i \in 1 .. 1 + level : down[i] = IF i <= 1 THEN <<Primary>>[i] ELSE loops[i - 1]
  BY <1>2, <1>3, <1>4, ConcatProperties
<1>7. CASE j = 1
  BY <1>0, <1>6, <1>7 DEF Primary, Task
<1>8. CASE j # 1
  <2>1. j \in 1 .. Len(down) /\ level \in Nat
    BY <1>0
  <2>2. j - 1 \in 1 .. level /\ down[j] = loops[j - 1]
    BY <1>6, <1>8, <2>1
  <2> QED
    BY <1>0, <1>1, <1>5, <2>2
<1> QED
  BY <1>7, <1>8

LEMMA ParseExprBare == \A j \in 1 .. Len(parse_expr) : parse_expr[j].args = << >>
  BY DescendBare DEF parse_expr

(* The calls down to parse_primary hold nothing; what is behind them may.  *)
DownTo(level, t) == Descend(level) \o <<t>>
LEMMA Descent ==
  ASSUME NEW level \in 0 .. 3, NEW n \in Nat, NEW t, TasksOK(<<t>>, n),
         t.k \in Bare => t.args = << >>,
         NEW tasks, tasks = DownTo(level, t)
  PROVE  /\ tasks \in Seq(Tasks) /\ tasks # << >> /\ tasks[1].k = "primary"
         /\ tasks[Len(tasks)] = t /\ BareTasks(tasks)
         /\ \A j \in 1 .. Len(tasks) - 1 : tasks[j].args = << >>
<1>0. PICK down : down = Descend(level) /\ tasks = down \o <<t>>
  BY DEF DownTo
<1>1. down \in Seq(Tasks) /\ down # << >> /\ down[1].k = "primary" /\ Len(down) \in Nat \ {0}
  BY <1>0, Descends, EmptySeq, LenProperties DEF TasksOK
<1>2. \A j \in 1 .. Len(down) : down[j].args = << >>
  BY <1>0, DescendBare
<1>3. <<t>> \in Seq(Tasks) /\ Len(<<t>>) = 1 /\ <<t>>[1] = t
  BY DEF TasksOK
<1>4. /\ tasks \in Seq(Tasks) /\ Len(tasks) = Len(down) + 1
      /\ \A i \in 1 .. Len(down) + 1 :
           tasks[i] = IF i <= Len(down) THEN down[i] ELSE <<t>>[i - Len(down)]
  BY <1>0, <1>1, <1>3, ConcatProperties
<1>5. \A i \in 1 .. Len(tasks) - 1 : tasks[i] = down[i] /\ i \in 1 .. Len(down)
  BY <1>1, <1>4
<1>6. tasks[1] = down[1] /\ tasks # << >>
  BY <1>1, <1>4, EmptySeq
<1>7. tasks[Len(tasks)] = t
  BY <1>1, <1>3, <1>4
<1>8. \A i \in 1 .. Len(tasks) : i \in 1 .. Len(tasks) - 1 \/ i = Len(tasks)
  BY <1>1, <1>4
<1>9. BareTasks(tasks)
  BY <1>2, <1>5, <1>7, <1>8 DEF BareTasks
<1> QED
  BY <1>1, <1>2, <1>4, <1>5, <1>6, <1>7, <1>9

LEMMA ParseExpr == 3 \in 0 .. 3 /\ \A t : parse_expr \o <<t>> = DownTo(3, t)
  BY DEF parse_expr, DownTo

LEMMA NothingMoves == ASSUME OneHome, UNCHANGED <<at, todo, node, fns, exprs>> PROVE OneHome'
<1>1. PICK home, own : \A n \in 1 .. Len(exprs) : Home(home, n) /\ Own(own, n)
  BY DEF OneHome
<1>2. /\ \A a, b, n : InExpr(a, b, n)' <=> InExpr(a, b, n)
      /\ \A a, b, n : InFns(a, b, n)' <=> InFns(a, b, n)
      /\ \A a, b, n : InTask(a, b, n)' <=> InTask(a, b, n)
      /\ \A n : Returned(n)' <=> Returned(n)
  BY DEF InExpr, InFns, InTask, Returned
<1>3. \A n \in 1 .. Len(exprs') : Home(home, n)' /\ Own(own, n)'
  BY <1>1, <1>2 DEF Home, Own
<1>4. /\ \A j \in 1 .. Len(todo') : todo'[j].k \in Bare => todo'[j].args = << >>
      /\ at' \in InStmt => fns'[f'].stmts[s'].value = NULL
  BY DEF OneHome, f, s
<1> QED
  BY <1>3, <1>4 DEF OneHome

LEMMA FailMoves == ASSUME OneHome, NEW d, Fail(d) PROVE OneHome'
  BY NothingMoves DEF Fail

LEMMA PrimaryMoves == ASSUME IInv, OneHome, parse_primary PROVE OneHome'
<1>1. todo # << >> /\ Task1.k = "primary" /\ TextOK(text) /\ pos \in Nat /\ Len(exprs) \in Nat
  BY Lengths DEF parse_primary, Doing, Task1, IInv
<1>2. Task1.args = << >> /\ Task1.k \notin Waiting
  BY <1>1, TopArgs, Kinds DEF OneHome, Bare
<1>3. Holds(<< >>, FALSE)
  BY <1>2 DEF Holds
<1>4. CASE make_intlit_expr(Coming) /\ Continue(<< >>)
  <2>1. \E type, val : make_expr("int", << >>, NoOp, type, val, << >>)
    BY <1>4 DEF make_intlit_expr
  <2> QED
    BY <1>1, <1>2, <1>3, <1>4, <2>1, Empty, MakeMoves
<1>5. CASE Next_is("TOK_SYM") /\ Call(<<Name(Coming.name)>>)
  <2>1. Coming.name \in Names
    BY <1>1, <1>5, NextToken DEF Next_is
  <2> DEFINE t == Name(Coming.name)
  <2>2. TasksOK(<<t>>, Len(exprs)) /\ t.k = "name" /\ t.args = << >>
    BY <1>1, <2>1, NameTask DEF Name, Task
  <2>3. Call(<<t>>)
    BY <1>5
  <2> HIDE DEF t
  <2>4. /\ <<t>> \in Seq(Tasks) /\ <<t>> # << >> /\ <<t>>[1] = t /\ Len(<<t>>) = 1
        /\ BareTasks(<<t>>) /\ \A j \in 1 .. Len(<<t>>) - 1 : <<t>>[j].args = << >>
    BY <1>1, <2>2, Single
  <2> QED
    BY <1>1, <1>2, <1>3, <2>2, <2>3, <2>4, Kinds, CallMoves
<1>6. CASE Call(parse_expr \o <<Close>>)
  <2>0. PICK tasks : tasks = parse_expr \o <<Close>>
    OBVIOUS
  <2>1. TasksOK(<<Close>>, Len(exprs)) /\ Close.args = << >>
    BY <1>1, CloseTask DEF Close, Task
  <2>2. /\ tasks \in Seq(Tasks) /\ tasks # << >> /\ tasks[1].k = "primary"
        /\ tasks[Len(tasks)] = Close /\ BareTasks(tasks)
        /\ \A j \in 1 .. Len(tasks) - 1 : tasks[j].args = << >>
    <3>1. tasks = DownTo(3, Close) /\ 3 \in 0 .. 3 /\ Len(exprs) \in Nat
      BY <1>1, <2>0, ParseExpr
    <3>2. Close.k \in Bare => Close.args = << >>
      BY <2>1
    <3> QED
      BY <2>1, <3>1, <3>2, Descent
  <2>3. Call(tasks)
    BY <1>6, <2>0
  <2> QED
    BY <1>1, <1>2, <1>3, <2>1, <2>2, <2>3, Kinds, CallMoves
<1>7. CASE Fail("expected_expression")
  BY <1>7, FailMoves
<1> QED
  BY <1>4, <1>5, <1>6, <1>7 DEF parse_primary

LEMMA NameMoves == ASSUME IInv, OneHome, parse_name PROVE OneHome'
<1>1. todo # << >> /\ Task1.k = "name" /\ Len(exprs) \in Nat
  BY Lengths DEF parse_name, Doing, Task1
<1>2. Task1.args = << >> /\ Task1.k \notin Waiting /\ Task1.name \in Names
  BY <1>1, TopArgs, TopTask, Kinds DEF OneHome, Bare, TaskOK
<1>3. Holds(<< >>, FALSE)
  BY <1>2 DEF Holds
<1>4. CASE Call(<<Arguments(Task1.name, << >>)>>)
  <2> DEFINE t == Arguments(Task1.name, << >>)
  <2>1. TasksOK(<<t>>, Len(exprs)) /\ t.k = "args" /\ t.args = << >>
    BY <1>1, <1>2, Placeholders, ArgumentsTask DEF Arguments, Task
  <2>2. Call(<<t>>)
    BY <1>4
  <2> HIDE DEF t
  <2>3. /\ <<t>> \in Seq(Tasks) /\ <<t>> # << >> /\ <<t>>[1] = t /\ Len(<<t>>) = 1
        /\ BareTasks(<<t>>) /\ \A j \in 1 .. Len(<<t>>) - 1 : <<t>>[j].args = << >>
    BY <1>1, <2>1, Single
  <2> QED
    BY <1>1, <1>2, <1>3, <2>1, <2>2, <2>3, Kinds, CallMoves
<1>5. CASE make_expr("var", Task1.name, NoOp, NoType, 0, << >>) /\ Continue(<< >>)
  BY <1>1, <1>2, <1>3, <1>5, Empty, MakeMoves
<1> QED
  BY <1>4, <1>5 DEF parse_name


LEMMA ReturnsMoves ==
  ASSUME IInv, OneHome, todo # << >>, Task1.k \in {"close", "loop"}, Call(<< >>)
  PROVE  OneHome'
<1>1. Task1.args = << >> /\ Task1.k \in Waiting
  BY TopArgs, Kinds DEF OneHome, Bare
<1>2. Holds(<< >>, FALSE)
  BY <1>1 DEF Holds
<1> QED
  BY <1>1, <1>2, Empty, CallMoves

LEMMA EndCallMoves ==
  ASSUME IInv, OneHome, todo # << >>, NEW b, NEW used \in BOOLEAN, Holds(b, used),
         used <=> Task1.k \in Waiting, EndCall(b)
  PROVE  OneHome'
<1>1. CASE make_expr("funcall", Task1.name, NoOp, NoType, 0, b) /\ Continue(<< >>)
  BY <1>1, Empty, MakeMoves
<1>2. CASE Fail("expected_closing_paren")
  BY <1>2, FailMoves
<1> QED
  BY <1>1, <1>2 DEF EndCall

LEMMA FuncallMoves == ASSUME IInv, OneHome, parse_funcall PROVE OneHome'
<1> DEFINE n == Len(exprs)
           args == Task1.args
<1>1. todo # << >> /\ n \in Nat /\ Task1.k \in {"args", "arg"}
  BY Lengths DEF parse_funcall, Doing, Task1
<1>2. /\ Task1.name \in Names /\ args \in Seq(Nat) /\ \A j \in 1 .. Len(args) : args[j] \in 1 .. n
      /\ Task1.k \in Waiting => node \in 1 .. n
  BY <1>1, TopTask DEF TaskOK, Tasks
<1>3. CASE Doing("args") /\ Call(parse_expr \o <<Argument(Task1.name, Task1.args)>>)
  <2>0. PICK t, tasks : t = Argument(Task1.name, Task1.args) /\ tasks = parse_expr \o <<t>>
    OBVIOUS
  <2>1. TasksOK(<<t>>, n) /\ t.k = "arg" /\ t.args = args
    BY <1>1, <1>2, <2>0, ArgumentTask DEF Argument, Task
  <2>2. Call(tasks) /\ Task1.k = "args" /\ Holds(args, FALSE)
    BY <1>3, <2>0 DEF Holds, Doing, Task1
  <2>3. /\ tasks \in Seq(Tasks) /\ tasks # << >> /\ tasks[1].k = "primary"
        /\ tasks[Len(tasks)] = t /\ BareTasks(tasks)
        /\ \A j \in 1 .. Len(tasks) - 1 : tasks[j].args = << >>
    <3>1. tasks = DownTo(3, t) /\ 3 \in 0 .. 3
      BY <2>0, ParseExpr
    <3>2. ~(t.k \in Bare)
      BY <2>1 DEF Bare
    <3> QED
      BY <1>1, <2>1, <3>1, <3>2, Descent
  <2> HIDE DEF args
  <2> QED
    BY <1>1, <2>1, <2>2, <2>3, Kinds, CallMoves
<1>4. CASE Doing("args") /\ EndCall(Task1.args)
  <2>1. Task1.k = "args" /\ Holds(Task1.args, FALSE)
    BY <1>4 DEF Doing, Task1, Holds
  <2> QED
    BY <1>1, <1>4, <2>1, Kinds, EndCallMoves
<1>5. CASE Doing("arg") /\ Call(<<Arguments(Task1.name, Append(Task1.args, node))>>)
  <2> DEFINE b == Append(args, node)
             t == Arguments(Task1.name, b)
  <2>1. Task1.k = "arg" /\ Task1.k \in Waiting /\ Holds(b, TRUE) /\ node \in 1 .. n
    BY <1>2, <1>5, Kinds DEF Doing, Task1, Holds
  <2>2. b \in Seq(Nat) /\ \A j \in 1 .. Len(b) : b[j] \in 1 .. n
    BY <1>1, <1>2, <2>1, MoreArgs
  <2> HIDE DEF b
  <2>3. TasksOK(<<t>>, n) /\ t.k = "args" /\ t.args = b
    BY <1>1, <1>2, <2>2, ArgumentsTask DEF Arguments, Task
  <2>4. Call(<<t>>)
    BY <1>5 DEF b
  <2> HIDE DEF t
  <2>5. /\ <<t>> \in Seq(Tasks) /\ <<t>> # << >> /\ <<t>>[1] = t /\ Len(<<t>>) = 1
        /\ BareTasks(<<t>>) /\ \A j \in 1 .. Len(<<t>>) - 1 : <<t>>[j].args = << >>
    BY <1>1, <2>3, Single DEF Bare
  <2> QED
    BY <1>1, <2>1, <2>3, <2>4, <2>5, Kinds, CallMoves
<1>6. CASE Doing("arg") /\ EndCall(Append(Task1.args, node))
  <2>1. Task1.k = "arg" /\ Holds(Append(Task1.args, node), TRUE)
    BY <1>6 DEF Doing, Task1, Holds
  <2> QED
    BY <1>1, <1>6, <2>1, Kinds, EndCallMoves
<1> QED
  BY <1>3, <1>4, <1>5, <1>6 DEF parse_funcall

LEMMA BinopMoves == ASSUME IInv, OneHome, parse_binop PROVE OneHome'
<1> DEFINE n == Len(exprs)
           level == Task1.level
           op == Operators[level][Coming.t]
           right == Right(level, op, node)
<1>1. /\ todo # << >> /\ n \in Nat /\ Task1.k = "loop"
      /\ Coming.t \in DOMAIN Operators[level] /\ Call(Descend(level - 1) \o <<right>>)
  BY Lengths DEF parse_binop, Doing, Task1
<1>2. level \in 1 .. 3 /\ level - 1 \in 0 .. 3 /\ node \in 1 .. n
  BY <1>1, TopTask, Kinds DEF TaskOK, Tasks
<1> HIDE DEF level
<1>3. op \in BinopKinds
  BY <1>1, <1>2, OperatorsRead
<1> HIDE DEF op
<1>0. PICK t, tasks : t = right /\ tasks = DownTo(level - 1, t)
  OBVIOUS
<1>4. TasksOK(<<t>>, n) /\ t.args = <<node>> /\ t.k = "right" /\ Call(tasks)
  BY <1>0, <1>1, <1>2, <1>3, RightTask DEF Right, Task, DownTo
<1>5. /\ tasks \in Seq(Tasks) /\ tasks # << >> /\ tasks[1].k = "primary"
      /\ tasks[Len(tasks)] = t /\ BareTasks(tasks)
      /\ \A j \in 1 .. Len(tasks) - 1 : tasks[j].args = << >>
  <2>1. /\ level - 1 \in 0 .. 3 /\ n \in Nat /\ TasksOK(<<t>>, n)
        /\ tasks = DownTo(level - 1, t) /\ ~(t.k \in Bare)
    BY <1>0, <1>1, <1>2, <1>4 DEF Bare
  <2> HIDE DEF n
  <2>2. tasks \in Seq(Tasks) /\ tasks # << >> /\ tasks[1].k = "primary"
    BY <2>1, Descent
  <2>3. tasks[Len(tasks)] = t /\ BareTasks(tasks)
    BY <2>1, Descent
  <2>4. \A j \in 1 .. Len(tasks) - 1 : tasks[j].args = << >>
    BY <2>1, Descent
  <2> QED
    BY <2>2, <2>3, <2>4
<1>6. Task1.args = << >> /\ Task1.k \in Waiting
  BY <1>1, TopArgs, Kinds DEF OneHome, Bare
<1>7. Append(<< >>, node) = <<node>>
  OBVIOUS
<1>8. Holds(<<node>>, TRUE)
  BY <1>6, <1>7 DEF Holds
<1> QED
  BY <1>1, <1>4, <1>5, <1>6, <1>8, Kinds, CallMoves

LEMMA MakeBinopMoves == ASSUME IInv, OneHome, MakeBinop PROVE OneHome'
<1> DEFINE b == Append(Task1.args, node)
           t == Loop(Task1.level)
<1>1. /\ todo # << >> /\ Len(exprs) \in Nat /\ Task1.k = "right"
      /\ make_expr("binop", << >>, Task1.op, NoType, 0, b) /\ Continue(<<t>>)
  BY Lengths DEF MakeBinop, Doing, Task1
<1>2. Task1.level \in 1 .. 3
  BY <1>1, TopTask DEF TaskOK, Tasks
<1>3. TasksOK(<<t>>, Len(exprs)) /\ t.k = "loop" /\ t.args = << >>
  BY <1>1, <1>2, LoopTask DEF Loop, Task
<1>4. Holds(b, TRUE)
  BY DEF Holds
<1> HIDE DEF t, b
<1>5. <<t>> \in Seq(Tasks) /\ <<t>> # << >> /\ <<t>>[1] = t /\ Len(<<t>>) = 1 /\ BareTasks(<<t>>)
  BY <1>1, <1>3, Single
<1> QED
  BY <1>1, <1>3, <1>4, <1>5, Kinds, MakeMoves

LEMMA ExprMoves == ASSUME IInv, OneHome, parse_expr_Next PROVE OneHome'
<1>1. CASE ParenClosed
  <2>1. todo # << >> /\ Task1.k = "close" /\ (Call(<< >>) \/ Fail("expected_closing_paren"))
    BY <1>1 DEF ParenClosed, Doing, Task1
  <2> QED
    BY <2>1, ReturnsMoves, FailMoves
<1>2. CASE EndLoop
  <2>1. todo # << >> /\ Task1.k = "loop" /\ Call(<< >>)
    BY <1>2 DEF EndLoop, Doing, Task1
  <2> QED
    BY <2>1, ReturnsMoves
<1> QED
  BY <1>1, <1>2, PrimaryMoves, NameMoves, FuncallMoves, BinopMoves, MakeBinopMoves DEF parse_expr_Next

(* The steps between expressions: the returned node, if used, becomes the  *)
(* value of the statement.                                                 *)
LEMMA MovedToValue ==
  ASSUME NEW home, NEW own, NEW used \in BOOLEAN, UNCHANGED exprs,
         \A n \in 1 .. Len(exprs) : Home(home, n) /\ Own(own, n),
         todo = << >>, \A a, k, n : ~InTask(a, k, n)', Len(fns) \in Nat, Len(fns') \in Nat,
         Len(fns) <= Len(fns'),
         \A a, k : \A n \in 1 .. Len(exprs) :
           InFns(a, k, n)' <=> InFns(a, k, n) \/ (used /\ Returned(n) /\ a = Len(fns) /\ k = s),
         \A n : Returned(n) => used, \A n : ~Returned(n)'
  PROVE  \E home2, own2 : \A n \in 1 .. Len(exprs') : Home(home2, n)' /\ Own(own2, n)'
<1>0. PICK home2 : home2 = [n \in 1 .. Len(exprs) |->
                              IF home[n].t = "node" THEN At_("value", Len(fns), s) ELSE home[n]]
  OBVIOUS
<1>1. \A a, c, n : InExpr(a, c, n)' <=> InExpr(a, c, n)
  BY DEF InExpr
<1>2. \A a, c, n : ~InTask(a, c, n)
  BY DEF InTask
<1>3. ASSUME NEW n \in 1 .. Len(exprs)
      PROVE  Home(home2, n)' /\ Own(own, n)'
  <2> DEFINE h == home2[n]
  <2>0. Home(home, n) /\ Own(own, n) /\ own[n] \in 1 .. Len(fns')
    BY DEF Own
  <2>1. CASE home[n].t = "node"
    <3>1. h = At_("value", Len(fns), s) /\ Returned(n) /\ used
      BY <1>0, <2>0, <2>1 DEF Home
    <3>2. h.t = "value" /\ h.a = Len(fns) /\ h.b = s
      BY <3>1 DEF At_
    <3>3. \A a, k : ~InExpr(a, k, n) /\ ~InFns(a, k, n)
      BY <2>0, <2>1 DEF Home, Is
    <3>4. \A a, k : InFns(a, k, n)' <=> a = Len(fns) /\ k = s
      BY <3>1, <3>3
    <3>5. \A a, k : Is(h, "operand", a, k) = FALSE /\ Is(h, "task", a, k) = FALSE
      BY <3>2 DEF Is
    <3>6. \A a, k : Is(h, "value", a, k) <=> a = Len(fns) /\ k = s
      BY <3>2 DEF Is
    <3>7. Home(home2, n)'
      BY <1>1, <3>2, <3>3, <3>4, <3>5, <3>6 DEF Home
    <3>8. Own(own, n)'
      BY <1>1, <2>0, <3>1, <3>3, <3>4 DEF Own
    <3> QED BY <3>7, <3>8
  <2>2. CASE home[n].t # "node"
    <3>1. h = home[n] /\ ~Returned(n)
      BY <1>0, <2>0, <2>2 DEF Home
    <3>2. \A a, k : InFns(a, k, n)' <=> InFns(a, k, n)
      BY <3>1
    <3>3. Home(home2, n)'
      BY <1>1, <1>2, <2>0, <3>1, <3>2 DEF Home
    <3>4. Own(own, n)'
      BY <1>1, <2>0, <3>2 DEF Own
    <3> QED BY <3>3, <3>4
  <2> QED BY <2>1, <2>2
<1> QED
  BY <1>3

(* How a step between expressions leaves the values of the statements.     *)
ValuesMove(used) ==
  \A a, k : \A n \in 1 .. Len(exprs) :
    InFns(a, k, n)' <=> InFns(a, k, n) \/ (used /\ Returned(n) /\ a = Len(fns) /\ k = s)

LEMMA StepMoves ==
  ASSUME IInv, OneHome, todo = << >>, NEW used \in BOOLEAN, at = "newline" <=> used,
         Len(fns') \in Nat, Len(fns) <= Len(fns'), ValuesMove(used),
         NEW place, place # "newline", Go(place) \/ GoParse,
         at' \in InStmt => fns'[f'].stmts[s'].value = NULL
  PROVE  OneHome'
<1>1. UNCHANGED exprs /\ Len(fns) \in Nat /\ Len(exprs) \in Nat
  BY Lengths DEF Go, GoParse
<1>2. (at' = place /\ todo' = << >>) \/ (at' = "newline" /\ todo' = parse_expr)
  BY DEF Go, GoParse
<1>3. \A j \in 1 .. Len(parse_expr) : parse_expr[j].args = << >>
  BY ParseExprBare
<1>4. parse_expr # << >> /\ parse_expr[1].k = "primary"
  BY Descends DEF parse_expr
<1>5. \A j \in 1 .. Len(todo') : todo'[j].args = << >>
  BY <1>2, <1>3
<1>6. \A a, k, n : ~InTask(a, k, n)'
  BY <1>5 DEF InTask
<1>7. (\A n : Returned(n) => used) /\ \A n : ~Returned(n)'
  BY <1>2, <1>4, Kinds DEF Returned
<1>8. \E home2, own2 : \A n \in 1 .. Len(exprs') : Home(home2, n)' /\ Own(own2, n)'
  <2>1. PICK home, own : \A n \in 1 .. Len(exprs) : Home(home, n) /\ Own(own, n)
    BY DEF OneHome
  <2> QED
    BY <1>1, <1>6, <1>7, <2>1, MovedToValue DEF ValuesMove
<1> QED
  BY <1>5, <1>8 DEF OneHome

(* The function being parsed changes.                                      *)
LEMMA FnMoves ==
  ASSUME IInv, at # "fns", NEW gn, fns' = [fns EXCEPT ![f] = gn], NEW used \in BOOLEAN,
         \A k : \A n \in 1 .. Len(exprs) :
           k \in 1 .. Len(gn.stmts) /\ gn.stmts[k].value = n <=>
             \/ k \in 1 .. Len(fns[f].stmts) /\ fns[f].stmts[k].value = n
             \/ used /\ Returned(n) /\ k = s
  PROVE  /\ ValuesMove(used) /\ Len(fns') = Len(fns) /\ Len(fns) \in Nat \ {0}
         /\ f' = f /\ fns'[f] = gn /\ s' = Len(gn.stmts)
<1>1. fns \in Seq(OpenFns) /\ f \in Nat \ {0} /\ f = Len(fns)
  BY OpenFn
<1>2. /\ Len(fns') = Len(fns) /\ f \in 1 .. Len(fns)
      /\ \A g \in 1 .. Len(fns) : fns'[g] = IF g = f THEN gn ELSE fns[g]
  BY <1>1
<1>3. f' = f /\ fns'[f] = gn /\ s' = Len(gn.stmts)
  BY <1>1, <1>2 DEF f, s
<1>4. ASSUME NEW a, NEW k, NEW n \in 1 .. Len(exprs)
      PROVE  InFns(a, k, n)' <=> InFns(a, k, n) \/ (used /\ Returned(n) /\ a = Len(fns) /\ k = s)
  <2>1. CASE a = f
    BY <1>1, <1>2, <2>1 DEF InFns
  <2>2. CASE a # f
    BY <1>1, <1>2, <2>2 DEF InFns
  <2> QED BY <2>1, <2>2
<1> QED
  BY <1>1, <1>2, <1>3, <1>4 DEF ValuesMove

(* ... in what is no statement, or in the last statement.                  *)
LEMMA SignatureMoves ==
  ASSUME IInv, OneHome, todo = << >>, at # "fns", at \notin InStmt,
         NEW gn, fns' = [fns EXCEPT ![f] = gn], gn.stmts = fns[f].stmts,
         NEW place \in Places \ InStmt, Go(place)
  PROVE  OneHome'
<1>1. /\ ValuesMove(FALSE) /\ Len(fns') = Len(fns) /\ Len(fns) \in Nat \ {0}
      /\ f' = f /\ fns'[f] = gn /\ s' = Len(gn.stmts)
  BY FnMoves
<1>2. place # "newline" /\ at # "newline" /\ at' \notin InStmt
  BY PlacesIn DEF Go
<1>3. (at = "newline" <=> FALSE) /\ Len(fns') \in Nat /\ Len(fns) <= Len(fns') /\ FALSE \in BOOLEAN
  BY <1>1, <1>2
<1> QED
  BY <1>1, <1>2, <1>3, StepMoves

LEMMA StmtStepMoves ==
  ASSUME IInv, OneHome, todo = << >>, at \in InStmt, NEW st, NEW used \in BOOLEAN,
         at = "newline" <=> used,
         fns' = [fns EXCEPT ![f] = [fns[f] EXCEPT !.stmts = [fns[f].stmts EXCEPT ![s] = st]]],
         st.value = IF used THEN node ELSE NULL,
         NEW place \in Places, place # "newline", Go(place), used => place \notin InStmt
  PROVE  OneHome'
<1> DEFINE fn == fns[f]
           r == [fn.stmts EXCEPT ![s] = st]
           gn == [fn EXCEPT !.stmts = r]
<1>1. /\ at # "fns" /\ s = Len(fn.stmts) /\ s \in Nat \ {0} /\ fn.stmts \in Seq(Stmts(Nat))
      /\ fn \in OpenFns
  BY OpenStmt, OpenFn
<1>2. /\ Len(r) = s /\ s \in 1 .. s /\ r[s] = st
      /\ \A k \in 1 .. s : k # s => r[k] = fn.stmts[k]
  BY <1>1
<1>3. gn.stmts = r
  BY <1>1 DEF OpenFns
<1>4. fn.stmts[s].value = NULL
  BY DEF OneHome
<1>5. \A n : Returned(n) <=> used /\ node = n
  BY DEF Returned
<1>6. \A n \in 1 .. Len(exprs) : n # NULL
  BY DEF NULL
<1> HIDE DEF r, gn, fn
<1>7. ASSUME NEW k, NEW n \in 1 .. Len(exprs)
      PROVE  k \in 1 .. Len(gn.stmts) /\ gn.stmts[k].value = n <=>
               \/ k \in 1 .. Len(fn.stmts) /\ fn.stmts[k].value = n
               \/ used /\ Returned(n) /\ k = s
  <2>1. CASE k = s
    BY <1>1, <1>2, <1>3, <1>4, <1>5, <1>6, <2>1
  <2>2. CASE k # s
    BY <1>1, <1>2, <1>3, <2>2
  <2> QED BY <2>1, <2>2
<1>8. fns' = [fns EXCEPT ![f] = gn]
  BY DEF gn, r, fn
<1>9. /\ ValuesMove(used) /\ Len(fns') = Len(fns) /\ Len(fns) \in Nat \ {0}
      /\ f' = f /\ fns'[f] = gn /\ s' = Len(gn.stmts)
  BY <1>1, <1>7, <1>8, FnMoves DEF fn
<1>10. at' \in InStmt => fns'[f'].stmts[s'].value = NULL
  <2>1. at' = place
    BY DEF Go
  <2> QED
    BY <1>2, <1>3, <1>9, <2>1
<1> QED
  BY <1>9, <1>10, StepMoves

LEMMA NewStmtMoves ==
  ASSUME IInv, OneHome, todo = << >>, at = "stmt", NEW t, NewStmt(t),
         NEW place, place # "newline", Go(place) \/ GoParse
  PROVE  OneHome'
<1> DEFINE fn == fns[f]
           st == [t |-> t, name |-> << >>, type |-> NoType, value |-> NULL]
           r == Append(fn.stmts, st)
           gn == [fn EXCEPT !.stmts = r]
<1>1. fn \in OpenFns /\ at # "fns" /\ at # "newline" /\ fn.stmts \in Seq(Stmts(Nat))
  BY OpenFn DEF OpenFns
<1>2. fns' = [fns EXCEPT ![f] = gn] /\ st.value = NULL
  BY DEF NewStmt
<1> HIDE DEF st
<1>3. /\ Len(fn.stmts) \in Nat /\ Len(r) = Len(fn.stmts) + 1
      /\ r[Len(fn.stmts) + 1] = st /\ \A k \in 1 .. Len(fn.stmts) : r[k] = fn.stmts[k]
  BY <1>1
<1>4. gn.stmts = r
  BY <1>1 DEF OpenFns
<1>5. \A n \in 1 .. Len(exprs) : n # NULL
  BY DEF NULL
<1> HIDE DEF r, gn, fn
<1>6. ASSUME NEW k, NEW n \in 1 .. Len(exprs)
      PROVE  k \in 1 .. Len(gn.stmts) /\ gn.stmts[k].value = n <=>
               \/ k \in 1 .. Len(fn.stmts) /\ fn.stmts[k].value = n
               \/ FALSE /\ Returned(n) /\ k = s
  <2>1. CASE k = Len(fn.stmts) + 1
    BY <1>2, <1>3, <1>4, <1>5, <2>1
  <2>2. CASE k # Len(fn.stmts) + 1
    <3>1. k \in 1 .. Len(r) <=> k \in 1 .. Len(fn.stmts)
      BY <1>3, <2>2
    <3> QED
      BY <1>3, <1>4, <3>1
  <2> QED BY <2>1, <2>2
<1>7. /\ ValuesMove(FALSE) /\ Len(fns') = Len(fns) /\ Len(fns) \in Nat \ {0}
      /\ f' = f /\ fns'[f] = gn /\ s' = Len(gn.stmts)
  BY <1>1, <1>2, <1>6, FnMoves DEF fn
<1>8. fns'[f'].stmts[s'].value = NULL
  BY <1>2, <1>3, <1>4, <1>7
<1>9. (at = "newline" <=> FALSE) /\ Len(fns') \in Nat /\ Len(fns) <= Len(fns') /\ FALSE \in BOOLEAN
  BY <1>1, <1>7
<1> QED
  BY <1>1, <1>7, <1>8, <1>9, StepMoves

LEMMA SameFnsMoves ==
  ASSUME IInv, OneHome, todo = << >>, at # "newline", UNCHANGED fns,
         NEW place, place # "newline", Go(place) \/ GoParse,
         at' \in InStmt => at \in InStmt
  PROVE  OneHome'
<1>1. ValuesMove(FALSE) /\ f' = f /\ s' = s
  BY DEF ValuesMove, InFns, f, s
<1>2. Len(fns) \in Nat
  BY Lengths
<1>3. at' \in InStmt => fns'[f'].stmts[s'].value = NULL
  BY <1>1 DEF OneHome
<1>4. (at = "newline" <=> FALSE) /\ Len(fns') \in Nat /\ Len(fns) <= Len(fns') /\ FALSE \in BOOLEAN
  BY <1>2
<1> QED
  BY <1>1, <1>3, <1>4, StepMoves

LEMMA AstMoves == ASSUME IInv, OneHome, parse_ast PROVE OneHome'
<1>1. todo = << >> /\ at = "fns" /\ Len(fns) \in Nat /\ fns \in Seq(OpenFns)
  BY Placed DEF parse_ast, IInv, FnsOK
<1>2. CASE UNCHANGED <<text, pos, at, todo, node, fns, exprs>>
  BY <1>2, NothingMoves
<1>3. CASE /\ Go("name")
           /\ fns' = Append(fns, [name |-> << >>, params |-> << >>, ret |-> Type("void"), stmts |-> << >>])
  <2> DEFINE fn == [name |-> << >>, params |-> << >>, ret |-> Type("void"), stmts |-> << >>]
  <2>1. fns' = Append(fns, fn) /\ fn.stmts = << >> /\ Len(<< >>) = 0
    BY <1>3
  <2> HIDE DEF fn
  <2>2. /\ Len(fns') = Len(fns) + 1 /\ fns'[Len(fns) + 1] = fn
        /\ \A i \in 1 .. Len(fns) : fns'[i] = fns[i]
    BY <1>1, <2>1
  <2>3. ASSUME NEW a, NEW k, NEW n
        PROVE  InFns(a, k, n)' <=> InFns(a, k, n)
    <3>1. CASE a = Len(fns) + 1
      BY <1>1, <2>1, <2>2, <3>1 DEF InFns
    <3>2. CASE a # Len(fns) + 1
      <4>1. a \in 1 .. Len(fns') <=> a \in 1 .. Len(fns)
        BY <1>1, <2>2, <3>2
      <4> QED
        BY <2>2, <4>1 DEF InFns
    <3> QED BY <3>1, <3>2
  <2>4. ValuesMove(FALSE)
    BY <2>3 DEF ValuesMove
  <2>5. at' \notin InStmt /\ "name" # "newline" /\ at # "newline"
    BY <1>1, <1>3, PlacesIn DEF Go
  <2>6. Len(fns') \in Nat /\ Len(fns) <= Len(fns')
    BY <1>1, <2>2
  <2> QED
    BY <1>1, <1>3, <2>4, <2>5, <2>6, StepMoves
<1> QED
  BY <1>2, <1>3 DEF parse_ast

LEMMA FnStepsMove == ASSUME IInv, OneHome, parse_fn_Next PROVE OneHome'
<1>1. CASE FnName
  <2>1. todo = << >> /\ at = "name"
    BY <1>1, Placed DEF FnName
  <2>2. CASE Go("lparen") /\ fns' = [fns EXCEPT ![f].name = Coming.name]
    <3> DEFINE gn == [fns[f] EXCEPT !.name = Coming.name]
    <3>1. fns' = [fns EXCEPT ![f] = gn]
      BY <2>2
    <3>2. gn.stmts = fns[f].stmts
      BY <2>1, OpenFn DEF OpenFns
    <3> HIDE DEF gn
    <3> QED
      BY <2>1, <2>2, <3>1, <3>2, PlacesIn, SignatureMoves
  <2> QED
    BY <1>1, <2>2, FailMoves DEF FnName
<1>2. CASE ParamName
  <2>1. todo = << >> /\ at = "params"
    BY <1>2, Placed DEF ParamName
  <2>2. CASE Go("ret") /\ UNCHANGED fns
    BY <2>1, <2>2, PlacesIn, SameFnsMoves DEF Go
  <2>3. CASE /\ Go("param_type")
             /\ fns' = [fns EXCEPT ![f].params = Append(@, [name |-> Coming.name, type |-> NoType])]
    <3> DEFINE gn == [fns[f] EXCEPT !.params = Append(@, [name |-> Coming.name, type |-> NoType])]
    <3>1. fns' = [fns EXCEPT ![f] = gn]
      BY <2>3
    <3>2. gn.stmts = fns[f].stmts
      BY <2>1, OpenFn DEF OpenFns
    <3> HIDE DEF gn
    <3> QED
      BY <2>1, <2>3, <3>1, <3>2, PlacesIn, SignatureMoves
  <2> QED
    BY <1>2, <2>2, <2>3, FailMoves DEF ParamName
<1>3. CASE ParamType
  <2>1. todo = << >> /\ at = "param_type"
    BY <1>3, Placed DEF ParamType
  <2>2. CASE Go("comma") /\ fns' = [fns EXCEPT ![f].params[p].type = parse_type]
    <3> DEFINE gn == [fns[f] EXCEPT !.params[p].type = parse_type]
    <3>1. fns' = [fns EXCEPT ![f] = gn]
      BY <2>2
    <3>2. gn.stmts = fns[f].stmts
      BY <2>1, OpenFn DEF OpenFns
    <3> HIDE DEF gn
    <3> QED
      BY <2>1, <2>2, <3>1, <3>2, PlacesIn, SignatureMoves
  <2> QED
    BY <1>3, <2>2, FailMoves DEF ParamType
<1>4. CASE RetType
  <2>1. todo = << >> /\ at = "ret"
    BY <1>4, Placed DEF RetType
  <2>2. CASE Go("block") /\ UNCHANGED fns
    BY <2>1, <2>2, PlacesIn, SameFnsMoves DEF Go
  <2>3. CASE Go("block") /\ fns' = [fns EXCEPT ![f].ret = parse_type]
    <3> DEFINE gn == [fns[f] EXCEPT !.ret = parse_type]
    <3>1. fns' = [fns EXCEPT ![f] = gn]
      BY <2>3
    <3>2. gn.stmts = fns[f].stmts
      BY <2>1, OpenFn DEF OpenFns
    <3> HIDE DEF gn
    <3> QED
      BY <2>1, <2>3, <3>1, <3>2, PlacesIn, SignatureMoves
  <2> QED
    BY <1>4, <2>2, <2>3, FailMoves DEF RetType
<1>5. CASE FnOpens
  <2>1. todo = << >> /\ at = "lparen"
    BY <1>5, Placed DEF FnOpens
  <2>2. CASE Go("params") /\ UNCHANGED fns
    BY <2>1, <2>2, PlacesIn, SameFnsMoves DEF Go
  <2> QED
    BY <1>5, <2>2, FailMoves DEF FnOpens
<1>6. CASE ParamComma
  <2>1. todo = << >> /\ at = "comma" /\ Go("params") /\ UNCHANGED fns
    BY <1>6, Placed DEF ParamComma
  <2> QED
    BY <2>1, PlacesIn, SameFnsMoves DEF Go
<1> QED
  BY <1>1, <1>2, <1>3, <1>4, <1>5, <1>6 DEF parse_fn_Next

LEMMA EndStmtMoves == ASSUME IInv, OneHome, EndStmt PROVE OneHome'
<1>1. todo = << >> /\ at = "newline" /\ at \in InStmt
  BY Placed, PlacesIn DEF EndStmt
<1>2. CASE Go("stmt") /\ fns' = [fns EXCEPT ![f].stmts[s].value = node]
  <2> DEFINE st == [fns[f].stmts[s] EXCEPT !.value = node]
  <2>1. fns' = [fns EXCEPT ![f] = [fns[f] EXCEPT !.stmts = [fns[f].stmts EXCEPT ![s] = st]]]
    BY <1>2
  <2>2. st.value = node
    BY <1>1, OpenStmt DEF Stmts
  <2> HIDE DEF st
  <2> QED
    BY <1>1, <1>2, <2>1, <2>2, PlacesIn, StmtStepMoves
<1> QED
  BY <1>2, FailMoves DEF EndStmt

LEMMA StmtStepsMove == ASSUME IInv, OneHome, parse_block_Next PROVE OneHome'
<1>0. at \in InStmt => fns[f].stmts[s].value = NULL
  BY DEF OneHome
<1>1. CASE BlockOpens
  <2>1. todo = << >> /\ at = "block" /\ Go("stmt") /\ UNCHANGED fns
    BY <1>1, Placed DEF BlockOpens
  <2> QED
    BY <2>1, PlacesIn, SameFnsMoves DEF Go
<1>2. CASE parse_block
  <2>1. todo = << >> /\ at = "stmt"
    BY <1>2, Placed DEF parse_block
  <2>2. CASE Go("let_name") /\ NewStmt("let")
    BY <2>1, <2>2, PlacesIn, NewStmtMoves
  <2>3. CASE Go("return") /\ NewStmt("return")
    BY <2>1, <2>3, PlacesIn, NewStmtMoves
  <2>4. CASE Go("fns") /\ UNCHANGED fns
    BY <2>1, <2>4, PlacesIn, SameFnsMoves DEF Go
  <2>5. CASE GoParse /\ NewStmt("expr")
    BY <2>1, <2>5, PlacesIn, NewStmtMoves
  <2> QED
    BY <1>2, <2>2, <2>3, <2>4, <2>5 DEF parse_block
<1>3. CASE LetName
  <2>1. todo = << >> /\ at = "let_name" /\ at \in InStmt
    BY <1>3, Placed, PlacesIn DEF LetName
  <2>2. CASE Go("let_middle") /\ fns' = [fns EXCEPT ![f].stmts[s].name = Coming.name]
    <3> DEFINE st == [fns[f].stmts[s] EXCEPT !.name = Coming.name]
    <3>1. fns' = [fns EXCEPT ![f] = [fns[f] EXCEPT !.stmts = [fns[f].stmts EXCEPT ![s] = st]]]
      BY <2>2
    <3>2. st.value = NULL
      BY <1>0, <2>1, OpenStmt DEF Stmts
    <3> HIDE DEF st
    <3> QED
      BY <2>1, <2>2, <3>1, <3>2, PlacesIn, StmtStepMoves
  <2> QED
    BY <1>3, <2>2, FailMoves DEF LetName
<1>4. CASE LetMiddle
  <2>1. todo = << >> /\ at = "let_middle" /\ at \in InStmt
    BY <1>4, Placed, PlacesIn DEF LetMiddle
  <2>2. CASE (Go("let_type") \/ GoParse) /\ UNCHANGED fns
    BY <2>1, <2>2, PlacesIn, SameFnsMoves
  <2> QED
    BY <1>4, <2>2, FailMoves DEF LetMiddle
<1>5. CASE LetType
  <2>1. todo = << >> /\ at = "let_type" /\ at \in InStmt
    BY <1>5, Placed, PlacesIn DEF LetType
  <2>2. CASE Go("let_equal") /\ fns' = [fns EXCEPT ![f].stmts[s].type = parse_type]
    <3> DEFINE st == [fns[f].stmts[s] EXCEPT !.type = parse_type]
    <3>1. fns' = [fns EXCEPT ![f] = [fns[f] EXCEPT !.stmts = [fns[f].stmts EXCEPT ![s] = st]]]
      BY <2>2
    <3>2. st.value = NULL
      BY <1>0, <2>1, OpenStmt DEF Stmts
    <3> HIDE DEF st
    <3> QED
      BY <2>1, <2>2, <3>1, <3>2, PlacesIn, StmtStepMoves
  <2> QED
    BY <1>5, <2>2, FailMoves DEF LetType
<1>6. CASE LetEqual
  <2>1. todo = << >> /\ at = "let_equal" /\ at \in InStmt
    BY <1>6, Placed, PlacesIn DEF LetEqual
  <2>2. CASE (Go("stmt") \/ GoParse) /\ UNCHANGED fns
    BY <2>1, <2>2, PlacesIn, SameFnsMoves
  <2> QED
    BY <1>6, <2>2, FailMoves DEF LetEqual
<1>7. CASE parse_return
  <2>1. todo = << >> /\ at = "return" /\ at \in InStmt
    BY <1>7, Placed, PlacesIn DEF parse_return
  <2>2. (Go("stmt") \/ GoParse) /\ UNCHANGED fns
    BY <1>7 DEF parse_return
  <2> QED
    BY <2>1, <2>2, PlacesIn, SameFnsMoves
<1> QED
  BY <1>1, <1>2, <1>3, <1>4, <1>5, <1>6, <1>7, EndStmtMoves DEF parse_block_Next

LEMMA NextMoves == ASSUME IInv, OneHome, [Next]_vars PROVE OneHome'
<1>1. CASE LexerFails
  BY <1>1, FailMoves DEF LexerFails
<1>2. CASE UNCHANGED vars
  BY <1>2, NothingMoves DEF vars
<1> QED
  BY <1>1, <1>2, AstMoves, FnStepsMove, StmtStepsMove, ExprMoves DEF Next

LEMMA InitOneHome == ASSUME Init PROVE OneHome
<1>1. /\ at = "fns" /\ todo = << >> /\ exprs = << >>
  BY DEF Init
<1>2. at \notin InStmt /\ Len(exprs) = 0 /\ Len(todo) = 0
  BY <1>1, PlacesIn
<1> QED
  BY <1>2 DEF OneHome

(* At any time of the descent, however deep, each node made so far is in   *)
(* one place, and the function it is of is the one being parsed or the one *)
(* that has it.                                                            *)
THEOREM NodesHaveOneHome == Spec => []OneHome
<1>1. Init => OneHome
  BY InitOneHome
<1>2. IInv /\ OneHome /\ [Next]_vars => OneHome'
  BY NextMoves
<1> QED
  BY <1>1, <1>2, WellFormed, PTL DEF Spec

LEMMA AcceptedHomes ==
  ASSUME IInv, OneHome, outcome = "ok"
  PROVE  /\ \E home, own : \A n \in 1 .. Len(exprs) : Home(home, n) /\ Own(own, n)
         /\ \A n : ~Returned(n) /\ \A a, k : ~InTask(a, k, n)
<1>1. at = "fns" /\ todo = << >>
  BY DEF IInv, TodoOK
<1> QED
  BY <1>1 DEF OneHome, Returned, InTask

(* In what is accepted each node is an operand once, or the value of one   *)
(* statement, and never both.                                              *)
THEOREM EachNodeOwned == Spec => []NodesOwned
<1>1. ASSUME IInv, OneHome
      PROVE  NodesOwned
  <2> DEFINE ks(m, n) == {k \in DOMAIN exprs[m].args : exprs[m].args[k] = n}
             is(g, n) == {i \in DOMAIN fns[g].stmts : fns[g].stmts[i].value = n}
             asOperand(n) == UNION {{<<m, k>> : k \in ks(m, n)} : m \in DOMAIN exprs}
             asValue(n) == UNION {{<<g, i>> : i \in is(g, n)} : g \in DOMAIN fns}
  <2>1. ASSUME outcome = "ok", NEW n \in DOMAIN exprs
        PROVE  Cardinality(asOperand(n)) + Cardinality(asValue(n)) = 1
    <3>0. /\ exprs \in Seq(Exprs) /\ fns \in Seq(OpenFns)
          /\ DOMAIN exprs = 1 .. Len(exprs) /\ DOMAIN fns = 1 .. Len(fns)
      BY <1>1 DEF IInv, ExprsOK, FnsOK
    <3>1. PICK home, own : \A m \in 1 .. Len(exprs) : Home(home, m) /\ Own(own, m)
      BY <1>1, <2>1, AcceptedHomes
    <3>2. ~Returned(n) /\ \A a, k : ~InTask(a, k, n)
      BY <1>1, <2>1, AcceptedHomes
    <3>3. Home(home, n)
      BY <2>1, <3>0, <3>1
    <3>4. ASSUME NEW m \in DOMAIN exprs
          PROVE  DOMAIN exprs[m].args = 1 .. Len(exprs[m].args)
      <4>1. exprs[m] \in Exprs
        BY <3>0, <3>4, ElementOfSeq
      <4> QED
        BY <4>1 DEF Exprs
    <3>5. ASSUME NEW g \in DOMAIN fns
          PROVE  DOMAIN fns[g].stmts = 1 .. Len(fns[g].stmts)
      <4>1. fns[g] \in OpenFns
        BY <3>0, <3>5, ElementOfSeq
      <4> QED
        BY <4>1 DEF OpenFns
    <3>6. asOperand(n) = {x \in (DOMAIN exprs) \X Nat : InExpr(x[1], x[2], n)}
      <4>1. ASSUME NEW x \in asOperand(n)
            PROVE  x \in (DOMAIN exprs) \X Nat /\ InExpr(x[1], x[2], n)
        <5>1. PICK m \in DOMAIN exprs : \E k \in ks(m, n) : x = <<m, k>>
          BY <4>1
        <5>2. PICK k \in ks(m, n) : x = <<m, k>>
          BY <5>1
        <5>3. k \in 1 .. Len(exprs[m].args) /\ exprs[m].args[k] = n
          BY <3>4, <5>2
        <5> QED
          BY <3>0, <5>2, <5>3 DEF InExpr
      <4>2. ASSUME NEW x \in (DOMAIN exprs) \X Nat, InExpr(x[1], x[2], n)
            PROVE  x \in asOperand(n)
        <5>1. x = <<x[1], x[2]>> /\ x[1] \in DOMAIN exprs
          BY <4>2
        <5>2. x[2] \in ks(x[1], n)
          BY <3>4, <4>2, <5>1 DEF InExpr
        <5> QED
          BY <5>1, <5>2
      <4> QED
        BY <4>1, <4>2
    <3>7. asValue(n) = {x \in (DOMAIN fns) \X Nat : InFns(x[1], x[2], n)}
      <4>1. ASSUME NEW x \in asValue(n)
            PROVE  x \in (DOMAIN fns) \X Nat /\ InFns(x[1], x[2], n)
        <5>1. PICK g \in DOMAIN fns : \E i \in is(g, n) : x = <<g, i>>
          BY <4>1
        <5>2. PICK i \in is(g, n) : x = <<g, i>>
          BY <5>1
        <5>3. i \in 1 .. Len(fns[g].stmts) /\ fns[g].stmts[i].value = n
          BY <3>5, <5>2
        <5> QED
          BY <3>0, <5>2, <5>3 DEF InFns
      <4>2. ASSUME NEW x \in (DOMAIN fns) \X Nat, InFns(x[1], x[2], n)
            PROVE  x \in asValue(n)
        <5>1. x = <<x[1], x[2]>> /\ x[1] \in DOMAIN fns
          BY <4>2
        <5>2. x[2] \in is(x[1], n)
          BY <3>5, <4>2, <5>1 DEF InFns
        <5> QED
          BY <5>1, <5>2
      <4> QED
        BY <4>1, <4>2
    <3> HIDE DEF asOperand, asValue
    <3> DEFINE h == home[n]
               pair == <<h.a, h.b>>
    <3>8. CASE h.t = "operand"
      <4>1. \A a, k : InExpr(a, k, n) <=> a = h.a /\ k = h.b
        BY <3>3, <3>8 DEF Home, Is
      <4>2. \A a, k : ~InFns(a, k, n)
        BY <3>3, <3>8 DEF Home, Is
      <4>3. InExpr(h.a, h.b, n)
        BY <4>1
      <4>4. pair \in (DOMAIN exprs) \X Nat
        BY <3>0, <4>3 DEF InExpr
      <4>5. asOperand(n) = {pair}
        BY <3>6, <4>1, <4>4
      <4>6. asValue(n) = {}
        BY <3>7, <4>2
      <4>7. Cardinality({pair}) = 1 /\ Cardinality({}) = 0
        BY FS_EmptySet, FS_Singleton
      <4>8. Cardinality(asOperand(n)) = 1 /\ Cardinality(asValue(n)) = 0
        BY <4>5, <4>6, <4>7
      <4> QED
        BY <4>8
    <3>9. CASE h.t = "value"
      <4>1. \A a, k : InFns(a, k, n) <=> a = h.a /\ k = h.b
        BY <3>3, <3>9 DEF Home, Is
      <4>2. \A a, k : ~InExpr(a, k, n)
        BY <3>3, <3>9 DEF Home, Is
      <4>3. InFns(h.a, h.b, n)
        BY <4>1
      <4>4. pair \in (DOMAIN fns) \X Nat
        BY <3>0, <4>3 DEF InFns
      <4>5. asValue(n) = {pair}
        BY <3>7, <4>1, <4>4
      <4>6. asOperand(n) = {}
        BY <3>6, <4>2
      <4>7. Cardinality({pair}) = 1 /\ Cardinality({}) = 0
        BY FS_EmptySet, FS_Singleton
      <4>8. Cardinality(asOperand(n)) = 0 /\ Cardinality(asValue(n)) = 1
        BY <4>5, <4>6, <4>7
      <4> QED
        BY <4>8
    <3>10. h.t \in {"operand", "value"}
      BY <3>2, <3>3 DEF Home, Is
    <3> QED
      BY <3>8, <3>9, <3>10
  <2> QED
    BY <2>1 DEF NodesOwned
<1> QED
  BY <1>1, WellFormed, NodesHaveOneHome, PTL

(* What the passes need of it: no two functions share a node, and none is  *)
(* in two places.                                                          *)
AcceptsSeparate == outcome = "ok" => Separate(prog) /\ Unshared(prog)

(* The hypotheses of the theorems about one annotation for each node and   *)
(* one size for each register hold of every file the parser accepts.       *)
THEOREM AcceptedIsSeparate == Spec => []AcceptsSeparate
<1>1. ASSUME IInv, OneHome, outcome = "ok"
      PROVE  Separate(prog) /\ Unshared(prog)
  <2>1. PICK home, own : \A m \in 1 .. Len(exprs) : Home(home, m) /\ Own(own, m)
    BY <1>1, AcceptedHomes
  <2>2. prog.fns = fns /\ prog.exprs = exprs
    BY DEF prog
  <2>3. /\ \A a, k, n : InExpr(a, k, n) => a \in 1 .. Len(exprs) /\ n \in 1 .. Len(exprs)
        /\ Len(exprs) \in Nat
    BY <1>1, Indexed
  <2>4. ASSUME NEW g \in 1 .. Len(fns), NEW i \in 1 .. Len(fns[g].stmts),
               fns[g].stmts[i].value # NULL
        PROVE  /\ InFns(g, i, fns[g].stmts[i].value)
               /\ fns[g].stmts[i].value \in 1 .. Len(exprs)
    <3>1. Values(fns[g], Len(exprs))
      BY <1>1 DEF IInv, FnsOK
    <3>2. fns[g].stmts[i].value \in 0 .. Len(exprs)
      BY <3>1 DEF Values
    <3> QED
      BY <2>3, <2>4, <3>2 DEF InFns, NULL
  <2>5. ASSUME NEW n \in 1 .. Len(exprs), NEW k \in 1 .. Len(exprs[n].args)
        PROVE  InExpr(n, k, exprs[n].args[k]) /\ exprs[n].args[k] \in 1 .. Len(exprs)
    BY <2>3 DEF InExpr
  <2>6. Separate(prog)
    <3> DEFINE owner == [n \in 1 .. Len(exprs) |-> own[n]]
    <3>1. owner \in [1 .. Len(exprs) -> 1 .. Len(fns)]
      BY <2>1 DEF Own
    <3>2. ASSUME NEW g \in 1 .. Len(fns), NEW i \in 1 .. Len(fns[g].stmts),
                 fns[g].stmts[i].value # NULL
          PROVE  owner[fns[g].stmts[i].value] = g
      BY <2>1, <2>4, <3>2 DEF Own
    <3>3. ASSUME NEW n \in 1 .. Len(exprs), NEW k \in 1 .. Len(exprs[n].args)
          PROVE  owner[exprs[n].args[k]] = owner[n]
      BY <2>1, <2>5 DEF Own
    <3> HIDE DEF owner
    <3>4. OwnedBy(prog, owner)
      BY <2>2, <3>2, <3>3 DEF OwnedBy
    <3> QED
      BY <2>2, <3>1, <3>4 DEF Separate
  <2>7. Unshared(prog)
    <3>1. ASSUME NEW m \in 1 .. Len(exprs), NEW n \in 1 .. Len(exprs),
                 NEW k \in 1 .. Len(exprs[m].args), NEW l \in 1 .. Len(exprs[n].args),
                 exprs[m].args[k] = exprs[n].args[l]
          PROVE  m = n /\ k = l
      <4>1. InExpr(m, k, exprs[m].args[k]) /\ InExpr(n, l, exprs[m].args[k])
        BY <2>5, <3>1
      <4> QED
        BY <2>1, <2>3, <4>1 DEF Home, Is
    <3>2. ASSUME NEW g \in 1 .. Len(fns), NEW h \in 1 .. Len(fns),
                 NEW i \in 1 .. Len(fns[g].stmts), NEW j \in 1 .. Len(fns[h].stmts),
                 fns[g].stmts[i].value = fns[h].stmts[j].value, fns[g].stmts[i].value # NULL
          PROVE  g = h /\ i = j
      <4> DEFINE n == fns[g].stmts[i].value
      <4>1. InFns(g, i, n) /\ InFns(h, j, n) /\ n \in 1 .. Len(exprs)
        BY <2>4, <3>2
      <4> QED
        BY <2>1, <4>1 DEF Home, Is
    <3>3. ASSUME NEW n \in 1 .. Len(exprs), NEW g \in 1 .. Len(fns),
                 NEW k \in 1 .. Len(exprs[n].args), NEW i \in 1 .. Len(fns[g].stmts),
                 exprs[n].args[k] = fns[g].stmts[i].value
          PROVE  FALSE
      <4> DEFINE m == exprs[n].args[k]
      <4>1. InExpr(n, k, m) /\ InFns(g, i, m) /\ m \in 1 .. Len(exprs)
        BY <2>5, <3>3 DEF InFns
      <4>2. home[m].t = "operand" /\ home[m].t = "value"
        BY <2>1, <4>1 DEF Home, Is
      <4> QED
        BY <4>2
    <3>4. \A m, n \in 1 .. Len(prog.exprs) :
            \A k \in 1 .. Len(prog.exprs[m].args), l \in 1 .. Len(prog.exprs[n].args) :
              prog.exprs[m].args[k] = prog.exprs[n].args[l] => m = n /\ k = l
      BY <2>2, <3>1
    <3>5. \A g, h \in 1 .. Len(prog.fns) :
            \A i \in 1 .. Len(prog.fns[g].stmts), j \in 1 .. Len(prog.fns[h].stmts) :
              prog.fns[g].stmts[i].value = prog.fns[h].stmts[j].value
              /\ prog.fns[g].stmts[i].value # NULL => g = h /\ i = j
      BY <2>2, <3>2
    <3>6. \A n \in 1 .. Len(prog.exprs), g \in 1 .. Len(prog.fns) :
            \A k \in 1 .. Len(prog.exprs[n].args), i \in 1 .. Len(prog.fns[g].stmts) :
              prog.exprs[n].args[k] # prog.fns[g].stmts[i].value
      BY <2>2, <3>3
    <3> QED
      BY <3>4, <3>5, <3>6 DEF Unshared
  <2> QED
    BY <2>6, <2>7
<1>2. IInv /\ OneHome => AcceptsSeparate
  BY <1>1 DEF AcceptsSeparate
<1> QED
  BY <1>2, WellFormed, NodesHaveOneHome, PTL

=============================================================================
