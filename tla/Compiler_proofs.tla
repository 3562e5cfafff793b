-------------------------- MODULE Compiler_proofs --------------------------
(***************************************************************************)
(* For every set of programs and names, every hash and number of buckets:  *)
(* the compiler never leaves the states its data structures are meant for, *)
(* the calls it emits lead to their callees, and a register of the IR is   *)
(* set once and read at its size.                                          *)
(***************************************************************************)
EXTENDS Compiler, SequenceTheorems, FiniteSetTheorems, WellFoundedInduction, TLAPS

-----------------------------------------------------------------------------
(* Facts about numbers and sequences.                                      *)

(* What CHOOSE finds in the searches of SymTable.                          *)
LEMMA LeastNat ==
  ASSUME NEW S \in SUBSET Nat, S # {}
  PROVE  \E x \in S : \A y \in S : x <= y
<1> DEFINE R == OpToRel(<, Nat)
<1>1. IsWellFoundedOn(R, Nat)
  BY NatLessThanWellFounded
<1>2. \A x, y \in Nat : x < y => <<x, y>> \in R
  BY DEF OpToRel
<1> HIDE DEF R
<1>3. PICK x \in S : \A y \in S : ~(<<y, x>> \in R)
  BY <1>1, WFMin
<1>4. \A y \in S : ~(y < x)
  BY <1>2, <1>3
<1> QED
  BY <1>4

LEMMA FcnIsSeq ==
  ASSUME NEW S, NEW n \in Nat, NEW list \in [1 .. n -> S]
  PROVE  list \in Seq(S) /\ Len(list) = n
<1>1. list \in Seq(S)
  BY SeqDef
<1> QED
  BY <1>1, LenProperties

LEMMA OneElement ==
  ASSUME NEW S, NEW e \in S
  PROVE  <<e>> \in Seq(S) /\ Len(<<e>>) = 1 /\ <<e>>[1] = e
  OBVIOUS

-----------------------------------------------------------------------------
(* What the parser's output has, for use by name.                          *)
Nodes == 1 .. Len(prog.exprs)
Fns == 1 .. Len(prog.fns)

LEMMA ProgramShape ==
  ASSUME prog \in Programs
  PROVE  /\ Len(prog.fns) \in Nat /\ Len(prog.exprs) \in Nat
         /\ \A g \in Fns :
              /\ prog.fns[g] \in Functions(Nodes)
              /\ prog.fns[g].params \in Seq(Params) /\ prog.fns[g].stmts \in Seq(Stmts(Nodes))
              /\ \A i \in 1 .. Len(prog.fns[g].stmts) : ParsedStmt(prog.fns[g].stmts[i])
         /\ \A n \in Nodes :
              /\ prog.exprs[n] \in Exprs /\ ParsedExpr(prog.exprs[n], n)
              /\ prog.exprs[n].args \in Seq(Nat)
<1>1. Parsed(prog)
  BY ProgramsAssumption
<1>2. prog.fns \in Seq(Functions(Nodes)) /\ prog.exprs \in Seq(Exprs)
  BY <1>1 DEF Parsed, Nodes
<1>3. Len(prog.fns) \in Nat /\ Len(prog.exprs) \in Nat
  BY <1>2
<1>4. ASSUME NEW g \in Fns
      PROVE  /\ prog.fns[g] \in Functions(Nodes)
             /\ prog.fns[g].params \in Seq(Params) /\ prog.fns[g].stmts \in Seq(Stmts(Nodes))
             /\ \A i \in 1 .. Len(prog.fns[g].stmts) : ParsedStmt(prog.fns[g].stmts[i])
  <2>1. prog.fns[g] \in Functions(Nodes)
    BY <1>2, ElementOfSeq DEF Fns
  <2>2. prog.fns[g].params \in Seq(Params) /\ prog.fns[g].stmts \in Seq(Stmts(Nodes))
    BY <2>1 DEF Functions
  <2> QED
    BY <1>1, <2>1, <2>2 DEF Parsed, Fns
<1>5. ASSUME NEW n \in Nodes
      PROVE  /\ prog.exprs[n] \in Exprs /\ ParsedExpr(prog.exprs[n], n)
             /\ prog.exprs[n].args \in Seq(Nat)
  <2>1. prog.exprs[n] \in Exprs
    BY <1>2, ElementOfSeq DEF Nodes
  <2> QED
    BY <1>1, <2>1 DEF Parsed, Nodes, Exprs
<1> QED
  BY <1>3, <1>4, <1>5

-----------------------------------------------------------------------------
(* The symbol table.                                                       *)
Entry == [pos : Names, type : Types, id : Nat, fn : FnPointers]
Buckets == [0 .. INIT_BUCKETS - 1 -> Seq(1 .. Len(entries))]
Scopes == [up : Seq(1 .. Len(scopes)), buckets : Buckets]

LEMMA BucketRange == ASSUME NEW pos \in Names PROVE bucket_of(pos) \in 0 .. INIT_BUCKETS - 1
  BY SymTableAssumption DEF bucket_of

(* A search in one scope gives NULL or an entry of the name's chain.       *)
LEMMA FoundIn ==
  ASSUME TableOK, NEW sc \in 1 .. Len(scopes), NEW pos \in Names, find_in(sc, pos) # NULL
  PROVE  \E k \in 1 .. Len(scopes[sc].buckets[bucket_of(pos)]) :
           find_in(sc, pos) = scopes[sc].buckets[bucket_of(pos)][k]
<1> DEFINE chain == scopes[sc].buckets[bucket_of(pos)]
           hit(k) == same_name(pos, entries[chain[k]].pos)
           hits == {k \in 1 .. Len(chain) : hit(k)}
<1>1. find_in(sc, pos) = IF \E k \in 1 .. Len(chain) : hit(k)
        THEN chain[CHOOSE k \in 1 .. Len(chain) : hit(k) /\ \A j \in 1 .. k - 1 : ~hit(j)]
        ELSE NULL
  BY DEF find_in
<1>2. scopes[sc] \in Scopes
  BY ElementOfSeq DEF TableOK, Scopes, Buckets
<1>3. Len(chain) \in Nat
  <2>1. chain \in Seq(1 .. Len(entries))
    BY <1>2, BucketRange DEF Scopes, Buckets
  <2> HIDE DEF chain
  <2> QED BY <2>1, LenProperties
<1> HIDE DEF chain, hit
<1>4. hits \in SUBSET Nat /\ hits # {}
  <2>1. hits \subseteq Nat
    OBVIOUS
  <2>2. hits # {}
    BY <1>1
  <2> QED BY <2>1, <2>2
<1>5. PICK k \in hits : \A j \in hits : k <= j
  BY <1>4, LeastNat
<1>6. \A j \in 1 .. k - 1 : j \notin hits
  BY <1>3, <1>5
<1>7. hit(k) /\ \A j \in 1 .. k - 1 : ~hit(j)
  BY <1>3, <1>5, <1>6
<1>8. (CHOOSE i \in 1 .. Len(chain) : hit(i) /\ \A j \in 1 .. i - 1 : ~hit(j)) \in 1 .. Len(chain)
  BY <1>5, <1>7
<1>9. find_in(sc, pos) = chain[CHOOSE i \in 1 .. Len(chain) : hit(i) /\ \A j \in 1 .. i - 1 : ~hit(j)]
  BY <1>1
<1> QED
  BY <1>8, <1>9 DEF chain

(* So it gives NULL or one of the entries made.                            *)
LEMMA FindIn ==
  ASSUME TableOK, NEW sc \in 1 .. Len(scopes), NEW pos \in Names
  PROVE  find_in(sc, pos) \in 0 .. Len(entries)
<1> DEFINE chain == scopes[sc].buckets[bucket_of(pos)]
<1>0. Len(entries) \in Nat
  BY DEF TableOK
<1>1. scopes[sc] \in Scopes
  BY ElementOfSeq DEF TableOK, Scopes, Buckets
<1>2. chain \in Seq(1 .. Len(entries))
  BY <1>1, BucketRange DEF Scopes, Buckets
<1>3. find_in(sc, pos) # NULL => \E k \in 1 .. Len(chain) : find_in(sc, pos) = chain[k]
  BY FoundIn
<1> HIDE DEF chain
<1>4. \A k \in 1 .. Len(chain) : chain[k] \in 1 .. Len(entries)
  BY <1>2, ElementOfSeq
<1> QED
  BY <1>0, <1>3, <1>4 DEF NULL

(* A lookup gives NULL or what one of the enclosing scopes has.            *)
LEMMA FoundOn ==
  ASSUME TableOK, NEW sc \in 1 .. Len(scopes), NEW pos \in Names, scope_find(sc, pos) # NULL
  PROVE  \E k \in 1 .. Len(<<sc>> \o scopes[sc].up) :
           /\ (<<sc>> \o scopes[sc].up)[k] \in 1 .. Len(scopes)
           /\ scope_find(sc, pos) = find_in((<<sc>> \o scopes[sc].up)[k], pos)
<1> DEFINE path == <<sc>> \o scopes[sc].up
           hits == {k \in 1 .. Len(path) : find_in(path[k], pos) # NULL}
           first == CHOOSE k \in hits : \A j \in hits : k <= j
<1>1. scopes[sc].up \in Seq(1 .. Len(scopes))
  <2>1. scopes[sc] \in Scopes
    BY ElementOfSeq DEF TableOK, Scopes, Buckets
  <2> QED BY <2>1 DEF Scopes
<1>2. path \in Seq(1 .. Len(scopes))
  <2>1. <<sc>> \in Seq(1 .. Len(scopes))
    BY OneElement
  <2> QED BY <1>1, <2>1, ConcatProperties
<1>3. scope_find(sc, pos) = IF hits = {} THEN NULL ELSE find_in(path[first], pos)
  BY DEF scope_find
<1>4. hits \in SUBSET Nat /\ hits # {}
  <2>1. 1 .. Len(path) \subseteq Nat
    BY <1>2
  <2>2. hits # {}
    BY <1>3, Zenon
  <2> QED BY <2>1, <2>2
<1>5. \E k \in hits : \A j \in hits : k <= j
  BY <1>4, LeastNat
<1>6. first \in hits
  BY <1>5
<1>7. \A k \in 1 .. Len(path) : path[k] \in 1 .. Len(scopes)
  BY <1>2, ElementOfSeq
<1> HIDE DEF path, first
<1>8. \E k \in 1 .. Len(path) :
        path[k] \in 1 .. Len(scopes) /\ scope_find(sc, pos) = find_in(path[k], pos)
  BY <1>3, <1>4, <1>6, <1>7
<1> QED
  BY <1>8 DEF path

LEMMA ScopeFind ==
  ASSUME TableOK, NEW sc \in 1 .. Len(scopes), NEW pos \in Names
  PROVE  scope_find(sc, pos) \in 0 .. Len(entries)
<1>1. Len(entries) \in Nat
  BY DEF TableOK
<1>2. CASE scope_find(sc, pos) # NULL
  <2>1. PICK scp \in 1 .. Len(scopes) : scope_find(sc, pos) = find_in(scp, pos)
    BY <1>2, FoundOn
  <2> QED BY <2>1, FindIn
<1> QED
  BY <1>1, <1>2 DEF NULL

(* Entries are only ever added, so that what pointed to one still does.    *)
LEMMA MoreEntries ==
  ASSUME TableOK, NEW list, NEW e \in Entry, list = Append(entries, e)
  PROVE  /\ list \in Seq(Entry) /\ Len(list) = Len(entries) + 1
         /\ Len(entries) \in Nat
         /\ 1 .. Len(entries) \subseteq 1 .. Len(list)
<1>1. entries \in Seq(Entry)
  BY DEF TableOK, Entry
<1> QED
  BY <1>1, AppendProperties

LEMMA ScopeInsert ==
  ASSUME TableOK, NEW sc \in 1 .. Len(scopes), NEW pos \in Names, NEW type \in Types,
         scope_insert(sc, pos, type)
  PROVE  /\ TableOK'
         /\ Len(scopes') = Len(scopes)
         /\ Len(entries) \in Nat /\ Len(entries') \in Nat /\ Len(entries) <= Len(entries')
         /\ scope_insert_result(sc, pos) \in 0 .. Len(entries')
         /\ ~Redeclared(sc, pos) => scope_insert_result(sc, pos) \in 1 .. Len(entries')
<1> USE DEF NULL
<1>1. entries \in Seq(Entry) /\ scopes \in Seq(Scopes) /\ Len(entries) \in Nat
  BY DEF TableOK, Entry, Scopes, Buckets
<1>2. CASE find_in(sc, pos) # NULL
  <2>1. UNCHANGED <<scopes, entries>>
    BY <1>2 DEF scope_insert
  <2> QED BY <1>1, <1>2, <2>1 DEF TableOK, scope_insert_result, Redeclared
<1>3. CASE find_in(sc, pos) = NULL
  <2> DEFINE new == Len(entries) + 1
             b == bucket_of(pos)
             chains == [scopes[sc].buckets EXCEPT ![b] = <<new>> \o @]
             Buckets2 == [0 .. INIT_BUCKETS - 1 -> Seq(1 .. Len(entries'))]
             Scopes2 == [up : Seq(1 .. Len(scopes)), buckets : Buckets2]
  <2>1. entries' = Append(entries, ScopeEntry(pos, type))
    BY <1>3 DEF scope_insert
  <2>2. ScopeEntry(pos, type) \in Entry
    BY DEF ScopeEntry, Entry, FnPointers
  <2>3. /\ entries' \in Seq(Entry) /\ Len(entries') = new
        /\ 1 .. Len(entries) \subseteq 1 .. new
    BY <2>1, <2>2, MoreEntries
  <2>4. scopes' = [scopes EXCEPT ![sc] = [scopes[sc] EXCEPT !.buckets = chains]]
    BY <1>3 DEF scope_insert
  <2>5. \A list \in Seq(1 .. Len(entries)) : list \in Seq(1 .. new)
    BY <2>3, SeqMonotonic
  <2>6. \A sco \in Scopes : sco \in Scopes2
    BY <2>3, <2>5 DEF Scopes, Buckets
  <2>7. scopes \in Seq(Scopes2)
    BY <1>1, <2>6, SeqMonotonic
  <2>8. [scopes[sc] EXCEPT !.buckets = chains] \in Scopes2
    <3>1. scopes[sc] \in Scopes2
      BY <2>7, ElementOfSeq
    <3>2. b \in 0 .. INIT_BUCKETS - 1
      BY BucketRange
    <3>3. scopes[sc].buckets \in [0 .. INIT_BUCKETS - 1 -> Seq(1 .. new)]
      BY <3>1, <2>3
    <3>4. scopes[sc].buckets[b] \in Seq(1 .. new)
      BY <3>2, <3>3
    <3>5. <<new>> \in Seq(1 .. new)
      BY <1>1, OneElement
    <3>6. <<new>> \o scopes[sc].buckets[b] \in Seq(1 .. new)
      BY <3>4, <3>5, ConcatProperties
    <3> HIDE DEF b
    <3>7. chains \in Buckets2
      BY <3>3, <3>6, <2>3
    <3> HIDE DEF chains
    <3> QED BY <3>1, <3>7
  <2> HIDE DEF chains
  <2>9. scopes' \in Seq(Scopes2) /\ Len(scopes') = Len(scopes)
    BY <2>4, <2>7, <2>8, ExceptSeq
  <2>10. scopes' # << >>
    BY <2>9, <1>1 DEF TableOK
  <2>11. TableOK'
    BY <2>3, <2>9, <2>10 DEF TableOK, Entry
  <2>12. scope_insert_result(sc, pos) = new
    BY <1>3 DEF scope_insert_result
  <2> QED BY <1>1, <2>3, <2>9, <2>11, <2>12
<1> QED
  BY <1>2, <1>3

LEMMA ScopeInit ==
  ASSUME TableOK, NEW up \in 1 .. Len(scopes), scope_init(up)
  PROVE  TableOK' /\ entries' = entries /\ Len(scopes') = Len(scopes) + 1
<1> DEFINE new == Scope(<<up>> \o scopes[up].up)
           Scopes2 == [up : Seq(1 .. Len(scopes) + 1), buckets : Buckets]
<1>1. scopes \in Seq(Scopes) /\ Len(scopes) \in Nat
  BY DEF TableOK, Scopes, Buckets
<1>2. \A list \in Seq(1 .. Len(scopes)) : list \in Seq(1 .. Len(scopes) + 1)
  <2>1. 1 .. Len(scopes) \subseteq 1 .. Len(scopes) + 1
    BY <1>1
  <2> QED BY <2>1, SeqMonotonic
<1>3. scopes \in Seq(Scopes2)
  <2>1. \A sco \in Scopes : sco \in Scopes2
    BY <1>2 DEF Scopes
  <2> QED BY <1>1, <2>1, SeqMonotonic
<1>4. new \in Scopes2
  <2>1. scopes[up] \in Scopes
    BY <1>1, ElementOfSeq
  <2>2. scopes[up].up \in Seq(1 .. Len(scopes)) /\ <<up>> \in Seq(1 .. Len(scopes))
    BY <2>1, OneElement DEF Scopes
  <2>3. <<up>> \o scopes[up].up \in Seq(1 .. Len(scopes))
    BY <2>2, ConcatProperties
  <2>4. <<up>> \o scopes[up].up \in Seq(1 .. Len(scopes) + 1)
    BY <2>3, <1>2
  <2>5. [b \in 0 .. INIT_BUCKETS - 1 |-> << >>] \in Buckets
    BY EmptySeq DEF Buckets
  <2> QED BY <2>4, <2>5 DEF Scope
<1>5. scopes' = Append(scopes, new) /\ entries' = entries
  BY DEF scope_init
<1>6. scopes' \in Seq(Scopes2) /\ scopes' # << >> /\ Len(scopes') = Len(scopes) + 1
  BY <1>3, <1>4, <1>5, AppendProperties, SMTT(60)
<1> QED
  BY <1>5, <1>6 DEF TableOK, Buckets

(* A write through a pointer to an entry, if there is one.                 *)
LEMMA EntryWrite ==
  ASSUME TableOK, UNCHANGED scopes, NEW e, NEW r,
         entries' = [entries EXCEPT ![e] = r], e \in 1 .. Len(entries) => r \in Entry
  PROVE  TableOK' /\ Len(entries') = Len(entries)
<1>1. entries \in Seq(Entry) /\ Len(entries) \in Nat /\ DOMAIN entries = 1 .. Len(entries)
  BY LenProperties DEF TableOK, Entry
<1>2. entries' \in [1 .. Len(entries) -> Entry]
  BY <1>1, ElementOfSeq
<1>3. entries' \in Seq(Entry) /\ Len(entries') = Len(entries)
  BY <1>1, <1>2, FcnIsSeq
<1> QED
  BY <1>3 DEF TableOK, Entry

-----------------------------------------------------------------------------
(* The inductive invariant is IInv, of programs the parser can build.      *)
Inv == prog \in Programs /\ IInv

Tasks == [k : {"enter", "arg", "leave", "stmt"}, n : 0 .. Len(prog.exprs), i : Nat]
TaskOK(t) ==
  /\ t \in Tasks
  /\ t.k # "stmt" => t.n \in Nodes
  /\ phase = "types" /\ t.k = "leave" /\ Expr(t.n).t = "funcall" =>
       exprVar[t.n] # NULL /\ entries[exprVar[t.n]].type \in FnTypes

LEMMA InvParts ==
  ASSUME Inv
  PROVE  /\ prog \in Programs /\ ControlOK /\ TableOK /\ AnnotationsOK /\ IrOK
         /\ WalkOK /\ LoopsOK
  BY DEF Inv, IInv, TypeOK

(* What a list of annotations points to is still there when entries grows. *)
LEMMA Widen ==
  ASSUME TableOK, AnnotationsOK, NEW n \in Nat, Len(entries) <= n
  PROVE  /\ fnEntry \in Seq(1 .. n)
         /\ paramEntry \in [Fns -> Seq(0 .. n)]
         /\ \A g \in Fns : stmtVar[g] \in [1 .. Len(prog.fns[g].stmts) -> 0 .. n]
         /\ exprVar \in [Nodes -> 0 .. n]
<1>1. Len(entries) \in Nat
  BY DEF TableOK
<1>2. 1 .. Len(entries) \subseteq 1 .. n /\ 0 .. Len(entries) \subseteq 0 .. n
  BY <1>1
<1>3. fnEntry \in Seq(1 .. n)
  BY <1>2, SeqMonotonic DEF AnnotationsOK
<1>4. \A list \in Seq(0 .. Len(entries)) : list \in Seq(0 .. n)
  BY <1>2, SeqMonotonic
<1>5. paramEntry \in [Fns -> Seq(0 .. n)]
  BY <1>4 DEF AnnotationsOK, Fns
<1> QED
  BY <1>2, <1>3, <1>5 DEF AnnotationsOK, Fns, Nodes

LEMMA AnnotationsKept ==
  ASSUME TableOK, AnnotationsOK, UNCHANGED <<prog, annotations>>,
         Len(entries') \in Nat, Len(entries) <= Len(entries')
  PROVE  AnnotationsOK'
  BY Widen DEF AnnotationsOK, annotations, Fns, Nodes

(* What is pending, and the current function and statement of a walk.      *)
LEMMA Pending ==
  ASSUME Inv
  PROVE  /\ todo \in Seq(Tasks) /\ Len(todo) \in Nat
         /\ \A i \in 1 .. Len(todo) : TaskOK(todo[i])
         /\ todo # << >> => /\ f \in Fns /\ TaskOK(Head(todo)) /\ Tail(todo) \in Seq(Tasks)
                           /\ Len(Tail(todo)) = Len(todo) - 1
                           /\ \A i \in 1 .. Len(Tail(todo)) : TaskOK(Tail(todo)[i])
<1> USE InvParts
<1>1. todo \in Seq(Tasks) /\ Len(todo) \in Nat
  BY DEF ControlOK, Tasks
<1>2. ASSUME NEW i \in 1 .. Len(todo) PROVE TaskOK(todo[i])
  <2>1. todo[i] \in Tasks
    BY <1>1, ElementOfSeq
  <2> QED BY <2>1, ProgramShape DEF WalkOK, TaskOK, Tasks, Nodes
<1>3. ASSUME todo # << >>
      PROVE  /\ f \in Fns /\ TaskOK(Head(todo)) /\ Tail(todo) \in Seq(Tasks)
             /\ Len(Tail(todo)) = Len(todo) - 1
             /\ \A i \in 1 .. Len(Tail(todo)) : TaskOK(Tail(todo)[i])
  <2>1. f \in Fns
    BY <1>3, ProgramShape DEF WalkOK, ControlOK, Fns
  <2>2. 1 \in 1 .. Len(todo) /\ Head(todo) = todo[1]
    BY <1>1, <1>3
  <2>3. /\ Tail(todo) \in Seq(Tasks) /\ Len(Tail(todo)) = Len(todo) - 1
        /\ \A i \in 1 .. Len(Tail(todo)) : Tail(todo)[i] = todo[i + 1]
    BY <1>1, <1>3, HeadTailProperties
  <2> QED BY <1>1, <1>2, <2>1, <2>2, <2>3
<1> QED
  BY <1>1, <1>2, <1>3

(* The control part of a step that continues a walk with these tasks.      *)
LEMMA ContinueOK ==
  ASSUME Inv, todo # << >>, prog' = prog, phase = "types" => UNCHANGED <<entries, exprVar>>,
         NEW tasks \in Seq(Tasks), \A i \in 1 .. Len(tasks) : TaskOK(tasks[i]),
         Continue(tasks)
  PROVE  ControlOK' /\ WalkOK'
<1> USE InvParts
<1>1. todo' = tasks \o Tail(todo) /\ UNCHANGED <<phase, outcome, f, p, s>>
  BY DEF Continue
<1>2. /\ todo' \in Seq(Tasks) /\ Len(todo') = Len(tasks) + Len(Tail(todo))
      /\ \A i \in 1 .. Len(tasks) + Len(Tail(todo)) :
           todo'[i] = IF i <= Len(tasks) THEN tasks[i] ELSE Tail(todo)[i - Len(tasks)]
  BY <1>1, Pending, ConcatProperties
<1>3. Len(tasks) \in Nat /\ Len(Tail(todo)) \in Nat
  BY Pending, LenProperties
<1>4. ASSUME NEW i \in 1 .. Len(todo') PROVE TaskOK(todo'[i])
  <2>1. CASE i <= Len(tasks)
    BY <1>2, <1>3, <2>1
  <2>2. CASE i > Len(tasks)
    <3>1. i - Len(tasks) \in 1 .. Len(Tail(todo))
      BY <1>2, <1>3, <2>2
    <3>2. todo'[i] = Tail(todo)[i - Len(tasks)]
      BY <1>2, <1>3, <2>2
    <3>3. TaskOK(Tail(todo)[i - Len(tasks)])
      BY <3>1, Pending
    <3> QED BY <3>2, <3>3
  <2> QED BY <1>2, <1>3, <2>1, <2>2
<1>5. ControlOK'
  BY <1>1, <1>2 DEF ControlOK, Tasks
<1>6. WalkOK'
  <2>1. ASSUME NEW i \in 1 .. Len(todo')
        PROVE  /\ todo'[i].k # "stmt" => todo'[i].n # 0
               /\ phase = "types" /\ todo'[i].k = "leave" /\ Expr(todo'[i].n).t = "funcall" =>
                    /\ exprVar[todo'[i].n] # NULL
                    /\ entries[exprVar[todo'[i].n]].type \in FnTypes
    <3>1. TaskOK(todo'[i])
      BY <1>4
    <3>2. 0 \notin Nodes
      BY DEF Nodes
    <3> QED BY <3>1, <3>2 DEF TaskOK
  <2>2. f <= Len(prog.fns) /\ phase \in {"names", "types", "translate"}
    BY DEF WalkOK
  <2>3. phase # "names" => /\ s <= Len(Fn.stmts)
                           /\ Stmt.value = NULL => phase = "translate" /\ Stmt.t = "return"
    BY DEF WalkOK
  <2>4. Fn' = Fn /\ Stmt' = Stmt /\ f' = f /\ s' = s /\ phase' = phase
    BY <1>1 DEF Fn, Stmt
  <2>5. (todo # << >> => f <= Len(prog.fns) /\ phase \in {"names", "types", "translate"})'
    BY <2>2, <2>4
  <2>6. (todo # << >> /\ phase # "names" =>
           /\ s <= Len(Fn.stmts)
           /\ Stmt.value = NULL => phase = "translate" /\ Stmt.t = "return")'
    BY <2>3, <2>4
  <2>7. (\A i \in 1 .. Len(todo) :
           /\ todo[i].k # "stmt" => todo[i].n # 0
           /\ phase = "types" /\ todo[i].k = "leave" /\ Expr(todo[i].n).t = "funcall" =>
                exprVar[todo[i].n] # NULL /\ entries[exprVar[todo[i].n]].type \in FnTypes)'
    BY <2>1, <2>4 DEF Expr
  <2> QED BY <2>5, <2>6, <2>7 DEF WalkOK
<1> QED
  BY <1>5, <1>6

(* The calls on the operands of a node.                                    *)
LEMMA EnterAllOK ==
  ASSUME Inv, NEW n \in Nodes
  PROVE  /\ EnterAll(Expr(n).args) \in Seq(Tasks)
         /\ \A i \in 1 .. Len(EnterAll(Expr(n).args)) :
              /\ EnterAll(Expr(n).args)[i].k = "enter"
              /\ TaskOK(EnterAll(Expr(n).args)[i])
<1> DEFINE args == Expr(n).args
<1>1. args \in Seq(Nat) /\ Len(args) \in Nat /\ ParsedExpr(Expr(n), n) /\ Len(prog.exprs) \in Nat
  BY InvParts, ProgramShape, LenProperties DEF Expr
<1>2. ASSUME NEW i \in 1 .. Len(args) PROVE Enter(args[i]) \in Tasks /\ TaskOK(Enter(args[i]))
  <2>1. args[i] \in 1 .. n - 1
    BY <1>1 DEF ParsedExpr
  <2>2. args[i] \in Nodes
    BY <1>1, <2>1 DEF Nodes
  <2> QED BY <1>1, <2>2 DEF Enter, Task, Tasks, TaskOK, Nodes
<1>3. EnterAll(args) \in [1 .. Len(args) -> Tasks]
  BY <1>2 DEF EnterAll
<1>4. EnterAll(args) \in Seq(Tasks) /\ Len(EnterAll(args)) = Len(args)
  BY <1>1, <1>3, FcnIsSeq
<1> QED
  BY <1>2, <1>4 DEF EnterAll, Enter, Task
-----------------------------------------------------------------------------
(* What the kinds of step leave as it should be.                           *)

LEMMA TableKept ==
  ASSUME TableOK, UNCHANGED <<scopes, entries>>
  PROVE  TableOK' /\ Len(entries) \in Nat /\ Len(entries') = Len(entries)
  BY DEF TableOK

LEMMA IrKept == ASSUME IrOK, UNCHANGED <<prog, irVars>> PROVE IrOK'
  BY DEF IrOK, irVars

(* Between two statements nothing is pending.                              *)
LEMMA RestOK == ASSUME todo' = << >> PROVE WalkOK'
  BY DEF WalkOK

LEMMA MoveOK ==
  ASSUME Inv, UNCHANGED <<prog, phase, outcome>>, todo' \in Seq(Tasks),
         f' \in 1 .. Len(prog.fns) + 1, p' \in Nat, s' \in Nat \ {0}
  PROVE  ControlOK'
  BY InvParts DEF ControlOK, Tasks

LEMMA ControlTypes ==
  ASSUME Inv
  PROVE  /\ Len(prog.fns) \in Nat /\ f \in 1 .. Len(prog.fns) + 1 /\ p \in Nat /\ s \in Nat \ {0}
         /\ phase \in Phases /\ todo \in Seq(Tasks)
  BY InvParts, ProgramShape DEF ControlOK, Tasks

LEMMA NextFnOK ==
  ASSUME Inv, f <= Len(prog.fns), todo = << >>, prog' = prog, NextFn
  PROVE  ControlOK' /\ WalkOK'
<1>1. todo' = << >> /\ f' \in 1 .. Len(prog.fns) + 1 /\ p' \in Nat /\ s' \in Nat \ {0}
  BY ControlTypes DEF NextFn
<1>2. ControlOK'
  BY <1>1, MoveOK, EmptySeq DEF NextFn
<1> QED
  BY <1>1, <1>2, RestOK

LEMMA NextStmtOK ==
  ASSUME Inv, prog' = prog, NextStmt, todo' = << >>
  PROVE  ControlOK' /\ WalkOK'
<1>1. todo' \in Seq(Tasks) /\ s' \in Nat \ {0}
  BY ControlTypes, EmptySeq DEF NextStmt
<1>2. ControlOK'
  BY <1>1, MoveOK, ControlTypes DEF NextStmt
<1> QED
  BY <1>2, RestOK

(* The lists indexed by function are complete outside the loops that fill  *)
(* them, and inside as long as they stay at the same place.                *)
LEMMA LoopsKept ==
  ASSUME Inv, UNCHANGED <<prog, phase, paramEntry>>, Len(ssaFns') = Len(ssaFns),
         \/ UNCHANGED <<f, p>>
         \/ phase \notin {"names", "alloc_fns"}
  PROVE  LoopsOK'
<1>1. LoopsOK
  BY InvParts
<1>2. CASE UNCHANGED <<f, p>>
  BY <1>1, <1>2 DEF LoopsOK, Fn
<1>3. CASE phase \notin {"names", "alloc_fns"}
  BY <1>1, <1>3 DEF LoopsOK
<1> QED
  BY <1>2, <1>3

LEMMA InvFrom ==
  ASSUME Inv, prog' = prog, ControlOK', TableOK', AnnotationsOK', IrOK', WalkOK', LoopsOK'
  PROVE  Inv'
  BY InvParts DEF Inv, IInv, TypeOK

LEMMA StopOK ==
  ASSUME Inv, NEW how \in Diagnostics \cup Abnormal, Stop(how), UNCHANGED irVars
  PROVE  Inv'
<1>1. /\ outcome' = how /\ UNCHANGED <<prog, phase, f, p, s, todo, scopes, entries, annotations>>
      /\ UNCHANGED <<fnEntry, paramEntry, stmtVar, stmtType, exprVar, exprType>>
      /\ UNCHANGED <<ssaFns, fnsAlloc, result>>
  BY DEF Stop, annotations, irVars
<1>2. ControlOK'
  BY <1>1, InvParts DEF ControlOK
<1>3. TableOK' /\ Len(entries) \in Nat /\ Len(entries') = Len(entries)
  BY <1>1, InvParts, TableKept
<1>4. AnnotationsOK'
  BY <1>1, <1>3, InvParts, AnnotationsKept
<1>5. IrOK'
  BY <1>1, InvParts, IrKept
<1>6. WalkOK'
  BY <1>1, InvParts DEF WalkOK, Fn, Stmt, Expr
<1>7. LoopsOK'
  BY <1>1, LoopsKept
<1> QED
  BY <1>1, <1>2, <1>3, <1>4, <1>5, <1>6, <1>7, InvFrom

LEMMA EndPhaseOK == ASSUME Inv, EndPhase, UNCHANGED irVars PROVE Inv'
<1>1. /\ UNCHANGED <<prog, todo, scopes, entries, annotations>>
      /\ UNCHANGED <<fnEntry, paramEntry, stmtVar, stmtType, exprVar, exprType>>
      /\ UNCHANGED <<ssaFns, fnsAlloc, result>>
      /\ phase # "done" /\ f > Len(prog.fns) /\ phase' = NextPhase[phase]
      /\ f' = 1 /\ p' = 0 /\ s' = 1 /\ outcome' \in {"running", "ok"}
  BY DEF EndPhase, annotations, irVars
<1>2. todo = << >>
  BY <1>1, InvParts, ControlTypes DEF WalkOK
<1>3. ControlOK'
  <2>1. phase' \in Phases /\ f' \in 1 .. Len(prog.fns) + 1
    BY <1>1, ControlTypes DEF Phases, NextPhase
  <2> QED BY <1>1, <2>1, InvParts DEF ControlOK
<1>4. TableOK' /\ Len(entries) \in Nat /\ Len(entries') = Len(entries)
  BY <1>1, InvParts, TableKept
<1>5. AnnotationsOK'
  BY <1>1, <1>4, InvParts, AnnotationsKept
<1>6. IrOK'
  BY <1>1, InvParts, IrKept
<1>7. WalkOK'
  BY <1>1, <1>2, RestOK
<1>8. LoopsOK'
  <2>1. LoopsOK /\ Len(prog.fns) \in Nat /\ f = Len(prog.fns) + 1
    BY <1>1, InvParts, ControlTypes
  <2>2. \A g \in Fns : Len(prog.fns[g].params) \in Nat /\ g <= Len(prog.fns) /\ g >= 1
    BY ProgramShape, InvParts, LenProperties DEF Fns
  <2>3. CASE phase = "declare"
    BY <1>1, <2>1, <2>2, <2>3 DEF LoopsOK, NextPhase, Fn, Fns
  <2>4. CASE phase = "names"
    BY <1>1, <2>1, <2>2, <2>4 DEF LoopsOK, NextPhase, Fn, Fns
  <2>5. CASE phase \in {"signatures", "types", "returns", "alloc_fns", "translate"}
    BY <1>1, <2>1, <2>2, <2>5 DEF LoopsOK, NextPhase, Fn, Fns
  <2> QED BY <1>1, <2>3, <2>4, <2>5, ControlTypes DEF Phases, NextPhase
<1> QED
  BY <1>1, <1>3, <1>4, <1>5, <1>6, <1>7, <1>8, InvFrom
-----------------------------------------------------------------------------
(* Name resolution.                                                        *)

LEMMA OneStopOK ==
  ASSUME Inv, UNCHANGED irVars,
         \/ \E how \in Diagnostics : Stop(how)
         \/ \E how \in Abnormal : Stop(how)
  PROVE  Inv'
  BY StopOK

LEMMA DeclareFnOK == ASSUME Inv, DeclareFn, UNCHANGED irVars PROVE Inv'
<1> USE InvParts
<1>1. CASE Redeclared(global, Fn.name) /\ Stop("name_redeclaration")
  BY <1>1, OneStopOK DEF Diagnostics
<1>2. CASE ~Redeclared(global, Fn.name)
  <2>1. /\ scope_insert(global, Fn.name, NoType) /\ NextFn
        /\ fnEntry' = Append(fnEntry, scope_insert_result(global, Fn.name))
        /\ UNCHANGED <<prog, paramEntry, stmtVar, stmtType, exprVar, exprType>>
        /\ phase = "declare" /\ f <= Len(prog.fns)
    BY <1>2 DEF DeclareFn, InFn, In
  <2>2. global \in 1 .. Len(scopes)
    BY EmptySeq DEF TableOK, global
  <2>3. Fn.name \in Names /\ NoType \in Types
    BY <2>1, ControlTypes, ProgramShape DEF Fn, Fns, Functions, Types
  <2>4. /\ TableOK' /\ Len(entries) \in Nat /\ Len(entries') \in Nat
        /\ Len(entries) <= Len(entries')
        /\ scope_insert_result(global, Fn.name) \in 1 .. Len(entries')
    BY <1>2, <2>1, <2>2, <2>3, ScopeInsert
  <2>5. AnnotationsOK'
    <3>1. fnEntry \in Seq(1 .. Len(entries'))
      BY <2>4, Widen
    <3>2. fnEntry' \in Seq(1 .. Len(entries'))
      BY <2>1, <2>4, <3>1, AppendProperties
    <3> QED BY <2>1, <2>4, <3>2, Widen DEF AnnotationsOK, Fns, Nodes
  <2>6. ControlOK' /\ WalkOK'
    BY <2>1, ControlTypes, NextFnOK DEF WalkOK
  <2>7. IrOK' /\ LoopsOK'
    BY <2>1, IrKept, LoopsKept DEF NextFn, irVars
  <2> QED BY <2>1, <2>4, <2>5, <2>6, <2>7, InvFrom
<1> QED
  BY <1>1, <1>2 DEF DeclareFn

LEMMA NamesEnterFnOK == ASSUME Inv, Names_EnterFn, UNCHANGED irVars PROVE Inv'
<1> USE InvParts
<1>1. /\ phase = "names" /\ f <= Len(prog.fns) /\ p = 0 /\ p' = 1 /\ scope_init(global)
      /\ UNCHANGED <<prog, phase, outcome, f, s, todo, annotations>>
      /\ UNCHANGED <<fnEntry, paramEntry, stmtVar, stmtType, exprVar, exprType>>
      /\ UNCHANGED <<ssaFns, fnsAlloc, result>>
  BY DEF Names_EnterFn, InFn, In, annotations, irVars
<1>2. global \in 1 .. Len(scopes) /\ Len(entries) \in Nat
  BY EmptySeq DEF TableOK, global
<1>3. TableOK' /\ entries' = entries
  BY <1>1, <1>2, ScopeInit
<1>4. AnnotationsOK'
  BY <1>1, <1>2, <1>3, AnnotationsKept
<1>5. ControlOK'
  BY <1>1, MoveOK, ControlTypes
<1>6. WalkOK'
  BY <1>1, <1>3 DEF WalkOK, Fn, Stmt, Expr
<1>7. LoopsOK'
  <2>1. Len(Fn.params) \in Nat
    BY <1>1, ControlTypes, ProgramShape, LenProperties DEF Fn, Fns
  <2> QED BY <1>1, <2>1 DEF LoopsOK, Fn
<1> QED
  BY <1>1, <1>3, <1>4, <1>5, <1>6, <1>7, IrKept, InvFrom

(* The function a statement-level step is in.                              *)
LEMMA InsideFn ==
  ASSUME Inv, f <= Len(prog.fns)
  PROVE  /\ f \in Fns /\ Fn.name \in Names /\ Fn.ret \in Builtins
         /\ Fn.params \in Seq(Params) /\ Len(Fn.params) \in Nat
         /\ Fn.stmts \in Seq(Stmts(Nodes)) /\ Len(Fn.stmts) \in Nat
         /\ \A i \in 1 .. Len(Fn.stmts) :
              Fn.stmts[i] \in Stmts(Nodes) /\ ParsedStmt(Fn.stmts[i])
<1>1. f \in Fns
  BY ControlTypes DEF Fns
<1>2. Fn \in Functions(Nodes)
  BY <1>1, InvParts, ProgramShape DEF Fn
<1>3. Fn.params \in Seq(Params) /\ Fn.stmts \in Seq(Stmts(Nodes))
  BY <1>1, InvParts, ProgramShape DEF Fn
<1>4. \A i \in 1 .. Len(Fn.stmts) : ParsedStmt(Fn.stmts[i])
  BY <1>1, InvParts, ProgramShape DEF Fn
<1> QED
  BY <1>1, <1>2, <1>3, <1>4, ElementOfSeq, LenProperties DEF Functions

LEMMA InsertParamOK == ASSUME Inv, InsertParam, UNCHANGED irVars PROVE Inv'
<1> USE InvParts
<1> DEFINE name == Fn.params[p].name
           type == Fn.params[p].type
<1>1. /\ phase = "names" /\ f <= Len(prog.fns) /\ p \in 1 .. Len(Fn.params) /\ p' = p + 1
      /\ scope_insert(scope, name, type)
      /\ paramEntry' = [paramEntry EXCEPT ![f] = Append(@, scope_insert_result(scope, name))]
      /\ UNCHANGED <<prog, phase, outcome, f, s, todo>>
      /\ UNCHANGED <<fnEntry, stmtVar, stmtType, exprVar, exprType>>
      /\ UNCHANGED <<ssaFns, fnsAlloc, result>>
  BY DEF InsertParam, AtParam, InFn, In, irVars
<1>2. scope \in 1 .. Len(scopes)
  BY EmptySeq DEF TableOK, scope
<1>3. name \in Names /\ type \in Types
  <2>1. Fn.params[p] \in Params
    BY <1>1, InsideFn, ElementOfSeq
  <2> QED BY <2>1 DEF Params, Written, Types
<1>4. /\ TableOK' /\ Len(entries) \in Nat /\ Len(entries') \in Nat
      /\ Len(entries) <= Len(entries')
      /\ scope_insert_result(scope, name) \in 0 .. Len(entries')
  <2> HIDE DEF name, type
  <2> QED BY <1>1, <1>2, <1>3, ScopeInsert
<1> HIDE DEF name, type
<1>5. /\ paramEntry' \in [Fns -> Seq(0 .. Len(entries'))]
      /\ Len(paramEntry'[f]) = Len(paramEntry[f]) + 1
      /\ \A g \in Fns : g # f => paramEntry'[g] = paramEntry[g]
  <2>1. paramEntry \in [Fns -> Seq(0 .. Len(entries'))] /\ f \in Fns
    BY <1>1, <1>4, Widen, InsideFn
  <2>2. Append(paramEntry[f], scope_insert_result(scope, name)) \in Seq(0 .. Len(entries'))
    BY <1>4, <2>1, AppendProperties
  <2>3. Len(Append(paramEntry[f], scope_insert_result(scope, name))) = Len(paramEntry[f]) + 1
    BY <1>4, <2>1, AppendProperties
  <2> QED BY <1>1, <2>1, <2>2, <2>3
<1>6. AnnotationsOK'
  BY <1>1, <1>4, <1>5, Widen DEF AnnotationsOK, Fns, Nodes
<1>7. ControlOK'
  BY <1>1, MoveOK, ControlTypes
<1>8. WalkOK'
  BY <1>1 DEF WalkOK, Fn, Stmt, Expr
<1>9. LoopsOK'
  <2>1. p \in Nat \ {0} /\ Len(Fn.params) \in Nat /\ f \in Fns /\ Fns \subseteq Nat
    BY <1>1, InsideFn DEF Fns
  <2>2. Fn' = Fn /\ p' <= Len(Fn.params) + 1
    BY <1>1, <2>1 DEF Fn
  <2>3. Len(paramEntry'[f]) = p
    BY <1>1, <1>5, <2>1 DEF LoopsOK, Fns
  <2>4. ASSUME NEW g \in Fns
        PROVE  Len(paramEntry'[g]) = IF g > f THEN 0 ELSE IF g = f THEN p
                                     ELSE Len(prog.fns[g].params)
    BY <1>1, <1>5, <2>1, <2>3 DEF LoopsOK, Fns
  <2>5. Len(ssaFns') = 0
    BY <1>1 DEF LoopsOK
  <2> QED BY <1>1, <2>1, <2>2, <2>4, <2>5 DEF LoopsOK, Fns
<1> QED
  BY <1>1, <1>4, <1>6, <1>7, <1>8, <1>9, IrKept, InvFrom DEF irVars
LEMMA ResolveValueOK ==
  ASSUME Inv, phase = "names", f <= Len(prog.fns), s <= Len(Fn.stmts), prog' = prog,
         ResolveValue
  PROVE  ControlOK' /\ WalkOK'
<1>1. s \in 1 .. Len(Fn.stmts) /\ Stmt.value \in {NULL} \cup Nodes
  BY ControlTypes, InsideFn DEF Stmt, Stmts
<1>2. /\ UNCHANGED <<phase, outcome, f, p>> /\ s' = s + 1
      /\ todo' = (IF Stmt.value # NULL THEN <<Enter(Stmt.value)>> ELSE << >>)
  BY DEF ResolveValue, NextStmt
<1>3. CASE Stmt.value = NULL
  BY <1>2, <1>3, NextStmtOK DEF ResolveValue
<1>4. CASE Stmt.value # NULL
  <2>1. Enter(Stmt.value) \in Tasks /\ Enter(Stmt.value).k = "enter" /\ Enter(Stmt.value).n # 0
    BY <1>1, <1>4, InvParts, ProgramShape DEF Enter, Task, Tasks, Nodes, NULL
  <2>2. todo' \in Seq(Tasks) /\ Len(todo') = 1 /\ todo'[1] = Enter(Stmt.value)
    BY <1>2, <1>4, <2>1, OneElement
  <2>3. ControlOK'
    BY <1>2, <2>2, MoveOK, ControlTypes
  <2>4. WalkOK'
    BY <1>2, <2>1, <2>2 DEF WalkOK
  <2> QED BY <2>3, <2>4
<1> QED
  BY <1>3, <1>4

LEMMA ResolveLetOK == ASSUME Inv, ResolveLet, UNCHANGED irVars PROVE Inv'
<1> USE InvParts
<1>1. CASE Redeclared(scope, Stmt.name) /\ Stop("name_redeclaration")
  BY <1>1, OneStopOK DEF Diagnostics
<1>2. CASE ~Redeclared(scope, Stmt.name)
  <2>1. /\ scope_insert(scope, Stmt.name, Stmt.type) /\ ResolveValue
        /\ stmtVar' = [stmtVar EXCEPT ![f][s] = scope_insert_result(scope, Stmt.name)]
        /\ UNCHANGED <<prog, fnEntry, paramEntry, stmtType, exprVar, exprType>>
        /\ phase = "names" /\ f <= Len(prog.fns) /\ s <= Len(Fn.stmts) /\ Stmt.t = "let"
    BY <1>2 DEF ResolveLet, AtStmt, BetweenStmts, InFn, In
  <2>2. scope \in 1 .. Len(scopes)
    BY EmptySeq DEF TableOK, scope
  <2>3. s \in 1 .. Len(Fn.stmts) /\ f \in Fns
    BY <2>1, ControlTypes, InsideFn
  <2>4. Stmt.name \in Names /\ Stmt.type \in Types
    BY <2>1, <2>3, InsideFn DEF Stmt, Stmts, ParsedStmt, Written, Types
  <2>5. /\ TableOK' /\ Len(entries) \in Nat /\ Len(entries') \in Nat
        /\ Len(entries) <= Len(entries')
        /\ scope_insert_result(scope, Stmt.name) \in 0 .. Len(entries')
    BY <2>1, <2>2, <2>4, ScopeInsert
  <2>6. /\ DOMAIN stmtVar' = Fns
        /\ \A g \in Fns : stmtVar'[g] \in [1 .. Len(prog.fns[g].stmts) -> 0 .. Len(entries')]
    <3>1. /\ \A g \in Fns : stmtVar[g] \in [1 .. Len(prog.fns[g].stmts) -> 0 .. Len(entries')]
          /\ DOMAIN stmtVar = Fns
      BY <2>5, Widen DEF AnnotationsOK, Fns
    <3> QED BY <2>1, <2>3, <2>5, <3>1
  <2>7. AnnotationsOK'
    BY <2>1, <2>5, <2>6, Widen DEF AnnotationsOK, Fns, Nodes
  <2>8. ControlOK' /\ WalkOK'
    BY <2>1, ResolveValueOK
  <2>9. IrOK' /\ LoopsOK'
    BY <2>1, IrKept, LoopsKept DEF ResolveValue, NextStmt, irVars
  <2> QED BY <2>1, <2>5, <2>7, <2>8, <2>9, InvFrom
<1> QED
  BY <1>1, <1>2 DEF ResolveLet

(* A step that changes nothing but where the passes are.                   *)
LEMMA OnlyControl ==
  ASSUME Inv, UNCHANGED <<prog, scopes, entries, annotations, irVars>>,
         ControlOK', WalkOK', LoopsOK'
  PROVE  Inv'
<1>1. TableOK' /\ Len(entries) \in Nat /\ Len(entries') = Len(entries)
  BY InvParts, TableKept
<1>2. AnnotationsOK'
  BY <1>1, InvParts, AnnotationsKept
<1> QED
  BY <1>1, <1>2, InvParts, IrKept, InvFrom

LEMMA ResolveStmtOK == ASSUME Inv, ResolveStmt, UNCHANGED irVars PROVE Inv'
<1>1. /\ ResolveValue /\ UNCHANGED <<prog, scopes, entries, annotations>>
      /\ phase = "names" /\ f <= Len(prog.fns) /\ s <= Len(Fn.stmts)
  BY DEF ResolveStmt, AtStmt, BetweenStmts, InFn, In
<1>2. ControlOK' /\ WalkOK'
  BY <1>1, ResolveValueOK
<1>3. LoopsOK'
  BY <1>1, LoopsKept DEF ResolveValue, NextStmt, irVars, annotations
<1> QED
  BY <1>1, <1>2, <1>3, OnlyControl

(* The task the walk is at.                                                *)
LEMMA AtTask ==
  ASSUME Inv, todo # << >>
  PROVE  /\ f \in Fns /\ Head(todo) \in Tasks /\ TaskOK(Head(todo))
         /\ Head(todo).k # "stmt" => /\ Node \in Nodes /\ Node # 0 /\ Expr(Node) \in Exprs
                                     /\ ParsedExpr(Expr(Node), Node)
                                     /\ Expr(Node).args \in Seq(Nat) /\ Len(Expr(Node).args) \in Nat
                                     /\ \A k \in 1 .. Len(Expr(Node).args) :
                                          Expr(Node).args[k] \in Nodes
<1>1. f \in Fns /\ Head(todo) \in Tasks /\ TaskOK(Head(todo))
  BY Pending DEF TaskOK
<1>2. ASSUME Head(todo).k # "stmt"
      PROVE  /\ Node \in Nodes /\ Node # 0 /\ Expr(Node) \in Exprs
             /\ ParsedExpr(Expr(Node), Node)
             /\ Expr(Node).args \in Seq(Nat) /\ Len(Expr(Node).args) \in Nat
             /\ \A k \in 1 .. Len(Expr(Node).args) : Expr(Node).args[k] \in Nodes
  <2>1. Node \in Nodes
    BY <1>1, <1>2 DEF TaskOK, Node
  <2>2. /\ Expr(Node) \in Exprs /\ ParsedExpr(Expr(Node), Node)
        /\ Expr(Node).args \in Seq(Nat) /\ Len(Expr(Node).args) \in Nat
    BY <2>1, InvParts, ProgramShape, LenProperties DEF Expr
  <2>3. \A k \in 1 .. Len(Expr(Node).args) : Expr(Node).args[k] \in 1 .. Node - 1
    BY <2>2 DEF ParsedExpr
  <2>4. \A i \in 1 .. Node - 1 : i \in Nodes
    BY <2>1, InvParts, ProgramShape DEF Nodes
  <2> QED BY <2>1, <2>2, <2>3, <2>4 DEF Nodes
<1> QED
  BY <1>1, <1>2

LEMMA ResolveNameOK ==
  ASSUME Inv, NEW t \in {"var", "funcall"}, ResolveName(t), UNCHANGED irVars
  PROVE  Inv'
<1> USE InvParts
<1> DEFINE entry == scope_find(scope, Expr(Node).name)
<1>1. CASE entry = NULL /\ Stop("name_not_in_scope")
  BY <1>1, OneStopOK DEF Diagnostics
<1>2. CASE entry # NULL
  <2>1. /\ exprVar' = [exprVar EXCEPT ![Node] = entry]
        /\ Continue(EnterAll(Expr(Node).args))
        /\ UNCHANGED <<prog, scopes, entries>>
        /\ UNCHANGED <<fnEntry, paramEntry, stmtVar, stmtType, exprType>>
        /\ phase = "names" /\ todo # << >> /\ Head(todo).k = "enter"
        /\ Head(todo).n # 0 => Expr(Node).t = t
    BY <1>2 DEF ResolveName, At, In, Node
  <2>2. Node \in Nodes /\ Node # 0 /\ ParsedExpr(Expr(Node), Node)
    BY <2>1, AtTask
  <2>3. Expr(Node).name \in Names
    BY <2>1, <2>2 DEF ParsedExpr, Node
  <2>4. scope \in 1 .. Len(scopes)
    BY EmptySeq DEF TableOK, scope
  <2>5. entry \in 0 .. Len(entries)
    BY <2>3, <2>4, ScopeFind
  <2>6. TableOK' /\ Len(entries) \in Nat /\ Len(entries') = Len(entries)
    BY <2>1, TableKept
  <2> HIDE DEF entry
  <2>7. AnnotationsOK'
    BY <2>1, <2>2, <2>5, <2>6 DEF AnnotationsOK, Nodes
  <2>8. ControlOK' /\ WalkOK'
    BY <2>1, <2>2, EnterAllOK, ContinueOK
  <2>9. IrOK' /\ LoopsOK'
    BY <2>1, IrKept, LoopsKept DEF Continue, irVars
  <2> QED BY <2>1, <2>6, <2>7, <2>8, <2>9, InvFrom
<1> QED
  BY <1>1, <1>2 DEF ResolveName

LEMMA ResolveOperandsOK ==
  ASSUME Inv, NEW t \in {"int", "binop"}, ResolveOperands(t), UNCHANGED irVars
  PROVE  Inv'
<1>1. /\ Continue(EnterAll(Expr(Node).args)) /\ UNCHANGED <<prog, scopes, entries, annotations>>
      /\ phase = "names" /\ todo # << >> /\ Head(todo).k = "enter"
  BY DEF ResolveOperands, At, In
<1>2. ControlOK' /\ WalkOK'
  BY <1>1, AtTask, EnterAllOK, ContinueOK
<1>3. LoopsOK'
  BY <1>1, LoopsKept DEF Continue, irVars, annotations
<1> QED
  BY <1>1, <1>2, <1>3, OnlyControl

LEMMA NamesLeaveFnOK == ASSUME Inv, Names_LeaveFn, UNCHANGED irVars PROVE Inv'
<1>1. /\ phase = "names" /\ f <= Len(prog.fns) /\ p > Len(Fn.params) /\ todo = << >>
      /\ NextFn /\ UNCHANGED <<prog, scopes, entries, annotations>>
      /\ UNCHANGED <<ssaFns, fnsAlloc, result>> /\ paramEntry' = paramEntry
  BY DEF Names_LeaveFn, LeaveFn, BetweenStmts, InFn, In, annotations, irVars
<1>2. ControlOK' /\ WalkOK'
  BY <1>1, NextFnOK
<1>3. LoopsOK'
  <2>1. Len(Fn.params) \in Nat /\ f \in Fns /\ Fns \subseteq Nat /\ LoopsOK
    BY <1>1, InsideFn, InvParts DEF Fns
  <2>2. p = Len(Fn.params) + 1
    BY <1>1, <2>1, ControlTypes DEF LoopsOK
  <2>3. f' = f + 1 /\ p' = 0 /\ phase' = phase
    BY <1>1 DEF NextFn
  <2>4. ASSUME NEW g \in Fns
        PROVE  Len(paramEntry'[g]) = IF g > f THEN 0 ELSE Len(prog.fns[g].params)
    BY <1>1, <2>1, <2>2 DEF LoopsOK, Fns, Fn
  <2>5. Len(ssaFns') = 0
    BY <1>1, <2>1 DEF LoopsOK
  <2>6. f + 1 <= Len(prog.fns) => Len(prog.fns[f + 1].params) \in Nat
    BY <2>1, InvParts, ProgramShape, LenProperties DEF Fns
  <2> QED BY <1>1, <2>1, <2>3, <2>4, <2>5, <2>6 DEF LoopsOK, Fns, Fn
<1> QED
  BY <1>1, <1>2, <1>3, OnlyControl DEF irVars

LEMMA NamesNextOK == ASSUME Inv, Names_Next, UNCHANGED irVars PROVE Inv'
  BY DeclareFnOK, NamesEnterFnOK, InsertParamOK, ResolveLetOK, ResolveStmtOK,
     ResolveNameOK, ResolveOperandsOK, NamesLeaveFnOK DEF Names_Next
-----------------------------------------------------------------------------
(* Type checking.                                                          *)

LEMMA EntryParts ==
  ASSUME TableOK, NEW e \in 1 .. Len(entries)
  PROVE  /\ entries[e] \in Entry /\ entries[e].type \in Types /\ entries[e].id \in Nat
         /\ entries[e].fn \in FnPointers /\ entries[e].pos \in Names
<1>1. entries[e] \in Entry
  BY ElementOfSeq DEF TableOK, Entry
<1> QED
  BY <1>1 DEF Entry

LEMMA TypeKinds ==
  /\ Builtins \subseteq Types /\ Written \subseteq Builtins /\ NoType \in Types
  /\ FnTypes \subseteq Types
  /\ \A type \in Types : type.t = "fn" => type \in FnTypes
  /\ \A type \in FnTypes : type.t = "fn" /\ type.ret \in Builtins /\ type.args \in Seq(Builtins)
  /\ \A ret \in Builtins : \A list \in Seq(Builtins) : FnType(ret, list) \in FnTypes
<1>1. \A type \in Builtins \cup {NoType} : type.t # "fn"
  BY DEF Builtins, BuiltinTypes, IntTypes, NoType, Type
<1> QED
  BY <1>1 DEF Types, Written, FnTypes, FnType

LEMMA BuildFnTypeOK == ASSUME Inv, BuildFnType, UNCHANGED irVars PROVE Inv'
<1> USE InvParts
<1> DEFINE list == [i \in 1 .. Len(Fn.params) |-> Fn.params[i].type]
           type == FnType(Fn.ret, list)
           e == fnEntry[f]
           r == [entries[e] EXCEPT !.type = type]
<1>1. /\ phase = "signatures" /\ f <= Len(prog.fns)
      /\ entries' = [entries EXCEPT ![e] = r]
      /\ NextFn /\ UNCHANGED <<prog, scopes, annotations>>
  BY DEF BuildFnType, InFn, In
<1>2. type \in Types
  <2>1. ASSUME NEW i \in 1 .. Len(Fn.params) PROVE Fn.params[i].type \in Builtins
    <3>1. Fn.params[i] \in Params
      BY <1>1, InsideFn, ElementOfSeq
    <3> QED BY <3>1, TypeKinds DEF Params
  <2>2. list \in [1 .. Len(Fn.params) -> Builtins]
    BY <2>1
  <2>3. list \in Seq(Builtins)
    BY <1>1, <2>2, InsideFn, FcnIsSeq
  <2> QED BY <1>1, <2>3, InsideFn, TypeKinds
<1> HIDE DEF type, e
<1>3. e \in 1 .. Len(entries) => r \in Entry
  BY <1>2, EntryParts DEF Entry
<1> HIDE DEF r
<1>4. TableOK' /\ Len(entries') = Len(entries) /\ Len(entries) \in Nat
  <2>1. TableOK' /\ Len(entries') = Len(entries)
    BY <1>1, <1>3, EntryWrite
  <2>2. Len(entries) \in Nat
    BY DEF TableOK
  <2> QED BY <2>1, <2>2
<1>5. AnnotationsOK'
  BY <1>1, <1>4, AnnotationsKept
<1>6. ControlOK' /\ WalkOK'
  BY <1>1, ControlTypes, NextFnOK DEF WalkOK
<1>7. IrOK' /\ LoopsOK'
  BY <1>1, IrKept, LoopsKept DEF NextFn, irVars, annotations
<1> QED
  BY <1>1, <1>4, <1>5, <1>6, <1>7, InvFrom

LEMMA TypesEnterFnOK == ASSUME Inv, Types_EnterFn, UNCHANGED irVars PROVE Inv'
<1>1. /\ phase = "types" /\ f <= Len(prog.fns) /\ p' = Len(Fn.params) + 1
      /\ UNCHANGED <<prog, phase, outcome, f, s, todo, scopes, entries, annotations>>
      /\ UNCHANGED <<fnEntry, paramEntry, stmtVar, stmtType, exprVar, exprType>>
      /\ UNCHANGED <<ssaFns, fnsAlloc, result>>
  BY DEF Types_EnterFn, InFn, In, annotations, irVars
<1>2. ControlOK'
  BY <1>1, MoveOK, ControlTypes, InsideFn
<1>3. WalkOK'
  BY <1>1, InvParts DEF WalkOK, Fn, Stmt, Expr
<1>4. LoopsOK'
  BY <1>1, LoopsKept
<1> QED
  BY <1>1, <1>2, <1>3, <1>4, OnlyControl DEF irVars

LEMMA TypesStmtOK == ASSUME Inv, Types_Stmt, UNCHANGED irVars PROVE Inv'
<1>1. /\ phase = "types" /\ f <= Len(prog.fns) /\ todo = << >> /\ s <= Len(Fn.stmts)
      /\ IF Stmt.value = NULL THEN SkipStmt ELSE Walk(<<Enter(Stmt.value), EndStmt>>)
      /\ UNCHANGED <<prog, scopes, entries, annotations>>
  BY DEF Types_Stmt, AtStmt, BetweenStmts, InFn, In
<1>2. CASE Stmt.value = NULL
  <2>1. ControlOK' /\ WalkOK'
    BY <1>1, <1>2, NextStmtOK DEF SkipStmt
  <2>2. LoopsOK'
    BY <1>1, <1>2, LoopsKept DEF SkipStmt, NextStmt, irVars, annotations
  <2> QED BY <1>1, <2>1, <2>2, OnlyControl
<1>3. CASE Stmt.value # NULL
  <2>1. todo' = <<Enter(Stmt.value), EndStmt>> /\ UNCHANGED <<phase, outcome, f, p, s>>
    BY <1>1, <1>3 DEF Walk
  <2>2. Stmt.value \in Nodes
    BY <1>1, <1>3, ControlTypes, InsideFn DEF Stmt, Stmts
  <2>3. Enter(Stmt.value) \in Tasks /\ EndStmt \in Tasks
    BY <2>2, InvParts, ProgramShape DEF Enter, EndStmt, Task, Tasks, Nodes
  <2>4. todo' \in Seq(Tasks)
    BY <2>1, <2>3
  <2>5. ControlOK'
    BY <1>1, <2>1, <2>4, MoveOK, ControlTypes
  <2>6. WalkOK'
    <3>1. \A i \in 1 .. Len(todo') :
            todo'[i].k # "leave" /\ (todo'[i].k # "stmt" => todo'[i].n # 0)
      BY <2>1, <2>2 DEF Enter, EndStmt, Task, Nodes
    <3>2. Fn' = Fn /\ Stmt' = Stmt
      BY <1>1, <2>1 DEF Fn, Stmt
    <3> QED BY <1>1, <1>3, <2>1, <3>1, <3>2 DEF WalkOK
  <2>7. LoopsOK'
    BY <1>1, <2>1, LoopsKept DEF irVars, annotations
  <2> QED BY <1>1, <2>5, <2>6, <2>7, OnlyControl
<1> QED
  BY <1>2, <1>3

(* Going on without new tasks.                                             *)
LEMMA GoOnOK ==
  ASSUME Inv, todo # << >>, prog' = prog, phase = "types" => UNCHANGED <<entries, exprVar>>,
         Continue(<< >>)
  PROVE  ControlOK' /\ WalkOK'
<1>1. << >> \in Seq(Tasks) /\ \A i \in 1 .. Len(<< >>) : TaskOK(<< >>[i])
  BY EmptySeq
<1> QED
  BY <1>1, ContinueOK

LEMMA SetTypeOK ==
  ASSUME Inv, todo # << >>, NEW type \in Types, SetType(type), Continue(<< >>), UNCHANGED irVars
  PROVE  Inv'
<1> USE InvParts
<1>1. /\ exprType' = [exprType EXCEPT ![Node] = type]
      /\ UNCHANGED <<prog, scopes, entries, fnEntry, paramEntry, stmtVar, stmtType, exprVar>>
      /\ UNCHANGED <<ssaFns, fnsAlloc, result, phase, outcome, f, p, s>>
  BY DEF SetType, Continue, irVars
<1>2. TableOK' /\ Len(entries') = Len(entries)
  BY <1>1, TableKept
<1>3. AnnotationsOK'
  BY <1>1, <1>2 DEF AnnotationsOK
<1>4. ControlOK' /\ WalkOK'
  BY <1>1, GoOnOK
<1>5. IrOK' /\ LoopsOK'
  BY <1>1, IrKept, LoopsKept DEF irVars
<1> QED
  BY <1>1, <1>2, <1>3, <1>4, <1>5, InvFrom

LEMMA TypeIntOK == ASSUME Inv, TypeInt, UNCHANGED irVars PROVE Inv'
<1>1. /\ todo # << >> /\ Head(todo).k # "stmt"
      /\ SetType(Expr(Node).type) /\ Continue(<< >>)
  BY DEF TypeInt, At
<1>2. Expr(Node).type \in Types
  BY <1>1, AtTask DEF Exprs, Types
<1> QED
  BY <1>1, <1>2, SetTypeOK

(* What these calls lead to, then the rest of the node.                    *)
LEMMA ThenLeave ==
  ASSUME Inv, todo # << >>, Head(todo).k # "stmt",
         NEW calls \in Seq(Tasks), \A i \in 1 .. Len(calls) : TaskOK(calls[i]),
         TaskOK(Leave(Node)),
         UNCHANGED <<prog, scopes, entries, annotations, irVars>>,
         Continue(calls \o <<Leave(Node)>>)
  PROVE  Inv'
<1> DEFINE tasks == calls \o <<Leave(Node)>>
<1>1. Leave(Node) \in Tasks
  BY DEF TaskOK
<1>2. <<Leave(Node)>> \in Seq(Tasks) /\ Len(<<Leave(Node)>>) = 1
  BY <1>1, OneElement
<1>3. /\ tasks \in Seq(Tasks) /\ Len(tasks) = Len(calls) + 1 /\ Len(calls) \in Nat
      /\ \A i \in 1 .. Len(tasks) :
           tasks[i] = IF i <= Len(calls) THEN calls[i] ELSE <<Leave(Node)>>[i - Len(calls)]
  BY <1>2, ConcatProperties, LenProperties
<1>4. ASSUME NEW i \in 1 .. Len(tasks) PROVE TaskOK(tasks[i])
  <2>1. CASE i <= Len(calls)
    BY <1>3, <2>1
  <2>2. CASE i > Len(calls)
    <3>1. i - Len(calls) = 1
      BY <1>3, <2>2
    <3>2. tasks[i] = Leave(Node)
      BY <1>3, <2>2, <3>1
    <3> QED BY <3>2
  <2> QED BY <1>3, <2>1, <2>2
<1> HIDE DEF tasks
<1>5. Continue(tasks)
  BY DEF tasks
<1>6. ControlOK' /\ WalkOK'
  BY <1>3, <1>4, <1>5, ContinueOK DEF annotations
<1>7. LoopsOK'
  BY <1>5, LoopsKept DEF Continue, irVars, annotations
<1> QED
  BY <1>6, <1>7, OnlyControl

(* The operands of a node, then the node.                                  *)
LEMMA ArgsThenLeave ==
  ASSUME Inv, todo # << >>, Head(todo).k = "enter",
         phase = "types" => Expr(Node).t # "funcall",
         UNCHANGED <<prog, scopes, entries, annotations, irVars>>,
         Continue(EnterAll(Expr(Node).args) \o <<Leave(Node)>>)
  PROVE  Inv'
<1> DEFINE calls == EnterAll(Expr(Node).args)
<1>1. Node \in Nodes /\ TaskOK(Leave(Node))
  BY AtTask, InvParts, ProgramShape DEF Leave, Task, Tasks, TaskOK, Nodes
<1>2. calls \in Seq(Tasks) /\ \A i \in 1 .. Len(calls) : TaskOK(calls[i])
  BY <1>1, EnterAllOK
<1> HIDE DEF calls
<1>3. Continue(calls \o <<Leave(Node)>>)
  BY DEF calls
<1> QED
  BY <1>1, <1>2, <1>3, ThenLeave

LEMMA EnterBinopOK == ASSUME Inv, EnterBinop, UNCHANGED irVars PROVE Inv'
<1>1. /\ todo # << >> /\ Head(todo).k = "enter" /\ (Node # 0 => Expr(Node).t = "binop")
      /\ Continue(EnterAll(Expr(Node).args) \o <<Leave(Node)>>)
      /\ UNCHANGED <<prog, scopes, entries, annotations>>
  BY DEF EnterBinop, At, Node
<1>2. Node # 0
  BY <1>1, AtTask
<1> QED
  BY <1>1, <1>2, ArgsThenLeave

LEMMA CoerceType ==
  ASSUME NEW op, NEW left \in Types, NEW right
  PROVE  coerce_type(op, left, right) \in Types
<1>1. Type("bool") \in Types
  BY DEF Types, Builtins, BuiltinTypes
<1> QED
  BY <1>1, TypeKinds DEF coerce_type

LEMMA TypeBinopOK == ASSUME Inv, TypeBinop, UNCHANGED irVars PROVE Inv'
<1> DEFINE left == exprType[Expr(Node).args[1]]
           right == exprType[Expr(Node).args[2]]
           type == coerce_type(Expr(Node).op, left, right)
<1>1. /\ todo # << >> /\ Head(todo).k = "leave" /\ (Node # 0 => Expr(Node).t = "binop")
      /\ \/ Stop("segv") \/ Stop("incorrect_type_binop")
         \/ SetType(type) /\ Continue(<< >>)
  BY DEF TypeBinop, At, Node
<1>2. left \in Types
  <2>1. Expr(Node).t = "binop" /\ ParsedExpr(Expr(Node), Node)
    BY <1>1, AtTask
  <2>2. Len(Expr(Node).args) = 2
    <3> HIDE DEF left, right, type
    <3> QED BY <2>1, Zenon DEF ParsedExpr
  <2>3. Expr(Node).args[1] \in Nodes
    BY <1>1, <2>2, AtTask
  <2> QED BY <2>3, InvParts DEF AnnotationsOK, Nodes
<1>3. type \in Types
  BY <1>2, CoerceType
<1> HIDE DEF type
<1> QED
  BY <1>1, <1>3, SetTypeOK, OneStopOK DEF Diagnostics, Abnormal
LEMMA TypeNameOK == ASSUME Inv, TypeName, UNCHANGED irVars PROVE Inv'
<1> DEFINE type == entries[exprVar[Node]].type
           args == Expr(Node).args
           each(i) == IF i % 2 = 1 THEN Enter(args[(i + 1) \div 2]) ELSE AfterArg(Node, i \div 2)
           calls == [i \in 1 .. 2 * Len(args) |-> each(i)]
<1>1. todo # << >> /\ Head(todo).k = "enter"
  BY DEF TypeName, At
<1>2. /\ Node \in Nodes
      /\ Len(args) \in Nat
      /\ \A k \in 1 .. Len(args) : args[k] \in Nodes
  BY <1>1, AtTask
<1>3. ASSUME ~name_reads_null PROVE exprVar[Node] # NULL /\ type \in Types
  <2>1. exprVar[Node] \in 0 .. Len(entries) /\ exprVar[Node] # NULL
    BY <1>2, <1>3, InvParts DEF AnnotationsOK, Nodes, name_reads_null
  <2>2. exprVar[Node] \in 1 .. Len(entries)
    BY <2>1, InvParts DEF NULL, TableOK
  <2> QED BY <2>1, <2>2, InvParts, EntryParts
<1>4. CASE \E how \in {"segv", "incorrect_type_funcall", "wrong_param_count"} : Stop(how)
  BY <1>4, StopOK DEF Diagnostics, Abnormal
<1>5. CASE ~name_reads_null /\ SetType(type) /\ Continue(<< >>)
  <2> HIDE DEF type
  <2> QED BY <1>1, <1>3, <1>5, SetTypeOK
<1>6. CASE /\ ~name_reads_null /\ type.t = "fn"
           /\ Continue(calls \o <<Leave(Node)>>)
           /\ UNCHANGED <<prog, scopes, entries, annotations>>
  <2>1. type \in FnTypes
    BY <1>3, <1>6, TypeKinds
  <2>2. ASSUME NEW i \in 1 .. 2 * Len(args) PROVE each(i) \in Tasks /\ TaskOK(each(i))
    <3>1. CASE i % 2 = 1
      <4>1. (i + 1) \div 2 \in 1 .. Len(args)
        BY <1>2, <3>1
      <4>2. args[(i + 1) \div 2] \in Nodes
        BY <1>2, <4>1
      <4>3. Enter(args[(i + 1) \div 2]) \in Tasks
        BY <4>2, InvParts, ProgramShape DEF Enter, Task, Tasks, Nodes
      <4> QED BY <3>1, <4>2, <4>3 DEF Enter, Task, TaskOK
    <3>2. CASE i % 2 # 1
      <4>1. i \div 2 \in Nat
        BY <1>2
      <4>2. AfterArg(Node, i \div 2) \in Tasks
        BY <1>2, <4>1, InvParts, ProgramShape DEF AfterArg, Task, Tasks, Nodes
      <4> QED BY <1>2, <3>2, <4>2 DEF AfterArg, Task, TaskOK
    <3> QED BY <3>1, <3>2
  <2> HIDE DEF each
  <2>3. calls \in [1 .. 2 * Len(args) -> Tasks] /\ 2 * Len(args) \in Nat
    BY <1>2, <2>2
  <2>4. calls \in Seq(Tasks) /\ Len(calls) = 2 * Len(args)
    BY <2>3, FcnIsSeq
  <2>5. \A i \in 1 .. Len(calls) : TaskOK(calls[i])
    BY <2>2, <2>4
  <2>6. TaskOK(Leave(Node))
    BY <1>2, <1>3, <1>6, <2>1, InvParts, ProgramShape DEF Leave, Task, Tasks, TaskOK, Nodes
  <2> HIDE DEF calls
  <2> QED BY <1>1, <1>6, <2>4, <2>5, <2>6, ThenLeave
<1> QED
  BY <1>4, <1>5, <1>6 DEF TypeName

LEMMA CheckArgOK == ASSUME Inv, CheckArg, UNCHANGED irVars PROVE Inv'
<1>1. todo # << >> /\ phase = "types"
  BY DEF CheckArg, At, In
<1>2. CASE Stop("segv") \/ Stop("incorrect_type_param")
  BY <1>2, OneStopOK DEF Diagnostics, Abnormal
<1>3. CASE Continue(<< >>) /\ UNCHANGED <<prog, scopes, entries, annotations>>
  <2>1. ControlOK' /\ WalkOK'
    BY <1>1, <1>3, GoOnOK DEF annotations
  <2>2. LoopsOK'
    BY <1>3, LoopsKept DEF Continue, irVars, annotations
  <2> QED BY <1>3, <2>1, <2>2, OnlyControl
<1> QED
  BY <1>2, <1>3 DEF CheckArg

LEMMA TypeCallOK == ASSUME Inv, TypeCall, UNCHANGED irVars PROVE Inv'
<1> DEFINE ret == entries[exprVar[Node]].type.ret
<1>1. /\ todo # << >> /\ Head(todo).k = "leave" /\ phase = "types"
      /\ (Node # 0 => Expr(Node).t = "funcall")
      /\ SetType(ret) /\ Continue(<< >>)
  BY DEF TypeCall, At, In, Node
<1>2. TaskOK(Head(todo)) /\ Node # 0
  BY <1>1, AtTask
<1>3. entries[exprVar[Node]].type \in FnTypes
  BY <1>1, <1>2 DEF TaskOK, Node
<1>4. ret \in Types
  BY <1>3, TypeKinds
<1> HIDE DEF ret
<1> QED
  BY <1>1, <1>4, SetTypeOK

(* The statement a walk belongs to, outside name resolution.               *)
LEMMA CurrentStmt ==
  ASSUME Inv, todo # << >>, phase # "names"
  PROVE  /\ f \in Fns /\ s \in 1 .. Len(Fn.stmts) /\ Stmt \in Stmts(Nodes) /\ ParsedStmt(Stmt)
         /\ Fn = prog.fns[f]
         /\ Stmt.value = NULL => phase = "translate" /\ Stmt.t = "return"
         /\ Stmt.value # NULL => Stmt.value \in Nodes
<1>1. f <= Len(prog.fns) /\ f \in Fns
  BY InvParts, ControlTypes DEF WalkOK, Fns
<1>2. s \in 1 .. Len(Fn.stmts)
  BY <1>1, InvParts, ControlTypes, InsideFn DEF WalkOK
<1>3. Stmt \in Stmts(Nodes) /\ ParsedStmt(Stmt)
  BY <1>1, <1>2, InsideFn DEF Stmt
<1> QED
  BY <1>1, <1>2, <1>3, InvParts DEF WalkOK, Stmts, Fn

LEMMA InferOK ==
  ASSUME Inv, todo # << >>, phase = "types", Infer, UNCHANGED irVars
  PROVE  Inv'
<1> USE InvParts
<1> DEFINE type == exprType[Stmt.value]
           e == stmtVar[f][s]
           r == [entries[e] EXCEPT !.type = type]
<1>1. /\ stmtType' = [stmtType EXCEPT ![f][s] = type] /\ entries' = [entries EXCEPT ![e] = r]
      /\ NextStmt /\ todo' = << >>
      /\ UNCHANGED <<prog, scopes, fnEntry, paramEntry, stmtVar, exprVar, exprType>>
  BY DEF Infer
<1>2. f \in Fns /\ s \in 1 .. Len(prog.fns[f].stmts) /\ Stmt.value \in Nodes
  BY CurrentStmt
<1>3. type \in Types
  BY <1>2 DEF AnnotationsOK, Nodes
<1> HIDE DEF type, e
<1>4. e \in 1 .. Len(entries) => r \in Entry
  BY <1>3, EntryParts DEF Entry
<1> HIDE DEF r
<1>5. TableOK' /\ Len(entries') = Len(entries)
  BY <1>1, <1>4, EntryWrite
<1>6. AnnotationsOK'
  <2>1. /\ DOMAIN stmtType = Fns
        /\ \A g \in Fns : stmtType[g] \in [1 .. Len(prog.fns[g].stmts) -> Types]
    BY DEF AnnotationsOK, Fns
  <2>2. /\ DOMAIN stmtType' = Fns
        /\ \A g \in Fns : stmtType'[g] \in [1 .. Len(prog.fns[g].stmts) -> Types]
    BY <1>1, <1>2, <1>3, <2>1
  <2> QED BY <1>1, <1>5, <2>2 DEF AnnotationsOK, Fns
<1>7. ControlOK' /\ WalkOK'
  BY <1>1, NextStmtOK
<1>8. IrOK' /\ LoopsOK'
  BY <1>1, IrKept, LoopsKept DEF NextStmt, irVars
<1> QED
  BY <1>1, <1>5, <1>6, <1>7, <1>8, InvFrom

LEMMA TypesEndStmtOK == ASSUME Inv, Types_EndStmt, UNCHANGED irVars PROVE Inv'
<1>1. todo # << >> /\ phase = "types"
  BY DEF Types_EndStmt, At, In
<1>2. CASE Infer
  BY <1>1, <1>2, InferOK
<1>3. CASE Stop("segv") \/ Stop("incorrect_type_assign")
  BY <1>3, OneStopOK DEF Diagnostics, Abnormal
<1>4. CASE NextStmt /\ todo' = << >> /\ UNCHANGED <<prog, scopes, entries, annotations>>
  <2>1. ControlOK' /\ WalkOK'
    BY <1>4, NextStmtOK
  <2>2. LoopsOK'
    BY <1>4, LoopsKept DEF NextStmt, irVars, annotations
  <2> QED BY <1>4, <2>1, <2>2, OnlyControl
<1> QED
  BY <1>2, <1>3, <1>4 DEF Types_EndStmt

LEMMA TypesLeaveFnOK == ASSUME Inv, Types_LeaveFn, UNCHANGED irVars PROVE Inv'
<1>1. /\ phase = "types" /\ f <= Len(prog.fns) /\ todo = << >> /\ NextFn
      /\ UNCHANGED <<prog, scopes, entries, annotations>>
  BY DEF Types_LeaveFn, LeaveFn, BetweenStmts, InFn, In
<1>2. ControlOK' /\ WalkOK'
  BY <1>1, NextFnOK
<1>3. LoopsOK'
  BY <1>1, LoopsKept DEF NextFn, irVars, annotations
<1> QED
  BY <1>1, <1>2, <1>3, OnlyControl

LEMMA TypesNextOK == ASSUME Inv, Types_Next, UNCHANGED irVars PROVE Inv'
  BY BuildFnTypeOK, TypesEnterFnOK, TypesStmtOK, TypeIntOK, EnterBinopOK, TypeBinopOK,
     TypeNameOK, CheckArgOK, TypeCallOK, TypesEndStmtOK, TypesLeaveFnOK DEF Types_Next

LEMMA CheckReturnsOK == ASSUME Inv, CheckReturns, UNCHANGED irVars PROVE Inv'
<1>1. phase = "returns" /\ f <= Len(prog.fns)
  BY DEF CheckReturns, InFn, In
<1>2. todo = << >>
  BY <1>1, InvParts DEF WalkOK
<1>3. CASE NextFn /\ UNCHANGED <<prog, scopes, entries, annotations>>
  <2>1. ControlOK' /\ WalkOK'
    BY <1>1, <1>2, <1>3, NextFnOK
  <2>2. LoopsOK'
    BY <1>1, <1>3, LoopsKept DEF NextFn, irVars, annotations
  <2> QED BY <1>3, <2>1, <2>2, OnlyControl
<1>4. CASE check_fn # "right" /\ \E how \in Returns_End[check_fn] : Stop(how)
  <2>1. check_fn \in {"right", "never", "unset", "null", "wrong"}
    BY DEF check_fn
  <2>2. Returns_End[check_fn] \subseteq Diagnostics \cup Abnormal
    BY <1>4, <2>1 DEF Returns_End, Diagnostics, Abnormal
  <2> QED BY <1>4, <2>2, StopOK
<1> QED
  BY <1>3, <1>4 DEF CheckReturns
-----------------------------------------------------------------------------
(* Translation.                                                            *)

LEMMA SizeOK ==
  /\ \A type : type.t \in IntTypes => type_sz(type) \in Sizes
  /\ \A type : (\A how \in Abnormal : ~size_fails(type, how)) => type.t \in IntTypes
  BY DEF IntTypes, Sizes, type_sz, size_fails, Abnormal

LEMMA AllocFnOK == ASSUME Inv, AllocFn PROVE Inv'
<1> USE InvParts
<1> DEFINE ptr == <<fnsAlloc', Len(ssaFns) + 1>>
           e == fnEntry[f]
           r == [entries[e] EXCEPT !.fn = ptr]
<1>1. /\ phase = "alloc_fns" /\ f <= Len(prog.fns)
      /\ ssaFns' = Append(ssaFns, SSA_Fn)
      /\ entries' = [entries EXCEPT ![e] = r]
      /\ NextFn /\ UNCHANGED <<prog, scopes, annotations, result>>
  BY DEF AllocFn, InFn, In
<1>2. fnsAlloc' \in Nat
  BY DEF AllocFn, IrOK
<1>3. ssaFns \in Seq(SSA_Fns) /\ Len(ssaFns) \in Nat
  BY LenProperties DEF IrOK
<1>4. ptr \in FnPointers
  BY <1>2, <1>3 DEF FnPointers
<1> HIDE DEF ptr, e
<1>5. e \in 1 .. Len(entries) => r \in Entry
  BY <1>4, EntryParts DEF Entry
<1> HIDE DEF r
<1>6. TableOK' /\ Len(entries') = Len(entries)
  BY <1>1, <1>5, EntryWrite
<1>7. AnnotationsOK'
  <2>1. Len(entries) \in Nat
    BY DEF TableOK
  <2> QED BY <1>1, <1>6, <2>1, AnnotationsKept
<1>8. ControlOK' /\ WalkOK'
  BY <1>1, ControlTypes, NextFnOK DEF WalkOK
<1>9. ssaFns' \in Seq(SSA_Fns) /\ Len(ssaFns') = Len(ssaFns) + 1
  <2>1. SSA_Fn \in SSA_Fns
    BY EmptySeq DEF SSA_Fn, SSA_Fns
  <2> QED BY <1>1, <1>3, <2>1, AppendProperties
<1>10. IrOK'
  BY <1>1, <1>2, <1>9 DEF IrOK
<1>11. LoopsOK'
  <2>1. Len(ssaFns) = f - 1
    BY <1>1 DEF LoopsOK
  <2>2. \A g \in Fns : Len(paramEntry[g]) = Len(prog.fns[g].params)
    BY <1>1 DEF LoopsOK, Fns
  <2>3. f' = f + 1 /\ phase' = phase /\ paramEntry' = paramEntry
    BY <1>1 DEF NextFn, annotations
  <2>4. Len(ssaFns') = f' - 1
    BY <1>3, <1>9, <2>1, <2>3, ControlTypes
  <2> QED BY <1>1, <2>2, <2>3, <2>4 DEF LoopsOK, Fns
<1> QED
  BY <1>1, <1>6, <1>7, <1>8, <1>10, <1>11, InvFrom

LEMMA IrEnterFnOK == ASSUME Inv, Ir_EnterFn PROVE Inv'
<1>1. /\ phase = "translate" /\ p' = 1
      /\ UNCHANGED <<prog, phase, outcome, f, s, todo, scopes, entries, annotations, irVars>>
      /\ UNCHANGED <<fnEntry, paramEntry, stmtVar, stmtType, exprVar, exprType>>
      /\ UNCHANGED <<ssaFns, fnsAlloc, result>>
  BY DEF Ir_EnterFn, InFn, In, annotations, irVars
<1>2. ControlOK'
  BY <1>1, MoveOK, ControlTypes
<1>3. WalkOK'
  BY <1>1, InvParts DEF WalkOK, Fn, Stmt, Expr
<1>4. LoopsOK'
  BY <1>1, LoopsKept
<1> QED
  BY <1>1, <1>2, <1>3, <1>4, OnlyControl

(* The current SSA_Fn, and the list after a change of it.                  *)
LEMMA CurrentFn ==
  ASSUME Inv, phase = "translate", f \in Fns
  PROVE  /\ ssaFns \in Seq(SSA_Fns) /\ f \in 1 .. Len(ssaFns)
         /\ ssaFns[f].params \in Seq(Nat) /\ ssaFns[f].regs \in Seq(Sizes)
         /\ ssaFns[f].insts \in Seq(Insts) /\ ssaFns[f] \in SSA_Fns
         /\ ssa_new_reg \in Nat \ {0}
<1>1. ssaFns \in Seq(SSA_Fns) /\ Len(ssaFns) = Len(prog.fns)
  BY InvParts DEF IrOK, LoopsOK
<1>2. ssaFns[f] \in SSA_Fns
  BY <1>1, ElementOfSeq DEF Fns
<1>3. /\ ssaFns[f].params \in Seq(Nat) /\ ssaFns[f].regs \in Seq(Sizes)
      /\ ssaFns[f].insts \in Seq(Insts)
  BY <1>2 DEF SSA_Fns
<1> QED
  BY <1>1, <1>2, <1>3, LenProperties DEF Fns, ssa_new_reg

LEMMA FnWrite ==
  ASSUME Inv, phase = "translate", f \in Fns, NEW r \in SSA_Fns,
         ssaFns' = [ssaFns EXCEPT ![f] = r]
  PROVE  ssaFns' \in Seq(SSA_Fns) /\ Len(ssaFns') = Len(ssaFns)
  BY CurrentFn, ExceptSeq

LEMMA EmitOK ==
  ASSUME Inv, phase = "translate", f \in Fns, NEW regs \in Seq(Sizes), NEW insts \in Seq(Insts),
         Emit(regs, insts)
  PROVE  ssaFns' \in Seq(SSA_Fns) /\ Len(ssaFns') = Len(ssaFns)
<1> DEFINE r == [ssaFns[f] EXCEPT !.regs = ssaFns[f].regs \o regs,
                                  !.insts = ssaFns[f].insts \o insts]
<1>1. ssaFns' = [ssaFns EXCEPT ![f] = r]
  BY CurrentFn DEF Emit, SSA_Fns
<1>2. ssaFns[f].regs \o regs \in Seq(Sizes) /\ ssaFns[f].insts \o insts \in Seq(Insts)
  BY CurrentFn, ConcatProperties
<1>3. r \in SSA_Fns
  BY <1>2, CurrentFn DEF SSA_Fns
<1> HIDE DEF r
<1> QED
  BY <1>1, <1>3, FnWrite

(* A register for an entry.                                                *)
LEMMA RegOK ==
  ASSUME Inv, phase = "translate", f \in Fns, NEW entry \in 0 .. Len(entries),
         \A how \in Abnormal : ~reg_fails(entry, how)
  PROVE  /\ entry \in 1 .. Len(entries) /\ sym_table_reg(entry) \in Nat
         /\ new_regs(entry) \in Seq(Sizes)
<1>1. Len(entries) \in Nat
  BY InvParts DEF TableOK
<1>2. entry \in 1 .. Len(entries)
  BY <1>1 DEF reg_fails, Abnormal, NULL
<1>3. entries[entry].id \in Nat
  BY <1>2, InvParts, EntryParts
<1>4. sym_table_reg(entry) \in Nat
  BY <1>3, CurrentFn DEF sym_table_reg
<1>5. new_regs(entry) \in Seq(Sizes)
  <2>1. CASE entries[entry].id = 0
    <3>1. \A how \in Abnormal : ~size_fails(entries[entry].type, how)
      BY <1>2, <2>1 DEF reg_fails, NULL
    <3>2. type_sz(entries[entry].type) \in Sizes
      BY <3>1, SizeOK
    <3> QED BY <2>1, <3>2, OneElement DEF new_regs
  <2>2. CASE entries[entry].id # 0
    BY <2>2, EmptySeq DEF new_regs
  <2> QED BY <2>1, <2>2
<1> QED
  BY <1>2, <1>4, <1>5

LEMMA SetIdOK ==
  ASSUME Inv, phase = "translate", f \in Fns, NEW entry \in 0 .. Len(entries),
         \A how \in Abnormal : ~reg_fails(entry, how), set_id(entry),
         UNCHANGED <<prog, scopes, annotations>>
  PROVE  TableOK' /\ AnnotationsOK'
<1> DEFINE r == [entries[entry] EXCEPT !.id = sym_table_reg(entry)]
<1>1. r \in Entry
  <2>1. sym_table_reg(entry) \in Nat /\ entries[entry] \in Entry
    BY RegOK, InvParts, EntryParts
  <2> QED BY <2>1 DEF Entry
<1>2. entries' = [entries EXCEPT ![entry] = r]
  BY DEF set_id
<1> HIDE DEF r
<1>3. TableOK' /\ Len(entries') = Len(entries)
  BY <1>1, <1>2, InvParts, EntryWrite
<1>4. Len(entries) \in Nat
  BY InvParts DEF TableOK
<1> QED
  BY <1>3, <1>4, InvParts, AnnotationsKept

LEMMA FailsOK == ASSUME Inv, NEW how \in Abnormal, Fails(how) PROVE Inv'
  BY StopOK DEF Fails

LEMMA TranslateParamOK == ASSUME Inv, TranslateParam PROVE Inv'
<1> USE InvParts
<1> DEFINE entry == paramEntry[f][p]
<1>1. phase = "translate" /\ f \in Fns /\ p \in 1 .. Len(Fn.params)
  BY ControlTypes DEF TranslateParam, AtParam, InFn, In, Fns
<1>2. CASE \E how \in Abnormal : reg_fails(entry, how) /\ Fails(how)
  BY <1>2, FailsOK
<1>3. CASE \A how \in Abnormal : ~reg_fails(entry, how)
  <2> DEFINE r == [ssaFns[f] EXCEPT !.regs = ssaFns[f].regs \o new_regs(entry),
                                    !.params = Append(ssaFns[f].params, sym_table_reg(entry))]
  <2>1. /\ set_id(entry)
        /\ ssaFns' = [ssaFns EXCEPT ![f].regs = @ \o new_regs(entry),
                                    ![f].params = Append(@, sym_table_reg(entry))]
        /\ p' = p + 1
        /\ UNCHANGED <<prog, phase, outcome, f, s, todo, scopes, annotations, fnsAlloc, result>>
    BY <1>3 DEF TranslateParam
  <2>2. entry \in 0 .. Len(entries)
    <3>1. paramEntry[f] \in Seq(0 .. Len(entries)) /\ Len(paramEntry[f]) = Len(Fn.params)
      BY <1>1 DEF AnnotationsOK, LoopsOK, Fns, Fn
    <3> QED BY <1>1, <3>1, ElementOfSeq
  <2> HIDE DEF entry
  <2>3. new_regs(entry) \in Seq(Sizes) /\ sym_table_reg(entry) \in Nat
    BY <1>1, <1>3, <2>2, RegOK
  <2>4. TableOK' /\ AnnotationsOK'
    BY <1>1, <1>3, <2>1, <2>2, SetIdOK
  <2>5. r \in SSA_Fns
    <3>1. ssaFns[f].regs \o new_regs(entry) \in Seq(Sizes)
      BY <1>1, <2>3, CurrentFn, ConcatProperties
    <3>2. Append(ssaFns[f].params, sym_table_reg(entry)) \in Seq(Nat)
      BY <1>1, <2>3, CurrentFn, AppendProperties
    <3> QED BY <1>1, <3>1, <3>2, CurrentFn DEF SSA_Fns
  <2>6. ssaFns' = [ssaFns EXCEPT ![f] = r]
    BY <1>1, <2>1, CurrentFn DEF SSA_Fns
  <2> HIDE DEF r
  <2>7. ssaFns' \in Seq(SSA_Fns) /\ Len(ssaFns') = Len(ssaFns)
    BY <1>1, <2>5, <2>6, FnWrite
  <2>8. IrOK'
    BY <2>1, <2>7 DEF IrOK
  <2>9. ControlOK'
    BY <2>1, MoveOK, ControlTypes
  <2>10. WalkOK'
    BY <1>1, <2>1 DEF WalkOK, Fn, Stmt, Expr
  <2>11. LoopsOK'
    BY <1>1, <2>1, <2>7, LoopsKept DEF annotations
  <2> QED BY <2>1, <2>4, <2>8, <2>9, <2>10, <2>11, InvFrom
<1> QED
  BY <1>2, <1>3 DEF TranslateParam
LEMMA TranslateStmtOK == ASSUME Inv, TranslateStmt PROVE Inv'
<1> USE InvParts
<1>1. /\ phase = "translate" /\ f <= Len(prog.fns) /\ todo = << >> /\ s <= Len(Fn.stmts)
      /\ IF Stmt.t = "let" /\ Stmt.value = NULL THEN SkipStmt
         ELSE Walk((IF Stmt.value = NULL THEN << >> ELSE <<Enter(Stmt.value)>>) \o <<EndStmt>>)
      /\ UNCHANGED <<prog, scopes, entries, annotations, irVars>>
  BY DEF TranslateStmt, AtStmt, BetweenStmts, InFn, In
<1>2. CASE Stmt.t = "let" /\ Stmt.value = NULL
  <2>1. ControlOK' /\ WalkOK'
    BY <1>1, <1>2, NextStmtOK DEF SkipStmt
  <2>2. LoopsOK'
    BY <1>1, <1>2, LoopsKept DEF SkipStmt, NextStmt, irVars, annotations
  <2> QED BY <1>1, <2>1, <2>2, OnlyControl
<1>3. CASE ~(Stmt.t = "let" /\ Stmt.value = NULL)
  <2> DEFINE first == IF Stmt.value = NULL THEN << >> ELSE <<Enter(Stmt.value)>>
  <2>1. todo' = first \o <<EndStmt>> /\ UNCHANGED <<phase, outcome, f, p, s>>
    BY <1>1, <1>3 DEF Walk
  <2>2. Stmt \in Stmts(Nodes) /\ ParsedStmt(Stmt)
    BY <1>1, ControlTypes, InsideFn DEF Stmt
  <2>3. Stmt.value = NULL => Stmt.t = "return"
    BY <1>3, <2>2 DEF Stmts, ParsedStmt
  <2>4. Stmt.value # NULL => Stmt.value \in Nodes
    BY <2>2 DEF Stmts
  <2>5. EndStmt \in Tasks /\ (Stmt.value # NULL => Enter(Stmt.value) \in Tasks)
    BY <2>4, ProgramShape DEF Enter, EndStmt, Task, Tasks, Nodes
  <2>6. /\ first \in Seq(Tasks) /\ Len(first) \in Nat
        /\ \A i \in 1 .. Len(first) : first[i].k = "enter" /\ first[i].n # 0
    <3>1. CASE Stmt.value = NULL
      BY <3>1, EmptySeq
    <3>2. CASE Stmt.value # NULL
      <4>1. Enter(Stmt.value).k = "enter" /\ Enter(Stmt.value).n # 0
        BY <2>4, <3>2 DEF Enter, Task, Nodes
      <4> QED BY <2>5, <3>2, <4>1, OneElement
    <3> QED BY <3>1, <3>2
  <2>7. <<EndStmt>> \in Seq(Tasks) /\ Len(<<EndStmt>>) = 1 /\ <<EndStmt>>[1].k = "stmt"
    BY <2>5, OneElement DEF EndStmt, Task
  <2> HIDE DEF first
  <2>8. /\ todo' \in Seq(Tasks) /\ Len(todo') = Len(first) + 1
        /\ \A i \in 1 .. Len(todo') :
             todo'[i] = IF i <= Len(first) THEN first[i] ELSE <<EndStmt>>[i - Len(first)]
    BY <2>1, <2>6, <2>7, ConcatProperties
  <2>9. \A i \in 1 .. Len(todo') : todo'[i].k # "stmt" => todo'[i].n # 0
    <3>1. ASSUME NEW i \in 1 .. Len(todo'), i > Len(first) PROVE todo'[i].k = "stmt"
      <4>1. i - Len(first) = 1
        BY <2>6, <2>8, <3>1
      <4> QED BY <2>7, <2>8, <3>1, <4>1
    <3> QED BY <2>6, <2>8, <3>1
  <2>10. ControlOK'
    BY <1>1, <2>1, <2>8, MoveOK, ControlTypes
  <2>11. WalkOK'
    <3>1. Fn' = Fn /\ Stmt' = Stmt
      BY <1>1, <2>1 DEF Fn, Stmt
    <3> QED BY <1>1, <2>1, <2>3, <2>9, <3>1 DEF WalkOK
  <2>12. LoopsOK'
    BY <1>1, <2>1, LoopsKept DEF irVars, annotations
  <2> QED BY <1>1, <2>10, <2>11, <2>12, OnlyControl
<1> QED
  BY <1>2, <1>3

(* A step of the translation that leaves the symbol table alone, and one   *)
(* that changes no more of it than TableOK and AnnotationsOK allow.        *)
LEMMA IrStep ==
  ASSUME Inv, phase = "translate", UNCHANGED <<prog, phase, fnsAlloc, paramEntry>>,
         ssaFns' \in Seq(SSA_Fns), Len(ssaFns') = Len(ssaFns),
         result' \in [Nodes -> Nat],
         TableOK', AnnotationsOK', ControlOK', WalkOK'
  PROVE  Inv'
<1>1. IrOK'
  BY InvParts DEF IrOK, Nodes
<1>2. LoopsOK'
  BY LoopsKept
<1> QED
  BY <1>1, <1>2, InvFrom

LEMMA AstKept ==
  ASSUME Inv, UNCHANGED <<prog, scopes, entries, annotations>>
  PROVE  TableOK' /\ AnnotationsOK' /\ paramEntry' = paramEntry
<1>1. TableOK' /\ Len(entries) \in Nat /\ Len(entries') = Len(entries)
  BY InvParts, TableKept
<1> QED
  BY <1>1, InvParts, AnnotationsKept DEF annotations

LEMMA IrLeaveFnOK == ASSUME Inv, Ir_LeaveFn PROVE Inv'
<1> DEFINE r == [ssaFns[f] EXCEPT !.name = Fn.name]
<1>1. /\ phase = "translate" /\ f <= Len(prog.fns) /\ todo = << >> /\ NextFn
      /\ ssaFns' = [ssaFns EXCEPT ![f] = r]
      /\ UNCHANGED <<prog, scopes, entries, annotations, fnsAlloc, result>>
  BY DEF Ir_LeaveFn, LeaveFn, BetweenStmts, InFn, In
<1>2. f \in Fns /\ Fn.name \in Names
  BY <1>1, InsideFn
<1>3. r \in SSA_Fns
  BY <1>1, <1>2, CurrentFn DEF SSA_Fns
<1> HIDE DEF r
<1>4. ssaFns' \in Seq(SSA_Fns) /\ Len(ssaFns') = Len(ssaFns)
  BY <1>1, <1>2, <1>3, FnWrite
<1>5. ControlOK' /\ WalkOK' /\ phase' = phase
  BY <1>1, NextFnOK DEF NextFn
<1>6. result' \in [Nodes -> Nat]
  BY <1>1, InvParts DEF IrOK, Nodes
<1> QED
  BY <1>1, <1>4, <1>5, <1>6, AstKept, IrStep

LEMMA EmitResultOK ==
  ASSUME Inv, phase = "translate", todo # << >>, Head(todo).k # "stmt",
         NEW inst \in Insts, EmitResult(inst)
  PROVE  Inv'
<1>1. /\ Emit(<<inst.sz>>, <<inst>>) /\ result' = [result EXCEPT ![Node] = ssa_new_reg]
      /\ Continue(<< >>) /\ UNCHANGED <<phase, outcome, f, p, s>>
      /\ UNCHANGED <<prog, scopes, entries, annotations, fnsAlloc>>
  BY DEF EmitResult, Continue
<1>2. f \in Fns /\ Node \in Nodes
  BY AtTask
<1>3. <<inst.sz>> \in Seq(Sizes) /\ <<inst>> \in Seq(Insts)
  BY OneElement DEF Insts
<1>4. ssaFns' \in Seq(SSA_Fns) /\ Len(ssaFns') = Len(ssaFns)
  BY <1>1, <1>2, <1>3, EmitOK
<1>5. result' \in [Nodes -> Nat]
  BY <1>1, <1>2, CurrentFn, InvParts DEF IrOK, Nodes
<1>6. ControlOK' /\ WalkOK'
  BY <1>1, GoOnOK
<1> QED
  BY <1>1, <1>4, <1>5, <1>6, AstKept, IrStep

LEMMA EmitSizedOK ==
  ASSUME Inv, phase = "translate", todo # << >>, Head(todo).k # "stmt",
         NEW inst, exprType[Node].t \in IntTypes => inst \in Insts, EmitSized(inst)
  PROVE  Inv'
<1>1. CASE \E how \in Abnormal : Fails(how)
  BY <1>1, FailsOK
<1>2. CASE exprType[Node].t \in IntTypes /\ EmitResult(inst)
  BY <1>2, EmitResultOK
<1> QED
  BY <1>1, <1>2 DEF EmitSized

(* The registers the operands or arguments of the current node ended in.   *)
LEMMA ArgRegsOK ==
  ASSUME Inv, todo # << >>, Head(todo).k # "stmt"
  PROVE  ArgRegs \in Seq(Nat)
<1> DEFINE args == Expr(Node).args
<1>1. /\ args \in Seq(Nat) /\ Len(args) \in Nat
      /\ \A i \in 1 .. Len(args) : args[i] \in Nodes
  BY AtTask
<1>2. DOMAIN args = 1 .. Len(args)
  BY <1>1, LenProperties
<1>3. \A i \in 1 .. Len(args) : result[args[i]] \in Nat
  BY <1>1, InvParts DEF IrOK, Nodes
<1>4. ArgRegs = [i \in 1 .. Len(args) |-> result[args[i]]]
  BY <1>2 DEF ArgRegs
<1>5. ArgRegs \in [1 .. Len(args) -> Nat]
  BY <1>3, <1>4
<1> QED
  BY <1>1, <1>5, FcnIsSeq

LEMMA NewInstOK ==
  ASSUME Inv, phase = "translate", todo # << >>, exprType[Node].t \in IntTypes,
         NEW t \in {"add", "sub", "imul", "umul", "idiv", "udiv", "imm", "callfn"},
         NEW args \in Seq(Nat)
  PROVE  /\ NewInst(t, args) \in Insts
         /\ \A fn \in FnPointers : [NewInst(t, args) EXCEPT !.fn = fn] \in Insts
         /\ \A imm \in Nat : [NewInst(t, args) EXCEPT !.imm = imm] \in Insts
<1>1. ssa_new_reg \in Nat
  BY AtTask, CurrentFn
<1>2. type_sz(exprType[Node]) \in Sizes
  BY SizeOK
<1>3. << >> \in FnPointers
  BY DEF FnPointers
<1>4. NewInst(t, args) \in Insts
  BY <1>1, <1>2, <1>3 DEF NewInst, Inst, Insts
<1> QED
  BY <1>4 DEF Insts

LEMMA TranslateIntOK == ASSUME Inv, TranslateInt PROVE Inv'
<1> DEFINE inst == [NewInst("imm", << >>) EXCEPT !.imm = Expr(Node).val]
<1>1. /\ phase = "translate" /\ todo # << >> /\ Head(todo).k = "enter" /\ EmitSized(inst)
  BY DEF TranslateInt, At, In
<1>2. Expr(Node).val \in Nat
  BY <1>1, AtTask DEF Exprs
<1>3. ASSUME exprType[Node].t \in IntTypes PROVE inst \in Insts
  BY <1>1, <1>2, <1>3, EmptySeq, NewInstOK
<1> HIDE DEF inst
<1> QED
  BY <1>1, <1>3, EmitSizedOK

LEMMA TranslateVarOK == ASSUME Inv, TranslateVar PROVE Inv'
<1> USE InvParts
<1> DEFINE entry == exprVar[Node]
<1>1. phase = "translate" /\ todo # << >> /\ Head(todo).k = "enter"
  BY DEF TranslateVar, At, In
<1>2. f \in Fns /\ Node \in Nodes
  BY <1>1, AtTask
<1>3. CASE \E how \in Abnormal : reg_fails(entry, how) /\ Fails(how)
  BY <1>3, FailsOK
<1>4. CASE \A how \in Abnormal : ~reg_fails(entry, how)
  <2>1. /\ set_id(entry) /\ Emit(new_regs(entry), << >>)
        /\ result' = [result EXCEPT ![Node] = sym_table_reg(entry)]
        /\ Continue(<< >>) /\ UNCHANGED <<phase, outcome, f, p, s>>
        /\ UNCHANGED <<prog, scopes, annotations, fnsAlloc>>
    BY <1>4 DEF TranslateVar, Continue
  <2>2. entry \in 0 .. Len(entries)
    BY <1>2 DEF AnnotationsOK, Nodes
  <2> HIDE DEF entry
  <2>3. new_regs(entry) \in Seq(Sizes) /\ sym_table_reg(entry) \in Nat
    BY <1>1, <1>2, <1>4, <2>2, RegOK
  <2>4. TableOK' /\ AnnotationsOK'
    BY <1>1, <1>2, <1>4, <2>1, <2>2, SetIdOK
  <2>5. ssaFns' \in Seq(SSA_Fns) /\ Len(ssaFns') = Len(ssaFns)
    BY <1>1, <1>2, <2>1, <2>3, EmitOK, EmptySeq
  <2>6. result' \in [Nodes -> Nat]
    BY <1>2, <2>1, <2>3 DEF IrOK, Nodes
  <2>7. ControlOK' /\ WalkOK'
    BY <1>1, <2>1, GoOnOK
  <2> QED BY <1>1, <2>1, <2>4, <2>5, <2>6, <2>7, IrStep DEF annotations
<1> QED
  BY <1>3, <1>4 DEF TranslateVar

LEMMA TranslateArgsOK == ASSUME Inv, NEW t, TranslateArgs(t) PROVE Inv'
<1>1. /\ phase = "translate" /\ todo # << >> /\ Head(todo).k = "enter"
      /\ Continue(EnterAll(Expr(Node).args) \o <<Leave(Node)>>)
      /\ UNCHANGED <<prog, scopes, entries, annotations, irVars>>
  BY DEF TranslateArgs, At, In
<1> QED
  BY <1>1, ArgsThenLeave

LEMMA TranslateBinopOK == ASSUME Inv, TranslateBinop PROVE Inv'
<1> DEFINE t == translate_binop(exprType[Node], Expr(Node).op)
           inst == NewInst(t, ArgRegs)
           fails == exprType[Node].t \in IntTypes /\ Expr(Node).op \in Comparisons
<1>1. /\ phase = "translate" /\ todo # << >> /\ Head(todo).k = "leave"
      /\ (Node # 0 => Expr(Node).t = "binop")
      /\ fails => Fails("internal_err")
      /\ ~fails => EmitSized(inst)
  BY DEF TranslateBinop, At, In, Node
<1>2. CASE fails
  BY <1>1, <1>2, FailsOK DEF Abnormal
<1>3. CASE ~fails
  <2>1. ASSUME exprType[Node].t \in IntTypes PROVE inst \in Insts
    <3>1. Expr(Node).op \in {"+", "-", "*", "/"}
      <4>1. Expr(Node).t = "binop" /\ ParsedExpr(Expr(Node), Node) /\ Expr(Node) \in Exprs
        BY <1>1, AtTask
      <4>2. Expr(Node).op \in BinopKinds
        <5> HIDE DEF t, inst, fails
        <5> QED BY <4>1, Zenon DEF ParsedExpr
      <4> QED BY <1>3, <2>1, <4>2 DEF BinopKinds
    <3>2. t \in {"add", "sub", "imul", "umul", "idiv", "udiv"}
      BY <3>1 DEF translate_binop
    <3> HIDE DEF t
    <3> QED BY <1>1, <2>1, <3>2, ArgRegsOK, NewInstOK
  <2> HIDE DEF inst, fails
  <2> QED BY <1>1, <1>3, <2>1, EmitSizedOK
<1> QED
  BY <1>2, <1>3

LEMMA TranslateCallOK == ASSUME Inv, TranslateCall PROVE Inv'
<1> DEFINE fn == entries[exprVar[Node]].fn
           inst == [NewInst("callfn", ArgRegs) EXCEPT !.fn = fn]
           fails == exprType[Node].t \in IntTypes /\ (exprVar[Node] = NULL \/ fn = << >>)
<1>1. /\ phase = "translate" /\ todo # << >> /\ Head(todo).k = "leave"
      /\ fails => \E how \in Abnormal : Fails(how)
      /\ ~fails => EmitSized(inst)
  BY DEF TranslateCall, At, In, Abnormal
<1>2. CASE fails
  BY <1>1, <1>2, FailsOK
<1>3. CASE ~fails
  <2>1. ASSUME exprType[Node].t \in IntTypes PROVE inst \in Insts
    <3>1. exprVar[Node] # NULL /\ exprVar[Node] \in 0 .. Len(entries) /\ Len(entries) \in Nat
      BY <1>1, <1>3, <2>1, AtTask, InvParts DEF AnnotationsOK, Nodes, TableOK
    <3>2. exprVar[Node] \in 1 .. Len(entries)
      BY <3>1 DEF NULL
    <3>3. fn \in FnPointers
      BY <3>2, InvParts, EntryParts
    <3> HIDE DEF fn
    <3> QED BY <1>1, <2>1, <3>3, ArgRegsOK, NewInstOK
  <2> HIDE DEF inst, fails
  <2> QED BY <1>1, <1>3, <2>1, EmitSizedOK
<1> QED
  BY <1>2, <1>3
(* A step that ends a statement.                                           *)
LEMMA EndStep ==
  ASSUME Inv, phase = "translate", todo # << >>, NextStmt, todo' = << >>,
         NEW regs \in Seq(Sizes), NEW inst \in Insts, Emit(regs, <<inst>>),
         UNCHANGED <<prog, annotations, fnsAlloc, result>>, TableOK', AnnotationsOK'
  PROVE  Inv'
<1>1. f \in Fns
  BY AtTask
<1>2. <<inst>> \in Seq(Insts)
  BY OneElement
<1>3. ssaFns' \in Seq(SSA_Fns) /\ Len(ssaFns') = Len(ssaFns)
  BY <1>1, <1>2, EmitOK
<1>4. ControlOK' /\ WalkOK' /\ phase' = phase
  BY NextStmtOK DEF NextStmt
<1>5. result' \in [Nodes -> Nat]
  BY InvParts DEF IrOK, Nodes
<1> QED
  BY <1>3, <1>4, <1>5, IrStep DEF annotations

LEMMA InstOK ==
  ASSUME NEW t \in {"copy", "ret"}, NEW sz \in Sizes, NEW res \in Nat, NEW op \in Nat
  PROVE  Inst(t, sz, res, <<op>>) \in Insts
<1>1. << >> \in FnPointers /\ <<op>> \in Seq(Nat)
  BY OneElement DEF FnPointers
<1> QED
  BY <1>1 DEF Inst, Insts

LEMMA EndLetOK == ASSUME Inv, EndLet PROVE Inv'
<1> USE InvParts
<1> DEFINE entry == stmtVar[f][s]
           type == exprType[Stmt.value]
           inst == Inst("copy", type_sz(type), sym_table_reg(entry), <<result[Stmt.value]>>)
           fails(how) == size_fails(type, how) \/ reg_fails(entry, how)
<1>1. phase = "translate" /\ todo # << >> /\ Stmt.t = "let"
  BY DEF EndLet, At, In
<1>2. f \in Fns /\ s \in 1 .. Len(prog.fns[f].stmts) /\ Stmt.value \in Nodes
  BY <1>1, CurrentStmt
<1>3. CASE \E how \in Abnormal : Fails(how)
  BY <1>3, FailsOK
<1>4. CASE \A how \in Abnormal : ~fails(how)
  <2>1. /\ set_id(entry) /\ Emit(new_regs(entry), <<inst>>)
        /\ NextStmt /\ todo' = << >>
        /\ UNCHANGED <<prog, scopes, annotations, fnsAlloc, result>>
    BY <1>4 DEF EndLet
  <2>2. entry \in 0 .. Len(entries)
    BY <1>2 DEF AnnotationsOK, Fns
  <2>3. /\ \A how \in Abnormal : ~size_fails(type, how)
        /\ \A how \in Abnormal : ~reg_fails(entry, how)
    BY <1>4
  <2>4. type_sz(type) \in Sizes /\ result[Stmt.value] \in Nat
    BY <1>2, <2>3, SizeOK DEF IrOK, Nodes
  <2> HIDE DEF entry, type
  <2>5. new_regs(entry) \in Seq(Sizes) /\ sym_table_reg(entry) \in Nat
    BY <1>1, <1>2, <2>2, <2>3, RegOK
  <2>6. TableOK' /\ AnnotationsOK'
    BY <1>1, <1>2, <2>1, <2>2, <2>3, SetIdOK
  <2>7. inst \in Insts
    BY <2>4, <2>5, InstOK
  <2> HIDE DEF inst
  <2> QED BY <1>1, <2>1, <2>5, <2>6, <2>7, EndStep
<1> QED
  BY <1>3, <1>4 DEF EndLet

LEMMA EndExprOK == ASSUME Inv, EndExpr PROVE Inv'
<1> DEFINE type == exprType[Stmt.value]
           inst == Inst("copy", type_sz(type), 0, <<result[Stmt.value]>>)
<1>1. phase = "translate" /\ todo # << >> /\ Stmt.t = "expr"
  BY DEF EndExpr, At, In
<1>2. Stmt.value \in Nodes
  BY <1>1, CurrentStmt
<1>3. CASE \E how \in Abnormal : Fails(how)
  BY <1>3, FailsOK
<1>4. CASE /\ type.t \in IntTypes /\ Emit(<< >>, <<inst>>) /\ NextStmt /\ todo' = << >>
           /\ UNCHANGED <<prog, scopes, entries, annotations, fnsAlloc, result>>
  <2>1. type_sz(type) \in Sizes /\ result[Stmt.value] \in Nat
    BY <1>2, <1>4, InvParts, SizeOK DEF IrOK, Nodes
  <2>2. inst \in Insts
    BY <2>1, InstOK
  <2> HIDE DEF inst
  <2>3. << >> \in Seq(Sizes)
    BY EmptySeq
  <2> QED BY <1>1, <1>4, <2>2, <2>3, AstKept, EndStep
<1> QED
  BY <1>3, <1>4 DEF EndExpr

LEMMA EndReturnOK == ASSUME Inv, EndReturn PROVE Inv'
<1> DEFINE op == IF Stmt.value = NULL THEN 0 ELSE result[Stmt.value]
           inst == Inst("ret", 0, 0, <<op>>)
<1>1. /\ phase = "translate" /\ todo # << >>
      /\ Emit(<< >>, <<inst>>) /\ NextStmt /\ todo' = << >>
      /\ UNCHANGED <<prog, scopes, entries, annotations, fnsAlloc, result>>
  BY DEF EndReturn, At, In
<1>2. op \in Nat
  BY <1>1, CurrentStmt, InvParts DEF IrOK, Nodes
<1>3. inst \in Insts
  BY <1>2, InstOK DEF Sizes
<1> HIDE DEF inst
<1>4. << >> \in Seq(Sizes)
  BY EmptySeq
<1> QED
  BY <1>1, <1>3, <1>4, AstKept, EndStep

LEMMA IrNextOK == ASSUME Inv, Ir_Next PROVE Inv'
  BY AllocFnOK, IrEnterFnOK, TranslateParamOK, TranslateStmtOK, IrLeaveFnOK, TranslateIntOK,
     TranslateVarOK, TranslateArgsOK, TranslateBinopOK, TranslateCallOK,
     EndLetOK, EndExprOK, EndReturnOK DEF Ir_Next

-----------------------------------------------------------------------------
(* The invariant.                                                          *)

LEMMA InitOK == ASSUME Init PROVE Inv
<1>1. /\ prog \in Programs /\ phase = "declare" /\ outcome = "running"
      /\ f = 1 /\ p = 0 /\ s = 1 /\ todo = << >>
      /\ InitNames /\ InitTypes /\ InitIr
  BY DEF Init
<1>2. Len(prog.fns) \in Nat /\ Len(prog.exprs) \in Nat
  BY <1>1, ProgramShape
<1>3. ControlOK
  BY <1>1, <1>2, EmptySeq DEF ControlOK, Phases, NextPhase
<1>4. TableOK
  <2>1. scopes = <<Scope(<< >>)>> /\ entries = << >>
    BY <1>1 DEF InitNames
  <2>2. Scope(<< >>) \in [up : Seq(1 .. 1), buckets : [0 .. INIT_BUCKETS - 1 -> Seq(1 .. 0)]]
    BY EmptySeq DEF Scope
  <2>3. /\ scopes \in Seq([up : Seq(1 .. 1), buckets : [0 .. INIT_BUCKETS - 1 -> Seq(1 .. 0)]])
        /\ Len(scopes) = 1
    BY <2>1, <2>2, OneElement
  <2>4. Len(entries) = 0 /\ scopes # << >>
    BY <2>1, <2>3, EmptySeq
  <2> QED BY <2>1, <2>3, <2>4, EmptySeq DEF TableOK
<1>5. AnnotationsOK
  <2>1. Len(entries) = 0 /\ 0 \in 0 .. 0
    BY <1>1, EmptySeq DEF InitNames
  <2>2. \A g \in Fns : \A i \in 1 .. Len(prog.fns[g].stmts) : prog.fns[g].stmts[i].type \in Types
    <3>1. ASSUME NEW g \in Fns, NEW i \in 1 .. Len(prog.fns[g].stmts)
          PROVE  prog.fns[g].stmts[i].type \in Types
      <4>1. prog.fns[g].stmts[i] \in Stmts(Nodes)
        BY <1>1, ProgramShape, ElementOfSeq
      <4> QED BY <4>1, TypeKinds DEF Stmts
    <3> QED BY <3>1
  <2>3. fnEntry \in Seq(1 .. Len(entries)) /\ paramEntry \in [Fns -> Seq(0 .. Len(entries))]
    BY <1>1, EmptySeq DEF InitNames, Fns
  <2>4. /\ DOMAIN stmtVar = Fns
        /\ \A g \in Fns : stmtVar[g] \in [1 .. Len(prog.fns[g].stmts) -> 0 .. Len(entries)]
    BY <1>1, <2>1 DEF InitNames, Fns, NULL
  <2>5. /\ DOMAIN stmtType = Fns
        /\ \A g \in Fns : stmtType[g] \in [1 .. Len(prog.fns[g].stmts) -> Types]
    BY <1>1, <2>2 DEF InitTypes, Fns
  <2>6. exprVar \in [Nodes -> 0 .. Len(entries)] /\ exprType \in [Nodes -> Types]
    BY <1>1, <2>1, TypeKinds DEF InitNames, InitTypes, Nodes, NULL
  <2> QED BY <2>3, <2>4, <2>5, <2>6 DEF AnnotationsOK, Fns, Nodes
<1>6. IrOK
  BY <1>1, EmptySeq, VectorAssumption DEF InitIr, IrOK
<1>7. WalkOK
  BY <1>1 DEF WalkOK
<1>8. LoopsOK
  <2>1. \A g \in Fns : Len(paramEntry[g]) = 0
    BY <1>1, EmptySeq DEF InitNames, Fns
  <2>2. Len(ssaFns) = 0
    BY <1>1, EmptySeq DEF InitIr
  <2> QED BY <1>1, <2>1, <2>2 DEF LoopsOK, Fns
<1> QED
  BY <1>1, <1>3, <1>4, <1>5, <1>6, <1>7, <1>8 DEF Inv, IInv, TypeOK

LEMMA StutterOK == ASSUME Inv, UNCHANGED vars PROVE Inv'
<1>1. /\ UNCHANGED <<prog, scopes, entries, annotations, irVars>>
      /\ UNCHANGED <<prog, phase, outcome, f, p, s, todo, scopes, entries>>
      /\ UNCHANGED <<fnEntry, paramEntry, stmtVar, stmtType, exprVar, exprType>>
      /\ UNCHANGED <<ssaFns, fnsAlloc, result>>
  BY DEF vars, annotations, irVars
<1>2. ControlOK'
  BY <1>1, InvParts DEF ControlOK
<1>3. WalkOK'
  BY <1>1, InvParts DEF WalkOK, Fn, Stmt, Expr
<1>4. LoopsOK'
  BY <1>1, LoopsKept
<1> QED
  BY <1>1, <1>2, <1>3, <1>4, OnlyControl

LEMMA NextOK == ASSUME Inv, [Next]_vars PROVE Inv'
<1>1. CASE Semantics
  BY <1>1, NamesNextOK, TypesNextOK, CheckReturnsOK, EndPhaseOK DEF Semantics
<1>2. CASE Ir_Next
  BY <1>2, IrNextOK
<1>3. CASE UNCHANGED vars
  BY <1>3, StutterOK
<1> QED
  BY <1>1, <1>2, <1>3 DEF Next

(* Whatever program the parser built, every pointer the passes leave in    *)
(* the AST and the symbol table is NULL or leads to an entry that was      *)
(* made, every list keeps the length of the loop that fills it, and the    *)
(* calls a pass is in the middle of are calls on the current statement.    *)
THEOREM StaysInvariant == Spec => []IInv
<1>1. Spec => []Inv
  <2>1. Init => Inv
    BY InitOK
  <2>2. Inv /\ [Next]_vars => Inv'
    BY NextOK
  <2> QED BY <2>1, <2>2, PTL DEF Spec
<1>2. Inv => IInv
  BY DEF Inv
<1> QED
  BY <1>1, <1>2, PTL

(* In particular the data structures of the AST, the symbol table and the  *)
(* IR are what ast.h, symtable.h and ssa.h say they are, in every state.   *)
THEOREM StaysTyped == Spec => []TypeOK
<1>1. IInv => TypeOK
  BY DEF IInv
<1> QED
  BY <1>1, StaysInvariant, PTL

-----------------------------------------------------------------------------
(* A call can be followed to the function it names, as long as the vector  *)
(* of functions is never resized.                                          *)
Fits == Len(prog.fns) <= VEC_INIT_ALLOC

(* A pointer to an item that prog->fns still has where it was.             *)
LivePtr(ptr) == ptr[1] = VEC_INIT_ALLOC /\ ptr[2] \in 1 .. Len(ssaFns)

PtrsOK == \A e \in 1 .. Len(entries) : entries[e].fn = << >> \/ LivePtr(entries[e].fn)

CallOK(inst) == inst.t = "callfn" => LivePtr(inst.fn)
CallsOK ==
  \A g \in 1 .. Len(ssaFns) : \A i \in 1 .. Len(ssaFns[g].insts) : CallOK(ssaFns[g].insts[i])

NamesOK ==
  /\ outcome = "ok" => phase = "done"
  /\ phase = "translate" => \A g \in Fns : g < f => ssaFns[g].name = prog.fns[g].name
  /\ phase = "done" => \A g \in Fns : ssaFns[g].name = prog.fns[g].name

(* With Fits, what makes CalleeLive inductive: the vector is in its first  *)
(* buffer, so that no pointer into it, in an entry or in a call, is stale. *)
Live == fnsAlloc = VEC_INIT_ALLOC /\ PtrsOK /\ CallsOK /\ NamesOK

-----------------------------------------------------------------------------
(* The passes before translation make no pointers to functions.            *)
FnKept ==
  /\ Len(entries) \in Nat /\ Len(entries') \in Nat
  /\ \A e \in 1 .. Len(entries') :
       \/ entries'[e].fn = << >>
       \/ e \in 1 .. Len(entries) /\ entries'[e].fn = entries[e].fn

Quiet == prog' = prog /\ phase' = phase /\ outcome' # "ok" /\ FnKept

LEMMA SameKept == ASSUME Inv, entries' = entries PROVE FnKept
  BY InvParts DEF FnKept, TableOK

LEMMA InsertKept ==
  ASSUME Inv, NEW sc, NEW pos, NEW type, scope_insert(sc, pos, type)
  PROVE  FnKept
<1>1. CASE entries' = entries
  BY <1>1, SameKept
<1>2. CASE entries' = Append(entries, ScopeEntry(pos, type))
  <2>1. entries \in Seq(Entry) /\ Len(entries) \in Nat
    BY InvParts DEF TableOK, Entry
  <2>2. /\ Len(entries') = Len(entries) + 1
        /\ \A e \in 1 .. Len(entries') :
             entries'[e] = IF e <= Len(entries) THEN entries[e] ELSE ScopeEntry(pos, type)
    BY <1>2, <2>1
  <2> QED BY <2>1, <2>2 DEF FnKept, ScopeEntry
<1> QED
  BY <1>1, <1>2 DEF scope_insert

(* A write to an entry that leaves its pointer to a function alone.        *)
LEMMA WriteKept ==
  ASSUME Inv, NEW e, NEW r, entries' = [entries EXCEPT ![e] = r],
         e \in 1 .. Len(entries) => r.fn = entries[e].fn
  PROVE  FnKept
<1>1. entries \in Seq(Entry) /\ Len(entries) \in Nat /\ DOMAIN entries = 1 .. Len(entries)
  BY InvParts, LenProperties DEF TableOK, Entry
<1>2. CASE e \in 1 .. Len(entries)
  <2>1. r \in {r} /\ entries \in Seq(Entry \cup {r})
    BY <1>1, SeqMonotonic
  <2>2. Len(entries') = Len(entries)
    BY <1>2, <2>1, ExceptSeq
  <2> QED BY <1>1, <1>2, <2>2 DEF FnKept
<1>3. CASE e \notin 1 .. Len(entries)
  <2>1. entries' = entries
    BY <1>1, <1>3
  <2> QED BY <2>1, SameKept
<1> QED
  BY <1>2, <1>3

LEMMA StopQuiet ==
  ASSUME Inv, NEW how, Stop(how), how # "ok"
  PROVE  Quiet
  BY SameKept DEF Stop, Quiet

LEMMA QuietNames ==
  ASSUME Inv, Names_Next
  PROVE  Quiet /\ phase \in {"declare", "names"}
<1>1. ASSUME NEW how \in Diagnostics, Stop(how) PROVE Quiet
  BY <1>1, StopQuiet DEF Diagnostics
<1>2. CASE DeclareFn
  <2>1. CASE Redeclared(global, Fn.name)
    BY <1>1, <1>2, <2>1 DEF DeclareFn, InFn, In, Diagnostics
  <2>2. CASE ~Redeclared(global, Fn.name)
    <3>1. scope_insert(global, Fn.name, NoType) /\ NextFn /\ prog' = prog
      BY <1>2, <2>2 DEF DeclareFn
    <3>2. FnKept
      BY <3>1, InsertKept
    <3> QED BY <1>2, <3>1, <3>2 DEF DeclareFn, InFn, In, Quiet, NextFn
  <2>3. phase = "declare"
    BY <1>2 DEF DeclareFn, InFn, In
  <2> QED BY <2>1, <2>2, <2>3
<1>3. CASE Names_EnterFn
  BY <1>3, SameKept DEF Names_EnterFn, InFn, In, Quiet, scope_init
<1>4. CASE InsertParam
  <2>1. scope_insert(scope, Fn.params[p].name, Fn.params[p].type)
    BY <1>4 DEF InsertParam
  <2>2. FnKept
    BY <2>1, InsertKept
  <2> QED BY <1>4, <2>2 DEF InsertParam, AtParam, InFn, In, Quiet
<1>5. CASE ResolveLet
  <2>1. outcome = "running" /\ phase = "names"
    BY <1>5 DEF ResolveLet, AtStmt, BetweenStmts, InFn, In
  <2>2. CASE Stop("name_redeclaration")
    BY <1>1, <2>1, <2>2 DEF Diagnostics
  <2>3. CASE scope_insert(scope, Stmt.name, Stmt.type) /\ ResolveValue /\ prog' = prog
    BY <2>1, <2>3, InsertKept DEF ResolveValue, NextStmt, Quiet
  <2> QED BY <1>5, <2>1, <2>2, <2>3 DEF ResolveLet
<1>6. CASE ResolveStmt
  BY <1>6, SameKept DEF ResolveStmt, AtStmt, BetweenStmts, InFn, In, ResolveValue, NextStmt, Quiet
<1>7. ASSUME NEW t \in {"var", "funcall"}, ResolveName(t) PROVE Quiet /\ phase = "names"
  <2>1. outcome = "running" /\ phase = "names"
    BY <1>7 DEF ResolveName, At, In
  <2>2. CASE Stop("name_not_in_scope")
    BY <1>1, <2>1, <2>2 DEF Diagnostics
  <2>3. CASE Continue(EnterAll(Expr(Node).args)) /\ UNCHANGED <<prog, scopes, entries>>
    BY <2>1, <2>3, SameKept DEF Continue, Quiet
  <2> QED BY <1>7, <2>1, <2>2, <2>3 DEF ResolveName
<1>8. ASSUME NEW t \in {"int", "binop"}, ResolveOperands(t) PROVE Quiet /\ phase = "names"
  BY <1>8, SameKept DEF ResolveOperands, At, In, Continue, Quiet
<1>9. CASE Names_LeaveFn
  BY <1>9, SameKept DEF Names_LeaveFn, LeaveFn, BetweenStmts, InFn, In, NextFn, Quiet
<1> QED
  BY <1>2, <1>3, <1>4, <1>5, <1>6, <1>7, <1>8, <1>9 DEF Names_Next
LEMMA QuietTypes ==
  ASSUME Inv, Types_Next
  PROVE  Quiet /\ phase \in {"signatures", "types"}
<1>1. ASSUME NEW how \in Diagnostics \cup Abnormal, Stop(how) PROVE Quiet
  BY <1>1, StopQuiet DEF Diagnostics, Abnormal
<1>2. ASSUME NEW type, SetType(type), outcome = "running", Continue(<< >>) PROVE Quiet
  BY <1>2, SameKept DEF SetType, Continue, Quiet
<1>3. CASE BuildFnType
  <2> DEFINE type == FnType(Fn.ret, [i \in 1 .. Len(Fn.params) |-> Fn.params[i].type])
             e == fnEntry[f]
             r == [entries[e] EXCEPT !.type = type]
  <2>1. entries' = [entries EXCEPT ![e] = r] /\ prog' = prog /\ NextFn
    BY <1>3 DEF BuildFnType
  <2> HIDE DEF type, e
  <2>2. e \in 1 .. Len(entries) => r.fn = entries[e].fn
    BY InvParts, EntryParts DEF Entry
  <2> HIDE DEF r
  <2>3. FnKept
    BY <2>1, <2>2, WriteKept
  <2> QED BY <1>3, <2>1, <2>3 DEF BuildFnType, InFn, In, NextFn, Quiet
<1>4. CASE Types_EnterFn
  BY <1>4, SameKept DEF Types_EnterFn, InFn, In, Quiet
<1>5. CASE Types_Stmt
  BY <1>5, SameKept DEF Types_Stmt, AtStmt, BetweenStmts, InFn, In, Walk, SkipStmt, NextStmt, Quiet
<1>6. CASE TypeInt
  <2>1. SetType(Expr(Node).type) /\ Continue(<< >>) /\ outcome = "running" /\ phase = "types"
    BY <1>6 DEF TypeInt, At, In
  <2> QED BY <2>1, <1>2
<1>7. CASE EnterBinop
  BY <1>7, SameKept DEF EnterBinop, At, In, Continue, Quiet
<1>8. CASE TypeBinop
  <2>1. /\ outcome = "running" /\ phase = "types"
        /\ \/ Stop("segv") \/ Stop("incorrect_type_binop")
           \/ \E type : SetType(type) /\ Continue(<< >>)
    BY <1>8 DEF TypeBinop, At, In
  <2> QED BY <2>1, <1>1, <1>2 DEF Diagnostics, Abnormal
<1>9. CASE TypeName
  <2>1. outcome = "running" /\ phase = "types"
    BY <1>9 DEF TypeName, At, In
  <2>2. CASE \E how \in {"segv", "incorrect_type_funcall", "wrong_param_count"} : Stop(how)
    BY <2>1, <2>2, <1>1 DEF Diagnostics, Abnormal
  <2>3. CASE SetType(entries[exprVar[Node]].type) /\ Continue(<< >>)
    BY <2>1, <2>3, <1>2
  <2>4. CASE UNCHANGED <<prog, phase, outcome, entries>>
    BY <2>1, <2>4, SameKept DEF Quiet
  <2> QED BY <1>9, <2>1, <2>2, <2>3, <2>4 DEF TypeName, Continue
<1>10. CASE CheckArg
  <2>1. outcome = "running" /\ phase = "types"
    BY <1>10 DEF CheckArg, At, In
  <2>2. CASE Stop("segv") \/ Stop("incorrect_type_param")
    BY <2>1, <2>2, <1>1 DEF Diagnostics, Abnormal
  <2>3. CASE UNCHANGED <<prog, phase, outcome, entries>>
    BY <2>1, <2>3, SameKept DEF Quiet
  <2> QED BY <1>10, <2>1, <2>2, <2>3 DEF CheckArg, Continue
<1>11. CASE TypeCall
  <2>1. /\ outcome = "running" /\ phase = "types"
        /\ SetType(entries[exprVar[Node]].type.ret) /\ Continue(<< >>)
    BY <1>11 DEF TypeCall, At, In
  <2> QED BY <2>1, <1>2
<1>12. CASE Types_EndStmt
  <2>1. outcome = "running" /\ phase = "types"
    BY <1>12 DEF Types_EndStmt, At, In
  <2>2. CASE Infer
    <3> DEFINE type == exprType[Stmt.value]
               e == stmtVar[f][s]
               r == [entries[e] EXCEPT !.type = type]
    <3>1. entries' = [entries EXCEPT ![e] = r] /\ prog' = prog /\ NextStmt
      BY <2>2 DEF Infer
    <3> HIDE DEF type, e
    <3>2. e \in 1 .. Len(entries) => r.fn = entries[e].fn
      BY InvParts, EntryParts DEF Entry
    <3> HIDE DEF r
    <3>3. FnKept
      BY <3>1, <3>2, WriteKept
    <3> QED BY <2>1, <3>1, <3>3 DEF NextStmt, Quiet
  <2>3. CASE Stop("segv") \/ Stop("incorrect_type_assign")
    BY <2>1, <2>3, <1>1 DEF Diagnostics, Abnormal
  <2>4. CASE UNCHANGED <<prog, phase, outcome, entries>>
    BY <2>1, <2>4, SameKept DEF Quiet
  <2> QED BY <1>12, <2>1, <2>2, <2>3, <2>4 DEF Types_EndStmt, NextStmt
<1>13. CASE Types_LeaveFn
  BY <1>13, SameKept DEF Types_LeaveFn, LeaveFn, BetweenStmts, InFn, In, NextFn, Quiet
<1> QED
  BY <1>3, <1>4, <1>5, <1>6, <1>7, <1>8, <1>9, <1>10, <1>11, <1>12, <1>13
  DEF Types_Next, BuildFnType, Types_EnterFn, Types_Stmt, EnterBinop, Types_LeaveFn,
      TypeInt, TypeBinop, TypeName, CheckArg, TypeCall, Types_EndStmt,
      LeaveFn, AtStmt, BetweenStmts, At, InFn, In

LEMMA QuietReturns ==
  ASSUME Inv, CheckReturns
  PROVE  Quiet /\ phase = "returns"
<1>1. outcome = "running" /\ phase = "returns"
  BY DEF CheckReturns, InFn, In
<1>2. CASE NextFn /\ UNCHANGED <<prog, scopes, entries, annotations>>
  BY <1>1, <1>2, SameKept DEF NextFn, Quiet
<1>3. CASE check_fn # "right" /\ \E how \in Returns_End[check_fn] : Stop(how)
  <2>1. check_fn \in {"right", "never", "unset", "null", "wrong"}
    BY DEF check_fn
  <2>2. \A how \in Returns_End[check_fn] : how # "ok"
    BY <1>3, <2>1 DEF Returns_End
  <2> QED BY <1>1, <1>3, <2>2, StopQuiet
<1> QED
  BY <1>1, <1>2, <1>3 DEF CheckReturns

(* Live is kept by steps before translation.                               *)
LEMMA QuietLive ==
  ASSUME Inv, Live, Quiet, UNCHANGED irVars, phase \notin {"translate", "done"}
  PROVE  Live'
<1>1. UNCHANGED <<ssaFns, fnsAlloc>> /\ prog' = prog /\ phase' = phase /\ outcome' # "ok" /\ FnKept
  BY DEF Quiet, irVars
<1>2. PtrsOK'
  BY <1>1 DEF Live, PtrsOK, LivePtr, FnKept
<1>3. CallsOK'
  BY <1>1 DEF Live, CallsOK, CallOK, LivePtr
<1>4. NamesOK'
  BY <1>1 DEF NamesOK
<1> QED
  BY <1>1, <1>2, <1>3, <1>4 DEF Live

LEMMA EndPhaseLive ==
  ASSUME Inv, Live, EndPhase, UNCHANGED irVars
  PROVE  Live' /\ prog' = prog
<1>1. /\ UNCHANGED <<ssaFns, fnsAlloc, prog, entries>>
      /\ outcome = "running" /\ phase # "done" /\ f > Len(prog.fns)
      /\ phase' = NextPhase[phase] /\ f' = 1
      /\ outcome' = IF phase = "translate" THEN "ok" ELSE outcome
  BY DEF EndPhase, irVars
<1>2. PtrsOK'
  BY <1>1 DEF Live, PtrsOK, LivePtr
<1>3. CallsOK'
  BY <1>1 DEF Live, CallsOK, CallOK, LivePtr
<1>4. NamesOK'
  <2>1. \A g \in Fns : g < f /\ ~(g < 1)
    BY <1>1, ControlTypes DEF Fns
  <2>2. Fns' = Fns
    BY <1>1 DEF Fns
  <2>3. CASE phase = "translate"
    <3>1. phase' = "done"
      BY <1>1, <2>3 DEF NextPhase
    <3> QED BY <1>1, <2>1, <2>2, <2>3, <3>1 DEF Live, NamesOK
  <2>4. CASE phase # "translate"
    <3>1. phase' # "done"
      BY <1>1, <2>4, ControlTypes DEF NextPhase, Phases
    <3> QED BY <1>1, <2>1, <2>2, <2>4, <3>1 DEF NamesOK
  <2> QED BY <2>3, <2>4
<1> QED
  BY <1>1, <1>2, <1>3, <1>4 DEF Live
-----------------------------------------------------------------------------
(* Translation.                                                            *)

(* A step that neither makes a function nor adds to one.                   *)
LEMMA IdleLive ==
  ASSUME Inv, Live, Quiet, UNCHANGED irVars, f' = f
  PROVE  Live'
<1>1. UNCHANGED <<ssaFns, fnsAlloc>> /\ prog' = prog /\ phase' = phase /\ outcome' # "ok" /\ FnKept
  BY DEF Quiet, irVars
<1>2. PtrsOK'
  BY <1>1 DEF Live, PtrsOK, LivePtr, FnKept
<1>3. CallsOK'
  BY <1>1 DEF Live, CallsOK, CallOK, LivePtr
<1>4. NamesOK'
  BY <1>1 DEF Live, NamesOK, Fns
<1> QED
  BY <1>1, <1>2, <1>3, <1>4 DEF Live

LEMMA FailsLive ==
  ASSUME Inv, Live, NEW how \in Abnormal, Fails(how)
  PROVE  Live' /\ prog' = prog
<1>1. how # "ok"
  BY DEF Abnormal
<1>2. Quiet /\ UNCHANGED irVars /\ f' = f
  BY <1>1, StopQuiet DEF Fails, Stop
<1> QED
  BY <1>2, IdleLive DEF Quiet

(* A step that adds these instructions to the current function.            *)
LEMMA GrowLive ==
  ASSUME Inv, Live, phase = "translate", f \in Fns, Quiet, fnsAlloc' = fnsAlloc,
         NEW insts \in Seq(Insts), \A i \in 1 .. Len(insts) : CallOK(insts[i]),
         Len(ssaFns') = Len(ssaFns),
         \A g \in Fns : ssaFns'[g].insts = IF g = f THEN ssaFns[g].insts \o insts
                                           ELSE ssaFns[g].insts,
         \A g \in Fns : g < f' => ssaFns'[g].name = prog.fns[g].name
  PROVE  Live'
<1>1. prog' = prog /\ phase' = phase /\ outcome' # "ok" /\ FnKept
  BY DEF Quiet
<1>2. PtrsOK'
  BY <1>1 DEF Live, PtrsOK, LivePtr, FnKept
<1>3. CallsOK'
  <2>1. ssaFns[f].insts \in Seq(Insts) /\ Len(ssaFns) = Len(prog.fns)
    BY CurrentFn, InvParts DEF LoopsOK
  <2>2. ASSUME NEW g \in Fns, NEW i \in 1 .. Len(ssaFns'[g].insts)
        PROVE  CallOK(ssaFns'[g].insts[i])
    <3>1. CASE g # f
      BY <2>1, <2>2, <3>1 DEF Live, CallsOK, Fns
    <3>2. CASE g = f
      <4>1. ssaFns'[g].insts = ssaFns[f].insts \o insts
        BY <3>2
      <4>2. /\ Len(ssaFns'[g].insts) = Len(ssaFns[f].insts) + Len(insts)
            /\ Len(ssaFns[f].insts) \in Nat /\ Len(insts) \in Nat
            /\ ssaFns'[g].insts[i] = IF i <= Len(ssaFns[f].insts) THEN ssaFns[f].insts[i]
                                     ELSE insts[i - Len(ssaFns[f].insts)]
        BY <2>1, <2>2, <4>1, ConcatProperties, LenProperties
      <4>3. CASE i <= Len(ssaFns[f].insts)
        BY <2>1, <2>2, <4>2, <4>3 DEF Live, CallsOK, Fns
      <4>4. CASE i > Len(ssaFns[f].insts)
        <5>1. i - Len(ssaFns[f].insts) \in 1 .. Len(insts)
          BY <2>2, <4>2, <4>4
        <5> QED BY <4>2, <4>4, <5>1
      <4> QED BY <2>2, <4>2, <4>3, <4>4
    <3> QED BY <3>1, <3>2
  <2>3. Len(ssaFns') = Len(prog.fns)
    BY <2>1
  <2> QED BY <2>2, <2>3 DEF CallsOK, CallOK, LivePtr, Fns
<1>4. NamesOK'
  BY <1>1 DEF NamesOK, Fns
<1> QED
  BY <1>1, <1>2, <1>3, <1>4 DEF Live

(* A step that changes the current function, and not what it executes.     *)
LEMMA SameInsts ==
  ASSUME Inv, Live, phase = "translate", f \in Fns, Quiet, fnsAlloc' = fnsAlloc,
         NEW r \in SSA_Fns, r.insts = ssaFns[f].insts, ssaFns' = [ssaFns EXCEPT ![f] = r],
         \/ f' = f /\ r.name = ssaFns[f].name
         \/ f' = f + 1 /\ r.name = prog.fns[f].name
  PROVE  Live'
<1>1. /\ Len(ssaFns') = Len(ssaFns) /\ DOMAIN ssaFns = Fns
      /\ ssaFns[f].insts \in Seq(Insts)
  BY CurrentFn, FnWrite, InvParts, LenProperties DEF LoopsOK, Fns
<1>2. ssaFns[f].insts \o << >> = ssaFns[f].insts
  BY <1>1, ConcatEmptySeq
<1>3. << >> \in Seq(Insts) /\ \A i \in 1 .. Len(<< >>) : CallOK(<< >>[i])
  BY EmptySeq
<1>4. \A g \in Fns : ssaFns'[g] = IF g = f THEN r ELSE ssaFns[g]
  BY <1>1
<1>5. \A g \in Fns : g < f' => g < f \/ (g = f /\ f' = f + 1)
  BY DEF Fns
<1>6. \A g \in Fns : g < f' => ssaFns'[g].name = prog.fns[g].name
  BY <1>4, <1>5 DEF Live, NamesOK
<1> QED
  BY <1>1, <1>2, <1>3, <1>4, <1>6, GrowLive

LEMMA EmitLive ==
  ASSUME Inv, Live, phase = "translate", f \in Fns, Quiet, f' = f, fnsAlloc' = fnsAlloc,
         NEW regs \in Seq(Sizes),
         NEW insts \in Seq(Insts), \A i \in 1 .. Len(insts) : CallOK(insts[i]),
         Emit(regs, insts)
  PROVE  Live'
<1>1. /\ ssaFns \in Seq(SSA_Fns) /\ Len(ssaFns) = Len(prog.fns) /\ DOMAIN ssaFns = Fns
      /\ ssaFns[f] \in SSA_Fns
  BY CurrentFn, InvParts, LenProperties DEF LoopsOK, Fns
<1>2. Len(ssaFns') = Len(ssaFns)
  BY EmitOK
<1> DEFINE r == [ssaFns[f] EXCEPT !.regs = ssaFns[f].regs \o regs,
                                  !.insts = ssaFns[f].insts \o insts]
<1>3. ssaFns' = [ssaFns EXCEPT ![f] = r]
  BY <1>1 DEF Emit, SSA_Fns
<1>4. r.insts = ssaFns[f].insts \o insts /\ r.name = ssaFns[f].name
  BY <1>1 DEF SSA_Fns
<1> HIDE DEF r
<1>5. \A g \in Fns : ssaFns'[g] = IF g = f THEN r ELSE ssaFns[g]
  BY <1>1, <1>3
<1>6. \A g \in Fns : g < f' => ssaFns'[g].name = prog.fns[g].name
  BY <1>4, <1>5 DEF Live, NamesOK
<1> QED
  BY <1>2, <1>4, <1>5, <1>6, GrowLive

LEMMA SetIdKept ==
  ASSUME Inv, NEW entry, set_id(entry)
  PROVE  FnKept
<1> DEFINE r == [entries[entry] EXCEPT !.id = sym_table_reg(entry)]
<1>1. entries' = [entries EXCEPT ![entry] = r]
  BY DEF set_id
<1>2. entry \in 1 .. Len(entries) => r.fn = entries[entry].fn
  BY InvParts, EntryParts DEF Entry
<1> HIDE DEF r
<1> QED
  BY <1>1, <1>2, WriteKept

LEMMA AllocFnLive ==
  ASSUME Inv, Fits, Live, AllocFn
  PROVE  Live' /\ prog' = prog
<1> DEFINE ptr == <<fnsAlloc', Len(ssaFns) + 1>>
           e == fnEntry[f]
           r == [entries[e] EXCEPT !.fn = ptr]
<1>1. /\ phase = "alloc_fns" /\ f <= Len(prog.fns) /\ outcome = "running"
      /\ ssaFns' = Append(ssaFns, SSA_Fn)
      /\ entries' = [entries EXCEPT ![e] = r]
      /\ fnsAlloc' = IF Len(ssaFns) + 1 > fnsAlloc THEN fnsAlloc * 2 ELSE fnsAlloc
      /\ NextFn /\ UNCHANGED <<prog, scopes, annotations, result>>
  BY DEF AllocFn, InFn, In
<1>2. ssaFns \in Seq(SSA_Fns) /\ Len(ssaFns) = f - 1 /\ f \in Nat /\ Len(prog.fns) \in Nat
  BY <1>1, InvParts, ControlTypes DEF IrOK, LoopsOK
<1>3. fnsAlloc' = VEC_INIT_ALLOC /\ fnsAlloc = VEC_INIT_ALLOC
  BY <1>1, <1>2, VectorAssumption DEF Live, Fits
<1>4. /\ Len(ssaFns') = Len(ssaFns) + 1
      /\ \A g \in 1 .. Len(ssaFns') : ssaFns'[g] = IF g <= Len(ssaFns) THEN ssaFns[g] ELSE SSA_Fn
  BY <1>1, <1>2
<1>5. PtrsOK'
  <2>1. entries \in Seq(Entry) /\ Len(entries) \in Nat /\ DOMAIN entries = 1 .. Len(entries)
    BY InvParts, LenProperties DEF TableOK, Entry
  <2>2. ptr[1] = VEC_INIT_ALLOC /\ ptr[2] \in 1 .. Len(ssaFns')
    BY <1>2, <1>3, <1>4
  <2>3. ptr \in FnPointers
    BY <1>2, <1>3, VectorAssumption DEF FnPointers
  <2> HIDE DEF ptr, e
  <2>4. e \in 1 .. Len(entries) => r.fn = ptr /\ r \in Entry
    BY <2>3, InvParts, EntryParts DEF Entry
  <2> HIDE DEF r
  <2>5. /\ Len(entries') = Len(entries)
        /\ \A i \in 1 .. Len(entries) : entries'[i] = IF i = e THEN r ELSE entries[i]
    <3>1. Len(entries') = Len(entries)
      BY <1>1, <2>4, InvParts, EntryWrite
    <3> QED BY <1>1, <2>1, <3>1
  <2> QED BY <1>2, <1>4, <2>2, <2>4, <2>5 DEF Live, PtrsOK, LivePtr
<1>6. CallsOK'
  <2>1. SSA_Fn.insts = << >> /\ Len(<< >>) = 0
    BY EmptySeq DEF SSA_Fn
  <2>2. ASSUME NEW g \in 1 .. Len(ssaFns'), NEW i \in 1 .. Len(ssaFns'[g].insts)
        PROVE  ssaFns'[g].insts[i].t = "callfn" =>
                 /\ ssaFns'[g].insts[i].fn[1] = VEC_INIT_ALLOC
                 /\ ssaFns'[g].insts[i].fn[2] \in 1 .. Len(ssaFns')
    <3>1. g <= Len(ssaFns) /\ ssaFns'[g] = ssaFns[g]
      BY <1>2, <1>4, <2>1, <2>2
    <3>2. CallOK(ssaFns[g].insts[i])
      BY <1>2, <2>2, <3>1 DEF Live, CallsOK
    <3> QED BY <1>2, <1>4, <3>1, <3>2 DEF CallOK, LivePtr
  <2> QED BY <2>2 DEF CallsOK, CallOK, LivePtr
<1>7. NamesOK'
  BY <1>1 DEF NamesOK, NextFn
<1> QED
  BY <1>1, <1>3, <1>5, <1>6, <1>7 DEF Live
LEMMA TranslateLive ==
  ASSUME Inv, Live, Ir_Next, ~AllocFn
  PROVE  Live' /\ prog' = prog
<1> USE InvParts
<1>1. ASSUME NEW how \in Abnormal, Fails(how) PROVE Live' /\ prog' = prog
  BY <1>1, FailsLive
<1>2. ASSUME UNCHANGED <<prog, phase, f, entries, irVars>>, outcome' # "ok"
      PROVE  Live' /\ prog' = prog
  BY <1>2, SameKept, IdleLive DEF Quiet
<1>3. ASSUME phase = "translate", todo # << >>, NEW inst, EmitSized(inst), outcome = "running",
             exprType[Node].t \in IntTypes => inst \in Insts /\ CallOK(inst), Node \in Nodes
      PROVE  Live' /\ prog' = prog
  <2>1. CASE \E how \in Abnormal : Fails(how)
    BY <1>1, <2>1
  <2>2. CASE inst \in Insts /\ CallOK(inst) /\ EmitResult(inst)
    <3>1. /\ Emit(<<inst.sz>>, <<inst>>) /\ Continue(<< >>)
          /\ UNCHANGED <<prog, entries, fnsAlloc>>
      BY <2>2 DEF EmitResult
    <3>2. f \in Fns
      BY <1>3, AtTask
    <3>3. /\ <<inst.sz>> \in Seq(Sizes) /\ <<inst>> \in Seq(Insts)
          /\ \A i \in 1 .. Len(<<inst>>) : CallOK(<<inst>>[i])
      BY <2>2, OneElement DEF Insts
    <3>4. Quiet /\ f' = f
      BY <1>3, <3>1, SameKept DEF Continue, Quiet
    <3> QED BY <1>3, <3>1, <3>2, <3>3, <3>4, EmitLive DEF Quiet
  <2> QED BY <1>3, <2>1, <2>2 DEF EmitSized
<1>4. CASE Ir_EnterFn
  BY <1>2, <1>4 DEF Ir_EnterFn, InFn, In
<1>5. CASE TranslateStmt
  BY <1>2, <1>5 DEF TranslateStmt, AtStmt, BetweenStmts, InFn, In, Walk, SkipStmt, NextStmt
<1>6. CASE \E t \in {"binop", "funcall"} : TranslateArgs(t)
  BY <1>2, <1>6 DEF TranslateArgs, At, In, Continue
<1>7. CASE TranslateInt
  <2> DEFINE inst == [NewInst("imm", << >>) EXCEPT !.imm = Expr(Node).val]
  <2>1. /\ phase = "translate" /\ todo # << >> /\ Head(todo).k = "enter" /\ outcome = "running"
        /\ EmitSized(inst)
    BY <1>7 DEF TranslateInt, At, In
  <2>2. Expr(Node).val \in Nat /\ Node \in Nodes
    BY <2>1, AtTask DEF Exprs
  <2>3. exprType[Node].t \in IntTypes => inst \in Insts
    BY <2>1, <2>2, EmptySeq, NewInstOK
  <2>4. inst.t # "callfn"
    BY DEF NewInst, Inst
  <2> HIDE DEF inst
  <2> QED BY <1>3, <2>1, <2>2, <2>3, <2>4 DEF CallOK
<1>8. CASE TranslateBinop
  <2> DEFINE t == translate_binop(exprType[Node], Expr(Node).op)
             inst == NewInst(t, ArgRegs)
             fails == exprType[Node].t \in IntTypes /\ Expr(Node).op \in Comparisons
  <2>1. /\ phase = "translate" /\ todo # << >> /\ Head(todo).k = "leave" /\ outcome = "running"
        /\ (Node # 0 => Expr(Node).t = "binop")
        /\ fails => Fails("internal_err")
        /\ ~fails => EmitSized(inst)
    BY <1>8 DEF TranslateBinop, At, In, Node
  <2>2. Node \in Nodes /\ Expr(Node).t = "binop" /\ ParsedExpr(Expr(Node), Node) /\ Expr(Node) \in Exprs
    BY <2>1, AtTask
  <2>3. CASE fails
    BY <1>1, <2>1, <2>3 DEF Abnormal
  <2>4. CASE ~fails
    <3>1. Expr(Node).op \in BinopKinds
      <4> HIDE DEF t, inst, fails
      <4> QED BY <2>2, Zenon DEF ParsedExpr
    <3>2. Expr(Node).op \in {"+", "-", "*", "/"} \cup Comparisons
      BY <3>1 DEF BinopKinds
    <3>3. ASSUME exprType[Node].t \in IntTypes PROVE inst \in Insts /\ CallOK(inst)
      <4>1. t \in {"add", "sub", "imul", "umul", "idiv", "udiv"}
        BY <2>4, <3>1, <3>2, <3>3 DEF translate_binop
      <4> HIDE DEF t
      <4>2. inst \in Insts
        BY <2>1, <3>3, <4>1, ArgRegsOK, NewInstOK
      <4>3. inst.t = t
        BY DEF NewInst, Inst
      <4> HIDE DEF inst
      <4> QED BY <4>1, <4>2, <4>3 DEF CallOK
    <3> HIDE DEF inst, fails
    <3> QED BY <1>3, <2>1, <2>2, <2>4, <3>3
  <2> QED BY <2>3, <2>4
<1>9. CASE TranslateCall
  <2> DEFINE fn == entries[exprVar[Node]].fn
             inst == [NewInst("callfn", ArgRegs) EXCEPT !.fn = fn]
             fails == exprType[Node].t \in IntTypes /\ (exprVar[Node] = NULL \/ fn = << >>)
  <2>1. /\ phase = "translate" /\ todo # << >> /\ Head(todo).k = "leave" /\ outcome = "running"
        /\ fails => \E how \in Abnormal : Fails(how)
        /\ ~fails => EmitSized(inst)
    BY <1>9 DEF TranslateCall, At, In, Abnormal
  <2>2. Node \in Nodes
    BY <2>1, AtTask
  <2>3. CASE fails
    BY <1>1, <2>1, <2>3
  <2>4. CASE ~fails
    <3>1. ASSUME exprType[Node].t \in IntTypes PROVE inst \in Insts /\ CallOK(inst)
      <4>1. exprVar[Node] # NULL /\ exprVar[Node] \in 0 .. Len(entries) /\ Len(entries) \in Nat
        <5>1. exprVar[Node] \in 0 .. Len(entries)
          BY <2>2 DEF AnnotationsOK, Nodes
        <5>2. Len(entries) \in Nat
          BY DEF TableOK
        <5> QED BY <2>4, <3>1, <5>1, <5>2
      <4>2. exprVar[Node] \in 1 .. Len(entries) /\ fn # << >>
        BY <2>4, <3>1, <4>1 DEF NULL
      <4>3. fn \in FnPointers /\ LivePtr(fn)
        BY <4>2, EntryParts DEF Live, PtrsOK
      <4> HIDE DEF fn
      <4>4. inst \in Insts
        BY <2>1, <3>1, <4>3, ArgRegsOK, NewInstOK
      <4>5. inst.fn = fn
        BY DEF NewInst, Inst
      <4> HIDE DEF inst
      <4> QED BY <4>3, <4>4, <4>5 DEF CallOK
    <3> HIDE DEF inst, fails
    <3> QED BY <1>3, <2>1, <2>2, <2>4, <3>1
  <2> QED BY <2>3, <2>4
<1>10. ASSUME phase = "translate", f \in Fns, NEW entry \in 0 .. Len(entries),
              \A how \in Abnormal : ~reg_fails(entry, how), set_id(entry),
              NEW insts \in Seq(Insts), \A i \in 1 .. Len(insts) : CallOK(insts[i]),
              Emit(new_regs(entry), insts),
              UNCHANGED <<prog, phase, outcome, f, fnsAlloc>>, outcome = "running"
       PROVE  Live' /\ prog' = prog
  <2>1. new_regs(entry) \in Seq(Sizes)
    BY <1>10, RegOK
  <2>2. Quiet
    BY <1>10, SetIdKept DEF Quiet
  <2> QED BY <1>10, <2>1, <2>2, EmitLive
<1>11. CASE TranslateVar
  <2> DEFINE entry == exprVar[Node]
  <2>1. phase = "translate" /\ todo # << >> /\ Head(todo).k = "enter" /\ outcome = "running"
    BY <1>11 DEF TranslateVar, At, In
  <2>2. f \in Fns /\ Node \in Nodes
    BY <2>1, AtTask
  <2>3. CASE \E how \in Abnormal : Fails(how)
    BY <1>1, <2>3
  <2>4. CASE \A how \in Abnormal : ~reg_fails(entry, how)
    <3>1. /\ set_id(entry) /\ Emit(new_regs(entry), << >>)
          /\ UNCHANGED <<prog, phase, outcome, f, fnsAlloc>>
      BY <1>11, <2>4 DEF TranslateVar, Continue
    <3>2. entry \in 0 .. Len(entries)
      BY <2>2 DEF AnnotationsOK, Nodes
    <3> HIDE DEF entry
    <3>3. << >> \in Seq(Insts) /\ \A i \in 1 .. Len(<< >>) : CallOK(<< >>[i])
      BY EmptySeq
    <3> QED BY <1>10, <2>1, <2>2, <2>4, <3>1, <3>2, <3>3
  <2> QED BY <1>11, <2>3, <2>4 DEF TranslateVar
<1>12. CASE EndLet
  <2> DEFINE entry == stmtVar[f][s]
             type == exprType[Stmt.value]
             inst == Inst("copy", type_sz(type), sym_table_reg(entry), <<result[Stmt.value]>>)
             fails(how) == size_fails(type, how) \/ reg_fails(entry, how)
  <2>1. phase = "translate" /\ todo # << >> /\ Stmt.t = "let" /\ outcome = "running"
    BY <1>12 DEF EndLet, At, In
  <2>2. f \in Fns /\ s \in 1 .. Len(prog.fns[f].stmts) /\ Stmt.value \in Nodes
    BY <2>1, CurrentStmt
  <2>3. CASE \E how \in Abnormal : Fails(how)
    BY <1>1, <2>3
  <2>4. CASE \A how \in Abnormal : ~fails(how)
    <3>1. /\ set_id(entry) /\ Emit(new_regs(entry), <<inst>>) /\ NextStmt
          /\ UNCHANGED <<prog, fnsAlloc>>
      BY <2>4, <1>12 DEF EndLet
    <3>2. entry \in 0 .. Len(entries)
      BY <2>2 DEF AnnotationsOK, Fns
    <3>3. /\ \A how \in Abnormal : ~size_fails(type, how)
          /\ \A how \in Abnormal : ~reg_fails(entry, how)
      BY <2>4
    <3>4. type_sz(type) \in Sizes /\ result[Stmt.value] \in Nat
      BY <2>2, <3>3, SizeOK DEF IrOK, Nodes
    <3> HIDE DEF entry, type
    <3>5. sym_table_reg(entry) \in Nat
      BY <2>1, <2>2, <3>2, <3>3, RegOK
    <3>6. inst \in Insts /\ inst.t = "copy"
      BY <3>4, <3>5, InstOK DEF Inst
    <3> HIDE DEF inst
    <3>7. <<inst>> \in Seq(Insts) /\ \A i \in 1 .. Len(<<inst>>) : CallOK(<<inst>>[i])
      BY <3>6, OneElement DEF CallOK
    <3> QED BY <1>10, <2>1, <2>2, <3>1, <3>2, <3>3, <3>7 DEF NextStmt
  <2> QED BY <1>12, <2>3, <2>4 DEF EndLet
<1>13. ASSUME phase = "translate", todo # << >>, NEW inst \in Insts, inst.t # "callfn",
              Emit(<< >>, <<inst>>), NextStmt, UNCHANGED <<prog, entries, fnsAlloc>>,
              outcome = "running"
       PROVE  Live' /\ prog' = prog
  <2>1. f \in Fns
    BY <1>13, AtTask
  <2>2. << >> \in Seq(Sizes) /\ <<inst>> \in Seq(Insts)
    BY EmptySeq, OneElement
  <2>3. \A i \in 1 .. Len(<<inst>>) : CallOK(<<inst>>[i])
    BY <1>13, OneElement DEF CallOK
  <2>4. Quiet /\ f' = f
    BY <1>13, SameKept DEF NextStmt, Quiet
  <2> QED BY <1>13, <2>1, <2>2, <2>3, <2>4, EmitLive
<1>14. CASE EndExpr
  <2> DEFINE type == exprType[Stmt.value]
             inst == Inst("copy", type_sz(type), 0, <<result[Stmt.value]>>)
  <2>1. phase = "translate" /\ todo # << >> /\ Stmt.t = "expr" /\ outcome = "running"
    BY <1>14 DEF EndExpr, At, In
  <2>2. Stmt.value \in Nodes
    BY <2>1, CurrentStmt
  <2>3. CASE \E how \in Abnormal : Fails(how)
    BY <1>1, <2>3
  <2>4. CASE /\ type.t \in IntTypes /\ Emit(<< >>, <<inst>>) /\ NextStmt
             /\ UNCHANGED <<prog, entries, fnsAlloc>>
    <3>1. type_sz(type) \in Sizes /\ result[Stmt.value] \in Nat
      BY <2>2, <2>4, SizeOK DEF IrOK, Nodes
    <3>2. inst \in Insts /\ inst.t # "callfn"
      BY <3>1, InstOK DEF Inst
    <3> HIDE DEF inst
    <3> QED BY <1>13, <2>1, <2>4, <3>2
  <2> QED BY <1>14, <2>3, <2>4 DEF EndExpr
<1>15. CASE EndReturn
  <2> DEFINE op == IF Stmt.value = NULL THEN 0 ELSE result[Stmt.value]
             inst == Inst("ret", 0, 0, <<op>>)
  <2>1. /\ phase = "translate" /\ todo # << >> /\ outcome = "running"
        /\ Emit(<< >>, <<inst>>) /\ NextStmt /\ UNCHANGED <<prog, entries, fnsAlloc>>
    BY <1>15 DEF EndReturn, At, In
  <2>2. op \in Nat
    BY <2>1, CurrentStmt DEF IrOK, Nodes
  <2>3. inst \in Insts /\ inst.t # "callfn"
    BY <2>2, InstOK DEF Sizes, Inst
  <2> HIDE DEF inst
  <2> QED BY <1>13, <2>1, <2>3
<1>16. CASE TranslateParam
  <2> DEFINE entry == paramEntry[f][p]
  <2>1. CASE \E how \in Abnormal : Fails(how)
    BY <1>1, <2>1
  <2>2. CASE \A how \in Abnormal : ~reg_fails(entry, how)
    <3> DEFINE r == [ssaFns[f] EXCEPT !.regs = ssaFns[f].regs \o new_regs(entry),
                                      !.params = Append(ssaFns[f].params, sym_table_reg(entry))]
    <3>1. /\ set_id(entry) /\ phase = "translate" /\ outcome = "running" /\ f \in Fns
          /\ ssaFns' = [ssaFns EXCEPT ![f].regs = @ \o new_regs(entry),
                                      ![f].params = Append(@, sym_table_reg(entry))]
          /\ UNCHANGED <<prog, phase, outcome, f, fnsAlloc>>
      <4>1. phase = "translate" /\ outcome = "running" /\ f \in Fns
        BY <1>16, ControlTypes DEF TranslateParam, AtParam, InFn, In, Fns
      <4>2. /\ set_id(entry)
            /\ ssaFns' = [ssaFns EXCEPT ![f].regs = @ \o new_regs(entry),
                                        ![f].params = Append(@, sym_table_reg(entry))]
            /\ UNCHANGED <<prog, phase, outcome, f, fnsAlloc>>
        BY <2>2, <1>16 DEF TranslateParam
      <4> QED BY <4>1, <4>2
    <3>2. Quiet
      BY <3>1, SetIdKept DEF Quiet
    <3> HIDE DEF entry
    <3>3. ssaFns[f] \in SSA_Fns /\ DOMAIN ssaFns = Fns /\ Len(ssaFns) = Len(prog.fns)
      BY <3>1, CurrentFn, LenProperties DEF Fns, LoopsOK
    <3>4. ssaFns' = [ssaFns EXCEPT ![f] = r]
      BY <3>1, <3>3 DEF SSA_Fns
    <3>5. r.insts = ssaFns[f].insts /\ r.name = ssaFns[f].name
      BY <3>3 DEF SSA_Fns
    <3>6. r \in SSA_Fns
      <4>1. entry \in 0 .. Len(entries)
        <5>1. paramEntry[f] \in Seq(0 .. Len(entries)) /\ Len(paramEntry[f]) = Len(Fn.params)
          BY <3>1 DEF AnnotationsOK, LoopsOK, Fns, Fn
        <5>2. p \in 1 .. Len(Fn.params)
          BY <1>16 DEF TranslateParam, AtParam
        <5> QED BY <5>1, <5>2, ElementOfSeq DEF entry
      <4>2. new_regs(entry) \in Seq(Sizes) /\ sym_table_reg(entry) \in Nat
        BY <2>2, <3>1, <4>1, RegOK
      <4>3. ssaFns[f].regs \o new_regs(entry) \in Seq(Sizes)
        BY <3>1, <4>2, CurrentFn, ConcatProperties
      <4>4. Append(ssaFns[f].params, sym_table_reg(entry)) \in Seq(Nat)
        BY <3>1, <4>2, CurrentFn, AppendProperties
      <4> QED BY <3>3, <4>3, <4>4 DEF SSA_Fns
    <3> HIDE DEF r
    <3> QED BY <3>1, <3>2, <3>4, <3>5, <3>6, SameInsts
  <2> QED BY <1>16, <2>1, <2>2 DEF TranslateParam
<1>17. CASE Ir_LeaveFn
  <2> DEFINE r == [ssaFns[f] EXCEPT !.name = Fn.name]
  <2>1. /\ phase = "translate" /\ outcome = "running" /\ f \in Fns
        /\ ssaFns' = [ssaFns EXCEPT ![f] = r] /\ NextFn
        /\ UNCHANGED <<prog, entries, fnsAlloc>>
    BY <1>17, ControlTypes DEF Ir_LeaveFn, LeaveFn, BetweenStmts, InFn, In, Fns
  <2>2. Quiet
    BY <2>1, SameKept DEF NextFn, Quiet
  <2>3. ssaFns[f] \in SSA_Fns /\ DOMAIN ssaFns = Fns /\ Len(ssaFns) = Len(prog.fns)
    BY <2>1, CurrentFn, LenProperties DEF Fns, LoopsOK
  <2>4. r.insts = ssaFns[f].insts /\ r.name = prog.fns[f].name
    BY <2>3 DEF SSA_Fns, Fn
  <2>5. r \in SSA_Fns
    BY <2>1, <2>3, ProgramShape DEF SSA_Fns, Fn, Functions
  <2> HIDE DEF r
  <2> QED BY <2>1, <2>2, <2>4, <2>5, SameInsts DEF NextFn
<1> QED
  BY <1>4, <1>5, <1>6, <1>7, <1>8, <1>9, <1>11, <1>12, <1>14, <1>15, <1>16, <1>17 DEF Ir_Next

-----------------------------------------------------------------------------
LEMMA ProgKept == ASSUME Inv, Next PROVE prog' = prog
<1>1. CASE Names_Next \/ Types_Next \/ CheckReturns
  BY <1>1, QuietNames, QuietTypes, QuietReturns DEF Quiet
<1>2. CASE EndPhase
  BY <1>2 DEF EndPhase
<1>3. CASE AllocFn \/ Ir_EnterFn \/ TranslateParam \/ TranslateStmt \/ Ir_LeaveFn
  BY <1>3 DEF AllocFn, Ir_EnterFn, TranslateParam, TranslateStmt, Ir_LeaveFn, Fails, Stop
<1>4. CASE TranslateInt \/ TranslateVar \/ \E t \in {"binop", "funcall"} : TranslateArgs(t)
  BY <1>4 DEF TranslateInt, TranslateVar, TranslateArgs, EmitSized, EmitResult, Fails, Stop
<1>5. CASE TranslateBinop \/ TranslateCall
  BY <1>5 DEF TranslateBinop, TranslateCall, EmitSized, EmitResult, Fails, Stop
<1>6. CASE EndLet \/ EndExpr \/ EndReturn
  BY <1>6 DEF EndLet, EndExpr, EndReturn, Fails, Stop
<1> QED
  BY <1>1, <1>2, <1>3, <1>4, <1>5, <1>6 DEF Next, Semantics, Ir_Next

LEMMA LiveNext ==
  ASSUME Inv, Fits => Live, [Next]_vars
  PROVE  (Fits => Live)'
<1>1. CASE UNCHANGED vars
  BY <1>1 DEF vars, Fits, Live, PtrsOK, CallsOK, NamesOK, LivePtr, CallOK, Fns
<1>2. ASSUME Fits, Next PROVE Live' /\ prog' = prog
  <2>1. Live
    BY <1>2
  <2>2. CASE AllocFn
    BY <1>2, <2>1, <2>2, AllocFnLive
  <2>3. CASE Ir_Next /\ ~AllocFn
    BY <2>1, <2>3, TranslateLive
  <2>4. CASE EndPhase /\ UNCHANGED irVars
    BY <2>1, <2>4, EndPhaseLive
  <2>5. CASE (Names_Next \/ Types_Next \/ CheckReturns) /\ UNCHANGED irVars
    BY <2>1, <2>5, QuietNames, QuietTypes, QuietReturns, QuietLive DEF Quiet
  <2> QED BY <1>2, <2>2, <2>3, <2>4, <2>5 DEF Next, Semantics
<1>3. ASSUME Next PROVE prog' = prog
  BY <1>3, ProgKept
<1> QED
  BY <1>1, <1>2, <1>3 DEF Fits

(* A call to a function that is one of the first VEC_INIT_ALLOC, as all of *)
(* a program of no more than that are, can be followed when translate_ast  *)
(* is done: what callfn.fn points to is the function, and not the zeroed   *)
(* copy vector_resize left behind.  The run many_functions shows what      *)
(* becomes of it in a program of one more.                                 *)
THEOREM CalleesLive == Spec => [](Len(prog.fns) <= VEC_INIT_ALLOC => CalleeLive)
<1> DEFINE LInv == Inv /\ (Fits => Live)
<1>1. Init => LInv
  <2>1. ASSUME Init PROVE LInv
    <3>1. Inv
      BY <2>1, InitOK
    <3>2. /\ ssaFns = << >> /\ entries = << >> /\ fnsAlloc = VEC_INIT_ALLOC
          /\ outcome = "running" /\ phase = "declare"
      BY <2>1 DEF Init, InitIr, InitNames
    <3>3. Len(ssaFns) = 0 /\ Len(entries) = 0
      BY <3>2, EmptySeq
    <3> QED BY <3>1, <3>2, <3>3 DEF Live, PtrsOK, CallsOK, NamesOK
  <2> QED BY <2>1
<1>2. LInv /\ [Next]_vars => LInv'
  BY NextOK, LiveNext
<1>3. LInv => (Len(prog.fns) <= VEC_INIT_ALLOC => CalleeLive)
  <2>1. ASSUME LInv, Len(prog.fns) <= VEC_INIT_ALLOC, outcome = "ok",
               NEW g \in DOMAIN ssaFns, NEW inst \in Range(ssaFns[g].insts), inst.t = "callfn"
        PROVE  /\ Deref(inst.fn) = ssaFns[inst.fn[2]]
               /\ Deref(inst.fn).name = prog.fns[inst.fn[2]].name
    <3>1. Live /\ phase = "done" /\ Inv
      BY <2>1 DEF Fits, Live, NamesOK
    <3>2. /\ ssaFns \in Seq(SSA_Fns) /\ Len(ssaFns) = Len(prog.fns)
          /\ DOMAIN ssaFns = 1 .. Len(ssaFns)
      BY <3>1, InvParts, LenProperties DEF IrOK, LoopsOK
    <3>3. PICK i \in DOMAIN ssaFns[g].insts : ssaFns[g].insts[i] = inst
      BY <2>1 DEF Range
    <3>4. DOMAIN ssaFns[g].insts = 1 .. Len(ssaFns[g].insts)
      <4>1. ssaFns[g] \in SSA_Fns
        BY <3>2, ElementOfSeq
      <4>2. ssaFns[g].insts \in Seq(Insts)
        BY <4>1 DEF SSA_Fns
      <4> QED BY <4>2, LenProperties
    <3>5. LivePtr(inst.fn)
      BY <2>1, <3>1, <3>2, <3>3, <3>4 DEF Live, CallsOK, CallOK
    <3>6. Deref(inst.fn) = ssaFns[inst.fn[2]]
      BY <3>1, <3>5 DEF Deref, Live, LivePtr
    <3>7. ssaFns[inst.fn[2]].name = prog.fns[inst.fn[2]].name
      BY <3>1, <3>2, <3>5 DEF Live, NamesOK, LivePtr, Fns
    <3> QED BY <3>6, <3>7
  <2> QED BY <2>1 DEF CalleeLive
<1> HIDE DEF LInv
<1> QED
  BY <1>1, <1>2, <1>3, PTL DEF Spec

-----------------------------------------------------------------------------
(* No register of a function is set by two instructions, or by one and a   *)
(* parameter.  Registers are handed out through symbol table entries, so   *)
(* this rests on what the passes made of them long before: an entry        *)
(* belongs to one parameter or let of one function, and a name is only     *)
(* bound to entries of its own function.                                   *)

(* What has the register r for its result, and what an SSA_Fn keeps.       *)
Sets(fn, r) ==
  \/ \E i \in 1 .. Len(fn.insts) : fn.insts[i].result = r
  \/ \E k \in 1 .. Len(fn.params) : fn.params[k] = r

InstFits(inst, n) ==
  /\ inst.result \in 0 .. n
  /\ \A k \in 1 .. Len(inst.args) : inst.args[k] \in 0 .. n

Single(fn) ==
  /\ fn \in SSA_Fns
  /\ \A k \in 1 .. Len(fn.params) : fn.params[k] \in 1 .. Len(fn.regs)
  /\ \A i \in 1 .. Len(fn.insts) : InstFits(fn.insts[i], Len(fn.regs))
  /\ \A i, j \in 1 .. Len(fn.insts) :
       fn.insts[i].result = fn.insts[j].result /\ fn.insts[i].result # 0 => i = j
  /\ \A k, l \in 1 .. Len(fn.params) : fn.params[k] = fn.params[l] => k = l
  /\ \A i \in 1 .. Len(fn.insts), k \in 1 .. Len(fn.params) :
       fn.insts[i].result # fn.params[k]

(* The registers ids of the entries mine of a function go with its code:   *)
(* no two share one, and those pending are not set yet.                    *)
Fit(ids, mine, pending, fn) ==
  /\ Single(fn)
  /\ \A e \in mine : ids[e] \in 0 .. Len(fn.regs)
  /\ \A e, d \in mine : ids[e] = ids[d] /\ ids[e] # 0 => e = d
  /\ pending \subseteq mine
  /\ \A e \in pending : ids[e] # 0 => ~Sets(fn, ids[e])

-----------------------------------------------------------------------------
(* What one more register, instruction or parameter does to that.          *)
LEMMA OneMore ==
  ASSUME NEW S, NEW list \in Seq(S), NEW e \in S
  PROVE  /\ list \o <<e>> \in Seq(S) /\ Append(list, e) \in Seq(S)
         /\ Len(list) \in Nat
         /\ Len(list \o <<e>>) = Len(list) + 1 /\ Len(Append(list, e)) = Len(list) + 1
         /\ \A k \in 1 .. Len(list) + 1 :
              /\ (list \o <<e>>)[k] = IF k <= Len(list) THEN list[k] ELSE e
              /\ Append(list, e)[k] = IF k <= Len(list) THEN list[k] ELSE e
<1>1. <<e>> \in Seq(S) /\ Len(<<e>>) = 1 /\ <<e>>[1] = e
  BY OneElement
<1>2. /\ list \o <<e>> \in Seq(S) /\ Len(list) \in Nat
      /\ Len(list \o <<e>>) = Len(list) + 1
      /\ \A k \in 1 .. Len(list) + 1 :
           (list \o <<e>>)[k] = IF k <= Len(list) THEN list[k] ELSE <<e>>[k - Len(list)]
  BY <1>1, ConcatProperties, LenProperties
<1>3. \A k \in 1 .. Len(list) + 1 : ~(k <= Len(list)) => k - Len(list) = 1
  BY <1>2
<1>4. /\ Append(list, e) \in Seq(S) /\ Len(Append(list, e)) = Len(list) + 1
      /\ \A k \in 1 .. Len(list) + 1 :
           Append(list, e)[k] = IF k <= Len(list) THEN list[k] ELSE e
  BY <1>2, AppendProperties
<1> QED
  BY <1>1, <1>2, <1>3, <1>4

(* A new register.                                                         *)
LEMMA WithReg ==
  ASSUME NEW fn, Single(fn), NEW sz \in Sizes, NEW fn2 \in SSA_Fns,
         fn2.regs = fn.regs \o <<sz>>, fn2.insts = fn.insts, fn2.params = fn.params
  PROVE  /\ Single(fn2) /\ Len(fn2.regs) = Len(fn.regs) + 1 /\ Len(fn.regs) \in Nat
         /\ \A r : Sets(fn2, r) <=> Sets(fn, r)
         /\ ~Sets(fn2, Len(fn.regs) + 1)
<1>1. /\ fn \in SSA_Fns /\ fn.regs \in Seq(Sizes) /\ fn.insts \in Seq(Insts)
      /\ fn.params \in Seq(Nat)
  BY DEF Single, SSA_Fns
<1>3. Len(fn2.regs) = Len(fn.regs) + 1 /\ Len(fn.regs) \in Nat
  BY <1>1, OneMore
<1>5. \A inst : InstFits(inst, Len(fn.regs)) => InstFits(inst, Len(fn2.regs))
  BY <1>3 DEF InstFits
<1>6. Single(fn2)
  <2>1. \A k \in 1 .. Len(fn2.params) : fn2.params[k] \in 1 .. Len(fn2.regs)
    BY <1>3 DEF Single
  <2>2. \A i \in 1 .. Len(fn2.insts) : InstFits(fn2.insts[i], Len(fn2.regs))
    BY <1>5 DEF Single
  <2>3. \A i, j \in 1 .. Len(fn2.insts) :
          fn2.insts[i].result = fn2.insts[j].result /\ fn2.insts[i].result # 0 => i = j
    BY DEF Single
  <2>4. \A k, l \in 1 .. Len(fn2.params) : fn2.params[k] = fn2.params[l] => k = l
    BY DEF Single
  <2>5. \A i \in 1 .. Len(fn2.insts), k \in 1 .. Len(fn2.params) :
          fn2.insts[i].result # fn2.params[k]
    BY DEF Single
  <2> QED BY <2>1, <2>2, <2>3, <2>4, <2>5 DEF Single
<1>7. \A r : Sets(fn2, r) <=> Sets(fn, r)
  BY DEF Sets
<1>8. ~Sets(fn, Len(fn.regs) + 1)
  BY <1>3 DEF Single, InstFits, Sets
<1> QED
  BY <1>3, <1>6, <1>7, <1>8

(* One more instruction, that sets nothing or what was not set.            *)
LEMMA WithInst ==
  ASSUME NEW fn, Single(fn), NEW inst \in Insts, InstFits(inst, Len(fn.regs)),
         inst.result # 0 => ~Sets(fn, inst.result), NEW fn2 \in SSA_Fns,
         fn2.regs = fn.regs, fn2.insts = fn.insts \o <<inst>>, fn2.params = fn.params
  PROVE  /\ Single(fn2) /\ fn2.regs = fn.regs
         /\ \A r : Sets(fn2, r) <=> Sets(fn, r) \/ r = inst.result
<1>1. /\ fn \in SSA_Fns /\ fn.regs \in Seq(Sizes) /\ fn.insts \in Seq(Insts)
      /\ fn.params \in Seq(Nat)
  BY DEF Single, SSA_Fns
<1>3. /\ Len(fn2.insts) = Len(fn.insts) + 1 /\ Len(fn.insts) \in Nat
      /\ \A i \in 1 .. Len(fn.insts) + 1 :
           fn2.insts[i] = IF i <= Len(fn.insts) THEN fn.insts[i] ELSE inst
  BY <1>1, OneMore
<1>5. \A r : Sets(fn2, r) <=> Sets(fn, r) \/ r = inst.result
  <2>1. ASSUME NEW r PROVE (\E i \in 1 .. Len(fn2.insts) : fn2.insts[i].result = r)
                           <=> (\E i \in 1 .. Len(fn.insts) : fn.insts[i].result = r) \/ r = inst.result
    <3>1. Len(fn.insts) + 1 \in 1 .. Len(fn2.insts) /\ fn2.insts[Len(fn.insts) + 1] = inst
      BY <1>3
    <3>2. \A i \in 1 .. Len(fn.insts) : i \in 1 .. Len(fn2.insts) /\ fn2.insts[i] = fn.insts[i]
      BY <1>3
    <3>3. \A i \in 1 .. Len(fn2.insts) : i \in 1 .. Len(fn.insts) \/ fn2.insts[i] = inst
      BY <1>3
    <3> QED BY <3>1, <3>2, <3>3
  <2> QED BY <2>1 DEF Sets
<1>6. \A i \in 1 .. Len(fn2.insts) : InstFits(fn2.insts[i], Len(fn2.regs))
  BY <1>3 DEF Single
<1>7. \A i \in 1 .. Len(fn.insts) : inst.result # 0 => fn.insts[i].result # inst.result
  BY DEF Sets
<1>8. ASSUME NEW i \in 1 .. Len(fn2.insts), NEW j \in 1 .. Len(fn2.insts),
             fn2.insts[i].result = fn2.insts[j].result, fn2.insts[i].result # 0
      PROVE  i = j
  <2>1. \A l \in 1 .. Len(fn2.insts) :
          \/ l \in 1 .. Len(fn.insts) /\ fn2.insts[l] = fn.insts[l]
          \/ l = Len(fn.insts) + 1 /\ fn2.insts[l] = inst
    BY <1>3
  <2> QED BY <1>7, <1>8, <2>1 DEF Single
<1>9. ASSUME NEW i \in 1 .. Len(fn2.insts), NEW k \in 1 .. Len(fn2.params)
      PROVE  fn2.insts[i].result # fn2.params[k]
  <2>1. k \in 1 .. Len(fn.params) /\ fn2.params[k] = fn.params[k] /\ fn.params[k] # 0
    BY <1>1 DEF Single
  <2>2. fn.params[k] # inst.result
    BY <2>1 DEF Sets
  <2> QED BY <1>3, <2>1, <2>2 DEF Single
<1>10. /\ \A k \in 1 .. Len(fn2.params) : fn2.params[k] \in 1 .. Len(fn2.regs)
       /\ \A k, l \in 1 .. Len(fn2.params) : fn2.params[k] = fn2.params[l] => k = l
  BY DEF Single
<1>11. Single(fn2)
  BY <1>6, <1>8, <1>9, <1>10 DEF Single
<1> QED
  BY <1>5, <1>11

(* One more parameter, in a register that was not set.                     *)
LEMMA WithParam ==
  ASSUME NEW fn, Single(fn), NEW r \in 1 .. Len(fn.regs), ~Sets(fn, r), NEW fn2 \in SSA_Fns,
         fn2.regs = fn.regs, fn2.insts = fn.insts, fn2.params = Append(fn.params, r)
  PROVE  /\ Single(fn2) /\ fn2.regs = fn.regs
         /\ \A q : Sets(fn2, q) <=> Sets(fn, q) \/ q = r
<1>1. /\ fn \in SSA_Fns /\ fn.regs \in Seq(Sizes) /\ fn.insts \in Seq(Insts)
      /\ fn.params \in Seq(Nat) /\ r \in Nat
  BY DEF Single, SSA_Fns
<1>3. /\ Len(fn2.params) = Len(fn.params) + 1 /\ Len(fn.params) \in Nat
      /\ \A k \in 1 .. Len(fn.params) + 1 :
           fn2.params[k] = IF k <= Len(fn.params) THEN fn.params[k] ELSE r
  BY <1>1, OneMore
<1>5. \A k \in 1 .. Len(fn2.params) :
        \/ k \in 1 .. Len(fn.params) /\ fn2.params[k] = fn.params[k]
        \/ k = Len(fn.params) + 1 /\ fn2.params[k] = r
  BY <1>3
<1>6. /\ \A k \in 1 .. Len(fn.params) : k \in 1 .. Len(fn2.params) /\ fn2.params[k] = fn.params[k]
      /\ Len(fn.params) + 1 \in 1 .. Len(fn2.params) /\ fn2.params[Len(fn.params) + 1] = r
  BY <1>3
<1>7. \A q : Sets(fn2, q) <=> Sets(fn, q) \/ q = r
  BY <1>5, <1>6 DEF Sets
<1>8. /\ \A k \in 1 .. Len(fn.params) : fn.params[k] # r
      /\ \A i \in 1 .. Len(fn.insts) : fn.insts[i].result # r
  BY DEF Sets
<1>9. \A k \in 1 .. Len(fn2.params) : fn2.params[k] \in 1 .. Len(fn2.regs)
  BY <1>5 DEF Single
<1>10. \A k, l \in 1 .. Len(fn2.params) : fn2.params[k] = fn2.params[l] => k = l
  BY <1>5, <1>8 DEF Single
<1>11. \A i \in 1 .. Len(fn2.insts), k \in 1 .. Len(fn2.params) :
         fn2.insts[i].result # fn2.params[k]
  BY <1>5, <1>8 DEF Single
<1>12. /\ \A i \in 1 .. Len(fn2.insts) : InstFits(fn2.insts[i], Len(fn2.regs))
       /\ \A i, j \in 1 .. Len(fn2.insts) :
            fn2.insts[i].result = fn2.insts[j].result /\ fn2.insts[i].result # 0 => i = j
  BY DEF Single
<1>13. Single(fn2)
  BY <1>9, <1>10, <1>11, <1>12 DEF Single
<1> QED
  BY <1>7, <1>13
-----------------------------------------------------------------------------
(* The nodes of a function are its own: own gives the function of a node.  *)
Owned(own) == own \in [Nodes -> Fns] /\ OwnedBy(prog, own)

LEMMA OwnedMeans ==
  ASSUME NEW own, Owned(own)
  PROVE  /\ own \in [Nodes -> Fns]
         /\ \A g \in Fns : \A i \in 1 .. Len(prog.fns[g].stmts) :
              prog.fns[g].stmts[i].value # NULL => own[prog.fns[g].stmts[i].value] = g
         /\ \A n \in Nodes : \A k \in 1 .. Len(prog.exprs[n].args) :
              own[prog.exprs[n].args[k]] = own[n]
  BY DEF Owned, OwnedBy, Nodes, Fns

(* An entry is that of a function (owner 0) or of one parameter or let,    *)
(* whose slot counts both in the order they are declared in.               *)
Placed(owner, slot) ==
  /\ owner \in [1 .. Len(entries) -> 0 .. Len(prog.fns)]
  /\ slot \in [1 .. Len(entries) -> Nat]
  /\ Len(fnEntry) = IF phase = "declare" THEN f - 1 ELSE Len(prog.fns)
  /\ phase = "declare" => Len(entries) = f - 1
  /\ \A g \in 1 .. Len(fnEntry) : fnEntry[g] = g
  /\ \A e \in 1 .. Len(entries) : owner[e] = 0 <=> e <= Len(prog.fns)
  /\ \A g \in Fns : \A k \in 1 .. Len(paramEntry[g]) :
       paramEntry[g][k] # NULL => owner[paramEntry[g][k]] = g /\ slot[paramEntry[g][k]] = k
  /\ \A g \in Fns : \A i \in 1 .. Len(prog.fns[g].stmts) :
       stmtVar[g][i] # NULL =>
         owner[stmtVar[g][i]] = g /\ slot[stmtVar[g][i]] = Len(prog.fns[g].params) + i

(* A name is bound to a function or to an entry of its own function.       *)
Bound(own, owner) ==
  \A n \in Nodes : exprVar[n] # NULL => owner[exprVar[n]] \in {0, own[n]}

(* So is what the scopes hold while names are resolved.                    *)
InChain(sc, e) ==
  \E b \in 0 .. INIT_BUCKETS - 1 : \E k \in 1 .. Len(scopes[sc].buckets[b]) :
    scopes[sc].buckets[b][k] = e
ChainsOwned(owner) ==
  phase \in {"declare", "names"} =>
    /\ scopes[global].up = << >>
    /\ \A e \in 1 .. Len(entries) : InChain(global, e) => owner[e] = 0
    /\ phase = "names" /\ p > 0 =>
         /\ scope # global /\ scopes[scope].up = <<global>>
         /\ \A e \in 1 .. Len(entries) : InChain(scope, e) => owner[e] = f

(* The walk stays within the nodes of the current function.                *)
Walking(own) ==
  phase \in {"names", "translate"} =>
    /\ \A i \in 1 .. Len(todo) : todo[i].k # "stmt" => own[todo[i].n] = f
    /\ todo # << >> => p > Len(Fn.params)

(* The entries of functions have the types of functions, and no register.  *)
FnsTyped ==
  phase \notin {"declare", "names"} =>
    \A g \in Fns : (phase = "signatures" => g < f) => entries[g].type \in FnTypes

(* Before the translation no entry has a register, and no node a result.   *)
Unused ==
  phase \notin {"translate", "done"} =>
    /\ \A e \in 1 .. Len(entries) : entries[e].id = 0
    /\ \A n \in Nodes : result[n] = 0

(* During it the entries of the current function have their registers in   *)
(* it, those declared at Cur or later are still to be set, and the entries *)
(* of functions have none, nor do those of functions that come later.      *)
Ids == [e \in 1 .. Len(entries) |-> entries[e].id]
Mine(owner) == {e \in 1 .. Len(entries) : owner[e] = f}
Cur == IF p <= Len(Fn.params) THEN p ELSE Len(Fn.params) + s
Waiting(owner, slot) == {e \in Mine(owner) : slot[e] >= Cur}
Registers(own, owner, slot) ==
  phase = "translate" =>
    /\ f \in Fns => Fit(Ids, Mine(owner), Waiting(owner, slot), ssaFns[f])
    /\ \A e \in 1 .. Len(entries) : owner[e] \notin 1 .. f => entries[e].id = 0
    /\ \A n \in Nodes : own[n] > f => result[n] = 0
    /\ f \in Fns => \A n \in Nodes : own[n] = f => result[n] \in 0 .. Len(ssaFns[f].regs)

Singles == \A g \in 1 .. Len(ssaFns) : Single(ssaFns[g])

Tracked(own, owner, slot) ==
  /\ Placed(owner, slot) /\ Bound(own, owner) /\ ChainsOwned(owner) /\ Walking(own)
  /\ FnsTyped /\ Unused /\ Registers(own, owner, slot) /\ Singles

-----------------------------------------------------------------------------
(* The symbol table.                                                       *)
LEMMA TwoElements ==
  ASSUME NEW a, NEW b
  PROVE  \A k \in 1 .. Len(<<a>> \o <<b>>) : (<<a>> \o <<b>>)[k] \in {a, b}
<1>1. <<a>> \in Seq({a, b}) /\ Len(<<a>>) = 1 /\ <<a>>[1] = a /\ b \in {a, b}
  BY OneElement
<1>2. /\ Len(<<a>> \o <<b>>) = 2
      /\ \A k \in 1 .. 2 : (<<a>> \o <<b>>)[k] = IF k <= 1 THEN <<a>>[k] ELSE b
  BY <1>1, OneMore
<1> QED
  BY <1>1, <1>2

LEMMA FoundChain ==
  ASSUME TableOK, NEW sc \in 1 .. Len(scopes), NEW pos \in Names, find_in(sc, pos) # NULL
  PROVE  find_in(sc, pos) \in 1 .. Len(entries) /\ InChain(sc, find_in(sc, pos))
<1>1. Len(entries) \in Nat
  BY DEF TableOK
<1>2. find_in(sc, pos) \in 1 .. Len(entries)
  BY <1>1, FindIn DEF NULL
<1>3. bucket_of(pos) \in 0 .. INIT_BUCKETS - 1
  BY BucketRange
<1> QED
  BY <1>2, <1>3, FoundIn DEF InChain

LEMMA InChainEntry ==
  ASSUME TableOK, NEW sc \in 1 .. Len(scopes), NEW e, InChain(sc, e)
  PROVE  e \in 1 .. Len(entries)
<1>1. PICK b \in 0 .. INIT_BUCKETS - 1 : \E k \in 1 .. Len(scopes[sc].buckets[b]) :
        scopes[sc].buckets[b][k] = e
  BY DEF InChain
<1>2. scopes[sc] \in Scopes
  BY ElementOfSeq DEF TableOK, Scopes, Buckets
<1>3. scopes[sc].buckets[b] \in Seq(1 .. Len(entries))
  BY <1>2 DEF Scopes, Buckets
<1> QED
  BY <1>1, <1>3, ElementOfSeq

LEMMA FoundName ==
  ASSUME Inv, NEW owner, ChainsOwned(owner), phase = "names", p > 0, NEW pos \in Names,
         scope_find(scope, pos) # NULL
  PROVE  owner[scope_find(scope, pos)] \in {0, f}
<1>1. TableOK /\ Len(scopes) \in Nat /\ scope \in 1 .. Len(scopes) /\ global \in 1 .. Len(scopes)
  BY InvParts, EmptySeq DEF TableOK, scope, global
<1>2. /\ scopes[scope].up = <<global>>
      /\ \A e \in 1 .. Len(entries) : InChain(global, e) => owner[e] = 0
      /\ \A e \in 1 .. Len(entries) : InChain(scope, e) => owner[e] = f
  BY DEF ChainsOwned
<1>3. PICK k \in 1 .. Len(<<scope>> \o scopes[scope].up) :
        /\ (<<scope>> \o scopes[scope].up)[k] \in 1 .. Len(scopes)
        /\ scope_find(scope, pos) = find_in((<<scope>> \o scopes[scope].up)[k], pos)
  BY <1>1, FoundOn
<1>4. (<<scope>> \o scopes[scope].up)[k] \in {scope, global}
  BY <1>1, <1>2, <1>3, TwoElements
<1>5. PICK sc \in {scope, global} : scope_find(scope, pos) = find_in(sc, pos)
  BY <1>3, <1>4
<1>6. /\ find_in(sc, pos) \in 1 .. Len(entries) /\ InChain(sc, find_in(sc, pos))
  BY <1>1, <1>5, FoundChain
<1> QED
  BY <1>2, <1>5, <1>6

(* An insertion changes one chain, by one new entry.                       *)
LEMMA Inserted ==
  ASSUME TableOK, NEW sc \in 1 .. Len(scopes), NEW pos \in Names, NEW type \in Types,
         scope_insert(sc, pos, type), find_in(sc, pos) = NULL
  PROVE  /\ Len(entries) \in Nat /\ Len(entries') = Len(entries) + 1
         /\ \A e \in 1 .. Len(entries) : entries'[e] = entries[e]
         /\ entries'[Len(entries) + 1] = ScopeEntry(pos, type)
         /\ Len(scopes') = Len(scopes)
         /\ \A t \in 1 .. Len(scopes) : scopes'[t].up = scopes[t].up
         /\ \A t \in 1 .. Len(scopes) : \A e :
              InChain(t, e)' => InChain(t, e) \/ (t = sc /\ e = Len(entries) + 1)
<1> DEFINE new == Len(entries) + 1
           b == bucket_of(pos)
           chain == scopes[sc].buckets[b]
           chains == [scopes[sc].buckets EXCEPT ![b] = <<new>> \o chain]
<1>1. /\ entries \in Seq(Entry) /\ scopes \in Seq(Scopes) /\ Len(entries) \in Nat
      /\ DOMAIN scopes = 1 .. Len(scopes) /\ b \in 0 .. INIT_BUCKETS - 1
  BY BucketRange, LenProperties DEF TableOK, Entry, Scopes, Buckets
<1>2. /\ entries' = Append(entries, ScopeEntry(pos, type))
      /\ scopes' = [scopes EXCEPT ![sc] = [scopes[sc] EXCEPT !.buckets = chains]]
  BY DEF scope_insert
<1>3. ScopeEntry(pos, type) \in Entry
  BY DEF ScopeEntry, Entry, FnPointers
<1>4. /\ Len(entries') = Len(entries) + 1
      /\ \A e \in 1 .. Len(entries) : entries'[e] = entries[e]
      /\ entries'[Len(entries) + 1] = ScopeEntry(pos, type)
  BY <1>1, <1>2, <1>3, OneMore
<1>5. scopes[sc] \in Scopes
  BY <1>1, ElementOfSeq
<1>6. DOMAIN scopes[sc].buckets = 0 .. INIT_BUCKETS - 1 /\ chain \in Seq(1 .. Len(entries))
  BY <1>1, <1>5 DEF Scopes, Buckets
<1> HIDE DEF chain
<1>7. /\ \A c \in 0 .. INIT_BUCKETS - 1 :
           chains[c] = IF c = b THEN <<new>> \o chain ELSE scopes[sc].buckets[c]
  BY <1>6
<1> HIDE DEF chains
<1>8. /\ scopes'[sc].up = scopes[sc].up /\ scopes'[sc].buckets = chains
      /\ \A t \in 1 .. Len(scopes) : t # sc => scopes'[t] = scopes[t]
  BY <1>1, <1>2, <1>5 DEF Scopes
<1>9. Len(scopes') = Len(scopes)
  BY ScopeInsert
<1>10. /\ Len(<<new>> \o chain) = Len(chain) + 1 /\ Len(chain) \in Nat
       /\ (<<new>> \o chain)[1] = new
       /\ \A k \in 2 .. Len(chain) + 1 : (<<new>> \o chain)[k] = chain[k - 1]
  <2>1. <<new>> \in Seq(Nat) /\ Len(<<new>>) = 1 /\ <<new>>[1] = new /\ chain \in Seq(Nat)
    <3>1. new \in Nat
      BY <1>1
    <3>2. chain \in Seq(Nat)
      BY <1>6, SeqMonotonic
    <3> QED BY <3>1, <3>2, OneElement
  <2> QED BY <2>1, ConcatProperties, LenProperties
<1>11. ASSUME NEW e, NEW k \in 1 .. Len(<<new>> \o chain), (<<new>> \o chain)[k] = e
       PROVE  e = new \/ \E j \in 1 .. Len(chain) : chain[j] = e
  <2>1. CASE k = 1
    BY <1>10, <1>11, <2>1
  <2>2. CASE k # 1
    <3>1. k - 1 \in 1 .. Len(chain) /\ k \in 2 .. Len(chain) + 1
      BY <1>10, <1>11, <2>2
    <3> QED BY <1>10, <1>11, <3>1
  <2> QED BY <2>1, <2>2
<1>12. ASSUME NEW t \in 1 .. Len(scopes), NEW e, InChain(t, e)'
       PROVE  InChain(t, e) \/ (t = sc /\ e = new)
  <2>1. PICK c \in 0 .. INIT_BUCKETS - 1 : \E k \in 1 .. Len(scopes'[t].buckets[c]) :
          scopes'[t].buckets[c][k] = e
    BY <1>12 DEF InChain
  <2>2. CASE t # sc \/ c # b
    <3>1. scopes'[t].buckets[c] = scopes[t].buckets[c]
      BY <1>7, <1>8, <2>2
    <3> QED BY <2>1, <3>1 DEF InChain
  <2>3. CASE t = sc /\ c = b
    <3>1. scopes'[t].buckets[c] = <<new>> \o chain
      BY <1>7, <1>8, <2>3
    <3>2. e = new \/ \E j \in 1 .. Len(chain) : chain[j] = e
      BY <1>11, <2>1, <3>1
    <3> QED BY <1>1, <2>3, <3>2 DEF InChain, chain
  <2> QED BY <2>2, <2>3
<1>13. ASSUME NEW t \in 1 .. Len(scopes) PROVE scopes'[t].up = scopes[t].up
  BY <1>8
<1> QED
  BY <1>1, <1>4, <1>9, <1>12, <1>13

-----------------------------------------------------------------------------
(* Names.  An entry that is added gets an owner and a slot.                *)
(* What no step of names touches.                                          *)
LEMMA NamesParts ==
  ASSUME Inv, Singles, Unused, phase \in {"declare", "names"}, UNCHANGED <<prog, phase, irVars>>,
         \A e \in 1 .. Len(entries') : entries'[e].id = 0, NEW own, NEW owner, NEW slot
  PROVE  FnsTyped' /\ Unused' /\ Registers(own, owner, slot)' /\ Singles'
<1>1. UNCHANGED <<ssaFns, result>>
  BY DEF irVars
<1> QED
  BY <1>1 DEF FnsTyped, Unused, Registers, Singles, Nodes

LEMMA NoIds ==
  ASSUME Inv, Unused, phase \in {"declare", "names"}
  PROVE  \A e \in 1 .. Len(entries) : entries[e].id = 0
  BY DEF Unused

(* Nothing but the outcome changes.                                        *)
LEMMA TrackedSame ==
  ASSUME NEW own, NEW owner, NEW slot, Tracked(own, owner, slot),
         UNCHANGED <<prog, phase, f, p, s, todo, scopes, entries, annotations, irVars>>
  PROVE  Tracked(own, owner, slot)'
<1>1. /\ UNCHANGED <<fnEntry, paramEntry, stmtVar, exprVar, ssaFns, result>>
      /\ UNCHANGED <<prog, phase, f, p, s, todo, scopes, entries>>
  BY DEF annotations, irVars
<1>2. Fn' = Fn /\ Nodes' = Nodes /\ Fns' = Fns
  BY <1>1 DEF Fn, Nodes, Fns
<1>3. Placed(owner, slot)'
  BY <1>1, <1>2 DEF Tracked, Placed
<1>4. Bound(own, owner)' /\ Walking(own)'
  BY <1>1, <1>2 DEF Tracked, Bound, Walking
<1>5. ChainsOwned(owner)'
  BY <1>1 DEF Tracked, ChainsOwned, InChain, scope
<1>6. FnsTyped' /\ Unused' /\ Singles'
  BY <1>1, <1>2 DEF Tracked, FnsTyped, Unused, Singles
<1>7. Ids' = Ids /\ Mine(owner)' = Mine(owner) /\ Waiting(owner, slot)' = Waiting(owner, slot)
  BY <1>1, <1>2 DEF Ids, Mine, Waiting, Cur
<1>8. Registers(own, owner, slot)'
  BY <1>1, <1>2, <1>7 DEF Tracked, Registers
<1> QED
  BY <1>3, <1>4, <1>5, <1>6, <1>8 DEF Tracked

LEMMA StopTracked ==
  ASSUME NEW own, NEW owner, NEW slot, Tracked(own, owner, slot), NEW how, Stop(how),
         UNCHANGED irVars
  PROVE  Tracked(own, owner, slot)'
  BY TrackedSame DEF Stop

LEMMA PlacedParts ==
  ASSUME NEW owner, NEW slot, Placed(owner, slot)
  PROVE  /\ owner \in [1 .. Len(entries) -> 0 .. Len(prog.fns)]
         /\ slot \in [1 .. Len(entries) -> Nat]
         /\ \A g \in 1 .. Len(fnEntry) : fnEntry[g] = g
         /\ \A e \in 1 .. Len(entries) : owner[e] = 0 <=> e <= Len(prog.fns)
         /\ phase = "declare" => Len(fnEntry) = f - 1 /\ Len(entries) = f - 1
         /\ phase # "declare" => Len(fnEntry) = Len(prog.fns)
  BY DEF Placed

(* The owners and slots of the entries when there is one more.             *)
Extends(new, old, n, S, v) ==
  new \in [1 .. n + 1 -> S] /\ new[n + 1] = v /\ \A e \in 1 .. n : new[e] = old[e]

LEMMA Longer ==
  ASSUME Inv, NEW owner, NEW slot, Placed(owner, slot),
         NEW o \in 0 .. Len(prog.fns), NEW k \in Nat
  PROVE  /\ \E owner2 : Extends(owner2, owner, Len(entries), 0 .. Len(prog.fns), o)
         /\ \E slot2 : Extends(slot2, slot, Len(entries), Nat, k)
<1> DEFINE owner2 == [e \in 1 .. Len(entries) + 1 |-> IF e <= Len(entries) THEN owner[e] ELSE o]
           slot2 == [e \in 1 .. Len(entries) + 1 |-> IF e <= Len(entries) THEN slot[e] ELSE k]
<1>1. Len(entries) \in Nat
  BY InvParts DEF TableOK
<1>2. owner \in [1 .. Len(entries) -> 0 .. Len(prog.fns)]
  BY PlacedParts
<1>3. slot \in [1 .. Len(entries) -> Nat]
  BY PlacedParts
<1>4. Extends(owner2, owner, Len(entries), 0 .. Len(prog.fns), o)
  BY <1>1, <1>2 DEF Extends
<1>5. Extends(slot2, slot, Len(entries), Nat, k)
  BY <1>1, <1>3 DEF Extends
<1> HIDE DEF owner2, slot2
<1> QED
  BY <1>4, <1>5

LEMMA DeclareFnTracked ==
  ASSUME Inv, NEW own, NEW owner, NEW slot, Tracked(own, owner, slot), DeclareFn, UNCHANGED irVars
  PROVE  \E owner2, slot2 : Tracked(own, owner2, slot2)'
<1> USE InvParts
<1>1. CASE Stop("name_redeclaration")
  BY <1>1, StopTracked
<1>2. CASE ~Redeclared(global, Fn.name)
  <2>1. /\ scope_insert(global, Fn.name, NoType) /\ NextFn
        /\ fnEntry' = Append(fnEntry, scope_insert_result(global, Fn.name))
        /\ UNCHANGED <<prog, paramEntry, stmtVar, exprVar>>
        /\ phase = "declare" /\ f <= Len(prog.fns)
    BY <1>2 DEF DeclareFn, InFn, In
  <2>2. /\ find_in(global, Fn.name) = NULL
        /\ scope_insert_result(global, Fn.name) = Len(entries) + 1
    BY <1>2 DEF Redeclared, scope_insert_result, NULL
  <2>3. Fn.name \in Names /\ NoType \in Types /\ global \in 1 .. Len(scopes) /\ Len(prog.fns) \in Nat
    BY <2>1, InsideFn, TypeKinds, ControlTypes, EmptySeq DEF TableOK, global
  <2>4. /\ Len(entries) \in Nat /\ Len(entries') = Len(entries) + 1
        /\ \A e \in 1 .. Len(entries) : entries'[e] = entries[e]
        /\ entries'[Len(entries) + 1] = ScopeEntry(Fn.name, NoType)
        /\ Len(scopes') = Len(scopes)
        /\ \A t \in 1 .. Len(scopes) : scopes'[t].up = scopes[t].up
        /\ \A t \in 1 .. Len(scopes) : \A e :
             InChain(t, e)' => InChain(t, e) \/ (t = global /\ e = Len(entries) + 1)
    BY <2>1, <2>2, <2>3, Inserted
  <2>5. Placed(owner, slot) /\ Len(entries) = f - 1 /\ Len(fnEntry) = f - 1 /\ f \in Nat
    <3>1. Placed(owner, slot)
      BY DEF Tracked
    <3>2. Len(entries) = f - 1 /\ Len(fnEntry) = f - 1
      BY <2>1, <3>1, PlacedParts
    <3>3. f \in Nat
      BY ControlTypes
    <3> QED BY <3>1, <3>2, <3>3
  <2> DEFINE zero == 0
  <2>6. zero \in 0 .. Len(prog.fns) /\ zero \in Nat /\ zero = 0
    BY <2>3
  <2> HIDE DEF zero
  <2>7. PICK owner2, slot2 : /\ Extends(owner2, owner, Len(entries), 0 .. Len(prog.fns), zero)
                             /\ Extends(slot2, slot, Len(entries), Nat, zero)
    BY <2>5, <2>6, Longer, Zenon
  <2>8. f' = f + 1 /\ phase' = "declare" /\ todo' = todo
    BY <2>1 DEF NextFn
  <2>9. \A e \in 1 .. Len(entries) : owner2[e] = 0
    <3>1. \A e \in 1 .. Len(entries) : e <= Len(prog.fns)
      BY <2>1, <2>3, <2>5
    <3>2. \A e \in 1 .. Len(entries) : owner[e] = 0
      BY <2>5, <3>1, PlacedParts
    <3> QED BY <2>7, <3>2 DEF Extends
  <2>10. \A e \in 1 .. Len(entries') : owner2[e] = 0 /\ e <= Len(prog.fns)
    BY <2>1, <2>3, <2>4, <2>5, <2>6, <2>7, <2>9 DEF Extends
  <2>11. Placed(owner2, slot2)'
    <3>1. /\ Len(fnEntry') = f /\ \A g \in 1 .. Len(fnEntry') : fnEntry'[g] = g
      <4>1. fnEntry \in Seq(Nat) /\ Len(entries) + 1 \in Nat
        <5>1. 1 .. Len(entries) \subseteq Nat
          BY <2>4
        <5> QED BY <2>4, <5>1, SeqMonotonic DEF AnnotationsOK
      <4>2. /\ Len(fnEntry') = Len(fnEntry) + 1
            /\ \A k \in 1 .. Len(fnEntry) + 1 :
                 fnEntry'[k] = IF k <= Len(fnEntry) THEN fnEntry[k] ELSE Len(entries) + 1
        BY <2>1, <2>2, <4>1, OneMore
      <4>3. \A g \in 1 .. Len(fnEntry) : fnEntry[g] = g
        BY <2>5, PlacedParts
      <4>4. Len(fnEntry) = f - 1 /\ Len(entries) = f - 1 /\ f \in Nat
        BY <2>5
      <4> QED BY <4>2, <4>3, <4>4
    <3>2. \A g \in Fns : Len(paramEntry'[g]) = 0
      BY <2>1 DEF LoopsOK, Fns
    <3>3. \A g \in Fns : \A i \in 1 .. Len(prog.fns[g].stmts) : stmtVar'[g][i] # NULL =>
            /\ owner2[stmtVar'[g][i]] = g
            /\ slot2[stmtVar'[g][i]] = Len(prog.fns[g].params) + i
      <4>1. ASSUME NEW g \in Fns, NEW i \in 1 .. Len(prog.fns[g].stmts), stmtVar'[g][i] # NULL
            PROVE  /\ owner2[stmtVar'[g][i]] = g
                   /\ slot2[stmtVar'[g][i]] = Len(prog.fns[g].params) + i
        <5>1. stmtVar[g][i] \in 0 .. Len(entries)
          BY DEF AnnotationsOK, Fns
        <5>2. stmtVar[g][i] \in 1 .. Len(entries)
          BY <2>1, <2>4, <4>1, <5>1 DEF NULL
        <5> QED BY <2>1, <2>5, <2>7, <4>1, <5>2 DEF Placed, Extends
      <4> QED BY <4>1
    <3>4. Len(entries') = f' - 1 /\ Len(entries') = Len(entries) + 1
      BY <2>4, <2>5, <2>8
    <3> QED BY <2>1, <2>7, <2>8, <2>10, <3>1, <3>2, <3>3, <3>4 DEF Placed, Fns, Extends
  <2>12. Bound(own, owner2)'
    <3>1. ASSUME NEW n \in Nodes, exprVar[n] # NULL PROVE owner2[exprVar[n]] \in {0, own[n]}
      <4>1. exprVar[n] \in 0 .. Len(entries)
        BY DEF AnnotationsOK, Nodes
      <4>2. exprVar[n] \in 1 .. Len(entries)
        BY <2>4, <3>1, <4>1 DEF NULL
      <4> QED BY <2>9, <4>2
    <3> QED BY <2>1, <3>1 DEF Bound, Nodes
  <2>13. ChainsOwned(owner2)'
    <3>1. scopes'[global].up = << >>
      BY <2>1, <2>3, <2>4 DEF Tracked, ChainsOwned
    <3> QED BY <2>8, <2>10, <3>1 DEF ChainsOwned
  <2>14. Walking(own)'
    BY <2>8 DEF Walking
  <2>15. FnsTyped' /\ Unused' /\ Registers(own, owner2, slot2)' /\ Singles'
    <3>1. \A e \in 1 .. Len(entries') : entries'[e].id = 0
      <4>1. \A e \in 1 .. Len(entries) : entries[e].id = 0
        BY <2>1 DEF Tracked, Unused
      <4> QED BY <2>4, <4>1 DEF ScopeEntry
    <3>2. Singles /\ Unused
      BY DEF Tracked
    <3> QED BY <2>1, <2>8, <3>1, <3>2, NamesParts
  <2> QED BY <2>11, <2>12, <2>13, <2>14, <2>15 DEF Tracked
<1> QED
  BY <1>1, <1>2 DEF DeclareFn

LEMMA NamesEnterFnTracked ==
  ASSUME Inv, NEW own, NEW owner, NEW slot, Tracked(own, owner, slot), Names_EnterFn,
         UNCHANGED irVars
  PROVE  Tracked(own, owner, slot)'
<1>1. /\ phase = "names" /\ f <= Len(prog.fns) /\ p = 0 /\ p' = 1 /\ scope_init(global)
      /\ UNCHANGED <<prog, phase, outcome, f, s, todo>>
      /\ UNCHANGED <<fnEntry, paramEntry, stmtVar, stmtType, exprVar, exprType>>
  BY DEF Names_EnterFn, InFn, In, annotations
<1>2. entries' = entries /\ scopes' = Append(scopes, Scope(<<global>> \o scopes[global].up))
  BY <1>1 DEF scope_init
<1>3. Placed(owner, slot) /\ Bound(own, owner) /\ ChainsOwned(owner) /\ Walking(own)
  BY DEF Tracked
<1>4. Placed(owner, slot)'
  BY <1>1, <1>2, <1>3 DEF Placed, Fns
<1>5. Bound(own, owner)'
  BY <1>1, <1>3 DEF Bound, Nodes
<1>6. scopes \in Seq(Scopes) /\ Len(scopes) \in Nat /\ global \in 1 .. Len(scopes) /\ global = 1
  BY InvParts, EmptySeq DEF TableOK, Scopes, Buckets, global
<1>7. scopes[global].up = << >>
  BY <1>1, <1>3 DEF ChainsOwned
<1>8. <<global>> \o << >> = <<global>>
  BY <1>6, OneElement, ConcatEmptySeq
<1> DEFINE new == Scope(<<global>> \o scopes[global].up)
<1>9. new.up = <<global>> /\ \A b \in 0 .. INIT_BUCKETS - 1 : new.buckets[b] = << >>
  BY <1>7, <1>8 DEF Scope
<1> HIDE DEF new
<1>10. /\ Len(scopes') = Len(scopes) + 1
       /\ \A t \in 1 .. Len(scopes) : scopes'[t] = scopes[t]
       /\ scopes'[Len(scopes) + 1] = new
  <2>1. scopes \in Seq(Scopes \cup {new}) /\ new \in Scopes \cup {new}
    BY <1>6, SeqMonotonic
  <2>2. scopes' = Append(scopes, new)
    BY <1>2 DEF new
  <2> QED BY <2>1, <2>2, OneMore
<1>11. \A e : InChain(global, e)' => InChain(global, e)
  BY <1>6, <1>10 DEF InChain
<1>12. scope' = Len(scopes) + 1
  BY <1>10 DEF scope
<1>13. \A e : ~InChain(scope, e)'
  BY <1>9, <1>10, <1>12, EmptySeq DEF InChain
<1>14. scope' # global /\ scopes'[scope'].up = <<global>> /\ scopes'[global].up = << >>
  BY <1>6, <1>7, <1>9, <1>10, <1>12
<1>15. \A e \in 1 .. Len(entries) : InChain(global, e) => owner[e] = 0
  BY <1>1, <1>3 DEF ChainsOwned
<1>16. ChainsOwned(owner)'
  <2>1. global' = global
    BY DEF global
  <2> QED BY <1>2, <1>11, <1>13, <1>14, <1>15, <2>1 DEF ChainsOwned
<1>17. Walking(own)'
  <2>1. todo = << >>
    BY <1>1, <1>3, InsideFn DEF Walking
  <2> QED BY <1>1, <2>1, EmptySeq DEF Walking
<1>18. FnsTyped' /\ Unused' /\ Registers(own, owner, slot)' /\ Singles'
  <2>1. \A e \in 1 .. Len(entries') : entries'[e].id = 0
    BY <1>1, <1>2, NoIds DEF Tracked
  <2>2. Singles /\ Unused
    BY DEF Tracked
  <2> QED BY <1>1, <2>1, <2>2, NamesParts
<1> QED
  BY <1>4, <1>5, <1>16, <1>17, <1>18 DEF Tracked

(* A new entry in the scope of the current function, for its k-th name.    *)
LEMMA InsertTracked ==
  ASSUME Inv, NEW own, NEW owner, NEW slot, Tracked(own, owner, slot), UNCHANGED irVars,
         phase = "names", f \in Fns, p > 0, NEW pos \in Names, NEW type \in Types,
         scope_insert(scope, pos, type), find_in(scope, pos) = NULL,
         UNCHANGED <<prog, phase, f, fnEntry, exprVar>>, NEW k \in Nat,
         \A g \in Fns : \A j \in 1 .. Len(paramEntry'[g]) :
           \/ j \in 1 .. Len(paramEntry[g]) /\ paramEntry'[g][j] = paramEntry[g][j]
           \/ paramEntry'[g][j] = Len(entries) + 1 /\ g = f /\ j = k,
         \A g \in Fns : \A i \in 1 .. Len(prog.fns[g].stmts) :
           \/ stmtVar'[g][i] = stmtVar[g][i]
           \/ stmtVar'[g][i] = Len(entries) + 1 /\ g = f /\ k = Len(prog.fns[g].params) + i
  PROVE  \E owner2, slot2 :
           /\ Placed(owner2, slot2)' /\ Bound(own, owner2)' /\ ChainsOwned(owner2)'
           /\ FnsTyped' /\ Unused' /\ Registers(own, owner2, slot2)' /\ Singles'
<1>1. Placed(owner, slot) /\ Bound(own, owner) /\ ChainsOwned(owner) /\ Singles /\ Unused
  BY DEF Tracked
<1>2. TableOK /\ Len(scopes) \in Nat /\ scope \in 1 .. Len(scopes) /\ global \in 1 .. Len(scopes)
  BY InvParts, EmptySeq DEF TableOK, scope, global
<1>3. /\ Len(entries) \in Nat /\ Len(entries') = Len(entries) + 1
      /\ \A e \in 1 .. Len(entries) : entries'[e] = entries[e]
      /\ entries'[Len(entries) + 1] = ScopeEntry(pos, type)
      /\ Len(scopes') = Len(scopes)
      /\ \A t \in 1 .. Len(scopes) : scopes'[t].up = scopes[t].up
      /\ \A t \in 1 .. Len(scopes) : \A e :
           InChain(t, e)' => InChain(t, e) \/ (t = scope /\ e = Len(entries) + 1)
  BY <1>2, Inserted
<1>4. f \in 0 .. Len(prog.fns) /\ f # 0 /\ Len(prog.fns) \in Nat
  BY ControlTypes DEF Fns
<1>5. PICK owner2, slot2 : /\ Extends(owner2, owner, Len(entries), 0 .. Len(prog.fns), f)
                           /\ Extends(slot2, slot, Len(entries), Nat, k)
  BY <1>1, <1>4, Longer, Zenon
<1>6. /\ owner2 \in [1 .. Len(entries') -> 0 .. Len(prog.fns)]
      /\ slot2 \in [1 .. Len(entries') -> Nat]
      /\ \A e \in 1 .. Len(entries) : owner2[e] = owner[e] /\ slot2[e] = slot[e]
      /\ owner2[Len(entries) + 1] = f /\ slot2[Len(entries) + 1] = k
  BY <1>3, <1>5 DEF Extends
<1>7. Placed(owner2, slot2)'
  <2>1. phase # "declare" /\ phase' # "declare" /\ UNCHANGED <<prog, fnEntry>>
    OBVIOUS
  <2>2. Len(prog.fns) <= Len(entries)
    <3>1. CASE Len(prog.fns) = 0
      BY <1>3, <3>1
    <3>2. CASE Len(prog.fns) # 0
      <4>1. /\ fnEntry \in Seq(1 .. Len(entries)) /\ Len(fnEntry) = Len(prog.fns)
            /\ Len(prog.fns) \in 1 .. Len(fnEntry)
        BY <1>1, <1>4, <2>1, <3>2, InvParts, PlacedParts DEF AnnotationsOK
      <4>2. fnEntry[Len(prog.fns)] = Len(prog.fns)
        BY <1>1, <4>1, PlacedParts
      <4>3. fnEntry[Len(prog.fns)] \in 1 .. Len(entries)
        BY <4>1, ElementOfSeq
      <4> QED BY <1>3, <4>2, <4>3
    <3> QED BY <3>1, <3>2
  <2>3. \A e \in 1 .. Len(entries') : owner2[e] = 0 <=> e <= Len(prog.fns)
    <3>1. \A e \in 1 .. Len(entries) : owner[e] = 0 <=> e <= Len(prog.fns)
      BY <1>1, PlacedParts
    <3> QED BY <1>3, <1>4, <1>6, <2>2, <3>1
  <2>4. ASSUME NEW g \in Fns, NEW j \in 1 .. Len(paramEntry'[g]), paramEntry'[g][j] # NULL
        PROVE  owner2[paramEntry'[g][j]] = g /\ slot2[paramEntry'[g][j]] = j
    <3>1. CASE j \in 1 .. Len(paramEntry[g]) /\ paramEntry'[g][j] = paramEntry[g][j]
      <4>1. paramEntry[g][j] \in 0 .. Len(entries)
        BY <3>1, InvParts, ElementOfSeq DEF AnnotationsOK, Fns
      <4>2. paramEntry[g][j] \in 1 .. Len(entries)
        BY <1>3, <2>4, <3>1, <4>1 DEF NULL
      <4>3. owner[paramEntry[g][j]] = g /\ slot[paramEntry[g][j]] = j
        BY <1>1, <2>4, <3>1 DEF Placed
      <4> QED BY <1>6, <3>1, <4>2, <4>3
    <3>2. CASE paramEntry'[g][j] = Len(entries) + 1 /\ g = f /\ j = k
      BY <1>6, <3>2
    <3> QED BY <2>4, <3>1, <3>2
  <2>5. ASSUME NEW g \in Fns, NEW i \in 1 .. Len(prog.fns[g].stmts), stmtVar'[g][i] # NULL
        PROVE  /\ owner2[stmtVar'[g][i]] = g
               /\ slot2[stmtVar'[g][i]] = Len(prog.fns[g].params) + i
    <3>1. CASE stmtVar'[g][i] = stmtVar[g][i]
      <4>1. stmtVar[g][i] \in 0 .. Len(entries)
        BY InvParts DEF AnnotationsOK, Fns
      <4>2. stmtVar[g][i] \in 1 .. Len(entries)
        BY <1>3, <2>5, <3>1, <4>1 DEF NULL
      <4>3. owner[stmtVar[g][i]] = g /\ slot[stmtVar[g][i]] = Len(prog.fns[g].params) + i
        BY <1>1, <2>5, <3>1 DEF Placed
      <4> QED BY <1>6, <3>1, <4>2, <4>3
    <3>2. CASE stmtVar'[g][i] = Len(entries) + 1 /\ g = f /\ k = Len(prog.fns[g].params) + i
      BY <1>6, <3>2
    <3> QED BY <2>5, <3>1, <3>2
  <2>6. Len(fnEntry) = Len(prog.fns) /\ \A g \in 1 .. Len(fnEntry) : fnEntry[g] = g
    BY <1>1, <2>1, PlacedParts
  <2> QED
    BY <1>6, <2>1, <2>3, <2>4, <2>5, <2>6 DEF Placed, Fns
<1>8. Bound(own, owner2)'
  <2>1. ASSUME NEW n \in Nodes, exprVar[n] # NULL PROVE owner2[exprVar[n]] \in {0, own[n]}
    <3>1. exprVar[n] \in 0 .. Len(entries)
      BY InvParts DEF AnnotationsOK, Nodes
    <3>2. exprVar[n] \in 1 .. Len(entries)
      BY <1>3, <2>1, <3>1 DEF NULL
    <3> QED BY <1>1, <1>6, <2>1, <3>2 DEF Bound
  <2> QED BY <2>1 DEF Bound, Nodes
<1>9. ChainsOwned(owner2)'
  <2>1. /\ scopes[global].up = << >> /\ scope # global /\ scopes[scope].up = <<global>>
        /\ \A e \in 1 .. Len(entries) : InChain(global, e) => owner[e] = 0
        /\ \A e \in 1 .. Len(entries) : InChain(scope, e) => owner[e] = f
    BY <1>1 DEF ChainsOwned
  <2>2. /\ scopes'[global].up = << >> /\ scopes'[scope].up = <<global>>
        /\ scope' = scope /\ global' = global
    BY <1>2, <1>3, <2>1 DEF scope, global
  <2>3. \A e \in 1 .. Len(entries') : e \in 1 .. Len(entries) \/ e = Len(entries) + 1
    BY <1>3
  <2>4. \A e \in 1 .. Len(entries') : InChain(global, e)' => owner2[e] = 0
    <3>1. ASSUME NEW e \in 1 .. Len(entries'), InChain(global, e)' PROVE owner2[e] = 0
      <4>1. InChain(global, e)
        BY <1>2, <1>3, <2>1, <3>1
      <4>2. e \in 1 .. Len(entries)
        BY <1>2, <4>1, InChainEntry
      <4> QED BY <1>6, <2>1, <4>1, <4>2
    <3> QED BY <3>1
  <2>5. \A e \in 1 .. Len(entries') : InChain(scope, e)' => owner2[e] = f
    <3>1. ASSUME NEW e \in 1 .. Len(entries'), InChain(scope, e)' PROVE owner2[e] = f
      <4>1. InChain(scope, e) \/ e = Len(entries) + 1
        BY <1>2, <1>3, <2>2, <3>1
      <4>2. CASE e \in 1 .. Len(entries)
        BY <1>3, <1>6, <2>1, <4>1, <4>2
      <4>3. CASE e = Len(entries) + 1
        BY <1>6, <4>3
      <4> QED BY <2>3, <4>2, <4>3
    <3> QED BY <3>1
  <2> QED BY <2>1, <2>2, <2>4, <2>5 DEF ChainsOwned
<1>10. \A e \in 1 .. Len(entries') : entries'[e].id = 0
  <2>1. \A e \in 1 .. Len(entries) : entries[e].id = 0
    BY <1>1, NoIds
  <2> QED BY <1>3, <2>1 DEF ScopeEntry
<1>11. FnsTyped' /\ Unused' /\ Registers(own, owner2, slot2)' /\ Singles'
  BY <1>1, <1>10, NamesParts
<1> QED
  BY <1>7, <1>8, <1>9, <1>11

(* The walk goes on below the current node, or with what is pending.       *)
LEMMA WalkOn ==
  ASSUME Inv, NEW own, Walking(own), phase \in {"names", "translate"}, todo # << >>, prog' = prog,
         NEW tasks \in Seq(Tasks), Continue(tasks),
         \A i \in 1 .. Len(tasks) : tasks[i].k # "stmt" => own[tasks[i].n] = f
  PROVE  Walking(own)'
<1>1. todo' = tasks \o Tail(todo) /\ UNCHANGED <<phase, outcome, f, p, s>> /\ Fn' = Fn
  BY DEF Continue, Fn
<1>2. /\ Tail(todo) \in Seq(Tasks) /\ todo \in Seq(Tasks) /\ Len(Tail(todo)) = Len(todo) - 1
      /\ Len(todo) \in Nat
  BY Pending
<1>3. \A i \in 1 .. Len(Tail(todo)) : i + 1 \in 1 .. Len(todo) /\ Tail(todo)[i] = todo[i + 1]
  BY <1>2, HeadTailProperties
<1>4. /\ Len(todo') = Len(tasks) + Len(Tail(todo)) /\ Len(tasks) \in Nat /\ Len(Tail(todo)) \in Nat
      /\ \A i \in 1 .. Len(tasks) + Len(Tail(todo)) :
           todo'[i] = IF i <= Len(tasks) THEN tasks[i] ELSE Tail(todo)[i - Len(tasks)]
  BY <1>1, <1>2, ConcatProperties, LenProperties
<1>5. ASSUME NEW i \in 1 .. Len(todo'), todo'[i].k # "stmt" PROVE own[todo'[i].n] = f
  <2>1. CASE i <= Len(tasks)
    BY <1>4, <1>5, <2>1
  <2>2. CASE i > Len(tasks)
    <3>1. i - Len(tasks) \in 1 .. Len(Tail(todo)) /\ todo'[i] = Tail(todo)[i - Len(tasks)]
      BY <1>4, <1>5, <2>2
    <3>2. PICK j \in 1 .. Len(todo) : todo'[i] = todo[j]
      BY <1>3, <3>1
    <3> QED BY <1>5, <3>2 DEF Walking
  <2> QED BY <1>4, <1>5, <2>1, <2>2
<1> QED
  BY <1>1, <1>5 DEF Walking

LEMMA NodeOwned ==
  ASSUME Inv, NEW own, Owned(own), Walking(own), phase \in {"names", "translate"}, todo # << >>,
         Head(todo).k # "stmt"
  PROVE  /\ Node \in Nodes /\ own[Node] = f /\ f \in Fns /\ p > Len(Fn.params)
         /\ \A k \in 1 .. Len(Expr(Node).args) :
              Expr(Node).args[k] \in Nodes /\ own[Expr(Node).args[k]] = f
         /\ EnterAll(Expr(Node).args) \in Seq(Tasks)
         /\ \A i \in 1 .. Len(EnterAll(Expr(Node).args)) :
              own[EnterAll(Expr(Node).args)[i].n] = f
<1>1. Node \in Nodes /\ f \in Fns /\ Head(todo) = todo[1] /\ 1 \in 1 .. Len(todo)
  BY AtTask, Pending, HeadTailProperties
<1>2. own[Node] = f /\ p > Len(Fn.params)
  BY <1>1 DEF Walking, Node
<1>3. /\ Expr(Node).args \in Seq(Nat) /\ Len(Expr(Node).args) \in Nat
      /\ \A k \in 1 .. Len(Expr(Node).args) : Expr(Node).args[k] \in Nodes
  BY AtTask
<1>4. \A k \in 1 .. Len(Expr(Node).args) : own[Expr(Node).args[k]] = f
  BY <1>1, <1>2, OwnedMeans DEF Expr
<1>5. EnterAll(Expr(Node).args) \in Seq(Tasks)
  BY <1>1, EnterAllOK
<1>6. /\ Len(EnterAll(Expr(Node).args)) = Len(Expr(Node).args)
      /\ \A i \in 1 .. Len(Expr(Node).args) :
           EnterAll(Expr(Node).args)[i].n = Expr(Node).args[i]
  BY <1>3 DEF EnterAll, Enter, Task
<1> QED
  BY <1>1, <1>2, <1>3, <1>4, <1>5, <1>6

LEMMA ChainsKept ==
  ASSUME NEW owner, ChainsOwned(owner), phase = "names", UNCHANGED <<phase, scopes, entries>>,
         p' = 0 \/ (f' = f /\ p > 0)
  PROVE  ChainsOwned(owner)'
<1>1. scope' = scope /\ global' = global
  BY DEF scope, global
<1>2. \A t, e : InChain(t, e)' <=> InChain(t, e)
  BY DEF InChain
<1> QED
  BY <1>1, <1>2 DEF ChainsOwned

LEMMA PlacedKept ==
  ASSUME NEW owner, NEW slot, Placed(owner, slot), phase # "declare",
         UNCHANGED <<prog, phase, fnEntry, paramEntry, stmtVar>>, Len(entries') = Len(entries)
  PROVE  Placed(owner, slot)'
<1>1. /\ prog' = prog /\ fnEntry' = fnEntry /\ paramEntry' = paramEntry /\ stmtVar' = stmtVar
      /\ Fns' = Fns /\ phase' # "declare"
  BY DEF Fns
<1>2. /\ owner \in [1 .. Len(entries') -> 0 .. Len(prog'.fns)]
      /\ slot \in [1 .. Len(entries') -> Nat]
      /\ \A e \in 1 .. Len(entries') : owner[e] = 0 <=> e <= Len(prog'.fns)
  BY <1>1 DEF Placed
<1>3. Len(fnEntry') = Len(prog'.fns) /\ \A g \in 1 .. Len(fnEntry') : fnEntry'[g] = g
  BY <1>1 DEF Placed
<1>4. \A g \in Fns' : \A k \in 1 .. Len(paramEntry'[g]) :
        paramEntry'[g][k] # NULL => owner[paramEntry'[g][k]] = g /\ slot[paramEntry'[g][k]] = k
  BY <1>1 DEF Placed
<1>5. ASSUME NEW g \in Fns', NEW i \in 1 .. Len(prog'.fns[g].stmts), stmtVar'[g][i] # NULL
      PROVE  /\ owner[stmtVar'[g][i]] = g
             /\ slot[stmtVar'[g][i]] = Len(prog'.fns[g].params) + i
  <2>1. g \in Fns /\ i \in 1 .. Len(prog.fns[g].stmts) /\ stmtVar[g][i] # NULL
    BY <1>1, <1>5
  <2>2. owner[stmtVar[g][i]] = g /\ slot[stmtVar[g][i]] = Len(prog.fns[g].params) + i
    BY <2>1 DEF Placed
  <2> QED BY <1>1, <2>2
<1> QED
  BY <1>1, <1>2, <1>3, <1>4, <1>5, Zenon DEF Placed

(* A step of names that adds no entry.                                     *)
LEMMA PlainTracked ==
  ASSUME Inv, NEW own, NEW owner, NEW slot, Tracked(own, owner, slot), UNCHANGED irVars,
         phase = "names", UNCHANGED <<prog, phase, scopes, entries, fnEntry, paramEntry, stmtVar>>,
         p' = 0 \/ (f' = f /\ p > 0), Bound(own, owner)', Walking(own)'
  PROVE  Tracked(own, owner, slot)'
<1>1. Placed(owner, slot) /\ ChainsOwned(owner) /\ Singles /\ Unused
  BY DEF Tracked
<1>2. Placed(owner, slot)'
  BY <1>1, PlacedKept
<1>3. ChainsOwned(owner)'
  BY <1>1, ChainsKept
<1>4. FnsTyped' /\ Unused' /\ Registers(own, owner, slot)' /\ Singles'
  <2>1. \A e \in 1 .. Len(entries') : entries'[e].id = 0
    BY <1>1, NoIds
  <2> QED BY <1>1, <2>1, NamesParts
<1> QED
  BY <1>2, <1>3, <1>4 DEF Tracked

LEMMA ResolveNameTracked ==
  ASSUME Inv, NEW own, Owned(own), NEW owner, NEW slot, Tracked(own, owner, slot),
         NEW t \in {"var", "funcall"}, ResolveName(t), UNCHANGED irVars
  PROVE  Tracked(own, owner, slot)'
<1> DEFINE entry == scope_find(scope, Expr(Node).name)
<1>1. CASE Stop("name_not_in_scope")
  BY <1>1, StopTracked
<1>2. CASE entry # NULL
  <2>1. /\ phase = "names" /\ todo # << >> /\ Head(todo).k = "enter" /\ (Node # 0 => Expr(Node).t = t)
        /\ exprVar' = [exprVar EXCEPT ![Node] = entry]
        /\ Continue(EnterAll(Expr(Node).args)) /\ UNCHANGED <<prog, scopes, entries>>
        /\ UNCHANGED <<fnEntry, paramEntry, stmtVar>>
    BY <1>2 DEF ResolveName, At, In, Node
  <2>2. Bound(own, owner) /\ ChainsOwned(owner) /\ Walking(own)
    BY DEF Tracked
  <2>3. /\ Node \in Nodes /\ own[Node] = f /\ f \in Fns /\ p > Len(Fn.params)
        /\ EnterAll(Expr(Node).args) \in Seq(Tasks)
        /\ \A i \in 1 .. Len(EnterAll(Expr(Node).args)) : own[EnterAll(Expr(Node).args)[i].n] = f
    BY <2>1, <2>2, NodeOwned
  <2>4. p > 0
    <3>1. Len(Fn.params) \in Nat /\ p \in Nat
      BY <2>3, ControlTypes, InsideFn DEF Fns
    <3> QED BY <2>3, <3>1
  <2>5. Expr(Node).name \in Names
    <3>1. Node # 0 /\ ParsedExpr(Expr(Node), Node)
      BY <2>1, AtTask
    <3> QED BY <2>1, <3>1 DEF ParsedExpr
  <2>6. owner[entry] \in {0, f}
    BY <1>2, <2>1, <2>2, <2>4, <2>5, FoundName
  <2> HIDE DEF entry
  <2>7. Bound(own, owner)'
    <3>1. exprVar \in [Nodes -> 0 .. Len(entries)]
      BY InvParts DEF AnnotationsOK, Nodes
    <3>2. \A n \in Nodes : exprVar'[n] = IF n = Node THEN entry ELSE exprVar[n]
      BY <2>1, <3>1
    <3>3. Nodes' = Nodes
      BY <2>1 DEF Nodes
    <3> QED BY <2>2, <2>3, <2>6, <3>2, <3>3 DEF Bound
  <2>8. Walking(own)'
    BY <2>1, <2>2, <2>3, WalkOn
  <2>9. f' = f
    BY <2>1 DEF Continue
  <2>10. phase' = phase
    BY <2>1 DEF Continue
  <2> QED BY <2>1, <2>4, <2>7, <2>8, <2>9, <2>10, PlainTracked
<1> QED
  BY <1>1, <1>2 DEF ResolveName

LEMMA BoundKept ==
  ASSUME NEW own, NEW owner, Bound(own, owner), UNCHANGED <<prog, exprVar>>
  PROVE  Bound(own, owner)'
  BY DEF Bound, Nodes

LEMMA ResolveOperandsTracked ==
  ASSUME Inv, NEW own, Owned(own), NEW owner, NEW slot, Tracked(own, owner, slot),
         NEW t \in {"int", "binop"}, ResolveOperands(t), UNCHANGED irVars
  PROVE  Tracked(own, owner, slot)'
<1>1. /\ phase = "names" /\ todo # << >> /\ Head(todo).k = "enter"
      /\ Continue(EnterAll(Expr(Node).args)) /\ UNCHANGED <<prog, scopes, entries>>
      /\ UNCHANGED <<fnEntry, paramEntry, stmtVar, exprVar>>
  BY DEF ResolveOperands, At, In, annotations
<1>2. Bound(own, owner) /\ Walking(own)
  BY DEF Tracked
<1>3. /\ f \in Fns /\ p > Len(Fn.params) /\ EnterAll(Expr(Node).args) \in Seq(Tasks)
      /\ \A i \in 1 .. Len(EnterAll(Expr(Node).args)) : own[EnterAll(Expr(Node).args)[i].n] = f
  BY <1>1, <1>2, NodeOwned
<1>4. p > 0
  <2>1. Len(Fn.params) \in Nat /\ p \in Nat
    BY <1>3, ControlTypes, InsideFn DEF Fns
  <2> QED BY <1>3, <2>1
<1>5. Walking(own)'
  BY <1>1, <1>2, <1>3, WalkOn
<1>6. Bound(own, owner)'
  BY <1>1, <1>2, BoundKept
<1>7. f' = f /\ phase' = phase
  BY <1>1 DEF Continue
<1> QED
  BY <1>1, <1>4, <1>5, <1>6, <1>7, PlainTracked

LEMMA ValueWalk ==
  ASSUME Inv, NEW own, Owned(own), phase = "names", f \in Fns, p > Len(Fn.params),
         s <= Len(Fn.stmts), prog' = prog, ResolveValue
  PROVE  Walking(own)' /\ f' = f /\ phase' = phase /\ p' = p
<1>1. UNCHANGED <<phase, f, p>> /\ Fn' = Fn
  BY DEF ResolveValue, NextStmt, Fn
<1>2. CASE Stmt.value = NULL
  BY <1>1, <1>2, EmptySeq DEF ResolveValue, Walking
<1>3. CASE Stmt.value # NULL
  <2>1. todo' = <<Enter(Stmt.value)>>
    BY <1>3 DEF ResolveValue
  <2>2. s \in 1 .. Len(prog.fns[f].stmts)
    BY ControlTypes, InsideFn DEF Fn, Fns
  <2>3. own[Stmt.value] = f
    BY <1>3, <2>2, OwnedMeans DEF Stmt, Fn
  <2>4. Enter(Stmt.value).n = Stmt.value
    BY DEF Enter, Task
  <2>5. \A i \in 1 .. Len(todo') : own[todo'[i].n] = f
    BY <2>1, <2>3, <2>4
  <2> QED BY <1>1, <2>5 DEF Walking
<1> QED
  BY <1>1, <1>2, <1>3

LEMMA ResolveStmtTracked ==
  ASSUME Inv, NEW own, Owned(own), NEW owner, NEW slot, Tracked(own, owner, slot),
         ResolveStmt, UNCHANGED irVars
  PROVE  Tracked(own, owner, slot)'
<1>1. /\ phase = "names" /\ f <= Len(prog.fns) /\ p > Len(Fn.params) /\ s <= Len(Fn.stmts)
      /\ ResolveValue /\ UNCHANGED <<prog, scopes, entries>>
      /\ UNCHANGED <<fnEntry, paramEntry, stmtVar, exprVar>>
  BY DEF ResolveStmt, AtStmt, BetweenStmts, InFn, In, annotations
<1>2. f \in Fns /\ p > 0
  <2>1. Len(Fn.params) \in Nat /\ p \in Nat /\ f \in Fns
    BY <1>1, ControlTypes, InsideFn
  <2> QED BY <1>1, <2>1
<1>3. Walking(own)' /\ f' = f /\ phase' = phase
  BY <1>1, <1>2, ValueWalk
<1>4. Bound(own, owner)'
  BY <1>1, BoundKept DEF Tracked
<1> QED
  BY <1>1, <1>2, <1>3, <1>4, PlainTracked

LEMMA NamesLeaveFnTracked ==
  ASSUME Inv, NEW own, NEW owner, NEW slot, Tracked(own, owner, slot),
         Names_LeaveFn, UNCHANGED irVars
  PROVE  Tracked(own, owner, slot)'
<1>1. /\ phase = "names" /\ phase' = phase /\ todo = << >> /\ todo' = todo /\ p' = 0
      /\ UNCHANGED <<prog, scopes, entries>>
      /\ UNCHANGED <<fnEntry, paramEntry, stmtVar, exprVar>>
  BY DEF Names_LeaveFn, LeaveFn, NextFn, BetweenStmts, InFn, In, annotations
<1>2. Walking(own)'
  BY <1>1, EmptySeq DEF Walking
<1>3. Bound(own, owner)'
  BY <1>1, BoundKept DEF Tracked
<1> QED
  BY <1>1, <1>2, <1>3, PlainTracked

LEMMA ResolveLetTracked ==
  ASSUME Inv, NEW own, Owned(own), NEW owner, NEW slot, Tracked(own, owner, slot),
         ResolveLet, UNCHANGED irVars
  PROVE  \E owner2, slot2 : Tracked(own, owner2, slot2)'
<1>1. CASE Stop("name_redeclaration")
  BY <1>1, StopTracked
<1>2. CASE ~Redeclared(scope, Stmt.name)
  <2>1. /\ phase = "names" /\ f <= Len(prog.fns) /\ p > Len(Fn.params) /\ s <= Len(Fn.stmts)
        /\ Stmt.t = "let" /\ scope_insert(scope, Stmt.name, Stmt.type) /\ ResolveValue
        /\ stmtVar' = [stmtVar EXCEPT ![f][s] = scope_insert_result(scope, Stmt.name)]
        /\ UNCHANGED <<prog, fnEntry, paramEntry, exprVar>>
    BY <1>2 DEF ResolveLet, AtStmt, BetweenStmts, InFn, In
  <2>2. f \in Fns /\ p > 0 /\ s \in 1 .. Len(prog.fns[f].stmts) /\ Len(Fn.params) + s \in Nat
    <3>1. Len(Fn.params) \in Nat /\ p \in Nat /\ f \in Fns /\ s \in Nat \ {0}
      BY <2>1, ControlTypes, InsideFn
    <3>2. Len(Fn.stmts) \in Nat /\ Fn.stmts = prog.fns[f].stmts
      BY <2>1, InsideFn DEF Fn
    <3>3. s \in 1 .. Len(Fn.stmts)
      BY <2>1, <3>1, <3>2
    <3> QED BY <2>1, <3>1, <3>2, <3>3
  <2>3. Walking(own)' /\ f' = f /\ phase' = phase
    BY <2>1, <2>2, ValueWalk
  <2>4. Stmt.name \in Names /\ Stmt.type \in Types
    <3>1. Stmt \in Stmts(Nodes) /\ ParsedStmt(Stmt)
      BY <2>1, <2>2, InsideFn DEF Stmt, Fn
    <3>2. Stmt.name \in Names
      BY <2>1, <3>1 DEF ParsedStmt
    <3>3. Stmt.type \in Types
      BY <3>1, TypeKinds DEF Stmts
    <3> QED BY <3>2, <3>3
  <2>5. /\ find_in(scope, Stmt.name) = NULL
        /\ scope_insert_result(scope, Stmt.name) = Len(entries) + 1
    BY <1>2 DEF Redeclared, scope_insert_result, NULL
  <2> DEFINE k == Len(Fn.params) + s
  <2>6. \A g \in Fns : \A j \in 1 .. Len(paramEntry'[g]) :
           \/ j \in 1 .. Len(paramEntry[g]) /\ paramEntry'[g][j] = paramEntry[g][j]
           \/ paramEntry'[g][j] = Len(entries) + 1 /\ g = f /\ j = k
    BY <2>1
  <2>7. \A g \in Fns : \A i \in 1 .. Len(prog.fns[g].stmts) :
           \/ stmtVar'[g][i] = stmtVar[g][i]
           \/ stmtVar'[g][i] = Len(entries) + 1 /\ g = f /\ k = Len(prog.fns[g].params) + i
    <3>1. DOMAIN stmtVar = Fns /\ DOMAIN stmtVar[f] = 1 .. Len(prog.fns[f].stmts)
      BY <2>2, InvParts DEF AnnotationsOK, Fns
    <3>2. ASSUME NEW g \in Fns, NEW i \in 1 .. Len(prog.fns[g].stmts)
          PROVE  stmtVar'[g][i] = IF g = f /\ i = s THEN Len(entries) + 1 ELSE stmtVar[g][i]
      BY <2>1, <2>2, <2>5, <3>1
    <3> QED BY <3>2 DEF Fn
  <2>8. k \in Nat
    BY <2>2
  <2> HIDE DEF k
  <2>9. PICK owner2, slot2 :
           /\ Placed(owner2, slot2)' /\ Bound(own, owner2)' /\ ChainsOwned(owner2)'
           /\ FnsTyped' /\ Unused' /\ Registers(own, owner2, slot2)' /\ Singles'
    BY <2>1, <2>2, <2>3, <2>4, <2>5, <2>6, <2>7, <2>8, InsertTracked
  <2> QED BY <2>3, <2>9 DEF Tracked
<1> QED
  BY <1>1, <1>2 DEF ResolveLet

LEMMA InsertParamTracked ==
  ASSUME Inv, NEW own, NEW owner, NEW slot, Tracked(own, owner, slot),
         InsertParam, UNCHANGED irVars
  PROVE  \E owner2, slot2 : Tracked(own, owner2, slot2)'
<1> DEFINE name == Fn.params[p].name
           type == Fn.params[p].type
           new == scope_insert_result(scope, name)
<1>1. /\ phase = "names" /\ f <= Len(prog.fns) /\ p \in 1 .. Len(Fn.params) /\ p' = p + 1
      /\ scope_insert(scope, name, type)
      /\ paramEntry' = [paramEntry EXCEPT ![f] = Append(@, new)]
      /\ UNCHANGED <<prog, phase, f, todo>> /\ UNCHANGED <<fnEntry, stmtVar, exprVar>>
  BY DEF InsertParam, AtParam, InFn, In
<1>2. /\ f \in Fns /\ p > 0 /\ p \in Nat /\ Len(Fn.params) \in Nat /\ name \in Names /\ type \in Types
  <2>1. f \in Fns /\ Len(Fn.params) \in Nat /\ Fn.params \in Seq(Params)
    BY <1>1, InsideFn
  <2>2. Fn.params[p] \in Params
    BY <1>1, <2>1, ElementOfSeq
  <2>3. name \in Names /\ type \in Types
    BY <2>2, TypeKinds DEF Params
  <2> QED BY <1>1, <2>1, <2>3
<1> HIDE DEF name, type
<1>3. Walking(own)'
  <2>1. todo = << >>
    BY <1>1, <1>2 DEF Tracked, Walking
  <2> QED BY <1>1, <2>1, EmptySeq DEF Walking
<1>4. Len(entries) \in Nat /\ new \in {NULL, Len(entries) + 1}
  BY InvParts DEF TableOK, scope_insert_result
<1>5. new \in Nat
  BY <1>4 DEF NULL
<1>6. /\ paramEntry \in [Fns -> Seq(0 .. Len(entries))]
      /\ Len(paramEntry[f]) = p - 1
  BY <1>1, <1>2, InvParts DEF AnnotationsOK, LoopsOK, Fns
<1>7. paramEntry[f] \in Seq(Nat)
  <2>1. 0 .. Len(entries) \subseteq Nat
    BY <1>4
  <2>2. paramEntry[f] \in Seq(0 .. Len(entries))
    BY <1>2, <1>6
  <2> QED BY <2>1, <2>2, SeqMonotonic
<1> HIDE DEF new
<1>8. /\ Len(paramEntry'[f]) = p
      /\ \A j \in 1 .. p : paramEntry'[f][j] = IF j < p THEN paramEntry[f][j] ELSE new
      /\ \A g \in Fns : g # f => paramEntry'[g] = paramEntry[g]
  <2>1. paramEntry'[f] = Append(paramEntry[f], new) /\ \A g \in Fns : g # f => paramEntry'[g] = paramEntry[g]
    BY <1>1, <1>2, <1>6
  <2>2. /\ Len(paramEntry'[f]) = Len(paramEntry[f]) + 1
        /\ \A j \in 1 .. Len(paramEntry[f]) + 1 :
             paramEntry'[f][j] = IF j <= Len(paramEntry[f]) THEN paramEntry[f][j] ELSE new
    BY <1>5, <1>7, <2>1, OneMore
  <2> QED BY <1>2, <1>6, <2>1, <2>2
<1>9. \A g \in Fns : \A j \in 1 .. Len(paramEntry'[g]) :
         \/ j \in 1 .. Len(paramEntry[g]) /\ paramEntry'[g][j] = paramEntry[g][j]
         \/ paramEntry'[g][j] = new /\ g = f /\ j = p
  BY <1>2, <1>6, <1>8
<1>10. CASE find_in(scope, name) = NULL
  <2>1. new = Len(entries) + 1
    BY <1>10 DEF new, scope_insert_result, NULL
  <2>2. \A g \in Fns : \A j \in 1 .. Len(paramEntry'[g]) :
           \/ j \in 1 .. Len(paramEntry[g]) /\ paramEntry'[g][j] = paramEntry[g][j]
           \/ paramEntry'[g][j] = Len(entries) + 1 /\ g = f /\ j = p
    BY <1>9, <2>1
  <2>3. \A g \in Fns : \A i \in 1 .. Len(prog.fns[g].stmts) :
           \/ stmtVar'[g][i] = stmtVar[g][i]
           \/ stmtVar'[g][i] = Len(entries) + 1 /\ g = f /\ p = Len(prog.fns[g].params) + i
    BY <1>1
  <2>4. PICK owner2, slot2 :
           /\ Placed(owner2, slot2)' /\ Bound(own, owner2)' /\ ChainsOwned(owner2)'
           /\ FnsTyped' /\ Unused' /\ Registers(own, owner2, slot2)' /\ Singles'
    BY <1>1, <1>2, <1>10, <2>2, <2>3, InsertTracked
  <2> QED BY <1>3, <2>4 DEF Tracked
<1>11. CASE find_in(scope, name) # NULL
  <2>1. new = NULL /\ UNCHANGED <<scopes, entries>>
    BY <1>1, <1>11 DEF new, scope_insert_result, scope_insert
  <2>2. Placed(owner, slot) /\ Bound(own, owner) /\ ChainsOwned(owner) /\ Singles /\ Unused
    BY DEF Tracked
  <2>3. \A g \in Fns : \A j \in 1 .. Len(paramEntry'[g]) : paramEntry'[g][j] # NULL =>
          owner[paramEntry'[g][j]] = g /\ slot[paramEntry'[g][j]] = j
    BY <1>9, <2>1, <2>2, SMTT(60) DEF Placed
  <2>4. Placed(owner, slot)'
    BY <1>1, <2>1, <2>2, <2>3 DEF Placed, Fns
  <2>5. Bound(own, owner)'
    BY <1>1, <2>2, BoundKept
  <2>6. ChainsOwned(owner)'
    BY <1>1, <1>2, <2>1, <2>2, ChainsKept
  <2>7. FnsTyped' /\ Unused' /\ Registers(own, owner, slot)' /\ Singles'
    <3>1. \A e \in 1 .. Len(entries') : entries'[e].id = 0
      BY <1>1, <2>1, <2>2, NoIds
    <3> QED BY <1>1, <2>2, <3>1, NamesParts
  <2>8. Tracked(own, owner, slot)'
    BY <1>3, <2>4, <2>5, <2>6, <2>7 DEF Tracked
  <2> QED BY <2>8
<1> QED
  BY <1>10, <1>11

LEMMA NamesTracked ==
  ASSUME Inv, NEW own, Owned(own), NEW owner, NEW slot, Tracked(own, owner, slot),
         Names_Next, UNCHANGED irVars
  PROVE  \E owner2, slot2 : Tracked(own, owner2, slot2)'
<1>1. CASE DeclareFn \/ ResolveLet \/ InsertParam
  BY <1>1, DeclareFnTracked, ResolveLetTracked, InsertParamTracked
<1>2. CASE \/ Names_EnterFn \/ ResolveStmt \/ Names_LeaveFn
           \/ \E t \in {"var", "funcall"} : ResolveName(t)
           \/ \E t \in {"int", "binop"} : ResolveOperands(t)
  <2>1. Tracked(own, owner, slot)'
    BY <1>2, NamesEnterFnTracked, ResolveStmtTracked, NamesLeaveFnTracked,
       ResolveNameTracked, ResolveOperandsTracked
  <2> QED BY <2>1
<1> QED
  BY <1>1, <1>2 DEF Names_Next

-----------------------------------------------------------------------------
(* Types.  Only the types of entries change, and not those of functions    *)
(* once they have one.                                                     *)
Pointers == <<prog, phase, scopes, fnEntry, paramEntry, stmtVar, exprVar>>

LEMMA SetTypeKeeps ==
  ASSUME NEW type, SetType(type)
  PROVE  UNCHANGED <<prog, scopes, entries, fnEntry, paramEntry, stmtVar, exprVar>>
  BY DEF SetType

LEMMA StopKeeps ==
  ASSUME NEW how, Stop(how)
  PROVE  UNCHANGED Pointers /\ entries' = entries
  BY DEF Stop, Pointers, annotations

LEMMA TypesKeep ==
  ASSUME Types_Next
  PROVE  /\ UNCHANGED Pointers
         /\ \/ phase = "types" /\ entries' = entries
            \/ BuildFnType
            \/ phase = "types" /\ todo # << >> /\ Infer
<1>1. CASE BuildFnType
  BY <1>1 DEF BuildFnType, InFn, In, NextFn, Pointers, annotations
<1>2. CASE Types_EnterFn \/ Types_Stmt \/ EnterBinop \/ Types_LeaveFn
  <2>1. phase = "types" /\ phase' = phase /\ UNCHANGED <<prog, scopes, entries, annotations>>
    BY <1>2 DEF Types_EnterFn, Types_Stmt, EnterBinop, Types_LeaveFn, LeaveFn, AtStmt,
                BetweenStmts, InFn, In, At, Walk, SkipStmt, NextStmt, NextFn, Continue
  <2> QED BY <2>1 DEF Pointers, annotations
<1>3. CASE TypeInt \/ TypeCall
  <2>1. /\ phase = "types" /\ phase' = phase
        /\ UNCHANGED <<prog, scopes, entries, fnEntry, paramEntry, stmtVar, exprVar>>
    BY <1>3, SetTypeKeeps DEF TypeInt, TypeCall, At, In, Continue
  <2> QED BY <2>1 DEF Pointers
<1>4. CASE TypeBinop
  <2>1. phase = "types"
    BY <1>4 DEF TypeBinop, At, In
  <2>2. (\E how : Stop(how)) \/ \E type : SetType(type) /\ Continue(<< >>)
    BY <1>4 DEF TypeBinop
  <2>3. CASE \E how : Stop(how)
    BY <2>1, <2>3, StopKeeps
  <2>4. CASE \E type : SetType(type) /\ Continue(<< >>)
    BY <2>1, <2>4, SetTypeKeeps DEF Continue, Pointers
  <2> QED BY <2>2, <2>3, <2>4
<1>5. CASE TypeName
  <2>1. phase = "types"
    BY <1>5 DEF TypeName, At, In
  <2>2. \/ \E how : Stop(how)
        \/ (\E type : SetType(type)) /\ Continue(<< >>)
        \/ phase' = phase /\ UNCHANGED <<prog, scopes, entries, annotations>>
    BY <1>5 DEF TypeName, Continue
  <2>3. CASE \E how : Stop(how)
    BY <2>1, <2>3, StopKeeps
  <2>4. CASE (\E type : SetType(type)) /\ Continue(<< >>)
    BY <2>1, <2>4, SetTypeKeeps DEF Continue, Pointers
  <2>5. CASE phase' = phase /\ UNCHANGED <<prog, scopes, entries, annotations>>
    BY <2>1, <2>5 DEF Pointers, annotations
  <2> QED BY <2>2, <2>3, <2>4, <2>5
<1>6. CASE CheckArg
  <2>1. phase = "types"
    BY <1>6 DEF CheckArg, At, In
  <2>2. \/ \E how : Stop(how)
        \/ phase' = phase /\ UNCHANGED <<prog, scopes, entries, annotations>>
    BY <1>6 DEF CheckArg, Continue
  <2>3. CASE \E how : Stop(how)
    BY <2>1, <2>3, StopKeeps
  <2>4. CASE phase' = phase /\ UNCHANGED <<prog, scopes, entries, annotations>>
    BY <2>1, <2>4 DEF Pointers, annotations
  <2> QED BY <2>2, <2>3, <2>4
<1>7. CASE Types_EndStmt
  <2>1. phase = "types" /\ todo # << >>
    BY <1>7 DEF Types_EndStmt, At, In
  <2>2. \/ Infer
        \/ \E how : Stop(how)
        \/ phase' = phase /\ UNCHANGED <<prog, scopes, entries, annotations>>
    BY <1>7 DEF Types_EndStmt, NextStmt
  <2>3. CASE \E how : Stop(how)
    BY <2>1, <2>3, StopKeeps
  <2>4. CASE phase' = phase /\ UNCHANGED <<prog, scopes, entries, annotations>>
    BY <2>1, <2>4 DEF Pointers, annotations
  <2>5. CASE Infer
    BY <2>1, <2>5 DEF Infer, NextStmt, Pointers
  <2> QED BY <2>2, <2>3, <2>4, <2>5
<1> QED
  BY <1>1, <1>2, <1>3, <1>4, <1>5, <1>6, <1>7 DEF Types_Next

(* What an entry keeps when another part of it is written.                 *)
LEMMA EntryOnly ==
  ASSUME Inv, NEW e, NEW r, entries' = [entries EXCEPT ![e] = r]
  PROVE  /\ Len(entries') = Len(entries) /\ Len(entries) \in Nat
         /\ \A d \in 1 .. Len(entries) : entries'[d] = IF d = e THEN r ELSE entries[d]
<1>1. entries \in Seq(Entry) /\ Len(entries) \in Nat /\ DOMAIN entries = 1 .. Len(entries)
  BY InvParts, LenProperties DEF TableOK, Entry
<1>2. CASE e \in 1 .. Len(entries)
  <2>1. r \in {r} /\ entries \in Seq(Entry \cup {r})
    BY <1>1, SeqMonotonic
  <2>2. Len(entries') = Len(entries)
    BY <1>2, <2>1, ExceptSeq
  <2> QED BY <1>1, <2>2
<1>3. CASE e \notin 1 .. Len(entries)
  <2>1. entries' = entries
    BY <1>1, <1>3
  <2> QED BY <1>1, <1>3, <2>1
<1> QED
  BY <1>2, <1>3

(* A step of a pass over the finished symbol table that makes no register. *)
LEMMA LaterTracked ==
  ASSUME Inv, NEW own, NEW owner, NEW slot, Tracked(own, owner, slot), UNCHANGED Pointers,
         phase \notin {"declare", "names", "translate", "done"}, result' = result,
         Len(entries') = Len(entries),
         \A e \in 1 .. Len(entries) : entries'[e].id = entries[e].id,
         FnsTyped', Singles'
  PROVE  Tracked(own, owner, slot)'
<1>1. /\ UNCHANGED <<prog, phase, scopes, fnEntry, paramEntry, stmtVar, exprVar>>
      /\ Fns' = Fns /\ Nodes' = Nodes
  BY DEF Pointers, Fns, Nodes
<1>2. Placed(owner, slot) /\ Bound(own, owner) /\ Unused
  BY DEF Tracked
<1>3. Placed(owner, slot)'
  BY <1>1, <1>2, SMTT(60) DEF Placed
<1>4. Bound(own, owner)'
  BY <1>1, <1>2 DEF Bound
<1>5. ChainsOwned(owner)' /\ Walking(own)' /\ Registers(own, owner, slot)'
  BY <1>1 DEF ChainsOwned, Walking, Registers
<1>6. Unused'
  BY <1>1, <1>2 DEF Unused
<1> QED
  BY <1>3, <1>4, <1>5, <1>6 DEF Tracked

LEMMA SinglesKept == ASSUME Singles, UNCHANGED irVars PROVE Singles' /\ result' = result
  BY DEF Singles, irVars

LEMMA FnEntryFirst ==
  ASSUME Inv, NEW owner, NEW slot, Placed(owner, slot), phase # "declare"
  PROVE  \A g \in Fns : g \in 1 .. Len(entries)
<1>1. fnEntry \in Seq(1 .. Len(entries)) /\ Len(fnEntry) = Len(prog.fns)
  BY InvParts, PlacedParts DEF AnnotationsOK
<1>2. ASSUME NEW g \in Fns PROVE g \in 1 .. Len(entries)
  <2>1. g \in 1 .. Len(fnEntry) /\ fnEntry[g] = g
    BY <1>1, PlacedParts DEF Fns
  <2>2. fnEntry[g] \in 1 .. Len(entries)
    BY <1>1, <2>1, ElementOfSeq
  <2> QED BY <2>1, <2>2
<1> QED
  BY <1>2

LEMMA BuildFnTypeTracked ==
  ASSUME Inv, NEW own, NEW owner, NEW slot, Tracked(own, owner, slot),
         BuildFnType, UNCHANGED irVars
  PROVE  Tracked(own, owner, slot)'
<1> DEFINE list == [i \in 1 .. Len(Fn.params) |-> Fn.params[i].type]
           type == FnType(Fn.ret, list)
           r == [entries[f] EXCEPT !.type = type]
<1>1. /\ phase = "signatures" /\ f <= Len(prog.fns) /\ phase' = phase /\ f' = f + 1
      /\ UNCHANGED Pointers /\ prog' = prog
      /\ entries' = [entries EXCEPT ![fnEntry[f]].type = type]
  BY DEF BuildFnType, InFn, In, NextFn, Pointers, annotations
<1>2. f \in Fns /\ f \in Nat /\ fnEntry[f] = f
  <2>1. Placed(owner, slot)
    BY DEF Tracked
  <2>2. f \in Fns /\ f \in Nat
    BY <1>1, ControlTypes, InsideFn
  <2> QED BY <1>1, <2>1, <2>2, PlacedParts DEF Fns
<1>3. type \in FnTypes
  <2>1. ASSUME NEW i \in 1 .. Len(Fn.params) PROVE Fn.params[i].type \in Builtins
    <3>1. Fn.params[i] \in Params
      BY <1>1, InsideFn, ElementOfSeq
    <3> QED BY <3>1, TypeKinds DEF Params
  <2>2. list \in [1 .. Len(Fn.params) -> Builtins]
    BY <2>1
  <2>3. list \in Seq(Builtins)
    BY <1>1, <2>2, InsideFn, FcnIsSeq
  <2> QED BY <1>1, <2>3, InsideFn, TypeKinds
<1> HIDE DEF type
<1>4. entries' = [entries EXCEPT ![f] = r]
  BY <1>1, <1>2
<1>5. f \in 1 .. Len(entries) => r.type = type /\ r.id = entries[f].id
  <2>1. f \in 1 .. Len(entries) => entries[f] \in Entry
    BY EntryParts, InvParts
  <2> QED BY <2>1 DEF Entry
<1> HIDE DEF r
<1>6. /\ Len(entries') = Len(entries) /\ Len(entries) \in Nat
      /\ \A d \in 1 .. Len(entries) : entries'[d] = IF d = f THEN r ELSE entries[d]
  BY <1>4, EntryOnly
<1>7. \A e \in 1 .. Len(entries) : entries'[e].id = entries[e].id
  BY <1>5, <1>6
<1>8. \A g \in Fns : g \in 1 .. Len(entries)
  BY <1>1, FnEntryFirst DEF Tracked
<1>9. FnsTyped'
  <2>1. \A g \in Fns : g < f => entries[g].type \in FnTypes
    BY <1>1 DEF Tracked, FnsTyped
  <2>2. ASSUME NEW g \in Fns, g < f + 1 PROVE entries'[g].type \in FnTypes
    <3>1. CASE g = f
      BY <1>2, <1>3, <1>5, <1>6, <1>8, <3>1
    <3>2. CASE g # f
      <4>1. g < f
        BY <1>2, <2>2, <3>2 DEF Fns
      <4> QED BY <1>6, <1>8, <2>1, <3>2, <4>1
    <3> QED BY <3>1, <3>2
  <2>3. Fns' = Fns
    BY <1>1 DEF Fns
  <2> QED BY <1>1, <2>2, <2>3 DEF FnsTyped
<1>10. Singles' /\ result' = result
  BY SinglesKept DEF Tracked
<1> QED
  BY <1>1, <1>6, <1>7, <1>9, <1>10, LaterTracked

LEMMA InferTracked ==
  ASSUME Inv, NEW own, NEW owner, NEW slot, Tracked(own, owner, slot),
         phase = "types", todo # << >>, Infer, UNCHANGED Pointers, UNCHANGED irVars
  PROVE  Tracked(own, owner, slot)'
<1> DEFINE e == stmtVar[f][s]
           type == exprType[Stmt.value]
           r == [entries[e] EXCEPT !.type = type]
<1>1. entries' = [entries EXCEPT ![e] = r] /\ UNCHANGED <<prog, phase>>
  BY DEF Infer, Pointers
<1>2. f \in Fns /\ s \in 1 .. Len(prog.fns[f].stmts)
  BY CurrentStmt
<1>3. e \in 0 .. Len(entries) /\ Len(entries) \in Nat
  <2>1. e \in 0 .. Len(entries)
    BY <1>2, InvParts DEF AnnotationsOK, Fns
  <2> QED BY <2>1, InvParts DEF TableOK
<1>4. e # NULL => owner[e] = f
  BY <1>2 DEF Tracked, Placed
<1> HIDE DEF e, type
<1>5. e \notin Fns
  <2>1. CASE e = 0
    BY <2>1 DEF Fns
  <2>2. CASE e # 0
    <3>1. e \in 1 .. Len(entries) /\ owner[e] # 0
      BY <1>2, <1>3, <1>4, <2>2 DEF NULL, Fns
    <3>2. owner[e] = 0 <=> e <= Len(prog.fns)
      BY <3>1, PlacedParts DEF Tracked
    <3> QED BY <3>1, <3>2 DEF Fns
  <2> QED BY <2>1, <2>2
<1>6. e \in 1 .. Len(entries) => r.id = entries[e].id
  <2>1. e \in 1 .. Len(entries) => entries[e] \in Entry
    BY EntryParts, InvParts
  <2> QED BY <2>1 DEF Entry
<1> HIDE DEF r
<1>7. /\ Len(entries') = Len(entries)
      /\ \A d \in 1 .. Len(entries) : entries'[d] = IF d = e THEN r ELSE entries[d]
  BY <1>1, EntryOnly
<1>8. \A d \in 1 .. Len(entries) : entries'[d].id = entries[d].id
  BY <1>6, <1>7
<1>9. FnsTyped'
  <2>1. \A g \in Fns : entries[g].type \in FnTypes
    BY DEF Tracked, FnsTyped
  <2>2. \A g \in Fns : g # e
    BY <1>5
  <2>3. \A g \in Fns : entries'[g] = entries[g]
    BY <1>1, <2>2
  <2>4. Fns' = Fns
    BY <1>1 DEF Fns
  <2> QED BY <1>1, <2>1, <2>3, <2>4 DEF FnsTyped
<1>10. Singles' /\ result' = result
  BY SinglesKept DEF Tracked
<1> QED
  BY <1>7, <1>8, <1>9, <1>10, LaterTracked

LEMMA TypesTracked ==
  ASSUME Inv, NEW own, NEW owner, NEW slot, Tracked(own, owner, slot),
         Types_Next, UNCHANGED irVars
  PROVE  Tracked(own, owner, slot)'
<1>1. UNCHANGED Pointers
  BY TypesKeep
<1>2. CASE phase = "types" /\ entries' = entries
  <2>1. FnsTyped'
    BY <1>1, <1>2 DEF Tracked, FnsTyped, Fns, Pointers
  <2>2. Singles' /\ result' = result
    BY SinglesKept DEF Tracked
  <2> QED BY <1>1, <1>2, <2>1, <2>2, LaterTracked
<1> QED
  BY <1>1, <1>2, TypesKeep, BuildFnTypeTracked, InferTracked

LEMMA ReturnsTracked ==
  ASSUME Inv, NEW own, NEW owner, NEW slot, Tracked(own, owner, slot),
         CheckReturns, UNCHANGED irVars
  PROVE  Tracked(own, owner, slot)'
<1>1. phase = "returns"
  BY DEF CheckReturns, InFn, In
<1>2. CASE \E how : Stop(how)
  BY <1>2, StopTracked
<1>3. CASE NextFn /\ UNCHANGED <<prog, scopes, entries, annotations>>
  <2>1. UNCHANGED Pointers /\ UNCHANGED <<phase, entries, prog>>
    BY <1>3 DEF NextFn, Pointers, annotations
  <2>2. FnsTyped'
    BY <1>1, <2>1 DEF Tracked, FnsTyped, Fns
  <2>3. Singles' /\ result' = result
    BY SinglesKept DEF Tracked
  <2> QED BY <1>1, <2>1, <2>2, <2>3, LaterTracked
<1> QED
  BY <1>2, <1>3 DEF CheckReturns

-----------------------------------------------------------------------------
(* Between the passes.                                                     *)
LEMMA EmptySingle == Single(SSA_Fn)
<1>1. SSA_Fn \in SSA_Fns
  BY EmptySeq DEF SSA_Fn, SSA_Fns
<1>2. Len(SSA_Fn.params) = 0 /\ Len(SSA_Fn.insts) = 0
  BY EmptySeq DEF SSA_Fn
<1> QED
  BY <1>1, <1>2 DEF Single

LEMMA AllocFnTracked ==
  ASSUME Inv, NEW own, NEW owner, NEW slot, Tracked(own, owner, slot), AllocFn
  PROVE  Tracked(own, owner, slot)'
<1> DEFINE e == fnEntry[f]
           ptr == <<fnsAlloc', Len(ssaFns) + 1>>
           r == [entries[e] EXCEPT !.fn = ptr]
<1>1. /\ phase = "alloc_fns" /\ phase' = phase
      /\ ssaFns' = Append(ssaFns, SSA_Fn)
      /\ entries' = [entries EXCEPT ![e] = r]
      /\ UNCHANGED Pointers /\ UNCHANGED <<prog, result>>
  BY DEF AllocFn, InFn, In, NextFn, Pointers, annotations
<1> HIDE DEF e, ptr
<1>2. e \in 1 .. Len(entries) => r.id = entries[e].id /\ r.type = entries[e].type
  <2>1. e \in 1 .. Len(entries) => entries[e] \in Entry
    BY EntryParts, InvParts
  <2> QED BY <2>1 DEF Entry
<1> HIDE DEF r
<1>3. /\ Len(entries') = Len(entries) /\ Len(entries) \in Nat
      /\ \A d \in 1 .. Len(entries) : entries'[d] = IF d = e THEN r ELSE entries[d]
  BY <1>1, EntryOnly
<1>4. \A d \in 1 .. Len(entries) : /\ entries'[d].id = entries[d].id
                                   /\ entries'[d].type = entries[d].type
  BY <1>2, <1>3
<1>5. FnsTyped'
  <2>1. \A g \in Fns : g \in 1 .. Len(entries)
    BY <1>1, FnEntryFirst DEF Tracked
  <2>2. \A g \in Fns : entries[g].type \in FnTypes
    BY <1>1 DEF Tracked, FnsTyped
  <2>3. Fns' = Fns
    BY <1>1 DEF Fns
  <2> QED BY <1>1, <1>4, <2>1, <2>2, <2>3 DEF FnsTyped
<1>6. Singles'
  <2>1. ssaFns \in Seq(SSA_Fns) /\ SSA_Fn \in SSA_Fns
    BY InvParts, EmptySingle DEF IrOK, Single
  <2>2. /\ Len(ssaFns') = Len(ssaFns) + 1 /\ Len(ssaFns) \in Nat
        /\ \A g \in 1 .. Len(ssaFns) + 1 :
             ssaFns'[g] = IF g <= Len(ssaFns) THEN ssaFns[g] ELSE SSA_Fn
    BY <1>1, <2>1, OneMore
  <2> QED BY <2>2, EmptySingle DEF Tracked, Singles
<1> QED
  BY <1>1, <1>3, <1>4, <1>5, <1>6, LaterTracked

LEMMA EndPhaseTracked ==
  ASSUME Inv, NEW own, NEW owner, NEW slot, Tracked(own, owner, slot),
         EndPhase, UNCHANGED irVars
  PROVE  Tracked(own, owner, slot)'
<1>1. /\ UNCHANGED <<prog, scopes, entries, fnEntry, paramEntry, stmtVar, exprVar, todo>>
      /\ UNCHANGED <<ssaFns, result>>
      /\ phase # "done" /\ phase' = NextPhase[phase] /\ f > Len(prog.fns)
      /\ f' = 1 /\ p' = 0 /\ s' = 1
  BY DEF EndPhase, annotations, irVars
<1>2. /\ phase' # "declare"
      /\ phase' = "names" => phase = "declare"
      /\ phase' = "signatures" => phase = "names"
      /\ phase' \notin {"declare", "names", "signatures"} => phase \notin {"declare", "names"}
      /\ phase' = "translate" => phase = "alloc_fns"
      /\ phase' \notin {"translate", "done"} => phase \notin {"translate", "done"}
  BY <1>1, ControlTypes DEF NextPhase, Phases
<1>3. /\ Placed(owner, slot) /\ Bound(own, owner) /\ ChainsOwned(owner) /\ FnsTyped /\ Unused
      /\ Singles
  BY DEF Tracked
<1>4. todo = << >> /\ todo' = << >> /\ f = Len(prog.fns) + 1 /\ Len(prog.fns) \in Nat
  <2>1. todo = << >>
    BY <1>1, InvParts, ControlTypes DEF WalkOK
  <2> QED BY <1>1, <2>1, ControlTypes
<1>5. Placed(owner, slot)'
  <2>1. Len(fnEntry) = Len(prog.fns)
    BY <1>3, <1>4, PlacedParts
  <2>2. Fns' = Fns
    BY <1>1 DEF Fns
  <2> QED BY <1>1, <1>2, <1>3, <2>1, <2>2, SMTT(60) DEF Placed
<1>6. Bound(own, owner)'
  BY <1>1, <1>3, BoundKept
<1>7. ChainsOwned(owner)'
  <2>1. global' = global /\ \A t, e : InChain(t, e)' <=> InChain(t, e)
    BY <1>1 DEF global, InChain
  <2> QED BY <1>1, <1>2, <1>3, <2>1 DEF ChainsOwned
<1>8. Walking(own)'
  BY <1>4, EmptySeq DEF Walking
<1>9. FnsTyped'
  <2>1. Fns' = Fns /\ \A g \in Fns : g < f /\ ~(g < 1)
    BY <1>1, <1>4 DEF Fns
  <2> QED BY <1>1, <1>2, <1>3, <2>1 DEF FnsTyped
<1>10. Unused' /\ Singles'
  BY <1>1, <1>2, <1>3 DEF Unused, Singles, Nodes
<1>11. Registers(own, owner, slot)'
  <2>1. ASSUME phase' = "translate"
        PROVE  /\ \A e \in 1 .. Len(entries) : entries[e].id = 0
               /\ \A n \in Nodes : result[n] = 0
    BY <1>2, <1>3, <2>1 DEF Unused
  <2>2. Nodes' = Nodes /\ Fns' = Fns
    BY <1>1 DEF Nodes, Fns
  <2>3. ASSUME phase' = "translate", f' \in Fns'
        PROVE  /\ Fit(Ids', Mine(owner)', Waiting(owner, slot)', ssaFns'[f'])
               /\ Len(ssaFns'[f'].regs) \in Nat
    <3>1. /\ \A e \in Mine(owner)' : Ids'[e] = 0
          /\ Waiting(owner, slot)' \subseteq Mine(owner)'
      BY <1>1, <2>1, <2>3 DEF Ids, Mine, Waiting
    <3>2. Len(ssaFns) = Len(prog.fns)
      BY <1>2, <1>4, <2>3, InvParts DEF LoopsOK
    <3>3. Single(ssaFns'[f'])
      BY <1>1, <1>3, <2>2, <2>3, <3>2 DEF Singles, Fns
    <3>4. Len(ssaFns'[f'].regs) \in Nat
      BY <3>3, LenProperties DEF Single, SSA_Fns
    <3> QED BY <3>1, <3>3, <3>4 DEF Fit
  <2> QED BY <1>1, <2>1, <2>2, <2>3 DEF Registers
<1> QED
  BY <1>5, <1>6, <1>7, <1>8, <1>9, <1>10, <1>11 DEF Tracked

-----------------------------------------------------------------------------
(* Translation.  What a new register, a register for an entry, and one     *)
(* more instruction or parameter do to Fit.                                *)
LEMMA FitParts ==
  ASSUME NEW ids, NEW mine, NEW pending, NEW fn, Fit(ids, mine, pending, fn)
  PROVE  /\ Single(fn) /\ fn \in SSA_Fns /\ Len(fn.regs) \in Nat
         /\ \A e \in mine : ids[e] \in 0 .. Len(fn.regs)
         /\ \A e, d \in mine : ids[e] = ids[d] /\ ids[e] # 0 => e = d
         /\ pending \subseteq mine
         /\ \A e \in pending : ids[e] # 0 => ~Sets(fn, ids[e])
<1>1. fn \in SSA_Fns
  BY DEF Fit, Single
<1>2. fn.regs \in Seq(Sizes)
  BY <1>1 DEF SSA_Fns
<1>3. Len(fn.regs) \in Nat
  BY <1>2, LenProperties
<1> QED
  BY <1>1, <1>3 DEF Fit

LEMMA FitFresh ==
  ASSUME NEW ids, NEW mine, NEW pending, NEW fn, Fit(ids, mine, pending, fn),
         NEW sz \in Sizes, NEW fn1 \in SSA_Fns,
         fn1.regs = fn.regs \o <<sz>>, fn1.insts = fn.insts, fn1.params = fn.params
  PROVE  /\ Fit(ids, mine, pending, fn1) /\ Len(fn1.regs) = Len(fn.regs) + 1
         /\ Len(fn.regs) \in Nat /\ ~Sets(fn1, Len(fn.regs) + 1)
         /\ \A e \in mine : ids[e] # Len(fn.regs) + 1
<1>1. /\ Single(fn1) /\ Len(fn1.regs) = Len(fn.regs) + 1 /\ Len(fn.regs) \in Nat
      /\ \A r : Sets(fn1, r) <=> Sets(fn, r)
      /\ ~Sets(fn1, Len(fn.regs) + 1)
  BY FitParts, WithReg
<1>2. /\ \A e \in mine : ids[e] \in 0 .. Len(fn.regs)
      /\ \A e, d \in mine : ids[e] = ids[d] /\ ids[e] # 0 => e = d
      /\ pending \subseteq mine
      /\ \A e \in pending : ids[e] # 0 => ~Sets(fn, ids[e])
  BY FitParts
<1>3. \A e \in mine : ids[e] \in 0 .. Len(fn1.regs) /\ ids[e] # Len(fn.regs) + 1
  BY <1>1, <1>2
<1>4. Fit(ids, mine, pending, fn1)
  BY <1>1, <1>2, <1>3 DEF Fit
<1> QED
  BY <1>1, <1>3, <1>4

Grown(fn1, fn, regs) ==
  fn1 \in SSA_Fns /\ fn1.regs = fn.regs \o regs /\ fn1.insts = fn.insts /\ fn1.params = fn.params
Renewed(ids1, ids, mine, e, x) ==
  e \in mine /\ ids1[e] = x /\ \A d \in mine : d # e => ids1[d] = ids[d]

LEMMA FitReg ==
  ASSUME NEW ids, NEW mine, NEW pending, NEW fn, NEW e, NEW sz \in Sizes, NEW fn1, NEW ids1,
         Fit(ids, mine, pending, fn), Grown(fn1, fn, <<sz>>),
         Renewed(ids1, ids, mine, e, Len(fn.regs) + 1)
  PROVE  Fit(ids1, mine, pending, fn1) /\ ids1[e] \in 1 .. Len(fn1.regs)
<1>0. e \in mine /\ ids1[e] = Len(fn.regs) + 1 /\ \A d \in mine : d # e => ids1[d] = ids[d]
  BY DEF Renewed
<1>1. /\ Fit(ids, mine, pending, fn1) /\ Len(fn1.regs) = Len(fn.regs) + 1
      /\ Len(fn.regs) \in Nat /\ ~Sets(fn1, Len(fn.regs) + 1)
      /\ \A d \in mine : ids[d] # Len(fn.regs) + 1
  BY FitFresh DEF Grown
<1>2. /\ Single(fn1)
      /\ \A d \in mine : ids[d] \in 0 .. Len(fn1.regs)
      /\ \A a, b \in mine : ids[a] = ids[b] /\ ids[a] # 0 => a = b
      /\ pending \subseteq mine
      /\ \A d \in pending : ids[d] # 0 => ~Sets(fn1, ids[d])
  BY <1>1, FitParts
<1>3. ids1[e] \in 1 .. Len(fn1.regs) /\ \A d \in mine : ids1[d] \in 0 .. Len(fn1.regs)
  BY <1>0, <1>1, <1>2
<1>4. \A a, b \in mine : ids1[a] = ids1[b] /\ ids1[a] # 0 => a = b
  BY <1>0, <1>1, <1>2
<1>5. \A d \in pending : ids1[d] # 0 => ~Sets(fn1, ids1[d])
  BY <1>0, <1>1, <1>2
<1> QED
  BY <1>2, <1>3, <1>4, <1>5 DEF Fit

LEMMA FitInst ==
  ASSUME NEW ids, NEW mine, NEW pending, NEW fn, Fit(ids, mine, pending, fn),
         NEW inst \in Insts, InstFits(inst, Len(fn.regs)),
         inst.result # 0 => ~Sets(fn, inst.result), NEW fn2 \in SSA_Fns,
         fn2.regs = fn.regs, fn2.insts = fn.insts \o <<inst>>, fn2.params = fn.params,
         NEW left, left \subseteq pending, \A e \in left : ids[e] # 0 => ids[e] # inst.result
  PROVE  Fit(ids, mine, left, fn2)
<1>1. Single(fn2) /\ \A r : Sets(fn2, r) <=> Sets(fn, r) \/ r = inst.result
  BY FitParts, WithInst
<1>2. /\ \A e \in mine : ids[e] \in 0 .. Len(fn2.regs)
      /\ \A e, d \in mine : ids[e] = ids[d] /\ ids[e] # 0 => e = d
      /\ pending \subseteq mine
      /\ \A e \in pending : ids[e] # 0 => ~Sets(fn, ids[e])
  BY FitParts
<1> QED
  BY <1>1, <1>2 DEF Fit

LEMMA FitParam ==
  ASSUME NEW ids, NEW mine, NEW pending, NEW fn, Fit(ids, mine, pending, fn),
         NEW x \in 1 .. Len(fn.regs), ~Sets(fn, x), NEW fn2 \in SSA_Fns,
         fn2.regs = fn.regs, fn2.insts = fn.insts, fn2.params = Append(fn.params, x),
         NEW left, left \subseteq pending, \A e \in left : ids[e] # x
  PROVE  Fit(ids, mine, left, fn2)
<1>1. Single(fn2) /\ \A r : Sets(fn2, r) <=> Sets(fn, r) \/ r = x
  BY FitParts, WithParam
<1>2. /\ \A e \in mine : ids[e] \in 0 .. Len(fn2.regs)
      /\ \A e, d \in mine : ids[e] = ids[d] /\ ids[e] # 0 => e = d
      /\ pending \subseteq mine
      /\ \A e \in pending : ids[e] # 0 => ~Sets(fn, ids[e])
  BY FitParts
<1> QED
  BY <1>1, <1>2 DEF Fit

(* The code of a function is the same but for its name.                    *)
LEMMA SingleSame ==
  ASSUME NEW fn, Single(fn), NEW fn2 \in SSA_Fns,
         fn2.regs = fn.regs, fn2.insts = fn.insts, fn2.params = fn.params
  PROVE  Single(fn2)
  BY DEF Single

LEMMA Translating ==
  ASSUME Inv, NEW own, NEW owner, NEW slot, Tracked(own, owner, slot), phase = "translate",
         f \in Fns
  PROVE  /\ Fit(Ids, Mine(owner), Waiting(owner, slot), ssaFns[f])
         /\ \A e \in 1 .. Len(entries) : owner[e] \notin 1 .. f => entries[e].id = 0
         /\ \A n \in Nodes : own[n] > f => result[n] = 0
         /\ \A n \in Nodes : own[n] = f => result[n] \in 0 .. Len(ssaFns[f].regs)
         /\ Len(ssaFns) = Len(prog.fns) /\ f \in Nat
  BY InvParts, ControlTypes DEF Tracked, Registers, LoopsOK

(* sym_table_reg for an entry of the current function.                     *)
LEMMA EntryReg ==
  ASSUME Inv, NEW own, NEW owner, NEW slot, Tracked(own, owner, slot), phase = "translate",
         f \in Fns, NEW e \in 1 .. Len(entries), owner[e] = f,
         \A how \in Abnormal : ~reg_fails(e, how), set_id(e),
         NEW fn1 \in SSA_Fns, fn1.regs = ssaFns[f].regs \o new_regs(e),
         fn1.insts = ssaFns[f].insts, fn1.params = ssaFns[f].params
  PROVE  /\ Fit(Ids', Mine(owner), Waiting(owner, slot), fn1)
         /\ sym_table_reg(e) \in 1 .. Len(fn1.regs) /\ Ids'[e] = sym_table_reg(e)
         /\ Len(fn1.regs) \in Nat /\ Len(ssaFns[f].regs) \in Nat
         /\ Len(ssaFns[f].regs) <= Len(fn1.regs)
         /\ Len(entries') = Len(entries)
         /\ \A d \in 1 .. Len(entries) : /\ entries'[d].type = entries[d].type
                                         /\ d # e => entries'[d].id = entries[d].id
<1> DEFINE r == [entries[e] EXCEPT !.id = sym_table_reg(e)]
<1>1. entries' = [entries EXCEPT ![e] = r]
  BY DEF set_id
<1>2. r.id = sym_table_reg(e) /\ r.type = entries[e].type
  <2>1. entries[e] \in Entry
    BY InvParts, EntryParts
  <2> QED BY <2>1 DEF Entry
<1> HIDE DEF r
<1>3. /\ Len(entries') = Len(entries) /\ Len(entries) \in Nat
      /\ \A d \in 1 .. Len(entries) : entries'[d] = IF d = e THEN r ELSE entries[d]
  BY <1>1, EntryOnly
<1>4. \A d \in 1 .. Len(entries) : /\ entries'[d].type = entries[d].type
                                   /\ entries'[d].id = IF d = e THEN sym_table_reg(e) ELSE entries[d].id
  BY <1>2, <1>3
<1>5. /\ Fit(Ids, Mine(owner), Waiting(owner, slot), ssaFns[f]) /\ e \in Mine(owner)
      /\ Mine(owner) \subseteq 1 .. Len(entries)
  BY Translating DEF Mine
<1>6. /\ \A d \in 1 .. Len(entries) : Ids[d] = entries[d].id
      /\ \A d \in 1 .. Len(entries) : Ids'[d] = entries'[d].id
  BY <1>3 DEF Ids
<1>7. /\ Ids'[e] = sym_table_reg(e) /\ Ids[e] = entries[e].id
      /\ \A d \in Mine(owner) : d # e => Ids'[d] = Ids[d]
      /\ \A d \in Mine(owner) : Ids[d] = entries[d].id
  BY <1>4, <1>5, <1>6
<1>8. /\ ssaFns[f] \in SSA_Fns /\ ssaFns[f].regs \in Seq(Sizes) /\ Len(ssaFns[f].regs) \in Nat
      /\ \A d \in Mine(owner) : Ids[d] \in 0 .. Len(ssaFns[f].regs)
  BY <1>5, FitParts, CurrentFn
<1>9. PICK ids : ids = Ids
  OBVIOUS
<1>10. PICK ids1 : ids1 = Ids'
  OBVIOUS
<1>11. CASE entries[e].id = 0
  <2> DEFINE sz == type_sz(entries[e].type)
  <2>1. new_regs(e) = <<sz>> /\ sym_table_reg(e) = Len(ssaFns[f].regs) + 1
    BY <1>11 DEF new_regs, sym_table_reg, ssa_new_reg
  <2>2. sz \in Sizes
    <3>1. \A how \in Abnormal : ~size_fails(entries[e].type, how)
      BY <1>3, <1>11 DEF reg_fails, NULL
    <3> QED BY <3>1, SizeOK
  <2> HIDE DEF sz
  <2>3. Len(fn1.regs) = Len(ssaFns[f].regs) + 1
    BY <1>8, <2>1, <2>2, OneMore
  <2>4. Fit(ids1, Mine(owner), Waiting(owner, slot), fn1) /\ ids1[e] \in 1 .. Len(fn1.regs)
    <3>1. Fit(ids, Mine(owner), Waiting(owner, slot), ssaFns[f])
      BY <1>5, <1>9
    <3>2. /\ ids1[e] = Len(ssaFns[f].regs) + 1
          /\ \A d \in Mine(owner) : d # e => ids1[d] = ids[d]
      BY <1>7, <1>9, <1>10, <2>1
    <3>3. fn1.regs = ssaFns[f].regs \o <<sz>>
      BY <2>1
    <3>4. PICK mine, pending : mine = Mine(owner) /\ pending = Waiting(owner, slot)
      OBVIOUS
    <3>5. Fit(ids, mine, pending, ssaFns[f]) /\ e \in mine
      BY <1>5, <3>1, <3>4
    <3>6. \A d \in mine : d # e => ids1[d] = ids[d]
      BY <3>2, <3>4
    <3>7. Fit(ids1, mine, pending, fn1) /\ ids1[e] \in 1 .. Len(fn1.regs)
      <4>1. Grown(fn1, ssaFns[f], <<sz>>)
        BY <3>3 DEF Grown
      <4>2. Renewed(ids1, ids, mine, e, Len(ssaFns[f].regs) + 1)
        BY <3>2, <3>5, <3>6 DEF Renewed
      <4> QED BY <2>2, <3>5, <4>1, <4>2, FitReg
    <3> QED BY <3>4, <3>7
  <2>5. sym_table_reg(e) \in 1 .. Len(fn1.regs)
    BY <1>7, <1>10, <2>4
  <2>6. Fit(Ids', Mine(owner), Waiting(owner, slot), fn1)
    BY <1>10, <2>4
  <2> QED BY <1>3, <1>4, <1>7, <1>8, <2>3, <2>5, <2>6
<1>12. CASE entries[e].id # 0
  <2>1. new_regs(e) = << >> /\ sym_table_reg(e) = entries[e].id
    BY <1>12 DEF new_regs, sym_table_reg
  <2>2. fn1.regs = ssaFns[f].regs
    BY <1>8, <2>1, ConcatEmptySeq
  <2>3. \A d \in Mine(owner) : ids1[d] = ids[d]
    BY <1>7, <1>9, <1>10, <2>1
  <2>4. Fit(ids1, Mine(owner), Waiting(owner, slot), fn1)
    <3>1. /\ Single(ssaFns[f])
          /\ \A d \in Mine(owner) : ids[d] \in 0 .. Len(ssaFns[f].regs)
          /\ \A a, b \in Mine(owner) : ids[a] = ids[b] /\ ids[a] # 0 => a = b
          /\ Waiting(owner, slot) \subseteq Mine(owner)
          /\ \A d \in Waiting(owner, slot) : ids[d] # 0 => ~Sets(ssaFns[f], ids[d])
      BY <1>5, <1>9, FitParts
    <3>2. Single(fn1) /\ \A x : Sets(fn1, x) <=> Sets(ssaFns[f], x)
      <4>1. Single(fn1)
        BY <2>2, <3>1, SingleSame
      <4> QED BY <4>1 DEF Sets
    <3> QED BY <2>2, <2>3, <3>1, <3>2 DEF Fit
  <2>5. sym_table_reg(e) \in 1 .. Len(fn1.regs)
    BY <1>5, <1>7, <1>8, <1>12, <2>1, <2>2
  <2>6. Fit(Ids', Mine(owner), Waiting(owner, slot), fn1)
    BY <1>10, <2>4
  <2> QED BY <1>3, <1>4, <1>7, <1>8, <2>2, <2>5, <2>6
<1> QED
  BY <1>11, <1>12

(* A step within the translation of a function, when what it makes of it   *)
(* is r.                                                                   *)
LEMMA StepTracked ==
  ASSUME Inv, NEW own, NEW owner, NEW slot, Tracked(own, owner, slot), phase = "translate",
         f \in Fns, UNCHANGED <<prog, phase, f, scopes, annotations>>,
         Len(entries') = Len(entries),
         \A e \in 1 .. Len(entries) : /\ entries'[e].type = entries[e].type
                                      /\ owner[e] # f => entries'[e].id = entries[e].id,
         Walking(own)', NEW r \in SSA_Fns, ssaFns' = [ssaFns EXCEPT ![f] = r],
         NEW pending, Fit(Ids', Mine(owner), pending, r),
         \A e \in Mine(owner) : slot[e] >= Cur' => e \in pending,
         \A n \in Nodes : result'[n] = result[n] \/ own[n] = f,
         \A n \in Nodes : own[n] = f => result'[n] \in 0 .. Len(r.regs)
  PROVE  Tracked(own, owner, slot)'
<1>1. /\ UNCHANGED <<prog, phase, f, scopes, fnEntry, paramEntry, stmtVar, exprVar>>
      /\ Fns' = Fns /\ Nodes' = Nodes
  BY DEF annotations, Fns, Nodes
<1>2. Placed(owner, slot) /\ Bound(own, owner) /\ FnsTyped /\ Singles
  BY DEF Tracked
<1>3. Placed(owner, slot)'
  BY <1>1, <1>2, PlacedKept
<1>4. Bound(own, owner)'
  BY <1>1, <1>2 DEF Bound
<1>5. ChainsOwned(owner)' /\ Unused'
  BY <1>1 DEF ChainsOwned, Unused
<1>6. FnsTyped'
  <2>1. \A g \in Fns : g \in 1 .. Len(entries)
    BY <1>2, FnEntryFirst
  <2> QED BY <1>1, <1>2, <2>1 DEF FnsTyped
<1>7. /\ Len(ssaFns') = Len(ssaFns) /\ DOMAIN ssaFns = 1 .. Len(ssaFns)
      /\ Len(ssaFns) = Len(prog.fns)
  BY CurrentFn, FnWrite, Translating, LenProperties
<1>8. ssaFns'[f] = r
  BY <1>7 DEF Fns
<1>9. Singles'
  <2>1. Single(r)
    BY FitParts
  <2> QED BY <1>2, <1>7, <2>1 DEF Singles
<1>10. Registers(own, owner, slot)'
  <2>1. Mine(owner)' = Mine(owner)
    BY <1>1 DEF Mine
  <2>2. Waiting(owner, slot)' \subseteq pending
    <3>1. \A e \in Waiting(owner, slot)' : e \in Mine(owner) /\ slot[e] >= Cur'
      BY <2>1 DEF Waiting
    <3> QED BY <3>1
  <2>3. PICK left : left = Waiting(owner, slot)'
    OBVIOUS
  <2>4. PICK ids : ids = Ids'
    OBVIOUS
  <2>5. Fit(ids, Mine(owner), left, r)
    <3>1. Fit(ids, Mine(owner), pending, r) /\ left \subseteq pending
      BY <2>2, <2>3, <2>4
    <3> QED BY <3>1 DEF Fit
  <2>6. Fit(Ids', Mine(owner)', Waiting(owner, slot)', ssaFns'[f'])
    BY <1>1, <1>8, <2>1, <2>3, <2>4, <2>5
  <2>7. /\ \A e \in 1 .. Len(entries) : owner[e] \notin 1 .. f => entries[e].id = 0
        /\ \A n \in Nodes : own[n] > f => result[n] = 0
        /\ f \in Nat
    BY Translating
  <2>8. f \in 1 .. f /\ ~(f > f)
    BY <2>7 DEF Fns
  <2>9. \A e \in 1 .. Len(entries') : owner[e] \notin 1 .. f' => entries'[e].id = 0
    <3>1. ASSUME NEW e \in 1 .. Len(entries), owner[e] \notin 1 .. f PROVE entries'[e].id = 0
      <4>1. owner[e] # f
        BY <2>8, <3>1
      <4> QED BY <2>7, <3>1, <4>1
    <3> QED BY <1>1, <3>1
  <2>10. \A n \in Nodes' : own[n] > f' => result'[n] = 0
    <3>1. ASSUME NEW n \in Nodes, own[n] > f PROVE result'[n] = 0
      <4>1. own[n] # f
        BY <2>8, <3>1
      <4> QED BY <2>7, <3>1, <4>1
    <3> QED BY <1>1, <3>1
  <2>11. \A n \in Nodes' : own[n] = f' => result'[n] \in 0 .. Len(ssaFns'[f'].regs)
    BY <1>1, <1>8
  <2> QED BY <2>6, <2>9, <2>10, <2>11 DEF Registers
<1> QED
  BY <1>3, <1>4, <1>5, <1>6, <1>9, <1>10 DEF Tracked

(* How far the function is.                                                *)
LEMMA CurMoves ==
  ASSUME Inv, f \in Fns, UNCHANGED <<prog, f>>
  PROVE  /\ Cur \in Nat /\ Len(Fn.params) \in Nat /\ p \in Nat /\ s \in Nat
         /\ p <= Len(Fn.params) => Cur = p
         /\ p > Len(Fn.params) => Cur = Len(Fn.params) + s
         /\ p' = p /\ s' = s => Cur' = Cur
         /\ p > Len(Fn.params) /\ p' = p /\ s' = s + 1 => Cur' = Cur + 1
         /\ p <= Len(Fn.params) /\ p' = p + 1 /\ s' = s => Cur' \in Nat /\ Cur' >= Cur
         /\ p \in 1 .. Len(Fn.params) /\ p' = p + 1 /\ s' = s => Cur' \in Nat /\ Cur' > Cur
<1>1. /\ Len(Fn.params) \in Nat /\ p \in Nat /\ s \in Nat \ {0} /\ Fn' = Fn
  BY ControlTypes, InsideFn DEF Fns, Fn
<1>2. PICK n \in Nat : n = Len(Fn.params) /\ Cur = (IF p <= n THEN p ELSE n + s)
                       /\ Cur' = (IF p' <= n THEN p' ELSE n + s')
  BY <1>1 DEF Cur
<1>3. ASSUME p <= n, p' = p + 1, s' = s PROVE Cur' \in Nat /\ Cur' >= Cur
  BY <1>1, <1>2, <1>3
<1>4. ASSUME p \in 1 .. n, p' = p + 1, s' = s PROVE Cur' \in Nat /\ Cur' > Cur
  BY <1>1, <1>2, <1>4
<1> QED
  BY <1>1, <1>2, <1>3, <1>4

LEMMA WaitingStays ==
  ASSUME Inv, NEW owner, NEW slot, Placed(owner, slot), f \in Fns, UNCHANGED <<prog, f>>,
         Cur' \in Nat, Cur' >= Cur
  PROVE  \A e \in Mine(owner) : slot[e] >= Cur' => e \in Waiting(owner, slot)
<1>1. /\ Cur \in Nat /\ \A e \in Mine(owner) : slot[e] \in Nat
  BY CurMoves, PlacedParts DEF Mine
<1> QED
  BY <1>1 DEF Waiting

(* A step that makes no code.                                              *)
LEMMA IdleTracked ==
  ASSUME Inv, NEW own, NEW owner, NEW slot, Tracked(own, owner, slot), phase = "translate",
         f \in Fns, UNCHANGED <<prog, phase, f, scopes, entries, annotations, irVars>>,
         Walking(own)', Cur' \in Nat, Cur' >= Cur
  PROVE  Tracked(own, owner, slot)'
<1>1. /\ ssaFns[f] \in SSA_Fns /\ ssaFns' = [ssaFns EXCEPT ![f] = ssaFns[f]]
      /\ UNCHANGED <<entries, result>>
  BY CurrentFn DEF irVars
<1>2. Placed(owner, slot)
  BY DEF Tracked
<1>3. \A e \in Mine(owner) : slot[e] >= Cur' => e \in Waiting(owner, slot)
  BY <1>2, WaitingStays
<1>4. Fit(Ids', Mine(owner), Waiting(owner, slot), ssaFns[f])
  <2>1. Ids' = Ids
    BY <1>1 DEF Ids
  <2> QED BY <2>1, Translating
<1>5. \A n \in Nodes : own[n] = f => result'[n] \in 0 .. Len(ssaFns[f].regs)
  BY <1>1, Translating
<1> QED
  BY <1>1, <1>3, <1>4, <1>5, StepTracked

LEMMA IrEnterFnTracked ==
  ASSUME Inv, NEW own, NEW owner, NEW slot, Tracked(own, owner, slot), Ir_EnterFn
  PROVE  Tracked(own, owner, slot)'
<1>1. /\ phase = "translate" /\ f \in Fns /\ p = 0 /\ p' = p + 1 /\ todo' = todo /\ s' = s
      /\ UNCHANGED <<prog, phase, f, scopes, entries, annotations, irVars>>
  BY ControlTypes DEF Ir_EnterFn, InFn, In, Fns
<1>2. Cur' \in Nat /\ Cur' >= Cur /\ Len(Fn.params) \in Nat
  BY <1>1, CurMoves
<1>3. todo = << >>
  BY <1>1, <1>2 DEF Tracked, Walking
<1>4. Walking(own)'
  BY <1>1, <1>3, EmptySeq DEF Walking
<1> QED
  BY <1>1, <1>2, <1>4, IdleTracked

LEMMA IrStmtTracked ==
  ASSUME Inv, NEW own, Owned(own), NEW owner, NEW slot, Tracked(own, owner, slot), TranslateStmt
  PROVE  Tracked(own, owner, slot)'
<1> DEFINE tasks == (IF Stmt.value = NULL THEN << >> ELSE <<Enter(Stmt.value)>>) \o <<EndStmt>>
<1>1. /\ phase = "translate" /\ f \in Fns /\ todo = << >> /\ p > Len(Fn.params)
      /\ s \in 1 .. Len(prog.fns[f].stmts)
      /\ UNCHANGED <<prog, scopes, entries, annotations, irVars>>
      /\ SkipStmt \/ Walk(tasks)
  <2>1. /\ phase = "translate" /\ f \in Fns /\ todo = << >> /\ p > Len(Fn.params)
        /\ s <= Len(Fn.stmts)
        /\ UNCHANGED <<prog, scopes, entries, annotations, irVars>>
        /\ SkipStmt \/ Walk(tasks)
    BY ControlTypes DEF TranslateStmt, AtStmt, BetweenStmts, InFn, In, Fns
  <2>2. s \in 1 .. Len(prog.fns[f].stmts)
    <3>1. Fn.stmts = prog.fns[f].stmts
      BY DEF Fn
    <3>2. Len(Fn.stmts) \in Nat /\ s \in Nat \ {0}
      BY <2>1, ControlTypes, InsideFn DEF Fns
    <3> QED BY <2>1, <3>1, <3>2
  <2> QED BY <2>1, <2>2
<1>2. UNCHANGED <<phase, f, p>> /\ Fn' = Fn /\ (SkipStmt => s' = s + 1) /\ (Walk(tasks) => s' = s)
  BY <1>1 DEF SkipStmt, NextStmt, Walk, Fn
<1>3. Cur' \in Nat /\ Cur' >= Cur
  BY <1>1, <1>2, CurMoves
<1>4. CASE SkipStmt
  <2>1. todo' = << >>
    BY <1>1, <1>4 DEF SkipStmt
  <2>2. Walking(own)'
    BY <2>1, EmptySeq DEF Walking
  <2> QED BY <1>1, <1>2, <1>3, <2>2, IdleTracked
<1>5. CASE Walk(tasks)
  <2>1. Stmt.value # NULL => own[Stmt.value] = f
    <3>1. Stmt = prog.fns[f].stmts[s]
      BY DEF Stmt, Fn
    <3> QED BY <1>1, <3>1, OwnedMeans
  <2>2. EndStmt.k = "stmt" /\ Enter(Stmt.value).n = Stmt.value
    BY DEF EndStmt, Enter, Task
  <2>3. \A i \in 1 .. Len(tasks) : tasks[i].k # "stmt" => own[tasks[i].n] = f
    <3>1. CASE Stmt.value = NULL
      <4>1. tasks = << >> \o <<EndStmt>>
        BY <3>1
      <4>2. Len(tasks) = 1 /\ tasks[1] = EndStmt
        BY <4>1
      <4> QED BY <2>2, <4>2
    <3>2. CASE Stmt.value # NULL
      <4>1. tasks = <<Enter(Stmt.value)>> \o <<EndStmt>>
        BY <3>2
      <4>2. \A i \in 1 .. Len(tasks) : tasks[i] \in {Enter(Stmt.value), EndStmt}
        BY <4>1, TwoElements
      <4> QED BY <2>1, <2>2, <3>2, <4>2
    <3> QED BY <3>1, <3>2
  <2>4. todo' = tasks
    BY <1>5 DEF Walk
  <2> HIDE DEF tasks
  <2>5. Walking(own)'
    BY <1>1, <1>2, <2>3, <2>4 DEF Walking
  <2> QED BY <1>1, <1>2, <1>3, <2>5, IdleTracked
<1> QED
  BY <1>1, <1>4, <1>5

LEMMA TranslateArgsTracked ==
  ASSUME Inv, NEW own, Owned(own), NEW owner, NEW slot, Tracked(own, owner, slot),
         NEW t, TranslateArgs(t)
  PROVE  Tracked(own, owner, slot)'
<1> DEFINE args == EnterAll(Expr(Node).args)
           tasks == args \o <<Leave(Node)>>
<1>1. /\ phase = "translate" /\ todo # << >> /\ Head(todo).k = "enter" /\ Continue(tasks)
      /\ UNCHANGED <<prog, scopes, entries, annotations, irVars>>
  BY DEF TranslateArgs, At, In
<1>2. Walking(own)
  BY DEF Tracked
<1>3. /\ Node \in Nodes /\ own[Node] = f /\ f \in Fns /\ args \in Seq(Tasks)
      /\ \A i \in 1 .. Len(args) : own[args[i].n] = f
  BY <1>1, <1>2, NodeOwned
<1>4. Leave(Node) \in Tasks /\ Leave(Node).n = Node
  BY <1>1, <1>3, AtTask DEF Leave, Task, Tasks, Nodes
<1> HIDE DEF args
<1>5. tasks \in Seq(Tasks) /\ \A i \in 1 .. Len(tasks) : own[tasks[i].n] = f
  BY <1>3, <1>4, OneMore
<1> HIDE DEF tasks
<1>6. Walking(own)'
  BY <1>1, <1>2, <1>5, WalkOn
<1>7. UNCHANGED <<phase, f, p, s>>
  BY <1>1 DEF Continue
<1>8. Cur' \in Nat /\ Cur' >= Cur
  BY <1>1, <1>3, <1>7, CurMoves
<1> QED
  BY <1>1, <1>3, <1>6, <1>7, <1>8, IdleTracked

(* What Emit makes of the current function, registers first.               *)
LEMMA EmitMakes ==
  ASSUME Inv, phase = "translate", f \in Fns, NEW regs \in Seq(Sizes), NEW insts \in Seq(Insts),
         Emit(regs, insts)
  PROVE  /\ \E fn1 : Grown(fn1, ssaFns[f], regs)
         /\ \E r \in SSA_Fns : /\ ssaFns' = [ssaFns EXCEPT ![f] = r]
                               /\ r.regs = ssaFns[f].regs \o regs
                               /\ r.insts = ssaFns[f].insts \o insts
                               /\ r.params = ssaFns[f].params
<1> DEFINE r == [ssaFns[f] EXCEPT !.regs = ssaFns[f].regs \o regs,
                                  !.insts = ssaFns[f].insts \o insts]
           fn1 == [ssaFns[f] EXCEPT !.regs = ssaFns[f].regs \o regs]
<1>1. ssaFns' = [ssaFns EXCEPT ![f] = r]
  BY CurrentFn DEF Emit, SSA_Fns
<1>2. ssaFns[f].regs \o regs \in Seq(Sizes) /\ ssaFns[f].insts \o insts \in Seq(Insts)
  BY CurrentFn, ConcatProperties
<1>3. /\ r \in SSA_Fns /\ r.regs = ssaFns[f].regs \o regs
      /\ r.insts = ssaFns[f].insts \o insts /\ r.params = ssaFns[f].params
  BY <1>2, CurrentFn DEF SSA_Fns
<1>4. /\ fn1 \in SSA_Fns /\ fn1.regs = ssaFns[f].regs \o regs
      /\ fn1.insts = ssaFns[f].insts /\ fn1.params = ssaFns[f].params
  BY <1>2, CurrentFn DEF SSA_Fns
<1> HIDE DEF r, fn1
<1>5. Grown(fn1, ssaFns[f], regs)
  BY <1>4 DEF Grown
<1> QED
  BY <1>1, <1>3, <1>5

LEMMA FailsTracked ==
  ASSUME NEW own, NEW owner, NEW slot, Tracked(own, owner, slot), \E how : Fails(how)
  PROVE  Tracked(own, owner, slot)'
<1>1. PICK how : Stop(how) /\ UNCHANGED irVars
  BY DEF Fails
<1> QED
  BY <1>1, StopTracked

LEMMA GrownFit ==
  ASSUME NEW ids, NEW mine, NEW pending, NEW fn, Fit(ids, mine, pending, fn),
         NEW sz \in Sizes, NEW fn1, Grown(fn1, fn, <<sz>>)
  PROVE  /\ Fit(ids, mine, pending, fn1) /\ Len(fn1.regs) = Len(fn.regs) + 1
         /\ Len(fn.regs) \in Nat /\ ~Sets(fn1, Len(fn.regs) + 1)
         /\ \A e \in mine : ids[e] # Len(fn.regs) + 1
  BY FitFresh DEF Grown

LEMMA EmitResultTracked ==
  ASSUME Inv, NEW own, Owned(own), NEW owner, NEW slot, Tracked(own, owner, slot),
         phase = "translate", todo # << >>, Head(todo).k # "stmt",
         NEW inst \in Insts, inst.result = ssa_new_reg,
         \A k \in 1 .. Len(inst.args) : inst.args[k] \in 0 .. Len(ssaFns[f].regs),
         EmitResult(inst)
  PROVE  Tracked(own, owner, slot)'
<1> DEFINE x == Len(ssaFns[f].regs) + 1
<1>1. /\ Emit(<<inst.sz>>, <<inst>>) /\ result' = [result EXCEPT ![Node] = x]
      /\ Continue(<< >>) /\ UNCHANGED <<phase, f, p, s>> /\ inst.result = x
      /\ UNCHANGED <<prog, scopes, entries, annotations>>
  BY DEF EmitResult, Continue, ssa_new_reg
<1>2. Walking(own) /\ Placed(owner, slot)
  BY DEF Tracked
<1>3. Node \in Nodes /\ own[Node] = f /\ f \in Fns
  BY <1>2, NodeOwned
<1>4. <<inst.sz>> \in Seq(Sizes) /\ <<inst>> \in Seq(Insts) /\ inst.sz \in Sizes
  BY OneElement DEF Insts
<1>5. /\ \E fn1 : Grown(fn1, ssaFns[f], <<inst.sz>>)
      /\ \E r \in SSA_Fns : /\ ssaFns' = [ssaFns EXCEPT ![f] = r]
                            /\ r.regs = ssaFns[f].regs \o <<inst.sz>>
                            /\ r.insts = ssaFns[f].insts \o <<inst>>
                            /\ r.params = ssaFns[f].params
  BY <1>1, <1>3, <1>4, EmitMakes
<1>6. PICK fn1 : Grown(fn1, ssaFns[f], <<inst.sz>>)
  BY <1>5
<1>7. PICK r \in SSA_Fns : /\ ssaFns' = [ssaFns EXCEPT ![f] = r]
                           /\ r.regs = ssaFns[f].regs \o <<inst.sz>>
                           /\ r.insts = ssaFns[f].insts \o <<inst>>
                           /\ r.params = ssaFns[f].params
  BY <1>5
<1>8. /\ Fit(Ids, Mine(owner), Waiting(owner, slot), ssaFns[f])
      /\ \A n \in Nodes : own[n] = f => result[n] \in 0 .. Len(ssaFns[f].regs)
  BY <1>3, Translating
<1>9. /\ fn1 \in SSA_Fns /\ fn1.regs = ssaFns[f].regs \o <<inst.sz>>
      /\ fn1.insts = ssaFns[f].insts /\ fn1.params = ssaFns[f].params
  BY <1>6 DEF Grown
<1>10. /\ Fit(Ids, Mine(owner), Waiting(owner, slot), fn1)
       /\ Len(fn1.regs) = x /\ Len(ssaFns[f].regs) \in Nat /\ ~Sets(fn1, x)
       /\ \A e \in Mine(owner) : Ids[e] # x
  <2>1. PICK ids, mine, pending : /\ ids = Ids /\ mine = Mine(owner)
                                  /\ pending = Waiting(owner, slot)
    OBVIOUS
  <2>2. Fit(ids, mine, pending, ssaFns[f])
    BY <1>8, <2>1
  <2>3. /\ Fit(ids, mine, pending, fn1)
        /\ Len(fn1.regs) = x /\ Len(ssaFns[f].regs) \in Nat /\ ~Sets(fn1, x)
        /\ \A e \in mine : ids[e] # x
    BY <1>4, <1>6, <2>2, GrownFit
  <2> QED BY <2>1, <2>3
<1> HIDE DEF x
<1>11. x \in Nat \ {0} /\ \A i \in 0 .. Len(ssaFns[f].regs) : i \in 0 .. x
  BY <1>10 DEF x
<1>12. InstFits(inst, Len(fn1.regs))
  BY <1>1, <1>10, <1>11 DEF InstFits
<1>13. Fit(Ids, Mine(owner), Waiting(owner, slot), r)
  <2>1. /\ r.regs = fn1.regs /\ r.insts = fn1.insts \o <<inst>> /\ r.params = fn1.params
    BY <1>7, <1>9
  <2>2. Waiting(owner, slot) \subseteq Mine(owner)
    BY DEF Waiting
  <2>3. \A e \in Waiting(owner, slot) : Ids[e] # 0 => Ids[e] # inst.result
    BY <1>1, <1>10, <2>2
  <2>4. inst.result # 0 => ~Sets(fn1, inst.result)
    BY <1>1, <1>10
  <2>5. PICK ids, mine, pending : /\ ids = Ids /\ mine = Mine(owner)
                                  /\ pending = Waiting(owner, slot)
    OBVIOUS
  <2>6. /\ Fit(ids, mine, pending, fn1) /\ pending \subseteq pending
        /\ \A e \in pending : ids[e] # 0 => ids[e] # inst.result
    BY <1>10, <2>3, <2>5
  <2>7. Fit(ids, mine, pending, r)
    BY <1>7, <1>12, <2>1, <2>4, <2>6, FitInst
  <2> QED BY <2>5, <2>7
<1>14. Cur' = Cur /\ Cur \in Nat
  BY <1>1, <1>3, CurMoves
<1>15. \A e \in Mine(owner) : slot[e] >= Cur' => e \in Waiting(owner, slot)
  BY <1>14 DEF Waiting
<1>16. \A n \in Nodes : result'[n] = IF n = Node THEN x ELSE result[n]
  BY <1>1, InvParts DEF IrOK, Nodes
<1>17. /\ \A n \in Nodes : result'[n] = result[n] \/ own[n] = f
       /\ \A n \in Nodes : own[n] = f => result'[n] \in 0 .. Len(r.regs)
  <2>1. Len(r.regs) = x /\ x \in 0 .. x
    BY <1>7, <1>9, <1>10, <1>11
  <2>2. \A n \in Nodes : own[n] = f => result[n] \in 0 .. x
    BY <1>8, <1>11
  <2>3. \A n \in Nodes : result'[n] = result[n] \/ own[n] = f
    BY <1>3, <1>16
  <2>4. \A n \in Nodes : own[n] = f => result'[n] \in 0 .. x
    BY <1>16, <2>1, <2>2
  <2> QED BY <2>1, <2>3, <2>4
<1>18. Walking(own)'
  <2>1. << >> \in Seq(Tasks) /\ Len(<< >>) = 0
    BY EmptySeq
  <2>2. \A i \in 1 .. Len(<< >>) : << >>[i].k # "stmt" => own[<< >>[i].n] = f
    BY <2>1
  <2> QED BY <1>1, <1>2, <2>1, <2>2, WalkOn
<1>19. Ids' = Ids
  BY <1>1 DEF Ids
<1> QED
  BY <1>1, <1>3, <1>7, <1>13, <1>15, <1>17, <1>18, <1>19, StepTracked

LEMMA EmitSizedTracked ==
  ASSUME Inv, NEW own, Owned(own), NEW owner, NEW slot, Tracked(own, owner, slot),
         phase = "translate", todo # << >>, Head(todo).k # "stmt", NEW inst,
         exprType[Node].t \in IntTypes =>
           /\ inst \in Insts /\ inst.result = ssa_new_reg
           /\ \A k \in 1 .. Len(inst.args) : inst.args[k] \in 0 .. Len(ssaFns[f].regs),
         EmitSized(inst)
  PROVE  Tracked(own, owner, slot)'
<1>1. CASE \E how : Fails(how)
  BY <1>1, FailsTracked
<1>2. CASE exprType[Node].t \in IntTypes /\ EmitResult(inst)
  BY <1>2, EmitResultTracked
<1> QED
  BY <1>1, <1>2 DEF EmitSized

LEMMA ArgRegsFit ==
  ASSUME Inv, NEW own, Owned(own), NEW owner, NEW slot, Tracked(own, owner, slot),
         phase = "translate", todo # << >>, Head(todo).k # "stmt"
  PROVE  /\ ArgRegs \in Seq(Nat)
         /\ \A k \in 1 .. Len(ArgRegs) : ArgRegs[k] \in 0 .. Len(ssaFns[f].regs)
<1>1. Walking(own)
  BY DEF Tracked
<1>2. /\ f \in Fns
      /\ \A k \in 1 .. Len(Expr(Node).args) :
           Expr(Node).args[k] \in Nodes /\ own[Expr(Node).args[k]] = f
  BY <1>1, NodeOwned
<1>3. \A n \in Nodes : own[n] = f => result[n] \in 0 .. Len(ssaFns[f].regs)
  BY <1>2, Translating
<1>4. Expr(Node).args \in Seq(Nat) /\ Len(Expr(Node).args) \in Nat
  BY AtTask
<1>5. DOMAIN Expr(Node).args = 1 .. Len(Expr(Node).args)
  BY <1>4, LenProperties
<1>6. ArgRegs \in Seq(Nat)
  BY ArgRegsOK
<1>7. /\ DOMAIN ArgRegs = 1 .. Len(Expr(Node).args) /\ Len(ArgRegs) = Len(Expr(Node).args)
      /\ \A k \in 1 .. Len(Expr(Node).args) : ArgRegs[k] = result[Expr(Node).args[k]]
  <2>1. ArgRegs = [k \in 1 .. Len(Expr(Node).args) |-> result[Expr(Node).args[k]]]
    BY <1>5 DEF ArgRegs
  <2> QED BY <1>4, <1>6, <2>1, LenProperties
<1> QED
  BY <1>2, <1>3, <1>6, <1>7

LEMMA TranslateIntTracked ==
  ASSUME Inv, NEW own, Owned(own), NEW owner, NEW slot, Tracked(own, owner, slot), TranslateInt
  PROVE  Tracked(own, owner, slot)'
<1> DEFINE inst == [NewInst("imm", << >>) EXCEPT !.imm = Expr(Node).val]
<1>1. phase = "translate" /\ todo # << >> /\ Head(todo).k = "enter" /\ EmitSized(inst)
  BY DEF TranslateInt, At, In
<1>2. Expr(Node).val \in Nat
  BY <1>1, AtTask DEF Exprs
<1>3. ASSUME exprType[Node].t \in IntTypes PROVE inst \in Insts
  BY <1>1, <1>2, <1>3, EmptySeq, NewInstOK
<1>4. inst.result = ssa_new_reg /\ Len(inst.args) = 0
  BY EmptySeq DEF NewInst, Inst
<1> HIDE DEF inst
<1>5. \A k \in 1 .. Len(inst.args) : inst.args[k] \in 0 .. Len(ssaFns[f].regs)
  BY <1>4
<1> QED
  BY <1>1, <1>3, <1>4, <1>5, EmitSizedTracked

LEMMA TranslateBinopTracked ==
  ASSUME Inv, NEW own, Owned(own), NEW owner, NEW slot, Tracked(own, owner, slot), TranslateBinop
  PROVE  Tracked(own, owner, slot)'
<1> DEFINE t == translate_binop(exprType[Node], Expr(Node).op)
           inst == NewInst(t, ArgRegs)
           fails == exprType[Node].t \in IntTypes /\ Expr(Node).op \in Comparisons
<1>1. /\ phase = "translate" /\ todo # << >> /\ Head(todo).k = "leave"
      /\ (Node # 0 => Expr(Node).t = "binop")
      /\ fails => Fails("internal_err")
      /\ ~fails => EmitSized(inst)
  BY DEF TranslateBinop, At, In, Node
<1>2. Node \in Nodes /\ Expr(Node).t = "binop" /\ ParsedExpr(Expr(Node), Node)
  BY <1>1, AtTask
<1>3. CASE fails
  BY <1>1, <1>3, FailsTracked
<1>4. CASE ~fails
  <2>1. Expr(Node).op \in BinopKinds
    <3> HIDE DEF t, inst, fails
    <3> QED BY <1>2, Zenon DEF ParsedExpr
  <2>2. Expr(Node).op \in {"+", "-", "*", "/"} \cup Comparisons
    BY <2>1 DEF BinopKinds
  <2>3. ASSUME exprType[Node].t \in IntTypes PROVE inst \in Insts
    <3>1. t \in {"add", "sub", "imul", "umul", "idiv", "udiv"}
      BY <1>4, <2>2, <2>3 DEF translate_binop
    <3> HIDE DEF t
    <3> QED BY <1>1, <2>3, <3>1, ArgRegsOK, NewInstOK
  <2>4. inst.result = ssa_new_reg /\ inst.args = ArgRegs
    BY DEF NewInst, Inst
  <2>5. \A k \in 1 .. Len(ArgRegs) : ArgRegs[k] \in 0 .. Len(ssaFns[f].regs)
    BY <1>1, ArgRegsFit
  <2> HIDE DEF inst, fails
  <2>6. \A k \in 1 .. Len(inst.args) : inst.args[k] \in 0 .. Len(ssaFns[f].regs)
    BY <2>4, <2>5
  <2> QED BY <1>1, <1>4, <2>3, <2>4, <2>6, EmitSizedTracked
<1> QED
  BY <1>3, <1>4

LEMMA TranslateCallTracked ==
  ASSUME Inv, NEW own, Owned(own), NEW owner, NEW slot, Tracked(own, owner, slot), TranslateCall
  PROVE  Tracked(own, owner, slot)'
<1> DEFINE fn == entries[exprVar[Node]].fn
           inst == [NewInst("callfn", ArgRegs) EXCEPT !.fn = fn]
           fails == exprType[Node].t \in IntTypes /\ (exprVar[Node] = NULL \/ fn = << >>)
<1>1. /\ phase = "translate" /\ todo # << >> /\ Head(todo).k = "leave"
      /\ fails => \E how : Fails(how)
      /\ ~fails => EmitSized(inst)
  BY DEF TranslateCall, At, In
<1>2. Node \in Nodes
  BY <1>1, AtTask
<1>3. CASE fails
  BY <1>1, <1>3, FailsTracked
<1>4. CASE ~fails
  <2>1. ASSUME exprType[Node].t \in IntTypes PROVE inst \in Insts
    <3>1. exprVar[Node] \in 0 .. Len(entries) /\ Len(entries) \in Nat
      <4>1. exprVar[Node] \in 0 .. Len(entries)
        BY <1>2, InvParts DEF AnnotationsOK, Nodes
      <4>2. Len(entries) \in Nat
        BY InvParts DEF TableOK
      <4> QED BY <4>1, <4>2
    <3>2. exprVar[Node] \in 1 .. Len(entries)
      BY <1>4, <2>1, <3>1 DEF NULL
    <3>3. fn \in FnPointers
      BY <3>2, InvParts, EntryParts
    <3> HIDE DEF fn
    <3> QED BY <1>1, <2>1, <3>3, ArgRegsOK, NewInstOK
  <2>2. inst.result = ssa_new_reg /\ inst.args = ArgRegs
    BY DEF NewInst, Inst
  <2>3. \A k \in 1 .. Len(ArgRegs) : ArgRegs[k] \in 0 .. Len(ssaFns[f].regs)
    BY <1>1, ArgRegsFit
  <2> HIDE DEF inst, fails
  <2>4. \A k \in 1 .. Len(inst.args) : inst.args[k] \in 0 .. Len(ssaFns[f].regs)
    BY <2>2, <2>3
  <2> QED BY <1>1, <1>4, <2>1, <2>2, <2>4, EmitSizedTracked
<1> QED
  BY <1>3, <1>4

(* A variable stands for an entry of the current function, and not for a   *)
(* function: the latter has no size, and ended the translation.            *)
LEMMA OwnEntry ==
  ASSUME Inv, NEW own, Owned(own), NEW owner, NEW slot, Tracked(own, owner, slot),
         phase = "translate", f \in Fns, NEW e \in 1 .. Len(entries), owner[e] \in {0, f},
         \A how \in Abnormal : ~reg_fails(e, how)
  PROVE  owner[e] = f
<1>1. SUFFICES ASSUME owner[e] = 0 PROVE FALSE
  OBVIOUS
<1>2. Placed(owner, slot) /\ FnsTyped
  BY DEF Tracked
<1>3. Len(prog.fns) \in Nat /\ Len(entries) \in Nat
  BY InvParts, ControlTypes DEF TableOK
<1>4. e \in Fns
  <2>1. e <= Len(prog.fns)
    BY <1>1, <1>2, PlacedParts
  <2> QED BY <1>3, <2>1 DEF Fns
<1>5. entries[e].type \in FnTypes
  BY <1>2, <1>4 DEF FnsTyped
<1>6. entries[e].type.t = "fn"
  BY <1>5, TypeKinds
<1>7. entries[e].id = 0
  <2>1. 0 \notin 1 .. f
    OBVIOUS
  <2> QED BY <1>1, <2>1, Translating
<1>8. \A how \in Abnormal : ~size_fails(entries[e].type, how)
  BY <1>3, <1>7 DEF reg_fails, NULL
<1>9. entries[e].type.t \in IntTypes
  BY <1>8, SizeOK
<1> QED
  BY <1>6, <1>9 DEF IntTypes

LEMMA TranslateVarTracked ==
  ASSUME Inv, NEW own, Owned(own), NEW owner, NEW slot, Tracked(own, owner, slot), TranslateVar
  PROVE  Tracked(own, owner, slot)'
<1> DEFINE e == exprVar[Node]
<1>1. phase = "translate" /\ todo # << >> /\ Head(todo).k = "enter"
  BY DEF TranslateVar, At, In
<1>2. CASE \E how \in Abnormal : Fails(how)
  BY <1>2, FailsTracked
<1>3. CASE \A how \in Abnormal : ~reg_fails(e, how)
  <2>1. /\ set_id(e) /\ Emit(new_regs(e), << >>) /\ Continue(<< >>)
        /\ result' = [result EXCEPT ![Node] = sym_table_reg(e)]
        /\ UNCHANGED <<prog, scopes, annotations>> /\ UNCHANGED <<phase, f, p, s>>
    BY <1>3 DEF TranslateVar, Continue
  <2>2. Walking(own) /\ Bound(own, owner) /\ Placed(owner, slot)
    BY DEF Tracked
  <2>3. Node \in Nodes /\ own[Node] = f /\ f \in Fns
    BY <1>1, <2>2, NodeOwned
  <2>4. e \in 0 .. Len(entries)
    BY <2>3, InvParts DEF AnnotationsOK, Nodes
  <2>5. e # NULL => owner[e] \in {0, f}
    BY <2>2, <2>3 DEF Bound
  <2> HIDE DEF e
  <2>6. e \in 1 .. Len(entries) /\ new_regs(e) \in Seq(Sizes)
    BY <1>1, <1>3, <2>3, <2>4, RegOK
  <2>7. owner[e] = f
    <3>1. owner[e] \in {0, f}
      BY <2>5, <2>6 DEF NULL
    <3> QED BY <1>1, <1>3, <2>3, <2>6, <3>1, OwnEntry
  <2>8. << >> \in Seq(Insts) /\ << >> \in Seq(Tasks) /\ Len(<< >>) = 0
    BY EmptySeq
  <2>9. PICK r \in SSA_Fns : /\ ssaFns' = [ssaFns EXCEPT ![f] = r]
                             /\ r.regs = ssaFns[f].regs \o new_regs(e)
                             /\ r.insts = ssaFns[f].insts \o << >>
                             /\ r.params = ssaFns[f].params
    BY <1>1, <2>1, <2>3, <2>6, <2>8, EmitMakes
  <2>10. r.insts = ssaFns[f].insts
    BY <1>1, <2>3, <2>9, CurrentFn, ConcatEmptySeq
  <2>11. /\ Fit(Ids', Mine(owner), Waiting(owner, slot), r)
         /\ sym_table_reg(e) \in 1 .. Len(r.regs)
         /\ Len(r.regs) \in Nat /\ Len(ssaFns[f].regs) \in Nat
         /\ Len(ssaFns[f].regs) <= Len(r.regs)
         /\ Len(entries') = Len(entries)
         /\ \A d \in 1 .. Len(entries) : /\ entries'[d].type = entries[d].type
                                         /\ d # e => entries'[d].id = entries[d].id
    BY <1>1, <1>3, <2>1, <2>3, <2>6, <2>7, <2>9, <2>10, EntryReg, ZenonT(60)
  <2>12. \A d \in 1 .. Len(entries) : /\ entries'[d].type = entries[d].type
                                      /\ owner[d] # f => entries'[d].id = entries[d].id
    BY <2>7, <2>11
  <2>13. Cur' = Cur /\ Cur \in Nat
    BY <2>1, <2>3, CurMoves
  <2>14. \A d \in Mine(owner) : slot[d] >= Cur' => d \in Waiting(owner, slot)
    BY <2>13 DEF Waiting
  <2>15. \A n \in Nodes : result'[n] = IF n = Node THEN sym_table_reg(e) ELSE result[n]
    BY <2>1, InvParts DEF IrOK, Nodes
  <2>16. \A n \in Nodes : result'[n] = result[n] \/ own[n] = f
    BY <2>3, <2>15
  <2>17. \A n \in Nodes : own[n] = f => result'[n] \in 0 .. Len(r.regs)
    <3>1. \A n \in Nodes : own[n] = f => result[n] \in 0 .. Len(ssaFns[f].regs)
      BY <1>1, <2>3, Translating
    <3>2. \A n \in Nodes : own[n] = f => result[n] \in 0 .. Len(r.regs)
      BY <2>11, <3>1
    <3>3. sym_table_reg(e) \in 0 .. Len(r.regs)
      BY <2>11
    <3> QED BY <2>15, <3>2, <3>3
  <2>18. Walking(own)'
    <3>1. \A i \in 1 .. Len(<< >>) : << >>[i].k # "stmt" => own[<< >>[i].n] = f
      BY <2>8
    <3> QED BY <1>1, <2>1, <2>2, <2>8, <3>1, WalkOn
  <2> QED BY <1>1, <2>1, <2>3, <2>9, <2>11, <2>12, <2>14, <2>16, <2>17, <2>18, StepTracked
<1> QED
  BY <1>2, <1>3 DEF TranslateVar

(* The register x of the parameter or let that the function is at is set   *)
(* now, and was not set before.                                            *)
SetNow(owner, slot, fn1, x) ==
  \E ids, mine, pending, left :
    /\ ids = Ids' /\ mine = Mine(owner) /\ Fit(ids, mine, pending, fn1)
    /\ ~Sets(fn1, x) /\ left \subseteq pending
    /\ \A d \in left : ids[d] # x
    /\ \A d \in mine : slot[d] >= Cur' => d \in left

LEMMA SlotReg ==
  ASSUME Inv, NEW own, NEW owner, NEW slot, Tracked(own, owner, slot), phase = "translate",
         f \in Fns, NEW e \in 1 .. Len(entries), owner[e] = f, slot[e] = Cur,
         \A how \in Abnormal : ~reg_fails(e, how), set_id(e),
         NEW fn1, Grown(fn1, ssaFns[f], new_regs(e)),
         UNCHANGED <<prog, f>>, Cur' \in Nat, Cur' > Cur
  PROVE  SetNow(owner, slot, fn1, sym_table_reg(e))
<1> DEFINE x == sym_table_reg(e)
<1>1. PICK ids, mine, pending, left :
        /\ ids = Ids' /\ mine = Mine(owner) /\ pending = Waiting(owner, slot)
        /\ left = {d \in Mine(owner) : slot[d] >= Cur'}
  OBVIOUS
<1>2. /\ fn1 \in SSA_Fns /\ fn1.regs = ssaFns[f].regs \o new_regs(e)
      /\ fn1.insts = ssaFns[f].insts /\ fn1.params = ssaFns[f].params
  BY DEF Grown
<1>3. /\ Fit(Ids', Mine(owner), Waiting(owner, slot), fn1)
      /\ x \in 1 .. Len(fn1.regs) /\ Ids'[e] = x
  BY <1>2, EntryReg
<1> HIDE DEF x
<1>4. Fit(ids, mine, pending, fn1) /\ ids[e] = x /\ x # 0
  BY <1>1, <1>3
<1>5. /\ \A a, b \in mine : ids[a] = ids[b] /\ ids[a] # 0 => a = b
      /\ \A d \in pending : ids[d] # 0 => ~Sets(fn1, ids[d])
  BY <1>4, FitParts
<1>6. Cur \in Nat /\ e \in mine /\ e \in pending
  BY <1>1, CurMoves DEF Mine, Waiting
<1>7. Placed(owner, slot)
  BY DEF Tracked
<1>8. \A d \in mine : slot[d] \in Nat
  BY <1>1, <1>7, PlacedParts DEF Mine
<1>9. /\ left \subseteq pending /\ e \notin left
      /\ \A d \in mine : slot[d] >= Cur' => d \in left
  <2>1. PICK c \in Nat, c2 \in Nat : c = Cur /\ c2 = Cur' /\ c2 > c
    BY <1>6
  <2>2. left = {d \in mine : slot[d] >= c2} /\ pending = {d \in mine : slot[d] >= c}
    BY <1>1, <2>1 DEF Waiting
  <2>3. slot[e] = c
    BY <2>1
  <2> QED BY <1>8, <2>1, <2>2, <2>3
<1>10. \A d \in left : ids[d] # x
  BY <1>1, <1>4, <1>5, <1>6, <1>9
<1>11. ~Sets(fn1, x)
  BY <1>4, <1>5, <1>6
<1> QED
  BY <1>1, <1>4, <1>9, <1>10, <1>11 DEF x, SetNow

LEMMA EmptyWalk == ASSUME NEW own, todo' = << >> PROVE Walking(own)'
  BY EmptySeq DEF Walking

(* The end of a statement that sets nothing.                               *)
LEMMA EndTracked ==
  ASSUME Inv, NEW own, NEW owner, NEW slot, Tracked(own, owner, slot), phase = "translate",
         todo # << >>, NEW inst \in Insts, inst.result = 0,
         \A k \in 1 .. Len(inst.args) : inst.args[k] \in 0 .. Len(ssaFns[f].regs),
         Emit(<< >>, <<inst>>), NextStmt, todo' = << >>,
         UNCHANGED <<prog, scopes, entries, annotations, result>>
  PROVE  Tracked(own, owner, slot)'
<1>1. f \in Fns
  BY AtTask
<1>2. << >> \in Seq(Sizes) /\ <<inst>> \in Seq(Insts)
  BY EmptySeq, OneElement
<1>3. PICK r \in SSA_Fns : /\ ssaFns' = [ssaFns EXCEPT ![f] = r]
                           /\ r.regs = ssaFns[f].regs \o << >>
                           /\ r.insts = ssaFns[f].insts \o <<inst>>
                           /\ r.params = ssaFns[f].params
  BY <1>1, <1>2, EmitMakes
<1>4. r.regs = ssaFns[f].regs
  BY <1>1, <1>3, CurrentFn, ConcatEmptySeq
<1>5. UNCHANGED <<phase, f, p>> /\ s' = s + 1
  BY DEF NextStmt
<1>6. p > Len(Fn.params)
  BY DEF Tracked, Walking
<1>7. Cur' \in Nat /\ Cur' >= Cur
  BY <1>1, <1>5, <1>6, CurMoves
<1>8. Placed(owner, slot)
  BY DEF Tracked
<1>9. \A e \in Mine(owner) : slot[e] >= Cur' => e \in Waiting(owner, slot)
  BY <1>1, <1>5, <1>7, <1>8, WaitingStays
<1>10. PICK ids, mine, pending : /\ ids = Ids' /\ mine = Mine(owner)
                                 /\ pending = Waiting(owner, slot)
  OBVIOUS
<1>11. Fit(ids, mine, pending, ssaFns[f]) /\ Len(ssaFns[f].regs) \in Nat
  <2>1. Ids' = Ids
    BY DEF Ids
  <2>2. Fit(Ids, Mine(owner), Waiting(owner, slot), ssaFns[f])
    BY <1>1, Translating
  <2>3. Fit(ids, mine, pending, ssaFns[f])
    BY <1>10, <2>1, <2>2
  <2> QED BY <2>3, FitParts
<1>12. InstFits(inst, Len(ssaFns[f].regs))
  BY <1>11 DEF InstFits
<1>13. Fit(ids, mine, pending, r)
  <2>1. pending \subseteq pending /\ \A e \in pending : ids[e] # 0 => ids[e] # inst.result
    OBVIOUS
  <2> QED BY <1>3, <1>4, <1>11, <1>12, <2>1, FitInst
<1>14. Fit(Ids', Mine(owner), pending, r)
  BY <1>10, <1>13
<1>15. /\ \A n \in Nodes : result'[n] = result[n] \/ own[n] = f
       /\ \A n \in Nodes : own[n] = f => result'[n] \in 0 .. Len(r.regs)
  BY <1>1, <1>4, Translating
<1>16. Walking(own)'
  BY EmptyWalk
<1> QED
  BY <1>1, <1>3, <1>5, <1>9, <1>10, <1>14, <1>15, <1>16, StepTracked

(* The statement's value is a node of the function.                        *)
LEMMA ValueReg ==
  ASSUME Inv, NEW own, Owned(own), NEW owner, NEW slot, Tracked(own, owner, slot),
         phase = "translate", todo # << >>, Stmt.value # NULL
  PROVE  /\ Stmt.value \in Nodes /\ result[Stmt.value] \in Nat
         /\ result[Stmt.value] \in 0 .. Len(ssaFns[f].regs)
<1>1. f \in Fns /\ s \in 1 .. Len(Fn.stmts) /\ Fn = prog.fns[f] /\ Stmt.value \in Nodes
  BY CurrentStmt
<1>2. Stmt = prog.fns[f].stmts[s] /\ s \in 1 .. Len(prog.fns[f].stmts)
  BY <1>1 DEF Stmt
<1>3. own[Stmt.value] = f
  BY <1>1, <1>2, OwnedMeans
<1>4. result[Stmt.value] \in Nat
  BY <1>1, InvParts DEF IrOK, Nodes
<1> QED
  BY <1>1, <1>3, <1>4, Translating

LEMMA EndExprTracked ==
  ASSUME Inv, NEW own, Owned(own), NEW owner, NEW slot, Tracked(own, owner, slot), EndExpr
  PROVE  Tracked(own, owner, slot)'
<1> DEFINE type == exprType[Stmt.value]
           inst == Inst("copy", type_sz(type), 0, <<result[Stmt.value]>>)
<1>1. phase = "translate" /\ todo # << >> /\ Stmt.t = "expr"
  BY DEF EndExpr, At, In
<1>2. Stmt.value # NULL
  BY <1>1, CurrentStmt
<1>3. CASE \E how : Fails(how)
  BY <1>3, FailsTracked
<1>4. CASE /\ type.t \in IntTypes /\ Emit(<< >>, <<inst>>) /\ NextStmt /\ todo' = << >>
           /\ UNCHANGED <<prog, scopes, entries, annotations, fnsAlloc, result>>
  <2>1. type_sz(type) \in Sizes
    BY <1>4, SizeOK
  <2>2. /\ result[Stmt.value] \in Nat
        /\ result[Stmt.value] \in 0 .. Len(ssaFns[f].regs)
    BY <1>1, <1>2, ValueReg
  <2>3. inst \in Insts
    BY <2>1, <2>2, InstOK
  <2>4. inst.result = 0 /\ inst.args = <<result[Stmt.value]>>
    BY DEF Inst
  <2> HIDE DEF inst
  <2>5. \A k \in 1 .. Len(inst.args) : inst.args[k] \in 0 .. Len(ssaFns[f].regs)
    BY <2>2, <2>4
  <2> QED BY <1>1, <1>4, <2>3, <2>4, <2>5, EndTracked
<1> QED
  BY <1>3, <1>4 DEF EndExpr

LEMMA EndReturnTracked ==
  ASSUME Inv, NEW own, Owned(own), NEW owner, NEW slot, Tracked(own, owner, slot), EndReturn
  PROVE  Tracked(own, owner, slot)'
<1> DEFINE op == IF Stmt.value = NULL THEN 0 ELSE result[Stmt.value]
           inst == Inst("ret", 0, 0, <<op>>)
<1>1. /\ phase = "translate" /\ todo # << >>
      /\ Emit(<< >>, <<inst>>) /\ NextStmt /\ todo' = << >>
      /\ UNCHANGED <<prog, scopes, entries, annotations, fnsAlloc, result>>
  BY DEF EndReturn, At, In
<1>2. f \in Fns
  BY <1>1, AtTask
<1>3. op \in Nat /\ op \in 0 .. Len(ssaFns[f].regs)
  <2>1. CASE Stmt.value = NULL
    <3>1. Len(ssaFns[f].regs) \in Nat
      BY <1>1, <1>2, CurrentFn, LenProperties
    <3> QED BY <2>1, <3>1
  <2>2. CASE Stmt.value # NULL
    BY <1>1, <2>2, ValueReg
  <2> QED BY <2>1, <2>2
<1>4. inst \in Insts
  BY <1>3, InstOK DEF Sizes
<1>5. inst.result = 0 /\ inst.args = <<op>>
  BY DEF Inst
<1> HIDE DEF inst, op
<1>6. \A k \in 1 .. Len(inst.args) : inst.args[k] \in 0 .. Len(ssaFns[f].regs)
  BY <1>3, <1>5
<1> QED
  BY <1>1, <1>4, <1>5, <1>6, EndTracked

LEMMA EndLetTracked ==
  ASSUME Inv, NEW own, Owned(own), NEW owner, NEW slot, Tracked(own, owner, slot), EndLet
  PROVE  Tracked(own, owner, slot)'
<1> DEFINE e == stmtVar[f][s]
           type == exprType[Stmt.value]
           x == sym_table_reg(e)
           inst == Inst("copy", type_sz(type), x, <<result[Stmt.value]>>)
           fails(how) == size_fails(type, how) \/ reg_fails(e, how)
<1>1. phase = "translate" /\ todo # << >> /\ Stmt.t = "let"
  BY DEF EndLet, At, In
<1>2. /\ f \in Fns /\ s \in 1 .. Len(prog.fns[f].stmts) /\ Stmt.value # NULL
      /\ Fn.params = prog.fns[f].params
  BY <1>1, CurrentStmt
<1>3. CASE \E how : Fails(how)
  BY <1>3, FailsTracked
<1>4. CASE \A how \in Abnormal : ~fails(how)
  <2>1. /\ set_id(e) /\ Emit(new_regs(e), <<inst>>) /\ NextStmt /\ todo' = << >>
        /\ UNCHANGED <<prog, scopes, annotations, result>>
    BY <1>4 DEF EndLet
  <2>2. /\ \A how \in Abnormal : ~size_fails(type, how)
        /\ \A how \in Abnormal : ~reg_fails(e, how)
    BY <1>4
  <2>3. Placed(owner, slot) /\ Walking(own)
    BY DEF Tracked
  <2>4. UNCHANGED <<phase, f, p>> /\ s' = s + 1
    BY <2>1 DEF NextStmt
  <2>5. p > Len(Fn.params)
    BY <1>1, <2>3 DEF Walking
  <2>6. Cur = Len(prog.fns[f].params) + s /\ Cur' = Cur + 1 /\ Cur \in Nat
    BY <1>2, <2>1, <2>4, <2>5, CurMoves
  <2>7. /\ e \in 0 .. Len(entries)
        /\ e # NULL => owner[e] = f /\ slot[e] = Len(prog.fns[f].params) + s
    <3>1. e \in 0 .. Len(entries)
      BY <1>2, InvParts DEF AnnotationsOK, Fns
    <3>2. e # NULL => owner[e] = f /\ slot[e] = Len(prog.fns[f].params) + s
      BY <1>2, <2>3 DEF Placed
    <3> QED BY <3>1, <3>2
  <2>8. type_sz(type) \in Sizes
    BY <2>2, SizeOK
  <2>9. /\ result[Stmt.value] \in Nat
        /\ result[Stmt.value] \in 0 .. Len(ssaFns[f].regs)
    BY <1>1, <1>2, ValueReg
  <2> HIDE DEF e, type
  <2>10. e \in 1 .. Len(entries) /\ x \in Nat /\ new_regs(e) \in Seq(Sizes)
    BY <1>1, <1>2, <2>2, <2>7, RegOK
  <2>11. owner[e] = f /\ slot[e] = Cur
    BY <2>6, <2>7, <2>10 DEF NULL
  <2>12. inst \in Insts
    BY <2>8, <2>9, <2>10, InstOK
  <2>13. inst.result = x /\ inst.args = <<result[Stmt.value]>>
    BY DEF Inst
  <2> HIDE DEF inst
  <2>14. <<inst>> \in Seq(Insts)
    BY <2>12, OneElement
  <2>15. PICK fn1 : Grown(fn1, ssaFns[f], new_regs(e))
    BY <1>1, <1>2, <2>1, <2>10, <2>14, EmitMakes
  <2>16. PICK r \in SSA_Fns : /\ ssaFns' = [ssaFns EXCEPT ![f] = r]
                              /\ r.regs = ssaFns[f].regs \o new_regs(e)
                              /\ r.insts = ssaFns[f].insts \o <<inst>>
                              /\ r.params = ssaFns[f].params
    BY <1>1, <1>2, <2>1, <2>10, <2>14, EmitMakes
  <2>17. /\ fn1 \in SSA_Fns /\ fn1.regs = ssaFns[f].regs \o new_regs(e)
         /\ fn1.insts = ssaFns[f].insts /\ fn1.params = ssaFns[f].params
    BY <2>15 DEF Grown
  <2>18. /\ x \in 1 .. Len(fn1.regs)
         /\ Len(fn1.regs) \in Nat /\ Len(ssaFns[f].regs) \in Nat
         /\ Len(ssaFns[f].regs) <= Len(fn1.regs)
         /\ Len(entries') = Len(entries)
         /\ \A d \in 1 .. Len(entries) : /\ entries'[d].type = entries[d].type
                                         /\ d # e => entries'[d].id = entries[d].id
    BY <1>1, <1>2, <2>1, <2>2, <2>10, <2>11, <2>17, EntryReg
  <2>19. Cur' \in Nat /\ Cur' > Cur
    BY <2>6
  <2>20. PICK ids, mine, pending, left :
           /\ ids = Ids' /\ mine = Mine(owner) /\ Fit(ids, mine, pending, fn1)
           /\ ~Sets(fn1, x) /\ left \subseteq pending
           /\ \A d \in left : ids[d] # x
           /\ \A d \in mine : slot[d] >= Cur' => d \in left
    <3>1. SetNow(owner, slot, fn1, sym_table_reg(e))
      BY <1>1, <1>2, <2>1, <2>2, <2>4, <2>10, <2>11, <2>15, <2>19, SlotReg
    <3> QED BY <3>1 DEF SetNow
  <2>21. InstFits(inst, Len(fn1.regs))
    <3>1. x \in 0 .. Len(fn1.regs) /\ result[Stmt.value] \in 0 .. Len(fn1.regs)
      BY <2>9, <2>18
    <3>2. \A k \in 1 .. Len(inst.args) : inst.args[k] = result[Stmt.value]
      BY <2>13
    <3> QED BY <2>13, <3>1, <3>2 DEF InstFits
  <2>22. Fit(ids, mine, left, r)
    <3>1. r.regs = fn1.regs /\ r.insts = fn1.insts \o <<inst>> /\ r.params = fn1.params
      BY <2>16, <2>17
    <3>2. \A d \in left : ids[d] # 0 => ids[d] # inst.result
      BY <2>13, <2>20
    <3>3. inst.result # 0 => ~Sets(fn1, inst.result)
      BY <2>13, <2>20
    <3> QED BY <2>12, <2>16, <2>20, <2>21, <3>1, <3>2, <3>3, FitInst
  <2>23. Fit(Ids', Mine(owner), left, r) /\ \A d \in Mine(owner) : slot[d] >= Cur' => d \in left
    BY <2>20, <2>22
  <2>24. \A d \in 1 .. Len(entries) : /\ entries'[d].type = entries[d].type
                                      /\ owner[d] # f => entries'[d].id = entries[d].id
    BY <2>11, <2>18
  <2>25. \A n \in Nodes : result'[n] = result[n] \/ own[n] = f
    BY <2>1
  <2>26. \A n \in Nodes : own[n] = f => result'[n] \in 0 .. Len(r.regs)
    <3>1. \A n \in Nodes : own[n] = f => result[n] \in 0 .. Len(ssaFns[f].regs)
      BY <1>1, <1>2, Translating
    <3>2. Len(r.regs) = Len(fn1.regs)
      BY <2>16, <2>17
    <3> QED BY <2>1, <2>18, <3>1, <3>2
  <2>27. Walking(own)'
    BY <2>1, EmptyWalk
  <2> QED BY <1>1, <1>2, <2>1, <2>4, <2>16, <2>18, <2>23, <2>24, <2>25, <2>26, <2>27, StepTracked
<1> QED
  BY <1>3, <1>4 DEF EndLet

LEMMA TranslateParamTracked ==
  ASSUME Inv, NEW own, NEW owner, NEW slot, Tracked(own, owner, slot), TranslateParam
  PROVE  Tracked(own, owner, slot)'
<1> DEFINE e == paramEntry[f][p]
           x == sym_table_reg(e)
<1>1. phase = "translate" /\ f \in Fns /\ p \in 1 .. Len(Fn.params)
  BY ControlTypes DEF TranslateParam, AtParam, InFn, In, Fns
<1>2. CASE \E how : Fails(how)
  BY <1>2, FailsTracked
<1>3. CASE \A how \in Abnormal : ~reg_fails(e, how)
  <2> DEFINE r == [ssaFns[f] EXCEPT !.regs = ssaFns[f].regs \o new_regs(e),
                                    !.params = Append(ssaFns[f].params, x)]
             fn1 == [ssaFns[f] EXCEPT !.regs = ssaFns[f].regs \o new_regs(e)]
  <2>1. /\ set_id(e)
        /\ ssaFns' = [ssaFns EXCEPT ![f].regs = @ \o new_regs(e),
                                    ![f].params = Append(@, x)]
        /\ p' = p + 1 /\ UNCHANGED <<prog, phase, f, s, todo, scopes, annotations, result>>
    BY <1>3 DEF TranslateParam
  <2>2. Placed(owner, slot) /\ Walking(own)
    BY DEF Tracked
  <2>3. Cur = p /\ Cur' \in Nat /\ Cur' > Cur /\ Len(Fn.params) \in Nat
    BY <1>1, <2>1, CurMoves
  <2>4. /\ e \in 0 .. Len(entries)
        /\ e # NULL => owner[e] = f /\ slot[e] = p
    <3>1. paramEntry[f] \in Seq(0 .. Len(entries)) /\ Len(paramEntry[f]) = Len(Fn.params)
      BY <1>1, InvParts DEF AnnotationsOK, LoopsOK, Fns, Fn
    <3>2. e \in 0 .. Len(entries)
      BY <1>1, <3>1, ElementOfSeq
    <3>3. e # NULL => owner[e] = f /\ slot[e] = p
      BY <1>1, <2>2, <3>1 DEF Placed
    <3> QED BY <3>2, <3>3
  <2> HIDE DEF e
  <2>5. e \in 1 .. Len(entries) /\ x \in Nat /\ new_regs(e) \in Seq(Sizes)
    BY <1>1, <1>3, <2>4, RegOK
  <2>6. owner[e] = f /\ slot[e] = Cur
    BY <2>3, <2>4, <2>5 DEF NULL
  <2>7. /\ ssaFns[f].regs \o new_regs(e) \in Seq(Sizes)
        /\ Append(ssaFns[f].params, x) \in Seq(Nat) /\ ssaFns[f] \in SSA_Fns
    BY <1>1, <2>5, CurrentFn, ConcatProperties, AppendProperties
  <2>8. ssaFns' = [ssaFns EXCEPT ![f] = r]
    BY <1>1, <2>1, CurrentFn DEF SSA_Fns
  <2>9. /\ r \in SSA_Fns /\ r.regs = ssaFns[f].regs \o new_regs(e)
        /\ r.insts = ssaFns[f].insts /\ r.params = Append(ssaFns[f].params, x)
    BY <2>7 DEF SSA_Fns
  <2>10. /\ fn1 \in SSA_Fns /\ fn1.regs = ssaFns[f].regs \o new_regs(e)
         /\ fn1.insts = ssaFns[f].insts /\ fn1.params = ssaFns[f].params
    BY <2>7 DEF SSA_Fns
  <2> HIDE DEF r, fn1
  <2>11. Grown(fn1, ssaFns[f], new_regs(e))
    BY <2>10 DEF Grown
  <2>12. /\ x \in 1 .. Len(fn1.regs)
         /\ Len(fn1.regs) \in Nat /\ Len(ssaFns[f].regs) \in Nat
         /\ Len(ssaFns[f].regs) <= Len(fn1.regs)
         /\ Len(entries') = Len(entries)
         /\ \A d \in 1 .. Len(entries) : /\ entries'[d].type = entries[d].type
                                         /\ d # e => entries'[d].id = entries[d].id
    BY <1>1, <1>3, <2>1, <2>5, <2>6, <2>10, EntryReg
  <2>13. PICK ids, mine, pending, left :
           /\ ids = Ids' /\ mine = Mine(owner) /\ Fit(ids, mine, pending, fn1)
           /\ ~Sets(fn1, x) /\ left \subseteq pending
           /\ \A d \in left : ids[d] # x
           /\ \A d \in mine : slot[d] >= Cur' => d \in left
    <3>1. SetNow(owner, slot, fn1, sym_table_reg(e))
      BY <1>1, <1>3, <2>1, <2>3, <2>5, <2>6, <2>11, SlotReg
    <3> QED BY <3>1 DEF SetNow
  <2>14. Fit(ids, mine, left, r)
    <3>1. r.regs = fn1.regs /\ r.insts = fn1.insts /\ r.params = Append(fn1.params, x)
      BY <2>9, <2>10
    <3> QED BY <2>9, <2>12, <2>13, <3>1, FitParam
  <2>15. Fit(Ids', Mine(owner), left, r) /\ \A d \in Mine(owner) : slot[d] >= Cur' => d \in left
    BY <2>13, <2>14
  <2>16. \A d \in 1 .. Len(entries) : /\ entries'[d].type = entries[d].type
                                      /\ owner[d] # f => entries'[d].id = entries[d].id
    BY <2>6, <2>12
  <2>17. \A n \in Nodes : result'[n] = result[n] \/ own[n] = f
    BY <2>1
  <2>18. \A n \in Nodes : own[n] = f => result'[n] \in 0 .. Len(r.regs)
    <3>1. \A n \in Nodes : own[n] = f => result[n] \in 0 .. Len(ssaFns[f].regs)
      BY <1>1, Translating
    <3>2. Len(r.regs) = Len(fn1.regs)
      BY <2>9, <2>10
    <3> QED BY <2>1, <2>12, <3>1, <3>2
  <2>19. Walking(own)'
    <3>1. todo = << >>
      <4>1. todo # << >> => p > Len(Fn.params)
        BY <1>1, <2>2 DEF Walking
      <4> QED BY <1>1, <2>3, <4>1
    <3> QED BY <2>1, <3>1, EmptyWalk
  <2>20. UNCHANGED <<prog, phase, f, scopes, annotations>>
    BY <2>1
  <2> QED BY <1>1, <2>8, <2>9, <2>12, <2>15, <2>16, <2>17, <2>18, <2>19, <2>20, StepTracked
<1> QED
  BY <1>2, <1>3 DEF TranslateParam

(* The next function has no code yet, nor registers.                       *)
LEMMA IrLeaveFnTracked ==
  ASSUME Inv, NEW own, Owned(own), NEW owner, NEW slot, Tracked(own, owner, slot), Ir_LeaveFn
  PROVE  Tracked(own, owner, slot)'
<1> DEFINE r == [ssaFns[f] EXCEPT !.name = Fn.name]
<1>1. /\ phase = "translate" /\ f \in Fns /\ todo = << >> /\ phase' = phase /\ f' = f + 1
      /\ todo' = << >>
      /\ ssaFns' = [ssaFns EXCEPT ![f] = r]
      /\ UNCHANGED <<prog, scopes, entries, annotations, result>>
  BY ControlTypes DEF Ir_LeaveFn, LeaveFn, BetweenStmts, InFn, In, NextFn, Fns
<1>2. /\ UNCHANGED <<prog, phase, scopes, fnEntry, paramEntry, stmtVar, exprVar>>
      /\ Fns' = Fns /\ Nodes' = Nodes
  BY <1>1 DEF annotations, Fns, Nodes
<1>3. Placed(owner, slot) /\ Bound(own, owner) /\ FnsTyped /\ Singles
  BY DEF Tracked
<1>4. /\ r \in SSA_Fns /\ r.regs = ssaFns[f].regs
      /\ r.insts = ssaFns[f].insts /\ r.params = ssaFns[f].params
  <2>1. Fn.name \in Names
    BY <1>1, InsideFn DEF Fns
  <2> QED BY <1>1, <2>1, CurrentFn DEF SSA_Fns
<1> HIDE DEF r
<1>5. Placed(owner, slot)'
  BY <1>1, <1>2, <1>3, PlacedKept
<1>6. Bound(own, owner)'
  BY <1>1, <1>2, <1>3, BoundKept
<1>7. ChainsOwned(owner)' /\ Unused'
  BY <1>1 DEF ChainsOwned, Unused
<1>8. FnsTyped'
  BY <1>1, <1>2, <1>3 DEF FnsTyped
<1>9. Walking(own)'
  BY <1>1, EmptyWalk
<1>10. /\ Len(ssaFns') = Len(ssaFns) /\ DOMAIN ssaFns = 1 .. Len(ssaFns)
       /\ Len(ssaFns) = Len(prog.fns) /\ f \in Nat
  BY <1>1, <1>4, CurrentFn, FnWrite, Translating, LenProperties
<1>11. Singles'
  <2>1. f \in 1 .. Len(ssaFns)
    BY <1>1, <1>10 DEF Fns
  <2>2. Single(ssaFns[f])
    BY <1>3, <2>1 DEF Singles
  <2>3. Single(r)
    BY <1>4, <2>2, SingleSame
  <2> QED BY <1>1, <1>3, <1>10, <2>1, <2>3 DEF Singles
<1>12. Registers(own, owner, slot)'
  <2>1. /\ \A e \in 1 .. Len(entries) : owner[e] \notin 1 .. f => entries[e].id = 0
        /\ \A n \in Nodes : own[n] > f => result[n] = 0
    BY <1>1, Translating
  <2>2. \A i \in Nat : i \notin 1 .. f + 1 => i \notin 1 .. f
    BY <1>10
  <2>3. \A n \in Nodes : own[n] \in Nat
    BY OwnedMeans DEF Fns
  <2>4. \A e \in 1 .. Len(entries) : owner[e] \in Nat
    <3>1. owner \in [1 .. Len(entries) -> 0 .. Len(prog.fns)]
      BY <1>3, PlacedParts
    <3> QED BY <3>1
  <2>5. \A n \in Nodes : own[n] > f + 1 => result[n] = 0
    BY <1>10, <2>1, <2>3
  <2>6. \A n \in Nodes : own[n] = f + 1 => result[n] = 0
    BY <1>10, <2>1
  <2>7. \A e \in 1 .. Len(entries) : owner[e] \notin 1 .. f + 1 => entries[e].id = 0
    BY <2>1, <2>2, <2>4
  <2>8. \A e \in 1 .. Len(entries) : owner[e] = f + 1 => entries[e].id = 0
    <3>1. f + 1 \notin 1 .. f
      BY <1>10
    <3> QED BY <2>1, <3>1
  <2>9. ASSUME f' \in Fns'
        PROVE  /\ Fit(Ids', Mine(owner)', Waiting(owner, slot)', ssaFns'[f'])
               /\ Len(ssaFns'[f'].regs) \in Nat
    <3>1. /\ \A e \in Mine(owner)' : Ids'[e] = 0
          /\ Waiting(owner, slot)' \subseteq Mine(owner)'
      BY <1>1, <2>8 DEF Ids, Mine, Waiting
    <3>2. Single(ssaFns'[f'])
      <4>1. f' \in 1 .. Len(ssaFns')
        BY <1>2, <1>10, <2>9 DEF Fns
      <4> QED BY <1>11, <4>1 DEF Singles
    <3>3. Len(ssaFns'[f'].regs) \in Nat
      BY <3>2, LenProperties DEF Single, SSA_Fns
    <3> QED BY <3>1, <3>2, <3>3 DEF Fit
  <2>10. ASSUME f' \in Fns' PROVE \A n \in Nodes' : own[n] = f' => result'[n] \in 0 .. Len(ssaFns'[f'].regs)
    <3>1. Len(ssaFns'[f'].regs) \in Nat
      BY <2>9, <2>10
    <3>2. 0 \in 0 .. Len(ssaFns'[f'].regs)
      BY <3>1
    <3> QED BY <1>1, <1>2, <2>6, <3>2
  <2>11. \A e \in 1 .. Len(entries') : owner[e] \notin 1 .. f' => entries'[e].id = 0
    BY <1>1, <2>7
  <2>12. \A n \in Nodes' : own[n] > f' => result'[n] = 0
    BY <1>1, <1>2, <2>5
  <2> QED BY <2>9, <2>10, <2>11, <2>12 DEF Registers
<1> QED
  BY <1>5, <1>6, <1>7, <1>8, <1>9, <1>11, <1>12 DEF Tracked

LEMMA TranslateTracked ==
  ASSUME Inv, NEW own, Owned(own), NEW owner, NEW slot, Tracked(own, owner, slot), Ir_Next
  PROVE  Tracked(own, owner, slot)'
<1>1. CASE AllocFn \/ Ir_EnterFn \/ TranslateParam \/ TranslateStmt \/ Ir_LeaveFn
  BY <1>1, AllocFnTracked, IrEnterFnTracked, TranslateParamTracked, IrStmtTracked,
     IrLeaveFnTracked
<1>2. CASE TranslateInt \/ TranslateVar \/ \E t \in {"binop", "funcall"} : TranslateArgs(t)
  BY <1>2, TranslateIntTracked, TranslateVarTracked, TranslateArgsTracked
<1>3. CASE TranslateBinop \/ TranslateCall \/ EndLet \/ EndExpr \/ EndReturn
  BY <1>3, TranslateBinopTracked, TranslateCallTracked, EndLetTracked, EndExprTracked,
     EndReturnTracked
<1> QED
  BY <1>1, <1>2, <1>3 DEF Ir_Next

-----------------------------------------------------------------------------
(* The theorem.                                                            *)
LEMMA AtMostOne ==
  ASSUME NEW S, \A a, b \in S : a = b
  PROVE  /\ Cardinality(S) \in {0, 1}
         /\ S = {} => Cardinality(S) = 0
<1>1. CASE S = {}
  BY <1>1, FS_EmptySet
<1>2. CASE S # {}
  <2>1. PICK x \in S : TRUE
    BY <1>2
  <2>2. S = {x}
    BY <2>1
  <2> QED BY <1>2, <2>2, FS_Singleton
<1> QED
  BY <1>1, <1>2

LEMMA SingleMeans ==
  ASSUME NEW fn, Single(fn)
  PROVE  /\ \A r \in DOMAIN fn.regs :
              Cardinality({i \in DOMAIN fn.insts : fn.insts[i].result = r})
                + Cardinality({k \in DOMAIN fn.params : fn.params[k] = r}) <= 1
         /\ \A i \in DOMAIN fn.insts :
              Range(fn.insts[i].args) \cup {fn.insts[i].result} \subseteq 0 .. Len(fn.regs)
<1>1. /\ fn.regs \in Seq(Sizes) /\ fn.insts \in Seq(Insts) /\ fn.params \in Seq(Nat)
  BY DEF Single, SSA_Fns
<1>2. /\ DOMAIN fn.regs = 1 .. Len(fn.regs) /\ DOMAIN fn.insts = 1 .. Len(fn.insts)
      /\ DOMAIN fn.params = 1 .. Len(fn.params)
  BY <1>1, LenProperties
<1>3. ASSUME NEW r \in DOMAIN fn.regs
      PROVE  Cardinality({i \in DOMAIN fn.insts : fn.insts[i].result = r})
               + Cardinality({k \in DOMAIN fn.params : fn.params[k] = r}) <= 1
  <2> DEFINE S == {i \in DOMAIN fn.insts : fn.insts[i].result = r}
             T == {k \in DOMAIN fn.params : fn.params[k] = r}
  <2>1. r # 0
    BY <1>2
  <2>2. /\ \A a, b \in S : a = b
        /\ \A a, b \in T : a = b
        /\ S = {} \/ T = {}
    BY <1>2, <2>1 DEF Single
  <2> HIDE DEF S, T
  <2>3. Cardinality(S) \in {0, 1} /\ (S = {} => Cardinality(S) = 0)
    BY <2>2, AtMostOne
  <2>4. Cardinality(T) \in {0, 1} /\ (T = {} => Cardinality(T) = 0)
    BY <2>2, AtMostOne
  <2>5. Cardinality(S) + Cardinality(T) <= 1
    BY <2>2, <2>3, <2>4
  <2> QED BY <2>5 DEF S, T
<1>4. ASSUME NEW i \in DOMAIN fn.insts
      PROVE  Range(fn.insts[i].args) \cup {fn.insts[i].result} \subseteq 0 .. Len(fn.regs)
  <2>1. InstFits(fn.insts[i], Len(fn.regs))
    BY <1>2 DEF Single
  <2>2. fn.insts[i] \in Insts
    BY <1>1, <1>2, ElementOfSeq
  <2>3. fn.insts[i].args \in Seq(Nat)
    BY <2>2 DEF Insts
  <2>4. DOMAIN fn.insts[i].args = 1 .. Len(fn.insts[i].args)
    BY <2>3, LenProperties
  <2>5. ASSUME NEW x \in Range(fn.insts[i].args) PROVE x \in 0 .. Len(fn.regs)
    BY <2>1, <2>4 DEF Range, InstFits
  <2> QED BY <2>1, <2>5 DEF InstFits
<1> QED
  BY <1>3, <1>4

LEMMA SinglesMean == ASSUME Inv, Singles PROVE SingleAssignment
<1>1. DOMAIN ssaFns = 1 .. Len(ssaFns)
  BY InvParts, LenProperties DEF IrOK
<1>2. \A g \in DOMAIN ssaFns : Single(ssaFns[g])
  BY <1>1 DEF Singles
<1> QED
  BY <1>2, SingleMeans DEF SingleAssignment

(* What is invariant: the ownership of the nodes can be followed through.  *)
Followed(own) == \E owner, slot : Tracked(own, owner, slot)

LEMMA InitFollowed == ASSUME Init, NEW own PROVE Followed(own)
<1>1. /\ phase = "declare" /\ f = 1 /\ todo = << >> /\ Inv
      /\ scopes = <<Scope(<< >>)>> /\ entries = << >> /\ fnEntry = << >>
      /\ paramEntry = [g \in 1 .. Len(prog.fns) |-> << >>]
      /\ stmtVar = [g \in 1 .. Len(prog.fns) |-> [i \in 1 .. Len(prog.fns[g].stmts) |-> NULL]]
      /\ exprVar = [n \in 1 .. Len(prog.exprs) |-> NULL]
      /\ ssaFns = << >> /\ result = [n \in 1 .. Len(prog.exprs) |-> 0]
  BY InitOK DEF Init, InitNames, InitIr
<1>2. Len(entries) = 0 /\ Len(fnEntry) = 0 /\ Len(ssaFns) = 0
  BY <1>1, EmptySeq
<1>3. PICK owner, slot : /\ owner \in [1 .. 0 -> 0 .. Len(prog.fns)]
                         /\ slot \in [1 .. 0 -> Nat]
  <2>1. /\ [e \in 1 .. 0 |-> 0] \in [1 .. 0 -> 0 .. Len(prog.fns)]
        /\ [e \in 1 .. 0 |-> 0] \in [1 .. 0 -> Nat]
    OBVIOUS
  <2> QED BY <2>1
<1>4. Placed(owner, slot)
  <2>1. \A g \in Fns : Len(paramEntry[g]) = 0
    BY <1>1, EmptySeq DEF Fns
  <2>2. \A g \in Fns : \A i \in 1 .. Len(prog.fns[g].stmts) : stmtVar[g][i] = NULL
    BY <1>1 DEF Fns
  <2>3. \A g \in Fns : \A k \in 1 .. Len(paramEntry[g]) : FALSE
    BY <2>1
  <2>4. /\ \A e \in 1 .. Len(entries) : FALSE
        /\ \A g \in 1 .. Len(fnEntry) : FALSE
    BY <1>2
  <2>5. Len(fnEntry) = f - 1 /\ Len(entries) = f - 1
    BY <1>1, <1>2
  <2> QED BY <1>1, <1>2, <1>3, <2>2, <2>3, <2>4, <2>5 DEF Placed
<1>5. Bound(own, owner)
  BY <1>1 DEF Bound, Nodes
<1>6. ChainsOwned(owner)
  <2>1. scopes[global] = Scope(<< >>)
    BY <1>1 DEF global
  <2>2. scopes[global].up = << >>
    BY <2>1 DEF Scope
  <2> QED BY <1>1, <1>2, <2>2 DEF ChainsOwned
<1>7. Walking(own) /\ FnsTyped
  BY <1>1 DEF Walking, FnsTyped
<1>8. Unused
  BY <1>1, <1>2 DEF Unused, Nodes
<1>9. Registers(own, owner, slot) /\ Singles
  BY <1>1, <1>2 DEF Registers, Singles
<1>10. Tracked(own, owner, slot)
  BY <1>4, <1>5, <1>6, <1>7, <1>8, <1>9 DEF Tracked
<1> QED
  BY <1>10 DEF Followed

LEMMA NextFollowed ==
  ASSUME Inv, NEW own, Owned(own), Followed(own), [Next]_vars
  PROVE  Followed(own)'
<1>1. PICK owner, slot : Tracked(own, owner, slot)
  BY DEF Followed
<1>2. CASE UNCHANGED vars
  <2>1. UNCHANGED <<prog, phase, f, p, s, todo, scopes, entries, annotations, irVars>>
    BY <1>2 DEF vars, annotations, irVars
  <2>2. Tracked(own, owner, slot)'
    BY <1>1, <2>1, TrackedSame
  <2> QED BY <2>2 DEF Followed
<1>3. CASE Names_Next /\ UNCHANGED irVars
  BY <1>1, <1>3, NamesTracked DEF Followed
<1>4. CASE (Types_Next \/ CheckReturns \/ EndPhase) /\ UNCHANGED irVars
  <2>1. Tracked(own, owner, slot)'
    BY <1>1, <1>4, TypesTracked, ReturnsTracked, EndPhaseTracked
  <2> QED BY <2>1 DEF Followed
<1>5. CASE Ir_Next
  <2>1. Tracked(own, owner, slot)'
    BY <1>1, <1>5, TranslateTracked
  <2> QED BY <2>1 DEF Followed
<1> QED
  BY <1>2, <1>3, <1>4, <1>5 DEF Next, Semantics

LEMMA OwnedKept ==
  ASSUME Inv, [Next]_vars, NEW own
  PROVE  Owned(own)' => Owned(own)
<1>1. prog' = prog
  BY ProgKept DEF vars
<1> QED
  BY <1>1 DEF Owned, Nodes, Fns

(* The IR is in single-assignment form in every state, for every program   *)
(* whose functions do not share nodes, as AcceptedIsSeparate proves of all *)
(* the parser accepts: sym_table_reg and ssa_new_reg number each register  *)
(* once in the function it is for, an entry is only used in one function,  *)
(* and its register is set when the translation of that function reaches   *)
(* the parameter or let the entry was made for, and never again.           *)
THEOREM RegistersSetOnce == Spec => [](Separate(prog) => SingleAssignment)
<1> DEFINE RInv == Inv /\ \A own : Owned(own) => Followed(own)
<1>1. Init => RInv
  BY InitOK, InitFollowed
<1>2. RInv /\ [Next]_vars => RInv'
  <2>1. ASSUME RInv, [Next]_vars PROVE RInv'
    <3>1. Inv'
      BY <2>1, NextOK
    <3>2. ASSUME NEW own, Owned(own)' PROVE Followed(own)'
      <4>1. Owned(own)
        BY <2>1, <3>2, OwnedKept
      <4> QED BY <2>1, <4>1, NextFollowed
    <3> QED BY <3>1, <3>2
  <2> QED BY <2>1
<1>3. RInv => (Separate(prog) => SingleAssignment)
  BY SinglesMean DEF Separate, Owned, Nodes, Fns, Followed, Tracked
<1> HIDE DEF RInv
<1> QED
  BY <1>1, <1>2, <1>3, PTL DEF Spec

-----------------------------------------------------------------------------
(***************************************************************************)
(* An instruction never mixes sizes.  The size of a register comes from    *)
(* the type of the entry or node it was made for, and the instruction that *)
(* reads it goes by the type of another node, so this rests on what the    *)
(* type pass made of them: a node it gave a type keeps it, the type is     *)
(* that of its operands, entry or callee, and what a let, a call or an     *)
(* operator requires of the types below it was checked.                    *)
(***************************************************************************)
(* What the type pass established.                                         *)

(* Before it nothing has a type but what the source says.                  *)
Untyped ==
  phase \in {"declare", "names", "signatures"} =>
    /\ \A n \in Nodes : exprType[n] = NoType
    /\ \A g \in Fns : \A i \in 1 .. Len(prog.fns[g].stmts) :
         stmtType[g][i] = prog.fns[g].stmts[i].type

(* The entry of a function has its signature once the first loop of        *)
(* resolve_types was there, and no type before.                            *)
ParamTypes(g) == [k \in 1 .. Len(prog.fns[g].params) |-> prog.fns[g].params[k].type]
Signed(g) == phase \notin {"declare", "names"} /\ (phase = "signatures" => g < f)
FnEntries ==
  \A g \in Fns : g \in 1 .. Len(entries) =>
    entries[g].type = IF Signed(g) THEN FnType(prog.fns[g].ret, ParamTypes(g)) ELSE NoType

(* Only the entry of a function points to one, and to its own.             *)
FnPtrs ==
  \A e \in 1 .. Len(entries) : entries[e].fn # << >> => e \in Fns /\ entries[e].fn[2] = e

(* A let and its entry have one type, and so has its value, if that and    *)
(* the let have one.                                                       *)
LetTypes ==
  \A g \in Fns : \A i \in 1 .. Len(prog.fns[g].stmts) :
    stmtVar[g][i] # NULL => entries[stmtVar[g][i]].type = stmtType[g][i]
LetDone(g, i) ==
  \/ phase \in {"returns", "alloc_fns", "translate", "done"}
  \/ phase = "types" /\ (g < f \/ (g = f /\ i < s))
LetChecked(st, type) ==
  st.t = "let" /\ st.value # NULL /\ type # NoType => exprType[st.value].t = type.t
LetsChecked ==
  \A g \in Fns : \A i \in 1 .. Len(prog.fns[g].stmts) :
    LetDone(g, i) => LetChecked(prog.fns[g].stmts[i], stmtType[g][i])

(* The type of a node is that of its entry, or what follows from those     *)
(* below it, which are right.                                              *)
CallType(n) == entries[exprVar[n]].type
ArgTyped(n, k) == exprType[Expr(n).args[k]].t = CallType(n).args[k].t
IntTyped(n, type) == type = Expr(n).type
VarTyped(n, type) == exprVar[n] # NULL /\ type = entries[exprVar[n]].type
BinopTyped(n, type) ==
  LET left == exprType[Expr(n).args[1]]
      right == exprType[Expr(n).args[2]]
  IN  /\ left # NoType /\ right # NoType
      /\ type = coerce_type(Expr(n).op, left, right)
CallTyped(n, type) ==
  /\ exprVar[n] # NULL /\ CallType(n) \in FnTypes /\ type = CallType(n).ret
  /\ Len(Expr(n).args) = Len(CallType(n).args)
  /\ \A k \in 1 .. Len(Expr(n).args) : ArgTyped(n, k)
NodeTyped(n, type) ==
  /\ Expr(n).t = "int" => IntTyped(n, type)
  /\ Expr(n).t = "var" => VarTyped(n, type)
  /\ Expr(n).t = "binop" => BinopTyped(n, type)
  /\ Expr(n).t = "funcall" => CallTyped(n, type)
TypedNodes == \A n \in Nodes : exprType[n] # NoType => NodeTyped(n, exprType[n])

(* A call that is to be typed has its arguments compared before.           *)
ArgPending(j, n, k) == \E l \in 1 .. j - 1 : todo[l] = AfterArg(n, k)
CallPending(j, n) ==
  /\ Len(Expr(n).args) = Len(CallType(n).args)
  /\ \A k \in 1 .. Len(Expr(n).args) : ArgTyped(n, k) \/ ArgPending(j, n, k)
CallsPending ==
  phase = "types" =>
    \A j \in 1 .. Len(todo), n \in Nodes :
      todo[j].k = "leave" /\ todo[j].n = n /\ Expr(n).t = "funcall" => CallPending(j, n)

TypeInv ==
  /\ Untyped /\ FnEntries /\ FnPtrs /\ LetTypes /\ LetsChecked /\ TypedNodes /\ CallsPending

-----------------------------------------------------------------------------
(* What the translation makes of it.                                       *)

(* The register r was made, with this size.                                *)
HasSize(regs, r, sz) == r \in 1 .. Len(regs) /\ regs[r] = sz
Operations == {"copy", "add", "sub", "imul", "umul", "idiv", "udiv"}
ReadsSized(fns, regs, inst) ==
  /\ inst.t \in Operations => \A k \in 1 .. Len(inst.args) : HasSize(regs, inst.args[k], inst.sz)
  /\ inst.t = "callfn" =>
       /\ inst.fn[2] \in 1 .. Len(fns)
       /\ Len(inst.args) = Len(fns[inst.fn[2]].params)
       /\ \A k \in 1 .. Len(inst.args) :
            HasSize(regs, inst.args[k], type_sz(fns[inst.fn[2]].params[k].type))
InstSized(fns, regs, inst) ==
  /\ inst.result # 0 => HasSize(regs, inst.result, inst.sz)
  /\ ReadsSized(fns, regs, inst)
InstsSized(fns, fn) == \A i \in 1 .. Len(fn.insts) : InstSized(fns, fn.regs, fn.insts[i])
CodeSized == \A g \in 1 .. Len(ssaFns) : InstsSized(prog.fns, ssaFns[g])

(* The registers of the current function have the sizes of what they are   *)
(* for, and what a pending task reads is there or comes first.             *)
Typed(regs, r, type) == type.t \in IntTypes /\ HasSize(regs, r, type_sz(type))
EntrySizes(owner) ==
  \A e \in Mine(owner) : entries[e].id # 0 => Typed(ssaFns[f].regs, entries[e].id, entries[e].type)
NodeSizes(own) ==
  \A n \in Nodes : own[n] = f /\ result[n] # 0 /\ exprType[n] # NoType =>
    Typed(ssaFns[f].regs, result[n], exprType[n])
Reads(t) ==
  {n \in Nodes : \/ t.k = "leave" /\ \E k \in 1 .. Len(Expr(t.n).args) : n = Expr(t.n).args[k]
                 \/ t.k = "stmt" /\ n = Stmt.value}
ResultsFirst ==
  \A j \in 1 .. Len(todo) : \A n \in Reads(todo[j]) :
    result[n] # 0 \/ \E l \in 1 .. j - 1 : todo[l].n = n
SizeInv(own, owner) ==
  /\ CodeSized
  /\ phase = "translate" /\ f \in Fns => EntrySizes(owner) /\ NodeSizes(own) /\ ResultsFirst
-----------------------------------------------------------------------------
(* A type stays where it was given.                                        *)
Grows ==
  /\ \A n \in Nodes : exprType[n] # NoType => exprType'[n] = exprType[n]
  /\ \A e \in 1 .. Len(entries) : entries[e].type # NoType => entries'[e].type = entries[e].type

(* The nodes below a node.                                                 *)
LEMMA BelowNode ==
  ASSUME Inv, NEW n \in Nodes
  PROVE  /\ Expr(n) \in Exprs /\ ParsedExpr(Expr(n), n) /\ n \in Nat /\ Len(Expr(n).args) \in Nat
         /\ Expr(n).t \in {"int", "var", "binop", "funcall"}
         /\ \A k \in 1 .. Len(Expr(n).args) : Expr(n).args[k] \in Nodes /\ Expr(n).args[k] < n
         /\ Expr(n).t = "binop" => Len(Expr(n).args) = 2
<1>1. Len(prog.exprs) \in Nat /\ n \in Nat /\ n <= Len(prog.exprs)
  BY ProgramShape DEF Nodes, Inv
<1>2. /\ prog.exprs[n] \in Exprs /\ ParsedExpr(prog.exprs[n], n)
      /\ prog.exprs[n].args \in Seq(Nat)
  BY ProgramShape DEF Inv
<1>3. Expr(n) \in Exprs /\ ParsedExpr(Expr(n), n) /\ Expr(n).args \in Seq(Nat)
  BY <1>2 DEF Expr
<1>4. Len(Expr(n).args) \in Nat
  BY <1>3, LenProperties
<1>5. \A k \in 1 .. Len(Expr(n).args) : Expr(n).args[k] \in 1 .. n - 1
  BY <1>3 DEF ParsedExpr
<1>6. \A k \in 1 .. Len(Expr(n).args) : Expr(n).args[k] \in Nodes /\ Expr(n).args[k] < n
  BY <1>1, <1>5 DEF Nodes
<1>7. Expr(n).t = "binop" => Len(Expr(n).args) = 2
  BY <1>3, Zenon DEF ParsedExpr
<1>8. Expr(n).t \in {"int", "var", "binop", "funcall"}
  BY <1>3 DEF Exprs
<1> QED
  BY <1>1, <1>3, <1>4, <1>6, <1>7, <1>8

LEMMA NotNull ==
  /\ NoType.t = "null"
  /\ \A type \in Types : type # NoType => type.t # "null"
  /\ \A type \in Builtins : type.t # "null"
  /\ \A type \in FnTypes : type # NoType /\ type.args \in Seq(Builtins) /\ type \in Types
  BY DEF NoType, Types, Builtins, BuiltinTypes, IntTypes, FnTypes, Type

(* What was compared for an argument stays so.                             *)
LEMMA ArgStays ==
  ASSUME Inv, Grows, UNCHANGED <<prog, exprVar>>, NEW n \in Nodes, exprVar[n] # NULL,
         CallType(n) \in FnTypes
  PROVE  /\ CallType(n)' = CallType(n)
         /\ Len(Expr(n).args) = Len(CallType(n).args) =>
              \A k \in 1 .. Len(Expr(n).args) : ArgTyped(n, k) => ArgTyped(n, k)'
<1>1. exprVar[n] \in 1 .. Len(entries)
  <2>1. exprVar[n] \in 0 .. Len(entries) /\ Len(entries) \in Nat
    BY InvParts, LenProperties DEF AnnotationsOK, TableOK, Nodes
  <2> QED BY <2>1 DEF NULL
<1>2. CallType(n) # NoType /\ CallType(n).args \in Seq(Builtins)
  BY NotNull
<1>3. CallType(n)' = CallType(n)
  BY <1>1, <1>2 DEF CallType, Grows
<1>4. ASSUME Len(Expr(n).args) = Len(CallType(n).args),
             NEW k \in 1 .. Len(Expr(n).args), ArgTyped(n, k)
      PROVE  ArgTyped(n, k)'
  <2>1. CallType(n).args[k] \in Builtins
    BY <1>2, <1>4, ElementOfSeq
  <2>2. Expr(n).args[k] \in Nodes
    BY BelowNode
  <2>3. exprType[Expr(n).args[k]] # NoType
    BY <1>4, <2>1, NotNull DEF ArgTyped
  <2>4. exprType'[Expr(n).args[k]] = exprType[Expr(n).args[k]]
    BY <2>2, <2>3 DEF Grows
  <2> QED BY <1>3, <1>4, <2>4 DEF ArgTyped, Expr
<1> QED
  BY <1>3, <1>4

(* So what a node has for a type stays the right one.                      *)
LEMMA NodeStays ==
  ASSUME Inv, Grows, UNCHANGED <<prog, exprVar>>, NEW n \in Nodes, NEW type,
         type # NoType, NodeTyped(n, type)
  PROVE  NodeTyped(n, type)'
<1>1. CASE Expr(n).t = "int"
  BY <1>1 DEF NodeTyped, IntTyped, Expr
<1>2. CASE Expr(n).t = "var"
  <2>1. exprVar[n] # NULL /\ type = entries[exprVar[n]].type
    BY <1>2 DEF NodeTyped, VarTyped
  <2>2. exprVar[n] \in 0 .. Len(entries) /\ Len(entries) \in Nat
    BY InvParts, LenProperties DEF AnnotationsOK, TableOK, Nodes
  <2>3. exprVar[n] \in 1 .. Len(entries)
    BY <2>1, <2>2 DEF NULL
  <2>4. entries'[exprVar[n]].type = entries[exprVar[n]].type
    BY <2>1, <2>3 DEF Grows
  <2> QED BY <1>2, <2>1, <2>4 DEF NodeTyped, VarTyped, Expr
<1>3. CASE Expr(n).t = "binop"
  <2>1. BinopTyped(n, type)
    BY <1>3 DEF NodeTyped
  <2>2. Expr(n).args[1] \in Nodes /\ Expr(n).args[2] \in Nodes
    BY <1>3, BelowNode
  <2>3. /\ exprType'[Expr(n).args[1]] = exprType[Expr(n).args[1]]
        /\ exprType'[Expr(n).args[2]] = exprType[Expr(n).args[2]]
    BY <2>1, <2>2 DEF BinopTyped, Grows
  <2>4. BinopTyped(n, type)'
    BY <2>1, <2>3 DEF BinopTyped, Expr
  <2> QED BY <1>3, <2>4 DEF NodeTyped, Expr
<1>4. CASE Expr(n).t = "funcall"
  <2>1. CallTyped(n, type)
    BY <1>4 DEF NodeTyped
  <2>2. exprVar[n] # NULL /\ CallType(n) \in FnTypes /\ Len(Expr(n).args) = Len(CallType(n).args)
    BY <2>1 DEF CallTyped
  <2>3. CallType(n)' = CallType(n) /\ \A k \in 1 .. Len(Expr(n).args) : ArgTyped(n, k)'
    BY <2>1, <2>2, ArgStays DEF CallTyped
  <2>4. CallTyped(n, type)'
    BY <2>1, <2>2, <2>3 DEF CallTyped, Expr
  <2> QED BY <1>4, <2>4 DEF NodeTyped, Expr
<1> QED
  BY <1>1, <1>2, <1>3, <1>4, BelowNode

(* There is one right type for a node.                                     *)
LEMMA OneType ==
  ASSUME Inv, NEW n \in Nodes, NEW a, NEW b, NodeTyped(n, a), NodeTyped(n, b)
  PROVE  a = b
  BY BelowNode DEF NodeTyped, IntTyped, VarTyped, BinopTyped, CallTyped

LEMMA NodesStay ==
  ASSUME Inv, TypedNodes, Grows, UNCHANGED <<prog, exprVar, exprType>>
  PROVE  TypedNodes'
<1>1. ASSUME NEW n \in Nodes, exprType[n] # NoType PROVE NodeTyped(n, exprType[n])'
  <2>1. PICK type : type = exprType[n]
    OBVIOUS
  <2>2. NodeTyped(n, type)'
    BY <1>1, <2>1, NodeStays DEF TypedNodes
  <2> QED BY <2>1, <2>2
<1> QED
  BY <1>1 DEF TypedNodes, Nodes

-----------------------------------------------------------------------------
(* Where the tasks of a walk are when it goes on.                          *)
LEMMA Shifted ==
  ASSUME Inv, todo # << >>, NEW tasks \in Seq(Tasks), Continue(tasks)
  PROVE  /\ Len(tasks) \in Nat /\ Len(todo) \in Nat /\ Len(todo') = Len(tasks) + Len(todo) - 1
         /\ \A j \in 1 .. Len(tasks) : j \in 1 .. Len(todo') /\ todo'[j] = tasks[j]
         /\ \A j \in 2 .. Len(todo) : /\ Len(tasks) + j - 1 \in 1 .. Len(todo')
                                      /\ todo'[Len(tasks) + j - 1] = todo[j]
         /\ \A j \in 1 .. Len(todo') : j > Len(tasks) =>
              /\ j - Len(tasks) + 1 \in 2 .. Len(todo)
              /\ todo'[j] = todo[j - Len(tasks) + 1]
         /\ Head(todo) = todo[1]
<1>1. /\ todo \in Seq(Tasks) /\ Len(todo) \in Nat /\ Tail(todo) \in Seq(Tasks)
      /\ Len(Tail(todo)) = Len(todo) - 1
  BY Pending
<1>2. todo' = tasks \o Tail(todo)
  BY DEF Continue
<1>3. Len(tasks) \in Nat /\ Len(todo') = Len(tasks) + Len(Tail(todo))
  BY <1>1, <1>2, ConcatProperties, LenProperties
<1>4. \A j \in 1 .. Len(Tail(todo)) : Tail(todo)[j] = todo[j + 1]
  BY <1>1, HeadTailProperties
<1>5. \A j \in 1 .. Len(todo') : todo'[j] = IF j <= Len(tasks) THEN tasks[j]
                                          ELSE Tail(todo)[j - Len(tasks)]
  BY <1>1, <1>2, <1>3, ConcatProperties
<1>6. Head(todo) = todo[1]
  BY <1>1, HeadTailProperties
<1>7. Len(todo) >= 1
  BY <1>1, EmptySeq
<1>8. Len(todo') = Len(tasks) + Len(todo) - 1
  BY <1>1, <1>3
<1>9. \A j \in 1 .. Len(tasks) : j \in 1 .. Len(todo') /\ todo'[j] = tasks[j]
  BY <1>1, <1>3, <1>5, <1>7
<1>10. ASSUME NEW j \in 2 .. Len(todo)
       PROVE  Len(tasks) + j - 1 \in 1 .. Len(todo') /\ todo'[Len(tasks) + j - 1] = todo[j]
  <2>1. j \in Nat /\ j - 1 \in 1 .. Len(Tail(todo)) /\ (j - 1) + 1 = j
    BY <1>1
  <2>2. Len(tasks) + j - 1 \in 1 .. Len(todo') /\ ~(Len(tasks) + j - 1 <= Len(tasks))
    BY <1>1, <1>3, <1>8, <2>1
  <2>3. (Len(tasks) + j - 1) - Len(tasks) = j - 1
    BY <1>3, <2>1
  <2> QED BY <1>4, <1>5, <2>1, <2>2, <2>3
<1>11. ASSUME NEW j \in 1 .. Len(todo'), j > Len(tasks)
       PROVE  j - Len(tasks) + 1 \in 2 .. Len(todo) /\ todo'[j] = todo[j - Len(tasks) + 1]
  <2>1. j - Len(tasks) \in 1 .. Len(Tail(todo)) /\ ~(j <= Len(tasks))
    BY <1>1, <1>3, <1>11
  <2> QED BY <1>1, <1>3, <1>4, <1>5, <1>11, <2>1
<1> QED
  BY <1>1, <1>3, <1>6, <1>8, <1>9, <1>10, <1>11

(* The arguments that are compared before the call in this list.           *)
CallPrepared(tasks) ==
  \A j \in 1 .. Len(tasks), n \in Nodes :
    tasks[j].k = "leave" /\ tasks[j].n = n /\ Expr(n).t = "funcall" =>
      /\ Len(Expr(n).args) = Len(CallType(n).args)
      /\ \A k \in 1 .. Len(Expr(n).args) : \E l \in 1 .. j - 1 : tasks[l] = AfterArg(n, k)
JustCompared ==
  \A n \in Nodes : \A k \in 1 .. Len(Expr(n).args) : Head(todo) = AfterArg(n, k) => ArgTyped(n, k)

LEMMA CallsGoOn ==
  ASSUME Inv, CallsPending, Grows, todo # << >>, UNCHANGED <<prog, exprVar>>,
         NEW tasks \in Seq(Tasks), Continue(tasks), CallPrepared(tasks), JustCompared,
         \A j \in 1 .. Len(tasks) : TaskOK(tasks[j])
  PROVE  CallsPending'
<1>1. ASSUME phase = "types", NEW j \in 1 .. Len(todo'), NEW n \in Nodes,
             todo'[j].k = "leave", todo'[j].n = n, Expr(n).t = "funcall"
      PROVE  CallPending(j, n)'
  <2>1. /\ Len(tasks) \in Nat /\ Len(todo) \in Nat /\ Len(todo') = Len(tasks) + Len(todo) - 1
        /\ \A i \in 1 .. Len(tasks) : i \in 1 .. Len(todo') /\ todo'[i] = tasks[i]
        /\ \A i \in 2 .. Len(todo) : /\ Len(tasks) + i - 1 \in 1 .. Len(todo')
                                     /\ todo'[Len(tasks) + i - 1] = todo[i]
        /\ j > Len(tasks) => /\ j - Len(tasks) + 1 \in 2 .. Len(todo)
                             /\ todo'[j] = todo[j - Len(tasks) + 1]
        /\ Head(todo) = todo[1]
    BY Shifted
  <2>3. CASE j <= Len(tasks)
    <3>1. todo'[j] = tasks[j] /\ j \in 1 .. Len(tasks)
      BY <2>1, <2>3
    <3>2. TaskOK(tasks[j])
      BY <3>1
    <3>3. exprVar[n] # NULL /\ CallType(n) \in FnTypes
      BY <1>1, <3>1, <3>2 DEF TaskOK, CallType
    <3>4. /\ Len(Expr(n).args) = Len(CallType(n).args)
          /\ \A k \in 1 .. Len(Expr(n).args) : \E l \in 1 .. j - 1 : tasks[l] = AfterArg(n, k)
      BY <1>1, <3>1 DEF CallPrepared
    <3>5. CallType(n)' = CallType(n)
      BY <3>3, ArgStays
    <3>6. \A k \in 1 .. Len(Expr(n).args) : \E l \in 1 .. j - 1 : todo'[l] = AfterArg(n, k)
      <4>1. \A l \in 1 .. j - 1 : todo'[l] = tasks[l]
        BY <2>1, <3>1
      <4> QED BY <3>4, <4>1
    <3> QED
      BY <3>4, <3>5, <3>6 DEF CallPending, ArgPending, Expr, AfterArg, Task
  <2>4. CASE j > Len(tasks)
    <3>1. PICK i : i = j - Len(tasks) + 1
      OBVIOUS
    <3>2. i \in 2 .. Len(todo) /\ todo'[j] = todo[i] /\ j = Len(tasks) + i - 1
      BY <2>1, <2>4, <3>1
    <3>3. TaskOK(todo[i])
      BY <3>2, Pending
    <3>4. exprVar[n] # NULL /\ CallType(n) \in FnTypes
      BY <1>1, <3>2, <3>3 DEF TaskOK, CallType
    <3>5. CallPending(i, n)
      <4>1. i \in 1 .. Len(todo)
        BY <2>1, <3>2
      <4> QED BY <1>1, <3>2, <4>1 DEF CallsPending
    <3>6. CallType(n)' = CallType(n)
      BY <3>4, ArgStays
    <3>7. ASSUME NEW k \in 1 .. Len(Expr(n).args)
          PROVE  ArgTyped(n, k)' \/ \E l \in 1 .. j - 1 : todo'[l] = AfterArg(n, k)
      <4>1. CASE ArgTyped(n, k)
        BY <3>4, <3>5, <3>7, <4>1, ArgStays DEF CallPending
      <4>2. CASE ~ArgTyped(n, k)
        <5>1. PICK l \in 1 .. i - 1 : todo[l] = AfterArg(n, k)
          BY <3>5, <3>7, <4>2 DEF CallPending, ArgPending
        <5>2. l # 1
          BY <2>1, <3>4, <3>7, <4>2, <5>1 DEF JustCompared
        <5>3. l \in 2 .. Len(todo) /\ Len(tasks) + l - 1 \in 1 .. j - 1
          <6>1. i \in Nat /\ l \in Nat /\ l >= 1 /\ l <= i - 1 /\ i <= Len(todo)
            BY <2>1, <3>2, <5>1, SMTT(60)
          <6>2. Len(tasks) + l - 1 >= 1 /\ Len(tasks) + l - 1 <= j - 1 /\ l >= 2 /\ l <= Len(todo)
            BY <2>1, <3>2, <5>2, <6>1
          <6> QED BY <2>1, <6>1, <6>2
        <5>4. todo'[Len(tasks) + l - 1] = AfterArg(n, k)
          BY <2>1, <5>1, <5>3
        <5> QED BY <5>3, <5>4
      <4> QED BY <4>1, <4>2
    <3> QED
      BY <3>5, <3>6, <3>7 DEF CallPending, ArgPending, Expr, AfterArg, Task
  <2> QED BY <2>1, <2>3, <2>4
<1>2. phase' = phase
  BY DEF Continue
<1> QED
  BY <1>1, <1>2 DEF CallsPending, Expr, Nodes

(* A step that ends a walk, or has none.                                   *)
LEMMA NoCalls == ASSUME todo' = << >> PROVE CallsPending'
  BY EmptySeq DEF CallsPending

(* What a step of a pass after the signatures keeps.                       *)
LEMMA LetsStay ==
  ASSUME Inv, LetsChecked, Grows, UNCHANGED <<prog, stmtType>>,
         \A g \in Fns : \A i \in 1 .. Len(prog.fns[g].stmts) :
           LetDone(g, i)' => LetDone(g, i) \/ LetChecked(prog.fns[g].stmts[i], stmtType[g][i])
  PROVE  LetsChecked'
<1>1. ASSUME NEW g \in Fns, NEW i \in 1 .. Len(prog.fns[g].stmts), LetDone(g, i)'
      PROVE  LetChecked(prog.fns[g].stmts[i], stmtType[g][i])'
  <2>1. LetChecked(prog.fns[g].stmts[i], stmtType[g][i])
    BY <1>1 DEF LetsChecked
  <2>2. stmtType[g][i] \in Types
    BY InvParts DEF AnnotationsOK, Fns
  <2>3. prog.fns[g].stmts[i] \in Stmts(Nodes)
    BY ProgramShape, ElementOfSeq DEF Inv
  <2>4. prog.fns[g].stmts[i].value # NULL => prog.fns[g].stmts[i].value \in Nodes
    BY <2>3 DEF Stmts
  <2>5. PICK st, type : st = prog.fns[g].stmts[i] /\ type = stmtType[g][i]
    OBVIOUS
  <2>6. LetChecked(st, type)'
    BY <2>1, <2>2, <2>4, <2>5, NotNull DEF LetChecked, Grows
  <2> QED BY <2>5, <2>6
<1> QED
  BY <1>1 DEF LetsChecked, Fns

LEMMA TypesOn ==
  ASSUME Inv, TypeInv, Grows, UNCHANGED <<prog, phase, stmtVar, stmtType, exprVar>>,
         phase \notin {"declare", "names", "signatures"},
         Len(entries') = Len(entries),
         \A e \in 1 .. Len(entries) : entries'[e].type = entries[e].type,
         FnPtrs', TypedNodes', CallsPending',
         \A g \in Fns : \A i \in 1 .. Len(prog.fns[g].stmts) :
           LetDone(g, i)' => LetDone(g, i) \/ LetChecked(prog.fns[g].stmts[i], stmtType[g][i])
  PROVE  TypeInv'
<1>1. Untyped'
  BY DEF Untyped
<1>2. FnEntries'
  <2>1. \A g \in Fns : g \in 1 .. Len(entries) =>
          entries[g].type = FnType(prog.fns[g].ret, ParamTypes(g))
    BY DEF TypeInv, FnEntries, Signed
  <2>2. \A g \in Fns : g \in 1 .. Len(entries') =>
          entries'[g].type = FnType(prog.fns[g].ret, ParamTypes(g))
    BY <2>1
  <2>3. \A g : ParamTypes(g)' = ParamTypes(g) /\ Signed(g)'
    BY DEF ParamTypes, Signed
  <2> QED BY <2>2, <2>3 DEF FnEntries, Fns
<1>3. LetTypes'
  <2>1. \A g \in Fns : \A i \in 1 .. Len(prog.fns[g].stmts) :
          stmtVar[g][i] # NULL => stmtVar[g][i] \in 1 .. Len(entries)
    <3>1. ASSUME NEW g \in Fns, NEW i \in 1 .. Len(prog.fns[g].stmts)
          PROVE  stmtVar[g][i] \in 0 .. Len(entries) /\ Len(entries) \in Nat
      BY InvParts, LenProperties DEF AnnotationsOK, TableOK, Fns
    <3> QED BY <3>1 DEF NULL
  <2> QED BY <2>1 DEF LetTypes, TypeInv, Fns
<1>4. LetsChecked'
  BY LetsStay DEF TypeInv
<1> QED
  BY <1>1, <1>2, <1>3, <1>4 DEF TypeInv

(* Nothing changes that any of it is about.                                *)
LEMMA SameGrows == ASSUME UNCHANGED <<entries, annotations>> PROVE Grows
  BY DEF Grows, annotations

LEMMA TypeInvSame ==
  ASSUME TypeInv, UNCHANGED <<prog, phase, f, s, todo, entries, annotations>>
  PROVE  TypeInv'
<1> USE DEF annotations
<1>1. Untyped' /\ FnPtrs' /\ LetTypes'
  BY DEF TypeInv, Untyped, FnPtrs, LetTypes, Nodes, Fns
<1>2. FnEntries'
  <2>1. \A g : ParamTypes(g)' = ParamTypes(g) /\ (Signed(g)' <=> Signed(g))
    BY DEF ParamTypes, Signed
  <2> QED BY <2>1 DEF TypeInv, FnEntries, Fns
<1>3. LetsChecked'
  BY DEF TypeInv, LetsChecked, LetChecked, LetDone, Fns
<1>4. TypedNodes'
  BY DEF TypeInv, TypedNodes, NodeTyped, IntTyped, VarTyped, BinopTyped, CallTyped, ArgTyped,
         CallType, Expr, Nodes
<1>5. CallsPending'
  <2>1. ASSUME NEW j, NEW n, CallPending(j, n)
        PROVE  CallPending(j, n)'
    BY <2>1 DEF CallPending, ArgPending, ArgTyped, CallType, Expr, AfterArg, Task
  <2> QED BY <2>1 DEF TypeInv, CallsPending, Expr, Nodes
<1> QED
  BY <1>1, <1>2, <1>3, <1>4, <1>5 DEF TypeInv

LEMMA StopTyped == ASSUME TypeInv, NEW how, Stop(how) PROVE TypeInv' /\ Grows
<1>1. UNCHANGED <<prog, phase, f, s, todo, entries, annotations>>
  BY DEF Stop, annotations
<1> QED
  BY <1>1, TypeInvSame, SameGrows

(* A step after the signatures that gives nothing a type.                  *)
LEMMA PlainTyped ==
  ASSUME Inv, TypeInv, phase \notin {"declare", "names", "signatures"},
         UNCHANGED <<prog, phase, entries, annotations>>, CallsPending',
         \A g \in Fns : \A i \in 1 .. Len(prog.fns[g].stmts) :
           LetDone(g, i)' => LetDone(g, i) \/ LetChecked(prog.fns[g].stmts[i], stmtType[g][i])
  PROVE  TypeInv' /\ Grows
<1>1. Grows
  BY SameGrows
<1>2. UNCHANGED <<exprVar, exprType, stmtVar, stmtType>>
  BY DEF annotations
<1>3. TypedNodes'
  BY <1>1, <1>2, NodesStay DEF TypeInv
<1>4. FnPtrs'
  BY DEF TypeInv, FnPtrs, Fns
<1> QED
  BY <1>1, <1>2, <1>3, <1>4, TypesOn

(* The walk goes on.                                                       *)
LEMMA WalkTyped ==
  ASSUME Inv, TypeInv, phase = "types", todo # << >>, UNCHANGED <<prog, entries, annotations>>,
         NEW tasks \in Seq(Tasks), \A j \in 1 .. Len(tasks) : TaskOK(tasks[j]),
         Continue(tasks), CallPrepared(tasks), JustCompared
  PROVE  TypeInv' /\ Grows
<1>1. UNCHANGED <<phase, f, s>> /\ Grows /\ UNCHANGED <<prog, exprVar>>
  BY SameGrows DEF Continue, annotations
<1>2. CallsPending'
  BY <1>1, CallsGoOn DEF TypeInv
<1>3. \A g, i : LetDone(g, i)' <=> LetDone(g, i)
  BY <1>1 DEF LetDone
<1> QED
  BY <1>1, <1>2, <1>3, PlainTyped

(* A node gets the type that is right for it.                              *)
LEMMA SetTypeTyped ==
  ASSUME Inv, TypeInv, phase = "types", todo # << >>, Head(todo).k \in {"enter", "leave"},
         NEW type, SetType(type), Continue(<< >>), NodeTyped(Node, type)
  PROVE  TypeInv' /\ Grows
<1>1. PICK n : n = Node
  OBVIOUS
<1>2. n \in Nodes /\ NodeTyped(n, type)
  BY <1>1, AtTask
<1>3. /\ exprType' = [exprType EXCEPT ![n] = type]
      /\ UNCHANGED <<prog, entries, stmtVar, stmtType, exprVar>>
      /\ UNCHANGED <<phase, f, s>>
  BY <1>1 DEF SetType, Continue
<1>4. exprType' \in [Nodes -> {exprType'[m] : m \in Nodes}] /\ exprType'[n] = type
      /\ \A m \in Nodes : m # n => exprType'[m] = exprType[m]
  BY <1>2, <1>3, InvParts DEF AnnotationsOK, Nodes
<1>5. exprType[n] # NoType => exprType[n] = type
  BY <1>2, OneType DEF TypeInv, TypedNodes
<1>6. Grows
  BY <1>3, <1>4, <1>5 DEF Grows
<1>7. TypedNodes'
  <2>1. ASSUME NEW m \in Nodes, exprType'[m] # NoType PROVE NodeTyped(m, exprType'[m])
    <3>1. CASE m = n
      BY <1>2, <1>4, <3>1
    <3>2. CASE m # n
      BY <1>4, <2>1, <3>2 DEF TypeInv, TypedNodes
    <3> QED BY <3>1, <3>2
  <2>2. ASSUME NEW m \in Nodes, exprType'[m] # NoType PROVE NodeTyped(m, exprType[m])'
    <3>1. PICK t : t = exprType'[m]
      OBVIOUS
    <3>2. NodeTyped(m, t) /\ t # NoType
      BY <2>1, <2>2, <3>1
    <3>3. NodeTyped(m, t)'
      BY <1>3, <1>6, <3>2, NodeStays
    <3> QED BY <3>1, <3>3
  <2> QED BY <1>3, <2>2 DEF TypedNodes, Nodes
<1>8. CallsPending'
  <2>1. << >> \in Seq(Tasks) /\ Len(<< >>) = 0
    BY EmptySeq
  <2>2. CallPrepared(<< >>) /\ \A j \in 1 .. Len(<< >>) : TaskOK(<< >>[j])
    BY <2>1 DEF CallPrepared
  <2>3. JustCompared
    BY DEF JustCompared, AfterArg, Task
  <2> QED BY <1>3, <1>6, <2>1, <2>2, <2>3, CallsGoOn DEF TypeInv
<1>9. FnPtrs'
  BY <1>3 DEF TypeInv, FnPtrs, Fns
<1>10. \A g, i : LetDone(g, i)' <=> LetDone(g, i)
  BY <1>3 DEF LetDone
<1>11. Len(entries') = Len(entries) /\ \A e \in 1 .. Len(entries) : entries'[e].type = entries[e].type
  BY <1>3
<1> QED
  BY <1>3, <1>6, <1>7, <1>8, <1>9, <1>10, <1>11, TypesOn

LEMMA TypeIntTyped == ASSUME Inv, TypeInv, TypeInt PROVE TypeInv' /\ Grows
<1>1. /\ todo # << >> /\ Head(todo).k = "enter" /\ phase = "types"
      /\ (Node # 0 => Expr(Node).t = "int")
      /\ SetType(Expr(Node).type) /\ Continue(<< >>)
  BY DEF TypeInt, At, In, Node
<1>2. Node # 0
  BY <1>1, AtTask
<1>3. NodeTyped(Node, Expr(Node).type)
  BY <1>1, <1>2 DEF NodeTyped, IntTyped
<1>4. PICK type : type = Expr(Node).type
  OBVIOUS
<1> QED
  BY <1>1, <1>3, <1>4, SetTypeTyped

LEMMA TypeBinopTyped == ASSUME Inv, TypeInv, TypeBinop PROVE TypeInv' /\ Grows
<1> DEFINE left == exprType[Expr(Node).args[1]]
           right == exprType[Expr(Node).args[2]]
<1>1. /\ todo # << >> /\ Head(todo).k = "leave" /\ phase = "types"
      /\ (Node # 0 => Expr(Node).t = "binop")
      /\ \/ \E how : Stop(how)
         \/ /\ ~coerce_reads_null(left, right)
            /\ SetType(coerce_type(Expr(Node).op, left, right)) /\ Continue(<< >>)
  BY DEF TypeBinop, At, In, Node
<1>2. Node # 0
  BY <1>1, AtTask
<1>3. PICK type : type = coerce_type(Expr(Node).op, left, right)
  OBVIOUS
<1>4. CASE /\ ~coerce_reads_null(left, right)
           /\ SetType(type) /\ Continue(<< >>)
  <2>1. BinopTyped(Node, type)
    BY <1>3, <1>4 DEF BinopTyped, coerce_reads_null
  <2>2. NodeTyped(Node, type)
    BY <1>1, <1>2, <2>1 DEF NodeTyped
  <2> QED BY <1>1, <1>4, <2>2, SetTypeTyped
<1> QED
  BY <1>1, <1>3, <1>4, StopTyped

LEMMA TypeCallTyped == ASSUME Inv, TypeInv, TypeCall PROVE TypeInv' /\ Grows
<1>1. /\ todo # << >> /\ Head(todo).k = "leave" /\ phase = "types"
      /\ (Node # 0 => Expr(Node).t = "funcall")
      /\ SetType(CallType(Node).ret) /\ Continue(<< >>)
  BY DEF TypeCall, At, In, Node, CallType
<1>2. TaskOK(Head(todo)) /\ Node # 0 /\ Node \in Nodes
  BY <1>1, AtTask
<1>3. exprVar[Node] # NULL /\ CallType(Node) \in FnTypes
  BY <1>1, <1>2 DEF TaskOK, Node, CallType
<1>4. CallPending(1, Node)
  <2>1. Len(todo) \in Nat /\ Len(todo) # 0 /\ Head(todo) = todo[1]
    BY <1>1, Pending, EmptySeq, HeadTailProperties
  <2>2. 1 \in 1 .. Len(todo)
    BY <2>1
  <2>3. todo[1].k = "leave" /\ todo[1].n = Node /\ Expr(Node).t = "funcall"
    BY <1>1, <1>2, <2>1 DEF Node
  <2> HIDE DEF Node
  <2> QED BY <1>1, <1>2, <2>2, <2>3 DEF TypeInv, CallsPending
<1>5. \A k : ~ArgPending(1, Node, k)
  BY DEF ArgPending
<1>6. PICK type : type = CallType(Node).ret
  OBVIOUS
<1>7. CallTyped(Node, type)
  BY <1>3, <1>4, <1>5, <1>6 DEF CallTyped, CallPending
<1>8. NodeTyped(Node, type)
  BY <1>1, <1>2, <1>7 DEF NodeTyped
<1> QED
  BY <1>1, <1>6, <1>8, SetTypeTyped

LEMMA ThenOne ==
  ASSUME NEW S, NEW list \in Seq(S), NEW e \in S
  PROVE  /\ list \o <<e>> \in Seq(S) /\ Len(list) \in Nat /\ Len(list \o <<e>>) = Len(list) + 1
         /\ \A i \in 1 .. Len(list) : (list \o <<e>>)[i] = list[i]
         /\ (list \o <<e>>)[Len(list) + 1] = e
         /\ \A j \in 1 .. Len(list \o <<e>>) : j \in 1 .. Len(list) \/ j = Len(list) + 1
<1>1. PICK l2 : l2 = list \o <<e>>
  OBVIOUS
<1>2. /\ l2 \in Seq(S) /\ Len(list) \in Nat /\ Len(l2) = Len(list) + 1
      /\ \A k \in 1 .. Len(list) + 1 : l2[k] = IF k <= Len(list) THEN list[k] ELSE e
  BY <1>1, OneMore
<1> QED
  BY <1>1, <1>2

LEMMA EnterBinopTyped == ASSUME Inv, TypeInv, EnterBinop PROVE TypeInv' /\ Grows
<1> DEFINE calls == EnterAll(Expr(Node).args)
           tasks == calls \o <<Leave(Node)>>
<1>1. /\ todo # << >> /\ Head(todo).k = "enter" /\ phase = "types"
      /\ (Node # 0 => Expr(Node).t = "binop")
      /\ Continue(tasks) /\ UNCHANGED <<prog, scopes, entries, annotations>>
  BY DEF EnterBinop, At, In, Node
<1>2. Node \in Nodes /\ Node # 0
  BY <1>1, AtTask
<1>3. /\ calls \in Seq(Tasks) /\ Len(calls) \in Nat
      /\ \A i \in 1 .. Len(calls) : calls[i].k = "enter" /\ TaskOK(calls[i])
  BY <1>2, EnterAllOK, LenProperties
<1>4. /\ Leave(Node) \in Tasks /\ TaskOK(Leave(Node))
      /\ Leave(Node).k = "leave" /\ Leave(Node).n = Node
  BY <1>1, <1>2, InvParts, ProgramShape DEF Leave, Task, Tasks, TaskOK, Nodes
<1> HIDE DEF calls
<1>5. /\ tasks \in Seq(Tasks)
      /\ \A k \in 1 .. Len(calls) : tasks[k] = calls[k]
      /\ tasks[Len(calls) + 1] = Leave(Node)
      /\ \A k \in 1 .. Len(tasks) : k \in 1 .. Len(calls) \/ k = Len(calls) + 1
  BY <1>3, <1>4, ThenOne
<1> HIDE DEF tasks
<1>6. \A k \in 1 .. Len(tasks) : \/ tasks[k].k = "enter" /\ TaskOK(tasks[k])
                                 \/ tasks[k] = Leave(Node)
  BY <1>3, <1>5
<1>7. CallPrepared(tasks)
  BY <1>1, <1>2, <1>4, <1>6 DEF CallPrepared
<1>8. JustCompared
  BY <1>1 DEF JustCompared, AfterArg, Task
<1>9. \A k \in 1 .. Len(tasks) : TaskOK(tasks[k])
  BY <1>4, <1>6
<1> QED
  BY <1>1, <1>5, <1>7, <1>8, <1>9, WalkTyped

(* A call whose arguments are typed and compared one by one.               *)
LEMMA Halves ==
  ASSUME NEW m \in Nat, NEW i \in 1 .. 2 * m
  PROVE  /\ i % 2 = 1 => (i + 1) \div 2 \in 1 .. m /\ \A k \in 1 .. m : i # 2 * k
         /\ i % 2 # 1 => i \div 2 \in Nat /\ \A k \in 1 .. m : i = 2 * k => i \div 2 = k
<1>1. i \in Nat /\ i >= 1 /\ i <= 2 * m /\ i = 2 * (i \div 2) + (i % 2) /\ i % 2 \in {0, 1}
      /\ i \div 2 \in Nat
  OBVIOUS
<1>2. i % 2 = 1 => (i + 1) \div 2 = (i \div 2) + 1 /\ i \div 2 < m
  BY <1>1
<1>3. \A k \in 1 .. m : i = 2 * k => i \div 2 = k /\ i % 2 = 0
  BY <1>1
<1> QED
  BY <1>1, <1>2, <1>3

CallList(n) ==
  [i \in 1 .. 2 * Len(Expr(n).args) |->
     IF i % 2 = 1 THEN Enter(Expr(n).args[(i + 1) \div 2]) ELSE AfterArg(n, i \div 2)]

LEMMA CallListOK ==
  ASSUME Inv, NEW n \in Nodes
  PROVE  /\ CallList(n) \in Seq(Tasks) /\ Len(CallList(n)) = 2 * Len(Expr(n).args)
         /\ \A i \in 1 .. Len(CallList(n)) : TaskOK(CallList(n)[i]) /\ CallList(n)[i].k # "leave"
         /\ \A k \in 1 .. Len(Expr(n).args) : CallList(n)[2 * k] = AfterArg(n, k)
<1> DEFINE args == Expr(n).args
           list == CallList(n)
<1>1. Len(args) \in Nat /\ \A k \in 1 .. Len(args) : args[k] \in Nodes
  BY BelowNode
<1>2. \A i \in 1 .. 2 * Len(args) :
        list[i] = IF i % 2 = 1 THEN Enter(args[(i + 1) \div 2]) ELSE AfterArg(n, i \div 2)
  BY DEF CallList
<1>3. list = [i \in 1 .. 2 * Len(args) |-> list[i]]
  BY DEF CallList
<1> HIDE DEF args, list
<1>4. ASSUME NEW i \in 1 .. 2 * Len(args)
      PROVE  list[i] \in Tasks /\ TaskOK(list[i]) /\ list[i].k # "leave"
  <2>1. CASE i % 2 = 1
    <3>1. args[(i + 1) \div 2] \in Nodes
      BY <1>1, <2>1, Halves
    <3>2. list[i] = Enter(args[(i + 1) \div 2])
      BY <1>2, <2>1
    <3>3. Enter(args[(i + 1) \div 2]) \in Tasks
      BY <3>1, InvParts, ProgramShape DEF Enter, Task, Tasks, Nodes
    <3> QED BY <3>1, <3>2, <3>3 DEF Enter, Task, TaskOK
  <2>2. CASE i % 2 # 1
    <3>1. PICK k : k = i \div 2
      OBVIOUS
    <3>2. k \in Nat /\ list[i] = AfterArg(n, k)
      BY <1>1, <1>2, <2>2, <3>1, Halves
    <3>3. AfterArg(n, k) \in Tasks
      BY <3>2, InvParts, ProgramShape DEF AfterArg, Task, Tasks, Nodes
    <3> QED BY <3>2, <3>3 DEF AfterArg, Task, TaskOK
  <2> QED BY <2>1, <2>2
<1>5. list \in Seq(Tasks) /\ Len(list) = 2 * Len(args)
  <2>1. list \in [1 .. 2 * Len(args) -> Tasks]
    BY <1>3, <1>4
  <2>2. 2 * Len(args) \in Nat
    BY <1>1
  <2> QED BY <2>1, <2>2, FcnIsSeq
<1>6. ASSUME NEW k \in 1 .. Len(args) PROVE list[2 * k] = AfterArg(n, k)
  <2>1. PICK i : i = 2 * k
    OBVIOUS
  <2>2. i \in 1 .. 2 * Len(args)
    BY <1>1, <2>1
  <2>3. i % 2 # 1 /\ i \div 2 = k
    BY <1>1, <2>1, <2>2, Halves
  <2> QED BY <1>2, <2>1, <2>2, <2>3
<1> QED
  BY <1>4, <1>5, <1>6 DEF args, list

LEMMA CallArgsTyped ==
  ASSUME Inv, TypeInv, phase = "types", todo # << >>, Head(todo).k = "enter",
         ~name_reads_null, Expr(Node).t = "funcall", CallType(Node).t = "fn",
         Len(CallType(Node).args) = Len(Expr(Node).args),
         Continue(CallList(Node) \o <<Leave(Node)>>),
         UNCHANGED <<prog, scopes, entries, annotations>>
  PROVE  TypeInv' /\ Grows
<1>1. PICK n, calls, tasks :
        n = Node /\ calls = CallList(Node) /\ tasks = CallList(Node) \o <<Leave(Node)>>
  OBVIOUS
<1>2. n \in Nodes /\ Len(Expr(n).args) \in Nat
  BY <1>1, AtTask
<1>3. exprVar[n] # NULL /\ CallType(n) \in FnTypes
  <2>1. exprVar[n] \in 0 .. Len(entries) /\ exprVar[n] # NULL
    BY <1>1, <1>2, InvParts DEF AnnotationsOK, Nodes, name_reads_null
  <2>2. exprVar[n] \in 1 .. Len(entries)
    BY <2>1, InvParts DEF NULL, TableOK
  <2>3. CallType(n) \in Types
    BY <2>2, InvParts, EntryParts DEF CallType
  <2> QED BY <1>1, <2>1, <2>3, TypeKinds
<1>4. /\ calls \in Seq(Tasks) /\ Len(calls) = 2 * Len(Expr(n).args) /\ Len(calls) \in Nat
      /\ \A i \in 1 .. Len(calls) : TaskOK(calls[i]) /\ calls[i].k # "leave"
      /\ \A k \in 1 .. Len(Expr(n).args) : calls[2 * k] = AfterArg(n, k)
  BY <1>1, <1>2, CallListOK, LenProperties
<1>5. /\ Leave(n) \in Tasks /\ TaskOK(Leave(n)) /\ Leave(n).k = "leave" /\ Leave(n).n = n
  BY <1>2, <1>3, InvParts, ProgramShape DEF Leave, Task, Tasks, TaskOK, Nodes, CallType
<1>6. tasks = calls \o <<Leave(n)>> /\ tasks \in Seq(Tasks) /\ Len(tasks) = Len(calls) + 1
  BY <1>1, <1>4, <1>5, ThenOne
<1>7. /\ \A i \in 1 .. Len(calls) : tasks[i] = calls[i]
      /\ tasks[Len(calls) + 1] = Leave(n)
      /\ \A j \in 1 .. Len(tasks) : j \in 1 .. Len(calls) \/ j = Len(calls) + 1
  BY <1>4, <1>5, <1>6, ThenOne
<1>8. \A j \in 1 .. Len(tasks) : TaskOK(tasks[j])
  BY <1>4, <1>5, <1>7
<1>9. CallPrepared(tasks)
  <2>1. ASSUME NEW j \in 1 .. Len(tasks), NEW m \in Nodes, tasks[j].k = "leave", tasks[j].n = m
        PROVE  j = Len(calls) + 1 /\ m = n
    BY <1>4, <1>5, <1>7, <2>1
  <2>2. ASSUME NEW k \in 1 .. Len(Expr(n).args)
        PROVE  \E l \in 1 .. (Len(calls) + 1) - 1 : tasks[l] = AfterArg(n, k)
    <3>1. 2 * k \in 1 .. Len(calls) /\ 2 * k \in 1 .. (Len(calls) + 1) - 1
      BY <1>2, <1>4
    <3> QED BY <1>4, <1>7, <3>1
  <2>3. Len(Expr(n).args) = Len(CallType(n).args)
    BY <1>1
  <2> QED BY <2>1, <2>2, <2>3 DEF CallPrepared
<1>10. JustCompared
  BY DEF JustCompared, AfterArg, Task
<1> QED
  BY <1>1, <1>6, <1>8, <1>9, <1>10, WalkTyped

LEMMA TypeNameTyped == ASSUME Inv, TypeInv, TypeName PROVE TypeInv' /\ Grows
<1> DEFINE type == entries[exprVar[Node]].type
           args == Expr(Node).args
           each(i) == IF i % 2 = 1 THEN Enter(args[(i + 1) \div 2]) ELSE AfterArg(Node, i \div 2)
<1>1. /\ todo # << >> /\ Head(todo).k = "enter" /\ phase = "types"
      /\ (Node # 0 => Expr(Node).t \in {"var", "funcall"})
  BY DEF TypeName, At, In, Node
<1>2. Node \in Nodes /\ Node # 0
  BY <1>1, AtTask
<1>3. CASE \E how : Stop(how)
  BY <1>3, StopTyped
<1>4. CASE ~name_reads_null /\ Expr(Node).t = "var" /\ SetType(type) /\ Continue(<< >>)
  <2>1. PICK t : t = type
    OBVIOUS
  <2>2. exprVar[Node] # NULL
    BY <1>4 DEF name_reads_null
  <2>3. NodeTyped(Node, t)
    BY <1>4, <2>1, <2>2 DEF NodeTyped, VarTyped
  <2> QED BY <1>1, <1>4, <2>1, <2>3, SetTypeTyped
<1>5. CASE /\ ~name_reads_null /\ Expr(Node).t = "funcall"
           /\ type.t = "fn" /\ Len(type.args) = Len(args)
           /\ Continue([i \in 1 .. 2 * Len(args) |-> each(i)] \o <<Leave(Node)>>)
           /\ UNCHANGED <<prog, scopes, entries, annotations>>
  <2>1. CallList(Node) = [i \in 1 .. 2 * Len(args) |-> each(i)]
    BY DEF CallList
  <2>2. Continue(CallList(Node) \o <<Leave(Node)>>)
    BY <1>5, <2>1
  <2>3. CallType(Node).t = "fn" /\ Len(CallType(Node).args) = Len(Expr(Node).args)
    BY <1>5 DEF CallType
  <2> HIDE DEF type, args, each
  <2> QED BY <1>1, <1>5, <2>2, <2>3, CallArgsTyped
<1> QED
  BY <1>3, <1>4, <1>5 DEF TypeName

LEMMA CheckArgTyped == ASSUME Inv, TypeInv, CheckArg PROVE TypeInv' /\ Grows
<1> DEFINE i == Head(todo).i
           expected == CallType(Node).args[i]
           given == exprType[Expr(Node).args[i]]
<1>1. /\ todo # << >> /\ phase = "types" /\ Head(todo).k = "arg"
      /\ \/ \E how : Stop(how)
         \/ /\ coerce_type("=", expected, given) # NoType
            /\ Continue(<< >>) /\ UNCHANGED <<prog, scopes, entries, annotations>>
  BY DEF CheckArg, At, In, CallType
<1>2. CASE /\ coerce_type("=", expected, given) # NoType
           /\ Continue(<< >>) /\ UNCHANGED <<prog, scopes, entries, annotations>>
  <2>1. expected.t = given.t
    BY <1>2 DEF coerce_type
  <2>2. JustCompared
    <3>1. ASSUME NEW n \in Nodes, NEW k \in 1 .. Len(Expr(n).args), Head(todo) = AfterArg(n, k)
          PROVE  ArgTyped(n, k)
      <4>1. n = Node /\ k = i
        BY <3>1 DEF Node, AfterArg, Task
      <4> QED BY <2>1, <4>1 DEF ArgTyped
    <3> QED BY <3>1 DEF JustCompared
  <2>3. << >> \in Seq(Tasks) /\ Len(<< >>) = 0
    BY EmptySeq
  <2>4. CallPrepared(<< >>) /\ \A j \in 1 .. Len(<< >>) : TaskOK(<< >>[j])
    BY <2>3 DEF CallPrepared
  <2> QED BY <1>1, <1>2, <2>2, <2>3, <2>4, WalkTyped
<1> QED
  BY <1>1, <1>2, StopTyped

(* What was checked of the statement the walk is about.                    *)
LEMMA NextStmtTyped ==
  ASSUME Inv, TypeInv, phase = "types", f \in Fns, UNCHANGED <<prog, entries, annotations>>,
         NextStmt, todo' = << >>, LetChecked(Stmt, stmtType[f][s])
  PROVE  TypeInv' /\ Grows
<1>1. s' = s + 1 /\ f' = f /\ phase' = phase
  BY DEF NextStmt
<1>2. s \in Nat /\ f \in Nat
  BY ControlTypes DEF Fns
<1>3. ASSUME NEW g \in Fns, NEW i \in 1 .. Len(prog.fns[g].stmts), LetDone(g, i)'
      PROVE  LetDone(g, i) \/ LetChecked(prog.fns[g].stmts[i], stmtType[g][i])
  <2>1. g < f' \/ (g = f' /\ i < s')
    BY <1>1, <1>3 DEF LetDone
  <2>2. i \in Nat
    OBVIOUS
  <2>3. LetDone(g, i) \/ (g = f /\ i = s)
    BY <1>1, <1>2, <2>1, <2>2 DEF LetDone
  <2> QED BY <2>3 DEF Stmt, Fn
<1>4. CallsPending'
  BY NoCalls
<1> QED
  BY <1>1, <1>3, <1>4, PlainTyped

LEMMA NextFnTyped ==
  ASSUME Inv, TypeInv, phase \in {"types", "returns"}, f \in Fns, todo = << >>,
         phase = "types" => s > Len(Fn.stmts),
         UNCHANGED <<prog, entries, annotations>>, NextFn
  PROVE  TypeInv' /\ Grows
<1>1. s' = 1 /\ f' = f + 1 /\ phase' = phase /\ todo' = << >>
  BY DEF NextFn
<1>2. s \in Nat /\ f \in Nat /\ Len(Fn.stmts) \in Nat
  BY ControlTypes, InsideFn DEF Fns
<1>3. ASSUME NEW g \in Fns, NEW i \in 1 .. Len(prog.fns[g].stmts), LetDone(g, i)'
      PROVE  LetDone(g, i)
  <2>1. CASE phase = "returns"
    BY <2>1 DEF LetDone
  <2>2. CASE phase = "types"
    <3>1. g < f' \/ (g = f' /\ i < 1)
      BY <1>1, <1>3, <2>2 DEF LetDone
    <3>2. g \in Nat /\ i \in Nat /\ i >= 1
      BY DEF Fns
    <3>3. g < f \/ g = f
      BY <1>1, <1>2, <3>1, <3>2
    <3>4. g = f => i < s
      BY <1>2, <2>2 DEF Fn
    <3> QED BY <2>2, <3>3, <3>4 DEF LetDone
  <2> QED BY <2>1, <2>2
<1>4. CallsPending'
  BY <1>1, NoCalls
<1> QED
  BY <1>1, <1>3, <1>4, PlainTyped

(* An entry of a function is none of a let.                                *)
LEMMA LetEntry ==
  ASSUME Inv, NEW owner, NEW slot, Placed(owner, slot), NEW g \in Fns,
         NEW i \in 1 .. Len(prog.fns[g].stmts), stmtVar[g][i] # NULL
  PROVE  /\ stmtVar[g][i] \in 1 .. Len(entries) /\ stmtVar[g][i] \notin Fns
         /\ \A h \in Fns : \A j \in 1 .. Len(prog.fns[h].stmts) :
              stmtVar[h][j] = stmtVar[g][i] => h = g /\ j = i
<1>1. stmtVar[g][i] \in 0 .. Len(entries) /\ Len(entries) \in Nat
  BY InvParts, LenProperties DEF AnnotationsOK, TableOK, Fns
<1>2. stmtVar[g][i] \in 1 .. Len(entries)
  BY <1>1 DEF NULL
<1>3. /\ owner[stmtVar[g][i]] = g
      /\ slot[stmtVar[g][i]] = Len(prog.fns[g].params) + i
  BY DEF Placed
<1>4. owner[stmtVar[g][i]] # 0 /\ (owner[stmtVar[g][i]] = 0 <=> stmtVar[g][i] <= Len(prog.fns))
  BY <1>2, <1>3, PlacedParts DEF Fns
<1>5. ASSUME NEW h \in Fns, NEW j \in 1 .. Len(prog.fns[h].stmts), stmtVar[h][j] = stmtVar[g][i]
      PROVE  h = g /\ j = i
  <2>1. owner[stmtVar[h][j]] = h /\ slot[stmtVar[h][j]] = Len(prog.fns[h].params) + j
    BY <1>5 DEF Placed
  <2>2. h = g /\ Len(prog.fns[g].params) + j = Len(prog.fns[g].params) + i
    BY <1>3, <1>5, <2>1
  <2>3. Len(prog.fns[g].params) \in Nat
    BY ProgramShape, LenProperties DEF Inv
  <2> QED BY <2>2, <2>3
<1> QED
  BY <1>2, <1>4, <1>5 DEF Fns

LEMMA InferTyped ==
  ASSUME Inv, TypeInv, NEW owner, NEW slot, Placed(owner, slot),
         phase = "types", todo # << >>, stmtType[f][s] = NoType, Infer
  PROVE  TypeInv' /\ Grows
<1>1. PICK e, type : e = stmtVar[f][s] /\ type = exprType[Stmt.value]
  OBVIOUS
<1>2. PICK r : r = [entries[e] EXCEPT !.type = type]
  OBVIOUS
<1>3. /\ entries' = [entries EXCEPT ![e] = r]
      /\ stmtType' = [stmtType EXCEPT ![f][s] = type]
      /\ UNCHANGED <<prog, stmtVar, exprVar, exprType, phase, f>> /\ s' = s + 1 /\ todo' = << >>
  BY <1>1, <1>2 DEF Infer, NextStmt
<1>4. f \in Fns /\ s \in 1 .. Len(prog.fns[f].stmts) /\ Stmt.value # NULL
  BY CurrentStmt
<1>5. e # NULL => /\ e \in 1 .. Len(entries) /\ e \notin Fns /\ entries[e].type = NoType
                  /\ \A h \in Fns : \A j \in 1 .. Len(prog.fns[h].stmts) :
                       stmtVar[h][j] = e => h = f /\ j = s
  <2>1. e # NULL => entries[e].type = NoType
    BY <1>1, <1>4 DEF TypeInv, LetTypes
  <2> QED BY <1>1, <1>4, <2>1, LetEntry
<1>6. /\ Len(entries') = Len(entries) /\ Len(entries) \in Nat
      /\ \A d \in 1 .. Len(entries) : entries'[d] = IF d = e THEN r ELSE entries[d]
  BY <1>3, EntryOnly
<1>7. e # NULL => r.type = type /\ r.fn = entries[e].fn
  <2>1. e # NULL => entries[e] \in Entry
    BY <1>5, InvParts, EntryParts
  <2> QED BY <1>2, <2>1 DEF Entry
<1>8. e = NULL => \A d \in 1 .. Len(entries) : d # e
  BY DEF NULL
<1>9. \A d \in 1 .. Len(entries) : /\ d # e => entries'[d] = entries[d]
                                   /\ d = e => entries'[d].type = type /\ entries[d].type = NoType
                                   /\ entries'[d].fn = entries[d].fn
  BY <1>5, <1>6, <1>7, <1>8
<1>10. Grows
  BY <1>3, <1>9 DEF Grows
<1>11. Untyped' /\ CallsPending' /\ TypedNodes'
  <2>1. Untyped' /\ CallsPending'
    BY <1>3, NoCalls DEF Untyped
  <2> QED BY <1>3, <1>10, <2>1, NodesStay DEF TypeInv
<1>12. FnEntries'
  <2>1. \A g \in Fns : g \in 1 .. Len(entries) =>
          entries[g].type = FnType(prog.fns[g].ret, ParamTypes(g))
    BY DEF TypeInv, FnEntries, Signed
  <2>2. \A g \in Fns : g # e
    BY <1>5 DEF Fns, NULL
  <2>3. \A g \in Fns : g \in 1 .. Len(entries') =>
          entries'[g].type = FnType(prog.fns[g].ret, ParamTypes(g))
    BY <1>6, <1>9, <2>1, <2>2
  <2>4. \A g : ParamTypes(g)' = ParamTypes(g) /\ Signed(g)'
    BY <1>3 DEF ParamTypes, Signed
  <2> QED BY <1>3, <2>3, <2>4 DEF FnEntries, Fns
<1>13. FnPtrs'
  <2>1. \A d \in 1 .. Len(entries') : entries'[d].fn = entries[d].fn
    BY <1>6, <1>9
  <2> QED BY <1>3, <1>6, <2>1 DEF TypeInv, FnPtrs, Fns
<1>14. ASSUME NEW g \in Fns, NEW i \in 1 .. Len(prog.fns[g].stmts)
       PROVE  stmtType'[g][i] = IF g = f /\ i = s THEN type ELSE stmtType[g][i]
  <2>1. /\ DOMAIN stmtType = Fns
        /\ stmtType[f] \in [1 .. Len(prog.fns[f].stmts) -> Types]
    BY <1>4, InvParts DEF AnnotationsOK, Fns
  <2>2. g # f => stmtType'[g] = stmtType[g]
    BY <1>3, <2>1
  <2>3. stmtType'[f] = [stmtType[f] EXCEPT ![s] = type]
    BY <1>3, <1>4, <2>1
  <2> QED BY <1>4, <2>1, <2>2, <2>3
<1>15. LetTypes'
  <2>1. ASSUME NEW g \in Fns, NEW i \in 1 .. Len(prog.fns[g].stmts), stmtVar[g][i] # NULL
        PROVE  entries'[stmtVar[g][i]].type = stmtType'[g][i]
    <3>1. stmtVar[g][i] \in 1 .. Len(entries) /\ entries[stmtVar[g][i]].type = stmtType[g][i]
      BY <2>1, LetEntry DEF TypeInv, LetTypes
    <3>2. stmtVar[g][i] = e => g = f /\ i = s
      BY <1>5, <2>1
    <3>3. g = f /\ i = s => stmtVar[g][i] = e
      BY <1>1
    <3> QED BY <1>9, <1>14, <2>1, <3>1, <3>2, <3>3
  <2> QED BY <1>3, <2>1 DEF LetTypes, Fns
<1>16. LetsChecked'
  <2>1. ASSUME NEW g \in Fns, NEW i \in 1 .. Len(prog.fns[g].stmts), LetDone(g, i)'
        PROVE  LetChecked(prog.fns[g].stmts[i], stmtType'[g][i])
    <3>1. CASE g = f /\ i = s
      <4>1. Stmt = prog.fns[g].stmts[i] /\ stmtType'[g][i] = type
        BY <1>14, <3>1 DEF Stmt, Fn
      <4> QED BY <1>1, <4>1 DEF LetChecked
    <3>2. CASE ~(g = f /\ i = s)
      <4>1. g < f \/ (g = f /\ i < s + 1)
        BY <1>3, <2>1 DEF LetDone
      <4>2. i \in Nat /\ s \in Nat
        BY ControlTypes
      <4>3. LetDone(g, i)
        BY <3>2, <4>1, <4>2 DEF LetDone
      <4> QED BY <1>14, <3>2, <4>3 DEF TypeInv, LetsChecked
    <3> QED BY <3>1, <3>2
  <2>2. \A st, t : LetChecked(st, t)' <=> LetChecked(st, t)
    BY <1>3 DEF LetChecked
  <2> QED BY <1>3, <2>1 DEF LetsChecked, LetChecked, Fns
<1> QED
  BY <1>11, <1>12, <1>13, <1>15, <1>16, <1>10 DEF TypeInv

LEMMA BuildFnTypeTyped ==
  ASSUME Inv, TypeInv, NEW owner, NEW slot, Placed(owner, slot), BuildFnType
  PROVE  TypeInv' /\ Grows
<1>1. PICK type : type = FnType(Fn.ret, [i \in 1 .. Len(Fn.params) |-> Fn.params[i].type])
  OBVIOUS
<1>2. PICK r : r = [entries[f] EXCEPT !.type = type]
  OBVIOUS
<1>3. /\ phase = "signatures" /\ f <= Len(prog.fns) /\ phase' = phase /\ f' = f + 1
      /\ UNCHANGED <<prog, stmtVar, stmtType, exprVar, exprType>>
      /\ entries' = [entries EXCEPT ![fnEntry[f]].type = type]
  BY <1>1 DEF BuildFnType, InFn, In, NextFn, annotations
<1>4. f \in Fns /\ f \in Nat /\ fnEntry[f] = f
  BY <1>3, ControlTypes, InsideFn, PlacedParts DEF Fns
<1>5. entries' = [entries EXCEPT ![f] = r]
  BY <1>2, <1>3, <1>4
<1>6. \A g \in Fns : g \in 1 .. Len(entries)
  BY <1>3, FnEntryFirst
<1>7. r.type = type /\ r.fn = entries[f].fn
  <2>1. entries[f] \in Entry
    BY <1>4, <1>6, InvParts, EntryParts
  <2> QED BY <1>2, <2>1 DEF Entry
<1>8. /\ Len(entries') = Len(entries) /\ Len(entries) \in Nat
      /\ \A d \in 1 .. Len(entries) : entries'[d] = IF d = f THEN r ELSE entries[d]
  BY <1>5, EntryOnly
<1>9. entries[f].type = NoType
  BY <1>3, <1>4, <1>6 DEF TypeInv, FnEntries, Signed
<1>10. \A d \in 1 .. Len(entries) : /\ d # f => entries'[d] = entries[d]
                                    /\ entries'[d].fn = entries[d].fn
  BY <1>7, <1>8
<1>11. Grows
  BY <1>3, <1>9, <1>10 DEF Grows
<1>12. Untyped' /\ CallsPending' /\ TypedNodes' /\ LetsChecked'
  <2>1. TypedNodes'
    BY <1>3, <1>11, NodesStay DEF TypeInv
  <2> QED BY <1>3, <2>1 DEF TypeInv, Untyped, CallsPending, LetsChecked, LetDone, Nodes, Fns
<1>13. FnEntries'
  <2>1. ASSUME NEW g \in Fns
        PROVE  entries'[g].type = IF g < f' THEN FnType(prog.fns[g].ret, ParamTypes(g))
                                  ELSE NoType
    <3>1. g \in Nat
      BY DEF Fns
    <3>2. CASE g = f
      <4>1. g < f'
        BY <1>3, <1>4, <3>1, <3>2
      <4>2. type = FnType(prog.fns[g].ret, ParamTypes(g))
        BY <1>1, <3>2 DEF ParamTypes, Fn
      <4> QED BY <1>6, <1>7, <1>8, <3>2, <4>1, <4>2
    <3>3. CASE g # f
      <4>1. g < f' <=> g < f
        BY <1>3, <1>4, <3>1, <3>3
      <4>2. entries'[g].type = entries[g].type
        BY <1>6, <1>10, <3>3
      <4> QED BY <1>3, <1>6, <4>1, <4>2 DEF TypeInv, FnEntries, Signed
    <3> QED BY <3>2, <3>3
  <2>2. \A g : /\ ParamTypes(g)' = ParamTypes(g)
               /\ Signed(g)' <=> g < f'
    BY <1>3 DEF ParamTypes, Signed
  <2> QED BY <1>3, <2>1, <2>2 DEF FnEntries, Fns
<1>14. FnPtrs'
  <2>1. \A d \in 1 .. Len(entries') : entries'[d].fn = entries[d].fn
    BY <1>8, <1>10
  <2> QED BY <1>3, <1>8, <2>1 DEF TypeInv, FnPtrs, Fns
<1>15. LetTypes'
  <2>1. ASSUME NEW g \in Fns, NEW i \in 1 .. Len(prog.fns[g].stmts), stmtVar[g][i] # NULL
        PROVE  entries'[stmtVar[g][i]].type = stmtType[g][i]
    <3>1. stmtVar[g][i] \in 1 .. Len(entries) /\ stmtVar[g][i] # f
      BY <1>4, <2>1, LetEntry
    <3> QED BY <1>10, <2>1, <3>1 DEF TypeInv, LetTypes
  <2> QED BY <1>3, <2>1 DEF LetTypes, Fns
<1> QED
  BY <1>11, <1>12, <1>13, <1>14, <1>15 DEF TypeInv

LEMMA TypesStmtTyped == ASSUME Inv, TypeInv, Types_Stmt PROVE TypeInv' /\ Grows
<1>1. /\ phase = "types" /\ f <= Len(prog.fns) /\ todo = << >>
      /\ IF Stmt.value = NULL THEN SkipStmt ELSE Walk(<<Enter(Stmt.value), EndStmt>>)
      /\ UNCHANGED <<prog, scopes, entries, annotations>>
  BY DEF Types_Stmt, AtStmt, BetweenStmts, InFn, In
<1>2. f \in Fns
  BY <1>1, InsideFn
<1>3. CASE Stmt.value = NULL
  <2>1. NextStmt /\ todo' = << >>
    BY <1>1, <1>3 DEF SkipStmt
  <2>2. LetChecked(Stmt, stmtType[f][s])
    BY <1>3 DEF LetChecked
  <2> QED BY <1>1, <1>2, <2>1, <2>2, NextStmtTyped
<1>4. CASE Stmt.value # NULL
  <2>1. todo' = <<Enter(Stmt.value), EndStmt>> /\ UNCHANGED <<phase, f, s>>
    BY <1>1, <1>4 DEF Walk
  <2>2. CallsPending'
    <3>1. Enter(Stmt.value).k # "leave" /\ EndStmt.k # "leave"
      BY DEF Enter, EndStmt, Task
    <3>2. Len(todo') = 2 /\ todo'[1].k # "leave" /\ todo'[2].k # "leave"
      BY <2>1, <3>1
    <3>3. \A j \in 1 .. Len(todo') : todo'[j].k # "leave"
      BY <3>2
    <3> QED BY <3>3 DEF CallsPending
  <2>3. \A g, i : LetDone(g, i)' <=> LetDone(g, i)
    BY <2>1 DEF LetDone
  <2> QED BY <1>1, <2>1, <2>2, <2>3, PlainTyped
<1> QED
  BY <1>3, <1>4

LEMMA TypesEndStmtTyped ==
  ASSUME Inv, TypeInv, NEW owner, NEW slot, Placed(owner, slot), Types_EndStmt
  PROVE  TypeInv' /\ Grows
<1> DEFINE value == exprType[Stmt.value]
           declared == stmtType[f][s]
<1>1. /\ phase = "types" /\ todo # << >>
      /\ \/ declared = NoType /\ Infer
         \/ \E how : Stop(how)
         \/ /\ Stmt.t = "let" => coerce_type("=", value, declared) # NoType
            /\ NextStmt /\ todo' = << >> /\ UNCHANGED <<prog, scopes, entries, annotations>>
  BY DEF Types_EndStmt, At, In
<1>2. CASE /\ Stmt.t = "let" => coerce_type("=", value, declared) # NoType
           /\ NextStmt /\ todo' = << >> /\ UNCHANGED <<prog, scopes, entries, annotations>>
  <2>1. LetChecked(Stmt, stmtType[f][s])
    BY <1>2 DEF LetChecked, coerce_type
  <2>2. f \in Fns
    BY <1>1, CurrentStmt
  <2> QED BY <1>1, <1>2, <2>1, <2>2, NextStmtTyped
<1> QED
  BY <1>1, <1>2, InferTyped, StopTyped

LEMMA TypesTyped ==
  ASSUME Inv, TypeInv, NEW owner, NEW slot, Placed(owner, slot), Types_Next
  PROVE  TypeInv' /\ Grows
<1>1. CASE Types_EnterFn
  <2>1. /\ phase = "types" /\ UNCHANGED <<prog, phase, f, s, todo, scopes, entries, annotations>>
    BY <1>1 DEF Types_EnterFn, InFn, In
  <2> QED BY <2>1, TypeInvSame, SameGrows
<1>2. CASE Types_LeaveFn
  <2>1. /\ phase = "types" /\ f \in Fns /\ todo = << >> /\ s > Len(Fn.stmts) /\ NextFn
        /\ UNCHANGED <<prog, scopes, entries, annotations>>
    BY <1>2, InsideFn DEF Types_LeaveFn, LeaveFn, BetweenStmts, InFn, In
  <2> QED BY <2>1, NextFnTyped
<1> QED
  BY <1>1, <1>2, BuildFnTypeTyped, TypesStmtTyped, TypeIntTyped, EnterBinopTyped,
     TypeBinopTyped, TypeNameTyped, CheckArgTyped, TypeCallTyped, TypesEndStmtTyped
     DEF Types_Next

LEMMA ReturnsTyped == ASSUME Inv, TypeInv, CheckReturns PROVE TypeInv' /\ Grows
<1>1. phase = "returns" /\ f \in Fns
  BY InsideFn DEF CheckReturns, InFn, In
<1>2. todo = << >>
  BY <1>1, InvParts DEF WalkOK
<1> QED
  BY <1>1, <1>2, NextFnTyped, StopTyped DEF CheckReturns

-----------------------------------------------------------------------------
(* The other passes give nothing a type.                                   *)
LEMMA EndPhaseTyped ==
  ASSUME Inv, TypeInv, NEW owner, NEW slot, Placed(owner, slot), EndPhase
  PROVE  TypeInv' /\ Grows
<1>1. /\ phase \in DOMAIN NextPhase /\ phase' = NextPhase[phase] /\ f > Len(prog.fns)
      /\ f' = 1 /\ s' = 1 /\ UNCHANGED <<prog, todo, scopes, entries, annotations>>
  BY ControlTypes DEF EndPhase, Phases
<1>2. UNCHANGED <<entries, stmtVar, stmtType, exprVar, exprType>> /\ Grows
  BY <1>1, SameGrows DEF annotations
<1>3. todo = << >> /\ todo' = << >>
  <2>1. f \in Nat /\ Len(prog.fns) \in Nat
    BY ControlTypes
  <2> QED BY <1>1, <2>1, InvParts DEF WalkOK
<1>4. /\ phase = "declare" => phase' = "names"
      /\ phase = "names" => phase' = "signatures"
      /\ phase = "signatures" => phase' = "types"
      /\ phase = "types" => phase' = "returns"
      /\ phase = "returns" => phase' = "alloc_fns"
      /\ phase = "alloc_fns" => phase' = "translate"
      /\ phase = "translate" => phase' = "done"
      /\ phase \in {"declare", "names", "signatures", "types", "returns", "alloc_fns", "translate"}
  BY <1>1 DEF NextPhase
<1>5. Untyped'
  <2>1. phase' \in {"declare", "names", "signatures"} => phase \in {"declare", "names", "signatures"}
    BY <1>4
  <2> QED BY <1>1, <1>2, <2>1 DEF TypeInv, Untyped, Nodes, Fns
<1>6. FnEntries'
  <2>1. \A g \in Fns : Signed(g)' <=> Signed(g)
    <3>1. \A g \in Fns : g \in Nat /\ g < f /\ ~(g < 1)
      BY <1>1, ControlTypes DEF Fns
    <3> QED BY <1>1, <1>4, <3>1 DEF Signed
  <2>2. \A g : ParamTypes(g)' = ParamTypes(g)
    BY <1>1 DEF ParamTypes
  <2> QED BY <1>1, <1>2, <2>1, <2>2 DEF TypeInv, FnEntries, Fns
<1>7. FnPtrs' /\ LetTypes'
  BY <1>1, <1>2 DEF TypeInv, FnPtrs, LetTypes, Fns
<1>8. TypedNodes' /\ CallsPending'
  BY <1>1, <1>2, <1>3, NodesStay, NoCalls DEF TypeInv
<1>9. LetsChecked'
  <2>1. ASSUME NEW g \in Fns, NEW i \in 1 .. Len(prog.fns[g].stmts), LetDone(g, i)'
        PROVE  LetDone(g, i)
    <3>1. g \in Nat /\ g < f /\ i \in Nat /\ g >= 1 /\ i >= 1
      BY <1>1, ControlTypes DEF Fns
    <3>2. phase' # "types"
      BY <1>1, <2>1, <3>1 DEF LetDone
    <3> QED BY <1>4, <2>1, <3>1, <3>2 DEF LetDone
  <2> QED BY <1>1, <1>2, <2>1, LetsStay DEF TypeInv
<1> QED
  BY <1>2, <1>5, <1>6, <1>7, <1>8, <1>9 DEF TypeInv

(* A step that writes no type to an entry, and the pointer to a function   *)
(* only in its own.                                                        *)
LEMMA LaterTyped ==
  ASSUME Inv, TypeInv, phase \in {"alloc_fns", "translate"},
         UNCHANGED <<prog, phase, annotations>>, Len(entries') = Len(entries),
         \A e \in 1 .. Len(entries) :
           /\ entries'[e].type = entries[e].type
           /\ \/ entries'[e].fn = entries[e].fn
              \/ e \in Fns /\ entries'[e].fn[2] = e
  PROVE  TypeInv' /\ Grows
<1>1. Grows /\ UNCHANGED <<stmtVar, stmtType, exprVar, exprType>>
  BY DEF Grows, annotations
<1>2. TypedNodes' /\ CallsPending'
  <2>1. CallsPending'
    BY DEF CallsPending
  <2> QED BY <1>1, <2>1, NodesStay DEF TypeInv
<1>3. FnPtrs'
  BY DEF TypeInv, FnPtrs, Fns
<1>4. \A g, i : LetDone(g, i)
  BY DEF LetDone
<1> QED
  BY <1>1, <1>2, <1>3, <1>4, TypesOn

LEMMA AllocFnTyped ==
  ASSUME Inv, TypeInv, NEW owner, NEW slot, Placed(owner, slot), AllocFn
  PROVE  TypeInv' /\ Grows
<1>1. PICK ptr : ptr = <<fnsAlloc', Len(ssaFns) + 1>>
  OBVIOUS
<1>2. PICK r : r = [entries[f] EXCEPT !.fn = ptr]
  OBVIOUS
<1>3. /\ phase = "alloc_fns" /\ f <= Len(prog.fns) /\ UNCHANGED <<prog, phase, annotations>>
      /\ entries' = [entries EXCEPT ![fnEntry[f]].fn = ptr]
  BY <1>1 DEF AllocFn, InFn, In, NextFn
<1>4. f \in Fns /\ f \in Nat /\ fnEntry[f] = f
  BY <1>3, ControlTypes, InsideFn, PlacedParts DEF Fns
<1>5. ptr[2] = f
  <2>1. Len(ssaFns) = f - 1
    BY <1>3, InvParts DEF LoopsOK
  <2> QED BY <1>1, <1>4, <2>1
<1>6. f \in 1 .. Len(entries)
  BY <1>3, <1>4, FnEntryFirst
<1>7. r.type = entries[f].type /\ r.fn = ptr
  <2>1. entries[f] \in Entry
    BY <1>6, InvParts, EntryParts
  <2> QED BY <1>2, <2>1 DEF Entry
<1>8. /\ Len(entries') = Len(entries)
      /\ \A d \in 1 .. Len(entries) : entries'[d] = IF d = f THEN r ELSE entries[d]
  <2>1. entries' = [entries EXCEPT ![f] = r]
    BY <1>2, <1>3, <1>4
  <2> QED BY <2>1, EntryOnly
<1>9. \A e \in 1 .. Len(entries) :
        /\ entries'[e].type = entries[e].type
        /\ entries'[e].fn = entries[e].fn \/ (e \in Fns /\ entries'[e].fn[2] = e)
  BY <1>4, <1>5, <1>7, <1>8
<1> QED
  BY <1>3, <1>8, <1>9, LaterTyped

(* Names give their entries the types the source says, and functions none. *)
AddsEntry ==
  /\ Len(entries') = Len(entries) + 1
  /\ \A e \in 1 .. Len(entries) : entries'[e] = entries[e]
  /\ entries'[Len(entries) + 1].fn = << >>
  /\ phase = "declare" => entries'[Len(entries) + 1].type = NoType
  /\ \A g \in Fns : \A i \in 1 .. Len(prog.fns[g].stmts) :
       \/ stmtVar'[g][i] = stmtVar[g][i]
       \/ /\ stmtVar'[g][i] = Len(entries) + 1
          /\ entries'[Len(entries) + 1].type = prog.fns[g].stmts[i].type

LEMMA NamesGrow ==
  ASSUME Inv, TypeInv, NEW owner, NEW slot, Placed(owner, slot), phase \in {"declare", "names"},
         UNCHANGED <<prog, phase, stmtType, exprType>>,
         UNCHANGED <<entries, stmtVar>> \/ AddsEntry
  PROVE  TypeInv' /\ Grows
<1>1. Len(entries) \in Nat
  BY InvParts, LenProperties DEF TableOK
<1>2. /\ \A e \in 1 .. Len(entries) : e \in 1 .. Len(entries') /\ entries'[e] = entries[e]
      /\ \A e \in 1 .. Len(entries') :
           \/ e \in 1 .. Len(entries) /\ entries'[e] = entries[e]
           \/ /\ e = Len(entries) + 1 /\ entries'[e].fn = << >>
              /\ phase = "declare" => entries'[e].type = NoType
  BY <1>1 DEF AddsEntry
<1>3. Grows
  BY <1>2 DEF Grows
<1>4. /\ \A n \in Nodes : exprType[n] = NoType
      /\ \A g \in Fns : \A i \in 1 .. Len(prog.fns[g].stmts) :
           stmtType[g][i] = prog.fns[g].stmts[i].type
  BY DEF TypeInv, Untyped
<1>5. Untyped' /\ TypedNodes' /\ CallsPending' /\ LetsChecked'
  <2>1. Untyped'
    BY <1>4 DEF Untyped, Nodes, Fns
  <2>2. TypedNodes'
    BY <1>4 DEF TypedNodes, Nodes
  <2>3. CallsPending' /\ LetsChecked'
    BY DEF CallsPending, LetsChecked, LetDone
  <2> QED BY <2>1, <2>2, <2>3
<1>6. FnEntries'
  <2>1. ASSUME NEW g \in Fns, g \in 1 .. Len(entries') PROVE entries'[g].type = NoType
    <3>1. CASE g \in 1 .. Len(entries)
      <4>1. entries[g].type = NoType
        BY <3>1 DEF TypeInv, FnEntries, Signed
      <4> QED BY <1>2, <3>1, <4>1
    <3>2. CASE g \notin 1 .. Len(entries)
      <4>1. phase = "declare"
        BY <3>2, FnEntryFirst
      <4> QED BY <1>2, <2>1, <3>2, <4>1
    <3> QED BY <3>1, <3>2
  <2>2. \A g : ~Signed(g)'
    BY DEF Signed
  <2> QED BY <2>1, <2>2 DEF FnEntries, Fns
<1>7. FnPtrs'
  BY <1>2 DEF TypeInv, FnPtrs, Fns
<1>8. LetTypes'
  <2>1. ASSUME NEW g \in Fns, NEW i \in 1 .. Len(prog.fns[g].stmts), stmtVar'[g][i] # NULL
        PROVE  entries'[stmtVar'[g][i]].type = stmtType[g][i]
    <3>1. CASE stmtVar'[g][i] = stmtVar[g][i]
      <4>1. stmtVar[g][i] \in 0 .. Len(entries)
        BY InvParts DEF AnnotationsOK, Fns
      <4>2. stmtVar[g][i] \in 1 .. Len(entries)
        BY <1>1, <2>1, <3>1, <4>1 DEF NULL
      <4>3. entries[stmtVar[g][i]].type = stmtType[g][i]
        BY <2>1, <3>1 DEF TypeInv, LetTypes
      <4> QED BY <1>2, <3>1, <4>2, <4>3
    <3>2. CASE stmtVar'[g][i] # stmtVar[g][i]
      <4>1. AddsEntry
        BY <3>2
      <4>2. entries'[stmtVar'[g][i]].type = prog.fns[g].stmts[i].type
        BY <3>2, <4>1 DEF AddsEntry
      <4> QED BY <1>4, <4>2
    <3> QED BY <3>1, <3>2
  <2> QED BY <2>1 DEF LetTypes, Fns
<1> QED
  BY <1>3, <1>5, <1>6, <1>7, <1>8 DEF TypeInv

LEMMA InsertAdds ==
  ASSUME Inv, NEW sc \in 1 .. Len(scopes), NEW pos \in Names, NEW type \in Types,
         phase = "declare" => type = NoType,
         scope_insert(sc, pos, type), find_in(sc, pos) = NULL,
         \A g \in Fns : \A i \in 1 .. Len(prog.fns[g].stmts) :
           \/ stmtVar'[g][i] = stmtVar[g][i]
           \/ stmtVar'[g][i] = Len(entries) + 1 /\ type = prog.fns[g].stmts[i].type
  PROVE  AddsEntry
<1>1. /\ Len(entries') = Len(entries) + 1
      /\ \A e \in 1 .. Len(entries) : entries'[e] = entries[e]
      /\ entries'[Len(entries) + 1] = ScopeEntry(pos, type)
  BY InvParts, Inserted
<1>2. ScopeEntry(pos, type).fn = << >> /\ ScopeEntry(pos, type).type = type
  BY DEF ScopeEntry
<1> QED
  BY <1>1, <1>2 DEF AddsEntry

LEMMA NamesTyped ==
  ASSUME Inv, TypeInv, NEW owner, NEW slot, Placed(owner, slot), Names_Next
  PROVE  TypeInv' /\ Grows
<1>1. CASE DeclareFn
  <2>1. CASE ~Redeclared(global, Fn.name)
    <3>1. /\ scope_insert(global, Fn.name, NoType) /\ phase = "declare" /\ f <= Len(prog.fns)
          /\ UNCHANGED <<prog, phase, stmtVar, stmtType, exprType>>
      BY <1>1, <2>1 DEF DeclareFn, InFn, In, NextFn, Redeclared, Stop, annotations
    <3>2. Fn.name \in Names /\ NoType \in Types /\ global \in 1 .. Len(scopes)
      BY <3>1, InsideFn, TypeKinds, InvParts, EmptySeq DEF TableOK, global
    <3>3. find_in(global, Fn.name) = NULL
      BY <2>1 DEF Redeclared, scope_insert_result, NULL
    <3>4. AddsEntry
      BY <3>1, <3>2, <3>3, InsertAdds
    <3> QED BY <3>1, <3>4, NamesGrow
  <2> QED BY <1>1, <2>1, StopTyped DEF DeclareFn
<1>2. CASE InsertParam
  <2> DEFINE name == Fn.params[p].name
             type == Fn.params[p].type
  <2>1. /\ phase = "names" /\ f <= Len(prog.fns) /\ p \in 1 .. Len(Fn.params)
        /\ scope_insert(scope, name, type)
        /\ UNCHANGED <<prog, phase, stmtVar, stmtType, exprType>>
    BY <1>2 DEF InsertParam, AtParam, InFn, In
  <2>2. name \in Names /\ type \in Types
    <3>1. Fn.params \in Seq(Params)
      BY <2>1, InsideFn
    <3>2. Fn.params[p] \in Params
      BY <2>1, <3>1, ElementOfSeq
    <3> QED BY <3>2, TypeKinds DEF Params
  <2>3. scope \in 1 .. Len(scopes)
    BY InvParts, EmptySeq DEF TableOK, scope
  <2>4. CASE find_in(scope, name) = NULL
    BY <2>1, <2>2, <2>3, <2>4, InsertAdds, NamesGrow
  <2>5. CASE find_in(scope, name) # NULL
    BY <2>1, <2>5, NamesGrow DEF scope_insert
  <2> QED BY <2>4, <2>5
<1>3. CASE ResolveLet
  <2>1. CASE ~Redeclared(scope, Stmt.name)
    <3>1. /\ phase = "names" /\ f <= Len(prog.fns) /\ s <= Len(Fn.stmts)
          /\ Stmt.t = "let" /\ scope_insert(scope, Stmt.name, Stmt.type)
          /\ stmtVar' = [stmtVar EXCEPT ![f][s] = scope_insert_result(scope, Stmt.name)]
          /\ UNCHANGED <<prog, phase, stmtType, exprType>>
      BY <1>3, <2>1 DEF ResolveLet, AtStmt, BetweenStmts, InFn, In, ResolveValue, NextStmt,
                        Redeclared, Stop, annotations
    <3>2. f \in Fns /\ s \in 1 .. Len(Fn.stmts) /\ Fn = prog.fns[f]
      <4>1. f \in Fns /\ s \in Nat \ {0} /\ Len(Fn.stmts) \in Nat
        BY <3>1, ControlTypes, InsideFn
      <4> QED BY <3>1, <4>1 DEF Fn
    <3>3. Stmt.name \in Names /\ Stmt.type \in Types
      <4>1. Stmt \in Stmts(Nodes) /\ ParsedStmt(Stmt)
        BY <3>1, <3>2, InsideFn DEF Stmt
      <4>2. Stmt.name \in Names
        BY <3>1, <4>1 DEF ParsedStmt
      <4> QED BY <4>1, <4>2, TypeKinds DEF Stmts
    <3>4. /\ find_in(scope, Stmt.name) = NULL
          /\ scope_insert_result(scope, Stmt.name) = Len(entries) + 1
      BY <2>1 DEF Redeclared, scope_insert_result, NULL
    <3>5. ASSUME NEW g \in Fns, NEW i \in 1 .. Len(prog.fns[g].stmts)
          PROVE  \/ stmtVar'[g][i] = stmtVar[g][i]
                 \/ stmtVar'[g][i] = Len(entries) + 1 /\ Stmt.type = prog.fns[g].stmts[i].type
      <4>1. DOMAIN stmtVar = Fns /\ DOMAIN stmtVar[f] = 1 .. Len(prog.fns[f].stmts)
        BY <3>2, InvParts DEF AnnotationsOK, Fns
      <4>2. stmtVar'[g][i] = IF g = f /\ i = s THEN Len(entries) + 1 ELSE stmtVar[g][i]
        BY <3>1, <3>2, <3>4, <3>5, <4>1
      <4> QED BY <3>2, <4>2 DEF Stmt
    <3>6. scope \in 1 .. Len(scopes)
      BY InvParts, EmptySeq DEF TableOK, scope
    <3>7. AddsEntry
      BY <3>1, <3>3, <3>4, <3>5, <3>6, InsertAdds
    <3> QED BY <3>1, <3>7, NamesGrow
  <2> QED BY <1>3, <2>1, StopTyped DEF ResolveLet
<1>4. CASE Names_EnterFn
  BY <1>4, NamesGrow DEF Names_EnterFn, InFn, In, scope_init, annotations
<1>5. CASE ResolveStmt
  BY <1>5, NamesGrow DEF ResolveStmt, AtStmt, BetweenStmts, InFn, In, ResolveValue, NextStmt,
                         annotations
<1>6. ASSUME NEW t \in {"var", "funcall"}, ResolveName(t) PROVE TypeInv' /\ Grows
  <2>1. \/ Stop("name_not_in_scope")
        \/ phase = "names" /\ UNCHANGED <<prog, phase, entries, stmtVar, stmtType, exprType>>
    BY <1>6 DEF ResolveName, At, In, Continue
  <2> QED BY <2>1, StopTyped, NamesGrow
<1>7. ASSUME NEW t \in {"int", "binop"}, ResolveOperands(t) PROVE TypeInv' /\ Grows
  <2>1. phase = "names" /\ UNCHANGED <<prog, phase, entries, stmtVar, stmtType, exprType>>
    BY <1>7 DEF ResolveOperands, At, In, Continue, annotations
  <2> QED BY <2>1, NamesGrow
<1>8. CASE Names_LeaveFn
  BY <1>8, NamesGrow DEF Names_LeaveFn, LeaveFn, NextFn, BetweenStmts, InFn, In, annotations
<1> QED
  BY <1>1, <1>2, <1>3, <1>4, <1>5, <1>6, <1>7, <1>8 DEF Names_Next

(* What the translation writes to the AST is the register of an entry.     *)
LEMMA IrWrites ==
  ASSUME Ir_Next, ~AllocFn
  PROVE  /\ phase = "translate"
         /\ \/ \E how : Fails(how)
            \/ /\ UNCHANGED <<prog, phase, annotations>>
               /\ entries' = entries \/ \E e : set_id(e)
<1> USE DEF At, AtStmt, AtParam, BetweenStmts, InFn, In
<1>1. CASE Ir_EnterFn \/ TranslateParam
  BY <1>1, Zenon DEF Ir_EnterFn, TranslateParam
<1>2. CASE TranslateStmt
  BY <1>2 DEF TranslateStmt, SkipStmt, NextStmt, Walk
<1>3. CASE Ir_LeaveFn
  BY <1>3 DEF Ir_LeaveFn, LeaveFn, NextFn
<1>4. ASSUME NEW inst, EmitSized(inst)
      PROVE  \/ \E how : Fails(how)
             \/ UNCHANGED <<prog, phase, annotations>> /\ entries' = entries
  BY <1>4 DEF EmitSized, EmitResult, Continue
<1>5. CASE TranslateInt \/ TranslateBinop \/ TranslateCall
  BY <1>4, <1>5, Zenon DEF TranslateInt, TranslateBinop, TranslateCall
<1>6. CASE TranslateVar
  BY <1>6, Zenon DEF TranslateVar, Continue
<1>7. ASSUME NEW t, TranslateArgs(t)
      PROVE  phase = "translate" /\ UNCHANGED <<prog, phase, annotations>> /\ entries' = entries
  BY <1>7 DEF TranslateArgs, Continue
<1>8. CASE EndLet
  BY <1>8, Zenon DEF EndLet, NextStmt
<1>9. CASE EndExpr
  BY <1>9, Zenon DEF EndExpr, NextStmt
<1>10. CASE EndReturn
  BY <1>10 DEF EndReturn, NextStmt
<1> HIDE DEF At, AtStmt, AtParam, BetweenStmts, InFn, In
<1> QED
  BY <1>1, <1>2, <1>3, <1>5, <1>6, <1>7, <1>8, <1>9, <1>10, Zenon DEF Ir_Next

LEMMA IrTyped ==
  ASSUME Inv, TypeInv, NEW owner, NEW slot, Placed(owner, slot), Ir_Next
  PROVE  TypeInv' /\ Grows
<1>1. CASE ~AllocFn
  <2>1. ASSUME NEW how, Fails(how) PROVE TypeInv' /\ Grows
    BY <2>1, StopTyped DEF Fails
  <2>2. CASE UNCHANGED <<prog, phase, annotations>> /\ phase = "translate" /\ entries' = entries
    BY <2>2, LaterTyped
  <2>3. ASSUME UNCHANGED <<prog, phase, annotations>>, phase = "translate", NEW e, set_id(e)
        PROVE  TypeInv' /\ Grows
    <3>1. PICK r : r = [entries[e] EXCEPT !.id = sym_table_reg(e)]
      OBVIOUS
    <3>2. /\ Len(entries') = Len(entries)
          /\ \A d \in 1 .. Len(entries) : entries'[d] = IF d = e THEN r ELSE entries[d]
      <4>1. entries' = [entries EXCEPT ![e] = r]
        BY <2>3, <3>1 DEF set_id
      <4> QED BY <4>1, EntryOnly
    <3>3. e \in 1 .. Len(entries) => r.type = entries[e].type /\ r.fn = entries[e].fn
      <4>1. e \in 1 .. Len(entries) => entries[e] \in Entry
        BY InvParts, EntryParts
      <4> QED BY <3>1, <4>1 DEF Entry
    <3>4. \A d \in 1 .. Len(entries) :
            entries'[d].type = entries[d].type /\ entries'[d].fn = entries[d].fn
      BY <3>2, <3>3
    <3> QED BY <2>3, <3>2, <3>4, LaterTyped
  <2> QED BY <1>1, <2>1, <2>2, <2>3, IrWrites
<1> QED
  BY <1>1, AllocFnTyped

LEMMA NextTyped ==
  ASSUME Inv, TypeInv, NEW owner, NEW slot, Placed(owner, slot), Next
  PROVE  TypeInv' /\ Grows
  BY NamesTyped, TypesTyped, ReturnsTyped, EndPhaseTyped, IrTyped DEF Next, Semantics

LEMMA PastFirst ==
  ASSUME NEW a \in Nat, NEW b \in Nat, NEW i \in 1 .. a + b, ~(i <= a)
  PROVE  i - a \in 1 .. b
OBVIOUS

-----------------------------------------------------------------------------
(* Sizes.  More registers leave the sizes of those there are.              *)
LEMMA SizeStays ==
  ASSUME NEW regs \in Seq(Sizes), NEW more \in Seq(Sizes), NEW all, all = regs \o more
  PROVE  /\ \A r, sz : HasSize(regs, r, sz) => HasSize(all, r, sz)
         /\ \A r, type : Typed(regs, r, type) => Typed(all, r, type)
         /\ \A fns, inst : ReadsSized(fns, regs, inst) => ReadsSized(fns, all, inst)
         /\ \A fns, inst : InstSized(fns, regs, inst) => InstSized(fns, all, inst)
<1>1. ASSUME NEW r, NEW sz, HasSize(regs, r, sz) PROVE HasSize(all, r, sz)
  <2>1. /\ Len(regs) \in Nat /\ Len(more) \in Nat /\ Len(all) = Len(regs) + Len(more)
        /\ \A k \in 1 .. Len(all) : all[k] = IF k <= Len(regs) THEN regs[k]
                                              ELSE more[k - Len(regs)]
    BY ConcatProperties, LenProperties
  <2>2. r \in 1 .. Len(regs) /\ regs[r] = sz
    BY <1>1 DEF HasSize
  <2>3. r \in 1 .. Len(all) /\ r <= Len(regs)
    BY <2>1, <2>2
  <2> QED BY <2>1, <2>2, <2>3 DEF HasSize
<1>2. \A r, type : Typed(regs, r, type) => Typed(all, r, type)
  BY <1>1 DEF Typed
<1>3. ASSUME NEW fns, NEW inst, ReadsSized(fns, regs, inst) PROVE ReadsSized(fns, all, inst)
  BY <1>1, <1>3, Zenon DEF ReadsSized
<1>4. \A fns, inst : InstSized(fns, regs, inst) => InstSized(fns, all, inst)
  BY <1>1, <1>3 DEF InstSized
<1> QED
  BY <1>1, <1>2, <1>3, <1>4

(* A step within the translation of a function, which adds these registers *)
(* and instructions to it.                                                 *)
LEMMA StepSized ==
  ASSUME Inv, TypeInv, Grows, NEW own, NEW owner, SizeInv(own, owner), phase = "translate",
         f \in Fns, UNCHANGED <<prog, phase, f>>, Len(entries') = Len(entries),
         NEW r, NEW regs \in Seq(Sizes), NEW insts \in Seq(Insts),
         ssaFns' = [ssaFns EXCEPT ![f] = r], r.regs = ssaFns[f].regs \o regs,
         r.insts = ssaFns[f].insts \o insts,
         \A i \in 1 .. Len(insts) : InstSized(prog.fns, r.regs, insts[i]),
         \A e \in Mine(owner) :
           /\ entries'[e].type = entries[e].type
           /\ entries'[e].id = entries[e].id \/ Typed(r.regs, entries'[e].id, entries[e].type),
         UNCHANGED exprType,
         \A n \in Nodes : \/ result'[n] = result[n]
                          \/ exprType[n] # NoType => Typed(r.regs, result'[n], exprType[n]),
         ResultsFirst'
  PROVE  SizeInv(own, owner)'
<1>1. /\ ssaFns[f].regs \in Seq(Sizes) /\ ssaFns[f].insts \in Seq(Insts)
      /\ f \in 1 .. Len(ssaFns) /\ ssaFns \in Seq(SSA_Fns)
  BY CurrentFn
<1>2. /\ Len(ssaFns') = Len(ssaFns) /\ ssaFns'[f] = r
      /\ \A g \in 1 .. Len(ssaFns) : g # f => ssaFns'[g] = ssaFns[g]
  BY <1>1, LenProperties
<1>3. /\ \A q, type : Typed(ssaFns[f].regs, q, type) => Typed(r.regs, q, type)
      /\ \A fns, inst : InstSized(fns, ssaFns[f].regs, inst) => InstSized(fns, r.regs, inst)
  BY <1>1, SizeStays
<1>4. CodeSized /\ EntrySizes(owner) /\ NodeSizes(own)
  BY DEF SizeInv
<1>5. InstsSized(prog.fns, r)
  <2>1. /\ Len(ssaFns[f].insts) \in Nat /\ Len(insts) \in Nat
        /\ Len(r.insts) = Len(ssaFns[f].insts) + Len(insts)
        /\ \A i \in 1 .. Len(r.insts) :
             r.insts[i] = IF i <= Len(ssaFns[f].insts) THEN ssaFns[f].insts[i]
                          ELSE insts[i - Len(ssaFns[f].insts)]
    BY <1>1, ConcatProperties, LenProperties
  <2>2. \A i \in 1 .. Len(ssaFns[f].insts) : InstSized(prog.fns, r.regs, ssaFns[f].insts[i])
    BY <1>1, <1>3, <1>4 DEF CodeSized, InstsSized
  <2>3. ASSUME NEW i \in 1 .. Len(r.insts) PROVE InstSized(prog.fns, r.regs, r.insts[i])
    <3>1. CASE i <= Len(ssaFns[f].insts)
      BY <2>1, <2>2, <3>1
    <3>2. CASE ~(i <= Len(ssaFns[f].insts))
      <4>1. i - Len(ssaFns[f].insts) \in 1 .. Len(insts)
        <5>1. i \in 1 .. Len(ssaFns[f].insts) + Len(insts)
          BY <2>1
        <5> QED BY <2>1, <3>2, <5>1, PastFirst, Zenon
      <4> QED BY <2>1, <3>2, <4>1
    <3> QED BY <3>1, <3>2
  <2> QED BY <2>3 DEF InstsSized
<1>6. CodeSized'
  <2>1. \A g \in 1 .. Len(ssaFns) : InstsSized(prog.fns, ssaFns'[g])
    BY <1>1, <1>2, <1>4, <1>5 DEF CodeSized
  <2>2. \A g \in 1 .. Len(ssaFns') : InstsSized(prog'.fns, ssaFns'[g])
    BY <1>2, <2>1
  <2> QED BY <2>2 DEF CodeSized
<1>7. EntrySizes(owner)'
  <2>1. \A e \in Mine(owner) : entries'[e].id # 0 =>
          Typed(r.regs, entries'[e].id, entries[e].type)
    BY <1>3, <1>4 DEF EntrySizes
  <2>2. \A e \in 1 .. Len(entries') : owner[e] = f /\ entries'[e].id # 0 =>
          Typed(ssaFns'[f].regs, entries'[e].id, entries'[e].type)
    BY <1>2, <2>1 DEF Mine
  <2> QED BY <2>2 DEF EntrySizes, Mine
<1>8. NodeSizes(own)'
  <2>1. \A n \in Nodes : own[n] = f /\ result'[n] # 0 /\ exprType[n] # NoType =>
          Typed(ssaFns'[f].regs, result'[n], exprType[n])
    BY <1>2, <1>3, <1>4 DEF NodeSizes
  <2> QED BY <2>1 DEF NodeSizes, Nodes
<1> QED
  BY <1>6, <1>7, <1>8 DEF SizeInv

(* The walk goes on, when the results of these tasks come first.           *)
LEMMA ResultsOn ==
  ASSUME Inv, ResultsFirst, todo # << >>, prog' = prog, NEW tasks \in Seq(Tasks), Continue(tasks),
         \A n \in Nodes : result[n] # 0 => result'[n] # 0,
         Node \in Nodes => result'[Node] # 0 \/ \E l \in 1 .. Len(tasks) : tasks[l].n = Node,
         \A j \in 1 .. Len(tasks) : \A n \in Reads(tasks[j]) :
           result'[n] # 0 \/ \E l \in 1 .. j - 1 : tasks[l].n = n
  PROVE  ResultsFirst'
<1>1. ASSUME NEW j \in 1 .. Len(todo'), NEW t, t = todo'[j], NEW n \in Reads(t)
      PROVE  result'[n] # 0 \/ \E l \in 1 .. j - 1 : todo'[l].n = n
  <2>1. /\ Len(tasks) \in Nat /\ Len(todo) \in Nat /\ Len(todo') = Len(tasks) + Len(todo) - 1
        /\ \A i \in 1 .. Len(tasks) : i \in 1 .. Len(todo') /\ todo'[i] = tasks[i]
        /\ \A i \in 2 .. Len(todo) : /\ Len(tasks) + i - 1 \in 1 .. Len(todo')
                                     /\ todo'[Len(tasks) + i - 1] = todo[i]
        /\ j > Len(tasks) => /\ j - Len(tasks) + 1 \in 2 .. Len(todo)
                             /\ todo'[j] = todo[j - Len(tasks) + 1]
        /\ Head(todo) = todo[1]
    BY Shifted
  <2>2. n \in Nodes
    BY DEF Reads
  <2>3. CASE j <= Len(tasks)
    <3>1. j \in 1 .. Len(tasks) /\ t = tasks[j]
      BY <1>1, <2>1, <2>3
    <3>2. result'[n] # 0 \/ \E l \in 1 .. j - 1 : tasks[l].n = n
      BY <1>1, <3>1
    <3>3. \A l \in 1 .. j - 1 : todo'[l] = tasks[l]
      BY <2>1, <3>1
    <3> QED BY <3>2, <3>3
  <2>4. CASE j > Len(tasks)
    <3>1. PICK i \in 2 .. Len(todo) : i = j - Len(tasks) + 1 /\ t = todo[i]
      BY <1>1, <2>1, <2>4
    <3>2. i \in 1 .. Len(todo)
      BY <2>1
    <3>3. result[n] # 0 \/ \E l \in 1 .. i - 1 : todo[l].n = n
      BY <1>1, <3>1, <3>2 DEF ResultsFirst
    <3>4. CASE result[n] # 0
      BY <2>2, <3>4
    <3>5. ASSUME NEW l \in 1 .. i - 1, todo[l].n = n
          PROVE  result'[n] # 0 \/ \E m \in 1 .. j - 1 : todo'[m].n = n
      <4>1. CASE l = 1
        <5>1. Node = n
          BY <2>1, <3>5, <4>1 DEF Node
        <5>2. result'[n] # 0 \/ \E m \in 1 .. Len(tasks) : tasks[m].n = n
          BY <2>2, <5>1
        <5>3. \A m \in 1 .. Len(tasks) : m \in 1 .. j - 1 /\ todo'[m] = tasks[m]
          BY <2>1, <2>4
        <5> QED BY <5>2, <5>3
      <4>2. CASE l # 1
        <5>1. l \in 2 .. Len(todo) /\ Len(tasks) + l - 1 \in 1 .. j - 1
          BY <2>1, <3>1, <4>2
        <5>2. todo'[Len(tasks) + l - 1].n = n
          BY <2>1, <3>5, <5>1
        <5> QED BY <5>1, <5>2
      <4> QED BY <4>1, <4>2
    <3> QED BY <3>3, <3>4, <3>5
  <2> QED BY <2>1, <2>3, <2>4
<1>2. UNCHANGED <<f, s>>
  BY DEF Continue
<1>3. ASSUME NEW j \in 1 .. Len(todo'), NEW n \in Nodes,
             \/ /\ todo'[j].k = "leave"
                /\ \E k \in 1 .. Len(prog.exprs[todo'[j].n].args) :
                     n = prog.exprs[todo'[j].n].args[k]
             \/ todo'[j].k = "stmt" /\ n = prog.fns[f].stmts[s].value
      PROVE  result'[n] # 0 \/ \E l \in 1 .. j - 1 : todo'[l].n = n
  <2>1. PICK t : t = todo'[j]
    OBVIOUS
  <2>2. n \in Reads(t)
    BY <1>3, <2>1 DEF Reads, Expr, Stmt, Fn
  <2> QED BY <1>1, <2>1, <2>2
<1> QED
  <2>1. ASSUME NEW j \in 1 .. Len(todo'), NEW n \in Reads(todo[j])'
        PROVE  result'[n] # 0 \/ \E l \in 1 .. j - 1 : todo'[l].n = n
    <3>1. /\ n \in Nodes
          /\ \/ /\ todo'[j].k = "leave"
                /\ \E k \in 1 .. Len(prog.exprs[todo'[j].n].args) :
                     n = prog.exprs[todo'[j].n].args[k]
             \/ todo'[j].k = "stmt" /\ n = prog.fns[f].stmts[s].value
      BY <1>2 DEF Reads, Expr, Stmt, Fn, Nodes
    <3> QED BY <1>3, <3>1
  <2> QED BY <2>1 DEF ResultsFirst

LEMMA ResultsDone ==
  ASSUME Inv, ResultsFirst, todo # << >>, prog' = prog, Continue(<< >>), result'[Node] # 0,
         \A n \in Nodes : result[n] # 0 => result'[n] # 0
  PROVE  ResultsFirst'
<1>1. PICK none : none = << >>
  OBVIOUS
<1>2. none \in Seq(Tasks) /\ Len(none) = 0 /\ Continue(none)
  BY <1>1, EmptySeq
<1>3. \A j \in 1 .. Len(none) : FALSE
  BY <1>2
<1> QED
  BY <1>2, <1>3, ResultsOn

LEMMA ResultsNone == ASSUME todo' = << >> PROVE ResultsFirst'
  BY EmptySeq DEF ResultsFirst

(* The register of an entry of the current function has its size.          *)
LEMMA EntryRegSized ==
  ASSUME Inv, NEW own, NEW owner, SizeInv(own, owner), phase = "translate", f \in Fns,
         NEW e \in 1 .. Len(entries), owner[e] = f, \A how \in Abnormal : ~reg_fails(e, how),
         new_regs(e) \in Seq(Sizes), NEW regs, regs = ssaFns[f].regs \o new_regs(e)
  PROVE  Typed(regs, sym_table_reg(e), entries[e].type)
<1>1. ssaFns[f].regs \in Seq(Sizes) /\ Len(entries) \in Nat /\ e \in Nat \ {0}
  BY CurrentFn, InvParts, LenProperties DEF TableOK
<1>2. CASE entries[e].id # 0
  <2>1. Typed(ssaFns[f].regs, entries[e].id, entries[e].type)
    BY <1>2 DEF SizeInv, EntrySizes, Mine
  <2>2. sym_table_reg(e) = entries[e].id
    BY <1>2 DEF sym_table_reg
  <2>3. ASSUME NEW old \in Seq(Sizes), old = ssaFns[f].regs
        PROVE  \A r, type : Typed(old, r, type) => Typed(regs, r, type)
    <3>1. regs = old \o new_regs(e)
      BY <2>3
    <3> QED BY <3>1, SizeStays, Zenon
  <2> QED BY <1>1, <2>1, <2>2, <2>3
<1>3. CASE entries[e].id = 0
  <2>1. entries[e].type.t \in IntTypes
    <3>1. \A how \in Abnormal : ~size_fails(entries[e].type, how)
      BY <1>1, <1>3 DEF reg_fails, NULL
    <3> QED BY <3>1, SizeOK
  <2>2. /\ sym_table_reg(e) = Len(ssaFns[f].regs) + 1
        /\ new_regs(e) = <<type_sz(entries[e].type)>>
    BY <1>3 DEF sym_table_reg, new_regs, ssa_new_reg
  <2>3. type_sz(entries[e].type) \in Sizes
    BY <2>1, SizeOK
  <2>4. /\ regs[Len(ssaFns[f].regs) + 1] = type_sz(entries[e].type)
        /\ Len(regs) = Len(ssaFns[f].regs) + 1 /\ Len(ssaFns[f].regs) \in Nat
    BY <1>1, <2>2, <2>3, ThenOne
  <2>5. HasSize(regs, sym_table_reg(e), type_sz(entries[e].type))
    BY <2>2, <2>4 DEF HasSize
  <2> QED BY <2>1, <2>5 DEF Typed
<1> QED
  BY <1>2, <1>3

(* A step that makes no code.                                              *)
LEMMA IdleSized ==
  ASSUME NEW own, NEW owner, SizeInv(own, owner),
         UNCHANGED <<prog, phase, f, entries, exprType, irVars>>,
         phase = "translate" => ResultsFirst'
  PROVE  SizeInv(own, owner)'
<1>1. UNCHANGED <<ssaFns, result>>
  BY DEF irVars
<1>2. CodeSized'
  BY <1>1 DEF SizeInv, CodeSized
<1>3. phase = "translate" /\ f \in Fns => EntrySizes(owner)' /\ NodeSizes(own)'
  BY <1>1 DEF SizeInv, EntrySizes, Mine, NodeSizes, Nodes
<1> QED
  BY <1>2, <1>3 DEF SizeInv, Fns

LEMMA StopSized ==
  ASSUME NEW own, NEW owner, SizeInv(own, owner), NEW how, Stop(how), UNCHANGED irVars
  PROVE  SizeInv(own, owner)'
<1>1. /\ UNCHANGED <<prog, phase, f, s, todo, entries, exprType, irVars>>
      /\ UNCHANGED <<ssaFns, result>>
  BY DEF Stop, annotations, irVars
<1>2. phase = "translate" /\ f \in Fns => ResultsFirst'
  BY <1>1 DEF SizeInv, ResultsFirst, Reads, Expr, Stmt, Fn, Nodes
<1>3. CodeSized'
  BY <1>1 DEF SizeInv, CodeSized
<1>4. phase = "translate" /\ f \in Fns => EntrySizes(owner)' /\ NodeSizes(own)'
  BY <1>1 DEF SizeInv, EntrySizes, Mine, NodeSizes, Nodes
<1> QED
  BY <1>1, <1>2, <1>3, <1>4 DEF SizeInv, Fns

LEMMA FailsSized ==
  ASSUME NEW own, NEW owner, SizeInv(own, owner), \E how : Fails(how)
  PROVE  SizeInv(own, owner)'
  BY StopSized DEF Fails

LEMMA IrEnterFnSized ==
  ASSUME Inv, NEW own, NEW owner, NEW slot, Tracked(own, owner, slot), SizeInv(own, owner),
         Ir_EnterFn
  PROVE  SizeInv(own, owner)'
<1>1. /\ phase = "translate" /\ f \in Fns /\ p = 0 /\ todo' = todo
      /\ UNCHANGED <<prog, phase, f, entries, exprType, irVars>>
  BY ControlTypes DEF Ir_EnterFn, InFn, In, Fns, annotations
<1>2. todo = << >>
  <2>1. Len(Fn.params) \in Nat
    BY <1>1, InsideFn DEF Fns
  <2> QED BY <1>1, <2>1 DEF Tracked, Walking
<1> QED
  BY <1>1, <1>2, ResultsNone, IdleSized

LEMMA IrStmtSized ==
  ASSUME Inv, NEW own, NEW owner, SizeInv(own, owner), TranslateStmt
  PROVE  SizeInv(own, owner)'
<1> DEFINE value == Stmt.value
           tasks == (IF value = NULL THEN << >> ELSE <<Enter(value)>>) \o <<EndStmt>>
<1>1. /\ phase = "translate" /\ todo = << >>
      /\ UNCHANGED <<prog, phase, f, entries, exprType, irVars>>
      /\ SkipStmt \/ (Walk(tasks) /\ UNCHANGED s)
  BY DEF TranslateStmt, AtStmt, BetweenStmts, InFn, In, SkipStmt, NextStmt, Walk, annotations
<1>2. CASE SkipStmt
  <2>1. todo' = << >>
    BY <1>1, <1>2 DEF SkipStmt
  <2> QED BY <1>1, <2>1, ResultsNone, IdleSized
<1>3. CASE Walk(tasks) /\ UNCHANGED s
  <2>1. todo' = tasks
    BY <1>3 DEF Walk
  <2>2. EndStmt.k = "stmt" /\ Enter(value).n = value /\ Enter(value).k = "enter"
    BY DEF EndStmt, Enter, Task
  <2>3. ASSUME NEW j \in 1 .. Len(tasks), NEW n \in Nodes,
               tasks[j].k = "leave" \/ (tasks[j].k = "stmt" /\ n = value)
        PROVE  \E l \in 1 .. j - 1 : tasks[l].n = n
    <3>1. CASE value = NULL
      <4>1. tasks = << >> \o <<EndStmt>>
        BY <3>1
      <4>2. Len(tasks) = 1 /\ tasks[1] = EndStmt
        BY <4>1
      <4>3. n # value
        BY <3>1, ProgramShape DEF NULL, Nodes, Inv
      <4> QED BY <2>2, <2>3, <4>2, <4>3
    <3>2. CASE value # NULL
      <4>1. tasks = <<Enter(value)>> \o <<EndStmt>>
        BY <3>2
      <4>2. Len(tasks) = 2 /\ tasks[1] = Enter(value) /\ tasks[2] = EndStmt
        BY <4>1
      <4> HIDE DEF tasks, value
      <4>3. j \in {1, 2}
        BY <4>2
      <4>4. j = 2 /\ n = value
        BY <2>2, <2>3, <4>2, <4>3
      <4>5. 1 \in 1 .. j - 1
        BY <4>4
      <4> QED BY <2>2, <4>2, <4>4, <4>5
    <3> QED BY <3>1, <3>2
  <2> HIDE DEF tasks
  <2>4. ResultsFirst'
    <3>1. ASSUME NEW j \in 1 .. Len(todo'), NEW n \in Nodes,
                 todo'[j].k = "leave" \/ (todo'[j].k = "stmt" /\ n = prog.fns[f].stmts[s].value)
          PROVE  \E l \in 1 .. j - 1 : todo'[l].n = n
      BY <2>1, <2>3, <3>1 DEF Stmt, Fn
    <3> QED BY <1>1, <1>3, <3>1 DEF ResultsFirst, Reads, Expr, Stmt, Fn, Nodes
  <2> QED BY <1>1, <2>4, IdleSized
<1> QED
  BY <1>1, <1>2, <1>3

LEMMA TranslateArgsSized ==
  ASSUME Inv, NEW own, NEW owner, SizeInv(own, owner), NEW t, TranslateArgs(t)
  PROVE  SizeInv(own, owner)'
<1> DEFINE args == EnterAll(Expr(Node).args)
           tasks == args \o <<Leave(Node)>>
<1>1. /\ phase = "translate" /\ todo # << >> /\ Head(todo).k = "enter" /\ Continue(tasks)
      /\ UNCHANGED <<prog, phase, f, entries, exprType, irVars>>
  BY DEF TranslateArgs, At, In, Continue, annotations
<1>2. /\ Node \in Nodes /\ f \in Fns
      /\ args \in Seq(Tasks) /\ \A i \in 1 .. Len(args) : args[i].k = "enter"
  BY <1>1, AtTask, EnterAllOK
<1>3. Leave(Node) \in Tasks /\ Leave(Node).n = Node /\ Leave(Node).k = "leave"
  BY <1>1, <1>2, AtTask DEF Leave, Task, Tasks, Nodes
<1>4. /\ Len(args) = Len(Expr(Node).args) /\ Len(args) \in Nat
      /\ \A k \in 1 .. Len(Expr(Node).args) : args[k].n = Expr(Node).args[k]
  <2>1. Len(Expr(Node).args) \in Nat
    BY <1>1, AtTask
  <2>2. /\ DOMAIN args = 1 .. Len(Expr(Node).args)
        /\ \A k \in 1 .. Len(Expr(Node).args) : args[k] = Enter(Expr(Node).args[k])
    BY DEF EnterAll
  <2> HIDE DEF args
  <2>3. Len(args) = Len(Expr(Node).args)
    BY <1>2, <2>1, <2>2, LenProperties
  <2>4. \A n : Enter(n).n = n
    BY DEF Enter, Task
  <2>5. \A k \in 1 .. Len(Expr(Node).args) : args[k].n = Expr(Node).args[k]
    BY <2>2, <2>4
  <2> QED BY <2>1, <2>3, <2>5
<1> HIDE DEF args
<1>5. /\ tasks \in Seq(Tasks) /\ Len(tasks) = Len(args) + 1
      /\ \A i \in 1 .. Len(args) : tasks[i] = args[i]
      /\ tasks[Len(args) + 1] = Leave(Node)
      /\ \A j \in 1 .. Len(tasks) : j \in 1 .. Len(args) \/ j = Len(args) + 1
  BY <1>2, <1>3, ThenOne
<1> HIDE DEF tasks
<1>6. \E l \in 1 .. Len(tasks) : tasks[l].n = Node
  <2>1. Len(args) + 1 \in 1 .. Len(tasks)
    BY <1>4, <1>5
  <2> QED BY <1>3, <1>5, <2>1
<1>7. ASSUME NEW j \in 1 .. Len(tasks), NEW n \in Reads(tasks[j])
      PROVE  \E l \in 1 .. j - 1 : tasks[l].n = n
  <2>1. CASE j \in 1 .. Len(args)
    BY <1>2, <1>5, <1>7, <2>1 DEF Reads
  <2>2. CASE j = Len(args) + 1
    <3>1. PICK k \in 1 .. Len(Expr(Node).args) : n = Expr(Node).args[k]
      BY <1>3, <1>5, <1>7, <2>2 DEF Reads
    <3>2. k \in 1 .. j - 1 /\ tasks[k] = args[k] /\ args[k].n = n
      BY <1>4, <1>5, <2>2, <3>1
    <3> QED BY <3>2
  <2> QED BY <1>5, <2>1, <2>2
<1>8. ResultsFirst'
  <2>1. ResultsFirst /\ result' = result
    BY <1>1, <1>2 DEF SizeInv, irVars
  <2> QED BY <1>1, <1>5, <1>6, <1>7, <2>1, ResultsOn
<1> QED
  BY <1>1, <1>8, IdleSized

(* An instruction for a node, whose register gets the size of its type.    *)
LEMMA EmitResultSized ==
  ASSUME Inv, TypeInv, Grows, NEW own, Owned(own), NEW owner, NEW slot, Tracked(own, owner, slot),
         SizeInv(own, owner), phase = "translate", todo # << >>, Head(todo).k # "stmt",
         exprType[Node].t \in IntTypes,
         NEW inst \in Insts, inst.result = ssa_new_reg, inst.sz = type_sz(exprType[Node]),
         ReadsSized(prog.fns, ssaFns[f].regs, inst), EmitResult(inst)
  PROVE  SizeInv(own, owner)'
<1>1. /\ Emit(<<inst.sz>>, <<inst>>) /\ result' = [result EXCEPT ![Node] = ssa_new_reg]
      /\ Continue(<< >>) /\ UNCHANGED <<prog, phase, f, entries, exprType>>
  BY DEF EmitResult, Continue, annotations
<1>2. Node \in Nodes /\ f \in Fns
  BY NodeOwned DEF Tracked
<1>3. <<inst.sz>> \in Seq(Sizes) /\ <<inst>> \in Seq(Insts) /\ inst.sz \in Sizes
  BY OneElement DEF Insts
<1>4. PICK r \in SSA_Fns : /\ ssaFns' = [ssaFns EXCEPT ![f] = r]
                           /\ r.regs = ssaFns[f].regs \o <<inst.sz>>
                           /\ r.insts = ssaFns[f].insts \o <<inst>>
                           /\ r.params = ssaFns[f].params
  BY <1>1, <1>2, <1>3, EmitMakes
<1>5. ssaFns[f].regs \in Seq(Sizes)
  BY <1>2, CurrentFn
<1>6. HasSize(r.regs, ssa_new_reg, inst.sz) /\ ssa_new_reg # 0
  <2>1. /\ r.regs[Len(ssaFns[f].regs) + 1] = inst.sz
        /\ Len(r.regs) = Len(ssaFns[f].regs) + 1 /\ Len(ssaFns[f].regs) \in Nat
    BY <1>3, <1>4, <1>5, ThenOne
  <2> QED BY <2>1 DEF HasSize, ssa_new_reg
<1>7. \A i \in 1 .. Len(<<inst>>) : InstSized(prog.fns, r.regs, <<inst>>[i])
  <2>1. ReadsSized(prog.fns, r.regs, inst)
    <3>1. \A fns, any : ReadsSized(fns, ssaFns[f].regs, any) => ReadsSized(fns, r.regs, any)
      BY <1>3, <1>4, <1>5, SizeStays
    <3> QED BY <3>1
  <2>2. InstSized(prog.fns, r.regs, inst)
    BY <1>6, <2>1 DEF InstSized
  <2>3. \A i \in 1 .. Len(<<inst>>) : <<inst>>[i] = inst
    OBVIOUS
  <2> QED BY <2>2, <2>3
<1>8. \A n \in Nodes : result'[n] = IF n = Node THEN ssa_new_reg ELSE result[n]
  BY <1>1, InvParts DEF IrOK, Nodes
<1>9. \A n \in Nodes : \/ result'[n] = result[n]
                       \/ exprType[n] # NoType => Typed(r.regs, result'[n], exprType[n])
  BY <1>6, <1>8 DEF Typed
<1>10. ResultsFirst'
  <2>1. result'[Node] # 0 /\ \A n \in Nodes : result[n] # 0 => result'[n] # 0
    BY <1>2, <1>6, <1>8
  <2>2. ResultsFirst
    BY <1>2 DEF SizeInv
  <2> QED BY <1>1, <2>1, <2>2, ResultsDone
<1> QED
  BY <1>1, <1>2, <1>3, <1>4, <1>7, <1>9, <1>10, StepSized

LEMMA EmitSizedSized ==
  ASSUME Inv, TypeInv, Grows, NEW own, Owned(own), NEW owner, NEW slot, Tracked(own, owner, slot),
         SizeInv(own, owner), phase = "translate", todo # << >>, Head(todo).k # "stmt",
         NEW inst,
         exprType[Node].t \in IntTypes =>
           /\ inst \in Insts /\ inst.result = ssa_new_reg /\ inst.sz = type_sz(exprType[Node])
           /\ ReadsSized(prog.fns, ssaFns[f].regs, inst),
         EmitSized(inst)
  PROVE  SizeInv(own, owner)'
<1>1. CASE \E how : Fails(how)
  BY <1>1, FailsSized
<1>2. CASE exprType[Node].t \in IntTypes /\ EmitResult(inst)
  BY <1>2, EmitResultSized
<1> QED
  BY <1>1, <1>2 DEF EmitSized

LEMMA TranslateIntSized ==
  ASSUME Inv, TypeInv, Grows, NEW own, Owned(own), NEW owner, NEW slot, Tracked(own, owner, slot),
         SizeInv(own, owner), TranslateInt
  PROVE  SizeInv(own, owner)'
<1> DEFINE inst == [NewInst("imm", << >>) EXCEPT !.imm = Expr(Node).val]
<1>1. phase = "translate" /\ todo # << >> /\ Head(todo).k = "enter" /\ EmitSized(inst)
  BY DEF TranslateInt, At, In
<1>2. Expr(Node).val \in Nat
  BY <1>1, AtTask DEF Exprs
<1>3. ASSUME exprType[Node].t \in IntTypes PROVE inst \in Insts
  BY <1>1, <1>2, <1>3, EmptySeq, NewInstOK
<1>4. inst.result = ssa_new_reg /\ inst.sz = type_sz(exprType[Node]) /\ inst.t = "imm"
  BY DEF NewInst, Inst
<1> HIDE DEF inst
<1>5. ReadsSized(prog.fns, ssaFns[f].regs, inst)
  BY <1>4 DEF ReadsSized, Operations
<1> QED
  BY <1>1, <1>3, <1>4, <1>5, EmitSizedSized

(* The results of a node's operands were filled in with their sizes.       *)
LEMMA OperandRegs ==
  ASSUME Inv, NEW own, Owned(own), NEW owner, NEW slot, Tracked(own, owner, slot),
         SizeInv(own, owner), phase = "translate", todo # << >>, Head(todo).k = "leave"
  PROVE  /\ Len(ArgRegs) = Len(Expr(Node).args) /\ Node \in Nodes
         /\ \A k \in 1 .. Len(Expr(Node).args) :
              exprType[Expr(Node).args[k]] # NoType =>
                Typed(ssaFns[f].regs, ArgRegs[k], exprType[Expr(Node).args[k]])
<1>1. /\ Node \in Nodes /\ f \in Fns
      /\ \A k \in 1 .. Len(Expr(Node).args) :
           Expr(Node).args[k] \in Nodes /\ own[Expr(Node).args[k]] = f
  BY NodeOwned DEF Tracked
<1>2. /\ Len(ArgRegs) = Len(Expr(Node).args)
      /\ \A k \in 1 .. Len(Expr(Node).args) : ArgRegs[k] = result[Expr(Node).args[k]]
  <2>1. Expr(Node).args \in Seq(Nat) /\ Len(Expr(Node).args) \in Nat
    BY AtTask
  <2>2. ArgRegs = [k \in 1 .. Len(Expr(Node).args) |-> result[Expr(Node).args[k]]]
    BY <2>1, LenProperties DEF ArgRegs
  <2> QED BY <2>1, <2>2, ArgRegsOK, LenProperties
<1>3. ResultsFirst /\ NodeSizes(own)
  BY <1>1 DEF SizeInv
<1>4. 1 \in 1 .. Len(todo) /\ todo[1] = Head(todo)
  <2>1. todo \in Seq(Tasks) /\ Len(todo) \in Nat
    BY Pending
  <2> QED BY <2>1, HeadTailProperties, EmptySeq
<1>5. ASSUME NEW k \in 1 .. Len(Expr(Node).args), exprType[Expr(Node).args[k]] # NoType
      PROVE  Typed(ssaFns[f].regs, ArgRegs[k], exprType[Expr(Node).args[k]])
  <2>1. Expr(Node).args[k] \in Reads(todo[1])
    BY <1>1, <1>4 DEF Reads, Node
  <2>2. \/ result[Expr(Node).args[k]] # 0
        \/ \E l \in 1 .. 1 - 1 : todo[l].n = Expr(Node).args[k]
    BY <1>3, <1>4, <2>1 DEF ResultsFirst
  <2>3. result[Expr(Node).args[k]] # 0
    BY <2>2
  <2> QED BY <1>1, <1>2, <1>3, <1>5, <2>3 DEF NodeSizes
<1> QED
  BY <1>1, <1>2, <1>5

LEMMA TranslateBinopSized ==
  ASSUME Inv, TypeInv, Grows, NEW own, Owned(own), NEW owner, NEW slot, Tracked(own, owner, slot),
         SizeInv(own, owner), TranslateBinop
  PROVE  SizeInv(own, owner)'
<1> DEFINE op == Expr(Node).op
           t == translate_binop(exprType[Node], op)
           inst == NewInst(t, ArgRegs)
           fails == exprType[Node].t \in IntTypes /\ op \in Comparisons
<1>1. /\ phase = "translate" /\ todo # << >> /\ Head(todo).k = "leave"
      /\ (Node # 0 => Expr(Node).t = "binop")
      /\ fails => Fails("internal_err")
      /\ ~fails => EmitSized(inst)
  BY DEF TranslateBinop, At, In, Node
<1>2. Node \in Nodes /\ Expr(Node).t = "binop" /\ ParsedExpr(Expr(Node), Node)
  BY <1>1, AtTask
<1>3. CASE fails
  BY <1>1, <1>3, FailsSized
<1>4. CASE ~fails
  <2>1. op \in {"+", "-", "*", "/"} \cup Comparisons
    <3>1. Expr(Node).op \in BinopKinds
      <4> HIDE DEF t, inst, fails
      <4> QED BY <1>2, Zenon DEF ParsedExpr
    <3> QED BY <3>1 DEF BinopKinds
  <2>2. /\ Len(ArgRegs) = Len(Expr(Node).args)
        /\ \A k \in 1 .. Len(Expr(Node).args) :
             exprType[Expr(Node).args[k]] # NoType =>
               Typed(ssaFns[f].regs, ArgRegs[k], exprType[Expr(Node).args[k]])
    BY <1>1, OperandRegs
  <2>3. ASSUME exprType[Node].t \in IntTypes
        PROVE  inst \in Insts /\ ReadsSized(prog.fns, ssaFns[f].regs, inst)
    <3>1. t \in {"add", "sub", "imul", "umul", "idiv", "udiv"}
      BY <1>4, <2>1, <2>3 DEF translate_binop
    <3>2. exprType[Node] # NoType
      BY <2>3, NotNull DEF IntTypes
    <3>3. BinopTyped(Node, exprType[Node])
      <4>1. NodeTyped(Node, exprType[Node])
        BY <1>2, <3>2 DEF TypeInv, TypedNodes
      <4> QED BY <1>2, <4>1 DEF NodeTyped
    <3> DEFINE left == exprType[Expr(Node).args[1]]
               right == exprType[Expr(Node).args[2]]
    <3>4. left # NoType /\ right # NoType /\ exprType[Node] = coerce_type(op, left, right)
      BY <3>3 DEF BinopTyped
    <3>5. left.t = right.t /\ exprType[Node] = left
      BY <1>4, <2>3, <3>2, <3>4 DEF coerce_type
    <3>6. Len(Expr(Node).args) = 2
      BY <1>2, BelowNode
    <3>7. \A k \in 1 .. 2 : HasSize(ssaFns[f].regs, ArgRegs[k], type_sz(exprType[Node]))
      <4>1. Typed(ssaFns[f].regs, ArgRegs[1], left) /\ Typed(ssaFns[f].regs, ArgRegs[2], right)
        BY <2>2, <3>4, <3>6
      <4>2. type_sz(left) = type_sz(right)
        BY <3>5 DEF type_sz
      <4>3. \A k \in 1 .. 2 : k = 1 \/ k = 2
        OBVIOUS
      <4> HIDE DEF left, right
      <4> QED BY <3>5, <4>1, <4>2, <4>3 DEF Typed
    <3>8. /\ NewInst(t, ArgRegs).args = ArgRegs /\ NewInst(t, ArgRegs).sz = type_sz(exprType[Node])
          /\ NewInst(t, ArgRegs).t = t
      BY DEF NewInst, Inst
    <3> HIDE DEF t
    <3>9. inst \in Insts
      BY <1>1, <2>3, <3>1, ArgRegsOK, NewInstOK
    <3>10. inst.args = ArgRegs /\ inst.sz = type_sz(exprType[Node]) /\ inst.t # "callfn"
      BY <3>1, <3>8
    <3> HIDE DEF inst
    <3>11. ReadsSized(prog.fns, ssaFns[f].regs, inst)
      BY <2>2, <3>6, <3>7, <3>10 DEF ReadsSized
    <3> QED BY <3>9, <3>11
  <2>4. inst.result = ssa_new_reg /\ inst.sz = type_sz(exprType[Node])
    BY DEF NewInst, Inst
  <2> HIDE DEF inst, fails
  <2> QED BY <1>1, <1>4, <2>3, <2>4, EmitSizedSized
<1> QED
  BY <1>3, <1>4

LEMMA TranslateCallSized ==
  ASSUME Inv, TypeInv, Grows, NEW own, Owned(own), NEW owner, NEW slot, Tracked(own, owner, slot),
         SizeInv(own, owner), TranslateCall
  PROVE  SizeInv(own, owner)'
<1> DEFINE e == exprVar[Node]
           fn == entries[e].fn
           inst == [NewInst("callfn", ArgRegs) EXCEPT !.fn = fn]
           fails == exprType[Node].t \in IntTypes /\ (e = NULL \/ fn = << >>)
<1>1. /\ phase = "translate" /\ todo # << >> /\ Head(todo).k = "leave"
      /\ (Node # 0 => Expr(Node).t = "funcall")
      /\ fails => \E how : Fails(how)
      /\ ~fails => EmitSized(inst)
  BY DEF TranslateCall, At, In, Node
<1>2. Node \in Nodes /\ Expr(Node).t = "funcall"
  BY <1>1, AtTask
<1>3. CASE fails
  BY <1>1, <1>3, FailsSized
<1>4. CASE ~fails
  <2>1. /\ Len(ArgRegs) = Len(Expr(Node).args)
        /\ \A k \in 1 .. Len(Expr(Node).args) :
             exprType[Expr(Node).args[k]] # NoType =>
               Typed(ssaFns[f].regs, ArgRegs[k], exprType[Expr(Node).args[k]])
    BY <1>1, OperandRegs
  <2>2. ASSUME exprType[Node].t \in IntTypes
        PROVE  inst \in Insts /\ ReadsSized(prog.fns, ssaFns[f].regs, inst)
    <3>1. e \in 1 .. Len(entries)
      <4>1. e \in 0 .. Len(entries) /\ Len(entries) \in Nat
        BY <1>2, InvParts, LenProperties DEF AnnotationsOK, TableOK, Nodes
      <4> QED BY <1>4, <2>2, <4>1 DEF NULL
    <3>2. fn \in FnPointers /\ fn # << >>
      BY <1>4, <2>2, <3>1, InvParts, EntryParts
    <3>3. e \in Fns /\ fn[2] = e
      BY <3>1, <3>2 DEF TypeInv, FnPtrs
    <3>4. inst \in Insts
      <4> HIDE DEF fn
      <4> QED BY <1>1, <2>2, <3>2, ArgRegsOK, NewInstOK
    <3>5. CallTyped(Node, exprType[Node])
      <4>1. exprType[Node] # NoType
        BY <2>2, NotNull DEF IntTypes
      <4>2. NodeTyped(Node, exprType[Node])
        BY <1>2, <4>1 DEF TypeInv, TypedNodes
      <4> QED BY <1>2, <4>2 DEF NodeTyped
    <3>6. CallType(Node).args = ParamTypes(e)
      <4>1. Signed(e)
        BY <1>1 DEF Signed
      <4>2. entries[e].type = FnType(prog.fns[e].ret, ParamTypes(e))
        BY <3>1, <3>3, <4>1 DEF TypeInv, FnEntries
      <4> QED BY <4>2 DEF CallType, FnType
    <3>7. /\ Len(ParamTypes(e)) = Len(prog.fns[e].params)
          /\ \A k \in 1 .. Len(prog.fns[e].params) :
               ParamTypes(e)[k] = prog.fns[e].params[k].type /\ ParamTypes(e)[k] \in Builtins
      <4>1. prog.fns[e].params \in Seq(Params) /\ Len(prog.fns[e].params) \in Nat
        BY <3>3, ProgramShape, LenProperties DEF Inv
      <4>2. \A k \in 1 .. Len(prog.fns[e].params) : prog.fns[e].params[k].type \in Builtins
        <5>1. PICK params \in Seq(Params) : params = prog.fns[e].params
          BY <4>1
        <5>2. \A k \in 1 .. Len(params) : params[k] \in Params
          BY ElementOfSeq
        <5>3. \A param \in Params : param.type \in Builtins
          BY TypeKinds DEF Params
        <5> QED BY <5>1, <5>2, <5>3
      <4>3. ParamTypes(e) \in [1 .. Len(prog.fns[e].params) -> Builtins]
        BY <4>2 DEF ParamTypes
      <4>4. Len(ParamTypes(e)) = Len(prog.fns[e].params)
        BY <4>1, <4>3, FcnIsSeq
      <4> QED BY <4>2, <4>4 DEF ParamTypes
    <3>8. Len(ArgRegs) = Len(prog.fns[e].params)
      BY <2>1, <3>5, <3>6, <3>7 DEF CallTyped
    <3>9. ASSUME NEW k \in 1 .. Len(ArgRegs)
          PROVE  HasSize(ssaFns[f].regs, ArgRegs[k], type_sz(prog.fns[e].params[k].type))
      <4> DEFINE given == exprType[Expr(Node).args[k]]
                 expected == prog.fns[e].params[k].type
      <4>1. given.t = expected.t
        BY <2>1, <3>5, <3>6, <3>7, <3>8 DEF CallTyped, ArgTyped
      <4>2. given # NoType
        BY <3>7, <3>8, <4>1, NotNull
      <4>3. Typed(ssaFns[f].regs, ArgRegs[k], given)
        BY <2>1, <4>2
      <4>4. type_sz(given) = type_sz(expected)
        BY <4>1 DEF type_sz
      <4> HIDE DEF given, expected
      <4>5. HasSize(ssaFns[f].regs, ArgRegs[k], type_sz(expected))
        BY <4>3, <4>4 DEF Typed
      <4> QED BY <4>5 DEF expected
    <3>10. inst.args = ArgRegs /\ inst.t = "callfn" /\ inst.fn = fn
      BY DEF NewInst, Inst
    <3>11. inst.fn[2] = e /\ e \in 1 .. Len(prog.fns)
      BY <3>3, <3>10 DEF Fns
    <3> HIDE DEF inst, e
    <3>12. ReadsSized(prog.fns, ssaFns[f].regs, inst)
      BY <3>8, <3>9, <3>10, <3>11 DEF ReadsSized, Operations
    <3> QED BY <3>4, <3>12
  <2>3. inst.result = ssa_new_reg /\ inst.sz = type_sz(exprType[Node])
    BY DEF NewInst, Inst
  <2> HIDE DEF inst, fails
  <2> QED BY <1>1, <1>4, <2>2, <2>3, EmitSizedSized
<1> QED
  BY <1>3, <1>4

LEMMA TranslateVarSized ==
  ASSUME Inv, TypeInv, Grows, NEW own, Owned(own), NEW owner, NEW slot, Tracked(own, owner, slot),
         SizeInv(own, owner), TranslateVar
  PROVE  SizeInv(own, owner)'
<1> DEFINE e == exprVar[Node]
<1>1. phase = "translate" /\ todo # << >> /\ Head(todo).k = "enter"
      /\ (Node # 0 => Expr(Node).t = "var")
  BY DEF TranslateVar, At, In, Node
<1>2. CASE \E how \in Abnormal : Fails(how)
  BY <1>2, FailsSized
<1>3. CASE \A how \in Abnormal : ~reg_fails(e, how)
  <2>1. /\ set_id(e) /\ Emit(new_regs(e), << >>) /\ Continue(<< >>)
        /\ result' = [result EXCEPT ![Node] = sym_table_reg(e)]
        /\ UNCHANGED <<prog, phase, f, scopes, annotations, exprType>>
    BY <1>3 DEF TranslateVar, Continue, annotations
  <2>2. Walking(own) /\ Bound(own, owner) /\ Placed(owner, slot)
    BY DEF Tracked
  <2>3. Node \in Nodes /\ own[Node] = f /\ f \in Fns /\ Expr(Node).t = "var"
    BY <1>1, <2>2, NodeOwned, AtTask
  <2>4. e \in 0 .. Len(entries) /\ (e # NULL => owner[e] \in {0, f})
    BY <2>2, <2>3, InvParts DEF AnnotationsOK, Nodes, Bound
  <2>5. exprType[Node] # NoType => exprType[Node] = entries[e].type
    <3>1. exprType[Node] # NoType => NodeTyped(Node, exprType[Node])
      BY <2>3 DEF TypeInv, TypedNodes
    <3> QED BY <2>3, <3>1 DEF NodeTyped, VarTyped
  <2> HIDE DEF e
  <2>6. e \in 1 .. Len(entries) /\ new_regs(e) \in Seq(Sizes) /\ Len(entries) \in Nat
    BY <1>1, <1>3, <2>3, <2>4, RegOK, InvParts, LenProperties DEF TableOK
  <2>7. owner[e] = f
    <3>1. owner[e] \in {0, f}
      BY <2>4, <2>6 DEF NULL
    <3> QED BY <1>1, <1>3, <2>3, <2>6, <3>1, OwnEntry
  <2>8. << >> \in Seq(Insts) /\ Len(<< >>) = 0
    BY EmptySeq
  <2>9. PICK r \in SSA_Fns : /\ ssaFns' = [ssaFns EXCEPT ![f] = r]
                             /\ r.regs = ssaFns[f].regs \o new_regs(e)
                             /\ r.insts = ssaFns[f].insts \o << >>
                             /\ r.params = ssaFns[f].params
    BY <1>1, <2>1, <2>3, <2>6, <2>8, EmitMakes
  <2>10. Typed(r.regs, sym_table_reg(e), entries[e].type)
    BY <1>1, <1>3, <2>3, <2>6, <2>7, <2>9, EntryRegSized
  <2>11. r.insts = ssaFns[f].insts
    BY <1>1, <2>3, <2>9, CurrentFn, ConcatEmptySeq
  <2>12. /\ Ids'[e] = sym_table_reg(e) /\ Len(entries') = Len(entries)
         /\ \A d \in 1 .. Len(entries) : /\ entries'[d].type = entries[d].type
                                         /\ d # e => entries'[d].id = entries[d].id
    BY <1>1, <1>3, <2>1, <2>3, <2>6, <2>7, <2>9, <2>11, EntryReg
  <2>13. entries'[e].id = sym_table_reg(e)
    BY <2>6, <2>12 DEF Ids
  <2>14. \A d \in Mine(owner) :
           /\ entries'[d].type = entries[d].type
           /\ entries'[d].id = entries[d].id \/ Typed(r.regs, entries'[d].id, entries[d].type)
    BY <2>10, <2>12, <2>13 DEF Mine
  <2>15. \A n \in Nodes : result'[n] = IF n = Node THEN sym_table_reg(e) ELSE result[n]
    BY <2>1, InvParts DEF IrOK, Nodes
  <2>16. \A n \in Nodes : \/ result'[n] = result[n]
                          \/ exprType[n] # NoType => Typed(r.regs, result'[n], exprType[n])
    BY <2>5, <2>10, <2>15
  <2>17. ResultsFirst'
    <3>1. sym_table_reg(e) # 0
      BY <2>10 DEF Typed, HasSize
    <3>2. result'[Node] # 0 /\ \A n \in Nodes : result[n] # 0 => result'[n] # 0
      BY <2>3, <2>15, <3>1
    <3>3. ResultsFirst
      BY <1>1, <2>3 DEF SizeInv
    <3> QED BY <1>1, <2>1, <3>2, <3>3, ResultsDone
  <2>18. \A i \in 1 .. Len(<< >>) : InstSized(prog.fns, r.regs, << >>[i])
    BY <2>8
  <2> QED BY <1>1, <2>1, <2>3, <2>6, <2>8, <2>9, <2>12, <2>14, <2>16, <2>17, <2>18, StepSized
<1> QED
  BY <1>2, <1>3 DEF TranslateVar

(* The value of a statement was translated when its end is reached.        *)
LEMMA ValueSized ==
  ASSUME Inv, NEW own, Owned(own), NEW owner, SizeInv(own, owner), phase = "translate",
         todo # << >>, Head(todo).k = "stmt", Stmt.value # NULL, exprType[Stmt.value] # NoType
  PROVE  Typed(ssaFns[f].regs, result[Stmt.value], exprType[Stmt.value])
<1>1. f \in Fns /\ s \in 1 .. Len(Fn.stmts) /\ Fn = prog.fns[f] /\ Stmt.value \in Nodes
  BY CurrentStmt
<1>2. Stmt = prog.fns[f].stmts[s] /\ s \in 1 .. Len(prog.fns[f].stmts)
  BY <1>1 DEF Stmt
<1>3. own[Stmt.value] = f
  BY <1>1, <1>2, OwnedMeans
<1>4. Len(todo) \in Nat \ {0} /\ Head(todo) = todo[1]
  <2>1. todo \in Seq(Tasks) /\ Len(todo) \in Nat
    BY Pending
  <2> QED BY <2>1, HeadTailProperties, EmptySeq
<1>5. Stmt.value \in Reads(todo[1]) /\ 1 \in 1 .. Len(todo)
  BY <1>1, <1>4 DEF Reads
<1>6. \A n \in Reads(todo[1]) : result[n] # 0 \/ \E l \in 1 .. 1 - 1 : todo[l].n = n
  BY <1>1, <1>5 DEF SizeInv, ResultsFirst
<1>7. result[Stmt.value] # 0
  BY <1>5, <1>6
<1> QED
  BY <1>1, <1>3, <1>7 DEF SizeInv, NodeSizes

(* The end of a statement, which sets no entry.                            *)
LEMMA EndSized ==
  ASSUME Inv, TypeInv, Grows, NEW own, NEW owner, SizeInv(own, owner), phase = "translate",
         f \in Fns, NEW inst \in Insts, InstSized(prog.fns, ssaFns[f].regs, inst),
         Emit(<< >>, <<inst>>), NextStmt, todo' = << >>,
         UNCHANGED <<prog, entries, exprType, result>>
  PROVE  SizeInv(own, owner)'
<1>1. PICK none, one : none = << >> /\ one = <<inst>>
  OBVIOUS
<1>2. none \in Seq(Sizes) /\ one \in Seq(Insts)
  BY <1>1, EmptySeq, OneElement
<1>3. PICK r \in SSA_Fns : /\ ssaFns' = [ssaFns EXCEPT ![f] = r]
                           /\ r.regs = ssaFns[f].regs \o none
                           /\ r.insts = ssaFns[f].insts \o one
  <2>1. Emit(none, one)
    BY <1>1, Zenon
  <2> QED BY <1>2, <2>1, EmitMakes
<1>4. r.regs = ssaFns[f].regs
  BY <1>1, <1>3, CurrentFn, ConcatEmptySeq
<1>5. \A i \in 1 .. Len(one) : InstSized(prog.fns, r.regs, one[i])
  <2>1. \A i \in 1 .. Len(one) : one[i] = inst
    BY <1>1
  <2> QED BY <1>4, <2>1
<1>6. UNCHANGED <<prog, phase, f, entries, exprType, result>>
  BY DEF NextStmt
<1>7. /\ \A e \in Mine(owner) : /\ entries'[e].type = entries[e].type
                                /\ entries'[e].id = entries[e].id
      /\ \A n \in Nodes : result'[n] = result[n]
      /\ Len(entries') = Len(entries)
  BY <1>6
<1> QED
  BY <1>2, <1>3, <1>5, <1>6, <1>7, ResultsNone, StepSized

LEMMA EndExprSized ==
  ASSUME Inv, TypeInv, Grows, NEW own, Owned(own), NEW owner, SizeInv(own, owner), EndExpr
  PROVE  SizeInv(own, owner)'
<1> DEFINE type == exprType[Stmt.value]
           inst == Inst("copy", type_sz(type), 0, <<result[Stmt.value]>>)
<1>1. phase = "translate" /\ todo # << >> /\ Head(todo).k = "stmt" /\ Stmt.t = "expr"
  BY DEF EndExpr, At, In
<1>2. f \in Fns /\ Stmt.value # NULL /\ Stmt.value \in Nodes
  BY <1>1, CurrentStmt
<1>3. CASE \E how : Fails(how)
  BY <1>3, FailsSized
<1>4. CASE /\ type.t \in IntTypes /\ Emit(<< >>, <<inst>>) /\ NextStmt /\ todo' = << >>
           /\ UNCHANGED <<prog, scopes, entries, annotations, fnsAlloc, result>>
  <2>1. type_sz(type) \in Sizes
    BY <1>4, SizeOK
  <2>2. result[Stmt.value] \in Nat
    BY <1>2, InvParts DEF IrOK, Nodes
  <2>3. inst \in Insts
    BY <2>1, <2>2, InstOK
  <2>4. type # NoType
    BY <1>4, NotNull DEF IntTypes
  <2>5. HasSize(ssaFns[f].regs, result[Stmt.value], type_sz(type))
    BY <1>1, <1>2, <2>4, ValueSized DEF Typed
  <2>6. /\ inst.result = 0 /\ inst.args = <<result[Stmt.value]>> /\ inst.t = "copy"
        /\ inst.sz = type_sz(type)
    BY DEF Inst
  <2>7. UNCHANGED <<prog, entries, exprType, result>>
    BY <1>4 DEF annotations
  <2> HIDE DEF inst, type
  <2>8. InstSized(prog.fns, ssaFns[f].regs, inst)
    <3>1. \A k \in 1 .. Len(inst.args) : inst.args[k] = result[Stmt.value]
      BY <2>6
    <3>2. \A k \in 1 .. Len(inst.args) : HasSize(ssaFns[f].regs, inst.args[k], inst.sz)
      BY <2>5, <2>6, <3>1
    <3> QED BY <2>6, <3>2 DEF InstSized, ReadsSized
  <2> QED BY <1>1, <1>2, <1>4, <2>3, <2>7, <2>8, EndSized
<1> QED
  BY <1>3, <1>4 DEF EndExpr

LEMMA EndReturnSized ==
  ASSUME Inv, TypeInv, Grows, NEW own, NEW owner, SizeInv(own, owner), EndReturn
  PROVE  SizeInv(own, owner)'
<1> DEFINE op == IF Stmt.value = NULL THEN 0 ELSE result[Stmt.value]
           inst == Inst("ret", 0, 0, <<op>>)
<1>1. /\ phase = "translate" /\ todo # << >>
      /\ Emit(<< >>, <<inst>>) /\ NextStmt /\ todo' = << >>
      /\ UNCHANGED <<prog, entries, exprType, result>>
  BY DEF EndReturn, At, In, annotations
<1>2. f \in Fns /\ (Stmt.value # NULL => Stmt.value \in Nodes)
  BY <1>1, CurrentStmt
<1>3. op \in Nat
  BY <1>2, InvParts DEF IrOK, Nodes
<1>4. inst \in Insts
  BY <1>3, InstOK DEF Sizes
<1>5. inst.result = 0 /\ inst.t = "ret"
  BY DEF Inst
<1> HIDE DEF inst, op
<1>6. InstSized(prog.fns, ssaFns[f].regs, inst)
  BY <1>5 DEF InstSized, ReadsSized, Operations
<1> QED
  BY <1>1, <1>2, <1>4, <1>6, EndSized

(* An entry that gets its register, or keeps the one it has.               *)
LEMMA SetIdSized ==
  ASSUME Inv, NEW e \in 1 .. Len(entries), set_id(e), NEW owner, NEW regs,
         Typed(regs, sym_table_reg(e), entries[e].type)
  PROVE  /\ Len(entries') = Len(entries)
         /\ \A d \in Mine(owner) :
              /\ entries'[d].type = entries[d].type
              /\ entries'[d].id = entries[d].id \/ Typed(regs, entries'[d].id, entries[d].type)
<1> DEFINE r == [entries[e] EXCEPT !.id = sym_table_reg(e)]
<1>1. entries' = [entries EXCEPT ![e] = r]
  BY DEF set_id
<1>2. r.id = sym_table_reg(e) /\ r.type = entries[e].type
  <2>1. entries[e] \in Entry
    BY InvParts, EntryParts
  <2> QED BY <2>1 DEF Entry
<1> HIDE DEF r
<1>3. /\ Len(entries') = Len(entries) /\ Len(entries) \in Nat
      /\ \A d \in 1 .. Len(entries) : entries'[d] = IF d = e THEN r ELSE entries[d]
  BY <1>1, EntryOnly
<1> QED
  BY <1>2, <1>3 DEF Mine

(* The value of a let was compared with its type, which the entry has.     *)
LEMMA EndLetSized ==
  ASSUME Inv, TypeInv, Grows, NEW own, Owned(own), NEW owner, NEW slot, Tracked(own, owner, slot),
         SizeInv(own, owner), EndLet
  PROVE  SizeInv(own, owner)'
<1> DEFINE e == stmtVar[f][s]
           type == exprType[Stmt.value]
           x == sym_table_reg(e)
           inst == Inst("copy", type_sz(type), x, <<result[Stmt.value]>>)
           fails(how) == size_fails(type, how) \/ reg_fails(e, how)
<1>1. phase = "translate" /\ todo # << >> /\ Head(todo).k = "stmt" /\ Stmt.t = "let"
  BY DEF EndLet, At, In
<1>2. /\ f \in Fns /\ s \in 1 .. Len(prog.fns[f].stmts) /\ Stmt.value # NULL
      /\ Stmt.value \in Nodes /\ Stmt = prog.fns[f].stmts[s]
  <2>1. f \in Fns /\ s \in 1 .. Len(Fn.stmts) /\ Fn = prog.fns[f]
    BY <1>1, CurrentStmt
  <2> QED BY <1>1, <2>1, CurrentStmt DEF Stmt
<1>3. CASE \E how : Fails(how)
  BY <1>3, FailsSized
<1>4. CASE \A how \in Abnormal : ~fails(how)
  <2>1. /\ set_id(e) /\ Emit(new_regs(e), <<inst>>) /\ NextStmt /\ todo' = << >>
        /\ UNCHANGED <<prog, exprType, result>>
    BY <1>4 DEF EndLet, annotations
  <2>2. /\ \A how \in Abnormal : ~size_fails(type, how)
        /\ \A how \in Abnormal : ~reg_fails(e, how)
    BY <1>4
  <2>3. Placed(owner, slot)
    BY DEF Tracked
  <2>4. e \in 0 .. Len(entries) /\ (e # NULL => owner[e] = f)
    <3>1. e \in 0 .. Len(entries)
      BY <1>2, InvParts DEF AnnotationsOK, Fns
    <3>2. e # NULL => owner[e] = f
      BY <1>2, <2>3 DEF Placed
    <3> QED BY <3>1, <3>2
  <2>5. type.t \in IntTypes /\ type # NoType /\ type_sz(type) \in Sizes
    BY <2>2, SizeOK, NotNull DEF IntTypes
  <2>6. result[Stmt.value] \in Nat
    BY <1>2, InvParts DEF IrOK, Nodes
  <2>7. HasSize(ssaFns[f].regs, result[Stmt.value], type_sz(type))
    BY <1>1, <1>2, <2>5, ValueSized DEF Typed
  <2>8. e # NULL => entries[e].type = stmtType[f][s]
    BY <1>2 DEF TypeInv, LetTypes
  <2>9. stmtType[f][s] # NoType => type.t = stmtType[f][s].t
    <3>1. LetChecked(prog.fns[f].stmts[s], stmtType[f][s])
      BY <1>1, <1>2 DEF TypeInv, LetsChecked, LetDone
    <3> QED BY <1>1, <1>2, <3>1 DEF LetChecked
  <2> HIDE DEF e, type
  <2>10. e \in 1 .. Len(entries) /\ x \in Nat /\ new_regs(e) \in Seq(Sizes)
    BY <1>1, <1>2, <2>2, <2>4, RegOK
  <2>11. owner[e] = f /\ entries[e].type = stmtType[f][s] /\ e # 0
    BY <2>4, <2>8, <2>10 DEF NULL
  <2>12. inst \in Insts
    BY <2>5, <2>6, <2>10, InstOK
  <2>13. /\ inst.result = x /\ inst.args = <<result[Stmt.value]>> /\ inst.t = "copy"
         /\ inst.sz = type_sz(type)
    BY DEF Inst
  <2> HIDE DEF inst
  <2>14. PICK one \in Seq(Insts) : one = <<inst>>
    BY <2>12, OneElement
  <2>15. PICK r \in SSA_Fns : /\ ssaFns' = [ssaFns EXCEPT ![f] = r]
                              /\ r.regs = ssaFns[f].regs \o new_regs(e)
                              /\ r.insts = ssaFns[f].insts \o one
                              /\ r.params = ssaFns[f].params
    BY <1>1, <1>2, <2>1, <2>10, <2>14, EmitMakes
  <2>16. Typed(r.regs, x, entries[e].type)
    BY <1>1, <1>2, <2>2, <2>10, <2>11, <2>15, EntryRegSized
  <2>17. type_sz(type) = type_sz(entries[e].type)
    <3>1. stmtType[f][s] # NoType
      BY <2>11, <2>16, NotNull DEF Typed, IntTypes
    <3>2. type.t = entries[e].type.t
      BY <2>9, <2>11, <3>1
    <3> QED BY <3>2 DEF type_sz
  <2>18. HasSize(r.regs, result[Stmt.value], type_sz(type))
    <3>1. ssaFns[f].regs \in Seq(Sizes)
      BY <1>1, <1>2, CurrentFn
    <3>2. \A q, sz : HasSize(ssaFns[f].regs, q, sz) => HasSize(r.regs, q, sz)
      BY <2>10, <2>15, <3>1, SizeStays
    <3> QED BY <2>7, <3>2
  <2>19. \A i \in 1 .. Len(one) : InstSized(prog.fns, r.regs, one[i])
    <3>1. HasSize(r.regs, inst.result, inst.sz)
      BY <2>13, <2>16, <2>17 DEF Typed
    <3>2. \A k \in 1 .. Len(inst.args) : inst.args[k] = result[Stmt.value]
      BY <2>13
    <3>3. \A k \in 1 .. Len(inst.args) : HasSize(r.regs, inst.args[k], inst.sz)
      BY <2>13, <2>18, <3>2
    <3>4. InstSized(prog.fns, r.regs, inst)
      BY <2>13, <3>1, <3>3 DEF InstSized, ReadsSized
    <3>5. \A i \in 1 .. Len(one) : one[i] = inst
      BY <2>14
    <3> QED BY <3>4, <3>5
  <2>20. /\ Len(entries') = Len(entries)
         /\ \A d \in Mine(owner) :
              /\ entries'[d].type = entries[d].type
              /\ entries'[d].id = entries[d].id \/ Typed(r.regs, entries'[d].id, entries[d].type)
    BY <2>1, <2>10, <2>16, SetIdSized
  <2>21. UNCHANGED <<prog, phase, f>> /\ \A n \in Nodes : result'[n] = result[n]
    BY <2>1 DEF NextStmt
  <2> QED BY <1>1, <1>2, <2>1, <2>10, <2>14, <2>15, <2>19, <2>20, <2>21, ResultsNone, StepSized
<1> QED
  BY <1>3, <1>4 DEF EndLet

LEMMA TranslateParamSized ==
  ASSUME Inv, TypeInv, Grows, NEW own, NEW owner, NEW slot, Tracked(own, owner, slot),
         SizeInv(own, owner), TranslateParam
  PROVE  SizeInv(own, owner)'
<1> DEFINE e == paramEntry[f][p]
           x == sym_table_reg(e)
<1>1. phase = "translate" /\ f \in Fns /\ p \in 1 .. Len(Fn.params)
  BY ControlTypes DEF TranslateParam, AtParam, InFn, In, Fns
<1>2. CASE \E how : Fails(how)
  BY <1>2, FailsSized
<1>3. CASE \A how \in Abnormal : ~reg_fails(e, how)
  <2> DEFINE r == [ssaFns[f] EXCEPT !.regs = ssaFns[f].regs \o new_regs(e),
                                    !.params = Append(ssaFns[f].params, x)]
  <2>1. /\ set_id(e)
        /\ ssaFns' = [ssaFns EXCEPT ![f].regs = @ \o new_regs(e),
                                    ![f].params = Append(@, x)]
        /\ p' = p + 1 /\ UNCHANGED <<prog, phase, f, s, todo, exprType, result>>
    BY <1>3 DEF TranslateParam, annotations
  <2>2. Placed(owner, slot) /\ Walking(own)
    BY DEF Tracked
  <2>3. e \in 0 .. Len(entries) /\ (e # NULL => owner[e] = f)
    <3>1. paramEntry[f] \in Seq(0 .. Len(entries)) /\ Len(paramEntry[f]) = Len(Fn.params)
      BY <1>1, InvParts DEF AnnotationsOK, LoopsOK, Fns, Fn
    <3>2. e \in 0 .. Len(entries)
      BY <1>1, <3>1, ElementOfSeq
    <3>3. e # NULL => owner[e] = f
      BY <1>1, <2>2, <3>1 DEF Placed
    <3> QED BY <3>2, <3>3
  <2> HIDE DEF e
  <2>4. e \in 1 .. Len(entries) /\ x \in Nat /\ new_regs(e) \in Seq(Sizes)
    BY <1>1, <1>3, <2>3, RegOK
  <2>5. owner[e] = f
    BY <2>3, <2>4 DEF NULL
  <2>6. ssaFns' = [ssaFns EXCEPT ![f] = r]
    BY <1>1, <2>1, CurrentFn DEF SSA_Fns
  <2>7. r.regs = ssaFns[f].regs \o new_regs(e) /\ r.insts = ssaFns[f].insts
    BY <1>1, CurrentFn DEF SSA_Fns
  <2> HIDE DEF r
  <2>8. PICK none \in Seq(Insts) : none = << >>
    BY EmptySeq
  <2>9. r.insts = ssaFns[f].insts \o none
    BY <1>1, <2>7, <2>8, CurrentFn, ConcatEmptySeq
  <2>10. \A i \in 1 .. Len(none) : InstSized(prog.fns, r.regs, none[i])
    BY <2>8, EmptySeq
  <2>11. Typed(r.regs, x, entries[e].type)
    BY <1>1, <1>3, <2>4, <2>5, <2>7, EntryRegSized
  <2>12. /\ Len(entries') = Len(entries)
         /\ \A d \in Mine(owner) :
              /\ entries'[d].type = entries[d].type
              /\ entries'[d].id = entries[d].id \/ Typed(r.regs, entries'[d].id, entries[d].type)
    BY <2>1, <2>4, <2>11, SetIdSized
  <2>13. todo' = << >>
    <3>1. Len(Fn.params) \in Nat
      BY <1>1, InsideFn DEF Fns
    <3>2. todo # << >> => p > Len(Fn.params)
      BY <1>1, <2>2 DEF Walking
    <3> QED BY <1>1, <2>1, <3>1, <3>2
  <2>14. \A n \in Nodes : result'[n] = result[n]
    BY <2>1
  <2> QED BY <1>1, <2>1, <2>4, <2>6, <2>7, <2>8, <2>9, <2>10, <2>12, <2>13, <2>14, ResultsNone,
       StepSized
<1> QED
  BY <1>2, <1>3 DEF TranslateParam

(* Only the code counts where no function is being translated, or the one  *)
(* that is has nothing yet.                                                *)
LEMMA CodeKept ==
  ASSUME NEW own, NEW owner, SizeInv(own, owner), prog' = prog,
         Len(ssaFns') = Len(ssaFns),
         \A g \in 1 .. Len(ssaFns) : ssaFns'[g].regs = ssaFns[g].regs
                                     /\ ssaFns'[g].insts = ssaFns[g].insts
  PROVE  CodeSized'
<1>1. \A g \in 1 .. Len(ssaFns) : \A i \in 1 .. Len(ssaFns[g].insts) :
        InstSized(prog.fns, ssaFns[g].regs, ssaFns[g].insts[i])
  BY DEF SizeInv, CodeSized, InstsSized
<1>2. \A g \in 1 .. Len(ssaFns') : \A i \in 1 .. Len(ssaFns'[g].insts) :
        InstSized(prog'.fns, ssaFns'[g].regs, ssaFns'[g].insts[i])
  BY <1>1
<1> QED
  BY <1>2 DEF CodeSized, InstsSized

LEMMA FreshSized ==
  ASSUME NEW own, NEW owner, CodeSized', todo' = << >>,
         phase' = "translate" =>
           /\ \A e \in 1 .. Len(entries') : owner[e] = f' => entries'[e].id = 0
           /\ \A n \in Nodes' : own[n] = f' => result'[n] = 0
  PROVE  SizeInv(own, owner)'
<1>1. phase' = "translate" => EntrySizes(owner)' /\ NodeSizes(own)'
  BY DEF EntrySizes, Mine, NodeSizes, Nodes
<1> QED
  BY <1>1, ResultsNone DEF SizeInv

LEMMA IrLeaveFnSized ==
  ASSUME Inv, NEW own, NEW owner, NEW slot, Tracked(own, owner, slot), SizeInv(own, owner),
         Ir_LeaveFn
  PROVE  SizeInv(own, owner)'
<1> DEFINE r == [ssaFns[f] EXCEPT !.name = Fn.name]
<1>1. /\ phase = "translate" /\ f \in Fns /\ f' = f + 1 /\ todo' = << >>
      /\ ssaFns' = [ssaFns EXCEPT ![f] = r]
      /\ UNCHANGED <<prog, entries, result>>
  BY ControlTypes DEF Ir_LeaveFn, LeaveFn, BetweenStmts, InFn, In, NextFn, Fns
<1>2. r.regs = ssaFns[f].regs /\ r.insts = ssaFns[f].insts
  BY <1>1, CurrentFn DEF SSA_Fns
<1> HIDE DEF r
<1>3. CodeSized'
  <2>1. /\ Len(ssaFns') = Len(ssaFns)
        /\ \A g \in 1 .. Len(ssaFns) : ssaFns'[g] = IF g = f THEN r ELSE ssaFns[g]
    BY <1>1, CurrentFn, LenProperties
  <2> QED BY <1>1, <1>2, <2>1, CodeKept
<1>4. \A e \in 1 .. Len(entries') : owner[e] = f' => entries'[e].id = 0
  <2>1. f' \notin 1 .. f
    BY <1>1, Translating
  <2> QED BY <1>1, <2>1, Translating
<1>5. \A n \in Nodes' : own[n] = f' => result'[n] = 0
  <2>1. Nodes' = Nodes /\ f' > f
    BY <1>1, Translating DEF Nodes
  <2> QED BY <1>1, <2>1, Translating
<1> QED
  BY <1>1, <1>3, <1>4, <1>5, FreshSized

LEMMA AllocFnSized ==
  ASSUME Inv, NEW own, NEW owner, SizeInv(own, owner), AllocFn
  PROVE  SizeInv(own, owner)'
<1>1. phase' # "translate" /\ prog' = prog /\ ssaFns' = Append(ssaFns, SSA_Fn)
  BY DEF AllocFn, InFn, In, NextFn
<1>2. ssaFns \in Seq(SSA_Fns) /\ SSA_Fn \in SSA_Fns
  BY InvParts, EmptySingle DEF IrOK, Single
<1>3. /\ Len(ssaFns') = Len(ssaFns) + 1 /\ Len(ssaFns) \in Nat
      /\ \A g \in 1 .. Len(ssaFns) + 1 :
           ssaFns'[g] = IF g <= Len(ssaFns) THEN ssaFns[g] ELSE SSA_Fn
  BY <1>1, <1>2, OneMore
<1>4. InstsSized(prog.fns, SSA_Fn)
  <2>1. Len(SSA_Fn.insts) = 0
    BY EmptySeq DEF SSA_Fn
  <2> QED BY <2>1 DEF InstsSized
<1>5. \A g \in 1 .. Len(ssaFns') : InstsSized(prog'.fns, ssaFns'[g])
  BY <1>1, <1>3, <1>4 DEF SizeInv, CodeSized
<1> QED
  BY <1>1, <1>5 DEF SizeInv, CodeSized

LEMMA EndPhaseSized ==
  ASSUME Inv, NEW own, NEW owner, NEW slot, Tracked(own, owner, slot), SizeInv(own, owner),
         EndPhase, UNCHANGED irVars
  PROVE  SizeInv(own, owner)'
<1>1. /\ UNCHANGED <<prog, entries, todo, ssaFns, result>>
      /\ phase # "done" /\ phase' = NextPhase[phase] /\ f > Len(prog.fns)
  BY DEF EndPhase, annotations, irVars
<1>2. phase' = "translate" => phase = "alloc_fns"
  BY <1>1, ControlTypes DEF NextPhase, Phases
<1>3. CodeSized'
  BY <1>1, CodeKept
<1>4. todo' = << >>
  BY <1>1, InvParts, ControlTypes DEF WalkOK
<1>5. phase' = "translate" =>
        /\ \A e \in 1 .. Len(entries') : entries'[e].id = 0
        /\ \A n \in Nodes' : result'[n] = 0
  BY <1>1, <1>2 DEF Tracked, Unused, Nodes
<1> QED
  BY <1>3, <1>4, <1>5, FreshSized

(* Before the translation nothing but the code counts.                     *)
LEMMA EarlierSized ==
  ASSUME NEW own, NEW owner, SizeInv(own, owner), phase' # "translate", prog' = prog,
         UNCHANGED irVars, NEW owner2
  PROVE  SizeInv(own, owner2)'
<1>1. CodeSized'
  BY CodeKept DEF irVars
<1> QED
  BY <1>1 DEF SizeInv

LEMMA TranslateSized ==
  ASSUME Inv, TypeInv, Grows, NEW own, Owned(own), NEW owner, NEW slot, Tracked(own, owner, slot),
         SizeInv(own, owner), Ir_Next
  PROVE  SizeInv(own, owner)'
<1>1. CASE AllocFn \/ Ir_EnterFn \/ TranslateParam \/ TranslateStmt \/ Ir_LeaveFn
  BY <1>1, AllocFnSized, IrEnterFnSized, TranslateParamSized, IrStmtSized, IrLeaveFnSized
<1>2. CASE TranslateInt \/ TranslateVar \/ \E t \in {"binop", "funcall"} : TranslateArgs(t)
  BY <1>2, TranslateIntSized, TranslateVarSized, TranslateArgsSized
<1>3. CASE TranslateBinop \/ TranslateCall \/ EndLet \/ EndExpr \/ EndReturn
  BY <1>3, TranslateBinopSized, TranslateCallSized, EndLetSized, EndExprSized, EndReturnSized
<1> QED
  BY <1>1, <1>2, <1>3 DEF Ir_Next

-----------------------------------------------------------------------------
(* The theorem.                                                            *)
LEMMA SizesMean == ASSUME Inv, CodeSized PROVE OperandSizes
<1>1. DOMAIN ssaFns = 1 .. Len(ssaFns)
  BY InvParts, LenProperties DEF IrOK
<1>2. ASSUME NEW g \in DOMAIN ssaFns, NEW fn, fn = ssaFns[g], NEW inst \in Range(fn.insts)
      PROVE  /\ inst.result # 0 => fn.regs[inst.result] = inst.sz
             /\ inst.t \in Operations => \A r \in Range(inst.args) : fn.regs[r] = inst.sz
             /\ inst.t = "callfn" =>
                  /\ Len(inst.args) = Len(prog.fns[inst.fn[2]].params)
                  /\ \A k \in DOMAIN inst.args :
                       fn.regs[inst.args[k]] = type_sz(prog.fns[inst.fn[2]].params[k].type)
  <2>1. fn \in SSA_Fns
    BY <1>1, <1>2, InvParts, ElementOfSeq DEF IrOK
  <2>2. fn.insts \in Seq(Insts) /\ DOMAIN fn.insts = 1 .. Len(fn.insts)
    BY <2>1, LenProperties DEF SSA_Fns
  <2>3. PICK i \in 1 .. Len(fn.insts) : inst = fn.insts[i]
    BY <2>2 DEF Range
  <2>4. inst \in Insts
    BY <2>2, <2>3, ElementOfSeq
  <2>5. DOMAIN inst.args = 1 .. Len(inst.args)
    BY <2>4, LenProperties DEF Insts
  <2>6. InstSized(prog.fns, fn.regs, inst)
    BY <1>1, <1>2, <2>3 DEF CodeSized, InstsSized
  <2>7. ASSUME NEW r \in Range(inst.args) PROVE \E k \in 1 .. Len(inst.args) : r = inst.args[k]
    BY <2>5 DEF Range
  <2>8. inst.t \in Operations => \A r \in Range(inst.args) : fn.regs[r] = inst.sz
    BY <2>6, <2>7 DEF InstSized, ReadsSized, HasSize
  <2> QED BY <2>5, <2>6, <2>8 DEF InstSized, ReadsSized, HasSize
<1> QED
  BY <1>2 DEF OperandSizes, Operations

(* What is invariant with the ownership followed through.                  *)
Sized(own) == \E owner, slot : Tracked(own, owner, slot) /\ SizeInv(own, owner)

LEMMA InitSized == ASSUME Init, NEW own PROVE TypeInv /\ Sized(own)
<1>1. /\ phase = "declare" /\ entries = << >> /\ ssaFns = << >>
      /\ stmtVar = [g \in 1 .. Len(prog.fns) |-> [i \in 1 .. Len(prog.fns[g].stmts) |-> NULL]]
      /\ stmtType = [g \in 1 .. Len(prog.fns) |->
                       [i \in 1 .. Len(prog.fns[g].stmts) |-> prog.fns[g].stmts[i].type]]
      /\ exprType = [n \in 1 .. Len(prog.exprs) |-> NoType]
  BY DEF Init, InitNames, InitTypes, InitIr
<1>2. Len(entries) = 0 /\ Len(ssaFns) = 0
  BY <1>1, EmptySeq
<1>3. Untyped
  BY <1>1 DEF Untyped, Nodes, Fns
<1>4. FnEntries /\ FnPtrs
  BY <1>2 DEF FnEntries, FnPtrs
<1>5. LetTypes
  BY <1>1 DEF LetTypes, Fns
<1>6. LetsChecked /\ CallsPending
  BY <1>1 DEF LetsChecked, LetDone, CallsPending
<1>7. TypedNodes
  BY <1>1 DEF TypedNodes, Nodes
<1>8. PICK owner, slot : Tracked(own, owner, slot)
  BY InitFollowed DEF Followed
<1>9. SizeInv(own, owner)
  BY <1>1, <1>2 DEF SizeInv, CodeSized
<1> QED
  BY <1>3, <1>4, <1>5, <1>6, <1>7, <1>8, <1>9 DEF TypeInv, Sized

LEMMA NamesPhase == ASSUME Names_Next PROVE phase \in {"declare", "names"} /\ phase' = phase
<1>1. CASE DeclareFn \/ Names_EnterFn \/ InsertParam \/ Names_LeaveFn
  BY <1>1 DEF DeclareFn, Names_EnterFn, InsertParam, Names_LeaveFn, LeaveFn, AtParam,
              BetweenStmts, InFn, In, NextFn, Stop
<1>2. CASE ResolveLet \/ ResolveStmt
  BY <1>2 DEF ResolveLet, ResolveStmt, AtStmt, BetweenStmts, InFn, In, ResolveValue, NextStmt, Stop
<1>3. CASE \/ \E t \in {"var", "funcall"} : ResolveName(t)
           \/ \E t \in {"int", "binop"} : ResolveOperands(t)
  BY <1>3 DEF ResolveName, ResolveOperands, At, In, Continue, Stop
<1> QED
  BY <1>1, <1>2, <1>3 DEF Names_Next

LEMMA TypesPhase ==
  ASSUME Types_Next \/ CheckReturns
  PROVE  phase \in {"signatures", "types", "returns"} /\ phase' = phase
<1>1. CASE Types_Next
  <2>1. phase' = phase
    BY <1>1, TypesKeep DEF Pointers
  <2>2. phase \in {"signatures", "types"}
    BY <1>1, TypesKeep DEF BuildFnType, InFn, In
  <2> QED BY <2>1, <2>2
<1>2. CASE CheckReturns
  BY <1>2 DEF CheckReturns, InFn, In, NextFn, Stop
<1> QED
  BY <1>1, <1>2

LEMMA TypeInvKept == ASSUME TypeInv, UNCHANGED vars PROVE TypeInv'
<1>1. UNCHANGED <<prog, phase, f, s, todo, entries, annotations>>
  BY DEF vars, annotations
<1> QED
  BY <1>1, TypeInvSame

LEMMA NextSized ==
  ASSUME Inv, TypeInv, NEW own, Owned(own), Sized(own), [Next]_vars
  PROVE  TypeInv' /\ Sized(own)'
<1>1. PICK owner, slot : Tracked(own, owner, slot) /\ SizeInv(own, owner)
  BY DEF Sized
<1>2. Placed(owner, slot)
  BY <1>1 DEF Tracked
<1>3. CASE UNCHANGED vars
  <2>1. UNCHANGED <<prog, phase, f, p, s, todo, scopes, entries, annotations, irVars>>
    BY <1>3 DEF vars, annotations, irVars
  <2>2. Tracked(own, owner, slot)'
    BY <1>1, <2>1, TrackedSame
  <2>3. UNCHANGED <<ssaFns, result, exprType>>
    BY <2>1 DEF annotations, irVars
  <2>4. ResultsFirst => ResultsFirst'
    BY <2>1, <2>3 DEF ResultsFirst, Reads, Expr, Stmt, Fn, Nodes
  <2>5. SizeInv(own, owner)'
    <3>1. CASE phase = "translate" /\ f \in Fns
      <4>1. ResultsFirst'
        BY <1>1, <2>4, <3>1 DEF SizeInv
      <4> QED BY <1>1, <2>1, <2>3, <4>1, IdleSized
    <3>2. CASE ~(phase = "translate" /\ f \in Fns)
      <4>1. CodeSized'
        BY <1>1, <2>1, <2>3, CodeKept
      <4> QED BY <2>1, <3>2, <4>1 DEF SizeInv, Fns
    <3> QED BY <3>1, <3>2
  <2> QED BY <1>3, <2>2, <2>5, TypeInvKept DEF Sized
<1>4. CASE Next
  <2>1. TypeInv' /\ Grows
    BY <1>2, <1>4, NextTyped
  <2>2. CASE Names_Next /\ UNCHANGED irVars
    <3>1. PICK owner2, slot2 : Tracked(own, owner2, slot2)'
      BY <1>1, <2>2, NamesTracked
    <3>2. prog' = prog /\ phase' # "translate"
      BY <1>4, <2>2, ProgKept, NamesPhase
    <3>3. SizeInv(own, owner2)'
      BY <1>1, <2>2, <3>2, EarlierSized
    <3> QED BY <2>1, <3>1, <3>3 DEF Sized
  <2>3. CASE (Types_Next \/ CheckReturns) /\ UNCHANGED irVars
    <3>1. Tracked(own, owner, slot)'
      BY <1>1, <2>3, TypesTracked, ReturnsTracked
    <3>2. prog' = prog /\ phase' # "translate"
      BY <1>4, <2>3, ProgKept, TypesPhase
    <3>3. SizeInv(own, owner)'
      BY <1>1, <2>3, <3>2, EarlierSized
    <3> QED BY <2>1, <3>1, <3>3 DEF Sized
  <2>4. CASE EndPhase /\ UNCHANGED irVars
    <3>1. Tracked(own, owner, slot)'
      BY <1>1, <2>4, EndPhaseTracked
    <3>2. SizeInv(own, owner)'
      BY <1>1, <2>4, EndPhaseSized
    <3> QED BY <2>1, <3>1, <3>2 DEF Sized
  <2>5. CASE Ir_Next
    <3>1. Tracked(own, owner, slot)'
      BY <1>1, <2>5, TranslateTracked
    <3>2. SizeInv(own, owner)'
      BY <1>1, <2>1, <2>5, TranslateSized
    <3> QED BY <2>1, <3>1, <3>2 DEF Sized
  <2> QED BY <1>4, <2>2, <2>3, <2>4, <2>5 DEF Next, Semantics
<1> QED
  BY <1>3, <1>4

(* An instruction never mixes sizes, for every program whose functions do  *)
(* not share nodes, as AcceptedIsSeparate proves of all the parser         *)
(* accepts: translate_expr and translate_stmt make each register with the  *)
(* size of the type resolve_types gave the node or entry it is for, and    *)
(* what is read together was found there to have one type, whichever pass  *)
(* the run has reached or stopped in.                                      *)
THEOREM SizesAgree == Spec => [](Separate(prog) => OperandSizes)
<1> DEFINE RInv == Inv /\ \A own : Owned(own) => TypeInv /\ Sized(own)
<1>1. Init => RInv
  BY InitOK, InitSized
<1>2. RInv /\ [Next]_vars => RInv'
  <2>1. ASSUME RInv, [Next]_vars PROVE RInv'
    <3>1. Inv'
      BY <2>1, NextOK
    <3>2. ASSUME NEW own, Owned(own)' PROVE TypeInv' /\ Sized(own)'
      <4>1. Owned(own)
        BY <2>1, <3>2, OwnedKept
      <4> QED BY <2>1, <4>1, NextSized
    <3> QED BY <3>1, <3>2
  <2> QED BY <2>1
<1>3. RInv => (Separate(prog) => OperandSizes)
  BY SizesMean DEF Separate, Owned, Nodes, Fns, Sized, SizeInv
<1> HIDE DEF RInv
<1> QED
  BY <1>1, <1>2, <1>3, PTL DEF Spec

===============================================================================
